------------------------------- MODULE Memory ------------------------------
(***************************************************************************)
(* The frame allocator (kernel/pmm.c) and the page tables (kernel/vmm.c)   *)
(* as operators on one value m:                                            *)
(*                                                                         *)
(*   m.used   the frames whose bit is set in pmm_bitmap                    *)
(*   m.free   the counter pmm_free_frames                                  *)
(*   m.table  the frame of the page directory and of each page table       *)
(*   m.pte    the frame each page table entry maps its page to             *)
(*   m.bytes  what each frame holds: whose data was last written to it     *)
(*                                                                         *)
(* 0 is a null entry or address.  Virtual addresses are page numbers.  The *)
(* pages below HeapStart belong to the first gigabyte, which boot.asm      *)
(* identity-maps with 2 MB pages; the ones above it share one page         *)
(* directory, as the heap and user programs do in the code.                *)
(***************************************************************************)
EXTENDS Naturals, FiniteSets, FiniteSetsExt

CONSTANTS
  NFrames,     \* frames that are free when heap_init is called
  HeapStart,   \* KERNEL_HEAP_START
  PageEnd,     \* USER_MAX_VADDR
  PtSpan       \* pages of a page table

ASSUME MemoryAssumption ==
  /\ NFrames \in Nat /\ HeapStart \in Nat /\ PageEnd \in Nat
  /\ PtSpan \in Nat \ {0}
  /\ HeapStart % PtSpan = 0
  /\ HeapStart < PageEnd

Frames == 1 .. NFrames
Pages == 0 .. PageEnd - 1

\* The page directory has a key of its own beside the page tables'.
PtOf(p) == p \div PtSpan
PD == PageEnd
Tables == {PD} \cup {PtOf(p) : p \in HeapStart .. PageEnd - 1}

Memories ==
  [used : SUBSET Frames, free : 0 .. NFrames,
   table : [Tables -> Frames \cup {0}], pte : [Pages -> Frames \cup {0}],
   bytes : [Frames -> {"none", "table", "zero", "heap", "segment1", "segment2"}]]

InitMemory ==
  [used |-> {}, free |-> NFrames,
   table |-> [t \in Tables |-> 0], pte |-> [p \in Pages |-> 0],
   bytes |-> [f \in Frames |-> "none"]]

----------------------------------------------------------------------------
(* pmm.c                                                                   *)

\* The frame pmm_alloc_frame returns: the first whose bit is clear, or 0.
Available(m) == IF m.used = Frames THEN 0 ELSE Min(Frames \ m.used)

Taken_Mutant(m, f) == [m EXCEPT !.free = @ - 1]

\* pmm_alloc_frame's effect when it returns f.
Taken(m, f) == [m EXCEPT !.used = @ \cup {f}, !.free = @ - 1]

pmm_free_frame(m, f) ==
  IF f \in m.used THEN [m EXCEPT !.used = @ \ {f}, !.free = @ + 1] ELSE m

\* A write to a whole frame.
Written(m, f, what) == [m EXCEPT !.bytes[f] = what]

----------------------------------------------------------------------------
(* vmm.c                                                                   *)

\* Covered by a 2 MB page of the boot page tables.
Huge(p) == p < HeapStart

\* vmm_get_or_create_next_table: a missing table takes a frame and is zeroed.
\* It stays missing when there is no frame.
NextTable(m, t) ==
  LET f == Available(m)
  IN  IF m.table[t] # 0 \/ f = 0 THEN m
      ELSE Written([Taken(m, f) EXCEPT !.table[t] = f], f, "table")

\* vmm_map_page: gives up, silently, at a missing table or a 2 MB page.
vmm_map_page(m, p, f) ==
  LET d == NextTable(m, PD)
      t == NextTable(d, PtOf(p))
  IN  IF Huge(p) THEN m
      ELSE IF d.table[PD] = 0 THEN d
      ELSE IF t.table[PtOf(p)] = 0 THEN t
      ELSE [t EXCEPT !.pte[p] = f]

\* vmm_unmap_page(p, 1).  A 2 MB page is left alone: it has no entry in pte.
vmm_unmap_page(m, p) ==
  IF m.pte[p] = 0 THEN m
  ELSE pmm_free_frame([m EXCEPT !.pte[p] = 0], m.pte[p])

\* A 2 MB page maps p to itself.  QEMU_MEM ends where user addresses begin,
\* so the result is not the address of any frame.
vmm_get_mapping(m, p) == IF Huge(p) THEN NFrames + 1 + p ELSE m.pte[p]

\* unmap_range (user_mode.c) and the rollback of heap_map_pages (heap.c):
\* vmm_unmap_page on every mapped page of a range.  The order does not matter
\* because no two entries hold the same frame.
UnmapPages(m, pages) ==
  LET gone == {m.pte[p] : p \in pages} \cap m.used
  IN  [m EXCEPT !.pte = [p \in Pages |-> IF p \in pages THEN 0 ELSE @[p]],
                !.used = @ \ gone,
                !.free = @ + Cardinality(gone)]
============================================================================
