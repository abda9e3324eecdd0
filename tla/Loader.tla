------------------------------- MODULE Loader ------------------------------
(***************************************************************************)
(* Running a user program (user_mode_run_path in arch/x86_64/user_mode.c)  *)
(* and growing the kernel heap (heap_expand in kernel/heap.c): the two     *)
(* users of the frame allocator and the page tables while the kernel runs. *)
(*                                                                         *)
(* A program is the sequence of its program headers.  The kernel switches  *)
(* tasks only where it blocks, so loading is not interrupted by another    *)
(* user of memory, but the heap may grow while the program runs.           *)
(*                                                                         *)
(* Segments lie where user/linker.ld puts them, away from the heap.        *)
(***************************************************************************)
EXTENDS Memory, Sequences

CONSTANTS
  HeapMax,     \* the end of the heap's range
  HeapChunk,   \* pages of KERNEL_HEAP_INITIAL_SIZE, the least expansion
  MaxGrow,     \* pages of the largest expansion considered
  UserStart,   \* where user programs are linked
  StackStart   \* USER_EXEC_STACK_BOTTOM; the stack ends at PageEnd

ASSUME LoaderAssumption ==
  /\ HeapMax \in Nat /\ UserStart \in Nat /\ StackStart \in Nat
  /\ HeapChunk \in Nat \ {0, 1} /\ MaxGrow \in Nat
  /\ HeapStart + HeapChunk <= HeapMax /\ HeapChunk <= MaxGrow
  /\ HeapMax <= UserStart /\ UserStart < StackStart /\ StackStart < PageEnd

VARIABLES
  mem,            \* frames and page tables
  pc,
  prog, seg,      \* the program and the header being loaded
  addr,           \* the page map_range or heap_map_pages has come to
  mapped_begin, mapped_end,
  heap_mapped_end,
  grow,           \* the pages heap_map_pages is to map
  back,           \* where heap_expand returns to
  orphan          \* frames heap_map_pages took and could not map

loaderVars == <<prog, seg, mapped_begin, mapped_end>>
heapVars == <<heap_mapped_end, grow, back, orphan>>
vars == <<mem, pc, addr, loaderVars, heapVars>>

\* PT_LOAD headers by their first and last page, one in a 2 MB page and one
\* on the stack among them; headers that are skipped; and headers that are
\* refused before anything is mapped.
Headers ==
  [kind : {"load"}, lo : UserStart .. StackStart, hi : UserStart .. StackStart]
    \cup {[kind |-> "load", lo |-> HeapStart - 1, hi |-> HeapStart - 1]}
    \cup {[kind |-> k, lo |-> 0, hi |-> 0] : k \in {"skip", "bad"}}

Programs ==
  {s \in UNION {[1 .. n -> Headers] : n \in 1 .. 2} :
     \A i \in DOMAIN s : s[i].lo <= s[i].hi}

Bytes(i) == IF i = 1 THEN "segment1" ELSE "segment2"

\* Every variable has its type: table entries and mappings name frames.
TypeOK ==
  /\ mem \in Memories
  /\ pc \in {"idle", "header", "map", "user", "heap"}
  /\ \A i \in DOMAIN prog : prog[i] \in Headers
  /\ seg \in 0 .. Len(prog) + 1
  /\ addr \in 0 .. PageEnd
  /\ mapped_begin \in 0 .. PageEnd /\ mapped_end \in 0 .. PageEnd
  /\ heap_mapped_end \in HeapStart .. HeapMax
  /\ grow \in 0 .. MaxGrow
  /\ back \in {"idle", "user"}
  /\ orphan \subseteq Frames

\* heap_init is called with an empty heap.
Init ==
  /\ mem = InitMemory
  /\ pc = "idle"
  /\ prog = <<>> /\ seg = 0
  /\ addr = 0
  /\ mapped_begin = 0 /\ mapped_end = 0
  /\ heap_mapped_end = HeapStart
  /\ grow = 0 /\ back = "idle"
  /\ orphan = {}

----------------------------------------------------------------------------
(* heap_expand                                                             *)

\* The bound on the heap's size.
HeapRoom(n) == heap_mapped_end + n <= HeapMax

HeapExpand(n) ==
  /\ pc \in {"idle", "user"}
  /\ HeapRoom(n)
  /\ pc' = "heap"
  /\ back' = pc
  /\ grow' = n
  /\ addr' = heap_mapped_end
  /\ UNCHANGED <<mem, loaderVars, heap_mapped_end, orphan>>

HeapLast == heap_mapped_end + grow

\* One round of heap_map_pages.  The result of vmm_map_page is not checked.
HeapMapPage ==
  LET phys == Available(mem)
      m == vmm_map_page(Taken(mem, phys), addr, phys)
  IN  /\ pc = "heap"
      /\ addr < HeapLast
      /\ phys # 0
      /\ IF m.pte[addr] = phys
         THEN mem' = Written(m, phys, "heap") /\ UNCHANGED orphan
         ELSE mem' = m /\ orphan' = orphan \cup {phys}
      /\ addr' = addr + 1
      /\ UNCHANGED <<pc, loaderVars, heap_mapped_end, grow, back>>

\* The rollback when there is no frame left.
HeapRollback == mem' = UnmapPages(mem, heap_mapped_end .. addr - 1)

HeapMapFail ==
  /\ pc = "heap"
  /\ addr < HeapLast
  /\ Available(mem) = 0
  /\ HeapRollback
  /\ pc' = back
  /\ addr' = 0 /\ grow' = 0 /\ back' = "idle"
  /\ UNCHANGED <<loaderVars, heap_mapped_end, orphan>>

HeapMapDone ==
  /\ pc = "heap"
  /\ addr = HeapLast
  /\ heap_mapped_end' = HeapLast
  /\ pc' = back
  /\ addr' = 0 /\ grow' = 0 /\ back' = "idle"
  /\ UNCHANGED <<mem, loaderVars, orphan>>

----------------------------------------------------------------------------
(* user_mode_run_path                                                      *)

\* The file has been read and its ELF header is valid.
RunPath(p) ==
  /\ pc = "idle"
  /\ heap_mapped_end > HeapStart
  /\ prog' = p /\ seg' = 1
  /\ mapped_begin' = 0 /\ mapped_end' = 0
  /\ pc' = "header"
  /\ UNCHANGED <<mem, addr, heapVars>>

\* The pages of the range being mapped: a segment's, or the stack's.
First == IF seg > Len(prog) THEN StackStart ELSE prog[seg].lo
Last == IF seg > Len(prog) THEN PageEnd - 1 ELSE prog[seg].hi

\* map_load_segment's early returns ...
SkipHeader ==
  /\ pc = "header"
  /\ seg <= Len(prog) /\ prog[seg].kind = "skip"
  /\ seg' = seg + 1
  /\ UNCHANGED <<mem, pc, addr, prog, mapped_begin, mapped_end, heapVars>>

\* The locals of user_mode_run_path are gone when it returns.
Return ==
  /\ pc' = "idle"
  /\ prog' = <<>> /\ seg' = 0
  /\ addr' = 0
  /\ mapped_begin' = 0 /\ mapped_end' = 0
  /\ UNCHANGED heapVars

\* The pages of the segments loaded so far, and what lies between them.
Span == IF mapped_begin # 0 THEN mapped_begin .. mapped_end - 1 ELSE {}

BadHeader ==
  /\ pc = "header"
  /\ seg <= Len(prog) /\ prog[seg].kind = "bad"
  /\ mem' = UnmapPages(mem, Span)
  /\ Return

\* ... and its call of map_range, or the one for the stack.
MapRange ==
  /\ pc = "header"
  /\ seg <= Len(prog) => prog[seg].kind = "load"
  /\ addr' = First
  /\ pc' = "map"
  /\ UNCHANGED <<mem, loaderVars, heapVars>>

\* The memory after one round of map_range's loop, up to its check: what was
\* mapped at addr is unmapped and freed, and a zeroed frame mapped there.
Vacated == vmm_unmap_page(mem, addr)
Phys == Available(Vacated)
Mapped == vmm_map_page(Written(Taken(Vacated, Phys), Phys, "zero"), addr, Phys)

\* The two tests of the round.
MapSucceeds == Phys # 0 /\ vmm_get_mapping(Mapped, addr) = Phys

MoreToMap_Mutant == addr < Last

MoreToMap == addr <= Last

MapPage ==
  /\ pc = "map"
  /\ MoreToMap
  /\ MapSucceeds
  /\ mem' = Mapped
  /\ addr' = addr + 1
  /\ UNCHANGED <<pc, loaderVars, heapVars>>

Abandoned_Mutant == IF Phys = 0 THEN Vacated ELSE Mapped

\* What map_range gives back itself when it fails: the frame it could not
\* map.  The pages of its own range before addr follow below.
Abandoned == IF Phys = 0 THEN Vacated ELSE pmm_free_frame(Mapped, Phys)

\* There is no frame, or none for a page table, or the page lies in a 2 MB
\* page.  map_range and then user_mode_run_path undo what they mapped.
MapFail ==
  /\ pc = "map"
  /\ MoreToMap
  /\ ~MapSucceeds
  /\ mem' = UnmapPages(UnmapPages(Abandoned, First .. addr - 1), Span)
  /\ Return

NewBegin_Mutant == IF mapped_begin = 0 THEN First ELSE mapped_begin

NewBegin ==
  IF mapped_begin = 0 \/ First < mapped_begin THEN First ELSE mapped_begin

NewEnd == IF Last + 1 > mapped_end THEN Last + 1 ELSE mapped_end

\* The segment's bytes are copied through the new mapping.
Copied ==
  LET into == {mem.pte[p] : p \in First .. Last}
  IN  [mem EXCEPT !.bytes =
         [f \in Frames |-> IF f \in into THEN Bytes(seg) ELSE @[f]]]

SegmentDone ==
  /\ pc = "map" /\ ~MoreToMap
  /\ seg <= Len(prog)
  /\ mem' = Copied
  /\ mapped_begin' = NewBegin
  /\ mapped_end' = NewEnd
  /\ seg' = seg + 1
  /\ addr' = 0
  /\ pc' = "header"
  /\ UNCHANGED <<prog, heapVars>>

\* ring3_enter.
Enter ==
  /\ pc = "map" /\ ~MoreToMap
  /\ seg > Len(prog)
  /\ addr' = 0
  /\ pc' = "user"
  /\ UNCHANGED <<mem, loaderVars, heapVars>>

\* ring3_enter has returned.
Leave ==
  /\ pc = "user"
  /\ mem' = UnmapPages(UnmapPages(mem, StackStart .. PageEnd - 1), Span)
  /\ Return

Next ==
  \/ \E n \in HeapChunk .. MaxGrow : HeapExpand(n)
  \/ HeapMapPage \/ HeapMapFail \/ HeapMapDone
  \/ \E p \in Programs : RunPath(p)
  \/ SkipHeader \/ BadHeader \/ MapRange
  \/ MapPage \/ MapFail \/ SegmentDone \/ Enter \/ Leave

Spec == Init /\ [][Next]_vars

----------------------------------------------------------------------------
MappedPages == {p \in Pages : mem.pte[p] # 0}
TableFrames == {mem.table[t] : t \in Tables} \ {0}
PageFrames == {mem.pte[p] : p \in MappedPages}

\* No step writes to a frame of the kernel for a user program: page tables
\* stay page tables, and mapped heap pages keep what the heap wrote there.
KernelIntact ==
  /\ \A f \in TableFrames : mem.bytes[f] = "table"
  /\ \A p \in MappedPages : p \in HeapStart .. HeapMax - 1
                              => mem.bytes[mem.pte[p]] = "heap"

\* A frame in use is a page table, or is mapped at exactly one page, or is one
\* that heap_map_pages could not map; every other frame is free.  So no frame
\* leaks on any of the loader's failure paths, and none is used twice: the
\* kernel's frames keep their contents.  And pmm_free_frames is the number of
\* clear bits of the bitmap.
FrameOwnership ==
  /\ TypeOK
  /\ mem.used = TableFrames \cup PageFrames \cup orphan
  /\ Cardinality(TableFrames \cup PageFrames \cup orphan) =
       Cardinality({t \in Tables : mem.table[t] # 0})
         + Cardinality(MappedPages) + Cardinality(orphan)
  /\ mem.free = Cardinality(Frames \ mem.used)
  /\ KernelIntact

\* Whatever happened to a program, its pages are gone.
NothingLeft == \A p \in MappedPages : p \notin UserStart .. PageEnd - 1

LoadedPages(i) ==
  IF i > Len(prog) THEN StackStart .. PageEnd - 1
  ELSE IF prog[i].kind = "load" THEN prog[i].lo .. prog[i].hi ELSE {}

\* A program's pages are gone when user_mode_run_path returns, however it
\* returns, so that the next program starts in an empty address space.  When a
\* program is entered, every page of its segments and of its stack is mapped;
\* and if no two of them share a page, each segment has its own bytes and the
\* stack is zeroed.
ProgramReady ==
  /\ pc = "idle" => NothingLeft
  /\ pc = "user" =>
       LET parts == 1 .. Len(prog) + 1
           apart == \A i, j \in parts :
                      i # j => LoadedPages(i) \cap LoadedPages(j) = {}
       IN  \A i \in parts : \A p \in LoadedPages(i) :
             /\ p \in MappedPages
             /\ apart => mem.bytes[mem.pte[p]] =
                           IF i > Len(prog) THEN "zero" ELSE Bytes(i)

\* "If a physical frame can be allocated, the mapping succeeds": the pages of
\* the heap are mapped (the comment in heap_map_pages).
HeapMapped == \A p \in HeapStart .. heap_mapped_end - 1 : p \in MappedPages
============================================================================
