-------------------------------- MODULE Heap -------------------------------
(***************************************************************************)
(* The kernel heap (kernel/heap.c): a doubly linked list of blocks, first  *)
(* fit, split on allocation, coalesced on release, expanded on demand.     *)
(*                                                                         *)
(* Addresses and sizes count units of HEAP_ALIGN bytes.  0 is the null     *)
(* pointer.  The domain of `blocks' is the set of addresses that hold the  *)
(* header of a linked block, so magic is not modelled: following a pointer *)
(* out of the domain is an error.                                          *)
(*                                                                         *)
(* Callers free what kmalloc gave them, once.  heap_map_pages may fail, as *)
(* Loader shows; here it is a choice.                                      *)
(***************************************************************************)
EXTENDS Naturals, FiniteSets, FiniteSetsExt

CONSTANTS
  Base,       \* KERNEL_HEAP_START
  Limit,      \* heap_max_end
  Header,     \* sizeof(heap_block_t)
  MinSplit,   \* HEAP_MIN_SPLIT
  Page,       \* PAGE_SIZE
  Chunk,      \* KERNEL_HEAP_INITIAL_SIZE
  MaxSize     \* the largest request considered

ASSUME HeapAssumption ==
  /\ Base \in Nat \ {0} /\ Limit \in Nat /\ Header \in Nat \ {0}
  /\ MinSplit \in Nat \ {0} /\ Page \in Nat \ {0} /\ MaxSize \in Nat
  /\ Chunk \in Nat /\ Chunk % Page = 0
  /\ Header < Chunk /\ Base + Chunk <= Limit

VARIABLES
  blocks,            \* the headers: size, free, prev, next
  heap_mapped_end,
  live               \* what is allocated: the requested size by pointer

heapVars == <<blocks, heap_mapped_end, live>>

heap_first == Base

Addresses == Base .. Limit - 1
Blocks == [size : 0 .. Limit, free : BOOLEAN,
           prev : {0} \cup Addresses, next : {0} \cup Addresses]

\* Every variable has its type: block headers and their links lie in the heap.
HeapTypeOK ==
  /\ DOMAIN blocks \subseteq Addresses
  /\ \A a \in DOMAIN blocks : blocks[a] \in Blocks
  /\ heap_mapped_end \in Base .. Limit
  /\ DOMAIN live \subseteq Addresses
  /\ \A p \in DOMAIN live : live[p] \in 1 .. MaxSize

----------------------------------------------------------------------------
(* The list operations, on a list b of blocks.                             *)

Without(b, a) == [x \in DOMAIN b \ {a} |-> b[x]]
With(b, a, blk) == [x \in DOMAIN b \cup {a} |-> IF x = a THEN blk ELSE b[x]]

\* The list in the order of the next pointers; 0 after its end.
Walk(b) ==
  LET at[n \in Nat] == IF n = 0 THEN heap_first
                       ELSE IF at[n - 1] = 0 THEN 0 ELSE b[at[n - 1]].next
  IN  [n \in 0 .. Cardinality(DOMAIN b) |-> at[n]]

Fits(b, a, size) == a # 0 /\ b[a].free /\ b[a].size >= size

\* heap_find_free_block: first fit, or 0.
FindFree(b, size) ==
  LET w == Walk(b)
      fit == {n \in DOMAIN w : Fits(b, w[n], size)}
  IN  IF fit = {} THEN 0 ELSE w[Min(fit)]

\* heap_last_block.
LastBlock(b) == CHOOSE a \in {Walk(b)[n] : n \in DOMAIN Walk(b)} \ {0} : b[a].next = 0

\* Whether the rest is worth a block of its own.
SplitAt(b, a, size) == b[a].size - size >= Header + MinSplit

SetPrev_Mutant(b, p, a) == b

\* p->prev = a, where p may be null.
SetPrev(b, p, a) == IF p = 0 THEN b ELSE [b EXCEPT ![p].prev = a]

Split_Mutant(b, a, size) ==
  LET rest == a + size
      blk == [size |-> b[a].size - size - Header, free |-> TRUE,
              prev |-> a, next |-> b[a].next]
  IN  IF ~SplitAt(b, a, size) THEN b
      ELSE [SetPrev(With(b, rest, blk), b[a].next, rest)
              EXCEPT ![a].next = rest, ![a].size = size]

\* heap_split_block.
Split(b, a, size) ==
  LET rest == a + Header + size
      blk == [size |-> b[a].size - size - Header, free |-> TRUE,
              prev |-> a, next |-> b[a].next]
  IN  IF ~SplitAt(b, a, size) THEN b
      ELSE [SetPrev(With(b, rest, blk), b[a].next, rest)
              EXCEPT ![a].next = rest, ![a].size = size]

\* heap_coalesce_with_next.
CoalesceNext(b, a) ==
  LET n == b[a].next
  IN  IF n = 0 \/ ~b[n].free THEN b
      ELSE Without([SetPrev(b, b[n].next, a)
                      EXCEPT ![a].size = @ + Header + b[n].size,
                             ![a].next = b[n].next], n)

Coalesce_Mutant(b, a) == CoalesceNext(b, a)

\* heap_coalesce.
Coalesce(b, a) ==
  LET c == CoalesceNext(b, a)
      p == c[a].prev
  IN  IF p # 0 /\ c[p].free THEN CoalesceNext(c, p) ELSE c

----------------------------------------------------------------------------
(* heap_expand                                                             *)

AlignUp(n) == ((n + Page - 1) \div Page) * Page

ExpandSize_Mutant(size) == LET n == AlignUp(size) IN IF n < Chunk THEN Chunk ELSE n

ExpandSize(size) ==
  LET n == AlignUp(Header + size) IN IF n < Chunk THEN Chunk ELSE n

HasRoom(size) == heap_mapped_end + ExpandSize(size) <= Limit

\* The new region becomes a block, joined to the last one if that is free.
Expanded(b, size) ==
  LET new == heap_mapped_end
      last == LastBlock(b)
      linked == With([b EXCEPT ![last].next = new], new,
                     [size |-> ExpandSize(size) - Header, free |-> TRUE,
                      prev |-> last, next |-> 0])
  IN  IF b[last].free THEN CoalesceNext(linked, last) ELSE linked

\* heap_init: the first expansion, into an empty list.
HeapInit ==
  /\ blocks = [a \in {heap_first} |->
                 [size |-> Chunk - Header, free |-> TRUE, prev |-> 0, next |-> 0]]
  /\ heap_mapped_end = Base + Chunk
  /\ live = <<>>

----------------------------------------------------------------------------
(* kmalloc and kfree                                                       *)

\* kmalloc takes block a of b: it is split, and its payload handed out.
Take(b, a, size) ==
  /\ blocks' = [Split(b, a, size) EXCEPT ![a].free = FALSE]
  /\ live' = With(live, a + Header, size)

\* A block is free.
Malloc(size) ==
  LET a == FindFree(blocks, size)
  IN  /\ a # 0
      /\ Take(blocks, a, size)
      /\ UNCHANGED heap_mapped_end

\* No block is, and the heap grows.  The second search is kmalloc's own.
MallocExpand(size) ==
  LET b == Expanded(blocks, size)
      a == FindFree(b, size)
  IN  /\ FindFree(blocks, size) = 0
      /\ HasRoom(size)
      /\ heap_mapped_end' = heap_mapped_end + ExpandSize(size)
      /\ IF a # 0 THEN Take(b, a, size) ELSE blocks' = b /\ UNCHANGED live

\* kfree of an allocated pointer.
Free(ptr) ==
  /\ ptr \in DOMAIN live
  /\ blocks' = Coalesce([blocks EXCEPT ![ptr - Header].free = TRUE], ptr - Header)
  /\ live' = Without(live, ptr)
  /\ UNCHANGED heap_mapped_end

\* A second kfree while the block is still there is ignored, and a kmalloc
\* that fails changes nothing.
HeapNext ==
  \/ \E size \in 1 .. MaxSize : Malloc(size) \/ MallocExpand(size)
  \/ \E ptr \in Addresses : Free(ptr)

HeapSpec == HeapInit /\ [][HeapNext]_heapVars

----------------------------------------------------------------------------
\* The blocks tile the mapped heap: each ends where the next begins, the last
\* at heap_mapped_end, and prev is the inverse of next.  No byte of the heap is
\* lost, none belongs to two blocks, and the list has no cycle.
Tiling ==
  /\ heap_first \in DOMAIN blocks /\ blocks[heap_first].prev = 0
  /\ \A a \in DOMAIN blocks :
       LET end == a + Header + blocks[a].size
       IN  \/ blocks[a].next = 0 /\ end = heap_mapped_end
           \/ /\ blocks[a].next = end
              /\ end \in DOMAIN blocks
              /\ blocks[end].prev = a

\* The blocks that are not free are the ones handed out and not yet freed,
\* each at least as large as it was asked for.
LiveExact ==
  /\ {a \in DOMAIN blocks : ~blocks[a].free} = {p - Header : p \in DOMAIN live}
  /\ \A p \in DOMAIN live : blocks[p - Header].size >= live[p]

\* No two neighbours are free.
Coalesced ==
  \A a \in DOMAIN blocks :
    blocks[a].next # 0 => ~(blocks[a].free /\ blocks[blocks[a].next].free)

\* The block list is sound after any sequence of kmalloc and kfree: its blocks
\* tile the mapped heap, those not free are the ones handed out, and no two
\* neighbours are free, so that any sequence of releases leaves the heap as
\* little fragmented as it can be.
BlocksExact == HeapTypeOK /\ Tiling /\ LiveExact /\ Coalesced

\* An expansion that succeeds serves the request it was made for.
ExpansionServes ==
  [][heap_mapped_end' # heap_mapped_end
       => Cardinality(DOMAIN live') = Cardinality(DOMAIN live) + 1]_heapVars

\* The callers' view: ranges that, with their headers, never overlap, move or
\* shrink.
Caller == INSTANCE Allocator WITH
            owned <- {<<p - Header, p + live[p]>> : p \in DOMAIN live}

\* kmalloc and kfree implement the abstract allocator: what is handed out never
\* overlaps, and stays until it is freed.  And the heap only ever grows for a
\* request that it then serves.
AllocatesApart == Caller!AllocatorSpec /\ ExpansionServes
============================================================================
