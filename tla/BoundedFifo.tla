---------------------------- MODULE BoundedFifo ----------------------------
(***************************************************************************)
(* What the kernel's bounded buffers promise: items leave in the order in  *)
(* which they entered, none is lost or duplicated between the two, and at  *)
(* most Capacity are held.  An item offered to a full buffer is dropped,   *)
(* which leaves the buffer as it was.                                      *)
(***************************************************************************)
EXTENDS Naturals, Sequences

CONSTANTS Items, Capacity

VARIABLE queue

FifoInit == queue = <<>>

Put(x) == Len(queue) < Capacity /\ queue' = Append(queue, x)

Get == queue # <<>> /\ queue' = Tail(queue)

FifoNext == Get \/ \E x \in Items : Put(x)

FifoSpec == FifoInit /\ [][FifoNext]_queue
============================================================================
