----------------------------- MODULE Allocator -----------------------------
(***************************************************************************)
(* What a caller of kmalloc and kfree may rely on: the ranges handed out   *)
(* lie inside the heap and do not overlap, and stay as they are until they *)
(* are freed.                                                              *)
(***************************************************************************)
EXTENDS Naturals

CONSTANTS Base, Limit   \* the address range the heap may grow over
VARIABLES owned         \* allocated ranges: <<first unit, first unit after>>

Ranges == {r \in (Base .. Limit) \X (Base .. Limit) : r[1] < r[2]}

Apart(r, s) == r[2] <= s[1] \/ s[2] <= r[1]

AllocatorInit == owned = {}

Allocate ==
  \E r \in Ranges :
    /\ \A s \in owned : Apart(r, s)
    /\ owned' = owned \cup {r}

Release == \E r \in owned : owned' = owned \ {r}

AllocatorSpec == AllocatorInit /\ [][Allocate \/ Release]_owned
============================================================================
