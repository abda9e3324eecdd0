---------------------------- MODULE SchedBypass ----------------------------
(***************************************************************************)
(* How fair task_pick_next_locked is.  A history variable counts, for each *)
(* task that is READY, how often another task was picked since it became   *)
(* READY.  It only observes Sched: every behaviour of Sched has one here.  *)
(***************************************************************************)
EXTENDS Sched

VARIABLE bypass

bvars == <<vars, bypass>>

BInit == Init /\ bypass = [t \in Tasks |-> 0]

\* A step of Sched in which task_run_once picks a task.
IsPick == loop = "pick" /\ loop' = "switch"

BNext ==
  /\ Next
  /\ bypass' = [t \in Tasks |-> IF state'[t] # "READY" THEN 0
                                ELSE IF IsPick THEN bypass[t] + 1
                                ELSE bypass[t]]

BSpec == BInit /\ [][BNext]_bvars

\* With the fairness of Sched, for its liveness properties.
BFairSpec == BSpec /\ Fairness

\* The circular scan lets no READY task be overtaken more often than there
\* are other tasks on the list, however the others yield, sleep, block, exit
\* or create further tasks behind schedule_cursor meanwhile.
BoundedBypass == \A t \in Tasks : bypass[t] = 0 \/ bypass[t] < created

----------------------------------------------------------------------------

\* How many list positions schedule_cursor may have moved over since it was
\* last at t: the inductive bound on the number of picks.
Passed(t) ==
  IF schedule_cursor >= t THEN schedule_cursor - t
                          ELSE created - t + schedule_cursor

BypassInv ==
  /\ bypass \in [Tasks -> Nat]
  /\ \A t \in 1 .. created : bypass[t] <= Passed(t)
  /\ \A t \in Tasks : t > created => bypass[t] = 0
============================================================================
