---------------------------- MODULE DeferredWork ---------------------------
(***************************************************************************)
(* Delayed and deferred work: the timer table (kernel/timer.c), the work   *)
(* queue (kernel/workqueue.c), the main loop that moves items from one to  *)
(* the other and runs them (kernel/kernel.c), and the shell commands that  *)
(* schedule them.  The argument of a work item is a string copied to the   *)
(* heap, which the work function frees; who holds it is the question here. *)
(*                                                                         *)
(* Everything but the tick runs on the main loop or in the slice of the    *)
(* shell task that task_run_once gives it, so the two never interleave     *)
(* inside a call.  The tick may fall anywhere: `stale' counts the ticks    *)
(* since pit_get_ticks was read into the local `now'.  The code from that  *)
(* read to the end of its use takes far less than a tick, so at most one   *)
(* falls there.                                                            *)
(*                                                                         *)
(* due_in[i] is timer_items[i].due_tick - pit_ticks, cut at -1.            *)
(***************************************************************************)
EXTENDS Integers, Sequences, FiniteSets

CONSTANTS
  Msgs,         \* heap strings: arguments of work items
  None,         \* the null pointer, and an inactive entry
  TimerSlots,   \* TIMER_MAX_ITEMS
  WorkSize,     \* WORKQUEUE_SIZE
  MaxRun,       \* items workqueue_run_pending may run per main-loop round
  MaxDelay      \* the largest delay considered

ASSUME DeferredAssumption ==
  /\ None \notin Msgs
  /\ TimerSlots \in Nat \ {0}
  /\ WorkSize \in Nat \ {0}
  /\ MaxRun \in 1 .. WorkSize
  /\ MaxDelay \in Nat \ {0}

VARIABLES
  timer_items,  \* the argument held by each timer slot, or None
  due_in,       \* ticks until each slot is due
  due_items,    \* timer_poll's local copy of the items it took, by slot
  work_items,   \* the work ring
  work_head, work_tail, work_count,
  heap,         \* the strings that are allocated
  lost,         \* strings whose item timer_poll could not hand on
  backlog,      \* work_count when timer_poll was called
  pc,           \* where the kernel is
  arg, delay,   \* timer_schedule_ticks's arguments
  ran,          \* items run by this workqueue_run_pending
  stale         \* ticks since `now' was read

timerVars == <<timer_items, due_in, due_items>>
workVars == <<work_items, work_head, work_tail, work_count>>
vars == <<timerVars, workVars, heap, lost, backlog, pc, arg, delay, ran, stale>>

Slots == 1 .. TimerSlots
Ring == 0 .. WorkSize - 1
Held == Msgs \cup {None}

\* Every variable has its type: indices and counts stay inside their tables.
TypeOK ==
  /\ timer_items \in [Slots -> Held]
  /\ due_in \in [Slots -> -1 .. MaxDelay]
  /\ due_items \in [Slots -> Held]
  /\ work_items \in [Ring -> Held]
  /\ work_head \in Ring /\ work_tail \in Ring
  /\ work_count \in 0 .. WorkSize
  /\ heap \subseteq Msgs /\ lost \subseteq Msgs
  /\ backlog \in 0 .. WorkSize
  /\ pc \in {"poll", "scan", "post", "run", "task", "insert", "wqrun", "hlt"}
  /\ arg \in Held /\ delay \in 0 .. MaxDelay
  /\ ran \in 0 .. WorkSize
  /\ stale \in 0 .. 1

Init ==
  /\ timer_items = [i \in Slots |-> None]
  /\ due_in = [i \in Slots |-> 0]
  /\ due_items = [i \in Slots |-> None]
  /\ work_items = [i \in Ring |-> None]
  /\ work_head = 0 /\ work_tail = 0 /\ work_count = 0
  /\ heap = {} /\ lost = {}
  /\ backlog = 0
  /\ pc = "poll"
  /\ arg = None /\ delay = 0
  /\ ran = 0
  /\ stale = 0

----------------------------------------------------------------------------
(* The work queue.                                                         *)

next_index(i) == (i + 1) % WorkSize

WorkHasRoom_Mutant == work_count + 1 < WorkSize

WorkHasRoom_FullMutant == work_count <= WorkSize

WorkHasRoom == work_count < WorkSize

\* workqueue_schedule when there is room.
Schedule(m) ==
  /\ work_items' = [work_items EXCEPT ![work_head] = m]
  /\ work_head' = next_index(work_head)
  /\ work_count' = work_count + 1
  /\ UNCHANGED work_tail

\* workqueue_pop.
Pop ==
  /\ work_count > 0
  /\ work_items' = [work_items EXCEPT ![work_tail] = None]
  /\ work_tail' = next_index(work_tail)
  /\ work_count' = work_count - 1
  /\ UNCHANGED work_head

\* One round of the loop in workqueue_run_pending(limit): the item is popped
\* and its function runs, which frees the string.
RunItem(limit) ==
  /\ ran < limit
  /\ Pop
  /\ heap' = heap \ {work_items[work_tail]}
  /\ ran' = ran + 1

RunDone_Mutant(limit) == ran + 1 >= limit \/ work_count = 0

RunDone(limit) == ran >= limit \/ work_count = 0

----------------------------------------------------------------------------
(* timer_poll.                                                             *)

ReadNow ==
  /\ pc = "poll"
  /\ pc' = "scan"
  /\ stale' = 0
  /\ backlog' = work_count
  /\ UNCHANGED <<timerVars, workVars, heap, lost, arg, delay, ran>>

IsDue_EarlyMutant(i) == timer_items[i] # None /\ due_in[i] + stale <= 1

IsDue_LastMutant(i) ==
  timer_items[i] # None /\ due_in[i] + stale <= 0 /\ i < TimerSlots

\* The test of the scan: active, and now >= due_tick.
IsDue(i) == timer_items[i] # None /\ due_in[i] + stale <= 0

\* The scan under timer_lock.
Scan ==
  /\ pc = "scan"
  /\ due_items' = [i \in Slots |-> IF IsDue(i) THEN timer_items[i] ELSE None]
  /\ timer_items' = [i \in Slots |-> IF IsDue(i) THEN None ELSE timer_items[i]]
  /\ due_in' = [i \in Slots |-> IF IsDue(i) THEN 0 ELSE due_in[i]]
  /\ pc' = "post"
  /\ stale' = 0
  /\ UNCHANGED <<workVars, heap, lost, backlog, arg, delay, ran>>

\* One round of the loop that hands the items on, in slot order.  An item
\* the work queue has no room for is only counted.
PostDue ==
  /\ pc = "post"
  /\ \E i \in Slots :
       /\ due_items[i] # None
       /\ \A j \in 1 .. i - 1 : due_items[j] = None
       /\ due_items' = [due_items EXCEPT ![i] = None]
       /\ \/ WorkHasRoom /\ Schedule(due_items[i]) /\ UNCHANGED lost
          \/ ~WorkHasRoom /\ lost' = lost \cup {due_items[i]} /\ UNCHANGED workVars
  /\ UNCHANGED <<timer_items, due_in, heap, backlog, pc, arg, delay, ran, stale>>

PollDone ==
  /\ pc = "post"
  /\ \A i \in Slots : due_items[i] = None
  /\ pc' = "run"
  /\ ran' = 0
  /\ UNCHANGED <<timerVars, workVars, heap, lost, backlog, arg, delay, stale>>

----------------------------------------------------------------------------
(* The rest of the main loop: workqueue_run_pending(16), task_run_once,    *)
(* hlt.                                                                    *)

RunPending ==
  /\ pc = "run"
  /\ RunItem(MaxRun)
  /\ UNCHANGED <<timerVars, lost, backlog, pc, arg, delay, stale>>

RunPendingDone ==
  /\ pc = "run"
  /\ RunDone(MaxRun)
  /\ pc' = "task"
  /\ UNCHANGED <<timerVars, workVars, heap, lost, backlog, arg, delay, ran, stale>>

\* The shell blocks, or no task is READY.
TaskDone ==
  /\ pc = "task"
  /\ pc' = "hlt"
  /\ UNCHANGED <<timerVars, workVars, heap, lost, backlog, arg, delay, ran, stale>>

----------------------------------------------------------------------------
(* What the shell runs in its slice.                                       *)

\* cmd_wqtest: the string is copied; workqueue_schedule takes it, or it is
\* freed again, which leaves everything as it was.
WqTest(m) ==
  /\ pc = "task"
  /\ m \notin heap
  /\ WorkHasRoom
  /\ Schedule(m)
  /\ heap' = heap \cup {m}
  /\ UNCHANGED <<timerVars, lost, backlog, pc, arg, delay, ran, stale>>

\* cmd_delaytest up to the point where timer_schedule_ticks has read `now'.
DelayTest(m, d) ==
  /\ pc = "task"
  /\ m \notin heap
  /\ heap' = heap \cup {m}
  /\ arg' = m
  /\ delay' = d
  /\ stale' = 0
  /\ pc' = "insert"
  /\ UNCHANGED <<timerVars, workVars, lost, backlog, ran>>

\* The delay timer_schedule_ticks uses: 0 is raised to 1.
EffectiveDelay == IF delay = 0 THEN 1 ELSE delay

\* The first inactive slot takes the item; ...
InsertTimer ==
  /\ pc = "insert"
  /\ \E i \in Slots :
       /\ timer_items[i] = None
       /\ \A j \in 1 .. i - 1 : timer_items[j] # None
       /\ timer_items' = [timer_items EXCEPT ![i] = arg]
       /\ due_in' = [due_in EXCEPT ![i] = EffectiveDelay - stale]
  /\ pc' = "task"
  /\ arg' = None /\ delay' = 0 /\ stale' = 0
  /\ UNCHANGED <<due_items, workVars, heap, lost, backlog, ran>>

InsertFull_Mutant ==
  /\ pc = "insert"
  /\ \A i \in Slots : timer_items[i] # None
  /\ pc' = "task"
  /\ arg' = None /\ delay' = 0 /\ stale' = 0
  /\ UNCHANGED <<timerVars, workVars, heap, lost, backlog, ran>>

\* ... or the table is full and cmd_delaytest frees the string.
InsertFull ==
  /\ pc = "insert"
  /\ \A i \in Slots : timer_items[i] # None
  /\ heap' = heap \ {arg}
  /\ pc' = "task"
  /\ arg' = None /\ delay' = 0 /\ stale' = 0
  /\ UNCHANGED <<timerVars, workVars, lost, backlog, ran>>

\* cmd_wqrun: workqueue_run_pending(0), that is, WORKQUEUE_SIZE items.
WqRun ==
  /\ pc = "task"
  /\ pc' = "wqrun"
  /\ ran' = 0
  /\ UNCHANGED <<timerVars, workVars, heap, lost, backlog, arg, delay, stale>>

WqRunItem ==
  /\ pc = "wqrun"
  /\ RunItem(WorkSize)
  /\ UNCHANGED <<timerVars, lost, backlog, pc, arg, delay, stale>>

WqRunDone ==
  /\ pc = "wqrun"
  /\ RunDone(WorkSize)
  /\ pc' = "task"
  /\ UNCHANGED <<timerVars, workVars, heap, lost, backlog, arg, delay, ran, stale>>

Shell ==
  \/ \E m \in Msgs : WqTest(m)
  \/ \E m \in Msgs, d \in 0 .. MaxDelay : DelayTest(m, d)
  \/ InsertTimer \/ InsertFull
  \/ WqRun \/ WqRunItem \/ WqRunDone

----------------------------------------------------------------------------
(* Interrupts.                                                             *)

Tick ==
  /\ pc \in {"scan", "insert"} => stale = 0
  /\ due_in' = [i \in Slots |->
                  IF timer_items[i] # None /\ due_in[i] > -1
                  THEN due_in[i] - 1 ELSE due_in[i]]
  /\ stale' = IF pc \in {"scan", "insert"} THEN 1 ELSE stale
  /\ pc' = IF pc = "hlt" THEN "poll" ELSE pc
  /\ UNCHANGED <<timer_items, due_items, workVars, heap, lost, backlog, arg,
                 delay, ran>>

\* Any other interrupt ends the hlt as well.
OtherIrq ==
  /\ pc = "hlt"
  /\ pc' = "poll"
  /\ UNCHANGED <<timerVars, workVars, heap, lost, backlog, arg, delay, ran, stale>>

MainLoop ==
  \/ ReadNow \/ Scan \/ PostDue \/ PollDone
  \/ RunPending \/ RunPendingDone \/ TaskDone

Next == MainLoop \/ Shell \/ Tick \/ OtherIrq

Spec == Init /\ [][Next]_vars

----------------------------------------------------------------------------
(* Safety.                                                                 *)

\* The places that can hold a string, and what each holds.
Places ==
  ({"timer", "due"} \X Slots) \cup ({"work"} \X Ring) \cup {<<"call", 0>>}

Holds(p) ==
  CASE p[1] = "timer" -> timer_items[p[2]]
    [] p[1] = "due"   -> due_items[p[2]]
    [] p[1] = "work"  -> work_items[p[2]]
    [] p[1] = "call"  -> arg

\* Every allocated string has exactly one holder - a timer slot, timer_poll's
\* local list, the work ring or the command that made it - until its work has
\* run and freed it, or is lost; nobody holds a freed string.  So no work runs
\* twice, none runs on a freed string, and the only leak is the item that
\* timer_poll drops when the work queue is full.
OneHolder ==
  /\ TypeOK
  /\ \A p, q \in Places : Holds(p) # None /\ Holds(p) = Holds(q) => p = q
  /\ \A p \in Places : Holds(p) \notin lost
  /\ heap = lost \cup ({Holds(p) : p \in Places} \ {None})

\* No timer fires before its delay has passed, whenever the tick falls.  And
\* timer_poll loses nothing when the work queue was empty as it was called,
\* even if every timer is due at once: TIMER_MAX_ITEMS <= WORKQUEUE_SIZE.
PollExact ==
  [][/\ \A i \in Slots : timer_items[i] # None /\ timer_items'[i] = None
                            => due_in[i] <= 0
     /\ TimerSlots <= WorkSize /\ lost' # lost => backlog > 0]_vars

\* The ring, as the sequence of its occupied entries.
Queue == [k \in 1 .. work_count |-> work_items[(work_tail + k - 1) % WorkSize]]

Fifo == INSTANCE BoundedFifo WITH Items <- Msgs, Capacity <- WorkSize, queue <- Queue

\* Work runs in the order in which workqueue_schedule took it: the ring
\* implements a bounded FIFO queue.
WorkIsFifo == Fifo!FifoSpec

----------------------------------------------------------------------------
(* Liveness: the main loop and the tick go on, and the shell does not keep *)
(* the CPU for ever.                                                       *)

Fairness ==
  /\ WF_vars(MainLoop)
  /\ WF_vars(InsertTimer \/ InsertFull \/ WqRunItem \/ WqRunDone)
  /\ SF_vars(Tick)

FairSpec == Spec /\ Fairness

Cooperative == []<>(pc = "hlt")

\* A scheduled timer fires.
TimerFires ==
  Cooperative =>
    \A i \in Slots : timer_items[i] # None ~> timer_items[i] = None

\* Queued work is run, however much is scheduled behind it.
WorkRuns ==
  Cooperative =>
    \A m \in Msgs : (\E i \in Ring : work_items[i] = m)
                      ~> ~ \E i \in Ring : work_items[i] = m
============================================================================
