------------------------- MODULE SchedBypassProofs -------------------------
(***************************************************************************)
(* The round-robin scan bounds how often a READY task is overtaken, for    *)
(* any number of tasks.                                                    *)
(***************************************************************************)
EXTENDS SchedBypass, SchedProofs

USE SchedAssumption DEF Tasks

\* The history variable only observes: what holds of Sched holds here.
LEMMA ObservesSched == BSpec => []IndInv
<1>1. BInit => IndInv
  BY InitIndInv DEF BInit
<1>2. IndInv /\ [BNext]_bvars => IndInv'
  BY NextIndInv DEF BNext, bvars
<1> QED
  BY <1>1, <1>2, PTL DEF BSpec

\* Only PickTask moves schedule_cursor; no other step looks like a pick.
LEMMA OtherSteps ==
  ASSUME IndInv, Next, ~PickTask
  PROVE  /\ ~IsPick
         /\ schedule_cursor' = schedule_cursor
         /\ created' \in {created, created + 1}
         /\ created' \in 0 .. MaxTasks
<1>1. created \in 0 .. MaxTasks
  BY DEF IndInv, TypeOK
<1>2. CASE MainLoop
  BY <1>1, <1>2 DEF MainLoop, PickNone, SwitchToTask, TaskSwitchedBack, Halt,
     IsPick
<1>3. CASE Irq
  BY <1>1, <1>3 DEF Irq, TimerIrq, KeyIrq, OtherIrq, AfterIrq, IsPick
<1>4. ASSUME NEW t \in Tasks, Task(t)
      PROVE  /\ loop' = loop
             /\ schedule_cursor' = schedule_cursor
             /\ created' \in {created, created + 1}
             /\ created' \in 0 .. MaxTasks
  <2>1. CASE TaskCreate(t)
    BY <1>1, <2>1 DEF TaskCreate
  <2>2. CASE TaskStats(t) \/ GiveUp(t) \/ SwitchToLoop(t)
    BY <1>1, <2>2 DEF TaskStats, GiveUp, TaskYield, TaskExit, ReadKey,
       TaskSleep, SwitchToLoop
  <2>3. CASE BlockingRead(t)
    BY <1>1, <2>3 DEF BlockingRead, TakeKey, FindEmpty, Enqueue, RestoreIrq
  <2>4. CASE Ring3(t)
    BY <1>1, <2>4 DEF Ring3, EnterRing3, Syscall, SyscallRead, SyscallOther,
       SyscallReturn, SyscallExit
  <2> QED
    BY <1>4, <2>1, <2>2, <2>3, <2>4 DEF Task
<1> QED
  BY <1>2, <1>3, <1>4 DEF Next, IsPick

\* The scan goes over no READY task: when n is picked and t is READY, the
\* cursor moves forward without passing t.
LEMMA PickAdvances ==
  ASSUME NEW c \in Nat, NEW cur \in 0 .. c, NEW n \in 1 .. c, NEW t \in 1 .. c,
         NEW start, start = IF cur # 0 /\ cur < c THEN cur + 1 ELSE 1,
         n # t,
         (IF n >= start THEN n - start ELSE n + c - start) <=
           (IF t >= start THEN t - start ELSE t + c - start)
  PROVE  (IF cur >= t THEN cur - t ELSE c - t + cur) + 1 <=
           (IF n >= t THEN n - t ELSE c - t + n)
BY SMT

LEMMA PickBypass ==
  ASSUME IndInv, BypassInv, PickTask, BNext
  PROVE  BypassInv'
<1>1. PICK n \in Runnable :
        /\ \A t \in Runnable : ScanDistance(n) <= ScanDistance(t)
        /\ schedule_cursor' = n
        /\ state' = [Woken EXCEPT ![n] = "RUNNING"]
  BY DEF PickTask
<1>2. /\ created' = created /\ created \in 0 .. MaxTasks
      /\ schedule_cursor \in 0 .. created
      /\ n \in 1 .. created
  BY DEF PickTask, Runnable, IndInv, TypeOK, ListExact
<1>3. bypass' = [t \in Tasks |-> IF state'[t] # "READY" THEN 0
                                 ELSE bypass[t] + 1]
  BY DEF BNext, IsPick, PickTask
<1>4. bypass' \in [Tasks -> Nat]
  BY <1>3 DEF BypassInv
<1>5. ASSUME NEW t \in 1 .. created PROVE bypass'[t] <= Passed(t)'
  <2>0. t \in Tasks /\ bypass[t] \in Nat /\ bypass[t] <= Passed(t)
    BY <1>2 DEF BypassInv
  <2>1. CASE state'[t] # "READY"
    BY <1>1, <1>2, <1>3, <2>0, <2>1 DEF Passed
  <2>2. CASE state'[t] = "READY"
    <3>1. t # n /\ t \in Runnable
      BY <1>1, <1>2, <2>0, <2>2 DEF Woken, Runnable
    <3>2. ScanDistance(n) <= ScanDistance(t)
      BY <1>1, <3>1
    <3>3. Passed(t) + 1 <= Passed(t)'
      BY <1>1, <1>2, <3>1, <3>2, PickAdvances DEF Passed, ScanDistance, ScanStart
    <3>4. Passed(t) \in Int /\ Passed(t)' \in Int
      BY <1>1, <1>2 DEF Passed
    <3> QED
      BY <1>3, <2>0, <2>2, <3>3, <3>4
  <2> QED
    BY <2>1, <2>2
<1>6. ASSUME NEW t \in Tasks, t > created PROVE bypass'[t] = 0
  <2>1. state[t] = "NONE" /\ t # n
    BY <1>2, <1>6 DEF IndInv, ListExact
  <2>2. state'[t] = "NONE"
    BY <1>1, <2>1 DEF Woken, Due
  <2> QED
    BY <1>3, <2>2
<1> QED
  BY <1>2, <1>4, <1>5, <1>6 DEF BypassInv

LEMMA OtherBypass ==
  ASSUME IndInv, BypassInv, ~PickTask, BNext
  PROVE  BypassInv'
<1>1. /\ schedule_cursor' = schedule_cursor
      /\ created' \in {created, created + 1}
      /\ created' \in 0 .. MaxTasks
      /\ ~IsPick
  BY OtherSteps DEF BNext
<1>2. created \in 0 .. MaxTasks /\ schedule_cursor \in 0 .. created
  BY DEF IndInv, TypeOK, ListExact
<1>3. bypass' \in [Tasks -> Nat] /\ \A t \in Tasks : bypass'[t] <= bypass[t]
  BY <1>1 DEF BNext, BypassInv
<1>4. ASSUME NEW t \in 1 .. created' PROVE bypass'[t] <= Passed(t)'
  <2>1. t \in Tasks /\ bypass'[t] \in Nat /\ bypass[t] \in Nat
    BY <1>1, <1>3 DEF BypassInv
  <2>2. CASE t \in 1 .. created
    <3>1. bypass[t] <= Passed(t)
      BY <2>2 DEF BypassInv
    <3>2. bypass'[t] <= bypass[t]
      BY <1>3, <2>1
    <3>3. Passed(t) \in Int /\ Passed(t)' \in Int /\ Passed(t) <= Passed(t)'
      <4>1. /\ t \in Int /\ schedule_cursor \in Int
            /\ created \in Int /\ created' \in Int /\ created <= created'
        BY <1>1, <1>2, <2>2
      <4>2. Passed(t)' = IF schedule_cursor >= t THEN schedule_cursor - t
                         ELSE created' - t + schedule_cursor
        BY <1>1 DEF Passed
      <4> QED
        BY <4>1, <4>2 DEF Passed
    <3> QED
      BY <2>1, <3>1, <3>2, <3>3
  <2>3. CASE t = created + 1
    <3>1. bypass[t] = 0
      BY <1>2, <2>1, <2>3 DEF BypassInv
    <3>2. bypass'[t] = 0
      BY <1>3, <2>1, <3>1
    <3>3. Passed(t)' \in Nat
      <4>1. /\ t \in Int /\ schedule_cursor \in Nat
            /\ created' = t /\ schedule_cursor < t
        BY <1>1, <1>2, <2>3
      <4>2. Passed(t)' = IF schedule_cursor >= t THEN schedule_cursor - t
                         ELSE created' - t + schedule_cursor
        BY <1>1 DEF Passed
      <4> QED
        BY <4>1, <4>2
    <3> QED
      BY <3>2, <3>3
  <2> QED
    BY <1>1, <1>2, <2>2, <2>3
<1>5. ASSUME NEW t \in Tasks, t > created' PROVE bypass'[t] = 0
  <2>1. bypass[t] = 0
    BY <1>1, <1>2, <1>5 DEF BypassInv
  <2> QED
    BY <1>3, <2>1
<1> QED
  BY <1>3, <1>4, <1>5 DEF BypassInv

\* However many tasks there are, a READY task is overtaken fewer times than
\* there are tasks on the list before task_pick_next_locked picks it.
THEOREM RoundRobinFair == BSpec => []BoundedBypass
<1>1. BInit => BypassInv
  BY DEF BInit, Init, BypassInv, Passed
<1>2. IndInv /\ BypassInv /\ [BNext]_bvars => BypassInv'
  <2>1. CASE UNCHANGED bvars
    BY <2>1 DEF bvars, vars, BypassInv, Passed
  <2> QED
    BY <2>1, PickBypass, OtherBypass
<1>3. IndInv /\ BypassInv => BoundedBypass
  <2> SUFFICES ASSUME IndInv, BypassInv, NEW t \in Tasks
               PROVE  bypass[t] = 0 \/ bypass[t] < created
    BY DEF BoundedBypass
  <2>1. /\ created \in 0 .. MaxTasks /\ schedule_cursor \in 0 .. created
        /\ bypass[t] \in Nat
    BY DEF IndInv, TypeOK, ListExact, BypassInv
  <2>2. CASE t > created
    BY <2>2 DEF BypassInv
  <2>3. CASE t \in 1 .. created
    <3>1. bypass[t] <= Passed(t)
      BY <2>3 DEF BypassInv
    <3> QED
      BY <2>1, <2>3, <3>1 DEF Passed
  <2> QED
    BY <2>1, <2>2, <2>3
<1> QED
  BY <1>1, <1>2, <1>3, ObservesSched, PTL DEF BSpec
============================================================================
