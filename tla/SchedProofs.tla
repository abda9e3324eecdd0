---------------------------- MODULE SchedProofs ----------------------------
(***************************************************************************)
(* IndInv is an inductive invariant of Sched, for any number of tasks, any *)
(* sleep and any size of the key buffer; every safety property of Sched    *)
(* follows from it.                                                        *)
(***************************************************************************)
EXTENDS Sched, FiniteSetTheorems, TLAPS

USE SchedAssumption DEF Tasks

----------------------------------------------------------------------------
(* Facts about the waiting readers that most steps need.                   *)

\* Only finitely many readers are awake.
LEMMA AwakeFinite ==
  /\ IsFiniteSet(AwakeReaders)
  /\ IsFiniteSet(AwakeReaders')
<1>1. IsFiniteSet(Tasks)
  BY FS_Interval
<1>2. AwakeReaders \subseteq Tasks /\ AwakeReaders' \subseteq Tasks
  BY DEF AwakeReaders
<1> QED
  BY <1>1, <1>2, FS_Subset

\* A step that neither queues nor wakes a reader keeps the wait queue exact.
LEMMA WaitQueueKept ==
  ASSUME WaitQueueExact, wait_queue' = wait_queue,
         \A t \in Tasks : state'[t] = "WAITING" <=> state[t] = "WAITING"
  PROVE  WaitQueueExact'
BY DEF WaitQueueExact

\* A step that leaves queue and buffer alone and puts no awake reader off
\* its way to the buffer loses no wakeup.
LEMMA NoWakeupLost ==
  ASSUME TypeOK, NoLostWakeup, wait_queue' = wait_queue,
         tty_count' = tty_count, AwakeReaders \subseteq AwakeReaders'
  PROVE  NoLostWakeup'
<1>1. Cardinality(AwakeReaders) <= Cardinality(AwakeReaders')
  BY AwakeFinite, FS_Subset
<1>2. Cardinality(AwakeReaders) \in Nat /\ Cardinality(AwakeReaders') \in Nat
  BY AwakeFinite, FS_CardinalityType
<1> QED
  BY <1>1, <1>2 DEF NoLostWakeup, TypeOK

----------------------------------------------------------------------------

----------------------------------------------------------------------------
(* Most steps move the running task from one point of its code to another  *)
(* and leave the schedule alone.                                           *)

RunningPoints == {"kernel", "read", "enqueue", "user", "syscall", "sysret"}

\* What holds of a task that is running its own code.
LEMMA RunningTask ==
  ASSUME IndInv, NEW t \in Tasks, cpu = t,
         pc[t] \in RunningPoints
  PROVE  current_task = t /\ state[t] = "RUNNING" /\ loop = "resumed"
BY DEF IndInv, CpuIsCurrent, PointMatchesState, OnCpu, RunningPoints

\* What holds of every other task.
LEMMA OtherTask ==
  ASSUME IndInv, NEW u \in Tasks, u # cpu
  PROVE  pc[u] \in {"kernel", "read", "returned"}
BY DEF IndInv, PointMatchesState, OffCpu

LEMMA RunningStep ==
  ASSUME IndInv, NEW t \in Tasks, cpu = t, pc[t] \in RunningPoints,
         NEW p \in RunningPoints, pc' = [pc EXCEPT ![t] = p],
         UNCHANGED <<created, state, current_task, schedule_cursor, cpu, loop,
                     wait_queue>>
  PROVE  /\ ListExact' /\ CpuIsCurrent' /\ OneRunning' /\ PointMatchesState'
         /\ WaitQueueExact'
         /\ pc[t] # "read" /\ tty_count' = tty_count => NoLostWakeup'
<1> USE DEF IndInv
<1>1. ListExact' /\ CpuIsCurrent' /\ OneRunning' /\ WaitQueueExact'
  BY DEF ListExact, CpuIsCurrent, OneRunning, WaitQueueExact
<1>2. state[t] = "RUNNING" /\ t # 0
  BY RunningTask
<1>3. PointMatchesState'
  BY <1>2 DEF PointMatchesState, OnCpu, OffCpu, RunningPoints, TypeOK
<1>4. ASSUME pc[t] # "read", tty_count' = tty_count PROVE NoLostWakeup'
  <2>1. AwakeReaders \subseteq AwakeReaders'
    BY <1>4 DEF AwakeReaders, RunningPoints, TypeOK
  <2> QED
    BY <1>4, <2>1, NoWakeupLost
<1> QED
  BY <1>1, <1>3, <1>4

----------------------------------------------------------------------------

LEMMA InitIndInv == Init => IndInv
<1> SUFFICES ASSUME Init PROVE IndInv
  OBVIOUS
<1>1. TypeOK
  BY DEF Init, TypeOK, States, LoopPoints, TaskPoints
<1>2. ListExact /\ CpuIsCurrent /\ OneRunning /\ IrqWindows
  BY DEF Init, ListExact, CpuIsCurrent, OneRunning, IrqWindows
<1>3. PointMatchesState
  BY DEF Init, PointMatchesState, OnCpu, OffCpu
<1>4. WaitQueueExact /\ NoLostWakeup
  BY DEF Init, WaitQueueExact, NoLostWakeup
<1> QED
  BY <1>1, <1>2, <1>3, <1>4 DEF IndInv

\* The main loop and task_run_once.
LEMMA MainLoopIndInv ==
  ASSUME IndInv, MainLoop
  PROVE  IndInv'
<1> USE DEF IndInv
<1>1. CASE PickTask
  <2>1. PICK next \in 1 .. created :
          /\ Woken[next] = "READY"
          /\ schedule_cursor' = next
          /\ current_task' = next
          /\ state' = [Woken EXCEPT ![next] = "RUNNING"]
    BY <1>1 DEF PickTask, Runnable
  <2>2. /\ cpu = 0 /\ loop = "pick" /\ loop' = "switch" /\ next \in Tasks
        /\ UNCHANGED <<created, wake_in, cpu, pc, ret, saved_if, IF_flag,
                       wait_queue, tty_count>>
    BY <1>1 DEF PickTask, TypeOK
  <2>3. \A u \in Tasks :
          /\ state'[u] = IF u = next THEN "RUNNING"
                         ELSE IF Due(u) THEN "READY" ELSE state[u]
          /\ state[u] # "RUNNING"
    BY <2>1, <2>2 DEF Woken, OneRunning, CpuIsCurrent
  <2>4. state[next] = "READY" \/ Due(next)
    BY <2>1, <2>2 DEF Woken
  <2>5. TypeOK'
    BY <2>1, <2>2 DEF Woken, TypeOK, States, LoopPoints
  <2>6. ListExact'
    BY <2>1, <2>2, <2>3 DEF Due, TypeOK, ListExact
  <2>7. CpuIsCurrent' /\ OneRunning'
    BY <2>1, <2>2, <2>3 DEF Due, TypeOK, CpuIsCurrent, OneRunning
  <2>8. PointMatchesState'
    BY <2>1, <2>2, <2>3, <2>4 DEF Due, TypeOK, PointMatchesState, OffCpu
  <2>9. WaitQueueExact'
    BY <2>2, <2>3, <2>4, WaitQueueKept DEF Due
  <2>10. IrqWindows'
    BY <2>2 DEF IrqWindows
  <2>11. NoLostWakeup'
    <3>1. AwakeReaders \subseteq AwakeReaders'
      BY <2>2, <2>3 DEF AwakeReaders
    <3> QED
      BY <2>2, <3>1, NoWakeupLost
  <2> QED
    BY <2>5, <2>6, <2>7, <2>8, <2>9, <2>10, <2>11
<1>2. CASE PickNone
  <2>1. \A u \in Tasks : state'[u] = IF Due(u) THEN "READY" ELSE state[u]
    BY <1>2 DEF PickNone, Woken
  <2>2. TypeOK'
    BY <1>2 DEF PickNone, Woken, TypeOK, States, LoopPoints
  <2>3. ListExact' /\ CpuIsCurrent' /\ OneRunning'
    BY <1>2, <2>1 DEF PickNone, Due, TypeOK, ListExact, CpuIsCurrent, OneRunning
  <2>4. PointMatchesState'
    BY <1>2, <2>1 DEF PickNone, Due, TypeOK, PointMatchesState, OffCpu
  <2>5. WaitQueueExact'
    BY <1>2, <2>1, WaitQueueKept DEF PickNone, Due
  <2>6. IrqWindows'
    BY <1>2 DEF PickNone, IrqWindows
  <2>7. NoLostWakeup'
    <3>1. AwakeReaders \subseteq AwakeReaders'
      BY <1>2, <2>1 DEF PickNone, AwakeReaders
    <3> QED
      BY <1>2, <3>1, NoWakeupLost DEF PickNone
  <2> QED
    BY <2>2, <2>3, <2>4, <2>5, <2>6, <2>7
<1>3. CASE SwitchToTask
  <2>1. /\ current_task \in Tasks /\ state[current_task] = "RUNNING"
        /\ pc[current_task] \in {"kernel", "read"} /\ cpu = 0 /\ IF_flag
    BY <1>3 DEF SwitchToTask, TypeOK, CpuIsCurrent, PointMatchesState, OffCpu,
       IrqWindows
  <2>2. TypeOK' /\ ListExact' /\ CpuIsCurrent' /\ OneRunning' /\ WaitQueueExact'
    BY <1>3, <2>1 DEF SwitchToTask, TypeOK, LoopPoints, ListExact,
       CpuIsCurrent, OneRunning, WaitQueueExact
  <2>3. PointMatchesState'
    BY <1>3, <2>1 DEF SwitchToTask, PointMatchesState, OnCpu, OffCpu
  <2>4. IrqWindows' /\ NoLostWakeup'
    BY <1>3, <2>1 DEF SwitchToTask, IrqWindows, NoLostWakeup, AwakeReaders
  <2> QED
    BY <2>2, <2>3, <2>4
<1>4. CASE TaskSwitchedBack
  <2>1. TypeOK' /\ ListExact' /\ CpuIsCurrent' /\ WaitQueueExact'
    BY <1>4 DEF TaskSwitchedBack, TypeOK, LoopPoints, ListExact, CpuIsCurrent,
       WaitQueueExact
  <2>2. OneRunning' /\ PointMatchesState'
    BY <1>4 DEF TaskSwitchedBack, OneRunning, PointMatchesState, OffCpu, OnCpu
  <2>3. IrqWindows' /\ NoLostWakeup'
    BY <1>4 DEF TaskSwitchedBack, IrqWindows, NoLostWakeup, AwakeReaders
  <2> QED
    BY <2>1, <2>2, <2>3
<1>5. CASE Halt
  <2>1. TypeOK' /\ ListExact' /\ CpuIsCurrent' /\ WaitQueueExact'
    BY <1>5 DEF Halt, TypeOK, LoopPoints, ListExact, CpuIsCurrent,
       WaitQueueExact
  <2>2. OneRunning' /\ PointMatchesState'
    BY <1>5 DEF Halt, OneRunning, PointMatchesState, OffCpu, OnCpu
  <2>3. IrqWindows' /\ NoLostWakeup'
    BY <1>5 DEF Halt, IrqWindows, NoLostWakeup, AwakeReaders
  <2> QED
    BY <2>1, <2>2, <2>3
<1> QED
  BY <1>1, <1>2, <1>3, <1>4, <1>5 DEF MainLoop

----------------------------------------------------------------------------
(* The calls a task makes.                                                 *)

LEMMA TaskCreateIndInv ==
  ASSUME NEW t \in Tasks, IndInv, TaskCreate(t)
  PROVE  IndInv'
<1> USE DEF IndInv
<1> DEFINE new == created + 1
<1>1. cpu = t /\ t # 0 /\ pc[t] = "kernel" /\ state[t] = "RUNNING" /\ loop = "resumed"
  BY RunningTask DEF TaskCreate, At, RunningPoints
<1>2. new \in Tasks /\ state[new] = "NONE" /\ new # t /\ pc[new] = "kernel"
  <2>1. new \in Tasks /\ state[new] = "NONE"
    BY DEF TaskCreate, TypeOK, ListExact
  <2> QED
    BY <1>1, <2>1 DEF PointMatchesState, OffCpu
<1>3. /\ state' = [state EXCEPT ![new] = "READY"]
      /\ pc' = pc
  BY <1>2 DEF TaskCreate, TypeOK
<1>4. TypeOK'
  BY <1>2, <1>3 DEF TaskCreate, TypeOK, States
<1>5. ListExact' /\ CpuIsCurrent' /\ OneRunning'
  BY <1>2, <1>3 DEF TaskCreate, TypeOK, ListExact, CpuIsCurrent, OneRunning
<1>6. PointMatchesState'
  BY <1>1, <1>2, <1>3 DEF TaskCreate, TypeOK, PointMatchesState, OnCpu, OffCpu
<1>7. WaitQueueExact'
  BY <1>2, <1>3, WaitQueueKept DEF TaskCreate, TypeOK
<1>8. IrqWindows'
  BY <1>3 DEF TaskCreate, IrqWindows
<1>9. NoLostWakeup'
  <2>1. AwakeReaders \subseteq AwakeReaders'
    BY <1>2, <1>3 DEF AwakeReaders, TypeOK
  <2> QED
    BY <2>1, NoWakeupLost DEF TaskCreate
<1> QED
  BY <1>4, <1>5, <1>6, <1>7, <1>8, <1>9

\* A task that stores a new state for itself and goes to a point before its
\* context switch.
LEMMA LeavingStep ==
  ASSUME IndInv, NEW t \in Tasks, cpu = t, pc[t] = "kernel",
         NEW p \in {"switch", "exit"}, NEW s \in {"READY", "SLEEPING", "DONE"},
         p = "switch" <=> s # "DONE",
         pc' = [pc EXCEPT ![t] = p], state' = [state EXCEPT ![t] = s],
         wake_in' \in [Tasks -> Nat],
         UNCHANGED <<created, current_task, schedule_cursor, cpu, loop, ret,
                     saved_if, IF_flag, wait_queue, tty_count>>
  PROVE  IndInv'
<1> USE DEF IndInv
<1>1. current_task = t /\ state[t] = "RUNNING" /\ loop = "resumed" /\ t # 0
  BY RunningTask DEF RunningPoints
<1>2. TypeOK'
  BY DEF TypeOK, States, TaskPoints
<1>3. ListExact' /\ CpuIsCurrent' /\ OneRunning'
  BY <1>1 DEF TypeOK, ListExact, CpuIsCurrent, OneRunning
<1>4. PointMatchesState'
  BY <1>1 DEF TypeOK, PointMatchesState, OnCpu, OffCpu
<1>5. WaitQueueExact'
  BY <1>1, WaitQueueKept DEF TypeOK
<1>6. IrqWindows'
  BY <1>1 DEF TypeOK, IrqWindows
<1>7. NoLostWakeup'
  <2>1. AwakeReaders \subseteq AwakeReaders'
    BY <1>1 DEF AwakeReaders, TypeOK
  <2> QED
    BY <2>1, NoWakeupLost
<1> QED
  BY <1>2, <1>3, <1>4, <1>5, <1>6, <1>7

LEMMA TaskYieldIndInv ==
  ASSUME NEW t \in Tasks, IndInv, TaskYield(t)
  PROVE  IndInv'
<1>1. cpu = t /\ pc[t] = "kernel" /\ current_task = t /\ state[t] = "RUNNING"
  BY RunningTask DEF TaskYield, At, RunningPoints
<1>2. wake_in' \in [Tasks -> Nat]
  BY DEF TaskYield, IndInv, TypeOK
<1> QED
  BY <1>1, <1>2, LeavingStep DEF TaskYield, Yielded

LEMMA TaskSleepIndInv ==
  ASSUME NEW t \in Tasks, NEW ticks \in 1 .. MaxSleep, IndInv,
         TaskSleep(t, ticks)
  PROVE  IndInv'
<1>1. cpu = t /\ pc[t] = "kernel" /\ current_task = t
  BY RunningTask DEF TaskSleep, At, RunningPoints
<1>2. wake_in' \in [Tasks -> Nat]
  BY DEF TaskSleep, IndInv, TypeOK
<1> QED
  BY <1>1, <1>2, LeavingStep DEF TaskSleep

LEMMA TaskExitIndInv ==
  ASSUME NEW t \in Tasks, IndInv, TaskExit(t)
  PROVE  IndInv'
<1>1. cpu = t /\ pc[t] = "kernel" /\ current_task = t
  BY RunningTask DEF TaskExit, At, RunningPoints
<1>2. wake_in' \in [Tasks -> Nat]
  BY DEF TaskExit, IndInv, TypeOK
<1> QED
  BY <1>1, <1>2, LeavingStep DEF TaskExit, ExitState

LEMMA TaskStatsIndInv ==
  ASSUME NEW t \in Tasks, IndInv, TaskStats(t)
  PROVE  IndInv'
<1> USE DEF IndInv
<1>1. cpu = t /\ pc[t] = "kernel" /\ state[t] = "RUNNING" /\ loop = "resumed"
  BY RunningTask DEF TaskStats, At, RunningPoints
<1>2. \A u \in Tasks : state'[u] = IF Due(u) THEN "READY" ELSE state[u]
  BY DEF TaskStats, Woken
<1>3. TypeOK'
  BY DEF TaskStats, Woken, TypeOK, States
<1>4. ListExact' /\ CpuIsCurrent' /\ OneRunning'
  BY <1>2 DEF TaskStats, Due, TypeOK, ListExact, CpuIsCurrent, OneRunning
<1>5. PointMatchesState'
  BY <1>1, <1>2 DEF TaskStats, Due, TypeOK, PointMatchesState, OnCpu, OffCpu
<1>6. WaitQueueExact'
  BY <1>2, WaitQueueKept DEF TaskStats, Due
<1>7. IrqWindows'
  BY DEF TaskStats, IrqWindows
<1>8. NoLostWakeup'
  <2>1. AwakeReaders \subseteq AwakeReaders'
    BY <1>2 DEF TaskStats, AwakeReaders
  <2> QED
    BY <2>1, NoWakeupLost DEF TaskStats
<1> QED
  BY <1>3, <1>4, <1>5, <1>6, <1>7, <1>8

LEMMA SwitchToLoopIndInv ==
  ASSUME NEW t \in Tasks, IndInv, SwitchToLoop(t)
  PROVE  IndInv'
<1> USE DEF IndInv
<1>1. /\ cpu = t /\ current_task = t /\ t # 0 /\ loop = "resumed"
      /\ state[t] # "RUNNING" /\ IF_flag /\ cpu' = 0
  BY DEF SwitchToLoop, CpuIsCurrent, PointMatchesState, OnCpu, IrqWindows
<1>2. pc' = [pc EXCEPT ![t] = Resume(pc[t])]
  BY <1>1 DEF SwitchToLoop
<1>3. TypeOK'
  BY <1>2 DEF SwitchToLoop, Resume, TypeOK, TaskPoints
<1>4. ListExact' /\ CpuIsCurrent' /\ OneRunning' /\ WaitQueueExact'
  BY <1>1 DEF SwitchToLoop, ListExact, CpuIsCurrent, OneRunning, WaitQueueExact
<1>5. PointMatchesState'
  BY <1>1, <1>2 DEF SwitchToLoop, Resume, TypeOK, ListExact,
     PointMatchesState, OnCpu, OffCpu
<1>6. IrqWindows'
  BY <1>1 DEF SwitchToLoop, IrqWindows
<1>7. NoLostWakeup'
  <2>1. AwakeReaders \subseteq AwakeReaders'
    BY <1>1, <1>2 DEF SwitchToLoop, Resume, AwakeReaders, TypeOK
  <2> QED
    BY <2>1, NoWakeupLost DEF SwitchToLoop
<1> QED
  BY <1>3, <1>4, <1>5, <1>6, <1>7

LEMMA ReadKeyIndInv ==
  ASSUME NEW t \in Tasks, IndInv, ReadKey(t)
  PROVE  IndInv'
<1>1. cpu = t /\ t # 0 /\ pc[t] = "kernel" /\ pc' = [pc EXCEPT ![t] = "read"]
  BY DEF ReadKey, At
<1>2. TypeOK' /\ IrqWindows'
  BY <1>1 DEF ReadKey, IndInv, TypeOK, TaskPoints, IrqWindows
<1> QED
  BY <1>1, <1>2, RunningStep DEF ReadKey, IndInv, RunningPoints

----------------------------------------------------------------------------
(* The blocking read.                                                      *)

LEMMA BlockingReadIndInv ==
  ASSUME NEW t \in Tasks, IndInv, BlockingRead(t)
  PROVE  IndInv'
<1> USE DEF IndInv
<1>1. CASE TakeKey(t)
  <2>1. /\ cpu = t /\ t # 0 /\ pc[t] = "read" /\ state[t] = "RUNNING"
        /\ pc' = [pc EXCEPT ![t] = ret[t]] /\ ret[t] \in {"kernel", "sysret"}
    BY <1>1, RunningTask DEF TakeKey, At, RunningPoints, TypeOK
  <2>2. TypeOK' /\ IrqWindows'
    BY <1>1, <2>1 DEF TakeKey, TypeOK, TaskPoints, IrqWindows
  <2>3. NoLostWakeup'
    <3>1. t \in AwakeReaders
      BY <2>1 DEF AwakeReaders
    <3>2. AwakeReaders \ {t} \subseteq AwakeReaders'
      BY <1>1 DEF TakeKey, AwakeReaders, TypeOK
    <3>3. /\ Cardinality(AwakeReaders \ {t}) = Cardinality(AwakeReaders) - 1
          /\ IsFiniteSet(AwakeReaders \ {t})
      BY <3>1, AwakeFinite, FS_RemoveElement
    <3>4. Cardinality(AwakeReaders \ {t}) <= Cardinality(AwakeReaders')
      BY <3>2, AwakeFinite, FS_Subset
    <3>5. /\ Cardinality(AwakeReaders) \in Nat
          /\ Cardinality(AwakeReaders') \in Nat
      BY AwakeFinite, FS_CardinalityType
    <3> QED
      BY <1>1, <3>3, <3>4, <3>5 DEF TakeKey, NoLostWakeup, TypeOK
  <2> QED
    BY <1>1, <2>1, <2>2, <2>3, RunningStep DEF TakeKey, RunningPoints
<1>2. CASE FindEmpty(t)
  <2>1. /\ cpu = t /\ t # 0 /\ pc[t] = "read" /\ IF_flag
        /\ pc' = [pc EXCEPT ![t] = "enqueue"]
    BY <1>2 DEF FindEmpty, At, IrqWindows
  <2>2. TypeOK'
    BY <1>2, <2>1 DEF FindEmpty, irq_save, TypeOK, TaskPoints
  <2>3. IrqWindows'
    BY <1>2, <2>1 DEF FindEmpty, irq_save, TypeOK, IrqWindows
  <2>4. NoLostWakeup'
    <3>1. tty_count' = 0
      BY <1>2 DEF FindEmpty
    <3>2. Cardinality(AwakeReaders') \in Nat
      BY AwakeFinite, FS_CardinalityType
    <3> QED
      BY <3>1, <3>2 DEF NoLostWakeup
  <2> QED
    BY <1>2, <2>1, <2>2, <2>3, <2>4, RunningStep DEF FindEmpty, RunningPoints
<1>3. CASE Enqueue(t)
  <2>1. /\ cpu = t /\ t # 0 /\ current_task = t /\ pc[t] = "enqueue"
        /\ state[t] = "RUNNING" /\ loop = "resumed" /\ ~IF_flag /\ saved_if[t]
        /\ tty_count = 0
    BY <1>3, RunningTask DEF Enqueue, At, RunningPoints, IrqWindows
  <2>2. /\ pc' = [pc EXCEPT ![t] = "restore"]
        /\ state' = [state EXCEPT ![t] = "WAITING"]
        /\ wait_queue' = Append(wait_queue, t)
    BY <1>3, <2>1 DEF Enqueue
  <2>3. TypeOK'
    BY <1>3, <2>2 DEF Enqueue, TypeOK, States, TaskPoints
  <2>4. ListExact' /\ CpuIsCurrent' /\ OneRunning'
    BY <1>3, <2>1, <2>2 DEF Enqueue, TypeOK, ListExact, CpuIsCurrent, OneRunning
  <2>5. WaitQueueExact'
    <3>1. /\ DOMAIN wait_queue = 1 .. Len(wait_queue)
          /\ DOMAIN wait_queue' = 1 .. Len(wait_queue) + 1
          /\ Len(wait_queue) \in Nat
          /\ wait_queue'[Len(wait_queue) + 1] = t
          /\ \A i \in DOMAIN wait_queue : wait_queue'[i] = wait_queue[i]
      BY <2>2 DEF TypeOK
    <3>2. \A i \in DOMAIN wait_queue : wait_queue[i] # t
      BY <2>1 DEF WaitQueueExact
    <3>3. \A i, j \in DOMAIN wait_queue' :
            wait_queue'[i] = wait_queue'[j] => i = j
      BY <3>1, <3>2 DEF WaitQueueExact
    <3>4. ASSUME NEW u \in Tasks
          PROVE  state'[u] = "WAITING" <=>
                   \E i \in DOMAIN wait_queue' : wait_queue'[i] = u
      <4>1. CASE u = t
        <5>1. state'[u] = "WAITING"
          BY <2>2, <4>1 DEF TypeOK
        <5>2. Len(wait_queue) + 1 \in DOMAIN wait_queue'
          BY <3>1
        <5> QED
          BY <5>1, <5>2, <4>1, <3>1
      <4>2. CASE u # t
        <5>1. state'[u] = state[u]
          BY <2>2, <4>2 DEF TypeOK
        <5>2. (\E i \in DOMAIN wait_queue' : wait_queue'[i] = u) <=>
                (\E i \in DOMAIN wait_queue : wait_queue[i] = u)
          BY <4>2, <3>1
        <5> QED
          BY <5>1, <5>2 DEF WaitQueueExact
      <4> QED
        BY <4>1, <4>2
    <3> QED
      BY <3>3, <3>4 DEF WaitQueueExact
  <2>6. PointMatchesState'
    <3>1. cpu' = t /\ loop' = "resumed" /\ current_task' = current_task
      BY <1>3, <2>1, <2>2 DEF Enqueue, PointMatchesState
    <3>2. pc'[t] = "restore" /\ state'[t] = "WAITING"
      BY <1>3, <2>1, <2>2 DEF Enqueue, TypeOK
    <3>3. ASSUME NEW u \in Tasks, u # t
          PROVE  pc'[u] = pc[u] /\ state'[u] = state[u]
      BY <1>3, <2>1, <2>2, <3>3 DEF Enqueue, TypeOK
    <3>4. ASSUME NEW u \in Tasks, u # t PROVE OffCpu(u)'
      BY <2>1, <3>3, <3>4 DEF PointMatchesState, OffCpu
    <3>5. OnCpu(t)'
      BY <3>2 DEF OnCpu
    <3> QED
      BY <3>1, <3>4, <3>5 DEF PointMatchesState
  <2>7. IrqWindows'
    BY <1>3, <2>1, <2>2 DEF Enqueue, TypeOK, IrqWindows
  <2>8. NoLostWakeup'
    <3>1. tty_count' = 0
      BY <1>3, <2>1 DEF Enqueue
    <3>2. Cardinality(AwakeReaders') \in Nat
      BY AwakeFinite, FS_CardinalityType
    <3> QED
      BY <3>1, <3>2 DEF NoLostWakeup
  <2> QED
    BY <2>3, <2>4, <2>5, <2>6, <2>7, <2>8
<1>4. CASE RestoreIrq(t)
  <2>1. /\ cpu = t /\ t # 0 /\ pc[t] = "restore" /\ state[t] = "WAITING"
        /\ loop = "resumed" /\ saved_if[t] /\ pc' = [pc EXCEPT ![t] = "block"]
    BY <1>4 DEF RestoreIrq, At, PointMatchesState, OnCpu, IrqWindows
  <2>2. TypeOK'
    BY <1>4, <2>1 DEF RestoreIrq, TypeOK, TaskPoints
  <2>3. ListExact' /\ CpuIsCurrent' /\ OneRunning' /\ WaitQueueExact'
    BY <1>4 DEF RestoreIrq, ListExact, CpuIsCurrent, OneRunning, WaitQueueExact
  <2>4. PointMatchesState'
    BY <1>4, <2>1 DEF RestoreIrq, TypeOK, PointMatchesState, OnCpu, OffCpu
  <2>5. IrqWindows'
    BY <1>4, <2>1 DEF RestoreIrq, TypeOK, IrqWindows
  <2>6. NoLostWakeup'
    <3>1. AwakeReaders \subseteq AwakeReaders'
      BY <1>4, <2>1 DEF RestoreIrq, AwakeReaders, TypeOK
    <3> QED
      BY <1>4, <3>1, NoWakeupLost DEF RestoreIrq
  <2> QED
    BY <2>2, <2>3, <2>4, <2>5, <2>6
<1> QED
  BY <1>1, <1>2, <1>3, <1>4 DEF BlockingRead

----------------------------------------------------------------------------
(* Ring 3 and the system calls: all of them only move the running task and *)
(* set the interrupt flag.                                                 *)

LEMMA Ring3IndInv ==
  ASSUME NEW t \in Tasks, IndInv, Ring3(t)
  PROVE  IndInv'
<1> USE DEF IndInv
<1> SUFFICES ASSUME NEW p \in {"kernel", "read", "user", "syscall", "sysret"},
                    cpu = t, pc[t] \in {"kernel", "user", "syscall", "sysret"},
                    pc' = [pc EXCEPT ![t] = p],
                    ret' \in [Tasks -> {"kernel", "sysret"}],
                    IF_flag' \in BOOLEAN,
                    ~IF_flag' => p \in {"syscall", "sysret"},
                    UNCHANGED <<created, state, wake_in, current_task,
                                schedule_cursor, cpu, loop, saved_if,
                                wait_queue, tty_count>>
             PROVE  IndInv'
  <2>1. CASE EnterRing3(t)
    BY <2>1 DEF EnterRing3, At, TypeOK
  <2>2. CASE Syscall(t)
    BY <2>2 DEF Syscall, At, TypeOK
  <2>3. CASE SyscallRead(t)
    BY <2>3 DEF SyscallRead, ReadDispatchIF, At, TypeOK
  <2>4. CASE SyscallOther(t)
    BY <2>4 DEF SyscallOther, At, TypeOK
  <2>5. CASE SyscallReturn(t)
    BY <2>5 DEF SyscallReturn, At, TypeOK
  <2>6. CASE SyscallExit(t)
    BY <2>6 DEF SyscallExit, At, TypeOK
  <2> QED
    BY <2>1, <2>2, <2>3, <2>4, <2>5, <2>6 DEF Ring3
<1>1. TypeOK'
  BY DEF TypeOK, TaskPoints
<1>2. IrqWindows'
  BY DEF TypeOK, IrqWindows
<1> QED
  BY <1>1, <1>2, RunningStep DEF RunningPoints

----------------------------------------------------------------------------
(* The interrupt handlers.                                                 *)

LEMMA IrqIndInv ==
  ASSUME IndInv, Irq
  PROVE  IndInv'
<1> USE DEF IndInv
<1>1. CASE TimerIrq \/ OtherIrq
  <2>1. /\ wake_in' \in [Tasks -> Nat]
        /\ loop' = AfterIrq
        /\ UNCHANGED <<created, state, current_task, schedule_cursor, cpu, pc,
                       ret, saved_if, IF_flag, wait_queue, tty_count>>
    <3>1. CASE TimerIrq
      <4>1. wake_in' \in [Tasks -> Nat]
        <5>1. wake_in \in [Tasks -> Nat]
          BY DEF TypeOK
        <5> QED
          BY <3>1, <5>1 DEF TimerIrq
      <4> QED
        BY <3>1, <4>1 DEF TimerIrq
    <3>2. CASE OtherIrq
      BY <3>2 DEF OtherIrq, TypeOK
    <3> QED
      BY <1>1, <3>1, <3>2
  <2>2. TypeOK' /\ ListExact' /\ CpuIsCurrent' /\ OneRunning' /\ WaitQueueExact'
    BY <2>1 DEF AfterIrq, TypeOK, LoopPoints, ListExact, CpuIsCurrent,
       OneRunning, WaitQueueExact
  <2>3. PointMatchesState'
    BY <2>1 DEF AfterIrq, PointMatchesState, OnCpu, OffCpu
  <2>4. IrqWindows' /\ NoLostWakeup'
    BY <2>1 DEF IrqWindows, NoLostWakeup, AwakeReaders
  <2> QED
    BY <2>2, <2>3, <2>4
<1>2. CASE KeyIrq
  <2>b. ASSUME wait_queue # <<>>
        PROVE  /\ Head(wait_queue) = wait_queue[1]
               /\ Head(wait_queue) \in Tasks
               /\ state[Head(wait_queue)] = "WAITING"
    <3>1. Head(wait_queue) = wait_queue[1] /\ 1 \in DOMAIN wait_queue
      BY <2>b DEF TypeOK
    <3> QED
      BY <3>1 DEF WaitQueueExact, TypeOK
  <2>a. /\ wait_queue = <<>> => wait_queue' = wait_queue /\ state' = state
        /\ wait_queue # <<>> =>
             /\ wait_queue' = Tail(wait_queue)
             /\ state' = [state EXCEPT ![Head(wait_queue)] = "READY"]
             /\ Head(wait_queue) \in Tasks
             /\ state[Head(wait_queue)] = "WAITING"
    BY <1>2, <2>b DEF KeyIrq, WakeOne
  <2>1. TypeOK'
    <3>1. state' \in [Tasks -> States]
      BY <2>a DEF TypeOK, States
    <3>2. wait_queue' \in Seq(Tasks)
      <4>1. CASE wait_queue = <<>>
        BY <4>1, <2>a DEF TypeOK
      <4>2. CASE wait_queue # <<>>
        <5>1. wait_queue \in Seq(Tasks)
          BY DEF TypeOK
        <5>2. Tail(wait_queue) \in Seq(Tasks)
          BY <4>2, <5>1
        <5> QED
          BY <4>2, <5>2, <2>a
      <4> QED
        BY <4>1, <4>2
    <3> QED
      BY <1>2, <3>1, <3>2 DEF KeyIrq, TtyHasRoom, AfterIrq, TypeOK, LoopPoints
  <2>2. ListExact' /\ CpuIsCurrent'
    BY <1>2, <2>a DEF KeyIrq, AfterIrq, TypeOK, ListExact, CpuIsCurrent,
       PointMatchesState
  <2>3. OneRunning'
    BY <1>2, <2>a DEF KeyIrq, AfterIrq, TypeOK, OneRunning
  <2>4. PointMatchesState'
    <3>1. ASSUME NEW u \in Tasks
         PROVE  (cpu' = u => OnCpu(u)') /\ (cpu' # u => OffCpu(u)')
      <4>1. state'[u] = state[u] \/ (state[u] = "WAITING" /\ state'[u] = "READY")
        BY <1>2, <2>a DEF TypeOK
      <4>2. cpu = u => pc[u] # "restore"
        BY <1>2 DEF KeyIrq, IrqWindows
      <4>3. cpu' = cpu /\ pc' = pc
        BY <1>2 DEF KeyIrq
      <4> QED
        BY <4>1, <4>2, <4>3 DEF PointMatchesState, OnCpu, OffCpu, TypeOK
    <3>2. loop' = "switch" => loop = "switch"
      BY <1>2 DEF KeyIrq, AfterIrq
    <3>3. cpu # 0 => loop' = "resumed"
      BY <1>2 DEF KeyIrq, AfterIrq, PointMatchesState
    <3>4. loop = "switch" => state'[current_task] = "RUNNING"
      <4>1. loop = "switch" => current_task \in Tasks
        BY DEF TypeOK, CpuIsCurrent, PointMatchesState
      <4> QED
        BY <1>2, <2>a, <4>1 DEF PointMatchesState, TypeOK
    <3> QED
      BY <1>2, <3>1, <3>2, <3>3, <3>4 DEF KeyIrq, PointMatchesState
  <2>5. WaitQueueExact'
    <3>1. CASE wait_queue = <<>>
      BY <1>2, <3>1, <2>a, WaitQueueKept
    <3>2. CASE wait_queue # <<>>
      <4>1. /\ wait_queue' = Tail(wait_queue)
            /\ wait_queue \in Seq(Tasks)
            /\ state' = [state EXCEPT ![wait_queue[1]] = "READY"]
            /\ wait_queue[1] \in Tasks
        BY <3>2, <2>a, <2>b DEF TypeOK
      <4>2. /\ DOMAIN wait_queue = 1 .. Len(wait_queue)
            /\ DOMAIN wait_queue' = 1 .. Len(wait_queue) - 1
            /\ Len(wait_queue) \in Nat \ {0}
            /\ \A i \in DOMAIN wait_queue' : wait_queue'[i] = wait_queue[i + 1]
        BY <3>2, <4>1
      <4>3. \A i, j \in DOMAIN wait_queue' :
              wait_queue'[i] = wait_queue'[j] => i = j
        BY <4>2 DEF WaitQueueExact
      <4>4. ASSUME NEW u \in Tasks
            PROVE  state'[u] = "WAITING" <=>
                     \E i \in DOMAIN wait_queue' : wait_queue'[i] = u
        <5>1. CASE u = wait_queue[1]
          <6>1. state'[u] = "READY"
            BY <4>1, <5>1 DEF TypeOK
          <6>2. \A i \in DOMAIN wait_queue' : wait_queue[i + 1] # u
            BY <4>2, <5>1 DEF WaitQueueExact
          <6> QED
            BY <6>1, <6>2, <4>2
        <5>2. CASE u # wait_queue[1]
          <6>1. state'[u] = state[u]
            BY <4>1, <5>2 DEF TypeOK
          <6>2. ASSUME NEW i \in DOMAIN wait_queue, wait_queue[i] = u
                PROVE  i - 1 \in DOMAIN wait_queue' /\ wait_queue'[i - 1] = u
            BY <4>2, <5>2, <6>2
          <6>3. ASSUME NEW i \in DOMAIN wait_queue', wait_queue'[i] = u
                PROVE  i + 1 \in DOMAIN wait_queue /\ wait_queue[i + 1] = u
            BY <4>2, <6>3
          <6> QED
            BY <6>1, <6>2, <6>3 DEF WaitQueueExact
        <5> QED
          BY <5>1, <5>2
      <4> QED
        BY <4>3, <4>4 DEF WaitQueueExact
    <3> QED
      BY <3>1, <3>2
  <2>6. IrqWindows'
    BY <1>2 DEF KeyIrq, TypeOK, IrqWindows
  <2>7. NoLostWakeup'
    <3>1. CASE wait_queue = <<>>
      BY <3>1, <2>a DEF NoLostWakeup
    <3>2. CASE wait_queue # <<>>
      <4> DEFINE h == Head(wait_queue)
      <4>1. h \in Tasks /\ state[h] = "WAITING" /\ state' = [state EXCEPT ![h] = "READY"]
        BY <3>2, <2>a, <2>b
      <4> HIDE DEF h
      <4>2. pc[h] \in {"read", "block"}
        <5>1. CASE h = cpu
          <6>1. IF_flag /\ h # 0
            BY <1>2, <4>1 DEF KeyIrq
          <6>2. pc[h] # "restore"
            BY <5>1, <6>1 DEF IrqWindows
          <6>3. OnCpu(h)
            BY <4>1, <5>1 DEF PointMatchesState
          <6> QED
            BY <4>1, <6>2, <6>3 DEF OnCpu
        <5>2. CASE h # cpu
          BY <4>1, <5>2 DEF PointMatchesState, OffCpu
        <5> QED
          BY <5>1, <5>2
      <4>3. h \notin AwakeReaders /\ AwakeReaders' = AwakeReaders \cup {h}
        BY <1>2, <4>1, <4>2 DEF KeyIrq, AwakeReaders, TypeOK
      <4>4. Cardinality(AwakeReaders') = Cardinality(AwakeReaders) + 1
        BY <4>3, AwakeFinite, FS_AddElement
      <4>5. Cardinality(AwakeReaders) \in Nat
        BY AwakeFinite, FS_CardinalityType
      <4> QED
        BY <1>2, <3>2, <4>4, <4>5 DEF KeyIrq, NoLostWakeup, TypeOK
    <3> QED
      BY <3>1, <3>2
  <2> QED
    BY <2>1, <2>2, <2>3, <2>4, <2>5, <2>6, <2>7
<1> QED
  BY <1>1, <1>2 DEF Irq

----------------------------------------------------------------------------

LEMMA NextIndInv == IndInv /\ [Next]_vars => IndInv'
<1> SUFFICES ASSUME IndInv, [Next]_vars PROVE IndInv'
  OBVIOUS
<1>1. CASE MainLoop
  BY <1>1, MainLoopIndInv
<1>2. CASE Irq
  BY <1>2, IrqIndInv
<1>3. ASSUME NEW t \in Tasks, Task(t) PROVE IndInv'
  <2>1. CASE GiveUp(t)
    BY <2>1, TaskYieldIndInv, TaskExitIndInv, ReadKeyIndInv,
       TaskSleepIndInv
       DEF GiveUp
  <2> QED
    BY <1>3, <2>1, TaskCreateIndInv, TaskStatsIndInv, SwitchToLoopIndInv,
       BlockingReadIndInv, Ring3IndInv DEF Task
<1>4. CASE UNCHANGED vars
  <2>1. /\ TypeOK' /\ ListExact' /\ CpuIsCurrent' /\ OneRunning'
        /\ WaitQueueExact' /\ IrqWindows'
    BY <1>4 DEF IndInv, vars, TypeOK, ListExact, CpuIsCurrent, OneRunning,
       WaitQueueExact, IrqWindows
  <2>2. PointMatchesState'
    BY <1>4 DEF IndInv, vars, PointMatchesState, OnCpu, OffCpu
  <2>3. NoLostWakeup'
    BY <1>4 DEF IndInv, vars, NoLostWakeup, AwakeReaders
  <2> QED
    BY <2>1, <2>2, <2>3 DEF IndInv
<1> QED
  BY <1>1, <1>2, <1>3, <1>4 DEF Next

\* IndInv holds in every reachable state.
THEOREM Invariance == Spec => []IndInv
BY InitIndInv, NextIndInv, PTL DEF Spec

\* Every variable keeps its type: in particular tty_count never exceeds the
\* size of tty_buffer.
THEOREM TypeCorrect == Spec => []TypeOK
<1>1. IndInv => TypeOK
  BY DEF IndInv
<1> QED
  BY <1>1, Invariance, PTL

\* The scheduler's bookkeeping is exact: the code on the CPU is current_task's,
\* nobody else is RUNNING, and tty_wait_queue holds exactly the tasks that
\* are WAITING.
THEOREM Bookkeeping == Spec => [](CpuIsCurrent /\ OneRunning /\ WaitQueueExact)
<1>1. IndInv => CpuIsCurrent /\ OneRunning /\ WaitQueueExact
  BY DEF IndInv
<1> QED
  BY <1>1, Invariance, PTL

\* tty_read_key_blocking loses no wakeup, for any number of readers.
THEOREM WakeupsKept == Spec => []NoLostWakeup
<1>1. IndInv => NoLostWakeup
  BY DEF IndInv
<1> QED
  BY <1>1, Invariance, PTL

\* kernel_main never halts with interrupts off.
THEOREM HaltSafe == Spec => []HaltInterruptible
<1>1. IndInv => HaltInterruptible
  <2> SUFFICES ASSUME IndInv, loop = "halted" PROVE IF_flag
    BY DEF HaltInterruptible
  <2>1. cpu = 0
    BY DEF IndInv, PointMatchesState
  <2> QED
    BY <2>1 DEF IndInv, IrqWindows
<1> QED
  BY <1>1, Invariance, PTL

\* The KPANIC after task_exit's context switch is unreachable.
THEOREM ExitIsFinal == Spec => []ExitNeverReturns
<1>1. IndInv => ExitNeverReturns
  BY DEF IndInv, ExitNeverReturns, At, PointMatchesState, OnCpu
<1> QED
  BY <1>1, Invariance, PTL

\* What a step does to a task's state, as far as DONE and SLEEPING go: only
\* the task on the CPU moves itself, and a sleeper is woken only when due.
LEMMA StepKeepsDoneAndSleep ==
  ASSUME IndInv, [Next]_vars, NEW u \in Tasks
  PROVE  /\ state[u] = "DONE" => state'[u] = "DONE"
         /\ state[u] = "SLEEPING" /\ state'[u] # "SLEEPING" => wake_in[u] = 0
<1> USE DEF IndInv
<1>1. CASE MainLoop
  BY <1>1 DEF MainLoop, PickTask, PickNone, SwitchToTask, TaskSwitchedBack,
     Halt, Runnable, Woken, Due, TypeOK
<1>2. CASE Irq
  <2>1. CASE KeyIrq
    BY <2>1 DEF KeyIrq, WakeOne, TypeOK
  <2> QED
    BY <1>2, <2>1 DEF Irq, TimerIrq, OtherIrq
<1>3. ASSUME NEW t \in Tasks, Task(t)
      PROVE  /\ state[u] = "DONE" => state'[u] = "DONE"
             /\ state[u] = "SLEEPING" /\ state'[u] # "SLEEPING" => wake_in[u] = 0
  <2>2. CASE TaskCreate(t)
    BY <2>2 DEF TaskCreate, TypeOK, ListExact
  <2>3. CASE TaskStats(t)
    BY <2>3 DEF TaskStats, Woken, Due, TypeOK
  <2>4. CASE GiveUp(t)
    <3>1. current_task = t /\ state[t] = "RUNNING"
      <4>1. cpu = t /\ pc[t] = "kernel"
        BY <2>4 DEF GiveUp, TaskYield, TaskExit, ReadKey, TaskSleep, At
      <4> QED
        BY <4>1, RunningTask DEF RunningPoints
    <3> QED
      BY <2>4, <3>1 DEF GiveUp, TaskYield, Yielded, TaskExit, ReadKey,
         TaskSleep, TypeOK
  <2>5. CASE SwitchToLoop(t) \/ Ring3(t)
    BY <2>5 DEF SwitchToLoop, Ring3, EnterRing3, Syscall, SyscallRead,
       SyscallOther, SyscallReturn, SyscallExit
  <2>6. CASE BlockingRead(t)
    <3>1. CASE Enqueue(t)
      <4>1. current_task = t /\ state[t] = "RUNNING"
        BY <3>1, RunningTask DEF Enqueue, At, RunningPoints
      <4> QED
        BY <3>1, <4>1 DEF Enqueue, TypeOK
    <3> QED
      BY <2>6, <3>1 DEF BlockingRead, TakeKey, FindEmpty, RestoreIrq
  <2> QED
    BY <1>3, <2>2, <2>3, <2>4, <2>5, <2>6 DEF Task
<1>4. CASE UNCHANGED vars
  BY <1>4 DEF vars
<1> QED
  BY <1>1, <1>2, <1>3, <1>4 DEF Next

\* A task that has exited is never revived.
THEOREM DoneStays == Spec => DoneIsFinal
<1>1. IndInv /\ [Next]_vars =>
        [\A t \in Tasks : state[t] = "DONE" => state'[t] = "DONE"]_vars
  BY StepKeepsDoneAndSleep
<1> QED
  BY <1>1, Invariance, PTL DEF Spec, DoneIsFinal

\* A sleeper is never woken before its ticks have passed.
THEOREM SleepIsKept == Spec => NoEarlyWake
<1>1. IndInv /\ [Next]_vars =>
        [\A t \in Tasks :
           state[t] = "SLEEPING" /\ state'[t] # "SLEEPING" => wake_in[t] = 0]_vars
  BY StepKeepsDoneAndSleep
<1> QED
  BY <1>1, Invariance, PTL DEF Spec, NoEarlyWake
============================================================================
