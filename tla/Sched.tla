------------------------------- MODULE Sched -------------------------------
(***************************************************************************)
(* The execution core of the kernel: the cooperative round-robin scheduler *)
(* (kernel/task.c, arch/x86_64/task_switch.asm), the wait queue on which a *)
(* reader of the terminal blocks (kernel/wait.c, kernel/tty.c), the main   *)
(* loop that halts between rounds (kernel/kernel.c), and the ring 3 entry  *)
(* and system call paths (arch/x86_64/ring3_switch.asm, syscall_entry.asm),*)
(* all interrupted by the timer and the keyboard whenever the CPU's        *)
(* interrupt flag is set.                                                  *)
(*                                                                         *)
(* There is one CPU.  A step is either a section of kernel code that runs  *)
(* with interrupts off (or that no interrupt handler can observe half      *)
(* done), or one interrupt handler, which runs with interrupts off from    *)
(* its gate to its iretq.  `cpu' says whose stack the CPU is on: 0 for the *)
(* scheduler loop in kernel_main, otherwise a task.                        *)
(*                                                                         *)
(* Time is kept relative: wake_in[t] is task->wake_tick - pit_ticks, cut   *)
(* at 0, so "now >= wake_tick" is wake_in[t] = 0.                          *)
(* Of a key only its presence matters here.                                *)
(*                                                                         *)
(* A definition whose name ends in _Mutant is a faulty variant of the      *)
(* definition after it, which a property below must tell from the code.    *)
(***************************************************************************)
EXTENDS Naturals, Sequences, FiniteSets

CONSTANTS
  MaxTasks,      \* tasks the heap has room for: a bound on task_create
  MaxSleep,      \* the largest argument of task_sleep_ticks considered
  TtyCapacity    \* keys tty_buffer holds: TTY_BUFFER_SIZE - 1

ASSUME SchedAssumption ==
  /\ MaxTasks \in Nat \ {0}
  /\ MaxSleep \in Nat
  /\ TtyCapacity \in Nat \ {0}

VARIABLES
  created,          \* total_task_count; the task list is 1 .. created
  state,            \* task->state
  wake_in,          \* task->wake_tick, relative to pit_ticks
  current_task,     \* 0 is the null pointer
  schedule_cursor,  \* 0 is the null pointer
  cpu,              \* the stack the CPU runs on
  loop,             \* control point of the main loop
  pc,               \* control point of each task
  ret,              \* where tty_read_key_blocking returns to
  saved_if,         \* the irq_flags local of tty_read_key_blocking
  IF_flag,          \* RFLAGS.IF
  wait_queue,       \* tty_wait_queue, head first
  tty_count         \* keys in tty_buffer

vars == <<created, state, wake_in, current_task, schedule_cursor, cpu, loop,
          pc, ret, saved_if, IF_flag, wait_queue, tty_count>>

Tasks == 1 .. MaxTasks

States == {"NONE", "READY", "RUNNING", "SLEEPING", "WAITING", "DONE"}

\* Control points of the main loop: before task_run_once, before and after
\* its context switch, before and inside hlt.
LoopPoints == {"pick", "switch", "resumed", "hlt", "halted"}

\* Control points of a task.
\*   kernel    running its own kernel code
\*   switch    task_yield/task_sleep_ticks: state stored, lock released
\*   exit      task_exit: state stored, lock released
\*   returned  task_exit's context switch came back (KPANIC)
\*   read      top of the loop in tty_read_key_blocking
\*   enqueue   buffer seen empty, interrupts off
\*   restore   on the wait queue, interrupts still off
\*   block     in task_block_switch, before its context switch
\*   user      ring 3
\*   syscall   syscall_entry after its cli
\*   sysret    syscall_dispatch has returned to syscall_entry
TaskPoints == {"kernel", "switch", "exit", "returned", "read", "enqueue",
               "restore", "block", "user", "syscall", "sysret"}

\* Every variable has its type: in particular tty_count never exceeds what
\* tty_buffer holds.
TypeOK ==
  /\ created \in 0 .. MaxTasks
  /\ state \in [Tasks -> States]
  /\ wake_in \in [Tasks -> Nat]
  /\ current_task \in 0 .. MaxTasks
  /\ schedule_cursor \in 0 .. MaxTasks
  /\ cpu \in 0 .. MaxTasks
  /\ loop \in LoopPoints
  /\ pc \in [Tasks -> TaskPoints]
  /\ ret \in [Tasks -> {"kernel", "sysret"}]
  /\ saved_if \in [Tasks -> BOOLEAN]
  /\ IF_flag \in BOOLEAN
  /\ wait_queue \in Seq(Tasks)
  /\ tty_count \in 0 .. TtyCapacity

----------------------------------------------------------------------------
(* Boot leaves the kernel at the top of the main loop with interrupts on   *)
(* and the shell task on the list, or without it when its allocation fails.*)

Init ==
  /\ created \in {0, 1}
  /\ state = [t \in Tasks |-> IF t <= created THEN "READY" ELSE "NONE"]
  /\ wake_in = [t \in Tasks |-> 0]
  /\ current_task = 0
  /\ schedule_cursor = 0
  /\ cpu = 0
  /\ loop = "pick"
  /\ pc = [t \in Tasks |-> "kernel"]
  /\ ret = [t \in Tasks |-> "kernel"]
  /\ saved_if = [t \in Tasks |-> FALSE]
  /\ IF_flag = TRUE
  /\ wait_queue = <<>>
  /\ tty_count = 0

----------------------------------------------------------------------------
(* The main loop and task_run_once.                                        *)

Due_Mutant(t) == state[t] = "SLEEPING"

Due_LastMutant(t) == state[t] = "SLEEPING" /\ wake_in[t] = 0 /\ t < created

\* Which sleepers task_wakeup_sleeping_locked makes READY.
Due(t) == state[t] = "SLEEPING" /\ wake_in[t] = 0

\* The task states after task_wakeup_sleeping_locked.
Woken == [t \in Tasks |-> IF Due(t) THEN "READY" ELSE state[t]]

ScanStart_Mutant == 1

\* Where the circular scan of task_pick_next_locked starts.
ScanStart ==
  IF schedule_cursor # 0 /\ schedule_cursor < created
  THEN schedule_cursor + 1
  ELSE 1

\* How many list steps the scan takes from ScanStart to reach t.
ScanDistance(t) ==
  IF t >= ScanStart THEN t - ScanStart ELSE t + created - ScanStart

Runnable == {t \in 1 .. created : Woken[t] = "READY"}

\* task_run_once up to its first context switch, when some task is READY.
PickTask ==
  /\ cpu = 0 /\ loop = "pick"
  /\ \E next \in Runnable :
       /\ \A t \in Runnable : ScanDistance(next) <= ScanDistance(t)
       /\ schedule_cursor' = next
       /\ current_task' = next
       /\ state' = [Woken EXCEPT ![next] = "RUNNING"]
  /\ loop' = "switch"
  /\ UNCHANGED <<created, wake_in, cpu, pc, ret, saved_if, IF_flag,
                 wait_queue, tty_count>>

\* task_run_once when no task is READY: it returns 0 at once.
PickNone ==
  /\ cpu = 0 /\ loop = "pick"
  /\ Runnable = {}
  /\ state' = Woken
  /\ loop' = "hlt"
  /\ UNCHANGED <<created, wake_in, current_task, schedule_cursor, cpu, pc,
                 ret, saved_if, IF_flag, wait_queue, tty_count>>

\* task_context_switch(&scheduler_rsp, next_rsp).  RFLAGS is not switched.
SwitchToTask ==
  /\ cpu = 0 /\ loop = "switch"
  /\ cpu' = current_task
  /\ loop' = "resumed"
  /\ UNCHANGED <<created, state, wake_in, current_task, schedule_cursor, pc,
                 ret, saved_if, IF_flag, wait_queue, tty_count>>

\* The rest of task_run_once, once a task has switched back.
TaskSwitchedBack ==
  /\ cpu = 0 /\ loop = "resumed"
  /\ current_task' = 0
  /\ loop' = "hlt"
  /\ UNCHANGED <<created, state, wake_in, schedule_cursor, cpu, pc, ret,
                 saved_if, IF_flag, wait_queue, tty_count>>

\* hlt.  An interrupt taken before it does not keep the CPU from halting.
Halt ==
  /\ cpu = 0 /\ loop = "hlt"
  /\ loop' = "halted"
  /\ UNCHANGED <<created, state, wake_in, current_task, schedule_cursor, cpu,
                 pc, ret, saved_if, IF_flag, wait_queue, tty_count>>

MainLoop ==
  PickTask \/ PickNone \/ SwitchToTask \/ TaskSwitchedBack \/ Halt

----------------------------------------------------------------------------
(* What a task running kernel code may call.                               *)

\* A task t executes its own code at control point p.
At(t, p) == cpu = t /\ pc[t] = p

\* task_create: the new task is appended READY.  When an allocation fails
\* it returns 0 and the list is unchanged.
TaskCreate(t) ==
  /\ At(t, "kernel")
  /\ created < MaxTasks
  /\ created' = created + 1
  /\ state' = [state EXCEPT ![created + 1] = "READY"]
  /\ wake_in' = [wake_in EXCEPT ![created + 1] = 0]
  /\ pc' = [pc EXCEPT ![created + 1] = "kernel"]
  /\ UNCHANGED <<current_task, schedule_cursor, cpu, loop, ret, saved_if,
                 IF_flag, wait_queue, tty_count>>

\* task_yield's assignment to current_task->state.
Yielded ==
  IF state[current_task] = "RUNNING"
  THEN [state EXCEPT ![current_task] = "READY"]
  ELSE state

\* task_yield up to its context switch; also task_sleep_ticks(0).
TaskYield(t) ==
  /\ At(t, "kernel")
  /\ current_task # 0
  /\ state' = Yielded
  /\ pc' = [pc EXCEPT ![t] = "switch"]
  /\ UNCHANGED <<created, wake_in, current_task, schedule_cursor, cpu, loop,
                 ret, saved_if, IF_flag, wait_queue, tty_count>>

\* task_sleep_ticks(ticks), ticks > 0, up to its context switch.
TaskSleep(t, ticks) ==
  /\ At(t, "kernel")
  /\ current_task # 0
  /\ state' = [state EXCEPT ![current_task] = "SLEEPING"]
  /\ wake_in' = [wake_in EXCEPT ![current_task] = ticks]
  /\ pc' = [pc EXCEPT ![t] = "switch"]
  /\ UNCHANGED <<created, current_task, schedule_cursor, cpu, loop, ret,
                 saved_if, IF_flag, wait_queue, tty_count>>

\* The state task_exit stores.
ExitState == "DONE"

\* task_exit up to its context switch, called when the entry returns.
TaskExit(t) ==
  /\ At(t, "kernel")
  /\ current_task # 0
  /\ state' = [state EXCEPT ![current_task] = ExitState]
  /\ wake_in' = [wake_in EXCEPT ![current_task] = 0]
  /\ pc' = [pc EXCEPT ![t] = "exit"]
  /\ UNCHANGED <<created, current_task, schedule_cursor, cpu, loop, ret,
                 saved_if, IF_flag, wait_queue, tty_count>>

\* task_ready_count, task_sleeping_count, task_print_all: each also runs
\* task_wakeup_sleeping_locked.
TaskStats(t) ==
  /\ At(t, "kernel")
  /\ state' = Woken
  /\ UNCHANGED <<created, wake_in, current_task, schedule_cursor, cpu, loop,
                 pc, ret, saved_if, IF_flag, wait_queue, tty_count>>

\* Where a task goes on when it is next switched to.
Resume(p) ==
  IF p = "switch" THEN "kernel" ELSE IF p = "exit" THEN "returned" ELSE "read"

\* task_context_switch(&current_task->rsp, scheduler_rsp), the last step of
\* task_yield, task_sleep_ticks, task_exit and task_block_switch.
SwitchToLoop(t) ==
  /\ cpu = t /\ pc[t] \in {"switch", "exit", "block"}
  /\ current_task # 0
  /\ cpu' = 0
  /\ pc' = [pc EXCEPT ![current_task] = Resume(pc[t])]
  /\ UNCHANGED <<created, state, wake_in, current_task, schedule_cursor, loop,
                 ret, saved_if, IF_flag, wait_queue, tty_count>>

----------------------------------------------------------------------------
(* tty_read_key_blocking and wait_queue_block_irqrestore.                  *)

\* A kernel task reads the terminal: the shell, through fd_read.
ReadKey(t) ==
  /\ At(t, "kernel")
  /\ pc' = [pc EXCEPT ![t] = "read"]
  /\ ret' = [ret EXCEPT ![t] = "kernel"]
  /\ UNCHANGED <<created, state, wake_in, current_task, schedule_cursor, cpu,
                 loop, saved_if, IF_flag, wait_queue, tty_count>>

\* A key is there: it is taken with interrupts off and the call returns.
TakeKey(t) ==
  /\ At(t, "read")
  /\ tty_count > 0
  /\ tty_count' = tty_count - 1
  /\ pc' = [pc EXCEPT ![t] = ret[t]]
  /\ ret' = [ret EXCEPT ![t] = "kernel"]       \* dead from here on
  /\ UNCHANGED <<created, state, wake_in, current_task, schedule_cursor, cpu,
                 loop, saved_if, IF_flag, wait_queue>>

irq_save_Mutant == IF_flag

\* The flag irq_save leaves behind.
irq_save == FALSE

\* No key: irq_save has cleared IF and the caller's flag is kept.
FindEmpty(t) ==
  /\ At(t, "read")
  /\ tty_count = 0
  /\ saved_if' = [saved_if EXCEPT ![t] = IF_flag]
  /\ IF_flag' = irq_save
  /\ pc' = [pc EXCEPT ![t] = "enqueue"]
  /\ UNCHANGED <<created, state, wake_in, current_task, schedule_cursor, cpu,
                 loop, ret, wait_queue, tty_count>>

\* wait_queue_block_irqrestore under the queue's lock.
Enqueue(t) ==
  /\ At(t, "enqueue")
  /\ current_task # 0
  /\ wait_queue' = Append(wait_queue, current_task)
  /\ state' = [state EXCEPT ![current_task] = "WAITING"]
  /\ pc' = [pc EXCEPT ![t] = "restore"]
  /\ UNCHANGED <<created, wake_in, current_task, schedule_cursor, cpu, loop,
                 ret, saved_if, IF_flag, tty_count>>

\* irq_restore(irq_flags), before task_block_switch.
RestoreIrq(t) ==
  /\ At(t, "restore")
  /\ IF_flag' = saved_if[t]
  /\ saved_if' = [saved_if EXCEPT ![t] = FALSE]    \* dead from here on
  /\ pc' = [pc EXCEPT ![t] = "block"]
  /\ UNCHANGED <<created, state, wake_in, current_task, schedule_cursor, cpu,
                 loop, ret, wait_queue, tty_count>>

BlockingRead(t) ==
  TakeKey(t) \/ FindEmpty(t) \/ Enqueue(t) \/ RestoreIrq(t)

----------------------------------------------------------------------------
(* Ring 3 and system calls.                                                *)

\* t is between ring3_enter and the SYS_exit that returns from it.
InRing3(t) ==
  \/ pc[t] \in {"user", "syscall", "sysret"}
  \/ pc[t] \in {"read", "enqueue", "restore", "block"} /\ ret[t] = "sysret"

\* ring3_enter: iretq with IF forced on.  The shell, the only task that
\* starts programs, waits for each one, so no two are in ring 3 at once.
EnterRing3(t) ==
  /\ At(t, "kernel")
  /\ \A u \in Tasks : ~InRing3(u)
  /\ pc' = [pc EXCEPT ![t] = "user"]
  /\ IF_flag' = TRUE
  /\ UNCHANGED <<created, state, wake_in, current_task, schedule_cursor, cpu,
                 loop, ret, saved_if, wait_queue, tty_count>>

\* The SYSCALL instruction: FMASK clears IF, then cli.
Syscall(t) ==
  /\ At(t, "user")
  /\ pc' = [pc EXCEPT ![t] = "syscall"]
  /\ IF_flag' = FALSE
  /\ UNCHANGED <<created, state, wake_in, current_task, schedule_cursor, cpu,
                 loop, ret, saved_if, wait_queue, tty_count>>

ReadDispatchIF_Mutant == IF_flag

\* The flag under which SYS_read is dispatched: syscall_call_dispatch_irq_on
\* has executed sti.
ReadDispatchIF == TRUE

\* syscall_call_dispatch_irq_on: SYS_read of the terminal, after sti.
SyscallRead(t) ==
  /\ At(t, "syscall")
  /\ pc' = [pc EXCEPT ![t] = "read"]
  /\ ret' = [ret EXCEPT ![t] = "sysret"]
  /\ IF_flag' = ReadDispatchIF
  /\ UNCHANGED <<created, state, wake_in, current_task, schedule_cursor, cpu,
                 loop, saved_if, wait_queue, tty_count>>

\* syscall_call_dispatch_irq_off: every other call is served without
\* blocking and with interrupts off.
SyscallOther(t) ==
  /\ At(t, "syscall")
  /\ pc' = [pc EXCEPT ![t] = "sysret"]
  /\ UNCHANGED <<created, state, wake_in, current_task, schedule_cursor, cpu,
                 loop, ret, saved_if, IF_flag, wait_queue, tty_count>>

\* syscall_after_dispatch: iretq to ring 3 with the caller's flags.
SyscallReturn(t) ==
  /\ At(t, "sysret")
  /\ pc' = [pc EXCEPT ![t] = "user"]
  /\ IF_flag' = TRUE
  /\ UNCHANGED <<created, state, wake_in, current_task, schedule_cursor, cpu,
                 loop, ret, saved_if, wait_queue, tty_count>>

\* syscall_exit_direct: back to ring3_enter's caller, with sti.
SyscallExit(t) ==
  /\ At(t, "syscall")
  /\ current_task # 0
  /\ pc' = [pc EXCEPT ![t] = "kernel"]
  /\ IF_flag' = TRUE
  /\ UNCHANGED <<created, state, wake_in, current_task, schedule_cursor, cpu,
                 loop, ret, saved_if, wait_queue, tty_count>>

Ring3(t) ==
  \/ EnterRing3(t) \/ Syscall(t) \/ SyscallRead(t) \/ SyscallOther(t)
  \/ SyscallReturn(t) \/ SyscallExit(t)

----------------------------------------------------------------------------
(* Interrupt handlers: each one also ends the hlt it interrupts.           *)

AfterIrq == IF loop = "halted" THEN "pick" ELSE loop

\* IRQ 0, pit_on_tick.
TimerIrq ==
  /\ IF_flag
  /\ wake_in' = [t \in Tasks |-> IF wake_in[t] > 0 THEN wake_in[t] - 1 ELSE 0]
  /\ loop' = AfterIrq
  /\ UNCHANGED <<created, state, current_task, schedule_cursor, cpu, pc, ret,
                 saved_if, IF_flag, wait_queue, tty_count>>

WakeOne_Mutant ==
  /\ wait_queue' = wait_queue
  /\ state' = IF wait_queue # <<>>
              THEN [state EXCEPT ![Head(wait_queue)] = "READY"]
              ELSE state

\* wait_queue_wake_one: the head leaves the queue and, if it is still
\* WAITING, becomes READY.
WakeOne ==
  IF wait_queue = <<>>
  THEN UNCHANGED <<wait_queue, state>>
  ELSE /\ wait_queue' = Tail(wait_queue)
       /\ state' = IF state[Head(wait_queue)] = "WAITING"
                   THEN [state EXCEPT ![Head(wait_queue)] = "READY"]
                   ELSE state

\* tty_push_key's test: next_index(tty_head) != tty_tail.
TtyHasRoom == tty_count < TtyCapacity

\* IRQ 1 with a key: tty_push_key stores it and wakes one reader.
KeyIrq ==
  /\ IF_flag
  /\ TtyHasRoom
  /\ tty_count' = tty_count + 1
  /\ WakeOne
  /\ loop' = AfterIrq
  /\ UNCHANGED <<created, wake_in, current_task, schedule_cursor, cpu, pc,
                 ret, saved_if, IF_flag>>

\* IRQ 1 without a key or with tty_buffer full, and every other IRQ.
OtherIrq ==
  /\ IF_flag
  /\ loop = "halted"
  /\ loop' = AfterIrq
  /\ UNCHANGED <<created, state, wake_in, current_task, schedule_cursor, cpu,
                 pc, ret, saved_if, IF_flag, wait_queue, tty_count>>

Irq == TimerIrq \/ KeyIrq \/ OtherIrq

----------------------------------------------------------------------------

\* t gives up the CPU, or blocks, of its own accord.
GiveUp(t) ==
  \/ TaskYield(t) \/ TaskExit(t) \/ ReadKey(t)
  \/ \E ticks \in 1 .. MaxSleep : TaskSleep(t, ticks)

Task(t) ==
  \/ TaskCreate(t) \/ TaskStats(t) \/ GiveUp(t) \/ SwitchToLoop(t)
  \/ BlockingRead(t) \/ Ring3(t)

Next == MainLoop \/ Irq \/ \E t \in Tasks : Task(t)

Spec == Init /\ [][Next]_vars

----------------------------------------------------------------------------
(* Safety.                                                                 *)

\* The code on a task's stack acts on current_task; this is the task whose
\* stack it is.  task_run_once, which alone assigns current_task, and the
\* switches back, none of which assigns it, have to agree for this.
CpuIsCurrent ==
  /\ cpu # 0 => current_task = cpu
  /\ cpu = 0 => (current_task # 0 <=> loop \in {"switch", "resumed"})

\* At most one task is RUNNING, and it is the one that owns the CPU or is
\* about to: no task that yielded, slept, blocked or exited is left RUNNING,
\* and a task parked off the CPU is never taken for the running one.
OneRunning ==
  \A t \in Tasks :
    state[t] = "RUNNING" =>
      /\ current_task = t
      /\ cpu = t \/ loop = "switch"

\* tty_wait_queue holds exactly the WAITING tasks, each of them once: a wake
\* reaches every blocked reader, no reader is queued twice (which would make
\* the wait_next chain cyclic) and none is left behind after it was woken.
WaitQueueExact ==
  /\ \A i, j \in DOMAIN wait_queue : wait_queue[i] = wait_queue[j] => i = j
  /\ \A t \in Tasks :
       state[t] = "WAITING" <=> \E i \in DOMAIN wait_queue : wait_queue[i] = t

\* The readers that are awake and will look at the buffer before they sleep.
AwakeReaders ==
  {t \in Tasks : pc[t] \in {"read", "block"} /\ state[t] # "WAITING"}

\* tty_read_key_blocking loses no wakeup: while a reader sleeps, each key in
\* the buffer has a reader of its own that is awake and will look for it,
\* also when another reader takes the key the woken one was meant to have,
\* and also when the wake arrives before the reader has switched away.
NoLostWakeup ==
  wait_queue # <<>> => tty_count <= Cardinality(AwakeReaders)

\* The CPU never executes hlt with interrupts off: IF is not part of a task's
\* context, so a task that switched out with IF clear would halt the machine
\* for good.
HaltInterruptible == loop = "halted" => IF_flag

\* task_exit never returns (its KPANIC is unreachable).
ExitNeverReturns == \A t \in Tasks : ~ At(t, "returned")

\* A task that reached DONE stays DONE and never owns the CPU again: nothing
\* that makes tasks READY (timer expiry, wakeup, yield) revives it.
DoneIsFinal ==
  [][\A t \in Tasks : state[t] = "DONE" => state'[t] = "DONE"]_vars

\* A sleeping task leaves SLEEPING only when its ticks have passed.
NoEarlyWake ==
  [][\A t \in Tasks :
       state[t] = "SLEEPING" /\ state'[t] # "SLEEPING" => wake_in[t] = 0]_vars

----------------------------------------------------------------------------
(* What makes the safety properties inductive.                             *)

\* The task list is 1 .. created.
ListExact ==
  /\ \A t \in Tasks : state[t] = "NONE" <=> t > created
  /\ current_task <= created
  /\ schedule_cursor <= created

\* The state a task may be in at each point of its code.
OnCpu(t) ==
  /\ pc[t] = "switch"  => state[t] \in {"READY", "SLEEPING"}
  /\ pc[t] = "exit"    => state[t] = "DONE"
  /\ pc[t] = "restore" => state[t] = "WAITING"
  /\ pc[t] = "block"   => state[t] \in {"READY", "WAITING"}
  /\ pc[t] \notin {"switch", "exit", "restore", "block"} =>
       state[t] = "RUNNING" /\ pc[t] # "returned"

\* Where a task that is not on the CPU goes on, by its state.
OffCpu(t) ==
  /\ pc[t] \in {"kernel", "read", "returned"}
  /\ (pc[t] = "returned" <=> state[t] = "DONE")
  /\ pc[t] = "read" => state[t] \notin {"NONE", "SLEEPING"}
  /\ state[t] = "WAITING" => pc[t] = "read"

PointMatchesState ==
  /\ \A t \in Tasks : (cpu = t => OnCpu(t)) /\ (cpu # t => OffCpu(t))
  /\ cpu # 0 => loop = "resumed"
  /\ loop = "switch" => state[current_task] = "RUNNING"

\* Interrupts are off only inside the windows that turn them on again before
\* the CPU changes hands, and are off throughout the window in which a reader
\* has found the buffer empty and is not yet queued.
IrqWindows ==
  /\ ~IF_flag => /\ cpu # 0
                 /\ pc[cpu] \in {"enqueue", "restore", "syscall", "sysret"}
  /\ cpu # 0 /\ pc[cpu] \in {"enqueue", "restore"} => ~IF_flag /\ saved_if[cpu]
  /\ cpu # 0 /\ pc[cpu] = "enqueue" => tty_count = 0

\* The inductive invariant: task list, current_task, RUNNING and WAITING tasks,
\* control points, interrupt windows and wakeups agree after every step of the
\* scheduler, the readers, the system calls and the interrupt handlers.
IndInv ==
  /\ TypeOK
  /\ ListExact
  /\ CpuIsCurrent
  /\ OneRunning
  /\ PointMatchesState
  /\ WaitQueueExact
  /\ IrqWindows
  /\ NoLostWakeup

----------------------------------------------------------------------------
(* Liveness.  The main loop, the timer and the code of the kernel's own    *)
(* primitives go on; nothing is assumed of the keyboard.  The scheduler is *)
(* cooperative, so progress of one task rests on the others giving up the  *)
(* CPU, which is stated as the hypothesis Cooperative.                     *)

Fairness ==
  /\ WF_vars(MainLoop)
  /\ SF_vars(TimerIrq)    \* a tick raised while IF is clear stays pending
  /\ \A t \in Tasks : /\ WF_vars(SwitchToLoop(t))
                      /\ WF_vars(BlockingRead(t))
                      /\ WF_vars(SyscallReturn(t))

FairSpec == Spec /\ Fairness

Cooperative == []<>(cpu = 0)

\* Every sleeper is run again once its ticks have passed: it becomes READY,
\* and the scan from schedule_cursor starves no READY task.
SleeperRuns ==
  Cooperative => \A t \in Tasks : state[t] = "SLEEPING" ~> cpu = t

\* A key in the buffer does not lie there while readers sleep: in the end it
\* is consumed or nobody waits.
KeyReachesReader ==
  Cooperative => (tty_count > 0 /\ wait_queue # <<>>)
                   ~> (tty_count = 0 \/ wait_queue = <<>>)
============================================================================
