------------------------------ MODULE Process ------------------------------
(***************************************************************************)
(* Running user programs: the process table (kernel/process.c), the shell  *)
(* commands exec, initrun and wait that use it (arch/x86_64/user_mode.c),  *)
(* and the entry from user mode (arch/x86_64/syscall_entry.asm,            *)
(* kernel/syscall.c).                                                      *)
(*                                                                         *)
(* Tasks run until they yield, block or end, so what a task does in        *)
(* between is one step; interrupt handlers do not touch this state.  Which *)
(* task is picked is left open: module Sched shows the round robin.        *)
(* Module Loader shows what loading and unloading a program does to        *)
(* memory.                                                                 *)
(***************************************************************************)
EXTENDS Naturals, Sequences, FiniteSets

CONSTANTS
  Codes,         \* the exit codes of programs
  MaxProcs,      \* the processes created
  Shell, Sched,  \* the shell task, and no task
  LoadFailed,    \* PROCESS_WAIT_LOAD_FAILED
  NoProcess,     \* PROCESS_WAIT_NO_PROCESS
  Nothing        \* nothing returned yet

ASSUME ProcessAssumption ==
  /\ 0 \in Codes /\ Codes \cap {LoadFailed, NoProcess, Nothing} = {}
  /\ LoadFailed # NoProcess /\ LoadFailed # Nothing
  /\ MaxProcs \in Nat
  /\ Shell # Sched /\ {Shell, Sched} \cap (1 .. MaxProcs) = {}

VARIABLES
  procs,      \* the table, in order of creation: state, status, code, task
  upc,        \* upc[t]: what the t-th user-elf task is at
  arg,        \* arg[t]: the process it was created for
  rax,        \* rax[t]: the pid its last SYS_getpid returned
  running,    \* current_task, or the scheduler
  shell,      \* what the shell task is at: the prompt, or process_wait
  waited,     \* the pid it waits for
  shown,      \* what its last process_wait returned
  entered,    \* user tasks that left kernel frames on syscall_stack
  ended       \* history: how each process really ended

vars == <<procs, upc, arg, rax, running, shell, waited, shown, entered, ended>>

Pids == DOMAIN procs
UserTasks == DOMAIN upc

\* How a program ends, or what a wait for it returns.
Outcomes == Codes \cup {LoadFailed}

\* Every variable has its type: a process links to a task that exists.
TypeOK ==
  /\ procs \in Seq([state : {"RUNNING", "ZOMBIE", "REAPED"},
                    load_status : {0, 1}, exit_code : Codes, task_id : Nat])
  /\ Len(procs) <= MaxProcs
  /\ \A p \in Pids : procs[p].task_id \in 0 .. Len(upc)
  /\ upc \in Seq({"start", "ring3", "read", "done"})
  /\ arg \in [UserTasks -> Pids]
  /\ rax \in [UserTasks -> (0 .. MaxProcs) \cup {Nothing}]
  /\ running \in UserTasks \cup {Sched, Shell}
  /\ shell \in {"prompt", "wait"}
  /\ waited \in 0 .. MaxProcs + 1
  /\ shown \in Outcomes \cup {NoProcess, Nothing}
  /\ entered \subseteq UserTasks
  /\ ended \in [Pids -> Outcomes \cup {Nothing}]

\* process_init, and the shell task at its first prompt.
Init ==
  /\ procs = <<>>
  /\ upc = <<>> /\ arg = <<>> /\ rax = <<>>
  /\ running = Sched
  /\ shell = "prompt" /\ waited = 0 /\ shown = Nothing
  /\ entered = {}
  /\ ended = <<>>

----------------------------------------------------------------------------
(* The scheduler.                                                          *)

\* task_run_once: a ready task is switched to.  A program that reads becomes
\* ready when a key comes, which may be at any time.
Pick(t) ==
  /\ running = Sched
  /\ t \in {Shell} \cup {u \in UserTasks : upc[u] # "done"}
  /\ running' = t
  /\ UNCHANGED <<arg, procs, upc, rax, shell, waited, shown, entered, ended>>

\* The shell waits for a key, or another of its commands yields.
ShellIdles ==
  /\ running = Shell /\ shell = "prompt"
  /\ running' = Sched
  /\ UNCHANGED <<arg, procs, upc, rax, shell, waited, shown, entered, ended>>

----------------------------------------------------------------------------
(* Creating and waiting, in the shell task.                                *)

Entry(state, status, task) ==
  [state |-> state, load_status |-> status, exit_code |-> 0, task_id |-> task]

LinkedTask_Mutant(task) == 0

\* The task_id process_create writes after task_create.
LinkedTask(task) == task

\* run_command: process_create makes the process and its task, and the shell
\* goes on to process_wait.
Exec ==
  LET task == Len(upc) + 1
  IN  /\ running = Shell /\ shell = "prompt"
      /\ Len(procs) < MaxProcs
      /\ procs' = Append(procs, Entry("RUNNING", 0, LinkedTask(task)))
      /\ upc' = Append(upc, "start")
      /\ arg' = Append(arg, Len(procs) + 1)
      /\ rax' = Append(rax, Nothing)
      /\ ended' = Append(ended, Nothing)
      /\ shell' = "wait" /\ waited' = Len(procs) + 1
      /\ UNCHANGED <<running, shown, entered>>

\* task_create fails: the process stays in the table, as a zombie whose load
\* failed, and the command gives up.  (Without memory for the process itself
\* nothing changes.)
ExecFails ==
  /\ running = Shell /\ shell = "prompt"
  /\ Len(procs) < MaxProcs
  /\ procs' = Append(procs, Entry("ZOMBIE", 1, 0))
  /\ ended' = Append(ended, LoadFailed)
  /\ UNCHANGED <<arg, upc, rax, running, shell, waited, shown, entered>>

\* cmd_wait: the shell waits for a pid of the user's choice.
WaitCommand(pid) ==
  /\ running = Shell /\ shell = "prompt"
  /\ shell' = "wait" /\ waited' = pid
  /\ UNCHANGED <<arg, procs, upc, rax, running, shown, entered, ended>>

WaitReady_Mutant(p) == TRUE

WaitReady_ZombieMutant(p) == procs[p].state = "ZOMBIE"

WaitReady(p) == procs[p].state \in {"ZOMBIE", "REAPED"}

Reaped_Mutant(p) == [procs[p] EXCEPT !.state = "REAPED", !.exit_code = 0]

Reaped(p) == [procs[p] EXCEPT !.state = "REAPED"]

Result(p) == IF procs[p].load_status = 0 THEN procs[p].exit_code ELSE LoadFailed

\* A round of process_wait: there is no such process, ...
WaitNoProcess ==
  /\ running = Shell /\ shell = "wait"
  /\ waited \notin Pids
  /\ shown' = NoProcess
  /\ shell' = "prompt"
  /\ UNCHANGED <<arg, procs, upc, rax, running, waited, entered, ended>>

\* ... it has ended, ...
WaitReturn ==
  /\ running = Shell /\ shell = "wait"
  /\ waited \in Pids /\ WaitReady(waited)
  /\ procs' = [procs EXCEPT ![waited] = Reaped(waited)]
  /\ shown' = Result(waited)
  /\ shell' = "prompt"
  /\ UNCHANGED <<arg, upc, rax, running, waited, entered, ended>>

\* ... or it is running, and the shell yields to it.
WaitYield ==
  /\ running = Shell /\ shell = "wait"
  /\ waited \in Pids /\ ~WaitReady(waited)
  /\ running' = Sched
  /\ UNCHANGED <<arg, procs, upc, rax, shell, waited, shown, entered, ended>>

----------------------------------------------------------------------------
(* The user-elf task.                                                      *)

\* process_find_by_task_locked, as process_current_pid returns it.
process_current_pid(t) ==
  LET found == {p \in Pids : procs[p].task_id = t /\ procs[p].state = "RUNNING"}
  IN  IF found = {} THEN 0 ELSE CHOOSE p \in found : \A q \in found : p <= q

FinishState == "ZOMBIE"

process_finish(p, status, code) ==
  procs' = [procs EXCEPT ![p].load_status = status, ![p].exit_code = code,
                         ![p].state = FinishState]

\* The end of process_task_entry: the task exits.
TaskEnds(t) ==
  /\ upc' = [upc EXCEPT ![t] = "done"]
  /\ running' = Sched

\* user_mode_run_path loads the program and enters ring 3, ...
Start(t) ==
  /\ running = t /\ upc[t] = "start"
  /\ upc' = [upc EXCEPT ![t] = "ring3"]
  /\ UNCHANGED <<procs, arg, rax, running, shell, waited, shown, entered>>
  /\ UNCHANGED ended

\* ... or cannot load it, and has taken out what it had mapped.
StartFails(t) ==
  /\ running = t /\ upc[t] = "start"
  /\ process_finish(arg[t], 1, 0)
  /\ TaskEnds(t)
  /\ ended' = [ended EXCEPT ![arg[t]] = LoadFailed]
  /\ UNCHANGED <<arg, rax, shell, waited, shown, entered>>

\* SYS_getpid (SYS_write and unknown numbers leave this state alone).
Getpid(t) ==
  /\ running = t /\ upc[t] = "ring3"
  /\ rax' = [rax EXCEPT ![t] = process_current_pid(t)]
  /\ UNCHANGED <<procs, upc, arg, running, shell, waited, shown, entered>>
  /\ UNCHANGED ended

\* SYS_read of the terminal blocks, its frames on syscall_stack, ...
ReadBlocks(t) ==
  /\ running = t /\ upc[t] = "ring3"
  /\ upc' = [upc EXCEPT ![t] = "read"]
  /\ entered' = entered \cup {t}
  /\ running' = Sched
  /\ UNCHANGED <<arg, procs, rax, shell, waited, shown, ended>>

\* ... and, picked again, returns from there.
ReadReturns(t) ==
  /\ running = t /\ upc[t] = "read"
  /\ upc' = [upc EXCEPT ![t] = "ring3"]
  /\ entered' = entered \ {t}
  /\ UNCHANGED <<arg, procs, rax, running, shell, waited, shown, ended>>

\* syscall_exit_direct passes the argument on as ring3_enter's result.
ExitValue(code) == code

\* SYS_exit: back to user_mode_run_path, which unmaps the program, and on to
\* process_finish and the end of the task.
Exit(t, code) ==
  /\ running = t /\ upc[t] = "ring3"
  /\ process_finish(arg[t], 0, ExitValue(code))
  /\ TaskEnds(t)
  /\ ended' = [ended EXCEPT ![arg[t]] = code]
  /\ UNCHANGED <<arg, rax, shell, waited, shown, entered>>

ShellNext ==
  \/ ShellIdles \/ Exec \/ ExecFails
  \/ \E pid \in 0 .. MaxProcs + 1 : WaitCommand(pid)
  \/ WaitNoProcess \/ WaitReturn \/ WaitYield

UserNext(t) ==
  \/ Start(t) \/ StartFails(t) \/ Getpid(t) \/ ReadBlocks(t) \/ ReadReturns(t)
  \/ \E code \in Codes : Exit(t, code)

Next ==
  \/ \E t \in UserTasks \cup {Shell} : Pick(t)
  \/ ShellNext
  \/ \E t \in UserTasks : UserNext(t)

Spec == Init /\ [][Next]_vars

TaskIds == 1 .. MaxProcs

\* A ready task is picked after finitely many others (module SchedBypass),
\* and the task that has the CPU goes on.
Fairness ==
  /\ SF_vars(Pick(Shell)) /\ WF_vars(ShellNext)
  /\ \A t \in TaskIds : SF_vars(t \in UserTasks /\ upc[t] # "read" /\ Pick(t))
                        /\ WF_vars(t \in UserTasks /\ UserNext(t))

FairSpec == Spec /\ Fairness

----------------------------------------------------------------------------
\* A process is RUNNING exactly while its task lives, and each task belongs to
\* one process: the links process_create makes after task_create are complete
\* whenever another task can see them.  So SYS_getpid tells a program the pid
\* under which the shell waits for it, whenever it asks.
TableExact ==
  /\ TypeOK
  /\ \A p \in Pids :
       procs[p].state = "RUNNING"
         <=> procs[p].task_id # 0 /\ upc[procs[p].task_id] # "done"
  /\ \A t \in UserTasks : Cardinality({p \in Pids : procs[p].task_id = t}) = 1
  /\ \A t \in UserTasks : rax[t] \in {Nothing, arg[t]}

\* Programs never overlap: the next one is loaded only after the last has been
\* unmapped.  The fixed user addresses, the one syscall_stack and the saved
\* user registers of syscall_entry.asm all rest on it.
OneProgram ==
  /\ Cardinality({t \in UserTasks : upc[t] # "done"}) <= 1
  /\ \A t \in entered : upc[t] = "read"

\* process_wait returns how the program ended, the first time and when it is
\* asked again after the process was reaped.
WaitReports ==
  shell = "prompt" /\ shown \in Outcomes => shown = ended[waited]

\* Every program leaves ring 3 in the end.
ProgramsEnd ==
  \A t \in TaskIds : []<>(t \in UserTasks => upc[t] \notin {"ring3", "read"})

\* If programs end, exec and wait return to the prompt.
WaitReturns == ProgramsEnd => (shell = "wait" ~> shell = "prompt")
============================================================================
