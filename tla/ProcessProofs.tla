--------------------------- MODULE ProcessProofs ---------------------------
(***************************************************************************)
(* The process table, for any number of processes and any exit codes: at   *)
(* most one program is in memory, the links of the table are exact, and    *)
(* process_wait reports how the program ended.                             *)
(*                                                                         *)
(* None of it follows from the table alone.  What keeps programs apart is  *)
(* the shell: while a task lives, the shell is in process_wait for exactly *)
(* its process (ShellWaits), so it cannot start another.                   *)
(***************************************************************************)
EXTENDS Process, FiniteSetTheorems, SequenceTheorems, TLAPS

USE ProcessAssumption DEF Pids, UserTasks

Alive(t) == upc[t] # "done"

Records == [state : {"RUNNING", "ZOMBIE", "REAPED"}, load_status : {0, 1},
            exit_code : Codes, task_id : Nat]

\* TypeOK, with what is kept for each task and each process as sequences.
Types ==
  /\ procs \in Seq(Records) /\ Len(procs) <= MaxProcs
  /\ ended \in Seq(Outcomes \cup {Nothing}) /\ Len(ended) = Len(procs)
  /\ upc \in Seq({"start", "ring3", "read", "done"}) /\ Len(upc) <= Len(procs)
  /\ arg \in Seq(1 .. MaxProcs) /\ Len(arg) = Len(upc)
  /\ rax \in Seq((0 .. MaxProcs) \cup {Nothing}) /\ Len(rax) = Len(upc)
  /\ \A p \in 1 .. Len(procs) : procs[p].task_id \in 0 .. Len(upc)
  /\ \A t \in 1 .. Len(upc) : arg[t] \in 1 .. Len(procs)
  /\ running \in (1 .. Len(upc)) \cup {Sched, Shell}
  /\ shell \in {"prompt", "wait"}
  /\ waited \in 0 .. MaxProcs + 1
  /\ shown \in Outcomes \cup {NoProcess, Nothing}
  /\ entered \subseteq 1 .. Len(upc)

\* Tasks and processes link to each other.
Linked ==
  /\ \A t \in UserTasks : procs[arg[t]].task_id = t
  /\ \A p \in Pids : procs[p].task_id # 0 => arg[procs[p].task_id] = p

RunningWhileAlive ==
  \A p \in Pids :
    procs[p].state = "RUNNING" <=> procs[p].task_id # 0 /\ Alive(procs[p].task_id)

EndRecorded ==
  \A p \in Pids : procs[p].state # "RUNNING" => ended[p] = Result(p)

\* The shell waits for the process of every task that lives.
ShellWaits == \A t \in UserTasks : Alive(t) => shell = "wait" /\ waited = arg[t]

OnCpuAlive == running \in UserTasks => Alive(running)
Entered == \A t \in entered : upc[t] = "read"
PidTold == \A t \in UserTasks : rax[t] \in {Nothing, arg[t]}

Reported ==
  shell = "prompt" /\ shown \in Outcomes =>
    waited \in Pids /\ procs[waited].state # "RUNNING" /\ shown = ended[waited]

\* The inductive invariant.
ProcInv ==
  /\ Types /\ Linked /\ RunningWhileAlive /\ EndRecorded
  /\ ShellWaits /\ OnCpuAlive /\ Entered /\ PidTold /\ Reported

----------------------------------------------------------------------------
LEMMA TypesImplyTypeOK == Types => TypeOK
<1> SUFFICES ASSUME Types PROVE TypeOK
  OBVIOUS
<1>1. Pids = 1 .. Len(procs) /\ UserTasks = 1 .. Len(upc)
  BY LenProperties DEF Types
<1>2. arg \in [UserTasks -> Pids]
  BY <1>1, LenProperties DEF Types
<1>3. /\ rax \in [UserTasks -> (0 .. MaxProcs) \cup {Nothing}]
      /\ ended \in [Pids -> Outcomes \cup {Nothing}]
  BY <1>1, LenProperties DEF Types
<1> QED
  BY <1>1, <1>2, <1>3 DEF Types, TypeOK, Records

\* The domains of the sequences.
LEMMA Domains ==
  ASSUME Types
  PROVE  /\ Pids = 1 .. Len(procs) /\ Len(procs) \in Nat
         /\ UserTasks = 1 .. Len(upc) /\ Len(upc) \in Nat
BY LenProperties DEF Types

\* The task a process names exists.
LEMMA TaskOfProcess ==
  ASSUME Types
  PROVE  \A q \in Pids : procs[q].task_id # 0 => procs[q].task_id \in UserTasks
BY Domains DEF Types

\* A task's number is that of a process, so it is neither Shell nor Sched.
LEMMA TasksApart ==
  ASSUME ProcInv, NEW t \in UserTasks
  PROVE  t \in 1 .. MaxProcs /\ t # Shell /\ t # Sched
BY DEF ProcInv, Types, Linked

\* process_current_pid finds the process the task was created for.
LEMMA CurrentPid ==
  ASSUME ProcInv, NEW t \in UserTasks, Alive(t)
  PROVE  process_current_pid(t) = arg[t]
<1> DEFINE found == {p \in Pids : procs[p].task_id = t /\ procs[p].state = "RUNNING"}
<1>1. t # 0 /\ arg[t] \in Pids
  BY DEF ProcInv, Types
<1>2. arg[t] \in found
  BY <1>1 DEF ProcInv, Linked, RunningWhileAlive
<1>3. \A p \in found : p = arg[t]
  BY <1>1 DEF ProcInv, Linked
<1>4. arg[t] <= arg[t]
  BY <1>1 DEF ProcInv, Types
<1>5. (CHOOSE p \in found : \A q \in found : p <= q) = arg[t]
  BY <1>2, <1>3, <1>4
<1> QED
  BY <1>2, <1>5 DEF process_current_pid

\* process_init.
LEMMA InitProcInv == Init => ProcInv
BY DEF Init, ProcInv, Types, Linked, RunningWhileAlive, EndRecorded, ShellWaits,
       OnCpuAlive, Entered, PidTold, Reported, Outcomes

----------------------------------------------------------------------------
(* The scheduler, and the shell's commands.                                *)

\* task_run_once switches to a task that has not ended.
LEMMA PickProcInv ==
  ASSUME ProcInv, NEW t \in UserTasks \cup {Shell}, Pick(t)
  PROVE  ProcInv'
<1> USE DEF ProcInv, Pick
<1>1. Types'
  BY DEF Types
<1>2. OnCpuAlive'
  BY TasksApart DEF OnCpuAlive, Alive
<1> QED
  BY <1>1, <1>2 DEF Linked, RunningWhileAlive, EndRecorded, ShellWaits, Entered,
     PidTold, Reported, Alive, Result

\* exec and initrun add a process and its task, linked both ways; the shell goes
\* on to wait for it.
LEMMA ExecProcInv ==
  ASSUME ProcInv, Exec
  PROVE  ProcInv'
<1> DEFINE np == Len(procs)
           nt == Len(upc)
<1> USE DEF ProcInv
<1>1. /\ running = Shell /\ shell = "prompt" /\ np < MaxProcs
      /\ procs' = Append(procs, Entry("RUNNING", 0, nt + 1))
      /\ upc' = Append(upc, "start") /\ arg' = Append(arg, np + 1)
      /\ rax' = Append(rax, Nothing) /\ ended' = Append(ended, Nothing)
      /\ shell' = "wait" /\ waited' = np + 1
      /\ UNCHANGED <<running, shown, entered>>
  BY DEF Exec, LinkedTask
<1>2. \A t \in UserTasks : ~Alive(t)
  BY <1>1 DEF ShellWaits
<1>3. /\ np \in Nat /\ nt \in Nat /\ nt <= np
      /\ Pids = 1 .. np /\ UserTasks = 1 .. nt
  BY Domains DEF Types
<1>4. /\ procs' \in Seq(Records) /\ Len(procs') = np + 1
      /\ \A p \in 1 .. np : procs'[p] = procs[p]
      /\ procs'[np + 1] = Entry("RUNNING", 0, nt + 1)
  <2>1. Entry("RUNNING", 0, nt + 1) \in Records
    BY <1>3 DEF Entry, Records
  <2> QED
    BY <1>1, <2>1, AppendProperties DEF Types
<1>5. /\ ended' \in Seq(Outcomes \cup {Nothing}) /\ Len(ended') = np + 1
      /\ \A p \in 1 .. np : ended'[p] = ended[p]
      /\ ended'[np + 1] = Nothing
  <2>1. /\ Nothing \in Outcomes \cup {Nothing}
        /\ ended \in Seq(Outcomes \cup {Nothing}) /\ Len(ended) = np
    BY DEF Types
  <2> QED
    BY <1>1, <2>1, AppendProperties
<1>6. /\ upc' \in Seq({"start", "ring3", "read", "done"}) /\ Len(upc') = nt + 1
      /\ \A t \in 1 .. nt : upc'[t] = upc[t]
      /\ upc'[nt + 1] = "start"
  BY <1>1, AppendProperties DEF Types
<1>7. /\ arg' \in Seq(1 .. MaxProcs) /\ Len(arg') = nt + 1
      /\ \A t \in 1 .. nt : arg'[t] = arg[t]
      /\ arg'[nt + 1] = np + 1
  <2>1. np + 1 \in 1 .. MaxProcs
    BY <1>1, <1>3
  <2> QED
    BY <1>1, <2>1, AppendProperties DEF Types
<1>8. /\ rax' \in Seq((0 .. MaxProcs) \cup {Nothing}) /\ Len(rax') = nt + 1
      /\ \A t \in 1 .. nt : rax'[t] = rax[t]
      /\ rax'[nt + 1] = Nothing
  BY <1>1, AppendProperties DEF Types
<1>9. Types'
  BY <1>1, <1>3, <1>4, <1>5, <1>6, <1>7, <1>8, SMTT(30) DEF Types, Entry
<1>10. Pids' = 1 .. np + 1 /\ UserTasks' = 1 .. nt + 1
  BY <1>4, <1>6, LenProperties
<1>11. Linked'
  <2>1. /\ \A t \in 1 .. nt : arg[t] \in 1 .. np /\ procs[arg[t]].task_id = t
        /\ \A p \in 1 .. np : procs[p].task_id \in 0 .. nt
        /\ \A p \in 1 .. np : procs[p].task_id # 0 => arg[procs[p].task_id] = p
    BY <1>3 DEF Linked, Types
  <2>2. procs'[np + 1].task_id = nt + 1
    BY <1>4 DEF Entry
  <2> HIDE DEF np, nt, ProcInv
  <2>3. \A t \in 1 .. nt + 1 : procs'[arg'[t]].task_id = t
    <3> TAKE t \in 1 .. nt + 1
    <3>1. CASE t \in 1 .. nt
      BY <1>4, <1>7, <2>1, <3>1
    <3>2. CASE t = nt + 1
      BY <1>7, <2>2, <3>2
    <3> QED
      BY <1>3, <3>1, <3>2
  <2>4. \A p \in 1 .. np : procs'[p].task_id # 0 => arg'[procs'[p].task_id] = p
    <3> SUFFICES ASSUME NEW p \in 1 .. np, procs'[p].task_id # 0
                 PROVE  arg'[procs'[p].task_id] = p
      OBVIOUS
    <3>1. procs'[p].task_id = procs[p].task_id /\ procs[p].task_id \in 0 .. nt
      BY <1>4, <2>1
    <3>2. procs[p].task_id \in 1 .. nt
      BY <1>3, <3>1
    <3> QED
      BY <1>7, <2>1, <3>1, <3>2
  <2>5. arg'[procs'[np + 1].task_id] = np + 1
    BY <1>7, <2>2
  <2>6. \A p \in 1 .. np + 1 : procs'[p].task_id # 0 => arg'[procs'[p].task_id] = p
    BY <1>3, <2>4, <2>5
  <2> QED
    BY <1>10, <2>3, <2>6 DEF Linked
<1>12. RunningWhileAlive' /\ EndRecorded'
  <2>1. \A p \in 1 .. np :
          /\ procs[p].task_id \in 0 .. nt
          /\ procs[p].state = "RUNNING" <=> procs[p].task_id # 0 /\ upc[procs[p].task_id] # "done"
    BY <1>3 DEF RunningWhileAlive, Alive, Types
  <2>2. procs'[np + 1].task_id = nt + 1 /\ procs'[np + 1].state = "RUNNING"
    BY <1>4 DEF Entry
  <2>3. \A p \in 1 .. np : procs[p].state # "RUNNING" => ended[p] = Result(p)
    BY <1>3 DEF EndRecorded
  <2> HIDE DEF np, nt, ProcInv
  <2>4. \A p \in 1 .. np :
          procs'[p].state = "RUNNING" <=> procs'[p].task_id # 0 /\ upc'[procs'[p].task_id] # "done"
    BY <1>3, <1>4, <1>6, <2>1
  <2>5. RunningWhileAlive'
    <3>1. \A p \in 1 .. np + 1 :
            procs'[p].state = "RUNNING" <=> procs'[p].task_id # 0 /\ upc'[procs'[p].task_id] # "done"
      BY <1>3, <1>6, <2>2, <2>4
    <3> QED
      BY <1>10, <3>1 DEF RunningWhileAlive, Alive
  <2>6. EndRecorded'
    <3>1. \A p \in 1 .. np + 1 : procs'[p].state # "RUNNING" => ended'[p] = Result(p)'
      BY <1>3, <1>4, <1>5, <2>2, <2>3 DEF Result
    <3> QED
      BY <1>10, <3>1 DEF EndRecorded
  <2> QED
    BY <2>5, <2>6
<1>13. ShellWaits' /\ OnCpuAlive'
  BY <1>1, <1>2, <1>3, <1>6, <1>7, <1>10 DEF ShellWaits, OnCpuAlive, Alive
<1>14. Entered' /\ PidTold' /\ Reported'
  BY <1>1, <1>3, <1>6, <1>7, <1>8, <1>10 DEF Entered, PidTold, Reported, Types
<1> QED
  BY <1>9, <1>11, <1>12, <1>13, <1>14

\* A process whose task could not be created is a zombie from the start.
LEMMA ExecFailsProcInv ==
  ASSUME ProcInv, ExecFails
  PROVE  ProcInv'
<1> DEFINE np == Len(procs)
<1> USE DEF ProcInv
<1>1. /\ np < MaxProcs
      /\ procs' = Append(procs, Entry("ZOMBIE", 1, 0))
      /\ ended' = Append(ended, LoadFailed)
      /\ UNCHANGED <<arg, upc, rax, running, shell, waited, shown, entered>>
  BY DEF ExecFails
<1>2. /\ np \in Nat /\ Pids = 1 .. np
      /\ Len(upc) \in Nat /\ UserTasks = 1 .. Len(upc)
  BY Domains
<1>3. /\ procs' \in Seq(Records) /\ Len(procs') = np + 1
      /\ \A p \in 1 .. np : procs'[p] = procs[p]
      /\ procs'[np + 1] = Entry("ZOMBIE", 1, 0)
  <2>1. Entry("ZOMBIE", 1, 0) \in Records
    BY DEF Entry, Records
  <2> QED
    BY <1>1, <2>1, AppendProperties DEF Types
<1>4. /\ ended' \in Seq(Outcomes \cup {Nothing}) /\ Len(ended') = np + 1
      /\ \A p \in 1 .. np : ended'[p] = ended[p]
      /\ ended'[np + 1] = LoadFailed
  BY <1>1, AppendProperties DEF Types, Outcomes
<1>5. Types'
  BY <1>1, <1>2, <1>3, <1>4 DEF Types, Entry
<1>6. Pids' = 1 .. np + 1
  BY <1>3, LenProperties
<1>7. Linked' /\ RunningWhileAlive'
  BY <1>1, <1>2, <1>3, <1>6 DEF Linked, RunningWhileAlive, Alive, Types, Entry
<1>8. EndRecorded'
  BY <1>1, <1>2, <1>3, <1>4, <1>6 DEF EndRecorded, Result, Entry
<1>9. ShellWaits' /\ OnCpuAlive' /\ Entered' /\ PidTold'
  BY <1>1 DEF ShellWaits, OnCpuAlive, Entered, PidTold, Alive
<1>10. Reported'
  BY <1>1, <1>2, <1>3, <1>4, <1>6 DEF Reported
<1> QED
  BY <1>5, <1>7, <1>8, <1>9, <1>10

\* A step that changes one process of the table, but not its task.
LEMMA TableStep ==
  ASSUME Types, NEW p \in Pids, NEW r \in Records, r.task_id = procs[p].task_id,
         procs' = [procs EXCEPT ![p] = r]
  PROVE  /\ procs' \in Seq(Records) /\ Len(procs') = Len(procs) /\ Pids' = Pids
         /\ procs'[p] = r
         /\ \A q \in Pids : q # p => procs'[q] = procs[q]
         /\ \A q \in Pids : procs'[q].task_id = procs[q].task_id
<1>1. procs \in Seq(Records) /\ Pids = 1 .. Len(procs)
  BY Domains DEF Types
<1>2. /\ procs' \in Seq(Records) /\ Len(procs') = Len(procs)
      /\ \A q \in 1 .. Len(procs) : procs'[q] = IF q = p THEN r ELSE procs[q]
  BY <1>1, ExceptSeq
<1>3. Pids' = Pids
  BY <1>1, <1>2, LenProperties
<1> QED
  BY <1>1, <1>2, <1>3

\* What process_wait returns, it takes from a process that has ended.
LEMMA WaitProcInv ==
  ASSUME ProcInv, WaitReturn
  PROVE  ProcInv'
<1> USE DEF ProcInv
<1> DEFINE r == [procs[waited] EXCEPT !.state = "REAPED"]
<1>1. /\ waited \in Pids /\ procs[waited].state \in {"ZOMBIE", "REAPED"}
      /\ procs' = [procs EXCEPT ![waited] = r]
      /\ shown' = Result(waited) /\ shell' = "prompt" /\ running = Shell
      /\ UNCHANGED <<arg, upc, rax, running, waited, entered, ended>>
  BY DEF WaitReturn, WaitReady, Reaped
<1>2. procs[waited] \in Records
  BY <1>1, Domains, ElementOfSeq DEF Types
<1>3. /\ r \in Records /\ r.task_id = procs[waited].task_id /\ r.state = "REAPED"
      /\ r.load_status = procs[waited].load_status /\ r.exit_code = procs[waited].exit_code
  BY <1>2 DEF Records
<1> HIDE DEF r
<1>4. /\ procs' \in Seq(Records) /\ Len(procs') = Len(procs) /\ Pids' = Pids
      /\ procs'[waited] = r
      /\ \A q \in Pids : q # waited => procs'[q] = procs[q]
      /\ \A q \in Pids : procs'[q].task_id = procs[q].task_id
  BY <1>1, <1>3, TableStep
<1>5. \A t \in UserTasks : ~Alive(t)
  <2> SUFFICES ASSUME NEW t \in UserTasks, Alive(t) PROVE FALSE
    OBVIOUS
  <2>1. waited = arg[t] /\ procs[waited].task_id = t /\ t # 0
    BY Domains DEF ShellWaits, Linked
  <2> QED
    BY <1>1, <2>1 DEF RunningWhileAlive
<1>6. Result(waited) \in Outcomes /\ Result(waited) = ended[waited]
  BY <1>1, <1>2 DEF Result, Outcomes, Records, EndRecorded
<1>7. Types'
  BY <1>1, <1>4, <1>6, Domains DEF Types
<1>8. Linked' /\ RunningWhileAlive'
  BY <1>1, <1>3, <1>4 DEF Linked, RunningWhileAlive, Alive
<1>9. EndRecorded'
  BY <1>1, <1>3, <1>4 DEF EndRecorded, Result
<1>10. ShellWaits' /\ OnCpuAlive' /\ Entered' /\ PidTold'
  BY <1>1, <1>5 DEF ShellWaits, OnCpuAlive, Entered, PidTold, Alive
<1>11. Reported'
  BY <1>1, <1>3, <1>4, <1>6 DEF Reported
<1> QED
  BY <1>7, <1>8, <1>9, <1>10, <1>11

\* The other steps of the shell change neither the table nor a task.
LEMMA ShellProcInv ==
  ASSUME ProcInv, ShellNext
  PROVE  ProcInv'
<1> USE DEF ProcInv
<1> DEFINE Quiet == UNCHANGED <<procs, upc, arg, rax, entered, ended>>
<1>1. CASE ShellIdles
  <2>1. Quiet /\ UNCHANGED <<shell, waited, shown>> /\ running' = Sched
    BY <1>1 DEF ShellIdles
  <2> QED
    BY <2>1, TasksApart DEF Types, Linked, RunningWhileAlive, EndRecorded, ShellWaits,
       OnCpuAlive, Entered, PidTold, Reported, Alive, Result
<1>2. CASE \E pid \in 0 .. MaxProcs + 1 : WaitCommand(pid)
  <2>1. PICK pid \in 0 .. MaxProcs + 1 : WaitCommand(pid)
    BY <1>2
  <2>2. /\ Quiet /\ UNCHANGED <<running, shown>> /\ running = Shell
        /\ shell = "prompt" /\ shell' = "wait" /\ waited' = pid
    BY <2>1 DEF WaitCommand
  <2>3. \A t \in UserTasks : ~Alive(t)
    BY <2>2 DEF ShellWaits
  <2> QED
    BY <2>2, <2>3 DEF Types, Linked, RunningWhileAlive, EndRecorded, ShellWaits,
       OnCpuAlive, Entered, PidTold, Reported, Alive, Result
<1>3. CASE WaitNoProcess
  <2>1. /\ Quiet /\ UNCHANGED <<running, waited>> /\ waited \notin Pids
        /\ shown' = NoProcess /\ shell' = "prompt"
    BY <1>3 DEF WaitNoProcess
  <2>2. \A t \in UserTasks : ~Alive(t)
    BY <2>1 DEF ShellWaits, Types
  <2> QED
    BY <2>1, <2>2 DEF Types, Linked, RunningWhileAlive, EndRecorded, ShellWaits,
       OnCpuAlive, Entered, PidTold, Reported, Alive, Result, Outcomes
<1>4. CASE WaitYield
  <2>1. Quiet /\ UNCHANGED <<shell, waited, shown>> /\ running' = Sched
    BY <1>4 DEF WaitYield
  <2> QED
    BY <2>1, TasksApart DEF Types, Linked, RunningWhileAlive, EndRecorded, ShellWaits,
       OnCpuAlive, Entered, PidTold, Reported, Alive, Result
<1> QED
  BY <1>1, <1>2, <1>3, <1>4, ExecProcInv, ExecFailsProcInv, WaitProcInv DEF ShellNext

----------------------------------------------------------------------------
(* The user-elf task.                                                      *)

\* A task that goes on keeps the table and its link.
LEMMA GoesOnProcInv ==
  ASSUME ProcInv, NEW t \in UserTasks, NEW at \in {"ring3", "read"}, Alive(t),
         upc' = [upc EXCEPT ![t] = at],
         running' \in {t, Sched},
         entered' = IF at = "read" THEN entered \cup {t} ELSE entered \ {t},
         UNCHANGED <<procs, arg, rax, shell, waited, shown, ended>>
  PROVE  ProcInv'
<1> USE DEF ProcInv
<1>1. /\ upc' \in Seq({"start", "ring3", "read", "done"}) /\ Len(upc') = Len(upc)
      /\ \A u \in UserTasks : upc'[u] = IF u = t THEN at ELSE upc[u]
      /\ UserTasks' = UserTasks
  BY Domains, ExceptSeq, LenProperties DEF Types
<1>2. Types'
  BY <1>1, Domains DEF Types
<1>3. \A u \in UserTasks : Alive(u)' <=> Alive(u)
  BY <1>1 DEF Alive
<1>4. Linked' /\ EndRecorded' /\ PidTold' /\ Reported'
  BY <1>1 DEF Linked, EndRecorded, PidTold, Reported, Result
<1>5. RunningWhileAlive'
  BY <1>3, Domains DEF RunningWhileAlive, Types, Alive
<1>6. ShellWaits' /\ OnCpuAlive'
  BY <1>1, <1>3, TasksApart DEF ShellWaits, OnCpuAlive, Alive
<1>7. Entered'
  BY <1>1, Domains DEF Entered, Types
<1> QED
  BY <1>2, <1>4, <1>5, <1>6, <1>7

\* A task that ends leaves its process as a zombie with its result.
LEMMA FinishProcInv ==
  ASSUME ProcInv, NEW t \in UserTasks, Alive(t), t \notin entered,
         NEW status \in {0, 1}, NEW code \in Codes,
         process_finish(arg[t], status, code), TaskEnds(t),
         ended' = [ended EXCEPT ![arg[t]] = IF status = 0 THEN code ELSE LoadFailed],
         UNCHANGED <<arg, rax, shell, waited, shown, entered>>
  PROVE  ProcInv'
<1> USE DEF ProcInv
<1> DEFINE p == arg[t]
           r == [procs[p] EXCEPT !.load_status = status, !.exit_code = code,
                                 !.state = "ZOMBIE"]
           e == IF status = 0 THEN code ELSE LoadFailed
<1>1. p \in Pids /\ procs[p].task_id = t /\ t # 0 /\ t \in 1 .. Len(upc)
  BY Domains DEF Types, Linked
<1>2. procs[p] \in Records
  BY <1>1, Domains, ElementOfSeq DEF Types
<1>3. /\ r \in Records /\ r.task_id = procs[p].task_id /\ r.state = "ZOMBIE"
      /\ r.load_status = status /\ r.exit_code = code
  BY <1>2 DEF Records
<1>4. procs' = [procs EXCEPT ![p] = r]
  BY <1>1, <1>2 DEF process_finish, FinishState, Records
<1> HIDE DEF r
<1>5. /\ procs' \in Seq(Records) /\ Len(procs') = Len(procs) /\ Pids' = Pids
      /\ procs'[p] = r
      /\ \A q \in Pids : q # p => procs'[q] = procs[q]
      /\ \A q \in Pids : procs'[q].task_id = procs[q].task_id
  BY <1>1, <1>3, <1>4, TableStep
<1>6. /\ upc' \in Seq({"start", "ring3", "read", "done"}) /\ Len(upc') = Len(upc)
      /\ \A u \in UserTasks : upc'[u] = IF u = t THEN "done" ELSE upc[u]
      /\ UserTasks' = UserTasks /\ running' = Sched
  BY <1>1, Domains, ExceptSeq, LenProperties DEF Types, TaskEnds
<1>7. /\ ended' \in Seq(Outcomes \cup {Nothing}) /\ Len(ended') = Len(ended)
      /\ \A q \in Pids : ended'[q] = IF q = p THEN e ELSE ended[q]
  <2>1. /\ e \in Outcomes \cup {Nothing} /\ ended \in Seq(Outcomes \cup {Nothing})
        /\ Pids = 1 .. Len(ended)
    BY Domains DEF Types, Outcomes
  <2> QED
    BY <1>1, <2>1, ExceptSeq
<1>8. Types'
  BY <1>5, <1>6, <1>7, Domains DEF Types
<1>9. Linked'
  BY <1>5, <1>6, Domains DEF Linked, Types
<1>10. \A q \in Pids : q # p => procs[q].task_id # t
  BY <1>1 DEF Linked
<1>11. RunningWhileAlive'
  <2>1. \A q \in Pids : q # p /\ procs[q].task_id # 0
                           => upc'[procs[q].task_id] = upc[procs[q].task_id]
    <3>1. \A q \in Pids : procs[q].task_id # 0 => procs[q].task_id \in UserTasks
      BY TaskOfProcess, Zenon DEF ProcInv
    <3> QED
      BY <1>6, <1>10, <3>1, Zenon
  <2>2. upc'[t] = "done"
    BY <1>6
  <2> QED
    BY <1>1, <1>3, <1>5, <2>1, <2>2, SMTT(30) DEF RunningWhileAlive, Alive
<1>12. EndRecorded'
  BY <1>3, <1>5, <1>7 DEF EndRecorded, Result
<1>13. ShellWaits' /\ OnCpuAlive' /\ Entered' /\ PidTold'
  BY <1>6, TasksApart, Domains DEF ShellWaits, OnCpuAlive, Entered, PidTold, Alive, Types
<1>14. Reported'
  BY DEF ShellWaits, Reported, Types
<1> QED
  BY <1>8, <1>9, <1>11, <1>12, <1>13, <1>14

\* The steps of a program, and of the task around it.
LEMMA UserProcInv ==
  ASSUME ProcInv, NEW t \in UserTasks, UserNext(t)
  PROVE  ProcInv'
<1>1. CASE Start(t)
  <2>1. t \notin entered /\ Alive(t)
    BY <1>1 DEF Start, ProcInv, Entered, Alive
  <2> QED
    BY <1>1, <2>1, GoesOnProcInv DEF Start
<1>2. CASE StartFails(t)
  <2>1. t \notin entered /\ Alive(t) /\ 0 \in Codes
    BY <1>2 DEF StartFails, ProcInv, Entered, Alive
  <2>2. /\ process_finish(arg[t], 1, 0) /\ TaskEnds(t)
        /\ ended' = [ended EXCEPT ![arg[t]] = IF 1 = 0 THEN 0 ELSE LoadFailed]
        /\ UNCHANGED <<arg, rax, shell, waited, shown, entered>>
    BY <1>2 DEF StartFails
  <2> QED
    BY <2>1, <2>2, FinishProcInv
<1>3. CASE Getpid(t)
  <2>1. process_current_pid(t) = arg[t]
    BY <1>3, CurrentPid DEF Getpid, Alive
  <2>2. /\ UNCHANGED <<procs, upc, arg, running, shell, waited, shown, entered, ended>>
        /\ rax' = [rax EXCEPT ![t] = arg[t]]
    BY <1>3, <2>1 DEF Getpid
  <2>3. /\ rax' \in Seq((0 .. MaxProcs) \cup {Nothing}) /\ Len(rax') = Len(rax)
        /\ \A u \in UserTasks : rax'[u] = IF u = t THEN arg[t] ELSE rax[u]
    <3>1. /\ arg[t] \in (0 .. MaxProcs) \cup {Nothing} /\ UserTasks = 1 .. Len(rax)
          /\ rax \in Seq((0 .. MaxProcs) \cup {Nothing})
      BY Domains DEF ProcInv, Types
    <3> QED
      BY <2>2, <3>1, ExceptSeq
  <2>4. Types'
    BY <2>2, <2>3 DEF ProcInv, Types
  <2>5. Linked' /\ RunningWhileAlive' /\ EndRecorded'
    BY <2>2 DEF ProcInv, Linked, RunningWhileAlive, EndRecorded, Alive, Result
  <2>6. ShellWaits' /\ OnCpuAlive' /\ Entered' /\ Reported'
    BY <2>2 DEF ProcInv, ShellWaits, OnCpuAlive, Entered, Reported, Alive, Result
  <2>7. PidTold'
    BY <2>2, <2>3 DEF ProcInv, PidTold
  <2> QED
    BY <2>4, <2>5, <2>6, <2>7 DEF ProcInv
<1>4. CASE ReadBlocks(t)
  BY <1>4, GoesOnProcInv DEF ReadBlocks, Alive
<1>5. CASE ReadReturns(t)
  BY <1>5, GoesOnProcInv DEF ReadReturns, Alive
<1>6. CASE \E code \in Codes : Exit(t, code)
  <2>1. PICK code \in Codes : Exit(t, code)
    BY <1>6
  <2>2. t \notin entered /\ Alive(t)
    BY <2>1 DEF Exit, ProcInv, Entered, Alive
  <2> QED
    BY <2>1, <2>2, FinishProcInv DEF Exit, ExitValue
<1> QED
  BY <1>1, <1>2, <1>3, <1>4, <1>5, <1>6 DEF UserNext

----------------------------------------------------------------------------
\* ProcInv is an inductive invariant.
THEOREM ProcessInvariant == Spec => []ProcInv
<1>1. ProcInv /\ UNCHANGED vars => ProcInv'
  BY SMTT(30) DEF ProcInv, Types, Linked, RunningWhileAlive, EndRecorded, ShellWaits,
     OnCpuAlive, Entered, PidTold, Reported, Alive, Result, vars
<1>2. ProcInv /\ Next => ProcInv'
  BY PickProcInv, ShellProcInv, UserProcInv DEF Next
<1> QED
  BY <1>1, <1>2, InitProcInv, PTL DEF Spec

\* For any number of processes: a process is RUNNING exactly while its task
\* lives, each task belongs to one process, and SYS_getpid returns its pid.
THEOREM TableIsExact == Spec => []TableExact
<1>1. ProcInv => TableExact
  <2> SUFFICES ASSUME ProcInv PROVE TableExact
    OBVIOUS
  <2>1. \A t \in UserTasks : Cardinality({p \in Pids : procs[p].task_id = t}) = 1
    <3> TAKE t \in UserTasks
    <3>1. {p \in Pids : procs[p].task_id = t} = {arg[t]}
      BY Domains DEF ProcInv, Types, Linked
    <3> QED
      BY <3>1, FS_Singleton
  <2> QED
    BY <2>1, TypesImplyTypeOK DEF ProcInv, TableExact, RunningWhileAlive, PidTold, Alive
<1> QED
  BY <1>1, ProcessInvariant, PTL

\* For any number of processes: at most one program is in memory, and only a
\* program that is blocked in SYS_read has frames on syscall_stack.
THEOREM ProgramsApart == Spec => []OneProgram
<1>1. ProcInv => OneProgram
  <2> SUFFICES ASSUME ProcInv PROVE OneProgram
    OBVIOUS
  <2> DEFINE alive == {t \in UserTasks : upc[t] # "done"}
  <2>1. \A t, u \in alive : t = u
    BY DEF ProcInv, ShellWaits, Linked, Alive
  <2>2. Cardinality(alive) <= 1
    <3>1. CASE alive = {}
      BY <3>1, FS_EmptySet
    <3>2. CASE alive # {}
      <4>1. PICK t \in alive : TRUE
        BY <3>2
      <4>2. alive = {t}
        BY <2>1, <4>1
      <4> QED
        BY <4>2, FS_Singleton
    <3> QED
      BY <3>1, <3>2
  <2> QED
    BY <2>2 DEF OneProgram, ProcInv, Entered
<1> QED
  BY <1>1, ProcessInvariant, PTL

\* For any number of processes: what process_wait returns is how the program
\* ended, however often it is asked.
THEOREM WaitsReport == Spec => []WaitReports
<1>1. ProcInv => WaitReports
  BY DEF ProcInv, Reported, WaitReports
<1> QED
  BY <1>1, ProcessInvariant, PTL
============================================================================
