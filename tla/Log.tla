-------------------------------- MODULE Log --------------------------------
(***************************************************************************)
(* What print does with a character (kernel/print.c): it goes to the       *)
(* console, to the serial line (kernel/serial.c) and into the ring of the  *)
(* kernel log (kernel/klog.c), whose lock is held for the write and for    *)
(* all of a dump.  A panic (kernel/panic.c) or an exception (kernel/idt.c) *)
(* prints its message the same way, over whatever was going on, and halts. *)
(*                                                                         *)
(* stack holds the activities, the last one running: what is left to print *)
(* and how far its first character has come.  An activity on top of the    *)
(* first never returns.  A character is a member of Chars or Mark, which a *)
(* last message is made of; the console's own work is module Console.      *)
(***************************************************************************)
EXTENDS Naturals, Sequences

CONSTANTS
  Chars, Mark,
  LogSize,      \* KLOG_BUFFER_SIZE
  MaxPolls,     \* the turns of serial_write_raw_char's loop
  Message,      \* the length of a last message
  MaxPrinted    \* characters printed

ASSUME LogAssumption ==
  /\ Mark \notin Chars
  /\ LogSize \in Nat \ {0} /\ Message \in Nat /\ MaxPolls \in Nat /\ MaxPrinted \in Nat

VARIABLES
  stack,
  klog_lock, klog_buffer, klog_head, klog_count, klog_initialized,
  klog_index,   \* klog_dump's index; its loop variable is the length of dumped
  jammed,       \* the serial line takes no more characters
  polls,        \* how often serial_write_raw_char has asked it
  printed,      \* history: characters print gave the console since klog_clear
  total,        \* history: their number, without the clearing
  dumped,       \* history: what the last dump showed
  marks,        \* history: characters of a last message on the console
  overDump      \* history: a last message began while klog_lock was held

klog == <<klog_buffer, klog_head, klog_count>>
line == <<jammed, polls>>
outputs == <<line, printed, total, marks>>
logVars == <<stack, klog_lock, klog, klog_initialized, klog_index,
             outputs, dumped, overDump>>

Activity(what, text) == [what |-> what, text |-> text, at |-> "console"]
Resting == [what |-> "task", text |-> <<>>, at |-> "rest"]
Top == stack[Len(stack)]
Running(what) == stack # <<>> /\ Top.at = what
Goes(a) == stack' = [stack EXCEPT ![Len(stack)] = a]
klog_next_index(i) == (i + 1) % LogSize

\* After serial_init; klog_init has yet to be called.
LogInit ==
  /\ stack = <<Resting>>
  /\ klog_lock = FALSE /\ klog_initialized = FALSE
  /\ klog_buffer = [i \in 0 .. LogSize - 1 |-> Mark]
  /\ klog_head = 0 /\ klog_count = 0 /\ klog_index = 0
  /\ jammed = FALSE /\ polls = 0 /\ printed = <<>> /\ total = 0 /\ dumped = <<>> /\ marks = 0
  /\ overDump = FALSE

klog_init ==
  /\ Running("rest") /\ ~klog_initialized
  /\ klog_lock' = FALSE /\ klog_head' = 0 /\ klog_count' = 0
  /\ klog_initialized' = TRUE
  /\ printed' = <<>>
  /\ UNCHANGED <<stack, klog_buffer, klog_index, line, total, dumped,
                 marks, overDump>>

----------------------------------------------------------------------------
(* print_char, in steps.                                                   *)

print(c) ==
  /\ Running("rest") /\ total < MaxPrinted
  /\ Goes(Activity("task", <<c>>))
  /\ dumped' = <<>>
  /\ UNCHANGED <<klog_lock, klog, klog_initialized, klog_index, outputs,
                 overDump>>

ConsoleShows ==
  /\ Running("console") /\ Top.text # <<>>
  /\ printed' = Append(printed, Head(Top.text))
  /\ total' = total + 1
  /\ marks' = marks + (IF Head(Top.text) = Mark THEN 1 ELSE 0)
  /\ Goes([Top EXCEPT !.at = "serial"])
  /\ UNCHANGED <<klog_lock, klog, klog_initialized, klog_index, line,
                 dumped, overDump>>

SerialJams ==
  /\ ~jammed
  /\ jammed' = TRUE
  /\ UNCHANGED <<stack, klog_lock, klog, klog_initialized, klog_index, polls, printed,
                 total, marks, dumped, overDump>>

GivesUp_Mutant == FALSE

\* serial_write_raw_char stops asking: the character is lost.
GivesUp == polls = MaxPolls

SerialPolls ==
  /\ Running("serial") /\ jammed /\ ~GivesUp
  /\ polls' = IF polls < MaxPolls THEN polls + 1 ELSE polls
  /\ UNCHANGED <<stack, klog_lock, klog, klog_initialized, klog_index, jammed, printed,
                 total, marks, dumped, overDump>>

SerialDone ==
  /\ Running("serial") /\ (jammed => GivesUp)
  /\ polls' = 0
  /\ Goes([Top EXCEPT !.at = IF klog_initialized THEN "lock" ELSE "next"])
  /\ UNCHANGED <<klog_lock, klog, klog_initialized, klog_index, jammed, printed,
                 total, marks, dumped, overDump>>

\* spin_lock_irqsave in klog_write_char.  There is one processor: a lock that
\* the activity below holds is never released.
TakeLock ==
  /\ Running("lock") /\ ~klog_lock
  /\ klog_lock' = TRUE
  /\ Goes([Top EXCEPT !.at = "write"])
  /\ UNCHANGED <<klog, klog_initialized, klog_index, outputs, dumped,
                 overDump>>

CountAfter_Mutant == klog_count + 1

CountAfter == IF klog_count < LogSize THEN klog_count + 1 ELSE klog_count

WriteLog ==
  /\ Running("write")
  /\ klog_buffer' = [klog_buffer EXCEPT ![klog_head] = Head(Top.text)]
  /\ klog_head' = klog_next_index(klog_head)
  /\ klog_count' = CountAfter
  /\ Goes([Top EXCEPT !.at = "unlock"])
  /\ UNCHANGED <<klog_lock, klog_initialized, klog_index, outputs, dumped,
                 overDump>>

Unlock ==
  /\ Running("unlock")
  /\ klog_lock' = FALSE
  /\ Goes([Top EXCEPT !.at = "next"])
  /\ UNCHANGED <<klog, klog_initialized, klog_index, outputs, dumped,
                 overDump>>

\* The loop of print; after its last character the task goes on, while a last
\* message ends in a halt.
NextChar ==
  /\ Running("next")
  /\ LET rest == Tail(Top.text)
     IN  Goes(IF rest # <<>> THEN [Top EXCEPT !.text = rest, !.at = "console"]
              ELSE IF Top.what = "task" THEN Resting
              ELSE [Top EXCEPT !.text = <<>>, !.at = "halt"])
  /\ UNCHANGED <<klog_lock, klog, klog_initialized, klog_index, outputs,
                 dumped, overDump>>

----------------------------------------------------------------------------
(* The commands on the log.                                                *)

\* cmd_dmesg_clear: klog_clear, and a line that says so.
cmd_dmesg_clear(c) ==
  /\ Running("rest") /\ klog_initialized /\ total < MaxPrinted
  /\ klog_head' = 0 /\ klog_count' = 0
  /\ printed' = <<>> /\ dumped' = <<>>
  /\ Goes(Activity("task", <<c>>))
  /\ UNCHANGED <<klog_lock, klog_buffer, klog_initialized, klog_index, line,
                 total, marks, overDump>>

DumpStart == IF klog_count = LogSize THEN klog_head ELSE 0

klog_dump ==
  /\ Running("rest") /\ klog_initialized
  /\ klog_lock' = TRUE
  /\ klog_index' = DumpStart
  /\ dumped' = <<>>
  /\ Goes([Resting EXCEPT !.at = "dump"])
  /\ UNCHANGED <<klog, klog_initialized, outputs, overDump>>

\* One turn of its loop; the character goes to the console and the serial line.
DumpChar ==
  /\ Running("dump") /\ Len(dumped) < klog_count
  /\ dumped' = Append(dumped, klog_buffer[klog_index])
  /\ klog_index' = klog_next_index(klog_index)
  /\ UNCHANGED <<stack, klog_lock, klog, klog_initialized, outputs, overDump>>

DumpDone ==
  /\ Running("dump") /\ Len(dumped) >= klog_count
  /\ klog_lock' = FALSE
  /\ klog_index' = 0
  /\ Goes([Resting EXCEPT !.at = "dumped"])
  /\ UNCHANGED <<klog, klog_initialized, outputs, dumped, overDump>>

DumpReturns ==
  /\ Running("dumped")
  /\ Goes(Resting)
  /\ dumped' = <<>>
  /\ UNCHANGED <<klog_lock, klog, klog_initialized, klog_index, outputs,
                 overDump>>

----------------------------------------------------------------------------
(* Last messages.                                                          *)

LastMessage(what) ==
  /\ stack' = Append(stack, Activity(what, [i \in 1 .. Message |-> Mark]))
  /\ overDump' = (overDump \/ klog_lock)
  /\ polls' = 0
  /\ UNCHANGED <<jammed, printed, total, marks>>

\* kernel_panic_at and kernel_panic_assert, called by a task.
kernel_panic ==
  /\ Running("rest")
  /\ LastMessage("panic")
  /\ UNCHANGED <<klog_lock, klog, klog_initialized, klog_index, dumped>>

\* exception_handler, once, from anywhere but a halted processor.
exception_handler ==
  /\ ~\E i \in DOMAIN stack : stack[i].what = "exception"
  /\ Top.at # "halt"
  /\ LastMessage("exception")
  /\ UNCHANGED <<klog_lock, klog, klog_initialized, klog_index, dumped>>

LogStep ==
  \/ ConsoleShows \/ SerialPolls \/ SerialDone
  \/ TakeLock \/ WriteLog \/ Unlock \/ NextChar
  \/ DumpChar \/ DumpDone

LogNext ==
  \/ LogStep
  \/ klog_init \/ (\E c \in Chars : print(c) \/ cmd_dmesg_clear(c)) \/ klog_dump \/ DumpReturns
  \/ kernel_panic \/ exception_handler
  \/ SerialJams

\* The processor goes on with what it has begun.
LogSpec == LogInit /\ [][LogNext]_logVars /\ WF_logVars(LogStep)

----------------------------------------------------------------------------
LastOf(s) == SubSeq(s, IF Len(s) > LogSize THEN Len(s) - LogSize + 1 ELSE 1, Len(s))
Contents ==
  [i \in 1 .. klog_count |-> klog_buffer[(DumpStart + i - 1) % LogSize]]
Midway == \E i \in DOMAIN stack : stack[i].at \in {"serial", "lock", "write"}

\* The log holds the last characters that print has put on the console since it
\* was cleared, as many as fit, in order; a dump shows these and, though it
\* prints, adds none of its own.
LogIsTail ==
  klog_initialized /\ ~Midway =>
    /\ Contents = LastOf(printed)
    /\ Running("dumped") => dumped = LastOf(printed)

LastWord == \E i \in DOMAIN stack : stack[i].what # "task"
Halted == Running("halt")

\* A panic or an exception that finds the log's lock free comes to its halt,
\* with the whole message on the console, even when the serial line takes no
\* characters: print does not stand in its way.
LastWordsShown ==
  LastWord /\ ~overDump ~> (Halted /\ marks >= Message) \/ overDump
============================================================================
