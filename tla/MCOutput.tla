------------------------------ MODULE MCOutput -----------------------------
(***************************************************************************)
(* The console, and the path of a printed character to the serial line and *)
(* the kernel log, on small instances.  In each behaviour one of Parts     *)
(* moves.                                                                  *)
(***************************************************************************)
EXTENDS Console, Log

CONSTANT Parts
VARIABLE part

MCInit == part \in Parts /\ ConsoleInit /\ LogInit

MCNext ==
  \/ part = "console" /\ ConsoleNext /\ UNCHANGED <<part, logVars>>
  \/ part = "log" /\ LogNext /\ UNCHANGED <<part, consoleVars>>

MCSpec ==
  /\ MCInit /\ [][MCNext]_<<part, consoleVars, logVars>>
  /\ WF_logVars(part = "log" /\ LogStep /\ UNCHANGED <<part, consoleVars>>)
============================================================================
