----------------------------- MODULE MCDevices -----------------------------
(***************************************************************************)
(* The drivers of the keyboard, the mouse and the clock on small           *)
(* instances.  They share no state: in each behaviour one of Parts moves.  *)
(***************************************************************************)
EXTENDS Keyboard, Mouse, Clock

CONSTANT Parts
VARIABLE part

\* A step down, and the far end of four bits.
MCDeltas == {-8, 1}

\* The last second of every hour of a year, and of February in a leap year.
MCStarts ==
  {<<59, 59, h, 31, 12, 9>> : h \in 0 .. 23} \cup {<<59, 59, 23, 28, 2, 8>>}

MCInit ==
  /\ part \in Parts
  /\ KeyboardInit /\ MouseInit /\ ClockInit
  /\ part # "mouse" => device.kind = "none"
  /\ part # "clock" => bcd /\ hours24 /\ time = <<59, 59, 23, 28, 2, 8>>

MCNext ==
  \/ part = "keyboard" /\ KeyboardNext /\ UNCHANGED <<part, mouseVars, clockVars>>
  \/ part = "mouse" /\ MouseNext /\ UNCHANGED <<part, keyboardVars, clockVars>>
  \/ part = "clock" /\ ClockNext /\ UNCHANGED <<part, keyboardVars, mouseVars>>

MCSpec == MCInit /\ [][MCNext]_<<part, keyboardVars, mouseVars, clockVars>>
============================================================================
