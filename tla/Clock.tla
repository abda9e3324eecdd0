------------------------------- MODULE Clock -------------------------------
(***************************************************************************)
(* The clock driver (kernel/rtc.c): rtc_read_time reads a running CMOS     *)
(* clock register by register and converts what it has read.               *)
(*                                                                         *)
(* The chip is external.  It announces an update by the flag UIP well      *)
(* before it changes a register, then changes the registers one after the  *)
(* other.  A reader that saw the flag clear is done before the update      *)
(* begins: interrupts are off, and the seven reads take far less than the  *)
(* announcement.  A reader that gave up waiting has no such guarantee.     *)
(* A time is <<second, minute, hour, day, month, year>>, year in 0 .. 99.  *)
(***************************************************************************)
EXTENDS Naturals, Sequences

CONSTANTS
  Starts,     \* times at which the chip starts
  MaxPolls,   \* the turns of the waiting loop
  MaxTicks

ASSUME ClockAssumption == MaxPolls \in Nat \ {0} /\ MaxTicks \in Nat

VARIABLES
  bcd, hours24,   \* the chip's mode, status register B
  time,           \* the time the chip keeps
  registers,      \* its registers 1 .. 6, as they are encoded
  uip, updated,   \* an update is announced; the registers it has changed
  ticks,
  reader,         \* what rtc_read_time does: "idle", "poll", "read" or "done"
  polls, values,  \* the turns of its loop; the registers it has read
  result,
  sawClear,       \* history: the flag was clear when it stopped waiting
  shown           \* history: the times the chip has shown during the call

chip == <<bcd, hours24, time, registers, uip, updated, ticks>>
call == <<reader, polls, values, result, sawClear>>
clockVars == <<chip, call, shown>>

Fields == 1 .. 6
HourField == 3

----------------------------------------------------------------------------
(* The chip.                                                               *)

DaysIn(month, year) ==
  IF month = 2 THEN IF year % 4 = 0 THEN 29 ELSE 28
  ELSE IF month \in {4, 6, 9, 11} THEN 30 ELSE 31

First == <<0, 0, 0, 1, 1, 0>>
Last(t) == <<59, 59, 23, DaysIn(t[5], t[6]), 12, 99>>

\* A field moves when all the fields below it are at their last value.
Later(t) ==
  [i \in Fields |->
     IF \E j \in 1 .. i - 1 : t[j] # Last(t)[j] THEN t[i]
     ELSE IF t[i] = Last(t)[i] THEN First[i] ELSE t[i] + 1]

Digits(v) == IF bcd THEN 16 * (v \div 10) + (v % 10) ELSE v
HourRegister(h) ==
  IF hours24 THEN Digits(h)
  ELSE Digits(IF h % 12 = 0 THEN 12 ELSE h % 12) + (IF h >= 12 THEN 128 ELSE 0)
Encoded(t) == [i \in Fields |-> IF i = HourField THEN HourRegister(t[i])
                                ELSE Digits(t[i])]

ClockInit ==
  /\ bcd \in BOOLEAN /\ hours24 \in BOOLEAN
  /\ time \in Starts /\ registers = Encoded(time)
  /\ uip = FALSE /\ updated = {} /\ ticks = 0
  /\ reader = "idle" /\ polls = 0 /\ values = <<>> /\ result = <<>>
  /\ sawClear = FALSE /\ shown = {}

Announce ==
  /\ ~uip /\ ticks < MaxTicks
  /\ uip' = TRUE
  /\ ticks' = ticks + 1
  /\ UNCHANGED <<bcd, hours24, time, registers, updated, call, shown>>

UpdateRegister ==
  /\ uip
  /\ reader = "read" => ~sawClear
  /\ \E i \in Fields \ updated :
       /\ \A j \in 1 .. i - 1 : j \in updated
       /\ registers' = [registers EXCEPT ![i] = Encoded(Later(time))[i]]
       /\ updated' = updated \cup {i}
  /\ UNCHANGED <<bcd, hours24, time, uip, ticks, call, shown>>

EndUpdate ==
  /\ uip /\ updated = Fields
  /\ time' = Later(time)
  /\ uip' = FALSE /\ updated' = {}
  /\ shown' = shown \cup {time'}
  /\ UNCHANGED <<bcd, hours24, registers, ticks, call>>

----------------------------------------------------------------------------
(* rtc_read_time.                                                          *)

BeginRead ==
  /\ reader = "idle"
  /\ reader' = "poll" /\ polls' = 0 /\ values' = <<>>
  /\ shown' = {time}
  /\ UNCHANGED <<chip, result, sawClear>>

StopsWaiting_Mutant == TRUE

\* The loop ends when rtc_update_in_progress says no, or after its last turn.
StopsWaiting == ~uip \/ polls + 1 = MaxPolls

Poll ==
  /\ reader = "poll"
  /\ IF StopsWaiting
     THEN reader' = "read" /\ sawClear' = ~uip /\ UNCHANGED polls
     ELSE polls' = polls + 1 /\ UNCHANGED <<reader, sawClear>>
  /\ UNCHANGED <<chip, values, result, shown>>

ReadRegister ==
  /\ reader = "read" /\ Len(values) < 6
  /\ values' = Append(values, registers[Len(values) + 1])
  /\ UNCHANGED <<chip, reader, polls, result, sawClear, shown>>

bcd_to_bin(v) == (v % 16) + 10 * (v \div 16)

\* The registers by the mode of status register B: BCD digits first, where the
\* hour loses bit 7, then the hours of a 12-hour clock.
Converted(raw) ==
  LET v == IF bcd
           THEN [i \in Fields |->
                   bcd_to_bin(IF i = HourField THEN raw[i] % 128 ELSE raw[i])]
           ELSE raw
      pm == v[HourField] >= 128
      hour == v[HourField] % 128
      hour24 == IF pm /\ hour < 12 THEN hour + 12
                ELSE IF ~pm /\ hour = 12 THEN 0 ELSE hour
  IN  IF hours24 THEN v ELSE [v EXCEPT ![HourField] = hour24]

EndRead ==
  /\ reader = "read" /\ Len(values) = 6
  /\ reader' = "done"
  /\ result' = Converted(values)
  /\ UNCHANGED <<chip, polls, values, sawClear, shown>>

\* cmd_date prints the result, and may be called again.
Again ==
  /\ reader = "done" /\ ticks < MaxTicks
  /\ reader' = "idle" /\ result' = <<>> /\ sawClear' = FALSE /\ shown' = {}
  /\ UNCHANGED <<chip, polls, values>>

ClockNext == Announce \/ UpdateRegister \/ EndUpdate
             \/ BeginRead \/ Poll \/ ReadRegister \/ EndRead \/ Again

ClockSpec == ClockInit /\ [][ClockNext]_clockVars

----------------------------------------------------------------------------
ClockTypeOK ==
  /\ registers \in [Fields -> 0 .. 255]
  /\ reader \in {"idle", "poll", "read", "done"} /\ polls \in 0 .. MaxPolls - 1
  /\ updated \subseteq Fields /\ Len(values) <= 6

GaveUp == ~sawClear /\ polls + 1 = MaxPolls

\* A call that has not given up returns a time that the chip showed while the
\* call ran, never one put together from two of them; a 12-hour clock with BCD
\* digits gives the hour without its half of the day.
ReadExact ==
  /\ ClockTypeOK
  /\ reader = "done" /\ ~GaveUp =>
       \E t \in shown :
         /\ \A i \in Fields \ {HourField} : result[i] = t[i]
         /\ result[HourField] = IF bcd /\ ~hours24 THEN t[HourField] % 12 ELSE t[HourField]

\* In 12-hour mode bit 7 of the hour marks the afternoon, whatever the digits.
AfternoonKept ==
  reader = "done" /\ ~GaveUp => \E t \in shown : result[HourField] = t[HourField]
============================================================================
