----------------------------- MODULE Keyboard -----------------------------
(***************************************************************************)
(* From keys to the terminal's buffer: the scan code decoder               *)
(* (kernel/keyboard.c) and the ring of kernel/tty.c.                       *)
(*                                                                         *)
(* A scan code is a record of a key and whether it is let go; a grey key   *)
(* sends it behind a prefix, and may put a shift code behind a prefix of   *)
(* its own before that, to cancel a shift or num lock state.  Codes arrive *)
(* one per interrupt, in order.  What wakes the reader is in module Sched. *)
(***************************************************************************)
EXTENDS Naturals, Sequences, FiniteSets

CONSTANTS
  Letters,     \* keys with a character of either case
  Shifts,      \* the two shift keys
  GreyKeys,    \* keys whose codes have the prefix
  MuteKeys,    \* keys without a meaning here
  Size,        \* TTY_BUFFER_SIZE
  Prefix,      \* EXTENDED_SCANCODE_PREFIX
  MaxEvents,   \* keys pressed and released
  MaxWire      \* codes on their way

ASSUME KeyboardAssumption ==
  /\ Letters # {}
  /\ Size \in Nat /\ Size > 1
  /\ MaxEvents \in Nat /\ MaxWire \in Nat

VARIABLES
  held,                  \* the keys held down
  wire,                  \* codes sent and not yet read
  events,                \* keys pressed and released so far
  bothShifts,            \* history: both shift keys were held at once
  expected,              \* history: the keys that were meant
  decoded,               \* history: the keys passed to tty_push_key
  shift_pressed, extended_scancode,
  tty_buffer, tty_head, tty_tail,
  tty_dropped

user == <<held, events, bothShifts, expected>>
decoder == <<shift_pressed, extended_scancode>>
ring == <<tty_buffer, tty_head, tty_tail, tty_dropped>>
keyboardVars == <<user, wire, decoded, decoder, ring>>

AllKeys == Letters \cup Shifts \cup GreyKeys \cup MuteKeys
Code(k, up) == [key |-> k, up |-> up]

\* tty_key_t: a character, of upper case or not, or a key of its own.
Meaning(k, upper) == [key |-> k, upper |-> upper]
TtyKeys == {Meaning(k, u) : k \in Letters, u \in BOOLEAN}
             \cup {Meaning(k, FALSE) : k \in GreyKeys}
Slots == 0 .. Size - 1

\* Every variable has its type: the ring's indices stay inside tty_buffer, and
\* only keys the terminal knows are passed on.
KeyboardTypeOK ==
  /\ held \subseteq AllKeys
  /\ wire \in Seq({Prefix} \cup {Code(k, u) : k \in AllKeys, u \in BOOLEAN})
  /\ shift_pressed \in BOOLEAN /\ extended_scancode \in BOOLEAN
  /\ decoded \in Seq(TtyKeys)
  /\ tty_buffer \in [Slots -> TtyKeys]
  /\ tty_head \in Slots /\ tty_tail \in Slots /\ tty_dropped \in Nat

\* tty_init; nothing has been written to the buffer, so its contents are open.
KeyboardInit ==
  /\ held = {} /\ events = 0 /\ bothShifts = FALSE /\ expected = <<>>
  /\ wire = <<>> /\ decoded = <<>>
  /\ shift_pressed = FALSE /\ extended_scancode = FALSE
  /\ tty_buffer = [i \in Slots |-> CHOOSE k \in TtyKeys : TRUE]
  /\ tty_head = 0 /\ tty_tail = 0 /\ tty_dropped = 0

----------------------------------------------------------------------------
(* The keyboard.                                                           *)

\* The codes of an event, with or without the shift code before a grey key.
Codes(k, up) ==
  IF k \notin GreyKeys THEN {<<Code(k, up)>>}
  ELSE {<<Prefix, Code(k, up)>>} \cup
       {<<Prefix, Code(s, u), Prefix, Code(k, up)>> : s \in Shifts, u \in BOOLEAN}

Send(k, up) ==
  \E codes \in Codes(k, up) :
    /\ Len(wire) + Len(codes) <= MaxWire
    /\ wire' = wire \o codes

Press(k) ==
  /\ events < MaxEvents
  /\ Send(k, FALSE)
  /\ held' = held \cup {k}
  /\ events' = events + 1
  /\ bothShifts' = (bothShifts \/ Cardinality(Shifts \cap held') > 1)
  /\ expected' = CASE k \in Letters ->
                          Append(expected, Meaning(k, Shifts \cap held # {}))
                   [] k \in GreyKeys -> Append(expected, Meaning(k, FALSE))
                   [] OTHER -> expected
  /\ UNCHANGED <<decoded, decoder, ring>>

Release(k) ==
  /\ k \in held
  /\ Send(k, TRUE)
  /\ held' = held \ {k}
  /\ UNCHANGED <<events, bothShifts, expected, decoded, decoder, ring>>

----------------------------------------------------------------------------
(* The terminal's ring.                                                    *)

next_index(i) == (i + 1) % Size

PushRefused_Mutant == FALSE

PushRefused == next_index(tty_head) = tty_tail

tty_push_key(key) ==
  /\ decoded' = Append(decoded, key)
  /\ IF PushRefused
     THEN /\ tty_dropped' = tty_dropped + 1
          /\ UNCHANGED <<tty_buffer, tty_head>>
     ELSE /\ tty_buffer' = [tty_buffer EXCEPT ![tty_head] = key]
          /\ tty_head' = next_index(tty_head)
          /\ UNCHANGED tty_dropped
  /\ UNCHANGED tty_tail

\* tty_read_key_irq_disabled, by a reader.
Read ==
  /\ tty_tail # tty_head
  /\ tty_tail' = next_index(tty_tail)
  /\ UNCHANGED <<user, wire, decoded, decoder, tty_buffer, tty_head, tty_dropped>>

----------------------------------------------------------------------------
(* keyboard_on_irq, by the code it reads.                                  *)

Reads == wire # <<>> /\ wire' = Tail(wire)

IrqPrefix ==
  /\ Reads /\ Head(wire) = Prefix
  /\ extended_scancode' = TRUE
  /\ UNCHANGED <<user, decoded, shift_pressed, ring>>

\* A code that is no prefix and follows none.
IsPlain == wire # <<>> /\ Head(wire) # Prefix /\ ~extended_scancode

\* handle_extended_scancode: a grey key that is pressed; anything else is
\* ignored.
IrqExtended ==
  /\ Reads /\ Head(wire) # Prefix /\ extended_scancode
  /\ extended_scancode' = FALSE
  /\ IF Head(wire).key \in GreyKeys /\ ~Head(wire).up
     THEN tty_push_key(Meaning(Head(wire).key, FALSE))
     ELSE UNCHANGED <<decoded, ring>>
  /\ UNCHANGED <<user, shift_pressed>>

IrqShift ==
  /\ Reads /\ IsPlain /\ Head(wire).key \in Shifts
  /\ shift_pressed' = ~Head(wire).up
  /\ UNCHANGED <<user, decoded, extended_scancode, ring>>

CharOf_Mutant(k) == Meaning(k, FALSE)

\* scancode_to_char, with the table for the shift state.
CharOf(k) == Meaning(k, shift_pressed)

IrqCharacter ==
  /\ Reads /\ IsPlain /\ Head(wire).key \in Letters /\ ~Head(wire).up
  /\ tty_push_key(CharOf(Head(wire).key))
  /\ UNCHANGED <<user, decoder>>

\* A key let go, or one the tables give no character.
IrqIgnored ==
  /\ Reads /\ IsPlain
  /\ Head(wire).key \notin Shifts
  /\ Head(wire).up \/ Head(wire).key \notin Letters
  /\ UNCHANGED <<user, decoded, decoder, ring>>

KeyboardNext ==
  \/ \E k \in AllKeys : Press(k) \/ Release(k)
  \/ IrqPrefix \/ IrqExtended \/ IrqShift \/ IrqCharacter \/ IrqIgnored
  \/ Read

KeyboardSpec == KeyboardInit /\ [][KeyboardNext]_keyboardVars

----------------------------------------------------------------------------
\* Once the codes have been read, the keys passed on are the ones that were
\* meant, in order and in the case of the shift key held.  The two shift keys
\* share one flag: after they were held together, letting go of one may turn
\* a capital into a small letter, never the reverse, and no key is lost.  No
\* prefix is pending then, and no shift without a key.
KeysExact ==
  /\ KeyboardTypeOK
  /\ wire = <<>> =>
       /\ ~bothShifts => decoded = expected
       /\ Len(decoded) = Len(expected)
       /\ \A i \in DOMAIN decoded :
            /\ decoded[i].key = expected[i].key
            /\ decoded[i].upper => expected[i].upper
       /\ ~extended_scancode
       /\ shift_pressed => Shifts \cap held # {}

\* The ring holds Size - 1 keys and gives them back in order.
Queued ==
  [i \in 1 .. (tty_head + Size - tty_tail) % Size
     |-> tty_buffer[(tty_tail + i - 1) % Size]]

Fifo == INSTANCE BoundedFifo
          WITH Items <- TtyKeys, Capacity <- Size - 1, queue <- Queued

\* The ring of the terminal implements the bounded buffer: a key that finds it
\* full is dropped and the keys waiting stay.
RingIsFifo == Fifo!FifoSpec
============================================================================
