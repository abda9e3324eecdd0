--------------------------- MODULE KeyboardProofs --------------------------
(***************************************************************************)
(* Proofs about Keyboard for every set of keys, every size of the ring of  *)
(* kernel/tty.c and any number of key events: the ring implements a        *)
(* bounded FIFO queue of one entry less than it has.                       *)
(*                                                                         *)
(* There is no count of the keys: it is the distance from tail to head,    *)
(* and the entry that is never filled tells a full ring from an empty one. *)
(***************************************************************************)
EXTENDS Keyboard, SequenceTheorems, TLAPS

USE KeyboardAssumption DEF Slots

\* The inductive invariant: what is in the ring are keys of the terminal.
RingInv ==
  /\ tty_buffer \in [Slots -> TtyKeys]
  /\ tty_head \in Slots /\ tty_tail \in Slots
  /\ shift_pressed \in BOOLEAN

----------------------------------------------------------------------------
(* Arithmetic of the ring.                                                 *)

LEMMA Modulo ==
  ASSUME NEW n \in Nat, n < 2 * Size
  PROVE  n % Size = IF n < Size THEN n ELSE n - Size
<1>1. CASE n < Size
  BY <1>1
<1>2. CASE n >= Size
  <2>1. PICK x \in Slots : n = x + Size
    BY <1>2
  <2>2. (x + Size) % Size = x
    BY <2>1
  <2> QED
    BY <1>2, <2>1, <2>2
<1> QED
  BY <1>1, <1>2

\* The number of keys between tail and head, and where the k-th of them is.
Count(head, tail) == IF head >= tail THEN head - tail ELSE head + Size - tail
EntryAt(tail, k) == IF tail + k - 1 < Size THEN tail + k - 1 ELSE tail + k - 1 - Size

LEMMA NextIndex ==
  ASSUME NEW i \in Slots
  PROVE  next_index(i) = (IF i + 1 < Size THEN i + 1 ELSE 0) /\ next_index(i) \in Slots
BY Modulo DEF next_index

\* The entries are in the ring, and the head is the one behind the last.
LEMMA Entries ==
  ASSUME NEW h \in Slots, NEW t \in Slots
  PROVE  /\ Count(h, t) \in 0 .. Size - 1
         /\ EntryAt(t, Count(h, t) + 1) = h
         /\ \A k \in 1 .. Count(h, t) : EntryAt(t, k) \in Slots /\ EntryAt(t, k) # h
BY DEF Count, EntryAt

\* A key more at the head, unless that would make the ring look empty.
LEMMA CountAfterPush ==
  ASSUME NEW h \in Slots, NEW t \in Slots, next_index(h) # t
  PROVE  Count(next_index(h), t) = Count(h, t) + 1 /\ Count(h, t) < Size - 1
BY NextIndex DEF Count

\* A key less at the tail: the others move up by one.
LEMMA CountAfterRead ==
  ASSUME NEW h \in Slots, NEW t \in Slots, t # h
  PROVE  /\ Count(h, t) > 0 /\ Count(h, next_index(t)) = Count(h, t) - 1
         /\ \A k \in 1 .. Count(h, t) - 1 : EntryAt(next_index(t), k) = EntryAt(t, k + 1)
<1>1. Count(h, t) > 0 /\ Count(h, next_index(t)) = Count(h, t) - 1
  BY NextIndex DEF Count
<1>2. \A k \in 1 .. Count(h, t) - 1 : EntryAt(next_index(t), k) = EntryAt(t, k + 1)
  BY NextIndex DEF Count, EntryAt
<1> QED
  BY <1>1, <1>2

----------------------------------------------------------------------------
(* The invariant.                                                          *)

LEMMA KeysOfTerminal ==
  /\ \A k \in Letters, u \in BOOLEAN : Meaning(k, u) \in TtyKeys
  /\ \A k \in GreyKeys : Meaning(k, FALSE) \in TtyKeys
  /\ TtyKeys # {}
<1>1. \A k \in Letters, u \in BOOLEAN : Meaning(k, u) \in TtyKeys
  BY DEF TtyKeys, Meaning
<1>2. \A k \in GreyKeys : Meaning(k, FALSE) \in TtyKeys
  <2> DEFINE grey == {Meaning(g, FALSE) : g \in GreyKeys}
             chars == {Meaning(c, u) : c \in Letters, u \in BOOLEAN}
  <2>1. \A k \in GreyKeys : Meaning(k, FALSE) \in grey
    BY Zenon
  <2>2. TtyKeys = chars \cup grey
    BY DEF TtyKeys
  <2> HIDE DEF grey, chars
  <2> QED
    BY <2>1, <2>2
<1>3. PICK k \in Letters : TRUE
  BY Zenon DEF KeyboardAssumption
<1> QED
  BY <1>1, <1>2, <1>3, Zenon

\* Every step stores a key, takes one, or leaves the ring alone.
RingStep ==
  \/ \E key \in TtyKeys : tty_push_key(key) /\ UNCHANGED shift_pressed
  \/ Read
  \/ UNCHANGED ring /\ shift_pressed' \in BOOLEAN

LEMMA StepOfRing ==
  ASSUME RingInv, [KeyboardNext]_keyboardVars
  PROVE  RingStep
<1> USE DEF RingInv
<1>1. CASE \E k \in AllKeys : Press(k) \/ Release(k)
  BY <1>1 DEF Press, Release, decoder, RingStep
<1>2. CASE IrqPrefix
  BY <1>2 DEF IrqPrefix, RingStep
<1>3. CASE IrqExtended
  <2>1. UNCHANGED shift_pressed
    BY <1>3 DEF IrqExtended
  <2>2. CASE Head(wire).key \in GreyKeys /\ ~Head(wire).up
    <3>1. tty_push_key(Meaning(Head(wire).key, FALSE))
      BY <1>3, <2>2, Zenon DEF IrqExtended
    <3>2. Meaning(Head(wire).key, FALSE) \in TtyKeys
      BY <2>2, KeysOfTerminal, Zenon
    <3> QED
      BY <2>1, <3>1, <3>2, Zenon DEF RingStep
  <2>3. CASE ~(Head(wire).key \in GreyKeys /\ ~Head(wire).up)
    BY <1>3, <2>1, <2>3 DEF IrqExtended, RingStep
  <2> QED
    BY <2>2, <2>3, Zenon
<1>4. CASE IrqShift
  <2>1. shift_pressed' \in BOOLEAN
    BY <1>4, Zenon DEF IrqShift
  <2> QED
    BY <1>4, <2>1, Zenon DEF IrqShift, RingStep
<1>5. CASE IrqCharacter
  <2>1. tty_push_key(CharOf(Head(wire).key)) /\ UNCHANGED shift_pressed
    BY <1>5 DEF IrqCharacter, decoder
  <2>2. CharOf(Head(wire).key) \in TtyKeys
    BY <1>5, KeysOfTerminal, Zenon DEF IrqCharacter, CharOf
  <2> QED
    BY <2>1, <2>2, Zenon DEF RingStep
<1>6. CASE IrqIgnored
  BY <1>6 DEF IrqIgnored, decoder, RingStep
<1>7. CASE Read
  BY <1>7 DEF RingStep
<1>8. CASE UNCHANGED keyboardVars
  BY <1>8 DEF keyboardVars, decoder, RingStep
<1> QED
  BY <1>1, <1>2, <1>3, <1>4, <1>5, <1>6, <1>7, <1>8, Zenon DEF KeyboardNext

LEMMA StepRingInv ==
  ASSUME RingInv, RingStep
  PROVE  RingInv'
<1> USE DEF RingInv
<1>1. ASSUME NEW key \in TtyKeys, tty_push_key(key), UNCHANGED shift_pressed
      PROVE  RingInv'
  BY <1>1, NextIndex DEF tty_push_key
<1>2. CASE Read
  BY <1>2, NextIndex DEF Read, decoder
<1>3. CASE UNCHANGED ring /\ shift_pressed' \in BOOLEAN
  BY <1>3 DEF ring
<1> QED
  BY <1>1, <1>2, <1>3 DEF RingStep

\* For every set of keys and size of the ring: the indices stay inside it and
\* it holds keys of the terminal only.
THEOREM RingInvariant == KeyboardSpec => []RingInv
<1>1. KeyboardInit => RingInv
  BY KeysOfTerminal DEF KeyboardInit, RingInv
<1>2. RingInv /\ [KeyboardNext]_keyboardVars => RingInv'
  BY StepOfRing, StepRingInv
<1> QED
  BY <1>1, <1>2, PTL DEF KeyboardSpec

----------------------------------------------------------------------------
(* The ring implements a bounded FIFO queue.                               *)

QueuedShape ==
  /\ Queued \in Seq(TtyKeys) /\ Len(Queued) = Count(tty_head, tty_tail)
  /\ \A k \in 1 .. Count(tty_head, tty_tail) :
       Queued[k] = tty_buffer[EntryAt(tty_tail, k)]

LEMMA QueuedIsSeq ==
  ASSUME RingInv
  PROVE  QueuedShape
<1> DEFINE n == Count(tty_head, tty_tail)
<1>1. /\ tty_buffer \in [Slots -> TtyKeys] /\ tty_head \in Slots /\ tty_tail \in Slots
      /\ n \in 0 .. Size - 1
      /\ \A k \in 1 .. n : EntryAt(tty_tail, k) \in Slots
  BY Entries DEF RingInv
<1>2. (tty_head + Size - tty_tail) % Size = n
  <2>1. PICK x \in Nat : x = tty_head + Size - tty_tail /\ x < 2 * Size
    BY <1>1
  <2>2. x % Size = IF x < Size THEN x ELSE x - Size
    BY <2>1, Modulo
  <2> QED
    BY <1>1, <2>1, <2>2 DEF Count
<1>3. \A k \in 1 .. n : (tty_tail + k - 1) % Size = EntryAt(tty_tail, k)
  <2> HIDE DEF n
  <2> TAKE k \in 1 .. n
  <2>1. PICK x \in Nat : x = tty_tail + k - 1 /\ x < 2 * Size
    BY <1>1
  <2>2. x % Size = IF x < Size THEN x ELSE x - Size
    BY <2>1, Modulo
  <2>3. EntryAt(tty_tail, k) = IF x < Size THEN x ELSE x - Size
    BY <1>1, <2>1 DEF EntryAt
  <2> QED
    BY <2>1, <2>2, <2>3, Zenon
<1> HIDE DEF n
<1>4. /\ Queued \in [1 .. n -> TtyKeys]
      /\ \A k \in 1 .. n : Queued[k] = tty_buffer[EntryAt(tty_tail, k)]
  BY <1>1, <1>2, <1>3 DEF Queued
<1>5. Queued \in Seq(TtyKeys) /\ Len(Queued) = n
  BY <1>1, <1>4
<1> QED
  BY <1>4, <1>5 DEF QueuedShape, n

\* tty_push_key appends.
LEMMA PushPuts ==
  ASSUME RingInv, QueuedShape, QueuedShape', NEW key \in TtyKeys,
         tty_push_key(key), ~PushRefused
  PROVE  Len(Queued) < Size - 1 /\ Queued' = Append(Queued, key)
<1> DEFINE n == Count(tty_head, tty_tail)
<1>1. /\ tty_head' = next_index(tty_head) /\ tty_tail' = tty_tail
      /\ tty_head \in Slots /\ tty_tail \in Slots /\ next_index(tty_head) # tty_tail
      /\ \A i \in Slots : tty_buffer'[i] = IF i = tty_head THEN key ELSE tty_buffer[i]
  BY DEF tty_push_key, PushRefused, RingInv
<1>2. /\ Count(tty_head', tty_tail') = n + 1 /\ n < Size - 1 /\ n \in Nat
      /\ EntryAt(tty_tail, n + 1) = tty_head
      /\ \A k \in 1 .. n : EntryAt(tty_tail, k) \in Slots /\ EntryAt(tty_tail, k) # tty_head
  BY <1>1, CountAfterPush, Entries
<1>3. /\ Queued' \in Seq(TtyKeys) /\ Len(Queued') = n + 1
      /\ \A k \in 1 .. n + 1 : Queued'[k] = tty_buffer'[EntryAt(tty_tail, k)]
  BY <1>1, <1>2, Zenon DEF QueuedShape
<1>4. /\ Queued \in Seq(TtyKeys) /\ Len(Queued) = n
      /\ \A k \in 1 .. n : Queued[k] = tty_buffer[EntryAt(tty_tail, k)]
  BY Zenon DEF QueuedShape
<1> HIDE DEF n
<1>5. /\ Append(Queued, key) \in Seq(TtyKeys) /\ Len(Append(Queued, key)) = n + 1
      /\ \A k \in 1 .. n : Append(Queued, key)[k] = Queued[k]
      /\ Append(Queued, key)[n + 1] = key
  <2>1. \A q \in Seq(TtyKeys) :
          /\ Append(q, key) \in Seq(TtyKeys) /\ Len(Append(q, key)) = Len(q) + 1
          /\ \A k \in 1 .. Len(q) : Append(q, key)[k] = q[k]
          /\ Append(q, key)[Len(q) + 1] = key
    BY AppendProperties
  <2> QED
    BY <1>4, <2>1, Zenon
<1>6. \A k \in 1 .. n + 1 : Queued'[k] = Append(Queued, key)[k]
  <2> TAKE k \in 1 .. n + 1
  <2>1. k \in 1 .. n \/ k = n + 1
    BY <1>2
  <2>2. CASE k \in 1 .. n
    <3>1. Queued'[k] = tty_buffer'[EntryAt(tty_tail, k)]
      BY <1>3, Zenon
    <3>2. tty_buffer'[EntryAt(tty_tail, k)] = tty_buffer[EntryAt(tty_tail, k)]
      BY <1>1, <1>2, <2>2, Zenon
    <3>3. Append(Queued, key)[k] = tty_buffer[EntryAt(tty_tail, k)]
      BY <1>4, <1>5, <2>2, Zenon
    <3> QED
      BY <3>1, <3>2, <3>3, Zenon
  <2>3. CASE k = n + 1
    BY <1>1, <1>2, <1>3, <1>5, <2>3, Zenon
  <2> QED
    BY <2>1, <2>2, <2>3, Zenon
<1>7. Queued' = Append(Queued, key)
  BY <1>3, <1>5, <1>6, SeqEqual
<1> QED
  BY <1>2, <1>4, <1>7

\* tty_read_key_irq_disabled takes the first.
LEMMA ReadGets ==
  ASSUME RingInv, QueuedShape, QueuedShape', Read
  PROVE  Queued # <<>> /\ Queued' = Tail(Queued)
<1> DEFINE n == Count(tty_head, tty_tail)
<1>1. /\ tty_tail' = next_index(tty_tail) /\ tty_head' = tty_head /\ tty_buffer' = tty_buffer
      /\ tty_head \in Slots /\ tty_tail \in Slots /\ tty_tail # tty_head
  BY DEF Read, RingInv
<1>2. /\ n > 0 /\ n \in Nat /\ Count(tty_head', tty_tail') = n - 1
      /\ \A k \in 1 .. n - 1 : EntryAt(tty_tail', k) = EntryAt(tty_tail, k + 1)
  BY <1>1, CountAfterRead, Entries
<1>3. /\ Queued' \in Seq(TtyKeys) /\ Len(Queued') = n - 1
      /\ \A k \in 1 .. n - 1 : Queued'[k] = tty_buffer'[EntryAt(tty_tail', k)]
  BY <1>2, Zenon DEF QueuedShape
<1>4. /\ Queued \in Seq(TtyKeys) /\ Len(Queued) = n
      /\ \A k \in 1 .. n : Queued[k] = tty_buffer[EntryAt(tty_tail, k)]
  BY Zenon DEF QueuedShape
<1> HIDE DEF n
<1>5. Queued # <<>>
  BY <1>2, <1>4, EmptySeq
<1>6. /\ Tail(Queued) \in Seq(TtyKeys) /\ Len(Tail(Queued)) = n - 1
      /\ \A k \in 1 .. n - 1 : Tail(Queued)[k] = Queued[k + 1]
  BY <1>4, <1>5, HeadTailProperties
<1>7. \A k \in 1 .. n - 1 : Queued'[k] = Tail(Queued)[k]
  <2> TAKE k \in 1 .. n - 1
  <2>1. k + 1 \in 1 .. n
    BY <1>2
  <2>2. Queued'[k] = tty_buffer[EntryAt(tty_tail, k + 1)]
    BY <1>1, <1>2, <1>3, Zenon
  <2>3. Tail(Queued)[k] = tty_buffer[EntryAt(tty_tail, k + 1)]
    BY <1>4, <1>6, <2>1, Zenon
  <2> QED
    BY <2>2, <2>3, Zenon
<1> QED
  BY <1>3, <1>5, <1>6, <1>7, SeqEqual

\* For every set of keys and size of the ring: keys leave tty_buffer in the
\* order in which tty_push_key stored them, and a key that finds it full is
\* dropped without harm to those that wait.
THEOREM KeysKeepOrder == KeyboardSpec => RingIsFifo
<1>1. KeyboardInit => Fifo!FifoInit
  <2> SUFFICES ASSUME KeyboardInit PROVE Queued = <<>>
    BY DEF Fifo!FifoInit
  <2>1. tty_head = 0 /\ tty_tail = 0
    BY DEF KeyboardInit
  <2>2. (tty_head + Size - tty_tail) % Size = 0
    BY <2>1, Modulo
  <2> QED
    BY <2>2 DEF Queued
<1>2. RingInv /\ QueuedShape /\ QueuedShape' /\ [KeyboardNext]_keyboardVars
        => [Fifo!FifoNext]_Queued
  <2> SUFFICES ASSUME RingInv, QueuedShape, QueuedShape', RingStep
               PROVE  Fifo!FifoNext \/ UNCHANGED Queued
    BY StepOfRing
  <2>1. CASE UNCHANGED <<tty_buffer, tty_head, tty_tail>>
    BY <2>1 DEF Queued
  <2>2. ASSUME NEW key \in TtyKeys, tty_push_key(key)
        PROVE  Fifo!FifoNext \/ UNCHANGED Queued
    <3>1. CASE PushRefused
      BY <2>1, <2>2, <3>1 DEF tty_push_key
    <3>2. CASE ~PushRefused
      BY <2>2, <3>2, PushPuts DEF Fifo!FifoNext, Fifo!Put
    <3> QED
      BY <3>1, <3>2
  <2>3. CASE Read
    BY <2>3, ReadGets DEF Fifo!FifoNext, Fifo!Get
  <2> QED
    BY <2>1, <2>2, <2>3 DEF RingStep, ring
<1> QED
  BY <1>1, <1>2, QueuedIsSeq, RingInvariant, PTL DEF KeyboardSpec, RingIsFifo, Fifo!FifoSpec
============================================================================
