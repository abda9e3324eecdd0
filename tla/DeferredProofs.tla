--------------------------- MODULE DeferredProofs --------------------------
(***************************************************************************)
(* Proofs about DeferredWork for every number of strings, timer slots and  *)
(* ring entries: each string has one holder until it is freed or lost, and *)
(* timer_poll neither fires early nor loses an item that has room.         *)
(*                                                                         *)
(* OneHolder is not inductive: workqueue_schedule must find the entry at   *)
(* work_head empty, which is what Window says, and timer_poll must find    *)
(* its local list empty, which the program counter says (Counter).         *)
(***************************************************************************)
EXTENDS DeferredWork, SequenceTheorems, TLAPS

USE DeferredAssumption DEF Slots, Ring, Held

\* How far behind the tail a ring entry is.
Offset(i) == IF i >= work_tail THEN i - work_tail ELSE i - work_tail + WorkSize

\* The occupied ring entries are the work_count entries from the tail on, and
\* the head is the entry behind them.
Window ==
  /\ work_head = IF work_tail + work_count < WorkSize
                 THEN work_tail + work_count ELSE work_tail + work_count - WorkSize
  /\ \A i \in Ring : work_items[i] # None <=> Offset(i) < work_count

\* What the program counter says of the locals.
Counter ==
  /\ arg # None <=> pc = "insert"
  /\ pc # "post" => \A i \in Slots : due_items[i] = None
  /\ pc = "scan" => backlog = work_count
  /\ pc = "post" /\ backlog = 0 => \A i \in Slots : due_items[i] # None => work_count < i

InTimer(m) == \E i \in Slots : timer_items[i] = m
InDue(m) == \E i \in Slots : due_items[i] = m
InWork(m) == \E i \in Ring : work_items[i] = m

\* No place holds the string of another place.
Apart ==
  /\ \A i, j \in Slots : timer_items[i] = timer_items[j] => i = j \/ timer_items[i] = None
  /\ \A i, j \in Slots : due_items[i] = due_items[j] => i = j \/ due_items[i] = None
  /\ \A i, j \in Ring : work_items[i] = work_items[j] => i = j \/ work_items[i] = None
  /\ \A i, j \in Slots : timer_items[i] = due_items[j] => timer_items[i] = None
  /\ \A i \in Slots, j \in Ring : timer_items[i] = work_items[j] => timer_items[i] = None
  /\ \A i \in Slots, j \in Ring : due_items[i] = work_items[j] => due_items[i] = None
  /\ arg # None => ~InTimer(arg) /\ ~InDue(arg) /\ ~InWork(arg)

\* A string is allocated exactly while it is held or lost, and a lost string
\* is not held.
Accounted ==
  /\ \A m \in Msgs : m \in heap <=> m \in lost \/ InTimer(m) \/ InDue(m) \/ InWork(m) \/ arg = m
  /\ \A m \in lost : ~InTimer(m) /\ ~InDue(m) /\ ~InWork(m) /\ arg # m

\* The inductive invariant.
DeferredInv == TypeOK /\ Window /\ Counter /\ Apart /\ Accounted

----------------------------------------------------------------------------
LEMMA NextIndex ==
  ASSUME NEW i \in Ring
  PROVE  next_index(i) = IF i + 1 < WorkSize THEN i + 1 ELSE 0
<1>1. CASE i + 1 < WorkSize
  BY <1>1 DEF next_index
<1>2. CASE i + 1 = WorkSize
  BY <1>2 DEF next_index
<1> QED
  BY <1>1, <1>2

LEMMA InitDeferredInv == Init => DeferredInv
  BY DEF Init, DeferredInv, TypeOK, Window, Counter, Apart, Accounted, Offset,
     InTimer, InDue, InWork

\* A step that leaves every string where it is.
LEMMA QuietDeferredInv ==
  ASSUME DeferredInv, TypeOK', Counter',
         UNCHANGED <<timer_items, due_items, workVars, heap, lost, arg>>
  PROVE  DeferredInv'
  BY DEF DeferredInv, Window, Apart, Accounted, Offset, InTimer, InDue, InWork, workVars

\* workqueue_schedule puts a string that the ring does not hold into the
\* empty entry at its head.
LEMMA ScheduleWindow ==
  ASSUME DeferredInv, WorkHasRoom, NEW m \in Msgs, Schedule(m)
  PROVE  /\ work_items' \in [Ring -> Held] /\ work_head' \in Ring /\ work_tail' \in Ring
         /\ work_count' = work_count + 1 /\ work_count' \in 0 .. WorkSize
         /\ Window'
         /\ work_items[work_head] = None
         /\ \A i \in Ring : work_items'[i] = IF i = work_head THEN m ELSE work_items[i]
<1> USE DEF DeferredInv, TypeOK
<1>1. /\ work_items' \in [Ring -> Held] /\ work_count' = work_count + 1
      /\ work_count < WorkSize /\ work_tail' = work_tail
      /\ work_head' = IF work_head + 1 < WorkSize THEN work_head + 1 ELSE 0
      /\ \A i \in Ring : work_items'[i] = IF i = work_head THEN m ELSE work_items[i]
  BY NextIndex DEF WorkHasRoom, Schedule
<1>2. Offset(work_head) = work_count
  BY <1>1 DEF Window, Offset
<1>3. work_items[work_head] = None
  BY <1>1, <1>2 DEF Window
<1>4. \A i \in Ring : Offset(i) = work_count => i = work_head
  BY <1>1 DEF Window, Offset
<1>5. \A i \in Ring : Offset(i)' = Offset(i) /\ Offset(i) \in Int
  BY <1>1 DEF Offset
<1>6. \A i \in Ring : work_items'[i] # None <=> Offset(i)' < work_count'
  <2> TAKE i \in Ring
  <2>1. CASE i = work_head
    BY <1>1, <1>2, <1>5, <2>1
  <2>2. CASE i # work_head
    BY <1>1, <1>4, <1>5, <2>2, SMTT(30) DEF Window
  <2> QED
    BY <2>1, <2>2
<1>7. Window'
  BY <1>1, <1>6 DEF Window
<1> QED
  BY <1>1, <1>3, <1>7

LEMMA ScheduleApart ==
  ASSUME Apart, NEW m \in Msgs, NEW h \in Ring,
         \A k \in Ring : work_items'[k] = IF k = h THEN m ELSE work_items[k],
         \A j \in Slots : due_items'[j] \in {None, due_items[j]},
         UNCHANGED <<timer_items, arg>>,
         ~InTimer(m), ~InWork(m), ~InDue(m)', arg # m
  PROVE  Apart'
<1>1. \A k \in Ring : work_items[k] # m
  BY DEF InWork
<1>2. \A j \in Slots : timer_items[j] # m /\ due_items'[j] # m
  BY DEF InTimer, InDue
<1>3. \A i, j \in Ring : work_items'[i] = work_items'[j] => i = j \/ work_items'[i] = None
  BY <1>1 DEF Apart
<1>4. \A i \in Slots, j \in Ring : timer_items'[i] = work_items'[j] => timer_items'[i] = None
  BY <1>2 DEF Apart
<1>5. \A i \in Slots, j \in Ring : due_items'[i] = work_items'[j] => due_items'[i] = None
  BY <1>2 DEF Apart
<1>6. /\ \A i, j \in Slots : timer_items'[i] = timer_items'[j] => i = j \/ timer_items'[i] = None
      /\ \A i, j \in Slots : due_items'[i] = due_items'[j] => i = j \/ due_items'[i] = None
      /\ \A i, j \in Slots : timer_items'[i] = due_items'[j] => timer_items'[i] = None
  BY DEF Apart
<1>7. arg' # None => ~InTimer(arg)' /\ ~InDue(arg)' /\ ~InWork(arg)'
  BY DEF Apart, InTimer, InDue, InWork
<1> QED
  BY <1>3, <1>4, <1>5, <1>6, <1>7 DEF Apart

\* workqueue_pop empties the entry at the tail.
LEMMA PopWindow ==
  ASSUME DeferredInv, Pop
  PROVE  /\ work_items' \in [Ring -> Held] /\ work_head' \in Ring /\ work_tail' \in Ring
         /\ work_count' \in 0 .. WorkSize
         /\ Window'
         /\ work_items[work_tail] \in Msgs
         /\ \A i \in Ring : work_items'[i] = IF i = work_tail THEN None ELSE work_items[i]
<1> USE DEF DeferredInv, TypeOK
<1>1. /\ work_items' \in [Ring -> Held] /\ work_count' = work_count - 1
      /\ work_count > 0 /\ work_head' = work_head
      /\ work_tail' = IF work_tail + 1 < WorkSize THEN work_tail + 1 ELSE 0
      /\ \A i \in Ring : work_items'[i] = IF i = work_tail THEN None ELSE work_items[i]
  BY NextIndex DEF Pop
<1>2. work_items[work_tail] \in Msgs
  BY <1>1 DEF Window, Offset
<1>3. \A i \in Ring : Offset(i)' = IF i = work_tail THEN WorkSize - 1 ELSE Offset(i) - 1
  BY <1>1 DEF Offset
<1>4. \A i \in Ring : Offset(i) \in Int /\ (i # work_tail => Offset(i) > 0)
  BY DEF Offset
<1>5. \A i \in Ring : work_items'[i] # None <=> Offset(i)' < work_count'
  BY <1>1, <1>3, <1>4 DEF Window
<1>6. Window'
  BY <1>1, <1>5 DEF Window
<1> QED
  BY <1>1, <1>2, <1>6

----------------------------------------------------------------------------
(* timer_poll.                                                             *)

\* The scan moves the due items from the table to the empty local list.
LEMMA ScanDeferredInv ==
  ASSUME DeferredInv, Scan
  PROVE  DeferredInv'
<1> USE DEF DeferredInv, TypeOK
<1>1. /\ timer_items' \in [Slots -> Held] /\ due_items' \in [Slots -> Held]
      /\ due_in' \in [Slots -> -1 .. MaxDelay]
      /\ UNCHANGED <<work_items, work_head, work_tail, work_count, heap, lost, backlog, arg>>
      /\ pc = "scan" /\ pc' = "post" /\ arg = None
  BY DEF Scan, workVars, Counter
<1>2. \A i \in Slots : \/ timer_items'[i] = timer_items[i] /\ due_items'[i] = None
                       \/ timer_items'[i] = None /\ due_items'[i] = timer_items[i]
  BY DEF Scan
<1>3. \A i \in Slots : due_items[i] = None
  BY <1>1 DEF Counter
<1>4. TypeOK'
  BY <1>1 DEF Scan
<1>5. Window'
  BY <1>1 DEF Window, Offset
<1>6. Counter'
  BY <1>1 DEF Counter
<1>7. Apart'
  BY <1>1, <1>2, SMTT(30) DEF Apart, InTimer, InDue, InWork
<1>8. \A m \in Msgs : InTimer(m)' \/ InDue(m)' <=> InTimer(m)
  BY <1>2 DEF InTimer, InDue
<1>9. \A m : InWork(m)' <=> InWork(m)
  BY <1>1 DEF InWork
<1>10. \A m \in Msgs : ~InDue(m)
  BY <1>3 DEF InDue
<1>11. Accounted'
  BY <1>1, <1>8, <1>9, <1>10 DEF Accounted
<1> QED
  BY <1>4, <1>5, <1>6, <1>7, <1>11

\* One item of the local list goes to the ring, or is lost.
LEMMA PostDueDeferredInv ==
  ASSUME DeferredInv, PostDue
  PROVE  DeferredInv'
<1> USE DEF DeferredInv, TypeOK
<1>1. PICK i \in Slots :
        /\ due_items[i] # None
        /\ \A j \in 1 .. i - 1 : due_items[j] = None
        /\ due_items' = [due_items EXCEPT ![i] = None]
        /\ \/ WorkHasRoom /\ Schedule(due_items[i]) /\ UNCHANGED lost
           \/ ~WorkHasRoom /\ lost' = lost \cup {due_items[i]} /\ UNCHANGED workVars
  BY DEF PostDue
<1>2. PICK m \in Msgs : m = due_items[i]
  BY <1>1
<1>3. /\ due_items' \in [Slots -> Held]
      /\ \A j \in Slots : due_items'[j] = IF j = i THEN None ELSE due_items[j]
      /\ pc = "post" /\ arg = None
      /\ UNCHANGED <<timer_items, due_in, heap, backlog, pc, arg, delay, ran, stale>>
  BY <1>1 DEF PostDue, Counter
<1>4. ~InTimer(m) /\ ~InWork(m) /\ m \in heap /\ m \notin lost /\ ~InDue(m)'
  <2>1. InDue(m)
    BY <1>2 DEF InDue
  <2> QED
    BY <1>2, <1>3, <2>1, SMTT(30) DEF Apart, Accounted, InTimer, InWork, InDue
<1>5. \A x \in Msgs : x # m => (InDue(x)' <=> InDue(x))
  BY <1>2, <1>3 DEF InDue
<1>6. \A x : InTimer(x)' <=> InTimer(x)
  BY <1>3 DEF InTimer
<1>7. CASE WorkHasRoom /\ Schedule(m) /\ UNCHANGED lost
  <2>1. /\ work_items' \in [Ring -> Held] /\ work_head' \in Ring /\ work_tail' \in Ring
        /\ work_count' = work_count + 1 /\ work_count' \in 0 .. WorkSize
        /\ Window' /\ work_items[work_head] = None
        /\ \A k \in Ring : work_items'[k] = IF k = work_head THEN m ELSE work_items[k]
    BY <1>7, ScheduleWindow
  <2>2. TypeOK'
    BY <1>3, <1>7, <2>1
  <2>3. Counter'
    <3>1. \A j \in Slots : due_items'[j] # None => j > i
      BY <1>1, <1>3
    <3> QED
      BY <1>1, <1>3, <2>1, <3>1 DEF Counter
  <2>4. Apart'
    <3>1. arg # m /\ UNCHANGED <<timer_items, arg>>
      BY <1>3
    <3> QED
      BY <1>3, <1>4, <2>1, <3>1, ScheduleApart
  <2>5. InWork(m)' /\ \A x \in Msgs : x # m => (InWork(x)' <=> InWork(x))
    BY <2>1 DEF InWork
  <2>6. Accounted'
    BY <1>3, <1>4, <1>5, <1>6, <1>7, <2>5 DEF Accounted
  <2> QED
    BY <2>1, <2>2, <2>3, <2>4, <2>6
<1>8. CASE ~WorkHasRoom /\ lost' = lost \cup {m} /\ UNCHANGED workVars
  <2>1. UNCHANGED <<work_items, work_head, work_tail, work_count>>
    BY <1>8 DEF workVars
  <2>2. TypeOK' /\ Window'
    BY <1>3, <1>8, <2>1 DEF Window, Offset
  <2>3. Counter'
    BY <1>3, <2>1 DEF Counter
  <2>4. Apart'
    BY <1>3, <2>1, SMTT(30) DEF Apart, InTimer, InDue, InWork
  <2>5. \A x : InWork(x)' <=> InWork(x)
    BY <2>1 DEF InWork
  <2>6. Accounted'
    BY <1>3, <1>4, <1>5, <1>6, <1>8, <2>5 DEF Accounted
  <2> QED
    BY <2>2, <2>3, <2>4, <2>6
<1> QED
  BY <1>2, <1>1, <1>7, <1>8

----------------------------------------------------------------------------
(* The work queue and the shell.                                           *)

\* A work item that runs frees the string that the ring gave up.
LEMMA RunItemDeferredInv ==
  ASSUME DeferredInv, NEW limit \in 1 .. WorkSize, RunItem(limit), pc \in {"run", "wqrun"},
         UNCHANGED <<timerVars, lost, backlog, pc, arg, delay, stale>>
  PROVE  DeferredInv'
<1> USE DEF DeferredInv, TypeOK
<1>1. PICK m \in Msgs : m = work_items[work_tail]
  BY PopWindow DEF RunItem
<1>2. /\ UNCHANGED <<timer_items, due_in, due_items, lost, backlog, pc, arg, delay, stale>>
      /\ heap' = heap \ {m} /\ ran' = ran + 1 /\ ran < limit
  BY <1>1 DEF RunItem, timerVars
<1>3. /\ work_items' \in [Ring -> Held] /\ work_head' \in Ring /\ work_tail' \in Ring
      /\ work_count' \in 0 .. WorkSize /\ Window'
      /\ \A i \in Ring : work_items'[i] = IF i = work_tail THEN None ELSE work_items[i]
  BY PopWindow DEF RunItem
<1>4. TypeOK' /\ Counter'
  BY <1>2, <1>3 DEF Counter
<1>5. Apart'
  BY <1>2, <1>3, SMTT(30) DEF Apart, InTimer, InDue, InWork
<1>6. ~InTimer(m) /\ ~InDue(m) /\ arg # m /\ m \notin lost /\ ~InWork(m)'
  <2>1. InWork(m)
    BY <1>1 DEF InWork
  <2>2. ~InTimer(m) /\ ~InDue(m) /\ arg # m
    BY <1>1, <2>1 DEF Apart, InTimer, InDue
  <2>3. m \notin lost
    BY <2>1 DEF Accounted
  <2>4. ~InWork(m)'
    BY <1>1, <1>3, SMTT(30) DEF Apart, InWork
  <2> QED
    BY <2>2, <2>3, <2>4
<1>7. \A x \in Msgs : x # m => (InWork(x)' <=> InWork(x))
  BY <1>1, <1>3 DEF InWork
<1>8. \A x : (InTimer(x)' <=> InTimer(x)) /\ (InDue(x)' <=> InDue(x))
  BY <1>2 DEF InTimer, InDue
<1>9. Accounted'
  BY <1>2, <1>3, <1>6, <1>7, <1>8 DEF Accounted
<1> QED
  BY <1>3, <1>4, <1>5, <1>9

\* cmd_wqtest gives a new string to the ring.
LEMMA WqTestDeferredInv ==
  ASSUME DeferredInv, NEW m \in Msgs, WqTest(m)
  PROVE  DeferredInv'
<1> USE DEF DeferredInv, TypeOK
<1>1. /\ UNCHANGED <<timer_items, due_in, due_items, lost, backlog, pc, arg, delay, ran, stale>>
      /\ heap' = heap \cup {m} /\ m \notin heap /\ pc = "task"
  BY DEF WqTest, timerVars
<1>2. /\ work_items' \in [Ring -> Held] /\ work_head' \in Ring /\ work_tail' \in Ring
      /\ work_count' \in 0 .. WorkSize /\ Window' /\ work_items[work_head] = None
      /\ \A k \in Ring : work_items'[k] = IF k = work_head THEN m ELSE work_items[k]
  BY ScheduleWindow DEF WqTest
<1>3. TypeOK' /\ Counter'
  BY <1>1, <1>2 DEF Counter
<1>4. ~InTimer(m) /\ ~InDue(m) /\ ~InWork(m) /\ arg # m /\ m \notin lost
  BY <1>1 DEF Accounted
<1>5. Apart'
  <2>1. ~InDue(m)'
    BY <1>1, <1>4 DEF InDue
  <2> QED
    BY <1>1, <1>2, <1>4, <2>1, ScheduleApart
<1>6. InWork(m)' /\ \A x \in Msgs : x # m => (InWork(x)' <=> InWork(x))
  BY <1>2 DEF InWork
<1>7. \A x : (InTimer(x)' <=> InTimer(x)) /\ (InDue(x)' <=> InDue(x))
  BY <1>1 DEF InTimer, InDue
<1>8. Accounted'
  BY <1>1, <1>4, <1>6, <1>7 DEF Accounted
<1> QED
  BY <1>2, <1>3, <1>5, <1>8

\* cmd_delaytest makes a new string.
LEMMA DelayTestDeferredInv ==
  ASSUME DeferredInv, NEW m \in Msgs, NEW d \in 0 .. MaxDelay, DelayTest(m, d)
  PROVE  DeferredInv'
<1> USE DEF DeferredInv, TypeOK
<1>1. /\ UNCHANGED <<timer_items, due_in, due_items, work_items, work_head, work_tail, work_count>>
      /\ UNCHANGED <<lost, backlog, ran>>
      /\ heap' = heap \cup {m} /\ m \notin heap /\ arg' = m /\ arg = None
      /\ pc = "task" /\ pc' = "insert" /\ delay' = d /\ stale' = 0
  BY DEF DelayTest, timerVars, workVars, Counter
<1>2. TypeOK' /\ Counter' /\ Window'
  BY <1>1 DEF Counter, Window, Offset
<1>3. ~InTimer(m) /\ ~InDue(m) /\ ~InWork(m) /\ m \notin lost
  BY <1>1 DEF Accounted
<1>4. \A x : /\ InTimer(x)' <=> InTimer(x)
             /\ InDue(x)' <=> InDue(x)
             /\ InWork(x)' <=> InWork(x)
  BY <1>1 DEF InTimer, InDue, InWork
<1>5. Apart'
  BY <1>1, <1>3, <1>4 DEF Apart
<1>6. Accounted'
  BY <1>1, <1>3, <1>4 DEF Accounted
<1> QED
  BY <1>2, <1>5, <1>6

\* timer_schedule_ticks puts the string into a free slot, ...
LEMMA InsertTimerDeferredInv ==
  ASSUME DeferredInv, InsertTimer
  PROVE  DeferredInv'
<1> USE DEF DeferredInv, TypeOK
<1>1. PICK i \in Slots :
        /\ timer_items[i] = None
        /\ timer_items' = [timer_items EXCEPT ![i] = arg]
        /\ due_in' = [due_in EXCEPT ![i] = EffectiveDelay - stale]
  BY DEF InsertTimer
<1>2. /\ UNCHANGED <<due_items, work_items, work_head, work_tail, work_count, heap, lost>>
      /\ UNCHANGED <<backlog, ran>>
      /\ pc = "insert" /\ arg \in Msgs
      /\ pc' = "task" /\ arg' = None /\ delay' = 0 /\ stale' = 0
  BY DEF InsertTimer, workVars, Counter
<1>3. /\ timer_items' \in [Slots -> Held]
      /\ \A j \in Slots : timer_items'[j] = IF j = i THEN arg ELSE timer_items[j]
  BY <1>1
<1>4. due_in' \in [Slots -> -1 .. MaxDelay]
  <2>1. EffectiveDelay - stale \in -1 .. MaxDelay
    BY DEF EffectiveDelay
  <2> QED
    BY <1>1, <2>1
<1>5. TypeOK' /\ Counter' /\ Window'
  BY <1>2, <1>3, <1>4 DEF Counter, Window, Offset
<1>6. Apart'
  BY <1>2, <1>3, SMTT(30) DEF Apart, InTimer, InDue, InWork
<1>7. \A x \in Msgs : InTimer(x)' <=> InTimer(x) \/ x = arg
  BY <1>1, <1>2, <1>3 DEF InTimer
<1>8. \A x : (InWork(x)' <=> InWork(x)) /\ (InDue(x)' <=> InDue(x))
  BY <1>2 DEF InWork, InDue
<1>9. Accounted'
  BY <1>2, <1>7, <1>8 DEF Accounted
<1> QED
  BY <1>5, <1>6, <1>9

\* ... or cmd_delaytest frees it.
LEMMA InsertFullDeferredInv ==
  ASSUME DeferredInv, InsertFull
  PROVE  DeferredInv'
<1> USE DEF DeferredInv, TypeOK
<1>1. /\ UNCHANGED <<timer_items, due_in, due_items, work_items, work_head, work_tail, work_count>>
      /\ UNCHANGED <<lost, backlog, ran>>
      /\ heap' = heap \ {arg} /\ pc = "insert" /\ arg \in Msgs
      /\ pc' = "task" /\ arg' = None /\ delay' = 0 /\ stale' = 0
  BY DEF InsertFull, timerVars, workVars, Counter
<1>2. TypeOK' /\ Counter' /\ Window'
  BY <1>1 DEF Counter, Window, Offset
<1>3. Apart'
  BY <1>1 DEF Apart, InTimer, InDue, InWork
<1>4. \A x : /\ InTimer(x)' <=> InTimer(x)
             /\ InDue(x)' <=> InDue(x)
             /\ InWork(x)' <=> InWork(x)
  BY <1>1 DEF InTimer, InDue, InWork
<1>5. ~InTimer(arg) /\ ~InDue(arg) /\ ~InWork(arg) /\ arg \notin lost
  BY <1>1 DEF Apart, Accounted
<1>6. Accounted'
  BY <1>1, <1>4, <1>5 DEF Accounted
<1> QED
  BY <1>2, <1>3, <1>6

----------------------------------------------------------------------------
LEMMA NextDeferredInv ==
  ASSUME DeferredInv, [Next]_vars
  PROVE  DeferredInv'
<1> USE DEF DeferredInv
<1>1. CASE ReadNow \/ PollDone \/ RunPendingDone \/ TaskDone \/ WqRun \/ WqRunDone \/ OtherIrq
  <2>1. /\ UNCHANGED <<timer_items, due_in, due_items, work_items, work_head, work_tail>>
        /\ UNCHANGED <<work_count, heap, lost, arg, delay>>
    BY <1>1 DEF ReadNow, PollDone, RunPendingDone, TaskDone, WqRun, WqRunDone, OtherIrq,
       timerVars, workVars
  <2>2. TypeOK'
    BY <1>1, <2>1, SMTT(30)
    DEF TypeOK, ReadNow, PollDone, RunPendingDone, TaskDone, WqRun, WqRunDone,
       OtherIrq
  <2>3. Counter'
    BY <1>1, <2>1 DEF Counter, ReadNow, PollDone, RunPendingDone, TaskDone, WqRun, WqRunDone,
       OtherIrq
  <2> QED
    BY <2>1, <2>2, <2>3, QuietDeferredInv DEF workVars
<1>2. CASE Tick
  <2>1. /\ UNCHANGED <<timer_items, due_items, work_items, work_head, work_tail>>
        /\ UNCHANGED <<work_count, heap, lost, backlog, arg, delay, ran>>
        /\ pc' = IF pc = "hlt" THEN "poll" ELSE pc
    BY <1>2 DEF Tick, workVars
  <2>2. due_in' \in [Slots -> -1 .. MaxDelay] /\ stale' \in 0 .. 1
    BY <1>2 DEF Tick, TypeOK
  <2>3. TypeOK' /\ Counter'
    BY <2>1, <2>2 DEF TypeOK, Counter
  <2> QED
    BY <2>1, <2>3, QuietDeferredInv DEF workVars
<1>3. CASE UNCHANGED vars
  BY <1>3 DEF vars, timerVars, workVars, TypeOK, Window, Counter, Apart, Accounted, Offset,
     InTimer, InDue, InWork
<1>4. CASE RunPending
  BY <1>4, RunItemDeferredInv DEF RunPending
<1>5. CASE WqRunItem
  BY <1>5, RunItemDeferredInv DEF WqRunItem
<1>6. CASE Scan
  BY <1>6, ScanDeferredInv
<1>7. CASE PostDue
  BY <1>7, PostDueDeferredInv
<1>8. CASE \E m \in Msgs : WqTest(m)
  BY <1>8, WqTestDeferredInv
<1>9. CASE \E m \in Msgs, d \in 0 .. MaxDelay : DelayTest(m, d)
  BY <1>9, DelayTestDeferredInv
<1>10. CASE InsertTimer \/ InsertFull
  BY <1>10, InsertTimerDeferredInv, InsertFullDeferredInv
<1> QED
  BY <1>1, <1>2, <1>3, <1>4, <1>5, <1>6, <1>7, <1>8, <1>9, <1>10 DEF Next, MainLoop, Shell

\* DeferredInv is an inductive invariant.
THEOREM DeferredInvariant == Spec => []DeferredInv
<1> QED
  BY InitDeferredInv, NextDeferredInv, PTL DEF Spec

\* For any number of strings, slots and ring entries: every allocated string
\* has exactly one holder until it is freed or lost.
THEOREM StringsHaveOneHolder == Spec => []OneHolder
<1>1. DeferredInv => OneHolder
  <2> SUFFICES ASSUME DeferredInv PROVE OneHolder
    OBVIOUS
  <2>1. \A p \in Places :
          \/ \E i \in Slots : p = <<"timer", i>> /\ Holds(p) = timer_items[i]
          \/ \E i \in Slots : p = <<"due", i>> /\ Holds(p) = due_items[i]
          \/ \E i \in Ring : p = <<"work", i>> /\ Holds(p) = work_items[i]
          \/ p = <<"call", 0>> /\ Holds(p) = arg
    BY DEF Places, Holds
  <2>2. /\ \A i \in Slots : <<"timer", i>> \in Places /\ Holds(<<"timer", i>>) = timer_items[i]
        /\ \A i \in Slots : <<"due", i>> \in Places /\ Holds(<<"due", i>>) = due_items[i]
        /\ \A i \in Ring : <<"work", i>> \in Places /\ Holds(<<"work", i>>) = work_items[i]
        /\ <<"call", 0>> \in Places /\ Holds(<<"call", 0>>) = arg
    BY DEF Places, Holds
  <2>3. \A p, q \in Places : Holds(p) # None /\ Holds(p) = Holds(q) => p = q
    BY <2>1 DEF DeferredInv, Apart, InTimer, InDue, InWork
  <2>4. \A p \in Places : Holds(p) \notin lost
    BY <2>1 DEF DeferredInv, Accounted, TypeOK, InTimer, InDue, InWork
  <2>5. \A m \in Msgs : (\E p \in Places : Holds(p) = m)
                          <=> InTimer(m) \/ InDue(m) \/ InWork(m) \/ arg = m
    BY <2>1, <2>2 DEF InTimer, InDue, InWork
  <2>6. \A p \in Places : Holds(p) \in Held
    BY <2>1 DEF DeferredInv, TypeOK
  <2>7. heap = lost \cup ({Holds(p) : p \in Places} \ {None})
    <3>1. \A m \in Msgs : m \in heap <=> m \in lost \/ \E p \in Places : Holds(p) = m
      BY <2>5 DEF DeferredInv, Accounted
    <3>2. heap \subseteq Msgs /\ lost \subseteq Msgs
      BY DEF DeferredInv, TypeOK
    <3> QED
      BY <2>6, <3>1, <3>2
  <2> QED
    BY <2>3, <2>4, <2>7 DEF OneHolder, DeferredInv
<1> QED
  BY <1>1, DeferredInvariant, PTL

\* For any table sizes and delays: no timer fires early, and timer_poll loses
\* nothing when it found the work queue empty and the ring is large enough.
THEOREM PollIsExact == Spec => PollExact
<1> DEFINE Fires ==
             \A i \in Slots : timer_items[i] # None /\ timer_items'[i] = None => due_in[i] <= 0
           Keeps == TimerSlots <= WorkSize /\ lost' # lost => backlog > 0
<1>1. DeferredInv /\ [Next]_vars => [Fires /\ Keeps]_vars
  <2> SUFFICES ASSUME DeferredInv, Next PROVE Fires /\ Keeps
    OBVIOUS
  <2>1. CASE Scan
    BY <2>1 DEF Scan, IsDue, DeferredInv, TypeOK, workVars
  <2>2. CASE InsertTimer
    BY <2>2 DEF InsertTimer, DeferredInv, TypeOK, workVars
  <2>3. CASE PostDue
    <3>1. UNCHANGED timer_items
      BY <2>3 DEF PostDue
    <3>2. ASSUME TimerSlots <= WorkSize, lost' # lost, ~(backlog > 0) PROVE FALSE
      <4>1. PICK i \in Slots : due_items[i] # None /\ ~WorkHasRoom
        BY <2>3, <3>2 DEF PostDue
      <4>2. work_count < i
        BY <2>3, <3>2, <4>1 DEF PostDue, DeferredInv, Counter, TypeOK
      <4> QED
        BY <3>2, <4>1, <4>2 DEF WorkHasRoom, DeferredInv, TypeOK
    <3> QED
      BY <3>1, <3>2
  <2>4. CASE UNCHANGED <<timer_items, lost>>
    BY <2>4
  <2> QED
    BY <2>1, <2>2, <2>3, <2>4
    DEF Next, MainLoop, Shell, ReadNow, PollDone, RunPending, RunPendingDone, TaskDone,
        WqTest, DelayTest, InsertFull, WqRun, WqRunItem, WqRunDone, Tick, OtherIrq, timerVars
<1> QED
  BY <1>1, DeferredInvariant, PTL DEF Spec, PollExact

----------------------------------------------------------------------------
(* The ring implements a bounded FIFO queue.                               *)

LEMMA RingIndex ==
  ASSUME NEW t \in Ring, NEW k \in 0 .. WorkSize
  PROVE  (t + k) % WorkSize = IF t + k < WorkSize THEN t + k ELSE t + k - WorkSize
<1>1. CASE t + k < WorkSize
  BY <1>1
<1>2. CASE t + k >= WorkSize
  <2>1. PICK x \in Ring : t + k = x + WorkSize
    BY <1>2
  <2>2. (x + WorkSize) % WorkSize = x
    BY <2>1
  <2> QED
    BY <1>2, <2>1, <2>2
<1> QED
  BY <1>1, <1>2

\* The k-th occupied entry of a ring with this tail.
EntryAt(tail, k) ==
  IF tail + k - 1 < WorkSize THEN tail + k - 1 ELSE tail + k - 1 - WorkSize

QueueShape ==
  /\ Queue \in Seq(Msgs) /\ Len(Queue) = work_count
  /\ \A k \in 1 .. work_count : Queue[k] = work_items[EntryAt(work_tail, k)]

LEMMA QueueIsSeq ==
  ASSUME DeferredInv
  PROVE  QueueShape
<1> USE DEF DeferredInv, TypeOK
<1>1. \A k \in 1 .. work_count :
        /\ (work_tail + k - 1) % WorkSize = EntryAt(work_tail, k)
        /\ EntryAt(work_tail, k) \in Ring
  <2> TAKE k \in 1 .. work_count
  <2>1. k - 1 \in 0 .. WorkSize /\ work_tail + k - 1 = work_tail + (k - 1)
    OBVIOUS
  <2>2. (work_tail + (k - 1)) % WorkSize = EntryAt(work_tail, k)
    BY <2>1, RingIndex DEF EntryAt
  <2> QED
    BY <2>1, <2>2 DEF EntryAt
<1>2. \A k \in 1 .. work_count : work_items[EntryAt(work_tail, k)] \in Msgs
  <2> TAKE k \in 1 .. work_count
  <2>1. Offset(EntryAt(work_tail, k)) = k - 1
    BY DEF Offset, EntryAt
  <2> QED
    BY <1>1, <2>1 DEF Window
<1>3. /\ Queue \in [1 .. work_count -> Msgs]
      /\ \A k \in 1 .. work_count : Queue[k] = work_items[EntryAt(work_tail, k)]
  BY <1>1, <1>2 DEF Queue
<1>4. Queue \in Seq(Msgs) /\ Len(Queue) = work_count
  BY <1>3
<1> QED
  BY <1>3, <1>4 DEF QueueShape

\* The head is the entry behind the last one, and while there is room it is
\* none of those before it.
LEMMA HeadEntry ==
  ASSUME DeferredInv, work_count < WorkSize
  PROVE  /\ EntryAt(work_tail, work_count + 1) = work_head
         /\ \A k \in 1 .. work_count : /\ EntryAt(work_tail, k) \in Ring
                                       /\ EntryAt(work_tail, k) # work_head
<1>1. /\ work_tail \in Ring /\ work_count \in 0 .. WorkSize /\ WorkSize \in Nat
      /\ work_head = IF work_tail + work_count < WorkSize
                     THEN work_tail + work_count ELSE work_tail + work_count - WorkSize
  BY DeferredAssumption DEF DeferredInv, TypeOK, Window
<1> QED
  BY <1>1 DEF EntryAt, Ring

\* workqueue_schedule appends.
LEMMA SchedulePuts ==
  ASSUME DeferredInv, QueueShape, QueueShape', WorkHasRoom, NEW m \in Msgs, Schedule(m)
  PROVE  Len(Queue) < WorkSize /\ Queue' = Append(Queue, m)
<1> USE DEF DeferredInv, TypeOK
<1>1. /\ work_count' = work_count + 1 /\ work_count < WorkSize /\ work_tail' = work_tail
      /\ \A i \in Ring : work_items'[i] = IF i = work_head THEN m ELSE work_items[i]
  BY ScheduleWindow DEF WorkHasRoom, Schedule
<1>2. EntryAt(work_tail, work_count + 1) = work_head
  BY <1>1, HeadEntry, Zenon
<1>3. \A k \in 1 .. work_count : /\ EntryAt(work_tail, k) \in Ring
                                 /\ EntryAt(work_tail, k) # work_head
  BY <1>1, HeadEntry, Zenon
<1>4. \A k \in 1 .. work_count + 1 : Queue'[k] = work_items'[EntryAt(work_tail, k)]
  BY <1>1 DEF QueueShape, EntryAt
<1>5. \A k \in 1 .. work_count : Queue'[k] = Queue[k]
  <2> TAKE k \in 1 .. work_count
  <2>1. k \in 1 .. work_count + 1
    OBVIOUS
  <2>2. Queue'[k] = work_items'[EntryAt(work_tail, k)]
    BY <1>4, <2>1, Zenon
  <2>3. work_items'[EntryAt(work_tail, k)] = work_items[EntryAt(work_tail, k)]
    BY <1>1, <1>3, Zenon
  <2> QED
    BY <2>2, <2>3, Zenon DEF QueueShape
<1>6. Queue'[work_count + 1] = m
  <2>1. work_count + 1 \in 1 .. work_count + 1 /\ work_head \in Ring
    OBVIOUS
  <2>2. Queue'[work_count + 1] = work_items'[EntryAt(work_tail, work_count + 1)]
    BY <1>4, <2>1, Zenon
  <2> QED
    BY <1>1, <1>2, <2>1, <2>2, Zenon
<1>7. Queue \in Seq(Msgs) /\ Len(Queue) = work_count
  BY DEF QueueShape
<1>8. /\ Append(Queue, m) \in Seq(Msgs) /\ Len(Append(Queue, m)) = work_count + 1
      /\ \A k \in 1 .. work_count : Append(Queue, m)[k] = Queue[k]
      /\ Append(Queue, m)[work_count + 1] = m
  <2>1. /\ Append(Queue, m) \in Seq(Msgs) /\ Len(Append(Queue, m)) = Len(Queue) + 1
        /\ \A k \in 1 .. Len(Queue) : Append(Queue, m)[k] = Queue[k]
        /\ Append(Queue, m)[Len(Queue) + 1] = m
    <3> HIDE DEF DeferredInv, TypeOK
    <3>1. \A q \in Seq(Msgs) :
            /\ Append(q, m) \in Seq(Msgs) /\ Len(Append(q, m)) = Len(q) + 1
            /\ \A k \in 1 .. Len(q) : Append(q, m)[k] = q[k]
            /\ Append(q, m)[Len(q) + 1] = m
      BY AppendProperties
    <3> QED
      BY <1>7, <3>1, Zenon
  <2> QED
    BY <1>7, <2>1, Zenon
<1>9. Queue' \in Seq(Msgs) /\ Len(Queue') = work_count + 1
  BY <1>1 DEF QueueShape
<1>10. \A k \in 1 .. work_count + 1 : Queue'[k] = Append(Queue, m)[k]
  <2> TAKE k \in 1 .. work_count + 1
  <2>1. k \in 1 .. work_count \/ k = work_count + 1
    OBVIOUS
  <2>2. CASE k \in 1 .. work_count
    BY <1>5, <1>8, <2>2, Zenon
  <2>3. CASE k = work_count + 1
    BY <1>6, <1>8, <2>3, Zenon
  <2> QED
    BY <2>1, <2>2, <2>3, Zenon
<1>11. Queue' = Append(Queue, m)
  BY <1>8, <1>9, <1>10, SeqEqual
<1> QED
  BY <1>1, <1>11 DEF QueueShape

\* workqueue_pop takes the first.
LEMMA PopGets ==
  ASSUME DeferredInv, QueueShape, QueueShape', Pop
  PROVE  Queue # <<>> /\ Queue' = Tail(Queue)
<1> USE DEF DeferredInv, TypeOK
<1>1. /\ work_count' = work_count - 1 /\ work_count > 0
      /\ work_tail' = IF work_tail + 1 < WorkSize THEN work_tail + 1 ELSE 0
      /\ \A i \in Ring : work_items'[i] = IF i = work_tail THEN None ELSE work_items[i]
  BY NextIndex DEF Pop
<1>2. Queue # <<>>
  BY <1>1, EmptySeq DEF QueueShape
<1>3. \A k \in 1 .. work_count - 1 : /\ EntryAt(work_tail', k) = EntryAt(work_tail, k + 1)
                                     /\ EntryAt(work_tail, k + 1) \in Ring
                                     /\ EntryAt(work_tail, k + 1) # work_tail
  BY <1>1 DEF EntryAt
<1>4. \A k \in 1 .. work_count - 1 : Queue'[k] = work_items'[EntryAt(work_tail', k)]
  BY <1>1 DEF QueueShape, EntryAt
<1>5. \A k \in 1 .. work_count - 1 : Queue'[k] = Queue[k + 1]
  <2> TAKE k \in 1 .. work_count - 1
  <2>1. k + 1 \in 1 .. work_count
    OBVIOUS
  <2>2. Queue'[k] = work_items'[EntryAt(work_tail, k + 1)]
    BY <1>3, <1>4, Zenon
  <2>3. work_items'[EntryAt(work_tail, k + 1)] = work_items[EntryAt(work_tail, k + 1)]
    BY <1>1, <1>3, Zenon
  <2> QED
    BY <2>1, <2>2, <2>3, Zenon DEF QueueShape
<1>6. /\ Tail(Queue) \in Seq(Msgs) /\ Len(Tail(Queue)) = work_count - 1
      /\ \A k \in 1 .. work_count - 1 : Tail(Queue)[k] = Queue[k + 1]
  BY <1>2, HeadTailProperties DEF QueueShape
<1>7. Queue' \in Seq(Msgs) /\ Len(Queue') = work_count - 1
  BY <1>1 DEF QueueShape
<1>8. Queue' = Tail(Queue)
  BY <1>5, <1>6, <1>7, SeqEqual
<1> QED
  BY <1>2, <1>8

\* For any ring size and number of strings: work runs in the order in which
\* workqueue_schedule took it.
THEOREM WorkRunsInOrder == Spec => WorkIsFifo
<1>1. Init => Fifo!FifoInit
  BY DEF Init, Fifo!FifoInit, Queue
<1>2. DeferredInv /\ QueueShape /\ QueueShape' /\ [Next]_vars => [Fifo!FifoNext]_Queue
  <2> SUFFICES ASSUME DeferredInv, QueueShape, QueueShape', [Next]_vars
               PROVE  Fifo!FifoNext \/ UNCHANGED Queue
    OBVIOUS
  <2>1. CASE UNCHANGED workVars
    BY <2>1 DEF workVars, Queue
  <2>2. ASSUME NEW m \in Msgs, WorkHasRoom, Schedule(m) PROVE Fifo!FifoNext
    BY <2>2, SchedulePuts DEF Fifo!FifoNext, Fifo!Put
  <2>3. CASE Pop
    BY <2>3, PopGets DEF Fifo!FifoNext, Fifo!Get
  <2>4. CASE PostDue
    <3>1. PICK i \in Slots : /\ due_items[i] # None
                             /\ \/ WorkHasRoom /\ Schedule(due_items[i])
                                \/ UNCHANGED workVars
      BY <2>4 DEF PostDue
    <3>2. due_items[i] \in Msgs
      BY <3>1 DEF DeferredInv, TypeOK
    <3> QED
      BY <2>1, <2>2, <3>1, <3>2
  <2>5. CASE \E m \in Msgs : WqTest(m)
    BY <2>2, <2>5 DEF WqTest
  <2>6. CASE RunPending \/ WqRunItem
    BY <2>3, <2>6 DEF RunPending, WqRunItem, RunItem
  <2> QED
    BY <2>1, <2>4, <2>5, <2>6
    DEF Next, MainLoop, Shell, ReadNow, Scan, PollDone, RunPendingDone, TaskDone, DelayTest,
        InsertTimer, InsertFull, WqRun, WqRunDone, Tick, OtherIrq, vars
<1> QED
  BY <1>1, <1>2, QueueIsSeq, DeferredInvariant, PTL DEF Spec, WorkIsFifo, Fifo!FifoSpec
============================================================================
