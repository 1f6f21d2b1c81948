-------------------------- MODULE Scheduler_proofs --------------------------
(***************************************************************************)
(* The scheduler's bookkeeping and its clock, for every set of names, any  *)
(* delays, any round of millis() and any pauses between its readings, and  *)
(* that it implements Timers.                                              *)
(***************************************************************************)
EXTENDS Scheduler, FiniteSetTheorems, TLAPS

(***************************************************************************)
(* Arithmetic of the wrapping clock.                                       *)
(***************************************************************************)
LEMMA ModType == ASSUME NEW V \in Nat \ {0}, NEW a \in Int
                 PROVE  a % V \in 0 .. V - 1
OBVIOUS

LEMMA ModRound == ASSUME NEW V \in Nat \ {0}, NEW a \in Int
                  PROVE  \E q \in Int : a % V = a - q * V
<1>1. a \div V \in Int /\ a % V = a - (a \div V) * V
  OBVIOUS
<1>2. QED BY <1>1

LEMMA OneRound == ASSUME NEW V \in Nat \ {0}, NEW q \in Int, q >= 1
                  PROVE  q * V >= V
OBVIOUS

LEMMA Distribute == ASSUME NEW V \in Int, NEW p \in Int, NEW q \in Int
                    PROVE  /\ (p - q) * V = p * V - q * V
                           /\ (p + q) * V = p * V + q * V
                           /\ p * V \in Int
OBVIOUS

\* A difference of clock readings never exceeds the time that has really passed.
LEMMA SubBelow == ASSUME NEW V \in Nat \ {0}, NEW a \in Int, NEW p \in Int,
                         a + p * V >= 0
                  PROVE  a % V <= a + p * V
<1>1. PICK q \in Int : a % V = a - q * V
  BY ModRound
<1>2. a % V \in 0 .. V - 1
  BY ModType
<1>3. DEFINE r == p + q
<1>4. (p + q) * V = p * V + q * V /\ p * V \in Int /\ q * V \in Int
  BY Distribute
<1>5. a + p * V = (a % V) + r * V
  BY <1>1, <1>2, <1>4
<1>6. CASE r >= 0
  <2>1. r * V >= 0
    BY <1>6
  <2>2. QED BY <2>1, <1>5, <1>2, <1>4
<1>7. CASE r < 0
  <2>1. (-r) * V >= V
    BY OneRound, <1>7
  <2>2. r * V <= -V
    BY <2>1
  <2>3. QED BY <2>2, <1>5, <1>2, <1>4
<1>8. QED BY <1>6, <1>7

LEMMA Multiples == ASSUME NEW a \in Nat, NEW b \in Nat \ {0}
                   PROVE  (a \div b) * b \in Nat /\ (a \div b) * b <= a
OBVIOUS

-----------------------------------------------------------------------------
(***************************************************************************)
(* The inductive invariant.                                                *)
(***************************************************************************)
\* a and b are the same reading of the clock.
SameReading(a, b) == \E q \in Int : a = b + q * Wrap

\* The time since last_execution, whatever round that was in.
Elapsed(i) == item[i].interval - item[i].wait

\* An item's last execution is past, and for the items that a call looks at it was
\* past already when the call read the clock.
TimesTold ==
    /\ \A i \in Used : /\ Elapsed(i) >= 0
                        /\ SameReading(millis - item[i].last_execution, Elapsed(i))
    /\ pc # "idle" => /\ SameReading(millis - now, gap)
                      /\ \A i \in items : Elapsed(i) >= gap

OneLive == \A n \in Name \ Unnamed :
    IF n \in wanted THEN \E i \in Id : Live(n) = {i} ELSE Live(n) = {}

NoneRuns == pc # "f" => running = 0

IInv == /\ TypeOK
        /\ NoneRuns
        /\ RemovalsCounted
        /\ OneLive
        /\ TimesTold
        /\ NeverEarly

LEMMA Sizes == /\ Wrap \in Nat \ {0} /\ Majors \in Nat \ {0}
               /\ MaxItems \in Nat \ {0} /\ MaxGap \in Nat /\ DontRun \in 0 .. Wrap - 1
               /\ Id \subseteq Nat \ {0}
BY ClockAssumption, SizeAssumption DEF Id, DontRun

LEMMA IdFinite == ASSUME NEW S \in SUBSET Id
                  PROVE  IsFiniteSet(S)
<1>1. IsFiniteSet(1 .. MaxItems)
  BY Sizes, FS_Interval
<1>2. QED BY <1>1, FS_Subset DEF Id

LEMMA ReadClockTypes == ASSUME TypeOK, ReadClock
                        PROVE  /\ last_millis' \in 0 .. Wrap - 1
                               /\ millis_major' \in 0 .. Majors - 1
<1>1. (millis_major + 1) % Majors \in 0 .. Majors - 1
  BY Sizes, ModType DEF TypeOK
<1>2. QED BY <1>1 DEF TypeOK, ReadClock

\* set_timeout and set_interval add an item whose last execution is past.
LEMMA SetItemSets ==
    ASSUME TypeOK, NEW n \in Name, SetItem(n)
    PROVE  \E d \in 0 .. Wrap - 1, last \in 0 .. Wrap - 1,
              major \in 0 .. Majors - 1, wait \in Int :
               /\ Set(n, d, last, major, wait)
               /\ d - wait >= 0
               /\ SameReading(millis - last, d - wait)
<1>m. millis \in 0 .. Wrap - 1
  BY DEF TypeOK
<1>r. ReadClock
  BY DEF SetItem, set_timeout, set_interval, Set
<1>j. millis_major' \in 0 .. Majors - 1
  BY <1>r, ReadClockTypes
<1>1. CASE \E d \in Timeouts : set_timeout(n, d)
  <2>1. PICK d \in Timeouts : set_timeout(n, d)
    BY <1>1
  <2>2. d \in 0 .. Wrap - 1
    BY ClockAssumption
  <2>3. Set(n, d, millis, millis_major', d)
    BY <2>1 DEF set_timeout
  <2>4. SameReading(millis - millis, d - d) /\ d - d >= 0 /\ d \in Int
    <3>1. millis - millis = (d - d) + 0 * Wrap
      BY <1>m, <2>2, Sizes
    <3>2. QED BY <3>1, <2>2 DEF SameReading
  <2>5. QED BY <2>2, <2>3, <2>4, <1>m, <1>j
<1>2. CASE \E d \in Intervals : set_interval(n, d)
  <2>1. PICK d \in Intervals : set_interval(n, d)
    BY <1>2
  <2>2. d \in 0 .. Wrap - 1
    BY ClockAssumption
  <2> DEFINE R == 0 .. (IF d \in {0, DontRun} THEN 0 ELSE d - 1)
  <2>3. PICK offset \in {r \div 2 : r \in R} :
            Set(n, d, Sub(millis, offset + d),
                IF Sub(millis, offset + d) > millis
                THEN (millis_major' - 1) % Majors ELSE millis_major', -offset)
    BY <2>1 DEF set_interval
  <2>4. offset \in Nat
    <3>1. PICK r \in R : offset = r \div 2
      OBVIOUS
    <3>2. r \in Nat
      OBVIOUS
    <3>3. QED BY <3>1, <3>2
  <2> DEFINE last == Sub(millis, offset + d)
             major == IF last > millis THEN (millis_major' - 1) % Majors
                      ELSE millis_major'
  <2>5. last \in 0 .. Wrap - 1
    BY <1>m, <2>2, <2>4, Sizes, ModType DEF Sub
  <2>6. \A a \in Int : a % Majors \in 0 .. Majors - 1
    BY Sizes, ModType
  <2>7. major \in 0 .. Majors - 1
    <3>1. millis_major' - 1 \in Int
      BY <1>j, Sizes
    <3>2. (millis_major' - 1) % Majors \in 0 .. Majors - 1
      BY <3>1, <2>6
    <3> HIDE DEF last
    <3>3. QED BY <3>2, <1>j
  <2>8. SameReading(millis - last, d - (-offset))
    <3>0. \A a \in Int : \E q \in Int : a % Wrap = a - q * Wrap
      BY Sizes, ModRound
    <3>1. PICK q \in Int : last = (millis - (offset + d)) - q * Wrap
      <4>1. millis - (offset + d) \in Int
        BY <1>m, <2>2, <2>4
      <4>2. QED BY <4>1, <3>0 DEF Sub
    <3>2. q * Wrap \in Int
      BY Sizes, Distribute
    <3>3. millis - last = (d - (-offset)) + q * Wrap
      BY <3>1, <3>2, <1>m, <2>2, <2>4
    <3>4. QED BY <3>3 DEF SameReading
  <2>9. Set(n, d, last, major, -offset)
    BY <2>3
  <2>10. d - (-offset) >= 0 /\ -offset \in Int
    BY <2>2, <2>4
  <2> HIDE DEF last, major
  <2>11. QED BY <2>2, <2>5, <2>7, <2>8, <2>9, <2>10
<1>3. QED BY <1>1, <1>2 DEF SetItem

\* The number of a new item is not that of one in use, nor of the one that runs.
LEMMA FreshIsFree == ASSUME Id \ (Used \cup {running}) # {}
                     PROVE  Fresh \in Id /\ Fresh \notin Used /\ Fresh # running
BY DEF Fresh

(***************************************************************************)
(* Types.                                                                  *)
(***************************************************************************)
\* Items that are dropped are no longer used, and those that stay keep their types.
LEMMA DroppedTypes ==
    ASSUME TypeOK, NEW S \in SUBSET Id,
           item' = Drop(S), Used' \subseteq Used, Used \ S = Used'
    PROVE  /\ DOMAIN item' = Id
           /\ \A i \in Id : item'[i] \in (IF i \in Used' THEN Entry ELSE {Free})
BY DEF TypeOK, Drop

LEMMA FlaggedTypes ==
    ASSUME TypeOK, NEW n
    PROVE  \A i \in Id : /\ Flagged(n)[i] \in (IF i \in Used THEN Entry ELSE {Free})
                         /\ i \notin Used => Flagged(n)[i] = item[i]
BY DEF TypeOK, Flagged, Cancelled, Entry, Matches

LEMMA CountType == ASSUME TypeOK, NEW n
                   PROVE  RemoveCount(n) \in Nat
<1> DEFINE S == {i \in items : Matches(i, n) /\ ~item[i].remove}
<1>1. S \in SUBSET Id
  BY DEF TypeOK
<1>2. Cardinality(S) \in Nat
  BY <1>1, IdFinite, FS_CardinalityType
<1>3. QED BY <1>2 DEF RemoveCount, TypeOK

\* How far an interval moves on: by no more than the time that has passed.
Step(i) == IF item[i].interval = 0 THEN 0
           ELSE (Sub(now, item[i].last_execution) \div item[i].interval)
                * item[i].interval

LEMMA StepType ==
    ASSUME TypeOK, NEW i \in Used
    PROVE  Step(i) \in Nat /\ Step(i) <= Sub(now, item[i].last_execution)
<1>1. /\ item[i] \in Entry /\ now \in 0 .. Wrap - 1 /\ item[i].interval \in Nat
      /\ item[i].last_execution \in 0 .. Wrap - 1
  BY Sizes DEF TypeOK, Used, Entry
<1>2. Sub(now, item[i].last_execution) \in Nat
  <2>1. now - item[i].last_execution \in Int
    BY <1>1
  <2>2. QED BY <2>1, Sizes, ModType DEF Sub
<1>3. QED BY <1>1, <1>2, Multiples DEF Step

LEMMA AdvancedIs ==
    ASSUME TypeOK, NEW i \in Used
    PROVE  /\ Advanced(i) \in Entry
           /\ Advanced(i).name = item[i].name /\ Advanced(i).remove = item[i].remove
           /\ Advanced(i).interval = item[i].interval
           /\ Advanced(i).wait = item[i].wait + Step(i)
           /\ Advanced(i).last_execution = (item[i].last_execution + Step(i)) % Wrap
<1> DEFINE last == (item[i].last_execution + Step(i)) % Wrap
           major == IF last < item[i].last_execution
                    THEN (item[i].last_execution_major + 1) % Majors
                    ELSE item[i].last_execution_major
<1>1. item[i] \in Entry
  BY DEF TypeOK, Used
<1>2. Step(i) \in Nat
  BY StepType
<1>3. last \in 0 .. Wrap - 1
  <2>1. item[i].last_execution + Step(i) \in Int
    BY <1>1, <1>2, Sizes DEF Entry
  <2>2. QED BY <2>1, Sizes, ModType
<1>4. major \in 0 .. Majors - 1
  <2>1. item[i].last_execution_major + 1 \in Int
    BY <1>1, Sizes DEF Entry
  <2>2. (item[i].last_execution_major + 1) % Majors \in 0 .. Majors - 1
    BY <2>1, Sizes, ModType
  <2> HIDE DEF last
  <2>3. QED BY <2>2, <1>1 DEF Entry
<1>5. Advanced(i) = [item[i] EXCEPT !.last_execution = last, !.wait = @ + Step(i),
                                    !.last_execution_major = major]
  BY DEF Advanced, Step
<1> HIDE DEF last, major
<1>6. item[i].wait + Step(i) \in Int
  BY <1>1, <1>2 DEF Entry
<1>7. Advanced(i) \in Entry
  BY <1>1, <1>3, <1>4, <1>5, <1>6 DEF Entry
<1>8. QED BY <1>1, <1>5, <1>7 DEF Entry, last

LEMMA TypeStep == ASSUME IInv, [Next]_vars
                  PROVE  TypeOK'
<1> USE DEF IInv
<1>s. Wrap \in Nat \ {0} /\ Majors \in Nat \ {0} /\ MaxGap \in Nat /\ 0 \notin Id
  BY Sizes
<1>1. CASE CallStart
  <2>1. /\ last_millis' \in 0 .. Wrap - 1 /\ millis_major' \in 0 .. Majors - 1
        /\ millis' = millis /\ now' = millis /\ gap' = 0 /\ running' = 0 /\ pc' = "run"
        /\ failed' = failed /\ wanted' = wanted /\ to_add' = {}
    BY <1>1, ReadClockTypes DEF CallStart, NoneRuns
  <2>2. to_remove' \in Nat /\ items' \subseteq Used
    BY <1>1 DEF CallStart, TypeOK, Used
  <2>3. DOMAIN item' = Id /\ \A i \in Id : item'[i] \in (IF i \in Used' THEN Entry ELSE {Free})
    <3>1. CASE to_remove <= MaxDeleted
      <4>1. item' = Drop(Removed(to_add)) /\ items' = items \cup (to_add \ Removed(to_add))
        BY <1>1, <3>1, SizeAssumption DEF CallStart, TypeOK
      <4>2. Used' \subseteq Used /\ Used \ Removed(to_add) = Used'
        BY <4>1, <2>1 DEF Used, TypeOK, Removed
      <4>3. Removed(to_add) \in SUBSET Id
        BY DEF Removed, TypeOK
      <4>4. QED BY <4>1, <4>2, <4>3, DroppedTypes
    <3>2. CASE to_remove > MaxDeleted
      <4>1. /\ item' = Drop(Removed(Used))
            /\ items' = (items \cup (to_add \ Removed(to_add))) \ Removed(items)
        BY <1>1, <3>2, SizeAssumption DEF CallStart, TypeOK
      <4>2. Used' \subseteq Used /\ Used \ Removed(Used) = Used'
        BY <4>1, <2>1 DEF Used, TypeOK, Removed
      <4>3. Removed(Used) \in SUBSET Id
        BY DEF Removed, TypeOK, Used
      <4>4. QED BY <4>1, <4>2, <4>3, DroppedTypes
    <3>3. QED BY <3>1, <3>2, SizeAssumption DEF TypeOK
  <2>4. QED BY <1>s, <2>1, <2>2, <2>3 DEF TypeOK, Used
<1>2. CASE ItemDone
  <2>1. /\ running \in items /\ running \in Id /\ pc' = "run" /\ running' = 0
        /\ items' = items \ {running}
        /\ UNCHANGED <<millis, last_millis, millis_major, failed, now, gap, wanted>>
    BY <1>2 DEF ItemDone, Pop, TypeOK, clock
  <2>2. CASE item' = Drop({running}) /\ to_add' = to_add
    <3>1. Used' \subseteq Used /\ Used \ {running} = Used'
      BY <2>1, <2>2 DEF Used, TypeOK
    <3>2. DOMAIN item' = Id /\ \A i \in Id : item'[i] \in (IF i \in Used' THEN Entry ELSE {Free})
      BY <3>1, <2>1, <2>2, DroppedTypes
    <3>3. to_remove' \in Nat
      <4>1. CASE ~item[running].remove
        BY <4>1, <1>2 DEF ItemDone, TypeOK
      <4>2. CASE item[running].remove
        <5>1. running \in Removed(items) /\ Removed(items) \in SUBSET Id
          BY <4>2, <2>1 DEF Removed, TypeOK
        <5>2. Cardinality(Removed(items)) \in Nat /\ Cardinality(Removed(items)) # 0
          BY <5>1, IdFinite, FS_CardinalityType, FS_EmptySet
        <5>3. to_remove' = to_remove - 1
          BY <4>2, <1>2 DEF ItemDone
        <5>4. QED BY <5>2, <5>3 DEF RemovalsCounted
      <4>3. QED BY <4>1, <4>2
    <3>4. QED BY <1>s, <2>1, <2>2, <3>2, <3>3 DEF TypeOK
  <2>3. CASE /\ item' = [item EXCEPT ![running] = Advanced(running)]
             /\ to_add' = to_add \cup {running} /\ to_remove' = to_remove
    <3>1. Used' = Used
      BY <2>1, <2>3 DEF Used
    <3>3. Advanced(running) \in Entry
      BY <2>1, AdvancedIs DEF Used
    <3>4. \A i \in Id : item'[i] \in (IF i \in Used' THEN Entry ELSE {Free})
      <4>1. \A i \in Id : item[i] \in (IF i \in Used THEN Entry ELSE {Free})
        BY DEF TypeOK
      <4>2. running \in Used
        BY <2>1 DEF Used
      <4>3. item' = [item EXCEPT ![running] = Advanced(running)]
        BY <2>3
      <4>4. DOMAIN item = Id
        BY DEF TypeOK
      <4>5. QED BY <4>1, <4>2, <4>3, <4>4, <3>1, <3>3
    <3>5. QED BY <1>s, <2>1, <2>3, <3>4 DEF TypeOK
  <2>4. QED BY <2>2, <2>3, <1>2 DEF ItemDone
<1>3. CASE CallEnd
  <2>1. /\ pc' = "idle" /\ to_add' = {} /\ now' = 0 /\ running = 0
        /\ items' = items \cup (to_add \ Removed(to_add)) /\ item' = Drop(Removed(to_add))
        /\ UNCHANGED <<millis, last_millis, millis_major, to_remove, failed, running,
                       gap, wanted>>
    BY <1>3 DEF CallEnd, NoneRuns, clock
  <2>2. Used' \subseteq Used /\ Used \ Removed(to_add) = Used'
    BY <2>1 DEF Used, TypeOK, Removed
  <2>3. Removed(to_add) \in SUBSET Id
    BY DEF Removed, TypeOK
  <2>4. DOMAIN item' = Id /\ \A i \in Id : item'[i] \in (IF i \in Used' THEN Entry ELSE {Free})
    BY <2>1, <2>2, <2>3, DroppedTypes
  <2>5. items' \subseteq Id
    BY <2>1 DEF TypeOK
  <2>6. QED BY <1>s, <2>1, <2>4, <2>5 DEF TypeOK
<1>4. CASE \E i \in items : CleanupHead(i) \/ RunFailed(i)
  <2>1. PICK i \in items : CleanupHead(i) \/ RunFailed(i)
    BY <1>4
  <2>2. /\ items' = items \ {i} /\ item' = Drop({i}) /\ pc \in {"idle", "run"}
        /\ wanted' \subseteq wanted
        /\ UNCHANGED <<millis, last_millis, millis_major, to_add, failed, pc, now,
                       running, gap>>
    BY <2>1 DEF CleanupHead, RunFailed, Pop, clock
  <2>3. Used' \subseteq Used /\ Used \ {i} = Used' /\ i \in Id
    BY <2>2 DEF Used, TypeOK
  <2>4. DOMAIN item' = Id /\ \A j \in Id : item'[j] \in (IF j \in Used' THEN Entry ELSE {Free})
    BY <2>2, <2>3, DroppedTypes
  <2>5. to_remove' \in Nat
    <3>1. CASE CleanupHead(i)
      <4>1. item[i].remove /\ to_remove' = to_remove - 1
        BY <3>1 DEF CleanupHead
      <4>2. i \in Removed(items) /\ Removed(items) \in SUBSET Id
        BY <4>1 DEF Removed, TypeOK
      <4>3. Cardinality(Removed(items)) \in Nat /\ Cardinality(Removed(items)) # 0
        BY <4>2, IdFinite, FS_CardinalityType, FS_EmptySet
      <4>4. QED BY <4>1, <4>3 DEF RemovalsCounted
    <3>2. CASE RunFailed(i)
      BY <3>2 DEF RunFailed, TypeOK
    <3>3. QED BY <3>1, <3>2, <2>1
  <2>6. QED BY <1>s, <2>2, <2>4, <2>5 DEF TypeOK
<1>5. CASE \E i \in items : RunItem(i)
  <2>1. PICK i \in items : RunItem(i)
    BY <1>5
  <2>2. /\ pc' = "f" /\ running' = i /\ wanted' \subseteq wanted
        /\ UNCHANGED <<millis, last_millis, millis_major, item, items, to_add, to_remove,
                       failed, now, gap>>
    BY <2>1 DEF RunItem, clock
  <2>3. QED BY <1>s, <2>2 DEF TypeOK, Used
<1>6. CASE NextScheduleIn
  <2>1. /\ last_millis' \in 0 .. Wrap - 1 /\ millis_major' \in 0 .. Majors - 1
    BY <1>6, ReadClockTypes DEF NextScheduleIn
  <2>2. UNCHANGED <<millis, item, items, to_add, to_remove, failed, pc, now, running,
                    gap, wanted>>
    BY <1>6 DEF NextScheduleIn
  <2>3. QED BY <2>1, <2>2 DEF TypeOK, Used
<1>7. CASE Tick
  <2>1. /\ gap < MaxGap /\ gap' = gap + 1 /\ millis' = (millis + 1) % Wrap
        /\ item' = [i \in Id |-> IF i \in Used THEN [item[i] EXCEPT !.wait = @ - 1]
                                 ELSE item[i]]
        /\ UNCHANGED <<last_millis, millis_major, items, to_add, to_remove, failed, pc,
                       now, running, wanted>>
    BY <1>7 DEF Tick, clock
  <2>2. millis' \in 0 .. Wrap - 1
    <3>1. millis + 1 \in Int
      BY <1>s DEF TypeOK
    <3>2. QED BY <3>1, <2>1, <1>s, ModType
  <2>3. gap' \in 0 .. MaxGap
    BY <1>s, <2>1 DEF TypeOK
  <2>4. \A i \in Id : item'[i] \in (IF i \in Used' THEN Entry ELSE {Free})
    <3>1. Used' = Used
      BY <2>1 DEF Used
    <3> SUFFICES ASSUME NEW i \in Id
                 PROVE  item'[i] \in (IF i \in Used THEN Entry ELSE {Free})
      BY <3>1
    <3>2. CASE i \in Used
      <4>1. item[i] \in Entry /\ item'[i] = [item[i] EXCEPT !.wait = @ - 1]
        BY <3>2, <2>1 DEF TypeOK
      <4>2. item[i].wait - 1 \in Int
        BY <4>1 DEF Entry
      <4>3. item'[i] \in Entry
        BY <4>1, <4>2 DEF Entry
      <4>4. QED BY <4>3, <3>2
    <3>3. CASE i \notin Used
      BY <3>3, <2>1 DEF TypeOK
    <3>4. QED BY <3>2, <3>3
  <2>5. QED BY <2>1, <2>2, <2>3, <2>4 DEF TypeOK
<1>8. CASE \E n \in Name : SetItem(n)
  <2>1. PICK n \in Name : SetItem(n)
    BY <1>8
  <2>2. PICK d \in 0 .. Wrap - 1, last \in 0 .. Wrap - 1,
             major \in 0 .. Majors - 1, wait \in Int : Set(n, d, last, major, wait)
    BY <2>1, SetItemSets
  <2> DEFINE flagged == IF n \notin Unnamed THEN Flagged(n) ELSE item
  <2>3. /\ last_millis' \in 0 .. Wrap - 1 /\ millis_major' \in 0 .. Majors - 1
        /\ UNCHANGED <<millis, items, failed, pc, now, running, gap>>
    BY <2>2, ReadClockTypes DEF Set
  <2>4. to_remove' \in Nat /\ wanted' \subseteq Name
    BY <2>2, CountType DEF Set, TypeOK
  <2>5. /\ DOMAIN flagged = Id
        /\ \A i \in Id : flagged[i] \in (IF i \in Used THEN Entry ELSE {Free})
    BY FlaggedTypes DEF TypeOK, Flagged
  <2>6. CASE d = DontRun
    <3>1. item' = flagged /\ to_add' = to_add
      BY <2>2, <2>6 DEF Set
    <3> HIDE DEF flagged
    <3>2. QED BY <2>3, <2>4, <2>5, <3>1 DEF TypeOK, Used
  <2>7. CASE d # DontRun
    <3> DEFINE new == [name |-> n, interval |-> d, last_execution |-> last,
                       last_execution_major |-> major, remove |-> FALSE, wait |-> wait]
    <3>1. /\ Id \ (Used \cup {running}) # {}
          /\ to_add' = to_add \cup {Fresh} /\ item' = [flagged EXCEPT ![Fresh] = new]
      BY <2>2, <2>7 DEF Set
    <3>2. Fresh \in Id /\ Fresh \notin Used /\ Fresh # running
      BY <3>1, FreshIsFree
    <3>3. new \in Entry
      BY DEF Entry
    <3> HIDE DEF flagged, new
    <3>4. Used' = Used \cup {Fresh}
      BY <2>3, <3>1 DEF Used
    <3>5. DOMAIN item' = Id /\ \A i \in Id : item'[i] \in (IF i \in Used' THEN Entry ELSE {Free})
      BY <2>5, <3>1, <3>2, <3>3, <3>4
    <3>6. to_add' \subseteq Id /\ items' \cap to_add' = {}
      BY <2>3, <3>1, <3>2 DEF TypeOK, Used
    <3>7. QED BY <2>3, <2>4, <3>5, <3>6 DEF TypeOK
  <2>8. QED BY <2>6, <2>7
<1>9. CASE \E n \in Name : cancel_item(n)
  <2>1. PICK n \in Name : cancel_item(n)
    BY <1>9
  <2>2. /\ item' = Flagged(n) /\ to_remove' \in Nat /\ wanted' \subseteq wanted
        /\ UNCHANGED <<millis, last_millis, millis_major, items, to_add, failed, pc, now,
                       running, gap>>
    BY <2>1, CountType DEF cancel_item, clock
  <2>3. DOMAIN item' = Id /\ \A i \in Id : item'[i] \in (IF i \in Used' THEN Entry ELSE {Free})
    BY <2>2, FlaggedTypes DEF Flagged, Used
  <2>4. QED BY <2>2, <2>3 DEF TypeOK
<1>10. CASE \E n \in MayFail : MarkFailed(n)
  <2>1. /\ failed' \subseteq Name
        /\ UNCHANGED <<millis, last_millis, millis_major, item, items, to_add, to_remove,
                       pc, now, running, gap, wanted>>
    BY <1>10, NameAssumption DEF MarkFailed, TypeOK, clock
  <2>2. QED BY <2>1 DEF TypeOK, Used
<1>11. CASE UNCHANGED vars
  BY <1>11 DEF vars, TypeOK, Used
<1>12. QED BY <1>1, <1>2, <1>3, <1>4, <1>5, <1>6, <1>7, <1>8, <1>9, <1>10, <1>11
       DEF Next, Call

(***************************************************************************)
(* What the actions do to the items, for the conjuncts that follow.        *)
(***************************************************************************)
\* The purge and the two process_to_add drop removed items only.
LEMMA CallDrops ==
    ASSUME TypeOK, CallStart \/ CallEnd
    PROVE  \E S \in SUBSET Removed(Used) :
               /\ item' = Drop(S) /\ Used' = Used \ S /\ to_add' = {}
               /\ UNCHANGED <<millis, wanted, running>>
<1>1. CASE CallStart
  <2>1. to_add' = {} /\ UNCHANGED <<millis, wanted, running>>
    BY <1>1 DEF CallStart
  <2>2. CASE to_remove <= MaxDeleted
    <3>1. item' = Drop(Removed(to_add)) /\ items' = items \cup (to_add \ Removed(to_add))
      BY <1>1, <2>2, SizeAssumption DEF CallStart, TypeOK
    <3>2. Removed(to_add) \subseteq Removed(Used) /\ Used' = Used \ Removed(to_add)
      BY <2>1, <3>1 DEF Removed, Used, TypeOK
    <3>3. QED BY <2>1, <3>1, <3>2
  <2>3. CASE to_remove > MaxDeleted
    <3>1. /\ item' = Drop(Removed(Used))
          /\ items' = (items \cup (to_add \ Removed(to_add))) \ Removed(items)
      BY <1>1, <2>3, SizeAssumption DEF CallStart, TypeOK
    <3>2. Used' = Used \ Removed(Used)
      BY <2>1, <3>1 DEF Removed, Used, TypeOK
    <3>3. QED BY <2>1, <3>1, <3>2
  <2>4. QED BY <2>2, <2>3, SizeAssumption DEF TypeOK
<1>2. CASE CallEnd
  <2>1. /\ to_add' = {} /\ UNCHANGED <<millis, wanted, running>>
        /\ item' = Drop(Removed(to_add)) /\ items' = items \cup (to_add \ Removed(to_add))
    BY <1>2 DEF CallEnd
  <2>2. Removed(to_add) \subseteq Removed(Used) /\ Used' = Used \ Removed(to_add)
    BY <2>1 DEF Removed, Used, TypeOK
  <2>3. QED BY <2>1, <2>2
<1>3. QED BY <1>1, <1>2

\* An item that is not dropped is as it was.
LEMMA DropKeeps == ASSUME NEW S, NEW i \in Id \ S
                   PROVE  Drop(S)[i] = item[i]
BY DEF Drop

\* Cancelling sets the flag of the items of that name, and touches nothing else.
LEMMA FlaggedIs ==
    ASSUME TypeOK, NEW n, NEW i \in Used
    PROVE  LET f == Flagged(n)[i]
           IN  /\ f.name = item[i].name /\ f.interval = item[i].interval
               /\ f.last_execution = item[i].last_execution /\ f.wait = item[i].wait
               /\ f.remove <=> (item[i].remove \/ item[i].name = n)
BY DEF TypeOK, Flagged, Cancelled, Matches, Entry, Used

\* What setting an item of the name leaves of the others, and adds.
Kept(n) == \A i \in Used :
    /\ item'[i].name = item[i].name /\ item'[i].interval = item[i].interval
    /\ item'[i].last_execution = item[i].last_execution /\ item'[i].wait = item[i].wait
    /\ item'[i].remove <=> (item[i].remove \/ (n \notin Unnamed /\ item[i].name = n))

Added(n, i) ==
    /\ to_add' = to_add \cup {i} /\ i \in Id /\ i \notin Used /\ i # running
    /\ item'[i].name = n /\ ~item'[i].remove
    /\ item'[i].interval - item'[i].wait >= 0
    /\ SameReading(millis - item'[i].last_execution, item'[i].interval - item'[i].wait)

LEMMA SetAdds ==
    ASSUME TypeOK, NEW n \in Name, SetItem(n)
    PROVE  /\ UNCHANGED <<millis, items, pc, now, running, gap>>
           /\ to_remove' = IF n \notin Unnamed THEN RemoveCount(n) ELSE to_remove
           /\ Kept(n)
           /\ \/ /\ to_add' = to_add
                 /\ wanted' = IF n \notin Unnamed THEN wanted \ {n} ELSE wanted
              \/ /\ \E i \in Id : Added(n, i)
                 /\ wanted' = wanted \cup {n}
<1> DEFINE flagged == IF n \notin Unnamed THEN Flagged(n) ELSE item
<1>1. PICK d \in 0 .. Wrap - 1, last \in 0 .. Wrap - 1,
           major \in 0 .. Majors - 1, wait \in Int :
               /\ Set(n, d, last, major, wait)
               /\ d - wait >= 0
               /\ SameReading(millis - last, d - wait)
  BY SetItemSets
<1>2. /\ UNCHANGED <<millis, items, pc, now, running, gap>>
      /\ to_remove' = IF n \notin Unnamed THEN RemoveCount(n) ELSE to_remove
  BY <1>1 DEF Set
<1>3. \A i \in Used :
          /\ flagged[i].name = item[i].name /\ flagged[i].interval = item[i].interval
          /\ flagged[i].last_execution = item[i].last_execution
          /\ flagged[i].wait = item[i].wait
          /\ flagged[i].remove <=>
                 (item[i].remove \/ (n \notin Unnamed /\ item[i].name = n))
  BY FlaggedIs
<1>4. DOMAIN flagged = Id /\ Used \subseteq Id
  BY DEF TypeOK, Flagged, Used
<1>5. CASE d = DontRun
  <2>1. item' = flagged /\ to_add' = to_add
        /\ wanted' = IF n \notin Unnamed THEN wanted \ {n} ELSE wanted
    BY <1>1, <1>5 DEF Set
  <2> HIDE DEF flagged
  <2>2. QED BY <1>2, <1>3, <2>1 DEF Kept
<1>6. CASE d # DontRun
  <2> DEFINE new == [name |-> n, interval |-> d, last_execution |-> last,
                     last_execution_major |-> major, remove |-> FALSE, wait |-> wait]
  <2>1. /\ Id \ (Used \cup {running}) # {} /\ wanted' = wanted \cup {n}
        /\ to_add' = to_add \cup {Fresh} /\ item' = [flagged EXCEPT ![Fresh] = new]
    BY <1>1, <1>6 DEF Set
  <2>2. Fresh \in Id /\ Fresh \notin Used /\ Fresh # running
    BY <2>1, FreshIsFree
  <2> HIDE DEF flagged
  <2>3. item'[Fresh] = new /\ \A i \in Used : item'[i] = flagged[i]
    BY <1>4, <2>1, <2>2
  <2>4. Added(n, Fresh)
    BY <1>1, <2>1, <2>2, <2>3 DEF Added
  <2>5. Kept(n)
    BY <1>3, <2>3 DEF Kept
  <2>6. QED BY <1>2, <2>1, <2>2, <2>4, <2>5
<1>7. QED BY <1>5, <1>6

LEMMA CancelFlags ==
    ASSUME TypeOK, NEW n, cancel_item(n)
    PROVE  /\ UNCHANGED <<millis, items, to_add, pc, now, running, gap>>
           /\ to_remove' = RemoveCount(n) /\ wanted' = wanted \ {n}
           /\ \A i \in Used :
                 /\ item'[i].name = item[i].name /\ item'[i].interval = item[i].interval
                 /\ item'[i].last_execution = item[i].last_execution
                 /\ item'[i].wait = item[i].wait
                 /\ item'[i].remove <=> (item[i].remove \/ item[i].name = n)
BY FlaggedIs DEF cancel_item

LEMMA RestStep == ASSUME IInv, [Next]_vars
                  PROVE  NoneRuns'
BY DEF IInv, NoneRuns, Next, Call, CallStart, ItemDone, CallEnd, CleanupHead, RunFailed,
       RunItem, NextScheduleIn, Tick, SetItem, set_timeout, set_interval, Set, cancel_item,
       MarkFailed, vars

(***************************************************************************)
(* The clock.                                                              *)
(***************************************************************************)
LEMMA SameRefl == ASSUME NEW a \in Int
                  PROVE  SameReading(a, a)
<1>1. a = a + 0 * Wrap
  BY Sizes
<1>2. QED BY <1>1 DEF SameReading

LEMMA SameMod == ASSUME NEW a \in Int
                 PROVE  SameReading(a % Wrap, a) /\ a % Wrap \in Int
<1>1. PICK q \in Int : a % Wrap = a - q * Wrap
  BY Sizes, ModRound
<1>2. q * Wrap \in Int /\ a % Wrap = a + (-q) * Wrap
  BY <1>1, Sizes
<1>3. QED BY <1>1, <1>2 DEF SameReading

\* Readings that agree still do when the same readings are taken from them.
LEMMA SameMinus ==
    ASSUME NEW a \in Int, NEW b \in Int, NEW c \in Int, NEW d \in Int,
           SameReading(a, b), SameReading(c, d)
    PROVE  SameReading(a - c, b - d)
<1>1. PICK p \in Int : a = b + p * Wrap
  BY DEF SameReading
<1>2. PICK q \in Int : c = d + q * Wrap
  BY DEF SameReading
<1>3. (p - q) * Wrap = p * Wrap - q * Wrap /\ p * Wrap \in Int /\ q * Wrap \in Int
  BY Sizes, Distribute
<1>4. a - c = (b - d) + (p - q) * Wrap
  BY <1>1, <1>2, <1>3
<1>5. QED BY <1>4 DEF SameReading

LEMMA SubIsBelow ==
    ASSUME NEW a \in Int, NEW b \in Nat, SameReading(a, b)
    PROVE  a % Wrap <= b
<1>1. PICK p \in Int : a = b + p * Wrap
  BY DEF SameReading
<1>2. PICK r \in Int : b = a + r * Wrap
  <2>1. b = a + (-p) * Wrap /\ -p \in Int
    BY <1>1, Sizes
  <2>2. QED BY <2>1
<1>3. a % Wrap <= a + r * Wrap
  <2>1. a + r * Wrap >= 0
    BY <1>2
  <2>2. QED BY <2>1, Sizes, SubBelow
<1>4. QED BY <1>2, <1>3

\* In a call, an item of the heap shows the time that had passed when the call read the
\* clock, but for whole rounds.
LEMMA ShownReading ==
    ASSUME IInv, pc # "idle", NEW i \in items
    PROVE  /\ SameReading(now - item[i].last_execution, Elapsed(i) - gap)
           /\ Elapsed(i) - gap \in Nat /\ now - item[i].last_execution \in Int
<1>1. /\ item[i] \in Entry /\ now \in Int /\ millis \in Int /\ gap \in Int
      /\ item[i].last_execution \in Int /\ Elapsed(i) \in Int
  BY Sizes DEF IInv, TypeOK, Used, Entry, Elapsed
<1>2. /\ SameReading(millis - item[i].last_execution, Elapsed(i))
      /\ SameReading(millis - now, gap) /\ Elapsed(i) >= gap
  BY DEF IInv, TimesTold, Used
<1> DEFINE a == millis - item[i].last_execution
           c == millis - now
<1>3. a \in Int /\ c \in Int /\ a - c = now - item[i].last_execution
  BY <1>1
<1>4. SameReading(a, Elapsed(i)) /\ SameReading(c, gap)
  BY <1>2
<1> HIDE DEF a, c
<1>5. SameReading(now - item[i].last_execution, Elapsed(i) - gap)
  BY <1>1, <1>3, <1>4, SameMinus
<1>6. QED BY <1>1, <1>2, <1>5

\* That is no more than has really passed.
LEMMA ShownIsPast ==
    ASSUME IInv, pc # "idle", NEW i \in items
    PROVE  Sub(now, item[i].last_execution) <= Elapsed(i) - gap
BY ShownReading, SubIsBelow DEF Sub

LEMMA TimesStep == ASSUME IInv, [Next]_vars
                   PROVE  TimesTold'
<1>t. /\ \A i \in Used : /\ item[i] \in Entry /\ item[i].last_execution \in Int
                         /\ item[i].interval \in Int /\ item[i].wait \in Int
                         /\ Elapsed(i) \in Int
      /\ millis \in Int /\ now \in Int /\ gap \in Int /\ TypeOK
      /\ items \subseteq Used /\ to_add \subseteq Used /\ Used \subseteq Id
  BY Sizes DEF IInv, TypeOK, Used, Entry, Elapsed
<1>i. \A i \in Used : /\ Elapsed(i) >= 0
                      /\ SameReading(millis - item[i].last_execution, Elapsed(i))
  BY DEF IInv, TimesTold
<1>1. CASE CallStart
  <2>1. PICK S \in SUBSET Removed(Used) :
               item' = Drop(S) /\ Used' = Used \ S /\ UNCHANGED millis
    BY <1>1, <1>t, CallDrops
  <2>2. now' = millis /\ gap' = 0
    BY <1>1 DEF CallStart
  <2>3. \A i \in Used' : i \in Used /\ item'[i] = item[i]
    BY <2>1, <1>t, DropKeeps
  <2>4. SameReading(millis - millis, 0)
    <3>1. millis - millis = 0
      BY <1>t
    <3>2. QED BY <3>1, SameRefl
  <2>5. \A i \in Used' : /\ Elapsed(i)' >= 0
                         /\ SameReading(millis' - item'[i].last_execution, Elapsed(i)')
    BY <2>1, <2>3, <1>i DEF Elapsed
  <2>6. items' \subseteq Used'
    BY DEF Used
  <2>7. QED BY <2>1, <2>2, <2>4, <2>5, <2>6 DEF TimesTold, SameReading
<1>2. CASE ItemDone
  <2>1. /\ running \in items /\ pc = "f" /\ items' = items \ {running}
        /\ UNCHANGED <<millis, now, gap>>
    BY <1>2 DEF ItemDone, Pop, IInv, TypeOK
  <2>2. SameReading(millis - now, gap) /\ \A i \in items : Elapsed(i) >= gap
    BY <2>1 DEF IInv, TimesTold
  <2>3. CASE item' = Drop({running}) /\ to_add' = to_add
    <3>1. \A i \in Used' : i \in Used /\ item'[i] = item[i]
      BY <2>1, <2>3, <1>t, DropKeeps DEF Used, TypeOK
    <3>2. QED BY <2>1, <2>2, <3>1, <1>i DEF TimesTold, Elapsed, SameReading, Used
  <2>4. CASE /\ item' = [item EXCEPT ![running] = Advanced(running)]
             /\ to_add' = to_add \cup {running}
    <3>0. PICK k \in items : k = running
      BY <2>1
    <3>1. k \in Used /\ k \in Id /\ DOMAIN item = Id
      BY <2>1, <1>t DEF TypeOK
    <3>2. item'[k] = Advanced(k)
          /\ \A i \in Used \ {k} : item'[i] = item[i]
      BY <2>4, <3>0, <3>1, <1>t
    <3> DEFINE last == item[k].last_execution
               E == Elapsed(k)
               d == Step(k)
    <3>3. /\ d \in Nat /\ d <= Sub(now, last)
          /\ item'[k].interval = item[k].interval
          /\ item'[k].wait = item[k].wait + d
          /\ item'[k].last_execution = (last + d) % Wrap
      BY <3>1, <3>2, <1>t, StepType, AdvancedIs
    <3>4. Sub(now, last) <= E - gap /\ E \in Int /\ last \in Int
      BY <2>1, <3>1, <1>t, ShownIsPast
    <3>5. gap >= 0 /\ Sub(now, last) \in Int
      <4>1. now - last \in Int
        BY <3>4, <1>t
      <4>2. QED BY <4>1, Sizes, SameMod DEF Sub, IInv, TypeOK
    <3>6. Elapsed(k)' = E - d
      <4>1. /\ item[k].interval \in Int /\ item[k].wait \in Int
            /\ Step(k) \in Int
        BY <3>1, <3>3, <1>t
      <4>2. Elapsed(k)' = item[k].interval - (item[k].wait + Step(k))
        BY <3>3 DEF Elapsed
      <4>3. QED BY <4>1, <4>2 DEF Elapsed
    <3>7. E - d >= 0
      BY <3>3, <3>4, <3>5, <1>t
    <3>8. SameReading(millis - ((last + d) % Wrap), E - d)
      <4>1. SameReading((last + d) % Wrap, last + d) /\ (last + d) % Wrap \in Int
        BY <3>3, <3>4, SameMod
      <4>2. SameReading(millis - last, E)
        BY <3>1, <1>i
      <4>3. PICK p \in Int : (last + d) % Wrap = last + d + p * Wrap
        BY <4>1 DEF SameReading
      <4>4. PICK q \in Int : millis - last = E + q * Wrap
        BY <4>2 DEF SameReading
      <4>5. /\ (q - p) * Wrap = q * Wrap - p * Wrap
            /\ p * Wrap \in Int /\ q * Wrap \in Int
        BY Sizes, Distribute
      <4> DEFINE m == (last + d) % Wrap
                 x == p * Wrap
                 y == q * Wrap
                 z == (q - p) * Wrap
      <4>8. /\ m \in Int /\ m = last + d + x /\ millis - last = E + y
            /\ z = y - x /\ x \in Int /\ y \in Int
            /\ millis \in Int /\ E \in Int /\ last \in Int /\ d \in Int
        BY <4>1, <4>3, <4>4, <4>5, <3>3, <3>4, <1>t
      <4>9. millis - m = (E - d) + z
        <5> HIDE DEF m, x, y, z, last, E, d
        <5>1. QED BY <4>8
      <4>6. \E r \in Int : millis - m = (E - d) + r * Wrap
        BY <4>9
      <4> HIDE DEF E, d, last, m, z
      <4>7. SameReading(millis - m, E - d)
        BY <4>6 DEF SameReading
      <4>10. QED BY <4>7 DEF m
    <3> HIDE DEF last, E, d
    <3>9. Used' = Used
      BY <2>1, <2>4, <3>0 DEF Used
    <3>10. \A i \in Used' : /\ Elapsed(i)' >= 0
                           /\ SameReading(millis' - item'[i].last_execution, Elapsed(i)')
      <4> SUFFICES ASSUME NEW i \in Used
                   PROVE  /\ Elapsed(i)' >= 0
                          /\ SameReading(millis - item'[i].last_execution, Elapsed(i)')
        BY <3>9, <2>1
      <4>1. CASE i = k
        <5>1. item'[i].last_execution = (last + d) % Wrap
          BY <4>1, <3>3
        <5>2. Elapsed(i)' = E - d
          BY <4>1, <3>6
        <5>3. QED BY <5>1, <5>2, <3>7, <3>8
      <4>2. CASE i # k
        BY <4>2, <3>2, <1>i DEF Elapsed
      <4>3. QED BY <4>1, <4>2
    <3>11. \A i \in items' : Elapsed(i)' >= gap
      BY <2>1, <2>2, <3>0, <3>2, <1>t DEF Elapsed
    <3>12. QED BY <2>1, <2>2, <3>10, <3>11 DEF TimesTold, SameReading
  <2>5. QED BY <2>3, <2>4, <1>2 DEF ItemDone
<1>3. CASE CallEnd
  <2>1. PICK S \in SUBSET Removed(Used) :
               item' = Drop(S) /\ Used' = Used \ S /\ UNCHANGED millis
    BY <1>3, <1>t, CallDrops
  <2>2. \A i \in Used' : i \in Used /\ item'[i] = item[i]
    BY <2>1, <1>t, DropKeeps
  <2>3. pc' = "idle"
    BY <1>3 DEF CallEnd
  <2>4. QED BY <2>1, <2>2, <2>3, <1>i DEF TimesTold, Elapsed, SameReading
<1>4. CASE \E i \in items : CleanupHead(i) \/ RunFailed(i)
  <2>1. PICK i \in items : CleanupHead(i) \/ RunFailed(i)
    BY <1>4
  <2>2. /\ items' = items \ {i} /\ item' = Drop({i})
        /\ UNCHANGED <<millis, to_add, pc, now, gap>>
    BY <2>1 DEF CleanupHead, RunFailed, Pop
  <2>3. \A j \in Used' : j \in Used /\ item'[j] = item[j]
    BY <2>2, <1>t, DropKeeps DEF Used, TypeOK
  <2>4. QED BY <2>2, <2>3 DEF IInv, TimesTold, Elapsed, SameReading, Used
<1>5. CASE \E i \in items : RunItem(i)
  <2>1. pc = "run" /\ UNCHANGED <<millis, item, items, to_add, now, gap>>
    BY <1>5 DEF RunItem
  <2>2. QED BY <2>1 DEF IInv, TimesTold, Elapsed, SameReading, Used
<1>6. CASE Tick
  <2>1. /\ gap' = gap + 1 /\ millis' = (millis + 1) % Wrap
        /\ item' = [i \in Id |-> IF i \in Used THEN [item[i] EXCEPT !.wait = @ - 1]
                                 ELSE item[i]]
        /\ UNCHANGED <<items, to_add, pc, now>>
    BY <1>6 DEF Tick
  <2>2. \A i \in Used : /\ Elapsed(i)' = Elapsed(i) + 1
                        /\ item'[i].last_execution = item[i].last_execution
    BY <2>1, <1>t DEF Elapsed, Entry
  <2>3. \A a, b \in Int : SameReading(millis - a, b) => SameReading(millis' - a, b + 1)
    <3> SUFFICES ASSUME NEW a \in Int, NEW b \in Int, SameReading(millis - a, b)
                 PROVE  SameReading(((millis + 1) % Wrap) - a, b + 1)
      BY <2>1
    <3>1. PICK p \in Int : millis - a = b + p * Wrap
      BY DEF SameReading
    <3>2. PICK q \in Int : (millis + 1) % Wrap = millis + 1 + q * Wrap
      <4>1. millis + 1 \in Int
        BY <1>t
      <4>2. QED BY <4>1, SameMod DEF SameReading
    <3>3. /\ (p + q) * Wrap = p * Wrap + q * Wrap
          /\ p * Wrap \in Int /\ q * Wrap \in Int
      BY Sizes, Distribute
    <3>4. ((millis + 1) % Wrap) - a = (b + 1) + (p + q) * Wrap
      BY <3>1, <3>2, <3>3, <1>t
    <3>5. QED BY <3>4 DEF SameReading
  <2>4. Used' = Used
    BY <2>1 DEF Used
  <2>5. \A i \in Used : /\ Elapsed(i)' >= 0
                        /\ SameReading(millis' - item'[i].last_execution, Elapsed(i)')
    BY <2>2, <2>3, <1>i, <1>t
  <2>6. pc # "idle" => /\ SameReading(millis' - now, gap')
                       /\ \A i \in items : Elapsed(i)' >= gap'
    BY <2>1, <2>2, <2>3, <1>t DEF IInv, TimesTold
  <2>7. QED BY <2>1, <2>4, <2>5, <2>6 DEF TimesTold, SameReading
<1>7. CASE \E n \in Name : SetItem(n)
  <2>1. PICK n \in Name : SetItem(n)
    BY <1>7
  <2>2. /\ UNCHANGED <<millis, items, pc, now, gap>> /\ Kept(n)
        /\ to_add' = to_add \/ \E i \in Id : Added(n, i)
    BY <2>1, <1>t, SetAdds
  <2>3. \A i \in Used : /\ item'[i].last_execution = item[i].last_execution
                        /\ Elapsed(i)' = Elapsed(i)
    BY <2>2 DEF Kept, Elapsed
  <2>4. \A i \in Used' \ Used :
            /\ Elapsed(i)' >= 0
            /\ SameReading(millis - item'[i].last_execution, Elapsed(i)')
    BY <2>2 DEF Added, Used, Elapsed
  <2>5. \A i \in Used' : /\ Elapsed(i)' >= 0
                         /\ SameReading(millis' - item'[i].last_execution, Elapsed(i)')
    BY <2>2, <2>3, <2>4, <1>i
  <2>6. QED BY <2>2, <2>3, <2>5, <1>t DEF IInv, TimesTold, SameReading
<1>8. CASE \E n \in Name : cancel_item(n)
  <2>1. PICK n \in Name : cancel_item(n)
    BY <1>8
  <2>2. /\ UNCHANGED <<millis, items, to_add, pc, now, gap>>
        /\ \A i \in Used : /\ item'[i].last_execution = item[i].last_execution
                           /\ Elapsed(i)' = Elapsed(i)
    BY <2>1, <1>t, CancelFlags DEF Elapsed
  <2>3. QED BY <2>2, <1>t DEF IInv, TimesTold, SameReading, Used
<1>9. CASE NextScheduleIn \/ (\E n \in MayFail : MarkFailed(n)) \/ UNCHANGED vars
  <2>1. UNCHANGED <<millis, item, items, to_add, pc, now, gap>>
    BY <1>9 DEF NextScheduleIn, MarkFailed, vars
  <2>2. QED BY <2>1 DEF IInv, TimesTold, Elapsed, SameReading, Used
<1>10. QED BY <1>1, <1>2, <1>3, <1>4, <1>5, <1>6, <1>7, <1>8, <1>9 DEF Next, Call

\* An item is due to the call only when the time that has passed is its interval or more.
LEMMA DueIsPast == ASSUME IInv, pc # "idle", NEW i \in items, Due(i)
                   PROVE  item[i].wait <= 0
<1>1. item[i] \in Entry /\ item[i].wait \in Int /\ item[i].interval \in Int
  BY DEF IInv, TypeOK, Used, Entry
<1>2. Sub(now, item[i].last_execution) <= Elapsed(i) - gap
  BY ShownIsPast
<1>3. Sub(now, item[i].last_execution) >= item[i].interval
  BY DEF Due
<1>4. gap \in Nat /\ Sub(now, item[i].last_execution) \in Int
  <2>1. now - item[i].last_execution \in Int
    BY <1>1, Sizes DEF IInv, TypeOK, Entry
  <2>2. QED BY <2>1, SameMod DEF Sub, IInv, TypeOK
<1>5. QED BY <1>1, <1>2, <1>3, <1>4 DEF Elapsed

LEMMA EarlyStep == ASSUME IInv, [Next]_vars
                   PROVE  NeverEarly'
<1>t. \A i \in items : /\ item[i] \in Entry /\ item[i].wait \in Int /\ i \in Used /\ i \in Id
                       /\ item[i].interval \in Int
  BY DEF IInv, TypeOK, Used, Entry
<1>1. CASE \E i \in items : RunItem(i)
  <2>1. PICK i \in items : RunItem(i)
    BY <1>1
  <2>2. pc = "run" /\ running' = i /\ item' = item /\ Due(i)
    BY <2>1 DEF RunItem
  <2>3. item[i].wait <= 0
    BY <2>2, DueIsPast
  <2>4. QED BY <2>2, <2>3 DEF NeverEarly
<1>2. CASE Tick
  <2>1. /\ UNCHANGED <<pc, running>>
        /\ item' = [i \in Id |-> IF i \in Used THEN [item[i] EXCEPT !.wait = @ - 1]
                                 ELSE item[i]]
    BY <1>2 DEF Tick
  <2>2. SUFFICES ASSUME pc = "f"
                 PROVE  item'[running].wait <= 0
    BY <2>1 DEF NeverEarly
  <2>3. running \in items
    BY <2>2 DEF IInv, TypeOK
  <2>4. item'[running].wait = item[running].wait - 1
    BY <2>1, <2>3, <1>t DEF Entry
  <2>5. QED BY <2>2, <2>3, <2>4, <1>t DEF IInv, NeverEarly
<1>3. CASE \E n \in Name : SetItem(n) \/ cancel_item(n)
  <2>1. PICK n \in Name : SetItem(n) \/ cancel_item(n)
    BY <1>3
  <2>2. UNCHANGED <<pc, running>> /\ \A i \in Used : item'[i].wait = item[i].wait
    BY <2>1, SetAdds, CancelFlags DEF IInv, Kept
  <2>3. pc = "f" => running \in Used
    BY <1>t DEF IInv, TypeOK
  <2>4. QED BY <2>2, <2>3 DEF IInv, NeverEarly
<1>4. CASE NextScheduleIn \/ (\E n \in MayFail : MarkFailed(n)) \/ UNCHANGED vars
  BY <1>4 DEF IInv, NeverEarly, NextScheduleIn, MarkFailed, vars
<1>5. CASE CallStart \/ ItemDone \/ CallEnd \/ \E i \in items : CleanupHead(i) \/ RunFailed(i)
  BY <1>5 DEF NeverEarly, CallStart, ItemDone, CallEnd, CleanupHead, RunFailed
<1>6. QED BY <1>1, <1>2, <1>3, <1>4, <1>5 DEF Next, Call

(***************************************************************************)
(* The items of a name.                                                    *)
(***************************************************************************)
\* With the names' live items, and what is wanted, unchanged, nothing is lost.
LEMMA LiveKept ==
    ASSUME OneLive, wanted' = wanted,
           \A n \in Name \ Unnamed : Live(n)' = Live(n)
    PROVE  OneLive'
BY DEF OneLive

LEMMA LiveStep == ASSUME IInv, [Next]_vars
                  PROVE  OneLive'
<1>t. /\ \A i \in Used : item[i] \in Entry /\ item[i].name \in Name /\ i \in Id /\ i # 0
      /\ items \subseteq Used /\ to_add \subseteq Used /\ items \cap to_add = {}
      /\ TypeOK /\ OneLive
  BY Sizes DEF IInv, TypeOK, Used, Entry
<1>d. Timeout \cap Interval = {}
  BY NameAssumption
<1>1. CASE CallStart \/ CallEnd
  <2>1. PICK S \in SUBSET Removed(Used) :
            item' = Drop(S) /\ Used' = Used \ S /\ UNCHANGED <<wanted, running>>
    BY <1>1, <1>t, CallDrops
  <2>2. \A i \in Used' : i \in Used /\ item'[i] = item[i]
    BY <2>1, <1>t, DropKeeps
  <2>3. \A i \in Used \ Used' : item[i].remove
    BY <2>1 DEF Removed
  <2>4. \A n \in Name \ Unnamed : Live(n)' = Live(n)
    BY <2>1, <2>2, <2>3 DEF Live, Matches
  <2>5. QED BY <2>1, <2>4, <1>t, LiveKept
<1>2. CASE \E i \in items : CleanupHead(i)
  <2>1. PICK i \in items : CleanupHead(i)
    BY <1>2
  <2>2. /\ item[i].remove /\ Used' = Used \ {i} /\ item' = Drop({i})
        /\ UNCHANGED <<wanted, running>>
    BY <2>1, <1>t DEF CleanupHead, Pop, Used
  <2>3. \A j \in Used' : j \in Used /\ item'[j] = item[j]
    BY <2>2, <1>t, DropKeeps
  <2>4. \A n \in Name \ Unnamed : Live(n)' = Live(n)
    BY <2>2, <2>3 DEF Live, Matches
  <2>5. QED BY <2>2, <2>4, <1>t, LiveKept
<1>3. CASE \E i \in items : RunFailed(i)
  <2>1. PICK i \in items : RunFailed(i)
    BY <1>3
  <2>2. /\ ~item[i].remove /\ Used' = Used \ {i} /\ item' = Drop({i})
        /\ wanted' = wanted \ {item[i].name} /\ running' = running /\ pc = "run"
    BY <2>1, <1>t DEF RunFailed, Pop, Used
  <2>3. \A j \in Used' : j \in Used /\ item'[j] = item[j]
    BY <2>2, <1>t, DropKeeps
  <2>4. i # running /\ i \in Live(item[i].name)
    BY <2>2, <1>t DEF IInv, NoneRuns, Live, Matches
  <2>5. \A n \in Name \ Unnamed : Live(n)' = Live(n) \ {i}
    BY <2>2, <2>3 DEF Live, Matches
  <2>6. \A n \in Name \ Unnamed : i \in Live(n) => n = item[i].name
    BY DEF Live, Matches
  <2>7. QED BY <1>t, <2>2, <2>4, <2>5, <2>6 DEF OneLive
<1>4. CASE \E i \in items : RunItem(i)
  <2>1. PICK i \in items : RunItem(i)
    BY <1>4
  <2>2. /\ ~item[i].remove /\ UNCHANGED <<items, to_add, item>> /\ running' = i
        /\ wanted' = (IF item[i].name \in Timeout THEN wanted \ {item[i].name}
                      ELSE wanted)
        /\ running = 0
    BY <2>1 DEF RunItem, IInv, NoneRuns
  <2>3. i \in Live(item[i].name) /\ Used' = Used
    BY <2>2, <1>t DEF Live, Matches, Used
  <2>4. \A n \in Name \ Unnamed : Live(n)' = IF n \in Timeout THEN Live(n) \ {i}
                                             ELSE Live(n)
    BY <2>2, <2>3, <1>t DEF Live, Matches
  <2>5. \A n \in Name \ Unnamed : i \in Live(n) => n = item[i].name
    BY DEF Live, Matches
  <2>6. QED BY <1>t, <2>2, <2>3, <2>4, <2>5 DEF OneLive
<1>5. CASE ItemDone
  <2>1. PICK k \in items : k = running
    BY <1>5 DEF ItemDone, IInv, TypeOK
  <2>2. /\ running' = 0 /\ wanted' = wanted /\ items' = items \ {k}
    BY <1>5, <2>1 DEF ItemDone, Pop
  <2>3. CASE item[k].remove \/ item[k].name \in Timeout
    <3>1. item' = Drop({k}) /\ to_add' = to_add
      BY <1>5, <1>d, <2>1, <2>3 DEF ItemDone
    <3>2. Used' = Used \ {k}
      BY <2>2, <3>1, <1>t DEF Used
    <3>3. \A j \in Used' : j \in Used /\ item'[j] = item[j]
      BY <3>1, <3>2, <1>t, DropKeeps
    <3>4. \A n \in Name \ Unnamed : k \notin Live(n)
      BY <2>1, <2>3 DEF Live, Matches
    <3>5. \A n \in Name \ Unnamed : Live(n)' = Live(n)
      BY <2>1, <2>2, <3>2, <3>3, <3>4, <1>t DEF Live, Matches
    <3>6. QED BY <2>2, <3>5, <1>t, LiveKept
  <2>4. CASE ~item[k].remove /\ item[k].name \notin Timeout
    <3>1. item' = [item EXCEPT ![k] = Advanced(k)] /\ to_add' = to_add \cup {k}
      BY <1>5, <2>1, <2>4 DEF ItemDone
    <3>2. Used' = Used
      BY <2>1, <2>2, <3>1 DEF Used
    <3>3. \A j \in Used : item'[j].name = item[j].name /\ item'[j].remove = item[j].remove
      <4>1. k \in Used /\ DOMAIN item = Id
        BY <1>t, <2>1 DEF TypeOK
      <4>2. Advanced(k).name = item[k].name /\ Advanced(k).remove = item[k].remove
        BY <4>1, <1>t, AdvancedIs
      <4>3. QED BY <3>1, <4>1, <4>2, <1>t
    <3>4. \A n \in Name \ Unnamed : Live(n)' = Live(n)
      BY <2>1, <2>2, <2>4, <3>2, <3>3, <1>t DEF Live, Matches
    <3>5. QED BY <2>2, <3>4, <1>t, LiveKept
  <2>5. QED BY <2>3, <2>4
<1>6. CASE \E n \in Name : SetItem(n)
  <2>1. PICK n \in Name : SetItem(n)
    BY <1>6
  <2>2. /\ UNCHANGED <<items, running>> /\ Kept(n)
        /\ \/ /\ to_add' = to_add
              /\ wanted' = IF n \notin Unnamed THEN wanted \ {n} ELSE wanted
           \/ /\ \E i \in Id : Added(n, i)
              /\ wanted' = wanted \cup {n}
    BY <2>1, <1>t, SetAdds
  <2>3. \A i \in Used : /\ item'[i].name = item[i].name
                        /\ item'[i].remove <=>
                              (item[i].remove \/ (n \notin Unnamed /\ item[i].name = n))
    BY <2>2 DEF Kept
  <2>4. CASE /\ to_add' = to_add
             /\ wanted' = IF n \notin Unnamed THEN wanted \ {n} ELSE wanted
    <3>1. Used' = Used
      BY <2>2, <2>4 DEF Used
    <3>2. \A m \in Name \ Unnamed : Live(m)' = IF m = n THEN {} ELSE Live(m)
      BY <2>2, <2>3, <3>1 DEF Live, Matches
    <3>3. QED BY <1>t, <2>4, <3>2 DEF OneLive
  <2>5. CASE (\E i \in Id : Added(n, i)) /\ wanted' = wanted \cup {n}
    <3>1. PICK i \in Id : Added(n, i)
      BY <2>5
    <3>2. /\ Used' = Used \cup {i} /\ i \notin Used /\ item'[i].name = n
          /\ ~item'[i].remove /\ i # running'
      BY <2>2, <3>1 DEF Added, Used
    <3>3. \A m \in Name \ Unnamed : Live(m)' = IF m = n THEN {i} ELSE Live(m)
      <4> SUFFICES ASSUME NEW m \in Name \ Unnamed
                   PROVE  Live(m)' = IF m = n THEN {i} ELSE Live(m)
        OBVIOUS
      <4>1. Live(m)' = {j \in Used \cup {i} : /\ item'[j].name = m /\ ~item'[j].remove
                                             /\ ~(j = running /\ m \in Timeout)}
        BY <2>2, <3>2 DEF Live, Matches
      <4>2. CASE m = n
        BY <4>1, <4>2, <2>2, <2>3, <3>2
      <4>3. CASE m # n
        BY <4>1, <4>3, <2>2, <2>3, <3>2 DEF Live, Matches
      <4>4. QED BY <4>2, <4>3
    <3>4. QED BY <1>t, <2>5, <3>3 DEF OneLive
  <2>6. QED BY <2>2, <2>4, <2>5
<1>7. CASE \E n \in Name : cancel_item(n)
  <2>1. PICK n \in Name : cancel_item(n)
    BY <1>7
  <2>2. /\ UNCHANGED <<items, to_add, running>> /\ wanted' = wanted \ {n}
        /\ \A i \in Used : /\ item'[i].name = item[i].name
                           /\ item'[i].remove <=> (item[i].remove \/ item[i].name = n)
    BY <2>1, <1>t, CancelFlags
  <2>3. \A m \in Name \ Unnamed : Live(m)' = IF m = n THEN {} ELSE Live(m)
    BY <2>2 DEF Live, Matches, Used
  <2>4. QED BY <1>t, <2>2, <2>3 DEF OneLive
<1>8. CASE Tick
  <2>1. /\ item' = [i \in Id |-> IF i \in Used THEN [item[i] EXCEPT !.wait = @ - 1]
                                 ELSE item[i]]
        /\ UNCHANGED <<items, to_add, running, wanted>>
    BY <1>8 DEF Tick
  <2>2. \A i \in Used : item'[i].name = item[i].name /\ item'[i].remove = item[i].remove
    BY <2>1, <1>t DEF Entry
  <2>3. \A n \in Name \ Unnamed : Live(n)' = Live(n)
    BY <2>1, <2>2 DEF Live, Matches, Used
  <2>4. QED BY <2>1, <2>3, <1>t, LiveKept
<1>9. CASE NextScheduleIn \/ (\E n \in MayFail : MarkFailed(n)) \/ UNCHANGED vars
  BY <1>9, <1>t DEF OneLive, Live, Matches, Used, NextScheduleIn, MarkFailed, vars
<1>10. QED BY <1>1, <1>2, <1>3, <1>4, <1>5, <1>6, <1>7, <1>8, <1>9 DEF Next, Call

(***************************************************************************)
(* The count of the removed items.                                         *)
(***************************************************************************)
LEMMA RemovedFinite == ASSUME TypeOK
                       PROVE  /\ Removed(items) \in SUBSET Id
                              /\ IsFiniteSet(Removed(items))
BY IdFinite DEF TypeOK, Removed

\* Cancelling counts those that it flags.
LEMMA CountFlagged ==
    ASSUME IInv, NEW n, items' = items,
           \A i \in items : item'[i].remove <=> (item[i].remove \/ item[i].name = n)
    PROVE  RemoveCount(n) = Cardinality(Removed(items)')
<1> DEFINE R == Removed(items)
           F == {i \in items : Matches(i, n) /\ ~item[i].remove}
<1>1. R \in SUBSET Id /\ F \in SUBSET Id /\ R \cap F = {}
  BY DEF IInv, TypeOK, Removed
<1>2. IsFiniteSet(R) /\ IsFiniteSet(F)
  BY <1>1, IdFinite
<1>3. Removed(items)' = R \cup F
  BY DEF Removed, Matches
<1>4. /\ Cardinality(R \cup F) = Cardinality(R) + Cardinality(F) - Cardinality(R \cap F)
      /\ Cardinality(R) \in Nat /\ Cardinality(F) \in Nat /\ Cardinality({}) = 0
  BY <1>2, FS_Union, FS_CardinalityType, FS_EmptySet
<1>5. RemoveCount(n) = Cardinality(R) + Cardinality(F)
  BY DEF RemoveCount, IInv, RemovalsCounted
<1>6. Cardinality(R \cup F) = Cardinality(R) + Cardinality(F)
  <2> HIDE DEF R, F
  <2>1. Cardinality(R \cap F) = 0
    BY <1>1, <1>4
  <2>2. QED BY <2>1, <1>4
<1>7. QED BY <1>3, <1>5, <1>6

LEMMA RemovalsStep == ASSUME IInv, [Next]_vars
                      PROVE  RemovalsCounted'
<1>t. /\ \A i \in Used : item[i] \in Entry /\ item[i].name \in Name /\ i \in Id
      /\ items \subseteq Used /\ to_add \subseteq Used /\ items \cap to_add = {}
      /\ TypeOK /\ RemovalsCounted
  BY Sizes DEF IInv, TypeOK, Used, Entry
<1>1. CASE CallStart
  <2>1. CASE to_remove <= MaxDeleted
    <3>1. /\ item' = Drop(Removed(to_add)) /\ items' = items \cup (to_add \ Removed(to_add))
          /\ to_remove' = to_remove
      BY <1>1, <2>1, <1>t, SizeAssumption DEF CallStart, TypeOK
    <3>2. \A i \in items' : item'[i] = item[i]
      BY <3>1, <1>t DEF Drop, Removed
    <3>3. Removed(items)' = Removed(items)
      BY <3>1, <3>2 DEF Removed
    <3>4. QED BY <3>1, <3>3, <1>t DEF RemovalsCounted
  <2>2. CASE to_remove > MaxDeleted
    <3>1. /\ item' = Drop(Removed(Used)) /\ to_remove' = 0
          /\ items' = (items \cup (to_add \ Removed(to_add))) \ Removed(items)
      BY <1>1, <2>2, <1>t, SizeAssumption DEF CallStart, TypeOK
    <3>2. \A i \in items' : item'[i] = item[i] /\ ~item[i].remove
      BY <3>1, <1>t DEF Drop, Removed
    <3>3. Removed(items)' = {}
      BY <3>2 DEF Removed
    <3>4. QED BY <3>1, <3>3, FS_EmptySet DEF RemovalsCounted
  <2>3. QED BY <2>1, <2>2, <1>t, SizeAssumption DEF TypeOK
<1>2. CASE CallEnd
  <2>1. /\ item' = Drop(Removed(to_add)) /\ items' = items \cup (to_add \ Removed(to_add))
        /\ to_remove' = to_remove
    BY <1>2 DEF CallEnd
  <2>2. \A i \in items' : item'[i] = item[i]
    BY <2>1, <1>t DEF Drop, Removed
  <2>3. Removed(items)' = Removed(items)
    BY <2>1, <2>2 DEF Removed
  <2>4. QED BY <2>1, <2>3, <1>t DEF RemovalsCounted
<1>3. ASSUME NEW i \in items, items' = items \ {i}, item' = Drop({i}),
             to_remove' = IF item[i].remove THEN to_remove - 1 ELSE to_remove
      PROVE  RemovalsCounted'
  <2>1. \A j \in items' : item'[j] = item[j]
    BY <1>3, <1>t DEF Drop
  <2>2. Removed(items)' = Removed(items) \ {i}
    BY <1>3, <2>1 DEF Removed
  <2>3. i \in Removed(items) <=> item[i].remove
    BY DEF Removed
  <2>4. QED BY <1>3, <2>2, <2>3, <1>t, RemovedFinite, FS_RemoveElement DEF RemovalsCounted
<1>4. CASE \E i \in items : CleanupHead(i) \/ RunFailed(i)
  <2>1. PICK i \in items : CleanupHead(i) \/ RunFailed(i)
    BY <1>4
  <2>2. /\ items' = items \ {i} /\ item' = Drop({i})
        /\ to_remove' = IF item[i].remove THEN to_remove - 1 ELSE to_remove
    BY <2>1 DEF CleanupHead, RunFailed, Pop
  <2>3. QED BY <2>2, <1>3
<1>5. CASE ItemDone
  <2>1. PICK k \in items : k = running
    BY <1>5 DEF ItemDone, IInv, TypeOK
  <2>2. items' = items \ {k}
    BY <1>5, <2>1 DEF ItemDone, Pop
  <2>3. CASE item' = Drop({k})
    <3>1. to_remove' = IF item[k].remove THEN to_remove - 1 ELSE to_remove
      BY <1>5, <2>1 DEF ItemDone
    <3>2. QED BY <2>2, <2>3, <3>1, <1>3
  <2>4. CASE /\ ~item[k].remove /\ item' = [item EXCEPT ![k] = Advanced(k)]
             /\ to_remove' = to_remove
    <3>1. \A j \in items' : item'[j] = item[j]
      BY <2>2, <2>4, <1>t DEF TypeOK
    <3>2. Removed(items)' = Removed(items)
      BY <2>2, <2>4, <3>1 DEF Removed
    <3>3. QED BY <2>4, <3>2, <1>t DEF RemovalsCounted
  <2>5. QED BY <1>5, <2>1, <2>3, <2>4 DEF ItemDone
<1>6. CASE \E n \in Name : SetItem(n)
  <2>1. PICK n \in Name : SetItem(n)
    BY <1>6
  <2>2. /\ items' = items /\ Kept(n)
        /\ to_remove' = IF n \notin Unnamed THEN RemoveCount(n) ELSE to_remove
    BY <2>1, <1>t, SetAdds
  <2>3. CASE n \notin Unnamed
    <3>1. \A i \in items : item'[i].remove <=> (item[i].remove \/ item[i].name = n)
      BY <2>2, <2>3, <1>t DEF Kept
    <3>2. QED BY <2>2, <2>3, <3>1, CountFlagged DEF RemovalsCounted
  <2>4. CASE n \in Unnamed
    <3>1. \A i \in items : item'[i].remove <=> item[i].remove
      BY <2>2, <2>4, <1>t DEF Kept
    <3>2. Removed(items)' = Removed(items)
      BY <2>2, <3>1 DEF Removed
    <3>3. QED BY <2>2, <2>4, <3>2, <1>t DEF RemovalsCounted
  <2>5. QED BY <2>3, <2>4
<1>7. CASE \E n \in Name : cancel_item(n)
  <2>1. PICK n \in Name : cancel_item(n)
    BY <1>7
  <2>2. /\ items' = items /\ to_remove' = RemoveCount(n)
        /\ \A i \in items : item'[i].remove <=> (item[i].remove \/ item[i].name = n)
    BY <2>1, <1>t, CancelFlags
  <2>3. QED BY <2>2, CountFlagged DEF RemovalsCounted
<1>8. CASE Tick
  <2>1. /\ item' = [i \in Id |-> IF i \in Used THEN [item[i] EXCEPT !.wait = @ - 1]
                                 ELSE item[i]]
        /\ UNCHANGED <<items, to_remove>>
    BY <1>8 DEF Tick
  <2>2. \A i \in items : item'[i].remove = item[i].remove
    BY <2>1, <1>t DEF Entry
  <2>3. Removed(items)' = Removed(items)
    BY <2>1, <2>2 DEF Removed
  <2>4. QED BY <2>1, <2>3, <1>t DEF RemovalsCounted
<1>9. CASE \/ (\E i \in items : RunItem(i)) \/ NextScheduleIn
           \/ (\E n \in MayFail : MarkFailed(n)) \/ UNCHANGED vars
  <2>1. UNCHANGED <<item, items, to_remove>>
    BY <1>9 DEF RunItem, NextScheduleIn, MarkFailed, vars
  <2>2. QED BY <2>1, <1>t DEF RemovalsCounted, Removed
<1>10. QED BY <1>1, <1>2, <1>4, <1>5, <1>6, <1>7, <1>8, <1>9 DEF Next, Call

-----------------------------------------------------------------------------
LEMMA InvInit == Init => IInv
<1> SUFFICES ASSUME Init
             PROVE  IInv
  OBVIOUS
<1>1. TypeOK
  <2>1. 0 \in 0 .. Wrap - 1 /\ 0 \in 0 .. Majors - 1 /\ 0 \in 0 .. MaxGap /\ 0 \notin {}
    BY Sizes
  <2>2. QED BY <2>1 DEF Init, TypeOK, Used
<1>2. NoneRuns /\ NeverEarly
  BY DEF Init, NoneRuns, NeverEarly
<1>3. RemovalsCounted
  <2>1. Removed(items) = {} /\ to_remove = 0
    BY DEF Init, Removed
  <2>2. QED BY <2>1, FS_EmptySet DEF RemovalsCounted
<1>4. OneLive /\ TimesTold
  BY DEF Init, OneLive, Live, TimesTold, Used
<1>5. QED BY <1>1, <1>2, <1>3, <1>4 DEF IInv

LEMMA Invariance == Spec => []IInv
<1>1. IInv /\ [Next]_vars => IInv'
  BY TypeStep, RestStep, RemovalsStep, LiveStep, TimesStep, EarlyStep DEF IInv
<1>2. QED BY <1>1, InvInit, PTL DEF Spec

LEMMA InvImplies == IInv => SchedulerInv
<1> SUFFICES ASSUME IInv
             PROVE  SchedulerInv
  OBVIOUS
<1>1. \A n \in Name \ Unnamed : Cardinality(Live(n)) = IF n \in wanted THEN 1 ELSE 0
  BY FS_EmptySet, FS_Singleton DEF IInv, OneLive
<1>2. OneItemEach
  BY <1>1 DEF OneItemEach
<1>3. QED BY <1>2 DEF IInv, SchedulerInv

\* The scheduler's heap is in order in every state: to_remove_ counts what was removed
\* (so that the purge leaves nothing to report), a name that was set and neither
\* cancelled nor run out has exactly one item that will run, any other has none, and
\* no item runs before its time, in whatever round of millis() it was set.
THEOREM SchedulerIsSound == Spec => []SchedulerInv
BY Invariance, InvImplies, PTL
-----------------------------------------------------------------------------
(***************************************************************************)
(* What is due runs.  Here the order of the heap matters, hence the rounds *)
(* of the clock that last_execution_major counts.                          *)
(***************************************************************************)
Delays == (Timeouts \cup Intervals) \ {DontRun}

\* Majors that differ by one can be told apart, and a call comes often enough: delays,
\* with half of an interval for the offset, and pauses stay within one round of
\* millis().  An interval of 0 never moves its last_execution on, and is left behind
\* by the rounds.
Timely ==
    /\ Majors >= 3 /\ MaxGap < Wrap
    /\ 0 \notin Intervals
    /\ \A d, e \in Delays : /\ 2 * d + e + 2 * MaxGap < 2 * Wrap
                            /\ e + 4 * MaxGap < 2 * Wrap

\* x, in the round m, is t ticks after the reading c in the round r.
Apart(x, m, c, r, t) == \E k \in Int : x = c + t + k * Wrap /\ m = (r - k) % Majors

LEMMA ModUnique == ASSUME NEW V \in Nat \ {0}, NEW r \in 0 .. V - 1, NEW q \in Int,
                          NEW a \in Int, a = r + q * V
                   PROVE  a % V = r
<1>1. PICK p \in Int : a % V = a - p * V
  BY ModRound
<1>2. a % V \in 0 .. V - 1
  BY ModType
<1> DEFINE s == a % V
           z == (q - p) * V
<1>3. s = r + z /\ s \in 0 .. V - 1 /\ z \in Int
  <2>1. z = q * V - p * V /\ q * V \in Int /\ p * V \in Int
    BY Distribute
  <2>2. QED BY <2>1, <1>1, <1>2
<1>4. CASE q - p >= 1
  <2>1. z >= V
    BY OneRound, <1>4
  <2> HIDE DEF s, z
  <2>2. QED BY <2>1, <1>3
<1>5. CASE p - q >= 1
  <2>1. (p - q) * V >= V
    BY OneRound, <1>5
  <2>2. z = -((p - q) * V) /\ (p - q) * V \in Int
    BY Distribute
  <2> HIDE DEF s, z
  <2>3. QED BY <2>1, <2>2, <1>3
<1>6. CASE p = q
  <2>1. z = 0
    BY <1>6
  <2> HIDE DEF z
  <2>2. QED BY <2>1, <1>3
<1>7. QED BY <1>4, <1>5, <1>6

\* A sum taken modulo V twice.
LEMMA ModAgain == ASSUME NEW V \in Nat \ {0}, NEW a \in Int, NEW b \in Int
                  PROVE  ((a % V) + b) % V = (a + b) % V
<1>1. PICK q \in Int : a % V = a - q * V
  BY ModRound
<1>2. PICK p \in Int : (a + b) % V = (a + b) - p * V
  <2>1. a + b \in Int
    OBVIOUS
  <2>2. QED BY <2>1, ModRound
<1> DEFINE r == (a + b) % V
           s == a % V
<1>3. r \in 0 .. V - 1 /\ s \in 0 .. V - 1
  BY ModType
<1>4. /\ (p - q) * V = p * V - q * V
      /\ p * V \in Int /\ q * V \in Int
  BY Distribute
<1>5. s + b = r + (p - q) * V
  <2> DEFINE P == p * V
             Q == q * V
             z == (p - q) * V
  <2>1. /\ s = a - Q /\ r = (a + b) - P /\ z = P - Q
        /\ P \in Int /\ Q \in Int /\ s \in Int /\ r \in Int
    BY <1>1, <1>2, <1>3, <1>4
  <2> HIDE DEF P, Q, z, r, s
  <2>2. s + b = r + z
    BY <2>1
  <2>3. QED BY <2>2 DEF z
<1>6. s + b \in Int /\ p - q \in Int
  BY <1>3
<1> HIDE DEF r, s
<1>7. (s + b) % V = r
  BY <1>3, <1>5, <1>6, ModUnique
<1>8. QED BY <1>7 DEF r, s

LEMMA NextMajor == ASSUME NEW a \in Int, NEW b, b = a % Majors
                   PROVE  (b + 1) % Majors = (a + 1) % Majors
<1>1. \A c \in Int : ((a % Majors) + c) % Majors = (a + c) % Majors
  BY Sizes, ModAgain
<1>2. 1 \in Int
  OBVIOUS
<1>3. QED BY <1>1, <1>2

\* A number of rounds that lies within less than a round of 0 is none.
LEMMA NoRound == ASSUME NEW V \in Nat \ {0}, NEW q \in Int, -V < q * V, q * V < V
                 PROVE  q = 0
<1>1. CASE q >= 1
  <2>1. q * V >= V
    BY <1>1, OneRound
  <2>2. QED BY <2>1, Distribute
<1>2. CASE -q >= 1
  <2>1. (-q) * V >= V
    BY <1>2, OneRound
  <2>2. q * V = -((-q) * V) /\ q * V \in Int
    OBVIOUS
  <2>3. QED BY <2>1, <2>2
<1>3. QED BY <1>1, <1>2

\* ... and one that lies between none and two is none or one.
LEMMA OneOrNoRound == ASSUME NEW V \in Nat \ {0}, NEW q \in Int,
                             -V < q * V, q * V < 2 * V
                      PROVE  q \in {0, 1}
<1>1. CASE q >= 1
  <2>1. (q - 1) * V = q * V - V /\ q * V \in Int
    OBVIOUS
  <2>2. q * V >= V
    BY <1>1, OneRound
  <2>3. q - 1 = 0
    <3>1. -V < (q - 1) * V /\ (q - 1) * V < V
      BY <2>1, <2>2
    <3>2. QED BY <3>1, NoRound
  <2>4. QED BY <2>3
<1>2. CASE q <= 0
  <2>1. q * V <= 0
    BY <1>2
  <2>2. q * V < V
    BY <2>1
  <2>3. QED BY <2>2, NoRound
<1>3. QED BY <1>1, <1>2

\* Moving on by less than a round: the round counts one more when the clock wraps.
LEMMA MovesOn ==
    ASSUME NEW x \in 0 .. Wrap - 1, NEW m \in Int, NEW c \in Int, NEW r \in Int,
           NEW t \in Int, NEW d \in 0 .. Wrap - 1, Apart(x, m, c, r, t)
    PROVE  LET y == (x + d) % Wrap
           IN  Apart(y, IF y < x THEN (m + 1) % Majors ELSE m, c, r, t + d)
<1>s. Wrap \in Nat \ {0} /\ Majors \in Nat \ {0}
  BY Sizes
<1> DEFINE y == (x + d) % Wrap
<1>1. PICK k \in Int : x = c + t + k * Wrap /\ m = (r - k) % Majors
  BY DEF Apart
<1>2. /\ k * Wrap \in Int
      /\ (k - 1) * Wrap = k * Wrap - Wrap
  BY <1>s
<1>3. CASE x + d < Wrap
  <2>1. x + d \in 0 .. Wrap - 1 /\ x + d \in Int /\ x + d = (x + d) + 0 * Wrap
    BY <1>3, <1>s
  <2>2. y = x + d
    BY <2>1, <1>s, ModUnique
  <2>3. ~(y < x)
    BY <2>2
  <2>4. y = c + (t + d) + k * Wrap
    BY <2>2, <1>1, <1>2
  <2> HIDE DEF y
  <2>5. Apart(y, m, c, r, t + d)
    BY <2>4, <1>1 DEF Apart
  <2>6. QED BY <2>3, <2>5 DEF y
<1>4. CASE x + d >= Wrap
  <2>1. /\ x + d - Wrap \in 0 .. Wrap - 1 /\ x + d \in Int
        /\ x + d = (x + d - Wrap) + 1 * Wrap
    BY <1>4, <1>s
  <2>2. y = x + d - Wrap
    BY <2>1, <1>s, ModUnique
  <2>3. y < x
    BY <2>2, <1>s
  <2>4. y = c + (t + d) + (k - 1) * Wrap /\ k - 1 \in Int
    BY <2>2, <1>1, <1>2, <1>s
  <2>5. (m + 1) % Majors = (r - (k - 1)) % Majors
    <3>1. r - k \in Int /\ (r - k) + 1 = r - (k - 1)
      OBVIOUS
    <3>2. (m + 1) % Majors = ((r - k) + 1) % Majors
      BY <3>1, <1>1, NextMajor
    <3>3. QED BY <3>1, <3>2
  <2> HIDE DEF y
  <2>6. Apart(y, (m + 1) % Majors, c, r, t + d)
    BY <2>4, <2>5 DEF Apart
  <2>7. QED BY <2>3, <2>6 DEF y
<1>5. QED BY <1>3, <1>4, <1>s

\* Of two times less than a round apart, their readings and rounds tell the later.
LEMMA LaterIsTold ==
    ASSUME Majors >= 3,
           NEW x \in 0 .. Wrap - 1, NEW y \in 0 .. Wrap - 1, NEW m, NEW l,
           NEW c \in Int, NEW r \in Int, NEW t \in Int, NEW s \in Int,
           Apart(x, m, c, r, t), Apart(y, l, c, r, s), t > s, t - s < Wrap
    PROVE  IF m = l THEN x > y ELSE (m - l) % Majors < (l - m) % Majors
<1>s. Wrap \in Nat \ {0} /\ Majors \in Nat \ {0}
  BY Sizes
<1>1. PICK k \in Int : x = c + t + k * Wrap /\ m = (r - k) % Majors
  BY DEF Apart
<1>2. PICK j \in Int : y = c + s + j * Wrap /\ l = (r - j) % Majors
  BY DEF Apart
<1>3. /\ k * Wrap \in Int /\ j * Wrap \in Int /\ (j - k) * Wrap = j * Wrap - k * Wrap
  BY <1>s, Distribute
<1> DEFINE z == (j - k) * Wrap
<1>4. z = (t - s) - (x - y) /\ z \in Int
  BY <1>1, <1>2, <1>3
<1>5. j - k \in {0, 1}
  <2>1. -Wrap < z /\ z < 2 * Wrap
    <3> HIDE DEF z
    <3>1. QED BY <1>4, <1>s
  <2>2. j - k \in Int
    OBVIOUS
  <2>3. QED BY <2>1, <2>2, <1>s, OneOrNoRound
<1>6. CASE j - k = 0
  <2>1. j = k
    BY <1>6
  <2>2. m = l
    BY <2>1, <1>1, <1>2
  <2>3. z = 0
    BY <1>6, <1>s
  <2>4. x > y
    <3> HIDE DEF z
    <3>1. QED BY <2>3, <1>4
  <2>5. QED BY <2>2, <2>4
<1>7. CASE j - k = 1
  <2>1. j = k + 1 /\ r - j \in Int /\ r - k = (r - j) + 1
    BY <1>7
  <2>2. m = (l + 1) % Majors
    BY <2>1, <1>1, <1>2, NextMajor
  <2>3. l \in 0 .. Majors - 1
    BY <2>1, <1>2, <1>s, ModType
  <2>4. CASE l + 1 < Majors
    <3>1. l + 1 \in 0 .. Majors - 1 /\ l + 1 = (l + 1) + 0 * Majors
      BY <2>3, <2>4, <1>s
    <3> DEFINE n == l + 1
    <3>0. n \in 0 .. Majors - 1 /\ n \in Int /\ n = n + 0 * Majors /\ 0 \in Int
      BY <3>1, <1>s
    <3> HIDE DEF n
    <3>a. n % Majors = n
      BY <3>0, <1>s, ModUnique
    <3>2. m = l + 1
      BY <3>a, <2>2 DEF n
    <3>3. m - l = 1 + 0 * Majors /\ l - m = (Majors - 1) + (-1) * Majors
      BY <3>2, <2>3, <1>s
    <3>4. QED
      <4>1. 1 \in 0 .. Majors - 1 /\ Majors - 1 \in 0 .. Majors - 1
            /\ m - l \in Int /\ l - m \in Int /\ 0 \in Int /\ -1 \in Int
        BY <3>2, <2>3, <1>s
      <4>2. (m - l) % Majors = 1 /\ (l - m) % Majors = Majors - 1
        BY <4>1, <3>3, <1>s, ModUnique
      <4>3. m # l
        BY <3>2, <2>3
      <4>4. QED BY <4>2, <4>3, <1>s
  <2>5. CASE l = Majors - 1
    <3>1. 0 \in 0 .. Majors - 1 /\ l + 1 = 0 + 1 * Majors /\ l + 1 \in Int
      BY <2>5, <1>s
    <3>2. (l + 1) % Majors = 0
      <4> DEFINE n == l + 1
      <4>1. n \in Int /\ n = 0 + 1 * Majors /\ 0 \in 0 .. Majors - 1 /\ 1 \in Int
        BY <3>1, <1>s
      <4> HIDE DEF n
      <4>2. n % Majors = 0
        BY <4>1, <1>s, ModUnique
      <4>3. QED BY <4>2 DEF n
    <3>0. m = 0
      BY <2>2, <3>2
    <3>3. m - l = 1 + (-1) * Majors /\ l - m = (Majors - 1) + 0 * Majors
      BY <3>0, <2>5, <1>s
    <3>4. 1 \in 0 .. Majors - 1 /\ Majors - 1 \in 0 .. Majors - 1
          /\ m - l \in Int /\ l - m \in Int /\ 0 \in Int /\ -1 \in Int
      BY <3>0, <2>5, <1>s
    <3>5. (m - l) % Majors = 1 /\ (l - m) % Majors = Majors - 1
      BY <3>4, <3>3, <1>s, ModUnique
    <3>6. m # l
      BY <3>0, <2>5, <1>s
    <3>7. QED BY <3>5, <3>6, <1>s
  <2>6. QED BY <2>3, <2>4, <2>5, <1>s
<1>8. QED BY <1>5, <1>6, <1>7

-----------------------------------------------------------------------------
\* The round that millis() is in, whether or not the scheduler has noticed it.
Round == IF millis < last_millis THEN (millis_major + 1) % Majors ELSE millis_major

\* The scheduler has read the clock since the last call began, or then.
ClockSeen == \E a \in 0 .. gap : last_millis = millis - a \/ last_millis = millis - a + Wrap

\* The rounds of last_execution are counted right.
InRound(i) == Apart(item[i].last_execution, item[i].last_execution_major,
                    millis, Round, -Elapsed(i))

\* What a call has not come to yet may be late by the time since the call before.
Slack(i) == IF pc # "idle" /\ i \in items THEN MaxGap ELSE 0

\* Otherwise an item is late by its first offset at most.
Prompt == \A i \in Used : 2 * (item[i].wait + gap + Slack(i)) >= -item[i].interval

Delayed == \A i \in Used : /\ item[i].interval \in Delays
                           /\ item[i].name \in Interval => item[i].interval # 0

DueInv == /\ ClockSeen
          /\ Delayed
          /\ Prompt
          /\ \A i \in Used : InRound(i)

LEMMA DelayType == \A d \in Delays : d \in 0 .. Wrap - 1 /\ d \in Int
BY ClockAssumption DEF Delays

\* The bounds on an item of the heap during a call, spelled out.
LEMMA ItemBounds ==
    ASSUME Timely, IInv, DueInv, pc # "idle", NEW i \in items
    PROVE  /\ i \in Used /\ item[i] \in Entry
           /\ item[i].interval \in Delays /\ item[i].interval \in 0 .. Wrap - 1
           /\ item[i].wait \in Int /\ gap \in 0 .. MaxGap /\ MaxGap \in Nat /\ Wrap \in Nat
           /\ 3 * item[i].interval + 2 * MaxGap < 2 * Wrap
           /\ item[i].interval + 4 * MaxGap < 2 * Wrap
           /\ 2 * (item[i].wait + gap + MaxGap) >= -item[i].interval
           /\ item[i].interval - item[i].wait >= gap
           /\ Elapsed(i) = item[i].interval - item[i].wait
<1>1. i \in Used /\ item[i] \in Entry /\ gap \in 0 .. MaxGap
  BY DEF Used, IInv, TypeOK
<1>2. item[i].interval \in Delays /\ item[i].wait \in Int
  BY <1>1 DEF DueInv, Delayed, Entry
<1>3. item[i].interval \in 0 .. Wrap - 1
  BY <1>2, DelayType
<1>4. 2 * (item[i].wait + gap + MaxGap) >= -item[i].interval
  <2>1. Slack(i) = MaxGap
    BY DEF Slack
  <2>2. QED BY <2>1, <1>1 DEF DueInv, Prompt
<1>5. Elapsed(i) >= gap
  BY DEF IInv, TimesTold
<1>6. /\ 2 * item[i].interval + item[i].interval + 2 * MaxGap < 2 * Wrap
      /\ item[i].interval + 4 * MaxGap < 2 * Wrap
  BY <1>2 DEF Timely
<1>7. QED BY <1>1, <1>2, <1>3, <1>4, <1>5, <1>6, Sizes DEF Elapsed

\* The time that an item shows is the time that had passed, whole rounds included.
LEMMA ShownIs ==
    ASSUME Timely, IInv, DueInv, pc # "idle", NEW i \in items
    PROVE  /\ Sub(now, item[i].last_execution) = Elapsed(i) - gap
           /\ Elapsed(i) - gap \in 0 .. Wrap - 1
<1>1. PICK d \in 0 .. Wrap - 1 : d = item[i].interval
  BY ItemBounds
<1>2. PICK w \in Int : w = item[i].wait
  BY ItemBounds
<1>3. PICK g \in 0 .. MaxGap : g = gap
  BY ItemBounds
<1>4. /\ 3 * d + 2 * MaxGap < 2 * Wrap /\ 2 * (w + g + MaxGap) >= -d /\ d - w >= g
      /\ Elapsed(i) = d - w /\ MaxGap \in Nat /\ Wrap \in Nat
  BY <1>1, <1>2, <1>3, ItemBounds
<1>5. d - w - g \in 0 .. Wrap - 1
  BY <1>4
<1>6. Elapsed(i) - gap = d - w - g
  BY <1>3, <1>4
<1>7. PICK q \in Int : now - item[i].last_execution = (Elapsed(i) - gap) + q * Wrap
  BY ShownReading DEF SameReading
<1> DEFINE b == now - item[i].last_execution
           e == Elapsed(i) - gap
<1>8. b \in Int /\ b = e + q * Wrap /\ e \in 0 .. Wrap - 1
  BY <1>5, <1>6, <1>7, ShownReading
<1> HIDE DEF b, e
<1>9. b % Wrap = e
  BY <1>8, Sizes, ModUnique
<1>10. QED BY <1>8, <1>9 DEF b, e, Sub

\* Where an item's next execution lies, and in which round.
LEMMA NextIn ==
    ASSUME IInv, DueInv, NEW i \in Used
    PROVE  /\ next_execution(i) \in 0 .. Wrap - 1
           /\ Apart(next_execution(i), next_execution_major(i), millis, Round, item[i].wait)
<1>1. /\ item[i] \in Entry /\ item[i].interval \in 0 .. Wrap - 1
      /\ item[i].last_execution \in 0 .. Wrap - 1
      /\ item[i].last_execution_major \in Int /\ item[i].wait \in Int
  <2>1. item[i] \in Entry /\ Majors \in Nat /\ Wrap \in Nat
    BY Sizes DEF IInv, TypeOK, Used
  <2>2. QED BY <2>1 DEF Entry
<1>2. millis \in Int /\ Round \in Int
  <2>1. millis \in Int /\ millis_major \in Int
    BY Sizes DEF IInv, TypeOK
  <2>2. (millis_major + 1) % Majors \in Int
    BY <2>1, Sizes, ModType
  <2>3. QED BY <2>1, <2>2 DEF Round
<1> DEFINE x == item[i].last_execution
           m == item[i].last_execution_major
           d == item[i].interval
           t == -Elapsed(i)
<1>3. Apart(x, m, millis, Round, t)
  BY DEF DueInv, InRound
<1>4. t \in Int /\ t + d = item[i].wait
  BY <1>1 DEF Elapsed
<1>5. /\ next_execution(i) = (x + d) % Wrap
      /\ next_execution_major(i) = IF next_execution(i) < x THEN (m + 1) % Majors ELSE m
  BY DEF next_execution, next_execution_major
<1>6. x \in 0 .. Wrap - 1 /\ m \in Int /\ d \in 0 .. Wrap - 1
  BY <1>1
<1> HIDE DEF x, m, d, t
<1>7. x + d \in Int
  BY <1>6, Sizes
<1>8. next_execution(i) \in 0 .. Wrap - 1
  BY <1>5, <1>7, Sizes, ModType
<1>9. Apart(next_execution(i), next_execution_major(i), millis, Round, t + d)
  BY <1>2, <1>3, <1>4, <1>5, <1>6, MovesOn
<1>10. QED BY <1>4, <1>8, <1>9

\* Of two items of the heap, the one due later is the later one to the heap too.
LEMMA HeapOrder ==
    ASSUME Timely, IInv, DueInv, pc # "idle", NEW a \in items, NEW b \in items,
           item[a].wait > item[b].wait
    PROVE  cmp(a, b)
<1>1. a \in Used /\ b \in Used
  BY DEF Used
<1> DEFINE x == next_execution(a)
           m == next_execution_major(a)
           y == next_execution(b)
           l == next_execution_major(b)
           t == item[a].wait
           s == item[b].wait
<1>2. /\ x \in 0 .. Wrap - 1 /\ Apart(x, m, millis, Round, t)
      /\ y \in 0 .. Wrap - 1 /\ Apart(y, l, millis, Round, s)
  BY <1>1, NextIn
<1>3. t \in Int /\ s \in Int /\ t > s /\ t - s < Wrap
  <2>1. PICK d \in Delays : d = item[a].interval
    BY ItemBounds
  <2>2. PICK e \in Delays : e = item[b].interval
    BY ItemBounds
  <2>3. PICK g \in 0 .. MaxGap : g = gap
    BY ItemBounds
  <2>4. 2 * d + e + 2 * MaxGap < 2 * Wrap /\ d \in Int /\ e \in Int
    BY DelayType DEF Timely
  <2>5. /\ t \in Int /\ d - t >= g
        /\ s \in Int /\ 2 * (s + g + MaxGap) >= -e
        /\ MaxGap \in Nat /\ Wrap \in Nat
    BY <2>1, <2>2, <2>3, ItemBounds
  <2>6. t > s
    OBVIOUS
  <2> HIDE DEF t, s
  <2>7. QED BY <2>4, <2>5, <2>6
<1>4. millis \in Int /\ Round \in Int /\ Majors >= 3
  <2>1. millis \in Int /\ millis_major \in Int
    BY Sizes DEF IInv, TypeOK
  <2>2. (millis_major + 1) % Majors \in Int
    BY <2>1, Sizes, ModType
  <2>3. QED BY <2>1, <2>2 DEF Round, Timely
<1> HIDE DEF x, m, y, l, t, s
<1>5. IF m = l THEN x > y ELSE (m - l) % Majors < (l - m) % Majors
  BY <1>2, <1>3, <1>4, LaterIsTold
<1>6. QED BY <1>5 DEF cmp, x, m, y, l

\* What was due when the call read the clock is due to the call.
LEMMA DueIsSeen ==
    ASSUME Timely, IInv, DueInv, pc # "idle", NEW i \in items,
           item[i].wait + gap <= 0
    PROVE  Due(i)
<1>1. PICK d \in 0 .. Wrap - 1 : d = item[i].interval
  BY ItemBounds
<1>2. PICK w \in Int : w = item[i].wait
  BY ItemBounds
<1>3. PICK g \in 0 .. MaxGap : g = gap
  BY ItemBounds
<1>4. /\ d + 4 * MaxGap < 2 * Wrap /\ 2 * (w + g + MaxGap) >= -d /\ w + g <= 0
      /\ Elapsed(i) = d - w /\ MaxGap \in Nat /\ Wrap \in Nat \ {0}
  BY <1>1, <1>2, <1>3, ItemBounds, Sizes
<1>5. Sub(now, item[i].last_execution) >= item[i].interval
  BY <1>1, <1>3, <1>4, ShownIs
<1>6. PICK x \in 0 .. Wrap - 1 : x = next_execution(i)
  BY NextIn DEF Used
<1>7. PICK k \in Int : /\ x = millis + w + k * Wrap
                       /\ next_execution_major(i) = (Round - k) % Majors
  BY <1>2, <1>6, NextIn DEF Used, Apart
<1>8. PICK c \in 0 .. Wrap - 1 : c = millis
  BY DEF IInv, TypeOK
<1>9. PICK m \in 0 .. Majors - 1 : m = millis_major
  BY DEF IInv, TypeOK
<1>m. Majors \in Nat \ {0} /\ m \in Int /\ c \in Int
  BY Sizes
<1> DEFINE z == k * Wrap
<1>10. z \in Int /\ x = c + w + z
  BY <1>7, <1>8, <1>m, Sizes, Distribute
<1>11. k \in {0, 1}
  <2>1. -Wrap < z /\ z < 2 * Wrap
    <3> HIDE DEF z
    <3>1. QED BY <1>4, <1>10
  <2>2. QED BY <2>1, <1>4, OneOrNoRound
<1>12. /\ m % Majors = m /\ (m - 0) % Majors = m
       /\ (m - 1) % Majors = (IF m = 0 THEN Majors - 1 ELSE m - 1)
  <2>1. m = m + 0 * Majors /\ 0 \in Int /\ -1 \in Int /\ m - 0 = m
    BY <1>m
  <2>2. m % Majors = m
    BY <2>1, <1>m, ModUnique
  <2> DEFINE p == m - 1
             n == IF m = 0 THEN Majors - 1 ELSE m - 1
             q == IF m = 0 THEN -1 ELSE 0
  <2>3. p = n + q * Majors /\ p \in Int /\ n \in 0 .. Majors - 1 /\ q \in Int
    BY <1>m
  <2> HIDE DEF p, n, q
  <2>4. p % Majors = n
    BY <2>3, <1>m, ModUnique
  <2>5. QED BY <2>1, <2>2, <2>4 DEF p, n
<1>13. millis_major - next_execution_major(i) <= 1
  <2>1. CASE millis >= last_millis
    <3>1. Round = m
      BY <2>1, <1>9 DEF Round, IInv, TypeOK
    <3>2. CASE k = 0
      <4>1. next_execution_major(i) = (m - 0) % Majors
        BY <3>1, <3>2, <1>7
      <4>2. QED BY <4>1, <1>9, <1>12, <1>m
    <3>3. CASE k = 1
      <4>1. next_execution_major(i) = (m - 1) % Majors
        BY <3>1, <3>3, <1>7
      <4>2. m - (IF m = 0 THEN Majors - 1 ELSE m - 1) <= 1
        BY <1>m
      <4>3. QED BY <4>1, <4>2, <1>9, <1>12
    <3>4. QED BY <3>2, <3>3, <1>11
  <2>2. CASE millis < last_millis
    <3>1. PICK a \in 0 .. g : last_millis = c - a \/ last_millis = c - a + Wrap
      BY <1>3, <1>8 DEF DueInv, ClockSeen
    <3>2. c < a
      <4>1. last_millis \in 0 .. Wrap - 1
        BY DEF IInv, TypeOK
      <4>2. QED BY <3>1, <4>1, <2>2, <1>8, <1>4
    <3>3. k = 1
      <4>1. z > 0
        <5> HIDE DEF z
        <5>1. QED BY <3>1, <3>2, <1>4, <1>10
      <4>2. k # 0
        BY <4>1, <1>4
      <4>3. QED BY <4>2, <1>11
    <3>4. Round = (m + 1) % Majors
      BY <2>2, <1>9 DEF Round
    <3>5. next_execution_major(i) = m
      <4>1. \A e \in Int : (((m + 1) % Majors) + e) % Majors = ((m + 1) + e) % Majors
        <5> DEFINE p == m + 1
        <5>1. p \in Int
          BY <1>m
        <5> HIDE DEF p
        <5>2. \A e \in Int : ((p % Majors) + e) % Majors = (p + e) % Majors
          BY <5>1, <1>m, ModAgain
        <5>3. QED BY <5>2 DEF p
      <4>2. -1 \in Int /\ (m + 1) + (-1) = m
        BY <1>m
      <4>3. (((m + 1) % Majors) + (-1)) % Majors = m % Majors
        BY <4>1, <4>2
      <4>4. (m + 1) % Majors \in Int
        BY <1>m, ModType
      <4>5. ((m + 1) % Majors) + (-1) = Round - k
        BY <4>4, <3>3, <3>4
      <4>6. m % Majors = m
        BY <1>12
      <4>7. QED BY <4>3, <4>5, <4>6, <1>7
    <3>6. QED BY <3>5, <1>9, <1>m
  <2>3. millis \in Int /\ last_millis \in Int
    BY Sizes DEF IInv, TypeOK
  <2>4. QED BY <2>1, <2>2, <2>3
<1>14. QED BY <1>5, <1>13 DEF Due

\* A call ends when nothing of the heap was due.
LEMMA EndsWithNoneDue ==
    ASSUME Timely, IInv, DueInv, CallEnd
    PROVE  \A i \in items : item[i].wait + gap > 0
<1> SUFFICES ASSUME NEW i \in items
             PROVE  item[i].wait + gap > 0
  OBVIOUS
<1>1. pc # "idle" /\ pc = "run"
  BY DEF CallEnd
<1>2. PICK h \in Head : ~item[h].remove /\ ~Due(h)
  BY DEF CallEnd
<1>3. h \in items /\ ~cmp(h, i)
  BY <1>2 DEF Head
<1>4. item[h].wait \in Int /\ item[i].wait \in Int /\ gap \in Int
  BY <1>1, <1>3, ItemBounds, Sizes
<1>5. item[h].wait + gap > 0
  BY <1>1, <1>2, <1>3, <1>4, DueIsSeen
<1>6. item[h].wait <= item[i].wait
  BY <1>1, <1>3, <1>4, HeapOrder
<1>7. QED BY <1>4, <1>5, <1>6

(***************************************************************************)
(* What a step does to the clock and to the items.                         *)
(***************************************************************************)
\* Reading the clock does not change what round it is.
LEMMA ClockStays ==
    ASSUME IInv, ClockSeen, [Next]_vars, ~Tick
    PROVE  millis' = millis /\ Round' = Round /\ ClockSeen'
<1>t. gap \in Nat /\ gap' \in Nat /\ millis \in Int
  BY TypeStep, Sizes DEF IInv, TypeOK
<1>1. CASE ReadClock /\ millis' = millis
  <2>1. last_millis' = millis /\ millis_major' = Round
    BY <1>1 DEF ReadClock, Round
  <2>2. Round' = Round
    BY <1>1, <1>t, <2>1 DEF Round
  <2>3. 0 \in 0 .. gap' /\ last_millis' = millis' - 0
    BY <1>1, <1>t, <2>1
  <2>4. ClockSeen'
    BY <2>3 DEF ClockSeen
  <2>5. QED BY <1>1, <2>2, <2>4
<1>2. CASE UNCHANGED <<millis, last_millis, millis_major, gap>>
  BY <1>2 DEF Round, ClockSeen
<1>3. (ReadClock /\ millis' = millis) \/ UNCHANGED <<millis, last_millis, millis_major, gap>>
  BY DEF Next, Call, CallStart, ItemDone, CallEnd, CleanupHead, RunFailed, RunItem,
         NextScheduleIn, SetItem, set_timeout, set_interval, Set, cancel_item, MarkFailed,
         clock, vars
<1>4. QED BY <1>1, <1>2, <1>3

\* Untouched but for the removal flag.
Untouched(i) ==
    /\ item'[i].name = item[i].name /\ item'[i].interval = item[i].interval
    /\ item'[i].last_execution = item[i].last_execution
    /\ item'[i].last_execution_major = item[i].last_execution_major
    /\ item'[i].wait = item[i].wait

LEMMA FlaggedUntouched ==
    ASSUME TypeOK, NEW n, NEW i \in Used, item'[i] = Flagged(n)[i]
    PROVE  Untouched(i)
BY DEF Untouched, TypeOK, Flagged, Cancelled, Matches, Entry, Used

\* A reading less than a round before c: the round before counts one less.
LEMMA OffsetBack ==
    ASSUME NEW c \in 0 .. Wrap - 1, NEW b \in 0 .. Wrap - 1, NEW r \in 0 .. Majors - 1
    PROVE  LET x == (c - b) % Wrap
           IN  Apart(x, IF x > c THEN (r - 1) % Majors ELSE r, c, r, -b)
<1>s. Wrap \in Nat \ {0} /\ Majors \in Nat \ {0} /\ c \in Int /\ b \in Int /\ r \in Int
  BY Sizes
<1> DEFINE x == (c - b) % Wrap
<1>1. CASE c >= b
  <2> DEFINE a == c - b
  <2>1. a \in 0 .. Wrap - 1 /\ a \in Int /\ a = a + 0 * Wrap /\ 0 \in Int
    BY <1>1, <1>s
  <2> HIDE DEF a
  <2>2. a % Wrap = a
    BY <2>1, <1>s, ModUnique
  <2>3. x = c - b
    BY <2>2 DEF a
  <2>4. r % Majors = r /\ r - 0 = r
    <3>1. r = r + 0 * Majors /\ 0 \in Int
      BY <1>s
    <3>2. QED BY <3>1, <1>s, ModUnique
  <2>5. x = c + (-b) + 0 * Wrap /\ r = (r - 0) % Majors
    BY <2>3, <2>4, <1>s
  <2>6. ~(x > c)
    BY <2>3, <1>s
  <2> HIDE DEF x
  <2>7. Apart(x, r, c, r, -b)
    BY <2>5 DEF Apart
  <2>8. QED BY <2>6, <2>7 DEF x
<1>2. CASE c < b
  <2> DEFINE a == c - b
  <2>1. a + Wrap \in 0 .. Wrap - 1 /\ a \in Int /\ a = (a + Wrap) + (-1) * Wrap /\ -1 \in Int
    BY <1>2, <1>s
  <2> HIDE DEF a
  <2>2. a % Wrap = a + Wrap
    BY <2>1, <1>s, ModUnique
  <2>3. x = c - b + Wrap
    BY <2>2 DEF a
  <2>4. x = c + (-b) + 1 * Wrap
    BY <2>3, <1>s
  <2>5. x > c
    BY <2>3, <1>s
  <2> HIDE DEF x
  <2>6. Apart(x, (r - 1) % Majors, c, r, -b)
    BY <2>4 DEF Apart
  <2>7. QED BY <2>5, <2>6 DEF x
<1>3. QED BY <1>1, <1>2, <1>s

\* What set_timeout and set_interval give a new item.
Starts(n, d, last, major, wait) ==
    /\ d \in Delays /\ (n \in Interval => d # 0)
    /\ wait \in Int /\ 2 * wait >= -d
    /\ Apart(last, major, millis, millis_major', wait - d)

LEMMA SetStarts ==
    ASSUME Timely, IInv, NEW n \in Name, SetItem(n)
    PROVE  \E d, last, major, wait :
               /\ Set(n, d, last, major, wait)
               /\ d # DontRun => Starts(n, d, last, major, wait)
<1>m. millis \in 0 .. Wrap - 1
  BY DEF IInv, TypeOK
<1>r. ReadClock
  BY DEF SetItem, set_timeout, set_interval, Set
<1>j. PICK r \in 0 .. Majors - 1 : r = millis_major'
  BY <1>r, ReadClockTypes DEF IInv
<1>d. n \in Timeout => n \notin Interval
  BY NameAssumption
<1>1. CASE n \in Timeout /\ \E d \in Timeouts : set_timeout(n, d)
  <2>1. PICK d \in Timeouts : set_timeout(n, d)
    BY <1>1
  <2>2. d \in 0 .. Wrap - 1 /\ d \in Int
    BY ClockAssumption
  <2>3. Set(n, d, millis, r, d)
    BY <2>1, <1>j DEF set_timeout
  <2>4. Apart(millis, r, millis, r, d - d)
    <3>1. r = r + 0 * Majors /\ 0 \in Int /\ r \in Int
      BY Sizes
    <3>2. r % Majors = r
      BY <3>1, Sizes, ModUnique
    <3>3. r - 0 = r /\ millis = millis + (d - d) + 0 * Wrap
      BY <3>1, <2>2, <1>m, Sizes
    <3>4. QED BY <3>1, <3>2, <3>3 DEF Apart
  <2>5. d # DontRun => d \in Delays
    BY DEF Delays
  <2>6. 2 * d >= -d
    BY <2>2
  <2>7. QED BY <2>2, <2>3, <2>4, <2>5, <2>6, <1>1, <1>d, <1>j DEF Starts
<1>2. CASE n \in Interval /\ \E d \in Intervals : set_interval(n, d)
  <2>1. PICK d \in Intervals : set_interval(n, d)
    BY <1>2
  <2>2. d \in 0 .. Wrap - 1 /\ d \in Int /\ d # 0
    BY ClockAssumption DEF Timely
  <2> DEFINE R == 0 .. (IF d \in {0, DontRun} THEN 0 ELSE d - 1)
  <2>3. PICK offset \in {q \div 2 : q \in R} :
            Set(n, d, Sub(millis, offset + d),
                IF Sub(millis, offset + d) > millis
                THEN (millis_major' - 1) % Majors ELSE millis_major', -offset)
    BY <2>1 DEF set_interval
  <2>4. offset \in Nat /\ 2 * offset <= d
    <3>1. PICK q \in R : offset = q \div 2
      OBVIOUS
    <3>2. q \in Nat /\ q <= d
      BY <2>2
    <3>3. (q \div 2) * 2 \in Nat /\ (q \div 2) * 2 <= q /\ q \div 2 \in Nat
      BY <3>2, Multiples
    <3>4. 2 * offset <= q /\ offset \in Nat
      BY <3>1, <3>3
    <3>5. QED BY <3>2, <3>4, <2>2
  <2> DEFINE last == Sub(millis, offset + d)
             major == IF last > millis THEN (r - 1) % Majors ELSE r
  <2>5. Set(n, d, last, major, -offset)
    BY <2>3, <1>j
  <2>6. ASSUME d # DontRun
        PROVE  Starts(n, d, last, major, -offset)
    <3>1. d \in Delays
      BY <2>6 DEF Delays
    <3>2. 2 * d + d + 2 * MaxGap < 2 * Wrap /\ MaxGap \in Nat /\ Wrap \in Nat
      BY <3>1, Sizes DEF Timely
    <3> DEFINE b == offset + d
    <3>3. b \in 0 .. Wrap - 1
      BY <3>2, <2>2, <2>4
    <3>4. last = (millis - b) % Wrap /\ (-offset) - d = -b
      BY <2>2, <2>4 DEF Sub
    <3> HIDE DEF b, last
    <3>5. Apart(last, major, millis, r, -b)
      BY <3>3, <3>4, <1>m, OffsetBack
    <3> HIDE DEF major
    <3>6. -offset \in Int /\ 2 * (-offset) >= -d
      BY <2>2, <2>4
    <3>7. QED BY <3>1, <3>4, <3>5, <3>6, <2>2, <1>j DEF Starts
  <2> HIDE DEF last, major
  <2>7. QED BY <2>5, <2>6
<1>3. QED BY <1>1, <1>2 DEF SetItem

LEMMA SetFate ==
    ASSUME Timely, IInv, NEW n \in Name, SetItem(n), NEW i \in Used'
    PROVE  /\ UNCHANGED <<millis, items, pc, gap>>
           /\ i \in Used => Untouched(i)
           /\ i \notin Used => /\ i \notin items /\ item'[i].name = n
                               /\ Starts(n, item'[i].interval, item'[i].last_execution,
                                         item'[i].last_execution_major, item'[i].wait)
<1> DEFINE flagged == IF n \notin Unnamed THEN Flagged(n) ELSE item
<1>1. PICK d, last, major, wait : /\ Set(n, d, last, major, wait)
                                  /\ d # DontRun => Starts(n, d, last, major, wait)
  BY SetStarts
<1>2. UNCHANGED <<millis, items, pc, gap>>
  BY <1>1 DEF Set
<1>t. TypeOK /\ DOMAIN flagged = Id /\ Used \subseteq Id
  BY DEF IInv, TypeOK, Flagged, Used
<1>3. ASSUME i \in Used, item'[i] = flagged[i]
      PROVE  Untouched(i)
  <2>1. CASE n \notin Unnamed
    BY <1>3, <1>t, <2>1, FlaggedUntouched
  <2>2. CASE n \in Unnamed
    BY <1>3, <2>2 DEF Untouched
  <2>3. QED BY <2>1, <2>2
<1>4. CASE d = DontRun
  <2>1. item' = flagged /\ to_add' = to_add
    BY <1>1, <1>4 DEF Set
  <2> HIDE DEF flagged
  <2>2. i \in Used /\ item'[i] = flagged[i]
    BY <1>2, <2>1 DEF Used
  <2>3. QED BY <2>2, <1>2, <1>3
<1>5. CASE d # DontRun
  <2> DEFINE new == [name |-> n, interval |-> d, last_execution |-> last,
                     last_execution_major |-> major, remove |-> FALSE, wait |-> wait]
  <2>1. /\ Id \ (Used \cup {running}) # {}
        /\ to_add' = to_add \cup {Fresh} /\ item' = [flagged EXCEPT ![Fresh] = new]
    BY <1>1, <1>5 DEF Set
  <2>2. Fresh \in Id /\ Fresh \notin Used
    BY <2>1, FreshIsFree
  <2>3. /\ new.name = n /\ new.interval = d /\ new.last_execution = last
        /\ new.last_execution_major = major /\ new.wait = wait
    OBVIOUS
  <2> HIDE DEF flagged, new
  <2>4. item'[Fresh] = new /\ \A j \in Used : item'[j] = flagged[j]
    BY <1>t, <2>1, <2>2
  <2>5. i \in Used \/ i = Fresh
    BY <1>2, <2>1 DEF Used
  <2>6. CASE i \in Used
    BY <2>4, <2>6, <1>2, <1>3
  <2>7. CASE i = Fresh
    BY <2>2, <2>3, <2>4, <2>7, <1>1, <1>2, <1>5 DEF Used
  <2>8. QED BY <2>5, <2>6, <2>7
<1>6. QED BY <1>4, <1>5

\* Every other step but Tick and ItemDone leaves the items that it keeps as they were.
LEMMA OthersStay ==
    ASSUME IInv, NEW i \in Used',
           \/ CallStart \/ CallEnd \/ NextScheduleIn \/ UNCHANGED vars
           \/ \E j \in items : CleanupHead(j) \/ RunFailed(j) \/ RunItem(j)
           \/ \E n \in Name : cancel_item(n)
           \/ \E n \in MayFail : MarkFailed(n)
    PROVE  i \in Used /\ Untouched(i)
<1>t. TypeOK /\ Used \subseteq Id /\ items \cap to_add = {}
  BY DEF IInv, TypeOK, Used
<1>1. CASE CallStart \/ CallEnd
  <2>1. PICK S \in SUBSET Removed(Used) : item' = Drop(S) /\ Used' = Used \ S
    BY <1>1, <1>t, CallDrops
  <2>2. i \in Used /\ item'[i] = item[i]
    BY <2>1, <1>t, DropKeeps
  <2>3. QED BY <2>2 DEF Untouched
<1>2. CASE \E j \in items : CleanupHead(j) \/ RunFailed(j)
  <2>1. PICK j \in items : CleanupHead(j) \/ RunFailed(j)
    BY <1>2
  <2>2. items' = items \ {j} /\ item' = Drop({j}) /\ to_add' = to_add
    BY <2>1 DEF CleanupHead, RunFailed, Pop
  <2>3. i \in Used /\ item'[i] = item[i]
    BY <2>2, <1>t, DropKeeps DEF Used
  <2>4. QED BY <2>3 DEF Untouched
<1>3. CASE \E n \in Name : cancel_item(n)
  <2>1. PICK n \in Name : cancel_item(n)
    BY <1>3
  <2>2. item' = Flagged(n) /\ i \in Used
    BY <2>1 DEF cancel_item, Used
  <2>3. QED BY <2>2, <1>t, FlaggedUntouched
<1>4. CASE \/ NextScheduleIn \/ UNCHANGED vars \/ \E j \in items : RunItem(j)
           \/ \E n \in MayFail : MarkFailed(n)
  <2>1. UNCHANGED <<item, items, to_add>>
    BY <1>4 DEF NextScheduleIn, RunItem, MarkFailed, vars
  <2>2. QED BY <2>1 DEF Used, Untouched
<1>5. QED BY <1>1, <1>2, <1>3, <1>4

\* An interval that has run is due again after the call's reading of the clock.
LEMMA AdvancedIsDue ==
    ASSUME Timely, IInv, DueInv, pc = "f", item[running].interval # 0
    PROVE  LET a == Advanced(running)
           IN  /\ a.wait + gap > 0
               /\ Apart(a.last_execution, a.last_execution_major, millis, Round,
                        a.wait - a.interval)
<1>0. PICK k \in items : k = running
  BY DEF IInv, TypeOK
<1>1. k \in Used /\ pc # "idle" /\ TypeOK
  BY DEF Used, IInv
<1>2. PICK d \in 0 .. Wrap - 1 : d = item[k].interval
  BY <1>1, ItemBounds
<1>3. PICK w \in Int : w = item[k].wait
  BY <1>1, ItemBounds
<1>4. PICK g \in 0 .. MaxGap : g = gap
  BY <1>1, ItemBounds
<1>5. PICK s \in 0 .. Wrap - 1 : s = Sub(now, item[k].last_execution)
  BY <1>1, ShownIs
<1>6. s = d - w - g /\ Elapsed(k) = d - w
  BY <1>1, <1>2, <1>3, <1>4, <1>5, ItemBounds, ShownIs
<1>7. d \in Nat \ {0} /\ d \in Int /\ s \in Nat /\ g \in Int /\ Wrap \in Nat
  BY <1>0, <1>2, <1>4, Sizes
<1>8. PICK p \in Nat : p = Step(k)
  BY <1>1, StepType
<1>9. p <= s /\ s - p < d
  <2>1. p = (s \div d) * d
    BY <1>2, <1>5, <1>7, <1>8 DEF Step
  <2>2. s % d \in 0 .. d - 1 /\ s % d = s - (s \div d) * d
    BY <1>7
  <2>3. QED BY <2>1, <2>2, <1>7, <1>8
<1>10. p \in 0 .. Wrap - 1
  BY <1>5, <1>7, <1>8, <1>9
<1> DEFINE a == Advanced(k)
           x == item[k].last_execution
           m == item[k].last_execution_major
           y == (x + p) % Wrap
<1>11. /\ a.wait = w + p /\ a.interval = d /\ a.last_execution = y
       /\ a.last_execution_major = IF y < x THEN (m + 1) % Majors ELSE m
  <2>1. a.wait = w + p /\ a.interval = d /\ a.last_execution = y
    BY <1>1, <1>2, <1>3, <1>8, AdvancedIs
  <2>2. item[k] \in Entry
    BY <1>1 DEF TypeOK
  <2>3. a = [item[k] EXCEPT !.last_execution = y, !.wait = @ + p,
                            !.last_execution_major = IF y < x THEN (m + 1) % Majors ELSE m]
    BY <1>8 DEF Advanced, Step
  <2> DEFINE z == IF y < x THEN (m + 1) % Majors ELSE m
  <2>4. a = [item[k] EXCEPT !.last_execution = y, !.wait = @ + p,
                            !.last_execution_major = z]
    BY <2>3
  <2> HIDE DEF a, y, z
  <2>5. a.last_execution_major = z
    BY <2>2, <2>4 DEF Entry
  <2>6. QED BY <2>1, <2>5 DEF y, z
<1>12. a.wait + gap > 0
  BY <1>4, <1>6, <1>7, <1>9, <1>11
<1>13. Apart(x, m, millis, Round, w - d)
  <2>1. -Elapsed(k) = w - d
    BY <1>6, <1>7
  <2>2. InRound(k)
    BY <1>1 DEF DueInv
  <2>3. QED BY <2>1, <2>2 DEF InRound
<1>14. x \in 0 .. Wrap - 1 /\ m \in Int /\ millis \in Int /\ Round \in Int
  <2>1. item[k] \in Entry /\ Majors \in Nat \ {0} /\ millis \in Int /\ millis_major \in Int
    BY <1>1, Sizes DEF TypeOK
  <2>2. (millis_major + 1) % Majors \in Int
    BY <2>1, ModType
  <2>3. QED BY <2>1, <2>2 DEF Entry, Round
<1>15. w - d \in Int /\ (w - d) + p = (w + p) - d
  BY <1>7, <1>8
<1> HIDE DEF x, m
<1>16. Apart(y, IF y < x THEN (m + 1) % Majors ELSE m, millis, Round, (w - d) + p)
  BY <1>10, <1>13, <1>14, <1>15, MovesOn
<1>17. Apart(a.last_execution, a.last_execution_major, millis, Round, a.wait - a.interval)
  BY <1>11, <1>15, <1>16
<1>18. QED BY <1>0, <1>12, <1>17

\* A tick moves the present on, past the end of a round too.
LEMMA TickMoves ==
    ASSUME Timely, IInv, ClockSeen, Tick
    PROVE  /\ ClockSeen'
           /\ \A x, m : \A t \in Int : Apart(x, m, millis, Round, t)
                                       => Apart(x, m, millis', Round', t - 1)
<1>1. /\ gap' = gap + 1 /\ gap < MaxGap /\ millis' = (millis + 1) % Wrap
      /\ UNCHANGED <<last_millis, millis_major>>
  BY DEF Tick, clock
<1>2. PICK c \in 0 .. Wrap - 1 : c = millis
  BY DEF IInv, TypeOK
<1>3. PICK l \in 0 .. Wrap - 1 : l = last_millis
  BY DEF IInv, TypeOK
<1>4. PICK r \in 0 .. Majors - 1 : r = millis_major
  BY DEF IInv, TypeOK
<1>5. PICK g \in 0 .. MaxGap : g = gap
  BY DEF IInv, TypeOK
<1>s. /\ Wrap \in Nat \ {0} /\ Majors \in Nat \ {0} /\ MaxGap \in Nat
      /\ g < MaxGap /\ MaxGap < Wrap /\ c \in Int /\ l \in Int /\ r \in Int /\ g \in Int
  BY <1>1, <1>5, Sizes DEF Timely
<1>6. PICK a \in 0 .. g : l = c - a \/ l = c - a + Wrap
  BY <1>2, <1>3, <1>5 DEF ClockSeen
<1>7. CASE c + 1 < Wrap
  <2> DEFINE n == c + 1
  <2>1. n \in 0 .. Wrap - 1 /\ n \in Int /\ n = n + 0 * Wrap /\ 0 \in Int
    BY <1>7, <1>s
  <2> HIDE DEF n
  <2>2. n % Wrap = n
    BY <2>1, <1>s, ModUnique
  <2>3. millis' = c + 1
    BY <2>2, <1>1, <1>2 DEF n
  <2>4. (c < l) <=> (c + 1 < l)
    BY <1>6, <1>s
  <2>5. Round' = Round
    BY <2>3, <2>4, <1>1, <1>2, <1>3 DEF Round
  <2>6. ClockSeen'
    <3>1. a + 1 \in 0 .. gap' /\ (l = (c + 1) - (a + 1) \/ l = (c + 1) - (a + 1) + Wrap)
      BY <1>1, <1>5, <1>6, <1>s
    <3>2. last_millis' = l
      BY <1>1, <1>3
    <3>3. QED BY <3>1, <3>2, <2>3 DEF ClockSeen
  <2>7. ASSUME NEW x, NEW m, NEW t \in Int, Apart(x, m, millis, Round, t)
        PROVE  Apart(x, m, millis', Round', t - 1)
    <3>1. PICK k \in Int : x = c + t + k * Wrap /\ m = (Round - k) % Majors
      BY <2>7, <1>2 DEF Apart
    <3>2. k * Wrap \in Int
      BY <1>s
    <3>3. x = (c + 1) + (t - 1) + k * Wrap
      BY <3>1, <3>2, <1>s
    <3>4. QED BY <3>1, <3>3, <2>3, <2>5 DEF Apart
  <2>8. QED BY <2>6, <2>7
<1>8. CASE c + 1 = Wrap
  <2> DEFINE n == c + 1
  <2>1. n \in Int /\ n = 0 + 1 * Wrap /\ 0 \in 0 .. Wrap - 1 /\ 1 \in Int
    BY <1>8, <1>s
  <2> HIDE DEF n
  <2>2. n % Wrap = 0
    BY <2>1, <1>s, ModUnique
  <2>3. millis' = 0
    BY <2>2, <1>1, <1>2 DEF n
  <2>4. l = c - a /\ 0 < l /\ ~(c < l)
    BY <1>6, <1>8, <1>s
  <2>5. Round = r /\ Round' = (r + 1) % Majors
    BY <2>3, <2>4, <1>1, <1>2, <1>3, <1>4 DEF Round
  <2>6. ClockSeen'
    <3>1. a + 1 \in 0 .. gap' /\ l = 0 - (a + 1) + Wrap
      BY <1>1, <1>5, <1>6, <1>8, <1>s, <2>4
    <3>2. last_millis' = l
      BY <1>1, <1>3
    <3>3. QED BY <3>1, <3>2, <2>3 DEF ClockSeen
  <2>7. ASSUME NEW x, NEW m, NEW t \in Int, Apart(x, m, millis, Round, t)
        PROVE  Apart(x, m, millis', Round', t - 1)
    <3>1. PICK k \in Int : x = c + t + k * Wrap /\ m = (r - k) % Majors
      BY <2>5, <2>7, <1>2 DEF Apart
    <3>2. k * Wrap \in Int /\ (k + 1) * Wrap = k * Wrap + Wrap
      BY <1>s
    <3>3. x = 0 + (t - 1) + (k + 1) * Wrap
      BY <3>1, <3>2, <1>8, <1>s
    <3>4. (((r + 1) % Majors) - (k + 1)) % Majors = (r - k) % Majors
      <4> DEFINE p == r + 1
                 e == -(k + 1)
      <4>1. p \in Int /\ e \in Int /\ p + e = r - k
        BY <1>s
      <4>2. p % Majors \in Int /\ (p % Majors) + e = (p % Majors) - (k + 1)
        <5>1. p % Majors \in Int
          <6> HIDE DEF p
          <6>1. QED BY <4>1, <1>s, ModType
        <5> HIDE DEF p
        <5>2. QED BY <5>1
      <4> HIDE DEF p, e
      <4>3. ((p % Majors) + e) % Majors = (p + e) % Majors
        BY <4>1, <1>s, ModAgain
      <4>4. ((p % Majors) - (k + 1)) % Majors = (r - k) % Majors
        BY <4>1, <4>2, <4>3
      <4>5. QED BY <4>4 DEF p
    <3>5. QED BY <3>1, <3>3, <3>4, <2>3, <2>5 DEF Apart
  <2>8. QED BY <2>6, <2>7
<1>9. QED BY <1>7, <1>8, <1>s

\* How late an item may be, by the step.
LEMMA SlackStays ==
    ASSUME IInv, [Next]_vars, ~Tick, ~CallStart, ~CallEnd, NEW i \in Used \cap Used',
           ItemDone => i # running
    PROVE  gap' = gap /\ Slack(i)' = Slack(i)
<1>t. items \cap to_add = {}
  BY DEF IInv, TypeOK
<1>1. CASE ItemDone
  <2>1. /\ gap' = gap /\ pc = "f" /\ pc' = "run" /\ items' = items \ {running}
        /\ i # running
    BY <1>1 DEF ItemDone, Pop
  <2>2. QED BY <2>1 DEF Slack
<1>2. CASE \E j \in items : CleanupHead(j) \/ RunFailed(j)
  <2>1. PICK j \in items : CleanupHead(j) \/ RunFailed(j)
    BY <1>2
  <2>2. gap' = gap /\ pc' = pc /\ items' = items \ {j} /\ to_add' = to_add
    BY <2>1 DEF CleanupHead, RunFailed, Pop
  <2>3. i # j
    BY <2>2, <1>t DEF Used
  <2>4. QED BY <2>2, <2>3 DEF Slack
<1>3. CASE \E j \in items : RunItem(j)
  BY <1>3 DEF RunItem, Slack
<1>4. CASE \E n \in Name : SetItem(n)
  BY <1>4 DEF SetItem, set_timeout, set_interval, Set, Slack
<1>5. CASE \/ NextScheduleIn \/ UNCHANGED vars \/ \E n \in Name : cancel_item(n)
           \/ \E n \in MayFail : MarkFailed(n)
  BY <1>5 DEF NextScheduleIn, cancel_item, MarkFailed, vars, Slack
<1>6. QED BY <1>1, <1>2, <1>3, <1>4, <1>5 DEF Next, Call

LEMMA DueStep == ASSUME Timely, IInv, DueInv, [Next]_vars
                 PROVE  DueInv'
<1>c. ClockSeen'
  BY TickMoves, ClockStays DEF DueInv
<1>t. TypeOK /\ TypeOK' /\ Used \subseteq Id
  BY TypeStep DEF IInv, TypeOK, Used
<1>g. gap \in 0 .. MaxGap /\ gap' \in 0 .. MaxGap /\ MaxGap \in Nat /\ Wrap \in Nat
  BY <1>t, Sizes DEF TypeOK
<1>k. \A i : Slack(i) \in {0, MaxGap} /\ Slack(i)' \in {0, MaxGap}
  BY DEF Slack
<1> SUFFICES ASSUME NEW i \in Used'
             PROVE  /\ item'[i].interval \in Delays
                    /\ item'[i].name \in Interval => item'[i].interval # 0
                    /\ 2 * (item'[i].wait + gap' + Slack(i)') >= -item'[i].interval
                    /\ InRound(i)'
  BY <1>c DEF DueInv, Delayed, Prompt
<1>e. item'[i].interval \in Int /\ item'[i].wait \in Int
  <2>1. item'[i] \in Entry
    BY <1>t DEF TypeOK, Used
  <2>2. QED BY <2>1, Sizes DEF Entry
<1>i. i \in Used => /\ item[i].interval \in Int /\ item[i].wait \in Int
                    /\ item[i].interval >= 0
  <2>1. i \in Used => item[i] \in Entry
    BY <1>t DEF TypeOK
  <2>2. QED BY <2>1, Sizes DEF Entry
\* An item left as it was, that is not later than it may be.
<1>u. ASSUME i \in Used, Untouched(i), ~Tick,
             \/ gap' + Slack(i)' >= gap + Slack(i)
             \/ item[i].wait + gap' + Slack(i)' > 0
      PROVE  /\ item'[i].interval \in Delays
             /\ item'[i].name \in Interval => item'[i].interval # 0
             /\ 2 * (item'[i].wait + gap' + Slack(i)') >= -item'[i].interval
             /\ InRound(i)'
  <2>1. /\ item'[i].interval = item[i].interval /\ item'[i].name = item[i].name
        /\ item'[i].wait = item[i].wait
    BY <1>u DEF Untouched
  <2>2. /\ item'[i].interval \in Delays
        /\ item'[i].name \in Interval => item'[i].interval # 0
    BY <1>u, <2>1 DEF DueInv, Delayed
  <2>3. 2 * (item'[i].wait + gap' + Slack(i)') >= -item'[i].interval
    <3> DEFINE s == Slack(i)
               z == Slack(i)'
               w == item[i].wait
               d == item[i].interval
               g == gap
               h == gap'
    <3>1. /\ s \in Int /\ z \in Int /\ w \in Int /\ d \in Int /\ d >= 0
          /\ g \in Int /\ h \in Int
      BY <1>u, <1>i, <1>g, <1>k
    <3>2. 2 * (w + g + s) >= -d
      BY <1>u DEF DueInv, Prompt
    <3>3. h + z >= g + s \/ w + h + z > 0
      BY <1>u
    <3> HIDE DEF s, z, w, d, g, h
    <3>4. 2 * (w + h + z) >= -d
      BY <3>1, <3>2, <3>3
    <3>5. QED BY <3>4, <2>1 DEF s, z, w, d, g, h
  <2>4. InRound(i)'
    <3>1. millis' = millis /\ Round' = Round
      BY <1>u, ClockStays DEF DueInv
    <3>2. InRound(i)
      BY <1>u DEF DueInv
    <3>3. Elapsed(i)' = Elapsed(i)
      BY <2>1 DEF Elapsed
    <3>4. QED BY <3>1, <3>2, <3>3, <1>u DEF InRound, Untouched
  <2>5. QED BY <2>2, <2>3, <2>4
<1>1. CASE Tick
  <2>1. /\ item' = [j \in Id |-> IF j \in Used THEN [item[j] EXCEPT !.wait = @ - 1]
                                 ELSE item[j]]
        /\ gap' = gap + 1 /\ UNCHANGED <<items, to_add, pc>>
    BY <1>1 DEF Tick
  <2>2. i \in Used /\ i \in Id /\ item[i] \in Entry
    BY <2>1, <1>t DEF Used, TypeOK
  <2>3. item'[i] = [item[i] EXCEPT !.wait = @ - 1]
    BY <2>1, <2>2
  <2>4. /\ item'[i].interval = item[i].interval /\ item'[i].name = item[i].name
        /\ item'[i].last_execution = item[i].last_execution
        /\ item'[i].last_execution_major = item[i].last_execution_major
        /\ item'[i].wait = item[i].wait - 1
    BY <2>2, <2>3 DEF Entry
  <2>5. Slack(i)' = Slack(i)
    BY <2>1 DEF Slack
  <2>6. 2 * (item'[i].wait + gap' + Slack(i)') >= -item'[i].interval
    <3>1. 2 * (item[i].wait + gap + Slack(i)) >= -item[i].interval
      BY <2>2 DEF DueInv, Prompt
    <3>2. item'[i].wait + gap' + Slack(i)' = item[i].wait + gap + Slack(i)
      BY <2>1, <2>2, <2>4, <2>5, <1>g, <1>i, <1>k
    <3>3. QED BY <3>1, <3>2, <2>4
  <2>7. InRound(i)'
    <3>1. InRound(i)
      BY <2>2 DEF DueInv
    <3>2. -Elapsed(i) \in Int /\ -(Elapsed(i)') = (-Elapsed(i)) - 1
      BY <2>2, <2>4, <1>i DEF Elapsed
    <3>3. Apart(item[i].last_execution, item[i].last_execution_major, millis', Round',
                (-Elapsed(i)) - 1)
      BY <3>1, <3>2, <1>1, TickMoves DEF InRound, DueInv
    <3>4. QED BY <3>2, <3>3, <2>4 DEF InRound
  <2>8. QED BY <2>2, <2>4, <2>6, <2>7 DEF DueInv, Delayed
<1>2. CASE CallStart
  <2>1. i \in Used /\ Untouched(i) /\ ~Tick
    BY <1>2, OthersStay DEF CallStart, Tick, CanAct
  <2>2. to_add' = {} /\ pc = "idle" /\ pc' = "run" /\ gap' = 0
    BY <1>2 DEF CallStart
  <2>3. Slack(i) = 0 /\ Slack(i)' = MaxGap
    BY <2>2 DEF Slack, Used
  <2>4. gap' + Slack(i)' >= gap + Slack(i)
    BY <2>2, <2>3, <1>g
  <2>5. QED BY <2>1, <2>4, <1>u
<1>3. CASE CallEnd
  <2>1. i \in Used /\ Untouched(i) /\ ~Tick
    BY <1>3, OthersStay DEF CallEnd, Tick, CanAct
  <2>2. pc' = "idle" /\ gap' = gap
    BY <1>3 DEF CallEnd
  <2>3. Slack(i)' = 0
    BY <2>2 DEF Slack
  <2>4. CASE i \in items
    <3>1. item[i].wait + gap > 0
      BY <1>3, <2>4, EndsWithNoneDue
    <3>2. item[i].wait + gap' + Slack(i)' > 0
      BY <3>1, <2>1, <2>2, <2>3, <1>g, <1>i
    <3>3. QED BY <3>2, <2>1, <1>u
  <2>5. CASE i \notin items
    <3>1. Slack(i) = 0
      BY <2>5 DEF Slack
    <3>2. gap' + Slack(i)' >= gap + Slack(i)
      BY <3>1, <2>2, <2>3, <1>g
    <3>3. QED BY <3>2, <2>1, <1>u
  <2>6. QED BY <2>4, <2>5
<1>4. CASE ItemDone
  <2>1. /\ pc = "f" /\ running \in items /\ ~Tick /\ ~CallStart /\ ~CallEnd
        /\ items' = items \ {running} /\ gap' = gap
    <3>1. pc = "f" /\ pc' = "run" /\ items' = items \ {running} /\ gap' = gap
      BY <1>4 DEF ItemDone, Pop
    <3>2. QED BY <3>1, <1>t DEF Tick, CallStart, CallEnd, TypeOK
  <2>2. CASE i # running
    <3>1. i \in Used /\ item'[i] = item[i]
      <4>1. i \in Used
        BY <1>4, <2>1, <2>2 DEF ItemDone, Used
      <4>2. i \in Id /\ DOMAIN item = Id
        BY <4>1, <1>t DEF TypeOK
      <4>3. QED BY <1>4, <2>2, <4>1, <4>2 DEF ItemDone, Drop
    <3>2. Untouched(i)
      BY <3>1 DEF Untouched
    <3>3. gap' + Slack(i)' >= gap + Slack(i)
      BY <2>1, <2>2, <3>1, SlackStays, <1>g, <1>k
    <3>4. QED BY <3>1, <3>2, <3>3, <2>1, <1>u
  <2>3. CASE i = running
    <3>1. /\ i \in to_add' /\ i \notin to_add /\ i \in Used /\ i \in Id
      BY <2>1, <2>3, <1>t DEF Used, TypeOK
    <3>2. /\ item[i].name \in Interval
          /\ item' = [item EXCEPT ![i] = Advanced(i)]
      BY <1>4, <2>3, <3>1 DEF ItemDone
    <3>3. item'[i] = Advanced(i)
      BY <3>1, <3>2, <1>t DEF TypeOK
    <3>4. /\ item'[i].name = item[i].name /\ item'[i].interval = item[i].interval
          /\ item[i].interval # 0 /\ item[i].interval \in Delays
      BY <3>1, <3>2, <3>3, <1>t, AdvancedIs DEF DueInv, Delayed
    <3>5. /\ item'[i].wait + gap > 0
          /\ Apart(item'[i].last_execution, item'[i].last_execution_major, millis, Round,
                   item'[i].wait - item'[i].interval)
      BY <3>3, <3>4, <2>1, <2>3, AdvancedIsDue
    <3>6. Slack(i)' = 0
      BY <2>1, <2>3 DEF Slack
    <3>7. item'[i].interval >= 0
      BY <3>1, <3>4, <1>i
    <3>8. 2 * (item'[i].wait + gap' + Slack(i)') >= -item'[i].interval
      BY <3>5, <3>6, <3>7, <2>1, <1>e, <1>g
    <3>9. InRound(i)'
      <4>1. millis' = millis /\ Round' = Round
        BY <2>1, ClockStays DEF DueInv
      <4>2. -(Elapsed(i)') = item'[i].wait - item'[i].interval
        BY <1>e DEF Elapsed
      <4>3. QED BY <4>1, <4>2, <3>5 DEF InRound
    <3>10. QED BY <3>2, <3>4, <3>8, <3>9
  <2>4. QED BY <2>2, <2>3
<1>5. CASE \E n \in Name : SetItem(n)
  <2>1. PICK n \in Name : SetItem(n)
    BY <1>5
  <2>2. /\ UNCHANGED <<millis, items, pc, gap>>
        /\ i \in Used => Untouched(i)
        /\ i \notin Used => /\ i \notin items /\ item'[i].name = n
                            /\ Starts(n, item'[i].interval, item'[i].last_execution,
                                      item'[i].last_execution_major, item'[i].wait)
    BY <2>1, SetFate
  <2>3. Slack(i)' = Slack(i)
    BY <2>2 DEF Slack
  <2>4. ReadClock
    BY <2>1 DEF SetItem, set_timeout, set_interval, Set
  <2>5. millis_major' = Round /\ last_millis' = millis
    BY <2>4 DEF ReadClock, Round
  <2>6. Round' = millis_major'
    BY <2>2, <2>5, <1>t, Sizes DEF Round, TypeOK
  <2>7. CASE i \in Used
    <3>1. ~Tick
      <4>1. gap' = gap /\ gap \in Int
        BY <2>2, <1>g
      <4>2. QED BY <4>1 DEF Tick
    <3>2. gap' + Slack(i)' >= gap + Slack(i)
      BY <2>2, <2>3, <1>g, <1>k
    <3>3. QED BY <3>1, <3>2, <2>2, <2>7, <1>u
  <2>8. CASE i \notin Used
    <3>1. Starts(n, item'[i].interval, item'[i].last_execution,
                 item'[i].last_execution_major, item'[i].wait)
      BY <2>2, <2>8
    <3>2. Slack(i)' = 0
      BY <2>2, <2>8 DEF Slack
    <3>3. 2 * (item'[i].wait + gap' + Slack(i)') >= -item'[i].interval
      <4>1. 2 * item'[i].wait >= -item'[i].interval
        BY <3>1 DEF Starts
      <4>2. QED BY <4>1, <3>2, <1>e, <1>g
    <3>4. InRound(i)'
      <4>1. -(Elapsed(i)') = item'[i].wait - item'[i].interval
        BY <1>e DEF Elapsed
      <4>2. QED BY <4>1, <3>1, <2>2, <2>6 DEF Starts, InRound
    <3>5. QED BY <3>1, <3>3, <3>4, <2>2, <2>8 DEF Starts
  <2>9. QED BY <2>7, <2>8
<1>6. CASE \/ NextScheduleIn \/ UNCHANGED vars
           \/ \E j \in items : CleanupHead(j) \/ RunFailed(j) \/ RunItem(j)
           \/ \E n \in Name : cancel_item(n)
           \/ \E n \in MayFail : MarkFailed(n)
  <2>1. i \in Used /\ Untouched(i)
    BY <1>6, OthersStay
  <2>2. gap' = gap
    BY <1>6 DEF NextScheduleIn, CleanupHead, RunFailed, RunItem, cancel_item, MarkFailed,
                vars
  <2>3. CASE Tick \/ CallStart \/ CallEnd
    BY <2>3, <1>1, <1>2, <1>3
  <2>4. CASE ~Tick /\ ~CallStart /\ ~CallEnd
    <3>1. CASE ItemDone
      BY <3>1, <1>4
    <3>2. CASE ~ItemDone
      <4>1. gap' + Slack(i)' >= gap + Slack(i)
        BY <2>1, <2>4, <3>2, SlackStays, <1>g, <1>k
      <4>2. QED BY <4>1, <2>1, <2>4, <1>u
    <3>3. QED BY <3>1, <3>2
  <2>5. QED BY <2>3, <2>4
<1>7. QED BY <1>1, <1>2, <1>3, <1>4, <1>5, <1>6 DEF Next, Call

LEMMA DueInit == Init => DueInv
<1> SUFFICES ASSUME Init
             PROVE  DueInv
  OBVIOUS
<1>1. Used = {}
  BY DEF Init, Used
<1>2. 0 \in 0 .. gap /\ last_millis = millis - 0
  BY DEF Init
<1>3. QED BY <1>1, <1>2 DEF DueInv, ClockSeen, Delayed, Prompt

\* A call runs everything that was due when it read the clock, whatever items set and
\* cancel in between: the heap keeps the order of time across the wraps of millis() and
\* of the major counter, when delays and the pauses between calls stay within a round
\* and no interval is 0.
THEOREM NothingDueIsLeft == ASSUME Timely
                            PROVE  Spec => NothingDueLeft
<1>1. IInv /\ DueInv /\ [Next]_vars => DueInv'
  BY DueStep
<1>2. Spec => [](IInv /\ DueInv)
  BY <1>1, DueInit, Invariance, PTL DEF Spec
<1>3. IInv /\ DueInv /\ [Next]_vars =>
          [CallEnd => \A i \in items : ~item[i].remove => item[i].wait + gap > 0]_vars
  BY EndsWithNoneDue
<1>4. QED BY <1>2, <1>3, PTL DEF Spec, NothingDueLeft

-----------------------------------------------------------------------------
(***************************************************************************)
(* The scheduler implements Timers.                                        *)
(***************************************************************************)
Named == Name \ Unnamed

\* An item whose function runs was found due.
RunsDue == pc = "f" =>
    Sub(now, item[running].last_execution) >= item[running].interval

LEMMA RunsDueStep == ASSUME IInv, RunsDue, [Next]_vars
                     PROVE  RunsDue'
<1>t. /\ TypeOK /\ \A i \in items : i \in Used /\ i \in Id /\ item[i] \in Entry
      /\ pc = "f" => running \in items
  BY DEF IInv, TypeOK, Used
<1>1. CASE \E i \in items : RunItem(i)
  <2>1. PICK i \in items : RunItem(i)
    BY <1>1
  <2>2. running' = i /\ item' = item /\ now' = now /\ Due(i)
    BY <2>1 DEF RunItem
  <2>3. QED BY <2>2 DEF RunsDue, Due, Sub
<1>2. CASE Tick
  <2>1. /\ UNCHANGED <<pc, running, now>>
        /\ item' = [i \in Id |-> IF i \in Used THEN [item[i] EXCEPT !.wait = @ - 1]
                                 ELSE item[i]]
    BY <1>2 DEF Tick
  <2>2. pc = "f" => /\ item'[running].last_execution = item[running].last_execution
                    /\ item'[running].interval = item[running].interval
    BY <2>1, <1>t DEF Entry
  <2>3. QED BY <2>1, <2>2 DEF RunsDue, Sub
<1>3. CASE \E n \in Name : SetItem(n) \/ cancel_item(n)
  <2>1. PICK n \in Name : SetItem(n) \/ cancel_item(n)
    BY <1>3
  <2>2. /\ UNCHANGED <<pc, running, now>>
        /\ \A i \in Used : /\ item'[i].last_execution = item[i].last_execution
                           /\ item'[i].interval = item[i].interval
    BY <2>1, <1>t, SetAdds, CancelFlags DEF Kept
  <2>3. QED BY <2>2, <1>t DEF RunsDue, Sub
<1>4. CASE NextScheduleIn \/ (\E n \in MayFail : MarkFailed(n)) \/ UNCHANGED vars
  BY <1>4 DEF RunsDue, NextScheduleIn, MarkFailed, vars, Sub
<1>5. CASE CallStart \/ ItemDone \/ CallEnd \/ \E i \in items : CleanupHead(i) \/ RunFailed(i)
  BY <1>5 DEF RunsDue, CallStart, ItemDone, CallEnd, CleanupHead, RunFailed
<1>6. QED BY <1>1, <1>2, <1>3, <1>4, <1>5 DEF Next, Call

\* The timer of a name is its one live item, now and after a step.
LEMMA TimerIs ==
    ASSUME TypeOK, OneLive, NEW n \in Named, NEW i \in Live(n)
    PROVE  /\ n \in wanted /\ n \in DOMAIN SetTimers
           /\ SetTimers[n] = [due |-> item[i].wait, period |-> item[i].interval]
<1>1. n \in wanted /\ \E j \in Id : Live(n) = {j}
  BY DEF OneLive, Named
<1>2. (CHOOSE j \in Id : Live(n) = {j}) = i
  BY <1>1
<1>3. QED BY <1>1, <1>2 DEF SetTimers, TimerOf, Named

LEMMA TimerWillBe ==
    ASSUME OneLive', NEW n \in Named, NEW i \in Live(n)'
    PROVE  /\ n \in wanted' /\ n \in DOMAIN SetTimers'
           /\ SetTimers'[n] = [due |-> item'[i].wait, period |-> item'[i].interval]
<1>1. n \in wanted' /\ \E j \in Id : Live(n)' = {j}
  BY DEF OneLive, Named
<1>2. (CHOOSE j \in Id : Live(n)' = {j}) = i
  BY <1>1
<1>3. QED BY <1>1, <1>2 DEF SetTimers, TimerOf, Named

LEMMA HasLive == ASSUME OneLive, NEW n \in DOMAIN SetTimers, TypeOK
                 PROVE  n \in Named /\ n \in wanted /\ \E i \in Id : Live(n) = {i}
BY DEF OneLive, SetTimers, Named, TypeOK

LEMMA TimerDomains == /\ DOMAIN SetTimers = wanted \ Unnamed
                      /\ DOMAIN SetTimers' = wanted' \ Unnamed
                      /\ SetTimers = [n \in DOMAIN SetTimers |-> SetTimers[n]]
                      /\ SetTimers' = [n \in DOMAIN SetTimers' |-> SetTimers'[n]]
BY DEF SetTimers

\* A live item that stays as it is keeps its timer.
StaysLive(n) == \A i \in Live(n) : /\ i \in Live(n)' /\ item'[i].wait = item[i].wait
                                   /\ item'[i].interval = item[i].interval

LEMMA TimerStays ==
    ASSUME IInv, OneLive', NEW n \in DOMAIN SetTimers, StaysLive(n)
    PROVE  n \in DOMAIN SetTimers' /\ SetTimers'[n] = SetTimers[n]
<1>1. n \in Named /\ TypeOK /\ OneLive
  BY HasLive DEF IInv
<1>2. PICK i \in Id : Live(n) = {i}
  BY <1>1, HasLive
<1>3. SetTimers[n] = [due |-> item[i].wait, period |-> item[i].interval]
  BY <1>1, <1>2, TimerIs
<1>4. i \in Live(n)' /\ item'[i].wait = item[i].wait /\ item'[i].interval = item[i].interval
  BY <1>2 DEF StaysLive
<1>5. QED BY <1>1, <1>3, <1>4, TimerWillBe

LEMMA TimersStay ==
    ASSUME IInv, OneLive', wanted' \ Unnamed = wanted \ Unnamed,
           \A n \in DOMAIN SetTimers : StaysLive(n)
    PROVE  SetTimers' = SetTimers
<1>1. \A n \in DOMAIN SetTimers : SetTimers'[n] = SetTimers[n]
  BY TimerStays
<1>2. DOMAIN SetTimers' = DOMAIN SetTimers
  BY TimerDomains
<1>3. QED BY <1>1, <1>2, TimerDomains

LEMMA TimerGoes ==
    ASSUME IInv, OneLive', NEW n, wanted' \ Unnamed = (wanted \ Unnamed) \ {n},
           \A m \in DOMAIN SetTimers \ {n} : StaysLive(m)
    PROVE  SetTimers' = T!Without(n)
<1>1. \A m \in DOMAIN SetTimers \ {n} : SetTimers'[m] = SetTimers[m]
  BY TimerStays
<1>2. DOMAIN SetTimers' = DOMAIN SetTimers \ {n}
  BY TimerDomains
<1>3. QED BY <1>1, <1>2, TimerDomains DEF T!Without

LEMMA TimerComes ==
    ASSUME IInv, OneLive', NEW n \in Named, NEW i \in Live(n)',
           wanted' \ Unnamed = (wanted \ Unnamed) \cup {n},
           \A m \in DOMAIN SetTimers \ {n} : StaysLive(m)
    PROVE  SetTimers' = T!With(n, item'[i].wait, item'[i].interval)
<1>1. \A m \in DOMAIN SetTimers \ {n} : SetTimers'[m] = SetTimers[m]
  BY TimerStays
<1>2. DOMAIN SetTimers' = DOMAIN SetTimers \cup {n}
  BY TimerDomains
<1>3. SetTimers'[n] = [due |-> item'[i].wait, period |-> item'[i].interval]
  BY TimerWillBe
<1>4. QED BY <1>1, <1>2, <1>3, TimerDomains DEF T!With

TimerVars == <<SetTimers, RunsNow, GoesOn, failed \ Unnamed>>

LEMMA TimerVarsKept == UNCHANGED TimerVars => UNCHANGED T!vars
BY DEF TimerVars, T!vars

\* Outside of an item nothing runs.
LEMMA NothingRuns == ASSUME pc # "f"
                     PROVE  RunsNow = {} /\ GoesOn = {}
BY DEF RunsNow, GoesOn

LEMMA NothingWillRun == ASSUME pc' # "f"
                        PROVE  RunsNow' = {} /\ GoesOn' = {}
BY DEF RunsNow, GoesOn

\* The steps of a call that are none to who sets and cancels.
LEMMA MapDrops ==
    ASSUME IInv, OneLive', CallStart \/ CallEnd \/ \E i \in items : CleanupHead(i)
    PROVE  UNCHANGED TimerVars
<1>t. TypeOK /\ Used \subseteq Id /\ items \subseteq Used /\ items \cap to_add = {}
  BY DEF IInv, TypeOK, Used
<1>1. UNCHANGED <<wanted, running, failed>> /\ pc # "f" /\ pc' # "f"
  BY DEF CallStart, CallEnd, CleanupHead
<1>2. \E S \in SUBSET Removed(Used) : item' = Drop(S) /\ Used' = Used \ S
  <2>1. CASE CallStart \/ CallEnd
    BY <2>1, <1>t, CallDrops
  <2>2. CASE \E i \in items : CleanupHead(i)
    <3>1. PICK i \in items : CleanupHead(i)
      BY <2>2
    <3>2. item[i].remove /\ items' = items \ {i} /\ item' = Drop({i}) /\ to_add' = to_add
      BY <3>1 DEF CleanupHead, Pop
    <3>3. {i} \in SUBSET Removed(Used) /\ Used' = Used \ {i}
      BY <3>2, <1>t DEF Removed, Used
    <3>4. QED BY <3>2, <3>3
  <2>3. QED BY <2>1, <2>2
<1>3. PICK S \in SUBSET Removed(Used) : item' = Drop(S) /\ Used' = Used \ S
  BY <1>2
<1>4. \A n : StaysLive(n)
  <2> SUFFICES ASSUME NEW n, NEW i \in Live(n)
               PROVE  /\ i \in Live(n)' /\ item'[i].wait = item[i].wait
                      /\ item'[i].interval = item[i].interval
    BY DEF StaysLive
  <2>1. i \in Used /\ ~item[i].remove
    BY DEF Live
  <2>2. i \notin S /\ i \in Id
    BY <2>1, <1>3, <1>t DEF Removed
  <2>3. item'[i] = item[i] /\ i \in Used'
    BY <1>3, <2>1, <2>2, DropKeeps
  <2>4. QED BY <2>3, <1>1 DEF Live, Matches
<1>5. SetTimers' = SetTimers
  BY <1>1, <1>4, TimersStay
<1>6. QED BY <1>1, <1>5, NothingRuns, NothingWillRun DEF TimerVars

LEMMA MapRunFailed ==
    ASSUME IInv, OneLive', NEW i \in items, RunFailed(i)
    PROVE  UNCHANGED TimerVars \/ \E n \in T!Name : T!Drop(n)
<1> DEFINE n == item[i].name
<1>t. TypeOK /\ Used \subseteq Id /\ i \in Used /\ item[i] \in Entry /\ items \cap to_add = {}
  BY DEF IInv, TypeOK, Used
<1>1. /\ pc = "run" /\ pc' = "run" /\ ~item[i].remove /\ Due(i) /\ n \in failed
      /\ items' = items \ {i} /\ item' = Drop({i}) /\ to_add' = to_add
      /\ wanted' = wanted \ {n} /\ UNCHANGED <<failed, running>>
  BY DEF RunFailed, Pop
<1>2. Used' = Used \ {i} /\ running = 0 /\ i # running
  <2>1. 0 \notin Id
    BY Sizes
  <2>2. QED BY <2>1, <1>1, <1>t DEF Used, IInv, NoneRuns
<1>3. ASSUME NEW m, m # n
      PROVE  StaysLive(m)
  <2> SUFFICES ASSUME NEW j \in Live(m)
               PROVE  /\ j \in Live(m)' /\ item'[j].wait = item[j].wait
                      /\ item'[j].interval = item[j].interval
    BY DEF StaysLive
  <2>1. j \in Used /\ j # i
    BY <1>3 DEF Live, Matches
  <2>2. item'[j] = item[j] /\ j \in Used'
    BY <1>1, <1>2, <1>t, <2>1, DropKeeps
  <2>3. QED BY <1>1, <2>2 DEF Live, Matches
<1>4. RunsNow = {} /\ GoesOn = {} /\ RunsNow' = {} /\ GoesOn' = {}
  BY <1>1, NothingRuns, NothingWillRun
<1>5. CASE n \in Unnamed
  <2>1. \A m \in DOMAIN SetTimers : m # n
    BY <1>5, TimerDomains
  <2>2. wanted' \ Unnamed = wanted \ Unnamed
    BY <1>1, <1>5
  <2>3. SetTimers' = SetTimers
    BY <1>3, <2>1, <2>2, TimersStay
  <2>4. QED BY <2>3, <1>1, <1>4 DEF TimerVars
<1>6. CASE n \notin Unnamed
  <2>1. n \in Named /\ n \in T!Name
    BY <1>6, <1>t DEF Entry, Named, Name, T!Name
  <2>2. i \in Live(n)
    BY <1>1, <1>2, <1>t DEF Live, Matches
  <2>3. n \in DOMAIN SetTimers /\ SetTimers[n].due = item[i].wait
    <3>1. TypeOK /\ OneLive
      BY DEF IInv
    <3> HIDE DEF n
    <3>2. n \in DOMAIN SetTimers
      BY <3>1, <2>1, <2>2, TimerIs
    <3>3. SetTimers[n] = [due |-> item[i].wait, period |-> item[i].interval]
      BY <3>1, <2>1, <2>2, TimerIs
    <3>4. QED BY <3>2, <3>3
  <2>4. item[i].wait <= 0
    BY <1>1, DueIsPast
  <2>5. wanted' \ Unnamed = (wanted \ Unnamed) \ {n}
    BY <1>1
  <2> HIDE DEF n
  <2>6. SetTimers' = T!Without(n)
    BY <1>3, <2>5, TimerGoes
  <2>7. T!Due(n)
    BY <2>3, <2>4 DEF T!Due
  <2>8. T!Drop(n)
    BY <1>1, <1>4, <1>6, <2>6, <2>7 DEF T!Drop
  <2>9. QED BY <2>1, <2>8
<1>7. QED BY <1>5, <1>6

LEMMA MapRunItem ==
    ASSUME IInv, OneLive', NEW i \in items, RunItem(i)
    PROVE  UNCHANGED TimerVars \/ \E n \in T!Name : T!Run(n)
<1> DEFINE n == item[i].name
<1>t. TypeOK /\ Used \subseteq Id /\ i \in Used /\ item[i] \in Entry
  BY DEF IInv, TypeOK, Used
<1>1. /\ pc = "run" /\ pc' = "f" /\ ~item[i].remove /\ Due(i) /\ n \notin failed
      /\ running' = i /\ UNCHANGED <<item, items, to_add, failed>>
      /\ wanted' = IF n \in Timeout THEN wanted \ {n} ELSE wanted
  BY DEF RunItem
<1>2. Used' = Used /\ running = 0 /\ i # running
  <2>1. 0 \notin Id
    BY Sizes
  <2>2. QED BY <2>1, <1>1, <1>t DEF Used, IInv, NoneRuns
<1>3. ASSUME NEW m, m # n \/ n \notin Timeout
      PROVE  StaysLive(m)
  BY <1>1, <1>2, <1>3 DEF StaysLive, Live, Matches
<1>4. RunsNow = {} /\ GoesOn = {}
  BY <1>1, NothingRuns
<1>5. RunsNow' = {n} \ Unnamed /\ GoesOn' = ({n} \ Unnamed) \cap Interval
  BY <1>1 DEF RunsNow, GoesOn
<1>6. CASE n \in Unnamed
  <2>1. \A m \in DOMAIN SetTimers : m # n
    BY <1>6, TimerDomains
  <2>2. wanted' \ Unnamed = wanted \ Unnamed
    BY <1>1, <1>6
  <2>3. SetTimers' = SetTimers
    BY <1>3, <2>1, <2>2, TimersStay
  <2>4. {n} \ Unnamed = {}
    BY <1>6
  <2>5. QED BY <2>3, <2>4, <1>1, <1>4, <1>5 DEF TimerVars
<1>7. CASE n \notin Unnamed
  <2>1. n \in Named /\ n \in T!Name /\ n \in Name
    BY <1>7, <1>t DEF Entry, Named, Name, T!Name
  <2>2. i \in Live(n)
    BY <1>1, <1>2, <1>t DEF Live, Matches
  <2>3. n \in DOMAIN SetTimers /\ SetTimers[n].due = item[i].wait
    <3>1. TypeOK /\ OneLive
      BY DEF IInv
    <3> HIDE DEF n
    <3>2. n \in DOMAIN SetTimers
      BY <3>1, <2>1, <2>2, TimerIs
    <3>3. SetTimers[n] = [due |-> item[i].wait, period |-> item[i].interval]
      BY <3>1, <2>1, <2>2, TimerIs
    <3>4. QED BY <3>2, <3>3
  <2>4. item[i].wait <= 0
    BY <1>1, DueIsPast
  <2>5. T!Due(n)
    BY <2>3, <2>4 DEF T!Due
  <2>6. RunsNow' = {n} /\ GoesOn' = {n} \cap (Interval \ Unnamed)
    BY <1>5, <1>7
  <2> HIDE DEF n
  <2>7. SetTimers' = IF n \in Timeout \ Unnamed THEN T!Without(n) ELSE SetTimers
    <3>1. CASE n \in Timeout
      <4>1. wanted' \ Unnamed = (wanted \ Unnamed) \ {n}
        BY <1>1, <3>1
      <4>2. SetTimers' = T!Without(n)
        BY <1>3, <4>1, TimerGoes
      <4>3. QED BY <4>2, <3>1, <1>7
    <3>2. CASE n \notin Timeout
      <4>1. wanted' \ Unnamed = wanted \ Unnamed
        BY <1>1, <3>2
      <4>2. SetTimers' = SetTimers
        BY <1>3, <3>2, <4>1, TimersStay
      <4>3. QED BY <4>2, <3>2
    <3>3. QED BY <3>1, <3>2
  <2>8. T!Run(n)
    BY <1>1, <1>4, <1>7, <2>5, <2>6, <2>7 DEF T!Run
  <2>9. QED BY <2>1, <2>8
<1>8. QED BY <1>6, <1>7

\* How far an interval that ran moves on: by whole periods, one at least.
LEMMA StepIsPeriods ==
    ASSUME IInv, RunsDue, pc = "f", item[running].interval # 0
    PROVE  LET t == item[running]
           IN  /\ t.wait + Step(running) \in t.wait + t.interval .. t.interval
               /\ ((t.wait + Step(running)) - t.wait) % t.interval = 0
<1>0. PICK k \in items : k = running
  BY DEF IInv, TypeOK
<1>1. k \in Used /\ TypeOK /\ pc # "idle" /\ item[k] \in Entry
  BY DEF Used, IInv, TypeOK
<1>2. PICK d \in Nat \ {0} : d = item[k].interval
  BY <1>0, <1>1, Sizes DEF Entry
<1>3. PICK w \in Int : w = item[k].wait
  BY <1>1 DEF Entry
<1>4. PICK g \in Nat : g = gap
  BY <1>1, Sizes DEF TypeOK
<1>5. PICK s \in Nat : s = Sub(now, item[k].last_execution)
  <2>1. now - item[k].last_execution \in Int
    BY <1>1, ShownReading
  <2>2. QED BY <2>1, Sizes, ModType DEF Sub
<1>6. s <= (d - w) - g /\ s >= d
  BY <1>0, <1>1, <1>2, <1>3, <1>4, <1>5, ShownIsPast DEF Elapsed, RunsDue
<1>7. PICK p \in Nat : p = Step(k)
  BY <1>1, StepType
<1>8. p = (s \div d) * d
  BY <1>2, <1>5, <1>7 DEF Step
<1>9. s \div d >= 1 /\ s \div d \in Nat /\ p <= s /\ p >= d
  <2>1. s \div d \in Nat /\ s = (s \div d) * d + (s % d) /\ s % d \in 0 .. d - 1
    OBVIOUS
  <2>2. PICK q \in Nat : q = s \div d
    BY <2>1
  <2>3. PICK r \in 0 .. d - 1 : r = s % d
    BY <2>1
  <2>4. q # 0
    <3>1. CASE q = 0
      <4>1. q * d = 0 /\ s = r
        BY <3>1, <2>1, <2>2, <2>3
      <4>2. QED BY <4>1, <1>6
    <3>2. QED BY <3>1
  <2>5. q * d >= d
    BY <2>4, OneRound
  <2>6. p = q * d
    BY <1>8, <2>2
  <2>7. QED BY <2>1, <2>2, <2>3, <2>4, <2>5, <2>6
<1>10. p % d = 0
  <2>1. PICK q \in Nat : q = s \div d
    BY <1>9
  <2>2. p = 0 + q * d /\ 0 \in 0 .. d - 1 /\ p \in Int /\ q \in Int
    BY <2>1, <1>8
  <2>3. QED BY <2>2, ModUnique
<1>11. w + p \in w + d .. d /\ (w + p) - w = p
  BY <1>6, <1>9
<1>12. /\ w + p \in w + d .. d
       /\ ((w + p) - w) % d = 0
  BY <1>10, <1>11
<1>13. QED BY <1>0, <1>2, <1>3, <1>7, <1>12

LEMMA MapItemDone ==
    ASSUME IInv, RunsDue, OneLive', ItemDone
    PROVE  UNCHANGED TimerVars \/ T!Return
<1>0. PICK k \in items : k = running
  BY DEF ItemDone, IInv, TypeOK
<1>n. PICK n : n = item[k].name
  OBVIOUS
<1>t. /\ n = item[k].name /\ TypeOK /\ OneLive /\ Used \subseteq Id /\ k \in Used /\ k \in Id
      /\ item[k] \in Entry /\ n \in Name
      /\ items \cap to_add = {} /\ DOMAIN item = Id
  BY <1>n DEF IInv, TypeOK, Used, Entry
<1>1. /\ pc = "f" /\ pc' = "run" /\ running' = 0 /\ items' = items \ {k}
      /\ UNCHANGED <<wanted, failed>>
  BY <1>0 DEF ItemDone, Pop
<1>2. RunsNow' = {} /\ GoesOn' = {}
  BY <1>1, NothingWillRun
<1>3. /\ RunsNow = {n} \ Unnamed
      /\ GoesOn = IF item[k].remove THEN {} ELSE RunsNow \cap Interval
  BY <1>0, <1>1, <1>t DEF RunsNow, GoesOn
\* The others stay; so does the item itself when it is no live one.
<1>4. ASSUME NEW m, m # n \/ k \notin Live(m), m \in DOMAIN SetTimers
      PROVE  StaysLive(m)
  <2> SUFFICES ASSUME NEW j \in Live(m)
               PROVE  /\ j \in Live(m)' /\ item'[j].wait = item[j].wait
                      /\ item'[j].interval = item[j].interval
    BY DEF StaysLive
  <2>1. j \in Used /\ j # k
    BY <1>4, <1>t DEF Live, Matches
  <2>2. j \in Id /\ item'[j] = item[j] /\ j \in Used'
    <3>1. j \in Id
      BY <2>1, <1>t
    <3>2. \/ item' = Drop({k}) /\ UNCHANGED to_add
          \/ item' = [item EXCEPT ![k] = Advanced(k)] /\ to_add' = to_add \cup {k}
      BY <1>0 DEF ItemDone
    <3>3. item'[j] = item[j]
      BY <2>1, <3>1, <3>2, <1>t DEF Drop
    <3>4. QED BY <2>1, <3>1, <3>2, <3>3, <1>1 DEF Used
  <2>3. j # running'
    <3>1. 0 \notin Id
      BY Sizes
    <3>2. QED BY <3>1, <2>2, <1>1
  <2>4. QED BY <2>2, <2>3 DEF Live, Matches
<1>5. CASE n \in Unnamed
  <2>1. \A m \in DOMAIN SetTimers : m # n
    BY <1>5, TimerDomains
  <2>2. SetTimers' = SetTimers
    BY <1>1, <1>4, <2>1, TimersStay
  <2>3. RunsNow = {} /\ GoesOn = {}
    BY <1>3, <1>5
  <2>4. QED BY <2>2, <2>3, <1>1, <1>2 DEF TimerVars
<1>6. CASE n \notin Unnamed /\ (item[k].remove \/ n \in Timeout)
  <2>1. \A m \in DOMAIN SetTimers : k \notin Live(m)
    <3>1. \A m : k \in Live(m) => m = n /\ ~item[k].remove /\ ~(k = running /\ m \in Timeout)
      BY <1>t DEF Live, Matches
    <3>2. QED BY <3>1, <1>0, <1>6
  <2>2. SetTimers' = SetTimers
    BY <1>1, <1>4, <2>1, TimersStay
  <2>3. RunsNow = {n} /\ GoesOn = {}
    BY <1>3, <1>6, NameAssumption
  <2>4. RunsNow # {}
    BY <2>3
  <2>5. T!Return
    BY <2>2, <2>3, <2>4, <1>1, <1>2 DEF T!Return
  <2>6. QED BY <2>5
<1>7. CASE n \notin Unnamed /\ ~item[k].remove /\ n \notin Timeout
  <2>1. n \in Named /\ n \in Interval
    BY <1>7, <1>t DEF Named, Name
  <2>2. RunsNow = {n} /\ GoesOn = {n}
    BY <2>1, <1>3, <1>7
  <2>3. k \in Live(n)
    BY <1>7, <1>t DEF Live, Matches
  <2>4. item' = [item EXCEPT ![k] = Advanced(k)] /\ to_add' = to_add \cup {k}
    BY <1>0, <1>7, <1>t DEF ItemDone
  <2>5. item'[k] = Advanced(k)
    BY <2>4, <1>t
  <2>6. /\ item'[k].name = n /\ ~item'[k].remove
        /\ item'[k].interval = item[k].interval
        /\ item'[k].wait = item[k].wait + Step(k)
    BY <2>5, <1>7, <1>t, AdvancedIs
  <2>7. k \in Live(n)'
    BY <2>4, <2>6, <1>7 DEF Live, Matches, Used
  <2>8. n \in DOMAIN SetTimers
    BY <2>1, <2>3, <1>t, TimerIs
  <2>9. SetTimers[n] = [due |-> item[k].wait, period |-> item[k].interval]
    BY <2>1, <2>3, <1>t, TimerIs
  <2> DEFINE t == SetTimers[n]
             due == item'[k].wait
  <2>10. t.due = item[k].wait /\ t.period = item[k].interval
    BY <2>9
  <2>11. SetTimers' = T!With(n, due, t.period)
    <3>1. wanted' \ Unnamed = (wanted \ Unnamed) \cup {n}
      BY <2>8, <1>1, TimerDomains
    <3>2. \A m \in DOMAIN SetTimers \ {n} : StaysLive(m)
      BY <1>4
    <3>3. SetTimers' = T!With(n, item'[k].wait, item'[k].interval)
      BY <3>1, <3>2, <2>1, <2>7, TimerComes
    <3>4. QED BY <3>3, <2>6, <2>10
  <2>12. CASE item[k].interval = 0
    <3>1. due = t.due
      <4>1. Step(k) = 0 /\ item[k].wait \in Int
        BY <2>12, <1>t DEF Step, Entry
      <4>2. QED BY <4>1, <2>6, <2>10
    <3>2. SetTimers' = SetTimers
      <4>1. StaysLive(n)
        <5>1. PICK j \in Id : Live(n) = {j}
          BY <2>8, <1>t, HasLive
        <5>2. Live(n) = {k}
          BY <5>1, <2>3
        <5>3. QED BY <5>2, <2>6, <2>7, <2>10, <3>1 DEF StaysLive
      <4>2. \A m \in DOMAIN SetTimers : StaysLive(m)
        BY <4>1, <1>4
      <4>3. QED BY <4>2, <1>1, TimersStay
    <3>3. T!Return
      BY <3>2, <2>2, <2>10, <2>12, <1>1, <1>2 DEF T!Return
    <3>4. QED BY <3>3
  <2>13. CASE item[k].interval # 0
    <3>1. /\ due \in t.due + t.period .. t.period
          /\ (due - t.due) % t.period = 0
      BY <2>6, <2>10, <2>13, <1>0, <1>1, StepIsPeriods
    <3>2. t.period # 0
      BY <2>10, <2>13
    <3> HIDE DEF t, due
    <3>3. \E e \in t.due + t.period .. t.period :
              /\ (e - t.due) % t.period = 0
              /\ SetTimers' = T!With(n, e, t.period)
      BY <3>1, <2>11
    <3>4. T!Return
      BY <3>2, <3>3, <2>2, <1>1, <1>2 DEF T!Return, t
    <3>5. QED BY <3>4
  <2>14. QED BY <2>12, <2>13
<1>8. QED BY <1>5, <1>6, <1>7

\* What setting and cancelling do to the item that runs.
LEMMA RunKept ==
    ASSUME IInv, NEW n, UNCHANGED <<pc, running>>,
           \A i \in Used :
               /\ item'[i].name = item[i].name
               /\ item'[i].remove <=> (item[i].remove \/ (n \notin Unnamed /\ item[i].name = n))
    PROVE  /\ RunsNow' = RunsNow
           /\ GoesOn' = IF n \in Unnamed THEN GoesOn ELSE GoesOn \ {n}
<1>1. CASE pc # "f"
  <2>1. pc' # "f"
    BY <1>1
  <2>2. QED BY <1>1, <2>1, NothingRuns, NothingWillRun
<1>2. CASE pc = "f"
  <2>1. PICK k \in Used : k = running
    BY <1>2 DEF IInv, TypeOK, Used
  <2>2. PICK m : m = item[k].name
    OBVIOUS
  <2>3. item'[k].name = m
    BY <2>1, <2>2
  <2>4. item'[k].remove <=> (item[k].remove \/ (n \notin Unnamed /\ m = n))
    BY <2>1, <2>2
  <2>5. RunsNow = {m} \ Unnamed /\ RunsNow' = {m} \ Unnamed
    BY <1>2, <2>1, <2>2, <2>3 DEF RunsNow
  <2>6. /\ GoesOn = IF item[k].remove THEN {} ELSE ({m} \ Unnamed) \cap Interval
        /\ GoesOn' = IF item'[k].remove THEN {} ELSE ({m} \ Unnamed) \cap Interval
    BY <1>2, <2>1, <2>5 DEF GoesOn
  <2>7. CASE n \notin Unnamed /\ m = n
    <3>1. GoesOn' = {} /\ GoesOn \subseteq {n}
      BY <2>4, <2>6, <2>7
    <3>2. QED BY <2>5, <2>7, <3>1
  <2>8. CASE n \in Unnamed \/ m # n
    <3>1. item'[k].remove <=> item[k].remove
      BY <2>4, <2>8
    <3>2. GoesOn' = GoesOn
      BY <2>6, <3>1
    <3>3. n \notin Unnamed => n \notin GoesOn
      BY <2>6, <2>8
    <3>4. QED BY <2>5, <3>2, <3>3
  <2>9. QED BY <2>7, <2>8
<1>3. QED BY <1>1, <1>2

\* The live items of another name, or of any when the name is empty, stay.
LEMMA KeptStays ==
    ASSUME IInv, NEW n, NEW m, m # n \/ n \in Unnamed, Kept(n),
           UNCHANGED <<items, running>>, to_add \subseteq to_add'
    PROVE  StaysLive(m)
<1> SUFFICES ASSUME NEW j \in Live(m)
             PROVE  /\ j \in Live(m)' /\ item'[j].wait = item[j].wait
                    /\ item'[j].interval = item[j].interval
  BY DEF StaysLive
<1>1. /\ j \in Used /\ item[j].name = m /\ ~item[j].remove
      /\ ~(j = running /\ m \in Timeout)
  BY DEF Live, Matches
<1>2. /\ item'[j].name = m /\ ~item'[j].remove
      /\ item'[j].wait = item[j].wait /\ item'[j].interval = item[j].interval
  BY <1>1 DEF Kept
<1>3. j \in Used'
  BY <1>1 DEF Used
<1>4. QED BY <1>1, <1>2, <1>3 DEF Live, Matches

LEMMA MapCancel ==
    ASSUME IInv, OneLive', NEW n \in Name, cancel_item(n)
    PROVE  UNCHANGED TimerVars \/ \E m \in T!Name : T!Cancel(m)
<1>0. TypeOK
  BY DEF IInv
<1>1. /\ UNCHANGED <<items, to_add, pc, running, failed>> /\ wanted' = wanted \ {n}
      /\ Used' = Used
  BY DEF cancel_item, Used
<1>2. /\ item' = Flagged(n)
      /\ \A i \in Used :
            /\ item'[i].name = item[i].name /\ item'[i].interval = item[i].interval
            /\ item'[i].wait = item[i].wait
            /\ item'[i].remove <=> (item[i].remove \/ item[i].name = n)
  BY <1>0, CancelFlags DEF cancel_item
<1>3. ASSUME NEW m, m # n
      PROVE  StaysLive(m)
  <2> SUFFICES ASSUME NEW j \in Live(m)
               PROVE  /\ j \in Live(m)' /\ item'[j].wait = item[j].wait
                      /\ item'[j].interval = item[j].interval
    BY DEF StaysLive
  <2>1. j \in Used /\ item[j].name = m /\ ~item[j].remove
        /\ ~(j = running /\ m \in Timeout)
    BY DEF Live, Matches
  <2>2. /\ item'[j].name = m /\ ~item'[j].remove
        /\ item'[j].wait = item[j].wait /\ item'[j].interval = item[j].interval
    BY <2>1, <1>2, <1>3
  <2>3. QED BY <1>1, <2>1, <2>2 DEF Live, Matches
<1>4. CASE n \in Unnamed
  <2>1. \A m \in DOMAIN SetTimers : m # n
    BY <1>4, TimerDomains
  <2>2. wanted' \ Unnamed = wanted \ Unnamed
    BY <1>1, <1>4
  <2>3. SetTimers' = SetTimers
    BY <1>3, <2>1, <2>2, TimersStay
  <2>4. RunsNow' = RunsNow /\ GoesOn' = GoesOn
    <3>1. CASE pc # "f"
      BY <3>1, <1>1, NothingRuns, NothingWillRun
    <3>2. CASE pc = "f"
      <4>1. PICK k \in Used : k = running
        BY <3>2 DEF IInv, TypeOK, Used
      <4>2. PICK m : m = item[k].name
        OBVIOUS
      <4>3. item'[k].name = m /\ (m # n => (item'[k].remove <=> item[k].remove))
        BY <4>2, <1>2
      <4>4. RunsNow = {m} \ Unnamed /\ RunsNow' = {m} \ Unnamed
        BY <1>1, <3>2, <4>1, <4>2, <4>3 DEF RunsNow
      <4>5. /\ GoesOn = IF item[k].remove THEN {} ELSE RunsNow \cap Interval
            /\ GoesOn' = IF item'[k].remove THEN {} ELSE RunsNow \cap Interval
        BY <1>1, <3>2, <4>1, <4>4 DEF GoesOn
      <4>6. CASE m = n
        BY <4>4, <4>5, <4>6, <1>4
      <4>7. CASE m # n
        BY <4>3, <4>4, <4>5, <4>7
      <4>8. QED BY <4>6, <4>7
    <3>3. QED BY <3>1, <3>2
  <2>5. QED BY <2>3, <2>4, <1>1 DEF TimerVars
<1>5. CASE n \notin Unnamed
  <2>1. n \in T!Name
    BY <1>5 DEF T!Name, Name
  <2>2. wanted' \ Unnamed = (wanted \ Unnamed) \ {n}
    BY <1>1
  <2>3. SetTimers' = T!Without(n)
    BY <1>3, <2>2, TimerGoes
  <2>4. RunsNow' = RunsNow /\ GoesOn' = GoesOn \ {n}
    BY <1>1, <1>2, <1>5, RunKept
  <2>5. T!Cancel(n)
    BY <2>3, <2>4, <1>1 DEF T!Cancel
  <2>6. QED BY <2>1, <2>5
<1>6. QED BY <1>4, <1>5

\* What set_timeout and set_interval add: the item is due after the delay, or late by
\* half of the interval at most.
LEMMA SetWaits ==
    ASSUME NEW n \in Name, SetItem(n)
    PROVE  \E d, last, major, wait :
               /\ d \in 0 .. Wrap - 1
               /\ Set(n, d, last, major, wait)
               /\ \/ n \in Timeout /\ d \in Timeouts /\ wait = d
                  \/ /\ n \in Interval /\ d \in Intervals
                     /\ \E late \in 0 .. d \div 2 : wait = -late
<1>1. CASE n \in Timeout /\ \E d \in Timeouts : set_timeout(n, d)
  <2>1. PICK d \in Timeouts : set_timeout(n, d)
    BY <1>1
  <2>2. d \in 0 .. Wrap - 1
    BY ClockAssumption
  <2>3. Set(n, d, millis, millis_major', d)
    BY <2>1 DEF set_timeout
  <2>4. QED BY <2>2, <2>3, <1>1
<1>2. CASE n \in Interval /\ \E d \in Intervals : set_interval(n, d)
  <2>1. PICK d \in Intervals : set_interval(n, d)
    BY <1>2
  <2>2. d \in 0 .. Wrap - 1
    BY ClockAssumption
  <2> DEFINE R == 0 .. (IF d \in {0, DontRun} THEN 0 ELSE d - 1)
  <2>3. PICK offset \in {q \div 2 : q \in R} :
            Set(n, d, Sub(millis, offset + d),
                IF Sub(millis, offset + d) > millis
                THEN (millis_major' - 1) % Majors ELSE millis_major', -offset)
    BY <2>1 DEF set_interval
  <2>4. PICK q \in R : offset = q \div 2
    OBVIOUS
  <2>5. q \in Nat /\ q <= d /\ d \in Nat
    BY <2>2
  <2>6. q \div 2 \in 0 .. d \div 2
    BY <2>5
  <2> DEFINE last == Sub(millis, offset + d)
             major == IF last > millis THEN (millis_major' - 1) % Majors
                      ELSE millis_major'
  <2>7. Set(n, d, last, major, -offset)
    BY <2>3
  <2> HIDE DEF last, major
  <2>8. QED BY <2>2, <2>4, <2>6, <2>7, <1>2
<1>3. QED BY <1>1, <1>2 DEF SetItem

LEMMA SetGives ==
    ASSUME TypeOK, NEW n, NEW d, NEW last, NEW major, NEW wait,
           Set(n, d, last, major, wait)
    PROVE  /\ UNCHANGED <<items, pc, running, failed>>
           /\ \/ /\ d = DontRun /\ to_add' = to_add
                 /\ wanted' = IF n \notin Unnamed THEN wanted \ {n} ELSE wanted
              \/ /\ d # DontRun /\ wanted' = wanted \cup {n}
                 /\ \E i \in Id :
                       /\ to_add' = to_add \cup {i} /\ i \notin Used /\ i # running
                       /\ item'[i].name = n /\ ~item'[i].remove
                       /\ item'[i].interval = d /\ item'[i].wait = wait
<1> DEFINE flagged == IF n \notin Unnamed THEN Flagged(n) ELSE item
<1>1. UNCHANGED <<items, pc, running, failed>>
  BY DEF Set
<1>2. DOMAIN flagged = Id
  BY DEF TypeOK, Flagged
<1>3. CASE d = DontRun
  BY <1>1, <1>3 DEF Set
<1>4. CASE d # DontRun
  <2> DEFINE new == [name |-> n, interval |-> d, last_execution |-> last,
                     last_execution_major |-> major, remove |-> FALSE, wait |-> wait]
  <2>1. /\ Id \ (Used \cup {running}) # {} /\ wanted' = wanted \cup {n}
        /\ to_add' = to_add \cup {Fresh} /\ item' = [flagged EXCEPT ![Fresh] = new]
    BY <1>4 DEF Set
  <2>2. Fresh \in Id /\ Fresh \notin Used /\ Fresh # running
    BY <2>1, FreshIsFree
  <2>3. new.name = n /\ ~new.remove /\ new.interval = d /\ new.wait = wait
    OBVIOUS
  <2> HIDE DEF flagged, new
  <2>4. item'[Fresh] = new
    BY <1>2, <2>1, <2>2
  <2>5. QED BY <1>1, <1>4, <2>1, <2>2, <2>3, <2>4
<1>5. QED BY <1>3, <1>4

LEMMA MapSet ==
    ASSUME IInv, OneLive', NEW n \in Name, SetItem(n)
    PROVE  \/ UNCHANGED TimerVars
           \/ n \in Timeout \ Unnamed /\ \E d \in Timeouts : T!Set(n, d)
           \/ n \in Interval \ Unnamed /\ \E d \in Intervals : T!Set(n, d)
<1>0. TypeOK
  BY DEF IInv
<1>1. PICK d, last, major, wait :
          /\ d \in 0 .. Wrap - 1
          /\ Set(n, d, last, major, wait)
          /\ \/ n \in Timeout /\ d \in Timeouts /\ wait = d
             \/ /\ n \in Interval /\ d \in Intervals
                /\ \E late \in 0 .. d \div 2 : wait = -late
  BY SetWaits
<1>2. /\ UNCHANGED <<items, pc, running, failed>> /\ Kept(n)
      /\ \/ /\ d = DontRun /\ to_add' = to_add
            /\ wanted' = IF n \notin Unnamed THEN wanted \ {n} ELSE wanted
         \/ /\ d # DontRun /\ wanted' = wanted \cup {n}
            /\ \E i \in Id :
                  /\ to_add' = to_add \cup {i} /\ i \notin Used /\ i # running
                  /\ item'[i].name = n /\ ~item'[i].remove
                  /\ item'[i].interval = d /\ item'[i].wait = wait
  BY <1>0, <1>1, SetAdds, SetGives
<1>3. to_add \subseteq to_add'
  BY <1>2
<1>4. RunsNow' = RunsNow /\ GoesOn' = IF n \in Unnamed THEN GoesOn ELSE GoesOn \ {n}
  BY <1>2, RunKept DEF Kept
<1>5. ASSUME NEW m, m # n \/ n \in Unnamed
      PROVE  StaysLive(m)
  BY <1>2, <1>3, <1>5, KeptStays
<1>6. CASE n \in Unnamed
  <2>1. wanted' \ Unnamed = wanted \ Unnamed
    BY <1>2, <1>6
  <2>2. SetTimers' = SetTimers
    BY <1>5, <1>6, <2>1, TimersStay
  <2>3. QED BY <2>2, <1>2, <1>4, <1>6 DEF TimerVars
<1>7. CASE n \notin Unnamed
  <2>1. n \in Named /\ (n \in Timeout => n \notin Interval)
    BY <1>7, NameAssumption DEF Named
  <2>2. \/ d = DontRun /\ SetTimers' = T!Without(n)
        \/ d # DontRun /\ SetTimers' = T!With(n, wait, d)
    <3>1. CASE d = DontRun
      <4>1. wanted' \ Unnamed = (wanted \ Unnamed) \ {n}
        BY <1>2, <1>7, <3>1
      <4>2. QED BY <4>1, <3>1, <1>5, TimerGoes
    <3>2. CASE d # DontRun
      <4>1. PICK i \in Id :
                /\ to_add' = to_add \cup {i} /\ i \notin Used /\ i # running
                /\ item'[i].name = n /\ ~item'[i].remove
                /\ item'[i].interval = d /\ item'[i].wait = wait
        BY <1>2, <3>2
      <4>2. wanted' \ Unnamed = (wanted \ Unnamed) \cup {n}
        BY <1>2, <1>7, <3>2
      <4>3. i \in Live(n)'
        BY <1>2, <4>1 DEF Live, Matches, Used
      <4>4. SetTimers' = T!With(n, item'[i].wait, item'[i].interval)
        BY <2>1, <4>2, <4>3, <1>5, TimerComes
      <4>5. QED BY <3>2, <4>1, <4>4
    <3>3. QED BY <3>1, <3>2
  <2>3. T!Set(n, d)
    <3>1. \/ n \in Timeout \ Unnamed /\ wait = d
          \/ n \in Interval \ Unnamed /\ \E late \in 0 .. d \div 2 : wait = -late
      BY <1>1, <1>7
    <3>2. GoesOn' = GoesOn \ {n} /\ RunsNow' = RunsNow /\ (failed \ Unnamed)' = failed \ Unnamed
      BY <1>2, <1>4, <1>7
    <3>3. CASE d = DontRun
      BY <2>2, <3>2, <3>3 DEF T!Set
    <3>4. CASE d # DontRun
      <4>1. SetTimers' = T!With(n, wait, d)
        BY <2>2, <3>4
      <4>2. QED BY <3>1, <3>2, <3>4, <4>1 DEF T!Set
    <3>5. QED BY <3>3, <3>4
  <2>4. QED BY <1>1, <1>7, <2>3
<1>8. QED BY <1>6, <1>7

LEMMA MapFail ==
    ASSUME IInv, OneLive', NEW n \in Name, MarkFailed(n)
    PROVE  UNCHANGED TimerVars \/ \E m \in T!Name : T!Fail(m)
<1>1. /\ UNCHANGED <<item, items, to_add, pc, running, wanted>>
      /\ failed' = failed \cup {n}
  BY DEF MarkFailed
<1>2. \A m : StaysLive(m)
  BY <1>1 DEF StaysLive, Live, Matches, Used
<1>3. SetTimers' = SetTimers
  BY <1>1, <1>2, TimersStay
<1>4. RunsNow' = RunsNow /\ GoesOn' = GoesOn
  BY <1>1 DEF RunsNow, GoesOn
<1>5. CASE n \in Unnamed
  BY <1>1, <1>3, <1>4, <1>5 DEF TimerVars
<1>6. CASE n \notin Unnamed
  <2>1. n \in T!Name /\ (failed \ Unnamed)' = (failed \ Unnamed) \cup {n}
    BY <1>1, <1>6 DEF T!Name, Name
  <2>2. T!Fail(n)
    BY <1>3, <1>4, <2>1 DEF T!Fail
  <2>3. QED BY <2>1, <2>2
<1>7. QED BY <1>5, <1>6

LEMMA MapTick == ASSUME IInv, OneLive', Tick
                 PROVE  T!Pass
<1>t. TypeOK /\ OneLive /\ \A i \in Used : i \in Id /\ item[i] \in Entry
  BY DEF IInv, TypeOK, Used
<1>1. /\ item' = [i \in Id |-> IF i \in Used THEN [item[i] EXCEPT !.wait = @ - 1]
                               ELSE item[i]]
      /\ UNCHANGED <<items, to_add, pc, running, wanted, failed>> /\ Used' = Used
  BY DEF Tick, Used
<1>2. \A i \in Used : /\ item'[i].name = item[i].name /\ item'[i].remove = item[i].remove
                      /\ item'[i].interval = item[i].interval
                      /\ item'[i].wait = item[i].wait - 1
  BY <1>1, <1>t DEF Entry
<1>3. \A n : Live(n)' = Live(n)
  BY <1>1, <1>2 DEF Live, Matches
<1>4. RunsNow' = RunsNow /\ GoesOn' = GoesOn
  <2>1. pc = "f" => running \in Used
    BY DEF IInv, TypeOK, Used
  <2>2. QED BY <2>1, <1>1, <1>2 DEF RunsNow, GoesOn
<1>5. DOMAIN SetTimers' = DOMAIN SetTimers
  BY <1>1, TimerDomains
<1>6. ASSUME NEW n \in DOMAIN SetTimers
      PROVE  SetTimers'[n] = [SetTimers[n] EXCEPT !.due = @ - 1]
  <2>1. n \in Named /\ \E i \in Id : Live(n) = {i}
    BY <1>6, <1>t, HasLive
  <2>2. PICK i \in Id : Live(n) = {i}
    BY <2>1
  <2>3. SetTimers[n] = [due |-> item[i].wait, period |-> item[i].interval]
    BY <2>1, <2>2, <1>t, TimerIs
  <2>4. i \in Live(n)' /\ i \in Used
    BY <2>2, <1>3 DEF Live
  <2>5. SetTimers'[n] = [due |-> item'[i].wait, period |-> item'[i].interval]
    BY <2>1, <2>4, TimerWillBe
  <2>6. QED BY <2>3, <2>4, <2>5, <1>2
<1>7. SetTimers' = [n \in DOMAIN SetTimers |-> [SetTimers[n] EXCEPT !.due = @ - 1]]
  BY <1>5, <1>6, TimerDomains
<1>8. QED BY <1>1, <1>4, <1>7 DEF T!Pass

LEMMA MapInit == Init => T!Init
<1> SUFFICES ASSUME Init
             PROVE  T!Init
  OBVIOUS
<1>1. wanted \ Unnamed = {} /\ pc # "f" /\ failed \ Unnamed = {}
  BY DEF Init
<1>2. SetTimers = [n \in {} |-> 0]
  BY <1>1 DEF SetTimers
<1>3. QED BY <1>1, <1>2, NothingRuns DEF T!Init

LEMMA MapStep == ASSUME IInv, RunsDue, [Next]_vars
                 PROVE  [T!Next]_(T!vars)
<1>o. OneLive'
  BY LiveStep
<1>1. CASE \E n \in Name : SetItem(n)
  BY <1>1, <1>o, MapSet, TimerVarsKept DEF T!Next
<1>2. CASE \E n \in Name : cancel_item(n)
  BY <1>2, <1>o, MapCancel, TimerVarsKept DEF T!Next
<1>3. CASE \E n \in MayFail : MarkFailed(n)
  BY <1>3, <1>o, NameAssumption, MapFail, TimerVarsKept DEF T!Next
<1>4. CASE Tick
  BY <1>4, <1>o, MapTick DEF T!Next
<1>5. CASE CallStart \/ CallEnd \/ \E i \in items : CleanupHead(i)
  BY <1>5, <1>o, MapDrops, TimerVarsKept
<1>6. CASE \E i \in items : RunFailed(i)
  BY <1>6, <1>o, MapRunFailed, TimerVarsKept DEF T!Next
<1>7. CASE \E i \in items : RunItem(i)
  BY <1>7, <1>o, MapRunItem, TimerVarsKept DEF T!Next
<1>8. CASE ItemDone
  BY <1>8, <1>o, MapItemDone, TimerVarsKept DEF T!Next
<1>9. CASE NextScheduleIn \/ UNCHANGED vars
  <2>1. UNCHANGED <<item, items, to_add, pc, running, wanted, failed>>
    BY <1>9 DEF NextScheduleIn, vars
  <2>2. \A n : StaysLive(n)
    BY <2>1 DEF StaysLive, Live, Matches, Used
  <2>3. SetTimers' = SetTimers
    BY <2>1, <2>2, <1>o, TimersStay
  <2>4. QED BY <2>1, <2>3, TimerVarsKept DEF TimerVars, RunsNow, GoesOn
<1>10. QED BY <1>1, <1>2, <1>3, <1>4, <1>5, <1>6, <1>7, <1>8, <1>9 DEF Next, Call

\* Whatever items set and cancel while they run, flags, heap and clocks that wrap are,
\* to their callers, a set of timers that each keep their time, and that none outlives
\* its cancelling or its replacement.
THEOREM TimersAreKept == Spec => TimersKept
<1>1. Init => RunsDue
  BY DEF Init, RunsDue
<1>2. IInv /\ RunsDue /\ [Next]_vars => RunsDue'
  BY RunsDueStep
<1>3. IInv /\ RunsDue /\ [Next]_vars => [T!Next]_(T!vars)
  BY MapStep
<1>4. QED BY <1>1, <1>2, <1>3, MapInit, Invariance, PTL DEF Spec, TimersKept, T!Spec
=============================================================================
