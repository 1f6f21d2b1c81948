----------------------------- MODULE Scheduler -----------------------------
(***************************************************************************)
(* The scheduler of ESPHome (esphome/core/scheduler.cpp): timeouts and     *)
(* intervals in a heap, run by Application::loop.  A call runs the items   *)
(* that are due one after the other; what an item does may set and cancel  *)
(* items, itself too, and takes time.  millis() wraps, and a major counter *)
(* that wraps as well tells its rounds apart.                              *)
(***************************************************************************)
EXTENDS Integers, FiniteSets

CONSTANTS
    Timeout, Interval,  \* the names (component, name) of timeouts and of intervals
    Unnamed,            \* those of them whose name is empty
    MayFail,            \* names whose component may be marked failed
    Timeouts,           \* the delays that timeouts are set with
    Intervals,          \* ... and intervals
    Wrap,               \* 2^32, the round of millis()
    Majors,             \* 2^8, the round of millis_major_
    MaxDeleted,         \* MAX_LOGICALLY_DELETED_ITEMS
    MaxItems,           \* bound: SchedulerItems that exist at once
    MaxGap              \* bound: ticks between two readings of millis() by call

Name == Timeout \cup Interval
DontRun == Wrap - 1     \* SCHEDULER_DONT_RUN

ASSUME NameAssumption ==
    /\ Timeout \cap Interval = {}
    /\ Unnamed \subseteq Name /\ MayFail \subseteq Name
\* Delays are uint32_t as millis() is.
ASSUME ClockAssumption ==
    /\ Wrap \in Nat \ {0} /\ Majors \in Nat \ {0}
    /\ Timeouts \cup Intervals \subseteq 0 .. Wrap - 1
    /\ MaxGap \in Nat
ASSUME SizeAssumption == MaxDeleted \in Nat /\ MaxItems \in Nat \ {0}

VARIABLES
    millis,         \* millis()
    last_millis,    \* last_millis_
    millis_major,   \* millis_major_
    item,           \* the SchedulerItems by number
    items,          \* items_, the heap
    to_add,         \* to_add_
    to_remove,      \* to_remove_
    failed,         \* names whose component is_failed
    pc,             \* "idle", "run" the while loop of call, "f" within an item
    now,            \* now of the running call, 0 between calls
    running,        \* the item whose f runs, or 0
    \* What the properties speak of:
    gap,            \* ticks since call read the clock
    wanted          \* names set, not cancelled, and for timeouts not yet run

vars == <<millis, last_millis, millis_major, item, items, to_add, to_remove, failed,
          pc, now, running, gap, wanted>>
clock == <<last_millis, millis_major>>

Id == 1 .. MaxItems
Used == items \cup to_add
Sub(a, b) == (a - b) % Wrap
-----------------------------------------------------------------------------
(***************************************************************************)
(* SchedulerItem.  wait is the time until the item is really due, negative *)
(* when it is late.                                                        *)
(***************************************************************************)
Free == [name |-> "free", interval |-> 0, last_execution |-> 0,
         last_execution_major |-> 0, remove |-> FALSE, wait |-> 0]

next_execution(i) == (item[i].last_execution + item[i].interval) % Wrap
next_execution_major(i) ==
    IF next_execution(i) < item[i].last_execution
    THEN (item[i].last_execution_major + 1) % Majors
    ELSE item[i].last_execution_major

\* Mutant: the rounds are not told apart.
cmp_NoMajor(a, b) == next_execution(a) > next_execution(b)

\* a will happen after b.
cmp(a, b) ==
    LET ma == next_execution_major(a)
        mb == next_execution_major(b)
    IN  IF ma = mb THEN next_execution(a) > next_execution(b)
        ELSE (ma - mb) % Majors < (mb - ma) % Majors

\* What items_[0] may be: items due at the same time come in any order.
Head == {i \in items : \A j \in items : ~cmp(i, j)}

\* The difference of the majors is an int, not a uint8_t.
Due(i) ==
    /\ Sub(now, item[i].last_execution) >= item[i].interval
    /\ millis_major - next_execution_major(i) <= 1

\* millis_: reads the clock and counts its rounds.
ReadClock ==
    /\ last_millis' = millis
    /\ millis_major' = IF millis < last_millis THEN (millis_major + 1) % Majors
                       ELSE millis_major
-----------------------------------------------------------------------------
(***************************************************************************)
(* Setting and cancelling, from a component or from an item that runs.     *)
(***************************************************************************)
Matches(i, n) == item[i].name = n

\* Mutant: only the heap is searched.
Cancelled_HeapOnly(n) == {i \in items : Matches(i, n)}

Cancelled(n) == {i \in Used : Matches(i, n)}

RemoveCount(n) ==
    to_remove + Cardinality({i \in items : Matches(i, n) /\ ~item[i].remove})

Flagged(n) == [i \in Id |-> IF i \in Cancelled(n)
                            THEN [item[i] EXCEPT !.remove = TRUE] ELSE item[i]]

CanAct == pc \in {"idle", "f"}
Fresh == CHOOSE i \in Id : i \notin Used \cup {running}

cancel_item(n) ==
    /\ CanAct
    /\ item' = Flagged(n)
    /\ to_remove' = RemoveCount(n)
    /\ wanted' = wanted \ {n}
    /\ UNCHANGED <<millis, clock, items, to_add, failed, pc, now, running, gap>>

\* set_timeout and set_interval: cancel the item of the same name, if it has one,
\* and add the new one unless it is not to run.  major is that of the last execution.
Set(n, d, last, major, wait) ==
    /\ CanAct
    /\ ReadClock
    /\ LET cancel == n \notin Unnamed
           flagged == IF cancel THEN Flagged(n) ELSE item
       IN  /\ to_remove' = IF cancel THEN RemoveCount(n) ELSE to_remove
           /\ \/ /\ d = DontRun
                 /\ item' = flagged
                 /\ wanted' = IF cancel THEN wanted \ {n} ELSE wanted
                 /\ UNCHANGED to_add
              \/ /\ d # DontRun
                 /\ Id \ (Used \cup {running}) # {}
                 /\ to_add' = to_add \cup {Fresh}
                 /\ item' = [flagged EXCEPT ![Fresh] =
                              [name |-> n, interval |-> d, last_execution |-> last,
                               last_execution_major |-> major, remove |-> FALSE,
                               wait |-> wait]]
                 /\ wanted' = wanted \cup {n}
    /\ UNCHANGED <<millis, items, failed, pc, now, running, gap>>

set_timeout(n, d) == Set(n, d, millis, millis_major', d)

\* A first execution offset before now: last_execution lies an interval earlier.
set_interval(n, d) ==
    \E offset \in {r \div 2 : r \in 0 .. (IF d \in {0, DontRun} THEN 0 ELSE d - 1)} :
        LET last == Sub(millis, offset + d)
        IN  Set(n, d, last,
                IF last > millis THEN (millis_major' - 1) % Majors ELSE millis_major',
                -offset)

SetItem(n) == \/ n \in Timeout /\ \E d \in Timeouts : set_timeout(n, d)
              \/ n \in Interval /\ \E d \in Intervals : set_interval(n, d)
-----------------------------------------------------------------------------
(***************************************************************************)
(* call.                                                                   *)
(***************************************************************************)
Drop(S) == [i \in Id |-> IF i \in S THEN Free ELSE item[i]]
Removed(S) == {i \in S : item[i].remove}

\* The clock is read, process_to_add, and the heap purged when too much of it is
\* removed; to_remove_ is then what the purge has left of it, or 0.
CallStart ==
    /\ pc = "idle"
    /\ pc' = "run"
    /\ now' = millis /\ gap' = 0
    /\ ReadClock
    /\ to_add' = {}
    /\ LET heap == items \cup (to_add \ Removed(to_add))
       IN  \/ /\ to_remove <= MaxDeleted
              /\ items' = heap /\ item' = Drop(Removed(to_add))
              /\ UNCHANGED to_remove
           \/ /\ to_remove > MaxDeleted
              /\ items' = heap \ Removed(items)
              /\ item' = Drop(Removed(Used))
              /\ to_remove' = 0
    /\ UNCHANGED <<millis, failed, running, wanted>>

Pop(i) == items' = items \ {i}

\* cleanup_, by empty_ in call and in next_schedule_in: a removed head goes.
CleanupHead(i) ==
    /\ pc \in {"idle", "run"}
    /\ i \in Head /\ item[i].remove
    /\ Pop(i) /\ item' = Drop({i})
    /\ to_remove' = to_remove - 1
    /\ UNCHANGED <<millis, clock, to_add, failed, pc, now, running, gap, wanted>>

RunFailed(i) ==
    /\ pc = "run"
    /\ i \in Head /\ ~item[i].remove /\ Due(i)
    /\ item[i].name \in failed
    /\ Pop(i) /\ item' = Drop({i})
    /\ wanted' = wanted \ {item[i].name}
    /\ UNCHANGED <<millis, clock, to_add, to_remove, failed, pc, now, running, gap>>

RunItem(i) ==
    /\ pc = "run"
    /\ i \in Head /\ ~item[i].remove /\ Due(i)
    /\ item[i].name \notin failed
    /\ pc' = "f" /\ running' = i
    /\ wanted' = IF item[i].name \in Timeout THEN wanted \ {item[i].name} ELSE wanted
    /\ UNCHANGED <<millis, clock, item, items, to_add, to_remove, failed, now, gap>>

\* Mutant: an interval moves on to now, and loses its pace.
Advanced_Drifts(i) ==
    LET e == item[i]
    IN  [e EXCEPT !.last_execution = now, !.wait = @ + Sub(now, e.last_execution),
                  !.last_execution_major =
                      IF now < e.last_execution THEN (@ + 1) % Majors ELSE @]

\* An interval moves on by as many intervals as have passed.
Advanced(i) ==
    LET e == item[i]
        d == IF e.interval = 0 THEN 0
             ELSE (Sub(now, e.last_execution) \div e.interval) * e.interval
        last == (e.last_execution + d) % Wrap
    IN  [e EXCEPT !.last_execution = last, !.wait = @ + d,
                  !.last_execution_major =
                      IF last < e.last_execution THEN (@ + 1) % Majors ELSE @]

\* Mutant: an interval is not pushed again.
ItemDone_Once ==
    /\ pc = "f"
    /\ pc' = "run" /\ running' = 0
    /\ Pop(running) /\ item' = Drop({running}) /\ UNCHANGED to_add
    /\ to_remove' = IF item[running].remove THEN to_remove - 1 ELSE to_remove
    /\ UNCHANGED <<millis, clock, failed, now, gap, wanted>>

\* f returned: the item leaves the heap; an interval that was not cancelled meanwhile
\* is pushed again.
ItemDone ==
    /\ pc = "f"
    /\ pc' = "run" /\ running' = 0
    /\ Pop(running)
    /\ \/ /\ item[running].remove
          /\ to_remove' = to_remove - 1
          /\ item' = Drop({running}) /\ UNCHANGED to_add
       \/ /\ ~item[running].remove /\ item[running].name \in Interval
          /\ item' = [item EXCEPT ![running] = Advanced(running)]
          /\ to_add' = to_add \cup {running} /\ UNCHANGED to_remove
       \/ /\ ~item[running].remove /\ item[running].name \in Timeout
          /\ item' = Drop({running}) /\ UNCHANGED <<to_add, to_remove>>
    /\ UNCHANGED <<millis, clock, failed, now, gap, wanted>>

\* Nothing more is due: process_to_add once more.
CallEnd ==
    /\ pc = "run"
    /\ items # {} => \E i \in Head : ~item[i].remove /\ ~Due(i)
    /\ pc' = "idle"
    /\ items' = items \cup (to_add \ Removed(to_add))
    /\ item' = Drop(Removed(to_add))
    /\ to_add' = {}
    /\ now' = 0
    /\ UNCHANGED <<millis, clock, to_remove, failed, running, gap, wanted>>

\* next_schedule_in reads the clock, when its cleanup_ has left an item.
NextScheduleIn ==
    /\ pc = "idle" /\ items # {}
    /\ \E i \in Head : ~item[i].remove
    /\ ReadClock
    /\ UNCHANGED <<millis, item, items, to_add, to_remove, failed, pc, now, running,
                   gap, wanted>>
-----------------------------------------------------------------------------
MarkFailed(n) ==
    /\ CanAct /\ n \notin failed
    /\ failed' = failed \cup {n}
    /\ UNCHANGED <<millis, clock, item, items, to_add, to_remove, pc, now, running, gap,
                   wanted>>

Tick ==
    /\ CanAct /\ gap < MaxGap
    /\ gap' = gap + 1
    /\ millis' = (millis + 1) % Wrap
    /\ item' = [i \in Id |-> IF i \in Used THEN [item[i] EXCEPT !.wait = @ - 1]
                             ELSE item[i]]
    /\ UNCHANGED <<clock, items, to_add, to_remove, failed, pc, now, running, wanted>>

Init ==
    /\ millis = 0 /\ last_millis = 0 /\ millis_major = 0
    /\ item = [i \in Id |-> Free]
    /\ items = {} /\ to_add = {} /\ to_remove = 0 /\ failed = {}
    /\ pc = "idle" /\ now = 0 /\ running = 0
    /\ gap = 0 /\ wanted = {}

Call == \/ CallStart \/ ItemDone \/ CallEnd
        \/ \E i \in items : CleanupHead(i) \/ RunFailed(i) \/ RunItem(i)
Next == \/ Call \/ NextScheduleIn \/ Tick
        \/ \E n \in Name : SetItem(n) \/ cancel_item(n)
        \/ \E n \in MayFail : MarkFailed(n)
Spec == Init /\ [][Next]_vars

\* Application::loop calls for ever, items return, and time passes.
FairSpec == Spec /\ WF_vars(Call) /\ SF_vars(Tick)
-----------------------------------------------------------------------------
(***************************************************************************)
(* Properties.                                                             *)
(***************************************************************************)
Entry == [name : Name, interval : 0 .. Wrap - 1, last_execution : 0 .. Wrap - 1,
          last_execution_major : 0 .. Majors - 1, remove : BOOLEAN, wait : Int]

\* Every variable has its type, and an item is in the heap or to be added.
TypeOK ==
    /\ {millis, last_millis, now} \subseteq 0 .. Wrap - 1
    /\ millis_major \in 0 .. Majors - 1
    /\ DOMAIN item = Id
    /\ \A i \in Id : item[i] \in (IF i \in Used THEN Entry ELSE {Free})
    /\ items \subseteq Id /\ to_add \subseteq Id /\ items \cap to_add = {}
    /\ to_remove \in Nat /\ failed \subseteq Name /\ wanted \subseteq Name
    /\ pc \in {"idle", "run", "f"} /\ gap \in 0 .. MaxGap
    /\ running \in Id \cup {0} /\ (pc = "f" <=> running \in items)

\* to_remove_ counts the removed items of the heap, so that the purge leaves 0:
\* "The following should not happen unless I'm missing something"
\* (scheduler.cpp:123-128).
RemovalsCounted == to_remove = Cardinality(Removed(items))

\* The items of a name that will run.
Live(n) == {i \in Used : Matches(i, n) /\ ~item[i].remove
                          /\ ~(i = running /\ n \in Timeout)}

\* A name that was set, and neither cancelled nor run out, has one item that will run;
\* any other has none: no item is lost, doubled, or run after a cancel, also when
\* items set and cancel one another and themselves while they run.
OneItemEach ==
    \A n \in Name \ Unnamed : Cardinality(Live(n)) = IF n \in wanted THEN 1 ELSE 0

\* No item runs before its time, in whatever round of millis() it was set.
NeverEarly == pc = "f" => item[running].wait <= 0

\* A call runs everything that was due when it read the clock: the heap's order holds
\* across the rounds of millis() and of the major counter.
NothingDueLeft ==
    [][CallEnd => \A i \in items : ~item[i].remove => item[i].wait + gap > 0]_vars

\* To who sets and cancels by name, heap, flags and wrapping clocks are a set of timers:
\* each runs when due and not before, never once it was cancelled or replaced, also by
\* itself, nor on a failed component; an interval keeps its pace however late it runs.
TimerOf(n) == LET i == CHOOSE j \in Id : Live(n) = {j}
              IN  [due |-> item[i].wait, period |-> item[i].interval]
SetTimers == [n \in wanted \ Unnamed |-> TimerOf(n)]
RunsNow == IF pc = "f" THEN {item[running].name} \ Unnamed ELSE {}
GoesOn == IF pc = "f" /\ item[running].remove THEN {} ELSE RunsNow \cap Interval

T == INSTANCE Timers WITH
         Timeout <- Timeout \ Unnamed, Interval <- Interval \ Unnamed, Never <- DontRun,
         timer <- SetTimers, runs <- RunsNow, again <- GoesOn, failed <- failed \ Unnamed
TimersKept == T!Spec

\* An item that stays wanted runs, again and again if it is an interval, unless it
\* is set anew over and over.
WantedRuns ==
    \A n \in Name : <>[](n \in wanted) =>
        \/ []<>(pc = "f" /\ item[running].name = n)
        \/ []<><<SetItem(n)>>_vars

\* What holds in every state: the heap's bookkeeping is right, and nothing runs early.
SchedulerInv == TypeOK /\ RemovalsCounted /\ OneItemEach /\ NeverEarly
=============================================================================
