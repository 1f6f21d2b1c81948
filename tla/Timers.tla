------------------------------- MODULE Timers -------------------------------
(***************************************************************************)
(* What a scheduler promises of the timeouts and intervals that have a     *)
(* name: at most one of each name, that runs when it is due and not        *)
(* before, not once it was cancelled or replaced, nor on a failed          *)
(* component; an interval keeps its pace, however late it runs.            *)
(***************************************************************************)
EXTENDS Integers

CONSTANTS Timeout, Interval,    \* names
          Timeouts, Intervals,  \* delays
          Never                 \* the delay of what is not to run

Name == Timeout \cup Interval

VARIABLES
    timer,      \* what is set: how long until it is due, and with what period
    runs,       \* the name whose function runs, if any
    again,      \* ... if that is an interval and still set
    failed      \* names whose component failed

vars == <<timer, runs, again, failed>>

Init == timer = [n \in {} |-> 0] /\ runs = {} /\ again = {} /\ failed = {}

Without(n) == [m \in DOMAIN timer \ {n} |-> timer[m]]
With(n, due, period) ==
    [m \in DOMAIN timer \cup {n} |-> IF m = n THEN [due |-> due, period |-> period]
                                     ELSE timer[m]]

\* An interval that is set may be late at once, by half of its period.
Set(n, d) ==
    /\ \/ d = Never /\ timer' = Without(n)
       \/ d # Never /\ n \in Timeout /\ timer' = With(n, d, d)
       \/ d # Never /\ n \in Interval /\ \E late \in 0 .. d \div 2 :
                                              timer' = With(n, -late, d)
    /\ again' = again \ {n}
    /\ UNCHANGED <<runs, failed>>

Cancel(n) ==
    /\ timer' = Without(n) /\ again' = again \ {n}
    /\ UNCHANGED <<runs, failed>>

Due(n) == n \in DOMAIN timer /\ timer[n].due <= 0

Run(n) ==
    /\ runs = {} /\ Due(n) /\ n \notin failed
    /\ runs' = {n} /\ again' = {n} \cap Interval
    /\ timer' = IF n \in Timeout THEN Without(n) ELSE timer
    /\ UNCHANGED failed

\* An interval is due whole periods later, one at least, and no more than one from now.
Return ==
    /\ runs # {} /\ runs' = {} /\ again' = {}
    /\ \/ again = {} /\ UNCHANGED timer
       \/ \E n \in again :
             LET t == timer[n]
             IN  \/ t.period = 0 /\ UNCHANGED timer
                 \/ t.period # 0 /\ \E due \in t.due + t.period .. t.period :
                                         /\ (due - t.due) % t.period = 0
                                         /\ timer' = With(n, due, t.period)
    /\ UNCHANGED failed

Drop(n) ==
    /\ runs = {} /\ Due(n) /\ n \in failed
    /\ timer' = Without(n)
    /\ UNCHANGED <<runs, again, failed>>

Fail(n) == failed' = failed \cup {n} /\ UNCHANGED <<timer, runs, again>>

Pass ==
    /\ timer' = [n \in DOMAIN timer |-> [timer[n] EXCEPT !.due = @ - 1]]
    /\ UNCHANGED <<runs, again, failed>>

Next == \/ Return \/ Pass
        \/ \E n \in Timeout : \E d \in Timeouts : Set(n, d)
        \/ \E n \in Interval : \E d \in Intervals : Set(n, d)
        \/ \E n \in Name : Cancel(n) \/ Run(n) \/ Drop(n) \/ Fail(n)
Spec == Init /\ [][Next]_vars
=============================================================================
