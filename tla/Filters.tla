------------------------------ MODULE Filters ------------------------------
(***************************************************************************)
(* The filters of a sensor (components/sensor/filter.cpp): what each does  *)
(* with a new value.  A filter is a record of its kind and its parameters; *)
(* its members are another record, the same for every kind:                *)
(*   queue, sum    the values of a window and their sum                    *)
(*   send_at       inputs since the last output                            *)
(*   last, has     the last value passed on or remembered, if any          *)
(*   at            when: the last input passed on, or the timer's turn     *)
(* A value is an integer, NaN one that stands for itself.  Times are       *)
(* milliseconds in the code, ticks here.                                   *)
(***************************************************************************)
EXTENDS Integers, Sequences, SequencesExt

CONSTANTS NaN,
          Recompute,    \* outputs of a moving average between two sums anew, 10000 inputs in the code
          Precision     \* what a sensor's accuracy rounds to

ASSUME FilterAssumption == NaN \in Int /\ Recompute \in Nat \ {0} /\ Precision \in Nat \ {0}

\* No timer is set and nothing passed on; a heartbeat's interval is always set.
Never == 0

Total(s) == FoldLeft(LAMBDA a, b : a + b, 0, s)
Least(s) == CHOOSE x \in ToSet(s) : \A y \in ToSet(s) : x <= y
Greatest(s) == CHOOSE x \in ToSet(s) : \A y \in ToSet(s) : x >= y
Median(s) ==
    LET sorted == SortSeq(s, <)
        n == Len(s)
    IN IF n % 2 = 1 THEN sorted[n \div 2 + 1] ELSE (sorted[n \div 2 + 1] + sorted[n \div 2]) \div 2
Newest(s, n) == SubSeq(s, Len(s) - n + 1, Len(s))
Rounded(x) == (x + Precision \div 2) \div Precision

\* A filter's members at first; a window's first output is due at input number first, the
\* exponential average's at once.  A heartbeat's interval first runs at once: set_interval puts it
\* back by up to half a period less one, which is no tick for periods of one and two.
Members(f) ==
    [queue |-> <<>>, sum |-> 0, last |-> NaN, has |-> FALSE,
     send_at |-> CASE f.kind \in {"median", "min", "max", "average"} -> f.every - f.first
                   [] f.kind = "exponential" -> f.every - 1
                   [] OTHER -> 0,
     at |-> Never]

\* A filter's members after a value, and what it passes on at once: one value or none.
After(m, out) == [members |-> m, out |-> out]
-----------------------------------------------------------------------------
\* MedianFilter, MinFilter, MaxFilter: of the last values that were numbers; 0 if none was.
OfWindow(f, m, x) ==
    LET queue == IF x = NaN THEN m.queue
                 ELSE IF Len(m.queue) < f.window THEN Append(m.queue, x)
                 ELSE Append(Newest(m.queue, f.window - 1), x)
        result == CASE queue = <<>> -> 0
                    [] queue # <<>> /\ f.kind = "median" -> Median(queue)
                    [] queue # <<>> /\ f.kind = "min" -> Least(queue)
                    [] queue # <<>> /\ f.kind = "max" -> Greatest(queue)
    IN IF m.send_at + 1 >= f.every
       THEN After([m EXCEPT !.queue = queue, !.send_at = 0], <<result>>)
       ELSE After([m EXCEPT !.queue = queue, !.send_at = @ + 1], <<>>)

\* SlidingWindowMovingAverageFilter keeps the sum as values come and go; now and then it adds the
\* window up anew, where an empty one gives no number.
\* Mutant: the value that leaves the window stays in the sum.
SlidingWindow_Adding(f, m, x) ==
    LET full == Len(m.queue) = f.window
        queue == IF x = NaN THEN m.queue ELSE Append(IF full THEN Tail(m.queue) ELSE m.queue, x)
        sum == IF x = NaN THEN m.sum ELSE m.sum + x
        n == m.send_at + 1
    IN IF n % f.every # 0 THEN After([m EXCEPT !.queue = queue, !.sum = sum, !.send_at = n], <<>>)
       ELSE After([m EXCEPT !.queue = queue, !.sum = sum, !.send_at = n],
                  <<IF queue = <<>> THEN 0 ELSE sum \div Len(queue)>>)
SlidingWindow(f, m, x) ==
    LET full == Len(m.queue) = f.window
        queue == IF x = NaN THEN m.queue ELSE Append(IF full THEN Tail(m.queue) ELSE m.queue, x)
        sum == IF x = NaN THEN m.sum ELSE m.sum + x - (IF full THEN Head(m.queue) ELSE 0)
        n == m.send_at + 1
    IN CASE n % f.every # 0 -> After([m EXCEPT !.queue = queue, !.sum = sum, !.send_at = n], <<>>)
         [] n % f.every = 0 /\ n >= Recompute ->
                After([m EXCEPT !.queue = queue, !.sum = Total(queue), !.send_at = 0],
                      <<IF queue = <<>> THEN NaN ELSE Total(queue) \div Len(queue)>>)
         [] OTHER ->
                After([m EXCEPT !.queue = queue, !.sum = sum, !.send_at = n],
                      <<IF queue = <<>> THEN 0 ELSE sum \div Len(queue)>>)

\* ExponentialMovingAverageFilter, alpha in quarters; sum is the accumulator.
Exponential(f, m, x) ==
    LET sum == CASE x = NaN -> m.sum
                 [] x # NaN /\ ~m.has -> x
                 [] OTHER -> (f.alpha * x + (4 - f.alpha) * m.sum) \div 4
        n == m.send_at + 1
    IN After([m EXCEPT !.sum = sum, !.has = @ \/ x # NaN, !.send_at = IF n >= f.every THEN 0 ELSE n],
             IF n >= f.every THEN <<sum>> ELSE <<>>)

\* OffsetFilter, MultiplyFilter, CalibrateLinearFilter, CalibratePolynomialFilter: the
\* coefficients are <<offset, 1>>, <<0, multiplier>>, <<bias, slope>> and as given.
Polynomial(f, m, x) ==
    After(m, <<IF x = NaN THEN NaN ELSE FoldRight(LAMBDA c, v : v * x + c, f.coefficients, 0)>>)

\* FilterOutValueFilter: one value, as far as the sensor's accuracy tells, or whatever is no number.
FilterOut(f, m, x) ==
    LET out == IF f.value = NaN \/ x = NaN THEN x = f.value ELSE Rounded(x) = Rounded(f.value)
    IN After(m, IF out THEN <<>> ELSE <<x>>)

\* ThrottleFilter: no more than one value in a period; at = 0 means that none was passed on yet.
Throttle(f, m, x, now) ==
    IF m.at = Never \/ now - m.at >= f.period THEN After([m EXCEPT !.at = now], <<x>>)
    ELSE After(m, <<>>)

\* DeltaFilter.
Delta(f, m, x) ==
    IF /\ x # NaN
       /\ m.last = NaN \/ x - m.last >= f.delta \/ m.last - x >= f.delta
    THEN After([m EXCEPT !.last = x], <<x>>)
    ELSE After(m, <<>>)

\* DebounceFilter sets its timeout anew, HeartbeatFilter leaves the value to its interval.
Debounce(f, m, x, now) == After([m EXCEPT !.last = x, !.has = TRUE, !.at = now + f.period], <<>>)
Heartbeat(f, m, x) == After([m EXCEPT !.last = x, !.has = TRUE], <<>>)

Filter(f, m, x, now) ==
    CASE f.kind \in {"median", "min", "max"} -> OfWindow(f, m, x)
      [] f.kind = "average" -> SlidingWindow(f, m, x)
      [] f.kind = "exponential" -> Exponential(f, m, x)
      [] f.kind = "polynomial" -> Polynomial(f, m, x)
      [] f.kind = "filter_out" -> FilterOut(f, m, x)
      [] f.kind = "throttle" -> Throttle(f, m, x, now)
      [] f.kind = "delta" -> Delta(f, m, x)
      [] f.kind = "debounce" -> Debounce(f, m, x, now)
      [] f.kind = "heartbeat" -> Heartbeat(f, m, x)

\* OrFilter: every one of its filters gets the value, and what any passes on goes on.  Its
\* members are those of its filters.
NewMembers(f) == IF f.kind = "or" THEN [k \in DOMAIN f.filters |-> Members(f.filters[k])] ELSE Members(f)
new_value(f, m, x, now) ==
    IF f.kind # "or" THEN Filter(f, m, x, now)
    ELSE LET each == [k \in DOMAIN f.filters |-> Filter(f.filters[k], m[k], x, now)]
         IN After([k \in DOMAIN each |-> each[k].members], FlattenSeq([k \in DOMAIN each |-> each[k].out]))
-----------------------------------------------------------------------------
\* The members of a chain after value x is given to its filter i, and what comes out at its end
\* (Filter::input and output).
input(chain, members, i, x, now) ==
    LET \* filter k gets the values acc.out, one after another
        Through(acc, k) ==
            FoldLeft(LAMBDA a, y :
                        LET r == new_value(chain[k], a.members[k], y, now)
                        IN After([a.members EXCEPT ![k] = r.members], a.out \o r.out),
                     After(acc.members, <<>>), acc.out)
    IN FoldLeft(Through, After(members, <<x>>), [k \in 1..(Len(chain) - i + 1) |-> i + k - 1])
=============================================================================
