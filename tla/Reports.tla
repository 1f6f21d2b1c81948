------------------------------ MODULE Reports ------------------------------
(***************************************************************************)
(* A sensor's way to a client: publish_state gives a raw value to the      *)
(* chain of filters (module Filters), what comes out becomes the sensor's  *)
(* state (sensor.cpp) and is sent to a client that has subscribed          *)
(* (send_sensor_state) as the bytes of module Wire.                        *)
(***************************************************************************)
EXTENDS Wire, Filters

CONSTANTS Chains,       \* chains of filters tried
          Inputs,       \* raw values tried
          MaxInputs,    \* values published, at most
          MaxTime       \* when time stops

VARIABLES chain,        \* <<>> until set_filters
          members,
          now,
          given,        \* what each filter was given, and at last the sensor: [at, value, after],
                        \* after how many values given to the filter before it
          state, has_state,
          subscribed,
          shown         \* what the client was last told

sensor == <<chain, members, now, given, state, has_state, subscribed, shown>>
allVars == <<vars, sensor>>

Key == 5
-----------------------------------------------------------------------------
\* What send_sensor_state sends of value y.
SensorState(y, missing) == [key |-> Key, state |-> y, missing_state |-> missing]

\* Messages are sent to a client that has subscribed, one for each of ms.
Told(ms, to_client) ==
    IF ~to_client \/ ms = <<>> THEN UNCHANGED <<stream, due, to>>
    ELSE /\ stream' = FlattenSeq([k \in DOMAIN ms |-> Frame(25, Encode(SensorStateResponse, ms[k]))])
         /\ due' = [k \in DOMAIN ms |-> [type |-> 25, value |-> Kept(SensorStateResponse, ms[k])]]
         /\ to' = "client"

\* internal_send_state_to_frontend of each of ys, and the callback of the API server, which reads
\* has_state.
\* Mutant: the callback goes first.
internal_send_state_to_frontend_Late(ys) ==
    /\ state' = IF ys = <<>> THEN state ELSE Last(ys)
    /\ has_state' = (has_state \/ ys # <<>>)
    /\ Told([k \in DOMAIN ys |-> SensorState(ys[k], ~has_state)], subscribed)
internal_send_state_to_frontend(ys) ==
    /\ state' = IF ys = <<>> THEN state ELSE Last(ys)
    /\ has_state' = (has_state \/ ys # <<>>)
    /\ Told([k \in DOMAIN ys |-> SensorState(ys[k], ~has_state')], subscribed)

\* Value x was given to filter i: what came to each filter after it is what the filters
\* before that one pass on.
Noted(i, x) ==
    LET Came(j) == IF j < i THEN <<>> ELSE input(SubSeq(chain, 1, j - 1), members, i, x, now).out
        Entry(j, y) == [at |-> now, value |-> y, after |-> IF j = 1 THEN 0 ELSE Len(given[j - 1])]
    IN given' = [j \in DOMAIN given |->
                    given[j] \o [k \in DOMAIN Came(j) |-> Entry(j, Came(j)[k])]]

Untouched == UNCHANGED <<recv_buffer_, handled, listing, asked, called, shown, subscribed, chain>>

set_filters(c) ==
    /\ chain = <<>> /\ due = <<>> /\ listing = <<>>
    /\ chain' = c
    /\ members' = [k \in DOMAIN c |-> NewMembers(c[k])]
    /\ given' = [k \in 1..(Len(c) + 1) |-> <<>>]
    /\ UNCHANGED <<vars, now, state, has_state, subscribed, shown>>

\* Has the timeout or interval of filter k run out?
Ripe(k) ==
    \/ chain[k].kind = "debounce" /\ members[k].at # Never /\ members[k].at <= now
    \/ chain[k].kind = "heartbeat" /\ members[k].at <= now

publish_state(x) ==
    /\ chain # <<>> /\ due = <<>> /\ Len(given[1]) < MaxInputs
    /\ LET r == input(chain, members, 1, x, now)
       IN /\ members' = r.members /\ Noted(1, x)
          /\ internal_send_state_to_frontend(r.out)
    /\ Untouched /\ UNCHANGED now

\* The timer of filter k: a debounced value goes on to the rest of the chain, or whatever
\* value a heartbeat has.
\* Mutant: it goes through the whole chain.
Timer_Whole(k) ==
    /\ due = <<>> /\ Ripe(k)
    /\ LET m == [members EXCEPT ![k].at = IF chain[k].kind = "heartbeat" THEN @ + chain[k].period ELSE Never]
           r == IF m[k].has THEN input(chain, m, 1, m[k].last, now) ELSE After(m, <<>>)
       IN /\ members' = r.members
          /\ IF m[k].has THEN Noted(1, m[k].last) ELSE UNCHANGED given
          /\ internal_send_state_to_frontend(r.out)
    /\ Untouched /\ UNCHANGED now
Timer(k) ==
    /\ due = <<>> /\ Ripe(k)
    /\ LET m == [members EXCEPT ![k].at = IF chain[k].kind = "heartbeat" THEN @ + chain[k].period ELSE Never]
           r == IF m[k].has THEN input(chain, m, k + 1, m[k].last, now) ELSE After(m, <<>>)
       IN /\ members' = r.members
          /\ IF m[k].has THEN Noted(k + 1, m[k].last) ELSE UNCHANGED given
          /\ internal_send_state_to_frontend(r.out)
    /\ Untouched /\ UNCHANGED now

\* The client subscribes and is told the state there is.
Subscribe ==
    /\ chain # <<>> /\ ~subscribed /\ due = <<>>
    /\ subscribed' = TRUE
    /\ Told(<<SensorState(state, ~has_state)>>, TRUE)
    /\ UNCHANGED <<recv_buffer_, handled, listing, asked, called, chain, members, now, given, state,
                   has_state, shown>>

\* Time passes when no timer has run out.
Tick ==
    /\ chain # <<>> /\ due = <<>> /\ now < MaxTime
    /\ \A k \in DOMAIN chain : ~Ripe(k)
    /\ now' = now + 1
    /\ UNCHANGED <<vars, chain, members, given, state, has_state, subscribed, shown>>

\* The client takes note of a sensor's state.
Reading ==
    /\ parse_recv_buffer_
    /\ shown' = IF chain # <<>> /\ Last(handled').type = 25 THEN <<Last(handled').value>> ELSE shown
    /\ UNCHANGED <<chain, members, now, given, state, has_state, subscribed>>

\* Everything else that Wire has, before there is a sensor.
Talk ==
    /\ chain = <<>>
    /\ Talks
    /\ UNCHANGED sensor

ReportsInit ==
    /\ Init
    /\ chain = <<>> /\ members = <<>> /\ now = 0
    /\ given = <<>>
    /\ state = NaN /\ has_state = FALSE
    /\ subscribed = FALSE /\ shown = <<>>

\* When time stops, the device starts over.
Restart ==
    /\ now = MaxTime /\ due = <<>>
    /\ to' = "device"
    /\ chain' = <<>> /\ members' = <<>> /\ now' = 0
    /\ given' = <<>>
    /\ state' = NaN /\ has_state' = FALSE
    /\ subscribed' = FALSE /\ shown' = <<>>
    /\ UNCHANGED <<stream, recv_buffer_, due, handled, listing, asked, called>>

\* A sensor's reports arrive whole, what is said before byte by byte or whole.
Pieces == IF chain = <<>> THEN {1, Len(stream)} ELSE {Len(stream)}

ReportsNext ==
    \/ \E c \in Chains : set_filters(c)
    \/ \E x \in Inputs : publish_state(x)
    \/ \E k \in DOMAIN chain : Timer(k)
    \/ Subscribe
    \/ Tick
    \/ Reading
    \/ Talk
    \/ \E k \in Pieces : on_data_(k) /\ UNCHANGED sensor
    \/ Restart
    \/ Quiet /\ UNCHANGED sensor

ReportsSpec == ReportsInit /\ [][ReportsNext]_allVars
-----------------------------------------------------------------------------
(***************************************************************************)
(* What each filter promises of all it was given, ins, and of all that the *)
(* next was given, outs, said without its members.                         *)
(***************************************************************************)
\* The numbers among the first n inputs.
Of(ins, n) == SelectSeq([k \in 1..n |-> ins[k].value], LAMBDA x : x # NaN)

\* Windows, at their turns: of the last window_size numbers, whatever send_every is.
OfTheLast(f, ins, n) ==
    LET numbers == Of(ins, n)
        window == IF Len(numbers) > f.window THEN Newest(numbers, f.window) ELSE numbers
    IN IF n < f.first \/ (n - f.first) % f.every # 0 THEN <<>>
       ELSE <<CASE f.kind = "average" -> IF window = <<>> THEN {0, NaN} ELSE {Total(window) \div Len(window)}
                [] window = <<>> -> {0}
                [] f.kind = "median" -> {Median(window)}
                [] f.kind = "min" -> {Least(window)}
                [] f.kind = "max" -> {Greatest(window)}>>

\* Weights that decay by 1 - alpha with every number since, and the first has what is left.
Decaying(f, ins, n) ==
    LET numbers == Of(ins, n)
        m == Len(numbers)
        rest == 4 - f.alpha
        Weight(i) == IF i = 1 THEN rest ^ (m - 1) ELSE f.alpha * rest ^ (m - i) * 4 ^ (i - 2)
    IN IF (n - 1) % f.every # 0 THEN <<>>
       ELSE <<{IF numbers = <<>> THEN 0
               ELSE Total([i \in 1..m |-> Weight(i) * numbers[i]]) \div 4 ^ (m - 1)}>>

Evaluated(f, x) ==
    IF x = NaN THEN NaN
    ELSE Total([i \in DOMAIN f.coefficients |-> f.coefficients[i] * (IF i = 1 THEN 1 ELSE x ^ (i - 1))])

\* Does input n pass, if of those before it the ones in S do?  The very first tick does not count
\* for a throttle.
Passes(f, ins, S, n) ==
    LET before == {m \in S : m < n}
        counted == {m \in before : ins[m].at # 0}
        x == ins[n].value
        y == ins[Greatest(SetToSeq(before))].value
    IN CASE f.kind = "throttle" ->
                counted = {} \/ ins[n].at - ins[Greatest(SetToSeq(counted))].at >= f.period
         [] f.kind = "delta" -> x # NaN /\ (before = {} \/ x - y >= f.delta \/ y - x >= f.delta)
         [] f.kind = "filter_out" ->
                IF f.value = NaN \/ x = NaN THEN x # f.value
                ELSE \E edge \in {k * Precision - Precision \div 2 : k \in 0..(x + f.value + 1)} :
                        (x < edge) # (f.value < edge)
Passing(f, ins) ==
    CHOOSE S \in SUBSET DOMAIN ins : \A n \in DOMAIN ins : n \in S <=> Passes(f, ins, S, n)

\* What a filter without a timer owes for input n: sets with one of which each.
Owed(f, ins, n) ==
    CASE f.kind \in {"median", "min", "max", "average"} -> OfTheLast(f, ins, n)
      [] f.kind = "exponential" -> Decaying(f, ins, n)
      [] f.kind = "polynomial" -> <<{Evaluated(f, ins[n].value)}>>
      [] f.kind \in {"throttle", "delta", "filter_out"} ->
            IF n \in Passing(f, ins) THEN <<{ins[n].value}>> ELSE <<>>
OwedByAll(f, ins, n) ==
    IF f.kind # "or" THEN Owed(f, ins, n)
    ELSE FlattenSeq([k \in DOMAIN f.filters |-> Owed(f.filters[k], ins, n)])
AtOnce(f, ins, outs) ==
    LET owed == FlattenSeq([n \in DOMAIN ins |->
                    LET ys == OwedByAll(f, ins, n)
                    IN [k \in DOMAIN ys |-> [at |-> ins[n].at, one_of |-> ys[k]]]])
    IN /\ Len(outs) = Len(owed)
       /\ \A k \in DOMAIN owed : outs[k].at = owed[k].at /\ outs[k].value \in owed[k].one_of

\* A value goes on if none came for a period after it, and then at once.
DebounceRight(f, ins, outs) ==
    /\ \A o \in ToSet(outs) : o.after \in DOMAIN ins
    /\ \A n \in DOMAIN ins :
        LET next == IF n < Len(ins) THEN ins[n + 1].at ELSE now
            came == SelectSeq(outs, LAMBDA o : o.after = n)
        IN /\ \A o \in ToSet(came) : o.at = ins[n].at + f.period /\ o.value = ins[n].value
           /\ next > ins[n].at + f.period => Len(came) = 1
           /\ next < ins[n].at + f.period => came = <<>>

\* Each period the last value goes on.
HeartbeatRight(f, ins, outs) ==
    /\ \A o \in ToSet(outs) : o.at % f.period = 0 /\ o.after > 0 /\ o.value = ins[o.after].value
    /\ \A t \in 1..(now - 1) : t % f.period = 0 /\ (\E n \in DOMAIN ins : ins[n].at < t) =>
            Cardinality({k \in DOMAIN outs : outs[k].at = t}) = 1

\* Every filter, wherever it is in a chain, does to what it is given what it is for, and its answer
\* goes to the next, at once or late: windows hold the last window_size numbers, a throttle, a
\* debounce and a heartbeat keep their periods whenever values come (filter.cpp).
Filtered ==
    \A k \in DOMAIN chain :
        CASE chain[k].kind = "debounce" -> DebounceRight(chain[k], given[k], given[k + 1])
          [] chain[k].kind = "heartbeat" -> HeartbeatRight(chain[k], given[k], given[k + 1])
          [] OTHER -> AtOnce(chain[k], given[k], given[k + 1])

\* Once nothing is under way, a client that subscribed shows the sensor's state, also if that is
\* no number or zero, and knows whether there is one (sensor.cpp, send_sensor_state).
ClientKnows ==
    subscribed /\ due = <<>> => shown = <<SensorState(state, ~has_state)>>
=============================================================================
