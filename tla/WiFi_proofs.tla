----------------------------- MODULE WiFi_proofs -----------------------------
(***************************************************************************)
(* What holds of the WiFi component for any access points, whatever they   *)
(* do, any configurations, and every delay of the driver.                  *)
(***************************************************************************)
EXTENDS WiFi, TLAPS, WellFoundedInduction, SequenceTheorems

\* Who is shown has asked for the web server.  Where access points do not fail to
\* start the portal is shown only beside the component's own, which comes up once: so
\* the server is asked for once.
Once ==
    /\ ServerMatchesPortal
    /\ portal.active => apSetup
    /\ pc = "boot" => ~apSetup
IInv ==
    /\ TypeOK
    /\ portal.active => portal.users >= 1
    /\ ~ApMayFail => Once

-----------------------------------------------------------------------------
\* The lowest and the highest of a set of numbers.
LEMMA Lowest ==
    ASSUME NEW S \in SUBSET Nat, S # {}
    PROVE  \E x \in S : \A y \in S : x <= y
<1> DEFINE R == OpToRel(<, Nat)
<1>1. R = {ss \in Nat \X Nat : ss[1] < ss[2]}
  BY DEF OpToRel
<1>2. IsWellFoundedOn(R, Nat)
  BY NatLessThanWellFounded
<1> HIDE DEF R
<1>3. PICK x \in S : \A y \in S : ~(<<y, x>> \in R)
  BY <1>2, WFMin
<1>4. \A y \in S : ~(y < x)
  BY <1>1, <1>3
<1>5. \A y \in S : x <= y
  BY <1>4
<1>6. QED
  BY <1>5

LEMMA Highest ==
    ASSUME NEW S \in SUBSET Int, S # {}, NEW m \in Int, \A x \in S : x <= m
    PROVE  \E x \in S : \A y \in S : y <= x
<1> DEFINE T == {m - x : x \in S}
<1>1. T \in SUBSET Nat /\ T # {}
  <2>1. ASSUME NEW x \in S PROVE m - x \in Nat
    <3>1. x \in Int /\ x <= m
      OBVIOUS
    <3>2. QED
      BY <3>1
  <2>2. QED
    BY <2>1
<1> HIDE DEF T
<1>2. PICK t \in T : \A u \in T : t <= u
  BY <1>1, Lowest
<1>3. PICK x \in S : t = m - x
  BY DEF T
<1>4. ASSUME NEW y \in S PROVE y <= x
  <2>1. m - y \in T
    BY DEF T
  <2>2. m - x <= m - y
    BY <1>2, <1>3, <2>1
  <2>3. x \in Int /\ y \in Int
    OBVIOUS
  <2>4. QED
    BY <2>2, <2>3
<1>5. QED
  BY <1>4

-----------------------------------------------------------------------------
\* What is asked of the driver is well formed.
LEMMA NetTypes ==
    /\ NoNet \in Nets /\ Any \in Bssid \cup {Any}
    /\ \A net \in Nets : net.bssid \in Bssid \cup {Any} /\ net.priority \in -PrioSpan .. 0
    /\ \A net \in Nets : Whole(net) \in Params
    /\ \A net \in Savable : <<net>> \in Seq(Nets)
<1>1. NoNet \in Nets /\ \A net \in Savable : net \in Nets
  BY DEF Nets
<1>2. \A net \in Nets : net.bssid \in Bssid \cup {Any} /\ net.priority \in -PrioSpan .. 0
  BY NetworksAssumption
<1>3. \A net \in Nets : Whole(net) \in Params
  BY <1>2 DEF Whole, Params
<1>4. QED
  BY <1>1, <1>2, <1>3

LEMMA First ==
    ASSUME TypeOK, sta # <<>>
    PROVE  sta[1] \in Nets /\ Whole(sta[1]) \in Params
<1>1. sta[1] \in Nets
  BY DEF TypeOK
<1>2. QED
  BY <1>1, NetTypes

\* The first network that an access point matches.
LEMMA Matched ==
    ASSUME TypeOK, NEW b \in Bssid, Matching(b) # {}
    PROVE  FirstMatch(b) \in Nets /\ ConnectParams(b) \in Params
<1>1. Matching(b) \in SUBSET Nat /\ Matching(b) \subseteq DOMAIN sta
  BY DEF Matching, TypeOK
<1>2. \E i \in Matching(b) : \A j \in Matching(b) : i <= j
  BY <1>1, Lowest
<1>3. FirstMatch(b) \in Nets
  BY <1>1, <1>2 DEF FirstMatch, TypeOK
<1>4. ConnectParams(b) \in Params
  BY <1>3 DEF ConnectParams, Params
<1>5. QED
  BY <1>3, <1>4

\* Priorities stay within the span.
Prio == -PrioSpan .. Unset

LEMMA RelativeType ==
    ASSUME NEW p, \A b \in Bssid : p[b] \in -PrioSpan - 1 .. Unset
    PROVE  Relative(p) \in [Bssid -> Prio]
<1> DEFINE S == {p[b] : b \in Bssid}
           top == IF \E b \in Bssid : p[b] \in {0, Unset} THEN 0
                  ELSE CHOOSE t \in S : \A b \in Bssid : p[b] <= t
<1>0. PrioSpan \in Nat /\ Unset = 1
  BY WiFiAssumption DEF Unset
<1>1. ASSUME NEW b \in Bssid
      PROVE  top \in Int /\ (p[b] = Unset \/ p[b] <= top)
  <2>1. CASE \E a \in Bssid : p[a] \in {0, Unset}
    <3>1. top = 0
      BY <2>1
    <3>2. p[b] \in Int /\ p[b] <= 1
      BY <1>0
    <3>3. p[b] = 1 \/ p[b] <= 0
      BY <3>2
    <3> HIDE DEF top
    <3>4. QED
      BY <1>0, <3>1, <3>3
  <2>2. CASE ~\E a \in Bssid : p[a] \in {0, Unset}
    <3>1. S \in SUBSET Int /\ S # {} /\ \A x \in S : x <= 1
      BY <1>0
    <3>2. \E x \in S : \A y \in S : y <= x
      <4> HIDE DEF S
      <4>1. 1 \in Int
        OBVIOUS
      <4>2. QED
        BY <3>1, <4>1, Highest
    <3>3. \E t \in S : \A a \in Bssid : p[a] <= t
      <4>1. \A a \in Bssid : p[a] \in S
        OBVIOUS
      <4>2. QED
        BY <3>2, <4>1
    <3>4. top = CHOOSE t \in S : \A a \in Bssid : p[a] <= t
      BY <2>2
    <3>5. top \in S /\ \A a \in Bssid : p[a] <= top
      BY <3>3, <3>4
    <3>6. QED
      BY <3>1, <3>5
  <2>3. QED
    BY <2>1, <2>2
<1> DEFINE new(b) == IF p[b] = Unset THEN Unset
                     ELSE IF p[b] - top < -PrioSpan THEN -PrioSpan ELSE p[b] - top
<1>2. Relative(p) = [b \in Bssid |-> new(b)]
  BY DEF Relative
<1> HIDE DEF top
<1>3. ASSUME NEW b \in Bssid PROVE new(b) \in Prio
  <2>1. p[b] \in Int /\ top \in Int /\ (p[b] = Unset \/ p[b] <= top)
    BY <1>0, <1>1
  <2>2. CASE p[b] = Unset
    BY <1>0, <2>2 DEF Prio
  <2>3. CASE p[b] # Unset
    <3>1. p[b] - top \in Int /\ p[b] - top <= 0
      BY <2>1, <2>3
    <3>2. QED
      BY <1>0, <2>3, <3>1 DEF Prio
  <2>4. QED
    BY <2>2, <2>3
<1> HIDE DEF new
<1>4. QED
  BY <1>2, <1>3

LEMMA LoweredType ==
    ASSUME TypeOK, NEW b \in Bssid \cup {Any}
    PROVE  Lowered(b) \in [Bssid -> Prio]
<1>0. PrioSpan \in Nat /\ Unset = 1 /\ prio \in [Bssid -> Prio]
  BY WiFiAssumption DEF Unset, TypeOK, Prio
<1>1. CASE b = Any
  BY <1>0, <1>1 DEF Lowered
<1>2. CASE b # Any
  <2> DEFINE low == get_sta_priority(prio, b) - 1
             p == [prio EXCEPT ![b] = low]
  <2>1. b \in Bssid /\ prio[b] \in Int /\ -PrioSpan <= prio[b] /\ prio[b] <= 1
    BY <1>0, <1>2 DEF Prio
  <2>2. low \in -PrioSpan - 1 .. Unset
    BY <1>0, <2>1 DEF get_sta_priority
  <2>3. \A a \in Bssid : p[a] = IF a = b THEN low ELSE prio[a]
    BY <1>0, <2>1
  <2>4. \A a \in Bssid : prio[a] \in -PrioSpan - 1 .. Unset
    BY <1>0 DEF Prio
  <2> HIDE DEF low, p
  <2>5. \A a \in Bssid : p[a] \in -PrioSpan - 1 .. Unset
    BY <2>2, <2>3, <2>4
  <2>6. Relative(p) \in [Bssid -> Prio]
    BY <2>5, RelativeType
  <2>7. QED
    BY <1>2, <2>6 DEF Lowered, p, low
<1>3. QED
  BY <1>1, <1>2

LEMMA RankedType ==
    ASSUME TypeOK
    PROVE  Ranked \in [Bssid -> Prio]
<1>0. PrioSpan \in Nat /\ Unset = 1 /\ prio \in [Bssid -> Prio]
  BY WiFiAssumption DEF Unset, TypeOK, Prio
<1>1. ASSUME NEW b \in Bssid, Matching(b) # {}
      PROVE  FirstMatch(b).priority \in Prio
  <2>1. FirstMatch(b).priority \in -PrioSpan .. 0
    BY <1>1, Matched, NetTypes
  <2>2. QED
    BY <1>0, <2>1 DEF Prio
<1>2. QED
  BY <1>0, <1>1 DEF Ranked

\* Of two, the second comes last.
LEMMA Pair ==
    ASSUME NEW S, NEW e \in S, NEW f \in S
    PROVE  Append(<<e>>, f) = <<e, f>>
<1> DEFINE a == Append(<<e>>, f)
<1>1. <<e>> \in Seq(S) /\ <<e, f>> \in Seq(S)
  OBVIOUS
<1>2. a \in Seq(S) /\ Len(a) = 2 /\ a[1] = e /\ a[2] = f
  BY <1>1, AppendProperties
<1> HIDE DEF a
<1>3. Len(<<e, f>>) = 2 /\ <<e, f>>[1] = e /\ <<e, f>>[2] = f
  OBVIOUS
<1>4. \A i \in 1 .. Len(a) : a[i] = <<e, f>>[i]
  BY <1>2, <1>3
<1>5. a = <<e, f>>
  BY <1>1, <1>2, <1>3, <1>4, SeqEqual
<1>6. QED
  BY <1>5 DEF a

\* The queue of events takes one more that we left.
LEMMA Posted ==
    ASSUME NEW q \in Queues
    PROVE  Disconnected(q) \in Queues
<1>1. CASE q = <<>>
  BY <1>1 DEF Disconnected, Post, Queues
<1>2. CASE q = <<"left">>
  BY <1>2 DEF Disconnected, Post, Queues
<1>3. CASE \E e \in {"got_ip", "failed", "refused"} : q = <<e>>
  <2>1. PICK e \in {"got_ip", "failed", "refused"} : q = <<e>>
    BY <1>3
  <2>2. Len(q) = 1 /\ q[1] = e /\ e # "left" /\ q # <<>>
    BY <2>1
  <2>3. Append(<<e>>, "left") = <<e, "left">>
    <3> DEFINE S == {"got_ip", "failed", "refused", "left"}
    <3>1. e \in S /\ "left" \in S
      BY <2>1
    <3> HIDE DEF S
    <3>2. QED
      BY <3>1, Pair
  <2>4. Post(q, "left") = <<e, "left">>
    BY <2>1, <2>2, <2>3 DEF Post
  <2>5. QED
    BY <2>4 DEF Disconnected, Queues
<1>4. CASE \E e \in {"got_ip", "failed", "refused"} : q = <<e, "left">>
  BY <1>4 DEF Disconnected, Post
<1>5. QED
  BY <1>1, <1>2, <1>3, <1>4 DEF Queues

LEMMA Taken ==
    ASSUME NEW q \in Queues, q # <<>>
    PROVE  Tail(q) \in Queues
<1>1. CASE q = <<"left">>
  BY <1>1 DEF Queues
<1>2. CASE \E e \in {"got_ip", "failed", "refused"} : q = <<e>>
  BY <1>2 DEF Queues
<1>3. CASE \E e \in {"got_ip", "failed", "refused"} : q = <<e, "left">>
  <2>1. PICK e \in {"got_ip", "failed", "refused"} : q = <<e, "left">>
    BY <1>3
  <2>2. Tail(q) = <<"left">>
    BY <2>1
  <2>3. QED
    BY <2>2 DEF Queues
<1>4. QED
  BY <1>1, <1>2, <1>3 DEF Queues

-----------------------------------------------------------------------------
\* What the loop asks of the driver.
Driven ==
    /\ mode \subseteq {"STA", "AP"} /\ status \in {"CONNECTED", "WAITING", "FAILED"}
    /\ link \in {"down", "joining", "up"} /\ peer \in Bssid \cup {Any}
    /\ link = "up" <=> peer # Any
    /\ wanted \in Params /\ events \in Queues /\ scanning \in BOOLEAN
Going == pc \in {"tail", "retry"} /\ state \in State /\ actAge \in 0 .. ActCap

LEMMA Ages == ActCap \in Nat /\ ConnCap \in Nat /\ RetryWrap \in Nat /\ RetryWrap >= 2
<1>1. ApTimeout \in Nat /\ RebootTimeout \in Nat /\ Timeout \in Nat /\ RetryWrap \in Nat
      /\ MaxRetry \in Nat /\ MaxRetry + 1 < RetryWrap
  BY WiFiAssumption
<1>2. QED
  BY <1>1 DEF ActCap, ConnCap

LEMMA Connecting ==
    ASSUME TypeOK, NEW p \in Params, NEW next \in State, NEW old \in State,
           start_connecting(p, next, old)
    PROVE  Driven' /\ Going'
<1>1. Disconnected(events) \in Queues /\ events \in Queues
  BY Posted DEF TypeOK
<1>2. 0 \in 0 .. ActCap
  BY Ages
<1>3. CASE wifi_sta_connect(p) /\ state' = next /\ actAge' = 0 /\ pc' = "tail"
  <2>1. UNCHANGED <<status, scanning>>
    BY DEF start_connecting
  <2>2. mode' \subseteq {"STA", "AP"} /\ wanted' \in Params
    BY <1>3 DEF wifi_sta_connect, TypeOK
  <2>3. /\ link' \in {"down", "joining", "up"} /\ peer' \in Bssid \cup {Any}
        /\ link' = "up" <=> peer' # Any
        /\ events' \in Queues
    BY <1>1, <1>3 DEF wifi_sta_connect, TypeOK
  <2>4. QED
    BY <1>2, <1>3, <2>1, <2>2, <2>3 DEF Driven, Going, TypeOK
<1>4. CASE wifi_sta_connect_fails(p) /\ state' = old /\ pc' = "retry" /\ UNCHANGED actAge
  <2>1. UNCHANGED <<status, scanning>>
    BY DEF start_connecting
  <2>2. mode' \subseteq {"STA", "AP"} /\ wanted' \in Params
    BY <1>4 DEF wifi_sta_connect_fails, TypeOK
  <2>3. /\ link' \in {"down", "joining", "up"} /\ peer' \in Bssid \cup {Any}
        /\ link' = "up" <=> peer' # Any
        /\ events' \in Queues
    BY <1>1, <1>4 DEF wifi_sta_connect_fails, Down, TypeOK
  <2>4. QED
    BY <1>4, <2>1, <2>2, <2>3 DEF Driven, Going, TypeOK
<1>5. QED
  BY <1>3, <1>4 DEF start_connecting

LEMMA Scanning ==
    ASSUME TypeOK, start_scanning
    PROVE  Driven' /\ Going'
<1>1. 0 \in 0 .. ActCap /\ "SCANNING" \in State
  BY Ages DEF State
<1>2. QED
  BY <1>1 DEF start_scanning, linkVars, Driven, Going, TypeOK

LEMMA Otherwise ==
    ASSUME TypeOK, Stay \/ \E old \in State : retry_connect(old)
    PROVE  Driven' /\ Going'
BY DEF retry_connect, Stay, linkVars, Driven, Going, TypeOK

\* A failure is counted against an access point there is.
LEMMA Counts ==
    ASSUME TypeOK, Counted
    PROVE  prio' \in [Bssid -> Prio]
<1>1. selected.bssid \in Bssid \cup {Any}
  BY DEF TypeOK, Params
<1>2. Lowered(selected.bssid) \in [Bssid -> Prio]
  BY <1>1, LoweredType
<1>3. prio \in [Bssid -> Prio]
  BY DEF TypeOK, Prio
<1>4. QED
  BY <1>2, <1>3 DEF Counted

\* What a step of the loop has to keep when neither the portal nor the access point
\* is touched.
LEMMA Kept ==
    ASSUME IInv, Driven', Going', prio' \in [Bssid -> Prio],
           sta' \in Seq(Nets), selected' \in Params, connAge' \in 0 .. ConnCap,
           retried' \in 0 .. RetryWrap - 1, error' \in BOOLEAN, scanDone' \in BOOLEAN,
           results' \subseteq Bssid, UNCHANGED <<conf, saved, air, apSetup, portal>>
    PROVE  IInv'
<1>1. TypeOK'
  BY DEF IInv, TypeOK, Driven, Going, Prio
<1>2. ~ApMayFail => Once'
  BY DEF IInv, Once, ServerMatchesPortal, Going
<1>3. QED
  BY <1>1, <1>2 DEF IInv

LEMMA Start ==
    ASSUME IInv, Setup
    PROVE  IInv'
<1>1. sta' \in Seq(Nets)
  BY NetworksAssumption DEF IInv, TypeOK, Setup
<1>2. Lowered(selected'.bssid) \in [Bssid -> Prio] \/ selected' \notin Params
  BY LoweredType DEF IInv, Params
<1>3. prio \in [Bssid -> Prio]
  BY DEF IInv, TypeOK, Prio
<1>4. selected' \in Params => prio' \in [Bssid -> Prio]
  BY <1>2, <1>3 DEF Setup
<1>5. 0 \in 0 .. ConnCap
  BY Ages
<1>6. CASE /\ sta' # <<>> /\ conf.fast /\ selected' = Whole(sta'[1])
           /\ start_connecting(selected', "CONNECTING", "OFF")
           /\ UNCHANGED <<apSetup, portal>>
  <2>1. sta'[1] \in Nets
    BY <1>1, <1>6
  <2>2. selected' \in Params
    BY <1>6, <2>1, NetTypes
  <2>3. "CONNECTING" \in State /\ "OFF" \in State
    BY DEF State
  <2>4. Driven' /\ Going'
    BY <1>6, <2>2, <2>3, Connecting DEF IInv
  <2>5. QED
    BY <1>1, <1>4, <1>5, <1>6, <2>2, <2>4, Kept DEF Setup, cbVars, IInv, TypeOK
<1>7. CASE /\ sta' # <<>> /\ ~conf.fast /\ start_scanning
           /\ UNCHANGED <<selected, apSetup, portal>>
  <2>1. Driven' /\ Going'
    BY <1>7, Scanning DEF IInv
  <2>2. selected' \in Params
    BY <1>7 DEF IInv, TypeOK
  <2>3. QED
    BY <1>1, <1>4, <1>5, <1>7, <2>1, <2>2, Kept DEF Setup, cbVars, IInv, TypeOK
<1>8. CASE /\ sta' = <<>> /\ conf.ap /\ setup_ap_config
           /\ mode' = mode \cup {"AP"} /\ state' = "AP" /\ pc' = "tail"
           /\ UNCHANGED <<selected, actAge, linkVars, scanning>>
  <2>1. portal' = [active |-> TRUE, users |-> portal.users + 1,
                   handlers |-> IF portal.handlers = 0 THEN 2 ELSE portal.handlers]
    BY <1>8 DEF setup_ap_config, PortalStart
  <2>2. portal \in [active : BOOLEAN, users : Nat, handlers : {0, 2}]
    BY DEF IInv, TypeOK
  <2>3. portal' \in [active : BOOLEAN, users : Nat, handlers : {0, 2}] /\ portal'.users >= 1
        /\ portal'.active /\ portal'.users = portal.users + 1
    BY <2>1, <2>2
  <2>4. ~ApMayFail => apSetup' = TRUE /\ portal.users = 0
    BY <1>8 DEF setup_ap_config, IInv, Once, ServerMatchesPortal, Setup
  <2>5. ~ApMayFail => Once'
    BY <1>8, <2>3, <2>4 DEF Once, ServerMatchesPortal
  <2>6. apSetup' \in BOOLEAN
    BY <1>8 DEF setup_ap_config
  <2>7. "AP" \in State /\ mode' \subseteq {"STA", "AP"}
    BY <1>8 DEF State, IInv, TypeOK
  <2>8. selected' \in Params
    BY <1>8 DEF IInv, TypeOK
  <2>9. TypeOK'
    BY <1>1, <1>4, <1>5, <1>8, <2>3, <2>6, <2>7, <2>8
       DEF Setup, linkVars, cbVars, IInv, TypeOK, Prio
  <2>10. QED
    BY <2>3, <2>5, <2>9 DEF IInv
<1>9. QED
  BY <1>6, <1>7, <1>8 DEF Setup

LEMMA Cools ==
    ASSUME IInv, InCooldown
    PROVE  IInv'
<1>1. Driven' /\ Going'
  <2>1. CASE Stay
    BY <2>1, Otherwise DEF IInv
  <2>2. CASE start_connecting(Whole(sta[1]), "CONNECTING", "COOLDOWN")
    <3>1. Whole(sta[1]) \in Params
      BY First DEF IInv, InCooldown, InState, has_sta
    <3>2. "CONNECTING" \in State /\ "COOLDOWN" \in State
      BY DEF State
    <3>3. QED
      BY <2>2, <3>1, <3>2, Connecting DEF IInv
  <2>3. CASE start_scanning
    BY <2>3, Scanning DEF IInv
  <2>4. QED
    BY <2>1, <2>2, <2>3 DEF InCooldown
<1>2. prio' \in [Bssid -> Prio]
  BY Counts DEF IInv, InCooldown
<1>3. QED
  BY <1>1, <1>2, Kept DEF InCooldown, Rest, IInv, TypeOK

LEMMA Scans ==
    ASSUME IInv, check_scanning_finished
    PROVE  IInv'
<1>1. prio \in [Bssid -> Prio] /\ Ranked \in [Bssid -> Prio]
      /\ Lowered(selected.bssid) \in [Bssid -> Prio]
  BY RankedType, LoweredType DEF IInv, TypeOK, Prio, Params
<1>2. /\ UNCHANGED <<conf, saved, sta, retried, apSetup, error, air, connAge, portal>>
      /\ scanDone' = FALSE /\ results' = {}
  BY DEF check_scanning_finished, Rest
<1>3. ASSUME Driven', Going', selected' \in Params, prio' \in [Bssid -> Prio]
      PROVE  IInv'
  BY <1>2, <1>3, Kept DEF IInv, TypeOK
<1>4. CASE Stay /\ UNCHANGED <<selected, prio>>
  BY <1>1, <1>3, <1>4, Otherwise DEF IInv, TypeOK
<1>5. CASE /\ retry_connect("SCANNING")
           /\ prio' = Lowered(selected.bssid) /\ UNCHANGED selected
  <2>1. Driven' /\ Going'
    <3>1. "SCANNING" \in State
      BY DEF State
    <3>2. QED
      BY <1>5, <3>1, Otherwise DEF IInv
  <2>2. QED
    BY <1>1, <1>3, <1>5, <2>1 DEF IInv, TypeOK
<1>6. CASE /\ \E b \in Best : selected' = ConnectParams(b)
           /\ start_connecting(selected', "CONNECTING", "SCANNING")
           /\ prio' = IF pc' = "tail" THEN Ranked
                      ELSE IF selected'.bssid = Any THEN Ranked
                      ELSE Relative([Ranked EXCEPT ![selected'.bssid] = @ - 1])
  <2>1. PICK b \in Best : selected' = ConnectParams(b)
    BY <1>6
  <2>2. b \in Bssid /\ Matching(b) # {}
    BY DEF Best, IInv, TypeOK
  <2>3. selected' \in Params
    BY <2>1, <2>2, Matched DEF IInv
  <2>4. "CONNECTING" \in State /\ "SCANNING" \in State
    BY DEF State
  <2>5. Driven' /\ Going'
    BY <1>6, <2>3, <2>4, Connecting DEF IInv
  <2>6. prio' \in [Bssid -> Prio]
    <3>1. CASE prio' = Ranked
      BY <1>1, <3>1
    <3>2. CASE /\ selected'.bssid # Any
               /\ prio' = Relative([Ranked EXCEPT ![selected'.bssid] = @ - 1])
      <4>1. PICK a \in Bssid : a = selected'.bssid
        BY <2>3, <3>2 DEF Params
      <4> DEFINE p == [Ranked EXCEPT ![a] = @ - 1]
      <4>2. PrioSpan \in Nat /\ Unset = 1
        BY WiFiAssumption DEF Unset
      <4>3. \A c \in Bssid : Ranked[c] \in -PrioSpan .. 1
        BY <1>1, <4>2 DEF Prio
      <4>4. \A c \in Bssid : p[c] = IF c = a THEN Ranked[a] - 1 ELSE Ranked[c]
        BY <1>1
      <4> HIDE DEF p
      <4>5. \A c \in Bssid : p[c] \in -PrioSpan - 1 .. Unset
        BY <4>2, <4>3, <4>4
      <4>6. Relative(p) \in [Bssid -> Prio]
        BY <4>5, RelativeType
      <4>7. QED
        BY <3>2, <4>1, <4>6 DEF p
    <3>3. QED
      BY <1>6, <3>1, <3>2
  <2>7. QED
    BY <1>3, <2>3, <2>5, <2>6
<1>7. QED
  BY <1>4, <1>5, <1>6 DEF check_scanning_finished

LEMMA Connects ==
    ASSUME IInv, check_connecting_finished
    PROVE  IInv'
<1>1. prio' \in [Bssid -> Prio]
  BY Counts DEF IInv, check_connecting_finished
<1>2. UNCHANGED <<conf, saved, sta, selected, connAge, apSetup, error, scanDone, results, air>>
  BY DEF check_connecting_finished, cbVars
<1>3. pc = "idle"
  BY DEF check_connecting_finished, InState
<1>4. CASE /\ state' = "CONNECTED" /\ retried' = 0 /\ pc' = "tail"
           /\ portal' = IF conf.ap /\ portal.active THEN PortalEnd ELSE portal
           /\ mode' = IF conf.ap THEN mode \ {"AP"} ELSE mode
           /\ UNCHANGED <<actAge, linkVars, scanning>>
  <2>1. portal \in [active : BOOLEAN, users : Nat, handlers : {0, 2}]
    BY DEF IInv, TypeOK
  <2>2. CASE portal.active
    <3>1. portal.users \in Nat /\ portal.users >= 1
      BY <2>1, <2>2 DEF IInv
    <3>2. /\ PortalEnd \in [active : BOOLEAN, users : Nat, handlers : {0, 2}]
          /\ ~PortalEnd.active /\ PortalEnd.users = portal.users - 1
      <4> DEFINE u == portal.users - 1
      <4>1. u \in Nat
        BY <3>1
      <4>2. PortalEnd = [portal EXCEPT !.active = FALSE, !.users = u]
        BY DEF PortalEnd
      <4> HIDE DEF u
      <4>3. QED
        <5>1. PortalEnd \in [active : BOOLEAN, users : Nat, handlers : {0, 2}]
          BY <2>1, <4>1, <4>2
        <5>2. PortalEnd.active = FALSE /\ PortalEnd.users = u
          BY <2>1, <4>2
        <5>3. QED
          BY <5>1, <5>2 DEF u
    <3>3. portal' = PortalEnd \/ portal' = portal
      BY <1>4
    <3>4. CASE portal' = PortalEnd
      <4>1. portal' \in [active : BOOLEAN, users : Nat, handlers : {0, 2}]
            /\ ~portal'.active /\ portal'.users = portal.users - 1
        BY <3>2, <3>4
      <4>2. ~ApMayFail => Once'
        BY <1>4, <2>2, <4>1 DEF IInv, Once, ServerMatchesPortal
      <4>3. TypeOK'
        BY <1>1, <1>2, <1>4, <4>1, Ages DEF IInv, TypeOK, linkVars, Prio, State
      <4>4. QED
        BY <4>1, <4>2, <4>3 DEF IInv
    <3>5. CASE portal' = portal
      <4>1. ~ApMayFail => Once'
        BY <1>2, <1>4, <3>5 DEF IInv, Once, ServerMatchesPortal
      <4>2. TypeOK'
        BY <1>1, <1>2, <1>4, <3>5, Ages DEF IInv, TypeOK, linkVars, Prio, State
      <4>3. QED
        BY <3>5, <4>1, <4>2 DEF IInv
    <3>6. QED
      BY <3>3, <3>4, <3>5
  <2>3. CASE ~portal.active
    <3>1. portal' = portal
      BY <1>4, <2>3
    <3>2. ~ApMayFail => Once'
      BY <1>2, <1>4, <3>1 DEF IInv, Once, ServerMatchesPortal
    <3>3. TypeOK'
      BY <1>1, <1>2, <1>4, <3>1, Ages DEF IInv, TypeOK, linkVars, Prio, State
    <3>4. QED
      BY <3>1, <3>2, <3>3 DEF IInv
  <2>4. QED
    BY <2>2, <2>3
<1>5. CASE (retry_connect(state) \/ Stay) /\ UNCHANGED <<retried, portal>>
  <2>1. Driven' /\ Going'
    <3>1. state \in State
      BY DEF IInv, TypeOK
    <3>2. QED
      BY <1>5, <3>1, Otherwise DEF IInv
  <2>2. QED
    BY <1>1, <1>2, <1>5, <2>1, Kept DEF IInv, TypeOK
<1>6. QED
  BY <1>4, <1>5 DEF check_connecting_finished

LEMMA Watches ==
    ASSUME IInv, InConnected \/ Idle
    PROVE  IInv'
<1>1. Driven' /\ Going'
  <2>1. "CONNECTING" \in State
    BY DEF State
  <2>2. QED
    BY <2>1, Otherwise DEF InConnected, Idle, IInv
<1>2. prio' \in [Bssid -> Prio]
  <2>1. CASE InConnected
    BY <2>1, Counts DEF IInv, InConnected
  <2>2. CASE Idle
    BY <2>2 DEF Idle, IInv, TypeOK, Prio
  <2>3. QED
    BY <2>1, <2>2
<1>3. connAge' \in 0 .. ConnCap
  BY Ages DEF InConnected, Idle, IInv, TypeOK
<1>4. UNCHANGED <<conf, saved, sta, retried, apSetup, error, air, selected, scanDone,
                  results, portal>>
  BY DEF InConnected, Idle, Rest
<1>5. QED
  BY <1>1, <1>2, <1>3, <1>4, Kept DEF IInv, TypeOK

LEMMA RestartsAdapter ==
    ASSUME IInv, RetryAdapter
    PROVE  IInv'
<1>1. UNCHANGED <<conf, saved, state, sta, selected, actAge, connAge, prio, apSetup,
                  error, scanDone, results, portal, wanted, scanning, air>>
      /\ pc' = "clear"
  BY DEF RetryAdapter, cbVars
<1>2. retried' \in 0 .. RetryWrap - 1
  <2>1. retried \in 0 .. RetryWrap - 1 /\ RetryWrap \in Nat /\ RetryWrap >= 2
    BY Ages DEF IInv, TypeOK
  <2>2. retried' = 0 \/ retried' = (retried + 1) % RetryWrap
    BY DEF RetryAdapter
  <2>3. QED
    BY <2>1, <2>2
<1>3. mode' \subseteq {"STA", "AP"} /\ status' \in {"CONNECTED", "WAITING", "FAILED"}
  BY DEF RetryAdapter, IInv, TypeOK
<1>4. /\ link' \in {"down", "joining", "up"} /\ peer' \in Bssid \cup {Any}
      /\ link' = "up" <=> peer' # Any
      /\ events' \in Queues
  <2>1. Disconnected(events) \in Queues
    BY Posted DEF IInv, TypeOK
  <2>2. QED
    BY <2>1 DEF RetryAdapter, Down, IInv, TypeOK
<1>5. TypeOK'
  BY <1>1, <1>2, <1>3, <1>4 DEF IInv, TypeOK
<1>6. QED
  BY <1>1, <1>5 DEF IInv, Once, ServerMatchesPortal

LEMMA Again ==
    ASSUME IInv, RetryAgain
    PROVE  IInv'
<1>1. Driven' /\ Going'
  <2>1. CASE start_connecting(selected, "CONNECTING_2", "CONNECTING_2")
    <3>1. selected \in Params /\ "CONNECTING_2" \in State
      BY DEF IInv, TypeOK, State
    <3>2. QED
      BY <2>1, <3>1, Connecting DEF IInv
  <2>2. CASE /\ state' = "COOLDOWN" /\ actAge' = 0 /\ pc' = "tail"
             /\ UNCHANGED <<mode, linkVars, scanning>>
    BY <2>2, Ages DEF IInv, TypeOK, Driven, Going, linkVars, State
  <2>3. QED
    BY <2>1, <2>2 DEF RetryAgain
<1>2. prio' \in [Bssid -> Prio]
  BY Counts DEF IInv, RetryAgain
<1>3. QED
  BY <1>1, <1>2, Kept DEF RetryAgain, IInv, TypeOK

LEMMA FallsBack ==
    ASSUME IInv, FallbackAp
    PROVE  IInv'
<1>1. UNCHANGED <<conf, saved, state, sta, selected, actAge, connAge, retried, prio,
                  error, scanDone, results, status, link, wanted, peer, events,
                  scanning, air>>
      /\ mode' = mode \cup {"AP"} /\ pc' = "idle"
  BY DEF FallbackAp, cbVars, linkVars
<1>2. portal' = [active |-> TRUE, users |-> portal.users + 1,
                 handlers |-> IF portal.handlers = 0 THEN 2 ELSE portal.handlers]
  BY DEF FallbackAp, setup_ap_config, PortalStart
<1>3. portal \in [active : BOOLEAN, users : Nat, handlers : {0, 2}]
  BY DEF IInv, TypeOK
<1>4. portal' \in [active : BOOLEAN, users : Nat, handlers : {0, 2}] /\ portal'.users >= 1
      /\ portal'.active /\ portal'.users = portal.users + 1
  BY <1>2, <1>3
<1>5. ~ApMayFail => apSetup' = TRUE /\ portal.users = 0
  BY DEF FallbackAp, FallbackDue, setup_ap_config, IInv, Once, ServerMatchesPortal
<1>6. ~ApMayFail => Once'
  BY <1>1, <1>4, <1>5 DEF Once, ServerMatchesPortal
<1>7. apSetup' \in BOOLEAN
  BY DEF FallbackAp, setup_ap_config
<1>8. TypeOK'
  BY <1>1, <1>4, <1>7 DEF IInv, TypeOK
<1>9. QED
  BY <1>4, <1>6, <1>8 DEF IInv

\* What a start finds.
LEMMA Begins ==
    ASSUME Fresh, conf' \in Setups, saved' \in Seq(Nets), air' \in Airs
    PROVE  IInv'
<1>1. /\ Whole(NoNet) \in Params /\ <<>> \in Seq(Nets) /\ <<>> \in Queues
      /\ 0 \in 0 .. ActCap /\ 0 \in 0 .. ConnCap /\ 0 \in 0 .. RetryWrap - 1
      /\ "OFF" \in State
  BY NetTypes, Ages DEF Queues, State
<1>2. [b \in Bssid |-> Unset] \in [Bssid -> Prio]
  BY WiFiAssumption DEF Unset, Prio
<1>3. portal' \in [active : BOOLEAN, users : Nat, handlers : {0, 2}]
      /\ ~portal'.active /\ portal'.users = 0
  BY DEF Fresh
<1>4. TypeOK'
  BY <1>1, <1>2, <1>3 DEF Fresh, Down, TypeOK, Prio
<1>5. Once'
  BY <1>3 DEF Fresh, Once, ServerMatchesPortal
<1>6. QED
  BY <1>3, <1>4, <1>5 DEF IInv

\* What happens without the loop leaves the portal and the access point alone.
LEMMA Apart ==
    ASSUME IInv, TypeOK', UNCHANGED <<pc, apSetup, portal>>
    PROVE  IInv'
BY DEF IInv, Once, ServerMatchesPortal

LEMMA JoinsOrBreaks ==
    ASSUME IInv, Joined \/ Broken
    PROVE  IInv'
<1>1. UNCHANGED <<conf, saved, nodeVars, cbVars, portal, mode, status, wanted, scanning, air>>
  BY DEF Joined, Broken
<1>2. events' \in Queues
  BY DEF Joined, Broken, Queues
<1>3. /\ link' \in {"down", "joining", "up"} /\ peer' \in Bssid \cup {Any}
      /\ link' = "up" <=> peer' # Any
  BY WiFiAssumption DEF Joined, Broken, Down
<1>4. TypeOK'
  BY <1>1, <1>2, <1>3 DEF IInv, TypeOK, nodeVars, cbVars
<1>5. QED
  BY <1>1, <1>4, Apart DEF nodeVars

LEMMA Handles ==
    ASSUME IInv, wifi_event_callback
    PROVE  IInv'
<1>1. UNCHANGED <<conf, saved, nodeVars, scanDone, results, portal, mode, wanted,
                  scanning, air>>
  BY DEF wifi_event_callback
<1>2. Tail(events) \in Queues /\ Disconnected(Tail(events)) \in Queues
  <2>1. Tail(events) \in Queues
    BY Taken DEF wifi_event_callback, IInv, TypeOK
  <2>2. QED
    BY <2>1, Posted
<1>3. /\ status' \in {"CONNECTED", "WAITING", "FAILED"} /\ error' \in BOOLEAN
      /\ events' \in Queues
      /\ link' \in {"down", "joining", "up"} /\ peer' \in Bssid \cup {Any}
      /\ link' = "up" <=> peer' # Any
  BY <1>2 DEF wifi_event_callback, Down, IInv, TypeOK
<1>4. TypeOK'
  BY <1>1, <1>3 DEF IInv, TypeOK, nodeVars
<1>5. QED
  BY <1>1, <1>4, Apart DEF nodeVars

LEMMA Leaves ==
    ASSUME IInv, AuthmodeChange
    PROVE  IInv'
<1>1. UNCHANGED <<conf, saved, nodeVars, scanDone, results, portal, mode, status, wanted,
                  scanning, air>>
      /\ error' = TRUE
  BY DEF AuthmodeChange
<1>2. events' \in Queues /\ Down
  BY Posted DEF AuthmodeChange, IInv, TypeOK
<1>3. TypeOK'
  BY <1>1, <1>2 DEF IInv, TypeOK, nodeVars, Down
<1>4. QED
  BY <1>1, <1>3, Apart DEF nodeVars

LEMMA Passes ==
    ASSUME IInv, Tick
    PROVE  IInv'
<1>1. actAge \in 0 .. ActCap /\ connAge \in 0 .. ConnCap /\ ActCap \in Nat /\ ConnCap \in Nat
  BY Ages DEF IInv, TypeOK
<1>2. actAge' \in 0 .. ActCap /\ connAge' \in 0 .. ConnCap
  BY <1>1 DEF Tick
<1>3. UNCHANGED <<conf, saved, pc, state, sta, selected, retried, prio, apSetup, cbVars,
                  portal, mode, linkVars, scanning, air>>
  BY DEF Tick
<1>4. TypeOK'
  BY <1>2, <1>3 DEF IInv, TypeOK, cbVars, linkVars
<1>5. QED
  BY <1>3, <1>4, Apart

LEMMA Others ==
    ASSUME IInv, wifi_scan_done_callback \/ AirChanges \/ save_wifi_sta
    PROVE  IInv'
<1>1. CASE wifi_scan_done_callback
  <2>1. results' \subseteq Bssid /\ scanDone' \in BOOLEAN /\ scanning' = FALSE
    BY <1>1 DEF wifi_scan_done_callback, IInv, TypeOK
  <2>2. UNCHANGED <<conf, saved, nodeVars, error, portal, mode, linkVars, air>>
    BY <1>1 DEF wifi_scan_done_callback
  <2>3. TypeOK'
    BY <2>1, <2>2 DEF IInv, TypeOK, nodeVars, linkVars
  <2>4. QED
    BY <2>2, <2>3, Apart DEF nodeVars
<1>2. CASE AirChanges
  <2>1. UNCHANGED <<conf, saved, nodeVars, cbVars, portal, mode, linkVars, scanning>>
        /\ air' \in Airs
    BY <1>2 DEF AirChanges
  <2>2. TypeOK'
    BY <2>1 DEF IInv, TypeOK, nodeVars, cbVars, linkVars
  <2>3. QED
    BY <2>1, <2>2, Apart DEF nodeVars
<1>3. CASE save_wifi_sta
  <2>1. UNCHANGED <<conf, pc, state, selected, actAge, connAge, retried, prio, apSetup,
                    cbVars, portal, mode, linkVars, scanning, air>>
    BY <1>3 DEF save_wifi_sta
  <2>2. sta' \in Seq(Nets) /\ saved' \in Seq(Nets)
    <3>1. PICK net \in Savable : sta' = <<net>> /\ saved' \in {<<net>>, saved}
      BY <1>3 DEF save_wifi_sta
    <3>2. <<net>> \in Seq(Nets) /\ saved \in Seq(Nets)
      BY NetTypes DEF IInv, TypeOK
    <3>3. QED
      BY <3>1, <3>2
  <2>3. TypeOK'
    BY <2>1, <2>2 DEF IInv, TypeOK, cbVars, linkVars
  <2>4. QED
    BY <2>1, <2>3, Apart
<1>4. QED
  BY <1>1, <1>2, <1>3

-----------------------------------------------------------------------------
LEMMA Established == Init => IInv
<1> SUFFICES ASSUME Init PROVE IInv
  OBVIOUS
<1>1. /\ Whole(NoNet) \in Params /\ <<>> \in Seq(Nets) /\ <<>> \in Queues
      /\ 0 \in 0 .. ActCap /\ 0 \in 0 .. ConnCap /\ 0 \in 0 .. RetryWrap - 1
      /\ "OFF" \in State
  BY NetTypes, Ages DEF Queues, State
<1>2. [b \in Bssid |-> Unset] \in [Bssid -> Prio]
  BY WiFiAssumption DEF Unset, Prio
<1>3. portal \in [active : BOOLEAN, users : Nat, handlers : {0, 2}]
      /\ ~portal.active /\ portal.users = 0
  BY DEF Init
<1>4. saved \in Seq(Nets)
  BY <1>1, NetTypes DEF Init
<1>5. TypeOK
  BY <1>1, <1>2, <1>3, <1>4 DEF Init, TypeOK, Prio
<1>6. Once
  BY <1>3 DEF Init, Once, ServerMatchesPortal
<1>7. QED
  BY <1>3, <1>5, <1>6 DEF IInv

LEMMA Preserved == IInv /\ [Next]_vars => IInv'
<1> SUFFICES ASSUME IInv, [Next]_vars PROVE IInv'
  OBVIOUS
<1>1. CASE Loop
  <2>1. CASE LoopEnd
    <3>1. TypeOK' /\ pc' = "idle" /\ UNCHANGED <<apSetup, portal>>
      BY <2>1 DEF LoopEnd, IInv, TypeOK, cbVars, linkVars
    <3>2. QED
      BY <3>1 DEF IInv, Once, ServerMatchesPortal
  <2>2. CASE Reboot
    <3>1. Fresh /\ conf' \in Setups /\ saved' \in Seq(Nets) /\ air' \in Airs
      BY <2>2 DEF Reboot, IInv, TypeOK
    <3>2. QED
      BY <3>1, Begins
  <2>3. QED
    BY <1>1, <2>1, <2>2, Start, Cools, Scans, Connects, Watches, RestartsAdapter, Again, FallsBack
       DEF Loop
<1>2. CASE Driver
  BY <1>2, JoinsOrBreaks, Handles, Leaves, Others DEF Driver
<1>3. CASE Tick
  BY <1>3, Passes
<1>4. CASE AirChanges \/ save_wifi_sta
  BY <1>4, Others
<1>5. CASE UNCHANGED vars
  <2>1. TypeOK'
    BY <1>5 DEF vars, nodeVars, cbVars, linkVars, IInv, TypeOK
  <2>2. QED
    BY <1>5, <2>1, Apart DEF vars, nodeVars
<1>6. QED
  BY <1>1, <1>2, <1>3, <1>4, <1>5 DEF Next

\* Every variable keeps its type, whatever fails: priorities stay within their span,
\* a failure's count within its byte, and at most one change of the link and
\* our own leaving wait for the event task (wifi_component.cpp, wifi_component_esp32.cpp).
THEOREM Typing == Spec => []TypeOK
<1>1. IInv => TypeOK
  BY DEF IInv
<1>2. QED
  BY <1>1, Established, Preserved, PTL DEF Spec

\* If access points never fail to start, the web server runs as long as the captive
\* portal is shown and no longer, whenever outages, saves and connections come
\* (captive_portal.h:31-36, web_server_base.h:12-31, wifi_component.cpp:74-78, 135-143, 516-521).
THEOREM PortalHasItsServer ==
    ASSUME ~ApMayFail
    PROVE  Spec => []WiFiInv
<1>1. IInv => WiFiInv
  BY DEF IInv, Once, WiFiInv
<1>2. QED
  BY <1>1, Established, Preserved, PTL DEF Spec
=============================================================================
