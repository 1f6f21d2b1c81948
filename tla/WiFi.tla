-------------------------------- MODULE WiFi --------------------------------
(***************************************************************************)
(* WiFiComponent (wifi_component.cpp) over the driver's interface of the   *)
(* ESP32 (wifi_component_esp32.cpp), with the captive portal and the web   *)
(* server it shares.  The loop task runs setup and loop; the driver's      *)
(* event task delivers events, also while retry_connect delays; the web    *)
(* server's task saves settings.                                           *)
(***************************************************************************)
EXTENDS Integers, Sequences, FiniteSets

CONSTANTS
    Bssid,          \* the access points there are
    Any,            \* no BSSID is given: the optional is empty
    Ap,             \* of each: ssid, hidden, auth, channel, rssi
    Airs,           \* what they may do: "off", "refuses" or "accepts"
    Setups,         \* configurations: ap, fast, reboot and sta, the networks
    Savable,        \* networks a user may enter in the portal
    Cooldown,       \* 5000 ms
    Timeout,        \* 30000 ms, of a scan and of a connection
    ApTimeout,      \* ap_timeout_
    RebootTimeout,  \* reboot_timeout_
    MaxRetry,       \* 5
    RetryWrap,      \* 256: num_retried_ is a uint8_t
    PrioSpan,       \* differences of priority beyond it are not told apart
    ApMayFail,      \* wifi_start_ap_ may fail
    DriverMayFail   \* scans and connection requests may fail

ASSUME WiFiAssumption ==
    /\ IsFiniteSet(Bssid) /\ Any \notin Bssid
    /\ {Cooldown, Timeout, ApTimeout, RebootTimeout, MaxRetry, RetryWrap, PrioSpan} \subseteq Nat
    /\ Cooldown < Timeout /\ MaxRetry + 1 < RetryWrap
    /\ ApMayFail \in BOOLEAN /\ DriverMayFail \in BOOLEAN

State == {"OFF", "COOLDOWN", "SCANNING", "CONNECTING", "CONNECTING_2", "CONNECTED", "AP"}
ActCap == Timeout + 1
ConnCap == (IF ApTimeout > RebootTimeout THEN ApTimeout ELSE RebootTimeout) + 1
Unset == 1      \* no entry; priorities are 0 or less

VARIABLES
    conf,       \* the configuration compiled in
    saved,      \* the preference: no network or one
    pc,         \* the loop task: boot, idle, retry, clear, tail
    state,      \* state_
    sta,        \* sta_
    selected,   \* selected_ap_: a network, and the access point if pinned
    actAge,     \* millis() - action_started_
    connAge,    \* now - last_connected_
    retried,    \* num_retried_
    prio,       \* sta_priorities_
    apSetup,    \* ap_setup_
    error,      \* error_from_callback_
    scanDone,   \* scan_done_
    results,    \* scan_result_: the access points in it
    portal,     \* CaptivePortal's active_; WebServerBase's initialized_ and handlers_
    \* The driver and the world:
    mode,       \* which of STA and AP are on
    status,     \* WiFi.status(), as far as the code tells its values apart
    link,       \* down, joining or up
    wanted,     \* the configuration the driver was given last
    peer,       \* the access point of a link that is up
    events,     \* events on their way to the event task
    scanning,   \* a scan is under way
    air         \* what the access points do now

nodeVars == <<pc, state, sta, selected, actAge, connAge, retried, prio, apSetup>>
cbVars == <<error, scanDone, results>>
linkVars == <<status, link, wanted, peer, events>>
vars == <<conf, saved, nodeVars, cbVars, portal, mode, linkVars, scanning, air>>

NoNet == [ssid |-> "", hidden |-> FALSE, password |-> FALSE, bssid |-> Any,
          channel |-> 0, priority |-> 0]
Nets == {NoNet} \cup Savable \cup UNION {{c.sta[i] : i \in DOMAIN c.sta} : c \in Setups}
ASSUME NetworksAssumption ==
    /\ \A c \in Setups : c.sta \in Seq(Nets)
    /\ \A net \in Nets : net.bssid \in Bssid \cup {Any} /\ net.priority \in -PrioSpan .. 0

Params == [net : Nets, bssid : Bssid \cup {Any}]
Whole(net) == [net |-> net, bssid |-> net.bssid]

has_sta == sta # <<>>
is_connected == state = "CONNECTED" /\ status = "CONNECTED" /\ ~error

-----------------------------------------------------------------------------
(***************************************************************************)
(* The driver.  A change of the link becomes an event first; WiFi.status() *)
(* follows when the event task handles it.  An event equal to the last one *)
(* waiting adds nothing.                                                   *)
(***************************************************************************)
Post(q, e) == IF q # <<>> /\ q[Len(q)] = e THEN q ELSE Append(q, e)

\* esp_wifi_disconnect, and the adapter going off: reason ASSOC_LEAVE.
Disconnected(q) == IF link = "down" THEN q ELSE Post(q, "left")
Down == link' = "down" /\ peer' = Any

Fits(p, b) == IF p.bssid = Any THEN Ap[b].ssid = p.net.ssid ELSE p.bssid = b

\* The tail of a loop neither waits nor looks at the driver: what happens during it
\* might as well happen after it.
Elsewhere == pc # "tail"

Joined ==
    /\ Elsewhere /\ link = "joining" /\ events = <<>>
    /\ \E b \in Bssid : Fits(wanted, b) /\ air[b] = "accepts" /\ peer' = b
    /\ link' = "up" /\ events' = <<"got_ip">>
    /\ UNCHANGED <<conf, saved, nodeVars, cbVars, portal, mode, status, wanted, scanning, air>>

\* A join fails or a link breaks: for a reason the callback acts on (no access
\* point found, beacons or a handshake timed out, ...) or for another, as a wrong
\* password.
Broken ==
    /\ Elsewhere /\ events = <<>>
    /\ \/ link = "joining" /\ (\A b \in Bssid : Fits(wanted, b) => air[b] # "accepts")
       \/ link = "joining" /\ \E b \in Bssid : Fits(wanted, b) /\ air[b] = "refuses"
       \/ link = "up" /\ air[peer] # "accepts"
    /\ Down
    /\ \E e \in {"failed", "refused"} : events' = <<e>>
    /\ UNCHANGED <<conf, saved, nodeVars, cbVars, portal, mode, status, wanted, scanning, air>>

\* The event task: Arduino's own handler sets the status, then
\* wifi_event_callback_ runs.
wifi_event_callback ==
    /\ Elsewhere /\ events # <<>>
    /\ \/ /\ events[1] = "got_ip"
          /\ status' = "CONNECTED" /\ events' = Tail(events)
          /\ UNCHANGED <<error, link, peer>>
       \/ /\ events[1] \in {"left", "refused"}
          /\ status' = IF events[1] = "left" THEN "WAITING" ELSE "FAILED"
          /\ events' = Tail(events)
          /\ UNCHANGED <<error, link, peer>>
       \/ /\ events[1] = "failed"
          /\ status' \in {"WAITING", "FAILED"} /\ error' = TRUE
          /\ events' = Disconnected(Tail(events)) /\ Down
    /\ UNCHANGED <<conf, saved, nodeVars, scanDone, results, portal, mode, wanted,
                   scanning, air>>

\* An access point that fell back to no authentication is left at once.
AuthmodeChange ==
    /\ Elsewhere /\ link = "up" /\ air[peer] = "refuses"
    /\ error' = TRUE /\ events' = Disconnected(events) /\ Down
    /\ UNCHANGED <<conf, saved, nodeVars, scanDone, results, portal, mode, status, wanted,
                   scanning, air>>

\* The end of a scan comes after the events before it.
wifi_scan_done_callback ==
    /\ Elsewhere /\ scanning /\ events = <<>>
    /\ scanning' = FALSE
    /\ \/ results' = {b \in Bssid : air[b] # "off"} /\ scanDone' = TRUE
       \/ DriverMayFail /\ results' = {} /\ UNCHANGED scanDone     \* num < 0
    /\ UNCHANGED <<conf, saved, nodeVars, error, portal, mode, linkVars, air>>

AirChanges ==
    /\ pc = "idle" /\ air' \in Airs \ {air}
    /\ UNCHANGED <<conf, saved, nodeVars, cbVars, portal, mode, linkVars, scanning>>

\* A tick is seconds long: events are handled, and loops end, within it.
Tick ==
    /\ pc = "idle" /\ events = <<>>
    /\ actAge' = IF actAge < ActCap THEN actAge + 1 ELSE actAge
    /\ connAge' = IF connAge < ConnCap THEN connAge + 1 ELSE connAge
    /\ UNCHANGED <<conf, saved, pc, state, sta, selected, retried, prio, apSetup, cbVars,
                   portal, mode, linkVars, scanning, air>>

-----------------------------------------------------------------------------
(***************************************************************************)
(* Choosing an access point.                                               *)
(***************************************************************************)
ScannedSsid(b) == IF Ap[b].hidden THEN "" ELSE Ap[b].ssid

\* WiFiScanResult::matches.
matches(b, net) ==
    /\ IF net.hidden THEN Ap[b].hidden ELSE net.ssid \in {"", ScannedSsid(b)}
    /\ net.bssid \in {Any, b}
    /\ net.password = Ap[b].auth
    /\ net.channel \in {0, Ap[b].channel}

Matching(b) == {i \in DOMAIN sta : matches(b, sta[i])}
FirstMatch(b) == sta[CHOOSE i \in Matching(b) : \A j \in Matching(b) : i <= j]

get_sta_priority(p, b) == IF p[b] = Unset THEN 0 ELSE p[b]

\* Priorities only go down; once all have one they are kept relative to the
\* highest.
Relative(p) ==
    LET top == IF \E b \in Bssid : p[b] \in {0, Unset} THEN 0
               ELSE CHOOSE t \in {p[b] : b \in Bssid} : \A b \in Bssid : p[b] <= t
    IN  [b \in Bssid |-> IF p[b] = Unset THEN Unset
                         ELSE IF p[b] - top < -PrioSpan THEN -PrioSpan ELSE p[b] - top]
\* Mutant: a failure does not count against the access point.
Lowered_Never(b) == prio
Lowered(b) ==
    IF b = Any THEN prio
    ELSE Relative([prio EXCEPT ![b] = get_sta_priority(prio, b) - 1])

Ranked == [b \in Bssid |-> IF b \in results /\ Matching(b) # {} /\ prio[b] = Unset
                           THEN FirstMatch(b).priority ELSE prio[b]]
Better(p, a, b) ==
    \/ get_sta_priority(p, a) > get_sta_priority(p, b)
    \/ get_sta_priority(p, a) = get_sta_priority(p, b) /\ Ap[a].rssi > Ap[b].rssi
\* Those the sort may put first; between equals the scan's order decides.
Best == LET found == {b \in results : Matching(b) # {}}
        IN  {b \in found : ~\E a \in found : Better(Ranked, a, b)}

\* A hidden network is asked for by name, another pinned to the access point.
ConnectParams(b) ==
    LET net == FirstMatch(b)
    IN  [net |-> net, bssid |-> IF net.hidden THEN Any ELSE b]

-----------------------------------------------------------------------------
(***************************************************************************)
(* The steps of the loop task.  A step either reaches the loop's tail or   *)
(* goes to retry, the first delay of retry_connect.                        *)
(***************************************************************************)
\* wifi_sta_connect_: a new configuration ends the present link first.
wifi_sta_connect(p) ==
    /\ mode' = mode \cup {"STA"} /\ wanted' = p
    /\ IF wanted # p \/ link = "down"
       THEN events' = Disconnected(events) /\ link' = "joining" /\ peer' = Any
       ELSE UNCHANGED <<events, link, peer>>

\* It fails before or after that link was ended.
wifi_sta_connect_fails(p) ==
    /\ DriverMayFail
    /\ \/ UNCHANGED <<mode, events, link, peer>>
       \/ /\ wanted # p /\ mode' = mode \cup {"STA"}
          /\ events' = Disconnected(events) /\ Down
    /\ UNCHANGED wanted

\* next is CONNECTING or, the second time, CONNECTING_2; a request that fails
\* is retried from the state the step is in, old.
start_connecting(p, next, old) ==
    /\ \/ wifi_sta_connect(p) /\ state' = next /\ actAge' = 0 /\ pc' = "tail"
       \/ wifi_sta_connect_fails(p) /\ state' = old /\ pc' = "retry" /\ UNCHANGED actAge
    /\ UNCHANGED <<status, scanning>>

start_scanning ==
    /\ actAge' = 0 /\ state' = "SCANNING" /\ pc' = "tail"
    /\ \/ scanning' = TRUE /\ mode' = mode \cup {"STA"}
       \/ DriverMayFail /\ UNCHANGED <<scanning, mode>>
    /\ UNCHANGED linkVars

retry_connect(old) ==
    pc' = "retry" /\ state' = old /\ UNCHANGED <<actAge, mode, linkVars, scanning>>

\* The portal and the web server's users.  A second start adds a user.
PortalStart == [active |-> TRUE, users |-> portal.users + 1,
                handlers |-> IF portal.handlers = 0 THEN 2 ELSE portal.handlers]
\* Mutant: the web server is not given back.
PortalEnd_KeepsServer == [portal EXCEPT !.active = FALSE]
PortalEnd == [portal EXCEPT !.active = FALSE, !.users = @ - 1]

\* setup_ap_config_, and the portal that goes with it.
setup_ap_config ==
    /\ apSetup' \in (IF ApMayFail /\ ~apSetup THEN BOOLEAN ELSE {TRUE})
    /\ portal' = PortalStart

Setup ==
    /\ pc = "boot"
    /\ connAge' = 0
    /\ sta' = IF saved = <<>> THEN conf.sta ELSE saved
    /\ \/ /\ sta' # <<>> /\ conf.fast
          /\ selected' = Whole(sta'[1])
          /\ start_connecting(selected', "CONNECTING", "OFF")
          /\ UNCHANGED <<apSetup, portal>>
       \/ /\ sta' # <<>> /\ ~conf.fast
          /\ start_scanning
          /\ UNCHANGED <<selected, apSetup, portal>>
       \/ /\ sta' = <<>> /\ conf.ap
          /\ setup_ap_config
          /\ mode' = mode \cup {"AP"} /\ state' = "AP" /\ pc' = "tail"
          /\ UNCHANGED <<selected, actAge, linkVars, scanning>>
    /\ prio' = IF pc' = "retry" THEN Lowered(selected'.bssid) ELSE prio
    /\ UNCHANGED <<conf, saved, retried, cbVars, air>>

\* One state of loop's switch, up to its break or its retry_connect.
InState(s) == pc = "idle" /\ has_sta /\ state = s
Counted == prio' = IF pc' = "retry" THEN Lowered(selected.bssid) ELSE prio
Stay == pc' = "tail" /\ UNCHANGED <<state, actAge, mode, linkVars, scanning>>
Rest == UNCHANGED <<conf, saved, sta, retried, apSetup, error, air>>

InCooldown ==
    /\ InState("COOLDOWN")
    /\ \/ actAge <= Cooldown /\ Stay
       \/ actAge > Cooldown /\ conf.fast
          /\ start_connecting(Whole(sta[1]), "CONNECTING", "COOLDOWN")
       \/ actAge > Cooldown /\ ~conf.fast /\ start_scanning
    /\ Counted /\ Rest /\ UNCHANGED <<selected, connAge, scanDone, results, portal>>

\* What stays in scan_result_ afterwards is only displayed.
check_scanning_finished ==
    /\ InState("SCANNING")
    /\ scanDone' = FALSE /\ results' = {}
    /\ \/ /\ ~scanDone /\ actAge <= Timeout /\ Stay
          /\ UNCHANGED <<selected, prio>>
       \/ /\ IF scanDone THEN Best = {} ELSE actAge > Timeout
          /\ retry_connect("SCANNING")
          /\ prio' = Lowered(selected.bssid) /\ UNCHANGED selected
       \/ /\ scanDone
          /\ \E b \in Best : selected' = ConnectParams(b)
          /\ start_connecting(selected', "CONNECTING", "SCANNING")
          /\ prio' = IF pc' = "tail" THEN Ranked
                     ELSE IF selected'.bssid = Any THEN Ranked
                     ELSE Relative([Ranked EXCEPT ![selected'.bssid] = @ - 1])
    /\ Rest /\ UNCHANGED <<connAge, portal>>

\* WiFi.SSID() is empty unless the link is up.
check_connecting_finished ==
    /\ \/ InState("CONNECTING") \/ InState("CONNECTING_2")
    /\ \/ /\ status = "CONNECTED" /\ link = "up"
          /\ state' = "CONNECTED" /\ retried' = 0 /\ pc' = "tail"
          /\ portal' = IF conf.ap /\ portal.active THEN PortalEnd ELSE portal
          /\ mode' = IF conf.ap THEN mode \ {"AP"} ELSE mode
          /\ UNCHANGED <<actAge, linkVars, scanning>>
       \/ /\ \/ status = "CONNECTED" /\ link # "up"
             \/ status # "CONNECTED" /\ (actAge > Timeout \/ error \/ status = "FAILED")
          /\ retry_connect(state) /\ UNCHANGED <<retried, portal>>
       \/ /\ status = "WAITING" /\ actAge <= Timeout /\ ~error
          /\ Stay /\ UNCHANGED <<retried, portal>>
    /\ Counted
    /\ UNCHANGED <<conf, saved, sta, selected, connAge, apSetup, cbVars, air>>

InConnected ==
    /\ InState("CONNECTED")
    /\ \/ ~is_connected /\ retry_connect("CONNECTING") /\ UNCHANGED connAge
       \/ is_connected /\ connAge' = 0 /\ Stay
    /\ Counted /\ Rest /\ UNCHANGED <<selected, scanDone, results, portal>>

\* OFF and AP, or no network at all: nothing but the tail.
Idle ==
    /\ pc = "idle"
    /\ ~has_sta \/ state \in {"OFF", "AP"}
    /\ Stay /\ Rest /\ UNCHANGED <<selected, connAge, prio, scanDone, results, portal>>

\* Mutant: each failure starts the counter anew.
RetryAdapter_Forgets ==
    /\ pc = "retry" /\ pc' = "clear"
    /\ IF ~portal.active /\ (retried > MaxRetry \/ error)
       THEN /\ mode' = mode \ {"STA"}
            /\ status' = "WAITING" /\ events' = Disconnected(events) /\ Down
       ELSE UNCHANGED <<mode, status, events, link, peer>>
    /\ retried' = 0
    /\ UNCHANGED <<conf, saved, state, sta, selected, actAge, connAge, prio, apSetup,
                   cbVars, portal, wanted, scanning, air>>
\* retry_connect between its first delay and the adapter's: the adapter is
\* restarted after many failures or on the driver's word.
RetryAdapter ==
    /\ pc = "retry" /\ pc' = "clear"
    /\ IF ~portal.active /\ (retried > MaxRetry \/ error)
       THEN /\ mode' = mode \ {"STA"} /\ retried' = 0
            /\ status' = "WAITING" /\ events' = Disconnected(events) /\ Down
       ELSE /\ retried' = (retried + 1) % RetryWrap
            /\ UNCHANGED <<mode, status, events, link, peer>>
    /\ UNCHANGED <<conf, saved, state, sta, selected, actAge, connAge, prio, apSetup,
                   cbVars, portal, wanted, scanning, air>>


\* ... and after it: a second attempt, or the cooldown.
RetryAgain ==
    /\ pc = "clear" /\ error' = FALSE
    /\ \/ /\ state = "CONNECTING"
          /\ start_connecting(selected, "CONNECTING_2", "CONNECTING_2")
       \/ /\ state # "CONNECTING"
          /\ state' = "COOLDOWN" /\ actAge' = 0 /\ pc' = "tail"
          /\ UNCHANGED <<mode, linkVars, scanning>>
    /\ Counted
    /\ UNCHANGED <<conf, saved, sta, selected, connAge, retried, apSetup, scanDone,
                   results, portal, air>>


\* Mutant: only while no network is found.
FallbackDue_Scanning ==
    has_sta /\ conf.ap /\ ~apSetup /\ connAge > ApTimeout /\ state = "SCANNING"
\* After the switch: the fallback access point, if there is one.
FallbackDue == has_sta /\ conf.ap /\ ~apSetup /\ connAge > ApTimeout
FallbackAp ==
    /\ pc = "tail" /\ FallbackDue
    /\ setup_ap_config
    /\ mode' = mode \cup {"AP"} /\ pc' = "idle"
    /\ UNCHANGED <<conf, saved, state, sta, selected, actAge, connAge, retried, prio,
                   cbVars, linkVars, scanning, air>>

CutOff == has_sta /\ ~conf.ap /\ conf.reboot /\ connAge > RebootTimeout

LoopEnd ==
    /\ pc = "tail" /\ ~CutOff /\ ~FallbackDue
    /\ pc' = "idle"
    /\ UNCHANGED <<conf, saved, state, sta, selected, actAge, connAge, retried, prio,
                   apSetup, cbVars, portal, mode, linkVars, scanning, air>>

\* What a start finds; the link does not outlive it.
Fresh ==
    /\ pc' = "boot" /\ state' = "OFF" /\ sta' = <<>> /\ selected' = Whole(NoNet)
    /\ actAge' = 0 /\ connAge' = 0 /\ retried' = 0
    /\ prio' = [b \in Bssid |-> Unset] /\ apSetup' = FALSE
    /\ error' = FALSE /\ scanDone' = FALSE /\ results' = {}
    /\ portal' = [active |-> FALSE, users |-> 0, handlers |-> 0]
    /\ mode' = {} /\ status' = "WAITING" /\ Down /\ wanted' = Whole(NoNet)
    /\ events' = <<>> /\ scanning' = FALSE

Reboot ==
    /\ pc = "tail" /\ CutOff
    /\ Fresh /\ UNCHANGED <<conf, saved, air>>

\* handle_wifisave, in the web server's task: between loops, which within one read
\* sta_ in their first step only.  Storing the preference may fail.
save_wifi_sta ==
    /\ pc = "idle" /\ portal.active
    /\ \E net \in Savable : sta' = <<net>> /\ saved' \in {<<net>>, saved}
    /\ UNCHANGED <<conf, pc, state, selected, actAge, connAge, retried, prio, apSetup,
                   cbVars, portal, mode, linkVars, scanning, air>>

Init ==
    /\ conf \in Setups
    /\ saved \in {<<>>} \cup {<<net>> : net \in Savable}
    /\ air \in Airs
    /\ pc = "boot" /\ state = "OFF" /\ sta = <<>> /\ selected = Whole(NoNet)
    /\ actAge = 0 /\ connAge = 0 /\ retried = 0
    /\ prio = [b \in Bssid |-> Unset] /\ apSetup = FALSE
    /\ error = FALSE /\ scanDone = FALSE /\ results = {}
    /\ portal = [active |-> FALSE, users |-> 0, handlers |-> 0]
    /\ mode = {} /\ status = "WAITING" /\ link = "down" /\ peer = Any
    /\ wanted = Whole(NoNet) /\ events = <<>> /\ scanning = FALSE

Loop == Setup \/ InCooldown \/ check_scanning_finished \/ check_connecting_finished
        \/ InConnected \/ Idle \/ RetryAdapter \/ RetryAgain \/ FallbackAp \/ LoopEnd
        \/ Reboot
Driver == Joined \/ Broken \/ wifi_event_callback \/ AuthmodeChange
          \/ wifi_scan_done_callback
Next == Loop \/ Driver \/ Tick \/ AirChanges \/ save_wifi_sta
Spec == Init /\ [][Next]_vars

\* The loop runs, time passes and the driver answers: scans that are tried for ever
\* succeed for ever, and so do joins where nobody refuses.
ScanStarts == Loop /\ ~scanning /\ scanning'
ScanSucceeds == /\ InState("SCANNING") /\ wifi_scan_done_callback
                /\ scanDone' /\ results' = {b \in Bssid : air[b] # "off"}
Fairness ==
    /\ WF_vars(Loop) /\ SF_vars(Tick)
    /\ SF_vars(wifi_event_callback) /\ SF_vars(ScanStarts) /\ SF_vars(ScanSucceeds)
    /\ SF_vars(Joined /\ pc = "idle")
FairSpec == Spec /\ Fairness
-----------------------------------------------------------------------------
(***************************************************************************)
(* Properties.                                                             *)
(***************************************************************************)
\* At most one change of the link waits, and behind it that we left.
Queues == {<<>>, <<"left">>} \cup {<<e>> : e \in {"got_ip", "failed", "refused"}}
                            \cup {<<e, "left">> : e \in {"got_ip", "failed", "refused"}}

\* Every variable keeps its type.
TypeOK ==
    /\ conf \in Setups /\ saved \in Seq(Nets) /\ sta \in Seq(Nets)
    /\ pc \in {"boot", "idle", "retry", "clear", "tail"} /\ state \in State
    /\ selected \in Params /\ wanted \in Params
    /\ actAge \in 0 .. ActCap /\ connAge \in 0 .. ConnCap
    /\ retried \in 0 .. RetryWrap - 1
    /\ prio \in [Bssid -> -PrioSpan .. Unset] /\ apSetup \in BOOLEAN
    /\ error \in BOOLEAN /\ scanDone \in BOOLEAN /\ results \subseteq Bssid
    /\ portal \in [active : BOOLEAN, users : Nat, handlers : {0, 2}]
    /\ mode \subseteq {"STA", "AP"} /\ status \in {"CONNECTED", "WAITING", "FAILED"}
    /\ link \in {"down", "joining", "up"} /\ peer \in Bssid \cup {Any}
    /\ link = "up" <=> peer # Any
    /\ events \in Queues
    /\ scanning \in BOOLEAN /\ air \in Airs

\* The web server runs as long as the captive portal is shown and no longer, its
\* handlers registered once, whenever outages, saves and connections come
\* (captive_portal.h:31-36, web_server_base.h:12-31); if access points never fail
\* to start.
ServerMatchesPortal == portal.users = IF portal.active THEN 1 ELSE 0

\* A link that broke while CONNECTED, or an attempt whose event is late, is found
\* out: the component never believes in a dead link for ever
\* (wifi_component.cpp:119-129, 611).
LossIsNoticed == state = "CONNECTED" /\ link = "down" ~> state # "CONNECTED" \/ link = "up"

\* Some access point takes us and, where the driver chooses, none refuses.
Reachable ==
    /\ \E b \in Bssid : air[b] = "accepts" /\ Matching(b) # {}
    /\ conf.fast => \A b \in Bssid : Fits(Whole(sta[1]), b) => air[b] # "refuses"

\* retry_connect never ends in a corner: while some configured access point stays in
\* reach and takes us, we choose it again and again, though a stronger
\* one refuses: priorities (line 578) let its turn come.
TurnComes ==
    \A a \in Airs :
        <>[](air = a /\ has_sta /\ Reachable /\ state # "AP")
            => []<>\E b \in Bssid : Fits(selected, b) /\ air[b] = "accepts"

\* With nowhere to connect to, the adapter is restarted over and over, unless the
\* portal is in use: num_retried_ does get there (wifi_component.cpp:582-588).
AdapterIsRestarted ==
    \/ []<>(state \in {"CONNECTED", "AP"} \/ pc = "boot") \/ <>[]portal.active
    \/ []<>("STA" \notin mode)

\* Without a connection the fallback access point comes up, the first time
\* (wifi_component.cpp:135-143).
FallbackComes == conf.ap /\ has_sta /\ ~apSetup ~> apSetup \/ is_connected

\* Without an access point to fall back to, a device that cannot connect restarts
\* (wifi_component.cpp:154-158).
CutOffReboots ==
    conf.reboot /\ ~conf.ap => []<>is_connected \/ []<>(pc = "boot")

\* A network saved in the portal is tried: "The ESP will now try to connect to the
\* network" (captive_portal.cpp:23).
SavedIsTried == has_sta /\ state = "AP" ~> state # "AP"

\* What holds in every state.
WiFiInv == TypeOK /\ ServerMatchesPortal

\* An outage is noticed, and what is configured for it comes: the fallback access point, or
\* else a restart.
OutageIsMet == LossIsNoticed /\ FallbackComes /\ CutOffReboots
=============================================================================
