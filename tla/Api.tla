-------------------------------- MODULE Api --------------------------------
(***************************************************************************)
(* The native API's server and connections (api_server.cpp,                *)
(* api_connection.cpp and .h, the dispatch of api_pb2_service.cpp) and the *)
(* iterators over the entities (util.cpp, list_entities.cpp,               *)
(* subscribe_state.cpp).  The loop task runs APIServer::loop; lwIP's task  *)
(* accepts connections, appends what arrives and reports closed ones; the  *)
(* peers are clients as Home Assistant is one.  A send either finds room   *)
(* in the TCP buffer or does not.                                          *)
(***************************************************************************)
EXTENDS Integers, Sequences, FiniteSets

CONSTANTS
    Conn,           \* connections
    Platforms,      \* what the iterators go through: a sequence of sequences
    Switches,       \* the entities that are switches
    Services,       \* and those that are user services
    Internal,       \* entities that are internal
    Words,          \* what peers may ask: functions from connections to sets of messages
    KeepAlive,      \* 60 s
    RebootTimeout,  \* reboot_timeout_
    RecvMax,        \* messages in recv_buffer_ at most
    BufferMayFill   \* a send may find no room

Entity == UNION {{Platforms[p][i] : i \in DOMAIN Platforms[p]} : p \in DOMAIN Platforms}
Public == Entity \ Internal

\* What a client may say; "junk" has no valid preamble, "other" an unknown type.
Word == {"hello", "connect", "wrong", "bye", "goodbye", "ping", "pong", "info", "time", "junk",
         "other", "list", "states", "logs", "on", "off"}

ASSUME ApiAssumption ==
    /\ IsFiniteSet(Conn)
    /\ Switches \subseteq Entity /\ Services \subseteq Entity /\ Internal \subseteq Entity
    /\ Services \cap (Switches \cup Internal) = {}
    /\ {KeepAlive, RebootTimeout, RecvMax} \subseteq Nat /\ KeepAlive > 0 /\ RecvMax > 0
    /\ BufferMayFill \in BOOLEAN
ASSUME PlatformsAssumption == Platforms \in Seq(Seq(Entity))
ASSUME WordsAssumption ==
    \A v \in Words : DOMAIN v \subseteq Conn /\ \A c \in DOMAIN v : v[c] \subseteq Word

Patience == (KeepAlive * 5) \div 2
TrafficCap == Patience + 1
IdleCap == RebootTimeout + 1
Unknown == "unknown"    \* no state was sent yet
Missed == "missed"      \* the last one found no room

VARIABLES
    pc,         \* the loop task: idle, log, delete, serve, parse or advance
    cur,        \* the connections whose loop is under way: none or one
    todo,       \* those whose loop is still to come
    clients,    \* clients_
    doomed,     \* those from new_end to the end of clients_
    life,       \* a connection was not accepted yet, exists or is deleted
    conn,       \* its members
    peer,       \* its client
    vocab,      \* the clients there are, and the words each has left
    value,      \* the entities' states
    idleAge,    \* now - last_connected_
    net,        \* network_is_connected()
    freed,      \* a deleted connection was read
    ran         \* the loop ran since the last tick

vars == <<pc, cur, todo, clients, doomed, life, conn, peer, vocab, value, idleAge, net, freed, ran>>
-----------------------------------------------------------------------------
(***************************************************************************)
(* ComponentIterator.  Its states are NONE, BEGIN, the platforms and MAX.  *)
(***************************************************************************)
NONE == 0
BEGIN == 1
MAX == Len(Platforms) + 2
Items(it) == Platforms[it.state - 1]
AtItem(it) == it.state \in BEGIN + 1 .. MAX - 1 /\ it.at < Len(Items(it))
Item(it) == Items(it)[it.at + 1]
Started == [state |-> BEGIN, at |-> 0]

\* advance: it wants to send an entity, unless that one is internal.
Sends(it) == AtItem(it) /\ Item(it) \notin Internal

\* Mutants: an entity that could not be sent is passed over; an internal one counts as not sent.
advance_Regardless(it, sent) ==
    IF it.state = NONE THEN it
    ELSE IF it.state = MAX THEN IF sent THEN [it EXCEPT !.state = NONE] ELSE it
    ELSE IF AtItem(it) THEN [it EXCEPT !.at = @ + 1]
    ELSE [state |-> it.state + 1, at |-> 0]
advance_Waiting(it, sent) ==
    IF it.state = NONE THEN it
    ELSE IF it.state = MAX THEN IF sent THEN [it EXCEPT !.state = NONE] ELSE it
    ELSE IF AtItem(it) THEN IF Sends(it) /\ sent THEN [it EXCEPT !.at = @ + 1] ELSE it
    ELSE [state |-> it.state + 1, at |-> 0]
advance(it, sent) ==
    IF it.state = NONE THEN it
    ELSE IF it.state = MAX THEN IF sent THEN [it EXCEPT !.state = NONE] ELSE it
    ELSE IF AtItem(it) THEN IF Sends(it) => sent THEN [it EXCEPT !.at = @ + 1] ELSE it
    ELSE [state |-> it.state + 1, at |-> 0]

-----------------------------------------------------------------------------
NewConn == [state |-> "WAITING_FOR_HELLO", remove |-> FALSE, nextClose |-> FALSE,
            sentPing |-> FALSE, subscribed |-> FALSE, logs |-> FALSE, traffic |-> 0,
            recv |-> <<>>, list |-> [state |-> NONE, at |-> 0],
            initial |-> [state |-> NONE, at |-> 0]]
NoPeer == [alive |-> TRUE, tcp |-> TRUE, pinged |-> FALSE, listed |-> <<>>, told |-> FALSE,
           known |-> [e \in Entity |-> Unknown], unasked |-> FALSE]

\* What a send of connection c, whose members are now m, may come to.
Room(m) == IF m.remove THEN {FALSE} ELSE IF BufferMayFill THEN BOOLEAN ELSE {TRUE}

Close(m) == [m EXCEPT !.remove = TRUE]
Hangup(p) == [p EXCEPT !.tcp = FALSE]

\* on_fatal_error and disconnect_client of c, whose members would be m.
Fatal(c, m) ==
    /\ conn' = [conn EXCEPT ![c] = Close(m)]
    /\ peer' = [peer EXCEPT ![c] = Hangup(@)]

-----------------------------------------------------------------------------
(***************************************************************************)
(* lwIP's task and the peers.  None of it happens after the connection is  *)
(* deleted: AsyncClient's destructor closes it.                            *)
(***************************************************************************)
\* While connections are removed nobody comes in here: Api_Tasks has that.
Window == {"log", "delete"}

Accept(c) ==
    /\ life[c] = "none" /\ c \in DOMAIN vocab /\ net
    /\ pc \notin Window
    /\ life' = [life EXCEPT ![c] = "open"]
    /\ clients' = clients \cup {c}
    /\ UNCHANGED <<pc, cur, todo, doomed, conn, peer, vocab, value, idleAge, net, freed, ran>>

Talking(c) == life[c] = "open" /\ peer[c].alive /\ peer[c].tcp

\* Steps of the loop that do not look at what changes here are not told apart.
Hearing(c) == Talking(c) /\ pc \in {"idle", "parse"} /\ Len(conn[c].recv) < RecvMax

\* on_data_: a whole message has arrived; each word is said once, but switches
\* are turned on and off again and again.
Says(c) ==
    /\ Hearing(c)
    /\ \E w \in vocab[c] :
          /\ conn' = [conn EXCEPT ![c].recv = Append(@, w)]
          /\ vocab' = IF w \in {"on", "off"} THEN vocab ELSE [vocab EXCEPT ![c] = @ \ {w}]
    /\ UNCHANGED <<pc, cur, todo, clients, doomed, life, peer, value, idleAge, net, freed, ran>>

\* A ping is answered.
Pong(c) ==
    /\ Hearing(c) /\ peer[c].pinged
    /\ conn' = [conn EXCEPT ![c].recv = Append(@, "pong")]
    /\ peer' = [peer EXCEPT ![c].pinged = FALSE]
    /\ UNCHANGED <<pc, cur, todo, clients, doomed, life, vocab, value, idleAge, net, freed, ran>>

\* on_disconnect_ and on_error_; or the callback is lost and only the socket knows.
PeerCloses(c) ==
    /\ Talking(c) /\ pc # "log"
    /\ peer' = [peer EXCEPT ![c].tcp = FALSE]
    /\ conn' \in {conn, [conn EXCEPT ![c].remove = TRUE]}
    /\ UNCHANGED <<pc, cur, todo, clients, doomed, life, vocab, value, idleAge, net, freed, ran>>

\* The peer is gone without a word ...
PeerVanishes(c) ==
    /\ Talking(c) /\ pc = "idle"
    /\ peer' = [peer EXCEPT ![c].alive = FALSE]
    /\ UNCHANGED <<pc, cur, todo, clients, doomed, life, conn, vocab, value, idleAge, net, freed, ran>>

\* ... which on_timeout_ may tell: something sent was not acknowledged.
on_timeout(c) ==
    /\ life[c] = "open" /\ ~peer[c].alive /\ peer[c].tcp /\ pc # "log"
    /\ Fatal(c, conn[c])
    /\ UNCHANGED <<pc, cur, todo, clients, doomed, life, vocab, value, idleAge, net, freed, ran>>

NetChanges ==
    /\ pc = "idle" /\ net' = ~net
    /\ UNCHANGED <<pc, cur, todo, clients, doomed, life, conn, peer, vocab, value, idleAge, freed, ran>>

\* A logger callback on some task goes through all of clients_.
ReadsClients == freed' = (freed \/ \E c \in clients : life[c] = "deleted")

-----------------------------------------------------------------------------
(***************************************************************************)
(* States are published to all clients, from wherever they change.         *)
(***************************************************************************)
Told(p, e, v, got) ==
    [p EXCEPT !.known[e] = IF got THEN v ELSE Missed]

\* Mutant: while the initial states are being sent, updates are not.
Hears_AfterInitial(c) == conn[c].subscribed /\ conn[c].initial.state = NONE

\* send_switch_state, send_sensor_state: nothing for who did not subscribe.
Hears(c) == conn[c].subscribed

publish_state(e, v) ==
    \E got \in SUBSET {c \in clients : Hears(c) /\ e \in Public /\ TRUE \in Room(conn[c])} :
       peer' = [c \in Conn |->
                  IF c \in clients /\ Hears(c) /\ e \in Public
                  THEN IF BufferMayFill \/ conn[c].remove
                       THEN Told(peer[c], e, v, c \in got)
                       ELSE Told(peer[c], e, v, TRUE)
                  ELSE peer[c]]

\* A sensor, or a switch by a button; those of internal ones concern no client.
Update ==
    /\ pc = "idle"
    /\ \E e \in Public \ Services, v \in {"on", "off"} :
          /\ v # value[e]
          /\ value' = [value EXCEPT ![e] = v]
          /\ publish_state(e, v)
    /\ UNCHANGED <<pc, cur, todo, clients, doomed, life, conn, vocab, idleAge, net, freed, ran>>

-----------------------------------------------------------------------------
(***************************************************************************)
(* APIServer::loop.                                                        *)
(***************************************************************************)
LoopStart ==
    /\ pc = "idle"
    /\ doomed' = {c \in clients : conn[c].remove}
    /\ pc' = "log"
    /\ UNCHANGED <<cur, todo, clients, life, conn, peer, vocab, value, idleAge, net, freed, ran>>

\* Mutant: each is deleted as soon as it was logged.
LogDisconnects_Deleting ==
    /\ pc = "log" /\ pc' = "delete"
    /\ life' = [c \in Conn |-> IF c \in doomed THEN "deleted" ELSE life[c]]
    /\ freed' = (freed \/ Cardinality(doomed) > 1)
    /\ UNCHANGED <<cur, todo, clients, doomed, conn, peer, vocab, value, idleAge, net, ran>>

LogDisconnects ==
    /\ pc = "log" /\ pc' = "delete"
    /\ IF doomed = {} THEN UNCHANGED freed ELSE ReadsClients
    /\ UNCHANGED <<cur, todo, clients, doomed, life, conn, peer, vocab, value, idleAge, net, ran>>

Delete ==
    /\ pc = "delete"
    /\ \E c \in doomed :
          /\ life[c] = "open" /\ life' = [life EXCEPT ![c] = "deleted"]
          /\ conn' = [conn EXCEPT ![c] = [NewConn EXCEPT !.remove = conn[c].remove]]
          /\ peer' = [peer EXCEPT ![c] = NoPeer]
    /\ UNCHANGED <<pc, cur, todo, clients, doomed, vocab, value, idleAge, net, freed, ran>>

\* The end of the loop over what to delete is looked up each time, that of erase once
\* more: who comes in between is erased alone.
Erase ==
    /\ pc = "delete" /\ \A c \in doomed : life[c] = "deleted" \/ ~conn[c].remove
    /\ clients' = clients \ doomed
    /\ doomed' = {} /\ todo' = clients' /\ pc' = "serve"
    /\ UNCHANGED <<cur, life, conn, peer, vocab, value, idleAge, net, freed, ran>>

\* The first tests of APIConnection::loop.
Serve ==
    /\ pc = "serve"
    /\ \E c \in todo :
          LET m == conn[c]
              over == m.nextClose \/ ~net
          IN  /\ todo' = todo \ {c}
              /\ freed' = (freed \/ life[c] = "deleted")
              /\ \/ m.remove /\ UNCHANGED <<pc, cur, conn, peer>>
                 \/ /\ ~m.remove /\ over
                    /\ Fatal(c, m) /\ UNCHANGED <<pc, cur>>
                 \/ /\ ~m.remove /\ ~over /\ ~peer[c].tcp
                    /\ conn' = [conn EXCEPT ![c] = Close(m)] /\ UNCHANGED <<pc, cur, peer>>
                 \/ /\ ~m.remove /\ ~over /\ peer[c].tcp
                    /\ pc' = "parse" /\ cur' = {c} /\ UNCHANGED <<conn, peer>>
    /\ UNCHANGED <<clients, doomed, life, vocab, value, idleAge, net, ran>>

-----------------------------------------------------------------------------
(***************************************************************************)
(* parse_recv_buffer_ and read_message.                                    *)
(***************************************************************************)
is_authenticated(m) == m.state = "AUTHENTICATED"
is_connection_setup(m) == m.state \in {"CONNECTED", "AUTHENTICATED"}

Popped(m) == IF m.remove THEN m ELSE [m EXCEPT !.recv = Tail(@), !.traffic = 0]

\* The message is done with; c's members became m.
Handled(c, m) ==
    /\ conn' = [conn EXCEPT ![c] = Popped(m)]
    /\ UNCHANGED <<peer, value>>

\* ... and was answered, if there was room.
Answered(c, m) ==
    \/ TRUE \in Room(conn[c]) /\ Handled(c, m)
    \/ FALSE \in Room(conn[c]) /\ Fatal(c, m) /\ UNCHANGED value

\* Requests that need a user.
ForUsers == {"list", "states", "logs", "on", "off"}

Hello(c) == Answered(c, [conn[c] EXCEPT !.state = "CONNECTED"])
Connect(c, right) == Answered(c, IF right THEN [conn[c] EXCEPT !.state = "AUTHENTICATED"] ELSE conn[c])
\* A DisconnectRequest is answered, a DisconnectResponse is not.
Disconnect(c) == Answered(c, [conn[c] EXCEPT !.nextClose = TRUE])
DisconnectResponse(c) == Handled(c, [conn[c] EXCEPT !.nextClose = TRUE])
\* Mutant: that a ping is under way is not taken back.
PingResponse_Kept(c) == Handled(c, conn[c])
PingResponse(c) == Handled(c, [conn[c] EXCEPT !.sentPing = FALSE])
DeviceInfo(c) ==
    IF is_connection_setup(conn[c]) THEN Answered(c, conn[c])
    ELSE Fatal(c, conn[c]) /\ UNCHANGED value
ListEntities(c) ==
    /\ conn' = [conn EXCEPT ![c] = Popped([@ EXCEPT !.list = Started])]
    /\ peer' = [peer EXCEPT ![c].listed = <<>>, ![c].told = FALSE]
    /\ UNCHANGED value
SubscribeStates(c) ==
    Handled(c, [conn[c] EXCEPT !.subscribed = TRUE, !.initial = Started])
SubscribeLogs(c) == Handled(c, [conn[c] EXCEPT !.logs = TRUE])

\* switch_command: the sender may be among those who hear of it.
SwitchCommand(c, v) ==
    \E e \in Switches :
       /\ value' = [value EXCEPT ![e] = v]
       /\ IF value[e] = v THEN UNCHANGED peer ELSE publish_state(e, v)
       /\ conn' = [conn EXCEPT ![c] = Popped(@)]

Refused(c) == Fatal(c, conn[c]) /\ UNCHANGED value

ParseOne ==
    /\ pc = "parse"
    /\ \E c \in cur :
          /\ ~conn[c].remove /\ conn[c].recv # <<>>
          /\ LET w == conn[c].recv[1]
             IN  \/ w = "hello" /\ Hello(c)
                 \/ w = "connect" /\ Connect(c, TRUE)
                 \/ w = "wrong" /\ Connect(c, FALSE)
                 \/ w = "bye" /\ Disconnect(c)
                 \/ w = "goodbye" /\ DisconnectResponse(c)
                 \/ w = "ping" /\ Answered(c, conn[c])
                 \/ w = "pong" /\ PingResponse(c)
                 \/ w \in {"info", "time"} /\ DeviceInfo(c)
                 \/ w = "junk" /\ Refused(c)              \* an invalid preamble
                 \/ w = "other" /\ Handled(c, conn[c])    \* an unknown type
                 \/ w \in ForUsers /\ ~is_authenticated(conn[c]) /\ Refused(c)
                 \/ w = "list" /\ is_authenticated(conn[c]) /\ ListEntities(c)
                 \/ w = "states" /\ is_authenticated(conn[c]) /\ SubscribeStates(c)
                 \/ w = "logs" /\ is_authenticated(conn[c]) /\ SubscribeLogs(c)
                 \/ /\ w \in {"on", "off"} /\ is_authenticated(conn[c])
                    /\ SwitchCommand(c, w)
    /\ UNCHANGED <<pc, cur, todo, clients, doomed, life, vocab, idleAge, net, freed, ran>>

ParseDone ==
    /\ pc = "parse" /\ \E c \in cur : conn[c].remove \/ conn[c].recv = <<>>
    /\ pc' = "advance"
    /\ UNCHANGED <<cur, todo, clients, doomed, life, conn, peer, vocab, value, idleAge, net, freed, ran>>

-----------------------------------------------------------------------------
(***************************************************************************)
(* The rest of APIConnection::loop: both iterators and the ping.           *)
(***************************************************************************)
ListStep(c, p, sent) ==
    LET it == conn[c].list
    IN  IF Sends(it) /\ sent THEN [p EXCEPT !.listed = Append(@, Item(it))]
        ELSE IF it.state = MAX /\ sent THEN [p EXCEPT !.told = TRUE]
        ELSE p

InitialStep(c, p, sent) ==
    LET it == conn[c].initial
    IN  IF Sends(it) /\ Item(it) \notin Services /\ sent
        THEN [p EXCEPT !.known[Item(it)] = value[Item(it)]] ELSE p

\* on_service and on_end of the initial states send nothing.
InitialNext(c, sent) ==
    LET it == conn[c].initial
    IN  advance(it, sent \/ it.state = MAX \/ (AtItem(it) /\ Item(it) \in Services))

\* A ping that finds no room is not sent again.
KeepaliveStep(c, m, p, sent) ==
    IF m.sentPing
    THEN IF m.traffic > Patience THEN [m |-> Close(m), p |-> Hangup(p)] ELSE [m |-> m, p |-> p]
    ELSE IF m.traffic > KeepAlive
    THEN [m |-> [m EXCEPT !.sentPing = TRUE],
          p |-> IF sent THEN [p EXCEPT !.pinged = TRUE] ELSE [p EXCEPT !.unasked = TRUE]]
    ELSE [m |-> m, p |-> p]

\* One round of c's, and whether there was room for each of the three sends.
Round(c, s1, s2, s3) ==
    LET m == [conn[c] EXCEPT !.list = advance(@, s1), !.initial = InitialNext(c, s2)]
        p == InitialStep(c, ListStep(c, peer[c], s1), s2)
    IN  KeepaliveStep(c, m, p, s3)

Advance ==
    /\ pc = "advance" /\ pc' = "serve" /\ cur' = {}
    /\ \E c \in cur : \E s1, s2, s3 \in Room(conn[c]) :
          /\ conn' = [conn EXCEPT ![c] = Round(c, s1, s2, s3).m]
          /\ peer' = [peer EXCEPT ![c] = Round(c, s1, s2, s3).p]
    /\ UNCHANGED <<todo, clients, doomed, life, vocab, value, idleAge, net, freed, ran>>

-----------------------------------------------------------------------------
\* The end of APIServer::loop.
Unserved == clients = {} /\ idleAge > RebootTimeout

LoopEnd ==
    /\ pc = "serve" /\ todo = {} /\ ~Unserved
    /\ idleAge' = IF clients = {} THEN idleAge ELSE 0
    /\ pc' = "idle" /\ ran' = TRUE
    /\ UNCHANGED <<cur, todo, clients, doomed, life, conn, peer, vocab, value, net, freed>>

Fresh ==
    /\ pc' = "idle" /\ cur' = {} /\ todo' = {} /\ clients' = {} /\ doomed' = {}
    /\ life' = [c \in Conn |-> "none"] /\ conn' = [c \in Conn |-> NewConn]
    /\ peer' = [c \in Conn |-> NoPeer] /\ vocab' \in Words
    /\ value' = [e \in Entity |-> "off"] /\ idleAge' = 0 /\ freed' = FALSE
    /\ ran' = FALSE

Reboot ==
    /\ pc = "serve" /\ todo = {} /\ Unserved
    /\ Fresh /\ UNCHANGED net

\* A restart for another reason; on_shutdown has asked the clients to disconnect.
Shutdown == pc = "idle" /\ Fresh /\ UNCHANGED net

\* A tick is long: the loop runs, clients answer pings and the loop takes what they said.
Tick ==
    /\ pc = "idle" /\ ran /\ ran' = FALSE
    /\ \A c \in clients : ~peer[c].pinged \/ ~Talking(c)
    /\ \A c \in clients : conn[c].recv = <<>> \/ conn[c].remove
    /\ idleAge' = IF idleAge < IdleCap THEN idleAge + 1 ELSE idleAge
    /\ conn' = [c \in Conn |-> IF life[c] = "open" /\ conn[c].traffic < TrafficCap
                               THEN [conn[c] EXCEPT !.traffic = @ + 1] ELSE conn[c]]
    /\ UNCHANGED <<pc, cur, todo, clients, doomed, life, peer, vocab, value, net, freed>>

\* APIServer::setup: last_connected_ is the time of the start.
Init ==
    /\ pc = "idle" /\ cur = {} /\ todo = {} /\ clients = {} /\ doomed = {}
    /\ life = [c \in Conn |-> "none"] /\ conn = [c \in Conn |-> NewConn]
    /\ peer = [c \in Conn |-> NoPeer] /\ vocab \in Words
    /\ value = [e \in Entity |-> "off"] /\ idleAge = 0 /\ net = TRUE /\ freed = FALSE
    /\ ran = FALSE

Loop == LoopStart \/ LogDisconnects \/ Delete \/ Erase \/ Serve \/ ParseOne \/ ParseDone
        \/ Advance \/ LoopEnd \/ Reboot
Next == \/ Loop \/ Tick \/ NetChanges \/ Update \/ Shutdown
        \/ \E c \in Conn : Accept(c) \/ Says(c) \/ Pong(c) \/ PeerCloses(c)
                           \/ PeerVanishes(c) \/ on_timeout(c)
Spec == Init /\ [][Next]_vars

\* The loop runs, time passes, clients that are there answer pings, and room is found
\* in the end for what an iterator has to send.  Nobody talks faster for ever than the
\* loop reads.
Answer == \E c \in Conn : Pong(c)
IteratorMoves ==
    /\ Advance
    /\ \E c \in cur : conn'[c].list # conn[c].list \/ conn'[c].initial # conn[c].initial
Fairness ==
    /\ WF_vars(Loop) /\ SF_vars(ParseDone) /\ SF_vars(Tick)
    /\ SF_vars(Answer) /\ SF_vars(IteratorMoves)
FairSpec == Spec /\ Fairness
-----------------------------------------------------------------------------
(***************************************************************************)
(* Properties.                                                             *)
(***************************************************************************)
\* An iterator is within its platform, or between them.
IsIterator(it) ==
    /\ it \in [state : NONE .. MAX, at : Nat]
    /\ IF it.state \in BEGIN + 1 .. MAX - 1 THEN it.at <= Len(Items(it)) ELSE it.at = 0

Members == [state : {"WAITING_FOR_HELLO", "CONNECTED", "AUTHENTICATED"},
            remove : BOOLEAN, nextClose : BOOLEAN, sentPing : BOOLEAN, subscribed : BOOLEAN,
            logs : BOOLEAN, traffic : 0 .. TrafficCap, recv : Seq(Word),
            list : [state : NONE .. MAX, at : Nat], initial : [state : NONE .. MAX, at : Nat]]
IsConnection(m) ==
    /\ m \in Members
    /\ Len(m.recv) <= RecvMax /\ IsIterator(m.list) /\ IsIterator(m.initial)

\* Every variable keeps its type.
TypeOK ==
    /\ pc \in {"idle", "log", "delete", "serve", "parse", "advance"}
    /\ clients \subseteq Conn /\ todo \subseteq clients /\ doomed \subseteq clients
    /\ cur = {} \/ \E c \in clients : cur = {c}
    /\ cur # {} <=> pc \in {"parse", "advance"}
    /\ life \in [Conn -> {"none", "open", "deleted"}]
    /\ conn \in [Conn -> Members] /\ \A c \in Conn : IsConnection(conn[c])
    /\ DOMAIN vocab \subseteq Conn /\ \A c \in DOMAIN vocab : vocab[c] \subseteq Word
    /\ value \in [Entity -> {"on", "off"}] /\ idleAge \in 0 .. IdleCap
    /\ net \in BOOLEAN /\ freed \in BOOLEAN /\ ran \in BOOLEAN

\* Connections are deleted only when nothing reads them any more, logging above all
\* (api_server.cpp:65-76), and who was not removed stays among the clients.
NothingFreedIsRead ==
    /\ ~freed
    /\ \A c \in Conn : life[c] = "open" => c \in clients
    /\ \A c \in Conn : life[c] = "deleted" => conn[c].remove

\* Where the entities are, in the order of the iterators.
Places == UNION {{p} \X DOMAIN Platforms[p] : p \in DOMAIN Platforms}
EntityAt(q) == Platforms[q[1]][q[2]]
PublicPlaces == {q \in Places : EntityAt(q) \notin Internal}
Precedes(q, r) == q[1] < r[1] \/ (q[1] = r[1] /\ q[2] < r[2])

\* s is what is at the places Q, each once and in their order.
InOrder(s, Q) ==
    \E at \in [DOMAIN s -> Q] :
       /\ \A q \in Q : \E i \in DOMAIN s : at[i] = q
       /\ \A i, j \in DOMAIN s : i < j => Precedes(at[i], at[j])
       /\ \A i \in DOMAIN s : s[i] = EntityAt(at[i])

\* A client told that the list is done has had every public entity, each once and in
\* order, however often there was no room (util.cpp:16-190, list_entities.cpp).
ListedWhole == \A c \in Conn : peer[c].told => InOrder(peer[c].listed, PublicPlaces)

Before(it, e) ==
    /\ it.state # NONE
    /\ \E p \in DOMAIN Platforms : \E i \in DOMAIN Platforms[p] :
          Platforms[p][i] = e /\ (it.state < p + 1 \/ (it.state = p + 1 /\ it.at < i))

\* A subscriber knows the state of every entity its initial iteration has passed,
\* although states change before, while and after they are sent first: it has the
\* last one but for a message that found no room (subscribe_state.cpp,
\* api_server.cpp:160-182).
SubscriberIsCurrent ==
    \A c \in clients, e \in Public \ Services :
        conn[c].subscribed /\ ~Before(conn[c].initial, e)
            => peer[c].known[e] \in {value[e], Missed}

\* A client that answers its pings within 90 s is not cut off for silence, except one
\* whose ping found no room: that is never asked again (api_connection.cpp:118-128).
ResponsiveIsKept ==
    [][pc = "advance" /\ pc' = "serve" =>
          \A c \in Conn : conn'[c].remove /\ ~conn[c].remove /\ Talking(c)
              => peer'[c].unasked]_vars

\* A connection whose peer is gone, with or without a word, goes too.
DeadIsDeleted ==
    \A c \in Conn : life[c] = "open" /\ (~peer[c].alive \/ ~peer[c].tcp) ~> life[c] # "open"

\* Both iterations come to their end, if the connection lasts.
IterationsEnd ==
    \A c \in Conn : conn[c].list.state # NONE \/ conn[c].initial.state # NONE
        ~> \/ conn[c].list.state = NONE /\ conn[c].initial.state = NONE
           \/ conn[c].remove

\* Left without clients, the device restarts (api_server.cpp:81-87).
UnservedReboots ==
    <>[](clients = {}) => []<><<Reboot>>_vars \/ []<><<Shutdown>>_vars

\* What holds in every state.
ApiInv == TypeOK /\ NothingFreedIsRead

\* Nothing that has begun lasts for ever: iterations, connections to nobody, and days without
\* a client.
ComesToAnEnd == DeadIsDeleted /\ IterationsEnd /\ UnservedReboots
=============================================================================
