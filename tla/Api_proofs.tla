----------------------------- MODULE Api_proofs -----------------------------
(***************************************************************************)
(* What holds of the API's server for any number of connections, any       *)
(* entities, whatever the clients say and whether or not there is room to  *)
(* answer.  Nobody else writes clients_ here: Api_Tasks shows what becomes *)
(* of it if lwIP's task does.                                              *)
(***************************************************************************)
EXTENDS Api, TLAPS

\* Who is there, and what it is deleted for.
Alive ==
    /\ ~freed
    /\ \A c \in Conn : life[c] = "open" => c \in clients /\ c \in DOMAIN vocab
    /\ \A c \in clients : life[c] # "none"
    /\ \A c \in clients : life[c] = "deleted" => pc = "delete" /\ c \in doomed
    /\ \A c \in Conn : life[c] = "deleted" => conn[c].remove
    /\ pc \in Window => \A c \in doomed : conn[c].remove

IInv == TypeOK /\ Alive

-----------------------------------------------------------------------------
LEMMA Limits ==
    /\ KeepAlive \in Nat /\ KeepAlive > 0 /\ RebootTimeout \in Nat /\ RecvMax \in Nat /\ RecvMax > 0
    /\ TrafficCap \in Nat /\ IdleCap \in Nat /\ IdleCap = RebootTimeout + 1
    /\ Len(Platforms) \in Nat /\ DOMAIN Platforms = 1 .. Len(Platforms)
    /\ \A p \in DOMAIN Platforms :
          Platforms[p] \in Seq(Entity) /\ Len(Platforms[p]) \in Nat
BY ApiAssumption, PlatformsAssumption DEF TrafficCap, Patience, IdleCap

\* An iterator that is within a platform has a list of entities there.
LEMMA InPlatform ==
    ASSUME NEW it, IsIterator(it), it.state \in BEGIN + 1 .. MAX - 1
    PROVE  Items(it) \in Seq(Entity) /\ Len(Items(it)) \in Nat
BY Limits DEF IsIterator, Items, BEGIN, MAX

\* advance stays among the entities.
LEMMA Advances ==
    ASSUME NEW it, IsIterator(it), NEW sent \in BOOLEAN
    PROVE  IsIterator(advance(it, sent))
<1> USE DEF NONE, BEGIN, MAX
<1>1. CASE it.state = NONE
  BY <1>1 DEF advance
<1>2. CASE it.state = MAX
  BY <1>2, Limits DEF advance, IsIterator
<1>3. CASE AtItem(it)
  <2>1. it.at + 1 <= Len(Items(it)) /\ it.state \in BEGIN + 1 .. MAX - 1 /\ it.at \in Nat
    BY <1>3, InPlatform DEF AtItem, IsIterator
  <2>2. Items([it EXCEPT !.at = @ + 1]) = Items(it)
    BY DEF Items, IsIterator
  <2>3. IsIterator([it EXCEPT !.at = @ + 1])
    BY <2>1, <2>2 DEF IsIterator
  <2>4. it.state # NONE /\ it.state # MAX
    BY <2>1, Limits
  <2>5. QED
    BY <1>3, <2>3, <2>4 DEF advance
<1>4. CASE it.state # NONE /\ it.state # MAX /\ ~AtItem(it)
  <2>1. it.state + 1 \in NONE .. MAX
    BY <1>4, Limits DEF IsIterator
  <2>2. [state |-> it.state + 1, at |-> 0] \in [state : NONE .. MAX, at : Nat]
    BY <2>1
  <2>3. it.state + 1 \in BEGIN + 1 .. MAX - 1 => 0 <= Len(Items([state |-> it.state + 1, at |-> 0]))
    BY Limits DEF Items
  <2>4. QED
    BY <1>4, <2>2, <2>3 DEF advance, IsIterator
<1>5. QED
  BY <1>1, <1>2, <1>3, <1>4

\* Both iterators at their start, and at none.
LEMMA Starts == IsIterator([state |-> NONE, at |-> 0]) /\ IsIterator(Started)
<1>1. IsIterator([state |-> NONE, at |-> 0])
  BY Limits DEF IsIterator, NONE, BEGIN, MAX
<1>2. IsIterator(Started)
  BY Limits DEF IsIterator, Started, NONE, BEGIN, MAX
<1>3. QED
  BY <1>1, <1>2

LEMMA NewIsConnection == IsConnection(NewConn) /\ ~NewConn.remove
<1>1. NewConn \in Members
  BY Limits, Starts DEF NewConn, Members, IsIterator
<1>2. QED
  BY <1>1, Limits, Starts DEF NewConn, IsConnection

\* What a loop, a message or a callback does to a connection leaves one.
LEMMA Changed ==
    ASSUME NEW m, IsConnection(m)
    PROVE  /\ IsConnection(Close(m)) /\ Close(m).remove
           /\ \A b \in BOOLEAN :
                 /\ IsConnection([m EXCEPT !.nextClose = b]) /\ IsConnection([m EXCEPT !.sentPing = b])
                 /\ IsConnection([m EXCEPT !.logs = b])
           /\ \A s \in {"CONNECTED", "AUTHENTICATED"} : IsConnection([m EXCEPT !.state = s])
           /\ IsConnection([m EXCEPT !.list = Started])
           /\ IsConnection([m EXCEPT !.subscribed = TRUE, !.initial = Started])
<1> USE DEF IsConnection, Members
<1>1. IsConnection(Close(m)) /\ Close(m).remove
  BY DEF Close
<1>2. ASSUME NEW b \in BOOLEAN
      PROVE  /\ IsConnection([m EXCEPT !.nextClose = b]) /\ IsConnection([m EXCEPT !.sentPing = b])
             /\ IsConnection([m EXCEPT !.logs = b])
  OBVIOUS
<1>3. ASSUME NEW s \in {"CONNECTED", "AUTHENTICATED"} PROVE IsConnection([m EXCEPT !.state = s])
  OBVIOUS
<1>4. Started \in [state : NONE .. MAX, at : Nat]
  BY Starts DEF IsIterator
<1>5. IsConnection([m EXCEPT !.list = Started])
  BY <1>4, Starts
<1>6. IsConnection([m EXCEPT !.subscribed = TRUE, !.initial = Started])
  BY <1>4, Starts
<1>7. QED
  BY <1>1, <1>2, <1>3, <1>5, <1>6

\* A message is taken off.
LEMMA Pops ==
    ASSUME NEW m, IsConnection(m), m.recv # <<>>
    PROVE  IsConnection(Popped(m))
<1>1. m \in Members /\ m.recv \in Seq(Word) /\ Len(m.recv) <= RecvMax /\ 0 \in 0 .. TrafficCap
  BY Limits DEF IsConnection, Members
<1>2. Tail(m.recv) \in Seq(Word) /\ Len(Tail(m.recv)) <= RecvMax
  <2>1. ASSUME NEW q \in Seq(Word), q # <<>>
        PROVE  Tail(q) \in Seq(Word) /\ Len(Tail(q)) \in Nat /\ Len(Tail(q)) <= Len(q)
    BY <2>1
  <2>2. Tail(m.recv) \in Seq(Word) /\ Len(Tail(m.recv)) \in Nat /\ Len(Tail(m.recv)) <= Len(m.recv)
    BY <1>1, <2>1
  <2>3. Len(m.recv) \in Nat
    BY <1>1
  <2>4. QED
    BY <1>1, <2>2, <2>3, Limits
<1> DEFINE r == [m EXCEPT !.recv = Tail(@), !.traffic = 0]
<1>3. r \in Members /\ r.recv = Tail(m.recv) /\ r.list = m.list /\ r.initial = m.initial
  BY <1>1, <1>2 DEF Members
<1>4. IsConnection(r)
  BY <1>2, <1>3 DEF IsConnection
<1>5. Popped(m) \in {m, r}
  BY DEF Popped
<1>6. QED
  BY <1>4, <1>5

\* One comes in.
LEMMA Hears1 ==
    ASSUME NEW m, IsConnection(m), Len(m.recv) < RecvMax, NEW w \in Word
    PROVE  IsConnection([m EXCEPT !.recv = Append(@, w)])
<1>1. Append(m.recv, w) \in Seq(Word) /\ Len(Append(m.recv, w)) <= RecvMax
  BY Limits DEF IsConnection, Members
<1>2. QED
  BY <1>1 DEF IsConnection, Members

\* A step that changes one connection, leaving one, and of the rest what it must.
LEMMA OneChanges ==
    ASSUME IInv, NEW c \in Conn, NEW m, IsConnection(m), conn[c].remove => m.remove,
           conn' = [conn EXCEPT ![c] = m]
    PROVE  /\ conn' \in [Conn -> Members] /\ \A d \in Conn : IsConnection(conn'[d])
           /\ \A d \in Conn : conn[d].remove => conn'[d].remove
BY DEF IInv, TypeOK, IsConnection

-----------------------------------------------------------------------------
\* The steps of the loop task between connections.
LEMMA LoopStepInv ==
    ASSUME IInv, LoopStart \/ LogDisconnects \/ Erase \/ ParseDone \/ LoopEnd
    PROVE  IInv'
<1> USE Limits DEF IInv, TypeOK, Alive, Window
<1>1. CASE LoopStart
  BY <1>1 DEF LoopStart
<1>2. CASE LogDisconnects
  <2>1. freed' = FALSE
    BY <1>2 DEF LogDisconnects, ReadsClients
  <2>2. QED
    BY <1>2, <2>1 DEF LogDisconnects
<1>3. CASE Erase
  <2>1. \A c \in doomed : life[c] = "deleted"
    BY <1>3 DEF Erase
  <2>2. cur = {} /\ clients' = clients \ doomed /\ UNCHANGED <<cur, life, conn, vocab, value, idleAge, net, freed, ran>>
    BY <1>3 DEF Erase
  <2>3. TypeOK'
    BY <1>3, <2>2 DEF Erase
  <2>4. Alive'
    BY <1>3, <2>1, <2>2 DEF Erase
  <2>5. QED
    BY <2>3, <2>4
<1>4. CASE ParseDone
  BY <1>4 DEF ParseDone
<1>5. CASE LoopEnd
  BY <1>5 DEF LoopEnd
<1>6. QED
  BY <1>1, <1>2, <1>3, <1>4, <1>5

LEMMA DeleteInv == ASSUME IInv, Delete PROVE IInv'
<1>1. PICK c \in doomed :
          /\ life[c] = "open" /\ life' = [life EXCEPT ![c] = "deleted"]
          /\ conn' = [conn EXCEPT ![c] = [NewConn EXCEPT !.remove = conn[c].remove]]
  BY DEF Delete
<1>2. c \in Conn /\ pc = "delete" /\ conn[c].remove = TRUE
  BY DEF Delete, IInv, TypeOK, Alive, Window, Members
<1> DEFINE m == [NewConn EXCEPT !.remove = conn[c].remove]
<1>3. m = Close(NewConn)
  BY <1>2 DEF Close
<1>4. IsConnection(m) /\ m.remove
  BY <1>3, NewIsConnection, Changed
<1>5. /\ conn' \in [Conn -> Members] /\ \A d \in Conn : IsConnection(conn'[d])
      /\ \A d \in Conn : conn[d].remove => conn'[d].remove
  BY <1>1, <1>2, <1>4, OneChanges
<1>6. life' \in [Conn -> {"none", "open", "deleted"}]
      /\ \A d \in Conn : life'[d] = IF d = c THEN "deleted" ELSE life[d]
  BY <1>1, <1>2 DEF IInv, TypeOK
<1>7. UNCHANGED <<pc, cur, todo, clients, doomed, vocab, value, idleAge, net, freed, ran>>
  BY DEF Delete
<1>8. TypeOK'
  BY <1>5, <1>6, <1>7 DEF IInv, TypeOK
<1>9. Alive'
  BY <1>1, <1>2, <1>5, <1>6, <1>7 DEF IInv, TypeOK, Alive
<1>10. QED
  BY <1>8, <1>9 DEF IInv

\* Whatever else changes one connection: it is not deleted, and what is to be removed stays so.
LEMMA ConnStepInv ==
    ASSUME IInv, NEW c \in Conn, NEW m, IsConnection(m), conn[c].remove => m.remove,
           conn' = [conn EXCEPT ![c] = m] \/ conn' = conn,
           UNCHANGED <<pc, cur, todo, clients, doomed, life, idleAge, net, freed, ran>>,
           DOMAIN vocab' = DOMAIN vocab, \A d \in DOMAIN vocab : vocab'[d] \subseteq vocab[d],
           value' \in [Entity -> {"on", "off"}]
    PROVE  IInv'
<1>1. /\ conn' \in [Conn -> Members] /\ \A d \in Conn : IsConnection(conn'[d])
      /\ \A d \in Conn : conn[d].remove => conn'[d].remove
  <2>1. CASE conn' = conn
    BY <2>1 DEF IInv, TypeOK
  <2>2. CASE conn' = [conn EXCEPT ![c] = m]
    BY <2>2, OneChanges
  <2>3. QED
    BY <2>1, <2>2
<1>2. TypeOK'
  BY <1>1 DEF IInv, TypeOK
<1>3. Alive'
  BY <1>1 DEF IInv, TypeOK, Alive, Window
<1>4. QED
  BY <1>2, <1>3 DEF IInv

\* lwIP's task and the clients.
LEMMA PeerStepInv ==
    ASSUME IInv, NEW c \in Conn,
           Accept(c) \/ Says(c) \/ Pong(c) \/ PeerCloses(c) \/ PeerVanishes(c) \/ on_timeout(c)
    PROVE  IInv'
<1>0. IsConnection(conn[c]) /\ value \in [Entity -> {"on", "off"}]
  BY DEF IInv, TypeOK
<1>1. CASE Accept(c)
  <2>1. /\ life' \in [Conn -> {"none", "open", "deleted"}]
        /\ \A d \in Conn : life'[d] = IF d = c THEN "open" ELSE life[d]
    BY <1>1 DEF Accept, IInv, TypeOK
  <2>2. /\ clients' = clients \cup {c} /\ pc \notin Window /\ life[c] = "none" /\ c \in DOMAIN vocab
        /\ UNCHANGED <<pc, cur, todo, doomed, conn, vocab, value, idleAge, net, freed, ran>>
    BY <1>1 DEF Accept
  <2>3. TypeOK'
    BY <2>1, <2>2 DEF IInv, TypeOK
  <2>4. Alive'
    BY <2>1, <2>2 DEF IInv, TypeOK, Alive, Window
  <2>5. QED
    BY <2>3, <2>4 DEF IInv
<1>2. CASE Says(c)
  <2>1. PICK w \in vocab[c] :
            /\ conn' = [conn EXCEPT ![c].recv = Append(@, w)]
            /\ vocab' = IF w \in {"on", "off"} THEN vocab ELSE [vocab EXCEPT ![c] = @ \ {w}]
    BY <1>2 DEF Says
  <2>2. c \in DOMAIN vocab /\ Len(conn[c].recv) < RecvMax /\ w \in Word
    BY <1>2, <2>1 DEF Says, Hearing, Talking, IInv, Alive, TypeOK
  <2>3. IsConnection([conn[c] EXCEPT !.recv = Append(@, w)])
    BY <1>0, <2>2, Hears1
  <2>4. [conn[c] EXCEPT !.recv = Append(@, w)].remove = conn[c].remove
    BY <1>0 DEF IsConnection, Members
  <2>5. DOMAIN vocab' = DOMAIN vocab /\ \A d \in DOMAIN vocab : vocab'[d] \subseteq vocab[d]
    BY <2>1
  <2>6. UNCHANGED <<pc, cur, todo, clients, doomed, life, value, idleAge, net, freed, ran>>
    BY <1>2 DEF Says
  <2>7. QED
    BY <1>0, <2>1, <2>3, <2>4, <2>5, <2>6, ConnStepInv
<1>3. CASE Pong(c)
  <2>0. Len(conn[c].recv) < RecvMax
    <3>1. Hearing(c)
      BY <1>3 DEF Pong
    <3>2. QED
      BY <3>1 DEF Hearing
  <2>6. "pong" \in Word
    BY DEF Word
  <2>1. IsConnection([conn[c] EXCEPT !.recv = Append(@, "pong")])
    BY <1>0, <2>0, <2>6, Hears1
  <2>2. [conn[c] EXCEPT !.recv = Append(@, "pong")].remove = conn[c].remove
    BY <1>0 DEF IsConnection, Members
  <2>3. conn' = [conn EXCEPT ![c] = [conn[c] EXCEPT !.recv = Append(@, "pong")]]
    BY <1>3 DEF Pong
  <2>4. UNCHANGED <<pc, cur, todo, clients, doomed, life, vocab, value, idleAge, net, freed, ran>>
    BY <1>3 DEF Pong
  <2>5. QED
    BY <1>0, <2>1, <2>2, <2>3, <2>4, ConnStepInv
<1>4. CASE PeerCloses(c)
  <2>1. conn' = conn \/ conn' = [conn EXCEPT ![c] = Close(conn[c])]
    BY <1>4 DEF PeerCloses, Close
  <2>2. QED
    BY <1>0, <1>4, <2>1, Changed, ConnStepInv DEF PeerCloses
<1>5. CASE PeerVanishes(c)
  BY <1>0, <1>5, ConnStepInv DEF PeerVanishes
<1>6. CASE on_timeout(c)
  BY <1>0, <1>6, Changed, ConnStepInv DEF on_timeout, Fatal
<1>7. QED
  BY <1>1, <1>2, <1>3, <1>4, <1>5, <1>6

\* Publishing concerns the clients' knowledge only.
LEMMA UpdateInv == ASSUME IInv, Update \/ NetChanges PROVE IInv'
<1>1. value' \in [Entity -> {"on", "off"}] /\ net' \in BOOLEAN
  BY DEF Update, NetChanges, IInv, TypeOK, Public
<1>2. UNCHANGED <<pc, cur, todo, clients, doomed, life, conn, vocab, idleAge, freed, ran>>
  BY DEF Update, NetChanges
<1>3. QED
  BY <1>1, <1>2 DEF IInv, TypeOK, Alive

\* Who is served is there.
LEMMA ServeInv == ASSUME IInv, Serve PROVE IInv'
<1>1. PICK c \in todo :
          /\ todo' = todo \ {c}
          /\ freed' = (freed \/ life[c] = "deleted")
          /\ \/ UNCHANGED <<pc, cur, conn>>
             \/ ~conn[c].remove /\ conn' = [conn EXCEPT ![c] = Close(conn[c])] /\ UNCHANGED <<pc, cur>>
             \/ ~conn[c].remove /\ pc' = "parse" /\ cur' = {c} /\ UNCHANGED conn
  BY DEF Serve, Fatal
<1>2. c \in clients /\ c \in Conn /\ pc = "serve" /\ IsConnection(conn[c])
  BY DEF IInv, TypeOK, Serve
<1>3. freed' = FALSE
  BY <1>1, <1>2 DEF IInv, Alive, TypeOK
<1>4. /\ conn' \in [Conn -> Members] /\ \A d \in Conn : IsConnection(conn'[d])
      /\ \A d \in Conn : conn[d].remove => conn'[d].remove
  <2>1. CASE conn' = conn
    BY <2>1 DEF IInv, TypeOK
  <2>2. CASE conn' = [conn EXCEPT ![c] = Close(conn[c])]
    BY <1>2, <2>2, Changed, OneChanges
  <2>3. QED
    BY <1>1, <2>1, <2>2
<1>5. UNCHANGED <<clients, doomed, life, vocab, value, idleAge, net, ran>>
  BY DEF Serve
<1>6. pc' \in {"serve", "parse"} /\ (pc' = "parse" <=> cur' # {}) /\ cur' \in {{}, {c}}
  BY <1>1, <1>2 DEF IInv, TypeOK
<1>7. TypeOK'
  BY <1>1, <1>2, <1>3, <1>4, <1>5, <1>6 DEF IInv, TypeOK
<1>8. Alive'
  BY <1>2, <1>3, <1>4, <1>5, <1>6 DEF IInv, TypeOK, Alive, Window
<1>9. QED
  BY <1>7, <1>8 DEF IInv

\* Every message leaves the connection one, or closes it.
LEMMA Handles ==
    ASSUME NEW c, NEW m, Answered(c, m) \/ Handled(c, m) \/ (Fatal(c, m) /\ UNCHANGED value)
    PROVE  /\ value' = value
           /\ \/ conn' = [conn EXCEPT ![c] = Popped(m)]
              \/ conn' = [conn EXCEPT ![c] = Close(m)]
BY DEF Answered, Handled, Fatal

LEMMA MessageInv ==
    ASSUME IInv, NEW c \in Conn, ~conn[c].remove, conn[c].recv # <<>>,
           NEW m, IsConnection(m), m.recv = conn[c].recv,
           Answered(c, m) \/ Handled(c, m) \/ (Fatal(c, m) /\ UNCHANGED value),
           UNCHANGED <<pc, cur, todo, clients, doomed, life, vocab, idleAge, net, freed, ran>>
    PROVE  IInv'
<1>1. IsConnection(Popped(m)) /\ IsConnection(Close(m))
  BY Pops, Changed
<1>2. value' \in [Entity -> {"on", "off"}]
  BY Handles DEF IInv, TypeOK
<1>3. CASE conn' = [conn EXCEPT ![c] = Popped(m)]
  BY <1>1, <1>2, <1>3, ConnStepInv
<1>4. CASE conn' = [conn EXCEPT ![c] = Close(m)]
  BY <1>1, <1>2, <1>4, ConnStepInv
<1>5. QED
  BY <1>3, <1>4, Handles

LEMMA ParseOneInv == ASSUME IInv, ParseOne PROVE IInv'
<1>1. PICK c \in cur :
          /\ ~conn[c].remove /\ conn[c].recv # <<>>
          /\ \/ \E right \in BOOLEAN : Hello(c) \/ Connect(c, right) \/ Disconnect(c)
             \/ DisconnectResponse(c) \/ Answered(c, conn[c]) \/ PingResponse(c)
             \/ DeviceInfo(c) \/ Refused(c) \/ Handled(c, conn[c])
             \/ ListEntities(c) \/ SubscribeStates(c) \/ SubscribeLogs(c)
             \/ \E v \in {"on", "off"} : SwitchCommand(c, v)
  BY DEF ParseOne
<1>2. c \in Conn /\ IsConnection(conn[c])
  BY DEF IInv, TypeOK
<1>3. UNCHANGED <<pc, cur, todo, clients, doomed, life, vocab, idleAge, net, freed, ran>>
  BY DEF ParseOne
<1> DEFINE m0 == conn[c]
<1>4. /\ \A b \in BOOLEAN : /\ [m0 EXCEPT !.nextClose = b].recv = m0.recv
                            /\ [m0 EXCEPT !.sentPing = b].recv = m0.recv
                            /\ [m0 EXCEPT !.logs = b].recv = m0.recv
      /\ \A s \in {"CONNECTED", "AUTHENTICATED"} : [m0 EXCEPT !.state = s].recv = m0.recv
      /\ [m0 EXCEPT !.list = Started].recv = m0.recv
      /\ [m0 EXCEPT !.subscribed = TRUE, !.initial = Started].recv = m0.recv
  BY <1>2 DEF IsConnection, Members
<1>5. CASE \E v \in {"on", "off"} : SwitchCommand(c, v)
  <2>1. value' \in [Entity -> {"on", "off"}]
    BY <1>5, ApiAssumption DEF SwitchCommand, IInv, TypeOK
  <2>2. conn' = [conn EXCEPT ![c] = Popped(m0)]
    BY <1>5 DEF SwitchCommand
  <2>3. IsConnection(Popped(m0))
    BY <1>1, <1>2, Pops
  <2>4. QED
    BY <1>1, <1>2, <1>3, <2>1, <2>2, <2>3, ConnStepInv
<1>6. CASE ListEntities(c)
  <2>1. value' \in [Entity -> {"on", "off"}]
    BY <1>6 DEF ListEntities, IInv, TypeOK
  <2>2. conn' = [conn EXCEPT ![c] = Popped([m0 EXCEPT !.list = Started])]
    BY <1>6 DEF ListEntities
  <2>3. IsConnection(Popped([m0 EXCEPT !.list = Started]))
    BY <1>1, <1>2, <1>4, Pops, Changed
  <2>4. QED
    BY <1>1, <1>2, <1>3, <2>1, <2>2, <2>3, ConnStepInv
<1>7. CASE Hello(c)
  <2> DEFINE m == [m0 EXCEPT !.state = "CONNECTED"]
  <2>1. IsConnection(m) /\ m.recv = conn[c].recv
    BY <1>2, <1>4, Changed
  <2>2. Answered(c, m)
    BY <1>7 DEF Hello
  <2>3. QED
    BY <1>1, <1>2, <1>3, <2>1, <2>2, MessageInv
<1>8. CASE \E right \in BOOLEAN : Connect(c, right)
  <2> DEFINE m == [m0 EXCEPT !.state = "AUTHENTICATED"]
  <2>1. IsConnection(m) /\ m.recv = conn[c].recv
    BY <1>2, <1>4, Changed
  <2>2. Answered(c, m) \/ Answered(c, conn[c])
    BY <1>8 DEF Connect
  <2>3. CASE Answered(c, m)
    BY <1>1, <1>2, <1>3, <2>1, <2>3, MessageInv
  <2>4. CASE Answered(c, conn[c])
    BY <1>1, <1>2, <1>3, <2>4, MessageInv
  <2>5. QED
    BY <2>2, <2>3, <2>4
<1>9. CASE Disconnect(c)
  <2> DEFINE m == [m0 EXCEPT !.nextClose = TRUE]
  <2>1. IsConnection(m) /\ m.recv = conn[c].recv
    BY <1>2, <1>4, Changed
  <2>2. Answered(c, m)
    BY <1>9 DEF Disconnect
  <2>3. QED
    BY <1>1, <1>2, <1>3, <2>1, <2>2, MessageInv
<1>10. CASE DisconnectResponse(c)
  <2> DEFINE m == [m0 EXCEPT !.nextClose = TRUE]
  <2>1. IsConnection(m) /\ m.recv = conn[c].recv
    BY <1>2, <1>4, Changed
  <2>2. Handled(c, m)
    BY <1>10 DEF DisconnectResponse
  <2>3. QED
    BY <1>1, <1>2, <1>3, <2>1, <2>2, MessageInv
<1>11. CASE Answered(c, conn[c]) \/ Handled(c, conn[c]) \/ DeviceInfo(c) \/ Refused(c)
  <2>1. Answered(c, m0) \/ Handled(c, m0) \/ (Fatal(c, m0) /\ UNCHANGED value)
    BY <1>11 DEF DeviceInfo, Refused
  <2>2. QED
    BY <1>1, <1>2, <1>3, <2>1, MessageInv
<1>12. CASE PingResponse(c)
  <2> DEFINE m == [m0 EXCEPT !.sentPing = FALSE]
  <2>1. IsConnection(m) /\ m.recv = conn[c].recv
    BY <1>2, <1>4, Changed
  <2>2. Handled(c, m)
    BY <1>12 DEF PingResponse
  <2>3. QED
    BY <1>1, <1>2, <1>3, <2>1, <2>2, MessageInv
<1>13. CASE SubscribeStates(c)
  <2> DEFINE m == [m0 EXCEPT !.subscribed = TRUE, !.initial = Started]
  <2>1. IsConnection(m) /\ m.recv = conn[c].recv
    BY <1>2, <1>4, Changed
  <2>2. Handled(c, m)
    BY <1>13 DEF SubscribeStates
  <2>3. QED
    BY <1>1, <1>2, <1>3, <2>1, <2>2, MessageInv
<1>14. CASE SubscribeLogs(c)
  <2> DEFINE m == [m0 EXCEPT !.logs = TRUE]
  <2>1. IsConnection(m) /\ m.recv = conn[c].recv
    BY <1>2, <1>4, Changed
  <2>2. Handled(c, m)
    BY <1>14 DEF SubscribeLogs
  <2>3. QED
    BY <1>1, <1>2, <1>3, <2>1, <2>2, MessageInv
<1>15. QED
  BY <1>1, <1>5, <1>6, <1>7, <1>8, <1>9, <1>10, <1>11, <1>12, <1>13, <1>14

\* Iterators and ping.
LEMMA AdvanceInv == ASSUME IInv, Advance PROVE IInv'
<1>0. PICK c \in cur : \E s1, s2, s3 \in Room(conn[c]) :
          conn' = [conn EXCEPT ![c] = Round(c, s1, s2, s3).m]
  BY DEF Advance
<1>13. Room(conn[c]) \subseteq BOOLEAN
  BY DEF Room
<1>1. PICK s1 \in BOOLEAN, s2 \in BOOLEAN, s3 \in BOOLEAN :
          conn' = [conn EXCEPT ![c] = Round(c, s1, s2, s3).m]
  BY <1>0, <1>13
<1> DEFINE m == [conn[c] EXCEPT !.list = advance(@, s1), !.initial = InitialNext(c, s2)]
           r == Round(c, s1, s2, s3)
<1>2. c \in Conn /\ IsConnection(conn[c])
  BY DEF IInv, TypeOK
<1>3. IsIterator(advance(conn[c].list, s1)) /\ IsIterator(InitialNext(c, s2))
  BY <1>2, Advances DEF InitialNext, IsConnection
<1>4. IsConnection(m) /\ m.remove = conn[c].remove
  <2>1. conn[c] \in Members /\ Len(conn[c].recv) <= RecvMax
    BY <1>2 DEF IsConnection
  <2>2. /\ advance(conn[c].list, s1) \in [state : NONE .. MAX, at : Nat]
        /\ InitialNext(c, s2) \in [state : NONE .. MAX, at : Nat]
    BY <1>3 DEF IsIterator
  <2>3. /\ m \in Members /\ m.remove = conn[c].remove /\ m.recv = conn[c].recv
        /\ m.list = advance(conn[c].list, s1) /\ m.initial = InitialNext(c, s2)
    BY <2>1, <2>2 DEF Members
  <2>4. QED
    BY <1>3, <2>1, <2>3 DEF IsConnection
<1>5. r.m \in {Close(m), m, [m EXCEPT !.sentPing = TRUE]}
  BY DEF Round, KeepaliveStep
<1>6. IsConnection(r.m)
  BY <1>4, <1>5, Changed
<1>7. conn[c].remove => r.m.remove
  <2>1. m \in Members
    BY <1>4 DEF IsConnection
  <2>2. [m EXCEPT !.sentPing = TRUE].remove = m.remove
    BY <2>1 DEF Members
  <2>3. QED
    BY <1>4, <1>5, <2>2, Changed
<1>8. /\ conn' \in [Conn -> Members] /\ \A d \in Conn : IsConnection(conn'[d])
      /\ \A d \in Conn : conn[d].remove => conn'[d].remove
  BY <1>1, <1>2, <1>6, <1>7, OneChanges
<1>9. pc = "advance" /\ pc' = "serve" /\ cur' = {}
      /\ UNCHANGED <<todo, clients, doomed, life, vocab, value, idleAge, net, freed, ran>>
  BY DEF Advance
<1>10. TypeOK'
  BY <1>8, <1>9 DEF IInv, TypeOK
<1>11. Alive'
  BY <1>8, <1>9 DEF IInv, TypeOK, Alive, Window
<1>12. QED
  BY <1>10, <1>11 DEF IInv

\* A restart begins anew.
LEMMA FreshInv == ASSUME IInv, Fresh, UNCHANGED net PROVE IInv'
<1>1. DOMAIN vocab' \subseteq Conn /\ \A c \in DOMAIN vocab' : vocab'[c] \subseteq Word
  BY WordsAssumption DEF Fresh
<1>2. conn' \in [Conn -> Members] /\ \A c \in Conn : IsConnection(conn'[c])
  BY NewIsConnection DEF Fresh, IsConnection
<1>3. /\ pc' = "idle" /\ cur' = {} /\ todo' = {} /\ clients' = {} /\ doomed' = {}
      /\ freed' = FALSE /\ ran' = FALSE /\ idleAge' = 0
      /\ life' = [c \in Conn |-> "none"] /\ value' = [e \in Entity |-> "off"]
  BY DEF Fresh
<1>4. life' \in [Conn -> {"none", "open", "deleted"}] /\ value' \in [Entity -> {"on", "off"}]
  BY <1>3
<1>5. net' \in BOOLEAN /\ idleAge' \in 0 .. IdleCap
  BY <1>3, Limits DEF IInv, TypeOK
<1>6. TypeOK'
  BY <1>1, <1>2, <1>3, <1>4, <1>5 DEF TypeOK
<1>7. Alive'
  BY <1>3 DEF Alive, Window
<1>8. QED
  BY <1>6, <1>7 DEF IInv

LEMMA TickInv == ASSUME IInv, Tick PROVE IInv'
<1>1. /\ idleAge' \in 0 .. IdleCap /\ ran' = FALSE /\ pc = "idle"
      /\ UNCHANGED <<pc, cur, todo, clients, doomed, life, vocab, value, net, freed>>
  BY Limits DEF Tick, IInv, TypeOK
<1>2. conn' = [c \in Conn |-> IF life[c] = "open" /\ conn[c].traffic < TrafficCap
                              THEN [conn[c] EXCEPT !.traffic = @ + 1] ELSE conn[c]]
  BY DEF Tick
<1>3. ASSUME NEW c \in Conn
      PROVE  conn'[c] \in Members /\ IsConnection(conn'[c]) /\ conn'[c].remove = conn[c].remove
  <2>1. IsConnection(conn[c])
    BY DEF IInv, TypeOK
  <2>2. CASE life[c] = "open" /\ conn[c].traffic < TrafficCap
    <3>1. conn'[c] = [conn[c] EXCEPT !.traffic = @ + 1]
      BY <1>2, <2>2
    <3>2. conn[c].traffic + 1 \in 0 .. TrafficCap
      BY <2>1, <2>2, Limits DEF IsConnection, Members
    <3>3. QED
      BY <2>1, <3>1, <3>2 DEF IsConnection, Members
  <2>3. CASE ~(life[c] = "open" /\ conn[c].traffic < TrafficCap)
    BY <1>2, <2>1, <2>3 DEF IsConnection
  <2>4. QED
    BY <2>2, <2>3
<1>4. conn' \in [Conn -> Members]
  BY <1>2, <1>3
<1>5. TypeOK'
  BY <1>1, <1>3, <1>4 DEF IInv, TypeOK
<1>6. Alive'
  BY <1>1, <1>3 DEF IInv, TypeOK, Alive, Window
<1>7. QED
  BY <1>5, <1>6 DEF IInv

LEMMA InitInv == Init => IInv
<1> SUFFICES ASSUME Init PROVE IInv
  OBVIOUS
<1>1. DOMAIN vocab \subseteq Conn /\ \A c \in DOMAIN vocab : vocab[c] \subseteq Word
  BY WordsAssumption DEF Init
<1>2. conn \in [Conn -> Members] /\ \A c \in Conn : IsConnection(conn[c])
  BY NewIsConnection DEF Init, IsConnection
<1>3. /\ pc = "idle" /\ cur = {} /\ todo = {} /\ clients = {} /\ doomed = {}
      /\ freed = FALSE /\ ran = FALSE /\ idleAge = 0 /\ net = TRUE
      /\ life = [c \in Conn |-> "none"] /\ value = [e \in Entity |-> "off"]
  BY DEF Init
<1>4. life \in [Conn -> {"none", "open", "deleted"}] /\ value \in [Entity -> {"on", "off"}]
  BY <1>3
<1>5. idleAge \in 0 .. IdleCap
  BY <1>3, Limits
<1>6. TypeOK
  BY <1>1, <1>2, <1>3, <1>4, <1>5 DEF TypeOK
<1>7. Alive
  BY <1>3 DEF Alive, Window
<1>8. QED
  BY <1>6, <1>7 DEF IInv

LEMMA StepInv == IInv /\ [Next]_vars => IInv'
<1> SUFFICES ASSUME IInv, [Next]_vars PROVE IInv'
  OBVIOUS
<1>1. CASE Loop
  BY <1>1, LoopStepInv, DeleteInv, ServeInv, ParseOneInv, AdvanceInv, FreshInv DEF Loop, Reboot
<1>2. CASE Tick \/ NetChanges \/ Update
  BY <1>2, TickInv, UpdateInv
<1>3. CASE Shutdown
  BY <1>3, FreshInv DEF Shutdown
<1>4. ASSUME NEW c \in Conn,
             Accept(c) \/ Says(c) \/ Pong(c) \/ PeerCloses(c) \/ PeerVanishes(c) \/ on_timeout(c)
      PROVE  IInv'
  BY <1>4, PeerStepInv
<1>5. CASE UNCHANGED vars
  BY <1>5 DEF vars, IInv, TypeOK, Alive, Window
<1>6. QED
  BY <1>1, <1>2, <1>3, <1>4, <1>5 DEF Next

\* No connection is used after it was deleted, none but removed ones are deleted, and none that is
\* open is forgotten (api_server.cpp:61-93).
THEOREM NothingFreedIsEverRead == Spec => []ApiInv
<1>1. IInv => ApiInv
  BY DEF IInv, Alive, ApiInv, NothingFreedIsRead
<1>2. QED
  BY <1>1, InitInv, StepInv, PTL DEF Spec
-----------------------------------------------------------------------------
(***************************************************************************)
(* What subscribers know.  An entity is behind the iterator of the initial *)
(* states only if its state was sent then, or later, or found no room; and *)
(* who subscribes has all of them ahead.                                   *)
(***************************************************************************)
PeerRecord ==
    [alive : BOOLEAN, tcp : BOOLEAN, pinged : BOOLEAN, listed : Seq(Entity), told : BOOLEAN,
     known : [Entity -> {"on", "off", Unknown, Missed}], unasked : BOOLEAN]

SubInv ==
    /\ peer \in [Conn -> PeerRecord]
    /\ \A c \in Conn : life[c] = "none" => ~conn[c].subscribed
    /\ SubscriberIsCurrent

\* As to what is subscribed, n is as m was.
Like(m, n) == n.subscribed = m.subscribed /\ n.initial = m.initial

LEMMA LikeIt ==
    ASSUME NEW m, IsConnection(m)
    PROVE  /\ Like(m, m) /\ Like(m, Close(m))
           /\ \A b \in BOOLEAN : /\ Like(m, [m EXCEPT !.nextClose = b])
                                /\ Like(m, [m EXCEPT !.sentPing = b])
                                /\ Like(m, [m EXCEPT !.logs = b])
           /\ \A s \in {"CONNECTED", "AUTHENTICATED"} : Like(m, [m EXCEPT !.state = s])
           /\ \A it : Like(m, [m EXCEPT !.list = it])
           /\ Like(m, Popped(m))
           /\ \A q : Like(m, [m EXCEPT !.recv = q])
           /\ \A n : Like(m, [m EXCEPT !.traffic = n])
BY DEF IsConnection, Members, Like, Close, Popped

\* What becomes of a peer that is told nothing.
LEMMA PeerLike ==
    ASSUME NEW p \in PeerRecord
    PROVE  /\ \A b \in BOOLEAN :
                 /\ [p EXCEPT !.alive = b] \in PeerRecord /\ [p EXCEPT !.alive = b].known = p.known
                 /\ [p EXCEPT !.tcp = b] \in PeerRecord /\ [p EXCEPT !.tcp = b].known = p.known
                 /\ [p EXCEPT !.pinged = b] \in PeerRecord /\ [p EXCEPT !.pinged = b].known = p.known
                 /\ [p EXCEPT !.unasked = b] \in PeerRecord /\ [p EXCEPT !.unasked = b].known = p.known
                 /\ [p EXCEPT !.told = b] \in PeerRecord /\ [p EXCEPT !.told = b].known = p.known
           /\ \A s \in Seq(Entity) :
                 [p EXCEPT !.listed = s] \in PeerRecord /\ [p EXCEPT !.listed = s].known = p.known
           /\ Hangup(p) \in PeerRecord /\ Hangup(p).known = p.known
BY DEF PeerRecord, Hangup

LEMMA NobodyIsPeer == NoPeer \in PeerRecord
BY DEF NoPeer, PeerRecord, Unknown, Missed

\* A step that tells nobody anything and subscribes nobody.
LEMMA NothingTold ==
    ASSUME IInv, SubInv, peer' \in [Conn -> PeerRecord], UNCHANGED value,
           \A d \in Conn : life'[d] = "none" => life[d] = "none",
           \A d \in clients' : d \in clients \/ (d \in Conn /\ life[d] = "none"),
           \A d \in Conn : conn'[d].subscribed =>
                             /\ Like(conn[d], conn'[d])
                             /\ peer'[d].known = peer[d].known
    PROVE  SubInv'
<1>1. \A d \in Conn : life'[d] = "none" => ~conn'[d].subscribed
  BY DEF SubInv, Like
<1>2. SubscriberIsCurrent'
  <2> SUFFICES ASSUME NEW d \in clients', NEW e \in Public \ Services,
                      conn'[d].subscribed, ~Before(conn'[d].initial, e)
               PROVE  peer'[d].known[e] \in {value[e], Missed}
    BY DEF SubscriberIsCurrent, Public
  <2>1. d \in Conn /\ Like(conn[d], conn'[d]) /\ peer'[d].known = peer[d].known
    BY DEF IInv, TypeOK
  <2>2. d \in clients
    BY <2>1 DEF SubInv, Like
  <2>3. conn[d].subscribed /\ ~Before(conn[d].initial, e)
    BY <2>1 DEF Like
  <2>4. QED
    BY <2>1, <2>2, <2>3 DEF SubInv, SubscriberIsCurrent
<1>3. QED
  BY <1>1, <1>2 DEF SubInv

\* The same when one connection and its peer change.
LEMMA OneUntold ==
    ASSUME IInv, SubInv, NEW c \in Conn, NEW m, NEW p \in PeerRecord,
           conn' = [conn EXCEPT ![c] = m] \/ (conn' = conn /\ m = conn[c]),
           peer' = [peer EXCEPT ![c] = p] \/ peer' = peer,
           UNCHANGED <<value, life, clients>>,
           m.subscribed => Like(conn[c], m) /\ p.known = peer[c].known
    PROVE  SubInv'
<1>1. /\ conn \in [Conn -> Members] /\ peer \in [Conn -> PeerRecord]
      /\ \A d \in Conn : IsConnection(conn[d])
  BY DEF IInv, SubInv, TypeOK
<1>2. peer' \in [Conn -> PeerRecord]
  BY <1>1
<1>3. ASSUME NEW d \in Conn, conn'[d].subscribed
      PROVE  Like(conn[d], conn'[d]) /\ peer'[d].known = peer[d].known
  <2>1. CASE d = c
    <3>1. conn'[c] = m /\ peer'[c] \in {p, peer[c]}
      BY <1>1
    <3>2. Like(conn[c], m) /\ p.known = peer[c].known
      BY <1>3, <2>1, <3>1
    <3>3. QED
      BY <2>1, <3>1, <3>2
  <2>2. CASE d # c
    <3>1. conn'[d] = conn[d] /\ peer'[d] = peer[d]
      BY <1>1, <2>2
    <3>2. QED
      BY <3>1 DEF Like
  <2>3. QED
    BY <2>1, <2>2
<1>4. (\A d \in Conn : life'[d] = "none" => life[d] = "none")
      /\ (\A d \in clients' : d \in clients)
  OBVIOUS
<1>5. QED
  BY <1>2, <1>3, <1>4, NothingTold

\* The steps of the loop task between connections, time and the network.
LEMMA LoopSub ==
    ASSUME IInv, SubInv,
           LoopStart \/ LogDisconnects \/ Erase \/ ParseDone \/ LoopEnd \/ NetChanges
    PROVE  SubInv'
<1>1. UNCHANGED <<conn, peer, value, life>> /\ clients' \subseteq clients
  BY DEF LoopStart, LogDisconnects, Erase, ParseDone, LoopEnd, NetChanges
<1>2. \A d \in Conn : Like(conn[d], conn'[d]) /\ peer'[d].known = peer[d].known
  BY <1>1 DEF Like
<1>3. peer' \in [Conn -> PeerRecord]
  BY <1>1 DEF SubInv
<1>4. QED
  BY <1>1, <1>2, <1>3, NothingTold

LEMMA DeleteSub == ASSUME IInv, SubInv, Delete PROVE SubInv'
<1>1. PICK c \in doomed :
          /\ life' = [life EXCEPT ![c] = "deleted"]
          /\ conn' = [conn EXCEPT ![c] = [NewConn EXCEPT !.remove = conn[c].remove]]
          /\ peer' = [peer EXCEPT ![c] = NoPeer]
  BY DEF Delete
<1>2. c \in Conn /\ conn \in [Conn -> Members] /\ life \in [Conn -> {"none", "open", "deleted"}]
      /\ peer \in [Conn -> PeerRecord] /\ UNCHANGED <<value, clients>>
  BY DEF IInv, TypeOK, SubInv, Delete
<1>3. ~[NewConn EXCEPT !.remove = conn[c].remove].subscribed
  BY DEF NewConn
<1>4. \A d \in Conn : conn'[d].subscribed => Like(conn[d], conn'[d]) /\ peer'[d].known = peer[d].known
  BY <1>1, <1>2, <1>3 DEF Like
<1>5. peer' \in [Conn -> PeerRecord] /\ \A d \in Conn : life'[d] = "none" => life[d] = "none"
  BY <1>1, <1>2, NobodyIsPeer
<1>6. QED
  BY <1>2, <1>4, <1>5, NothingTold

LEMMA ServeSub == ASSUME IInv, SubInv, Serve PROVE SubInv'
<1>1. PICK c \in todo :
          /\ conn' = [conn EXCEPT ![c] = Close(conn[c])] \/ conn' = conn
          /\ peer' = [peer EXCEPT ![c] = Hangup(peer[c])] \/ peer' = peer
  BY DEF Serve, Fatal
<1>2. c \in Conn /\ IsConnection(conn[c]) /\ peer[c] \in PeerRecord
      /\ UNCHANGED <<value, life, clients>>
  BY DEF IInv, TypeOK, SubInv, Serve
<1>3. /\ Like(conn[c], Close(conn[c])) /\ Like(conn[c], conn[c])
      /\ Hangup(peer[c]) \in PeerRecord /\ Hangup(peer[c]).known = peer[c].known
  BY <1>2, LikeIt, PeerLike
<1>4. CASE conn' = conn
  BY <1>1, <1>2, <1>3, <1>4, OneUntold
<1>5. CASE conn' = [conn EXCEPT ![c] = Close(conn[c])]
  BY <1>1, <1>2, <1>3, <1>5, OneUntold
<1>6. QED
  BY <1>1, <1>4, <1>5

\* lwIP's task and the clients tell nobody a state.
LEMMA PeerSub ==
    ASSUME IInv, SubInv, NEW c \in Conn,
           Accept(c) \/ Says(c) \/ Pong(c) \/ PeerCloses(c) \/ PeerVanishes(c) \/ on_timeout(c)
    PROVE  SubInv'
<1>1. IsConnection(conn[c]) /\ conn[c] \in Members /\ peer[c] \in PeerRecord
      /\ life \in [Conn -> {"none", "open", "deleted"}] /\ peer \in [Conn -> PeerRecord]
  BY DEF IInv, TypeOK, SubInv, IsConnection
<1>2. CASE Accept(c)
  <2>1. /\ UNCHANGED <<conn, peer, value>> /\ clients' = clients \cup {c}
        /\ life[c] = "none" /\ life' = [life EXCEPT ![c] = "open"]
    BY <1>2 DEF Accept
  <2>2. \A d \in Conn : Like(conn[d], conn'[d]) /\ peer'[d].known = peer[d].known
    BY <2>1 DEF Like
  <2>3. \A d \in Conn : life'[d] = "none" => life[d] = "none"
    BY <1>1, <2>1
  <2>4. QED
    BY <1>1, <2>1, <2>2, <2>3, NothingTold
<1>3. CASE ~Accept(c)
  <2> DEFINE p0 == peer[c]
  <2>1. PICK m, p :
            /\ p \in {p0, [p0 EXCEPT !.pinged = FALSE], [p0 EXCEPT !.tcp = FALSE],
                     [p0 EXCEPT !.alive = FALSE]}
            /\ Like(conn[c], m)
            /\ conn' = [conn EXCEPT ![c] = m] \/ (conn' = conn /\ m = conn[c])
            /\ peer' = [peer EXCEPT ![c] = p] \/ peer' = peer
    <3>1. CASE Says(c)
      <4>1. PICK w \in vocab[c] : conn' = [conn EXCEPT ![c].recv = Append(@, w)] /\ peer' = peer
        BY <3>1 DEF Says
      <4>2. Like(conn[c], [conn[c] EXCEPT !.recv = Append(@, w)])
        BY <1>1, LikeIt
      <4>3. QED
        BY <4>1, <4>2
    <3>2. CASE Pong(c)
      <4>1. Like(conn[c], [conn[c] EXCEPT !.recv = Append(@, "pong")])
        BY <1>1, LikeIt
      <4>2. QED
        BY <3>2, <4>1 DEF Pong
    <3>3. CASE PeerCloses(c)
      <4>1. Like(conn[c], [conn[c] EXCEPT !.remove = TRUE]) /\ Like(conn[c], conn[c])
        BY <1>1, LikeIt DEF Close
      <4>2. QED
        BY <3>3, <4>1 DEF PeerCloses
    <3>4. CASE PeerVanishes(c)
      BY <1>1, <3>4, LikeIt DEF PeerVanishes
    <3>5. CASE on_timeout(c)
      BY <1>1, <3>5, LikeIt DEF on_timeout, Fatal, Hangup
    <3>6. QED
      BY <1>3, <3>1, <3>2, <3>3, <3>4, <3>5
  <2>2. p \in PeerRecord /\ p.known = peer[c].known
    BY <1>1, <2>1, PeerLike
  <2>3. UNCHANGED <<value, life, clients>>
    BY <1>3 DEF Says, Pong, PeerCloses, PeerVanishes, on_timeout
  <2>4. QED
    BY <2>1, <2>2, <2>3, OneUntold
<1>4. QED
  BY <1>2, <1>3

LEMMA TickSub == ASSUME IInv, SubInv, Tick PROVE SubInv'
<1>1. UNCHANGED <<peer, value, life, clients>>
  BY DEF Tick
<1>2. conn' = [c \in Conn |-> IF life[c] = "open" /\ conn[c].traffic < TrafficCap
                              THEN [conn[c] EXCEPT !.traffic = @ + 1] ELSE conn[c]]
  BY DEF Tick
<1>3. \A d \in Conn : Like(conn[d], conn'[d]) /\ peer'[d].known = peer[d].known
  BY <1>1, <1>2, LikeIt DEF IInv, TypeOK
<1>4. peer' \in [Conn -> PeerRecord]
  BY <1>1 DEF SubInv
<1>5. QED
  BY <1>1, <1>3, <1>4, NothingTold

LEMMA FreshSub == ASSUME Fresh PROVE SubInv'
<1>1. /\ conn' = [c \in Conn |-> NewConn] /\ peer' = [c \in Conn |-> NoPeer] /\ clients' = {}
  BY DEF Fresh
<1>2. ~NewConn.subscribed
  BY DEF NewConn
<1>3. QED
  BY <1>1, <1>2, NobodyIsPeer DEF SubInv, SubscriberIsCurrent

\* What is published reaches every subscriber, or finds no room.
LEMMA Published ==
    ASSUME IInv, SubInv, NEW e \in Entity, NEW v \in {"on", "off"},
           value' = [value EXCEPT ![e] = v], publish_state(e, v),
           UNCHANGED <<life, clients>>, \A d \in Conn : Like(conn[d], conn'[d])
    PROVE  SubInv'
<1>1. /\ peer \in [Conn -> PeerRecord] /\ value \in [Entity -> {"on", "off"}]
      /\ clients \subseteq Conn
  BY DEF IInv, TypeOK, SubInv
<1>2. ASSUME NEW d \in Conn
      PROVE  \/ /\ ~(d \in clients /\ conn[d].subscribed /\ e \in Public)
                /\ peer'[d] = peer[d]
             \/ \E w \in {v, Missed} : peer'[d] = [peer[d] EXCEPT !.known[e] = w]
  <2>1. PICK got \in SUBSET {c \in clients : Hears(c) /\ e \in Public /\ TRUE \in Room(conn[c])} :
       peer' = [c \in Conn |->
                  IF c \in clients /\ Hears(c) /\ e \in Public
                  THEN IF BufferMayFill \/ conn[c].remove
                       THEN Told(peer[c], e, v, c \in got)
                       ELSE Told(peer[c], e, v, TRUE)
                  ELSE peer[c]]
    BY DEF publish_state
  <2>2. CASE d \in clients /\ Hears(d) /\ e \in Public
    <3>1. peer'[d] = Told(peer[d], e, v, d \in got) \/ peer'[d] = Told(peer[d], e, v, TRUE)
      BY <2>1, <2>2
    <3>2. QED
      BY <3>1 DEF Told
  <2>3. CASE ~(d \in clients /\ Hears(d) /\ e \in Public)
    BY <2>1, <2>3 DEF Hears
  <2>4. QED
    BY <2>2, <2>3
<1>3. ASSUME NEW d \in Conn, NEW w \in {v, Missed}
      PROVE  /\ [peer[d] EXCEPT !.known[e] = w] \in PeerRecord
             /\ [peer[d] EXCEPT !.known[e] = w].known = [peer[d].known EXCEPT ![e] = w]
  <2> DEFINE k == [peer[d].known EXCEPT ![e] = w]
  <2>1. peer[d].known \in [Entity -> {"on", "off", Unknown, Missed}] /\ peer[d] \in PeerRecord
    BY <1>1 DEF PeerRecord
  <2>2. k \in [Entity -> {"on", "off", Unknown, Missed}]
    BY <2>1
  <2>3. [peer[d] EXCEPT !.known[e] = w] = [peer[d] EXCEPT !.known = k]
    OBVIOUS
  <2> HIDE DEF k
  <2>4. [peer[d] EXCEPT !.known = k] \in PeerRecord /\ [peer[d] EXCEPT !.known = k].known = k
    BY <2>1, <2>2 DEF PeerRecord
  <2>5. QED
    BY <2>3, <2>4 DEF k
<1>4. peer' \in [Conn -> PeerRecord]
  <2>1. ASSUME NEW d \in Conn PROVE peer'[d] \in PeerRecord
    <3>1. CASE peer'[d] = peer[d]
      BY <1>1, <3>1
    <3>2. CASE \E w \in {v, Missed} : peer'[d] = [peer[d] EXCEPT !.known[e] = w]
      BY <1>3, <3>2
    <3>3. QED
      BY <1>2, <3>1, <3>2
  <2>2. \E f : peer' = [d \in Conn |-> f[d]]
    <3>1. PICK got \in SUBSET {c \in clients : Hears(c) /\ e \in Public /\ TRUE \in Room(conn[c])} :
         peer' = [c \in Conn |->
                  IF c \in clients /\ Hears(c) /\ e \in Public
                  THEN IF BufferMayFill \/ conn[c].remove
                       THEN Told(peer[c], e, v, c \in got)
                       ELSE Told(peer[c], e, v, TRUE)
                  ELSE peer[c]]
      BY DEF publish_state
    <3>2. peer' = [d \in Conn |-> peer'[d]]
      BY <3>1
    <3>3. QED
      BY <3>2
  <2>3. QED
    BY <2>1, <2>2
<1>5. SubscriberIsCurrent'
  <2> SUFFICES ASSUME NEW d \in clients, NEW f \in Public \ Services,
                      conn'[d].subscribed, ~Before(conn'[d].initial, f)
               PROVE  peer'[d].known[f] \in {value'[f], Missed}
    BY DEF SubscriberIsCurrent, Public
  <2>1. /\ d \in Conn /\ f \in Entity /\ f \in Public
        /\ conn[d].subscribed /\ ~Before(conn[d].initial, f)
    BY <1>1 DEF Like, Public
  <2>2. peer[d].known[f] \in {value[f], Missed}
    BY <2>1 DEF SubInv, SubscriberIsCurrent
  <2>3. value'[f] = IF f = e THEN v ELSE value[f]
    BY <1>1, <2>1
  <2>4. CASE peer'[d] = peer[d] /\ f # e
    BY <2>2, <2>3, <2>4
  <2>5. CASE \E w \in {v, Missed} : peer'[d] = [peer[d] EXCEPT !.known[e] = w]
    <3>1. PICK w \in {v, Missed} : peer'[d] = [peer[d] EXCEPT !.known[e] = w]
      BY <2>5
    <3>2. peer'[d].known = [peer[d].known EXCEPT ![e] = w]
      BY <1>3, <2>1, <3>1
    <3>3. peer[d].known \in [Entity -> {"on", "off", Unknown, Missed}]
      BY <1>1, <2>1 DEF PeerRecord
    <3>4. QED
      BY <2>1, <2>2, <2>3, <3>2, <3>3
  <2>6. QED
    BY <1>2, <2>1, <2>4, <2>5
<1>6. QED
  BY <1>4, <1>5 DEF SubInv, Like

LEMMA UpdateSub == ASSUME IInv, SubInv, Update PROVE SubInv'
<1>1. PICK e \in Public \ Services, v \in {"on", "off"} :
          value' = [value EXCEPT ![e] = v] /\ publish_state(e, v)
  BY DEF Update
<1>2. UNCHANGED <<conn, life, clients>> /\ e \in Entity
  BY DEF Update, Public
<1>3. \A d \in Conn : Like(conn[d], conn'[d])
  BY <1>2 DEF Like
<1>4. QED
  BY <1>1, <1>2, <1>3, Published

\* A message that tells nobody a state: answered, handled or refused.
LEMMA MessageSub ==
    ASSUME IInv, SubInv, NEW c \in Conn, NEW m, IsConnection(m), Like(conn[c], m),
           Answered(c, m) \/ Handled(c, m) \/ (Fatal(c, m) /\ UNCHANGED value),
           UNCHANGED <<life, clients>>
    PROVE  SubInv'
<1>1. /\ value' = value
      /\ \/ conn' = [conn EXCEPT ![c] = Popped(m)]
         \/ conn' = [conn EXCEPT ![c] = Close(m)]
      /\ peer' = [peer EXCEPT ![c] = Hangup(peer[c])] \/ peer' = peer
  BY DEF Answered, Handled, Fatal
<1>2. peer[c] \in PeerRecord
  BY DEF SubInv
<1>3. Hangup(peer[c]) \in PeerRecord /\ Hangup(peer[c]).known = peer[c].known
  BY <1>2, PeerLike
<1>4. Like(conn[c], Popped(m)) /\ Like(conn[c], Close(m))
  BY LikeIt DEF Like
<1>5. QED
  BY <1>1, <1>3, <1>4, OneUntold

\* Who subscribes has every entity ahead.
LEMMA AllAhead ==
    ASSUME NEW e \in Entity
    PROVE  Before(Started, e)
<1>1. PICK p \in DOMAIN Platforms : e \in {Platforms[p][i] : i \in DOMAIN Platforms[p]}
  BY DEF Entity
<1>2. PICK i \in DOMAIN Platforms[p] : Platforms[p][i] = e
  BY <1>1
<1>3. p \in Nat /\ p >= 1
  BY Limits
<1>4. Started.state < p + 1 /\ Started.state # NONE
  BY <1>3 DEF Started, BEGIN, NONE
<1>5. QED
  BY <1>2, <1>4 DEF Before

LEMMA SubscribeSub ==
    ASSUME IInv, SubInv, NEW c \in clients, c \in Conn, ~conn[c].remove, conn[c].recv # <<>>,
           SubscribeStates(c), UNCHANGED <<life, clients>>
    PROVE  SubInv'
<1> DEFINE m == [conn[c] EXCEPT !.subscribed = TRUE, !.initial = Started]
<1>1. /\ conn' = [conn EXCEPT ![c] = Popped(m)] /\ UNCHANGED <<peer, value>>
  BY DEF SubscribeStates, Handled
<1>2. IsConnection(conn[c]) /\ conn \in [Conn -> Members] /\ clients \subseteq Conn
  BY DEF IInv, TypeOK
<1>3. IsConnection(m) /\ m.initial = Started
  BY <1>2, Changed DEF IsConnection, Members
<1>4. Popped(m).initial = Started
  BY <1>3, LikeIt DEF Like
<1>5. life[c] # "none" /\ \A d \in Conn \ {c} : conn'[d] = conn[d]
  BY <1>1, <1>2 DEF IInv, Alive
<1>6. conn'[c].initial = Started
  BY <1>1, <1>2, <1>4
<1>7. SubscriberIsCurrent'
  <2> SUFFICES ASSUME NEW d \in clients, NEW e \in Public \ Services,
                      conn'[d].subscribed, ~Before(conn'[d].initial, e)
               PROVE  peer[d].known[e] \in {value[e], Missed}
    BY <1>1 DEF SubscriberIsCurrent, Public
  <2>1. d # c
    BY <1>6, AllAhead DEF Public
  <2>2. d \in Conn /\ conn'[d] = conn[d]
    BY <1>2, <1>5, <2>1
  <2>3. QED
    BY <2>2 DEF SubInv, SubscriberIsCurrent
<1>8. QED
  BY <1>1, <1>5, <1>7 DEF SubInv

LEMMA ParseOneSub == ASSUME IInv, SubInv, ParseOne PROVE SubInv'
<1>1. PICK c \in cur :
          /\ ~conn[c].remove /\ conn[c].recv # <<>>
          /\ \/ \E right \in BOOLEAN : Hello(c) \/ Connect(c, right) \/ Disconnect(c)
             \/ DisconnectResponse(c) \/ Answered(c, conn[c]) \/ PingResponse(c)
             \/ DeviceInfo(c) \/ Refused(c) \/ Handled(c, conn[c])
             \/ ListEntities(c) \/ SubscribeStates(c) \/ SubscribeLogs(c)
             \/ \E v \in {"on", "off"} : SwitchCommand(c, v)
  BY DEF ParseOne
<1>2. c \in Conn /\ c \in clients /\ IsConnection(conn[c]) /\ conn \in [Conn -> Members]
      /\ peer[c] \in PeerRecord /\ value \in [Entity -> {"on", "off"}]
  BY DEF IInv, TypeOK, SubInv
<1>3. UNCHANGED <<life, clients>>
  BY DEF ParseOne
<1>4. CASE \E v \in {"on", "off"} : SwitchCommand(c, v)
  <2>1. PICK v \in {"on", "off"}, e \in Switches :
            /\ value' = [value EXCEPT ![e] = v]
            /\ IF value[e] = v THEN UNCHANGED peer ELSE publish_state(e, v)
            /\ conn' = [conn EXCEPT ![c] = Popped(conn[c])]
    BY <1>4 DEF SwitchCommand
  <2>2. e \in Entity
    BY ApiAssumption
  <2>3. Like(conn[c], Popped(conn[c]))
    BY <1>2, LikeIt
  <2>4. CASE value[e] = v
    <3>1. value' = value
      BY <1>2, <2>1, <2>2, <2>4
    <3>2. QED
      BY <1>2, <1>3, <2>1, <2>3, <2>4, <3>1, OneUntold
  <2>5. CASE value[e] # v
    <3>1. \A d \in Conn : Like(conn[d], conn'[d])
      BY <1>2, <2>1, <2>3 DEF Like
    <3>2. QED
      BY <1>3, <2>1, <2>2, <2>5, <3>1, Published
  <2>6. QED
    BY <2>4, <2>5
<1>5. CASE ListEntities(c)
  <2> DEFINE m == [conn[c] EXCEPT !.list = Started]
             p == [peer[c] EXCEPT !.listed = <<>>, !.told = FALSE]
  <2>1. conn' = [conn EXCEPT ![c] = Popped(m)] /\ value' = value
    BY <1>5 DEF ListEntities
  <2>2. peer' = [peer EXCEPT ![c] = p]
    BY <1>5 DEF ListEntities, SubInv
  <2>3. p \in PeerRecord /\ p.known = peer[c].known
    <3>1. <<>> \in Seq(Entity)
      OBVIOUS
    <3>2. QED
      BY <1>2, <3>1 DEF PeerRecord
  <2>4. IsConnection(m) /\ Like(conn[c], m)
    BY <1>2, Changed, LikeIt
  <2>5. Like(conn[c], Popped(m))
    BY <2>4, LikeIt DEF Like
  <2>6. QED
    BY <1>2, <1>3, <2>1, <2>2, <2>3, <2>5, OneUntold
<1>6. CASE SubscribeStates(c)
  BY <1>1, <1>2, <1>3, <1>6, SubscribeSub
<1>7. ASSUME NEW m, IsConnection(m), Like(conn[c], m),
             Answered(c, m) \/ Handled(c, m) \/ (Fatal(c, m) /\ UNCHANGED value)
      PROVE  SubInv'
  BY <1>2, <1>3, <1>7, MessageSub
<1> DEFINE m0 == conn[c]
           ms == {m0, [m0 EXCEPT !.state = "CONNECTED"], [m0 EXCEPT !.state = "AUTHENTICATED"],
                  [m0 EXCEPT !.nextClose = TRUE], [m0 EXCEPT !.sentPing = FALSE],
                  [m0 EXCEPT !.logs = TRUE]}
<1>8. \A m \in ms : IsConnection(m) /\ Like(conn[c], m)
  <2>1. /\ IsConnection([m0 EXCEPT !.nextClose = TRUE]) /\ IsConnection([m0 EXCEPT !.sentPing = FALSE])
        /\ IsConnection([m0 EXCEPT !.logs = TRUE])
        /\ IsConnection([m0 EXCEPT !.state = "CONNECTED"])
        /\ IsConnection([m0 EXCEPT !.state = "AUTHENTICATED"])
    BY <1>2, Changed
  <2>2. /\ Like(m0, [m0 EXCEPT !.nextClose = TRUE]) /\ Like(m0, [m0 EXCEPT !.sentPing = FALSE])
        /\ Like(m0, [m0 EXCEPT !.logs = TRUE]) /\ Like(m0, m0)
        /\ Like(m0, [m0 EXCEPT !.state = "CONNECTED"])
        /\ Like(m0, [m0 EXCEPT !.state = "AUTHENTICATED"])
    BY <1>2, LikeIt
  <2> HIDE DEF m0
  <2>3. \A m \in ms : IsConnection(m) /\ Like(m0, m)
    BY <1>2, <2>1, <2>2 DEF m0
  <2>4. QED
    BY <2>3 DEF m0
<1>9. CASE ~(SubscribeStates(c) \/ ListEntities(c) \/ \E v \in {"on", "off"} : SwitchCommand(c, v))
  <2>1. \E m \in ms : Answered(c, m) \/ Handled(c, m) \/ (Fatal(c, m) /\ UNCHANGED value)
    BY <1>1, <1>9 DEF Hello, Connect, Disconnect, DisconnectResponse, PingResponse, DeviceInfo,
                      Refused, SubscribeLogs
  <2>2. QED
    BY <1>7, <1>8, <2>1
<1>10. QED
  BY <1>4, <1>5, <1>6, <1>9

\* The iterators point at entities.
LEMMA ItemType ==
    ASSUME NEW it, IsIterator(it), AtItem(it)
    PROVE  Item(it) \in Entity
<1>1. it.state \in BEGIN + 1 .. MAX - 1 /\ it.at < Len(Items(it)) /\ it.at \in Nat
  BY DEF AtItem, IsIterator
<1>2. Items(it) \in Seq(Entity)
  BY <1>1, InPlatform
<1>3. it.at + 1 \in 1 .. Len(Items(it))
  BY <1>1, <1>2
<1>4. QED
  BY <1>2, <1>3 DEF Item

\* The iterator passes an entity that is not internal when it was sent, and at no other time.
LEMMA PassedWhenSent ==
    ASSUME NEW it, IsIterator(it), NEW sent \in BOOLEAN, NEW e \in Public,
           Before(it, e), ~Before(advance(it, sent), e)
    PROVE  Sends(it) /\ Item(it) = e /\ sent
<1> USE DEF NONE, BEGIN, MAX
<1>0. PICK p \in DOMAIN Platforms : \E i \in DOMAIN Platforms[p] :
          Platforms[p][i] = e /\ (it.state < p + 1 \/ (it.state = p + 1 /\ it.at < i))
  BY DEF Before
<1>1. PICK i \in DOMAIN Platforms[p] :
          Platforms[p][i] = e /\ (it.state < p + 1 \/ (it.state = p + 1 /\ it.at < i))
  BY <1>0
<1>2. /\ it.state \in 0 .. Len(Platforms) + 2 /\ it.state # 0 /\ it.at \in Nat
      /\ p \in 1 .. Len(Platforms) /\ Len(Platforms) \in Nat
      /\ i \in Nat /\ i >= 1 /\ i <= Len(Platforms[p]) /\ Len(Platforms[p]) \in Nat
  BY <1>1, Limits DEF IsIterator, Before
<1>3. it.state < MAX
  BY <1>1, <1>2
<1>4. CASE ~AtItem(it)
  <2>1. advance(it, sent) = [state |-> it.state + 1, at |-> 0]
    BY <1>2, <1>3, <1>4 DEF advance
  <2>2. it.state < p + 1
    <3>1. SUFFICES ASSUME it.state = p + 1, it.at < i PROVE FALSE
      BY <1>1
    <3>2. Items(it) = Platforms[p] /\ it.state \in BEGIN + 1 .. MAX - 1
      BY <1>2, <3>1 DEF Items
    <3>3. QED
      BY <1>2, <1>4, <3>1, <3>2 DEF AtItem
  <2>3. it.state + 1 < p + 1 \/ (it.state + 1 = p + 1 /\ 0 < i)
    BY <1>2, <2>2
  <2>4. it.state + 1 # NONE
    BY <1>2
  <2>5. Before([state |-> it.state + 1, at |-> 0], e)
    BY <1>1, <2>3, <2>4 DEF Before
  <2>6. QED
    BY <2>1, <2>5
<1>5. CASE AtItem(it)
  <2>1. advance(it, sent) = IF Sends(it) => sent THEN [it EXCEPT !.at = @ + 1] ELSE it
    BY <1>2, <1>3, <1>5 DEF advance
  <2>2. (Sends(it) => sent) /\ ~Before([it EXCEPT !.at = @ + 1], e)
    BY <2>1
  <2>3. [it EXCEPT !.at = @ + 1].state = it.state /\ [it EXCEPT !.at = @ + 1].at = it.at + 1
    BY DEF IsIterator
  <2>4. it.state = p + 1 /\ it.at + 1 = i
    <3>1. ~(it.state < p + 1 \/ (it.state = p + 1 /\ it.at + 1 < i))
      BY <1>1, <1>2, <2>2, <2>3 DEF Before
    <3>2. QED
      BY <1>1, <1>2, <3>1
  <2>5. Item(it) = e
    <3>1. it.state - 1 = p
      BY <1>2, <2>4
    <3>2. QED
      BY <1>1, <2>4, <3>1 DEF Item, Items
  <2>6. QED
    BY <1>5, <2>2, <2>5 DEF Sends, Public
<1>6. QED
  BY <1>4, <1>5

\* A round of the iterators sends the state of what it passes, or does not pass it.
LEMMA AdvanceSub == ASSUME IInv, SubInv, Advance PROVE SubInv'
<1>1. PICK c \in cur : \E s1, s2, s3 \in Room(conn[c]) :
          /\ conn' = [conn EXCEPT ![c] = Round(c, s1, s2, s3).m]
          /\ peer' = [peer EXCEPT ![c] = Round(c, s1, s2, s3).p]
  BY DEF Advance
<1>2. Room(conn[c]) \subseteq BOOLEAN
  BY DEF Room
<1>3. PICK s1 \in BOOLEAN, s2 \in BOOLEAN, s3 \in BOOLEAN :
          /\ conn' = [conn EXCEPT ![c] = Round(c, s1, s2, s3).m]
          /\ peer' = [peer EXCEPT ![c] = Round(c, s1, s2, s3).p]
  BY <1>1, <1>2
<1> DEFINE m == [conn[c] EXCEPT !.list = advance(@, s1), !.initial = InitialNext(c, s2)]
           p1 == ListStep(c, peer[c], s1)
           p == InitialStep(c, p1, s2)
           it == conn[c].initial
           sent == s2 \/ it.state = MAX \/ (AtItem(it) /\ Item(it) \in Services)
           r == Round(c, s1, s2, s3)
<1>4. /\ c \in Conn /\ c \in clients /\ IsConnection(conn[c]) /\ conn[c] \in Members
      /\ conn \in [Conn -> Members] /\ peer[c] \in PeerRecord
      /\ peer \in [Conn -> PeerRecord] /\ value \in [Entity -> {"on", "off"}]
      /\ UNCHANGED <<value, life, clients>> /\ clients \subseteq Conn
  BY DEF IInv, TypeOK, SubInv, Advance, IsConnection
<1>5. IsIterator(conn[c].list) /\ IsIterator(it) /\ sent \in BOOLEAN
  BY <1>4 DEF IsConnection
<1>6. m.subscribed = conn[c].subscribed /\ m.initial = advance(it, sent)
  BY <1>4 DEF Members, InitialNext
<1>7. p1 \in PeerRecord /\ p1.known = peer[c].known
  <2>1. CASE Sends(conn[c].list) /\ s1
    <3>1. Item(conn[c].list) \in Entity
      BY <1>5, <2>1, ItemType DEF Sends
    <3>2. peer[c].listed \in Seq(Entity)
      BY <1>4 DEF PeerRecord
    <3>3. Append(peer[c].listed, Item(conn[c].list)) \in Seq(Entity)
      BY <3>1, <3>2
    <3> DEFINE s == Append(peer[c].listed, Item(conn[c].list))
    <3>4. p1 = [peer[c] EXCEPT !.listed = s]
      BY <2>1 DEF ListStep
    <3> HIDE DEF s, p1
    <3>5. s \in Seq(Entity)
      BY <3>3 DEF s
    <3>6. QED
      BY <1>4, <3>4, <3>5, PeerLike
  <2>2. CASE ~(Sends(conn[c].list) /\ s1)
    <3>1. p1 \in {peer[c], [peer[c] EXCEPT !.told = TRUE]}
      BY <2>2 DEF ListStep
    <3>2. QED
      BY <1>4, <3>1, PeerLike
  <2>3. QED
    BY <2>1, <2>2
<1> DEFINE tells == Sends(it) /\ Item(it) \notin Services /\ s2
<1>8. /\ p \in PeerRecord
      /\ p.known = IF tells THEN [peer[c].known EXCEPT ![Item(it)] = value[Item(it)]]
                    ELSE peer[c].known
  <2>1. CASE tells
    <3> DEFINE k == [p1.known EXCEPT ![Item(it)] = value[Item(it)]]
    <3>1. Item(it) \in Entity
      BY <1>5, <2>1, ItemType DEF Sends
    <3>2. p1.known \in [Entity -> {"on", "off", Unknown, Missed}] /\ value[Item(it)] \in {"on", "off"}
      BY <1>4, <1>7, <3>1 DEF PeerRecord
    <3>3. k \in [Entity -> {"on", "off", Unknown, Missed}]
      BY <3>1, <3>2
    <3>4. p = [p1 EXCEPT !.known = k]
      BY <2>1 DEF InitialStep
    <3> HIDE DEF k, p1, p
    <3>5. p \in PeerRecord /\ p.known = k
      BY <1>7, <3>3, <3>4 DEF PeerRecord
    <3>6. QED
      BY <1>7, <2>1, <3>5 DEF k
  <2>2. CASE ~tells
    <3>1. p = p1
      BY <2>2 DEF InitialStep
    <3>2. QED
      BY <1>7, <2>2, <3>1
  <2>3. QED
    BY <2>1, <2>2
<1>9. /\ r.m \in {Close(m), m, [m EXCEPT !.sentPing = TRUE]}
      /\ r.p \in {Hangup(p), p, [p EXCEPT !.pinged = TRUE], [p EXCEPT !.unasked = TRUE]}
  BY DEF Round, KeepaliveStep
<1>10. r.m.subscribed = conn[c].subscribed /\ r.m.initial = advance(it, sent)
  <2>1. DOMAIN m = DOMAIN conn[c] /\ "subscribed" \in DOMAIN m /\ "initial" \in DOMAIN m
    BY <1>4 DEF Members
  <2> HIDE DEF m
  <2>2. /\ Close(m).subscribed = m.subscribed /\ Close(m).initial = m.initial
        /\ [m EXCEPT !.sentPing = TRUE].subscribed = m.subscribed
        /\ [m EXCEPT !.sentPing = TRUE].initial = m.initial
    BY <2>1 DEF Close
  <2>3. QED
    BY <1>6, <1>9, <2>2
<1>11. r.p \in PeerRecord /\ r.p.known = p.known
  <2> HIDE DEF p, r
  <2>1. QED
    BY <1>8, <1>9, PeerLike
<1> HIDE DEF r, p, m
<1>12. peer' \in [Conn -> PeerRecord] /\ conn'[c] = r.m /\ peer'[c] = r.p
      /\ \A d \in Conn \ {c} : conn'[d] = conn[d] /\ peer'[d] = peer[d]
  BY <1>3, <1>4, <1>11 DEF r
<1>13. \A d \in Conn : life'[d] = "none" => ~conn'[d].subscribed
  BY <1>4, <1>10, <1>12 DEF SubInv
<1>14. SubscriberIsCurrent'
  <2> SUFFICES ASSUME NEW d \in clients, NEW e \in Public \ Services,
                      conn'[d].subscribed, ~Before(conn'[d].initial, e)
               PROVE  peer'[d].known[e] \in {value[e], Missed}
    BY <1>4 DEF SubscriberIsCurrent, Public
  <2>1. CASE d # c
    BY <1>4, <1>12, <2>1 DEF SubInv, SubscriberIsCurrent
  <2>2. CASE d = c
    <3>1. conn[c].subscribed /\ ~Before(advance(it, sent), e)
      BY <1>10, <1>12, <2>2
    <3>2. /\ peer[c].known \in [Entity -> {"on", "off", Unknown, Missed}] /\ e \in Entity
          /\ e \in Public
      BY <1>4 DEF PeerRecord, Public
    <3>3. peer'[c].known = IF tells THEN [peer[c].known EXCEPT ![Item(it)] = value[Item(it)]]
                           ELSE peer[c].known
      BY <1>8, <1>11, <1>12
    <3>4. CASE tells /\ Item(it) = e
      BY <2>2, <3>2, <3>3, <3>4
    <3>5. CASE ~(tells /\ Item(it) = e)
      <4>1. ~Before(it, e)
        <5>1. SUFFICES ASSUME Before(it, e) PROVE FALSE
          OBVIOUS
        <5>2. Sends(it) /\ Item(it) = e /\ sent
          BY <1>5, <3>1, <3>2, <5>1, PassedWhenSent
        <5>3. it.state # MAX /\ Item(it) \notin Services
          BY <5>2, Limits DEF Sends, AtItem, MAX, BEGIN
        <5>4. QED
          BY <3>5, <5>2, <5>3
      <4>2. peer[c].known[e] \in {value[e], Missed}
        BY <1>4, <3>1, <4>1 DEF SubInv, SubscriberIsCurrent
      <4>3. peer'[c].known[e] = peer[c].known[e]
        BY <3>2, <3>3, <3>5
      <4>4. QED
        BY <2>2, <4>2, <4>3
    <3>6. QED
      BY <3>4, <3>5
  <2>3. QED
    BY <2>1, <2>2
<1>15. QED
  BY <1>12, <1>13, <1>14 DEF SubInv

LEMMA SubStep == IInv /\ SubInv /\ [Next]_vars => SubInv'
<1> SUFFICES ASSUME IInv, SubInv, [Next]_vars PROVE SubInv'
  OBVIOUS
<1>1. CASE Loop
  BY <1>1, LoopSub, DeleteSub, ServeSub, ParseOneSub, AdvanceSub, FreshSub DEF Loop, Reboot
<1>2. CASE Tick \/ NetChanges \/ Update
  BY <1>2, TickSub, LoopSub, UpdateSub
<1>3. CASE Shutdown
  BY <1>3, FreshSub DEF Shutdown
<1>4. ASSUME NEW c \in Conn,
             Accept(c) \/ Says(c) \/ Pong(c) \/ PeerCloses(c) \/ PeerVanishes(c) \/ on_timeout(c)
      PROVE  SubInv'
  BY <1>4, PeerSub
<1>5. CASE UNCHANGED vars
  BY <1>5 DEF vars, SubInv, SubscriberIsCurrent
<1>6. QED
  BY <1>1, <1>2, <1>3, <1>4, <1>5 DEF Next

LEMMA SubInit == Init => SubInv
<1> SUFFICES ASSUME Init PROVE SubInv
  OBVIOUS
<1>1. conn = [c \in Conn |-> NewConn] /\ peer = [c \in Conn |-> NoPeer] /\ clients = {}
  BY DEF Init
<1>2. ~NewConn.subscribed
  BY DEF NewConn
<1>3. QED
  BY <1>1, <1>2, NobodyIsPeer DEF SubInv, SubscriberIsCurrent

\* Every subscriber knows the present state of every entity that its initial iteration has
\* passed, but for a message that found no room, whenever the states change and whoever
\* changes them (subscribe_state.cpp, api_server.cpp:160-182).
THEOREM SubscribersAreCurrent == Spec => []SubscriberIsCurrent
<1>1. SubInv => SubscriberIsCurrent
  BY DEF SubInv
<1>2. QED
  BY <1>1, InitInv, StepInv, SubInit, SubStep, PTL DEF Spec
-----------------------------------------------------------------------------
(***************************************************************************)
(* What clients are told of the entities.  While the list is under way the *)
(* client has what the iterator has passed, in order, and it is told the   *)
(* end only when that is everything; no other step touches either.         *)
(***************************************************************************)
\* The public places an iterator has passed.
Passed(it) ==
    {q \in PublicPlaces : q[1] + 1 < it.state \/ (q[1] + 1 = it.state /\ q[2] <= it.at)}

\* A connection and its client between the request of the list and its end.
Delivers(m, p) ==
    /\ m.list.state # NONE => ~p.told /\ InOrder(p.listed, Passed(m.list))
    /\ p.told => InOrder(p.listed, PublicPlaces)

ListInv == \A c \in Conn : Delivers(conn[c], peer[c])

\* As to the list, they are as they were.
Unlisted(m, n, p, q) == n.list = m.list /\ q.listed = p.listed /\ q.told = p.told

LEMMA StillDelivers ==
    ASSUME NEW m, NEW n, NEW p, NEW q, Delivers(m, p), Unlisted(m, n, p, q)
    PROVE  Delivers(n, q)
BY DEF Delivers, Unlisted

\* Of a connection's members.
LEMMA ListLike ==
    ASSUME NEW m, IsConnection(m)
    PROVE  /\ Close(m).list = m.list /\ Popped(m).list = m.list
           /\ \A b \in BOOLEAN : /\ [m EXCEPT !.nextClose = b].list = m.list
                                /\ [m EXCEPT !.sentPing = b].list = m.list
                                /\ [m EXCEPT !.logs = b].list = m.list
           /\ \A s \in {"CONNECTED", "AUTHENTICATED"} : [m EXCEPT !.state = s].list = m.list
           /\ \A it : [m EXCEPT !.subscribed = TRUE, !.initial = it].list = m.list
           /\ \A q : [m EXCEPT !.recv = q].list = m.list
           /\ \A n : [m EXCEPT !.traffic = n].list = m.list
BY DEF IsConnection, Members, Close, Popped

\* Of its peer.
LEMMA ListedLike ==
    ASSUME NEW p \in PeerRecord
    PROVE  /\ \A b \in BOOLEAN :
                 /\ [p EXCEPT !.alive = b].listed = p.listed /\ [p EXCEPT !.alive = b].told = p.told
                 /\ [p EXCEPT !.tcp = b].listed = p.listed /\ [p EXCEPT !.tcp = b].told = p.told
                 /\ [p EXCEPT !.pinged = b].listed = p.listed /\ [p EXCEPT !.pinged = b].told = p.told
                 /\ [p EXCEPT !.unasked = b].listed = p.listed /\ [p EXCEPT !.unasked = b].told = p.told
           /\ \A k : [p EXCEPT !.known = k].listed = p.listed /\ [p EXCEPT !.known = k].told = p.told
           /\ Hangup(p).listed = p.listed /\ Hangup(p).told = p.told
BY DEF PeerRecord, Hangup

\* A step of one connection and its peer.
LEMMA OneDelivers ==
    ASSUME IInv, SubInv, ListInv, NEW c \in Conn, NEW m, NEW p,
           conn' = [conn EXCEPT ![c] = m] \/ (conn' = conn /\ m = conn[c]),
           peer' = [peer EXCEPT ![c] = p] \/ (peer' = peer /\ p = peer[c]),
           Delivers(m, p)
    PROVE  ListInv'
<1>1. conn \in [Conn -> Members] /\ peer \in [Conn -> PeerRecord]
  BY DEF IInv, SubInv, TypeOK
<1>2. conn'[c] = m /\ peer'[c] = p
      /\ \A d \in Conn \ {c} : conn'[d] = conn[d] /\ peer'[d] = peer[d]
  BY <1>1
<1>3. \A d \in Conn : Delivers(conn'[d], peer'[d])
  BY <1>2 DEF ListInv
<1>4. QED
  BY <1>3 DEF ListInv

\* Steps that leave every list alone.
LEMMA NothingListed ==
    ASSUME ListInv, \A d \in Conn : Unlisted(conn[d], conn'[d], peer[d], peer'[d])
    PROVE  ListInv'
<1>1. \A d \in Conn : Delivers(conn'[d], peer'[d])
  BY StillDelivers DEF ListInv
<1>2. QED
  BY <1>1 DEF ListInv

\* Nothing was asked of a new connection.
LEMMA NewDelivers ==
    ASSUME NEW r
    PROVE  Delivers(NewConn, NoPeer) /\ Delivers([NewConn EXCEPT !.remove = r], NoPeer)
BY DEF Delivers, NewConn, NoPeer, NONE

-----------------------------------------------------------------------------
\* The sequences in order: the empty one, and one place more.
LEMMA NoneInOrder == InOrder(<<>>, {})
<1> DEFINE at == [i \in {} |-> i]
<1>1. DOMAIN << >> = {} /\ at \in [{} -> {}]
  OBVIOUS
<1>2. QED
  BY <1>1 DEF InOrder

LEMMA AppendInOrder ==
    ASSUME NEW s \in Seq(Entity), NEW Q, InOrder(s, Q), NEW q, q \notin Q,
           \A r \in Q : Precedes(r, q)
    PROVE  InOrder(Append(s, EntityAt(q)), Q \cup {q})
<1>1. PICK at \in [DOMAIN s -> Q] :
         /\ \A r \in Q : \E i \in DOMAIN s : at[i] = r
         /\ \A i, j \in DOMAIN s : i < j => Precedes(at[i], at[j])
         /\ \A i \in DOMAIN s : s[i] = EntityAt(at[i])
  BY DEF InOrder
<1> DEFINE n == Len(s) + 1
           t == Append(s, EntityAt(q))
           to == [i \in 1 .. n |-> IF i = n THEN q ELSE at[i]]
<1>2. Len(s) \in Nat /\ DOMAIN s = 1 .. Len(s) /\ DOMAIN t = 1 .. n
  OBVIOUS
<1>3. t[n] = EntityAt(q) /\ \A i \in DOMAIN s : t[i] = s[i]
  OBVIOUS
<1> HIDE DEF t
<1>4. \A i \in 1 .. n : i = n \/ i \in DOMAIN s
  BY <1>2
<1>5. to \in [DOMAIN t -> Q \cup {q}]
  BY <1>1, <1>2, <1>4
<1>6. \A r \in Q \cup {q} : \E i \in DOMAIN t : to[i] = r
  <2>1. ASSUME NEW r \in Q PROVE \E i \in DOMAIN t : to[i] = r
    <3>1. PICK i \in DOMAIN s : at[i] = r
      BY <1>1, <2>1
    <3>2. i \in 1 .. n /\ i # n
      BY <1>2
    <3>3. QED
      BY <1>2, <3>1, <3>2
  <2>2. n \in 1 .. n
    BY <1>2
  <2>3. to[n] = q
    BY <2>2
  <2>4. QED
    BY <1>2, <2>1, <2>2, <2>3
<1>7. ASSUME NEW i \in DOMAIN t, NEW j \in DOMAIN t, i < j PROVE Precedes(to[i], to[j])
  <2>1. i \in DOMAIN s /\ i # n /\ i \in 1 .. n /\ j \in 1 .. n
    BY <1>2, <1>7
  <2>2. to[i] = at[i] /\ at[i] \in Q
    BY <1>1, <2>1
  <2>3. CASE j = n
    BY <2>1, <2>2, <2>3
  <2>4. CASE j # n
    BY <1>1, <1>4, <1>7, <2>1, <2>2, <2>4
  <2>5. QED
    BY <2>3, <2>4
<1>8. \A i \in DOMAIN t : t[i] = EntityAt(to[i])
  BY <1>1, <1>2, <1>3, <1>4
<1> HIDE DEF to
<1>9. QED
  BY <1>5, <1>6, <1>7, <1>8 DEF InOrder, t

-----------------------------------------------------------------------------
\* Places are pairs of numbers.
LEMMA PlaceType ==
    ASSUME NEW q \in PublicPlaces
    PROVE  /\ q[1] \in 1 .. Len(Platforms) /\ q[2] \in 1 .. Len(Platforms[q[1]])
           /\ q[1] \in Nat /\ q[2] \in Nat /\ Len(Platforms[q[1]]) \in Nat
           /\ q = <<q[1], q[2]>> /\ EntityAt(q) \notin Internal
<1>1. PICK p \in DOMAIN Platforms : q \in {p} \X DOMAIN Platforms[p]
  BY DEF PublicPlaces, Places
<1>2. p \in 1 .. Len(Platforms) /\ Len(Platforms) \in Nat /\ Len(Platforms[p]) \in Nat
      /\ DOMAIN Platforms[p] = 1 .. Len(Platforms[p])
  BY Limits
<1>3. q[1] = p /\ q[2] \in DOMAIN Platforms[p] /\ q = <<q[1], q[2]>>
  BY <1>1
<1>4. QED
  BY <1>2, <1>3 DEF PublicPlaces

\* At the start none was passed, at the end all were.
LEMMA PassedAtEnds ==
    /\ Passed(Started) = {}
    /\ \A it : it.state = MAX => Passed(it) = PublicPlaces
<1>1. Passed(Started) = {}
  <2>1. ASSUME NEW q \in PublicPlaces PROVE ~(q[1] + 1 < 1 \/ (q[1] + 1 = 1 /\ q[2] <= 0))
    BY PlaceType
  <2>2. Started.state = 1 /\ Started.at = 0
    BY DEF Started, BEGIN
  <2>3. QED
    BY <2>1, <2>2 DEF Passed
<1>2. ASSUME NEW it, it.state = MAX PROVE Passed(it) = PublicPlaces
  <2>1. ASSUME NEW q \in PublicPlaces PROVE q[1] + 1 < Len(Platforms) + 2
    BY PlaceType, Limits
  <2>2. QED
    BY <1>2, <2>1 DEF Passed, MAX
<1>3. QED
  BY <1>1, <1>2

\* What an iterator sends comes after all it has passed, and it has passed it then.
LEMMA PassesSent ==
    ASSUME NEW it, IsIterator(it), Sends(it)
    PROVE  LET q == <<it.state - 1, it.at + 1>>
           IN  /\ q \notin Passed(it) /\ EntityAt(q) = Item(it)
               /\ \A r \in Passed(it) : Precedes(r, q)
               /\ Passed(advance(it, TRUE)) = Passed(it) \cup {q}
               /\ advance(it, TRUE).state # NONE
<1> USE DEF NONE, BEGIN, MAX
<1> DEFINE p == it.state - 1
           q == <<p, it.at + 1>>
<1>1. /\ it.state \in BEGIN + 1 .. MAX - 1 /\ it.at < Len(Items(it)) /\ it.at \in Nat
      /\ it.state \in Nat /\ p \in Nat /\ p + 1 = it.state
  BY Limits DEF Sends, AtItem, IsIterator
<1>2. p \in DOMAIN Platforms /\ Items(it) = Platforms[p]
  BY <1>1, Limits DEF Items
<1>3. it.at + 1 \in DOMAIN Platforms[p]
  BY <1>1, <1>2, Limits
<1>4. EntityAt(q) = Item(it)
  BY <1>2 DEF EntityAt, Item
<1>5. q \in PublicPlaces
  BY <1>2, <1>3, <1>4 DEF PublicPlaces, Places, Sends
<1> DEFINE to == [it EXCEPT !.at = @ + 1]
<1>6. it.state # NONE /\ it.state # MAX /\ AtItem(it)
  BY <1>1, Limits DEF Sends
<1>7. advance(it, TRUE) = to
  BY <1>6 DEF advance
<1>8. to.state = it.state /\ to.at = it.at + 1
  BY DEF IsIterator
<1>9. q[1] = p /\ q[2] = it.at + 1
  OBVIOUS
<1>10. q \notin Passed(it)
  BY <1>1, <1>9 DEF Passed
<1>11. ASSUME NEW r \in Passed(it) PROVE Precedes(r, q)
  <2>1. r \in PublicPlaces /\ r[1] \in Nat /\ r[2] \in Nat
    BY PlaceType DEF Passed
  <2>2. r[1] + 1 < it.state \/ (r[1] + 1 = it.state /\ r[2] <= it.at)
    BY DEF Passed
  <2>3. r[1] < p \/ (r[1] = p /\ r[2] < it.at + 1)
    BY <1>1, <2>1, <2>2
  <2>4. QED
    BY <1>9, <2>3 DEF Precedes
<1>12. Passed(to) = Passed(it) \cup {q}
  <2>1. ASSUME NEW r \in PublicPlaces PROVE r \in Passed(to) <=> r \in Passed(it) \/ r = q
    <3>1. r[1] \in Nat /\ r[2] \in Nat /\ r = <<r[1], r[2]>>
      BY PlaceType
    <3>2. r = q <=> r[1] = p /\ r[2] = it.at + 1
      BY <1>9, <3>1
    <3>3. r \in Passed(it) <=> r[1] + 1 < it.state \/ (r[1] + 1 = it.state /\ r[2] <= it.at)
      BY DEF Passed
    <3>4. r \in Passed(to) <=> r[1] + 1 < it.state \/ (r[1] + 1 = it.state /\ r[2] <= it.at + 1)
      BY <1>8 DEF Passed
    <3> HIDE DEF q, to
    <3>5. QED
      BY <1>1, <3>1, <3>2, <3>3, <3>4
  <2>2. Passed(to) \subseteq PublicPlaces /\ Passed(it) \subseteq PublicPlaces
    BY DEF Passed
  <2> HIDE DEF q, to
  <2>3. QED
    BY <1>5, <2>1, <2>2
<1>13. QED
  BY <1>4, <1>6, <1>7, <1>8, <1>10, <1>11, <1>12

\* Without sending it passes nothing public.
LEMMA PassesNothing ==
    ASSUME NEW it, IsIterator(it), NEW sent \in BOOLEAN,
           it.state # NONE, it.state # MAX, ~(Sends(it) /\ sent)
    PROVE  Passed(advance(it, sent)) = Passed(it) /\ advance(it, sent).state # NONE
<1> USE DEF NONE, BEGIN, MAX
<1>1. it.state \in Nat /\ it.at \in Nat /\ it.state \in 1 .. Len(Platforms) + 1
  BY Limits DEF IsIterator
<1>2. CASE AtItem(it)
  <2> DEFINE to == [it EXCEPT !.at = @ + 1]
  <2>1. advance(it, sent) = IF Sends(it) => sent THEN to ELSE it
    BY <1>2 DEF advance
  <2>2. CASE Sends(it)
    BY <1>1, <2>1, <2>2
  <2>3. CASE ~Sends(it)
    <3>1. to.state = it.state /\ to.at = it.at + 1
      BY DEF IsIterator
    <3>2. Item(it) \in Internal
      BY <1>2, <2>3 DEF Sends
    <3>3. ASSUME NEW r \in PublicPlaces PROVE r \in Passed(to) <=> r \in Passed(it)
      <4>1. r[1] \in Nat /\ r[2] \in Nat /\ EntityAt(r) \notin Internal
        BY PlaceType
      <4>2. ~(r[1] + 1 = it.state /\ r[2] = it.at + 1)
        <5>1. SUFFICES ASSUME r[1] + 1 = it.state, r[2] = it.at + 1 PROVE FALSE
          OBVIOUS
        <5>2. r[1] = it.state - 1
          BY <1>1, <4>1, <5>1
        <5>3. EntityAt(r) = Item(it)
          BY <5>1, <5>2 DEF EntityAt, Item, Items
        <5>4. QED
          BY <3>2, <4>1, <5>3
      <4>3. r \in Passed(it) <=> r[1] + 1 < it.state \/ (r[1] + 1 = it.state /\ r[2] <= it.at)
        BY DEF Passed
      <4>4. r \in Passed(to) <=> r[1] + 1 < it.state \/ (r[1] + 1 = it.state /\ r[2] <= it.at + 1)
        BY <3>1 DEF Passed
      <4> HIDE DEF to
      <4>5. QED
        BY <1>1, <4>1, <4>2, <4>3, <4>4
    <3>4. Passed(to) \subseteq PublicPlaces /\ Passed(it) \subseteq PublicPlaces
      BY DEF Passed
    <3> HIDE DEF to
    <3>5. QED
      BY <1>1, <2>1, <2>3, <3>1, <3>3, <3>4
  <2>4. QED
    BY <2>2, <2>3
<1>3. CASE ~AtItem(it)
  <2> DEFINE to == [state |-> it.state + 1, at |-> 0]
  <2>1. advance(it, sent) = to
    BY <1>3 DEF advance
  <2>2. to.state = it.state + 1 /\ to.at = 0 /\ to.state # NONE
    BY <1>1
  <2>3. ASSUME NEW r \in PublicPlaces PROVE r \in Passed(to) <=> r \in Passed(it)
    <3>1. r[1] \in Nat /\ r[2] \in Nat /\ r[1] >= 1 /\ r[2] >= 1 /\ r[2] <= Len(Platforms[r[1]])
          /\ Len(Platforms[r[1]]) \in Nat
      BY PlaceType
    <3>2. r[1] + 1 = it.state => r[2] <= it.at
      <4>1. SUFFICES ASSUME r[1] + 1 = it.state PROVE r[2] <= it.at
        OBVIOUS
      <4>2. r[1] = it.state - 1 /\ it.state \in BEGIN + 1 .. MAX - 1
        BY <1>1, <3>1, <4>1, Limits
      <4>3. Items(it) = Platforms[r[1]]
        BY <4>2 DEF Items
      <4>4. it.at >= Len(Items(it))
        BY <1>1, <1>3, <3>1, <4>2, <4>3 DEF AtItem
      <4>5. QED
        BY <1>1, <3>1, <4>3, <4>4
    <3>3. r \in Passed(it) <=> r[1] + 1 < it.state \/ (r[1] + 1 = it.state /\ r[2] <= it.at)
      BY DEF Passed
    <3>4. r \in Passed(to) <=> r[1] + 1 < it.state + 1 \/ (r[1] + 1 = it.state + 1 /\ r[2] <= 0)
      BY <2>2 DEF Passed
    <3> HIDE DEF to
    <3>5. QED
      BY <1>1, <3>1, <3>2, <3>3, <3>4
  <2>4. Passed(to) \subseteq PublicPlaces /\ Passed(it) \subseteq PublicPlaces
    BY DEF Passed
  <2> HIDE DEF to
  <2>5. QED
    BY <2>1, <2>2, <2>3, <2>4
<1>4. QED
  BY <1>2, <1>3

-----------------------------------------------------------------------------
\* Steps that touch no connection.
LEMMA IdleList ==
    ASSUME ListInv, UNCHANGED <<conn, peer>> PROVE ListInv'
BY NothingListed DEF Unlisted

LEMMA DeleteList == ASSUME IInv, SubInv, ListInv, Delete PROVE ListInv'
<1>1. PICK c \in doomed :
          /\ conn' = [conn EXCEPT ![c] = [NewConn EXCEPT !.remove = conn[c].remove]]
          /\ peer' = [peer EXCEPT ![c] = NoPeer]
  BY DEF Delete
<1>2. c \in Conn
  BY DEF IInv, TypeOK
<1>3. QED
  BY <1>1, <1>2, NewDelivers, OneDelivers

LEMMA FreshList == ASSUME Fresh PROVE ListInv'
<1>1. conn' = [c \in Conn |-> NewConn] /\ peer' = [c \in Conn |-> NoPeer]
  BY DEF Fresh
<1>2. \A c \in Conn : Delivers(conn'[c], peer'[c])
  BY <1>1, NewDelivers
<1>3. QED
  BY <1>2 DEF ListInv

LEMMA ServeList == ASSUME IInv, SubInv, ListInv, Serve PROVE ListInv'
<1>1. PICK c \in todo :
          /\ conn' = [conn EXCEPT ![c] = Close(conn[c])] \/ conn' = conn
          /\ peer' = [peer EXCEPT ![c] = Hangup(peer[c])] \/ peer' = peer
  BY DEF Serve, Fatal
<1>2. c \in Conn /\ IsConnection(conn[c]) /\ peer[c] \in PeerRecord
  BY DEF IInv, TypeOK, SubInv
<1>3. PICK m \in {conn[c], Close(conn[c])}, p \in {peer[c], Hangup(peer[c])} :
          /\ conn' = [conn EXCEPT ![c] = m] \/ (conn' = conn /\ m = conn[c])
          /\ peer' = [peer EXCEPT ![c] = p] \/ (peer' = peer /\ p = peer[c])
  BY <1>1
<1>4. Unlisted(conn[c], m, peer[c], p)
  BY <1>2, <1>3, ListLike, ListedLike DEF Unlisted
<1>5. Delivers(m, p)
  BY <1>2, <1>4, StillDelivers DEF ListInv
<1>6. QED
  BY <1>2, <1>3, <1>5, OneDelivers

\* lwIP's task and the clients.
LEMMA PeerList ==
    ASSUME IInv, SubInv, ListInv, NEW c \in Conn,
           Accept(c) \/ Says(c) \/ Pong(c) \/ PeerCloses(c) \/ PeerVanishes(c) \/ on_timeout(c)
    PROVE  ListInv'
<1>1. IsConnection(conn[c]) /\ peer[c] \in PeerRecord
  BY DEF IInv, TypeOK, SubInv
<1> DEFINE m0 == conn[c]
           p0 == peer[c]
           Moves(m, p) == /\ conn' = [conn EXCEPT ![c] = m] \/ (conn' = conn /\ m = m0)
                          /\ peer' = [peer EXCEPT ![c] = p] \/ (peer' = peer /\ p = p0)
<1>2. ASSUME NEW m, NEW p, Moves(m, p), Unlisted(m0, m, p0, p) PROVE ListInv'
  <2>1. Delivers(m, p)
    BY <1>2, StillDelivers DEF ListInv
  <2>2. QED
    BY <1>2, <2>1, OneDelivers
<1> HIDE DEF Moves
<1>3. CASE Accept(c)
  BY <1>3, IdleList DEF Accept
<1>4. CASE Says(c)
  <2>1. PICK w \in vocab[c] : conn' = [conn EXCEPT ![c].recv = Append(@, w)] /\ peer' = peer
    BY <1>4 DEF Says
  <2> DEFINE m == [m0 EXCEPT !.recv = Append(m0.recv, w)]
  <2>2. Moves(m, p0)
    BY <2>1 DEF Moves
  <2>3. Unlisted(m0, m, p0, p0)
    BY <1>1, ListLike DEF Unlisted
  <2>4. QED
    BY <1>2, <2>2, <2>3
<1>5. CASE Pong(c)
  <2> DEFINE m == [m0 EXCEPT !.recv = Append(m0.recv, "pong")]
             p == [p0 EXCEPT !.pinged = FALSE]
  <2>1. Moves(m, p)
    BY <1>5 DEF Pong, Moves
  <2>2. Unlisted(m0, m, p0, p)
    BY <1>1, ListLike, ListedLike DEF Unlisted
  <2>3. QED
    BY <1>2, <2>1, <2>2
<1>6. CASE PeerCloses(c)
  <2> DEFINE p == [p0 EXCEPT !.tcp = FALSE]
  <2>1. Moves(m0, p) \/ Moves(Close(m0), p)
    BY <1>6 DEF PeerCloses, Moves, Close
  <2>2. Unlisted(m0, m0, p0, p) /\ Unlisted(m0, Close(m0), p0, p)
    BY <1>1, ListLike, ListedLike DEF Unlisted
  <2>3. QED
    BY <1>2, <2>1, <2>2
<1>7. CASE PeerVanishes(c)
  <2> DEFINE p == [p0 EXCEPT !.alive = FALSE]
  <2>1. Moves(m0, p)
    BY <1>7 DEF PeerVanishes, Moves
  <2>2. Unlisted(m0, m0, p0, p)
    BY <1>1, ListedLike DEF Unlisted
  <2>3. QED
    BY <1>2, <2>1, <2>2
<1>8. CASE on_timeout(c)
  <2>1. Moves(Close(m0), Hangup(p0))
    BY <1>8 DEF on_timeout, Fatal, Moves
  <2>2. Unlisted(m0, Close(m0), p0, Hangup(p0))
    BY <1>1, ListLike, ListedLike DEF Unlisted
  <2>3. QED
    BY <1>2, <2>1, <2>2
<1>9. QED
  BY <1>3, <1>4, <1>5, <1>6, <1>7, <1>8

LEMMA TickList == ASSUME IInv, ListInv, Tick PROVE ListInv'
<1>1. peer' = peer
  BY DEF Tick
<1>2. conn' = [c \in Conn |-> IF life[c] = "open" /\ conn[c].traffic < TrafficCap
                              THEN [conn[c] EXCEPT !.traffic = @ + 1] ELSE conn[c]]
  BY DEF Tick
<1>3. \A d \in Conn : Unlisted(conn[d], conn'[d], peer[d], peer'[d])
  BY <1>1, <1>2, ListLike DEF IInv, TypeOK, Unlisted
<1>4. QED
  BY <1>3, NothingListed

\* A published state changes what is known, and of no other thing.
LEMMA PublishedList ==
    ASSUME SubInv, NEW e, NEW v, publish_state(e, v), NEW d \in Conn
    PROVE  peer'[d].listed = peer[d].listed /\ peer'[d].told = peer[d].told
<1>1. PICK got \in SUBSET {c \in clients : Hears(c) /\ e \in Public /\ TRUE \in Room(conn[c])} :
       peer' = [c \in Conn |->
                  IF c \in clients /\ Hears(c) /\ e \in Public
                  THEN IF BufferMayFill \/ conn[c].remove
                       THEN Told(peer[c], e, v, c \in got)
                       ELSE Told(peer[c], e, v, TRUE)
                  ELSE peer[c]]
  BY DEF publish_state
<1>2. peer[d] \in PeerRecord
  BY DEF SubInv
<1>3. ASSUME NEW w PROVE [peer[d] EXCEPT !.known[e] = w].listed = peer[d].listed
                      /\ [peer[d] EXCEPT !.known[e] = w].told = peer[d].told
  BY <1>2 DEF PeerRecord
<1>4. \/ peer'[d] = peer[d] \/ peer'[d] = Told(peer[d], e, v, d \in got)
      \/ peer'[d] = Told(peer[d], e, v, TRUE)
  BY <1>1
<1>5. peer'[d] = peer[d] \/ \E w : peer'[d] = [peer[d] EXCEPT !.known[e] = w]
  BY <1>4 DEF Told
<1>6. QED
  BY <1>3, <1>5

LEMMA UpdateList == ASSUME SubInv, ListInv, Update PROVE ListInv'
<1>1. conn' = conn /\ \A d \in Conn : peer'[d].listed = peer[d].listed /\ peer'[d].told = peer[d].told
  BY PublishedList DEF Update
<1>2. QED
  BY <1>1, NothingListed DEF Unlisted

-----------------------------------------------------------------------------
\* A message: it asks for the list, or leaves it as it is.
LEMMA ParseOneList == ASSUME IInv, SubInv, ListInv, ParseOne PROVE ListInv'
<1>1. PICK c \in cur :
          /\ ~conn[c].remove /\ conn[c].recv # <<>>
          /\ \/ \E right \in BOOLEAN : Hello(c) \/ Connect(c, right) \/ Disconnect(c)
             \/ DisconnectResponse(c) \/ Answered(c, conn[c]) \/ PingResponse(c)
             \/ DeviceInfo(c) \/ Refused(c) \/ Handled(c, conn[c])
             \/ ListEntities(c) \/ SubscribeStates(c) \/ SubscribeLogs(c)
             \/ \E v \in {"on", "off"} : SwitchCommand(c, v)
  BY DEF ParseOne
<1>2. c \in Conn /\ IsConnection(conn[c]) /\ conn \in [Conn -> Members] /\ peer[c] \in PeerRecord
  BY DEF IInv, TypeOK, SubInv
<1>3. CASE \E v \in {"on", "off"} : SwitchCommand(c, v)
  <2>1. PICK v \in {"on", "off"}, e \in Switches :
            /\ UNCHANGED peer \/ publish_state(e, v)
            /\ conn' = [conn EXCEPT ![c] = Popped(conn[c])]
    BY <1>3 DEF SwitchCommand
  <2>2. \A d \in Conn : peer'[d].listed = peer[d].listed /\ peer'[d].told = peer[d].told
    BY <2>1, PublishedList
  <2>3. Popped(conn[c]).list = conn[c].list
    BY <1>2, ListLike
  <2>4. \A d \in Conn : conn'[d].list = conn[d].list
    BY <1>2, <2>1, <2>3
  <2>5. QED
    BY <2>2, <2>4, NothingListed DEF Unlisted
<1>4. CASE ListEntities(c)
  <2> DEFINE m == [conn[c] EXCEPT !.list = Started]
             p == [peer[c] EXCEPT !.listed = <<>>, !.told = FALSE]
  <2>1. conn' = [conn EXCEPT ![c] = Popped(m)]
    BY <1>4 DEF ListEntities
  <2>2. peer' = [peer EXCEPT ![c] = p]
    BY <1>4 DEF ListEntities
  <2>3. IsConnection(m) /\ m.list = Started
    BY <1>2, Changed DEF IsConnection, Members
  <2>4. Popped(m).list = Started
    BY <2>3, ListLike
  <2>5. p.listed = <<>> /\ p.told = FALSE
    BY <1>2 DEF PeerRecord
  <2> HIDE DEF m, p
  <2>6. Delivers(Popped(m), p)
    BY <2>4, <2>5, NoneInOrder, PassedAtEnds DEF Delivers
  <2>7. QED
    BY <1>2, <2>1, <2>2, <2>6, OneDelivers
<1>5. ASSUME NEW m, IsConnection(m), m.list = conn[c].list,
             Answered(c, m) \/ Handled(c, m) \/ (Fatal(c, m) /\ UNCHANGED value)
      PROVE  ListInv'
  <2>1. PICK n \in {Popped(m), Close(m)}, p \in {peer[c], Hangup(peer[c])} :
            /\ conn' = [conn EXCEPT ![c] = n]
            /\ peer' = [peer EXCEPT ![c] = p] \/ (peer' = peer /\ p = peer[c])
    BY <1>5 DEF Answered, Handled, Fatal
  <2>2. Unlisted(conn[c], n, peer[c], p)
    BY <1>2, <1>5, <2>1, ListLike, ListedLike DEF Unlisted
  <2>3. Delivers(n, p)
    BY <1>2, <2>2, StillDelivers DEF ListInv
  <2>4. QED
    BY <1>2, <2>1, <2>3, OneDelivers
<1> DEFINE m0 == conn[c]
           ms == {m0, [m0 EXCEPT !.state = "CONNECTED"], [m0 EXCEPT !.state = "AUTHENTICATED"],
                  [m0 EXCEPT !.nextClose = TRUE], [m0 EXCEPT !.sentPing = FALSE],
                  [m0 EXCEPT !.logs = TRUE], [m0 EXCEPT !.subscribed = TRUE, !.initial = Started]}
<1>6. \A m \in ms : IsConnection(m) /\ m.list = conn[c].list
  <2>1. /\ IsConnection([m0 EXCEPT !.nextClose = TRUE]) /\ IsConnection([m0 EXCEPT !.sentPing = FALSE])
        /\ IsConnection([m0 EXCEPT !.logs = TRUE])
        /\ IsConnection([m0 EXCEPT !.state = "CONNECTED"])
        /\ IsConnection([m0 EXCEPT !.state = "AUTHENTICATED"])
        /\ IsConnection([m0 EXCEPT !.subscribed = TRUE, !.initial = Started])
    BY <1>2, Changed
  <2>2. /\ [m0 EXCEPT !.nextClose = TRUE].list = m0.list
        /\ [m0 EXCEPT !.sentPing = FALSE].list = m0.list
        /\ [m0 EXCEPT !.logs = TRUE].list = m0.list
        /\ [m0 EXCEPT !.state = "CONNECTED"].list = m0.list
        /\ [m0 EXCEPT !.state = "AUTHENTICATED"].list = m0.list
        /\ [m0 EXCEPT !.subscribed = TRUE, !.initial = Started].list = m0.list
    BY <1>2, ListLike
  <2> HIDE DEF m0
  <2>3. \A m \in ms : IsConnection(m) /\ m.list = m0.list
    BY <1>2, <2>1, <2>2 DEF m0
  <2>4. QED
    BY <2>3 DEF m0
<1>7. CASE ~(ListEntities(c) \/ \E v \in {"on", "off"} : SwitchCommand(c, v))
  <2>1. \E m \in ms : Answered(c, m) \/ Handled(c, m) \/ (Fatal(c, m) /\ UNCHANGED value)
    BY <1>1, <1>7 DEF Hello, Connect, Disconnect, DisconnectResponse, PingResponse, DeviceInfo,
                      Refused, SubscribeStates, SubscribeLogs
  <2>2. QED
    BY <1>5, <1>6, <2>1
<1>8. QED
  BY <1>3, <1>4, <1>7

\* A round of the list iterator, if there was room or not.
LEMMA ListStepDelivers ==
    ASSUME NEW c \in Conn, IsIterator(conn[c].list), NEW p \in PeerRecord, Delivers(conn[c], p),
           NEW sent \in BOOLEAN, NEW n, n.list = advance(conn[c].list, sent)
    PROVE  Delivers(n, ListStep(c, p, sent))
<1> DEFINE it == conn[c].list
           q == <<it.state - 1, it.at + 1>>
<1>1. CASE it.state = NONE
  <2>1. ~Sends(it) /\ it.state # MAX
    BY <1>1, Limits DEF Sends, AtItem, NONE, BEGIN, MAX
  <2>2. ListStep(c, p, sent) = p /\ advance(it, sent) = it
    BY <1>1, <2>1 DEF ListStep, advance
  <2>3. QED
    BY <1>1, <2>2 DEF Delivers
<1>2. CASE it.state # NONE /\ Sends(it) /\ sent
  <2> DEFINE s == Append(p.listed, EntityAt(q))
             Q == Passed(it) \cup {q}
  <2>1. /\ q \notin Passed(it) /\ EntityAt(q) = Item(it)
        /\ \A r \in Passed(it) : Precedes(r, q)
        /\ Passed(advance(it, TRUE)) = Q /\ advance(it, TRUE).state # NONE
    BY <1>2, PassesSent
  <2>2. sent = TRUE
    BY <1>2
  <2>3. ListStep(c, p, sent) = [p EXCEPT !.listed = s]
    BY <1>2, <2>1 DEF ListStep
  <2>4. p.listed \in Seq(Entity) /\ InOrder(p.listed, Passed(it)) /\ ~p.told
    BY <1>2 DEF PeerRecord, Delivers
  <2>5. InOrder(s, Q)
    <3> HIDE DEF q
    <3>1. QED
      BY <2>1, <2>4, AppendInOrder
  <2> HIDE DEF s, Q, q
  <2>6. [p EXCEPT !.listed = s].listed = s /\ [p EXCEPT !.listed = s].told = p.told
    BY DEF PeerRecord
  <2>7. QED
    BY <2>1, <2>2, <2>3, <2>4, <2>5, <2>6 DEF Delivers
<1>3. CASE it.state # NONE /\ ~(Sends(it) /\ sent) /\ it.state # MAX
  <2>1. ListStep(c, p, sent) = p
    BY <1>3 DEF ListStep
  <2>2. Passed(advance(it, sent)) = Passed(it)
    BY <1>3, PassesNothing
  <2>3. QED
    BY <1>3, <2>1, <2>2 DEF Delivers
<1>4. CASE it.state = MAX /\ ~(Sends(it) /\ sent)
  <2>0. it.state # NONE
    BY <1>4, Limits DEF NONE, MAX
  <2>1. InOrder(p.listed, PublicPlaces) /\ ~p.told
    BY <1>4, <2>0, PassedAtEnds DEF Delivers
  <2>2. CASE sent
    <3>1. ListStep(c, p, sent) = [p EXCEPT !.told = TRUE]
      BY <1>4, <2>2 DEF ListStep
    <3>2. [p EXCEPT !.told = TRUE].listed = p.listed
      BY DEF PeerRecord
    <3>3. advance(it, sent) = [it EXCEPT !.state = NONE]
      BY <1>4, <2>0, <2>2 DEF advance
    <3>4. n.list.state = NONE
      BY <3>3 DEF IsIterator
    <3>5. QED
      BY <2>1, <3>1, <3>2, <3>4 DEF Delivers
  <2>3. CASE ~sent
    <3>1. ListStep(c, p, sent) = p /\ advance(it, sent) = it
      BY <1>4, <2>0, <2>3 DEF ListStep, advance
    <3>2. QED
      BY <3>1 DEF Delivers
  <2>4. QED
    BY <2>2, <2>3
<1>5. QED
  BY <1>1, <1>2, <1>3, <1>4

LEMMA AdvanceList == ASSUME IInv, SubInv, ListInv, Advance PROVE ListInv'
<1>1. PICK c \in cur : \E s1, s2, s3 \in Room(conn[c]) :
          /\ conn' = [conn EXCEPT ![c] = Round(c, s1, s2, s3).m]
          /\ peer' = [peer EXCEPT ![c] = Round(c, s1, s2, s3).p]
  BY DEF Advance
<1>2. Room(conn[c]) \subseteq BOOLEAN
  BY DEF Room
<1>3. PICK s1 \in BOOLEAN, s2 \in BOOLEAN, s3 \in BOOLEAN :
          /\ conn' = [conn EXCEPT ![c] = Round(c, s1, s2, s3).m]
          /\ peer' = [peer EXCEPT ![c] = Round(c, s1, s2, s3).p]
  BY <1>1, <1>2
<1>4. c \in Conn /\ IsConnection(conn[c]) /\ conn[c] \in Members /\ peer[c] \in PeerRecord
  BY DEF IInv, TypeOK, SubInv, IsConnection
<1> DEFINE m == [conn[c] EXCEPT !.list = advance(@, s1), !.initial = InitialNext(c, s2)]
           p1 == ListStep(c, peer[c], s1)
           p == InitialStep(c, p1, s2)
           r == Round(c, s1, s2, s3)
<1>5. IsIterator(conn[c].list)
  BY <1>4 DEF IsConnection
<1>6. m.list = advance(conn[c].list, s1) /\ IsConnection(m)
  <2>1. IsIterator(advance(conn[c].list, s1)) /\ IsIterator(InitialNext(c, s2))
    BY <1>4, Advances DEF InitialNext, IsConnection
  <2>2. /\ conn[c] \in Members /\ Len(conn[c].recv) <= RecvMax
        /\ advance(conn[c].list, s1) \in [state : NONE .. MAX, at : Nat]
        /\ InitialNext(c, s2) \in [state : NONE .. MAX, at : Nat]
    BY <1>4, <2>1 DEF IsConnection, IsIterator
  <2>3. /\ m \in Members /\ m.recv = conn[c].recv
        /\ m.list = advance(conn[c].list, s1) /\ m.initial = InitialNext(c, s2)
    BY <2>2 DEF Members
  <2>4. QED
    BY <2>1, <2>2, <2>3 DEF IsConnection
<1>7. Delivers(m, p1)
  <2>1. Delivers(conn[c], peer[c])
    BY <1>4 DEF ListInv
  <2> HIDE DEF m
  <2>2. QED
    BY <1>4, <1>5, <1>6, <2>1, ListStepDelivers
<1>8. p1 \in PeerRecord
  <2>1. CASE Sends(conn[c].list) /\ s1
    <3> DEFINE s == Append(peer[c].listed, Item(conn[c].list))
    <3>1. s \in Seq(Entity)
      BY <1>4, <1>5, <2>1, ItemType DEF Sends, PeerRecord
    <3>2. p1 = [peer[c] EXCEPT !.listed = s]
      BY <2>1 DEF ListStep
    <3> HIDE DEF s, p1
    <3>3. QED
      BY <1>4, <3>1, <3>2, PeerLike
  <2>2. CASE ~(Sends(conn[c].list) /\ s1)
    <3>1. p1 \in {peer[c], [peer[c] EXCEPT !.told = TRUE]}
      BY <2>2 DEF ListStep
    <3>2. QED
      BY <1>4, <3>1, PeerLike
  <2>3. QED
    BY <2>1, <2>2
<1> HIDE DEF p1
<1>9. p.listed = p1.listed /\ p.told = p1.told /\ DOMAIN p = DOMAIN p1
  <2>1. p = p1 \/ \E k : p = [p1 EXCEPT !.known = k]
    BY DEF InitialStep
  <2>2. \A k : DOMAIN [p1 EXCEPT !.known = k] = DOMAIN p1
    OBVIOUS
  <2> HIDE DEF p
  <2>3. CASE p = p1
    BY <2>3
  <2>4. CASE \E k : p = [p1 EXCEPT !.known = k]
    <3>1. PICK k : p = [p1 EXCEPT !.known = k]
      BY <2>4
    <3>2. QED
      BY <1>8, <2>2, <3>1, ListedLike
  <2>5. QED
    BY <2>1, <2>3, <2>4
<1>10. r = KeepaliveStep(c, m, p, s3)
  BY DEF Round, p1
<1>11. r.m.list = m.list
  <2>1. r.m \in {Close(m), m, [m EXCEPT !.sentPing = TRUE]}
    BY <1>10 DEF KeepaliveStep
  <2> HIDE DEF m
  <2>2. QED
    BY <1>6, <2>1, ListLike
<1>12. r.p.listed = p.listed /\ r.p.told = p.told
  <2>1. r.p \in {Hangup(p), p, [p EXCEPT !.pinged = TRUE], [p EXCEPT !.unasked = TRUE]}
    BY <1>10 DEF KeepaliveStep
  <2>2. "listed" \in DOMAIN p /\ "told" \in DOMAIN p
    BY <1>8, <1>9 DEF PeerRecord
  <2> HIDE DEF p
  <2>3. QED
    BY <2>1, <2>2 DEF Hangup
<1>13. Delivers(r.m, r.p)
  <2>1. Unlisted(m, r.m, p1, r.p)
    BY <1>9, <1>11, <1>12 DEF Unlisted
  <2> HIDE DEF m, r
  <2>2. QED
    BY <1>7, <2>1, StillDelivers
<1> HIDE DEF r
<1>14. conn' = [conn EXCEPT ![c] = r.m] /\ peer' = [peer EXCEPT ![c] = r.p]
  BY <1>3 DEF r
<1>15. QED
  BY <1>4, <1>13, <1>14, OneDelivers

LEMMA ListInvStep == IInv /\ SubInv /\ ListInv /\ [Next]_vars => ListInv'
<1> SUFFICES ASSUME IInv, SubInv, ListInv, [Next]_vars PROVE ListInv'
  OBVIOUS
<1>1. CASE LoopStart \/ LogDisconnects \/ Erase \/ ParseDone \/ LoopEnd \/ NetChanges
  BY <1>1, IdleList DEF LoopStart, LogDisconnects, Erase, ParseDone, LoopEnd, NetChanges
<1>2. CASE Loop
  BY <1>1, <1>2, DeleteList, ServeList, ParseOneList, AdvanceList, FreshList DEF Loop, Reboot
<1>3. CASE Tick \/ Update
  BY <1>3, TickList, UpdateList
<1>4. CASE Shutdown
  BY <1>4, FreshList DEF Shutdown
<1>5. ASSUME NEW c \in Conn,
             Accept(c) \/ Says(c) \/ Pong(c) \/ PeerCloses(c) \/ PeerVanishes(c) \/ on_timeout(c)
      PROVE  ListInv'
  BY <1>5, PeerList
<1>6. CASE UNCHANGED vars
  BY <1>6, IdleList DEF vars
<1>7. QED
  BY <1>1, <1>2, <1>3, <1>4, <1>5, <1>6 DEF Next

\* Whoever is told that the list is done was sent every public entity, each once and in the
\* order of the platforms, however often there was no room and whatever else it asked for
\* meanwhile (util.cpp:16-190, list_entities.cpp).
THEOREM ListsArriveWhole == Spec => []ListedWhole
<1>1. Init => ListInv
  <2> SUFFICES ASSUME Init PROVE ListInv
    OBVIOUS
  <2>1. conn = [c \in Conn |-> NewConn] /\ peer = [c \in Conn |-> NoPeer]
    BY DEF Init
  <2>2. \A c \in Conn : Delivers(conn[c], peer[c])
    BY <2>1, NewDelivers
  <2>3. QED
    BY <2>2 DEF ListInv
<1>2. ListInv => ListedWhole
  BY DEF ListInv, Delivers, ListedWhole
<1>3. QED
  BY <1>1, <1>2, InitInv, StepInv, SubInit, SubStep, ListInvStep, PTL DEF Spec

-----------------------------------------------------------------------------
(***************************************************************************)
(* Who is cut off for silence.  A client that is there was asked, and its  *)
(* answer is on its way, before the next tick; so its connection is never  *)
(* older than a tick more than when it is asked.                           *)
(***************************************************************************)
\* The loop has been through c since the last tick.
Served(c) == ran \/ (pc \in {"serve", "parse", "advance"} /\ c \notin todo \cup cur)

\* The client is there, and no ping to it was lost.
Minds(m, p) == ~m.remove /\ p.alive /\ p.tcp /\ ~p.unasked

PongComes(m, p) == p.pinged \/ \E i \in DOMAIN m.recv : m.recv[i] = "pong"

Timed(m, p, served) ==
    Minds(m, p) => /\ m.sentPing => PongComes(m, p)
                   /\ m.traffic <= KeepAlive + 1
                   /\ served => m.traffic <= KeepAlive \/ m.sentPing

PingInv ==
    /\ \A c \in Conn : life[c] = "none" => conn[c].traffic = 0 /\ ~conn[c].sentPing
    /\ \A c \in Conn : life[c] = "open" => Timed(conn[c], peer[c], Served(c))

\* A client asked at the last tick is not overdue at the next.
LEMMA PatienceLasts == KeepAlive \in Nat /\ Patience \in Nat /\ KeepAlive + 1 <= Patience
BY Limits DEF Patience

LEMMA MembersAre ==
    ASSUME NEW m, IsConnection(m)
    PROVE  m \in Members /\ m.traffic \in Nat /\ m.recv \in Seq(Word) /\ m.sentPing \in BOOLEAN
           /\ m.remove \in BOOLEAN
BY DEF IsConnection, Members

\* A step of one connection, and of nobody else's turn.
LEMMA OneTimed ==
    ASSUME IInv, SubInv, PingInv, NEW c \in Conn, NEW m, NEW p,
           conn' = [conn EXCEPT ![c] = m] \/ (conn' = conn /\ m = conn[c]),
           peer' = [peer EXCEPT ![c] = p] \/ (peer' = peer /\ p = peer[c]),
           UNCHANGED life, life[c] # "none",
           \A d \in Conn \ {c} : Served(d)' => Served(d),
           Timed(m, p, Served(c)')
    PROVE  PingInv'
<1>1. conn \in [Conn -> Members] /\ peer \in [Conn -> PeerRecord]
  BY DEF IInv, SubInv, TypeOK
<1>2. conn'[c] = m /\ peer'[c] = p
      /\ \A d \in Conn \ {c} : conn'[d] = conn[d] /\ peer'[d] = peer[d]
  BY <1>1
<1>3. \A d \in Conn : life'[d] = "none" => conn'[d].traffic = 0 /\ ~conn'[d].sentPing
  BY <1>2 DEF PingInv
<1>4. ASSUME NEW d \in Conn, life'[d] = "open" PROVE Timed(conn'[d], peer'[d], Served(d)')
  <2>1. CASE d = c
    BY <1>2, <2>1
  <2>2. CASE d # c
    <3>1. Timed(conn[d], peer[d], Served(d)) /\ (Served(d)' => Served(d))
      BY <1>4, <2>2 DEF PingInv
    <3>2. QED
      BY <1>2, <2>2, <3>1 DEF Timed
  <2>3. QED
    BY <2>1, <2>2
<1>5. QED
  BY <1>3, <1>4 DEF PingInv

\* A step of none.
LEMMA NoneTimed ==
    ASSUME PingInv, UNCHANGED <<conn, peer, life>>, \A d \in Conn : Served(d)' => Served(d)
    PROVE  PingInv'
<1>1. ASSUME NEW d \in Conn, life[d] = "open" PROVE Timed(conn[d], peer[d], Served(d)')
  BY <1>1 DEF PingInv, Timed
<1>2. QED
  BY <1>1 DEF PingInv

\* Who is closed, or whose client is gone, is not minded.
LEMMA ClosedTimed ==
    ASSUME NEW m, NEW p, NEW b, m.remove \/ ~p.tcp \/ ~p.alive
    PROVE  Timed(m, p, b)
BY DEF Timed, Minds

-----------------------------------------------------------------------------
LEMMA LoopPing ==
    ASSUME IInv, PingInv, LoopStart \/ LogDisconnects \/ Erase \/ ParseDone \/ LoopEnd \/ NetChanges
    PROVE  PingInv'
<1>1. UNCHANGED <<conn, peer, life>>
  BY DEF LoopStart, LogDisconnects, Erase, ParseDone, LoopEnd, NetChanges
<1>2. CASE LoopStart \/ LogDisconnects \/ ParseDone \/ NetChanges
  <2>1. \A d \in Conn : Served(d)' => Served(d)
    BY <1>2 DEF LoopStart, LogDisconnects, ParseDone, NetChanges, Served
  <2>2. QED
    BY <1>1, <2>1, NoneTimed
<1>3. CASE LoopEnd
  <2>1. cur = {} /\ todo = {} /\ pc = "serve"
    BY <1>3 DEF LoopEnd, IInv, TypeOK
  <2>2. \A d \in Conn : Served(d)' => Served(d)
    BY <2>1 DEF Served
  <2>3. QED
    BY <1>1, <2>2, NoneTimed
<1>4. CASE Erase
  <2>1. IInv'
    BY <1>4, LoopStepInv
  <2>2. pc = "delete" /\ ran' = ran /\ todo' = clients'
    BY <1>4 DEF Erase
  <2>3. ASSUME NEW d \in Conn, life[d] = "open", Served(d)' PROVE Served(d)
    <3>1. d \in todo'
      BY <1>1, <2>1, <2>2, <2>3 DEF IInv, Alive
    <3>2. QED
      BY <2>2, <2>3, <3>1 DEF Served
  <2>4. ASSUME NEW d \in Conn, life[d] = "open" PROVE Timed(conn[d], peer[d], Served(d)')
    BY <2>3, <2>4 DEF PingInv, Timed
  <2>5. QED
    BY <1>1, <2>4 DEF PingInv
<1>5. QED
  BY <1>2, <1>3, <1>4

LEMMA DeletePing == ASSUME IInv, SubInv, PingInv, Delete PROVE PingInv'
<1>1. PICK c \in doomed :
          /\ life[c] = "open" /\ life' = [life EXCEPT ![c] = "deleted"]
          /\ conn' = [conn EXCEPT ![c] = [NewConn EXCEPT !.remove = conn[c].remove]]
          /\ peer' = [peer EXCEPT ![c] = NoPeer]
  BY DEF Delete
<1>2. c \in Conn /\ conn \in [Conn -> Members] /\ peer \in [Conn -> PeerRecord]
      /\ life \in [Conn -> {"none", "open", "deleted"}]
  BY DEF IInv, TypeOK, SubInv
<1>3. life'[c] = "deleted"
      /\ \A d \in Conn \ {c} : life'[d] = life[d] /\ conn'[d] = conn[d] /\ peer'[d] = peer[d]
  BY <1>1, <1>2
<1>4. \A d \in Conn : Served(d)' <=> Served(d)
  BY DEF Delete, Served
<1>5. \A d \in Conn : life'[d] = "none" => conn'[d].traffic = 0 /\ ~conn'[d].sentPing
  BY <1>3 DEF PingInv
<1>6. ASSUME NEW d \in Conn, life'[d] = "open" PROVE Timed(conn'[d], peer'[d], Served(d)')
  <2>1. d # c /\ life[d] = "open"
    BY <1>3, <1>6
  <2>2. QED
    BY <1>3, <1>4, <2>1 DEF PingInv, Timed
<1>7. QED
  BY <1>5, <1>6 DEF PingInv

LEMMA FreshPing == ASSUME Fresh PROVE PingInv'
<1>1. conn' = [c \in Conn |-> NewConn] /\ life' = [c \in Conn |-> "none"]
  BY DEF Fresh
<1>2. NewConn.traffic = 0 /\ ~NewConn.sentPing
  BY DEF NewConn
<1>3. QED
  BY <1>1, <1>2 DEF PingInv

\* Its turn begins, or it is closed.
LEMMA ServePing == ASSUME IInv, SubInv, PingInv, Serve PROVE PingInv'
<1>1. PICK c \in todo :
          /\ todo' = todo \ {c}
          /\ \/ conn[c].remove /\ UNCHANGED <<pc, cur, conn, peer>>
             \/ Fatal(c, conn[c]) /\ UNCHANGED <<pc, cur>>
             \/ conn' = [conn EXCEPT ![c] = Close(conn[c])] /\ UNCHANGED <<pc, cur, peer>>
             \/ pc' = "parse" /\ cur' = {c} /\ UNCHANGED <<conn, peer>>
  BY DEF Serve
<1>2. c \in Conn /\ c \in clients /\ IsConnection(conn[c]) /\ cur = {} /\ pc = "serve"
      /\ UNCHANGED <<life, ran>>
  BY DEF IInv, TypeOK, Serve
<1>3. life[c] # "none"
  BY <1>2 DEF IInv, Alive
<1>4. \A d \in Conn \ {c} : Served(d)' => Served(d)
  BY <1>1, <1>2 DEF Served, Fatal
<1>5. CASE conn[c].remove /\ UNCHANGED <<pc, cur, conn, peer>>
  <2>1. Timed(conn[c], peer[c], Served(c)')
    BY <1>5, ClosedTimed
  <2>2. QED
    BY <1>2, <1>3, <1>4, <1>5, <2>1, OneTimed
<1>6. CASE conn' = [conn EXCEPT ![c] = Close(conn[c])]
  <2>1. PICK p : peer' = [peer EXCEPT ![c] = p] \/ (peer' = peer /\ p = peer[c])
    BY <1>1, <1>6 DEF Fatal
  <2>2. Close(conn[c]).remove
    BY <1>2, Changed
  <2>3. Timed(Close(conn[c]), p, Served(c)')
    BY <2>2, ClosedTimed
  <2>4. QED
    BY <1>2, <1>3, <1>4, <1>6, <2>1, <2>3, OneTimed
<1>7. CASE pc' = "parse" /\ cur' = {c} /\ UNCHANGED <<conn, peer>>
  <2>1. \A d \in Conn : Served(d)' => Served(d)
    BY <1>2, <1>4, <1>7 DEF Served
  <2>2. QED
    BY <1>2, <1>7, <2>1, NoneTimed
<1>8. QED
  BY <1>1, <1>5, <1>6, <1>7 DEF Fatal

\* What a client says only adds to what comes.
LEMMA SaidTimed ==
    ASSUME NEW m, IsConnection(m), Len(m.recv) < RecvMax, NEW p \in PeerRecord, NEW w \in Word,
           NEW b, NEW q \in PeerRecord, q = p \/ (q = [p EXCEPT !.pinged = FALSE] /\ w = "pong"),
           Timed(m, p, b)
    PROVE  Timed([m EXCEPT !.recv = Append(m.recv, w)], q, b)
<1> DEFINE s == Append(m.recv, w)
           n == [m EXCEPT !.recv = s]
<1>1. m \in Members /\ m.recv \in Seq(Word) /\ Len(m.recv) \in Nat
  BY MembersAre
<1>2. /\ Len(s) = Len(m.recv) + 1 /\ DOMAIN s = 1 .. Len(m.recv) + 1 /\ s[Len(m.recv) + 1] = w
      /\ \A i \in DOMAIN m.recv : i \in DOMAIN s /\ s[i] = m.recv[i]
  BY <1>1
<1> HIDE DEF s
<1>3. n.recv = s /\ n.remove = m.remove /\ n.sentPing = m.sentPing /\ n.traffic = m.traffic
  BY <1>1 DEF Members
<1>4. q.alive = p.alive /\ q.tcp = p.tcp /\ q.unasked = p.unasked
  BY DEF PeerRecord
<1>5. PongComes(m, p) => PongComes(n, q)
  <2>1. CASE q = p
    BY <1>2, <1>3, <2>1 DEF PongComes
  <2>2. CASE w = "pong"
    <3>1. Len(m.recv) + 1 \in DOMAIN s
      BY <1>1, <1>2
    <3>2. QED
      BY <1>2, <1>3, <2>2, <3>1 DEF PongComes
  <2>3. QED
    BY <2>1, <2>2
<1> HIDE DEF n
<1>6. Timed(n, q, b)
  BY <1>3, <1>4, <1>5 DEF Timed, Minds
<1>7. QED
  BY <1>6 DEF n, s

\* lwIP's task and the clients.
LEMMA PeerPing ==
    ASSUME IInv, SubInv, PingInv, NEW c \in Conn,
           Accept(c) \/ Says(c) \/ Pong(c) \/ PeerCloses(c) \/ PeerVanishes(c) \/ on_timeout(c)
    PROVE  PingInv'
<1>1. IsConnection(conn[c]) /\ conn[c] \in Members /\ peer[c] \in PeerRecord
      /\ life \in [Conn -> {"none", "open", "deleted"}]
  BY DEF IInv, TypeOK, SubInv, IsConnection
<1>2. CASE Accept(c)
  <2>1. /\ life' = [life EXCEPT ![c] = "open"] /\ life[c] = "none"
        /\ UNCHANGED <<pc, cur, todo, conn, peer, ran>>
    BY <1>2 DEF Accept
  <2>2. \A d \in Conn : Served(d)' <=> Served(d)
    BY <2>1 DEF Served
  <2>3. \A d \in Conn \ {c} : life'[d] = life[d]
    BY <2>1
  <2>4. conn[c].traffic = 0 /\ ~conn[c].sentPing
    BY <2>1 DEF PingInv
  <2>5. Timed(conn[c], peer[c], Served(c)')
    BY <2>4, Limits DEF Timed
  <2>6. ASSUME NEW d \in Conn, life'[d] = "open" PROVE Timed(conn[d], peer[d], Served(d)')
    <3>1. CASE d = c
      BY <2>5, <3>1
    <3>2. CASE d # c
      BY <2>2, <2>3, <2>6, <3>2 DEF PingInv, Timed
    <3>3. QED
      BY <3>1, <3>2
  <2>7. \A d \in Conn : life'[d] = "none" => life[d] = "none"
    BY <1>1, <2>1
  <2>8. QED
    BY <2>1, <2>6, <2>7 DEF PingInv
<1>3. ASSUME ~Accept(c)
      PROVE  /\ life[c] = "open" /\ UNCHANGED life
             /\ \A d \in Conn : Served(d)' <=> Served(d)
             /\ \A d \in Conn \ {c} : Served(d)' => Served(d)
  <2>1. life[c] = "open" /\ UNCHANGED <<pc, cur, todo, life, ran>>
    BY <1>3 DEF Says, Pong, PeerCloses, PeerVanishes, on_timeout, Hearing, Talking
  <2>2. QED
    BY <2>1 DEF Served
<1>4. CASE ~Accept(c) /\ Says(c)
  <2>1. PICK w \in vocab[c] : conn' = [conn EXCEPT ![c].recv = Append(@, w)] /\ peer' = peer
    BY <1>4 DEF Says
  <2>2. w \in Word /\ Len(conn[c].recv) < RecvMax
    <3>1. Hearing(c)
      BY <1>4 DEF Says
    <3>2. c \in DOMAIN vocab
      BY <1>3, <1>4 DEF IInv, Alive
    <3>3. QED
      BY <3>1, <3>2 DEF Hearing, IInv, TypeOK
  <2> DEFINE m == [conn[c] EXCEPT !.recv = Append(conn[c].recv, w)]
  <2>3. Timed(conn[c], peer[c], Served(c)')
    BY <1>3, <1>4 DEF PingInv, Timed
  <2>4. Timed(m, peer[c], Served(c)')
    BY <1>1, <2>2, <2>3, SaidTimed
  <2>5. conn' = [conn EXCEPT ![c] = m]
    BY <2>1
  <2> HIDE DEF m
  <2>6. QED
    BY <1>3, <1>4, <2>1, <2>4, <2>5, OneTimed
<1>5. CASE ~Accept(c) /\ Pong(c)
  <2> DEFINE m == [conn[c] EXCEPT !.recv = Append(conn[c].recv, "pong")]
             p == [peer[c] EXCEPT !.pinged = FALSE]
  <2>1. conn' = [conn EXCEPT ![c] = m] /\ peer' = [peer EXCEPT ![c] = p]
    BY <1>5 DEF Pong
  <2>2. "pong" \in Word /\ Len(conn[c].recv) < RecvMax
    <3>1. Hearing(c)
      BY <1>5 DEF Pong
    <3>2. QED
      BY <3>1 DEF Hearing, Word
  <2>3. Timed(conn[c], peer[c], Served(c)')
    BY <1>3, <1>5 DEF PingInv, Timed
  <2>4. p \in PeerRecord
    BY <1>1, PeerLike
  <2>5. Timed(m, p, Served(c)')
    BY <1>1, <2>2, <2>3, <2>4, SaidTimed
  <2> HIDE DEF m, p
  <2>6. QED
    BY <1>3, <1>5, <2>1, <2>5, OneTimed
<1>6. CASE ~Accept(c) /\ (PeerCloses(c) \/ PeerVanishes(c) \/ on_timeout(c))
  <2>1. PICK m, p :
            /\ conn' = [conn EXCEPT ![c] = m] \/ (conn' = conn /\ m = conn[c])
            /\ peer' = [peer EXCEPT ![c] = p]
            /\ p \in {[peer[c] EXCEPT !.tcp = FALSE], [peer[c] EXCEPT !.alive = FALSE]}
    BY <1>6 DEF PeerCloses, PeerVanishes, on_timeout, Fatal, Hangup
  <2>2. ~p.tcp \/ ~p.alive
    BY <1>1, <2>1 DEF PeerRecord
  <2>3. Timed(m, p, Served(c)')
    BY <2>2, ClosedTimed
  <2>4. QED
    BY <1>3, <1>6, <2>1, <2>3, OneTimed
<1>7. QED
  BY <1>2, <1>4, <1>5, <1>6

\* Time passes when every client that is there has answered.
LEMMA TickPing == ASSUME IInv, SubInv, PingInv, Tick PROVE PingInv'
<1>1. /\ pc = "idle" /\ ran = TRUE /\ ran' = FALSE /\ UNCHANGED <<pc, cur, todo, clients, life, peer>>
      /\ \A c \in clients : ~peer[c].pinged \/ ~Talking(c)
      /\ \A c \in clients : conn[c].recv = <<>> \/ conn[c].remove
  BY DEF Tick, IInv, TypeOK
<1>2. conn' = [c \in Conn |-> IF life[c] = "open" /\ conn[c].traffic < TrafficCap
                              THEN [conn[c] EXCEPT !.traffic = @ + 1] ELSE conn[c]]
  BY DEF Tick
<1>3. \A d \in Conn : life'[d] = "none" => conn'[d].traffic = 0 /\ ~conn'[d].sentPing
  BY <1>1, <1>2 DEF PingInv
<1>4. ASSUME NEW d \in Conn, life'[d] = "open" PROVE Timed(conn'[d], peer'[d], Served(d)')
  <2>1. d \in clients /\ life[d] = "open" /\ IsConnection(conn[d]) /\ conn[d] \in Members
    BY <1>1, <1>4 DEF IInv, Alive, TypeOK, IsConnection
  <2> DEFINE m == conn[d]
             n == conn'[d]
  <2>2. n.remove = m.remove /\ n.sentPing = m.sentPing /\ n.recv = m.recv
        /\ (n.traffic = m.traffic \/ n.traffic = m.traffic + 1)
    <3>1. n \in {m, [m EXCEPT !.traffic = @ + 1]}
      BY <1>2
    <3>2. QED
      BY <2>1, <3>1 DEF Members
  <2>3. Served(d) /\ ~Served(d)' /\ peer' = peer
    BY <1>1 DEF Served
  <2>4. Timed(m, peer[d], TRUE)
    BY <2>1, <2>3 DEF PingInv, Timed
  <2>5. m.traffic \in Nat /\ KeepAlive \in Nat
    BY <2>1, MembersAre, Limits
  <2> HIDE DEF m, n
  <2>6. ASSUME Minds(n, peer[d]) PROVE ~n.sentPing /\ n.traffic <= KeepAlive + 1
    <3>1. Minds(m, peer[d]) /\ Talking(d)
      BY <2>1, <2>2, <2>6 DEF Minds, Talking
    <3>2. ~peer[d].pinged /\ m.recv = <<>>
      BY <1>1, <2>1, <3>1 DEF m, Minds
    <3>3. ~PongComes(m, peer[d])
      BY <3>2 DEF PongComes
    <3>4. ~m.sentPing /\ m.traffic <= KeepAlive
      BY <2>4, <3>1, <3>3 DEF Timed
    <3>5. QED
      BY <2>2, <2>5, <3>4
  <2>7. Timed(n, peer[d], FALSE)
    BY <2>6 DEF Timed
  <2>8. QED
    BY <2>3, <2>7 DEF n, Timed
<1>5. QED
  BY <1>3, <1>4 DEF PingInv

\* What is published leaves the peer as it is, but for what it knows.
LEMMA PublishedPing ==
    ASSUME SubInv, NEW e, NEW v, publish_state(e, v), NEW d \in Conn
    PROVE  /\ peer'[d].alive = peer[d].alive /\ peer'[d].tcp = peer[d].tcp
           /\ peer'[d].unasked = peer[d].unasked /\ peer'[d].pinged = peer[d].pinged
<1>1. PICK got \in SUBSET {c \in clients : Hears(c) /\ e \in Public /\ TRUE \in Room(conn[c])} :
       peer' = [c \in Conn |->
                  IF c \in clients /\ Hears(c) /\ e \in Public
                  THEN IF BufferMayFill \/ conn[c].remove
                       THEN Told(peer[c], e, v, c \in got)
                       ELSE Told(peer[c], e, v, TRUE)
                  ELSE peer[c]]
  BY DEF publish_state
<1>2. peer[d] \in PeerRecord
  BY DEF SubInv
<1>3. ASSUME NEW w
      PROVE  LET q == [peer[d] EXCEPT !.known[e] = w]
             IN  /\ q.alive = peer[d].alive /\ q.tcp = peer[d].tcp
                 /\ q.unasked = peer[d].unasked /\ q.pinged = peer[d].pinged
  BY <1>2 DEF PeerRecord
<1>4. \/ peer'[d] = peer[d] \/ peer'[d] = Told(peer[d], e, v, d \in got)
      \/ peer'[d] = Told(peer[d], e, v, TRUE)
  BY <1>1
<1>5. peer'[d] = peer[d] \/ \E w : peer'[d] = [peer[d] EXCEPT !.known[e] = w]
  BY <1>4 DEF Told
<1>6. QED
  BY <1>3, <1>5

LEMMA UpdatePing == ASSUME SubInv, PingInv, Update PROVE PingInv'
<1>1. UNCHANGED <<pc, cur, todo, conn, life, ran>>
  BY DEF Update
<1>2. \A d \in Conn : Served(d)' <=> Served(d)
  BY <1>1 DEF Served
<1>3. \A d \in Conn : /\ peer'[d].alive = peer[d].alive /\ peer'[d].tcp = peer[d].tcp
                      /\ peer'[d].unasked = peer[d].unasked /\ peer'[d].pinged = peer[d].pinged
  BY PublishedPing DEF Update
<1>4. ASSUME NEW d \in Conn, life[d] = "open" PROVE Timed(conn[d], peer'[d], Served(d)')
  BY <1>2, <1>3, <1>4 DEF PingInv, Timed, Minds, PongComes
<1>5. QED
  BY <1>1, <1>4 DEF PingInv

-----------------------------------------------------------------------------
\* A message is taken off: it was the pong only if no ping is under way now.
LEMMA PoppedTimed ==
    ASSUME NEW m0, IsConnection(m0), m0.recv # <<>>, NEW m, IsConnection(m),
           m.recv = m0.recv, m.remove = m0.remove,
           m.sentPing => m0.sentPing /\ m0.recv[1] # "pong",
           NEW p, NEW q, NEW b, Timed(m0, p, b),
           q.alive = p.alive, q.tcp = p.tcp, q.unasked = p.unasked, q.pinged = p.pinged
    PROVE  Timed(Popped(m), q, b)
<1>1. CASE m.remove
  BY <1>1, ClosedTimed DEF Popped
<1>2. CASE ~m.remove
  <2> DEFINE s == Tail(m0.recv)
             n == [m EXCEPT !.recv = s, !.traffic = 0]
  <2>1. m \in Members /\ m0.recv \in Seq(Word)
    BY MembersAre
  <2>2. Popped(m) = n
    BY <1>2 DEF Popped
  <2>3. /\ n.recv = s /\ n.remove = m.remove /\ n.sentPing = m.sentPing /\ n.traffic = 0
    BY <2>1 DEF Members
  <2> HIDE DEF n
  <2>4. ASSUME m.sentPing, PongComes(m0, p) PROVE PongComes(n, q)
    <3>1. m0.recv[1] # "pong"
      BY <2>4
    <3>2. CASE p.pinged
      BY <3>2 DEF PongComes
    <3>3. CASE ~p.pinged
      <4>1. PICK i \in DOMAIN m0.recv : m0.recv[i] = "pong"
        BY <2>4, <3>3 DEF PongComes
      <4>2. Len(m0.recv) \in Nat /\ i \in 1 .. Len(m0.recv) /\ i # 1
        BY <2>1, <3>1, <4>1
      <4>3. i - 1 \in DOMAIN s /\ s[i - 1] = m0.recv[i]
        BY <2>1, <4>2
      <4>4. QED
        BY <2>3, <4>1, <4>3 DEF PongComes
    <3>4. QED
      BY <3>2, <3>3
  <2>5. Minds(n, q) => Minds(m0, p)
    BY <2>3 DEF Minds
  <2>6. n.traffic <= KeepAlive + 1 /\ n.traffic <= KeepAlive
    BY <2>3, Limits
  <2>7. Timed(n, q, b)
    BY <2>3, <2>4, <2>5, <2>6 DEF Timed
  <2>8. QED
    BY <2>2, <2>7
<1>3. QED
  BY <1>1, <1>2

LEMMA ParseOnePing == ASSUME IInv, SubInv, PingInv, ParseOne PROVE PingInv'
<1>1. PICK c \in cur :
          /\ ~conn[c].remove /\ conn[c].recv # <<>>
          /\ \/ /\ conn[c].recv[1] # "pong"
                /\ \/ \E right \in BOOLEAN : Hello(c) \/ Connect(c, right) \/ Disconnect(c)
                   \/ DisconnectResponse(c) \/ Answered(c, conn[c])
                   \/ DeviceInfo(c) \/ Refused(c) \/ Handled(c, conn[c])
                   \/ ListEntities(c) \/ SubscribeStates(c) \/ SubscribeLogs(c)
                   \/ \E v \in {"on", "off"} : SwitchCommand(c, v)
             \/ PingResponse(c)
  BY DEF ParseOne, ForUsers
<1>2. /\ c \in Conn /\ IsConnection(conn[c]) /\ conn \in [Conn -> Members]
      /\ peer[c] \in PeerRecord /\ c \in clients
      /\ UNCHANGED <<pc, cur, todo, life, ran>> /\ pc = "parse"
  BY DEF IInv, TypeOK, SubInv, ParseOne
<1>3. life[c] = "open"
  BY <1>2 DEF IInv, Alive, TypeOK
<1>4. \A d \in Conn : Served(d)' <=> Served(d)
  BY <1>2 DEF Served
<1>5. \A d \in Conn \ {c} : Served(d)' => Served(d)
  BY <1>4
<1>6. Timed(conn[c], peer[c], Served(c)')
  BY <1>2, <1>3, <1>4 DEF PingInv, Timed
<1>7. CASE \E v \in {"on", "off"} : conn[c].recv[1] # "pong" /\ SwitchCommand(c, v)
  <2>1. PICK v \in {"on", "off"}, e \in Switches :
            /\ UNCHANGED peer \/ publish_state(e, v)
            /\ conn' = [conn EXCEPT ![c] = Popped(conn[c])]
    BY <1>7 DEF SwitchCommand
  <2>2. \A d \in Conn : /\ peer'[d].alive = peer[d].alive /\ peer'[d].tcp = peer[d].tcp
                        /\ peer'[d].unasked = peer[d].unasked /\ peer'[d].pinged = peer[d].pinged
    BY <2>1, PublishedPing
  <2>3. Timed(Popped(conn[c]), peer'[c], Served(c)')
    BY <1>1, <1>2, <1>6, <1>7, <2>2, PoppedTimed
  <2>4. conn'[c] = Popped(conn[c]) /\ \A d \in Conn \ {c} : conn'[d] = conn[d]
    BY <1>2, <2>1
  <2>5. ASSUME NEW d \in Conn, life[d] = "open" PROVE Timed(conn'[d], peer'[d], Served(d)')
    <3>1. CASE d = c
      BY <2>3, <2>4, <3>1
    <3>2. CASE d # c
      <4>1. Timed(conn[d], peer[d], Served(d)')
        BY <1>4, <2>5 DEF PingInv, Timed
      <4>2. conn'[d] = conn[d]
        BY <2>4, <3>2
      <4>3. QED
        BY <2>2, <4>1, <4>2 DEF Timed, Minds, PongComes
    <3>3. QED
      BY <3>1, <3>2
  <2>6. \A d \in Conn : life'[d] = "none" => conn'[d].traffic = 0 /\ ~conn'[d].sentPing
    BY <1>2, <1>3, <2>4 DEF PingInv
  <2>7. QED
    BY <1>2, <2>5, <2>6 DEF PingInv
<1>8. CASE conn[c].recv[1] # "pong" /\ ListEntities(c)
  <2> DEFINE m == [conn[c] EXCEPT !.list = Started]
             p == [peer[c] EXCEPT !.listed = <<>>, !.told = FALSE]
  <2>1. conn' = [conn EXCEPT ![c] = Popped(m)] /\ peer' = [peer EXCEPT ![c] = p]
    BY <1>8 DEF ListEntities
  <2>2. IsConnection(m) /\ m.recv = conn[c].recv /\ m.remove = conn[c].remove
        /\ m.sentPing = conn[c].sentPing
    BY <1>2, Changed DEF IsConnection, Members
  <2>3. p.alive = peer[c].alive /\ p.tcp = peer[c].tcp /\ p.unasked = peer[c].unasked
        /\ p.pinged = peer[c].pinged
    BY <1>2 DEF PeerRecord
  <2> HIDE DEF m, p
  <2>4. Timed(Popped(m), p, Served(c)')
    BY <1>1, <1>2, <1>6, <1>8, <2>2, <2>3, PoppedTimed
  <2>5. QED
    BY <1>2, <1>3, <1>5, <2>1, <2>4, OneTimed
<1>9. ASSUME NEW m, IsConnection(m), m.recv = conn[c].recv, m.remove = conn[c].remove,
             m.sentPing => conn[c].sentPing /\ conn[c].recv[1] # "pong",
             Answered(c, m) \/ Handled(c, m) \/ (Fatal(c, m) /\ UNCHANGED value)
      PROVE  PingInv'
  <2>1. CASE conn' = [conn EXCEPT ![c] = Popped(m)] /\ peer' = peer
    <3>1. Timed(Popped(m), peer[c], Served(c)')
      BY <1>1, <1>2, <1>6, <1>9, PoppedTimed
    <3>2. QED
      BY <1>2, <1>3, <1>5, <2>1, <3>1, OneTimed
  <2>2. CASE conn' = [conn EXCEPT ![c] = Close(m)]
    <3>1. PICK p : peer' = [peer EXCEPT ![c] = p] \/ (peer' = peer /\ p = peer[c])
      BY <1>9, <2>2 DEF Answered, Handled, Fatal
    <3>2. Timed(Close(m), p, Served(c)')
      BY <1>9, Changed, ClosedTimed
    <3>3. QED
      BY <1>2, <1>3, <1>5, <2>2, <3>1, <3>2, OneTimed
  <2>3. QED
    BY <1>9, <2>1, <2>2 DEF Answered, Handled, Fatal
<1> DEFINE m0 == conn[c]
           ms == {m0, [m0 EXCEPT !.state = "CONNECTED"], [m0 EXCEPT !.state = "AUTHENTICATED"],
                  [m0 EXCEPT !.nextClose = TRUE], [m0 EXCEPT !.logs = TRUE],
                  [m0 EXCEPT !.subscribed = TRUE, !.initial = Started]}
           mp == [m0 EXCEPT !.sentPing = FALSE]
<1>10. /\ \A m \in ms : /\ IsConnection(m) /\ m.recv = m0.recv /\ m.remove = m0.remove
                        /\ m.sentPing = m0.sentPing
       /\ IsConnection(mp) /\ mp.recv = m0.recv /\ mp.remove = m0.remove /\ mp.sentPing = FALSE
  <2>1. /\ IsConnection([m0 EXCEPT !.nextClose = TRUE]) /\ IsConnection(mp)
        /\ IsConnection([m0 EXCEPT !.logs = TRUE])
        /\ IsConnection([m0 EXCEPT !.state = "CONNECTED"])
        /\ IsConnection([m0 EXCEPT !.state = "AUTHENTICATED"])
        /\ IsConnection([m0 EXCEPT !.subscribed = TRUE, !.initial = Started])
    BY <1>2, Changed
  <2>2. m0 \in Members
    BY <1>2 DEF IsConnection
  <2> HIDE DEF m0
  <2>3. \A m \in ms : m.recv = m0.recv /\ m.remove = m0.remove /\ m.sentPing = m0.sentPing
    BY <2>2 DEF Members
  <2>4. mp.recv = m0.recv /\ mp.remove = m0.remove /\ mp.sentPing = FALSE
    BY <2>2 DEF Members
  <2>5. IsConnection(m0)
    BY <1>2 DEF m0
  <2>6. QED
    BY <2>1, <2>3, <2>4, <2>5
<1>11. CASE PingResponse(c)
  <2>1. Handled(c, mp)
    BY <1>11 DEF PingResponse
  <2> HIDE DEF mp
  <2>2. QED
    BY <1>9, <1>10, <2>1
<1>12. CASE conn[c].recv[1] # "pong"
            /\ ~(ListEntities(c) \/ PingResponse(c) \/ \E v \in {"on", "off"} : SwitchCommand(c, v))
  <2>1. \E m \in ms : Answered(c, m) \/ Handled(c, m) \/ (Fatal(c, m) /\ UNCHANGED value)
    BY <1>1, <1>12 DEF Hello, Connect, Disconnect, DisconnectResponse, DeviceInfo,
                       Refused, SubscribeStates, SubscribeLogs
  <2>2. QED
    BY <1>9, <1>10, <1>12, <2>1
<1>13. QED
  BY <1>1, <1>7, <1>8, <1>11, <1>12

\* The iterators leave everything else of a connection and its client as it is.
LEMMA RoundOf ==
    ASSUME NEW c \in Conn, IsConnection(conn[c]), peer[c] \in PeerRecord,
           value \in [Entity -> {"on", "off"}],
           NEW s1 \in BOOLEAN, NEW s2 \in BOOLEAN, NEW s3 \in BOOLEAN
    PROVE  \E m, p : /\ Round(c, s1, s2, s3) = KeepaliveStep(c, m, p, s3)
                     /\ IsConnection(m) /\ p \in PeerRecord
                     /\ m.remove = conn[c].remove /\ m.sentPing = conn[c].sentPing
                     /\ m.recv = conn[c].recv /\ m.traffic = conn[c].traffic
                     /\ p.alive = peer[c].alive /\ p.tcp = peer[c].tcp
                     /\ p.unasked = peer[c].unasked /\ p.pinged = peer[c].pinged
<1> DEFINE m == [conn[c] EXCEPT !.list = advance(@, s1), !.initial = InitialNext(c, s2)]
           p1 == ListStep(c, peer[c], s1)
           p == InitialStep(c, p1, s2)
<1>1. Round(c, s1, s2, s3) = KeepaliveStep(c, m, p, s3)
  BY DEF Round
<1>2. IsIterator(conn[c].list) /\ IsIterator(conn[c].initial) /\ conn[c] \in Members
  BY DEF IsConnection
<1>3. /\ IsConnection(m) /\ m.remove = conn[c].remove /\ m.sentPing = conn[c].sentPing
      /\ m.recv = conn[c].recv /\ m.traffic = conn[c].traffic
  <2>1. IsIterator(advance(conn[c].list, s1)) /\ IsIterator(InitialNext(c, s2))
    BY <1>2, Advances DEF InitialNext
  <2>2. /\ conn[c] \in Members /\ Len(conn[c].recv) <= RecvMax
        /\ advance(conn[c].list, s1) \in [state : NONE .. MAX, at : Nat]
        /\ InitialNext(c, s2) \in [state : NONE .. MAX, at : Nat]
    BY <2>1 DEF IsConnection, IsIterator
  <2>3. /\ m \in Members /\ m.recv = conn[c].recv
        /\ m.list = advance(conn[c].list, s1) /\ m.initial = InitialNext(c, s2)
        /\ m.remove = conn[c].remove /\ m.sentPing = conn[c].sentPing
        /\ m.traffic = conn[c].traffic
    BY <2>2 DEF Members
  <2>4. QED
    BY <2>1, <2>2, <2>3 DEF IsConnection
<1>4. /\ p1 \in PeerRecord
      /\ p1.alive = peer[c].alive /\ p1.tcp = peer[c].tcp
      /\ p1.unasked = peer[c].unasked /\ p1.pinged = peer[c].pinged
  <2>1. CASE Sends(conn[c].list) /\ s1
    <3> DEFINE s == Append(peer[c].listed, Item(conn[c].list))
    <3>1. s \in Seq(Entity)
      BY <1>2, <2>1, ItemType DEF Sends, PeerRecord
    <3>2. p1 = [peer[c] EXCEPT !.listed = s]
      BY <2>1 DEF ListStep
    <3> HIDE DEF s, p1
    <3>3. QED
      BY <3>1, <3>2 DEF PeerRecord
  <2>2. CASE ~(Sends(conn[c].list) /\ s1)
    <3>1. p1 \in {peer[c], [peer[c] EXCEPT !.told = TRUE]}
      BY <2>2 DEF ListStep
    <3> HIDE DEF p1
    <3>2. QED
      BY <3>1 DEF PeerRecord
  <2>3. QED
    BY <2>1, <2>2
<1> HIDE DEF p1
<1>5. /\ p \in PeerRecord
      /\ p.alive = p1.alive /\ p.tcp = p1.tcp /\ p.unasked = p1.unasked /\ p.pinged = p1.pinged
  <2> DEFINE it == conn[c].initial
  <2>1. CASE Sends(it) /\ Item(it) \notin Services /\ s2
    <3> DEFINE k == [p1.known EXCEPT ![Item(it)] = value[Item(it)]]
    <3>1. Item(it) \in Entity
      BY <1>2, <2>1, ItemType DEF Sends
    <3>2. p = [p1 EXCEPT !.known = k]
      BY <2>1 DEF InitialStep
    <3>3. k \in [Entity -> {"on", "off", Unknown, Missed}]
      <4>1. p1.known \in [Entity -> {"on", "off", Unknown, Missed}] /\ value[Item(it)] \in {"on", "off"}
        BY <1>4, <3>1 DEF PeerRecord
      <4>2. QED
        BY <4>1
    <3> HIDE DEF k, p
    <3>4. QED
      BY <1>4, <3>2, <3>3 DEF PeerRecord
  <2>2. CASE ~(Sends(it) /\ Item(it) \notin Services /\ s2)
    BY <1>4, <2>2 DEF InitialStep
  <2>3. QED
    BY <2>1, <2>2
<1>6. QED
  BY <1>1, <1>3, <1>4, <1>5

\* What the ping makes of them: it is asked when it is time, and closed when it is overdue.
LEMMA KeepsTime ==
    ASSUME NEW m, IsConnection(m), NEW p \in PeerRecord, NEW sent \in BOOLEAN, NEW b,
           Timed(m, p, b)
    PROVE  LET r == KeepaliveStep(<<>>, m, p, sent)
           IN  Timed(r.m, r.p, TRUE) /\ (Minds(m, p) => ~r.m.remove)
<1> DEFINE r == KeepaliveStep(<<>>, m, p, sent)
<1> SUFFICES Timed(r.m, r.p, TRUE) /\ (Minds(m, p) => ~r.m.remove)
  OBVIOUS
<1>1. m \in Members /\ m.traffic \in Nat /\ m.sentPing \in BOOLEAN
  BY MembersAre
<1>2. CASE m.sentPing /\ m.traffic > Patience
  <2>1. r.m = Close(m) /\ r.p = Hangup(p)
    BY <1>2 DEF KeepaliveStep
  <2>2. Close(m).remove
    BY Changed
  <2>3. ~Minds(m, p)
    BY <1>1, <1>2, PatienceLasts DEF Timed
  <2> HIDE DEF r
  <2>4. QED
    BY <2>1, <2>2, <2>3, ClosedTimed
<1>3. CASE (m.sentPing /\ ~(m.traffic > Patience)) \/ (~m.sentPing /\ ~(m.traffic > KeepAlive))
  <2>1. r.m = m /\ r.p = p
    BY <1>3 DEF KeepaliveStep
  <2>2. Timed(m, p, TRUE)
    BY <1>1, <1>3, Limits DEF Timed
  <2> HIDE DEF r
  <2>3. QED
    BY <2>1, <2>2 DEF Minds
<1>4. CASE ~m.sentPing /\ m.traffic > KeepAlive
  <2> DEFINE n == [m EXCEPT !.sentPing = TRUE]
             q == IF sent THEN [p EXCEPT !.pinged = TRUE] ELSE [p EXCEPT !.unasked = TRUE]
  <2>1. r.m = n /\ r.p = q
    BY <1>4 DEF KeepaliveStep
  <2>2. n.remove = m.remove /\ n.traffic = m.traffic /\ n.sentPing = TRUE
    BY <1>1 DEF Members
  <2>3. /\ q.alive = p.alive /\ q.tcp = p.tcp /\ (sent => q.pinged /\ q.unasked = p.unasked)
        /\ (~sent => q.unasked)
    BY DEF PeerRecord
  <2> HIDE DEF n, q, r
  <2>4. Timed(n, q, TRUE)
    BY <2>2, <2>3 DEF Timed, Minds, PongComes
  <2>5. QED
    BY <2>1, <2>2, <2>4 DEF Minds
<1>5. QED
  BY <1>1, <1>2, <1>3, <1>4

\* One round: who is closed by it is not minded.
LEMMA AdvanceTimed ==
    ASSUME IInv, SubInv, PingInv, Advance
    PROVE  /\ PingInv'
           /\ \A d \in Conn : conn'[d].remove /\ ~conn[d].remove /\ Talking(d) => peer'[d].unasked
<1>1. PICK c \in cur : \E s1, s2, s3 \in Room(conn[c]) :
          /\ conn' = [conn EXCEPT ![c] = Round(c, s1, s2, s3).m]
          /\ peer' = [peer EXCEPT ![c] = Round(c, s1, s2, s3).p]
  BY DEF Advance
<1>2. Room(conn[c]) \subseteq BOOLEAN
  BY DEF Room
<1>3. PICK s1 \in BOOLEAN, s2 \in BOOLEAN, s3 \in BOOLEAN :
          /\ conn' = [conn EXCEPT ![c] = Round(c, s1, s2, s3).m]
          /\ peer' = [peer EXCEPT ![c] = Round(c, s1, s2, s3).p]
  BY <1>1, <1>2
<1>4. /\ c \in Conn /\ c \in clients /\ IsConnection(conn[c]) /\ peer[c] \in PeerRecord
      /\ conn \in [Conn -> Members] /\ peer \in [Conn -> PeerRecord]
      /\ value \in [Entity -> {"on", "off"}] /\ cur = {c}
  BY DEF IInv, TypeOK, SubInv
<1>5. pc = "advance" /\ pc' = "serve" /\ cur' = {} /\ UNCHANGED <<todo, life, ran>>
  BY DEF Advance
<1>6. life[c] = "open"
  BY <1>4, <1>5 DEF IInv, Alive, TypeOK
<1>7. \A d \in Conn \ {c} : Served(d)' => Served(d)
  BY <1>4, <1>5 DEF Served
<1>8. PICK m, p : /\ Round(c, s1, s2, s3) = KeepaliveStep(c, m, p, s3)
                  /\ IsConnection(m) /\ p \in PeerRecord
                  /\ m.remove = conn[c].remove /\ m.sentPing = conn[c].sentPing
                  /\ m.recv = conn[c].recv /\ m.traffic = conn[c].traffic
                  /\ p.alive = peer[c].alive /\ p.tcp = peer[c].tcp
                  /\ p.unasked = peer[c].unasked /\ p.pinged = peer[c].pinged
  BY <1>4, RoundOf
<1> DEFINE r == KeepaliveStep(c, m, p, s3)
<1>9. Timed(m, p, Served(c))
  <2>1. Timed(conn[c], peer[c], Served(c))
    BY <1>4, <1>6 DEF PingInv
  <2>2. QED
    BY <1>8, <2>1 DEF Timed, Minds, PongComes
<1>10. r = KeepaliveStep(<<>>, m, p, s3)
  BY DEF KeepaliveStep
<1>11. Timed(r.m, r.p, TRUE) /\ (Minds(m, p) => ~r.m.remove)
  <2> HIDE DEF r
  <2>1. QED
    BY <1>8, <1>9, <1>10, KeepsTime
<1>12. p.unasked => r.p.unasked
  BY <1>8 DEF KeepaliveStep, Hangup, PeerRecord
<1> HIDE DEF r
<1>13. conn' = [conn EXCEPT ![c] = r.m] /\ peer' = [peer EXCEPT ![c] = r.p]
  BY <1>3, <1>8 DEF r
<1>14. PingInv'
  <2>1. Timed(r.m, r.p, Served(c)')
    BY <1>11 DEF Timed
  <2>2. QED
    BY <1>4, <1>5, <1>6, <1>7, <1>13, <2>1, OneTimed
<1>15. ASSUME NEW d \in Conn, conn'[d].remove, ~conn[d].remove, Talking(d) PROVE peer'[d].unasked
  <2>1. d = c
    BY <1>4, <1>13, <1>15
  <2>2. conn'[c] = r.m /\ peer'[c] = r.p
    BY <1>4, <1>13
  <2>3. ~Minds(m, p)
    BY <1>11, <1>15, <2>1, <2>2
  <2>4. p.unasked
    BY <1>8, <1>15, <2>1, <2>3 DEF Minds, Talking
  <2>5. QED
    BY <1>12, <2>1, <2>2, <2>4
<1>16. QED
  BY <1>14, <1>15

LEMMA PingStep == IInv /\ SubInv /\ PingInv /\ [Next]_vars => PingInv'
<1> SUFFICES ASSUME IInv, SubInv, PingInv, [Next]_vars PROVE PingInv'
  OBVIOUS
<1>1. CASE Loop
  BY <1>1, LoopPing, DeletePing, ServePing, ParseOnePing, AdvanceTimed, FreshPing DEF Loop, Reboot
<1>2. CASE Tick \/ NetChanges \/ Update
  BY <1>2, TickPing, LoopPing, UpdatePing
<1>3. CASE Shutdown
  BY <1>3, FreshPing DEF Shutdown
<1>4. ASSUME NEW c \in Conn,
             Accept(c) \/ Says(c) \/ Pong(c) \/ PeerCloses(c) \/ PeerVanishes(c) \/ on_timeout(c)
      PROVE  PingInv'
  BY <1>4, PeerPing
<1>5. CASE UNCHANGED vars
  <2>1. \A d \in Conn : Served(d)' <=> Served(d)
    BY <1>5 DEF vars, Served
  <2>2. QED
    BY <1>5, <2>1, NoneTimed DEF vars
<1>6. QED
  BY <1>1, <1>2, <1>3, <1>4, <1>5 DEF Next

\* Of the loop's own steps only a connection's round ends with the next one's turn.
LEMMA OnlyAdvance == [Next]_vars /\ pc = "advance" /\ pc' = "serve" => Advance
BY DEF Next, Loop, LoopStart, LogDisconnects, Delete, Erase, Serve, ParseOne, ParseDone, LoopEnd,
       Reboot, Tick, NetChanges, Update, Shutdown, Fresh, Accept, Says, Pong, PeerCloses,
       PeerVanishes, on_timeout, vars

\* Nobody who answers is cut off for silence: a connection that the keepalive closes has lost
\* its client, or its ping found no room and was never sent (api_connection.cpp:118-128).
THEOREM ResponsiveAreKept == Spec => ResponsiveIsKept
<1>1. Init => PingInv
  <2> SUFFICES ASSUME Init PROVE PingInv
    OBVIOUS
  <2>1. conn = [c \in Conn |-> NewConn] /\ life = [c \in Conn |-> "none"]
    BY DEF Init
  <2>2. NewConn.traffic = 0 /\ ~NewConn.sentPing
    BY DEF NewConn
  <2>3. QED
    BY <2>1, <2>2 DEF PingInv
<1>2. IInv /\ SubInv /\ PingInv /\ [Next]_vars
        => [pc = "advance" /\ pc' = "serve" =>
              \A c \in Conn : conn'[c].remove /\ ~conn[c].remove /\ Talking(c)
                  => peer'[c].unasked]_vars
  BY OnlyAdvance, AdvanceTimed
<1>3. QED
  BY <1>1, <1>2, InitInv, StepInv, SubInit, SubStep, PingStep, PTL DEF Spec, ResponsiveIsKept
=============================================================================
