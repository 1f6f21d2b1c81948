----------------------------- MODULE Api_Tasks -----------------------------
(***************************************************************************)
(* Api with the other tasks let in while connections are removed: lwIP's   *)
(* task accepts a connection (api_server.cpp:25-35), and a task logs, as   *)
(* the sampling task of DetailShell does (shell_detail.cpp:126).           *)
(***************************************************************************)
EXTENDS Api

\* push_back puts it behind new_end, among those to be deleted.
AcceptInWindow(c) ==
    /\ life[c] = "none" /\ c \in DOMAIN vocab /\ net /\ pc \in Window
    /\ life' = [life EXCEPT ![c] = "open"]
    /\ clients' = clients \cup {c} /\ doomed' = doomed \cup {c}
    /\ UNCHANGED <<pc, cur, todo, conn, peer, vocab, value, idleAge, net, freed, ran>>

TaskLogs ==
    /\ pc \in Window
    /\ ReadsClients
    /\ UNCHANGED <<pc, cur, todo, clients, doomed, life, conn, peer, vocab, value, idleAge, net, ran>>

TasksSpec == Init /\ [][Next \/ TaskLogs \/ \E c \in Conn : AcceptInWindow(c)]_vars
=============================================================================
