------------------------------- MODULE Streams -------------------------------
(***************************************************************************)
(* Small servers that take one connection after the other, and their       *)
(* clients: week4/uds_server.py ("uds"), hello_conn.c and hello_conn_tcp.c *)
(* of week6 ("hello"), and two programs that fork a server and a client,   *)
(* close_shutdown.c ("shutdown") and connect_bind.c ("bind").              *)
(*                                                                         *)
(* The server may be killed, and started again.  There are fewer clients   *)
(* than a backlog has places.                                              *)
(***************************************************************************)
EXTENDS Integers, Sequences, FiniteSets

CONSTANTS Programs, Clients, None,
          MaxKills        \* bound: kills, and starts of the server after the first

VARIABLES program,
          server,         \* "start", "bound", "accept", "recv", "reply", "close" or an end
          name,           \* the address: "no" (free), "used", or "port" (used by past connections)
          backlog, conn,  \* connections not accepted, and the one that is served
          queue,          \* of each connection, what the client has sent and is unread
          answer,         \* what the server has sent to each client
          closed,         \* connections that the server's side has closed
          pc,             \* of each client
          got,            \* what each client received
          kills, starts

srv == <<server, name, backlog, conn>>
net == <<queue, answer, closed>>
cli == <<pc, got>>
vars == <<program, srv, net, cli, kills, starts>>

Init ==
  /\ program \in Programs
  /\ server = "start" /\ name = "no" /\ backlog = <<>> /\ conn = None
  /\ queue = [c \in Clients |-> <<>>] /\ answer = [c \in Clients |-> <<>>] /\ closed = {}
  \* a program that forks has one client
  /\ \E one \in Clients :
       pc = [c \in Clients |-> IF program \in {"uds", "hello"} \/ c = one THEN "start" ELSE "none"]
  /\ got = [c \in Clients |-> <<>>]
  /\ kills = 0 /\ starts = 1

Up == server \in {"accept", "recv", "reply", "close"}
Ends == {"none", "refused", "reset", "answered", "empty", "sigpipe", "killed"}
Gone(c) == pc[c] \in Ends
-----------------------------------------------------------------------------
(* The server.                                                             *)

\* an address that is occupied makes it fail
Bind ==
  /\ server = "start"
  /\ server' = IF name = "no" THEN "bound" ELSE "in use"
  /\ name' = IF name = "no" THEN "used" ELSE name
  /\ UNCHANGED <<program, backlog, conn, net, cli, kills, starts>>

Listen ==
  /\ server = "bound" /\ program # "bind"
  /\ server' = "accept"
  /\ UNCHANGED <<program, name, backlog, conn, net, cli, kills, starts>>

\* connect_bind.c does not listen
EndBound ==
  /\ server = "bound" /\ program = "bind"
  /\ server' = "done" /\ name' = "no"
  /\ UNCHANGED <<program, backlog, conn, net, cli, kills, starts>>

\* A path stays when a process dies; a port stays occupied for some time by connections
\* that this side has closed first.
Left == IF program = "uds" THEN {"used"} ELSE {"port", "no"}

\* hello_conn.c does not set addrlen: accept fails if it is negative
Accept ==
  /\ server = "accept" /\ backlog # <<>>
  /\ backlog' = Tail(backlog)
  /\ \/ /\ conn' = Head(backlog) /\ server' = IF program = "hello" THEN "reply" ELSE "recv"
        /\ UNCHANGED <<name, closed>>
     \/ /\ program = "hello"
        /\ server' = "failed" /\ closed' = Clients /\ name' \in Left /\ UNCHANGED conn
  /\ UNCHANGED <<program, queue, answer, cli, kills, starts>>

\* A message, or nothing once the client has gone or has shut down: that ends
\* close_shutdown.c, and uds_server.py sends its answer all the same, of no bytes.
Recv ==
  /\ server = "recv"
  /\ \/ queue[conn] # <<>> /\ server' = "reply" /\ UNCHANGED queue
     \/ /\ queue[conn] = <<>> /\ (Gone(conn) \/ pc[conn] = "after shutdown")
        /\ server' = IF program = "shutdown" THEN "done" ELSE "reply"
        /\ UNCHANGED queue
  /\ UNCHANGED <<program, name, backlog, conn, answer, closed, cli, kills, starts>>

\* mutant: the exception leaves the path
ReplyNoUnlink ==
  /\ server = "reply" /\ program = "uds" /\ Gone(conn)
  /\ queue' = [queue EXCEPT ![conn] = <<>>]
  /\ server' = "raised" /\ closed' = Clients
  /\ UNCHANGED <<program, name, backlog, conn, answer, cli, kills, starts>>

\* On a Unix socket a client that has gone is an exception, whatever is sent, which
\* unlinks the path; on a TCP connection the first write after it succeeds.
Reply ==
  /\ server = "reply"
  /\ queue' = [queue EXCEPT ![conn] = <<>>]
  /\ IF program = "uds" /\ Gone(conn)
       THEN /\ server' = "raised" /\ name' = "no" /\ closed' = Clients
            /\ UNCHANGED <<backlog, conn, answer>>
       ELSE /\ answer' = [answer EXCEPT ![conn] = Append(@, IF program = "hello" THEN "hello" ELSE conn)]
            /\ server' = IF program = "shutdown" THEN "recv" ELSE "close"
            /\ UNCHANGED <<name, backlog, conn, closed>>
  /\ UNCHANGED <<program, cli, kills, starts>>

\* mutant: the connection is left open
CloseNot ==
  /\ server = "close"
  /\ conn' = None /\ server' = "accept"
  /\ UNCHANGED <<program, name, backlog, net, cli, kills, starts>>

Close ==
  /\ server = "close"
  /\ closed' = closed \cup {conn} /\ conn' = None /\ server' = "accept"
  /\ UNCHANGED <<program, name, backlog, queue, answer, cli, kills, starts>>

KillServer ==
  /\ Up /\ kills < MaxKills /\ kills' = kills + 1
  /\ server' = "killed" /\ name' \in Left
  /\ closed' = Clients /\ backlog' = <<>>
  /\ UNCHANGED <<program, conn, queue, answer, cli, starts>>

TimeWaitEnds ==
  /\ name = "port" /\ name' = "no"
  /\ UNCHANGED <<program, server, backlog, conn, net, cli, kills, starts>>

Restart ==
  /\ server \in {"killed", "raised", "failed", "in use"} /\ program \in {"uds", "hello"}
  /\ starts <= MaxKills /\ starts' = starts + 1
  /\ server' = "start" /\ conn' = None /\ backlog' = <<>>
  /\ UNCHANGED <<program, name, net, cli, kills>>

-----------------------------------------------------------------------------
(* A client.                                                               *)

Goto(c, label) == pc' = [pc EXCEPT ![c] = label]

Connect(c) ==
  /\ pc[c] = "start"
  /\ IF Up THEN /\ backlog' = Append(backlog, c) /\ closed' = closed \ {c}
                /\ Goto(c, IF program = "hello" THEN "recv" ELSE "send")
     ELSE Goto(c, "refused") /\ UNCHANGED <<backlog, closed>>
  /\ UNCHANGED <<program, server, name, conn, queue, answer, got, kills, starts>>

Send(c) ==
  /\ pc[c] = "send"
  /\ IF c \in closed THEN (Goto(c, "reset") \/ (program # "uds" /\ Goto(c, "sigpipe"))) /\ UNCHANGED queue
     ELSE queue' = [queue EXCEPT ![c] = <<c>>] /\ Goto(c, "recv")
  /\ UNCHANGED <<program, srv, answer, closed, got, kills, starts>>

\* hello_conn.c reads to the end; uds_server.py and close_shutdown.c once
RecvClient(c) ==
  /\ pc[c] = "recv"
  /\ \/ /\ answer[c] # <<>>
        /\ got' = [got EXCEPT ![c] = @ \o answer[c]]
        /\ answer' = [answer EXCEPT ![c] = <<>>]
        /\ IF program = "hello" THEN UNCHANGED pc
           ELSE Goto(c, IF program = "shutdown" THEN "shutdown" ELSE "answered")
     \/ /\ answer[c] = <<>> /\ c \in closed
        /\ \/ Goto(c, IF program = "shutdown" THEN "shutdown"
                      ELSE IF got[c] = <<>> THEN "empty" ELSE "answered")
           \/ got[c] = <<>> /\ Goto(c, "reset")
        /\ UNCHANGED <<got, answer>>
  /\ UNCHANGED <<program, srv, queue, closed, kills, starts>>

\* SHUT_RDWR of one descriptor is that of the other, so send() is not possible
Shutdown(c) ==
  /\ pc[c] = "shutdown"
  /\ Goto(c, "after shutdown")
  /\ UNCHANGED <<program, srv, net, got, kills, starts>>

SendAfter(c) ==
  /\ pc[c] = "after shutdown"
  /\ Goto(c, "sigpipe")
  /\ UNCHANGED <<program, srv, net, got, kills, starts>>

KillClient(c) ==
  /\ ~ Gone(c) /\ kills < MaxKills /\ kills' = kills + 1
  /\ Goto(c, "killed")
  /\ UNCHANGED <<program, srv, net, got, starts>>

-----------------------------------------------------------------------------
server_loop == Bind \/ Listen \/ EndBound \/ Accept \/ Recv \/ Reply \/ Close
client(c) == Connect(c) \/ Send(c) \/ RecvClient(c) \/ Shutdown(c) \/ SendAfter(c)

Next ==
  \/ server_loop \/ KillServer \/ TimeWaitEnds \/ Restart
  \/ \E c \in Clients : client(c) \/ KillClient(c)

\* the processes run when they can
Spec ==
  /\ Init /\ [][Next]_vars
  /\ WF_vars(server_loop) /\ \A c \in Clients : WF_vars(client(c))

-----------------------------------------------------------------------------
(* Properties.                                                             *)

\* Every client ends, also behind others that are killed, and so does the server of
\* close_shutdown.c unless the client came too early: it then waits for ever.
ClientsEnd ==
  /\ \A c \in Clients : <>(Gone(c))
  /\ program = "shutdown" =>
       <>(server \in {"done", "killed"} \/ \E c \in Clients : pc[c] \in {"refused", "killed"})

Ended(label) == \E c \in Clients : pc[c] = label

\* A client that was let in gets its own answer, unless it or the server was killed or
\* accept failed, or (uds) another client was killed before its answer, even before it
\* sent anything, which ends the server.  Once it was killed itself, that server does not start again, as nothing
\* removes the path.
AnswersUnlessCause ==
  /\ \A c \in Clients :
       /\ pc[c] = "answered" => got[c] = << IF program = "hello" THEN "hello" ELSE c >>
       /\ pc[c] \in {"empty", "reset"} =>
            kills > 0 \/ (program = "hello" /\ (server = "failed" \/ starts > 1))
  /\ server = "raised" => Ended("killed") /\ name = "no"
  /\ program = "uds" /\ Up /\ starts > 1 => Ended("killed")
=============================================================================
