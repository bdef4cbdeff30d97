---------------------------- MODULE EpollServer ----------------------------
(***************************************************************************)
(* archive/2025-002-fall/week9/epoll_server.c: one thread that waits for   *)
(* events on a listening socket, on its connections and on the pipe the    *)
(* signal handler writes to.  Connections are TCP: a client may stop       *)
(* sending, close, leave unread what is sent to it, and a close with       *)
(* something unread becomes a reset.  What a client sends are numbered     *)
(* blocks; the server's reads and writes take and accept several of them.  *)
(***************************************************************************)
EXTENDS FiniteSetsExt, SequencesExt

CONSTANTS Clients,
          FdSets,         \* the descriptors that may be left for connections
          MaxSent,        \* bound: blocks sent by all clients together
          ReadBuf,        \* blocks that fit into read_buffer
          SndBuf          \* blocks sent to a client that it has not received

ASSUME BoundsAssumption ==
  /\ \A fds \in FdSets : IsFiniteSet(fds) /\ fds \subseteq Nat \ (0 .. 6)
  /\ MaxSent \in Nat /\ ReadBuf \in Nat \ {0} /\ SndBuf \in Nat \ {0}

None == "none"
ASSUME NoneAssumption == None \notin Clients

Listen == 3               \* sockfd
Pipe == 5                 \* self_pipe_read_end

VARIABLES client,         \* "new", "open", or "closed" by the client
          sent,           \* blocks sent by each client
          taken,          \* of these, blocks the server has read
          echoed,         \* blocks written back to each client: <<owner, number>>
          unread,         \* how many of these the client has not received
          fin, rst,       \* what has arrived from each client besides blocks
          short,          \* clients to which a write was cut short
          backlog,        \* connections not accepted yet
          conn,           \* the client behind each descriptor
          pipe,           \* whether the signal pipe has something to read
          pc,             \* "loop", "accept", "read", "write", "stopped", "failed"
          events,         \* what epoll_wait returned and was not handled yet
          cur, buf        \* fd, and read_buffer as a range of block numbers

clients == <<client, sent, fin, rst>>
data == <<taken, echoed, unread, short>>
server == <<backlog, conn, pc, events, cur, buf>>
vars == <<clients, data, server, pipe>>

Init ==
  /\ client = [c \in Clients |-> "new"]
  /\ sent = [c \in Clients |-> 0] /\ taken = sent /\ unread = sent
  /\ echoed = [c \in Clients |-> <<>>]
  /\ fin = [c \in Clients |-> FALSE] /\ rst = fin
  /\ short = {}
  /\ backlog = <<>> /\ conn \in UNION { [fds -> {None}] : fds \in FdSets } /\ pipe = FALSE
  /\ pc = "loop" /\ events = {}
  /\ cur = 0 /\ buf = [first |-> 1, last |-> 0]

Running == pc \notin {"stopped", "failed"}
Connected == { c \in Clients : c \in Range(conn) \cup Range(backlog) }
Fds == DOMAIN conn
Free == { f \in Fds : conn[f] = None }

-----------------------------------------------------------------------------
(* The clients and the signal.                                             *)

Connect(c) ==
  /\ Running /\ client[c] = "new"
  /\ client' = [client EXCEPT ![c] = "open"]
  /\ backlog' = Append(backlog, c)
  /\ UNCHANGED <<sent, fin, rst, data, conn, pc, events, cur, buf, pipe>>

Send(c) ==
  /\ Running /\ c \in Connected
  /\ client[c] = "open" /\ ~ fin[c]
  /\ MapThenSumSet(LAMBDA d : sent[d], Clients) < MaxSent
  /\ sent' = [sent EXCEPT ![c] = @ + 1]
  /\ UNCHANGED <<client, fin, rst, data, server, pipe>>

Receive(c) ==
  /\ Running /\ client[c] = "open" /\ unread[c] > 0
  /\ unread' = [unread EXCEPT ![c] = 0]
  /\ UNCHANGED <<clients, taken, echoed, short, server, pipe>>

\* shutdown(SHUT_WR)
Shutdown(c) ==
  /\ Running /\ c \in Connected
  /\ client[c] = "open" /\ ~ fin[c]
  /\ fin' = [fin EXCEPT ![c] = TRUE]
  /\ UNCHANGED <<client, sent, rst, data, server, pipe>>

Close(c) ==
  /\ Running /\ c \in Connected
  /\ client[c] = "open"
  /\ client' = [client EXCEPT ![c] = "closed"]
  /\ fin' = [fin EXCEPT ![c] = TRUE]
  /\ UNCHANGED <<sent, rst, data, server, pipe>>

\* the answer to what reaches a client that has closed
Reset(c) ==
  /\ Running /\ c \in Connected
  /\ client[c] = "closed" /\ unread[c] > 0 /\ ~ rst[c]
  /\ rst' = [rst EXCEPT ![c] = TRUE]
  /\ UNCHANGED <<client, sent, fin, data, server, pipe>>

\* SIGTERM and signal_handler, whatever the server is doing
Sigterm ==
  /\ Running
  /\ pipe' = TRUE
  /\ UNCHANGED <<clients, data, server>>

-----------------------------------------------------------------------------
(* The server.                                                             *)

Event(f, of, hup) == [fd |-> f, of |-> of, hup |-> hup]

\* mutant: EPOLLONESHOT, and nothing arms a connection again
ReadyOneShot ==
  (IF backlog # <<>> THEN {Event(Listen, None, FALSE)} ELSE {})
  \cup (IF pipe THEN {Event(Pipe, None, FALSE)} ELSE {})
  \cup { Event(f, conn[f], fin[conn[f]] \/ rst[conn[f]]) :
           f \in { g \in Fds \ Free : sent[conn[g]] > 0 /\ taken[conn[g]] = 0 } }

\* what epoll finds ready: level-triggered, one event for a descriptor
Ready ==
  (IF backlog # <<>> THEN {Event(Listen, None, FALSE)} ELSE {})
  \cup (IF pipe THEN {Event(Pipe, None, FALSE)} ELSE {})
  \cup { Event(f, conn[f], fin[conn[f]] \/ rst[conn[f]]) :
           f \in { g \in Fds \ Free : \/ sent[conn[g]] > taken[conn[g]]
                                      \/ fin[conn[g]] \/ rst[conn[g]] } }

\* epoll_wait; a signal only makes it start again
EpollWait ==
  /\ pc = "loop" /\ events = {}
  /\ Ready # {}
  /\ events' = Ready
  /\ UNCHANGED <<clients, data, backlog, conn, pc, cur, buf, pipe>>

\* the for loop takes an event of a connection, the listening socket, or the pipe
HandleRead ==
  /\ pc = "loop"
  /\ \E e \in events :
       /\ e.fd \in Fds /\ ~ e.hup
       /\ events' = events \ {e}
       /\ cur' = e.fd
  /\ pc' = "read"
  /\ UNCHANGED <<clients, data, backlog, conn, buf, pipe>>

\* mutant: closes all connections that have hung up at once
HandleHupAll ==
  /\ pc = "loop"
  /\ \E e \in events : e.fd \in Fds /\ e.hup /\ events' = events \ {e}
  /\ conn' = [f \in Fds |-> IF conn[f] # None /\ fin[conn[f]] THEN None ELSE conn[f]]
  /\ UNCHANGED <<clients, data, backlog, pc, cur, buf, pipe>>

HandleHup ==
  /\ pc = "loop"
  /\ \E e \in events :
       /\ e.fd \in Fds /\ e.hup
       /\ events' = events \ {e}
       /\ conn' = [conn EXCEPT ![e.fd] = None]
  /\ UNCHANGED <<clients, data, backlog, pc, cur, buf, pipe>>

HandleListen ==
  /\ pc = "loop"
  /\ \E e \in events : e.fd = Listen /\ events' = events \ {e}
  /\ pc' = "accept"
  /\ UNCHANGED <<clients, data, backlog, conn, cur, buf, pipe>>

\* mutant: the byte is read and forgotten
HandlePipeGoOn ==
  /\ pc = "loop"
  /\ \E e \in events : e.fd = Pipe /\ events' = events \ {e}
  /\ pipe' = FALSE
  /\ UNCHANGED <<clients, data, backlog, conn, pc, cur, buf>>

HandlePipe ==
  /\ pc = "loop"
  /\ \E e \in events : e.fd = Pipe /\ events' = events \ {e}
  /\ pc' = "stopped"
  /\ pipe' = FALSE
  /\ UNCHANGED <<clients, data, backlog, conn, cur, buf>>

\* accept4 takes the lowest free descriptor before it looks for a connection: EAGAIN
\* takes a free one as well, and without one EMFILE ends the server.
Accept ==
  /\ pc = "accept" /\ Free # {} /\ backlog # <<>>
  /\ conn' = [conn EXCEPT ![Min(Free)] = Head(backlog)]
  /\ backlog' = Tail(backlog)
  /\ UNCHANGED <<clients, data, pc, events, cur, buf, pipe>>

AcceptNone ==
  /\ pc = "accept" /\ Free # {} /\ backlog = <<>>
  /\ pc' = "loop"
  /\ UNCHANGED <<clients, data, backlog, conn, events, cur, buf, pipe>>

AcceptFails ==
  /\ pc = "accept" /\ Free = {}
  /\ pc' = "failed"
  /\ UNCHANGED <<clients, data, backlog, conn, events, cur, buf, pipe>>

Peer == conn[cur]

\* mutant: the whole buffer is echoed, whatever was read into it
ReadStale ==
  /\ pc = "read" /\ sent[Peer] > taken[Peer]
  /\ taken' = [taken EXCEPT ![Peer] = Min({sent[Peer], @ + ReadBuf})]
  /\ buf' = [first |-> Min({buf.first, taken[Peer] + 1}), last |-> taken'[Peer]]
  /\ pc' = "write"
  /\ UNCHANGED <<clients, echoed, unread, short, backlog, conn, events, cur, pipe>>

Read ==
  /\ pc = "read" /\ sent[Peer] > taken[Peer]
  /\ taken' = [taken EXCEPT ![Peer] = Min({sent[Peer], @ + ReadBuf})]
  /\ buf' = [first |-> taken[Peer] + 1, last |-> taken'[Peer]]
  /\ pc' = "write"
  /\ UNCHANGED <<clients, echoed, unread, short, backlog, conn, events, cur, pipe>>

\* mutant: EAGAIN ends the server
ReadNothingBail ==
  /\ pc = "read" /\ sent[Peer] = taken[Peer]
  /\ pc' = IF rst[Peer] \/ ~ fin[Peer] THEN "failed" ELSE "loop"
  /\ conn' = IF pc' = "loop" /\ fin[Peer] THEN [conn EXCEPT ![cur] = None] ELSE conn
  /\ cur' = 0
  /\ UNCHANGED <<clients, data, backlog, events, buf, pipe>>

\* nothing left: an error, the end of the stream, or EAGAIN
ReadNothing ==
  /\ pc = "read" /\ sent[Peer] = taken[Peer]
  /\ pc' = IF rst[Peer] THEN "failed" ELSE "loop"
  /\ conn' = IF ~ rst[Peer] /\ fin[Peer] THEN [conn EXCEPT ![cur] = None] ELSE conn
  /\ cur' = 0
  /\ UNCHANGED <<clients, data, backlog, events, buf, pipe>>

Blocks(c, first, last) == [k \in 1 .. last - first + 1 |-> <<c, first + k - 1>>]

\* as much as there is room for
Write ==
  /\ pc = "write" /\ ~ rst[Peer] /\ unread[Peer] < SndBuf
  /\ LET n == buf.last - buf.first + 1
         k == Min({n, SndBuf - unread[Peer]})
     IN  /\ echoed' = [echoed EXCEPT ![Peer] =
                         @ \o Blocks(Peer, buf.first, buf.first + k - 1)]
         /\ unread' = [unread EXCEPT ![Peer] = @ + k]
         /\ short' = IF k < n THEN short \cup {Peer} ELSE short
  /\ pc' = "read"
  /\ buf' = [first |-> 1, last |-> 0]
  /\ UNCHANGED <<clients, taken, backlog, conn, events, cur, pipe>>

\* EAGAIN, or the connection is no more (SIGPIPE included)
WriteFails ==
  /\ pc = "write" /\ (rst[Peer] \/ unread[Peer] = SndBuf)
  /\ pc' = "failed"
  /\ UNCHANGED <<clients, data, backlog, conn, events, cur, buf, pipe>>

Server ==
  \/ EpollWait \/ HandleRead \/ HandleHup \/ HandleListen \/ HandlePipe
  \/ Accept \/ AcceptNone \/ AcceptFails \/ Read \/ ReadNothing \/ Write \/ WriteFails

Client(c) ==
  Connect(c) \/ Send(c) \/ Receive(c) \/ Shutdown(c) \/ Close(c) \/ Reset(c)

Next == Server \/ Sigterm \/ \E c \in Clients : Client(c)

Spec == Init /\ [][Next]_vars

\* the server's thread is scheduled
FairSpec == Spec /\ WF_vars(Server)

-----------------------------------------------------------------------------
(* Properties.                                                             *)

\* An event is handled for the connection it was reported for: a descriptor that is
\* closed and given to a new connection while the events of one epoll_wait are
\* worked through has no event left among them, and none that is being read is closed.
EventsFresh ==
  /\ \A e \in events : e.fd \in Fds => conn[e.fd] = e.of
  /\ pc \in {"read", "write"} => cur \in Fds /\ Peer \in Clients

\* A client gets back its own blocks, none twice, in the order it sent them, and all
\* up to the last one it got unless a write to it was cut short.
EchoInOrder ==
  \A c \in Clients :
    /\ \A j, k \in DOMAIN echoed[c] : j < k => echoed[c][j][2] < echoed[c][k][2]
    /\ \A k \in DOMAIN echoed[c] : echoed[c][k][1] = c /\ echoed[c][k][2] <= sent[c]
    /\ c \notin short => \A k \in DOMAIN echoed[c] : echoed[c][k][2] = k

\* The server ends in an error only when it has given away all descriptors, whether or
\* not anybody waits for one, or because of a client whose connection was reset or which
\* does not read what it is sent.
FailureHasCause ==
  pc = "failed" =>
    \/ Free = {}
    \/ \E f \in Fds \ Free : rst[conn[f]] \/ unread[conn[f]] = SndBuf

\* After SIGTERM the server ends, also when it is busy with clients.
StopsOnSigterm == pipe ~> ~ Running

\* All that a client sent is sent back to it, unless the server ends: level-triggered
\* events bring back whatever one pass has left.  A client that says it will send no
\* more may be closed before, and what a short write leaves out is lost.
Answered ==
  \A c \in Clients :
    (Len(echoed[c]) < sent[c]) ~> (Len(echoed[c]) = sent[c] \/ fin[c] \/ c \in short \/ ~ Running)
=============================================================================
