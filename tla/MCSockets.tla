------------------------------ MODULE MCSockets ------------------------------
(* The programs that talk over sockets, one of which runs: the epoll server, *)
(* the programs on stream sockets and those that send datagrams.             *)
EXTENDS EpollServer

CONSTANTS StrClients, MaxKills,                                      \* of Streams
          DgClients, Messages, BUFSZ                                 \* of Datagrams

ASSUME ClientsAssumption == DgClients \subseteq StrClients /\ MaxKills \in Nat

\* the server ends once it has given away the last
TwoOrThree == { {7, 8}, {7, 8, 9} }

\* of recv.c, three letters and then the message that does not fit
ShortMessages == << <<1, 0>>, <<2, 0>>, <<3, 0>>, <<1, 2, 3, 0>> >>

VARIABLES running,
          program, srvPc, name, strBacklog, strConn, queue, answer, closed,   \* streams
          pcs, got, kills, starts,
          dgProgram, dgServer, inbox, src_addr, addrlen, dgBuf, dgPcs, mail,  \* datagrams
          dgSent, received, lost, stale

strVars == <<program, srvPc, name, strBacklog, strConn, queue, answer, closed,
             pcs, got, kills, starts>>
dgVars == <<dgProgram, dgServer, inbox, src_addr, addrlen, dgBuf, dgPcs, mail,
            dgSent, received, lost, stale>>

Str == INSTANCE Streams WITH
         Programs <- {"uds", "hello", "shutdown", "bind"}, Clients <- StrClients,
         server <- srvPc, backlog <- strBacklog, conn <- strConn, pc <- pcs

Dg == INSTANCE Datagrams WITH
        Programs <- {"rot13", "recv"}, Clients <- DgClients,
        program <- dgProgram, server <- dgServer, buf <- dgBuf, pc <- dgPcs, sent <- dgSent

-----------------------------------------------------------------------------
\* of the programs that do not run, one state is enough
OneSender == [c \in DgClients |-> IF c = CHOOSE one \in DgClients : TRUE THEN "send" ELSE "none"]

MCInit ==
  /\ running \in {"epoll", "streams", "datagrams"}
  /\ Init /\ (running # "epoll" => Cardinality(Fds) = 2)
  /\ Str!Init /\ (running # "streams" => program = "uds")
  /\ Dg!Init
  /\ running # "datagrams" => dgProgram = "recv" /\ addrlen = "ok" /\ dgPcs = OneSender

MCNext ==
  /\ UNCHANGED running
  /\ \/ running = "epoll" /\ Next /\ UNCHANGED <<strVars, dgVars>>
     \/ running = "streams" /\ Str!Next /\ UNCHANGED <<vars, dgVars>>
     \/ running = "datagrams" /\ Dg!Next /\ UNCHANGED <<vars, strVars>>

MCVars == <<running, vars, strVars, dgVars>>

\* the fairness of each specification: the server's process and those of the clients
Epoll(A) == running = "epoll" /\ A /\ UNCHANGED <<running, strVars, dgVars>>
Stream(A) == running = "streams" /\ A /\ UNCHANGED <<running, vars, dgVars>>
Datagram(A) == running = "datagrams" /\ A /\ UNCHANGED <<running, vars, strVars>>

MCSpec ==
  /\ MCInit /\ [][MCNext]_MCVars
  /\ WF_MCVars(\/ Epoll(Server) \/ Stream(Str!server_loop)
               \/ Datagram(Dg!Bind \/ Dg!Recvfrom \/ Dg!Reply \/ Dg!Recv))
  /\ \A c \in StrClients :
       WF_MCVars(\/ Stream(Str!client(c))
                 \/ c \in DgClients /\ Datagram(Dg!Sendto(c) \/ Dg!RecvClient(c)))

-----------------------------------------------------------------------------
\* A client gets its own answer, or there is a cause for it to get none: AnswersUnlessCause
\* of stream sockets, OwnAnswers of datagrams.
OwnAnswers == Str!AnswersUnlessCause /\ Dg!OwnAnswers

\* Every client ends, but for a lost datagram and an address length that nothing has set.
ClientsEnd ==
  /\ running = "streams" => Str!ClientsEnd
  /\ running = "datagrams" => Dg!AllAnswered
=============================================================================
