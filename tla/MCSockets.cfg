\* Two clients of the epoll server, which has one descriptor more than them or just as many
\* and then ends if both are there at once; three of the stream servers, one behind two others; and two that send datagrams.
SPECIFICATION MCSpec
CONSTANTS
  Clients = {c1, c2}
  FdSets <- TwoOrThree
  MaxSent = 3
  ReadBuf = 2
  SndBuf = 1
  StrClients = {c1, c2, c3}
  MaxKills = 1
  DgClients = {c1, c2}
  Messages <- ShortMessages
  BUFSZ = 3
INVARIANTS
  EventsFresh
  EchoInOrder
  FailureHasCause
  OwnAnswers
PROPERTIES
  StopsOnSigterm
  Answered
  ClientsEnd
CHECK_DEADLOCK FALSE
