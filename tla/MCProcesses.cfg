\* Both orders of reading and waiting, with more output than the pipe holds; three
\* commands for the FIFO; each signal is sent up to twice.
SPECIFICATION MCSpec
CONSTANTS
  Orders = {TRUE, FALSE}
  CAPACITY = 2
  READSZ = 2
  MAXOUT = 5
  w1 = w1
  w2 = w2
  w3 = w3
  None = None
  MaxSent = 2
INVARIANTS
  CapturedAll
  SignalsKept
PROPERTIES
  CaptureEnds
  FillsPages
  ExitHeard
  SignalledEnds
  EndsOrCycle
CHECK_DEADLOCK FALSE
