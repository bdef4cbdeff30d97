\* Anybody may be killed anywhere; who waits for a dead holder waits forever,
\* so the system may stop.
SPECIFICATION FairSpec
CONSTANTS
  N = 3
  BYTE = 2
  TOTAL = 6
  Input <- Changing
  Producer = prod
  Consumers = {c1, c2}
  Mortal <- Everybody
INVARIANTS
  LockInv
  ContentsInv
  FoundInv
  PrintedOnce
PROPERTIES
  IsFifo
  AllDelivered
CHECK_DEADLOCK FALSE
