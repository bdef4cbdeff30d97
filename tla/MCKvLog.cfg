\* Three commands; one process is killed and the machine crashes once.
SPECIFICATION FairSpec
CONSTANTS
  Procs = {p1, p2, p3}
  MAX_KEY_SIZE = 1
  MAX_VAL_SIZE = 2
  NUL = "0"
  KeyArgs <- KeyStrings
  ValArgs <- ValStrings
  NotFound = NotFound
  MaxKills = 1
  MaxCrashes = 1
INVARIANTS
  NeverWrongAnswer
PROPERTIES
  DurableSet
  EveryCommandEnds
CHECK_DEADLOCK FALSE
