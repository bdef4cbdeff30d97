\* A file that does not end with a newline.
SPECIFICATION Spec
CONSTANTS
  Contents <- Files
  NL = "nl"
  READSZ = 3
INVARIANTS
  ReturnsCString
CHECK_DEADLOCK FALSE
