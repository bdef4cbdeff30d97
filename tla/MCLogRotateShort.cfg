\* A write is cut short by a full disk.
SPECIFICATION Spec
CONSTANTS
  Writers = {w1}
  Counters = {c1}
  Rotators = {r1}
  KEEP = 2
  Line <- TwoChars
  NL = "nl"
  READ_BUFSZ = 2
  NoFile = NoFile
  MaxFiles = 2
  Budgets <- OneShortWrite
SYMMETRY Symmetric
INVARIANTS
  EndsWithNewline
CHECK_DEADLOCK FALSE
