\* Writers, a counter and two rotators at once, any of them killed.
SPECIFICATION Spec
CONSTANTS
  Writers = {w1, w2}
  Counters = {c1}
  Rotators = {r1, r2}
  KEEP = 3
  Line <- TwoChars
  NL = "nl"
  READ_BUFSZ = 2
  NoFile = NoFile
  MaxFiles = 5
  Budgets <- CountOrRotate
SYMMETRY Symmetric
INVARIANTS
  SortedByAge
  OnlyOldestDropped
  CountBetween
CHECK_DEADLOCK FALSE
