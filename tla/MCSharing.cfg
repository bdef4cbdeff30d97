\* Three producers and two consumers of a ring buffer; two writers and a reader of the
\* shared counters, and of a file of one or two bytes.
SPECIFICATION MCSpec
CONSTANTS
  Producers = {p1, p2, p3}
  Consumers = {c1, c2}
  None = None
  Writers = {w1, w2}
  Readers = {r1}
  SIZE = 2
  WIDTH = 2
  BlockSizes = {1, 2}
  NLETTERS = 2
  Reps = {0, 1, 2}
  MaxFaults = 1
INVARIANTS
  OwnsNames
  ExclusionOfMatched
  ReaderSeesWhole
  BlocksReadWhole
PROPERTIES
  PyEnds
CHECK_DEADLOCK FALSE
