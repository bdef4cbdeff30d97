\* One program at a time; five files for io_uring, so that the indices wrap, and five for
\* a list of three.
SPECIFICATION MCSpec
CONSTANTS
  Files = 5
  Sizes = {1}
  QUEUE_DEPTH = 1
  CQ_ENTRIES = 2
  WRAP = 4
  capacity = 3
  TopSizes = {0, 1, 2, 3}
  Garbage = {0, 2, 9}
  MaxFiles = 5
  Contents <- SmallContents
  chunk_size = 2
  READSZ = 3
  Trees <- SmallTrees
  Path <- SmallPath
  Outside = {"keep", "e"}
  MaxChanges = 1
  Systems <- SmallSystems
  Source <- SmallSource
  Targets <- SmallTargets
  BLOCK = 2
  MaxDepth = 5
  MaxFds = 8
  MaxShort = 1
INVARIANTS
  Faithful
  KeepsLargest
  CopiesAll
  KeepsOthers
PROPERTIES
  FilesPrinted
  LinesOfFile
  ToolsEnd
CHECK_DEADLOCK FALSE
