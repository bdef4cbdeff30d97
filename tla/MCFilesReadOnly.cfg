\* Permissions are copied, and a directory of the source is read-only.
SPECIFICATION MCSpec
CONSTANTS
  Files = 1
  Sizes = {0}
  QUEUE_DEPTH = 1
  CQ_ENTRIES = 2
  WRAP = 4
  capacity = 1
  TopSizes = {1}
  Garbage = {0}
  MaxFiles = 1
  Contents <- SmallContents
  chunk_size = 2
  READSZ = 3
  Trees <- SmallTrees
  Path <- SmallPath
  Outside = {"keep", "e"}
  MaxChanges = 1
  Systems <- SmallSystems
  Source <- SmallSource
  Targets <- SmallTargets
  BLOCK = 2
  MaxDepth = 5
  MaxFds = 8
  MaxShort = 1
INVARIANTS
  CopiesReadOnly
CHECK_DEADLOCK FALSE
