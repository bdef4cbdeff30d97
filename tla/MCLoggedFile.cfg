\* Two saves, two crashes and one failing call; the bounds end the behaviours.
SPECIFICATION Spec
CONSTANTS
  Cells <- ThreeCells
  Vals <- TwoVals
  NoByte = "-"
  Writes <- SomeWrites
  MaxSaves = 2
  MaxCrashes = 2
  MaxErrors = 1
INVARIANTS
  DurableOnReturn
PROPERTIES
  IsAtomicFile
CHECK_DEADLOCK FALSE
