SPECIFICATION Spec
CONSTANTS
  Sizes <- MCSizes
  Buffer = 6
  Block = 3
  Tag = 3
  Modes = {"GCM", "CBC"}
  MaxIVs = 3
  NoFile = NoFile
  Partial = Partial
INVARIANTS TypeOK NothingLost IVsKept LengthsFit NullOnlyAtShortTails
CHECK_DEADLOCK FALSE
