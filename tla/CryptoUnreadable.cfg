SPECIFICATION Spec
CONSTANTS
  Sizes <- MCSizes
  Buffer = 6
  Block = 3
  Tag = 3
  Modes = {"GCM"}
  MaxIVs = 1
  NoFile = NoFile
  Partial = Partial
INVARIANT DecryptsWhatItEncrypted
CHECK_DEADLOCK FALSE
