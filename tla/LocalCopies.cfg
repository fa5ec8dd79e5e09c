SPECIFICATION FairSpec
CONSTANTS
  Locations <- MCLocations
  Dirs = {"bag", "data"}
  Files = {"chunk", "tag", "item"}
  Parent <- MCParent
  ObjectOf <- MCObjectOf
  NoDir = NoDir
  NoFile = NoFile
  Versions <- MCVersions
  Buffer = 2
  MaxEdits = 1
  MaxCalls = 2
INVARIANTS TypeOK CopiesWhole ProgressExact
PROPERTY EndsUnlessCutShort
