SPECIFICATION Spec
CONSTANTS
  Calls = {k1, k2}
  NoCall = NoCall
  Objects = {o1, o2}
  Stamps = {s1, s2}
  Trees <- MCTrees
  Data <- MCData
  Wanted <- MCWanted
  RootIsSlash = TRUE
  Dir = Dir
  Torn = Torn
SYMMETRY Symmetry
INVARIANTS TypeOK TreesWhole Disconnected
