SPECIFICATION KeySpec
CONSTANTS
  Runs = {r1, r2}
  Aliases <- MCAliases
  Entries = {"key", "other"}
  EntryOf <- MCEntryOf
  Lists <- MCLists
  Keys = {k1, k2, k3, k4, k5, k6}
  Missing = Missing
  NoKeyStore = NoKeyStore
  Torn = Torn
SYMMETRY Symmetry
INVARIANTS KeyTypeOK KeysKept CheckTells
