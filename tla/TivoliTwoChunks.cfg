SPECIFICATION Spec
CONSTANTS
  d1 = d1
  k1 = k1
  k2 = k2
  c1 = c1
  c2 = c2
  Calls = {k1, k2}
  Deposits = {d1}
  Chunks = {c1, c2}
  DepositOf <- OneDepositOf
  Data = {a}
  NoFile = NoFile
  Torn = Torn
  NoCall = NoCall
  MaxRetries = 1
  JvmErrors = FALSE
CONSTRAINT OwnChunk
INVARIANTS StoreReplicated RetrieveFaithful
