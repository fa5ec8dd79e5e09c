SPECIFICATION FairSpec
CONSTANTS
  Data = {a, b}
  NoFile = NoFile
  Torn = Torn
  Never = Never
  RetryTimes = {0, 20, 30, 45, 60, 70}
  MaxRetries = 3
  RestoreTimes <- MCRestoreTimes
INVARIANTS TypeOK StoreKept RetrieveWhole TwoHours TimeBound
PROPERTY EveryCallEnds
