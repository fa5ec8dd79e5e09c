SPECIFICATION FairSpec
CONSTANTS
  Requests = {r1, r2}
  Conns = {x1, x2, x3}
  NoConn = NoConn
INVARIANTS TypeOK ClosesAlone
PROPERTY UserInfoEnds
