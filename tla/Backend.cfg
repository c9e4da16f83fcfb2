CONSTANTS
  Conns = {z1, z2, z3}  Threads = {x1, x2}  Units = {y1, y2, u3}  PlainUnits = {u3}
  PoolSize = 2  CacheSize = 1  MaxFaults = 2
  Ids = {x1, x2}  Tokens = {y1, y2}  Clients = {conn}
  TokenLife = 2  Retention = 2  LastDay = 6
  NoAccount = NoAccount  NoToken = NoToken
  People = {z1, z2, z3}  MaxFriendRequests = 3
  MaxRequests = 2  WindowMs = 2  BlockMs = 3  LastMs = 9
  SeqSize = 2  Tolerance = 1  Epoch = 1  LastClock = 6
SPECIFICATION MCSpec
SYMMETRY Symmetry
INVARIANTS
  UnitsAreAtomic
  PoolIsSound
  TokensLiveUntilLogout
  FriendsByConsent
  LimitsAreKept
PROPERTY IdsGrow
CHECK_DEADLOCK FALSE
