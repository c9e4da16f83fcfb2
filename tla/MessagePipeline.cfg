CONSTANTS
  c1 = c1  c2 = c2
  k1 = k1  k2 = k2
  alice = alice  bob = bob
  Conns <- MCConns
  Keys <- MCKeys
  Accounts <- MCAccounts
  None = None
  Anonymous = Anonymous
  MaxRequests = 2
SPECIFICATION Spec
SYMMETRY Symmetry
CONSTRAINT FewWhileMissed
INVARIANTS
  AnswersReachSender
  CommitsFollowIds
  PushesReachTheirAudience
CHECK_DEADLOCK FALSE
