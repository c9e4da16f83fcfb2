CONSTANTS
  c1 = c1  c2 = c2
  k1 = k1
  alice = alice  bob = bob
  Conns <- MCConns
  Keys <- MCKeys
  Accounts <- MCAccounts
  None = None
  Anonymous = Anonymous
  MaxRequests = 1
SPECIFICATION RequestSpec
INVARIANTS
  GroupContentStaysInside
  AcksAreTruthful
PROPERTY RequestsAreAnswered
CHECK_DEADLOCK FALSE
