CONSTANTS
  A = alice
  B = bob
  MaxSends = 2
SPECIFICATION MCSpec
INVARIANT ReadLeavesReceipts
CHECK_DEADLOCK FALSE
