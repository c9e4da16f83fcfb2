CONSTANTS
  A = alice
  B = bob
  MaxSends = 3
SPECIFICATION MCSpec
INVARIANTS
  UnreadExact
  PagesMissNothing
CHECK_DEADLOCK FALSE
