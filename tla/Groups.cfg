CONSTANTS
  Accounts = {a1, a2, a3}
  None = None
  MaxMembers = 3
  MaxMessages = 2
SPECIFICATION Spec
SYMMETRY Symmetry
VIEW View
CONSTRAINT FewWhileForgotten
INVARIANTS
  NumbersAreDense
  GroupUnreadExact
  OneOwner
  CopyHasTheMembers
PROPERTIES
  OnlyMembersPost
  
