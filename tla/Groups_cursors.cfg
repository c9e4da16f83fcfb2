CONSTANTS
  Accounts = {a1, a2, a3}
  None = None
  MaxMembers = 3
  MaxMessages = 1
SPECIFICATION Spec
SYMMETRY Symmetry
VIEW View
INVARIANT MembersHaveCursors
