SPECIFICATION Spec
CONSTANTS
  Sessions = {s1, s2}
  Names = {"d", "f", "u1"}
  UniqueName <- Uploaded
  MaxDepth = 2
  MaxCommands = 4
  InitialTree <- DirAndFile
SYMMETRY Symmetry
INVARIANTS
  TreeStands
  GivenOnce
  Inventory
  OneCopy
PROPERTY NothingLostUnasked
