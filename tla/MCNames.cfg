SPECIFICATION Spec
CONSTANTS
  Name <- SomeNames
  MaxName = 27
  NumSlots = 7
  DirCluster = 2
INVARIANTS
  NamesReadBack
  OthersAgree
