SPECIFICATION Spec
CONSTANTS
  t1 = t1
  t2 = t2
  dira = dira
  dirb = dirb
  a1 = a1
  a2 = a2
  b1 = b1
  f1 = f1
  f2 = f2
  README = README
  readme = readme
  novel = novel
  NoThread = NoThread
  NoName = NoName
  NoFile = NoFile
  NoHandle = NoHandle
  Thread <- Threads
  Directory <- TwoDirs
  Handle <- ABVnodes
  Home <- HomeAB
  Name <- TwoNames
  Width <- Widths
  Fold <- Folds
  File = {f1, f2}
  PerCluster = 3
  MaxClusters = 2
  CallsAfterError = FALSE
  MaxErrors = 0
  AliasedVnodes = FALSE
  RemoveWhileOpen = FALSE
  Readers = {}
  Slots0 <- TwoDirsSlots
  Clusters0 <- TwoDirsClusters
SYMMETRY ThreadSymmetry
INVARIANTS
  NoDuplicateName
PROPERTIES
  ImplementsDirMap
CHECK_DEADLOCK FALSE
