SPECIFICATION Spec
CONSTANTS
  t1 = t1
  t2 = t2
  dira = dira
  dirb = dirb
  a1 = a1
  a2 = a2
  b1 = b1
  f1 = f1
  f2 = f2
  README = README
  readme = readme
  novel = novel
  NoThread = NoThread
  NoName = NoName
  NoFile = NoFile
  NoHandle = NoHandle
  Thread = {t1}
  Directory <- OneDir
  Handle <- AVnodes
  Home <- HomeA
  Name <- ThreeNames
  Width <- Widths
  Fold <- Folds
  File = {f1, f2}
  PerCluster = 3
  MaxClusters = 2
  CallsAfterError = FALSE
  MaxErrors = 1
  AliasedVnodes = FALSE
  RemoveWhileOpen = FALSE
  Readers = {a1}
  Slots0 <- OneDirSlots
  Clusters0 <- OneDirClusters
INVARIANTS
  TypeOK
  NothingAfterEnd
  NoOrphans
  NoDuplicateName
  SyncHitsOwnEntry
  AllocFindsFree
PROPERTIES
  ReaddirComplete
  ImplementsDirMap
CHECK_DEADLOCK FALSE
