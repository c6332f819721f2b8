SPECIFICATION Spec
CONSTANTS
  t1 = t1
  t2 = t2
  f = f
  g = g
  CallsAfterError = FALSE
  NoThread = NoThread
  NoVnode = NoVnode
  d = d
  ClusterCount = 4
  NumFats = 2
  Thread <- Threads
  Reg <- OneFile
  Dir <- OneDir
  CacheSize = 1
  MaxSize = 3
  MaxErrors = 1
  Layout <- MixedLayout
  Bad = {}
  NextFree0 = 4
  FsInfoValid = TRUE
SYMMETRY ThreadSymmetry
INVARIANTS
  TypeOK
  NoCrossLink
  NoDanglingLink
  NoLostCluster
  FreeCountExact
  CopiesDifferByErrors
  NoFalseEIO
  ReadsCovered
  ChainCoversSize
PROPERTIES
  LinksNotOverwritten
  EnospcMeansFull
CHECK_DEADLOCK FALSE
