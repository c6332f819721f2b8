SPECIFICATION Spec
CONSTANTS
  t1 = t1
  t2 = t2
  f = f
  g = g
  CallsAfterError = FALSE
  NoThread = NoThread
  NoVnode = NoVnode
  d = d
  ClusterCount = 3
  NumFats = 1
  Thread <- Threads
  Reg <- OneFile
  Dir <- OneDir
  CacheSize = 2
  MaxSize = 2
  MaxErrors = 1
  Layout <- MixedLayout
  Bad = {}
  NextFree0 = 4
  FsInfoValid = TRUE
INVARIANTS
  CacheCoherent
PROPERTIES
  OpsFinish
CHECK_DEADLOCK FALSE
