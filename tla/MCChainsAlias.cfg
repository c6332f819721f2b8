SPECIFICATION Spec
CONSTANTS
  t1 = t1
  t2 = t2
  f = f
  g = g
  CallsAfterError = FALSE
  NoThread = NoThread
  NoVnode = NoVnode
  d = d
  ClusterCount = 4
  NumFats = 2
  Thread <- Threads
  Reg <- TwoFiles
  Dir = {}
  CacheSize = 1
  MaxSize = 3
  MaxErrors = 0
  Layout <- AliasLayout
  Bad = {}
  NextFree0 = 4
  FsInfoValid = TRUE
PROPERTIES
  LinksNotOverwritten
CHECK_DEADLOCK FALSE
