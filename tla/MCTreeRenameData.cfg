SPECIFICATION Spec
CONSTANTS
  t1 = t1
  t2 = t2
  root = root
  c1 = c1
  c2 = c2
  c3 = c3
  rootvp = rootvp
  v1 = v1
  v2 = v2
  n1 = n1
  n2 = n2
  NoThread = NoThread
  NoCluster = NoCluster
  NoName = NoName
  NoVnode = NoVnode
  Root = root
  RootVnode = rootvp
  Thread = {t1, t2}
  Cluster = {root, c1, c2, c3}
  Slots <- SmallSlots
  Name = {n1, n2}
  Vnode = {rootvp, v1, v2}
  MaxFaults = 0
  CallsAfterHarm = FALSE
  Practices = {"move_data"}
INVARIANTS
  EntriesTrue
CHECK_DEADLOCK FALSE
