SPECIFICATION FairSpec
CONSTANTS
  t1 = t1
  t2 = t2
  v1 = v1
  v2 = v2
  v3 = v3
  v4 = v4
  NoVnode = NoVnode
  Thread = {t1, t2}
  Vnode = {v1, v2, v3, v4}
  MaxRefs = 2
  Disk <- Disks
  Part <- Parts
  SectorSize = 16
  UnmountBusy = FALSE
VIEW View
INVARIANTS
  TypeOK
  CountsExact
  UnmountLeaksRoot
  NoDanglingVnode
  DeviceHeldByMount
  UnmountSavesAll
  GeometrySound
PROPERTIES
 ReleasedIsFreed
