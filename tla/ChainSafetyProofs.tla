------------------------- MODULE ChainSafetyProofs -------------------------
(***************************************************************************)
(* Proofs of the safety properties of the chains of ClusterChains: as long *)
(* as the device has not failed, chains are disjoint and complete, cached  *)
(* positions and sizes are right, and the count of free clusters is exact. *)
(* Then of what it promises of single writes to the FAT: the count of free *)
(* clusters, what fat32_allocate_cluster makes of it, that no link is      *)
(* replaced by another, and how far the FAT copies differ.                 *)
(***************************************************************************)
EXTENDS ClusterChainsProofs, NatLemmas

\* Every vnode has a file of its own, and no cluster is in two places: the
\* volume that was mounted is sound, and no file is open through two vnodes.
DisjointLayout ==
    \A v, w \in Vnode : \A i \in 1 .. Len(Layout[v]), j \in 1 .. Len(Layout[w]) :
        Layout[v][i] = Layout[w][j] => v = w /\ i = j

----------------------------------------------------------------------------
(* What the control part of the invariant gives *)

\* The types of what an operation has in hand
LEMMA StateTypes ==
    ASSUME CtlInv
    PROVE  /\ Fat0 \in [Cluster -> Entry]
           /\ owner \in [Cluster -> Vnode \cup {NoVnode}] /\ pos \in [Cluster -> Nat]
           /\ start \in [Vnode -> {0} \cup Cluster] /\ size \in [Vnode -> Nat]
           /\ cache \in [Vnode -> [Slot -> CacheEntry]]
           /\ op \in [Thread -> Op]
           /\ NoVnode \notin Vnode /\ NoThread \notin Thread
           /\ 0 \notin Cluster /\ Cluster \subseteq Nat
    BY ConstantFacts, ChainAssumption DEF CtlInv, TypeOK, Fat0, CacheEntry, ChainAssumption

\* The vnodes operations are on
LEMMA OpFacts ==
    ASSUME CtlInv, NEW t \in Thread
    PROVE  /\ op[t] \in Op
           /\ op[t].idx \in Nat /\ op[t].goal \in Nat /\ op[t].need \in Nat /\ op[t].freed \in Nat
           /\ op[t].pc # "idle" => op[t].v \in Vnode /\ op[t].kind # "none"
           /\ op[t].pc = "idle" => op[t].v = NoVnode /\ op[t].kind = "none"
           /\ HasCursor(op[t]) => op[t].cur \in Cluster
           /\ op[t].pc \notin {"idle", "first"} => start[op[t].v] \in Cluster
           /\ op[t].pc = "first" => start[op[t].v] = 0 /\ op[t].cur = 0
           /\ op[t].kind \in {"read", "write", "trunc"} => op[t].v \in Reg
           /\ op[t].kind \in {"scan", "grow", "getattr"} => op[t].v \in Dir
           /\ op[t].pc \in {"first", "free", "freeing", "peek"} => Exclusive(op[t].kind)
           /\ op[t].pc \in {"free", "freeing", "peek"} => op[t].kind = "trunc"
           /\ op[t].pc = "alloc" => Exclusive(op[t].kind)
<1>1. /\ op[t] \in Op /\ Shape(op[t]) /\ (HasCursor(op[t]) => op[t].cur \in Cluster)
      /\ op[t].pc \notin {"idle", "first"} => start[op[t].v] # 0
      /\ op[t].pc = "first" => start[op[t].v] = 0 /\ op[t].cur = 0
    BY DEF CtlInv, OpInv, TypeOK
<1>2. op[t].idx \in Nat /\ op[t].goal \in Nat /\ op[t].need \in Nat /\ op[t].freed \in Nat
    BY <1>1 DEF Op
<1>3. /\ op[t].pc # "idle" => op[t].v \in Vnode /\ op[t].kind # "none"
      /\ op[t].pc = "idle" => op[t].v = NoVnode /\ op[t].kind = "none"
    BY <1>1 DEF Shape, ReadShape, WriteShape, TruncShape, ScanShape, GrowShape, StatShape, Vnode
<1>4. /\ op[t].kind \in {"read", "write", "trunc"} => op[t].v \in Reg
      /\ op[t].kind \in {"scan", "grow", "getattr"} => op[t].v \in Dir
      /\ op[t].pc \in {"first", "free", "freeing", "peek"} => Exclusive(op[t].kind)
      /\ op[t].pc \in {"free", "freeing", "peek"} => op[t].kind = "trunc"
      /\ op[t].pc = "alloc" => Exclusive(op[t].kind)
    BY <1>1 DEF Shape, ReadShape, WriteShape, TruncShape, ScanShape, GrowShape, StatShape, Exclusive
<1>5. op[t].pc \notin {"idle", "first"} => start[op[t].v] \in Cluster
    BY <1>1, <1>3, StateTypes
<1> QED BY <1>1, <1>2, <1>3, <1>4, <1>5

\* An operation that changes a file has it for itself, and one thread at most
\* is freeing clusters.
LEMMA Alone ==
    ASSUME CtlInv, NEW t \in Thread, NEW u \in Thread, t # u
    PROVE  /\ op[t].kind \in {"write", "trunc"} => op[u].v # op[t].v
           /\ op[t].kind = "grow" /\ op[u].v = op[t].v => op[u].kind = "getattr"
           /\ op[t].pc = "freeing" => fsiLock = t /\ op[u].pc # "freeing"
<1>1. Exclusive(op[t].kind) /\ op[u].v = op[t].v => op[u].kind = "getattr"
    BY DEF CtlInv, ExclusionInv
<1>2. op[t].kind \in {"write", "trunc"} => op[u].v # op[t].v
    BY <1>1, OpFacts, ChainAssumption DEF Exclusive, ChainAssumption
<1>3. op[t].pc = "freeing" => fsiLock = t /\ op[u].pc # "freeing"
    BY DEF CtlInv, LockInv
<1> QED BY <1>1, <1>2, <1>3 DEF Exclusive

\* While fsi_lock is free nobody is freeing clusters.
LEMMA NobodyFrees ==
    ASSUME CtlInv, fsiLock = NoThread
    PROVE  /\ \A t \in Thread : op[t].pc # "freeing"
           /\ \A v \in Vnode : ~FreeingAll(v) /\ \A t \in Thread : ~Cuts(t, v)
    BY StateTypes DEF CtlInv, LockInv, FreeingAll, Cuts

\* What an entry of the FAT can be
LEMMA EntryKinds ==
    ASSUME CtlInv, NEW c \in Cluster
    PROVE  \/ Fat0[c] \in Cluster
           \/ Fat0[c] \in {FAT32_CLUSTER_FREE, FAT32_CLUSTER_BAD, FAT32_CLUSTER_EOC}
    BY StateTypes DEF Entry

\* A cluster in use leads on or ends its chain.
LEMMA OwnedEntry ==
    ASSUME CtlInv, OwnerInv, NEW c \in Cluster, owner[c] # NoVnode
    PROVE  Fat0[c] \in Cluster \/ Fat0[c] = FAT32_CLUSTER_EOC
    BY EntryKinds DEF OwnerInv, InUse

----------------------------------------------------------------------------
(* Steps that leave the chains as they are *)

\* A step that changes no chain and begins or ends no freeing keeps the part
\* of the invariant about chains.
LEMMA KeepChains ==
    ASSUME CtlInv, SoundInv, Undamaged, Fat0' = Fat0, UNCHANGED <<owner, pos, start>>,
           \A u \in Thread :
              op'[u].pc = "freeing" \/ op[u].pc = "freeing" => op'[u] = op[u],
           \A v \in Vnode : start[v] = 0 => size'[v] = 0
    PROVE  /\ OwnerInv' /\ LinkInv' /\ PlaceInv' /\ EndInv' /\ StartInv' /\ NoLostCluster'
           /\ \A u \in Thread : CutInv(u)'
<1>1. /\ OwnerInv /\ LinkInv /\ PlaceInv /\ EndInv /\ StartInv /\ NoLostCluster
      /\ \A u \in Thread : CutInv(u)
    BY DEF SoundInv
<1>2. Fat0' = Fat0
    OBVIOUS
<1>3. OwnerInv' /\ LinkInv' /\ PlaceInv'
    BY <1>1, <1>2 DEF OwnerInv, LinkInv, PlaceInv, InUse
<1>4. ASSUME NEW u \in Thread, NEW v
      PROVE  Cuts(u, v)' <=> Cuts(u, v)
    BY DEF Cuts
<1>5. EndInv'
  <2> SUFFICES ASSUME NEW b \in Cluster, NEW c \in Cluster,
                      Fat0[b] = FAT32_CLUSTER_EOC, owner[c] = owner[b], ~(pos[c] <= pos[b])
               PROVE  \E u \in Thread : /\ Cuts(u, owner[b])' /\ op'[u].need = pos[b] + 1
                                        /\ pos[c] >= op'[u].need
      BY <1>2 DEF EndInv
  <2>1. PICK u \in Thread : /\ Cuts(u, owner[b]) /\ op[u].need = pos[b] + 1
                            /\ pos[c] >= op[u].need
      BY <1>1 DEF EndInv
  <2>2. op'[u] = op[u]
      BY <2>1 DEF Cuts
  <2> QED BY <1>4, <2>1, <2>2
<1>6. ASSUME NEW v \in Vnode PROVE FreeingAll(v)' <=> FreeingAll(v)
    BY DEF FreeingAll
<1>7. StartInv'
    BY <1>1, <1>6 DEF StartInv
<1>8. NoLostCluster'
    BY <1>1, <1>2 DEF NoLostCluster, InUse
<1>9. ASSUME NEW u \in Thread PROVE CutInv(u)'
  <2>1. CASE op'[u].pc = "freeing"
    <3>1. op'[u] = op[u] /\ op[u].pc = "freeing"
        BY <2>1
    <3> QED BY <1>1, <1>2, <3>1 DEF CutInv
  <2>2. CASE op'[u].pc # "freeing"
      BY <2>2 DEF CutInv
  <2> QED BY <2>1, <2>2
<1> QED BY <1>3, <1>5, <1>7, <1>8, <1>9

\* The cursors and ranges of the threads that make no step
LEMMA KeepOthers ==
    ASSUME CtlInv, SoundInv, NEW t \in Thread, \A u \in Thread \ {t} : op'[u] = op[u],
           \A c \in Cluster : owner[c] # NoVnode => pos'[c] = pos[c],
           \A u \in Thread \ {t} : HasCursor(op[u]) => owner'[op[u].cur] = owner[op[u].cur],
           \A u \in Thread \ {t} : op[u].pc = "alloc" => Fat0'[op[u].cur] = Fat0[op[u].cur],
           \A u \in Thread \ {t} : op[u].kind = "read" => size'[op[u].v] = size[op[u].v]
    PROVE  \A u \in Thread \ {t} : CursorInv(u)' /\ RangeInv(op[u])'
<1> SUFFICES ASSUME NEW u \in Thread \ {t} PROVE CursorInv(u)' /\ RangeInv(op[u])'
    OBVIOUS
<1>1. CursorInv(u) /\ RangeInv(op[u]) /\ op'[u] = op[u]
    BY DEF SoundInv
<1>2. HasCursor(op[u]) => op[u].cur \in Cluster /\ op[u].v # NoVnode
    BY OpFacts, StateTypes DEF HasCursor
<1>3. CursorInv(u)'
    BY <1>1, <1>2 DEF CursorInv, HasCursor
<1>4. RangeInv(op[u])'
    BY <1>1 DEF RangeInv
<1> QED BY <1>3, <1>4
\* Cached positions stay right when a step adds a right one at most, and
\* keeps the clusters in use and the operations that free.
LEMMA CacheKept ==
    ASSUME CtlInv, SoundInv, NEW v \in Vnode, NEW c \in Cluster, NEW i \in Nat,
           owner'[c] = v, pos'[c] = i,
           cache' = cache \/ cache' = [cache EXCEPT ![v] = UpdateCache(@, i, c)],
           \A x \in Cluster : owner[x] # NoVnode => owner'[x] = owner[x] /\ pos'[x] = pos[x],
           \A u \in Thread : op[u].pc = "freeing" => op'[u] = op[u]
    PROVE  CacheInv'
<1>1. CacheInv
    BY DEF SoundInv
<1>2. ASSUME NEW w \in Vnode, NEW j \in Slot, NEW e, e = cache[w][j], e.cluster # 0
      PROVE  \/ owner'[e.cluster] = w /\ pos'[e.cluster] = e.index
             \/ \E u \in Thread : Cuts(u, w)' /\ op'[u].need <= e.index
  <2>1. e.cluster \in Cluster
      BY <1>2, StateTypes DEF CacheEntry
  <2>2. CASE owner[e.cluster] = w /\ pos[e.cluster] = e.index
      BY <2>1, <2>2, StateTypes
  <2>3. ASSUME NEW u \in Thread, Cuts(u, w), op[u].need <= e.index
        PROVE  Cuts(u, w)' /\ op'[u].need <= e.index
      BY <2>3 DEF Cuts
  <2> QED BY <1>1, <1>2, <2>2, <2>3 DEF CacheInv
<1>3. ASSUME NEW w \in Vnode, NEW j \in Slot
      PROVE  \/ cache'[w][j] = [index |-> i, cluster |-> c] /\ w = v
             \/ \E k \in Slot : cache'[w][j] = cache[w][k]
  <2>1. CASE cache' = cache \/ w # v
      BY <2>1, StateTypes
  <2>2. CASE cache' = [cache EXCEPT ![v] = UpdateCache(@, i, c)] /\ w = v
    <3>1. cache[v] \in [Slot -> CacheEntry] /\ cache'[v] = UpdateCache(cache[v], i, c)
        BY <2>2, StateTypes
    <3> QED BY <2>2, <3>1, UpdateCacheEntries
  <2> QED BY <2>1, <2>2
<1> SUFFICES ASSUME NEW w \in Vnode, NEW j \in Slot, cache'[w][j].cluster # 0
             PROVE  \/ /\ owner'[cache'[w][j].cluster] = w
                       /\ pos'[cache'[w][j].cluster] = cache'[w][j].index
                    \/ \E u \in Thread : Cuts(u, w)' /\ op'[u].need <= cache'[w][j].index
    BY DEF CacheInv
<1>4. CASE cache'[w][j] = [index |-> i, cluster |-> c] /\ w = v
    BY <1>4
<1>5. ASSUME NEW k \in Slot, cache'[w][j] = cache[w][k]
      PROVE  \/ /\ owner'[cache'[w][j].cluster] = w
                /\ pos'[cache'[w][j].cluster] = cache'[w][j].index
             \/ \E u \in Thread : Cuts(u, w)' /\ op'[u].need <= cache'[w][j].index
    BY <1>2, <1>5
<1> QED BY <1>3, <1>4, <1>5

\* The cursor of an operation that moves to the cluster at place i of its chain
LEMMA MoveToOwn ==
    ASSUME CtlInv, SoundInv, NEW t \in Thread, NEW c \in Cluster, NEW i \in Nat,
           MoveTo(t, c, i), op[t].pc \in {"seek", "walk", "alloc"},
           owner'[c] = op[t].v, pos'[c] = i, size' = size,
           op[t].kind = "read" =>
              \/ i <= op[t].goal /\ op[t].goal < size[op[t].v]
              \/ op[t].goal = 0 /\ i < size[op[t].v],
           op[t].kind = "trunc" => i <= op[t].goal
    PROVE  /\ \A u \in Thread \ {t} : op'[u] = op[u]
           /\ op'[t].pc # "freeing" /\ op'[t].res \in {"ok", op[t].res}
           /\ op'[t].freed \in {0, op[t].freed}
           /\ CursorInv(t)' /\ RangeInv(op[t])'
           /\ cache' = cache \/ cache' = [cache EXCEPT ![op[t].v] = UpdateCache(@, i, c)]
<1> DEFINE o == op[t]
           x == op'[t]
<1>1. TypeOK /\ o \in Op /\ o.goal \in Nat /\ o.need \in Nat /\ size[o.v] \in Nat
    BY OpFacts, StateTypes DEF CtlInv
<1>2. \A u \in Thread \ {t} : op'[u] = op[u]
    BY <1>1, MoveToOp
<1>3. cache' = cache \/ cache' = [cache EXCEPT ![op[t].v] = UpdateCache(@, i, c)]
    BY DEF MoveTo
<1>4. CASE x = Idle("ok")
  <2>1. x.pc = "idle" /\ x.kind = "none" /\ x.res = "ok" /\ x.freed = 0
      BY <1>4 DEF Idle
  <2> QED BY <1>2, <1>3, <2>1 DEF CursorInv, RangeInv, HasCursor
<1>5. CASE /\ GoesOn(o, x) /\ x.cur = c /\ x.idx = i /\ x.res = o.res
           /\ x.pc = IF i < o.goal THEN "walk" ELSE Arrived(o.kind)
           /\ x.goal = IF i < o.goal THEN o.goal ELSE 0
           /\ ~(o.kind = "grow" /\ i = o.goal) /\ x.freed = o.freed
  <2>1. CursorInv(t)' /\ x.pc \in {"walk", "data", "peek"}
      BY <1>5 DEF CursorInv, Arrived, GoesOn
  <2>2. o.kind = "trunc" => o.goal = o.need - 1
      BY OpFacts DEF SoundInv, RangeInv
  <2>3. RangeInv(op[t])'
    <3>1. CASE o.kind = "read"
        BY <1>1, <1>5, <3>1 DEF RangeInv, Arrived, GoesOn
    <3>2. CASE o.kind = "trunc"
        BY <1>1, <1>5, <2>2, <3>2 DEF RangeInv, Arrived, GoesOn
    <3>3. CASE o.kind \notin {"read", "trunc"}
        BY <1>5, <3>3 DEF RangeInv, GoesOn
    <3> QED BY <3>1, <3>2, <3>3
  <2> QED BY <1>2, <1>3, <1>5, <2>1, <2>3
<1> QED BY <1>1, <1>4, <1>5, MoveToOp

\* A step of t that changes no chain keeps the invariant if it keeps what is
\* said of its own cursor, the cache and the sizes.
LEMMA QuietChains ==
    ASSUME CtlInv, SoundInv, Undamaged, NEW t \in Thread,
           Fat0' = Fat0, UNCHANGED <<owner, pos, start>>,
           \A u \in Thread \ {t} : op'[u] = op[u],
           op[t].pc # "freeing", op'[t].pc # "freeing",
           op'[t].res \in {"ok", "ENOSPC", "ENOENT", "EFAULT", op[t].res},
           CursorInv(t)', RangeInv(op[t])', CacheInv',
           \/ size' = size
           \/ /\ SizeInv' /\ op[t].kind \in {"write", "trunc"}
              /\ \E n : size' = [size EXCEPT ![op[t].v] = n]
              /\ start[op[t].v] # 0
    PROVE  SoundInv'
<1>1. \A u \in Thread : op'[u].pc = "freeing" \/ op[u].pc = "freeing" => op'[u] = op[u]
    OBVIOUS
<1>2. \A v \in Vnode : start[v] = 0 => size'[v] = 0
  <2>1. StartInv
      BY DEF SoundInv
  <2> QED BY <2>1, StateTypes DEF StartInv
<1>3. /\ OwnerInv' /\ LinkInv' /\ PlaceInv' /\ EndInv' /\ StartInv' /\ NoLostCluster'
      /\ \A u \in Thread : CutInv(u)'
    BY <1>1, <1>2, KeepChains
<1>4. SizeInv'
  <2>1. CASE size' = size
    <3>1. \A v : (\E u \in Thread : Cuts(u, v)) => \E u \in Thread : Cuts(u, v)'
        BY <1>1 DEF Cuts
    <3>2. SizeInv /\ Fat0' = Fat0
        BY DEF SoundInv
    <3> QED BY <2>1, <3>1, <3>2 DEF SizeInv
  <2> QED BY <2>1
<1>5. \A u \in Thread \ {t} : op[u].kind = "read" => size'[op[u].v] = size[op[u].v]
  <2> SUFFICES ASSUME NEW u \in Thread \ {t}, op[u].kind = "read", size' # size
               PROVE  size'[op[u].v] = size[op[u].v]
      OBVIOUS
  <2>1. op[u].v # op[t].v /\ op[u].v \in Vnode
      BY Alone, OpFacts
  <2> QED BY <2>1, StateTypes
<1>6. \A u \in Thread \ {t} : CursorInv(u)' /\ RangeInv(op[u])'
    BY <1>5, KeepOthers
<1>7. NoFalseEIO'
  <2>1. \A u \in Thread : op[u].res \notin {"EIO", "EINVAL"}
      BY DEF SoundInv, NoFalseEIO
  <2> QED BY <2>1 DEF NoFalseEIO
<1> QED BY <1>3, <1>4, <1>6, <1>7 DEF SoundInv

\* The same for a step that does not touch the FAT
LEMMA QuietStep ==
    ASSUME CtlInv, SoundInv, Undamaged, NEW t \in Thread,
           UNCHANGED <<fat, owner, pos, start>>,
           \A u \in Thread \ {t} : op'[u] = op[u],
           op[t].pc # "freeing", op'[t].pc # "freeing",
           op'[t].res \in {"ok", "ENOSPC", "ENOENT", "EFAULT", op[t].res},
           CursorInv(t)', RangeInv(op[t])', CacheInv',
           \/ size' = size
           \/ /\ SizeInv' /\ op[t].kind \in {"write", "trunc"}
              /\ \E n : size' = [size EXCEPT ![op[t].v] = n]
              /\ start[op[t].v] # 0
    PROVE  SoundInv'
<1>1. Fat0' = Fat0
    BY DEF Fat0
<1> QED BY <1>1, QuietChains

\* A step that leaves the cache alone too
LEMMA SameCache ==
    ASSUME CtlInv, SoundInv, UNCHANGED <<cache, owner, pos>>,
           \A u \in Thread : op[u].pc = "freeing" => op'[u] = op[u]
    PROVE  CacheInv'
<1>1. CacheInv
    BY DEF SoundInv
<1>2. ASSUME NEW v \in Vnode, NEW i \in Slot, NEW u \in Thread,
             Cuts(u, v), op[u].need <= cache[v][i].index
      PROVE  Cuts(u, v)' /\ op'[u].need <= cache[v][i].index
    BY <1>2 DEF Cuts
<1> QED BY <1>1, <1>2 DEF CacheInv

\* A thread that returns has no cursor and no range.
LEMMA Returned ==
    ASSUME CtlInv, NEW t \in Thread, NEW r, Finish(t, r)
    PROVE  /\ \A u \in Thread \ {t} : op'[u] = op[u]
           /\ op'[t].pc = "idle" /\ op'[t].res = r /\ op'[t].freed = 0
           /\ CursorInv(t)' /\ RangeInv(op[t])'
<1>1. op'[t] = Idle(r) /\ \A u \in Thread \ {t} : op'[u] = op[u]
    BY StateTypes DEF Finish, Go
<1>2. /\ op'[t].pc = "idle" /\ op'[t].kind = "none" /\ op'[t].res = r /\ op'[t].freed = 0
    BY <1>1 DEF Idle
<1> QED BY <1>1, <1>2 DEF CursorInv, RangeInv, HasCursor

\* A thread that goes on with its cursor where it is
LEMMA WentOn ==
    ASSUME CtlInv, SoundInv, NEW t \in Thread, NEW p \in PC \ {"alloc", "freeing"}, HasCursor(op[t]),
           Go(t, [op[t] EXCEPT !.pc = p]), UNCHANGED <<owner, pos, size>>,
           op[t].kind \in {"read", "trunc"} =>
              \/ op[t].kind = "read" /\ p = "walk" /\ op[t].goal = 0
                 /\ op[t].idx + 1 < size[op[t].v]
              \/ op[t].kind = "trunc" /\ p = "free" /\ op[t].pc = "peek"
    PROVE  /\ \A u \in Thread \ {t} : op'[u] = op[u]
           /\ op'[t].pc = p /\ op'[t].res = op[t].res /\ op'[t].freed = op[t].freed
           /\ CursorInv(t)' /\ RangeInv(op[t])'
<1>1. /\ op'[t].pc = p /\ op'[t].res = op[t].res /\ op'[t].freed = op[t].freed
      /\ op'[t].kind = op[t].kind /\ op'[t].v = op[t].v /\ op'[t].need = op[t].need
      /\ op'[t].cur = op[t].cur /\ op'[t].idx = op[t].idx /\ op'[t].goal = op[t].goal
      /\ \A u \in Thread \ {t} : op'[u] = op[u]
    BY StateTypes, OpFacts DEF Go, Op
<1>2. CursorInv(t) /\ RangeInv(op[t])
    BY DEF SoundInv
<1>3. CursorInv(t)'
    BY <1>1, <1>2 DEF CursorInv
<1>4. RangeInv(op[t])'
    BY <1>1, <1>2 DEF RangeInv
<1> QED BY <1>1, <1>3, <1>4

----------------------------------------------------------------------------
(* Following a chain *)

\* While no thread frees clusters of v, its first cluster and its cached
\* positions are right.
LEMMA ChainReady ==
    ASSUME CtlInv, SoundInv, NEW v \in Vnode, \A u \in Thread : ~Cuts(u, v)
    PROVE  /\ start[v] # 0 => owner[start[v]] = v /\ pos[start[v]] = 0
           /\ \A i \in Slot : cache[v][i].cluster # 0 =>
                 /\ cache[v][i].cluster \in Cluster /\ cache[v][i].index \in Nat
                 /\ owner[cache[v][i].cluster] = v /\ pos[cache[v][i].cluster] = cache[v][i].index
<1>1. StartInv /\ CacheInv
    BY DEF SoundInv
<1>2. ~FreeingAll(v)
    BY DEF Cuts, FreeingAll
<1>3. start[v] # 0 => owner[start[v]] = v /\ pos[start[v]] = 0
    BY <1>1, <1>2 DEF StartInv
<1>4. ASSUME NEW i \in Slot, cache[v][i].cluster # 0
      PROVE  /\ cache[v][i].cluster \in Cluster /\ cache[v][i].index \in Nat
             /\ owner[cache[v][i].cluster] = v /\ pos[cache[v][i].cluster] = cache[v][i].index
  <2>1. cache[v][i].cluster \in Cluster /\ cache[v][i].index \in Nat
      BY <1>4, StateTypes DEF CacheEntry
  <2> QED BY <1>1, <1>4, <2>1 DEF CacheInv
<1> QED BY <1>3, <1>4

\* Nobody frees clusters under an operation other than getattr, nor of a
\* directory.
LEMMA NotCut ==
    ASSUME CtlInv, NEW t \in Thread, op[t].pc \notin {"idle", "freeing"}
    PROVE  \A u \in Thread : ~Cuts(u, op[t].v)
<1> SUFFICES ASSUME NEW u \in Thread, Cuts(u, op[t].v) PROVE FALSE
    OBVIOUS
<1>1. u # t /\ op[u].kind = "trunc" /\ op[u].v = op[t].v
    BY OpFacts DEF Cuts
<1> QED BY <1>1, Alone

\* fat32_vnode_seek_cluster starts from the right place.
LEMMA SeekSound ==
    ASSUME CtlInv, SoundInv, Undamaged, NEW t \in Thread, Seek(t)
    PROVE  SoundInv'
<1> DEFINE o == op[t]
<1>1. /\ o.pc = "seek" /\ o.v \in Vnode /\ start[o.v] \in Cluster /\ o.goal \in Nat
      /\ \A u \in Thread : ~Cuts(u, o.v)
    BY OpFacts, NotCut DEF Seek
<1>2. PICK c \in Cluster, i \in Nat : /\ SeekFrom(t, c, i)
                                      /\ owner[c] = o.v /\ pos[c] = i /\ i <= o.goal
  <2>1. CASE SeekFrom(t, start[o.v], 0)
    <3>1. owner[start[o.v]] = o.v /\ pos[start[o.v]] = 0 /\ 0 <= o.goal
        BY <1>1, ChainReady, StateTypes
    <3> QED BY <1>1, <2>1, <3>1
  <2>2. ASSUME NEW i \in Slot, IsBest(cache[o.v], o.goal, i),
               SeekFrom(t, cache[o.v][i].cluster, cache[o.v][i].index)
        PROVE  \E c \in Cluster, j \in Nat : /\ SeekFrom(t, c, j)
                                             /\ owner[c] = o.v /\ pos[c] = j /\ j <= o.goal
    <3>1. cache[o.v][i].cluster # 0 /\ cache[o.v][i].index <= o.goal
        BY <2>2 DEF IsBest, Candidates
    <3> QED BY <1>1, <2>2, <3>1, ChainReady
  <2> QED BY <2>1, <2>2 DEF Seek
<1>3. MoveTo(t, c, i) /\ UNCHANGED <<fat, owner, pos, start, size>>
    BY <1>2 DEF SeekFrom, fsVars, ghostVars
<1>4. /\ o.kind = "read" => o.goal < size[o.v]
      /\ owner'[c] = o.v /\ pos'[c] = i /\ size' = size
    BY <1>1, <1>2, <1>3 DEF SoundInv, RangeInv
<1>5. /\ \A u \in Thread \ {t} : op'[u] = op[u]
      /\ op'[t].pc # "freeing" /\ op'[t].res \in {"ok", op[t].res}
      /\ CursorInv(t)' /\ RangeInv(op[t])'
      /\ cache' = cache \/ cache' = [cache EXCEPT ![op[t].v] = UpdateCache(@, i, c)]
    BY <1>1, <1>2, <1>3, <1>4, MoveToOwn
<1>6. CacheInv'
    BY <1>1, <1>3, <1>4, <1>5, CacheKept
<1> QED BY <1>1, <1>3, <1>5, <1>6, QuietStep

\* A read within the size has a next cluster.
LEMMA ReadGoesOn ==
    ASSUME CtlInv, SoundInv, NEW t \in Thread, op[t].kind = "read", op[t].pc = "walk"
    PROVE  Fat0[op[t].cur] \in Cluster
<1> DEFINE o == op[t]
<1>1. /\ o.cur \in Cluster /\ o.v \in Vnode /\ o.v \in Reg /\ o.idx \in Nat /\ o.goal \in Nat
      /\ \A u \in Thread : ~Cuts(u, o.v)
    BY OpFacts, NotCut DEF HasCursor
<1>2. owner[o.cur] = o.v /\ pos[o.cur] = o.idx /\ o.idx + 1 < size[o.v]
  <2>1. CursorInv(t) /\ RangeInv(o)
      BY DEF SoundInv
  <2>2. size[o.v] \in Nat
      BY <1>1, StateTypes
  <2> QED BY <1>1, <2>1, <2>2 DEF CursorInv, RangeInv, HasCursor
<1>3. Fat0[o.cur] # FAT32_CLUSTER_EOC
  <2>1. SizeInv /\ size[o.v] \in Nat
      BY <1>1, StateTypes DEF SoundInv
  <2> QED BY <1>1, <1>2, <2>1 DEF SizeInv
<1>4. OwnerInv /\ owner[o.cur] # NoVnode
    BY <1>1, <1>2, StateTypes DEF SoundInv
<1> QED BY <1>1, <1>3, <1>4, OwnedEntry

\* The cluster in hand is in use: its entry leads on or ends the chain.
LEMMA CursorEntry ==
    ASSUME CtlInv, SoundInv, NEW t \in Thread, HasCursor(op[t])
    PROVE  /\ op[t].cur \in Cluster /\ op[t].v \in Vnode
           /\ owner[op[t].cur] = op[t].v /\ pos[op[t].cur] = op[t].idx
           /\ Fat0[op[t].cur] \in Cluster \/ Fat0[op[t].cur] = FAT32_CLUSTER_EOC
           /\ Fat0[op[t].cur] \notin {FAT32_CLUSTER_FREE, FAT32_CLUSTER_BAD}
           /\ Fat0[op[t].cur] \in Cluster =>
                 /\ owner[Fat0[op[t].cur]] = op[t].v
                 /\ pos[Fat0[op[t].cur]] = op[t].idx + 1
<1>1. op[t].cur \in Cluster /\ op[t].v \in Vnode
    BY OpFacts DEF HasCursor
<1>2. owner[op[t].cur] = op[t].v /\ pos[op[t].cur] = op[t].idx
    BY DEF SoundInv, CursorInv
<1>3. OwnerInv /\ LinkInv /\ owner[op[t].cur] # NoVnode
    BY <1>1, <1>2, StateTypes DEF SoundInv
<1>4. Fat0[op[t].cur] \in Cluster \/ Fat0[op[t].cur] = FAT32_CLUSTER_EOC
    BY <1>1, <1>3, OwnedEntry
<1> QED BY <1>1, <1>2, <1>3, <1>4, ConstantFacts DEF LinkInv

\* fat32_next_cluster follows a link, or finds the end of the chain.
LEMMA WalkSound ==
    ASSUME CtlInv, SoundInv, Undamaged, NEW t \in Thread, Walk(t)
    PROVE  SoundInv'
<1> DEFINE o == op[t]
           val == Fat0[o.cur]
<1>1. /\ o.pc = "walk" /\ HasCursor(o) /\ o.v \in Vnode /\ o.idx \in Nat /\ o.goal \in Nat
      /\ UNCHANGED <<fat, owner, pos, start, size>>
    BY OpFacts DEF Walk, HasCursor, fsVars, ghostVars
<1>2. /\ o.cur \in Cluster /\ owner[o.cur] = o.v /\ pos[o.cur] = o.idx
      /\ val \in Cluster \/ val = FAT32_CLUSTER_EOC
      /\ val \notin {FAT32_CLUSTER_FREE, FAT32_CLUSTER_BAD}
      /\ val \in Cluster => owner[val] = o.v /\ pos[val] = o.idx + 1
    BY <1>1, CursorEntry
<1>3. CASE val \in Cluster /\ MoveTo(t, val, o.idx + 1)
  <2>1. owner'[val] = o.v /\ pos'[val] = o.idx + 1 /\ o.idx + 1 \in Nat
      BY <1>1, <1>2, <1>3
  <2>2. /\ o.kind = "read" => \/ o.idx + 1 <= o.goal /\ o.goal < size[o.v]
                              \/ o.goal = 0 /\ o.idx + 1 < size[o.v]
        /\ o.kind = "trunc" => o.idx + 1 <= o.goal
    <3>1. RangeInv(o) /\ size[o.v] \in Nat
        BY <1>1, StateTypes DEF SoundInv
    <3> QED BY <1>1, <3>1 DEF RangeInv
  <2> DEFINE n == o.idx + 1
  <2>3. n \in Nat /\ MoveTo(t, val, n) /\ pos'[val] = n
      BY <1>3, <2>1
  <2> HIDE DEF n
  <2>4. /\ \A u \in Thread \ {t} : op'[u] = op[u]
        /\ op'[t].pc # "freeing" /\ op'[t].res \in {"ok", op[t].res}
        /\ CursorInv(t)' /\ RangeInv(op[t])'
        /\ cache' = cache \/ cache' = [cache EXCEPT ![op[t].v] = UpdateCache(@, n, val)]
    <3>1. /\ o.kind = "read" => \/ n <= o.goal /\ o.goal < size[o.v]
                                \/ o.goal = 0 /\ n < size[o.v]
          /\ o.kind = "trunc" => n <= o.goal
        BY <2>2 DEF n
    <3> QED BY <1>1, <1>3, <2>1, <2>3, <3>1, MoveToOwn
  <2>5. CacheInv'
      BY <1>1, <1>3, <2>1, <2>3, <2>4, CacheKept
  <2> QED BY <1>1, <2>4, <2>5, QuietStep
<1>4. CASE val = FAT32_CLUSTER_EOC /\ Go(t, [o EXCEPT !.pc = "alloc"]) /\ UNCHANGED cache
  <2>1. /\ op'[t].pc = "alloc" /\ op'[t].res = o.res /\ op'[t].kind = o.kind /\ op'[t].v = o.v
        /\ op'[t].need = o.need /\ op'[t].cur = o.cur /\ op'[t].idx = o.idx
        /\ op'[t].goal = o.goal /\ \A u \in Thread \ {t} : op'[u] = op[u]
      BY <1>4, StateTypes, OpFacts DEF Go, Op
  <2>2. CursorInv(t)'
      BY <1>1, <1>2, <1>4, <2>1 DEF CursorInv, Fat0
  <2>3. RangeInv(op[t])'
    <3>1. RangeInv(o)
        BY DEF SoundInv
    <3> QED BY <1>1, <2>1, <3>1 DEF RangeInv
  <2>4. CacheInv'
      BY <1>1, <1>4, <2>1, SameCache
  <2> QED BY <1>1, <2>1, <2>2, <2>3, <2>4, QuietStep
<1>5. CASE val = FAT32_CLUSTER_EOC /\ Finish(t, NextClusterFailed(o, "ENOSPC")) /\ UNCHANGED cache
  <2> DEFINE r == NextClusterFailed(o, "ENOSPC")
  <2>1. r \in {"ENOSPC", "ENOENT"}
    <3>1. o.kind # "read"
        BY <1>1, <1>5, ReadGoesOn, ConstantFacts
    <3> QED BY <3>1 DEF NextClusterFailed
  <2>2. /\ \A u \in Thread \ {t} : op'[u] = op[u]
        /\ op'[t].pc = "idle" /\ op'[t].res = r /\ CursorInv(t)' /\ RangeInv(op[t])'
      BY <1>5, Returned
  <2> HIDE DEF r
  <2>3. CacheInv'
      BY <1>1, <1>5, <2>2, SameCache
  <2> QED BY <1>1, <2>1, <2>2, <2>3, QuietStep
<1> QED BY <1>2, <1>3, <1>4, <1>5 DEF Walk

\* A step of t that returns r, changing nothing else
LEMMA ReturnSound ==
    ASSUME CtlInv, SoundInv, Undamaged, NEW t \in Thread,
           NEW r \in {"ok", "ENOSPC", "ENOENT", "EFAULT"}, Finish(t, r), op[t].pc # "freeing",
           UNCHANGED <<fat, owner, pos, start, size>>, CacheInv' \/ UNCHANGED cache
    PROVE  SoundInv'
<1>1. /\ \A u \in Thread \ {t} : op'[u] = op[u]
      /\ op'[t].pc = "idle" /\ op'[t].res = r /\ CursorInv(t)' /\ RangeInv(op[t])'
    BY Returned
<1>2. CacheInv'
    BY <1>1, SameCache
<1> QED BY <1>1, <1>2, QuietStep

\* A step of t that goes on at pc p with its cursor where it is
LEMMA GoOnSound ==
    ASSUME CtlInv, SoundInv, Undamaged, NEW t \in Thread, NEW p \in PC \ {"alloc", "freeing"},
           HasCursor(op[t]), Go(t, [op[t] EXCEPT !.pc = p]),
           UNCHANGED <<fat, owner, pos, start, size, cache>>,
           op[t].kind \in {"read", "trunc"} =>
              \/ op[t].kind = "read" /\ p = "walk" /\ op[t].goal = 0
                 /\ op[t].idx + 1 < size[op[t].v]
              \/ op[t].kind = "trunc" /\ p = "free" /\ op[t].pc = "peek"
    PROVE  SoundInv'
<1>1. /\ \A u \in Thread \ {t} : op'[u] = op[u]
      /\ op'[t].pc = p /\ op'[t].res = op[t].res /\ CursorInv(t)' /\ RangeInv(op[t])'
    BY WentOn
<1>2. op[t].pc # "freeing"
    BY DEF HasCursor
<1>3. CacheInv'
    BY <1>1, <1>2, SameCache
<1> QED BY <1>1, <1>2, <1>3, QuietStep

\* fat32_alloc_fdentry and fat32_getattr follow the chain of a directory.
LEMMA WalkEndSound ==
    ASSUME CtlInv, SoundInv, Undamaged, NEW t \in Thread, WalkEnd(t)
    PROVE  SoundInv'
<1> DEFINE o == op[t]
           val == Fat0[o.cur]
<1>1. /\ o.pc = "end" /\ HasCursor(o) /\ o.idx \in Nat
      /\ UNCHANGED <<fat, owner, pos, start, size, cache>>
    BY OpFacts DEF WalkEnd, HasCursor, fsVars, ghostVars
<1>2. o.kind \in {"grow", "getattr"}
    BY <1>1 DEF CtlInv, OpInv, Shape, ReadShape, WriteShape, TruncShape, ScanShape, GrowShape,
       StatShape
<1>3. CASE val \in Cluster /\ Go(t, [o EXCEPT !.cur = val, !.idx = o.idx + 1])
  <2>1. owner[val] = o.v /\ pos[val] = o.idx + 1
      BY <1>1, <1>3, CursorEntry
  <2> DEFINE n == o.idx + 1
  <2>2. n \in Nat /\ pos[val] = n /\ Go(t, [o EXCEPT !.cur = val, !.idx = n])
      BY <1>1, <1>3, <2>1
  <2> HIDE DEF n, val
  <2>3. /\ op'[t].pc = "end" /\ op'[t].res = o.res /\ op'[t].kind = o.kind /\ op'[t].v = o.v
        /\ op'[t].cur = val /\ op'[t].idx = n /\ \A u \in Thread \ {t} : op'[u] = op[u]
      BY <1>1, <2>2, StateTypes, OpFacts DEF Go, Op
  <2>4. CursorInv(t)' /\ RangeInv(op[t])'
      BY <1>1, <1>2, <2>1, <2>2, <2>3 DEF CursorInv, RangeInv
  <2>5. CacheInv'
      BY <1>1, <2>3, SameCache
  <2> QED BY <1>1, <2>3, <2>4, <2>5, QuietStep
<1>4. ASSUME NEW g \in Nat, Go(t, [o EXCEPT !.pc = "walk", !.goal = g])
      PROVE  SoundInv'
  <2>1. /\ op'[t].pc = "walk" /\ op'[t].res = o.res /\ op'[t].kind = o.kind /\ op'[t].v = o.v
        /\ op'[t].cur = o.cur /\ op'[t].idx = o.idx /\ \A u \in Thread \ {t} : op'[u] = op[u]
      BY <1>1, <1>4, StateTypes, OpFacts DEF Go, Op
  <2>2. CursorInv(t)' /\ RangeInv(op[t])'
    <3>1. owner[o.cur] = o.v /\ pos[o.cur] = o.idx
        BY <1>1, CursorEntry
    <3> QED BY <1>1, <1>2, <2>1, <3>1 DEF CursorInv, RangeInv
  <2>3. CacheInv'
      BY <1>1, <2>1, SameCache
  <2> QED BY <1>1, <2>1, <2>2, <2>3, QuietStep
<1>5. ASSUME NEW n \in 1 .. MaxSize, Go(t, [o EXCEPT !.pc = "walk", !.goal = o.idx + n])
      PROVE  SoundInv'
  <2>1. o.idx + n \in Nat
      BY <1>1
  <2> QED BY <1>4, <1>5, <2>1
<1>6. CASE Finish(t, "ok")
    BY <1>1, <1>6, ReturnSound
<1> QED BY <1>3, <1>5, <1>6 DEF WalkEnd, EndOfWalk

\* The end of a transfer records its place in the cache.
LEMMA TransferredCache ==
    ASSUME CtlInv, SoundInv, NEW t \in Thread, op[t].pc = "data",
           cache' = [cache EXCEPT ![op[t].v] = UpdateCache(@, op[t].idx, op[t].cur)],
           UNCHANGED <<owner, pos>>, Finish(t, "ok")
    PROVE  CacheInv'
<1>1. /\ op[t].cur \in Cluster /\ op[t].v \in Vnode /\ op[t].idx \in Nat
      /\ owner'[op[t].cur] = op[t].v /\ pos'[op[t].cur] = op[t].idx
    BY CursorEntry, OpFacts DEF HasCursor
<1>2. \A u \in Thread : op[u].pc = "freeing" => op'[u] = op[u]
    BY Returned
<1> QED BY <1>1, <1>2, CacheKept

\* fat32_read transfers a cluster.
LEMMA ReadDataSound ==
    ASSUME CtlInv, SoundInv, Undamaged, NEW t \in Thread, ReadData(t)
    PROVE  SoundInv'
<1> DEFINE o == op[t]
<1>1. /\ o.pc = "data" /\ o.kind = "read" /\ HasCursor(o)
      /\ UNCHANGED <<fat, owner, pos, start, size>>
    BY DEF ReadData, HasCursor, fsVars, ghostVars
<1>2. CASE /\ o.idx + 1 < size[o.v] /\ Go(t, [o EXCEPT !.pc = "walk"]) /\ UNCHANGED cache
  <2>1. o.goal = 0
      BY <1>1 DEF SoundInv, RangeInv
  <2> QED BY <1>1, <1>2, <2>1, GoOnSound DEF PC
<1>3. CASE /\ cache' = [cache EXCEPT ![o.v] = UpdateCache(@, o.idx, o.cur)] /\ Finish(t, "ok")
    BY <1>1, <1>3, TransferredCache, ReturnSound
<1> QED BY <1>2, <1>3 DEF ReadData, TransferNext

\* fat32_get_dirent looks at a cluster.
LEMMA ScanDataSound ==
    ASSUME CtlInv, SoundInv, Undamaged, NEW t \in Thread, ScanData(t)
    PROVE  SoundInv'
<1>1. /\ op[t].pc = "data" /\ op[t].kind = "scan" /\ HasCursor(op[t])
      /\ UNCHANGED <<fat, owner, pos, start, size, cache>>
    BY DEF ScanData, HasCursor, fsVars, ghostVars
<1>2. CASE Go(t, [op[t] EXCEPT !.pc = "walk"])
    BY <1>1, <1>2, GoOnSound DEF PC
<1>3. CASE Finish(t, "ok") \/ Finish(t, "ENOENT")
    BY <1>1, <1>3, ReturnSound
<1> QED BY <1>2, <1>3 DEF ScanData

\* A size that the chain covers: fat32_write and fat32_truncate set it while
\* the chain of the file is not being cut.
LEMMA NewSize ==
    ASSUME CtlInv, SoundInv, NEW t \in Thread, HasCursor(op[t]), op[t].kind \in {"write", "trunc"},
           NEW n \in Nat, n <= op[t].idx + 1 \/ n <= size[op[t].v],
           UNCHANGED <<fat, owner, pos>>, \A u \in Thread \ {t} : op'[u] = op[u],
           size' = [size EXCEPT ![op[t].v] = n]
    PROVE  SizeInv'
<1> DEFINE o == op[t]
<1>1. /\ o.cur \in Cluster /\ o.v \in Vnode /\ owner[o.cur] = o.v /\ pos[o.cur] = o.idx
      /\ o.idx \in Nat /\ size[o.v] \in Nat
    BY CursorEntry, OpFacts, StateTypes
<1>2. \A u \in Thread : ~Cuts(u, o.v)
    BY NotCut DEF HasCursor
<1>3. SizeInv /\ EndInv /\ Fat0' = Fat0
    BY DEF SoundInv, Fat0
<1> SUFFICES ASSUME NEW v \in Reg, NEW c \in Cluster, owner[c] = v, Fat0[c] = FAT32_CLUSTER_EOC
             PROVE  size'[v] <= pos[c] + 1 \/ \E u \in Thread : Cuts(u, v)'
    BY <1>3 DEF SizeInv
<1>4. v \in Vnode /\ pos[c] \in Nat
    BY StateTypes DEF Vnode
<1>5. CASE v = o.v
  <2>1. o.idx <= pos[c]
      BY <1>1, <1>2, <1>3, <1>5 DEF EndInv
  <2>2. size[o.v] <= pos[c] + 1
      BY <1>2, <1>3, <1>5 DEF SizeInv
  <2>3. size'[v] = n
      BY <1>1, <1>5, StateTypes
  <2> QED BY <1>1, <1>4, <2>1, <2>2, <2>3
<1>6. CASE v # o.v
  <2>1. size'[v] = size[v]
      BY <1>4, <1>6, StateTypes
  <2>2. ASSUME NEW u \in Thread, Cuts(u, v) PROVE Cuts(u, v)'
      BY <1>6, <2>2 DEF Cuts
  <2> QED BY <1>3, <2>1, <2>2 DEF SizeInv
<1> QED BY <1>5, <1>6

\* fat32_write transfers a cluster and grows the size.
LEMMA WriteDataSound ==
    ASSUME CtlInv, SoundInv, Undamaged, NEW t \in Thread, WriteData(t)
    PROVE  SoundInv'
<1> DEFINE o == op[t]
           n == IF o.idx + 1 > size[o.v] THEN o.idx + 1 ELSE size[o.v]
<1>1. /\ o.pc = "data" /\ o.kind = "write" /\ HasCursor(o) /\ o.v \in Vnode /\ o.idx \in Nat
      /\ start[o.v] \in Cluster /\ UNCHANGED <<fat, owner, pos, start>>
    BY OpFacts DEF WriteData, HasCursor, fsVars, ghostVars
<1>2. /\ n \in Nat
      /\ n <= o.idx + 1 \/ n <= size[o.v]
      /\ size' = [size EXCEPT ![o.v] = n]
    BY <1>1, StateTypes DEF WriteData
<1>3. start[o.v] # 0
    BY <1>1, StateTypes
<1> HIDE DEF n
<1>4. CASE Go(t, [o EXCEPT !.pc = "walk"]) /\ UNCHANGED cache
  <2>1. /\ op'[t].pc = "walk" /\ op'[t].res = o.res /\ op'[t].kind = o.kind /\ op'[t].v = o.v
        /\ op'[t].cur = o.cur /\ op'[t].idx = o.idx /\ \A u \in Thread \ {t} : op'[u] = op[u]
      BY <1>4, StateTypes, OpFacts DEF Go, Op
  <2>2. CursorInv(t)' /\ RangeInv(op[t])'
    <3>1. owner[o.cur] = o.v /\ pos[o.cur] = o.idx
        BY <1>1, CursorEntry
    <3> QED BY <1>1, <2>1, <3>1 DEF CursorInv, RangeInv
  <2>3. CacheInv'
      BY <1>1, <1>4, <2>1, SameCache
  <2>4. SizeInv'
      BY <1>1, <1>2, <2>1, NewSize
  <2> QED BY <1>1, <1>2, <1>3, <2>1, <2>2, <2>3, <2>4, QuietStep
<1>5. CASE /\ cache' = [cache EXCEPT ![o.v] = UpdateCache(@, o.idx, o.cur)] /\ Finish(t, "ok")
  <2>1. /\ \A u \in Thread \ {t} : op'[u] = op[u]
        /\ op'[t].pc = "idle" /\ op'[t].res = "ok" /\ CursorInv(t)' /\ RangeInv(op[t])'
      BY <1>5, Returned
  <2>2. CacheInv'
      BY <1>1, <1>5, TransferredCache
  <2>3. SizeInv'
      BY <1>1, <1>2, <2>1, NewSize
  <2> QED BY <1>1, <1>2, <1>3, <2>1, <2>2, <2>3, QuietStep
<1> QED BY <1>4, <1>5 DEF WriteData, TransferNext

\* fat32_truncate looks for a cluster after the last one it needs.
LEMMA PeekSound ==
    ASSUME CtlInv, SoundInv, Undamaged, Undamaged', NEW t \in Thread, Peek(t)
    PROVE  SoundInv'
<1> DEFINE o == op[t]
<1>1. /\ o.pc = "peek" /\ HasCursor(o) /\ o.v \in Vnode /\ o.kind = "trunc" /\ o.need \in Nat
      /\ start[o.v] \in Cluster /\ UNCHANGED <<fat, owner, pos, start, cache>>
    BY OpFacts DEF Peek, HasCursor, fsVars, ghostVars
<1>2. ~IOError /\ Fat0[o.cur] \notin {FAT32_CLUSTER_FREE, FAT32_CLUSTER_BAD}
    BY <1>1, CursorEntry DEF IOError, IOErrors, Undamaged
<1>3. CASE Go(t, [o EXCEPT !.pc = "free"]) /\ UNCHANGED size
    BY <1>1, <1>3, GoOnSound DEF PC
<1>4. CASE SetSize(t) /\ Finish(t, "ok")
  <2>1. size' = [size EXCEPT ![o.v] = o.need] /\ o.need <= o.idx + 1 /\ start[o.v] # 0
    <3>1. o.idx = o.need - 1
        BY <1>1 DEF SoundInv, RangeInv
    <3> QED BY <1>1, <1>4, <3>1, StateTypes DEF SetSize
  <2>2. /\ \A u \in Thread \ {t} : op'[u] = op[u]
        /\ op'[t].pc = "idle" /\ op'[t].res = "ok" /\ CursorInv(t)' /\ RangeInv(op[t])'
      BY <1>4, Returned
  <2>3. CacheInv'
      BY <1>1, <2>2, SameCache
  <2>4. SizeInv'
      BY <1>1, <2>1, <2>2, NewSize
  <2> QED BY <1>1, <2>1, <2>2, <2>3, <2>4, QuietStep
<1> QED BY <1>2, <1>3, <1>4 DEF Peek

\* Calls that end without a device error and without a change
LEMMA OtherReturnsSound ==
    ASSUME CtlInv, SoundInv, Undamaged, Undamaged', NEW t \in Thread,
           AllocFails(t) \/ DataError(t)
    PROVE  SoundInv'
<1>1. ~IOError
    BY DEF IOError, IOErrors, Undamaged
<1>2. CASE AllocFails(t)
  <2>1. ~AllocateEIO(op[t].cur)
    <3> SUFFICES ASSUME AllocateEIO(op[t].cur) PROVE FALSE
        OBVIOUS
    <3>1. errors' # 0
      <4>1. op[t].cur \in {0} \cup Cluster
          BY <1>2, OpFacts DEF AllocFails, HasCursor
      <4> QED BY <4>1, AllocateEIOType DEF CtlInv
    <3> QED BY <3>1 DEF Undamaged
  <2>2. Finish(t, "ENOSPC") /\ UNCHANGED fsVars /\ op[t].pc # "freeing"
      BY <1>2, <2>1 DEF AllocFails, AllocateENOSPC
  <2>3. UNCHANGED <<fat, owner, pos, start, size, cache>>
      BY <1>2, <2>2 DEF AllocFails, fsVars, ghostVars
  <2> QED BY <2>2, <2>3, ReturnSound
<1>3. CASE DataError(t)
  <2>1. Finish(t, "EFAULT") /\ op[t].pc # "freeing"
      BY <1>1, <1>3 DEF DataError
  <2>2. UNCHANGED <<fat, owner, pos, start, size, cache>>
      BY <1>3 DEF DataError, fsVars, ghostVars
  <2> QED BY <2>1, <2>2, ReturnSound
<1> QED BY <1>2, <1>3

----------------------------------------------------------------------------
(* Allocation *)

\* A cluster in use is not free, and nothing leads to a free one.
LEMMA NothingLeadsToFree ==
    ASSUME CtlInv, SoundInv, NEW c \in Cluster, Fat0[c] = FAT32_CLUSTER_FREE,
           \A u \in Thread : op[u].pc # "freeing"
    PROVE  /\ owner[c] = NoVnode
           /\ \A x \in Cluster : Fat0[x] # c
           /\ \A w \in Vnode : start[w] # c
<1>1. OwnerInv /\ LinkInv /\ StartInv
    BY DEF SoundInv
<1>2. owner[c] = NoVnode
    BY <1>1 DEF OwnerInv, InUse
<1>3. ASSUME NEW x \in Cluster, Fat0[x] = c PROVE FALSE
  <2>1. owner[x] = NoVnode
      BY <1>1, <1>2, <1>3 DEF LinkInv
  <2>2. Fat0[x] \in {FAT32_CLUSTER_FREE, FAT32_CLUSTER_BAD}
      BY <1>1, <2>1 DEF OwnerInv, InUse
  <2> QED BY <1>3, <2>2, ConstantFacts
<1>4. ASSUME NEW w \in Vnode, start[w] = c PROVE FALSE
    BY <1>1, <1>2, <1>4, StateTypes DEF StartInv, FreeingAll
<1> QED BY <1>2, <1>3, <1>4

\* c becomes place n of the chain of v: the first, or the one after its end.
Joins(v, c, n) ==
    /\ owner' = [owner EXCEPT ![c] = v] /\ pos' = [pos EXCEPT ![c] = n]
    /\ \/ /\ n = 0 /\ start[v] = 0 /\ start' = [start EXCEPT ![v] = c]
          /\ Fat0' = [Fat0 EXCEPT ![c] = FAT32_CLUSTER_EOC]
       \/ \E b \in Cluster :
             /\ Fat0[b] = FAT32_CLUSTER_EOC /\ owner[b] = v /\ n = pos[b] + 1 /\ start' = start
             /\ Fat0' = [Fat0 EXCEPT ![c] = FAT32_CLUSTER_EOC, ![b] = c]

\* An allocated cluster joins the chain of its file and no other.
LEMMA JoinedChains ==
    ASSUME CtlInv, SoundInv, Undamaged, NEW v \in Vnode, NEW c \in Cluster, NEW n \in Nat,
           Fat0[c] = FAT32_CLUSTER_FREE, Joins(v, c, n), size' = size,
           \A u \in Thread : op[u].pc # "freeing" /\ op'[u].pc # "freeing"
    PROVE  /\ OwnerInv' /\ LinkInv' /\ PlaceInv' /\ EndInv' /\ StartInv' /\ SizeInv'
           /\ NoLostCluster' /\ \A u \in Thread : CutInv(u)'
           /\ \A x \in Cluster : owner[x] # NoVnode => owner'[x] = owner[x] /\ pos'[x] = pos[x]
           /\ owner'[c] = v /\ pos'[c] = n /\ Fat0'[c] = FAT32_CLUSTER_EOC
           /\ \A x \in Cluster : owner[x] # v /\ owner[x] # NoVnode => Fat0'[x] = Fat0[x]
<1> DEFINE First == /\ n = 0 /\ start[v] = 0 /\ start' = [start EXCEPT ![v] = c]
                    /\ Fat0' = [Fat0 EXCEPT ![c] = FAT32_CLUSTER_EOC]
           After(b) == /\ Fat0[b] = FAT32_CLUSTER_EOC /\ owner[b] = v /\ n = pos[b] + 1
                       /\ start' = start
                       /\ Fat0' = [Fat0 EXCEPT ![c] = FAT32_CLUSTER_EOC, ![b] = c]
<1>0. /\ OwnerInv /\ LinkInv /\ PlaceInv /\ EndInv /\ StartInv /\ SizeInv /\ NoLostCluster
    BY DEF SoundInv
<1>1. /\ owner[c] = NoVnode
      /\ \A x \in Cluster : Fat0[x] # c
      /\ \A w \in Vnode : start[w] # c
    BY NothingLeadsToFree
<1>2. First \/ \E b \in Cluster : After(b)
    BY DEF Joins
<1>3. ASSUME NEW x \in Cluster
      PROVE  /\ owner'[x] = IF x = c THEN v ELSE owner[x]
             /\ pos'[x] = IF x = c THEN n ELSE pos[x]
             /\ pos[x] \in Nat
    BY StateTypes DEF Joins
<1>4. v # NoVnode /\ 0 \notin Cluster
    BY StateTypes
<1>5. \A w \in Vnode : ~FreeingAll(w) /\ \A u \in Thread : ~Cuts(u, w)
    BY DEF Cuts, FreeingAll
<1>6. \A u \in Thread : CutInv(u)'
    BY DEF CutInv
<1>7. \A x \in Cluster : owner[x] # NoVnode => x # c /\ owner'[x] = owner[x] /\ pos'[x] = pos[x]
    BY <1>1, <1>3
<1>8. ASSUME NEW x \in Cluster, owner[x] = v PROVE pos[x] < n
  <2>1. ~First
      BY <1>0, <1>8 DEF StartInv
  <2>2. PICK b \in Cluster : After(b)
      BY <1>2, <2>1
  <2>3. pos[x] <= pos[b]
      BY <1>0, <1>5, <1>8, <2>2 DEF EndInv
  <2> QED BY <1>3, <2>2, <2>3
<1>9. ASSUME NEW x \in Cluster
      PROVE  Fat0'[x] = IF x = c THEN FAT32_CLUSTER_EOC
                        ELSE IF ~First /\ owner[x] = v /\ pos[x] = n - 1 THEN c ELSE Fat0[x]
  <2>1. CASE First
      BY <2>1, StateTypes
  <2>2. CASE ~First
    <3>1. PICK b \in Cluster : After(b)
        BY <1>2, <2>2
    <3>2. b # c
        BY <3>1, ConstantFacts
    <3>3. Fat0'[x] = IF x = b THEN c ELSE IF x = c THEN FAT32_CLUSTER_EOC ELSE Fat0[x]
        BY <3>1, <3>2, StateTypes
    <3>4. owner[x] = v /\ pos[x] = n - 1 <=> x = b
        BY <1>0, <1>3, <1>4, <3>1 DEF PlaceInv
    <3> QED BY <2>2, <3>2, <3>3, <3>4
  <2> QED BY <2>1, <2>2
<1>10. ~First => \E b \in Cluster : /\ Fat0[b] = FAT32_CLUSTER_EOC /\ owner[b] = v
                                    /\ pos[b] = n - 1 /\ start' = start /\ b # c
                                    /\ Fat0'[b] = c
  <2> SUFFICES ASSUME ~First
               PROVE  \E b \in Cluster : /\ Fat0[b] = FAT32_CLUSTER_EOC /\ owner[b] = v
                                         /\ pos[b] = n - 1 /\ start' = start /\ b # c
                                         /\ Fat0'[b] = c
      OBVIOUS
  <2>1. PICK b \in Cluster : After(b)
      BY <1>2
  <2>2. b # c /\ pos[b] = n - 1
      BY <1>3, <2>1, ConstantFacts
  <2> HIDE DEF First
  <2> QED BY <1>9, <2>1, <2>2
<1>11. First => n = 0 /\ start[v] = 0 /\ start' = [start EXCEPT ![v] = c]
    OBVIOUS
<1> HIDE DEF First, After
<1>12. OwnerInv'
    BY <1>0, <1>1, <1>3, <1>4, <1>9, ConstantFacts DEF OwnerInv, InUse
<1>13. LinkInv'
  <2> SUFFICES ASSUME NEW x \in Cluster, Fat0'[x] \in Cluster
               PROVE  owner'[Fat0'[x]] = owner'[x] /\ pos'[Fat0'[x]] = pos'[x] + 1
      BY DEF LinkInv
  <2>1. x # c
      BY <1>9, ConstantFacts
  <2>2. CASE Fat0'[x] = c
      BY <1>1, <1>3, <1>9, <2>1, <2>2
  <2>3. CASE Fat0'[x] # c
      BY <1>0, <1>3, <1>9, <2>1, <2>3 DEF LinkInv
  <2> QED BY <2>2, <2>3
<1>14. PlaceInv'
  <2>1. ASSUME NEW x \in Cluster, owner'[x] = v, x # c PROVE pos'[x] # n
      BY <1>3, <1>8, <2>1
  <2> QED BY <1>0, <1>3, <1>4, <2>1 DEF PlaceInv
<1>15. EndInv'
  <2> SUFFICES ASSUME NEW x \in Cluster, NEW y \in Cluster,
                      Fat0'[x] = FAT32_CLUSTER_EOC, owner'[y] = owner'[x]
               PROVE  pos'[y] <= pos'[x]
      BY DEF EndInv
  <2>1. CASE x = c
      BY <1>3, <1>8, <2>1
  <2>2. CASE x # c
    <3>1. Fat0[x] = FAT32_CLUSTER_EOC
        BY <1>9, <2>2, ConstantFacts
    <3>2. owner[x] # NoVnode /\ owner[x] \in Vnode
        BY <1>0, <3>1, ConstantFacts, StateTypes DEF OwnerInv, InUse
    <3>3. CASE y = c
      <4>1. owner[x] = v
          BY <1>3, <2>2, <3>3
      <4>2. ~First
          BY <1>0, <1>11, <4>1 DEF StartInv
      <4>3. PICK b \in Cluster : /\ Fat0[b] = FAT32_CLUSTER_EOC /\ owner[b] = v
                                 /\ pos[b] = n - 1 /\ Fat0'[b] = c
          BY <1>10, <4>2
      <4>4. pos[b] <= pos[x] /\ pos[x] <= pos[b]
          BY <1>0, <1>5, <3>1, <4>1, <4>3 DEF EndInv
      <4>5. x = b
          BY <1>0, <1>3, <1>4, <4>1, <4>3, <4>4 DEF PlaceInv
      <4> QED BY <4>3, <4>5, ConstantFacts
    <3>4. CASE y # c
        BY <1>0, <1>3, <1>5, <2>2, <3>1, <3>2, <3>4 DEF EndInv
    <3> QED BY <3>3, <3>4
  <2> QED BY <2>1, <2>2
<1>16. StartInv'
  <2> SUFFICES ASSUME NEW w \in Vnode
               PROVE  /\ start'[w] # 0 => pos'[start'[w]] = 0 /\ owner'[start'[w]] = w
                      /\ start'[w] = 0 => size'[w] = 0 /\ \A x \in Cluster : owner'[x] # w
      BY DEF StartInv
  <2>1. CASE First /\ w = v
      BY <1>3, <1>4, <1>11, <2>1, StateTypes
  <2>2. CASE ~(First /\ w = v)
    <3>1. start'[w] = start[w] /\ start[w] \in {0} \cup Cluster
        BY <1>10, <1>11, <2>2, StateTypes
    <3>2. start[w] # 0 => pos'[start[w]] = 0 /\ owner'[start[w]] = w
        BY <1>0, <1>1, <1>3, <1>5, <3>1 DEF StartInv
    <3>3. start[w] = 0 => w # v
        BY <1>0, <1>10, <2>2 DEF StartInv
    <3>4. start[w] = 0 => size'[w] = 0 /\ \A x \in Cluster : owner'[x] # w
        BY <1>0, <1>3, <3>3 DEF StartInv
    <3> QED BY <3>1, <3>2, <3>4
  <2> QED BY <2>1, <2>2
<1>17. SizeInv'
  <2> SUFFICES ASSUME NEW w \in Reg, NEW x \in Cluster, owner'[x] = w, Fat0'[x] = FAT32_CLUSTER_EOC
               PROVE  size[w] <= pos'[x] + 1
      BY DEF SizeInv
  <2>0. w \in Vnode /\ size[w] \in Nat
      BY StateTypes DEF Vnode
  <2>1. CASE x # c
    <3>1. Fat0[x] = FAT32_CLUSTER_EOC
        BY <1>9, <2>1, ConstantFacts
    <3> QED BY <1>0, <1>3, <1>5, <2>0, <2>1, <3>1 DEF SizeInv
  <2>2. CASE x = c /\ First
      BY <1>0, <1>3, <1>11, <2>0, <2>2 DEF StartInv
  <2>3. CASE x = c /\ ~First
    <3>1. PICK b \in Cluster : Fat0[b] = FAT32_CLUSTER_EOC /\ owner[b] = v /\ pos[b] = n - 1
        BY <1>10, <2>3
    <3>2. size[w] <= pos[b] + 1
        BY <1>0, <1>3, <1>5, <2>0, <2>3, <3>1 DEF SizeInv
    <3> QED BY <1>3, <2>0, <2>3, <3>1, <3>2
  <2> QED BY <2>1, <2>2, <2>3
<1>18. NoLostCluster'
  <2> SUFFICES ASSUME NEW x \in Cluster, InUse(x)'
               PROVE  (\E w \in Vnode : start'[w] = x) \/ (\E y \in Cluster : Fat0'[y] = x)
      BY DEF NoLostCluster
  <2>1. CASE x = c /\ First
      BY <1>11, <2>1, StateTypes
  <2>2. CASE x = c /\ ~First
      BY <1>10, <2>2
  <2>3. CASE x # c
    <3>1. InUse(x)
        BY <1>0, <1>3, <1>12, <2>3 DEF OwnerInv
    <3>2. (\E w \in Vnode : start[w] = x) \/ (\E y \in Cluster : Fat0[y] = x)
        BY <1>0, <3>1 DEF NoLostCluster
    <3>3. ASSUME NEW w \in Vnode, start[w] = x PROVE start'[w] = x
        BY <1>4, <1>10, <1>11, <3>3, StateTypes
    <3>4. ASSUME NEW y \in Cluster, Fat0[y] = x PROVE Fat0'[y] = x
      <4>1. y # c
          BY <3>4, ConstantFacts
      <4>2. CASE ~First /\ owner[y] = v /\ pos[y] = n - 1
        <5>1. PICK b \in Cluster : Fat0[b] = FAT32_CLUSTER_EOC /\ owner[b] = v /\ pos[b] = n - 1
            BY <1>10, <4>2
        <5>2. b = y
            BY <1>0, <1>4, <4>2, <5>1 DEF PlaceInv
        <5> QED BY <3>4, <5>1, <5>2, ConstantFacts
      <4>3. CASE ~(~First /\ owner[y] = v /\ pos[y] = n - 1)
          BY <1>9, <3>4, <4>1, <4>3
      <4> QED BY <4>2, <4>3
    <3> QED BY <3>2, <3>3, <3>4
  <2> QED BY <2>1, <2>2, <2>3
<1>19. \A x \in Cluster : owner[x] # v /\ owner[x] # NoVnode => Fat0'[x] = Fat0[x]
    BY <1>1, <1>9
<1> QED BY <1>3, <1>6, <1>7, <1>9, <1>12, <1>13, <1>14, <1>15, <1>16, <1>17, <1>18, <1>19

\* The cluster fat32_allocate_cluster gives out, and what it writes
LEMMA Allocated ==
    ASSUME CtlInv, NEW parent \in {0} \cup Cluster, NEW c \in Cluster, AllocateOk(parent, c)
    PROVE  /\ Fat0[c] = FAT32_CLUSTER_FREE
           /\ parent = 0 => Fat0' = [Fat0 EXCEPT ![c] = FAT32_CLUSTER_EOC]
           /\ parent # 0 => Fat0' = [Fat0 EXCEPT ![c] = FAT32_CLUSTER_EOC, ![parent] = c]
<1> DEFINE marked == WriteFat(fat, c, FAT32_CLUSTER_EOC, NumFats)
<1>1. fat \in [Copy -> [Cluster -> Entry]] /\ Cluster \subseteq Entry
    BY ConstantFacts DEF CtlInv, TypeOK
<1>2. Fat0[c] = FAT32_CLUSTER_FREE
    BY DEF AllocateOk, IsFirstFree, FreeClusters
<1>3. marked \in [Copy -> [Cluster -> Entry]] /\ marked[0] = [Fat0 EXCEPT ![c] = FAT32_CLUSTER_EOC]
    BY <1>1, ConstantFacts, WriteFatType, WriteFatAll DEF Fat0
<1>4. fat' = IF parent = 0 THEN marked ELSE WriteFat(marked, parent, c, NumFats)
    BY DEF AllocateOk
<1> HIDE DEF marked
<1>5. CASE parent = 0
    BY <1>2, <1>3, <1>4, <1>5 DEF Fat0
<1>6. CASE parent # 0
  <2>1. WriteFat(marked, parent, c, NumFats)[0] = [marked[0] EXCEPT ![parent] = c]
    <3>1. parent \in Cluster /\ c \in Entry
        BY <1>1, <1>6
    <3>2. marked \in [Copy -> [Cluster -> Entry]]
        BY <1>3
    <3> QED BY <3>1, <3>2, WriteFatAll
  <2>2. Fat0' = [[Fat0 EXCEPT ![c] = FAT32_CLUSTER_EOC] EXCEPT ![parent] = c]
      BY <1>3, <1>4, <1>6, <2>1 DEF Fat0
  <2>3. Fat0' = [Fat0 EXCEPT ![c] = FAT32_CLUSTER_EOC, ![parent] = c]
      BY <2>2, StateTypes
  <2> QED BY <1>2, <1>6, <2>3
<1> QED BY <1>5, <1>6

\* The threads that look on while t allocates cluster c for its file
LEMMA AllocOthers ==
    ASSUME CtlInv, SoundInv, NEW t \in Thread, Exclusive(op[t].kind), op[t].v \in Vnode,
           \A u \in Thread \ {t} : op'[u] = op[u],
           \A x \in Cluster : owner[x] # NoVnode => owner'[x] = owner[x] /\ pos'[x] = pos[x],
           \A x \in Cluster : owner[x] # op[t].v /\ owner[x] # NoVnode => Fat0'[x] = Fat0[x],
           size' = size
    PROVE  \A u \in Thread \ {t} : CursorInv(u)' /\ RangeInv(op[u])'
<1>1. \A u \in Thread \ {t} : HasCursor(op[u]) => owner'[op[u].cur] = owner[op[u].cur]
    BY CursorEntry, StateTypes
<1>2. ASSUME NEW u \in Thread \ {t}, op[u].pc = "alloc"
      PROVE  Fat0'[op[u].cur] = Fat0[op[u].cur]
  <2>1. HasCursor(op[u]) /\ Exclusive(op[u].kind)
      BY <1>2, OpFacts DEF HasCursor
  <2>2. op[u].v # op[t].v
      BY <2>1, Alone DEF Exclusive
  <2> QED BY <2>1, <2>2, CursorEntry, StateTypes
<1> QED BY <1>1, <1>2, KeepOthers

\* fat32_next_cluster extends a chain.
LEMMA AllocSound ==
    ASSUME CtlInv, SoundInv, Undamaged, NEW t \in Thread, Alloc(t)
    PROVE  SoundInv'
<1> DEFINE o == op[t]
           n == o.idx + 1
<1>1. /\ o.pc = "alloc" /\ HasCursor(o) /\ o.v \in Vnode /\ o.idx \in Nat /\ o.goal \in Nat
      /\ Exclusive(o.kind) /\ UNCHANGED <<start, size>> /\ fsiLock = NoThread
    BY OpFacts DEF Alloc, HasCursor
<1>2. PICK c \in Cluster : /\ AllocateOk(o.cur, c) /\ MoveTo(t, c, n)
                           /\ owner' = [owner EXCEPT ![c] = o.v]
                           /\ pos' = [pos EXCEPT ![c] = n]
    BY DEF Alloc
<1>3. /\ o.cur \in Cluster /\ owner[o.cur] = o.v /\ pos[o.cur] = o.idx
      /\ Fat0[o.cur] = FAT32_CLUSTER_EOC
    BY <1>1, CursorEntry DEF SoundInv, CursorInv
<1>4. n \in Nat /\ n = pos[o.cur] + 1
    BY <1>1, <1>3
<1>r. o.kind # "read" /\ (o.kind = "trunc" => n <= o.goal)
  <2>1. RangeInv(o)
      BY DEF SoundInv
  <2> QED BY <1>1, <2>1 DEF RangeInv, Exclusive
<1> HIDE DEF n
<1>5. Fat0[c] = FAT32_CLUSTER_FREE /\ Joins(o.v, c, n)
  <2>1. /\ Fat0[c] = FAT32_CLUSTER_FREE
        /\ Fat0' = [Fat0 EXCEPT ![c] = FAT32_CLUSTER_EOC, ![o.cur] = c]
      BY <1>2, <1>3, Allocated, StateTypes
  <2> QED BY <1>1, <1>2, <1>3, <1>4, <2>1 DEF Joins
<1>6. owner'[c] = o.v /\ pos'[c] = n
    BY <1>2, StateTypes
<1>7. /\ \A u \in Thread \ {t} : op'[u] = op[u]
      /\ op'[t].pc # "freeing" /\ op'[t].res \in {"ok", op[t].res}
      /\ CursorInv(t)' /\ RangeInv(op[t])'
      /\ cache' = cache \/ cache' = [cache EXCEPT ![op[t].v] = UpdateCache(@, n, c)]
    BY <1>1, <1>2, <1>4, <1>6, <1>r, MoveToOwn
<1>8. \A u \in Thread : op[u].pc # "freeing" /\ op'[u].pc # "freeing"
    BY <1>1, <1>7, NobodyFrees
<1>9. /\ OwnerInv' /\ LinkInv' /\ PlaceInv' /\ EndInv' /\ StartInv' /\ SizeInv'
      /\ NoLostCluster' /\ \A u \in Thread : CutInv(u)'
      /\ \A x \in Cluster : owner[x] # NoVnode => owner'[x] = owner[x] /\ pos'[x] = pos[x]
      /\ \A x \in Cluster : owner[x] # o.v /\ owner[x] # NoVnode => Fat0'[x] = Fat0[x]
    BY <1>1, <1>4, <1>5, <1>8, JoinedChains
<1>10. CacheInv'
    BY <1>1, <1>4, <1>6, <1>7, <1>8, <1>9, CacheKept
<1>11. \A u \in Thread \ {t} : CursorInv(u)' /\ RangeInv(op[u])'
    BY <1>1, <1>7, <1>9, AllocOthers
<1>12. NoFalseEIO'
  <2>1. \A u \in Thread : op[u].res \notin {"EIO", "EINVAL"}
      BY DEF SoundInv, NoFalseEIO
  <2> QED BY <1>7, <2>1 DEF NoFalseEIO
<1> QED BY <1>7, <1>9, <1>10, <1>11, <1>12 DEF SoundInv

\* fat32_write and fat32_truncate give an empty file its first cluster.
LEMMA AllocFirstSound ==
    ASSUME CtlInv, SoundInv, Undamaged, NEW t \in Thread, AllocFirst(t)
    PROVE  SoundInv'
<1> DEFINE o == op[t]
<1>1. /\ o.pc = "first" /\ o.v \in Vnode /\ start[o.v] = 0 /\ Exclusive(o.kind)
      /\ UNCHANGED <<size, cache>> /\ fsiLock = NoThread /\ Go(t, [o EXCEPT !.pc = "seek"])
    BY OpFacts DEF AllocFirst
<1>2. PICK c \in Cluster : /\ AllocateOk(0, c)
                           /\ start' = [start EXCEPT ![o.v] = c]
                           /\ owner' = [owner EXCEPT ![c] = o.v]
                           /\ pos' = [pos EXCEPT ![c] = 0]
    BY DEF AllocFirst
<1>3. Fat0[c] = FAT32_CLUSTER_FREE /\ Joins(o.v, c, 0)
    BY <1>1, <1>2, Allocated DEF Joins
<1>4. /\ op'[t].pc = "seek" /\ op'[t].res = o.res /\ op'[t].kind = o.kind /\ op'[t].v = o.v
      /\ op'[t].goal = o.goal /\ op'[t].need = o.need
      /\ \A u \in Thread \ {t} : op'[u] = op[u]
    BY <1>1, StateTypes, OpFacts DEF Go, Op
<1>5. \A u \in Thread : op[u].pc # "freeing" /\ op'[u].pc # "freeing"
    BY <1>1, <1>4, NobodyFrees
<1>6. /\ OwnerInv' /\ LinkInv' /\ PlaceInv' /\ EndInv' /\ StartInv' /\ SizeInv'
      /\ NoLostCluster' /\ \A u \in Thread : CutInv(u)'
      /\ \A x \in Cluster : owner[x] # NoVnode => owner'[x] = owner[x] /\ pos'[x] = pos[x]
      /\ owner'[c] = o.v /\ pos'[c] = 0
      /\ \A x \in Cluster : owner[x] # o.v /\ owner[x] # NoVnode => Fat0'[x] = Fat0[x]
    BY <1>1, <1>3, <1>5, JoinedChains
<1>7. CursorInv(t)' /\ RangeInv(op[t])'
  <2>1. RangeInv(o) /\ o.kind # "read"
      BY <1>1 DEF SoundInv, Exclusive
  <2> QED BY <1>1, <1>4, <2>1 DEF CursorInv, RangeInv, HasCursor
<1>8. CacheInv'
    BY <1>1, <1>5, <1>6, CacheKept
<1>9. \A u \in Thread \ {t} : CursorInv(u)' /\ RangeInv(op[u])'
    BY <1>1, <1>4, <1>6, AllocOthers
<1>10. NoFalseEIO'
  <2>1. \A u \in Thread : op[u].res \notin {"EIO", "EINVAL"}
      BY DEF SoundInv, NoFalseEIO
  <2> QED BY <1>4, <2>1 DEF NoFalseEIO
<1> QED BY <1>6, <1>7, <1>8, <1>9, <1>10 DEF SoundInv

----------------------------------------------------------------------------
(* Cutting and freeing a chain *)

\* What holds of the threads other than one that truncates
LEMMA OthersElsewhere ==
    ASSUME CtlInv, NEW t \in Thread, op[t].pc \in {"free", "freeing"}
    PROVE  /\ \A u \in Thread \ {t} : op[u].v # op[t].v
           /\ op[t].pc = "freeing" => \A u \in Thread \ {t} : op[u].pc # "freeing"
           /\ op[t].kind = "trunc" /\ op[t].v \in Reg /\ op[t].v \in Vnode /\ op[t].v # NoVnode
           /\ start[op[t].v] \in Cluster /\ op[t].need \in Nat /\ op[t].idx \in Nat
    BY OpFacts, Alone, StateTypes

\* fat32_rmw_cluster writes a mark to the entry of c.
LEMMA Written ==
    ASSUME CtlInv, NEW c \in Cluster, NEW val,
           val \in {FAT32_CLUSTER_FREE, FAT32_CLUSTER_EOC}, fat' = WriteFat(fat, c, val, NumFats)
    PROVE  Fat0' = [Fat0 EXCEPT ![c] = val]
<1>1. fat \in [Copy -> [Cluster -> Entry]] /\ val \in Entry
    BY ConstantFacts DEF CtlInv, TypeOK
<1>2. WriteFat(fat, c, val, NumFats)[0] = [fat[0] EXCEPT ![c] = val]
    BY <1>1, WriteFatAll
<1> QED BY <1>2 DEF Fat0

\* fat32_free_clusters begins to free a whole chain.
LEMMA FreeWholeSound ==
    ASSUME CtlInv, SoundInv, Undamaged, NEW t \in Thread, FreeWhole(t)
    PROVE  SoundInv'
<1> DEFINE o == op[t]
           v == op[t].v
           s == start[op[t].v]
<1>0. /\ OwnerInv /\ LinkInv /\ PlaceInv /\ EndInv /\ StartInv /\ CacheInv /\ SizeInv
      /\ NoLostCluster /\ NoFalseEIO
    BY DEF SoundInv
<1>1. /\ o.pc = "free" /\ o.need = 0 /\ fsiLock = NoThread /\ Go(t, [o EXCEPT !.pc = "freeing", !.cur = s])
      /\ UNCHANGED <<fat, owner, pos, start, size, cache>>
    BY DEF FreeWhole, fsVars, ghostVars
<1>2. o.kind = "trunc" /\ v \in Vnode /\ v # NoVnode /\ s \in Cluster
    BY <1>1, OthersElsewhere
<1>3. /\ op'[t].pc = "freeing" /\ op'[t].v = v /\ op'[t].need = 0 /\ op'[t].cur = s
      /\ op'[t].kind = "trunc" /\ op'[t].res = o.res /\ \A u \in Thread \ {t} : op'[u] = op[u]
    BY <1>1, <1>2, StateTypes, OpFacts DEF Go, Op
<1>4. /\ \A w \in Vnode : ~FreeingAll(w) /\ \A u \in Thread : ~Cuts(u, w)
      /\ \A u \in Thread : op[u].pc # "freeing"
    BY <1>1, NobodyFrees
<1>5. owner[s] = v /\ pos[s] = 0
    BY <1>2, <1>4, ChainReady, StateTypes
<1>6. Fat0' = Fat0
    BY <1>1 DEF Fat0
<1> HIDE DEF s, v
<1>7. OwnerInv' /\ LinkInv' /\ PlaceInv'
    BY <1>0, <1>1, <1>6 DEF OwnerInv, LinkInv, PlaceInv, InUse
<1>8. EndInv'
  <2> SUFFICES ASSUME NEW b \in Cluster, NEW c \in Cluster,
                      Fat0[b] = FAT32_CLUSTER_EOC, owner[c] = owner[b]
               PROVE  pos[c] <= pos[b]
      BY <1>1, <1>6 DEF EndInv
  <2>1. owner[b] \in Vnode
      BY <1>0, ConstantFacts, StateTypes DEF OwnerInv, InUse
  <2> QED BY <1>0, <1>4, <2>1 DEF EndInv
<1>9. StartInv'
    BY <1>0, <1>1, <1>4 DEF StartInv
<1>10. CacheInv'
    BY <1>0, <1>1, <1>4 DEF CacheInv
<1>11. SizeInv'
    BY <1>0, <1>1, <1>4, <1>6 DEF SizeInv, Vnode
<1>12. NoLostCluster'
    BY <1>0, <1>1, <1>4, <1>6 DEF NoLostCluster, InUse
<1>13. NoFalseEIO'
    BY <1>0, <1>3 DEF NoFalseEIO
<1>14. CutInv(t)'
  <2>1. ASSUME NEW b \in Cluster PROVE Fat0[b] # s
      BY <1>0, <1>2, <1>5, StateTypes DEF LinkInv
  <2>2. start'[v] # 0 /\ \A c \in Cluster : pos[c] >= 0
      BY <1>1, <1>2, StateTypes DEF s, v
  <2> QED BY <1>1, <1>2, <1>3, <1>5, <1>6, <2>1, <2>2 DEF CutInv
<1>15. CursorInv(t)' /\ RangeInv(op[t])'
    BY <1>3 DEF CursorInv, RangeInv, HasCursor
<1>16. \A u \in Thread \ {t} : CursorInv(u)' /\ RangeInv(op[u])'
    BY <1>1, <1>3, <1>6, KeepOthers
<1>17. \A u \in Thread \ {t} : CutInv(u)'
    BY <1>3, <1>4 DEF CutInv
<1> QED BY <1>7, <1>8, <1>9, <1>10, <1>11, <1>12, <1>13, <1>14, <1>15, <1>16, <1>17 DEF SoundInv

\* What the last steps of fat32_truncate leave in the cache
LEMMA Invalidated ==
    ASSUME CtlInv, NEW t \in Thread, op[t].v \in Vnode, op[t].need \in Nat, Truncated(t)
    PROVE  /\ \A w \in Vnode \ {op[t].v} : cache'[w] = cache[w]
           /\ \A i \in Slot : cache'[op[t].v][i].cluster # 0 =>
                 /\ op[t].need > 0 /\ cache'[op[t].v][i] = cache[op[t].v][i]
                 /\ cache[op[t].v][i].index < op[t].need
<1> DEFINE v == op[t].v
           n == op[t].need
<1>1. cache' = [cache EXCEPT ![v] = IF n = 0 THEN EmptyCache ELSE Invalidate(cache[v], n)]
    BY DEF Truncated
<1>2. cache[v] \in [Slot -> CacheEntry]
    BY StateTypes
<1>3. ASSUME NEW i \in Slot, cache'[v][i].cluster # 0
      PROVE  n > 0 /\ cache'[v][i] = cache[v][i] /\ cache[v][i].index < n
  <2>1. CASE n = 0
    <3>1. cache'[v] = EmptyCache
        BY <1>1, <2>1, StateTypes
    <3> QED BY <1>3, <3>1 DEF EmptyCache
  <2>2. CASE n # 0
    <3>1. cache'[v] = Invalidate(cache[v], n)
        BY <1>1, <2>2, StateTypes
    <3>2. cache[v][i] \in CacheEntry /\ cache[v][i].index \in Nat
        BY <1>2 DEF CacheEntry
    <3>3. [cache[v][i] EXCEPT !.cluster = 0].cluster = 0
        BY <3>2 DEF CacheEntry
    <3> HIDE DEF v, n
    <3>4. CASE cache[v][i].cluster # 0 /\ cache[v][i].index >= n
        BY <1>3, <3>1, <3>3, <3>4 DEF Invalidate
    <3>5. CASE ~(cache[v][i].cluster # 0 /\ cache[v][i].index >= n)
      <4>1. cache'[v][i] = cache[v][i]
          BY <3>1, <3>5 DEF Invalidate
      <4>2. n \in Nat
          BY DEF n
      <4> QED BY <1>3, <2>2, <3>2, <3>5, <4>1, <4>2
    <3> QED BY <3>4, <3>5
  <2> QED BY <2>1, <2>2
<1> QED BY <1>1, <1>3, StateTypes

\* fat32_free_clusters ends the chain at the last cluster it keeps.
LEMMA FreeTailSound ==
    ASSUME CtlInv, SoundInv, Undamaged, NEW t \in Thread, FreeTail(t)
    PROVE  SoundInv'
<1> DEFINE o == op[t]
           v == op[t].v
           c == op[t].cur
           val == Fat0[c]
<1>0. /\ OwnerInv /\ LinkInv /\ PlaceInv /\ EndInv /\ StartInv /\ CacheInv /\ SizeInv
      /\ NoLostCluster /\ NoFalseEIO /\ RangeInv(o)
    BY DEF SoundInv
<1>1. /\ o.pc = "free" /\ o.need > 0 /\ HasCursor(o) /\ fsiLock = NoThread
      /\ UNCHANGED <<owner, pos>>
    BY DEF FreeTail, ghostVars, HasCursor
<1>2. /\ o.kind = "trunc" /\ v \in Vnode /\ v # NoVnode /\ start[v] \in Cluster
      /\ o.need \in Nat /\ o.idx \in Nat /\ \A u \in Thread \ {t} : op[u].v # v
    BY <1>1, OthersElsewhere
<1>3. /\ c \in Cluster /\ owner[c] = v /\ pos[c] = o.idx /\ o.idx = o.need - 1
      /\ val \in Cluster \/ val = FAT32_CLUSTER_EOC
      /\ val \in Cluster => owner[val] = v /\ pos[val] = o.idx + 1
    BY <1>0, <1>1, <1>2, CursorEntry DEF RangeInv
<1>4. /\ \A w \in Vnode : ~FreeingAll(w) /\ \A u \in Thread : ~Cuts(u, w)
      /\ \A u \in Thread : op[u].pc # "freeing"
    BY <1>1, NobodyFrees
<1>5. Fat0' = [Fat0 EXCEPT ![c] = FAT32_CLUSTER_EOC]
  <2>1. c \in Cluster /\ fat' = WriteFat(fat, c, FAT32_CLUSTER_EOC, NumFats)
      BY <1>3 DEF FreeTail
  <2> QED BY <2>1, Written
<1>6. CASE val = FAT32_CLUSTER_EOC /\ Truncated(t)
  <2>1. Fat0' = Fat0
      BY <1>3, <1>5, <1>6, StateTypes
  <2>2. /\ \A u \in Thread \ {t} : op'[u] = op[u]
        /\ op'[t].pc = "idle" /\ op'[t].res = "ok" /\ CursorInv(t)' /\ RangeInv(op[t])'
      BY <1>6, Returned DEF Truncated
  <2>3. start' = start /\ size' = [size EXCEPT ![v] = o.need] /\ start[v] # 0
      BY <1>1, <1>2, <1>6, StateTypes DEF Truncated, SetSize
  <2>4. CacheInv'
    <3> SUFFICES ASSUME NEW w \in Vnode, NEW i \in Slot, cache'[w][i].cluster # 0
                 PROVE  owner[cache'[w][i].cluster] = w /\ pos[cache'[w][i].cluster] = cache'[w][i].index
        BY <1>1 DEF CacheInv
    <3>1. cache'[w][i] = cache[w][i]
        BY <1>2, <1>6, Invalidated
    <3> QED BY <1>4, <3>1, ChainReady
  <2>5. SizeInv'
    <3> SUFFICES ASSUME NEW w \in Reg, NEW x \in Cluster, owner[x] = w, Fat0[x] = FAT32_CLUSTER_EOC
                 PROVE  size'[w] <= pos[x] + 1
        BY <1>1, <2>1 DEF SizeInv
    <3>1. w \in Vnode /\ pos[x] \in Nat /\ pos[c] \in Nat
        BY <1>3, StateTypes DEF Vnode
    <3>2. CASE w = v
      <4>1. pos[c] <= pos[x]
          BY <1>0, <1>3, <1>4, <3>1, <3>2 DEF EndInv
      <4>2. size'[w] = o.need
          BY <2>3, <3>1, <3>2, StateTypes
      <4> QED BY <1>2, <1>3, <3>1, <4>1, <4>2
    <3>3. CASE w # v
      <4>1. size'[w] = size[w]
          BY <2>3, <3>1, <3>3, StateTypes
      <4> QED BY <1>0, <1>4, <3>1, <4>1 DEF SizeInv
    <3> QED BY <3>2, <3>3
  <2> QED BY <1>1, <1>2, <2>1, <2>2, <2>3, <2>4, <2>5, QuietChains
<1>7. CASE /\ val \in Cluster /\ Go(t, [o EXCEPT !.pc = "freeing", !.cur = val])
           /\ UNCHANGED <<start, size, cache>>
  <2>1. /\ op'[t].pc = "freeing" /\ op'[t].v = v /\ op'[t].need = o.need /\ op'[t].cur = val
        /\ op'[t].kind = "trunc" /\ op'[t].res = o.res /\ \A u \in Thread \ {t} : op'[u] = op[u]
    <3> HIDE DEF val
    <3> QED BY <1>2, <1>7, StateTypes, OpFacts DEF Go, Op
  <2>2. op'[t].need = pos[c] + 1 /\ pos[val] = op'[t].need
      BY <1>2, <1>3, <1>7, <2>1
  <2>3. \A x \in Cluster : Fat0'[x] = IF x = c THEN FAT32_CLUSTER_EOC ELSE Fat0[x]
      BY <1>3, <1>5, StateTypes
  <2>4. \A x \in Cluster : pos[x] \in Nat
      BY StateTypes
  <2> DEFINE nx == val
  <2>5. nx \in Cluster /\ owner[nx] = v /\ pos[nx] = pos[c] + 1 /\ Fat0[c] = nx
      BY <1>3, <1>7
  <2> HIDE DEF val, nx, v, c
  <2>6. OwnerInv'
      BY <1>0, <1>1, <2>3, <2>5, ConstantFacts DEF OwnerInv, InUse
  <2>7. LinkInv' /\ PlaceInv'
      BY <1>0, <1>1, <2>3, ConstantFacts DEF LinkInv, PlaceInv
  <2>8. EndInv'
    <3> SUFFICES ASSUME NEW x \in Cluster, NEW y \in Cluster,
                        Fat0'[x] = FAT32_CLUSTER_EOC, owner[y] = owner[x], ~(pos[y] <= pos[x])
                 PROVE  \E u \in Thread : /\ Cuts(u, owner[x])' /\ op'[u].need = pos[x] + 1
                                          /\ pos[y] >= op'[u].need
        BY <1>1 DEF EndInv
    <3>1. CASE x = c
        BY <1>1, <1>3, <2>1, <2>2, <2>4, <3>1 DEF Cuts
    <3>2. CASE x # c
      <4>1. Fat0[x] = FAT32_CLUSTER_EOC
          BY <2>3, <3>2
      <4>2. owner[x] \in Vnode
          BY <1>0, <4>1, ConstantFacts, StateTypes DEF OwnerInv, InUse
      <4> QED BY <1>0, <1>4, <4>1, <4>2 DEF EndInv
    <3> QED BY <3>1, <3>2
  <2>9. StartInv'
      BY <1>0, <1>1, <1>4, <1>7 DEF StartInv
  <2>10. CacheInv'
      BY <1>0, <1>1, <1>4, <1>7 DEF CacheInv
  <2>11. SizeInv'
    <3> SUFFICES ASSUME NEW w \in Reg, NEW x \in Cluster, owner[x] = w, Fat0'[x] = FAT32_CLUSTER_EOC
                 PROVE  size[w] <= pos[x] + 1 \/ \E u \in Thread : Cuts(u, w)'
        BY <1>1, <1>7 DEF SizeInv
    <3>1. CASE x = c
        BY <1>3, <2>1, <3>1 DEF Cuts
    <3>2. CASE x # c
        BY <1>0, <1>4, <2>3, <3>2 DEF SizeInv, Vnode
    <3> QED BY <3>1, <3>2
  <2>12. NoLostCluster'
    <3> SUFFICES ASSUME NEW x \in Cluster, InUse(x)'
                 PROVE  \/ \E w \in Vnode : start[w] = x
                        \/ \E b \in Cluster : Fat0'[b] = x
                        \/ \E u \in Thread : op'[u].pc = "freeing" /\ op'[u].cur = x
        BY <1>7 DEF NoLostCluster
    <3>1. InUse(x)
        BY <1>0, <1>1, <2>6 DEF OwnerInv
    <3>2. (\E w \in Vnode : start[w] = x) \/ (\E b \in Cluster : Fat0[b] = x)
        BY <1>0, <1>4, <3>1 DEF NoLostCluster
    <3>3. ASSUME NEW b \in Cluster, Fat0[b] = x, b # c PROVE Fat0'[b] = x
        BY <2>3, <3>3
    <3>4. Fat0[c] = x => op'[t].pc = "freeing" /\ op'[t].cur = x
        BY <2>1, <2>5 DEF nx
    <3> QED BY <3>2, <3>3, <3>4
  <2>13. NoFalseEIO'
      BY <1>0, <2>1 DEF NoFalseEIO
  <2>14. CutInv(t)'
    <3>1. ASSUME NEW b \in Cluster PROVE Fat0'[b] # nx
      <4>1. CASE b = c
          BY <2>3, <2>5, <4>1, ConstantFacts
      <4>2. CASE b # c /\ Fat0[b] = nx
        <5>1. owner[b] = v /\ pos[b] + 1 = pos[nx]
            BY <1>0, <2>5, <4>2 DEF LinkInv
        <5>2. pos[b] = pos[c]
            BY <1>3, <2>4, <2>5, <5>1
        <5> QED BY <1>0, <1>2, <1>3, <4>2, <5>1, <5>2 DEF PlaceInv
      <4> QED BY <2>3, <4>1, <4>2
    <3>2. start'[v] # 0 /\ nx = op'[t].cur /\ pos[nx] = op'[t].need
        BY <1>2, <1>7, <2>1, <2>2, StateTypes DEF nx
    <3>3. \E x \in Cluster : owner[x] = v /\ pos[x] = op'[t].need - 1 /\ Fat0'[x] = FAT32_CLUSTER_EOC
        BY <1>3, <2>1, <2>3
    <3> QED BY <1>1, <2>1, <2>4, <2>5, <3>1, <3>2, <3>3 DEF CutInv
  <2>15. CursorInv(t)' /\ RangeInv(op[t])'
      BY <2>1 DEF CursorInv, RangeInv, HasCursor
  <2>16. \A u \in Thread \ {t} : CursorInv(u)' /\ RangeInv(op[u])'
    <3>1. ASSUME NEW u \in Thread \ {t}, op[u].pc = "alloc" PROVE Fat0'[op[u].cur] = Fat0[op[u].cur]
      <4>1. op[u].cur \in Cluster /\ owner[op[u].cur] = op[u].v
          BY <3>1, CursorEntry DEF HasCursor
      <4> QED BY <1>2, <1>3, <2>3, <4>1
    <3> QED BY <1>1, <1>7, <2>1, <3>1, KeepOthers
  <2>17. \A u \in Thread \ {t} : CutInv(u)'
      BY <1>4, <2>1 DEF CutInv
  <2> QED BY <2>6, <2>7, <2>8, <2>9, <2>10, <2>11, <2>12, <2>13, <2>14, <2>15, <2>16, <2>17
          DEF SoundInv
<1> QED BY <1>3, <1>6, <1>7, ConstantFacts DEF FreeTail

\* fat32_free_clusters frees one cluster, to which nothing leads.
LEMMA FreeStepSound ==
    ASSUME CtlInv, SoundInv, Undamaged, NEW t \in Thread, FreeStep(t)
    PROVE  SoundInv'
<1> DEFINE o == op[t]
           v == op[t].v
           c == op[t].cur
           nx == Fat0[op[t].cur]
           n == op[t].freed + 1
<1>0. /\ OwnerInv /\ LinkInv /\ PlaceInv /\ EndInv /\ StartInv /\ CacheInv /\ SizeInv
      /\ NoLostCluster /\ NoFalseEIO /\ CutInv(t)
    BY DEF SoundInv
<1>1. /\ o.pc = "freeing" /\ c \in Cluster /\ UNCHANGED <<pos, start, size, cache>>
      /\ owner' = [owner EXCEPT ![c] = NoVnode] /\ Go(t, [o EXCEPT !.cur = nx, !.freed = n])
      /\ fat' = WriteFat(fat, c, FAT32_CLUSTER_FREE, NumFats)
    BY DEF FreeStep
<1>2. /\ o.kind = "trunc" /\ v \in Vnode /\ v # NoVnode /\ start[v] \in Cluster /\ o.need \in Nat
      /\ \A u \in Thread \ {t} : op[u].v # v /\ op[u].pc # "freeing"
    BY <1>1, OthersElsewhere
<1> HIDE DEF n
<1>3. /\ op'[t].pc = "freeing" /\ op'[t].v = v /\ op'[t].need = o.need /\ op'[t].cur = nx
      /\ op'[t].kind = "trunc" /\ op'[t].res = o.res /\ \A u \in Thread \ {t} : op'[u] = op[u]
  <2> HIDE DEF nx
  <2> QED BY <1>1, <1>2, StateTypes, OpFacts DEF Go, Op
<1>4. /\ \A x \in Cluster : Fat0'[x] = IF x = c THEN FAT32_CLUSTER_FREE ELSE Fat0[x]
      /\ \A x \in Cluster : owner'[x] = IF x = c THEN NoVnode ELSE owner[x]
      /\ \A x \in Cluster : pos[x] \in Nat /\ pos'[x] = pos[x]
  <2>1. Fat0' = [Fat0 EXCEPT ![c] = FAT32_CLUSTER_FREE]
      BY <1>1, Written
  <2> QED BY <1>1, <2>1, StateTypes
<1>5. /\ owner[c] = v /\ pos[c] >= o.need /\ \A b \in Cluster : Fat0[b] # c
      /\ \A x \in Cluster : owner[x] = v /\ pos[x] >= o.need => pos[x] >= pos[c]
      /\ o.need > 0 => \E x \in Cluster : /\ owner[x] = v /\ pos[x] = o.need - 1
                                          /\ Fat0[x] = FAT32_CLUSTER_EOC
    BY <1>0, <1>1 DEF CutInv
<1>6. /\ nx \in Cluster \/ nx = FAT32_CLUSTER_EOC
      /\ nx \in Cluster => owner[nx] = v /\ pos[nx] = pos[c] + 1 /\ nx # c
    BY <1>0, <1>1, <1>2, <1>4, <1>5, OwnedEntry DEF LinkInv
<1>7. Fat0[c] = nx
    OBVIOUS
<1> HIDE DEF v, c, nx
<1>8. OwnerInv'
    BY <1>0, <1>4, ConstantFacts DEF OwnerInv, InUse
<1>9. LinkInv' /\ PlaceInv'
  <2>1. ASSUME NEW x \in Cluster, Fat0'[x] \in Cluster
        PROVE  owner'[Fat0'[x]] = owner'[x] /\ pos'[Fat0'[x]] = pos'[x] + 1
    <3>1. x # c /\ Fat0'[x] = Fat0[x]
        BY <1>4, <2>1, ConstantFacts
    <3> QED BY <1>0, <1>4, <1>5, <2>1, <3>1 DEF LinkInv
  <2>2. PlaceInv'
      BY <1>0, <1>4 DEF PlaceInv
  <2> QED BY <2>1, <2>2 DEF LinkInv
<1>10. \A w : Cuts(t, w)' <=> Cuts(t, w)
    BY <1>1, <1>3 DEF Cuts, v
<1>11. \A w : \A u \in Thread : Cuts(u, w) => u = t /\ w = v /\ Cuts(t, w)'
    BY <1>2, <1>10 DEF Cuts, v
<1>12. EndInv'
  <2> SUFFICES ASSUME NEW x \in Cluster, NEW y \in Cluster,
                      Fat0'[x] = FAT32_CLUSTER_EOC, owner'[y] = owner'[x], ~(pos[y] <= pos[x])
               PROVE  \E u \in Thread : /\ Cuts(u, owner[x])' /\ op'[u].need = pos[x] + 1
                                        /\ pos[y] >= op'[u].need
      BY <1>1 DEF EndInv
  <2>1. x # c /\ Fat0[x] = FAT32_CLUSTER_EOC /\ owner[x] # NoVnode
      BY <1>0, <1>4, ConstantFacts DEF OwnerInv, InUse
  <2>2. y # c /\ owner[y] = owner[x] /\ owner'[x] = owner[x]
      BY <1>4, <2>1
  <2>3. PICK u \in Thread : Cuts(u, owner[x]) /\ op[u].need = pos[x] + 1 /\ pos[y] >= op[u].need
      BY <1>0, <2>1, <2>2 DEF EndInv
  <2>4. u = t /\ Cuts(t, owner[x])'
      BY <1>3, <1>11, <2>2, <2>3 DEF Cuts
  <2> QED BY <1>3, <2>3, <2>4
<1>13. StartInv'
  <2> SUFFICES ASSUME NEW w \in Vnode
               PROVE  /\ start[w] # 0 => /\ pos[start[w]] = 0
                                         /\ \/ owner'[start[w]] = w
                                            \/ FreeingAll(w)' /\ owner'[start[w]] = NoVnode
                      /\ start[w] = 0 => size[w] = 0 /\ \A x \in Cluster : owner'[x] # w
      BY <1>1 DEF StartInv
  <2>1. start[w] = 0 => size[w] = 0 /\ \A x \in Cluster : owner'[x] # w
      BY <1>0, <1>4, StateTypes DEF StartInv
  <2>2. ASSUME FreeingAll(w) PROVE FreeingAll(w)'
      BY <1>2, <1>3, <2>2 DEF FreeingAll, v
  <2>3. ASSUME start[w] # 0
        PROVE  /\ pos[start[w]] = 0
               /\ owner'[start[w]] = w \/ (FreeingAll(w)' /\ owner'[start[w]] = NoVnode)
    <3>1. start[w] \in Cluster
        BY <2>3, StateTypes
    <3>2. CASE start[w] = c
      <4>1. w = v /\ pos[c] = 0
          BY <1>0, <1>2, <1>5, <2>3, <3>2 DEF StartInv
      <4>2. o.need = 0
          BY <1>2, <1>5, <4>1
      <4>3. FreeingAll(w)'
          BY <1>3, <4>1, <4>2 DEF FreeingAll
      <4> QED BY <1>4, <3>1, <3>2, <4>1, <4>3
    <3>3. CASE start[w] # c
        BY <1>0, <1>4, <2>2, <2>3, <3>1, <3>3 DEF StartInv
    <3> QED BY <3>2, <3>3
  <2> QED BY <2>1, <2>3
<1>14. CacheInv'
  <2> SUFFICES ASSUME NEW w \in Vnode, NEW i \in Slot, cache[w][i].cluster # 0
               PROVE  \/ owner'[cache[w][i].cluster] = w /\ pos[cache[w][i].cluster] = cache[w][i].index
                      \/ \E u \in Thread : Cuts(u, w)' /\ op'[u].need <= cache[w][i].index
      BY <1>1 DEF CacheInv
  <2>0. cache[w][i].cluster \in Cluster
      BY StateTypes DEF CacheEntry
  <2>1. ASSUME NEW u \in Thread, Cuts(u, w), op[u].need <= cache[w][i].index
        PROVE  Cuts(t, w)' /\ op'[t].need <= cache[w][i].index
      BY <1>3, <1>11, <2>1
  <2>2. CASE owner[cache[w][i].cluster] = w /\ pos[cache[w][i].cluster] = cache[w][i].index
    <3>1. CASE cache[w][i].cluster = c
      <4>1. w = v /\ pos[c] = cache[w][i].index
          BY <1>5, <2>2, <3>1
      <4>2. Cuts(t, w)' /\ op'[t].need <= cache[w][i].index
          BY <1>2, <1>3, <1>5, <4>1 DEF Cuts
      <4> QED BY <4>2
    <3>2. CASE cache[w][i].cluster # c
        BY <1>4, <2>0, <2>2, <3>2
    <3> QED BY <3>1, <3>2
  <2> QED BY <1>0, <2>1, <2>2 DEF CacheInv
<1>15. SizeInv'
  <2> SUFFICES ASSUME NEW w \in Reg, NEW x \in Cluster, owner'[x] = w, Fat0'[x] = FAT32_CLUSTER_EOC
               PROVE  size[w] <= pos[x] + 1 \/ \E u \in Thread : Cuts(u, w)'
      BY <1>1 DEF SizeInv
  <2>1. owner[x] = w /\ Fat0[x] = FAT32_CLUSTER_EOC
      BY <1>4, ConstantFacts
  <2> QED BY <1>0, <1>11, <2>1 DEF SizeInv
<1>16. NoLostCluster'
  <2> SUFFICES ASSUME NEW x \in Cluster, InUse(x)'
               PROVE  \/ \E w \in Vnode : start[w] = x
                      \/ \E b \in Cluster : Fat0'[b] = x
                      \/ \E u \in Thread : op'[u].pc = "freeing" /\ op'[u].cur = x
      BY <1>1 DEF NoLostCluster
  <2>1. x # c /\ InUse(x)
      BY <1>4 DEF InUse
  <2>2. \/ \E w \in Vnode : start[w] = x
        \/ \E b \in Cluster : Fat0[b] = x
        \/ \E u \in Thread : op[u].pc = "freeing" /\ op[u].cur = x
      BY <1>0, <2>1 DEF NoLostCluster
  <2>3. ASSUME NEW b \in Cluster, Fat0[b] = x, b # c PROVE Fat0'[b] = x
      BY <1>4, <2>3
  <2>4. Fat0[c] = x => op'[t].pc = "freeing" /\ op'[t].cur = x
      BY <1>3, <1>7
  <2>5. ~\E u \in Thread : op[u].pc = "freeing" /\ op[u].cur = x
      BY <1>2, <2>1 DEF c
  <2> QED BY <2>2, <2>3, <2>4, <2>5
<1>17. NoFalseEIO'
    BY <1>0, <1>3 DEF NoFalseEIO
<1>18. CutInv(t)'
  <2>1. ASSUME NEW b \in Cluster, nx \in Cluster PROVE Fat0'[b] # nx
    <3>1. CASE b = c
        BY <1>4, <2>1, <3>1, ConstantFacts
    <3>2. CASE b # c /\ Fat0[b] = nx
      <4>1. owner[b] = v /\ pos[b] + 1 = pos[nx] /\ pos[nx] = pos[c] + 1
          BY <1>0, <1>6, <2>1, <3>2 DEF LinkInv
      <4>2. pos[b] = pos[c] /\ c \in Cluster
          BY <1>1, <1>4, <4>1 DEF c
      <4> QED BY <1>0, <1>2, <1>5, <3>2, <4>1, <4>2 DEF PlaceInv
    <3> QED BY <1>4, <3>1, <3>2
  <2>2. ASSUME NEW x \in Cluster, owner'[x] = v, pos[x] >= o.need
        PROVE  nx \in Cluster /\ pos[x] >= pos[nx]
    <3>0. c \in Cluster
        BY <1>1 DEF c
    <3>1. x # c /\ owner[x] = v /\ pos[x] >= pos[c]
        BY <1>2, <1>4, <1>5, <2>2
    <3>2. pos[x] # pos[c]
        BY <1>0, <1>2, <1>5, <3>0, <3>1 DEF PlaceInv
    <3>3. pos[x] > pos[c]
        BY <1>4, <3>0, <3>1, <3>2
    <3>4. nx # FAT32_CLUSTER_EOC
      <4> SUFFICES ASSUME nx = FAT32_CLUSTER_EOC PROVE FALSE
          OBVIOUS
      <4>1. ~(pos[x] <= pos[c])
          BY <1>4, <3>0, <3>3
      <4>2. PICK u \in Thread : Cuts(u, v) /\ op[u].need = pos[c] + 1
          BY <1>0, <1>5, <1>7, <3>0, <3>1, <4>1 DEF EndInv
      <4>3. op[t].need = pos[c] + 1
          BY <1>11, <4>2
      <4> QED BY <1>2, <1>4, <1>5, <3>0, <4>3
    <3> QED BY <1>4, <1>6, <3>0, <3>3, <3>4
  <2>3. ASSUME o.need > 0
        PROVE  \E x \in Cluster : owner'[x] = v /\ pos[x] = o.need - 1 /\ Fat0'[x] = FAT32_CLUSTER_EOC
    <3>1. PICK x \in Cluster : owner[x] = v /\ pos[x] = o.need - 1 /\ Fat0[x] = FAT32_CLUSTER_EOC
        BY <1>5, <2>3
    <3>2. x # c
        BY <1>2, <1>5, <3>1
    <3> QED BY <1>4, <3>1, <3>2
  <2>4. start'[v] # 0
      BY <1>1, <1>2, StateTypes
  <2>5. nx \in Cluster => owner'[nx] = v /\ pos[nx] >= o.need
    <3>0. c \in Cluster
        BY <1>1 DEF c
    <3> QED BY <1>2, <1>4, <1>5, <1>6, <3>0
  <2> QED BY <1>1, <1>3, <1>6, <2>1, <2>2, <2>3, <2>4, <2>5 DEF CutInv
<1>19. CursorInv(t)' /\ RangeInv(op[t])'
    BY <1>3 DEF CursorInv, RangeInv, HasCursor
<1>20. \A u \in Thread \ {t} : CursorInv(u)' /\ RangeInv(op[u])'
  <2>1. ASSUME NEW u \in Thread \ {t}, HasCursor(op[u])
        PROVE  owner'[op[u].cur] = owner[op[u].cur] /\ Fat0'[op[u].cur] = Fat0[op[u].cur]
    <3>1. op[u].cur \in Cluster /\ owner[op[u].cur] = op[u].v
        BY <2>1, CursorEntry
    <3> QED BY <1>2, <1>4, <1>5, <3>1
  <2>2. \A u \in Thread \ {t} : op[u].pc = "alloc" => HasCursor(op[u])
      BY DEF HasCursor
  <2> QED BY <1>1, <1>3, <1>4, <2>1, <2>2, KeepOthers
<1>21. \A u \in Thread \ {t} : CutInv(u)'
    BY <1>2, <1>3 DEF CutInv
<1> QED BY <1>8, <1>9, <1>12, <1>13, <1>14, <1>15, <1>16, <1>17, <1>18, <1>19, <1>20, <1>21
        DEF SoundInv

\* fat32_free_clusters has no reason to fail while the device works.
LEMMA FreeNeverFails ==
    ASSUME CtlInv, SoundInv, Undamaged, Undamaged', NEW t \in Thread
    PROVE  ~FreeFails(t)
<1>1. ~IOError
    BY DEF IOError, IOErrors, Undamaged
<1>2. op[t].pc = "freeing" => op[t].cur # FAT32_CLUSTER_BAD
    BY ConstantFacts DEF SoundInv, CutInv
<1> QED BY <1>1, <1>2 DEF FreeFails

\* fat32_free_clusters is done, and fat32_truncate sets the size.
LEMMA FreeDoneSound ==
    ASSUME CtlInv, SoundInv, Undamaged, NEW t \in Thread, FreeDone(t)
    PROVE  SoundInv'
<1> DEFINE o == op[t]
           v == op[t].v
           n == op[t].need
<1>0. /\ OwnerInv /\ LinkInv /\ PlaceInv /\ EndInv /\ StartInv /\ CacheInv /\ SizeInv
      /\ NoLostCluster /\ NoFalseEIO /\ CutInv(t)
    BY DEF SoundInv
<1>1. /\ o.pc = "freeing" /\ o.cur \in {FAT32_CLUSTER_FREE, FAT32_CLUSTER_EOC} /\ Truncated(t)
      /\ UNCHANGED <<fat, owner, pos>>
    BY DEF FreeDone, ghostVars
<1>2. /\ o.kind = "trunc" /\ v \in Vnode /\ v # NoVnode /\ start[v] \in Cluster /\ n \in Nat
      /\ \A u \in Thread \ {t} : op[u].v # v /\ op[u].pc # "freeing"
    BY <1>1, OthersElsewhere
<1>3. /\ \A x \in Cluster : owner[x] = v => pos[x] < n
      /\ n > 0 => \E x \in Cluster : owner[x] = v /\ pos[x] = n - 1
      /\ o.cur \notin Cluster
  <2>1. o.cur \notin Cluster
      BY <1>1, ConstantFacts
  <2>2. ASSUME NEW x \in Cluster, owner[x] = v PROVE pos[x] < n
    <3>1. ~(pos[x] >= n)
        BY <1>0, <1>1, <2>1, <2>2 DEF CutInv
    <3> QED BY <1>2, <3>1, StateTypes
  <2> QED BY <1>0, <1>1, <2>1, <2>2 DEF CutInv
<1>4. /\ \A u \in Thread \ {t} : op'[u] = op[u]
      /\ op'[t].pc = "idle" /\ op'[t].res = "ok" /\ CursorInv(t)' /\ RangeInv(op[t])'
    BY <1>1, Returned DEF Truncated
<1>5. /\ Fat0' = Fat0 /\ \A u \in Thread : op'[u].pc # "freeing"
      /\ \A x \in Cluster : pos[x] \in Nat
    BY <1>1, <1>2, <1>4, StateTypes DEF Fat0
<1>6. /\ \A w \in Vnode : size'[w] = IF w = v THEN n ELSE size[w]
      /\ \A w \in Vnode : start'[w] = IF w = v /\ n = 0 THEN 0 ELSE start[w]
  <2>1. size' = [size EXCEPT ![v] = n] /\ start' = IF n = 0 THEN [start EXCEPT ![v] = 0] ELSE start
      BY <1>1 DEF Truncated, SetSize
  <2> QED BY <1>2, <2>1, StateTypes
<1>7. /\ \A w \in Vnode \ {v} : cache'[w] = cache[w]
      /\ \A i \in Slot : cache'[v][i].cluster # 0 =>
            n > 0 /\ cache'[v][i] = cache[v][i] /\ cache[v][i].index < n
    BY <1>1, <1>2, Invalidated
<1>8. \A u \in Thread : \A w : Cuts(u, w) => u = t /\ w = v
    BY <1>2 DEF Cuts
<1>9. \A w \in Vnode : FreeingAll(w) => w = v /\ n = 0
    BY <1>2 DEF FreeingAll
<1> HIDE DEF v, n
<1>10. OwnerInv' /\ LinkInv' /\ PlaceInv'
    BY <1>0, <1>1, <1>5 DEF OwnerInv, LinkInv, PlaceInv, InUse
<1>11. ASSUME NEW x \in Cluster, NEW y \in Cluster, Fat0[x] = FAT32_CLUSTER_EOC, owner[y] = owner[x]
       PROVE  pos[y] <= pos[x]
  <2> SUFFICES ASSUME ~(pos[y] <= pos[x]) PROVE FALSE
      OBVIOUS
  <2>1. PICK u \in Thread : Cuts(u, owner[x]) /\ pos[y] >= op[u].need
      BY <1>0, <1>11 DEF EndInv
  <2>2. owner[y] = v /\ pos[y] >= n
      BY <1>8, <1>11, <2>1 DEF n
  <2> QED BY <1>2, <1>3, <1>5, <2>2
<1>12. EndInv'
    BY <1>1, <1>5, <1>11 DEF EndInv
<1>13. StartInv'
  <2> SUFFICES ASSUME NEW w \in Vnode
               PROVE  /\ start'[w] # 0 => pos[start'[w]] = 0 /\ owner[start'[w]] = w
                      /\ start'[w] = 0 => size'[w] = 0 /\ \A x \in Cluster : owner[x] # w
      BY <1>1 DEF StartInv
  <2>1. CASE w = v /\ n = 0
      BY <1>3, <1>5, <1>6, <2>1
  <2>2. CASE ~(w = v /\ n = 0)
    <3>1. start'[w] = start[w] /\ ~FreeingAll(w)
        BY <1>6, <1>9, <2>2
    <3>2. start[w] # 0 => pos[start[w]] = 0 /\ owner[start[w]] = w
        BY <1>0, <3>1 DEF StartInv
    <3>3. start[w] = 0 => w # v
        BY <1>2, StateTypes
    <3> QED BY <1>0, <1>6, <3>1, <3>2, <3>3 DEF StartInv
  <2> QED BY <2>1, <2>2
<1>14. CacheInv'
  <2> SUFFICES ASSUME NEW w \in Vnode, NEW i \in Slot, cache'[w][i].cluster # 0
               PROVE  owner[cache'[w][i].cluster] = w /\ pos[cache'[w][i].cluster] = cache'[w][i].index
      BY <1>1 DEF CacheInv
  <2>1. cache'[w][i] = cache[w][i] /\ (w = v => cache[w][i].index < n)
      BY <1>7
  <2>2. cache[w][i].index \in Nat
      BY StateTypes DEF CacheEntry
  <2>3. ~\E u \in Thread : Cuts(u, w) /\ op[u].need <= cache[w][i].index
      BY <1>2, <1>8, <2>1, <2>2 DEF n
  <2> QED BY <1>0, <2>1, <2>3 DEF CacheInv
<1>15. SizeInv'
  <2> SUFFICES ASSUME NEW w \in Reg, NEW x \in Cluster, owner[x] = w, Fat0[x] = FAT32_CLUSTER_EOC
               PROVE  size'[w] <= pos[x] + 1
      BY <1>1, <1>5 DEF SizeInv
  <2>0. w \in Vnode
      BY DEF Vnode
  <2>1. CASE w # v
      BY <1>0, <1>6, <1>8, <2>0, <2>1 DEF SizeInv
  <2>2. CASE w = v /\ n = 0
      BY <1>5, <1>6, <2>0, <2>2
  <2>3. CASE w = v /\ n > 0
    <3>1. PICK y \in Cluster : owner[y] = v /\ pos[y] = n - 1
        BY <1>3, <2>3
    <3>2. pos[y] <= pos[x]
        BY <1>11, <2>3, <3>1
    <3> QED BY <1>2, <1>5, <1>6, <2>0, <2>3, <3>1, <3>2
  <2> QED BY <1>2, <2>1, <2>2, <2>3
<1>16. NoLostCluster'
  <2> SUFFICES ASSUME NEW x \in Cluster, InUse(x)
               PROVE  (\E w \in Vnode : start'[w] = x) \/ (\E b \in Cluster : Fat0[b] = x)
      BY <1>5 DEF NoLostCluster, InUse
  <2>1. ~\E u \in Thread : op[u].pc = "freeing" /\ op[u].cur = x
      BY <1>2, <1>3
  <2>2. (\E w \in Vnode : start[w] = x) \/ (\E b \in Cluster : Fat0[b] = x)
      BY <1>0, <2>1 DEF NoLostCluster
  <2>3. ASSUME NEW w \in Vnode, start[w] = x PROVE start'[w] = x
    <3>1. owner[x] # NoVnode
        BY <1>0 DEF OwnerInv
    <3>2. owner[x] = w
        BY <1>0, <2>3, <3>1, ConstantFacts DEF StartInv
    <3>3. ~(w = v /\ n = 0)
        BY <1>3, <1>5, <3>2
    <3> QED BY <1>6, <2>3, <3>3
  <2> QED BY <2>2, <2>3
<1>17. NoFalseEIO'
    BY <1>0, <1>4 DEF NoFalseEIO
<1>18. \A u \in Thread : CutInv(u)'
    BY <1>5 DEF CutInv
<1>19. \A u \in Thread \ {t} : CursorInv(u)' /\ RangeInv(op[u])'
  <2>1. ASSUME NEW u \in Thread \ {t}, op[u].kind = "read" PROVE size'[op[u].v] = size[op[u].v]
    <3>1. op[u].v \in Vnode
        BY <2>1, OpFacts
    <3> QED BY <1>2, <1>6, <3>1
  <2> QED BY <1>1, <1>4, <1>5, <2>1, KeepOthers
<1> QED BY <1>4, <1>10, <1>12, <1>13, <1>14, <1>15, <1>16, <1>17, <1>18, <1>19 DEF SoundInv

----------------------------------------------------------------------------
(* Every step, and every call *)

\* Every step of an operation keeps the chains sound while the device works.
LEMMA StepSound ==
    ASSUME CtlInv, SoundInv, Undamaged, Undamaged', NEW t \in Thread, Step(t)
    PROVE  SoundInv'
<1>1. ~IOError
    BY DEF IOError, IOErrors, Undamaged
<1>2. ~WalkError(t) /\ ~WalkEndError(t) /\ ~FreeTailError(t) /\ ~FreeFails(t)
    BY <1>1, FreeNeverFails DEF WalkError, WalkEndError, FreeTailError
<1>3. CASE Seek(t) \/ Walk(t) \/ WalkEnd(t)
    BY <1>3, SeekSound, WalkSound, WalkEndSound
<1>4. CASE Alloc(t) \/ AllocFirst(t) \/ AllocFails(t) \/ DataError(t)
    BY <1>4, AllocSound, AllocFirstSound, OtherReturnsSound
<1>5. CASE ReadData(t) \/ WriteData(t) \/ ScanData(t) \/ Peek(t)
    BY <1>5, ReadDataSound, WriteDataSound, ScanDataSound, PeekSound
<1>6. CASE FreeWhole(t) \/ FreeTail(t) \/ FreeStep(t) \/ FreeDone(t)
    BY <1>6, FreeWholeSound, FreeTailSound, FreeStepSound, FreeDoneSound
<1> QED BY <1>2, <1>3, <1>4, <1>5, <1>6 DEF Step

\* A call of kind k begins on vnode v, before it has a cluster in hand.
LEMMA BeginSound ==
    ASSUME CtlInv, SoundInv, Undamaged, NEW t \in Thread, op[t].pc = "idle",
           NEW k \in Kind, NEW v \in Vnode, NEW at \in {"seek", "first", "free"},
           NEW g \in Nat, NEW n \in Nat, Begin(t, k, v, at, g, n),
           k = "read" => at = "seek" /\ g < size[v],
           k = "trunc" => (at = "free" /\ n = 0) \/ g = n - 1,
           at = "free" => n = 0,
           UNCHANGED <<fat, owner, pos, start, size, cache>>
    PROVE  SoundInv'
<1>1. /\ op'[t].pc = at /\ op'[t].kind = k /\ op'[t].v = v /\ op'[t].goal = g /\ op'[t].need = n
      /\ op'[t].res = "ok" /\ \A u \in Thread \ {t} : op'[u] = op[u]
    BY StateTypes DEF Begin, Go
<1>2. CursorInv(t)' /\ RangeInv(op[t])'
    BY <1>1 DEF CursorInv, RangeInv, HasCursor
<1>3. CacheInv'
    BY <1>1, SameCache
<1> QED BY <1>1, <1>2, <1>3, QuietStep

\* Every call keeps the chains sound.
LEMMA CallSound ==
    ASSUME CtlInv, SoundInv, Undamaged, NEW t \in Thread, Call(t)
    PROVE  SoundInv'
<1>1. PICK v \in Vnode :
        \/ \E off \in 0 .. MaxSize - 1 : Read(t, v, off) \/ Write(t, v, off) \/ Scan(t, v, off)
        \/ \E n \in 1 .. MaxSize : Truncate(t, v, n)
        \/ TruncateToZero(t, v)
        \/ \E k \in {"grow", "getattr"} : WalkToEnd(t, v, k)
    BY DEF Call
<1>2. ASSUME NEW off \in 0 .. MaxSize - 1, Read(t, v, off) \/ Write(t, v, off) \/ Scan(t, v, off)
      PROVE  SoundInv'
  <2>1. off \in Nat /\ op[t].pc = "idle" /\ UNCHANGED <<fat, owner, pos, start, size, cache>>
      BY <1>2 DEF Read, Write, Scan, fsVars, ghostVars
  <2>2. CASE Read(t, v, off)
      BY <2>1, <2>2, BeginSound DEF Read, Kind
  <2>3. CASE Write(t, v, off)
    <3> DEFINE at == IF start[v] = 0 THEN "first" ELSE "seek"
    <3>1. at \in {"seek", "first", "free"} /\ at # "free" /\ Begin(t, "write", v, at, off, 0)
        BY <2>3 DEF Write
    <3> HIDE DEF at
    <3> QED BY <2>1, <3>1, BeginSound DEF Kind
  <2>4. CASE Scan(t, v, off)
      BY <2>1, <2>4, BeginSound DEF Scan, Kind
  <2> QED BY <1>2, <2>2, <2>3, <2>4
<1>3. ASSUME NEW n \in 1 .. MaxSize, Truncate(t, v, n) PROVE SoundInv'
  <2> DEFINE at == IF start[v] = 0 THEN "first" ELSE "seek"
             g == n - 1
  <2>1. /\ at \in {"seek", "first", "free"} /\ at # "free" /\ Begin(t, "trunc", v, at, g, n)
        /\ op[t].pc = "idle" /\ UNCHANGED <<fat, owner, pos, start, size, cache>>
      BY <1>3 DEF Truncate, fsVars, ghostVars
  <2>2. n \in Nat /\ g \in Nat /\ g = n - 1
      OBVIOUS
  <2> HIDE DEF at, g
  <2> QED BY <2>1, <2>2, BeginSound DEF Kind
<1>4. CASE TruncateToZero(t, v)
  <2>1. op[t].pc = "idle" /\ UNCHANGED <<fat, owner, pos, start>>
      BY <1>4 DEF TruncateToZero, fsVars, ghostVars
  <2>2. CASE start[v] = 0
    <3>1. /\ cache' = [cache EXCEPT ![v] = EmptyCache] /\ Finish(t, "ok")
          /\ size' = [size EXCEPT ![v] = 0]
        BY <1>4, <2>2 DEF TruncateToZero
    <3>2. size' = size
      <4>1. size[v] = 0
          BY <2>2 DEF SoundInv, StartInv
      <4> QED BY <3>1, <4>1, StateTypes
    <3>3. CacheInv'
      <4>1. \A u \in Thread : op[u].pc = "freeing" => op'[u] = op[u]
          BY <2>1, <3>1, Returned
      <4>2. ASSUME NEW w \in Vnode, NEW i \in Slot, NEW u \in Thread,
                   Cuts(u, w), op[u].need <= cache[w][i].index
            PROVE  Cuts(u, w)' /\ op'[u].need <= cache[w][i].index
          BY <4>1, <4>2 DEF Cuts
      <4>3. ASSUME NEW w \in Vnode, NEW i \in Slot, cache'[w][i].cluster # 0
            PROVE  cache'[w][i] = cache[w][i]
        <5>1. w # v
            BY <3>1, <4>3, StateTypes DEF EmptyCache
        <5> QED BY <3>1, <5>1, StateTypes
      <4>4. CacheInv
          BY DEF SoundInv
      <4> SUFFICES ASSUME NEW w \in Vnode, NEW i \in Slot, cache'[w][i].cluster # 0
                   PROVE  \/ /\ owner[cache'[w][i].cluster] = w
                             /\ pos[cache'[w][i].cluster] = cache'[w][i].index
                          \/ \E u \in Thread : Cuts(u, w)' /\ op'[u].need <= cache'[w][i].index
          BY <2>1 DEF CacheInv
      <4> QED BY <4>2, <4>3, <4>4 DEF CacheInv
    <3> QED BY <2>1, <3>1, <3>2, <3>3, ReturnSound
  <2>3. CASE start[v] # 0
    <3>1. Begin(t, "trunc", v, "free", 0, 0) /\ UNCHANGED <<size, cache>>
        BY <1>4, <2>3 DEF TruncateToZero
    <3> QED BY <2>1, <3>1, BeginSound DEF Kind
  <2> QED BY <2>2, <2>3
<1>5. ASSUME NEW k \in {"grow", "getattr"}, WalkToEnd(t, v, k) PROVE SoundInv'
  <2>1. /\ op[t].pc = "idle" /\ v \in Dir /\ start[v] # 0
        /\ UNCHANGED <<fat, owner, pos, start, size, cache>>
      BY <1>5 DEF WalkToEnd, fsVars, ghostVars
  <2>2. /\ op'[t].pc = "end" /\ op'[t].kind = k /\ op'[t].v = v /\ op'[t].cur = start[v]
        /\ op'[t].idx = 0 /\ op'[t].res = "ok" /\ \A u \in Thread \ {t} : op'[u] = op[u]
      BY <1>5, StateTypes DEF WalkToEnd, Go
  <2>3. \A u \in Thread : ~Cuts(u, v)
      BY <2>1, OpFacts, ChainAssumption DEF Cuts, ChainAssumption
  <2>4. owner[start[v]] = v /\ pos[start[v]] = 0
      BY <2>1, <2>3, ChainReady
  <2>5. CursorInv(t)' /\ RangeInv(op[t])'
      BY <2>1, <2>2, <2>4 DEF CursorInv, RangeInv
  <2>6. CacheInv'
      BY <2>1, <2>2, SameCache
  <2> QED BY <2>1, <2>2, <2>5, <2>6, QuietStep
<1> QED BY <1>1, <1>2, <1>3, <1>4, <1>5

----------------------------------------------------------------------------
(* The mounted volume *)

\* Where the history variables place the clusters of a sound volume
LEMMA LayoutPlaces ==
    ASSUME DisjointLayout
    PROVE  /\ \A v \in Vnode : Layout[v] \in Seq(Cluster) /\ Len(Layout[v]) \in Nat
           /\ \A v \in Vnode : \A i \in 1 .. Len(Layout[v]) :
                 /\ Layout[v][i] \in Cluster
                 /\ Owner0(Layout[v][i]) = v /\ Pos0(Layout[v][i]) = i - 1
           /\ \A c \in Cluster : Owner0(c) # NoVnode =>
                 /\ Owner0(c) \in Vnode /\ Pos0(c) \in Nat
                 /\ Pos0(c) + 1 \in 1 .. Len(Layout[Owner0(c)])
                 /\ Layout[Owner0(c)][Pos0(c) + 1] = c
<1>1. ASSUME NEW v \in Vnode PROVE Layout[v] \in Seq(Cluster) /\ Len(Layout[v]) \in Nat
    BY ChainAssumption DEF ChainAssumption
<1>2. NoVnode \notin Vnode
    BY ChainAssumption DEF ChainAssumption
<1>3. ASSUME NEW c \in Cluster, Owner0(c) # NoVnode
      PROVE  /\ Owner0(c) \in Vnode
             /\ \E i \in 1 .. Len(Layout[Owner0(c)]) : Layout[Owner0(c)][i] = c
    BY <1>3 DEF Owner0
<1>4. ASSUME NEW c \in Cluster, Owner0(c) # NoVnode
      PROVE  /\ Pos0(c) \in Nat /\ Pos0(c) + 1 \in 1 .. Len(Layout[Owner0(c)])
             /\ Layout[Owner0(c)][Pos0(c) + 1] = c
  <2> DEFINE j == CHOOSE i \in 1 .. Len(Layout[Owner0(c)]) : Layout[Owner0(c)][i] = c
  <2>1. /\ j \in 1 .. Len(Layout[Owner0(c)]) /\ Layout[Owner0(c)][j] = c
        /\ Len(Layout[Owner0(c)]) \in Nat
      BY <1>1, <1>3, <1>4
  <2>2. Pos0(c) = j - 1
      BY <1>4 DEF Pos0
  <2> HIDE DEF j
  <2>3. Pos0(c) + 1 = j
      BY <2>1, <2>2
  <2> QED BY <2>1, <2>2, <2>3
<1>5. ASSUME NEW v \in Vnode, NEW i \in 1 .. Len(Layout[v])
      PROVE  /\ Layout[v][i] \in Cluster
             /\ Owner0(Layout[v][i]) = v /\ Pos0(Layout[v][i]) = i - 1
  <2> DEFINE c == Layout[v][i]
             w == Owner0(c)
             j == Pos0(c) + 1
  <2>1. c \in Cluster
      BY <1>1
  <2>2. w # NoVnode
      BY <1>2 DEF Owner0
  <2>3. w \in Vnode /\ j \in 1 .. Len(Layout[w]) /\ Layout[w][j] = c
      BY <1>3, <1>4, <2>1, <2>2
  <2>4. w = v /\ j = i
      BY <2>3 DEF DisjointLayout
  <2>5. Pos0(c) \in Nat
      BY <1>4, <2>1, <2>2
  <2> QED BY <2>1, <2>4, <2>5
<1> QED BY <1>1, <1>3, <1>4, <1>5

\* The chains of the mounted volume are sound.
LEMMA InitSound ==
    ASSUME DisjointLayout, Init
    PROVE  SoundInv
<1> DEFINE L(v) == Len(Layout[v])
<1>1. /\ \A v \in Vnode : Layout[v] \in Seq(Cluster) /\ L(v) \in Nat
      /\ \A v \in Vnode : \A i \in 1 .. L(v) :
            /\ Layout[v][i] \in Cluster
            /\ Owner0(Layout[v][i]) = v /\ Pos0(Layout[v][i]) = i - 1
      /\ \A c \in Cluster : Owner0(c) # NoVnode =>
            /\ Owner0(c) \in Vnode /\ Pos0(c) \in Nat /\ Pos0(c) + 1 \in 1 .. L(Owner0(c))
            /\ Layout[Owner0(c)][Pos0(c) + 1] = c
    BY LayoutPlaces
<1>2. /\ \A c \in Cluster : Fat0[c] = Entry0(c) /\ owner[c] = Owner0(c) /\ pos[c] = Pos0(c)
      /\ \A v \in Vnode : start[v] = IF Layout[v] = <<>> THEN 0 ELSE Layout[v][1]
      /\ \A v \in Vnode : size[v] = IF v \in Dir THEN 0 ELSE L(v)
      /\ \A v \in Vnode : cache[v] = EmptyCache
      /\ \A t \in Thread : op[t] = Idle("ok")
    BY ConstantFacts DEF Init, Fat0
<1>3. /\ \A t \in Thread : op[t].pc = "idle" /\ op[t].kind = "none" /\ op[t].res = "ok"
      /\ NoVnode \notin Vnode
    BY <1>2, ChainAssumption DEF Idle, ChainAssumption
<1>4. ASSUME NEW c \in Cluster, owner[c] # NoVnode
      PROVE  /\ owner[c] \in Vnode /\ pos[c] \in Nat /\ L(owner[c]) \in Nat
             /\ pos[c] + 1 <= L(owner[c]) /\ Layout[owner[c]][pos[c] + 1] = c
             /\ pos[c] + 2 <= L(owner[c]) =>
                   /\ Fat0[c] = Layout[owner[c]][pos[c] + 2] /\ Fat0[c] \in Cluster
                   /\ owner[Fat0[c]] = owner[c] /\ pos[Fat0[c]] = pos[c] + 1
             /\ ~(pos[c] + 2 <= L(owner[c])) => Fat0[c] = FAT32_CLUSTER_EOC
  <2>1. /\ owner[c] \in Vnode /\ pos[c] \in Nat /\ L(owner[c]) \in Nat
        /\ pos[c] + 1 <= L(owner[c]) /\ Layout[owner[c]][pos[c] + 1] = c
      BY <1>1, <1>2, <1>4
  <2>2. ~(pos[c] + 2 <= L(owner[c])) => Fat0[c] = FAT32_CLUSTER_EOC
      BY <1>2, <1>4 DEF Entry0
  <2>3. ASSUME pos[c] + 2 <= L(owner[c])
        PROVE  /\ Fat0[c] = Layout[owner[c]][pos[c] + 2] /\ Fat0[c] \in Cluster
               /\ owner[Fat0[c]] = owner[c] /\ pos[Fat0[c]] = pos[c] + 1
    <3>1. Fat0[c] = Layout[owner[c]][pos[c] + 2]
        BY <1>2, <1>4, <2>3 DEF Entry0
    <3> DEFINE i == pos[c] + 2
    <3>2. i \in 1 .. L(owner[c]) /\ i - 1 = pos[c] + 1
        BY <2>1, <2>3
    <3>3. Fat0[c] = Layout[owner[c]][i]
        BY <3>1
    <3> HIDE DEF i
    <3>4. Fat0[c] \in Cluster /\ Owner0(Fat0[c]) = owner[c] /\ Pos0(Fat0[c]) = i - 1
        BY <1>1, <2>1, <3>2, <3>3
    <3> QED BY <1>2, <3>1, <3>2, <3>4
  <2> QED BY <2>1, <2>2, <2>3
<1>5. ASSUME NEW c \in Cluster, owner[c] = NoVnode
      PROVE  Fat0[c] \in {FAT32_CLUSTER_FREE, FAT32_CLUSTER_BAD}
    BY <1>2, <1>5 DEF Entry0
<1>6. ASSUME NEW v \in Vnode, NEW i \in 1 .. L(v)
      PROVE  Layout[v][i] \in Cluster /\ owner[Layout[v][i]] = v /\ pos[Layout[v][i]] = i - 1
    BY <1>1, <1>2
<1> HIDE DEF L
<1>7. OwnerInv
    BY <1>4, <1>5, ConstantFacts DEF OwnerInv, InUse
<1>8. LinkInv
    BY <1>4, <1>5, ConstantFacts DEF LinkInv
<1>9. PlaceInv
    BY <1>4 DEF PlaceInv
<1>10. ASSUME NEW c \in Cluster, Fat0[c] = FAT32_CLUSTER_EOC
       PROVE  owner[c] # NoVnode /\ pos[c] + 1 = L(owner[c])
  <2>1. owner[c] # NoVnode
      BY <1>5, <1>10, ConstantFacts
  <2> QED BY <1>4, <1>10, <2>1, ConstantFacts
<1>11. EndInv
  <2> SUFFICES ASSUME NEW b \in Cluster, NEW c \in Cluster,
                      Fat0[b] = FAT32_CLUSTER_EOC, owner[c] = owner[b]
               PROVE  pos[c] <= pos[b]
      BY DEF EndInv
  <2> QED BY <1>4, <1>10
<1>12. StartInv
  <2> SUFFICES ASSUME NEW v \in Vnode
               PROVE  /\ start[v] # 0 => pos[start[v]] = 0 /\ owner[start[v]] = v
                      /\ start[v] = 0 => size[v] = 0 /\ \A c \in Cluster : owner[c] # v
      BY DEF StartInv
  <2>1. CASE Layout[v] = <<>>
    <3>1. L(v) = 0 /\ start[v] = 0
        BY <1>2, <2>1 DEF L
    <3>2. \A c \in Cluster : owner[c] # v
        BY <1>3, <1>4, <3>1
    <3> QED BY <1>2, <3>1, <3>2
  <2>2. CASE Layout[v] # <<>>
    <3>1. 1 \in 1 .. L(v)
      <4>1. ASSUME NEW s \in Seq(Cluster), s # <<>> PROVE 1 \in 1 .. Len(s)
          BY <4>1
      <4> QED BY <1>1, <2>2, <4>1 DEF L
    <3>2. Layout[v][1] \in Cluster /\ owner[Layout[v][1]] = v /\ pos[Layout[v][1]] = 0
        BY <1>6, <3>1
    <3> QED BY <1>2, <2>2, <3>2, ConstantFacts
  <2> QED BY <2>1, <2>2
<1>13. CacheInv
    BY <1>2 DEF CacheInv, EmptyCache
<1>14. SizeInv
  <2> SUFFICES ASSUME NEW v \in Reg, NEW c \in Cluster, owner[c] = v, Fat0[c] = FAT32_CLUSTER_EOC
               PROVE  size[v] <= pos[c] + 1
      BY DEF SizeInv
  <2>1. size[v] = L(v) /\ L(v) \in Nat
      BY <1>1, <1>2, ChainAssumption DEF ChainAssumption, Vnode
  <2> QED BY <1>10, <2>1
<1>15. NoLostCluster
  <2> SUFFICES ASSUME NEW c \in Cluster, InUse(c)
               PROVE  (\E v \in Vnode : start[v] = c) \/ (\E b \in Cluster : Fat0[b] = c)
      BY DEF NoLostCluster
  <2>1. owner[c] # NoVnode
      BY <1>7 DEF OwnerInv
  <2>2. CASE pos[c] = 0
    <3>1. Layout[owner[c]][1] = c /\ L(owner[c]) # 0 /\ owner[c] \in Vnode
        BY <1>4, <2>1, <2>2
    <3>2. Layout[owner[c]] # <<>>
        BY <3>1 DEF L
    <3> QED BY <1>2, <3>1, <3>2
  <2>3. CASE pos[c] # 0
    <3> DEFINE i == pos[c]
               b == Layout[owner[c]][i]
    <3>1. i \in 1 .. L(owner[c]) /\ owner[c] \in Vnode
        BY <1>4, <2>1, <2>3
    <3>2. b \in Cluster /\ owner[b] = owner[c] /\ pos[b] = i - 1
        BY <1>6, <3>1
    <3>3. pos[b] + 2 <= L(owner[b]) /\ pos[b] + 2 = i + 1
        BY <1>4, <2>1, <3>1, <3>2
    <3>4. Fat0[b] = Layout[owner[b]][pos[b] + 2]
        BY <1>4, <2>1, <3>2, <3>3
    <3>5. Layout[owner[c]][i + 1] = c
        BY <1>4, <2>1
    <3>6. Fat0[b] = c
        BY <3>2, <3>3, <3>4, <3>5
    <3> QED BY <3>2, <3>6
  <2> QED BY <2>2, <2>3
<1>16. NoFalseEIO
    BY <1>3 DEF NoFalseEIO
<1>17. \A t \in Thread : CutInv(t) /\ CursorInv(t) /\ RangeInv(op[t])
    BY <1>3 DEF CutInv, CursorInv, RangeInv, HasCursor
<1> QED BY <1>7, <1>8, <1>9, <1>11, <1>12, <1>13, <1>14, <1>15, <1>16, <1>17 DEF SoundInv

----------------------------------------------------------------------------
(* The inductive invariant *)

\* Device errors are counted, never forgotten.
LEMMA ErrorsStay ==
    ASSUME CtlInv, NEW t \in Thread, Step(t) \/ Call(t), Undamaged'
    PROVE  Undamaged
<1>1. errors \in Nat
    BY DEF CtlInv, TypeOK
<1>2. ~IOError
    BY <1>1 DEF IOError, IOErrors, Undamaged
<1>3. CASE Call(t)
    BY <1>3 DEF Call, Read, Write, Scan, Truncate, TruncateToZero, WalkToEnd, Undamaged
<1>4. CASE AllocFails(t)
  <2>1. op[t].cur \in {0} \cup Cluster
      BY <1>4, OpFacts DEF AllocFails, HasCursor
  <2>2. AllocateEIO(op[t].cur) => errors' # 0
      BY <2>1, AllocateEIOType DEF CtlInv
  <2> QED BY <1>4, <2>2 DEF AllocFails, AllocateENOSPC, Undamaged
<1>5. CASE Seek(t) \/ Walk(t) \/ WalkEnd(t)
    BY <1>5 DEF Seek, SeekFrom, Walk, WalkEnd, Undamaged
<1>6. CASE Alloc(t) \/ AllocFirst(t)
    BY <1>6 DEF Alloc, AllocFirst, AllocateOk, Undamaged
<1>7. CASE ReadData(t) \/ WriteData(t) \/ ScanData(t) \/ DataError(t) \/ Peek(t)
    BY <1>2, <1>7 DEF ReadData, WriteData, ScanData, DataError, Peek, Undamaged
<1>8. CASE FreeWhole(t) \/ FreeTail(t) \/ FreeStep(t) \/ FreeFails(t) \/ FreeDone(t)
    BY <1>2, <1>8 DEF FreeWhole, FreeTail, FreeStep, FreeFails, FreeDone, Undamaged
<1>9. CASE WalkError(t) \/ WalkEndError(t) \/ FreeTailError(t)
    BY <1>2, <1>9 DEF WalkError, WalkEndError, FreeTailError
<1> QED BY <1>3, <1>4, <1>5, <1>6, <1>7, <1>8, <1>9 DEF Step

\* Nothing changes in a step that changes no variable.
LEMMA SoundStutters ==
    ASSUME SoundInv, UNCHANGED vars
    PROVE  SoundInv'
<1>1. Fat0' = Fat0
    BY DEF vars, Fat0
<1>2. OwnerInv' /\ LinkInv' /\ PlaceInv' /\ EndInv'
    BY <1>1 DEF vars, SoundInv, OwnerInv, LinkInv, PlaceInv, EndInv, InUse, Cuts
<1>3. StartInv' /\ CacheInv' /\ SizeInv'
    BY <1>1 DEF vars, SoundInv, StartInv, CacheInv, SizeInv, Cuts, FreeingAll
<1>4. NoLostCluster' /\ NoFalseEIO'
    BY <1>1 DEF vars, SoundInv, NoLostCluster, NoFalseEIO, InUse, Undamaged
<1>5. \A t \in Thread : CutInv(t)' /\ CursorInv(t)' /\ RangeInv(op[t])'
    BY <1>1 DEF vars, SoundInv, CutInv, CursorInv, RangeInv
<1> QED BY <1>2, <1>3, <1>4, <1>5 DEF SoundInv

\* The whole invariant is inductive.
LEMMA NextInd == IndInv /\ [Next]_vars => IndInv'
<1> SUFFICES ASSUME IndInv, [Next]_vars PROVE IndInv'
    OBVIOUS
<1>1. CtlInv /\ CtlInv'
    BY NextCtl DEF IndInv
<1>2. ASSUME Undamaged' PROVE SoundInv'
  <2>1. CASE UNCHANGED vars
    <3>1. SoundInv
        BY <1>2, <2>1 DEF IndInv, vars, Undamaged
    <3> QED BY <2>1, <3>1, SoundStutters
  <2>2. ASSUME NEW t \in Thread, Step(t) \/ Call(t) PROVE SoundInv'
    <3>1. Undamaged /\ SoundInv
        BY <1>1, <1>2, <2>2, ErrorsStay DEF IndInv
    <3> QED BY <1>1, <1>2, <2>2, <3>1, StepSound, CallSound
  <2> QED BY <2>1, <2>2 DEF Next
<1> QED BY <1>1, <1>2 DEF IndInv

\* It holds on the mounted volume, if that is sound.
LEMMA InitInd ==
    ASSUME DisjointLayout
    PROVE  Init => IndInv
    BY InitCtl, InitSound DEF IndInv

\* Every reachable state has it.
THEOREM ChainsSound ==
    ASSUME DisjointLayout
    PROVE  Spec => []IndInv
    BY InitInd, NextInd, PTL DEF Spec

----------------------------------------------------------------------------
(* The safety properties *)

\* What a link leads to is in use.
LEMMA LinkedInUse ==
    ASSUME CtlInv, SoundInv, NEW c \in Cluster, Fat0[c] \in Cluster
    PROVE  /\ owner[c] # NoVnode /\ InUse(Fat0[c])
           /\ owner[Fat0[c]] = owner[c] /\ pos[Fat0[c]] = pos[c] + 1
<1>1. OwnerInv /\ LinkInv
    BY DEF SoundInv
<1>2. owner[c] # NoVnode
    BY <1>1, ConstantFacts DEF OwnerInv, InUse
<1>3. owner[Fat0[c]] = owner[c] /\ pos[Fat0[c]] = pos[c] + 1
    BY <1>1 DEF LinkInv
<1> QED BY <1>1, <1>2, <1>3 DEF OwnerInv

\* No cluster belongs to two files or to two places of one, while the device
\* works: fat32_allocate_cluster gives out only free clusters, to which
\* nothing leads.
THEOREM NeverCrossLinked ==
    ASSUME DisjointLayout
    PROVE  Spec => []NoCrossLink
<1>1. ASSUME IndInv PROVE NoCrossLink
  <2> SUFFICES ASSUME Undamaged
               PROVE  /\ \A b, c \in Cluster : Fat0[b] \in Cluster /\ Fat0[b] = Fat0[c] => b = c
                      /\ \A v \in Vnode : start[v] # 0 =>
                           /\ \A c \in Cluster : Fat0[c] # start[v]
                           /\ \A w \in Vnode \ {v} : start[w] # start[v]
      BY DEF NoCrossLink
  <2>1. CtlInv /\ SoundInv
      BY <1>1 DEF IndInv
  <2>2. LinkInv /\ PlaceInv /\ StartInv
      BY <2>1 DEF SoundInv
  <2>3. ASSUME NEW b \in Cluster, NEW c \in Cluster, Fat0[b] \in Cluster, Fat0[b] = Fat0[c]
        PROVE  b = c
    <3>1. owner[b] # NoVnode /\ owner[b] = owner[c] /\ pos[b] + 1 = pos[c] + 1
        BY <2>1, <2>3, LinkedInUse
    <3>2. pos[b] \in Nat /\ pos[c] \in Nat
        BY <2>1, StateTypes
    <3>3. pos[b] = pos[c]
        BY <3>1, <3>2
    <3> QED BY <2>2, <3>1, <3>3 DEF PlaceInv
  <2>4. ASSUME NEW v \in Vnode, start[v] # 0, NEW c \in Cluster PROVE Fat0[c] # start[v]
    <3>1. start[v] \in Cluster /\ pos[start[v]] = 0
        BY <2>1, <2>2, <2>4, StateTypes DEF StartInv
    <3> QED BY <2>1, <3>1, LinkedInUse, StateTypes
  <2>5. ASSUME NEW v \in Vnode, start[v] # 0, NEW w \in Vnode \ {v}, start[w] = start[v]
        PROVE  FALSE
    <3>1. owner[start[v]] \in {v, NoVnode} /\ owner[start[v]] \in {w, NoVnode}
        BY <2>2, <2>5 DEF StartInv
    <3>2. owner[start[v]] = NoVnode /\ FreeingAll(v) /\ FreeingAll(w)
        BY <2>1, <2>2, <2>5, <3>1, StateTypes DEF StartInv
    <3>3. \A t, u \in Thread : op[t].pc = "freeing" /\ op[u].pc = "freeing" => t = u
        BY <2>1 DEF CtlInv, LockInv
    <3> QED BY <3>2, <3>3 DEF FreeingAll
  <2> QED BY <2>3, <2>4, <2>5
<1> QED BY <1>1, ChainsSound, PTL

\* What a FAT entry or fv_cluster leads to is in use, so that the allocator
\* cannot give it to another file while the device works.
THEOREM NothingDangles ==
    ASSUME DisjointLayout
    PROVE  Spec => []NoDanglingLink
<1>1. ASSUME IndInv PROVE NoDanglingLink
  <2> SUFFICES ASSUME Undamaged
               PROVE  /\ \A c \in Cluster : Fat0[c] \in Cluster => InUse(Fat0[c])
                      /\ \A v \in Vnode : start[v] # 0 /\ ~FreeingAll(v) => InUse(start[v])
      BY DEF NoDanglingLink
  <2>1. CtlInv /\ SoundInv
      BY <1>1 DEF IndInv
  <2>2. OwnerInv /\ StartInv
      BY <2>1 DEF SoundInv
  <2>3. \A v \in Vnode : start[v] # 0 /\ ~FreeingAll(v) => InUse(start[v])
      BY <2>1, <2>2, StateTypes DEF OwnerInv, StartInv
  <2> QED BY <2>1, <2>3, LinkedInUse
<1> QED BY <1>1, ChainsSound, PTL

\* Every cluster in use can be reached from a file, or is about to be freed
\* by fat32_free_clusters, while the device works.
THEOREM NothingLost ==
    ASSUME DisjointLayout
    PROVE  Spec => []NoLostCluster
<1>1. IndInv => NoLostCluster
    BY DEF IndInv, SoundInv, NoLostCluster
<1> QED BY <1>1, ChainsSound, PTL

\* The checks of fat32_next_cluster and fat32_free_clusters for free, bad and
\* invalid clusters never fire on chains this driver made.
THEOREM ChecksNeverFire ==
    ASSUME DisjointLayout
    PROVE  Spec => []NoFalseEIO
<1>1. IndInv => NoFalseEIO
    BY DEF IndInv, SoundInv, NoFalseEIO
<1> QED BY <1>1, ChainsSound, PTL

\* fat32_read never meets the end of the chain within the size of the file,
\* while the device works.
THEOREM ReadsStayInChain ==
    ASSUME DisjointLayout
    PROVE  Spec => []ReadsCovered
<1>1. IndInv => ReadsCovered
    BY ReadGoesOn DEF IndInv, ReadsCovered
<1> QED BY <1>1, ChainsSound, PTL

----------------------------------------------------------------------------
(* Whole chains: the recursive definition ClusterAt is reached by taking the *)
(* least place at which a claim would fail.                                  *)

\* A sequence of clusters that starts at fv_cluster and follows the FAT is
\* what ClusterAt computes.
LEMMA ClusterAtFollows ==
    ASSUME NEW v, NEW n \in Nat, NEW h \in [0 .. n -> Cluster], h[0] = start[v],
           \A i \in 1 .. n : h[i] = Fat0[h[i - 1]]
    PROVE  ClusterAt(v, n) = h[n]
<1> DEFINE Body(a, i) == IF i = 0 THEN start[v]
                         ELSE IF a[i - 1] \in Cluster THEN Fat0[a[i - 1]] ELSE FAT32_CLUSTER_EOC
           Eqn(a) == a = [i \in 0 .. n |-> Body(a, i)]
           at == CHOOSE a : Eqn(a)
<1>1. ClusterAt(v, n) = at[n]
    BY DEF ClusterAt
<1>2. Eqn(h)
  <2>1. h = [i \in 0 .. n |-> h[i]]
      OBVIOUS
  <2>2. ASSUME NEW i \in 0 .. n PROVE h[i] = Body(h, i)
    <3>1. CASE i = 0
        BY <3>1
    <3>2. CASE i # 0
      <4>1. i \in 1 .. n /\ i - 1 \in 0 .. n
          BY <3>2
      <4>2. h[i - 1] \in Cluster /\ h[i] = Fat0[h[i - 1]]
          BY <4>1
      <4> QED BY <3>2, <4>2
    <3> QED BY <3>1, <3>2
  <2> HIDE DEF Body
  <2> QED BY <2>1, <2>2
<1>3. Eqn(at)
    BY <1>2, Zenon
<1>4. ASSUME NEW i \in 0 .. n PROVE at[i] = Body(at, i)
  <2> HIDE DEF at, Body
  <2> QED BY <1>3
<1> HIDE DEF at
<1> DEFINE T == {i \in 0 .. n : at[i] # h[i]}
<1>5. T = {}
  <2> SUFFICES ASSUME T # {} PROVE FALSE
      OBVIOUS
  <2>1. PICK x \in T : \A y \in T : x <= y
    <3>1. T \subseteq Nat
        OBVIOUS
    <3> HIDE DEF T
    <3> QED BY <3>1, LeastNat
  <2>2. CASE x = 0
      BY <1>4, <2>1, <2>2
  <2>3. CASE x # 0
    <3>1. x \in 1 .. n /\ x - 1 \in 0 .. n /\ x - 1 \notin T
        BY <2>1, <2>3
    <3>2. at[x - 1] = h[x - 1] /\ h[x - 1] \in Cluster /\ h[x] = Fat0[h[x - 1]]
        BY <3>1
    <3>3. at[x] = Body(at, x)
        BY <1>4, <2>1
    <3> QED BY <2>1, <2>3, <3>2, <3>3
  <2> QED BY <2>2, <2>3
<1> QED BY <1>1, <1>5

\* While nobody frees clusters of v, the FAT leads from each place of its
\* chain but the first back to the place before.
LEMMA Predecessor ==
    ASSUME CtlInv, SoundInv, Undamaged, NEW v \in Vnode, \A u \in Thread : ~Cuts(u, v),
           NEW c \in Cluster, owner[c] = v, pos[c] # 0
    PROVE  \E b \in Cluster : Fat0[b] = c /\ owner[b] = v /\ pos[b] = pos[c] - 1
<1>1. OwnerInv /\ LinkInv /\ StartInv /\ NoLostCluster
    BY DEF SoundInv
<1>2. InUse(c)
    BY <1>1, StateTypes DEF OwnerInv
<1>3. \A w \in Vnode : start[w] # c
    BY <1>1, StateTypes DEF StartInv
<1>4. ASSUME NEW u \in Thread, op[u].pc = "freeing", op[u].cur = c PROVE FALSE
  <2>1. op[u].v = v
      BY <1>4 DEF SoundInv, CutInv
  <2> QED BY <1>4, <2>1 DEF Cuts
<1>5. PICK b \in Cluster : Fat0[b] = c
    BY <1>1, <1>2, <1>3, <1>4 DEF NoLostCluster
<1>6. owner[b] = v /\ pos[c] = pos[b] + 1
    BY <1>1, <1>5 DEF LinkInv
<1> QED BY <1>5, <1>6, StateTypes

\* A chain has no holes: below a place that is taken every place is.
LEMMA NoHoles ==
    ASSUME CtlInv, SoundInv, Undamaged, NEW v \in Vnode, \A u \in Thread : ~Cuts(u, v),
           NEW c \in Cluster, owner[c] = v, NEW i \in 0 .. pos[c]
    PROVE  \E b \in Cluster : owner[b] = v /\ pos[b] = i
<1> DEFINE n == pos[c]
           Taken(k) == \E b \in Cluster : owner[b] = v /\ pos[b] = n - k
           T == {k \in 0 .. n : ~Taken(k)}
<1>1. n \in Nat
    BY StateTypes
<1>2. T = {}
  <2> SUFFICES ASSUME T # {} PROVE FALSE
      OBVIOUS
  <2>1. PICK k \in T : \A j \in T : k <= j
    <3>1. T \subseteq Nat
        BY <1>1
    <3> HIDE DEF T
    <3> QED BY <3>1, LeastNat
  <2>2. k \in 0 .. n /\ ~Taken(k)
      OBVIOUS
  <2>3. k # 0
    <3>1. Taken(0)
        BY <1>1
    <3> HIDE DEF Taken
    <3> QED BY <2>2, <3>1
  <2>4. Taken(k - 1)
    <3>1. k - 1 \in 0 .. n /\ ~(k <= k - 1)
        BY <1>1, <2>2, <2>3
    <3> HIDE DEF Taken
    <3> QED BY <2>1, <3>1
  <2>5. PICK b \in Cluster : owner[b] = v /\ pos[b] = n - (k - 1)
      BY <2>4
  <2>6. pos[b] # 0 /\ pos[b] - 1 = n - k
      BY <1>1, <2>2, <2>3, <2>5
  <2>7. \E d \in Cluster : owner[d] = v /\ pos[d] = pos[b] - 1
      BY <2>5, <2>6, Predecessor
  <2> QED BY <2>2, <2>6, <2>7
<1>3. n - i \in 0 .. n /\ n - (n - i) = i
    BY <1>1
<1>4. Taken(n - i)
    BY <1>2, <1>3
<1> QED BY <1>3, <1>4

\* The FAT leads to the cluster at place n of the chain of v in n steps.
LEMMA ClusterAtPlace ==
    ASSUME CtlInv, SoundInv, Undamaged, NEW v \in Vnode, \A u \in Thread : ~Cuts(u, v),
           NEW c \in Cluster, owner[c] = v
    PROVE  ClusterAt(v, pos[c]) = c
<1> DEFINE n == pos[c]
           IsAt(b, i) == b \in Cluster /\ owner[b] = v /\ pos[b] = i
           h == [i \in 0 .. n |-> CHOOSE b \in Cluster : owner[b] = v /\ pos[b] = i]
<1>0. v # NoVnode /\ n \in Nat /\ PlaceInv /\ StartInv
    BY StateTypes DEF SoundInv
<1>1. ASSUME NEW i \in 0 .. n PROVE IsAt(h[i], i)
    BY <1>1, NoHoles
<1>2. ASSUME NEW i \in 0 .. n, NEW b, IsAt(b, i) PROVE h[i] = b
  <2>1. IsAt(h[i], i)
      BY <1>1
  <2> HIDE DEF h
  <2> QED BY <1>0, <1>2, <2>1 DEF PlaceInv
<1>3. h \in [0 .. n -> Cluster]
  <2>1. h = [i \in 0 .. n |-> h[i]]
      OBVIOUS
  <2> HIDE DEF h
  <2>2. \A i \in 0 .. n : h[i] \in Cluster
      BY <1>1
  <2> QED BY <2>1, <2>2
<1>4. h[0] = start[v]
  <2>1. start[v] # 0
      BY <1>0 DEF StartInv
  <2>2. IsAt(start[v], 0)
      BY <2>1, ChainReady, StateTypes
  <2>3. 0 \in 0 .. n
      BY <1>0
  <2> HIDE DEF h
  <2> QED BY <1>2, <2>2, <2>3
<1>5. ASSUME NEW i \in 1 .. n PROVE h[i] = Fat0[h[i - 1]]
  <2>1. i \in 0 .. n /\ i - 1 \in 0 .. n /\ i # 0
      BY <1>0
  <2>2. IsAt(h[i], i)
      BY <1>1, <2>1
  <2> HIDE DEF h
  <2>3. PICK b \in Cluster : Fat0[b] = h[i] /\ owner[b] = v /\ pos[b] = pos[h[i]] - 1
      BY <2>1, <2>2, Predecessor
  <2>4. h[i - 1] = b
      BY <1>2, <2>1, <2>2, <2>3
  <2> QED BY <2>3, <2>4
<1>6. h[n] = c
  <2>1. n \in 0 .. n
      BY <1>0
  <2> HIDE DEF h
  <2> QED BY <1>2, <2>1
<1> HIDE DEF h, n
<1>7. ClusterAt(v, n) = h[n]
    BY <1>0, <1>3, <1>4, <1>5, ClusterAtFollows
<1> QED BY <1>6, <1>7 DEF n

\* Every position fat32_vnode_update_cache recorded is the true one, whatever
\* seeks, truncations and allocations came between, while the device works.
THEOREM CacheTrue ==
    ASSUME DisjointLayout
    PROVE  Spec => []CacheCoherent
<1>1. ASSUME IndInv PROVE CacheCoherent
  <2> SUFFICES ASSUME Undamaged, NEW v \in Vnode, ~Truncating(v), NEW i \in Slot,
                      cache[v][i].cluster # 0
               PROVE  cache[v][i].cluster = ClusterAt(v, cache[v][i].index)
      BY DEF CacheCoherent
  <2>1. CtlInv /\ SoundInv /\ \A u \in Thread : ~Cuts(u, v)
      BY <1>1 DEF IndInv, Truncating, Cuts
  <2>2. /\ cache[v][i].cluster \in Cluster /\ owner[cache[v][i].cluster] = v
        /\ pos[cache[v][i].cluster] = cache[v][i].index
      BY <2>1, ChainReady
  <2> QED BY <2>1, <2>2, ClusterAtPlace
<1> QED BY <1>1, ChainsSound, PTL

\* The chain of a file has a cluster for all of its size, also after a write
\* or truncate that failed half way, while the device works.
THEOREM SizeCovered ==
    ASSUME DisjointLayout
    PROVE  Spec => []ChainCoversSize
<1>1. ASSUME IndInv PROVE ChainCoversSize
  <2> SUFFICES ASSUME Undamaged, NEW v \in Reg, ~Truncating(v), size[v] > 0
               PROVE  ClusterAt(v, size[v] - 1) \in Cluster
      BY DEF ChainCoversSize
  <2>1. CtlInv /\ SoundInv /\ (\A u \in Thread : ~Cuts(u, v)) /\ v \in Vnode
      BY <1>1 DEF IndInv, Truncating, Cuts, Vnode
  <2>2. size[v] \in Nat /\ start[v] \in {0} \cup Cluster /\ v # NoVnode
      BY <2>1, StateTypes
  <2>3. start[v] \in Cluster /\ owner[start[v]] = v /\ pos[start[v]] = 0
    <3>1. start[v] # 0
        BY <2>1, <2>2 DEF CtlInv, HasStart
    <3> QED BY <2>1, <2>2, <3>1, ChainReady
  <2> DEFINE n == size[v] - 1
             Taken(k) == \E b \in Cluster : owner[b] = v /\ pos[b] = k
             T == {k \in 0 .. n : ~Taken(k)}
  <2>4. T = {}
    <3> SUFFICES ASSUME T # {} PROVE FALSE
        OBVIOUS
    <3>1. PICK k \in T : \A j \in T : k <= j
      <4>1. T \subseteq Nat
          OBVIOUS
      <4> HIDE DEF T
      <4> QED BY <4>1, LeastNat
    <3>2. k \in 0 .. n /\ ~Taken(k)
        OBVIOUS
    <3>3. k # 0
      <4>1. Taken(0)
          BY <2>3
      <4> HIDE DEF Taken
      <4> QED BY <3>2, <4>1
    <3>4. Taken(k - 1)
      <4>1. k - 1 \in 0 .. n /\ ~(k <= k - 1)
          BY <2>2, <3>2, <3>3
      <4> HIDE DEF Taken
      <4> QED BY <3>1, <4>1
    <3>5. PICK b \in Cluster : owner[b] = v /\ pos[b] = k - 1
        BY <3>4
    <3>6. Fat0[b] # FAT32_CLUSTER_EOC
      <4>1. SizeInv
          BY <2>1 DEF SoundInv
      <4>2. ~(size[v] <= pos[b] + 1)
          BY <2>2, <3>2, <3>3, <3>5
      <4> QED BY <2>1, <3>5, <4>1, <4>2 DEF SizeInv
    <3>7. Fat0[b] \in Cluster
        BY <2>1, <2>2, <3>5, <3>6, OwnedEntry DEF SoundInv
    <3>8. owner[Fat0[b]] = v /\ pos[Fat0[b]] = k - 1 + 1
        BY <2>1, <3>5, <3>7, LinkedInUse
    <3>9. pos[Fat0[b]] = k
        BY <3>2, <3>8
    <3> QED BY <3>2, <3>7, <3>8, <3>9
  <2>5. n \in 0 .. n
      BY <2>2
  <2>6. PICK b \in Cluster : owner[b] = v /\ pos[b] = n
      BY <2>4, <2>5
  <2> HIDE DEF n, T
  <2>7. ClusterAt(v, n) = b
      BY <2>1, <2>6, ClusterAtPlace
  <2> QED BY <2>7 DEF n
<1> QED BY <1>1, ChainsSound, PTL

----------------------------------------------------------------------------
(* What each step does to the FAT and to the count of free clusters *)

\* t neither was nor is freeing clusters, and freed_count stays or starts
\* again at zero.
NotFreeing(t) ==
    /\ \A u \in Thread \ {t} : op'[u] = op[u]
    /\ op[t].pc # "freeing" /\ op'[t].pc # "freeing"
    /\ op'[t].freed \in {0, op[t].freed}

\* A thread that returns from outside fat32_free_clusters
LEMMA ReturnsNotFreeing ==
    ASSUME CtlInv, NEW t \in Thread, NEW r, Finish(t, r), op[t].pc # "freeing"
    PROVE  NotFreeing(t)
    BY Returned DEF NotFreeing

\* A thread that goes on outside fat32_free_clusters
LEMMA GoesOnNotFreeing ==
    ASSUME CtlInv, NEW t \in Thread, op[t].pc # "freeing", NEW p \in PC \ {"freeing"},
           Go(t, [op[t] EXCEPT !.pc = p])
    PROVE  NotFreeing(t)
    BY StateTypes, OpFacts DEF NotFreeing, Go, Op

\* A thread whose cursor moves
LEMMA MovesNotFreeing ==
    ASSUME CtlInv, NEW t \in Thread, op[t].pc # "freeing", NEW c \in Cluster, NEW i \in Nat,
           MoveTo(t, c, i)
    PROVE  NotFreeing(t)
<1>1. /\ \A u \in Thread \ {t} : op'[u] = op[u]
      /\ \/ op'[t] = Idle("ok")
         \/ /\ op'[t].freed = op[t].freed
            /\ op'[t].pc = IF i < op[t].goal THEN "walk" ELSE Arrived(op[t].kind)
    BY MoveToOp DEF CtlInv
<1> QED BY <1>1 DEF NotFreeing, Idle, Arrived

\* The steps that leave the FAT and the count alone
QuietAction(t) ==
    \/ Seek(t) \/ Walk(t) \/ WalkEnd(t) \/ AllocFails(t) \/ ReadData(t) \/ WriteData(t)
    \/ ScanData(t) \/ DataError(t) \/ Peek(t)

\* They free nothing, and count nothing.
LEMMA QuietActions ==
    ASSUME CtlInv, SoundInv, Undamaged, Undamaged', NEW t \in Thread, QuietAction(t)
    PROVE  UNCHANGED <<fat, freeCount, fsiLock>> /\ NotFreeing(t)
<1> DEFINE o == op[t]
           G(p) == Go(t, [o EXCEPT !.pc = p])
<1>0. ~IOError
    BY DEF IOError, IOErrors, Undamaged
<1>1. ASSUME NEW r, Finish(t, r), o.pc # "freeing" PROVE NotFreeing(t)
    BY <1>1, ReturnsNotFreeing
<1>2. ASSUME NEW p \in {"walk", "alloc", "free"}, G(p), o.pc # "freeing" PROVE NotFreeing(t)
    BY <1>2, GoesOnNotFreeing DEF PC
<1>3. CASE Seek(t)
  <2>1. o.pc = "seek" /\ o.v \in Vnode /\ start[o.v] \in Cluster
      BY <1>3, OpFacts DEF Seek
  <2>2. \A i \in Candidates(cache[o.v], o.goal) :
            cache[o.v][i].cluster \in Cluster /\ cache[o.v][i].index \in Nat
      BY <2>1, StateTypes DEF Candidates, CacheEntry
  <2>3. \E c \in Cluster, i \in Nat : SeekFrom(t, c, i)
      BY <1>3, <2>1, <2>2 DEF Seek, IsBest
  <2> QED BY <2>1, <2>3, MovesNotFreeing DEF SeekFrom, fsVars
<1>4. CASE Walk(t)
  <2>1. o.pc = "walk" /\ o.idx \in Nat /\ UNCHANGED <<fat, freeCount, fsiLock>>
      BY <1>4, OpFacts DEF Walk, fsVars
  <2>2. ASSUME Fat0[o.cur] \in Cluster, MoveTo(t, Fat0[o.cur], o.idx + 1) PROVE NotFreeing(t)
    <3>1. o.idx + 1 \in Nat
        BY <2>1
    <3> QED BY <2>1, <2>2, <3>1, MovesNotFreeing
  <2> QED BY <1>1, <1>2, <1>4, <2>1, <2>2 DEF Walk
<1>5. CASE WalkEnd(t)
  <2>1. o.pc = "end" /\ o.idx \in Nat /\ UNCHANGED <<fat, freeCount, fsiLock>>
      BY <1>5, OpFacts DEF WalkEnd, fsVars
  <2>2. ASSUME NEW c, NEW i, Go(t, [o EXCEPT !.cur = c, !.idx = i]) PROVE NotFreeing(t)
      BY <2>1, <2>2, StateTypes, OpFacts DEF NotFreeing, Go, Op
  <2>3. ASSUME NEW g, Go(t, [o EXCEPT !.pc = "walk", !.goal = g]) PROVE NotFreeing(t)
      BY <2>1, <2>3, StateTypes, OpFacts DEF NotFreeing, Go, Op
  <2> QED BY <1>1, <1>5, <2>1, <2>2, <2>3 DEF WalkEnd, EndOfWalk
<1>6. CASE AllocFails(t)
  <2>1. ~AllocateEIO(o.cur)
    <3>1. o.cur \in {0} \cup Cluster
        BY <1>6, OpFacts DEF AllocFails, HasCursor
    <3> QED BY <3>1, AllocateEIOType DEF CtlInv, Undamaged
  <2> QED BY <1>1, <1>6, <2>1 DEF AllocFails, AllocateENOSPC, fsVars
<1>7. CASE ReadData(t) \/ WriteData(t)
    BY <1>1, <1>2, <1>7 DEF ReadData, WriteData, TransferNext, fsVars
<1>8. CASE ScanData(t) \/ DataError(t)
    BY <1>1, <1>2, <1>8 DEF ScanData, DataError, fsVars
<1>9. CASE Peek(t)
    BY <1>1, <1>2, <1>9 DEF Peek, fsVars
<1> QED BY <1>3, <1>4, <1>5, <1>6, <1>7, <1>8, <1>9 DEF QuietAction

\* A call begins with freed_count zero and leaves the FAT alone.
LEMMA CallQuiet ==
    ASSUME CtlInv, NEW t \in Thread, Call(t)
    PROVE  UNCHANGED <<fat, freeCount, fsiLock>> /\ NotFreeing(t)
<1>1. ASSUME NEW at, at # "freeing", NEW k, NEW v, NEW g, NEW n, NEW c, op[t].pc = "idle",
             Go(t, [pc |-> at, kind |-> k, v |-> v, goal |-> g, need |-> n, cur |-> c,
                    idx |-> 0, freed |-> 0, res |-> "ok"])
      PROVE  NotFreeing(t)
    BY <1>1, StateTypes DEF NotFreeing, Go
<1>2. Finish(t, "ok") /\ op[t].pc = "idle" => NotFreeing(t)
    BY ReturnsNotFreeing
<1>3. PICK v \in Vnode :
        \/ \E off \in 0 .. MaxSize - 1 : Read(t, v, off) \/ Write(t, v, off) \/ Scan(t, v, off)
        \/ \E n \in 1 .. MaxSize : Truncate(t, v, n)
        \/ TruncateToZero(t, v)
        \/ \E k \in {"grow", "getattr"} : WalkToEnd(t, v, k)
    BY DEF Call
<1>4. UNCHANGED <<fat, freeCount, fsiLock>>
    BY <1>3 DEF Read, Write, Scan, Truncate, TruncateToZero, WalkToEnd, fsVars
<1>5. (IF start[v] = 0 THEN "first" ELSE "seek") # "freeing"
    OBVIOUS
<1>6. ASSUME NEW off \in 0 .. MaxSize - 1, Read(t, v, off) \/ Write(t, v, off) \/ Scan(t, v, off)
      PROVE  NotFreeing(t)
    BY <1>1, <1>5, <1>6 DEF Read, Write, Scan, Begin
<1>7. ASSUME NEW n \in 1 .. MaxSize, Truncate(t, v, n) PROVE NotFreeing(t)
    BY <1>1, <1>5, <1>7 DEF Truncate, Begin
<1>8. ASSUME TruncateToZero(t, v) PROVE NotFreeing(t)
    BY <1>1, <1>2, <1>8 DEF TruncateToZero, Begin
<1>9. ASSUME NEW k \in {"grow", "getattr"}, WalkToEnd(t, v, k) PROVE NotFreeing(t)
    BY <1>1, <1>9 DEF WalkToEnd
<1> QED BY <1>3, <1>4, <1>6, <1>7, <1>8, <1>9

\* While the device works, an allocation takes one cluster from the free ones
\* and changes no link.
LEMMA AllocatesOne ==
    ASSUME CtlInv, SoundInv, NEW t \in Thread, Alloc(t) \/ AllocFirst(t)
    PROVE  /\ \E c \in FreeClusters : FreeClusters' = FreeClusters \ {c}
           /\ \A x \in Cluster : Fat0[x] \in Cluster => Fat0'[x] = Fat0[x]
           /\ CountUsable /\ freeCount' = freeCount - 1
           /\ fsiLock = NoThread /\ fsiLock' = fsiLock /\ NotFreeing(t)
<1> DEFINE o == op[t]
<1>1. CASE Alloc(t)
  <2>1. /\ o.pc = "alloc" /\ HasCursor(o) /\ o.idx \in Nat
        /\ fsiLock = NoThread /\ fsiLock' = fsiLock
      BY <1>1, OpFacts DEF Alloc, HasCursor
  <2>2. PICK c \in Cluster : AllocateOk(o.cur, c) /\ MoveTo(t, c, o.idx + 1)
      BY <1>1 DEF Alloc
  <2>3. o.cur \in Cluster /\ Fat0[o.cur] = FAT32_CLUSTER_EOC
      BY <2>1, CursorEntry DEF SoundInv, CursorInv
  <2>4. /\ Fat0[c] = FAT32_CLUSTER_FREE
        /\ Fat0' = [Fat0 EXCEPT ![c] = FAT32_CLUSTER_EOC, ![o.cur] = c]
      BY <2>2, <2>3, Allocated, StateTypes
  <2>5. \A x \in Cluster : Fat0'[x] = IF x = o.cur THEN c ELSE IF x = c THEN FAT32_CLUSTER_EOC
                                     ELSE Fat0[x]
      BY <2>3, <2>4, StateTypes, ConstantFacts
  <2>6. FreeClusters' = FreeClusters \ {c} /\ c \in FreeClusters
      BY <2>3, <2>4, <2>5, ConstantFacts DEF FreeClusters
  <2>7. \A x \in Cluster : Fat0[x] \in Cluster => Fat0'[x] = Fat0[x]
      BY <2>3, <2>4, <2>5, ConstantFacts
  <2>8. NotFreeing(t)
    <3>1. o.idx + 1 \in Nat
        BY <2>1
    <3> QED BY <2>1, <2>2, <3>1, MovesNotFreeing
  <2> QED BY <2>1, <2>2, <2>6, <2>7, <2>8 DEF AllocateOk
<1>2. CASE AllocFirst(t)
  <2>1. /\ o.pc = "first" /\ fsiLock = NoThread /\ fsiLock' = fsiLock
        /\ Go(t, [o EXCEPT !.pc = "seek"])
      BY <1>2 DEF AllocFirst
  <2>2. PICK c \in Cluster : AllocateOk(0, c)
      BY <1>2 DEF AllocFirst
  <2>3. Fat0[c] = FAT32_CLUSTER_FREE /\ Fat0' = [Fat0 EXCEPT ![c] = FAT32_CLUSTER_EOC]
      BY <2>2, Allocated
  <2>4. \A x \in Cluster : Fat0'[x] = IF x = c THEN FAT32_CLUSTER_EOC ELSE Fat0[x]
      BY <2>3, StateTypes
  <2>5. FreeClusters' = FreeClusters \ {c} /\ c \in FreeClusters
      BY <2>3, <2>4, ConstantFacts DEF FreeClusters
  <2>6. \A x \in Cluster : Fat0[x] \in Cluster => Fat0'[x] = Fat0[x]
      BY <2>3, <2>4, ConstantFacts
  <2>7. NotFreeing(t)
      BY <2>1, GoesOnNotFreeing DEF PC
  <2> QED BY <2>1, <2>2, <2>5, <2>6, <2>7 DEF AllocateOk
<1> QED BY <1>1, <1>2

\* The steps of fat32_free_clusters: it keeps or cuts links, frees one
\* cluster at a time, and counts them when it is done.
LEMMA FreeingSteps ==
    ASSUME CtlInv, SoundInv, Undamaged, Undamaged', NEW t \in Thread,
           FreeWhole(t) \/ FreeTail(t) \/ FreeStep(t) \/ FreeDone(t)
    PROVE  /\ \A u \in Thread \ {t} : op'[u] = op[u]
           /\ \A x \in Cluster : Fat0'[x] \in Cluster => Fat0'[x] = Fat0[x]
           /\ \/ /\ FreeWhole(t) \/ FreeTail(t)
                 /\ FreeClusters' = FreeClusters /\ freeCount' = freeCount
                 /\ op[t].pc = "free" /\ fsiLock = NoThread
                 /\ \/ op'[t].pc = "freeing" /\ op'[t].freed = op[t].freed /\ fsiLock' = t
                    \/ op'[t].pc = "idle" /\ op'[t].freed = 0 /\ fsiLock' = NoThread
              \/ /\ FreeStep(t) /\ freeCount' = freeCount
                 /\ \E c \in Cluster \ FreeClusters : FreeClusters' = FreeClusters \cup {c}
                 /\ op[t].pc = "freeing" /\ op'[t].pc = "freeing"
                 /\ op'[t].freed = op[t].freed + 1 /\ fsiLock' = fsiLock
              \/ /\ FreeDone(t) /\ FreeClusters' = FreeClusters
                 /\ freeCount' = IF freeCount = UnknownCount THEN freeCount
                                 ELSE freeCount + op[t].freed
                 /\ op[t].pc = "freeing" /\ op'[t].pc = "idle" /\ op'[t].freed = 0
                 /\ fsiLock' = NoThread
<1> DEFINE o == op[t]
           c == op[t].cur
<1>0. ~IOError
    BY DEF IOError, IOErrors, Undamaged
<1>1. CASE FreeWhole(t)
  <2> DEFINE s == start[o.v]
  <2>1. /\ o.pc = "free" /\ fsiLock = NoThread /\ fsiLock' = t
        /\ Go(t, [o EXCEPT !.pc = "freeing", !.cur = s])
        /\ UNCHANGED <<fat, freeCount>>
      BY <1>1 DEF FreeWhole, fsVars
  <2> HIDE DEF s
  <2>2. /\ op'[t].pc = "freeing" /\ op'[t].freed = o.freed /\ \A u \in Thread \ {t} : op'[u] = op[u]
      BY <2>1, StateTypes, OpFacts DEF Go, Op
  <2>3. Fat0' = Fat0 /\ FreeClusters' = FreeClusters
      BY <2>1 DEF Fat0, FreeClusters
  <2> QED BY <1>1, <2>1, <2>2, <2>3
<1>2. CASE FreeTail(t)
  <2>1. /\ o.pc = "free" /\ HasCursor(o) /\ fsiLock = NoThread /\ freeCount' = freeCount
        /\ fat' = WriteFat(fat, c, FAT32_CLUSTER_EOC, NumFats)
      BY <1>2 DEF FreeTail, HasCursor
  <2>2. c \in Cluster /\ Fat0[c] # FAT32_CLUSTER_FREE
      BY <2>1, CursorEntry
  <2>3. Fat0' = [Fat0 EXCEPT ![c] = FAT32_CLUSTER_EOC]
      BY <2>1, <2>2, Written
  <2>4. \A x \in Cluster : Fat0'[x] = IF x = c THEN FAT32_CLUSTER_EOC ELSE Fat0[x]
      BY <2>2, <2>3, StateTypes
  <2>5. FreeClusters' = FreeClusters /\ \A x \in Cluster : Fat0'[x] \in Cluster => Fat0'[x] = Fat0[x]
      BY <2>2, <2>4, ConstantFacts DEF FreeClusters
  <2>6. CASE Truncated(t) /\ fsiLock' = fsiLock
    <3>1. /\ op'[t].pc = "idle" /\ op'[t].freed = 0 /\ \A u \in Thread \ {t} : op'[u] = op[u]
        BY <2>6, Returned DEF Truncated
    <3> QED BY <1>2, <2>1, <2>5, <2>6, <3>1
  <2>7. CASE fsiLock' = t /\ Go(t, [o EXCEPT !.pc = "freeing", !.cur = Fat0[c]])
    <3> DEFINE nx == Fat0[c]
    <3>1. Go(t, [o EXCEPT !.pc = "freeing", !.cur = nx])
        BY <2>7
    <3> HIDE DEF nx
    <3>2. /\ op'[t].pc = "freeing" /\ op'[t].freed = o.freed
          /\ \A u \in Thread \ {t} : op'[u] = op[u]
        BY <3>1, StateTypes, OpFacts DEF Go, Op
    <3> QED BY <1>2, <2>1, <2>5, <2>7, <3>2
  <2> QED BY <1>2, <2>6, <2>7 DEF FreeTail
<1>3. CASE FreeStep(t)
  <2> DEFINE n == o.freed + 1
             nx == Fat0[c]
  <2>1. /\ o.pc = "freeing" /\ c \in Cluster /\ freeCount' = freeCount /\ fsiLock' = fsiLock
        /\ fat' = WriteFat(fat, c, FAT32_CLUSTER_FREE, NumFats)
        /\ Go(t, [o EXCEPT !.cur = nx, !.freed = n])
      BY <1>3 DEF FreeStep
  <2>2. Fat0[c] # FAT32_CLUSTER_FREE
    <3>1. OwnerInv /\ owner[c] = o.v
        BY <2>1 DEF SoundInv, CutInv
    <3>2. owner[c] # NoVnode
        BY <2>1, <3>1, OpFacts, StateTypes
    <3> QED BY <2>1, <3>1, <3>2 DEF OwnerInv, InUse
  <2>3. \A x \in Cluster : Fat0'[x] = IF x = c THEN FAT32_CLUSTER_FREE ELSE Fat0[x]
    <3>1. Fat0' = [Fat0 EXCEPT ![c] = FAT32_CLUSTER_FREE]
        BY <2>1, Written
    <3> QED BY <2>1, <3>1, StateTypes
  <2>4. /\ FreeClusters' = FreeClusters \cup {c} /\ c \in Cluster \ FreeClusters
        /\ \A x \in Cluster : Fat0'[x] \in Cluster => Fat0'[x] = Fat0[x]
      BY <2>1, <2>2, <2>3, ConstantFacts DEF FreeClusters
  <2> HIDE DEF n, nx
  <2>5. /\ op'[t].pc = "freeing" /\ op'[t].freed = n /\ \A u \in Thread \ {t} : op'[u] = op[u]
      BY <2>1, StateTypes, OpFacts DEF Go, Op
  <2> QED BY <1>3, <2>1, <2>4, <2>5 DEF n
<1>4. CASE FreeDone(t)
  <2>1. /\ o.pc = "freeing" /\ Truncated(t) /\ fsiLock' = NoThread /\ UNCHANGED fat
        /\ freeCount' = IF freeCount = UnknownCount THEN freeCount ELSE freeCount + o.freed
      BY <1>0, <1>4 DEF FreeDone
  <2>2. /\ op'[t].pc = "idle" /\ op'[t].freed = 0 /\ \A u \in Thread \ {t} : op'[u] = op[u]
      BY <2>1, Returned DEF Truncated
  <2>3. Fat0' = Fat0 /\ FreeClusters' = FreeClusters
      BY <2>1 DEF Fat0, FreeClusters
  <2> QED BY <1>4, <2>1, <2>2, <2>3
<1> QED BY <1>1, <1>2, <1>3, <1>4

\* Which steps there are while the device works
LEMMA StepKinds ==
    ASSUME CtlInv, SoundInv, Undamaged, Undamaged', NEW t \in Thread, Step(t)
    PROVE  \/ QuietAction(t) \/ Alloc(t) \/ AllocFirst(t)
           \/ FreeWhole(t) \/ FreeTail(t) \/ FreeStep(t) \/ FreeDone(t)
<1>1. ~IOError
    BY DEF IOError, IOErrors, Undamaged
<1>2. ~WalkError(t) /\ ~WalkEndError(t) /\ ~FreeTailError(t) /\ ~FreeFails(t)
    BY <1>1, FreeNeverFails DEF WalkError, WalkEndError, FreeTailError
<1> QED BY <1>2 DEF Step, QuietAction

----------------------------------------------------------------------------
(* No link is replaced by another *)

\* Two callers of fat32_next_cluster never link two clusters to the same end
\* of a chain: a link is cut or freed, but never overwritten, while the device
\* works.
THEOREM NoLinkOverwritten ==
    ASSUME DisjointLayout
    PROVE  Spec => LinksNotOverwritten
<1> DEFINE Kept == \A c \in Cluster :
                     Fat0[c] \in Cluster /\ Fat0'[c] \in Cluster => Fat0'[c] = Fat0[c]
<1>1. IndInv /\ [Next]_vars => [errors' = 0 => Kept]_vars
  <2> SUFFICES ASSUME IndInv, NEW t \in Thread, Step(t) \/ Call(t), errors' = 0 PROVE Kept
      BY DEF Next
  <2>1. CtlInv /\ SoundInv /\ Undamaged /\ Undamaged'
    <3>1. CtlInv /\ Undamaged'
        BY DEF IndInv, Undamaged
    <3> QED BY <3>1, ErrorsStay DEF IndInv
  <2>2. CASE Call(t) \/ QuietAction(t)
      BY <2>1, <2>2, CallQuiet, QuietActions DEF Fat0
  <2>3. CASE Alloc(t) \/ AllocFirst(t)
      BY <2>1, <2>3, AllocatesOne
  <2>4. CASE FreeWhole(t) \/ FreeTail(t) \/ FreeStep(t) \/ FreeDone(t)
      BY <2>1, <2>4, FreeingSteps
  <2> QED BY <2>1, <2>2, <2>3, <2>4, StepKinds
<1> QED BY <1>1, ChainsSound, PTL DEF Spec, LinksNotOverwritten

----------------------------------------------------------------------------
(* The count of free clusters *)

\* While clusters are being freed, freed_count is what fsi_free_count lacks.
CountInv ==
    /\ freeCount \in Nat
    /\ \A t \in Thread : op[t].pc # "freeing" => op[t].freed = 0
    /\ fsiLock = NoThread => freeCount = Cardinality(FreeClusters)
    /\ \A t \in Thread : op[t].pc = "freeing" =>
          freeCount + op[t].freed = Cardinality(FreeClusters)

\* With the invariant of the chains: the count is kept when it was valid at
\* mount and the device works.
CountedInv == IndInv /\ (Undamaged => CountInv)

\* The set of free clusters is finite.
LEMMA FreeFinite ==
    /\ IsFiniteSet(FreeClusters) /\ Cardinality(FreeClusters) \in Nat
    /\ Cardinality(FreeClusters) = 0 <=> FreeClusters = {}
<1>1. IsFiniteSet(Cluster)
    BY ChainAssumption, FS_Interval DEF ChainAssumption, Cluster, FAT32_CLUSTER_MIN, MaxCluster
<1>2. IsFiniteSet(FreeClusters)
  <2>1. FreeClusters \subseteq Cluster
      BY DEF FreeClusters
  <2> QED BY <1>1, <2>1, FS_Subset
<1> QED BY <1>2, FS_CardinalityType, FS_EmptySet

\* A step outside fat32_free_clusters that leaves FAT and count alone
LEMMA CountQuiet ==
    ASSUME CtlInv, CountInv, NEW t \in Thread, UNCHANGED <<fat, freeCount, fsiLock>>, NotFreeing(t)
    PROVE  CountInv'
<1>1. FreeClusters' = FreeClusters
    BY DEF FreeClusters, Fat0
<1> QED BY <1>1 DEF CountInv, NotFreeing

\* Every step counts right.
LEMMA CountStep ==
    ASSUME CtlInv, SoundInv, CountInv, Undamaged, Undamaged', NEW t \in Thread, Step(t)
    PROVE  CountInv'
<1>0. IsFiniteSet(FreeClusters) /\ Cardinality(FreeClusters) \in Nat
    BY FreeFinite
<1>1. \A u \in Thread : op[u].freed \in Nat
    BY OpFacts
<1>2. \A u \in Thread \ {t} : fsiLock \in {NoThread, t} => op[u].pc # "freeing"
    BY StateTypes DEF CtlInv, LockInv
<1>3. CASE QuietAction(t)
    BY <1>3, QuietActions, CountQuiet
<1>4. CASE Alloc(t) \/ AllocFirst(t)
  <2>1. PICK c \in FreeClusters : FreeClusters' = FreeClusters \ {c}
      BY <1>4, AllocatesOne
  <2>2. Cardinality(FreeClusters') = Cardinality(FreeClusters) - 1
      BY <1>0, <2>1, FS_RemoveElement
  <2>3. CountUsable /\ freeCount' = freeCount - 1 /\ fsiLock = NoThread /\ NotFreeing(t)
      BY <1>4, AllocatesOne
  <2>4. freeCount' \in Nat /\ freeCount' = Cardinality(FreeClusters')
      BY <1>0, <2>2, <2>3 DEF CountInv, CountUsable
  <2>5. \A u \in Thread : op'[u].pc # "freeing" /\ op'[u].freed = 0
      BY <1>2, <2>3 DEF CountInv, NotFreeing
  <2> QED BY <2>4, <2>5 DEF CountInv
<1>5. CASE FreeWhole(t) \/ FreeTail(t) \/ FreeStep(t) \/ FreeDone(t)
  <2>1. \A u \in Thread \ {t} : op'[u] = op[u]
      BY <1>5, FreeingSteps
  <2>2. CASE /\ FreeClusters' = FreeClusters /\ freeCount' = freeCount
             /\ op[t].pc = "free" /\ fsiLock = NoThread
             /\ \/ op'[t].pc = "freeing" /\ op'[t].freed = op[t].freed /\ fsiLock' = t
                \/ op'[t].pc = "idle" /\ op'[t].freed = 0 /\ fsiLock' = NoThread
    <3>1. op[t].freed = 0 /\ freeCount = Cardinality(FreeClusters) /\ freeCount \in Nat
        BY <2>2 DEF CountInv
    <3>2. \A u \in Thread \ {t} : op'[u].pc # "freeing" /\ op'[u].freed = 0
        BY <1>2, <2>1, <2>2 DEF CountInv
    <3> QED BY <2>2, <3>1, <3>2 DEF CountInv
  <2>3. CASE /\ freeCount' = freeCount
             /\ \E c \in Cluster \ FreeClusters : FreeClusters' = FreeClusters \cup {c}
             /\ op[t].pc = "freeing" /\ op'[t].pc = "freeing"
             /\ op'[t].freed = op[t].freed + 1 /\ fsiLock' = fsiLock
    <3>1. fsiLock = t /\ t # NoThread
        BY <2>3, StateTypes DEF CtlInv, LockInv
    <3>2. Cardinality(FreeClusters') = Cardinality(FreeClusters) + 1
        BY <1>0, <2>3, FS_AddElement
    <3>3. freeCount + op[t].freed = Cardinality(FreeClusters) /\ freeCount \in Nat
        BY <2>3 DEF CountInv
    <3>4. freeCount' + op'[t].freed = Cardinality(FreeClusters')
        BY <1>0, <1>1, <2>3, <3>2, <3>3
    <3>5. \A u \in Thread \ {t} : op'[u].pc # "freeing" /\ op'[u].freed = 0
        BY <1>2, <2>1, <3>1 DEF CountInv
    <3> QED BY <2>3, <3>1, <3>3, <3>4, <3>5 DEF CountInv
  <2>4. CASE /\ FreeClusters' = FreeClusters
             /\ freeCount' = IF freeCount = UnknownCount THEN freeCount
                             ELSE freeCount + op[t].freed
             /\ op[t].pc = "freeing" /\ op'[t].pc = "idle" /\ op'[t].freed = 0
             /\ fsiLock' = NoThread
    <3>1. fsiLock = t
        BY <2>4 DEF CtlInv, LockInv
    <3>2. freeCount + op[t].freed = Cardinality(FreeClusters) /\ freeCount \in Nat
        BY <2>4 DEF CountInv
    <3>3. freeCount' \in Nat /\ freeCount' = Cardinality(FreeClusters')
        BY <1>0, <2>4, <3>2 DEF UnknownCount
    <3>4. \A u \in Thread \ {t} : op'[u].pc # "freeing" /\ op'[u].freed = 0
        BY <1>2, <2>1, <3>1 DEF CountInv
    <3> QED BY <2>4, <3>3, <3>4 DEF CountInv
  <2> QED BY <1>5, <2>2, <2>3, <2>4, FreeingSteps
<1> QED BY <1>3, <1>4, <1>5, StepKinds

\* The count with the chains, from mount on
LEMMA CountedAlways ==
    ASSUME DisjointLayout, FsInfoValid
    PROVE  Spec => []CountedInv
<1>1. Init => CountedInv
  <2> SUFFICES ASSUME Init PROVE CountInv
      BY InitInd DEF CountedInv
  <2>1. \A c \in Cluster : Fat0[c] = Entry0(c)
      BY ConstantFacts DEF Init, Fat0
  <2>2. FreeClusters = {c \in Cluster : Entry0(c) = FAT32_CLUSTER_FREE}
      BY <2>1 DEF FreeClusters
  <2>3. freeCount = Cardinality(FreeClusters)
      BY <2>2 DEF Init
  <2>4. \A t \in Thread : op[t].pc = "idle" /\ op[t].freed = 0
      BY DEF Init, Idle
  <2> QED BY <2>3, <2>4, FreeFinite DEF CountInv
<1>2. CountedInv /\ [Next]_vars => CountedInv'
  <2> SUFFICES ASSUME CountedInv, [Next]_vars, Undamaged' PROVE CountInv'
      BY NextInd DEF CountedInv
  <2>1. CASE UNCHANGED vars
    <3>1. CountInv
        BY <2>1 DEF CountedInv, vars, Undamaged
    <3>2. FreeClusters' = FreeClusters
        BY <2>1 DEF vars, FreeClusters, Fat0
    <3> QED BY <2>1, <3>1, <3>2 DEF vars, CountInv
  <2>2. ASSUME NEW t \in Thread, Step(t) \/ Call(t) PROVE CountInv'
    <3>1. CtlInv
        BY DEF CountedInv, IndInv
    <3>2. Undamaged /\ SoundInv /\ CountInv
        BY <2>2, <3>1, ErrorsStay DEF CountedInv, IndInv
    <3> QED BY <2>2, <3>1, <3>2, CountStep, CallQuiet, CountQuiet
  <2> QED BY <2>1, <2>2 DEF Next
<1> QED BY <1>1, <1>2, PTL DEF Spec

\* fsi_free_count is the number of free clusters whenever fsi_lock is free, if
\* the FSInfo sector was valid at mount and while the device works.
THEOREM CountExact ==
    ASSUME DisjointLayout
    PROVE  Spec => []FreeCountExact
<1>1. CASE FsInfoValid
  <2>1. CountedInv => FreeCountExact
      BY DEF CountedInv, CountInv, FreeCountExact
  <2> QED BY <1>1, <2>1, CountedAlways, PTL
<1>2. CASE ~FsInfoValid
  <2>1. IndInv => FreeCountExact
      BY <1>2 DEF FreeCountExact
  <2> QED BY <2>1, ChainsSound, PTL
<1> QED BY <1>1, <1>2

\* fat32_allocate_cluster returns ENOSPC only when no cluster is free, if the
\* FSInfo sector was valid at mount and while the device works.
THEOREM EnospcOnlyWhenFull ==
    ASSUME DisjointLayout, FsInfoValid
    PROVE  Spec => EnospcMeansFull
<1> DEFINE Full == \A t \in Thread :
                     /\ Undamaged
                     /\ op[t].pc \in {"first", "alloc"} /\ op'[t].pc = "idle"
                     /\ op'[t].res = "ENOSPC"
                     => FreeClusters = {}
<1>1. CountedInv /\ [Next]_vars => [Full]_vars
  <2> SUFFICES ASSUME CountedInv, NEW u \in Thread, Step(u) \/ Call(u), Undamaged, NEW t \in Thread,
                      op[t].pc \in {"first", "alloc"}, op'[t].pc = "idle",
                      op'[t].res = "ENOSPC"
               PROVE  FreeClusters = {}
      BY DEF Next
  <2>1. CtlInv /\ SoundInv /\ CountInv
      BY DEF CountedInv, IndInv
  <2>2. TypeOK /\ OpInv /\ LockInv
      BY <2>1 DEF CtlInv
  <2>3. t = u
    <3>1. Step(u) => \A w \in Thread \ {u} : op'[w] = op[w]
        BY <2>2, StepCtl DEF CtlStep
    <3>2. Call(u) => \A w \in Thread \ {u} : op'[w] = op[w]
        BY <2>1, CallCtl DEF CtlCall
    <3> QED BY <3>1, <3>2
  <2>4. Step(t)
      BY <2>1, <2>3, CallCtl
  <2>5. Alloc(t) \/ AllocFirst(t) \/ AllocFails(t)
      BY <2>4 DEF Step, Seek, Walk, WalkError, WalkEnd, WalkEndError, ReadData, WriteData, ScanData,
         DataError, Peek, FreeWhole, FreeTail, FreeTailError, FreeStep, FreeFails, FreeDone
  <2>6. ~Alloc(t)
    <3> SUFFICES ASSUME Alloc(t) PROVE FALSE
        OBVIOUS
    <3>1. PICK c \in Cluster : MoveTo(t, c, op[t].idx + 1)
        BY DEF Alloc
    <3>2. op[t].idx + 1 \in Nat
        BY <2>1, OpFacts
    <3>3. \/ op'[t] = Idle("ok")
          \/ op'[t].pc = IF op[t].idx + 1 < op[t].goal THEN "walk" ELSE Arrived(op[t].kind)
        BY <2>2, <3>1, <3>2, MoveToOp
    <3> QED BY <3>3 DEF Idle, Arrived
  <2>7. ~AllocFirst(t)
      BY <2>1, GoesOnNotFreeing, StateTypes, OpFacts DEF AllocFirst, Go, Op
  <2>8. ~Finish(t, "EIO")
      BY <2>1, Returned
  <2>9. (~CountUsable \/ FreeClusters = {}) /\ fsiLock = NoThread
      BY <2>5, <2>6, <2>7, <2>8 DEF AllocFails, AllocateENOSPC
  <2>10. freeCount = Cardinality(FreeClusters) /\ freeCount \in Nat
      BY <2>1, <2>9 DEF CountInv
  <2>11. ~CountUsable => freeCount = 0
      BY <2>10 DEF CountUsable, UnknownCount
  <2> QED BY <2>9, <2>10, <2>11, FreeFinite
<1> QED BY <1>1, CountedAlways, PTL DEF Spec, EnospcMeansFull

----------------------------------------------------------------------------
(* The FAT copies *)

FatCopies == [Copy -> [Cluster -> Entry]]

\* The clusters whose entry is not the same in every copy
Differ(f) == {c \in Cluster : \E k \in Copy : f[k][c] # f[0][c]}

\* A write that stops at copy k makes the copies differ at c at most; one that
\* reaches every copy makes them agree at c.
LEMMA WriteFatDiffer ==
    ASSUME NEW f \in FatCopies, NEW c \in Cluster, NEW val \in Entry, NEW k \in 0 .. NumFats
    PROVE  /\ WriteFat(f, c, val, k) \in FatCopies
           /\ Differ(WriteFat(f, c, val, k)) \subseteq Differ(f) \cup {c}
           /\ k = NumFats => Differ(WriteFat(f, c, val, k)) \subseteq Differ(f) \ {c}
<1> DEFINE g == WriteFat(f, c, val, k)
<1>1. g \in FatCopies
    BY WriteFatType DEF FatCopies
<1>2. ASSUME NEW i \in Copy, NEW x \in Cluster
      PROVE  /\ x # c => g[i][x] = f[i][x]
             /\ k = NumFats => g[i][c] = val
    BY DEF WriteFat, Copy, FatCopies
<1> HIDE DEF g
<1>3. Differ(g) \subseteq Differ(f) \cup {c}
    BY <1>2, ConstantFacts DEF Differ
<1>4. k = NumFats => c \notin Differ(g)
    BY <1>2, ConstantFacts DEF Differ
<1> QED BY <1>1, <1>3, <1>4 DEF g

\* A set that gains one element at most grows by one at most.
LEMMA GrowsByOne ==
    ASSUME NEW S, NEW T, NEW c, IsFiniteSet(S), T \subseteq S \cup {c}
    PROVE  IsFiniteSet(T) /\ Cardinality(T) <= Cardinality(S) + 1
<1>1. /\ IsFiniteSet(S \cup {c}) /\ Cardinality(S) \in Nat
      /\ Cardinality(S \cup {c}) \in {Cardinality(S), Cardinality(S) + 1}
    BY FS_AddElement, FS_CardinalityType
<1>2. /\ IsFiniteSet(T) /\ Cardinality(T) \in Nat /\ Cardinality(T) <= Cardinality(S \cup {c})
    BY <1>1, FS_Subset, FS_CardinalityType
<1> QED BY <1>1, <1>2

\* The number of entries at which the copies f differ
LEMMA DifferFinite ==
    ASSUME NEW f
    PROVE  IsFiniteSet(Differ(f)) /\ Cardinality(Differ(f)) \in Nat
<1>1. IsFiniteSet(Cluster)
    BY ChainAssumption, FS_Interval DEF ChainAssumption, Cluster, FAT32_CLUSTER_MIN, MaxCluster
<1>2. IsFiniteSet(Differ(f))
  <2>1. Differ(f) \subseteq Cluster
      BY DEF Differ
  <2> QED BY <1>1, <2>1, FS_Subset
<1> QED BY <1>2, FS_CardinalityType

\* A write that reaches every copy
LEMMA WriteAll ==
    ASSUME NEW f \in FatCopies, NEW c \in Cluster, NEW val \in Entry
    PROVE  /\ WriteFat(f, c, val, NumFats) \in FatCopies
           /\ Cardinality(Differ(WriteFat(f, c, val, NumFats))) <= Cardinality(Differ(f))
<1> DEFINE g == WriteFat(f, c, val, NumFats)
<1>1. NumFats \in 0 .. NumFats
    BY ChainAssumption DEF ChainAssumption
<1>2. g \in FatCopies /\ Differ(g) \subseteq Differ(f)
    BY <1>1, WriteFatDiffer
<1>3. Cardinality(Differ(g)) <= Cardinality(Differ(f))
    BY <1>2, DifferFinite, FS_Subset
<1> QED BY <1>2, <1>3

\* A write that may stop half way
LEMMA WriteSome ==
    ASSUME NEW f \in FatCopies, NEW c \in Cluster, NEW val \in Entry, NEW k \in 0 .. NumFats
    PROVE  /\ WriteFat(f, c, val, k) \in FatCopies
           /\ Cardinality(Differ(WriteFat(f, c, val, k))) <= Cardinality(Differ(f)) + 1
    BY WriteFatDiffer, DifferFinite, GrowsByOne

\* Where an allocation that fails at the device stopped, it left one copy
\* different from another once per error at most.
LEMMA AllocateEIODiffer ==
    ASSUME CtlInv, NEW parent \in {0} \cup Cluster, AllocateEIO(parent),
           Cardinality(Differ(fat)) <= errors
    PROVE  Cardinality(Differ(fat')) <= errors'
<1> DEFINE N(f) == Cardinality(Differ(f))
           Marked(c) == WriteFat(fat, c, FAT32_CLUSTER_EOC, NumFats)
<1>0. /\ fat \in FatCopies /\ errors \in Nat /\ \A f : N(f) \in Nat
      /\ Copy \subseteq 0 .. NumFats /\ NumFats \in 0 .. NumFats
      /\ FAT32_CLUSTER_EOC \in Entry /\ FAT32_CLUSTER_FREE \in Entry /\ Cluster \subseteq Entry
    BY DifferFinite, ConstantFacts, ChainAssumption DEF CtlInv, TypeOK, FatCopies, Copy, ChainAssumption
<1>1. IOError => errors' = errors + 1
    BY DEF IOError, IOErrors
<1>2. CASE IOError /\ UNCHANGED fat
    BY <1>0, <1>1, <1>2
<1>3. ASSUME NEW c \in FreeClusters PROVE c \in Cluster /\ Marked(c) \in FatCopies /\ N(Marked(c)) <= N(fat)
  <2>1. c \in Cluster
      BY DEF FreeClusters
  <2> QED BY <1>0, <2>1, WriteAll
<1> HIDE DEF N
<1>4. ASSUME NEW c \in FreeClusters, NEW k \in Copy, IOError,
             fat' = WriteFat(fat, c, FAT32_CLUSTER_EOC, k)
      PROVE  N(fat') <= errors'
  <2>1. N(fat') <= N(fat) + 1
    <3>1. k \in 0 .. NumFats /\ c \in Cluster
        BY <1>0, <1>3
    <3> QED BY <1>0, <1>4, <3>1, WriteSome DEF N
  <2> QED BY <1>0, <1>1, <1>4, <2>1 DEF N
<1>5. ASSUME NEW c \in FreeClusters, NEW k \in Copy, NEW j \in 0 .. NumFats, parent # 0,
             IOErrors(IF j < NumFats THEN 2 ELSE 1),
             fat' = WriteFat(WriteFat(Marked(c), parent, c, k), c, FAT32_CLUSTER_FREE, j)
      PROVE  N(fat') <= errors'
  <2> DEFINE m == Marked(c)
             l == WriteFat(m, parent, c, k)
  <2>1. m \in FatCopies /\ N(m) <= N(fat) /\ c \in Cluster
      BY <1>3
  <2>2. parent \in Cluster /\ c \in Entry /\ k \in 0 .. NumFats
      BY <1>0, <1>5, <2>1
  <2> HIDE DEF m
  <2>3. l \in FatCopies /\ N(l) <= N(m) + 1
      BY <2>1, <2>2, WriteSome DEF N
  <2>4. fat' = WriteFat(l, c, FAT32_CLUSTER_FREE, j)
      BY <1>5 DEF m
  <2> HIDE DEF l
  <2>5. CASE j < NumFats
    <3>1. N(fat') <= N(l) + 1
        BY <1>0, <2>1, <2>3, <2>4, WriteSome DEF N
    <3>2. errors' = errors + 2
        BY <1>5, <2>5 DEF IOErrors
    <3> QED BY <1>0, <2>1, <2>3, <3>1, <3>2 DEF N
  <2>6. CASE ~(j < NumFats)
    <3>1. j = NumFats
        BY <2>6, ChainAssumption DEF ChainAssumption
    <3>2. N(fat') <= N(l)
        BY <1>0, <2>1, <2>3, <2>4, <3>1, WriteAll DEF N
    <3>3. errors' = errors + 1
        BY <1>5, <2>6 DEF IOErrors
    <3> QED BY <1>0, <2>1, <2>3, <3>2, <3>3 DEF N
  <2> QED BY <2>5, <2>6
<1>6. ASSUME NEW c \in FreeClusters, IOError,
             fat' = IF parent = 0 THEN Marked(c) ELSE WriteFat(Marked(c), parent, c, NumFats)
      PROVE  N(fat') <= errors'
  <2> DEFINE m == Marked(c)
  <2>1. m \in FatCopies /\ N(m) <= N(fat) /\ c \in Entry
      BY <1>0, <1>3
  <2>2. fat' = IF parent = 0 THEN m ELSE WriteFat(m, parent, c, NumFats)
      BY <1>6
  <2> HIDE DEF m
  <2>3. N(fat') <= N(m)
    <3>1. CASE parent = 0
        BY <1>0, <2>2, <3>1 DEF N
    <3>2. CASE parent # 0
      <4>1. parent \in Cluster
          BY <3>2
      <4> QED BY <2>1, <2>2, <3>2, <4>1, WriteAll DEF N
    <3> QED BY <3>1, <3>2
  <2> QED BY <1>0, <1>1, <1>6, <2>1, <2>3 DEF N
<1>7. N(fat') <= errors'
    BY <1>2, <1>4, <1>5, <1>6 DEF AllocateEIO, N
<1> QED BY <1>7 DEF N

\* The copies differ in as many entries as there were device errors, at most.
DiffInv == CtlInv /\ Cardinality(Differ(fat)) <= errors

\* A step keeps it so.
LEMMA StepDiffer ==
    ASSUME CtlInv, Cardinality(Differ(fat)) <= errors, NEW t \in Thread, Step(t)
    PROVE  Cardinality(Differ(fat')) <= errors'
<1> DEFINE N(f) == Cardinality(Differ(f))
           c == op[t].cur
<1> SUFFICES N(fat') <= errors'
    OBVIOUS
<1>0. /\ fat \in FatCopies /\ errors \in Nat /\ \A f : N(f) \in Nat
      /\ Copy \subseteq 0 .. NumFats
      /\ FAT32_CLUSTER_EOC \in Entry /\ FAT32_CLUSTER_FREE \in Entry /\ Cluster \subseteq Entry
      /\ N(fat) <= errors
    BY DifferFinite, ConstantFacts, ChainAssumption DEF CtlInv, TypeOK, FatCopies, Copy, ChainAssumption
<1>1. IOError => errors' = errors + 1
    BY DEF IOError, IOErrors
<1> HIDE DEF N
<1>2. fat' = fat /\ (IOError \/ errors' = errors) => N(fat') <= errors'
  <2>1. fat' = fat => N(fat') = N(fat)
      BY DEF N
  <2> QED BY <1>0, <1>1, <2>1
<1>3. ASSUME NEW x \in Cluster, NEW val \in Entry, fat' = WriteFat(fat, x, val, NumFats), errors' = errors
      PROVE  N(fat') <= errors'
  <2>1. N(fat') <= N(fat)
      BY <1>0, <1>3, WriteAll DEF N
  <2> QED BY <1>0, <1>3, <2>1
<1>4. ASSUME NEW x \in Cluster, NEW val \in Entry, NEW k \in Copy, fat' = WriteFat(fat, x, val, k), IOError
      PROVE  N(fat') <= errors'
  <2>1. N(fat') <= N(fat) + 1
      BY <1>0, <1>4, WriteSome DEF N
  <2> QED BY <1>0, <1>1, <1>4, <2>1
<1>5. ASSUME NEW parent \in {0} \cup Cluster, NEW x \in Cluster, AllocateOk(parent, x)
      PROVE  N(fat') <= errors'
  <2> DEFINE m == WriteFat(fat, x, FAT32_CLUSTER_EOC, NumFats)
  <2>1. m \in FatCopies /\ N(m) <= N(fat) /\ x \in Entry
      BY <1>0, WriteAll DEF N
  <2>2. errors' = errors /\ fat' = IF parent = 0 THEN m ELSE WriteFat(m, parent, x, NumFats)
      BY <1>5 DEF AllocateOk
  <2> HIDE DEF m
  <2>3. CASE parent = 0
      BY <1>0, <2>1, <2>2, <2>3
  <2>4. CASE parent # 0
    <3>1. parent \in Cluster
        BY <2>4
    <3>2. N(fat') <= N(m)
        BY <2>1, <2>2, <2>4, <3>1, WriteAll DEF N
    <3> QED BY <1>0, <2>1, <2>2, <3>2
  <2> QED BY <2>3, <2>4
<1>6. CASE Seek(t) \/ Walk(t) \/ WalkError(t)
    BY <1>2, <1>6 DEF Seek, SeekFrom, Walk, WalkError, fsVars
<1>7. CASE WalkEnd(t) \/ WalkEndError(t) \/ Peek(t)
    BY <1>2, <1>7 DEF WalkEnd, WalkEndError, Peek, fsVars
<1>8. CASE ReadData(t) \/ WriteData(t) \/ ScanData(t) \/ DataError(t)
    BY <1>2, <1>8 DEF ReadData, WriteData, ScanData, DataError, fsVars
<1>9. CASE FreeWhole(t) \/ FreeDone(t)
    BY <1>2, <1>9 DEF FreeWhole, FreeDone, fsVars
<1>10. CASE Alloc(t) \/ AllocFirst(t)
  <2>1. Alloc(t) => c \in {0} \cup Cluster
      BY OpFacts DEF Alloc, HasCursor
  <2> QED BY <1>5, <1>10, <2>1 DEF Alloc, AllocFirst
<1>11. CASE AllocFails(t)
  <2>1. c \in {0} \cup Cluster
      BY <1>11, OpFacts DEF AllocFails, HasCursor
  <2>2. AllocateEIO(c) => N(fat') <= errors'
      BY <2>1, AllocateEIODiffer DEF N
  <2> QED BY <1>2, <1>11, <2>2 DEF AllocFails, AllocateENOSPC, fsVars
<1>12. CASE FreeTail(t) \/ FreeTailError(t)
  <2>1. c \in Cluster
      BY <1>12, OpFacts DEF FreeTail, FreeTailError, HasCursor
  <2> QED BY <1>0, <1>3, <1>4, <1>12, <2>1 DEF FreeTail, FreeTailError
<1>13. CASE FreeStep(t) \/ FreeFails(t)
    BY <1>0, <1>2, <1>3, <1>4, <1>13 DEF FreeStep, FreeFails
<1> QED BY <1>6, <1>7, <1>8, <1>9, <1>10, <1>11, <1>12, <1>13 DEF Step

\* It holds from the mount on, whatever the device does.
LEMMA DiffersAlways == Spec => []DiffInv
<1>1. Init => DiffInv
  <2> SUFFICES ASSUME Init PROVE DiffInv
      OBVIOUS
  <2>1. CtlInv
      BY InitCtl
  <2>2. Differ(fat) = {} /\ errors = 0
      BY ConstantFacts DEF Init, Differ
  <2> QED BY <2>1, <2>2, FS_EmptySet DEF DiffInv
<1>2. DiffInv /\ [Next]_vars => DiffInv'
  <2> SUFFICES ASSUME DiffInv, [Next]_vars PROVE DiffInv'
      OBVIOUS
  <2>1. CtlInv'
      BY NextCtl DEF DiffInv
  <2>2. Cardinality(Differ(fat')) <= errors'
    <3>1. CASE UNCHANGED vars
        BY <3>1 DEF DiffInv, vars
    <3>2. ASSUME NEW t \in Thread, Step(t) PROVE Cardinality(Differ(fat')) <= errors'
        BY <3>2, StepDiffer DEF DiffInv
    <3>3. ASSUME NEW t \in Thread, Call(t) PROVE Cardinality(Differ(fat')) <= errors'
      <4>1. UNCHANGED <<fat, errors>>
          BY <3>3 DEF Call, Read, Write, Scan, Truncate, TruncateToZero, WalkToEnd, fsVars
      <4> QED BY <4>1 DEF DiffInv
    <3> QED BY <3>1, <3>2, <3>3 DEF Next
  <2> QED BY <2>1, <2>2 DEF DiffInv, Differ
<1> QED BY <1>1, <1>2, PTL DEF Spec

\* However often the device fails, and wherever it fails in fat32_rmw_cluster,
\* fat32_allocate_cluster or fat32_free_clusters, the copies of the FAT differ
\* in no more entries than there were errors.
THEOREM CopiesAgree == Spec => []CopiesDifferByErrors
<1>1. DiffInv => CopiesDifferByErrors
    BY DEF DiffInv, CopiesDifferByErrors, Differ, Fat0
<1> QED BY <1>1, DiffersAlways, PTL
============================================================================
