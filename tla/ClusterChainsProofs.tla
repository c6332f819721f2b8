------------------------ MODULE ClusterChainsProofs ------------------------
(***************************************************************************)
(* Proofs of the safety properties of ClusterChains, for every volume,     *)
(* number of threads, vnodes and FAT copies, and cache size.               *)
(*                                                                         *)
(* The inductive invariant labels every cluster in use with the vnode it   *)
(* was allocated for and its place in that vnode's chain (the history      *)
(* variables owner and pos).  All of its parts are local: no part speaks   *)
(* of a whole chain.  Proved here is its part that holds whatever the      *)
(* device does, CtlInv.                                                    *)
(***************************************************************************)
EXTENDS ClusterChains, FiniteSetTheorems, TLAPS

\* The operations a thread can be in
ReadShape(o)  == o.kind = "read"  /\ o.v \in Reg /\ o.pc \in {"seek", "walk", "data"}
WriteShape(o) == o.kind = "write" /\ o.v \in Reg
                 /\ o.pc \in {"first", "seek", "walk", "alloc", "data"}
TruncShape(o) == o.kind = "trunc" /\ o.v \in Reg
                 /\ \/ o.pc \in {"first", "seek", "walk", "alloc", "peek"} /\ o.need > 0
                    \/ o.pc \in {"free", "freeing"}
ScanShape(o)  == o.kind = "scan"  /\ o.v \in Dir /\ o.pc \in {"seek", "walk", "data"}
GrowShape(o)  == o.kind = "grow"  /\ o.v \in Dir
                 /\ \/ o.pc = "end"
                    \/ o.pc \in {"walk", "alloc"} /\ o.idx < o.goal
StatShape(o)  == o.kind = "getattr" /\ o.v \in Dir /\ o.pc = "end"

Shape(o) == \/ o.pc = "idle" /\ o.kind = "none" /\ o.v = NoVnode
            \/ ReadShape(o) \/ WriteShape(o) \/ TruncShape(o)
            \/ ScanShape(o) \/ GrowShape(o) \/ StatShape(o)

\* The operation has a cluster of its chain in hand.
HasCursor(o) == o.pc \in {"walk", "alloc", "data", "peek", "end"}
                \/ (o.pc = "free" /\ o.need > 0)

\* Operations are well formed, whatever the device does.
OpInv ==
    \A t \in Thread :
        /\ Shape(op[t])
        /\ HasCursor(op[t]) => op[t].cur \in Cluster
        /\ op[t].pc \notin {"idle", "first"} => start[op[t].v] # 0
        /\ op[t].pc = "first" => start[op[t].v] = 0 /\ op[t].cur = 0

LockInv == \A t \in Thread : op[t].pc = "freeing" <=> fsiLock = t

\* An operation that holds fv_lock in update mode is alone on its vnode.
ExclusionInv ==
    \A t, u \in Thread :
        t # u /\ op[t].v = op[u].v /\ Exclusive(op[t].kind) => op[u].kind = "getattr"

\* A directory, and a file that is not empty, has a first cluster.
HasStart == /\ \A d \in Dir : start[d] # 0
            /\ \A v \in Reg : size[v] # 0 => start[v] # 0

\* The range a read or truncate has left
RangeInv(o) ==
    /\ o.kind = "read" =>
         /\ o.pc = "seek" => o.goal < size[o.v]
         /\ o.pc = "walk" => \/ o.idx < o.goal /\ o.goal < size[o.v]
                             \/ o.goal = 0 /\ o.idx + 1 < size[o.v]
         /\ o.pc = "data" => o.goal = 0 /\ o.idx < size[o.v]
    /\ o.kind = "trunc" =>
         /\ o.pc \in {"first", "seek", "walk", "alloc"} => o.goal = o.need - 1
         /\ o.pc \in {"walk", "alloc"} => o.idx < o.goal
         /\ o.pc = "peek" \/ (o.pc = "free" /\ o.need > 0) => o.idx = o.need - 1

\* A cluster has an owner exactly when it is in use.
OwnerInv == \A c \in Cluster : owner[c] = NoVnode <=> ~InUse(c)

\* A link leads to the next place of the same chain.
LinkInv == \A c \in Cluster : Fat0[c] \in Cluster =>
              owner[Fat0[c]] = owner[c] /\ pos[Fat0[c]] = pos[c] + 1

\* A place of a chain is taken by one cluster.
PlaceInv == \A b, c \in Cluster :
               owner[b] = owner[c] /\ owner[b] # NoVnode /\ pos[b] = pos[c] => b = c

\* The operation that is freeing clusters of v, from place op[t].need on
Cuts(t, v) == op[t].pc = "freeing" /\ op[t].v = v

\* The end of a chain is its last place; while a tail is being freed, the
\* last place kept is an end too.
EndInv == \A b, c \in Cluster :
             Fat0[b] = FAT32_CLUSTER_EOC /\ owner[c] = owner[b] =>
                \/ pos[c] <= pos[b]
                \/ \E t \in Thread : Cuts(t, owner[b]) /\ op[t].need = pos[b] + 1
                                     /\ pos[c] >= op[t].need

\* fv_cluster is the first place of the chain.
StartInv == \A v \in Vnode :
               /\ start[v] # 0 => /\ pos[start[v]] = 0
                                  /\ \/ owner[start[v]] = v
                                     \/ FreeingAll(v) /\ owner[start[v]] = NoVnode
               /\ start[v] = 0 => size[v] = 0 /\ \A c \in Cluster : owner[c] # v

\* A cached position is right, or about to be invalidated.
CacheInv == \A v \in Vnode : \A i \in Slot :
               LET e == cache[v][i]
               IN e.cluster # 0 =>
                    \/ owner[e.cluster] = v /\ pos[e.cluster] = e.index
                    \/ \E t \in Thread : Cuts(t, v) /\ op[t].need <= e.index

\* The chain of a file is as long as its size.
SizeInv == \A v \in Reg : \A c \in Cluster :
              owner[c] = v /\ Fat0[c] = FAT32_CLUSTER_EOC =>
                 \/ size[v] <= pos[c] + 1
                 \/ \E t \in Thread : Cuts(t, v)

\* Nothing leads to the cluster a freeing operation has in hand; what is left
\* of the part it frees lies from there on, and the part it keeps is there.
CutInv(t) ==
    LET o == op[t]
    IN o.pc = "freeing" =>
         /\ o.cur \in Cluster \cup {FAT32_CLUSTER_EOC}
         /\ o.cur \in Cluster => /\ owner[o.cur] = o.v /\ pos[o.cur] >= o.need
                                 /\ \A b \in Cluster : Fat0[b] # o.cur
         /\ \A c \in Cluster : owner[c] = o.v /\ pos[c] >= o.need =>
                                  o.cur \in Cluster /\ pos[c] >= pos[o.cur]
         /\ o.need > 0 => \E c \in Cluster : /\ owner[c] = o.v /\ pos[c] = o.need - 1
                                             /\ Fat0[c] = FAT32_CLUSTER_EOC
         /\ start[o.v] # 0

\* The cursor of an operation is where it says it is.
CursorInv(t) ==
    LET o == op[t]
    IN /\ HasCursor(o) => owner[o.cur] = o.v /\ pos[o.cur] = o.idx
       /\ o.pc = "alloc" => Fat0[o.cur] = FAT32_CLUSTER_EOC

SoundInv ==
    /\ OwnerInv /\ LinkInv /\ PlaceInv /\ EndInv /\ StartInv /\ CacheInv /\ SizeInv
    /\ NoLostCluster
    /\ NoFalseEIO
    /\ \A t \in Thread : CutInv(t) /\ CursorInv(t) /\ RangeInv(op[t])

\* The part that holds whatever the device does, and the whole invariant
CtlInv == TypeOK /\ OpInv /\ LockInv /\ ExclusionInv /\ HasStart

IndInv == CtlInv /\ (Undamaged => SoundInv)

----------------------------------------------------------------------------
(* Facts about the operators of the model *)

\* Cluster numbers, the marks of a FAT entry and the FAT copies
LEMMA ConstantFacts ==
    /\ 0 \in Copy
    /\ Cluster \subseteq Nat /\ Entry \subseteq Nat
    /\ 0 \notin Cluster
    /\ FAT32_CLUSTER_FREE \notin Cluster /\ FAT32_CLUSTER_FREE \in Entry
    /\ FAT32_CLUSTER_BAD \notin Cluster /\ FAT32_CLUSTER_BAD \in Entry
    /\ FAT32_CLUSTER_EOC \notin Cluster /\ FAT32_CLUSTER_EOC \in Entry
    /\ FAT32_CLUSTER_EOC # FAT32_CLUSTER_FREE /\ FAT32_CLUSTER_EOC # FAT32_CLUSTER_BAD
    /\ FAT32_CLUSTER_BAD # FAT32_CLUSTER_FREE /\ FAT32_CLUSTER_FREE = 0
    /\ Cluster \subseteq Entry
    BY ChainAssumption DEF ChainAssumption, Copy, Cluster, Entry, FAT32_CLUSTER_FREE,
       FAT32_CLUSTER_BAD, FAT32_CLUSTER_EOC, FAT32_CLUSTER_MIN, MaxCluster

\* fat32_rmw_cluster keeps the FAT copies well formed.
LEMMA WriteFatType ==
    ASSUME NEW f \in [Copy -> [Cluster -> Entry]], NEW c, NEW val \in Entry, NEW k
    PROVE  WriteFat(f, c, val, k) \in [Copy -> [Cluster -> Entry]]
    BY DEF WriteFat

\* When no read fails, fat32_rmw_cluster changes one entry of the first copy.
LEMMA WriteFatAll ==
    ASSUME NEW f \in [Copy -> [Cluster -> Entry]], NEW c \in Cluster, NEW val \in Entry
    PROVE  WriteFat(f, c, val, NumFats)[0] = [f[0] EXCEPT ![c] = val]
    BY ChainAssumption DEF WriteFat, Copy, ChainAssumption

CacheEntry == [index : Nat, cluster : {0} \cup Cluster]

\* fat32_vnode_update_cache keeps old entries and adds the new one.
LEMMA UpdateCacheEntries ==
    ASSUME NEW ca \in [Slot -> CacheEntry], NEW n \in Nat, NEW c \in Cluster
    PROVE  /\ UpdateCache(ca, n, c) \in [Slot -> CacheEntry]
           /\ \A i \in Slot : \/ UpdateCache(ca, n, c)[i] = [index |-> n, cluster |-> c]
                              \/ \E j \in Slot : UpdateCache(ca, n, c)[i] = ca[j]
<1> DEFINE new == [index |-> n, cluster |-> c]
           R == UpdateCache(ca, n, c)
<1>1. new \in CacheEntry
    BY DEF CacheEntry
<1>2. ASSUME NEW i \in Slot
      PROVE  R[i] = new \/ \E j \in Slot : R[i] = ca[j]
  <2>1. CASE i = CacheSize
      BY <2>1 DEF UpdateCache
  <2>2. CASE i # CacheSize
    <3>1. i + 1 \in Slot
        BY <2>2, ChainAssumption DEF Slot, ChainAssumption
    <3>2. R[i] = ca[i] \/ R[i] = ca[i + 1]
        BY <2>2 DEF UpdateCache
    <3> QED BY <3>1, <3>2
  <2> QED BY <2>1, <2>2
<1>3. R \in [Slot -> CacheEntry]
  <2>1. ASSUME NEW i \in Slot PROVE R[i] \in CacheEntry
      BY <1>1, <1>2
  <2>2. R = [i \in Slot |-> R[i]]
      BY DEF UpdateCache
  <2> QED BY <2>1, <2>2
<1> QED BY <1>2, <1>3

\* A type invariant keeps the operation records of the other threads.
LEMMA OpUpdate ==
    ASSUME TypeOK, NEW t \in Thread, NEW x \in Op, Go(t, x)
    PROVE  /\ op' \in [Thread -> Op]
           /\ op'[t] = x
           /\ \A u \in Thread \ {t} : op'[u] = op[u]
    BY DEF TypeOK, Go

\* A thread that has returned is in an idle operation.
LEMMA IdleIsOp ==
    ASSUME NEW r \in Result
    PROVE  Idle(r) \in Op
    BY ConstantFacts DEF Idle, Op, PC, Kind

----------------------------------------------------------------------------
(* Type correctness *)

\* A cursor that moves to a cluster keeps the types.
LEMMA MoveToType ==
    ASSUME TypeOK, NEW t \in Thread, op[t].v \in Vnode,
           NEW c \in Cluster, NEW i \in Nat, MoveTo(t, c, i)
    PROVE  op' \in [Thread -> Op] /\ cache' \in [Vnode -> [Slot -> CacheEntry]]
<1> USE DEF TypeOK
<1>0. cache \in [Vnode -> [Slot -> CacheEntry]]
    BY DEF CacheEntry
<1>1. CASE op[t].kind = "grow" /\ i = op[t].goal
    BY <1>0, <1>1, IdleIsOp, OpUpdate DEF MoveTo, Finish, Result
<1>2. CASE ~(op[t].kind = "grow" /\ i = op[t].goal)
  <2> DEFINE o == op[t]
             g == IF i < o.goal THEN o.goal ELSE 0
             p == IF i < o.goal THEN "walk" ELSE Arrived(o.kind)
             x == [o EXCEPT !.cur = c, !.idx = i, !.goal = g, !.pc = p]
  <2>0. x \in Op
    <3>1. o \in Op /\ g \in Nat
        BY DEF Op
    <3>2. p \in PC
        BY DEF PC, Arrived
    <3> HIDE DEF o, g, p
    <3> QED BY <3>1, <3>2, ConstantFacts DEF Op
  <2>1. op' \in [Thread -> Op]
      BY <1>2, <2>0, OpUpdate DEF MoveTo
  <2>2. cache' \in [Vnode -> [Slot -> CacheEntry]]
    <3>1. UpdateCache(cache[op[t].v], i, c) \in [Slot -> CacheEntry]
        BY <1>0, UpdateCacheEntries
    <3> QED BY <1>0, <1>2, <3>1 DEF MoveTo
  <2> QED BY <2>1, <2>2
<1> QED BY <1>1, <1>2

\* What fat32_allocate_cluster leaves on the disk
LEMMA AllocateOkType ==
    ASSUME TypeOK, NEW parent \in {0} \cup Cluster, NEW c \in Cluster, AllocateOk(parent, c)
    PROVE  /\ fat' \in [Copy -> [Cluster -> Entry]]
           /\ freeCount' \in Nat /\ nextFree' \in Nat /\ errors' = errors
<1>1. fat' \in [Copy -> [Cluster -> Entry]]
    BY ConstantFacts, WriteFatType DEF TypeOK, AllocateOk
<1>2. freeCount' \in Nat
    BY DEF TypeOK, AllocateOk, CountUsable
<1>3. nextFree' \in Nat
    BY ConstantFacts DEF AllocateOk, NextAfter, FAT32_CLUSTER_MIN
<1> QED BY <1>1, <1>2, <1>3 DEF AllocateOk

\* An allocation that fails at the device keeps the types of the FAT, and is
\* counted as an error.
LEMMA AllocateEIOType ==
    ASSUME TypeOK, NEW parent \in {0} \cup Cluster, AllocateEIO(parent)
    PROVE  /\ fat' \in [Copy -> [Cluster -> Entry]]
           /\ UNCHANGED <<freeCount, nextFree>> /\ errors' \in Nat /\ errors' # 0
<1> DEFINE FatType == [Copy -> [Cluster -> Entry]]
           Marked(c) == WriteFat(fat, c, FAT32_CLUSTER_EOC, NumFats)
<1>1. errors + 1 \in Nat /\ errors + 1 # 0 /\ errors + 2 \in Nat /\ errors + 2 # 0
    BY DEF TypeOK
<1>2. UNCHANGED <<freeCount, nextFree>>
    BY DEF AllocateEIO
<1>3. CASE IOError /\ UNCHANGED fat
    BY <1>1, <1>2, <1>3 DEF TypeOK, IOError, IOErrors
<1>4. ASSUME NEW c \in FreeClusters
      PROVE  c \in Entry /\ Marked(c) \in FatType
    BY ConstantFacts, WriteFatType DEF FreeClusters, TypeOK
<1>5. ASSUME NEW c \in FreeClusters, NEW k \in Copy, IOError,
             fat' = WriteFat(fat, c, FAT32_CLUSTER_EOC, k)
      PROVE  fat' \in FatType /\ errors' \in Nat /\ errors' # 0
    BY <1>1, <1>5, ConstantFacts, WriteFatType DEF TypeOK, IOError, IOErrors
<1>6. ASSUME NEW c \in FreeClusters, NEW k \in Copy, NEW j \in 0 .. NumFats,
             IOErrors(IF j < NumFats THEN 2 ELSE 1),
             fat' = WriteFat(WriteFat(Marked(c), parent, c, k), c, FAT32_CLUSTER_FREE, j)
      PROVE  fat' \in FatType /\ errors' \in Nat /\ errors' # 0
  <2>1. WriteFat(Marked(c), parent, c, k) \in FatType
      BY <1>4, WriteFatType
  <2>2. fat' \in FatType
      BY <1>6, <2>1, ConstantFacts, WriteFatType
  <2> QED BY <1>1, <1>6, <2>2 DEF IOErrors
<1>7. ASSUME NEW c \in FreeClusters, IOError,
             fat' = IF parent = 0 THEN Marked(c) ELSE WriteFat(Marked(c), parent, c, NumFats)
      PROVE  fat' \in FatType /\ errors' \in Nat /\ errors' # 0
  <2>1. WriteFat(Marked(c), parent, c, NumFats) \in FatType
      BY <1>4, WriteFatType
  <2>2. fat' \in FatType
      BY <1>4, <1>7, <2>1
  <2> QED BY <1>1, <1>7, <2>2 DEF IOError, IOErrors
<1> QED BY <1>2, <1>3, <1>5, <1>6, <1>7 DEF AllocateEIO

\* The operation record a call starts with
LEMMA BeginIsOp ==
    ASSUME NEW at \in PC, NEW k \in Kind, NEW v \in Vnode, NEW g \in Nat, NEW n \in Nat,
           NEW c \in {0} \cup Cluster
    PROVE  [pc |-> at, kind |-> k, v |-> v, goal |-> g, need |-> n, cur |-> c,
            idx |-> 0, freed |-> 0, res |-> "ok"] \in Op
    BY ConstantFacts DEF Op, Result

\* The changes of an operation record
LEMMA OpChanges ==
    ASSUME NEW o \in Op
    PROVE  /\ \A p \in PC : [o EXCEPT !.pc = p] \in Op
           /\ \A p \in PC, c \in {0} \cup Entry : [o EXCEPT !.pc = p, !.cur = c] \in Op
           /\ \A p \in PC, g \in Nat : [o EXCEPT !.pc = p, !.goal = g] \in Op
           /\ \A c \in Entry, i \in Nat : [o EXCEPT !.cur = c, !.idx = i] \in Op
           /\ \A c \in Entry, n \in Nat : [o EXCEPT !.cur = c, !.freed = n] \in Op
    BY DEF Op

\* fat32_truncate's last steps keep the types.
LEMMA TruncatedType ==
    ASSUME TypeOK, NEW t \in Thread, op[t].v \in Vnode, Truncated(t)
    PROVE  /\ op' \in [Thread -> Op]
           /\ start' \in [Vnode -> {0} \cup Cluster]
           /\ size' \in [Vnode -> Nat]
           /\ cache' \in [Vnode -> [Slot -> CacheEntry]]
<1>1. op[t].need \in Nat
    BY DEF TypeOK, Op
<1>2. cache \in [Vnode -> [Slot -> CacheEntry]]
    BY DEF TypeOK, CacheEntry
<1>3. EmptyCache \in [Slot -> CacheEntry]
    BY DEF EmptyCache, CacheEntry
<1>4. Invalidate(cache[op[t].v], op[t].need) \in [Slot -> CacheEntry]
  <2>1. ASSUME NEW e \in CacheEntry PROVE [e EXCEPT !.cluster = 0] \in CacheEntry
      BY DEF CacheEntry
  <2> QED BY <1>2, <2>1 DEF Invalidate
<1>5. cache' \in [Vnode -> [Slot -> CacheEntry]]
    BY <1>2, <1>3, <1>4 DEF Truncated
<1>6. op' \in [Thread -> Op]
    BY IdleIsOp, OpUpdate DEF Truncated, Finish, Result
<1>7. start' \in [Vnode -> {0} \cup Cluster] /\ size' \in [Vnode -> Nat]
    BY <1>1 DEF Truncated, SetSize, TypeOK
<1> QED BY <1>5, <1>6, <1>7

\* Every step of an operation keeps the types.
LEMMA StepType ==
    ASSUME CtlInv, NEW t \in Thread, Step(t)
    PROVE  TypeOK'
<1> DEFINE o == op[t]
<1>0. /\ TypeOK /\ OpInv
      /\ o \in Op /\ o.goal \in Nat /\ o.idx \in Nat /\ o.need \in Nat /\ o.freed \in Nat
      /\ o.cur \in {0} \cup Entry
      /\ cache \in [Vnode -> [Slot -> CacheEntry]]
    BY DEF CtlInv, TypeOK, Op, CacheEntry
<1>1. o.pc # "idle" => o.v \in Vnode
    BY <1>0 DEF OpInv, Shape, ReadShape, WriteShape, TruncShape, ScanShape,
                GrowShape, StatShape, Vnode
<1>2. HasCursor(o) => o.cur \in Cluster
    BY <1>0 DEF OpInv
<1>3. Fat0 \in [Cluster -> Entry]
    BY <1>0, ConstantFacts DEF TypeOK, Fat0
<1>4. \A r \in Result : Finish(t, r) => op' \in [Thread -> Op]
    BY <1>0, IdleIsOp, OpUpdate DEF Finish
<1>5. ASSUME NEW x \in Op, Go(t, x) PROVE op' \in [Thread -> Op]
    BY <1>0, <1>5, OpUpdate
<1>f. fat \in [Copy -> [Cluster -> Entry]]
    BY <1>0 DEF TypeOK
<1>e. IOError => errors' \in Nat
    BY <1>0 DEF IOError, IOErrors, TypeOK
<1>6. CASE Seek(t)
  <2>1. o.v \in Vnode /\ start[o.v] \in Cluster
      BY <1>0, <1>1, <1>6 DEF Seek, OpInv, TypeOK
  <2>2. \A i \in Candidates(cache[o.v], o.goal) :
            cache[o.v][i].cluster \in Cluster /\ cache[o.v][i].index \in Nat
      BY <1>0, <2>1 DEF Candidates, CacheEntry
  <2>3. \E c \in Cluster, i \in Nat : SeekFrom(t, c, i)
      BY <1>6, <2>1, <2>2 DEF Seek, IsBest
  <2> QED BY <1>0, <2>1, <2>3, MoveToType DEF SeekFrom, TypeOK, fsVars, ghostVars, CacheEntry
<1>7. CASE Walk(t)
  <2>1. o.v \in Vnode /\ o.cur \in Cluster
      BY <1>1, <1>2, <1>7 DEF Walk, HasCursor
  <2>2. op' \in [Thread -> Op] /\ cache' \in [Vnode -> [Slot -> CacheEntry]]
    <3>1. CASE Fat0[o.cur] \in Cluster
        BY <1>0, <1>7, <2>1, <3>1, ConstantFacts, MoveToType DEF Walk
    <3>2. CASE Fat0[o.cur] = FAT32_CLUSTER_EOC /\ Allocates(o.kind)
        BY <1>0, <1>5, <1>7, <3>2, ConstantFacts, OpChanges DEF Walk, PC
    <3>3. CASE Fat0[o.cur] = FAT32_CLUSTER_EOC /\ ~Allocates(o.kind)
        BY <1>0, <1>4, <1>7, <3>3, ConstantFacts DEF Walk, NextClusterFailed, Result
    <3>4. CASE Fat0[o.cur] \in {FAT32_CLUSTER_FREE, FAT32_CLUSTER_BAD}
        BY <1>0, <1>4, <1>7, <3>4, ConstantFacts DEF Walk, NextClusterFailed, Result
    <3> QED BY <1>3, <2>1, <3>1, <3>2, <3>3, <3>4 DEF Entry
  <2> QED BY <1>0, <1>7, <2>2 DEF Walk, TypeOK, fsVars, ghostVars, CacheEntry
<1>8. CASE WalkError(t)
    BY <1>0, <1>4, <1>e, <1>8 DEF WalkError, NextClusterFailed, Result, TypeOK, fsVars, ghostVars
<1>9. CASE Alloc(t)
  <2>1. o.v \in Vnode /\ o.cur \in Cluster
      BY <1>1, <1>2, <1>9 DEF Alloc, HasCursor
  <2>2. PICK c \in Cluster : /\ AllocateOk(o.cur, c) /\ MoveTo(t, c, o.idx + 1)
                             /\ owner' = [owner EXCEPT ![c] = o.v]
                             /\ pos' = [pos EXCEPT ![c] = o.idx + 1]
      BY <1>9 DEF Alloc
  <2>3. op' \in [Thread -> Op] /\ cache' \in [Vnode -> [Slot -> CacheEntry]]
      BY <1>0, <2>1, <2>2, MoveToType
  <2>4. owner' \in [Cluster -> Vnode \cup {NoVnode}] /\ pos' \in [Cluster -> Nat]
      BY <1>0, <2>1, <2>2 DEF TypeOK
  <2> QED BY <1>0, <1>9, <2>1, <2>2, <2>3, <2>4, AllocateOkType DEF Alloc, TypeOK, CacheEntry
<1>10. CASE AllocFirst(t)
  <2>1. o.v \in Vnode
      BY <1>1, <1>10 DEF AllocFirst
  <2>2. PICK c \in Cluster : /\ AllocateOk(0, c)
                             /\ start' = [start EXCEPT ![o.v] = c]
                             /\ owner' = [owner EXCEPT ![c] = o.v]
                             /\ pos' = [pos EXCEPT ![c] = 0]
      BY <1>10 DEF AllocFirst
  <2>3. op' \in [Thread -> Op]
      BY <1>0, <1>5, <1>10, OpChanges DEF AllocFirst, PC
  <2> QED BY <1>0, <1>10, <2>1, <2>2, <2>3, AllocateOkType DEF AllocFirst, TypeOK
<1>11. CASE AllocFails(t)
  <2>1. CASE AllocateENOSPC /\ Finish(t, "ENOSPC")
      BY <1>0, <1>4, <1>11, <2>1 DEF AllocFails, AllocateENOSPC, TypeOK, Result, fsVars, ghostVars
  <2>2. CASE AllocateEIO(o.cur) /\ Finish(t, "EIO")
    <3>1. o.cur \in {0} \cup Cluster
        BY <1>0, <1>2, <1>11 DEF AllocFails, HasCursor, OpInv
    <3> QED BY <1>0, <1>4, <1>11, <2>2, <3>1, AllocateEIOType
            DEF AllocFails, TypeOK, Result, ghostVars
  <2> QED BY <1>11, <2>1, <2>2 DEF AllocFails
<1>12. ASSUME EndOfWalk(t) PROVE op' \in [Thread -> Op]
  <2>1. CASE \E n \in 1 .. MaxSize : Go(t, [o EXCEPT !.pc = "walk", !.goal = o.idx + n])
    <3>1. PICK n \in 1 .. MaxSize : Go(t, [o EXCEPT !.pc = "walk", !.goal = o.idx + n])
        BY <2>1
    <3>2. n \in Nat /\ o.idx + n \in Nat
        BY <1>0
    <3>3. [o EXCEPT !.pc = "walk", !.goal = o.idx + n] \in Op
        BY <1>0, <3>2, OpChanges DEF PC
    <3> QED BY <1>5, <3>1, <3>3
  <2> QED BY <1>4, <1>12, <2>1 DEF EndOfWalk, Result
<1>13. CASE WalkEnd(t)
  <2>1. o.cur \in Cluster /\ o.idx + 1 \in Nat
      BY <1>0, <1>2, <1>13 DEF WalkEnd, HasCursor
  <2>2. op' \in [Thread -> Op]
    <3>1. CASE Go(t, [o EXCEPT !.cur = Fat0[o.cur], !.idx = o.idx + 1])
        BY <1>0, <1>3, <1>5, <2>1, <3>1, OpChanges
    <3> QED BY <1>4, <1>12, <1>13, <3>1 DEF WalkEnd, Result
  <2> QED BY <1>0, <1>13, <2>2 DEF WalkEnd, TypeOK, fsVars, ghostVars
<1>14. CASE WalkEndError(t)
    BY <1>0, <1>4, <1>e, <1>12, <1>14 DEF WalkEndError, Result, TypeOK, fsVars, ghostVars
<1>15. ASSUME NEW more, TransferNext(t, more), o.pc = "data"
       PROVE  op' \in [Thread -> Op] /\ cache' \in [Vnode -> [Slot -> CacheEntry]]
  <2>1. o.v \in Vnode /\ o.cur \in Cluster
      BY <1>1, <1>2, <1>15 DEF HasCursor
  <2>2. UpdateCache(cache[o.v], o.idx, o.cur) \in [Slot -> CacheEntry]
      BY <1>0, <2>1, UpdateCacheEntries
  <2>3. CASE Go(t, [o EXCEPT !.pc = "walk"]) /\ UNCHANGED cache
      BY <1>0, <1>5, <2>3, OpChanges DEF PC
  <2> QED BY <1>0, <1>4, <1>15, <2>1, <2>2, <2>3 DEF TransferNext, Result
<1>16. CASE ReadData(t)
    BY <1>0, <1>15, <1>16 DEF ReadData, TypeOK, fsVars, ghostVars, CacheEntry
<1>17. CASE WriteData(t)
  <2>1. size' \in [Vnode -> Nat]
      BY <1>0, <1>1, <1>17 DEF WriteData, TypeOK
  <2> QED BY <1>0, <1>15, <1>17, <2>1 DEF WriteData, TypeOK, fsVars, ghostVars, CacheEntry
<1>18. CASE ScanData(t)
  <2>1. op' \in [Thread -> Op]
      BY <1>0, <1>4, <1>5, <1>18, OpChanges DEF ScanData, Result, PC
  <2> QED BY <1>0, <1>18, <2>1 DEF ScanData, TypeOK, fsVars, ghostVars
<1>19. CASE DataError(t)
    BY <1>0, <1>4, <1>e, <1>19 DEF DataError, Result, TypeOK, fsVars, ghostVars
<1>20. CASE Peek(t)
  <2>1. op' \in [Thread -> Op]
      BY <1>0, <1>4, <1>5, <1>20, OpChanges DEF Peek, Result, PC
  <2>2. size' \in [Vnode -> Nat] /\ errors' \in Nat
      BY <1>0, <1>1, <1>e, <1>20 DEF Peek, SetSize, TypeOK
  <2> QED BY <1>0, <1>20, <2>1, <2>2 DEF Peek, TypeOK, fsVars, ghostVars
<1>21. CASE FreeWhole(t)
  <2>1. start[o.v] \in {0} \cup Entry
      BY <1>0, <1>1, <1>21, ConstantFacts DEF FreeWhole, TypeOK
  <2>2. op' \in [Thread -> Op]
      BY <1>0, <1>5, <1>21, <2>1, OpChanges DEF FreeWhole, PC
  <2> QED BY <1>0, <1>21, <2>2 DEF FreeWhole, TypeOK, fsVars, ghostVars
<1>22. CASE FreeTail(t)
  <2>1. o.v \in Vnode /\ o.cur \in Cluster /\ Fat0[o.cur] \in Entry
      BY <1>1, <1>2, <1>3, <1>22 DEF FreeTail, HasCursor
  <2>2. fat' \in [Copy -> [Cluster -> Entry]]
      BY <1>0, <1>22, ConstantFacts, WriteFatType DEF FreeTail, TypeOK
  <2>3. CASE Truncated(t) /\ UNCHANGED fsiLock
      BY <1>0, <1>22, <2>1, <2>2, <2>3, TruncatedType
         DEF FreeTail, TypeOK, ghostVars, CacheEntry
  <2>4. CASE /\ fsiLock' = t /\ UNCHANGED <<start, size, cache>>
             /\ Go(t, [o EXCEPT !.pc = "freeing", !.cur = Fat0[o.cur]])
    <3>1. op' \in [Thread -> Op]
        BY <1>0, <1>5, <2>1, <2>4, OpChanges DEF PC
    <3> QED BY <1>0, <1>22, <2>2, <2>4, <3>1 DEF FreeTail, TypeOK, ghostVars
  <2> QED BY <1>22, <2>3, <2>4 DEF FreeTail
<1>23. CASE FreeTailError(t)
  <2>1. fat' \in [Copy -> [Cluster -> Entry]]
    <3>1. PICK k \in Copy : fat' = WriteFat(fat, o.cur, FAT32_CLUSTER_EOC, k)
        BY <1>23 DEF FreeTailError
    <3> QED BY <1>f, <3>1, ConstantFacts, WriteFatType
  <2> QED BY <1>0, <1>4, <1>e, <1>23, <2>1 DEF FreeTailError, Result, TypeOK, ghostVars
<1>24. CASE FreeStep(t)
  <2>1. fat' \in [Copy -> [Cluster -> Entry]]
      BY <1>0, <1>24, ConstantFacts, WriteFatType DEF FreeStep, TypeOK
  <2>2. op' \in [Thread -> Op]
    <3>1. o.cur \in Cluster /\ Fat0[o.cur] \in Entry /\ o.freed + 1 \in Nat
        BY <1>0, <1>3, <1>24 DEF FreeStep
    <3>2. [o EXCEPT !.cur = Fat0[o.cur], !.freed = o.freed + 1] \in Op
        BY <1>0, <3>1, OpChanges
    <3> QED BY <1>5, <1>24, <3>2 DEF FreeStep
  <2> QED BY <1>0, <1>24, <2>1, <2>2 DEF FreeStep, TypeOK
<1>25. CASE FreeFails(t)
  <2>1. fat' \in [Copy -> [Cluster -> Entry]]
    <3>1. CASE \E k \in Copy : fat' = WriteFat(fat, o.cur, FAT32_CLUSTER_FREE, k)
        BY <1>f, <3>1, ConstantFacts, WriteFatType
    <3> QED BY <1>f, <1>25, <3>1 DEF FreeFails
  <2> QED BY <1>0, <1>4, <1>e, <1>25, <2>1 DEF FreeFails, Result, TypeOK, ghostVars
<1>26. CASE FreeDone(t)
  <2>1. freeCount' \in Nat \cup {UnknownCount} /\ errors' \in Nat
      BY <1>0, <1>e, <1>26 DEF FreeDone, TypeOK
  <2> QED BY <1>0, <1>1, <1>26, <2>1, TruncatedType DEF FreeDone, TypeOK, ghostVars, CacheEntry
<1> QED BY <1>6, <1>7, <1>8, <1>9, <1>10, <1>11, <1>13, <1>14, <1>16, <1>17, <1>18,
           <1>19, <1>20, <1>21, <1>22, <1>23, <1>24, <1>25, <1>26 DEF Step

\* So does every call that begins.
LEMMA CallType ==
    ASSUME TypeOK, NEW t \in Thread, Call(t)
    PROVE  TypeOK'
<1>1. ASSUME NEW at \in PC, NEW k \in Kind, NEW v \in Vnode, NEW g \in Nat, NEW n \in Nat,
             Begin(t, k, v, at, g, n)
      PROVE  op' \in [Thread -> Op]
    BY <1>1, BeginIsOp, OpUpdate DEF Begin
<1>2. PICK v \in Vnode :
        \/ \E off \in 0 .. MaxSize - 1 : Read(t, v, off) \/ Write(t, v, off) \/ Scan(t, v, off)
        \/ \E n \in 1 .. MaxSize : Truncate(t, v, n)
        \/ TruncateToZero(t, v)
        \/ \E k \in {"grow", "getattr"} : WalkToEnd(t, v, k)
    BY DEF Call
<1>3. ASSUME NEW off \in 0 .. MaxSize - 1, Read(t, v, off) \/ Write(t, v, off) \/ Scan(t, v, off)
      PROVE  TypeOK'
  <2>1. off \in Nat
      BY ChainAssumption DEF ChainAssumption
  <2>2. op' \in [Thread -> Op]
      BY <1>1, <1>3, <2>1 DEF Read, Write, Scan, PC, Kind
  <2> QED BY <1>3, <2>2 DEF Read, Write, Scan, TypeOK, fsVars, ghostVars
<1>4. ASSUME NEW n \in 1 .. MaxSize, Truncate(t, v, n)
      PROVE  TypeOK'
  <2>1. n \in Nat /\ n - 1 \in Nat
      BY ChainAssumption DEF ChainAssumption
  <2>2. op' \in [Thread -> Op]
      BY <1>1, <1>4, <2>1 DEF Truncate, PC, Kind
  <2> QED BY <1>4, <2>2 DEF Truncate, TypeOK, fsVars, ghostVars
<1>5. CASE TruncateToZero(t, v)
  <2>1. EmptyCache \in [Slot -> CacheEntry]
      BY DEF EmptyCache, CacheEntry
  <2>2. op' \in [Thread -> Op]
    <3>1. CASE Finish(t, "ok")
        BY <3>1, IdleIsOp, OpUpdate DEF Finish, Result
    <3>2. CASE Begin(t, "trunc", v, "free", 0, 0)
        BY <1>1, <3>2 DEF PC, Kind
    <3> QED BY <1>5, <3>1, <3>2 DEF TruncateToZero
  <2>3. size' \in [Vnode -> Nat]
      BY <1>5 DEF TruncateToZero, TypeOK
  <2>4. cache' \in [Vnode -> [Slot -> CacheEntry]]
    <3>1. cache \in [Vnode -> [Slot -> CacheEntry]]
        BY DEF TypeOK, CacheEntry
    <3> QED BY <1>5, <2>1, <3>1 DEF TruncateToZero
  <2> QED BY <1>5, <2>2, <2>3, <2>4 DEF TruncateToZero, TypeOK, fsVars, ghostVars, CacheEntry
<1>6. ASSUME NEW k \in {"grow", "getattr"}, WalkToEnd(t, v, k)
      PROVE  TypeOK'
  <2>1. start[v] \in {0} \cup Cluster
      BY DEF TypeOK
  <2>2. op' \in [Thread -> Op]
      BY <1>6, <2>1, BeginIsOp, OpUpdate DEF WalkToEnd, PC, Kind
  <2> QED BY <1>6, <2>2 DEF WalkToEnd, TypeOK, fsVars, ghostVars
<1> QED BY <1>2, <1>3, <1>4, <1>5, <1>6

----------------------------------------------------------------------------
(* Operations stay well formed and fv_lock stays exclusive *)

\* A step gives up the operation or goes on with it on the same vnode.
GoesOn(o, x) == x.v = o.v /\ x.kind = o.kind /\ x.need = o.need /\ x.pc # "idle"

\* Arriving at a cluster ends the growth of a directory or goes on with the
\* operation, with its cursor there.
LEMMA MoveToOp ==
    ASSUME TypeOK, NEW t \in Thread, NEW c \in Cluster, NEW i \in Nat, MoveTo(t, c, i)
    PROVE  /\ \A u \in Thread \ {t} : op'[u] = op[u]
           /\ \/ op'[t] = Idle("ok") /\ op[t].kind = "grow" /\ i = op[t].goal
              \/ /\ GoesOn(op[t], op'[t]) /\ op'[t].cur = c /\ op'[t].idx = i
                 /\ op'[t].res = op[t].res /\ ~(op[t].kind = "grow" /\ i = op[t].goal)
                 /\ op'[t].freed = op[t].freed
                 /\ op'[t].pc = IF i < op[t].goal THEN "walk" ELSE Arrived(op[t].kind)
                 /\ op'[t].goal = IF i < op[t].goal THEN op[t].goal ELSE 0
<1>1. CASE op[t].kind = "grow" /\ i = op[t].goal
    BY <1>1 DEF MoveTo, Finish, Go, TypeOK
<1>2. CASE ~(op[t].kind = "grow" /\ i = op[t].goal)
  <2> DEFINE o == op[t]
             g == IF i < o.goal THEN o.goal ELSE 0
             p == IF i < o.goal THEN "walk" ELSE Arrived(o.kind)
             x == [o EXCEPT !.cur = c, !.idx = i, !.goal = g, !.pc = p]
  <2>1. o \in Op /\ g \in Nat /\ p \in PC /\ p # "idle"
      BY DEF TypeOK, Op, PC, Arrived
  <2>2. op' = [op EXCEPT ![t] = x]
      BY <1>2 DEF MoveTo, Go
  <2>3. op'[t] = x /\ \A u \in Thread \ {t} : op'[u] = op[u]
      BY <2>2 DEF TypeOK
  <2>4. /\ x.v = o.v /\ x.kind = o.kind /\ x.need = o.need /\ x.pc = p /\ x.cur = c
        /\ x.idx = i /\ x.res = o.res /\ x.goal = g /\ x.freed = o.freed
    <3> HIDE DEF o, g, p
    <3> QED BY <2>1 DEF Op
  <2> QED BY <1>2, <2>1, <2>3, <2>4 DEF GoesOn
<1> QED BY <1>1, <1>2

\* What a step of t does to the operations, the first clusters and fsi_lock
CtlStep(t) ==
    LET o == op[t]
        x == op'[t]
    IN /\ \A u \in Thread \ {t} : op'[u] = op[u]
       /\ \/ \E r \in Result : x = Idle(r)
          \/ /\ GoesOn(o, x) /\ Shape(x)
             /\ HasCursor(x) => x.cur \in Cluster
             /\ x.pc # "first" /\ start'[o.v] # 0
       /\ \/ start' = start
          \/ o.pc = "first" /\ \E c \in Cluster : start' = [start EXCEPT ![o.v] = c]
          \/ o.kind = "trunc" /\ start' = [start EXCEPT ![o.v] = 0] /\ x.pc = "idle"
       /\ \A v \in Vnode \ {o.v} : size'[v] = size[v]
       /\ start'[o.v] # 0 \/ size'[o.v] = 0 \/ UNCHANGED <<start, size>>
       /\ x.pc = "freeing" <=> fsiLock' = t
       /\ fsiLock' = fsiLock \/ (fsiLock \in {NoThread, t} /\ fsiLock' \in {NoThread, t})

\* Every step of an operation has the effect CtlStep on control, cursor and locks.
LEMMA StepCtl ==
    ASSUME TypeOK, OpInv, LockInv, NEW t \in Thread, Step(t)
    PROVE  CtlStep(t)
<1> DEFINE o == op[t]
<1>0. /\ o \in Op /\ o.idx \in Nat /\ o.goal \in Nat /\ o.idx + 1 \in Nat /\ op \in [Thread -> Op]
      /\ start \in [Vnode -> {0} \cup Cluster] /\ size \in [Vnode -> Nat]
    BY DEF TypeOK, Op
<1>1. Shape(o) /\ (HasCursor(o) => o.cur \in Cluster)
      /\ (o.pc \notin {"idle", "first"} => start[o.v] # 0)
    BY DEF OpInv
<1>2. o.pc # "idle" => o.v \in Vnode
    BY <1>1 DEF Shape, ReadShape, WriteShape, TruncShape, ScanShape, GrowShape, StatShape, Vnode
<1>3. o.pc = "freeing" <=> fsiLock = t
    BY DEF LockInv
<1>4. NoThread # t
    BY ChainAssumption DEF ChainAssumption
<1>5. ASSUME NEW r \in Result, Finish(t, r)
      PROVE  op'[t] = Idle(r) /\ op'[t].pc = "idle" /\ \A u \in Thread \ {t} : op'[u] = op[u]
    BY <1>5, <1>0 DEF Finish, Go, Idle
<1>6. \A r \in Result : Idle(r).pc = "idle"
    BY DEF Idle
<1>7. ASSUME NEW r \in Result, Finish(t, r), UNCHANGED <<start, size, fsiLock>>, o.pc # "freeing"
      PROVE  CtlStep(t)
    BY <1>3, <1>5, <1>7 DEF CtlStep
<1>8. ASSUME NEW x \in Op, Go(t, x), GoesOn(o, x), Shape(x), HasCursor(x) => x.cur \in Cluster,
             x.pc \notin {"first", "freeing"}, UNCHANGED <<start, size, fsiLock>>,
             o.pc \notin {"idle", "first", "freeing"}
      PROVE  CtlStep(t)
  <2>1. op'[t] = x /\ \A u \in Thread \ {t} : op'[u] = op[u]
      BY <1>8, OpUpdate
  <2> QED BY <1>1, <1>3, <1>8, <2>1 DEF CtlStep
<1>9. ASSUME NEW c \in Cluster, NEW i \in Nat, MoveTo(t, c, i), o.pc \in {"seek", "walk", "alloc"},
             o.kind = "grow" => i <= o.goal, UNCHANGED <<start, size, fsiLock>>
      PROVE  CtlStep(t)
  <2>3. CASE op'[t] = Idle("ok")
      BY <1>3, <1>6, <1>9, <2>3, MoveToOp DEF CtlStep, Result
  <2>4. CASE op'[t] # Idle("ok")
    <3>1. /\ GoesOn(o, op'[t]) /\ op'[t].cur = c
          /\ \/ op'[t].pc = "walk" /\ op'[t].idx < op'[t].goal
             \/ op'[t].pc = Arrived(o.kind) /\ o.kind # "grow"
          /\ op'[t].pc \in {"walk", "data", "peek"}
          /\ \A u \in Thread \ {t} : op'[u] = op[u]
        BY <1>0, <1>9, <2>4, MoveToOp DEF Arrived
    <3>2. Shape(op'[t]) /\ op'[t].pc \notin {"first", "seek", "free", "freeing"}
        BY <1>1, <1>9, <3>1 DEF Shape, ReadShape, WriteShape, TruncShape, ScanShape, GrowShape,
           StatShape, GoesOn, Arrived
    <3> QED BY <1>1, <1>3, <1>9, <3>1, <3>2 DEF CtlStep
  <2> QED BY <2>3, <2>4
<1>10. CASE Seek(t)
  <2>1. \E c \in Cluster, i \in Nat : SeekFrom(t, c, i)
    <3>1. start[o.v] \in Cluster
        BY <1>0, <1>1, <1>2, <1>10 DEF Seek
    <3>2. \A i \in Candidates(cache[o.v], o.goal) :
            cache[o.v][i].cluster \in Cluster /\ cache[o.v][i].index \in Nat
        BY <1>2, <1>10 DEF Candidates, TypeOK, Seek
    <3> QED BY <1>10, <3>1, <3>2 DEF Seek, IsBest
  <2>2. o.kind # "grow"
      BY <1>1, <1>10 DEF Seek, Shape, ReadShape, WriteShape, TruncShape, ScanShape, GrowShape,
         StatShape
  <2> QED BY <1>9, <1>10, <2>1, <2>2 DEF SeekFrom, Seek
<1>11. CASE Walk(t)
  <2>1. o.pc = "walk" /\ o.cur \in Cluster /\ UNCHANGED <<start, size, fsiLock>>
      BY <1>1, <1>11 DEF Walk, HasCursor
  <2>2. CASE Fat0[o.cur] \in Cluster /\ MoveTo(t, Fat0[o.cur], o.idx + 1)
    <3>1. o.kind = "grow" => o.idx + 1 <= o.goal
        BY <1>0, <1>1, <2>1 DEF Shape, ReadShape, WriteShape, TruncShape, ScanShape,
         GrowShape, StatShape
    <3> QED BY <1>0, <1>9, <2>1, <2>2, <3>1
  <2>3. CASE Allocates(o.kind) /\ Go(t, [o EXCEPT !.pc = "alloc"])
    <3> DEFINE x == [o EXCEPT !.pc = "alloc"]
    <3>1. x \in Op
        BY <1>0, OpChanges DEF PC
    <3>2. /\ x.pc = "alloc" /\ x.v = o.v /\ x.kind = o.kind /\ x.need = o.need
          /\ x.cur = o.cur /\ x.idx = o.idx /\ x.goal = o.goal
        BY <1>0 DEF Op
    <3>3. GoesOn(o, x) /\ Shape(x)
        BY <1>1, <2>1, <2>3, <3>2 DEF GoesOn, Allocates, Shape, ReadShape, WriteShape, TruncShape, ScanShape,
         GrowShape, StatShape
    <3> HIDE DEF x
    <3> QED BY <1>8, <2>1, <2>3, <3>1, <3>2, <3>3 DEF x
  <2>4. CASE \E r \in Result : Finish(t, r)
      BY <1>7, <2>1, <2>4
  <2> QED BY <1>11, <2>2, <2>3, <2>4 DEF Walk, NextClusterFailed, Result
<1>12. CASE WalkError(t)
    BY <1>7, <1>12 DEF WalkError, NextClusterFailed, Result
<1>13. CASE Alloc(t)
  <2>1. o.pc = "alloc" /\ UNCHANGED <<start, size, fsiLock>>
      BY <1>13 DEF Alloc
  <2>2. o.kind = "grow" => o.idx + 1 <= o.goal
      BY <1>0, <1>1, <2>1 DEF Shape, ReadShape, WriteShape, TruncShape, ScanShape,
         GrowShape, StatShape
  <2> QED BY <1>0, <1>9, <1>13, <2>1, <2>2 DEF Alloc
<1>14. CASE AllocFirst(t)
  <2> DEFINE x == [o EXCEPT !.pc = "seek"]
  <2>1. /\ o.pc = "first" /\ UNCHANGED <<fsiLock, size>>
        /\ \E c \in Cluster : start' = [start EXCEPT ![o.v] = c]
      BY <1>14 DEF AllocFirst
  <2>2. x \in Op
      BY <1>0, OpChanges DEF PC
  <2>3. op'[t] = x /\ \A u \in Thread \ {t} : op'[u] = op[u]
      BY <1>14, <2>2, OpUpdate DEF AllocFirst
  <2>4. x.pc = "seek" /\ x.v = o.v /\ x.kind = o.kind /\ x.need = o.need
      BY <1>0 DEF Op
  <2>5. GoesOn(o, x) /\ Shape(x) /\ ~HasCursor(x)
      BY <1>1, <2>1, <2>4 DEF GoesOn, HasCursor, Shape, ReadShape, WriteShape, TruncShape, ScanShape,
         GrowShape, StatShape
  <2>6. start'[o.v] # 0
      BY <1>0, <1>2, <2>1, ConstantFacts
  <2> HIDE DEF x
  <2> QED BY <1>3, <2>1, <2>3, <2>4, <2>5, <2>6 DEF CtlStep
<1>15. CASE AllocFails(t)
    BY <1>7, <1>15 DEF AllocFails, Result
<1>16. ASSUME EndOfWalk(t), o.pc = "end", UNCHANGED <<start, size, fsiLock>>
       PROVE  CtlStep(t)
  <2>1. CASE \E n \in 1 .. MaxSize : o.kind # "getattr"
                /\ Go(t, [o EXCEPT !.pc = "walk", !.goal = o.idx + n])
    <3>1. PICK n \in 1 .. MaxSize : o.kind # "getattr"
                /\ Go(t, [o EXCEPT !.pc = "walk", !.goal = o.idx + n])
        BY <2>1
    <3> DEFINE g == o.idx + n
               x == [o EXCEPT !.pc = "walk", !.goal = g]
    <3>2. g \in Nat /\ o.idx < g
        BY <1>0
    <3> HIDE DEF g
    <3>3. x \in Op
        BY <1>0, <3>2, OpChanges DEF PC
    <3>4. /\ x.pc = "walk" /\ x.v = o.v /\ x.kind = o.kind /\ x.need = o.need
          /\ x.cur = o.cur /\ x.idx = o.idx /\ x.goal = g
        BY <1>0 DEF Op
    <3>5. GoesOn(o, x) /\ Shape(x) /\ o.cur \in Cluster
        BY <1>1, <1>16, <3>1, <3>2, <3>4 DEF GoesOn, HasCursor, Shape, ReadShape, WriteShape, TruncShape, ScanShape,
         GrowShape, StatShape
    <3>6. Go(t, x)
        BY <3>1 DEF g
    <3> HIDE DEF x
    <3> QED BY <1>8, <1>16, <3>3, <3>4, <3>5, <3>6
  <2> QED BY <1>7, <1>16, <2>1 DEF EndOfWalk, Result
<1>17. CASE WalkEnd(t)
  <2>1. o.pc = "end" /\ o.cur \in Cluster /\ UNCHANGED <<start, size, fsiLock>>
      BY <1>1, <1>17 DEF WalkEnd, HasCursor
  <2>2. CASE Fat0[o.cur] \in Cluster /\ Go(t, [o EXCEPT !.cur = Fat0[o.cur], !.idx = o.idx + 1])
    <3> DEFINE f == Fat0[o.cur]
               j == o.idx + 1
               x == [o EXCEPT !.cur = f, !.idx = j]
    <3>1. f \in Entry /\ j \in Nat
        BY <1>0, <2>2, ConstantFacts
    <3>2. Go(t, x)
        BY <2>2
    <3>3. f \in Cluster
        BY <2>2
    <3> HIDE DEF f, j
    <3>4. x \in Op
        BY <1>0, <3>1, OpChanges
    <3>5. /\ x.pc = o.pc /\ x.v = o.v /\ x.kind = o.kind /\ x.need = o.need
          /\ x.cur = f
        BY <1>0 DEF Op
    <3>6. GoesOn(o, x) /\ Shape(x)
        BY <1>1, <2>1, <3>5 DEF GoesOn, Shape, ReadShape, WriteShape, TruncShape, ScanShape,
         GrowShape, StatShape
    <3> HIDE DEF x
    <3> QED BY <1>8, <2>1, <3>2, <3>3, <3>4, <3>5, <3>6
  <2> QED BY <1>7, <1>16, <1>17, <2>1, <2>2 DEF WalkEnd, Result
<1>18. CASE WalkEndError(t)
    BY <1>7, <1>16, <1>18 DEF WalkEndError, Result
<1>19. ASSUME Go(t, [o EXCEPT !.pc = "walk"]), o.pc = "data", UNCHANGED <<start, size, fsiLock>>
       PROVE  CtlStep(t)
  <2> DEFINE x == [o EXCEPT !.pc = "walk"]
  <2>1. x \in Op
      BY <1>0, OpChanges DEF PC
  <2>2. x.pc = "walk" /\ x.v = o.v /\ x.kind = o.kind /\ x.need = o.need /\ x.cur = o.cur
      BY <1>0 DEF Op
  <2>3. GoesOn(o, x) /\ Shape(x) /\ o.cur \in Cluster
      BY <1>1, <1>19, <2>2 DEF GoesOn, HasCursor, Shape, ReadShape, WriteShape, TruncShape, ScanShape,
         GrowShape, StatShape
  <2>4. Go(t, x)
      BY <1>19
  <2> HIDE DEF x
  <2> QED BY <1>8, <1>19, <2>1, <2>2, <2>3, <2>4
<1>20. CASE ReadData(t)
    BY <1>7, <1>19, <1>20 DEF ReadData, TransferNext, Result
<1>21. CASE WriteData(t)
  <2>1. /\ o.pc = "data" /\ start[o.v] # 0 /\ UNCHANGED <<start, fsiLock>>
        /\ \A v \in Vnode \ {o.v} : size'[v] = size[v]
      BY <1>0, <1>1, <1>21 DEF WriteData
  <2>2. CASE Finish(t, "ok")
      BY <1>3, <1>5, <2>1, <2>2 DEF CtlStep, Result
  <2>3. CASE Go(t, [o EXCEPT !.pc = "walk"])
    <3> DEFINE x == [o EXCEPT !.pc = "walk"]
    <3>1. x \in Op
        BY <1>0, OpChanges DEF PC
    <3>2. x.pc = "walk" /\ x.v = o.v /\ x.kind = o.kind /\ x.need = o.need /\ x.cur = o.cur
        BY <1>0 DEF Op
    <3>3. GoesOn(o, x) /\ Shape(x) /\ o.cur \in Cluster
        BY <1>1, <2>1, <3>2 DEF GoesOn, HasCursor, Shape, ReadShape, WriteShape, TruncShape,
           ScanShape, GrowShape, StatShape
    <3>4. op'[t] = x /\ \A u \in Thread \ {t} : op'[u] = op[u]
        BY <2>3, <3>1, OpUpdate
    <3> HIDE DEF x
    <3> QED BY <1>3, <2>1, <3>2, <3>3, <3>4 DEF CtlStep
  <2> QED BY <1>21, <2>2, <2>3 DEF WriteData, TransferNext
<1>22. CASE ScanData(t)
    BY <1>7, <1>19, <1>22 DEF ScanData, Result
<1>23. CASE DataError(t)
    BY <1>7, <1>23 DEF DataError, Result
<1>24. CASE Peek(t)
  <2>1. o.pc = "peek" /\ o.cur \in Cluster /\ UNCHANGED <<start, fsiLock>>
      BY <1>1, <1>24 DEF Peek, HasCursor
  <2>2. CASE Go(t, [o EXCEPT !.pc = "free"]) /\ UNCHANGED size
    <3> DEFINE x == [o EXCEPT !.pc = "free"]
    <3>1. x \in Op
        BY <1>0, OpChanges DEF PC
    <3>2. x.pc = "free" /\ x.v = o.v /\ x.kind = o.kind /\ x.need = o.need /\ x.cur = o.cur
        BY <1>0 DEF Op
    <3>3. GoesOn(o, x) /\ Shape(x) /\ o.need > 0 /\ o.need # 0
        BY <1>0, <1>1, <2>1, <3>2 DEF GoesOn, Op, Shape, ReadShape, WriteShape, TruncShape,
         ScanShape, GrowShape, StatShape
    <3>4. Go(t, x)
        BY <2>2
    <3> HIDE DEF x
    <3> QED BY <1>8, <2>1, <2>2, <3>1, <3>2, <3>3, <3>4
  <2>3. CASE SetSize(t) /\ Finish(t, "ok")
    <3>1. start[o.v] # 0 /\ \A v \in Vnode \ {o.v} : size'[v] = size[v]
        BY <1>0, <1>1, <2>1, <2>3 DEF SetSize
    <3> QED BY <1>3, <1>5, <2>1, <2>3, <3>1 DEF CtlStep, Result
  <2> QED BY <1>7, <1>24, <2>1, <2>2, <2>3 DEF Peek, Result
<1>25. ASSUME NEW c \in {0} \cup Entry, Go(t, [o EXCEPT !.pc = "freeing", !.cur = c]),
              o.pc = "free", fsiLock = NoThread, fsiLock' = t, UNCHANGED <<start, size>>
       PROVE  CtlStep(t)
  <2> DEFINE x == [o EXCEPT !.pc = "freeing", !.cur = c]
  <2>1. x \in Op
      BY <1>0, OpChanges DEF PC
  <2>2. x.pc = "freeing" /\ x.v = o.v /\ x.kind = o.kind /\ x.need = o.need
      BY <1>0 DEF Op
  <2>3. GoesOn(o, x) /\ Shape(x) /\ ~HasCursor(x)
      BY <1>1, <1>25, <2>2 DEF GoesOn, HasCursor, Shape, ReadShape, WriteShape, TruncShape, ScanShape,
         GrowShape, StatShape
  <2>4. op'[t] = x /\ \A u \in Thread \ {t} : op'[u] = op[u]
      BY <1>25, <2>1, OpUpdate
  <2> HIDE DEF x
  <2> QED BY <1>1, <1>25, <2>2, <2>3, <2>4 DEF CtlStep
<1>26. CASE FreeWhole(t)
  <2>1. start[o.v] \in {0} \cup Entry
      BY <1>0, <1>2, <1>26, ConstantFacts DEF FreeWhole
  <2> QED BY <1>25, <1>26, <2>1 DEF FreeWhole
<1>27. ASSUME Truncated(t), o.pc \in {"free", "freeing"}
       PROVE  /\ op'[t] = Idle("ok") /\ op'[t].pc = "idle"
              /\ \A u \in Thread \ {t} : op'[u] = op[u]
              /\ start' = start \/ (o.kind = "trunc" /\ start' = [start EXCEPT ![o.v] = 0])
              /\ start'[o.v] # 0 \/ size'[o.v] = 0
              /\ \A v \in Vnode \ {o.v} : size'[v] = size[v]
  <2>1. o.kind = "trunc"
      BY <1>1, <1>27 DEF Shape, ReadShape, WriteShape, TruncShape, ScanShape,
         GrowShape, StatShape
  <2> QED BY <1>0, <1>1, <1>2, <1>5, <1>27, <2>1 DEF Truncated, SetSize, Result
<1>28. CASE FreeTail(t)
  <2>1. o.cur \in Cluster /\ Fat0[o.cur] \in Entry
      BY <1>1, <1>28, ConstantFacts DEF FreeTail, HasCursor, TypeOK, Fat0
  <2>2. CASE Truncated(t) /\ UNCHANGED fsiLock
      BY <1>3, <1>27, <1>28, <2>2 DEF FreeTail, CtlStep, Result
  <2> QED BY <1>25, <1>28, <2>1, <2>2 DEF FreeTail
<1>29. CASE FreeTailError(t)
    BY <1>7, <1>29 DEF FreeTailError, Result
<1>30. CASE FreeStep(t)
  <2> DEFINE f == Fat0[o.cur]
             n == o.freed + 1
             x == [o EXCEPT !.cur = f, !.freed = n]
  <2>1. f \in Entry /\ n \in Nat
      BY <1>0, <1>30, ConstantFacts DEF FreeStep, TypeOK, Fat0, Op
  <2>2. Go(t, x)
      BY <1>30 DEF FreeStep
  <2> HIDE DEF f, n
  <2>3. x \in Op
      BY <1>0, <2>1, OpChanges
  <2>4. x.pc = o.pc /\ x.v = o.v /\ x.kind = o.kind /\ x.need = o.need
      BY <1>0 DEF Op
  <2>5. o.pc = "freeing" /\ UNCHANGED <<start, size, fsiLock>>
      BY <1>30 DEF FreeStep
  <2>6. GoesOn(o, x) /\ Shape(x) /\ ~HasCursor(x)
      BY <1>1, <2>4, <2>5 DEF GoesOn, HasCursor, Shape, ReadShape, WriteShape, TruncShape, ScanShape,
         GrowShape, StatShape
  <2>7. op'[t] = x /\ \A u \in Thread \ {t} : op'[u] = op[u]
      BY <2>2, <2>3, OpUpdate
  <2> HIDE DEF x
  <2> QED BY <1>1, <1>3, <2>4, <2>5, <2>6, <2>7 DEF CtlStep
<1>31. CASE FreeFails(t)
  <2>1. PICK r \in Result : Finish(t, r)
      BY <1>31 DEF FreeFails, Result
  <2> QED BY <1>3, <1>4, <1>5, <1>31, <2>1 DEF FreeFails, CtlStep
<1>32. CASE FreeDone(t)
    BY <1>3, <1>4, <1>27, <1>32 DEF FreeDone, CtlStep, Result
<1> QED BY <1>10, <1>11, <1>12, <1>13, <1>14, <1>15, <1>17, <1>18, <1>20, <1>21, <1>22, <1>23,
           <1>24, <1>26, <1>28, <1>29, <1>30, <1>31, <1>32 DEF Step

\* A step of an operation keeps the part of the invariant about control,
LEMMA StepCtlInv ==
    ASSUME CtlInv, NEW t \in Thread, Step(t)
    PROVE  OpInv' /\ LockInv' /\ ExclusionInv' /\ HasStart'
<1> DEFINE o == op[t]
<1>0. TypeOK /\ OpInv /\ LockInv /\ ExclusionInv /\ HasStart
    BY DEF CtlInv
<1>1. CtlStep(t)
    BY <1>0, StepCtl
<1>2. start \in [Vnode -> {0} \cup Cluster] /\ NoVnode \notin Vnode /\ 0 \notin Cluster
      /\ Reg \subseteq Vnode /\ Dir \subseteq Vnode /\ Reg \cap Dir = {} /\ NoThread \notin Thread
    BY <1>0, ChainAssumption, ConstantFacts DEF TypeOK, Vnode, ChainAssumption
<1>3. \A r : /\ Idle(r).pc = "idle" /\ Idle(r).kind = "none" /\ Idle(r).v = NoVnode
             /\ Shape(Idle(r)) /\ ~HasCursor(Idle(r))
    BY DEF Idle, Shape, HasCursor
<1>4. \A u \in Thread : /\ op[u].pc = "first" => op[u].kind \in {"write", "trunc"} /\ op[u].v \in Reg
                        /\ op[u].kind = "trunc" => op[u].v \in Reg
                        /\ op[u].kind # "none" <=> op[u].pc # "idle"
                        /\ op[u].kind # "none" <=> op[u].v # NoVnode
                        /\ op[u].kind # "none" => op[u].v \in Vnode
                        /\ op[u].kind = "getattr" => op[u].v \in Dir
    BY <1>0, <1>2 DEF OpInv, Shape, ReadShape, WriteShape, TruncShape, ScanShape, GrowShape, StatShape
<1>5. LockInv'
    BY <1>0, <1>1, <1>2 DEF LockInv, CtlStep
<1>6. HasStart'
  <2>1. o.pc # "idle"
      BY DEF Step, Seek, Walk, WalkError, Alloc, AllocFirst, AllocFails, WalkEnd, WalkEndError,
         ReadData, WriteData, ScanData, DataError, Peek, FreeWhole, FreeTail, FreeTailError,
         FreeStep, FreeFails, FreeDone
  <2>2. o.v \in Vnode
      BY <1>4, <2>1
  <2>3. \A v \in Vnode \ {o.v} : size'[v] = size[v] /\ start'[v] = start[v]
      BY <1>1, <1>2, <2>2 DEF CtlStep
  <2>4. o.v \in Dir => start'[o.v] = start[o.v]
      BY <1>1, <1>2, <1>4, <2>2 DEF CtlStep
  <2>5. o.v \in Reg => start'[o.v] # 0 \/ size'[o.v] = 0
      BY <1>0, <1>1, <2>2 DEF CtlStep, HasStart
  <2> QED BY <1>0, <1>2, <2>2, <2>3, <2>4, <2>5 DEF HasStart
<1>7. ExclusionInv'
  <2> SUFFICES ASSUME NEW a \in Thread, NEW b \in Thread, a # b, op'[a].v = op'[b].v,
                      Exclusive(op'[a].kind)
               PROVE  op'[b].kind = "getattr"
      BY DEF ExclusionInv
  <2>1. /\ op'[a].v = op[a].v /\ op'[a].kind = op[a].kind
        /\ Exclusive(op[a].kind) /\ op[a].v # NoVnode
    <3>1. op'[a] = op[a] \/ GoesOn(op[a], op'[a]) \/ op'[a].kind = "none"
        BY <1>1, <1>3 DEF CtlStep
    <3> QED BY <1>4, <3>1 DEF GoesOn, Exclusive
  <2>2. op'[b].v = op[b].v /\ op'[b].kind = op[b].kind
    <3>1. op'[b] = op[b] \/ GoesOn(op[b], op'[b]) \/ op'[b].v = NoVnode
        BY <1>1, <1>3 DEF CtlStep
    <3> QED BY <2>1, <3>1 DEF GoesOn
  <2> QED BY <1>0, <2>1, <2>2 DEF ExclusionInv
<1>8. OpInv'
  <2> SUFFICES ASSUME NEW u \in Thread
               PROVE  /\ Shape(op'[u])
                      /\ HasCursor(op'[u]) => op'[u].cur \in Cluster
                      /\ op'[u].pc \notin {"idle", "first"} => start'[op'[u].v] # 0
                      /\ op'[u].pc = "first" => start'[op'[u].v] = 0 /\ op'[u].cur = 0
      BY DEF OpInv
  <2>1. CASE u = t
      BY <1>1, <1>3, <2>1 DEF CtlStep, GoesOn
  <2>2. CASE u # t
    <3>1. op'[u] = op[u]
        BY <1>1, <2>2 DEF CtlStep
    <3>2. start'[op[u].v] = start[op[u].v] \/ op[u].kind = "none"
      <4>1. CASE start' = start
          BY <4>1
      <4>2. CASE start' # start
        <5>1. Exclusive(o.kind) /\ o.v \in Reg
              /\ \A w \in Vnode \ {o.v} : start'[w] = start[w]
            BY <1>1, <1>2, <1>4, <4>2 DEF CtlStep, Exclusive
        <5>2. CASE op[u].v = o.v
            BY <1>0, <1>2, <1>4, <2>2, <5>1, <5>2 DEF ExclusionInv
        <5>3. CASE op[u].v # o.v
            BY <1>4, <5>1, <5>3
        <5> QED BY <5>2, <5>3
      <4> QED BY <4>1, <4>2
    <3> QED BY <1>0, <1>4, <3>1, <3>2 DEF OpInv
  <2> QED BY <2>1, <2>2
<1> QED BY <1>5, <1>6, <1>7, <1>8

\* What a call that begins does to the operations
CtlCall(t, v) ==
    LET x == op'[t]
    IN /\ \A u \in Thread \ {t} : op'[u] = op[u]
       /\ \/ x = Idle("ok") /\ \A w \in Vnode : size'[w] = size[w] \/ size'[w] = 0
          \/ /\ x.v = v /\ Shape(x) /\ x.pc \notin {"idle", "freeing"} /\ UNCHANGED size
             /\ HasCursor(x) => x.cur \in Cluster
             /\ x.pc # "first" => start[v] # 0
             /\ x.pc = "first" => start[v] = 0 /\ x.cur = 0
             /\ \/ x.kind = "getattr"
                \/ CanUpdate(v)
                \/ ~Exclusive(x.kind) /\ CanAccess(v)

\* Every call starts an operation as CtlCall says, with the lock it needs.
LEMMA CallCtl ==
    ASSUME CtlInv, NEW t \in Thread, Call(t)
    PROVE  /\ op[t].pc = "idle" /\ UNCHANGED <<start, fsiLock>>
           /\ \E v \in Vnode : CtlCall(t, v)
<1>0. TypeOK /\ OpInv /\ HasStart /\ op \in [Thread -> Op] /\ size \in [Vnode -> Nat]
      /\ start \in [Vnode -> {0} \cup Cluster]
    BY DEF CtlInv, TypeOK
<1>1. PICK v \in Vnode :
        \/ \E off \in 0 .. MaxSize - 1 : Read(t, v, off) \/ Write(t, v, off) \/ Scan(t, v, off)
        \/ \E n \in 1 .. MaxSize : Truncate(t, v, n)
        \/ TruncateToZero(t, v)
        \/ \E k \in {"grow", "getattr"} : WalkToEnd(t, v, k)
    BY DEF Call
<1>2. op[t].pc = "idle" /\ UNCHANGED <<start, fsiLock>>
    BY <1>1 DEF Read, Write, Scan, Truncate, TruncateToZero, WalkToEnd
<1>3. ASSUME NEW k, NEW at, NEW g, NEW n, Begin(t, k, v, at, g, n)
      PROVE  /\ \A u \in Thread \ {t} : op'[u] = op[u]
             /\ op'[t].pc = at /\ op'[t].kind = k /\ op'[t].v = v /\ op'[t].need = n
             /\ op'[t].cur = 0
    BY <1>0, <1>3 DEF Begin, Go
<1>4. ASSUME NEW off \in 0 .. MaxSize - 1, Read(t, v, off)
      PROVE  CtlCall(t, v)
  <2>1. v \in Reg /\ start[v] # 0 /\ CanUpdate(v) /\ UNCHANGED size
      BY <1>0, <1>4 DEF Read, HasStart
  <2>2. Begin(t, "read", v, "seek", off, 0)
      BY <1>4 DEF Read
  <2> QED BY <1>3, <2>1, <2>2 DEF CtlCall, Shape, ReadShape, HasCursor
<1>5. ASSUME NEW off \in 0 .. MaxSize - 1, Write(t, v, off)
      PROVE  CtlCall(t, v)
  <2>1. v \in Reg /\ CanUpdate(v) /\ UNCHANGED size
      BY <1>5 DEF Write
  <2>2. Begin(t, "write", v, IF start[v] = 0 THEN "first" ELSE "seek", off, 0)
      BY <1>5 DEF Write
  <2> QED BY <1>3, <2>1, <2>2 DEF CtlCall, Shape, WriteShape, HasCursor
<1>6. ASSUME NEW off \in 0 .. MaxSize - 1, Scan(t, v, off)
      PROVE  CtlCall(t, v)
  <2>1. v \in Dir /\ start[v] # 0 /\ CanAccess(v) /\ UNCHANGED size
      BY <1>0, <1>6 DEF Scan, HasStart
  <2>2. Begin(t, "scan", v, "seek", off, 0)
      BY <1>6 DEF Scan
  <2> QED BY <1>3, <2>1, <2>2 DEF CtlCall, Shape, ScanShape, HasCursor, Exclusive
<1>7. ASSUME NEW n \in 1 .. MaxSize, Truncate(t, v, n)
      PROVE  CtlCall(t, v)
  <2>1. v \in Reg /\ CanUpdate(v) /\ UNCHANGED size /\ n > 0
      BY <1>7 DEF Truncate
  <2>2. Begin(t, "trunc", v, IF start[v] = 0 THEN "first" ELSE "seek", n - 1, n)
      BY <1>7 DEF Truncate
  <2> QED BY <1>3, <2>1, <2>2 DEF CtlCall, Shape, TruncShape, HasCursor
<1>8. ASSUME TruncateToZero(t, v)
      PROVE  CtlCall(t, v)
  <2>1. CASE start[v] = 0
      BY <1>0, <1>8, <2>1 DEF TruncateToZero, CtlCall, Finish, Go
  <2>2. CASE start[v] # 0
    <3>1. v \in Reg /\ CanUpdate(v) /\ size' = size
        BY <1>8, <2>2 DEF TruncateToZero
    <3>2. Begin(t, "trunc", v, "free", 0, 0)
        BY <1>8, <2>2 DEF TruncateToZero
    <3>3. /\ \A u \in Thread \ {t} : op'[u] = op[u]
          /\ op'[t].pc = "free" /\ op'[t].kind = "trunc" /\ op'[t].v = v /\ op'[t].need = 0
        BY <1>3, <3>2
    <3>4. Shape(op'[t]) /\ ~HasCursor(op'[t])
        BY <3>1, <3>3 DEF Shape, TruncShape, HasCursor
    <3> QED BY <2>2, <3>1, <3>3, <3>4 DEF CtlCall
  <2> QED BY <2>1, <2>2
<1>9. ASSUME NEW k \in {"grow", "getattr"}, WalkToEnd(t, v, k)
      PROVE  CtlCall(t, v)
  <2>1. /\ v \in Dir /\ start[v] # 0 /\ UNCHANGED size
        /\ k = "getattr" \/ CanUpdate(v)
      BY <1>9 DEF WalkToEnd
  <2>2. /\ op'[t].pc = "end" /\ op'[t].kind = k /\ op'[t].v = v /\ op'[t].cur = start[v]
        /\ \A u \in Thread \ {t} : op'[u] = op[u]
      BY <1>0, <1>9 DEF WalkToEnd, Go
  <2>3. start[v] \in Cluster
      BY <1>0, <2>1
  <2> QED BY <2>1, <2>2, <2>3 DEF CtlCall, Shape, GrowShape, StatShape, HasCursor
<1> QED BY <1>1, <1>2, <1>4, <1>5, <1>6, <1>7, <1>8, <1>9

\* and so does a call that begins.
LEMMA CallCtlInv ==
    ASSUME CtlInv, NEW t \in Thread, Call(t)
    PROVE  OpInv' /\ LockInv' /\ ExclusionInv' /\ HasStart'
<1>0. TypeOK /\ OpInv /\ LockInv /\ ExclusionInv /\ HasStart
    BY DEF CtlInv
<1>1. NoThread \notin Thread /\ NoVnode \notin Vnode /\ Reg \subseteq Vnode
    BY ChainAssumption DEF ChainAssumption, Vnode
<1>2. op[t].pc = "idle" /\ UNCHANGED <<start, fsiLock>>
    BY CallCtl
<1>3. PICK v \in Vnode : CtlCall(t, v)
    BY CallCtl
<1>4. \A r : /\ Idle(r).pc = "idle" /\ Idle(r).kind = "none" /\ Idle(r).v = NoVnode
             /\ Shape(Idle(r)) /\ ~HasCursor(Idle(r))
    BY DEF Idle, Shape, HasCursor
<1>5. \A u \in Thread : /\ op[u].kind # "none" <=> op[u].pc # "idle"
                        /\ op[u].kind # "none" <=> op[u].v # NoVnode
    BY <1>0, <1>1 DEF OpInv, Shape, ReadShape, WriteShape, TruncShape, ScanShape, GrowShape,
       StatShape, Vnode
<1>6. OpInv'
  <2> SUFFICES ASSUME NEW u \in Thread
               PROVE  /\ Shape(op'[u])
                      /\ HasCursor(op'[u]) => op'[u].cur \in Cluster
                      /\ op'[u].pc \notin {"idle", "first"} => start'[op'[u].v] # 0
                      /\ op'[u].pc = "first" => start'[op'[u].v] = 0 /\ op'[u].cur = 0
      BY DEF OpInv
  <2>1. CASE u = t
      BY <1>2, <1>3, <1>4, <2>1 DEF CtlCall
  <2>2. CASE u # t
      BY <1>0, <1>2, <1>3, <2>2 DEF CtlCall, OpInv
  <2> QED BY <2>1, <2>2
<1>7. LockInv'
    BY <1>0, <1>2, <1>3, <1>4 DEF LockInv, CtlCall
<1>8. HasStart'
    BY <1>0, <1>1, <1>2, <1>3 DEF HasStart, CtlCall
<1>9. ExclusionInv'
  <2> SUFFICES ASSUME NEW a \in Thread, NEW b \in Thread, a # b, op'[a].v = op'[b].v,
                      Exclusive(op'[a].kind)
               PROVE  op'[b].kind = "getattr"
      BY DEF ExclusionInv
  <2>1. CASE a # t /\ b # t
      BY <1>0, <1>3, <2>1 DEF CtlCall, ExclusionInv
  <2>2. CASE a = t
    <3>1. /\ op'[t].v = v /\ op'[b] = op[b] /\ CanUpdate(v)
        BY <1>3, <1>4, <2>2 DEF CtlCall, Exclusive
    <3> QED BY <1>1, <1>5, <2>2, <3>1 DEF CanUpdate
  <2>3. CASE b = t
    <3>1. op'[a] = op[a] /\ op[a].v # NoVnode /\ op[a].pc # "idle"
        BY <1>3, <1>5, <2>3 DEF CtlCall, Exclusive
    <3>2. /\ op'[t].v = v
          /\ op'[t].kind = "getattr" \/ CanUpdate(v) \/ CanAccess(v)
        BY <1>3, <1>4, <2>3, <3>1 DEF CtlCall
    <3> QED BY <2>3, <3>1, <3>2 DEF CanUpdate, CanAccess, Exclusive
  <2> QED BY <2>1, <2>2, <2>3
<1> QED BY <1>6, <1>7, <1>8, <1>9

\* The mounted volume
LEMMA InitCtl == Init => CtlInv
<1> SUFFICES ASSUME Init PROVE CtlInv
    OBVIOUS
<1>1. ASSUME NEW c \in Cluster PROVE Owner0(c) \in Vnode \cup {NoVnode}
    BY DEF Owner0
<1>2. ASSUME NEW c \in Cluster, Owner0(c) # NoVnode
      PROVE  /\ Owner0(c) \in Vnode
             /\ \E i \in 1 .. Len(Layout[Owner0(c)]) : Layout[Owner0(c)][i] = c
    BY <1>2 DEF Owner0
<1>3. ASSUME NEW v \in Vnode
      PROVE  Layout[v] \in Seq(Cluster) /\ Len(Layout[v]) \in Nat
    BY ChainAssumption DEF ChainAssumption
<1>4. ASSUME NEW c \in Cluster
      PROVE  Pos0(c) \in Nat
  <2>1. CASE Owner0(c) = NoVnode
      BY <2>1 DEF Pos0
  <2>2. CASE Owner0(c) # NoVnode
    <3> DEFINE j == CHOOSE i \in 1 .. Len(Layout[Owner0(c)]) : Layout[Owner0(c)][i] = c
    <3>1. j \in 1 .. Len(Layout[Owner0(c)]) /\ Len(Layout[Owner0(c)]) \in Nat
        BY <1>2, <1>3, <2>2
    <3>2. Pos0(c) = j - 1
        BY <2>2 DEF Pos0
    <3> HIDE DEF j
    <3> QED BY <3>1, <3>2
  <2> QED BY <2>1, <2>2
<1>5. ASSUME NEW c \in Cluster
      PROVE  Entry0(c) \in Entry
  <2>1. CASE Owner0(c) # NoVnode /\ Pos0(c) + 2 <= Len(Layout[Owner0(c)])
    <3>1. Layout[Owner0(c)][Pos0(c) + 2] \in Cluster
        BY <1>2, <1>3, <1>4, <2>1
    <3> QED BY <2>1, <3>1, ConstantFacts DEF Entry0
  <2>2. CASE ~(Owner0(c) # NoVnode /\ Pos0(c) + 2 <= Len(Layout[Owner0(c)]))
      BY <2>2, ConstantFacts DEF Entry0
  <2> QED BY <2>1, <2>2
<1>6. Cardinality({c \in Cluster : Entry0(c) = FAT32_CLUSTER_FREE}) \in Nat
  <2>1. IsFiniteSet(Cluster)
      BY ChainAssumption, FS_Interval DEF ChainAssumption, Cluster, FAT32_CLUSTER_MIN, MaxCluster
  <2>2. IsFiniteSet({c \in Cluster : Entry0(c) = FAT32_CLUSTER_FREE})
      BY <2>1, FS_Subset
  <2> QED BY <2>2, FS_CardinalityType
<1>7. fat \in [Copy -> [Cluster -> Entry]]
    BY <1>5 DEF Init
<1>8. owner \in [Cluster -> Vnode \cup {NoVnode}] /\ pos \in [Cluster -> Nat]
    BY <1>1, <1>4 DEF Init
<1>9. ASSUME NEW v \in Vnode
      PROVE  /\ Layout[v] # <<>> => Layout[v][1] \in Cluster
             /\ Layout[v] = <<>> => Len(Layout[v]) = 0
  <2>1. Layout[v] \in Seq(Cluster)
      BY <1>3
  <2> HIDE DEF Cluster
  <2>2. ASSUME NEW s \in Seq(Cluster), s # <<>> PROVE s[1] \in Cluster
      BY <2>2
  <2> QED BY <2>1, <2>2
<1>10. start \in [Vnode -> {0} \cup Cluster] /\ size \in [Vnode -> Nat]
    BY <1>3, <1>9 DEF Init
<1>11. op \in [Thread -> Op]
    BY IdleIsOp DEF Init, Result
<1>12. cache \in [Vnode -> [Slot -> CacheEntry]]
  <2>1. EmptyCache \in [Slot -> CacheEntry]
      BY DEF EmptyCache, CacheEntry
  <2> QED BY <2>1 DEF Init
<1>13. freeCount \in Nat \cup {UnknownCount} /\ nextFree \in Nat
       /\ fsiLock \in Thread \cup {NoThread} /\ errors \in Nat
    BY <1>6, ChainAssumption DEF Init, ChainAssumption
<1>14. TypeOK
    BY <1>7, <1>8, <1>10, <1>11, <1>12, <1>13 DEF TypeOK, CacheEntry
<1>15. \A t \in Thread : /\ op[t].pc = "idle" /\ op[t].kind = "none" /\ op[t].v = NoVnode
    BY DEF Init, Idle
<1>16. OpInv
    BY <1>15 DEF OpInv, Shape, HasCursor
<1>17. LockInv
  <2>1. fsiLock = NoThread /\ NoThread \notin Thread
      BY ChainAssumption DEF Init, ChainAssumption
  <2> QED BY <1>15, <2>1 DEF LockInv
<1>18. ExclusionInv
    BY <1>15 DEF ExclusionInv, Exclusive
<1>19. HasStart
  <2>1. \A v \in Vnode : /\ start[v] = IF Layout[v] = <<>> THEN 0 ELSE Layout[v][1]
                         /\ size[v] = IF v \in Dir THEN 0 ELSE Len(Layout[v])
      BY DEF Init
  <2>2. \A v \in Vnode : Layout[v] # <<>> => start[v] # 0
      BY <1>9, <2>1, ConstantFacts
  <2>3. \A v \in Vnode : Layout[v] = <<>> => size[v] = 0
      BY <1>9, <2>1
  <2> QED BY <2>2, <2>3, ChainAssumption DEF HasStart, ChainAssumption, Vnode
<1> QED BY <1>14, <1>16, <1>17, <1>18, <1>19 DEF CtlInv

\* Every step of the specification keeps the control part of the invariant.
LEMMA NextCtl == CtlInv /\ [Next]_vars => CtlInv'
<1> SUFFICES ASSUME CtlInv, [Next]_vars PROVE CtlInv'
    OBVIOUS
<1>1. CASE UNCHANGED vars
    BY <1>1 DEF vars, CtlInv, TypeOK, OpInv, LockInv, ExclusionInv, HasStart
<1>2. ASSUME NEW t \in Thread, Step(t) PROVE CtlInv'
    BY <1>2, StepType, StepCtlInv DEF CtlInv
<1>3. ASSUME NEW t \in Thread, Call(t) PROVE CtlInv'
    BY <1>3, CallType, CallCtlInv DEF CtlInv
<1> QED BY <1>1, <1>2, <1>3 DEF Next

\* The state keeps its types, whatever the device and the threads do: the
\* cursors stay on clusters, and an operation that follows a chain has one.
THEOREM TypeCorrect == Spec => []TypeOK
<1>1. CtlInv => TypeOK
    BY DEF CtlInv
<1> QED BY <1>1, InitCtl, NextCtl, PTL DEF Spec

\* The locks do what fat32_free_clusters and the vnode operations rely on, also
\* after device errors: only the holder of fsi_lock is freeing clusters, and an
\* operation that holds fv_lock for update shares its vnode with getattr alone.
THEOREM LockDiscipline == Spec => [](LockInv /\ ExclusionInv)
<1>1. CtlInv => LockInv /\ ExclusionInv
    BY DEF CtlInv
<1> QED BY <1>1, InitCtl, NextCtl, PTL DEF Spec
============================================================================
