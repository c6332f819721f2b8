--------------------------- MODULE ClusterChains ---------------------------
(***************************************************************************)
(* Cluster chains of a mounted FAT32 volume: the FAT and its copies, the   *)
(* FSInfo counters, and the operations that walk, extend, cut and free     *)
(* chains (fat32_cls.c), driven by the operations on open files and        *)
(* directories that call them: fat32_read, fat32_write, fat32_truncate,    *)
(* fat32_get_dirent, fat32_alloc_fdentry and fat32_getattr.                *)
(*                                                                         *)
(* A thread runs one operation at a time on one vnode.  Its steps are cut  *)
(* where the code takes or releases fsi_lock or fv_cache_lock: what the    *)
(* code does between two such points touches no state another thread sees. *)
(* Sizes and offsets are counted in clusters.                              *)
(***************************************************************************)
EXTENDS Integers, Sequences, FiniteSets

CONSTANTS
    ClusterCount,  \* fsi_cluster_count
    NumFats,       \* fsi_num_fats
    Thread,        \* kernel threads running vnode operations
    Reg,           \* vnodes of type VREG
    Dir,           \* vnodes of type VDIR
    CacheSize,     \* FAT32_CLS_CACHE_SIZE
    MaxSize,       \* bound: clusters in a file or directory
    MaxErrors,     \* bound: device errors in a behaviour
    CallsAfterError,  \* bound: whether calls begin after a device error
    Layout,        \* the chain of each vnode at mount, a sequence of clusters
    Bad,           \* clusters marked bad at mount
    NextFree0,     \* next_free in the FSInfo sector at mount
    FsInfoValid,   \* the FSInfo sector was readable and signed at mount
    NoThread, NoVnode

Vnode == Reg \cup Dir

FAT32_CLUSTER_FREE == 0
FAT32_CLUSTER_MIN  == 2
MaxCluster         == ClusterCount + 1
FAT32_CLUSTER_BAD  == MaxCluster + 1
FAT32_CLUSTER_EOC  == MaxCluster + 2
UnknownCount       == -1                 \* 0xFFFFFFFF

Cluster == FAT32_CLUSTER_MIN .. MaxCluster
Entry   == {FAT32_CLUSTER_FREE, FAT32_CLUSTER_BAD, FAT32_CLUSTER_EOC} \cup Cluster
Copy    == 0 .. NumFats - 1
Slot    == 1 .. CacheSize

ASSUME ChainAssumption ==
    /\ ClusterCount \in Nat \ {0}
    /\ NumFats \in Nat \ {0}
    /\ CacheSize \in Nat \ {0}
    /\ MaxSize \in Nat
    /\ MaxErrors \in Nat
    /\ Reg \cap Dir = {}
    /\ NoThread \notin Thread
    /\ NoVnode \notin Vnode
    /\ NextFree0 \in Nat
    /\ FsInfoValid \in BOOLEAN /\ CallsAfterError \in BOOLEAN
    /\ Bad \subseteq Cluster
    /\ Layout \in [Vnode -> Seq(Cluster)]
    /\ \A d \in Dir : Layout[d] # <<>>

VARIABLES
    fat,        \* the FAT copies: fat[k][c]
    freeCount,  \* fsi_free_count, and free_count of the FSInfo sector
    nextFree,   \* fsi_next_free, and next_free of the FSInfo sector
    fsiLock,    \* the thread inside fat32_free_clusters, or NoThread
    start,      \* fv_cluster of each vnode
    size,       \* fv_size of each vnode
    cache,      \* fv_cls_cache of each vnode
    op,         \* the operation each thread is running
    errors,     \* device errors so far
    owner,      \* history: the vnode a cluster was allocated for
    pos         \* history: its place in that vnode's chain

fsVars    == <<fat, freeCount, nextFree>>
ghostVars == <<owner, pos>>
vars == <<fat, freeCount, nextFree, fsiLock, start, size, cache, op, errors,
          owner, pos>>

----------------------------------------------------------------------------
(* Operations and their results *)

Kind   == {"read", "write", "trunc", "scan", "grow", "getattr", "none"}
PC     == {"idle", "first", "seek", "walk", "alloc", "data", "peek", "free",
           "freeing", "end"}
Result == {"ok", "EIO", "ENOSPC", "EINVAL", "ENOENT", "EFAULT"}

\* Kinds whose caller passes NC_ALLOC while it follows the chain.
Allocates(k) == k \in {"write", "trunc", "grow"}

\* Kinds that hold fv_lock in update mode for their whole duration.
Exclusive(k) == k \in {"write", "trunc", "grow"}

\* A thread's operation: kind on vnode v.  cur is the cluster in hand and idx
\* its index in the chain; goal is the index a seek wants, 0 once it is
\* reached; need is needed_clusters of a truncate; freed is freed_count; res
\* is the result of the thread's last operation.
Idle(r) == [pc |-> "idle", kind |-> "none", v |-> NoVnode, goal |-> 0,
            need |-> 0, cur |-> 0, idx |-> 0, freed |-> 0, res |-> r]

Op == [pc : PC, kind : Kind, v : Vnode \cup {NoVnode}, goal : Nat, need : Nat,
       cur : {0} \cup Entry, idx : Nat, freed : Nat, res : Result]

\* Thread t goes on with its operation as o.
Go(t, o) == op' = [op EXCEPT ![t] = o]

Finish(t, r) == Go(t, Idle(r))

\* Mutant: fat32_alloc_fdentry runs with fv_lock in access mode.
CanUpdateShared(v) ==
    \A u \in Thread : op[u].pc # "idle" /\ op[u].v = v => op[u].kind \in {"getattr", "grow"}

\* mrupdate(&fv_lock) succeeds: no other operation holds the lock.
\* fat32_getattr takes no lock.
CanUpdate(v) ==
    \A u \in Thread : op[u].pc # "idle" /\ op[u].v = v => op[u].kind = "getattr"

\* mraccess(&fv_lock) succeeds: no operation holds the lock in update mode.
CanAccess(v) ==
    \A u \in Thread : op[u].pc # "idle" /\ op[u].v = v => ~Exclusive(op[u].kind)

----------------------------------------------------------------------------
(* The FAT *)

Fat0 == fat[0]

FreeClusters == {c \in Cluster : Fat0[c] = FAT32_CLUSTER_FREE}

\* Mutant: only the first copy is written.
WriteFirstCopy(f, c, val, k) ==
    [i \in Copy |-> IF i = 0 /\ k > 0 THEN [f[i] EXCEPT ![c] = val] ELSE f[i]]

\* fat32_rmw_cluster writing val: the copies before k are written; k < NumFats
\* when the sector of copy k could not be read.
WriteFat(f, c, val, k) ==
    [i \in Copy |-> IF i < k THEN [f[i] EXCEPT ![c] = val] ELSE f[i]]

\* n breads of FAT, FSInfo or data sectors fail.
IOErrors(n) == errors + n <= MaxErrors /\ errors' = errors + n

IOError == IOErrors(1)

\* start_search of fat32_allocate_cluster
SearchStart == IF nextFree \in Cluster THEN nextFree ELSE FAT32_CLUSTER_MIN

\* The distance of c from the start of the search, which wraps around.
SearchDistance(c) ==
    IF c >= SearchStart THEN c - SearchStart ELSE c - SearchStart + ClusterCount

\* Mutant: next_free is trusted without a look at the FAT.
IsFirstFreeByHint(c) == c = SearchStart

\* The cluster the search stops at.
IsFirstFree(c) ==
    /\ c \in FreeClusters
    /\ \A d \in FreeClusters : SearchDistance(c) <= SearchDistance(d)

NextAfter(c) == IF c + 1 > MaxCluster THEN FAT32_CLUSTER_MIN ELSE c + 1

\* Mutant: the last cluster is not given out.
CountUsableAboveOne == freeCount > 1

CountUsable == freeCount # 0 /\ freeCount # UnknownCount

\* fat32_allocate_cluster(parent) finds no cluster to give out.
AllocateENOSPC ==
    /\ ~CountUsable \/ FreeClusters = {}
    /\ UNCHANGED <<fsVars, errors>>

\* Mutant: the new cluster is not linked to its parent.
AllocateOkUnlinked(parent, c) ==
    /\ CountUsable
    /\ IsFirstFree(c)
    /\ fat' = WriteFat(fat, c, FAT32_CLUSTER_EOC, NumFats)
    /\ freeCount' = freeCount - 1
    /\ nextFree' = NextAfter(c)
    /\ UNCHANGED errors

\* It succeeds with c: c is marked EOC, linked, and counted in the FSInfo.
AllocateOk(parent, c) ==
    /\ CountUsable
    /\ IsFirstFree(c)
    /\ LET marked == WriteFat(fat, c, FAT32_CLUSTER_EOC, NumFats)
       IN fat' = IF parent = 0 THEN marked ELSE WriteFat(marked, parent, c, NumFats)
    /\ freeCount' = freeCount - 1
    /\ nextFree' = NextAfter(c)
    /\ UNCHANGED errors

\* A device error while it searches, marks c, links parent to c, or reads the
\* FSInfo sector.  Only a failed link is undone, and only in part: c is freed
\* again (unless that fails too, at copy j), but the FAT copies before the
\* failing one keep the link.
AllocateEIO(parent) ==
    /\ CountUsable
    /\ UNCHANGED <<freeCount, nextFree>>
    /\ \/ IOError /\ UNCHANGED fat
       \/ \E c \in FreeClusters :
            /\ IsFirstFree(c)
            /\ LET marked == WriteFat(fat, c, FAT32_CLUSTER_EOC, NumFats)
               IN \/ /\ IOError
                     /\ \E k \in Copy : fat' = WriteFat(fat, c, FAT32_CLUSTER_EOC, k)
                  \/ /\ parent # 0
                     /\ \E k \in Copy, j \in 0 .. NumFats :
                          /\ IOErrors(IF j < NumFats THEN 2 ELSE 1)
                          /\ fat' = WriteFat(WriteFat(marked, parent, c, k),
                                             c, FAT32_CLUSTER_FREE, j)
                  \/ /\ IOError
                     /\ fat' = IF parent = 0 THEN marked
                               ELSE WriteFat(marked, parent, c, NumFats)

----------------------------------------------------------------------------
(* The per-vnode cache of chain positions *)

EmptyCache == [i \in Slot |-> [index |-> 0, cluster |-> 0]]

\* The slot fat32_vnode_update_cache gives up for an entry of index n: the
\* first that is empty or has this index, else the least recently used one.
IsTaken(ca, n, i) == ca[i].cluster = 0 \/ ca[i].index = n

VictimSlot(ca, n) ==
    IF \E i \in Slot : IsTaken(ca, n, i)
    THEN CHOOSE i \in Slot : IsTaken(ca, n, i) /\ \A j \in 1 .. i - 1 : ~IsTaken(ca, n, j)
    ELSE 1

\* fat32_vnode_update_cache: the entries above the victim move down and the
\* new one goes to the end.
UpdateCache(ca, n, c) ==
    [i \in Slot |-> IF i = CacheSize THEN [index |-> n, cluster |-> c]
                    ELSE IF i < VictimSlot(ca, n) THEN ca[i] ELSE ca[i + 1]]

\* The entries fat32_vnode_seek_cluster may start from to reach index n.
Candidates(ca, n) ==
    {i \in Slot : ca[i].cluster # 0 /\ ca[i].index <= n /\ ca[i].index > 0}

\* The first entry of the highest such index.
IsBest(ca, n, i) ==
    /\ i \in Candidates(ca, n)
    /\ \A j \in Candidates(ca, n) :
          ca[j].index < ca[i].index \/ (ca[j].index = ca[i].index /\ i <= j)

\* Mutant: the entry of index n itself stays.
InvalidateAbove(ca, n) ==
    [i \in Slot |-> IF ca[i].cluster # 0 /\ ca[i].index > n
                    THEN [ca[i] EXCEPT !.cluster = 0] ELSE ca[i]]

\* fat32_truncate drops the entries from index n on.
Invalidate(ca, n) ==
    [i \in Slot |-> IF ca[i].cluster # 0 /\ ca[i].index >= n
                    THEN [ca[i] EXCEPT !.cluster = 0] ELSE ca[i]]

----------------------------------------------------------------------------
(* Starting an operation *)

\* Mutant: freed_count does not start at zero.
BeginCountingOne(t, k, v, at, g, n) ==
    Go(t, [pc |-> at, kind |-> k, v |-> v, goal |-> g, need |-> n, cur |-> 0,
           idx |-> 0, freed |-> 1, res |-> "ok"])

\* cur, idx, freed and res are set as the operation runs.
Begin(t, k, v, at, g, n) ==
    Go(t, [pc |-> at, kind |-> k, v |-> v, goal |-> g, need |-> n, cur |-> 0,
           idx |-> 0, freed |-> 0, res |-> "ok"])

\* fat32_read from cluster off: mrupdate for the access time, then mrdemote.
\* A read at or past the end of the file returns at once.
Read(t, v, off) ==
    /\ op[t].pc = "idle" /\ v \in Reg /\ CanUpdate(v)
    /\ off < size[v]
    /\ Begin(t, "read", v, "seek", off, 0)
    /\ UNCHANGED <<fsVars, fsiLock, start, size, cache, errors, ghostVars>>

\* fat32_write from cluster off, which may lie beyond the end of the file
Write(t, v, off) ==
    /\ op[t].pc = "idle" /\ v \in Reg /\ CanUpdate(v)
    /\ off < MaxSize
    /\ Begin(t, "write", v, IF start[v] = 0 THEN "first" ELSE "seek", off, 0)
    /\ UNCHANGED <<fsVars, fsiLock, start, size, cache, errors, ghostVars>>

\* fat32_truncate (from fat32_setattr) to n > 0 clusters
Truncate(t, v, n) ==
    /\ op[t].pc = "idle" /\ v \in Reg /\ CanUpdate(v)
    /\ n > 0 /\ n <= MaxSize
    /\ Begin(t, "trunc", v, IF start[v] = 0 THEN "first" ELSE "seek", n - 1, n)
    /\ UNCHANGED <<fsVars, fsiLock, start, size, cache, errors, ghostVars>>

\* fat32_truncate to 0: a file without clusters has nothing to free.
TruncateToZero(t, v) ==
    /\ op[t].pc = "idle" /\ v \in Reg /\ CanUpdate(v)
    /\ UNCHANGED <<fsVars, fsiLock, start, errors, ghostVars>>
    /\ IF start[v] = 0
       THEN /\ cache' = [cache EXCEPT ![v] = EmptyCache]
            /\ size' = [size EXCEPT ![v] = 0]
            /\ Finish(t, "ok")
       ELSE /\ Begin(t, "trunc", v, "free", 0, 0)
            /\ UNCHANGED <<size, cache>>

\* fat32_get_dirent from a lookup or a readdir, at an offset in cluster off
Scan(t, v, off) ==
    /\ op[t].pc = "idle" /\ v \in Dir /\ CanAccess(v)
    /\ off < MaxSize
    /\ Begin(t, "scan", v, "seek", off, 0)
    /\ UNCHANGED <<fsVars, fsiLock, start, size, cache, errors, ghostVars>>

\* Follow the chain of a directory from its start to its end with flags 0:
\* fat32_alloc_fdentry (grow) and fat32_getattr, which holds no lock.
WalkToEnd(t, v, k) ==
    /\ op[t].pc = "idle" /\ v \in Dir /\ start[v] # 0
    /\ \/ k = "grow" /\ CanUpdate(v)
       \/ k = "getattr"
    /\ Go(t, [pc |-> "end", kind |-> k, v |-> v, goal |-> 0, need |-> 0,
              cur |-> start[v], idx |-> 0, freed |-> 0, res |-> "ok"])
    /\ UNCHANGED <<fsVars, fsiLock, start, size, cache, errors, ghostVars>>

----------------------------------------------------------------------------
(* Following and extending a chain *)

\* What an operation does with the cluster it wanted.
Arrived(k) == IF k = "trunc" THEN "peek" ELSE "data"

\* The cursor moves to cluster c at index i.  A seek that reaches its goal
\* records it in the cache; fat32_alloc_fdentry is done when it has its last
\* new cluster.
MoveTo(t, c, i) ==
    LET o == op[t]
    IN IF o.kind = "grow" /\ i = o.goal
       THEN Finish(t, "ok") /\ UNCHANGED cache
       ELSE /\ Go(t, [o EXCEPT !.cur = c, !.idx = i,
                               !.goal = IF i < o.goal THEN o.goal ELSE 0,
                               !.pc = IF i < o.goal THEN "walk" ELSE Arrived(o.kind)])
            /\ cache' = IF i = o.goal
                        THEN [cache EXCEPT ![o.v] = UpdateCache(@, i, c)]
                        ELSE cache

\* fat32_vnode_seek_cluster: start from the best cached entry.
SeekFrom(t, c, i) ==
    /\ MoveTo(t, c, i)
    /\ UNCHANGED <<fsVars, fsiLock, start, size, errors, ghostVars>>

Seek(t) ==
    /\ op[t].pc = "seek"
    /\ LET v == op[t].v
           ca == cache[v]
       IN IF Candidates(ca, op[t].goal) = {}
          THEN SeekFrom(t, start[v], 0)
          ELSE \E i \in Slot : IsBest(ca, op[t].goal, i)
                                /\ SeekFrom(t, ca[i].cluster, ca[i].index)

\* The error an operation returns when fat32_next_cluster fails with r:
\* fat32_get_dirent turns every error into the end of the directory, the
\* loop of fat32_read into EIO.
NextClusterFailed(o, r) ==
    IF o.kind = "scan" THEN "ENOENT"
    ELSE IF o.kind = "read" /\ o.goal = 0 THEN "EIO"
    ELSE r

\* fat32_next_cluster: read FAT[cur] under fsi_lock, and release the lock.
\* At the end of the chain an allocating caller goes on to "alloc".
Walk(t) ==
    LET o   == op[t]
        val == Fat0[o.cur]
    IN /\ o.pc = "walk" /\ fsiLock = NoThread
       /\ UNCHANGED <<fsVars, fsiLock, start, size, errors, ghostVars>>
       /\ \/ val \in Cluster /\ MoveTo(t, val, o.idx + 1)
          \/ /\ val = FAT32_CLUSTER_EOC /\ Allocates(o.kind)
             /\ Go(t, [o EXCEPT !.pc = "alloc"]) /\ UNCHANGED cache
          \/ /\ val = FAT32_CLUSTER_EOC /\ ~Allocates(o.kind)
             /\ Finish(t, NextClusterFailed(o, "ENOSPC")) /\ UNCHANGED cache
          \/ /\ val \in {FAT32_CLUSTER_FREE, FAT32_CLUSTER_BAD}
             /\ Finish(t, NextClusterFailed(o, "EIO")) /\ UNCHANGED cache

WalkError(t) ==
    /\ op[t].pc = "walk" /\ fsiLock = NoThread
    /\ IOError
    /\ Finish(t, NextClusterFailed(op[t], "EIO"))
    /\ UNCHANGED <<fsVars, fsiLock, start, size, cache, ghostVars>>

\* fat32_next_cluster takes fsi_lock again and allocates a cluster linked to
\* cur, whatever FAT[cur] is by now.
Alloc(t) ==
    LET o == op[t]
    IN /\ o.pc = "alloc" /\ fsiLock = NoThread
       /\ \E c \in Cluster :
            /\ AllocateOk(o.cur, c)
            /\ MoveTo(t, c, o.idx + 1)
            /\ owner' = [owner EXCEPT ![c] = o.v]
            /\ pos' = [pos EXCEPT ![c] = o.idx + 1]
       /\ UNCHANGED <<fsiLock, start, size>>

\* The first cluster of an empty file: fat32_next_cluster(fsi, 0, ...)
AllocFirst(t) ==
    LET v == op[t].v
    IN /\ op[t].pc = "first" /\ fsiLock = NoThread
       /\ \E c \in Cluster :
            /\ AllocateOk(0, c)
            /\ start' = [start EXCEPT ![v] = c]
            /\ owner' = [owner EXCEPT ![c] = v]
            /\ pos' = [pos EXCEPT ![c] = 0]
       /\ Go(t, [op[t] EXCEPT !.pc = "seek"])
       /\ UNCHANGED <<fsiLock, size, cache>>

\* Either allocation fails; clusters linked so far stay in the chain.
AllocFails(t) ==
    /\ op[t].pc \in {"first", "alloc"} /\ fsiLock = NoThread
    /\ \/ AllocateENOSPC /\ Finish(t, "ENOSPC")
       \/ AllocateEIO(op[t].cur) /\ Finish(t, "EIO")
    /\ UNCHANGED <<fsiLock, start, size, cache, ghostVars>>

\* The end of a walk with flags 0.  fat32_alloc_fdentry stops at any error;
\* if the free slots it found reach n > 0 clusters past the end, it follows
\* the chain on with NC_ALLOC.
EndOfWalk(t) ==
    IF op[t].kind = "getattr" THEN Finish(t, "ok")
    ELSE \/ Finish(t, "ok")
         \/ \E n \in 1 .. MaxSize :
              /\ op[t].idx + n < MaxSize
              /\ Go(t, [op[t] EXCEPT !.pc = "walk", !.goal = op[t].idx + n])

WalkEnd(t) ==
    LET val == Fat0[op[t].cur]
    IN /\ op[t].pc = "end" /\ fsiLock = NoThread
       /\ \/ /\ val \in Cluster
             /\ Go(t, [op[t] EXCEPT !.cur = val, !.idx = op[t].idx + 1])
          \/ val \notin Cluster /\ EndOfWalk(t)
          \/ op[t].kind = "grow" /\ Finish(t, "ok")   \* enough deleted slots
       /\ UNCHANGED <<fsVars, fsiLock, start, size, cache, errors, ghostVars>>

WalkEndError(t) ==
    /\ op[t].pc = "end" /\ fsiLock = NoThread
    /\ IOError
    /\ \/ EndOfWalk(t)                                 \* of the FAT sector
       \/ op[t].kind = "grow" /\ Finish(t, "EIO")      \* of the cluster
    /\ UNCHANGED <<fsVars, fsiLock, start, size, cache, ghostVars>>

----------------------------------------------------------------------------
(* Transferring data *)

\* The loop has more to transfer and asks for the next cluster, or is done
\* and records where it ended.
TransferNext(t, more) ==
    LET o == op[t]
    IN \/ more /\ Go(t, [op[t] EXCEPT !.pc = "walk"]) /\ UNCHANGED cache
       \/ /\ cache' = [cache EXCEPT ![o.v] = UpdateCache(@, o.idx, o.cur)]
          /\ Finish(t, "ok")

\* fat32_read clips its range to the size of the file.
ReadData(t) ==
    /\ op[t].pc = "data" /\ op[t].kind = "read"
    /\ TransferNext(t, op[t].idx + 1 < size[op[t].v])
    /\ UNCHANGED <<fsVars, fsiLock, start, size, errors, ghostVars>>

\* fat32_write grows the size after every cluster.
WriteData(t) ==
    LET o == op[t]
    IN /\ o.pc = "data" /\ o.kind = "write"
       /\ size' = [size EXCEPT ![o.v] = IF o.idx + 1 > @ THEN o.idx + 1 ELSE @]
       /\ TransferNext(t, o.idx + 1 < MaxSize)
       /\ UNCHANGED <<fsVars, fsiLock, start, errors, ghostVars>>

\* fat32_get_dirent finds an entry, the end marker, or needs more clusters.
ScanData(t) ==
    /\ op[t].pc = "data" /\ op[t].kind = "scan"
    /\ \/ Finish(t, "ok")
       \/ Finish(t, "ENOENT")
       \/ Go(t, [op[t] EXCEPT !.pc = "walk"])
    /\ UNCHANGED <<fsVars, fsiLock, start, size, cache, errors, ghostVars>>

\* The cluster cannot be read, or uiomove faults on the caller's buffer.
DataError(t) ==
    /\ op[t].pc = "data"
    /\ \/ IOError /\ Finish(t, "EIO")
       \/ op[t].kind # "scan" /\ Finish(t, "EFAULT") /\ UNCHANGED errors
    /\ UNCHANGED <<fsVars, fsiLock, start, size, cache, ghostVars>>

----------------------------------------------------------------------------
(* fat32_truncate and fat32_free_clusters *)

\* Mutants: the size is one short, one too much, or not set.
SetSizeShort(t)  == size' = [size EXCEPT ![op[t].v] = op[t].need - 1]
SetSizeLong(t)   == size' = [size EXCEPT ![op[t].v] = op[t].need + 1]
SetSizeForgot(t) == op[t].v \in Vnode /\ UNCHANGED size

\* fat32_truncate sets the size when the chain has its new length.
SetSize(t) == size' = [size EXCEPT ![op[t].v] = op[t].need]

\* fat32_truncate looks for a cluster after the last one it needs.
Peek(t) ==
    LET val == Fat0[op[t].cur]
    IN /\ op[t].pc = "peek" /\ fsiLock = NoThread
       /\ \/ /\ val \in Cluster
             /\ Go(t, [op[t] EXCEPT !.pc = "free"])
             /\ UNCHANGED <<size, errors>>
          \/ val = FAT32_CLUSTER_EOC /\ SetSize(t) /\ Finish(t, "ok") /\ UNCHANGED errors
          \/ /\ val \in {FAT32_CLUSTER_FREE, FAT32_CLUSTER_BAD}
             /\ Finish(t, "EIO") /\ UNCHANGED <<size, errors>>
          \/ IOError /\ Finish(t, "EIO") /\ UNCHANGED size
       /\ UNCHANGED <<fsVars, fsiLock, start, cache, ghostVars>>

\* Mutant: fv_cluster stays at the chain that was freed.
TruncatedKeepsStart(t) ==
    /\ start' = start
    /\ cache' = [cache EXCEPT ![op[t].v] = Invalidate(@, op[t].need)]
    /\ SetSize(t)
    /\ Finish(t, "ok")

\* What fat32_truncate does when fat32_free_clusters has succeeded.
Truncated(t) ==
    LET o == op[t]
    IN /\ start' = IF o.need = 0 THEN [start EXCEPT ![o.v] = 0] ELSE start
       /\ cache' = [cache EXCEPT ![o.v] = IF o.need = 0 THEN EmptyCache
                                          ELSE Invalidate(@, o.need)]
       /\ SetSize(t)
       /\ Finish(t, "ok")

\* fat32_free_clusters takes fsi_lock.  With free_start it frees from
\* fv_cluster on; without, it first ends the chain at cur.
FreeWhole(t) ==
    /\ op[t].pc = "free" /\ op[t].need = 0 /\ fsiLock = NoThread
    /\ fsiLock' = t
    /\ Go(t, [op[t] EXCEPT !.pc = "freeing", !.cur = start[op[t].v]])
    /\ UNCHANGED <<fsVars, start, size, cache, errors, ghostVars>>

FreeTail(t) ==
    LET c   == op[t].cur
        val == Fat0[c]
    IN /\ op[t].pc = "free" /\ op[t].need > 0 /\ fsiLock = NoThread
       /\ fat' = WriteFat(fat, c, FAT32_CLUSTER_EOC, NumFats)
       /\ IF val = FAT32_CLUSTER_EOC
          THEN Truncated(t) /\ UNCHANGED fsiLock
          ELSE /\ fsiLock' = t
               /\ Go(t, [op[t] EXCEPT !.pc = "freeing", !.cur = val])
               /\ UNCHANGED <<start, size, cache>>
       /\ UNCHANGED <<freeCount, nextFree, errors, ghostVars>>

FreeTailError(t) ==
    /\ op[t].pc = "free" /\ op[t].need > 0 /\ fsiLock = NoThread
    /\ IOError
    /\ \E k \in Copy : fat' = WriteFat(fat, op[t].cur, FAT32_CLUSTER_EOC, k)
    /\ Finish(t, "EIO")
    /\ UNCHANGED <<freeCount, nextFree, fsiLock, start, size, cache, ghostVars>>

\* One turn of the loop: cur becomes free, and its old successor is next.
FreeStep(t) ==
    LET c == op[t].cur
    IN /\ op[t].pc = "freeing" /\ c \in Cluster
       /\ fat' = WriteFat(fat, c, FAT32_CLUSTER_FREE, NumFats)
       /\ Go(t, [op[t] EXCEPT !.cur = Fat0[c], !.freed = op[t].freed + 1])
       /\ owner' = [owner EXCEPT ![c] = NoVnode]
       /\ UNCHANGED <<freeCount, nextFree, fsiLock, start, size, cache, errors, pos>>

\* Mutant: the error path keeps fsi_lock.
FreeFailsLocked(t) ==
    /\ op[t].pc = "freeing" /\ op[t].cur \in Cluster /\ IOError
    /\ Finish(t, "EIO")
    /\ UNCHANGED <<fsVars, fsiLock, start, size, cache, ghostVars>>

\* The loop stops at a device error, or at a mark that is no cluster number
\* but below EOC; the clusters freed so far are not counted.
FreeFails(t) ==
    LET c == op[t].cur
    IN /\ op[t].pc = "freeing"
       /\ \/ /\ c \in Cluster /\ IOError
             /\ \E k \in Copy : fat' = WriteFat(fat, c, FAT32_CLUSTER_FREE, k)
             /\ Finish(t, "EIO")
          \/ /\ c = FAT32_CLUSTER_BAD
             /\ Finish(t, "EINVAL")
             /\ UNCHANGED <<fat, errors>>
       /\ fsiLock' = NoThread
       /\ UNCHANGED <<freeCount, nextFree, start, size, cache, ghostVars>>

\* The loop is done: count the freed clusters, unless the FSInfo sector
\* cannot be read or the count is unknown.
FreeDone(t) ==
    LET o == op[t]
    IN /\ o.pc = "freeing" /\ o.cur \in {FAT32_CLUSTER_FREE, FAT32_CLUSTER_EOC}
       /\ \/ /\ freeCount' = IF freeCount = UnknownCount THEN freeCount
                              ELSE freeCount + o.freed
             /\ UNCHANGED errors
          \/ o.freed > 0 /\ IOError /\ UNCHANGED freeCount
       /\ fsiLock' = NoThread
       /\ Truncated(t)
       /\ UNCHANGED <<fat, nextFree, ghostVars>>

----------------------------------------------------------------------------
(* The specification *)

Owner0(c) == IF \E v \in Vnode : \E i \in 1 .. Len(Layout[v]) : Layout[v][i] = c
             THEN CHOOSE v \in Vnode : \E i \in 1 .. Len(Layout[v]) : Layout[v][i] = c
             ELSE NoVnode

Pos0(c) == IF Owner0(c) = NoVnode THEN 0
           ELSE (CHOOSE i \in 1 .. Len(Layout[Owner0(c)]) : Layout[Owner0(c)][i] = c) - 1

\* The FAT entry of cluster c on a volume with these chains
Entry0(c) ==
    IF Owner0(c) # NoVnode
    THEN IF Pos0(c) + 2 <= Len(Layout[Owner0(c)])
         THEN Layout[Owner0(c)][Pos0(c) + 2] ELSE FAT32_CLUSTER_EOC
    ELSE IF c \in Bad THEN FAT32_CLUSTER_BAD ELSE FAT32_CLUSTER_FREE

\* A mounted volume with every vnode just made by a lookup, cache empty.
Init ==
    /\ fat = [k \in Copy |-> [c \in Cluster |-> Entry0(c)]]
    /\ freeCount = IF FsInfoValid
                   THEN Cardinality({c \in Cluster : Entry0(c) = FAT32_CLUSTER_FREE})
                   ELSE UnknownCount
    /\ nextFree = NextFree0
    /\ fsiLock = NoThread
    /\ start = [v \in Vnode |-> IF Layout[v] = <<>> THEN 0 ELSE Layout[v][1]]
    /\ size = [v \in Vnode |-> IF v \in Dir THEN 0 ELSE Len(Layout[v])]
    /\ cache = [v \in Vnode |-> EmptyCache]
    /\ op = [t \in Thread |-> Idle("ok")]
    /\ errors = 0
    /\ owner = [c \in Cluster |-> Owner0(c)]
    /\ pos = [c \in Cluster |-> Pos0(c)]

\* A step of an operation that has begun
Step(t) ==
    \/ Seek(t) \/ Walk(t) \/ WalkError(t)
    \/ Alloc(t) \/ AllocFirst(t) \/ AllocFails(t)
    \/ WalkEnd(t) \/ WalkEndError(t)
    \/ ReadData(t) \/ WriteData(t) \/ ScanData(t) \/ DataError(t)
    \/ Peek(t) \/ FreeWhole(t) \/ FreeTail(t) \/ FreeTailError(t)
    \/ FreeStep(t) \/ FreeFails(t) \/ FreeDone(t)

\* A system call begins.
Call(t) ==
    /\ CallsAfterError \/ errors = 0
    /\ \E v \in Vnode :
        \/ \E off \in 0 .. MaxSize - 1 :
              Read(t, v, off) \/ Write(t, v, off) \/ Scan(t, v, off)
        \/ \E n \in 1 .. MaxSize : Truncate(t, v, n)
        \/ TruncateToZero(t, v)
        \/ \E k \in {"grow", "getattr"} : WalkToEnd(t, v, k)

Next == \E t \in Thread : Step(t) \/ Call(t)

\* IRIX mrlocks queue their waiters, so a thread that waits for fsi_lock gets
\* it in the end: strong fairness of its steps.  No system call need be made.
Fairness == \A t \in Thread : SF_vars(Step(t))

Spec == Init /\ [][Next]_vars /\ Fairness

----------------------------------------------------------------------------
(* Properties *)

\* Every piece of the state keeps its type: sizes never go below zero, what
\* a vnode, a cache entry or an operation has in hand is a cluster of the
\* volume, and the FAT holds nothing but clusters and marks.
TypeOK ==
    /\ fat \in [Copy -> [Cluster -> Entry]]
    /\ freeCount \in Nat \cup {UnknownCount}
    /\ nextFree \in Nat
    /\ fsiLock \in Thread \cup {NoThread}
    /\ start \in [Vnode -> {0} \cup Cluster]
    /\ size \in [Vnode -> Nat]
    /\ cache \in [Vnode -> [Slot -> [index : Nat, cluster : {0} \cup Cluster]]]
    /\ op \in [Thread -> Op]
    /\ errors \in Nat
    /\ owner \in [Cluster -> Vnode \cup {NoVnode}]
    /\ pos \in [Cluster -> Nat]

Undamaged == errors = 0

\* A chain that starts at a cluster marked free or bad is broken; the vnode
\* whose whole chain fat32_free_clusters is freeing does not count.
FreeingAll(v) == \E t \in Thread : op[t].pc = "freeing" /\ op[t].v = v /\ op[t].need = 0

InUse(c) == Fat0[c] \notin {FAT32_CLUSTER_FREE, FAT32_CLUSTER_BAD}

\* No cluster belongs to two chains, or to two places of one: at most one FAT
\* entry or vnode leads to it.  fat32_allocate_cluster gives out only
\* clusters it saw free, and fat32_free_clusters leaves none linked.
NoCrossLink ==
    Undamaged =>
        /\ \A b, c \in Cluster : Fat0[b] \in Cluster /\ Fat0[b] = Fat0[c] => b = c
        /\ \A v \in Vnode : start[v] # 0 =>
             /\ \A c \in Cluster : Fat0[c] # start[v]
             /\ \A w \in Vnode \ {v} : start[w] # start[v]

\* What a FAT entry or a vnode leads to is in use, so that the allocator
\* cannot give it to another file (fat32_free_clusters, fat32_truncate).
NoDanglingLink ==
    Undamaged =>
        /\ \A c \in Cluster : Fat0[c] \in Cluster => InUse(Fat0[c])
        /\ \A v \in Vnode : start[v] # 0 /\ ~FreeingAll(v) => InUse(start[v])

\* Every cluster in use belongs to a file: something leads to it, unless
\* fat32_free_clusters is about to free it.  An operation that runs out of
\* space leaves no cluster behind that nobody can reach.
NoLostCluster ==
    Undamaged =>
        \A c \in Cluster : InUse(c) =>
            \/ \E v \in Vnode : start[v] = c
            \/ \E b \in Cluster : Fat0[b] = c
            \/ \E t \in Thread : op[t].pc = "freeing" /\ op[t].cur = c

\* fsi_free_count is the number of free clusters whenever fsi_lock is free.
FreeCountExact ==
    Undamaged /\ FsInfoValid /\ fsiLock = NoThread => freeCount = Cardinality(FreeClusters)

\* A device error leaves the FAT copies different in one entry at most, for
\* fat32_rmw_cluster writes every copy or stops.
CopiesDifferByErrors ==
    Cardinality({c \in Cluster : \E k \in Copy : fat[k][c] # Fat0[c]}) <= errors

\* Without a device error no operation returns EIO or EINVAL: the checks for
\* free, bad and invalid clusters in fat32_next_cluster and
\* fat32_free_clusters never fire on chains this driver made.
NoFalseEIO ==
    Undamaged => \A t \in Thread : op[t].res \notin {"EIO", "EINVAL"}

\* A read within the file size never meets the end of the chain.
ReadsCovered ==
    Undamaged => \A t \in Thread :
        op[t].kind = "read" /\ op[t].pc = "walk" => Fat0[op[t].cur] \in Cluster

\* A link, once made, is cut or freed but never replaced by another: what
\* fat32_next_cluster saw at the end of a chain is still the end when it has
\* taken fsi_lock again and links a new cluster there.
LinksNotOverwritten ==
    [][errors' = 0 => \A c \in Cluster :
         Fat0[c] \in Cluster /\ Fat0'[c] \in Cluster => Fat0'[c] = Fat0[c]]_vars

\* fat32_allocate_cluster returns ENOSPC only when no cluster is free.
EnospcMeansFull ==
    [][\A t \in Thread :
         /\ Undamaged
         /\ op[t].pc \in {"first", "alloc"} /\ op'[t].pc = "idle"
         /\ op'[t].res = "ENOSPC"
         => FreeClusters = {}]_vars

\* The cluster at index n of the chain of v, by the FAT
ClusterAt(v, n) ==
    LET at[i \in 0 .. n] ==
            IF i = 0 THEN start[v]
            ELSE IF at[i - 1] \in Cluster THEN Fat0[at[i - 1]] ELSE FAT32_CLUSTER_EOC
    IN at[n]

Truncating(v) == \E t \in Thread : op[t].pc = "freeing" /\ op[t].v = v

\* Every cached position is the true one, whatever seeks, truncations and
\* allocations came between (fat32_vnode_update_cache, fat32_truncate).
CacheCoherent ==
    Undamaged => \A v \in Vnode : ~Truncating(v) =>
        \A i \in Slot : cache[v][i].cluster # 0 =>
            cache[v][i].cluster = ClusterAt(v, cache[v][i].index)

\* The chain of a file has a cluster for all of its size, also after a write
\* or truncate that failed half way.
ChainCoversSize ==
    Undamaged => \A v \in Reg : ~Truncating(v) /\ size[v] > 0 =>
        ClusterAt(v, size[v] - 1) \in Cluster

\* Every operation returns, also when the device fails under it or another:
\* fsi_lock is released on every path.
OpsFinish == \A t \in Thread : op[t].pc # "idle" ~> op[t].pc = "idle"
============================================================================
