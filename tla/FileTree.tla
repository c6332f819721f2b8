------------------------------ MODULE FileTree ------------------------------
(***************************************************************************)
(* The tree of directories on the disk and the vnodes that processes have  *)
(* of it: fat32_lookup, fat32_create, fat32_mkdir, fat32_remove,           *)
(* fat32_rmdir, fat32_rename, fat32_write, fat32_setattr, and the          *)
(* write-back of a vnode's metadata to its directory entry by fat32_close, *)
(* fat32_fsync and fat32_inactive (fat32_vnode.c, fat32_dir.c).            *)
(*                                                                         *)
(* Here an entry takes one slot and a file or directory one cluster; how   *)
(* names take slots is the subject of DirSlots, how chains grow that of    *)
(* ClusterChains.  Calls that return an error and change nothing are not   *)
(* steps of the model.  Every lookup makes a new vnode.                    *)
(***************************************************************************)
EXTENDS Naturals, FiniteSets

CONSTANTS
    Thread,
    Cluster, Root,      \* clusters; the one of the root directory
    Slots,              \* bound: Slots[c], the slots of a directory in cluster c
    Name,
    Vnode, RootVnode,   \* bound: the vnodes vn_alloc can give
    MaxFaults,          \* bound: device errors that do harm, in a behaviour
    CallsAfterHarm,     \* bound: whether calls begin after harm was done
    Practices,          \* what processes do besides, see Practice
    NoThread, NoCluster, NoName, NoVnode

\* contend:  a file or directory is removed, renamed or opened again while it
\*           has a vnode; a directory is changed through two vnodes at a time
\* truncate: fat32_create is called with AT_SIZE for a file with data
\* move_data: files with data are renamed
Practice == {"contend", "truncate", "move_data"}

ASSUME TreeAssumption ==
    /\ Root \in Cluster /\ RootVnode \in Vnode /\ Slots \in [Cluster -> SUBSET (Nat \ {0})]
    /\ NoThread \notin Thread /\ NoCluster \notin Cluster /\ NoName \notin Name
    /\ NoVnode \notin Vnode
    /\ MaxFaults \in Nat /\ CallsAfterHarm \in BOOLEAN /\ Practices \subseteq Practice

VARIABLES
    use,      \* use[c]: "free", or what cluster c is allocated to: a directory,
              \* a file that has put no data there yet, or the data of a file
    dir,      \* dir[c][s]: the entry in slot s of the directory in cluster c
    dotdot,   \* dotdot[c]: the cluster in its ".." entry
    vn,       \* vn[v]: fat32fs_vnode_t of vnode v
    lock,     \* lock[v]: the thread that holds its fv_lock for update
    op,       \* the call each thread is in
    faults    \* device errors that did harm so far, and whether any harm was done

vars == <<use, dir, dotdot, vn, lock, op, faults>>

----------------------------------------------------------------------------
(* Entries, vnodes and calls *)

\* FV_DIRTY_MASK; "time" stands for the times and the attributes.
Flag == {"time", "size", "cluster"}

Entry == [name : Name \cup {NoName}, first : Cluster \cup {NoCluster}, size : 0 .. 1,
          isdir : BOOLEAN]

FreeSlot == [name |-> NoName, first |-> NoCluster, size |-> 0, isdir |-> FALSE]

EmptyDir(c) == [s \in Slots[c] |-> FreeSlot]

\* first, size: fv_cluster, fv_size; the entry is slot s of the directory of
\* the parent vnode: fv_parent_vp, fv_parent_cluster, fv_diroff
FatVnode == [used : BOOLEAN, first : Cluster \cup {NoCluster}, size : 0 .. 1,
             isdir : BOOLEAN, parent : Vnode \cup {NoVnode}, s : Nat,
             dirty : SUBSET Flag]

NoFatVnode == [used |-> FALSE, first |-> NoCluster, size |-> 0, isdir |-> FALSE,
               parent |-> NoVnode, s |-> 0, dirty |-> {}]

RootFatVnode == [NoFatVnode EXCEPT !.used = TRUE, !.first = Root, !.isdir = TRUE]

PC == {"idle", "make", "delete", "lock_target", "replace", "move",
       "sync_parent", "sync_self"}

\* A call on name n of directory vnode v; rename: to name m of vnode w.  s, e:
\* the slot and the entry it has found.  last: whether it is fat32_inactive
Idle == [pc |-> "idle", v |-> NoVnode, w |-> NoVnode, n |-> NoName, m |-> NoName,
         s |-> 0, e |-> FreeSlot, last |-> FALSE]

Op == [pc : PC, v : Vnode \cup {NoVnode}, w : Vnode \cup {NoVnode},
       n : Name \cup {NoName}, m : Name \cup {NoName}, s : Nat,
       e : Entry, last : BOOLEAN]

Go(t, o) == op' = [op EXCEPT ![t] = o]

\* The slots of the directory in cluster c that hold name n
Find(c, n) == {s \in Slots[c] : dir[c][s].name = n}

\* fat32_alloc_fdentry: the first of the slots in S, if there is one
First(S) == {s \in S : \A r \in S : s <= r}

\* Mutant: the first slot is taken, free or not.
RoomAnywhere(c) == First(Slots[c])

Room(c) == First(Find(c, NoName))

Unallocated == {c \in Cluster : use[c] = "free"}

SpareVnodes == {v \in Vnode : ~vn[v].used}

\* mrunlock of all that t holds
Unlock(t) == lock' = [v \in Vnode |-> IF lock[v] = t THEN NoThread ELSE lock[v]]

Return(t) == Go(t, Idle) /\ Unlock(t)

\* A device error that leaves the disk as it was, or as another return of the
\* call does: there may be any number of them.
Survived == UNCHANGED faults

\* One after which the disk is not what it should be
Mishap == faults.met < MaxFaults /\ faults' = [met |-> faults.met + 1, harm |-> TRUE]

\* The same from a full directory: no device error
Loss == faults' = [faults EXCEPT !.harm = TRUE]

----------------------------------------------------------------------------
(* What processes do *)

\* The vnodes a call works on
Uses(o) == {o.v, o.w, IF o.pc \in {"sync_parent", "sync_self"} THEN vn[o.v].parent
                      ELSE NoVnode} \ {NoVnode}

\* A call of t may begin on vnode v: it is there, is not being torn down, and
\* no other thread is at work in its directory through another vnode of it.
MayCall(t, v) ==
    /\ op[t].pc = "idle" /\ vn[v].used
    /\ CallsAfterHarm \/ ~faults.harm
    /\ \A u \in Thread :
         /\ op[u].last => op[u].v # v
         /\ "contend" \notin Practices /\ vn[v].isdir =>
               \A w \in Uses(op[u]) : vn[w].first = vn[v].first => w = v

\* A vnode has its entry in slot s of the directory in cluster c, or a call is
\* about to make one.
InUse(c, s) ==
    \/ \E v \in Vnode \ {RootVnode} : vn[v].used /\ vn[vn[v].parent].first = c /\ vn[v].s = s
    \/ \E t \in Thread : op[t].pc = "make" /\ vn[op[t].v].first = c /\ op[t].s = s

MayTake(c, s) == "contend" \in Practices \/ ~InUse(c, s)

\* Directories may be looked up any number of times.
MayOpen(c, s) == dir[c][s].isdir \/ MayTake(c, s)

----------------------------------------------------------------------------
(* Vnodes *)

\* fat32_make_vnode for the entry e in slot s of the directory of p, with fw
\* the vnodes after the call's other changes.  ENOMEM if vn_alloc has none.
VnodeOf(e, p, s, flags) ==
    [used |-> TRUE, first |-> e.first, size |-> e.size, isdir |-> e.isdir,
     parent |-> p, s |-> s, dirty |-> flags]

MakeVnode(fw, e, p, s, flags) ==
    \/ \E v \in SpareVnodes : vn' = [fw EXCEPT ![v] = VnodeOf(e, p, s, flags)]
    \/ SpareVnodes = {} /\ vn' = fw

\* Mutant: FV_MODIFIED is one of the dirty flags.
TouchedModified(fw, v) ==
    IF v = RootVnode THEN fw ELSE [fw EXCEPT ![v].dirty = @ \cup {"time", "modified"}]

\* fat32_touch.  The root has no entry, and its flags are never written back.
Touched(fw, v) ==
    IF v = RootVnode THEN fw ELSE [fw EXCEPT ![v].dirty = @ \cup {"time"}]

\* fat32_lookup reads the entry with fv_lock of the directory held for access,
\* and makes the vnode when it has let go of the lock.
Lookup(t, v, n) ==
    LET c == vn[v].first
    IN /\ MayCall(t, v) /\ vn[v].isdir /\ lock[v] = NoThread
       /\ \E s \in Find(c, n) :
            /\ MayOpen(c, s)
            /\ Go(t, [Idle EXCEPT !.pc = "make", !.v = v, !.n = n, !.s = s, !.e = dir[c][s]])
       /\ UNCHANGED <<use, dir, dotdot, vn, lock, faults>>

LookupMake(t) ==
    /\ op[t].pc = "make"
    /\ MakeVnode(vn, op[t].e, op[t].v, op[t].s, {})
    /\ Go(t, Idle)
    /\ UNCHANGED <<use, dir, dotdot, lock, faults>>

----------------------------------------------------------------------------
(* fat32_create and fat32_mkdir hold fv_lock of the directory throughout. *)

\* A new entry goes into a free slot.  The new vnode has its times dirty.
EnterNew(v, s, e) ==
    /\ dir' = IF e.isdir
              THEN [dir EXCEPT ![vn[v].first][s] = e, ![e.first] = EmptyDir(e.first)]
              ELSE [dir EXCEPT ![vn[v].first][s] = e]
    /\ MakeVnode(IF SpareVnodes = {} THEN vn ELSE Touched(vn, v), e, v, s, {"time"})

Create(t, v, n) ==
    LET c == vn[v].first
    IN /\ MayCall(t, v) /\ vn[v].isdir /\ lock[v] = NoThread
       /\ Find(c, n) = {}
       /\ \E s \in Room(c) :
            EnterNew(v, s, [name |-> n, first |-> NoCluster, size |-> 0, isdir |-> FALSE])
       /\ UNCHANGED <<use, dotdot, lock, op, faults>>

\* The name is there, VEXCL is not set: the file's vnode, or, for reading
\* only, the directory's.  With AT_SIZE the file is truncated first (to no
\* size here), which may fail when its cluster is free; fat32_make_vnode then
\* clears fv_flags.
CreateExisting(t, v, n, truncate) ==
    LET c == vn[v].first
    IN /\ MayCall(t, v) /\ vn[v].isdir /\ lock[v] = NoThread
       /\ \E s \in Find(c, n) :
            LET e == dir[c][s]
                cut == truncate /\ ~e.isdir
            IN /\ MayOpen(c, s)
               /\ cut => "truncate" \in Practices \/ e.first = NoCluster
               /\ use' = IF cut /\ e.first # NoCluster
                         THEN [use EXCEPT ![e.first] = "free"] ELSE use
               /\ \/ /\ MakeVnode(IF e.isdir THEN vn ELSE Touched(vn, v),
                                  IF cut THEN [e EXCEPT !.first = NoCluster, !.size = 0] ELSE e,
                                  v, s, {})
                     /\ UNCHANGED faults
                  \/ cut /\ e.first # NoCluster /\ Mishap /\ UNCHANGED vn
       /\ UNCHANGED <<dir, dotdot, lock, op>>

\* Mutant: the new directory's ".." is not set.
InitDirLoose(c, parent) == dotdot' = [dotdot EXCEPT ![c] = c]

\* fat32_init_dir
InitDir(c, parent) == dotdot' = [dotdot EXCEPT ![c] = parent]

\* A cluster is allocated, initialised and entered; a device error after the
\* first of these leaves it allocated.
Mkdir(t, v, n) ==
    LET c == vn[v].first
    IN /\ MayCall(t, v) /\ vn[v].isdir /\ lock[v] = NoThread
       /\ Find(c, n) = {} /\ Room(c) # {}
       /\ \E new \in Unallocated :
            /\ use' = [use EXCEPT ![new] = "dir"]
            /\ \/ /\ InitDir(new, c)
                  /\ \E s \in Room(c) :
                       EnterNew(v, s, [name |-> n, first |-> new, size |-> 0, isdir |-> TRUE])
                  /\ UNCHANGED faults
               \/ Mishap /\ UNCHANGED <<dir, dotdot, vn>>
       /\ UNCHANGED <<lock, op>>

----------------------------------------------------------------------------
(* fat32_remove and fat32_rmdir: fat32_remove_common *)

\* Mutant: the emptiness of a directory is not tested.
DirEmptyAssumed(c) == UNCHANGED faults

\* fat32_dirempty returns 0; it takes a FAT entry it cannot read for the end
\* of the directory.
DirEmpty(c) == IF dir[c] = EmptyDir(c) THEN UNCHANGED faults ELSE Mishap

\* The entry is found and may be removed.  fv_lock of the directory is held,
\* not that of the directory being removed.
RemoveFind(t, v, n) ==
    LET c == vn[v].first
    IN /\ MayCall(t, v) /\ vn[v].isdir /\ lock[v] = NoThread
       /\ \E s \in Find(c, n) :
            /\ MayTake(c, s)
            /\ IF dir[c][s].isdir THEN DirEmpty(dir[c][s].first) ELSE UNCHANGED faults
            /\ Go(t, [Idle EXCEPT !.pc = "delete", !.v = v, !.n = n, !.s = s, !.e = dir[c][s]])
       /\ lock' = [lock EXCEPT ![v] = t]
       /\ UNCHANGED <<use, dir, dotdot, vn>>

\* Mutant: an entry's clusters stay allocated.
DeleteAndKeep(c, s, first) ==
    dir' = [dir EXCEPT ![c][s] = FreeSlot] /\ UNCHANGED <<use, faults>>

\* The entry in slot s of directory c is deleted and its clusters are freed,
\* also if the entry could not be deleted.
DeleteAndFree(c, s, first) ==
    LET gone  == [dir EXCEPT ![c][s] = FreeSlot]
        freed == IF first = NoCluster THEN use ELSE [use EXCEPT ![first] = "free"]
    IN \/ dir' = gone /\ use' = freed /\ UNCHANGED faults
       \/ Mishap /\ dir' = dir /\ use' = freed
       \/ Mishap /\ dir' = gone /\ use' = use

RemoveDelete(t) ==
    LET o == op[t]
    IN /\ o.pc = "delete"
       /\ DeleteAndFree(vn[o.v].first, o.s, o.e.first)
       /\ vn' = Touched(vn, o.v)
       /\ Return(t)
       /\ UNCHANGED dotdot

----------------------------------------------------------------------------
(* fat32_rename *)

SameDir(o) == vn[o.v].first = vn[o.w].first

\* The type of the target must be that of the source.  A target directory goes
\* on to be removed only if it is not empty: fat32_dirempty returns 0 when it is.
MayReplace(e, target) ==
    e.isdir = target.isdir /\ (target.isdir => dir[target.first] # EmptyDir(target.first))

\* With the locks in ls held, the source and the target are looked for.
RenameFind(t, o, ls) ==
    LET c == vn[o.v].first
        d == vn[o.w].first
        targets == Find(d, o.m)
    IN \/ /\ Find(c, o.n) = {}                                          \* ENOENT
          /\ Return(t)
       \/ \E s \in Find(c, o.n) :
            LET e == dir[c][s]
            IN /\ MayTake(c, s) /\ \A x \in targets : MayTake(d, x)
               /\ "move_data" \in Practices \/ e.size = 0
               /\ \/ /\ \A x \in targets : MayReplace(e, dir[d][x])
                     /\ Go(t, [o EXCEPT !.pc = IF targets = {} THEN "move" ELSE "replace",
                                        !.s = s, !.e = e])
                     /\ lock' = [v \in Vnode |-> IF v \in ls THEN t ELSE lock[v]]
                  \/ /\ \E x \in targets : ~MayReplace(e, dir[d][x])
                     /\ Return(t)                      \* EISDIR, ENOTDIR, EEXIST

\* fv_lock of the source directory, then that of the target directory
RenameCall(t, v, n, w, m) ==
    LET o == [Idle EXCEPT !.v = v, !.w = w, !.n = n, !.m = m]
    IN /\ MayCall(t, v) /\ MayCall(t, w) /\ vn[v].isdir /\ vn[w].isdir
       /\ ~(SameDir(o) /\ n = m)
       /\ lock[v] = NoThread
       /\ \/ SameDir(o) /\ RenameFind(t, o, {v})
          \/ /\ ~SameDir(o)
             /\ lock' = [lock EXCEPT ![v] = t]
             /\ Go(t, [o EXCEPT !.pc = "lock_target"])
       /\ UNCHANGED <<use, dir, dotdot, vn, faults>>

RenameLockTarget(t) ==
    /\ op[t].pc = "lock_target" /\ lock[op[t].w] = NoThread
    /\ RenameFind(t, op[t], {op[t].v, op[t].w})
    /\ UNCHANGED <<use, dir, dotdot, vn, faults>>

\* fat32_remove_common takes fv_lock of the target directory itself, finds the
\* target again and removes it if it is a file.  fat32_rename holds that lock
\* unless v and w are two vnodes of one directory.
RenameReplace(t) ==
    LET o == op[t]
        d == vn[o.w].first
    IN /\ o.pc = "replace" /\ lock[o.w] = NoThread
       /\ \E x \in Find(d, o.m) :
            \/ /\ dir[d][x].isdir                                      \* ENOTEMPTY
               /\ Return(t) /\ UNCHANGED <<use, dir, vn, faults>>
            \/ /\ ~dir[d][x].isdir
               /\ DeleteAndFree(d, x, dir[d][x].first)
               /\ vn' = Touched(vn, o.w)
               /\ Go(t, [o EXCEPT !.pc = "move"]) /\ UNCHANGED lock
       /\ UNCHANGED dotdot

\* Mutant: the entry made by a rename has no first cluster.
RenamedBare(e, m) == [e EXCEPT !.name = m, !.size = 0, !.first = NoCluster]

\* fat32_create_fdentry with FAT32_CRE_RENAME writes an entry without a size.
Renamed(e, m) == [e EXCEPT !.name = m, !.size = 0]

\* Mutant: ".." keeps the old parent.
DotDotKept(e, d) == UNCHANGED <<dotdot, faults>>

\* The ".." of a directory that moved; errors are passed over.
DotDotMoved(e, d) ==
    \/ e.isdir /\ dotdot' = [dotdot EXCEPT ![e.first] = d] /\ UNCHANGED faults
    \/ e.isdir /\ Mishap /\ UNCHANGED dotdot
    \/ ~e.isdir /\ UNCHANGED <<dotdot, faults>>

\* In one directory the old slot is used again if the new name fits.
RenameInPlace(t) ==
    LET o == op[t]
    IN /\ o.pc = "move" /\ SameDir(o)
       /\ dir' = [dir EXCEPT ![vn[o.v].first][o.s] = Renamed(o.e, o.m)]
       /\ vn' = Touched(vn, o.v)
       /\ Return(t)
       /\ UNCHANGED <<use, dotdot, faults>>

\* Otherwise the old entry is deleted, then the new one made, if there is room.
RenameMove(t) ==
    LET o == op[t]
        c == vn[o.v].first
        d == vn[o.w].first
        gone == [dir EXCEPT ![c][o.s] = FreeSlot]
        room == First({s \in Slots[d] : gone[d][s] = FreeSlot})
    IN /\ o.pc = "move"
       /\ \/ /\ \E s \in room : dir' = [gone EXCEPT ![d][s] = Renamed(o.e, o.m)]
             /\ IF SameDir(o) THEN UNCHANGED <<dotdot, faults>> ELSE DotDotMoved(o.e, d)
             /\ vn' = IF SameDir(o) THEN Touched(vn, o.v)
                      ELSE Touched(Touched(vn, o.v), o.w)
          \/ Loss /\ room = {} /\ dir' = gone /\ UNCHANGED <<dotdot, vn>>       \* ENOSPC
          \/ Mishap /\ dir' = gone /\ UNCHANGED <<dotdot, vn>>
          \/ Survived /\ dir' = dir /\ UNCHANGED <<dotdot, vn>>
       /\ Return(t)
       /\ UNCHANGED use

----------------------------------------------------------------------------
(* Data and metadata *)

\* fat32_write sets the times, gives a file without clusters its first one,
\* and then moves the data.  If it cannot get that far (no space, a device
\* error, a bad address from the process) the new cluster stays with the file,
\* and the size is what it was.  A device error in fat32_allocate_cluster may
\* leave the cluster allocated to no file.
Write(t, v) ==
    LET x == vn[v]
        fresh == IF x.first = NoCluster THEN {"cluster"} ELSE {}
        grown == IF x.size = 0 THEN {"size"} ELSE {}
        Set(c, size, flags) ==
            vn' = [vn EXCEPT ![v] = [x EXCEPT !.first = c, !.size = size,
                                              !.dirty = @ \cup {"time"} \cup flags]]
    IN /\ MayCall(t, v) /\ ~x.isdir /\ lock[v] = NoThread
       /\ \/ \E c \in IF x.first = NoCluster THEN Unallocated ELSE {x.first} :
               \/ /\ Set(c, 1, fresh \cup grown)
                  /\ use' = [use EXCEPT ![c] = "data"] /\ UNCHANGED faults
               \/ /\ use' = [use EXCEPT ![c] = IF x.first = NoCluster THEN "file" ELSE @]
                  /\ \/ Set(c, x.size, fresh) /\ Survived       \* EIO, ENOSPC, EFAULT
                     \/ x.first = NoCluster /\ vn' = Touched(vn, v) /\ Mishap
          \/ vn' = Touched(vn, v) /\ UNCHANGED <<use, faults>>  \* no data, or no cluster
       /\ UNCHANGED <<dir, dotdot, lock, op>>

\* Mutant: the new first cluster of a truncated file is not marked dirty.
TruncatedClean(x) == [x EXCEPT !.first = NoCluster, !.size = 0, !.dirty = @ \cup {"size"}]

\* fat32_truncate to no size
Truncated(x) == [x EXCEPT !.first = NoCluster, !.size = 0, !.dirty = @ \cup {"size", "cluster"}]

\* fat32_setattr changes the vnode with its lock held, lets go of it, and then
\* writes the metadata back: here it sets the times, or truncates the file.
\* If fat32_free_clusters fails in between, fv_cluster stays though the cluster
\* is free, and nothing is written back.
Setattr(t, v, truncate) ==
    LET x == vn[v]
    IN /\ v # RootVnode /\ MayCall(t, v) /\ MayCall(t, x.parent) /\ lock[v] = NoThread
       /\ truncate => ~x.isdir
       /\ use' = IF truncate /\ x.first # NoCluster
                 THEN [use EXCEPT ![x.first] = "free"] ELSE use
       /\ \/ /\ vn' = [vn EXCEPT ![v] = IF truncate THEN Truncated(x)
                                        ELSE [x EXCEPT !.dirty = @ \cup {"time"}]]
             /\ Go(t, [Idle EXCEPT !.pc = "sync_parent", !.v = v])
             /\ UNCHANGED faults
          \/ truncate /\ x.first # NoCluster /\ Mishap /\ UNCHANGED <<vn, op>>
       /\ UNCHANGED <<dir, dotdot, lock>>

\* fat32_close (last), fat32_fsync; fat32_inactive, when no process and no
\* vnode below it refers to the vnode any more.
Sync(t, v, last) ==
    /\ v # RootVnode /\ MayCall(t, v) /\ MayCall(t, vn[v].parent) /\ vn[v].dirty # {}
    /\ last => /\ \A w \in Vnode : vn[w].parent # v
               /\ \A u \in Thread : v \notin Uses(op[u])
    /\ Go(t, [Idle EXCEPT !.pc = "sync_parent", !.v = v, !.last = last])
    /\ UNCHANGED <<use, dir, dotdot, vn, lock, faults>>

Inactive(t, v) ==
    /\ MayCall(t, v) /\ vn[v].dirty = {}
    /\ v # RootVnode /\ \A w \in Vnode : vn[w].parent # v
    /\ \A u \in Thread : v \notin Uses(op[u])
    /\ vn' = [vn EXCEPT ![v] = NoFatVnode]
    /\ UNCHANGED <<use, dir, dotdot, lock, op, faults>>

SyncLockParent(t) ==
    LET p == vn[op[t].v].parent
    IN /\ op[t].pc = "sync_parent" /\ lock[p] = NoThread
       /\ lock' = [lock EXCEPT ![p] = t]
       /\ Go(t, [op[t] EXCEPT !.pc = "sync_self"])
       /\ UNCHANGED <<use, dir, dotdot, vn, faults>>

\* Mutant: the first cluster is not written back.
WriteBackSize(e, x) == IF "size" \in x.dirty THEN [e EXCEPT !.size = x.size] ELSE e

\* fat32_update_fdentry: the dirty parts go to the slot, whatever it holds.
WriteBack(e, x) ==
    IF e = FreeSlot THEN e
    ELSE [e EXCEPT !.size = IF "size" \in x.dirty THEN x.size ELSE @,
                   !.first = IF "cluster" \in x.dirty THEN x.first ELSE @]

\* With both locks.  The flags stay if the entry cannot be read; the vnode
\* goes all the same when fat32_inactive calls.
SyncSelf(t) ==
    LET o == op[t]
        x == vn[o.v]
    IN /\ o.pc = "sync_self" /\ lock[o.v] = NoThread
       /\ \/ /\ dir' = [dir EXCEPT ![vn[x.parent].first][x.s] = WriteBack(@, x)]
             /\ vn' = [vn EXCEPT ![o.v] = IF o.last THEN NoFatVnode ELSE [x EXCEPT !.dirty = {}]]
             /\ UNCHANGED faults
          \/ /\ IF o.last /\ x.dirty # {"time"} THEN Mishap ELSE Survived
             /\ vn' = IF o.last THEN [vn EXCEPT ![o.v] = NoFatVnode] ELSE vn
             /\ UNCHANGED dir
       /\ Return(t)
       /\ UNCHANGED <<use, dotdot>>

----------------------------------------------------------------------------
(* The specification *)

Init ==
    /\ use = [c \in Cluster |-> IF c = Root THEN "dir" ELSE "free"]
    /\ dir = [c \in Cluster |-> EmptyDir(c)]
    /\ dotdot = [c \in Cluster |-> Root]
    /\ vn = [v \in Vnode |-> IF v = RootVnode THEN RootFatVnode ELSE NoFatVnode]
    /\ lock = [v \in Vnode |-> NoThread]
    /\ op = [t \in Thread |-> Idle]
    /\ faults = [met |-> 0, harm |-> FALSE]

Step(t) ==
    \/ LookupMake(t) \/ RemoveDelete(t) \/ RenameLockTarget(t)
    \/ RenameReplace(t) \/ RenameInPlace(t) \/ RenameMove(t)
    \/ SyncLockParent(t) \/ SyncSelf(t)

Begin(t) ==
    \E v \in Vnode :
        \/ \E n \in Name :
             \/ Lookup(t, v, n) \/ Create(t, v, n) \/ Mkdir(t, v, n) \/ RemoveFind(t, v, n)
             \/ \E truncate \in BOOLEAN : CreateExisting(t, v, n, truncate)
             \/ \E w \in Vnode, m \in Name : RenameCall(t, v, n, w, m)
        \/ \E b \in BOOLEAN : Setattr(t, v, b) \/ Sync(t, v, b)
        \/ Write(t, v) \/ Inactive(t, v)

Next == \E t \in Thread : Step(t) \/ Begin(t)

Spec == Init /\ [][Next]_vars

----------------------------------------------------------------------------
(* Properties *)

\* Every piece of the state keeps its type.
TypeOK ==
    /\ use \in [Cluster -> {"free", "dir", "file", "data"}]
    /\ DOMAIN dir = Cluster /\ \A c \in Cluster : dir[c] \in [Slots[c] -> Entry]
    /\ dotdot \in [Cluster -> Cluster]
    /\ vn \in [Vnode -> FatVnode]
    /\ lock \in [Vnode -> Thread \cup {NoThread}]
    /\ op \in [Thread -> Op]
    /\ faults \in [met : 0 .. MaxFaults, harm : BOOLEAN]

Undamaged == ~faults.harm

Places == UNION {{c} \X Slots[c] : c \in {d \in Cluster : use[d] = "dir"}}

\* The vnodes with their entry in place p
VnodesAt(p) == {v \in Vnode \ {RootVnode} :
                  vn[v].used /\ vn[vn[v].parent].first = p[1] /\ vn[v].s = p[2]}

\* What a place refers to: by its vnode if it has one, else by its entry
Entries == {p \in Places : dir[p[1]][p[2]] # FreeSlot}

Referred(p) ==
    IF VnodesAt(p) = {} THEN dir[p[1]][p[2]].first
    ELSE vn[CHOOSE v \in VnodesAt(p) : TRUE].first

\* First cluster and size of a file are those of its data: in its entry, if it
\* has no vnode, and else in the vnode, from which the entry differs in nothing
\* that is not marked dirty (fat32_write, fat32_truncate, fat32_update_fdentry).
\* So what a process wrote, truncated or renamed is what the next process
\* finds, once the vnode is gone.  A write that failed may leave a file of no
\* size with a cluster, but with none that data was put in.
EntriesTrue ==
    Undamaged =>
        /\ \A v \in Vnode \ {RootVnode} : vn[v].used =>
             <<vn[vn[v].parent].first, vn[v].s>> \in Entries
        /\ \A p \in Entries :
             LET e == dir[p[1]][p[2]]
                 True(first, size) ==
                     IF e.isdir THEN first # NoCluster /\ use[first] = "dir"
                     ELSE IF first = NoCluster THEN size = 0
                     ELSE use[first] = IF size = 0 THEN "file" ELSE "data"
             IN /\ VnodesAt(p) = {} => True(e.first, e.size)
                /\ \A v \in VnodesAt(p) :
                     /\ vn[v].isdir = e.isdir /\ True(vn[v].first, vn[v].size)
                     /\ vn[v].first # e.first => "cluster" \in vn[v].dirty
                     /\ vn[v].size # e.size => "size" \in vn[v].dirty

\* Every allocated cluster is referred to by one file or directory and by no
\* other: none is lost, none is shared (fat32_create_fdentry,
\* fat32_remove_common, fat32_truncate, fat32_write).
EachClusterOnce ==
    Undamaged => \A c \in Cluster \ {Root} :
        use[c] # "free" <=> Cardinality({p \in Entries : Referred(p) = c}) = 1

\* The directories form a tree: ".." leads from each to the directory that
\* has its entry, and no directories lie in a circle, cut off from the root.
Tree ==
    Undamaged =>
        /\ \A p \in Entries : dir[p[1]][p[2]].isdir => dotdot[dir[p[1]][p[2]].first] = p[1]
        /\ \A S \in SUBSET {c \in Cluster \ {Root} : use[c] = "dir"} :
             S # {} => \E c \in S : dotdot[c] \notin S

\* fat32_remove_common frees no directory that has entries when it frees it:
\* none is made between fat32_dirempty and fat32_free_clusters.  It holds no
\* lock of the directory it removes, so this needs that processes do not
\* remove a directory while they have a vnode of it (no "contend").
OnlyEmptyRemoved ==
    [][Undamaged' => \A c \in Cluster :
         use[c] = "dir" /\ use'[c] = "free" => dir[c] = EmptyDir(c)]_vars

\* The lock a call waits for, if it is in between two locks
Wanted(o) ==
    CASE o.pc \in {"lock_target", "replace"} -> o.w
      [] o.pc = "sync_parent" -> vn[o.v].parent
      [] o.pc = "sync_self" -> o.v
      [] OTHER -> NoVnode

\* fat32fs.c calls the module multiprocessor safe (D_MP): no threads wait for
\* locks that they hold among themselves, and none for a lock of its own
\* (fat32_rename, fat32_remove_common, fat32_sync_metadata).
NoDeadlock ==
    \A S \in SUBSET Thread \ {{}} :
        \E t \in S : Wanted(op[t]) = NoVnode \/ lock[Wanted(op[t])] \notin S
=============================================================================
