------------------------------- MODULE Mount -------------------------------
(***************************************************************************)
(* The life of a mount and of its vnodes: fat32_mount, fat32_root          *)
(* and fat32_unmount (fat32_vfs.c), and how vnodes are made, referred to   *)
(* and torn down: fat32_make_vnode, fat32_lookup of names, "." and "..",   *)
(* fat32_inactive and fat32_vnode_delete.                                  *)
(*                                                                         *)
(* A vnode holds a reference to the vnode of its directory.  VN_RELE of    *)
(* the last reference calls fat32_inactive, which writes the metadata to   *)
(* the buffer cache, frees the vnode, whether or not that went well, and   *)
(* releases the directory, and so on upwards, while other threads go on.   *)
(* The buffer cache is the kernel's: fat32_sync and fat32_unmount leave to *)
(* it what it holds (bflush; "TODO: Flush any cached data").               *)
(***************************************************************************)
EXTENDS BootSector

CONSTANTS
    Thread,
    Disk,           \* the disks that are mounted
    Part,           \* the partitions asked for: 0 .. 3, or -1 for the first
    Vnode,          \* bound: the vnodes vn_alloc can give
    MaxRefs,        \* bound: references that processes hold, to all vnodes
    UnmountBusy,    \* whether the file system is unmounted while in use
    NoVnode

ASSUME MountAssumption ==
    /\ Part \subseteq -1 .. 3
    /\ IsFiniteSet(Vnode) /\ NoVnode \notin Vnode
    /\ MaxRefs \in Nat \ {0} /\ UnmountBusy \in BOOLEAN
    /\ \A disk \in Disk : IsDisk(disk)

VARIABLES
    fsi,       \* the structure, if it is there: fsi_rootvp, disk, partition, layout
    device,    \* references to the device's vnode that mounts have
    vp,        \* vp[v]: v_count, fv_parent_vp and whether fv_flags is dirty
    refs,      \* refs[v]: the references to v that processes hold
    op,        \* the call each thread is in
    failed,    \* history: the vnodes being freed whose write-back met a device error
    old        \* history: the root vnodes of mounts that have ended

vars == <<fsi, device, vp, refs, op, failed, old>>

----------------------------------------------------------------------------
(* Vnodes and references *)

Unused == [used |-> FALSE, count |-> 0, parent |-> NoVnode, dirty |-> FALSE]

NoFsi == [state |-> "none", root |-> NoVnode]

\* Allocated, and fat32_read_boot has yet to fill it in
MadeFsi == [state |-> "made", root |-> NoVnode]

\* The partition asked for plays no part on a disk without partitions.
NewFsi(disk, part) ==
    [state |-> "mounting", root |-> NoVnode, disk |-> disk,
     part |-> IF disk.direct THEN -1 ELSE part, layout |-> Layout(disk, part)]

Idle == [pc |-> "idle", v |-> NoVnode]

Go(t, pc, v) == op' = [op EXCEPT ![t] = [pc |-> pc, v |-> v]]

Spare == {v \in Vnode : ~vp[v].used}

Children(v) == {w \in Vnode : vp[w].used /\ vp[w].parent = v}

\* Mutant: the directory is not held.
MadeLoose(v, parent) ==
    [vp EXCEPT ![v] = [used |-> TRUE, count |-> 1, parent |-> parent, dirty |-> FALSE]]

\* fat32_make_vnode: v, with the one reference vn_alloc gives, holds parent.
Made(v, parent) ==
    [w \in Vnode |->
        IF w = v THEN [used |-> TRUE, count |-> 1, parent |-> parent, dirty |-> FALSE]
        ELSE IF w = parent THEN [vp[w] EXCEPT !.count = @ + 1] ELSE vp[w]]

Held(fw, v) == [fw EXCEPT ![v].count = @ + 1]

\* VN_RELE (external): thread t goes on with fat32_inactive if v has no other
\* reference.
Release(t, fw, v) ==
    /\ vp' = [fw EXCEPT ![v].count = @ - 1]
    /\ IF fw[v].count = 1 THEN Go(t, "inactive", v) ELSE Go(t, "idle", NoVnode)

----------------------------------------------------------------------------
(* Mounting *)

Mounting(t) == op[t].pc \in {"device", "boot", "root"}

\* fat32_mount: lookupname gives a reference to the device.  vfs_devsearch knows
\* only the mounts that have succeeded; that two calls do not run at once is up
\* to the caller.
MountStart(t) ==
    /\ op[t].pc = "idle" /\ \A u \in Thread : ~Mounting(u)
    /\ device' = device + 1
    /\ Go(t, "device", NoVnode)
    /\ UNCHANGED <<fsi, vp, refs, failed, old>>

\* The call returns without a mount.
MountReturns(t) == Go(t, "idle", NoVnode) /\ UNCHANGED <<vp, refs, failed, old>>

\* ENOTBLK
MountNotBlock(t) ==
    /\ op[t].pc = "device"
    /\ device' = device - 1
    /\ MountReturns(t) /\ UNCHANGED fsi

\* EBUSY: vfs_devsearch finds the device mounted.
MountBusy(t) ==
    /\ op[t].pc = "device" /\ fsi.state = "live"
    /\ device' = device - 1
    /\ MountReturns(t) /\ UNCHANGED fsi

\* ENOMEM for the structure
MountNoMemory(t) ==
    /\ op[t].pc = "device" /\ fsi = NoFsi
    /\ device' = device - 1
    /\ MountReturns(t) /\ UNCHANGED fsi

MountAlloc(t) ==
    /\ op[t].pc = "device" /\ fsi = NoFsi
    /\ fsi' = MadeFsi
    /\ Go(t, "boot", NoVnode)
    /\ UNCHANGED <<device, vp, refs, failed, old>>

\* A device error or an unusable boot sector
MountBootBad(t) ==
    /\ op[t].pc = "boot"
    /\ fsi' = NoFsi
    /\ device' = device - 1
    /\ MountReturns(t)

\* fat32_read_boot fills the structure in.
MountBoot(t) ==
    /\ op[t].pc = "boot"
    /\ \E disk \in Disk, part \in Part :
         BootUsable(disk, part) /\ fsi' = NewFsi(disk, part)
    /\ Go(t, "root", NoVnode)
    /\ UNCHANGED <<device, vp, refs, failed, old>>

\* Mutant: the device is not released when fat32_vnode_new fails.
MountNoRootFvHolding(t) ==
    /\ op[t].pc = "root"
    /\ fsi' = NoFsi
    /\ MountReturns(t) /\ UNCHANGED device

\* fat32_vnode_new fails for the root.
MountNoRootFv(t) ==
    /\ op[t].pc = "root"
    /\ fsi' = NoFsi
    /\ device' = device - 1
    /\ MountReturns(t)

\* fat32_make_vnode fails for the root.
MountNoRootVnode(t) ==
    /\ op[t].pc = "root" /\ Spare = {}
    /\ fsi' = NoFsi
    /\ device' = device - 1
    /\ MountReturns(t)

\* The root vnode has the reference of vn_alloc and a second one.
MountRoot(t) ==
    /\ op[t].pc = "root"
    /\ \E v \in Spare :
         /\ vp' = Held(Made(v, NoVnode), v)
         /\ fsi' = [fsi EXCEPT !.state = "live", !.root = v]
    /\ Go(t, "idle", NoVnode)
    /\ UNCHANGED <<device, refs, failed, old>>

\* fat32_unmount does not ask whether vnodes are in use; the caller
\* (fs_dounmount, external) may.
Quiet == /\ \A v \in Vnode : refs[v] = 0
         /\ \A u \in Thread : op[u].pc \notin {"inactive", "delete"}

\* Mutant: both references to the root are released.
UnmountBoth(t) ==
    /\ fsi.state = "live" /\ op[t].pc = "idle"
    /\ UnmountBusy \/ Quiet
    /\ Release(t, [vp EXCEPT ![fsi.root].count = @ - 1], fsi.root)
    /\ device' = device - 1
    /\ old' = old \cup {fsi.root}
    /\ fsi' = NoFsi
    /\ UNCHANGED <<refs, failed>>

\* One of the two references to the root is released, and the structure, which
\* had the other, is freed.
Unmount(t) ==
    /\ fsi.state = "live" /\ op[t].pc = "idle"
    /\ UnmountBusy \/ Quiet
    /\ Release(t, vp, fsi.root)
    /\ device' = device - 1
    /\ old' = old \cup {fsi.root}
    /\ fsi' = NoFsi
    /\ UNCHANGED <<refs, failed>>

----------------------------------------------------------------------------
(* Processes *)

\* A process that holds v calls; the reference stays until the call returns.
Calls(t, v) == op[t].pc = "idle" /\ refs[v] > 0

Gains(v) ==
    /\ MapThenSumSet(LAMBDA w : refs[w], Vnode) < MaxRefs
    /\ refs' = [refs EXCEPT ![v] = @ + 1]

\* fat32_root
Root(t) ==
    /\ fsi.state = "live" /\ op[t].pc = "idle"
    /\ Gains(fsi.root) /\ vp' = Held(vp, fsi.root)
    /\ UNCHANGED <<fsi, device, op, failed, old>>

\* fat32_lookup of a name (fat32_create, fat32_mkdir): a new vnode
Lookup(t, v) ==
    /\ Calls(t, v)
    /\ \E w \in Spare :
         /\ vp' = Made(w, v)
         /\ Gains(w)
    /\ UNCHANGED <<fsi, device, op, failed, old>>

\* fat32_lookup of "."
LookupDot(t, v) ==
    /\ Calls(t, v) /\ Gains(v)
    /\ vp' = Held(vp, v)
    /\ UNCHANGED <<fsi, device, op, failed, old>>

\* Mutant: the directory is returned without a reference.
LookupDotDotBare(t, v) ==
    /\ Calls(t, v) /\ vp[v].parent # NoVnode /\ Gains(vp[v].parent)
    /\ UNCHANGED <<fsi, device, vp, op, failed, old>>

\* fat32_lookup of "..": the vnode's own parent
LookupDotDot(t, v) ==
    /\ Calls(t, v) /\ vp[v].parent # NoVnode /\ Gains(vp[v].parent)
    /\ vp' = Held(vp, vp[v].parent)
    /\ UNCHANGED <<fsi, device, op, failed, old>>

\* A write, a truncation or a change in the directory marks the vnode dirty.
Change(t, v) ==
    /\ Calls(t, v)
    /\ vp' = [vp EXCEPT ![v].dirty = TRUE]
    /\ UNCHANGED <<fsi, device, refs, op, failed, old>>

\* fat32_update_fdentry: the metadata of v goes to its entry in the buffer cache;
\* a root has none and is clean.  Where the seek or the read of the directory
\* fails, v stays dirty.
UpdateEntry(v, ok) ==
    /\ ok \/ (vp[v].dirty /\ vp[v].parent # NoVnode)
    /\ vp' = IF ok THEN [vp EXCEPT ![v].dirty = FALSE] ELSE vp

\* fat32_close, fat32_fsync: fat32_sync_metadata
Flush(t, v) ==
    /\ Calls(t, v) /\ vp[v].dirty
    /\ \E ok \in BOOLEAN : UpdateEntry(v, ok)
    /\ UNCHANGED <<fsi, device, refs, op, failed, old>>

\* A process gives a reference back.
Rele(t, v) ==
    /\ Calls(t, v)
    /\ refs' = [refs EXCEPT ![v] = @ - 1]
    /\ Release(t, vp, v)
    /\ UNCHANGED <<fsi, device, failed, old>>

\* Mutant: the metadata is not written back.
InactiveUnsaved(t) ==
    /\ op[t].pc = "inactive"
    /\ Go(t, "delete", op[t].v)
    /\ UNCHANGED <<fsi, device, vp, refs, failed, old>>

\* fat32_inactive: the metadata is written back, and an error of that ignored.
Inactive(t) ==
    LET v == op[t].v
    IN /\ op[t].pc = "inactive"
       /\ \E ok \in BOOLEAN :
            /\ UpdateEntry(v, ok)
            /\ failed' = IF ok THEN failed ELSE failed \cup {v}
       /\ Go(t, "delete", v)
       /\ UNCHANGED <<fsi, device, refs, old>>

\* Mutant: the directory keeps the reference of the vnode.
VnodeDeleteKeeping(t) ==
    /\ op[t].pc = "delete"
    /\ vp' = [vp EXCEPT ![op[t].v] = Unused] /\ Go(t, "idle", NoVnode)
    /\ failed' = failed \ {op[t].v}
    /\ UNCHANGED <<fsi, device, refs, old>>

\* fat32_vnode_delete: the vnode goes, and its directory is released.
VnodeDelete(t) ==
    LET v == op[t].v
        gone == [vp EXCEPT ![v] = Unused]
    IN /\ op[t].pc = "delete"
       /\ IF vp[v].parent = NoVnode THEN vp' = gone /\ Go(t, "idle", NoVnode)
          ELSE Release(t, gone, vp[v].parent)
       /\ failed' = failed \ {v}
       /\ UNCHANGED <<fsi, device, refs, old>>

----------------------------------------------------------------------------
(* The specification *)

Init ==
    /\ fsi = NoFsi /\ device = 0
    /\ vp = [v \in Vnode |-> Unused]
    /\ refs = [v \in Vnode |-> 0]
    /\ op = [t \in Thread |-> Idle]
    /\ failed = {}
    /\ old = {}

\* Calls that have begun go on.
MountStep(t) ==
    \/ MountNotBlock(t) \/ MountBusy(t) \/ MountNoMemory(t) \/ MountAlloc(t)
    \/ MountBootBad(t) \/ MountBoot(t)
    \/ MountNoRootFv(t) \/ MountNoRootVnode(t) \/ MountRoot(t)

Step(t) == MountStep(t) \/ Inactive(t) \/ VnodeDelete(t)

Begin(t) ==
    \/ MountStart(t) \/ Unmount(t) \/ Root(t)
    \/ \E v \in Vnode :
         \/ Lookup(t, v) \/ LookupDot(t, v) \/ LookupDotDot(t, v)
         \/ Change(t, v) \/ Flush(t, v) \/ Rele(t, v)

Next == \E t \in Thread : Step(t) \/ Begin(t)

Spec == Init /\ [][Next]_vars

\* No thread stops in the middle of a call.  fat32_inactive waits for the
\* fv_locks of the directory and of the vnode: that their holders give them up
\* is assumed (two renames that wait for each other do not, see FileTree).
FairSpec == Spec /\ \A t \in Thread : WF_vars(Step(t))

----------------------------------------------------------------------------
(* Properties *)

\* Every piece of the state keeps its type.
TypeOK ==
    /\ fsi.state \in {"none", "made", "mounting", "live"}
    /\ fsi.root \in Vnode \cup {NoVnode}
    /\ device \in 0 .. 2
    /\ vp \in [Vnode -> [used : BOOLEAN, count : Nat, parent : Vnode \cup {NoVnode},
                         dirty : BOOLEAN]]
    /\ refs \in [Vnode -> Nat]
    /\ op \in [Thread -> [pc : {"idle", "device", "boot", "root", "inactive", "delete"},
                          v : Vnode \cup {NoVnode}]]
    /\ failed \subseteq Vnode /\ old \subseteq Vnode

\* The references of the mount to its root, while it lasts
MountRefs(v) == IF v = fsi.root THEN 2 ELSE 0

\* v_count is the number of references there are: those of processes, one of
\* each vnode below, and those of the mount (VN_HOLD and VN_RELE balance on
\* every path of fat32_lookup, fat32_make_vnode, fat32_vnode_delete).  The
\* roots of ended mounts are excepted, for which see UnmountLeaksRoot.
CountsExact ==
    \A v \in Vnode \ old : vp[v].used =>
        vp[v].count = refs[v] + Cardinality(Children(v)) + MountRefs(v)

\* fat32_mount takes two references to the root (vn_alloc's and a VN_HOLD) and
\* fat32_unmount gives one back: the root vnode of every mount that has ended
\* has one reference too many, that nobody has, and is never freed.
UnmountLeaksRoot ==
    \A v \in old : /\ vp[v].used
                   /\ vp[v].count = refs[v] + Cardinality(Children(v)) + 1

\* No vnode is freed, or about to be, while a process, a vnode below it or the
\* mount refers to it, and none is torn down by two threads.
NoDanglingVnode ==
    LET Dying == {t \in Thread : op[t].pc \in {"inactive", "delete"}}
    IN /\ \A v \in Vnode :
            (refs[v] > 0 \/ Children(v) # {} \/ v = fsi.root) =>
                vp[v].used /\ \A t \in Dying : op[t].v # v
       /\ \A v \in Vnode : vp[v].used /\ vp[v].parent # NoVnode => vp[vp[v].parent].used
       /\ \A t, u \in Dying : op[t].v = op[u].v => t = u

\* The device has one reference of the mount that is there and one of the call
\* of fat32_mount that is under way, and the structure is there only with one of
\* the two: each of the error paths of fat32_mount releases and frees on its own.
DeviceHeldByMount ==
    /\ device = (IF fsi.state = "live" THEN 1 ELSE 0)
                  + (IF \E t \in Thread : Mounting(t) THEN 1 ELSE 0)
    /\ fsi.state \in {"made", "mounting"} <=> \E t \in Thread : op[t].pc \in {"boot", "root"}

\* fat32_read_boot finds the partition that was asked for, and the clusters and
\* FAT entries of a well-formed file system within it.
GeometrySound ==
    fsi.state \in {"mounting", "live"} => LayoutSound(fsi.disk, fsi.part, fsi.layout)

\* A vnode that fat32_vnode_delete frees is clean, unless the write-back of its
\* metadata was tried and failed, which fat32_inactive ignores; and when the file
\* system has been unmounted, with no process in it, no vnode is left that could
\* be dirty but the leaked roots, which have no entry.  What is in the buffer
\* cache is the kernel's to write.
UnmountSavesAll ==
    /\ \A t \in Thread : op[t].pc = "delete" => ~vp[op[t].v].dirty \/ op[t].v \in failed
    /\ fsi.state = "none" => \A v \in Vnode \ old : ~vp[v].used

\* A vnode that no process and no other vnode refers to is torn down in the
\* end, and so are the directories above it: the root of a mount excepted, which
\* stays as long as the mount, and as a leak after it.
ReleasedIsFreed ==
    \A v \in Vnode :
        (vp[v].used /\ v # fsi.root /\ v \notin old /\ refs[v] = 0 /\ Children(v) = {})
            ~> (~vp[v].used)
=============================================================================
