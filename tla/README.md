# Verification of the IRIX FAT32 driver

TLA+ modules that model the FAT32 driver under `src/`, TLC runs that check them
on small volumes and directories, and proofs that TLAPS checks for every volume.
`PROJECT.json` lists the components, the runs, the source lines behind every
definition, the hazards of the code, and what was found.

## 1. The system

The driver is a kernel module of IRIX 6.5.  The kernel calls its vnode and VFS
operations from many threads at once.  It keeps its own state in `fat32fs_info_t`
(one per mount) and `fat32fs_vnode_t` (one per vnode), and reads and writes the
device through the buffer cache (`bread`, `bdwrite`), where any read may fail.

| Component | State | Operations | What makes it correct |
|---|---|---|---|
| FAT and allocator (`fat32_cls.c`) | FAT copies, `fsi_free_count`, `fsi_next_free`, `fsi_lock` | `fat32_rmw_cluster`, `fat32_allocate_cluster`, `fat32_next_cluster`, `fat32_seek_cluster`, `fat32_free_clusters` | chains are disjoint and lead only to clusters in use; nothing in use is unreachable; counters are exact; ENOSPC is true |
| Position cache (`fat32_cls.c`, `fat32_file.c`) | `fv_cls_cache` of a vnode | update, seek, invalidate | a cached position is the true one |
| Files (`fat32_vnode.c`, `fat32_file.c`) | `fv_cluster`, `fv_size`, `fv_lock` | read, write, truncate, setattr, getattr | the chain covers the size, also after failures; every call returns |
| Directories (`fat32_dir.c`, `fat32_vnode.c`) | 32-byte slots in a chain of clusters | lookup, create, remove, rename, mkdir, rmdir, readdir | a map from names to files; well-formed slots; readers miss nothing |
| Metadata write-back (`fat32_dir.c`) | `fv_diroff`, `fv_dirsz`, dirty flags | `fat32_update_fdentry` from close, fsync, inactive, setattr | goes to the file's own entry; nothing is lost |
| Vnode life cycle (`fat32_file.c`, `fat32_util.c`) | vnodes, parent references | `fat32_make_vnode`, `fat32_inactive` | references balance |
| Mount (`fat32_vfs.c`) | `fat32fs_info_t`, root vnode, reference to the device | mount, unmount, root, sync | a mount that fails or ends lets go of the device and of its vnodes; no metadata goes without a try to save it; the layout is that of the partition asked for |
| Names (`fat32_util.c`, `fat32_dir.c`) | the reader's buffer | 8.3 test, long-name parts, checksum, generated names | a name reads back as it was given, here and on other systems |
| Attributes and times (`fat32_util.c`, `fat32_vnode.c`) | `fv_attr`, `fv_mode`, three times, dirty flags | setattr, touch, both time conversions | what a process set is what the next one finds |
| Glue (`fat32fs.c`, `mount_fat32.c`) | none | module load, mount command | |

They interact by calls and by shared state.  A file operation holds `fv_lock` of
its vnode, and takes `fsi_lock` for each access to the FAT: in access mode for a
read, in update mode for an allocation or for the freeing of a whole chain.
`fv_cache_lock` guards the cache of a vnode.  A change of a directory holds
`fv_lock` of the directory from the search for the name to the last write;
lookup and readdir hold it in access mode; rename locks the source directory and
then the target; `fat32_sync_metadata` locks the parent and then the file.
`fat32_getattr` takes no lock.

What is hard here: `fsi_lock` is free between the moment a thread sees the end of
a chain and the moment it links a new cluster there; positions are cached across
calls; several sectors change in one operation and any read between them may
fail, with what was done before it left as it is; every lookup makes a new vnode, with a lock of its own, for the same file;
an open vnode remembers where its entry is while the directory changes; a reader
keeps an offset between calls.  `PROJECT.json` lists these hazards line by line.

## 2. Modules

| Module | Content |
|---|---|
| `ClusterChains` | FAT, FSInfo counters, position cache, and the file and directory operations that follow, extend, cut and free chains |
| `ClusterChainsProofs` | its inductive invariant; proofs of types and of the lock discipline |
| `ChainSafetyProofs` | proofs that chains are sound, cached positions true and sizes covered, and about the count of free clusters, ENOSPC, single links and FAT copies; extends `ClusterChainsProofs` |
| `DirSlots` | directories as arrays of slots; create, remove, rename, lookup, metadata write-back, readdir |
| `DirSlotsProofs` | proofs about the end of a directory and the slots that are written |
| `DirNamesProofs` | proofs about entries and names, readers and open files, and that `DirSlots` implements `DirMap`; extends `DirSlotsProofs` |
| `DirMap` | what directories promise: a map from names to files |
| `FileTree` | the tree of directories, entries with first cluster and size, vnodes with dirty flags, and the locks of directories and files |
| `FileTreeProofs` | proofs that what was written is kept, that clusters have one owner and that directories stay a tree |
| `BootSector` | partition table, boot sector and FSInfo to the layout of the file system |
| `Mount` | mount, unmount, and the references that keep vnodes; extends `BootSector` |
| `MountProofs` | proofs about reference counts, the leaked root, device, unsaved metadata and layout |
| `Names` | the bytes of names in slots: 8.3 form, long-name parts, checksum, and how they are read back |
| `Times` | Unix times to FAT times and back, and a reference calendar |
| `Attributes` | type, read-only bit, mode and times of one file in vnode and entry; extends `Times` |
| `AttributesProofs` | proofs that both time conversions are inverse and that what is set survives |
| `NatLemmas` | facts about numbers that several of the proofs use |
| `MC...` | the small instances that TLC checks |

The modules look at the same code at different scales.  `ClusterChains` has chains
and no names, `DirSlots` slots and names and no file data, `Names` the bytes in the
slots, `FileTree` entries of one slot and files of one cluster but all of the
namespace, `Mount` vnodes as bare references.  What one module takes in one step
another one opens up: the allocation of a cluster in `FileTree.Write` is
`ClusterChains.Alloc`, the new entry in `FileTree.Create` is `DirSlots.AllocSlots` and
`WriteEntry`, the slots written there are `Names.EntrySlots`.

Definitions marked *Mutant* in a comment are not part of a specification.  Each is
a plausible mistake in the definition that follows it, and the property named for
it in `PROJECT.json` fails when it takes that definition's place.

### ClusterChains

| Variable | Code |
|---|---|
| `fat[k][c]` | entry of cluster `c` in FAT copy `k` |
| `freeCount`, `nextFree` | `fsi_free_count`, `fsi_next_free`; the FSInfo sector is always written with them |
| `fsiLock` | the thread in `fat32_free_clusters`; every other use of `fsi_lock` is one step |
| `start`, `size`, `cache` | `fv_cluster`, `fv_size`, `fv_cls_cache` of each vnode |
| `op` | where each thread is in its operation, with its locals |
| `errors` | failed device reads so far |
| `owner`, `pos` | history: the vnode a cluster was allocated for and its place in that chain |

A thread runs one operation on one vnode.  Steps are cut where the code takes or
releases `fsi_lock` or `fv_cache_lock`; between two such points the code touches
nothing that others see.  `Read`, `Write`, `Truncate`, `TruncateToZero`, `Scan`
and `WalkToEnd` start an operation (their guards are the lock modes and early
returns of `fat32_read`, `fat32_write`, `fat32_truncate`, `fat32_get_dirent`,
`fat32_alloc_fdentry` and `fat32_getattr`); `Seek`, `Walk` and `Alloc` are
`fat32_vnode_seek_cluster` and the two halves of `fat32_next_cluster`; `Peek` and
the `Free...` actions are the rest of `fat32_truncate` with
`fat32_free_clusters`.  Each place where a read may fail has its error action, with
the FAT copies written up to there.  Sizes and offsets are counted in clusters,
data is left out, and a transfer may end after any cluster.

### DirSlots

| Variable | Code |
|---|---|
| `slots[d][i]` | slot `i` of directory `d`: end mark, deleted, long-name part, or 8.3 entry |
| `clusters[d]` | length of its chain |
| `lock[h]` | holder of `fv_lock` of directory vnode `h` for update |
| `op` | where each thread is in create, remove or rename |
| `open[f]` | `fv_diroff` and `fv_dirsz` of the vnode of file `f` |
| `reader` | a process between its calls of `fat32_readdir` |
| `shown` | history: the names in each directory when it was last unlocked |
| `uncleared` | history: the directories to which a cluster was linked that was not cleared |

Names are model values with a number of slots (`Width`, from
`fat32_name_is_short` and `(len + 12) / 13 + 1`) and a class of names equal but for
case (`Fold`, from `fat32_chrcmp`).  `EntryName` and `EntryStart` say what
`fat32_get_dirent` makes of the slots before an 8.3 slot, orphaned and mixed
long-name parts included; `RoomAt` and `Needed` what `fat32_alloc_fdentry` makes of
the deleted slots and the end.  A directory is read in one step, since its lock
is held; each of the searches, deletions and writes of an operation is a step.
`Extend` is the growth of a directory that goes well or ends with ENOSPC.
`AllocUncleared` is the one that ends between two steps of `fat32_allocate_cluster`: the
cluster is linked (`fat32_cls.c:221`), the FSInfo sector cannot be read (`:233-239`), and
the call returns before `fat32_clear_cluster` (`:262`), with the old data of the cluster
behind the end mark.  `Lookup` is one step here, though `fat32_lookup` makes the vnode
after it has unlocked the directory; with `RemoveWhileOpen = FALSE` no other call is about
that name meanwhile.  `FileTree` has the two steps (`Lookup`, `LookupMake`).

`DirMap` is the abstract specification, with `names <- shown`: each time a
directory is unlocked its names have changed by one create, remove or rename.

### FileTree

| Variable | Code |
|---|---|
| `use[c]` | what cluster `c` is allocated to: nothing, a directory, a file that has put no data there yet (`"file"`, after a `fat32_write` that failed), or the data of a file |
| `dir[c][s]` | entry in slot `s` of the directory in cluster `c`: name, first cluster, size, type |
| `dotdot[c]` | its ".." entry |
| `vn[v]` | `fat32fs_vnode_t`: `fv_cluster`, `fv_size`, `fv_type`, `fv_parent_vp`, `fv_diroff`, `fv_flags` |
| `lock[v]` | holder of `fv_lock` for update |
| `op` | where each thread is between two locks, or between reading an entry and using it |
| `faults` | device errors met, and whether harm was done |

Create, mkdir and write hold one lock from beginning to end and are one step;
lookup, remove, rename, setattr and the write-back of `fat32_sync_metadata` are cut
where they take a second lock or use what they read before.  Each has the branches in
which it fails.  A `fat32_write` that fails after it gave an empty file its first cluster
(no room to seek further, an unreadable cluster, a bad address: `fat32_vnode.c:268-306`)
leaves the file with the cluster and no size, which is in order; so is a device error that
leaves the disk as it was (`Survived`), and there may be any number of these.  A device error that
leaves the disk in disorder (`Mishap`, at most `MaxFaults` of them), and a rename that finds no room after it has
deleted the old entry (`Loss`), set `faults.harm`; the properties speak of volumes
without harm, and the comments at these actions say which line does it.  Removing,
renaming or reopening what has a vnode is a *practice* of processes (`Practices`)
that the driver does not survive; see below.

### Mount and BootSector

`fsi` is the mount, with the layout `fat32_read_boot` computes for one of the disks of
the instance; `device` the references to the block device; `vp[v]` count, parent and
dirty flag of a vnode; `refs[v]` what processes hold; `old` (history) the roots of former
mounts; `failed` (history) the vnodes being freed whose write-back met a device error.
`fat32_mount` is a sequence of steps, and each of its six error returns is an action of its
own with its own release of the device (`MountNotBlock`, `MountBusy`, `MountNoMemory`,
`MountBootBad`, `MountNoRootFv`, `MountNoRootVnode`).  `VN_RELE` of a last reference runs
`fat32_inactive` and `fat32_vnode_delete`, which releases the parent, as steps of their own,
so that a path of vnodes is torn down while others look up.  `fat32_inactive` frees a vnode
also when `fat32_update_fdentry` failed (`UpdateEntry` with `ok` false).

`VN_HOLD`, `VN_RELE`, `bflush` and `fs_dounmount` belong to the kernel, and so does the
buffer cache: `fat32_sync` only calls `bflush`, and `fat32_unmount` has "TODO: Flush any
cached data" (`fat32_vfs.c:440`).  Nothing is claimed of what the buffer cache holds.

### Names, Times, Attributes

`Names` has one directory, changed by whole calls, as its lock makes them, and
`Entries` reads it as `fat32_find_dirent` does: one buffer for all entries, of which
only the first byte and the size are set anew each time.  `Attributes` follows one file
with the clock; `asked` (history) is what processes asked for, and `Lost` for times that
`fat32_create` of an existing name set and lost (`fat32_file.c:231`).  `Times` has both
conversions as operators; its loop over the
years is a maximum, its tables of months are recursive functions.

## 3. Runs

| Run | Instance | Shows |
|---|---|---|
| `chains` | 4 clusters, 2 FAT copies, a file of 2 and a directory of 1, 2 threads, 1 error | the safety properties of chains, counters and errors |
| `chains_live` | 3 clusters, 1 FAT copy, a cache of 2, the same chains and threads | cached positions are true; every operation returns |
| `slots` | 1 directory with 2 vnodes, 2 clusters of 3 slots, names of 1, 2 and 3 slots, 2 files, 1 thread, 1 error, a reader | slots stay well formed, names unique, free slots free, metadata in its own entry, readers complete; implements `DirMap` |
| `slots_two_dirs` | 2 directories, 2 threads | names stay unique and `DirMap` is implemented with concurrent changes |
| `tree` | 4 clusters, directories of 1 and 2 slots, 3 vnodes, 2 names, 2 threads, 1 harmful error, others without bound | entries agree with vnodes and data; each cluster has one owner; directories form a tree; only empty ones are removed |
| `mount` | 3 disks with every choice of partition, 4 vnodes, 2 threads, 2 references | reference counts, the leaked root, device, layout, no vnode freed without a try to save it, everything released is freed |
| `names` | 8 names of 1 to 27 bytes, 7 slots | names read back byte for byte, by this driver and by a strict reader |
| `attrs` | 3 instants at the edges of the range | type, read-only bit and times survive; the calendar is exact |
| `chains_alias` | two vnodes of one file | *violated*: a link is overwritten |
| `tree_deadlock` | as `tree`, no error | *violated*: renames wait for each other's directory |
| `tree_rename_data` | files with data are renamed | *violated*: the entry has size 0 |
| `attrs_chmod` | chmod through the vnode of a new directory | *violated*: the directory becomes a file |

The violated runs each check one statement that a comment of the code makes; the
comment and the line at fault are under `findings`.  Two findings are about passing runs,
whose properties say what the code does instead of what its comment says: `mount`
(`UnmountLeaksRoot`: `fat32_unmount` gives back one of the two references that
`fat32_mount` took to the root, so that each mount leaks a vnode, though "This function
releases all resources", `fat32_vfs.c:424`) and `attrs` (`TimesSurvive`: the times that
`fat32_create` of an existing name sets, `fat32_vnode.c:738`, are never written).

Properties of `chains`: `NoCrossLink`, `NoDanglingLink`, `NoLostCluster` (the three
ways a chain can be wrong), `FreeCountExact`, `CopiesDifferByErrors`,
`NoFalseEIO` (the driver's checks for damaged chains never fire on chains it made
itself), `ReadsCovered`, `ChainCoversSize`, `LinksNotOverwritten`,
`EnospcMeansFull`, `TypeOK`.  Most are stated for behaviours without device
errors; after one, `CopiesDifferByErrors`, `TypeOK` and `OpsFinish` remain.
Properties of `slots`: `NothingAfterEnd` (also after errors, but for
a directory to which a cluster was linked and not cleared), `NoOrphans`,
`NoDuplicateName`, `AllocFindsFree`, `SyncHitsOwnEntry`, `ReaddirComplete`,
`ImplementsDirMap`.  Properties of `tree`: `EntriesTrue` (what a vnode has and the
entry has not is marked dirty, and what has no vnode is as its data is),
`EachClusterOnce`, `Tree`, `OnlyEmptyRemoved`.  Properties of `mount`: `CountsExact`,
`UnmountLeaksRoot`, `NoDanglingVnode`, `DeviceHeldByMount`, `GeometrySound`, `UnmountSavesAll`, and
`ReleasedIsFreed`, which is liveness.  `names` has `NamesReadBack` and `OthersAgree`,
`attrs` has `AttrSurvives` and `TimesSurvive`, and evaluates `CalendarExact` for both
ends of each of the 1536 months an entry can name.

**Bounds.**  Four clusters hold a file of two, a directory of one and one free
cluster: chains grow, shrink and are freed, the volume fills, the search wraps
around, and freed clusters are used by the other vnode.  The file starts at its
higher cluster so that chains do not run in disk order.  `MaxErrors` and `MaxFaults`
bound device errors; `CallsAfterError = FALSE` and `CallsAfterHarm = FALSE` let running
calls go on after damage but start no new ones, since damage multiplies without adding
cases.  Two clusters of three slots with names of one to three slots make entries that
fit, do not fit, straddle clusters and need new ones; a full second cluster is ENOSPC.
The clusters not in use hold old entries, which matters for clearing.  In `tree` three
clusters beside the root make directories in directories with a file in them, full
directories and a full volume (a file has one cluster, so that ENOSPC after the first one
is a failure the model may choose at any time); two vnodes beside the root's are a
directory and what is in it, and running out of them is ENOMEM.  `View` leaves out what clusters held that
are no directories now, and clusters, threads, vnodes and names are symmetric but for
the larger directory.  In `mount` four vnodes make a path of three below the root, and
two mounts one after the other; with two references a process goes down a path, letting
go of what is above, or two processes are in different places.  Its `View` leaves out the
layout once a file system is mounted, which nothing reads again.  In `names`
FAT32_MAX_NAME is 27 instead of 255, so that a name can fill the buffer with three parts; seven slots make entries share,
outgrow and reuse slots.  The disks have sectors of 16 bytes, so that a FAT takes more
than one.

**Environment.**  `AliasedVnodes = FALSE` keeps threads from working in one
directory through two vnodes at the same time, `RemoveWhileOpen = FALSE` keeps
processes from removing or renaming what is open, and the layouts of the passing
`chains` runs have one vnode per file.  `Practices = {}` says the same for `FileTree`,
and that files with data are neither renamed nor truncated by opening; `ChmodNew = FALSE`
that modes are not changed through the vnode of a new file; `UnmountBusy = FALSE` that
`fs_dounmount` refuses a file system in use.  The driver does not ensure any of this
but for the last, which the kernel does.  What happens otherwise:

| With | Fails | Because |
|---|---|---|
| two vnodes of one file in `ClusterChains` | `LinksNotOverwritten` | run `chains_alias` |
| `FsInfoValid = FALSE` | `EnospcMeansFull` | an unknown free count is taken for 0 (`fat32_cls.c:140`) |
| `RemoveWhileOpen = TRUE` | `SyncHitsOwnEntry` | `fat32_update_fdentry` writes where the entry was (`fat32_dir.c:536`) |
| `"contend" \in Practices` | `EntriesTrue`, `Tree`, `OnlyEmptyRemoved` | a directory is freed while a vnode of it is in use (`fat32_vnode.c:904`) |
| `"truncate" \in Practices` | `EntriesTrue` | `fat32_make_vnode` clears the dirty flags (`fat32_file.c:231`) |
| `"move_data" \in Practices` | `EntriesTrue` | run `tree_rename_data` |
| `ChmodNew = TRUE` | `TypeKept`, `AttrSurvives` | run `attrs_chmod` |
| `UnmountBusy = TRUE` | `UnmountSavesAll` | `fat32_unmount` does not ask whether vnodes are in use and frees the structure they point to (`fat32_vfs.c:444-476`) |

The passing runs show that nothing else goes wrong.

**Fairness.**  `ClusterChains` assumes strong fairness of each thread's steps: IRIX
mrlocks queue their waiters, so a thread that waits for `fsi_lock` gets it in the
end, and the scheduler runs a thread that can run.  `Mount` assumes weak fairness of
the steps of calls that have begun.  `fat32_inactive` waits there for the `fv_lock`s of the
parent and of the vnode (`fat32_dir.c:631-636`): that their holders give them up is an
assumption, which threads that wait for each other (`tree_deadlock`) break.  No call need ever be made.
`DirSlots`, `FileTree`, `Names` and `Attributes` have safety properties only.

**Deadlock.**  The configurations of `ClusterChains`, `DirSlots` and `FileTree` say
`CHECK_DEADLOCK FALSE`: after damage no call begins and the system comes to rest with
all threads idle.  In `ClusterChains` the liveness property covers what the deadlock
check would; in `FileTree` `NoDeadlock` states it, and does not hold: that threads
wait for good takes nothing from the safety properties of `tree`.

## 4. Proofs

TLC checks the instances of section 3.  The theorems below hold for every value of
the constants that satisfies the named assumptions of the modules (`ChainAssumption`,
`VolumeAssumption`, `MountAssumption`, ...: sizes are positive, sets are finite where the
code has tables, disks are sequences of sectors) and the hypotheses in the second column.
Each hypothesis is one that the passing runs make true through their configuration, and
section 3 says what fails without it.

| Theorem | Hypothesis | States for every reachable state or step |
|---|---|---|
| `TypeCorrect`, `LockDiscipline` | | `TypeOK` of `ClusterChains`; `fsi_lock` and `fv_lock` exclude whom they should |
| `NeverCrossLinked`, `NothingDangles`, `NothingLost` | `DisjointLayout` | `NoCrossLink`, `NoDanglingLink`, `NoLostCluster` |
| `ChecksNeverFire`, `ReadsStayInChain` | `DisjointLayout` | `NoFalseEIO`, `ReadsCovered` |
| `CacheTrue`, `SizeCovered` | `DisjointLayout` | `CacheCoherent`, `ChainCoversSize` |
| `NoLinkOverwritten`, `CountExact` | `DisjointLayout` | `LinksNotOverwritten`, `FreeCountExact` |
| `EnospcOnlyWhenFull` | `DisjointLayout`, `FsInfoValid` | `EnospcMeansFull` |
| `CopiesAgree` | | `CopiesDifferByErrors` |
| `NothingFollowsEnd`, `DirSlotsTypes` | `EndsLast` | `NothingAfterEnd`, `TypeOK` of `DirSlots` |
| `NothingWrittenOver` | `EndsLast`, `~AliasedVnodes` | `AllocFindsFree` |
| `NoOrphanSlots`, `NamesStayDistinct`, `SyncStaysHome` | `EndsLast`, `SoundVolume`, `~AliasedVnodes`, `~RemoveWhileOpen` | `NoOrphans`, `NoDuplicateName`, `SyncHitsOwnEntry` |
| `ReadersMissNothing`, `DirectoriesAreMaps` | the same | `ReaddirComplete`; `DirSlots` implements `DirMap` (`ImplementsDirMap`) |
| `WritesKept`, `ClustersOwnedOnce`, `AlwaysTree`, `RemovesOnlyEmpty` | `Practices = {}` | `EntriesTrue`, `EachClusterOnce`, `Tree`, `OnlyEmptyRemoved` |
| `TreeTypes` | `Practices = {}`, `~CallsAfterHarm` | `TypeOK` of `FileTree` |
| `MountTypes`, `CountsAlwaysExact`, `NothingInUseGoes`, `DeviceAlwaysHeld` | | `TypeOK` of `Mount`, `CountsExact`, `NoDanglingVnode`, `DeviceHeldByMount` |
| `RootLeaks` | | `UnmountLeaksRoot` |
| `UnmountLosesNothing` | `~UnmountBusy` | `UnmountSavesAll` |
| `LayoutAlwaysSound` | | `GeometrySound` |
| `AttributesSurvive` | `~ChmodNew` | `AttrSurvives` |
| `TimesKept` | `Representable` | `TimesSurvive` |
| `ConversionsInverse` | | the time conversions are inverse up to what an entry keeps, and the date is that of the calendar, for every time up to the end of 2107 |

`DisjointLayout`: each cluster is in one place of one vnode's chain when the run begins
(the volume is sound and no file is open through two vnodes).  `EndsLast`: what is on
disk at the start has nothing behind the end mark of a directory.  `SoundVolume`: every
slot in use there belongs to an entry, the names of a directory differ by more than
case, and a file has one name; `MCDirSlots` gives the entries of its directories and
assumes, for TLC to evaluate, that they make them sound.  `Representable`: the
clock and the times that processes set lie in the range of an entry.  `Practices = {}`:
processes do none of the three things that `FileTree` shows the driver not to survive
(section 3); `CallsAfterHarm` is a bound, and the types are claimed up to the first harm.

**Chains.**  `TypeOK` is not inductive: that the next cluster of a walk is a cluster
depends on which operation is at which step and on what it has in hand.  `CtlInv` adds
that each operation is at a step of its kind and has a cluster where it needs one
(`OpInv`), that a thread frees clusters exactly while it holds `fsi_lock` (`LockInv`),
that an operation which changes a vnode shares it only with getattr (`ExclusionInv`), and
that a directory, and a file that is not empty, has a first cluster (`HasStart`).  It
holds whatever the device does.  `StepCtl` and `CallCtl` say what each action does to
control and locks, and the invariant follows from that alone.

Neither are the safety properties inductive: that no two links lead to one cluster does
not say that the cluster a thread is about to link is not in a chain already, nor that
the end it saw with `fsi_lock` released is still the end.  `IndInv` labels each cluster
in use with its owner and its place in the owner's chain, so that every part is local to
a cluster, a link or a thread (`OwnerInv` to `CursorInv`): a link leads from place i to
place i+1 of the same owner, an end mark is at the last place, a cached position is the
label, what a thread has in hand is labelled with its vnode and index.  It is claimed
while no device read has failed.  `CacheTrue` and `SizeCovered` speak of `ClusterAt`,
which follows a chain from its start by recursion; the labels give the whole chain, and
the recursive function is compared with it at the least place where they could differ
(`LeastNat`), which takes the place of induction.  `CountedInv` adds that the count of
free clusters, with what a running `fat32_free_clusters` has freed and not yet counted,
is the number of free clusters; `DiffInv` that copies differ in at most one cluster per
error.

**Directories.**  `EndInv` adds to `TypeOK` and `NothingAfterEnd` that each operation is
at a step of its kind, and that what it has in hand (the entry it found, the slots it is
to write) lies before the end mark or right at it (`Reach`): a thread that writes to a
place it chose before must not leave a gap.  This needs no exclusion, since ends only
move up.  A directory in `uncleared` is excepted from the first part of it, and is all that
`AllocUncleared` changes; in the proofs about names this step is one after which a device
error has been met, and nothing more is claimed.  `RoomInv` adds that a thread in an operation holds the directory it works in
(`LockInv`) and that none works there through another vnode (`OneVnode`).

The other properties of directories are about entries, which the slots do not show:
which long-name parts and which 8.3 slot go together is what the code computes again at
every search.  `NamesInv` adds to `RoomInv` that, while the device has not failed, there
is a map `e` from positions to entries of which the slots are the picture (`Describes`;
`View` leaves out the tail of an old entry that a rename is about to delete), and
relates everything else to `e`:

- what a thread has in hand (`Hand`): the entry it found is still there, the name it is
  to write is still free, and between the deletion of the old name of a file and the
  writing of the new one the file is in no directory, or its old slots are those that
  will be overwritten;
- the names shown (`Sync`): they are those of `e` but for the names of a running rename,
  which lag until it returns (`Lags`); so a rename is one step of `DirMap` although it
  goes through states with neither name;
- the place an open vnode remembers (`Opened`): it is that of its file's entry, and the
  names that a removal or rename is about are of files that are not open (`Closed`);
- what a process reading has got (`Read`): of the files whose names were there all the
  time exactly those before its offset, and none twice;
- the calls (`FilesApart`, `NamesApart`): no two have one file, and a name that is being
  removed or renamed is in no other call.

No two entries of a directory have one name and no file two (`NoTwins`, `OneName`).
Each action puts at most one entry into `e` or takes one out (`Puts`), so that a few
lemmas say what a put keeps of each part, and the proof of an action shows which put it
is and what the thread has in hand after it.  `MatchesAre` and `NamesAre` say what
`fat32_get_dirent` and `fat32_find_dirent` find in slots that `e` describes.

**The tree.**  `TreeInv` is the largest invariant, since every property of `FileTree`
needs the others: that a cluster has one owner, that vnodes have what the entries lack,
that a directory found empty is still empty when it is freed.  `DataInv` says that there
is a truth, `good`: for each slot the first cluster and the size of the file in it, and
relates disk and vnodes to it separately (`DiskGood`, `VnodesGood`).  `fat32_write`
changes the truth and the vnode, `fat32_sync_metadata` the disk and the flags, and
neither proof has to compare entries with vnodes.  `CtlInv` says which vnodes and locks a
call has, and that vnodes form a tree; it gives each call the directory it has locked to
itself.  `FoundInv` is what makes the steps between two locks work: the entry that
lookup, remove or rename found is still in its slot when the call goes on, no vnode came
to it that the call does not know of, and a directory to be removed is still empty.
Directories lie in no circle because `NoCircle` speaks of sets of directories, and every
operation is shown to break none.  `TreeInv` claims all of this while no harm was done
(no `Mishap` and no `Loss`), whatever device errors the driver survives.  `RemovesOnlyEmpty`
rests on `Practices = {}`: `fat32_rmdir` does not lock the directory it removes, so that
the directory stays empty between the test and the freeing only because nobody has a
vnode of it.  The theorem does not show that; it is what processes have to see to.

**Mount.**  `Inv` says what the count of each vnode is made of (`RefsInv`), one more for the
roots of ended mounts, that a used
vnode with count zero is being torn down by exactly one thread (`DyingInv`), and that
there is a rank that grows from each vnode to its parent (`RankInv`).  The last rules out
a cycle of vnodes that keep each other in use; without it nothing says that an unmount
that finds no references finds no vnodes.  `CleanInv` says that what is deleted was
saved or its saving failed, `GoneInv` that after the last reference nothing remains.  The layout is proved
for all disks and for every sector size that is a power of two.

**Attributes and times.**  `AttrInv` and `TimeInv` say that the entry has what was asked,
or else the vnode has it and is marked as not saved, and that a vnode read from the entry
agrees with it; of a time that is `Lost` it says nothing.  `TimeInv` needs `ReadBack`: writing the times that were read changes
nothing.  The conversions are proved by unrolling the months and by comparing year
starts, days and seconds separately.

**Only model-checked.**

- `OpsFinish` and `ReleasedIsFreed`: liveness under fairness is out of the prover's reach.
- `NoDeadlock` of `FileTree` does not hold; its run shows how.
- `Names`: folds over the bytes of names, which need induction over data.

## 5. Not modelled

- Bytes inside a cluster; `fat32_emit_dirent`, which lays out one record of readdir for
  three ABIs; byte order.
- Permission bits other than the read-only attribute: `fat32_faccess` is a test before an
  operation starts.
- Inode numbers: disjoint bit fields, and `fat32_unpack_ino` has no caller.
- A crash: sectors are written with `bdwrite` in any order, and the code neither orders
  nor recovers, so there is nothing to state but that what was flushed is there.
- Names with bytes above 127 in long names, which read back as "?" (`fat32_util.c:71`),
  and years after 2107: the code cannot represent them.
- Sectors that are not 512 bytes, which the unit of `bread` does not follow, and boot
  sectors no formatter writes (0 sectors per cluster).
- The buffer cache and when it is written: `bflush`, `bdwrite` and an unmount that does not
  flush are the kernel's.
- Two mounts of one device that run at the same time, and the behaviour chain of the VFS
  after a mount that failed late.
- The initialisation of a directory without a cluster in `fat32_alloc_fdentry`, which no
  operation of this driver produces, and the return with the directory locked at
  `fat32_vnode.c:928`, which needs a parent cluster that none writes.
- The debug-only integrity check, operations that return ENOSYS, module loading, the
  mount command.

## 6. What is left

Of the safety properties that hold only those of `Names` are without a proof, for the
reason given in section 4.  The actions of `DirSlots`, `FileTree` and `ClusterChains`
that stand for the same code at different scales (section 2) are related in words; a
module that composes them would say it in TLA+.
