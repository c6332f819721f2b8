------------------------------ MODULE DirSlots ------------------------------
(***************************************************************************)
(* Directories as arrays of 32-byte slots: how names are found, entered,   *)
(* deleted and renamed (fat32_dir.c, and fat32_create, fat32_lookup,       *)
(* fat32_remove, fat32_rename and fat32_readdir of fat32_vnode.c), and how *)
(* fat32_update_fdentry writes the metadata of an open file back.          *)
(*                                                                         *)
(* A short name takes one slot.  A long name takes some long-name slots,   *)
(* numbered downwards, and a last slot in 8.3 form, which names the file.  *)
(* The directories here hold regular files; fv_lock of a directory is held *)
(* from the search for a name to the last write.                           *)
(***************************************************************************)
EXTENDS Integers, FiniteSetsExt

CONSTANTS
    Thread,
    Directory,       \* directories, by their first cluster
    Handle, Home,    \* their vnodes; Home[h] is the directory of vnode h
    Name,
    Width,           \* Width[n]: slots of name n (fat32_name_is_short)
    Fold,            \* Fold[n]: n without regard to case (fat32_chrcmp)
    File,
    Readers,         \* the vnodes that processes read with fat32_readdir
    PerCluster,      \* slots in a cluster
    MaxClusters,     \* bound: clusters of a directory
    MaxErrors,       \* bound: device errors in a behaviour
    CallsAfterError, \* bound: whether calls begin after a device error
    AliasedVnodes,   \* whether threads use two vnodes of a directory at once
    RemoveWhileOpen, \* whether open files are removed and renamed
    Slots0, Clusters0,   \* the directories at mount
    NoThread, NoName, NoFile, NoHandle

Position == 0 .. MaxClusters * PerCluster - 1
None     == -1
Class    == {Fold[n] : n \in Name}

ASSUME SlotAssumption ==
    /\ PerCluster \in Nat \ {0}
    /\ MaxClusters \in Nat /\ MaxErrors \in Nat
    /\ CallsAfterError \in BOOLEAN /\ AliasedVnodes \in BOOLEAN /\ RemoveWhileOpen \in BOOLEAN
    /\ Home \in [Handle -> Directory] /\ Readers \subseteq Handle
    /\ Width \in [Name -> Nat \ {0}]
    /\ DOMAIN Fold = Name
    /\ NoThread \notin Thread /\ NoName \notin Name /\ NoFile \notin File
    /\ NoHandle \notin Handle

VARIABLES
    slots,     \* slots[d][i]: slot i of directory d
    clusters,  \* clusters[d]: the clusters of its chain
    lock,      \* lock[h]: the thread that holds fv_lock for update
    op,        \* the operation each thread is running
    open,      \* open[f]: where the vnode of f has its entry
    reader,    \* a process that reads a directory with fat32_readdir
    errors,    \* device errors so far
    shown,     \* history: the names of each directory when last unlocked
    uncleared  \* history: the directories with a cluster that was not cleared

vars == <<slots, clusters, lock, op, open, reader, errors, shown, uncleared>>

----------------------------------------------------------------------------
(* Slots *)

Slot == [kind : {"end", "deleted", "lfn", "short"}, name : Name \cup {NoName},
         seq : Nat, last : BOOLEAN, file : File \cup {NoFile}]

ASSUME VolumeAssumption ==
    /\ Slots0 \in [Directory -> [Position -> Slot]]
    /\ Clusters0 \in [Directory -> 1 .. MaxClusters]

EmptySlot(k) == [kind |-> k, name |-> NoName, seq |-> 0, last |-> FALSE,
                 file |-> NoFile]

EndSlot     == EmptySlot("end")        \* name[0] = 0x00
DeletedSlot == EmptySlot("deleted")    \* name[0] = 0xE5

LfnSlot(n, q) == [kind |-> "lfn", name |-> n, seq |-> q, last |-> q = Width[n] - 1,
                  file |-> NoFile]

\* The 8.3 form of a long name is made up from its position
\* (fat32_generate_short_name); no file is asked for by it.
ShortSlot(n, f) == [kind |-> "short", name |-> IF Width[n] = 1 THEN n ELSE NoName,
                       seq |-> 0, last |-> FALSE, file |-> f]

\* fat32_write_lfn_fdentry, fat32_write_fdentry: slot i of the entry of n
EntrySlot(n, f, i) ==
    IF i = Width[n] - 1 THEN ShortSlot(n, f) ELSE LfnSlot(n, Width[n] - 1 - i)

\* The slots from position a on are written with new[0], new[1]...
Overwrite(s, a, new) ==
    [i \in Position |-> IF i - a \in DOMAIN new THEN new[i - a] ELSE s[i]]

Delete(s, a, p) == Overwrite(s, a, [i \in 0 .. p - 1 |-> DeletedSlot])

----------------------------------------------------------------------------
(* Reading a directory: fat32_get_dirent *)

\* A scan of the first lim slots stops at the end mark.
EndAt(s, lim) ==
    LET ends == {i \in 0 .. lim - 1 : s[i].kind = "end"}
    IN IF ends = {} THEN lim ELSE Min(ends)

\* The 8.3 slots a scan from position a meets
Shorts(s, a, lim) == {i \in a .. EndAt(s, lim) - 1 : s[i].kind = "short"}

\* The long-name slots it has met since the 8.3 slot before i
Fragments(s, a, i) ==
    {k \in a .. i - 1 : s[k].kind = "lfn" /\ \A j \in k .. i - 1 : s[j].kind # "short"}

LastMarks(s, a, i) == {k \in Fragments(s, a, i) : s[k].last}

\* Mutant: every entry is taken to have one long-name slot.
EntryStartBefore(s, a, i) == i - 1

\* Where the entry with 8.3 slot i starts: at the slot marked as the last
\* part of a name; at 0 if long-name slots came without one.
EntryStart(s, a, i) ==
    IF Fragments(s, a, i) = {} THEN i
    ELSE IF LastMarks(s, a, i) = {} THEN 0 ELSE Max(LastMarks(s, a, i))

\* The name in d_name at 8.3 slot i: each part of a long name overwrites what
\* an earlier slot put in its place, and the last part sets the length.  With
\* no first part d_name is empty, and the 8.3 name is taken.
PartOf(s, a, i, q) ==
    LET parts == {k \in Fragments(s, a, i) : s[k].seq = q}
    IN IF parts = {} THEN NoName ELSE s[Max(parts)].name

EntryName(s, a, i) ==
    IF \A k \in Fragments(s, a, i) : s[k].seq # 1 THEN s[i].name
    ELSE IF LastMarks(s, a, i) = {} THEN NoName
    ELSE LET k == Max(LastMarks(s, a, i))
         IN IF \A q \in 1 .. s[k].seq : PartOf(s, a, i, q) = s[k].name
            THEN s[k].name ELSE NoName

\* fat32_find_dirent looks for n in the first lim slots.
Matches(s, n, lim) ==
    {i \in Shorts(s, 0, lim) : EntryName(s, 0, i) \in {m \in Name : Fold[m] = Fold[n]}}

\* The names of a directory and their files, as searches find them
NamesOf(s, lim) ==
    [c \in Class |->
        LET found == {i \in Shorts(s, 0, lim) :
                        \E n \in Name : Fold[n] = c /\ EntryName(s, 0, i) = n}
        IN IF found = {} THEN NoFile ELSE s[Min(found)].file]

Limit(d) == clusters[d] * PerCluster

----------------------------------------------------------------------------
(* Finding room: fat32_alloc_fdentry *)

AllDeleted(s, a, b) == \A i \in a .. b - 1 : s[i].kind = "deleted"

\* Mutant: the count of free slots goes on over a slot in use.
FreeRunsBroken(s, w, lim) ==
    {a \in 0 .. EndAt(s, lim) - w : s[a].kind = "deleted"}

\* Where w slots go, with the first lim slots in view: the first run of w
\* deleted slots, or else the deleted slots before the end and on from there
FreeRuns(s, w, lim) ==
    {a \in 0 .. EndAt(s, lim) - w : AllDeleted(s, a, a + w)}

TailStart(s, lim) ==
    LET e == EndAt(s, lim)
    IN Min({a \in 0 .. e : AllDeleted(s, a, e)})

RoomAt(s, w, lim) ==
    IF FreeRuns(s, w, lim) # {} THEN Min(FreeRuns(s, w, lim)) ELSE TailStart(s, lim)

\* clusters_needed
Needed(s, w, lim) ==
    LET over == RoomAt(s, w, lim) + w - lim
    IN IF over > 0 THEN (over + PerCluster - 1) \div PerCluster ELSE 0

----------------------------------------------------------------------------
(* Operations *)

PC == {"idle", "lock", "find", "find2", "replace", "delete", "alloc",
       "write", "trim"}

\* A thread's operation on name n of the directory of h, and, for a rename, to
\* name m of the directory of th.  file is the file of the entry in hand, or
\* the new one; at and count are its fv_diroff and fv_dirsz.
Idle == [pc |-> "idle", kind |-> "none", h |-> NoHandle, th |-> NoHandle,
            n |-> NoName, m |-> NoName, file |-> NoFile, at |-> 0, count |-> 0]

Op == [pc : PC, kind : {"none", "create", "remove", "rename"},
       h : Handle \cup {NoHandle}, th : Handle \cup {NoHandle},
       n : Name \cup {NoName}, m : Name \cup {NoName}, file : File \cup {NoFile},
       at : Nat, count : Nat]

Go(t, o) == op' = [op EXCEPT ![t] = o]

SameDir(o) == Home[o.h] = Home[o.th]

NoLoc == [h |-> NoHandle, at |-> 0, count |-> 0]

Loc == [h : Handle \cup {NoHandle}, at : Nat, count : Nat]

NoReader == [h |-> NoHandle, at |-> 0, seen |-> {}, twice |-> {}, stable |-> {}]

\* The names f has
Whereabouts(names, f) == {dc \in Directory \X Class : names[dc[1]][dc[2]] = f}

\* Other threads may now lock the directories in ds, and see them.
Publish(ds) ==
    /\ shown' = [d \in Directory |->
                   IF errors' = 0 /\ d \in ds
                   THEN NamesOf(slots'[d], clusters'[d] * PerCluster) ELSE shown[d]]
    /\ LET kept == {f \in File : Whereabouts(shown', f) = Whereabouts(shown, f)}
       IN reader' = [reader EXCEPT !.stable = @ \cap kept, !.seen = @ \cap kept,
                                   !.twice = @ \cap kept]

\* mrunlock of all that t holds, at the end of its operation
Unlock(t) ==
    /\ lock' = [h \in Handle |-> IF lock[h] = t THEN NoThread ELSE lock[h]]
    /\ Publish({Home[op[t].h], Home[op[t].th]})

Return(t) == Go(t, Idle) /\ Unlock(t)

IOError == errors < MaxErrors /\ errors' = errors + 1

\* A name that no process has open, or is creating, removing or renaming
Names(o) == IF o.pc = "idle" THEN {} ELSE {<<Home[o.h], Fold[o.n]>>, <<Home[o.th], Fold[o.m]>>}

Unused(d, n) ==
    /\ \A u \in Thread : <<d, Fold[n]>> \notin Names(op[u])
    /\ shown[d][Fold[n]] # NoFile => open[shown[d][Fold[n]]] = NoLoc

\* Mutant: the call does not wait for the lock.
CallUnlocked(t, k, h, th, n, m, f) ==
    /\ op[t].pc = "idle"
    /\ Go(t, [pc |-> "find", kind |-> k, h |-> h, th |-> th, n |-> n, m |-> m, file |-> f,
              at |-> 0, count |-> 0])
    /\ UNCHANGED <<slots, clusters, lock, open, reader, errors, shown>>

\* A call of t through vnodes h and th gets fv_lock of h: mrupdate.
Call(t, k, h, th, n, m, f) ==
    /\ op[t].pc = "idle" /\ lock[h] = NoThread
    /\ AliasedVnodes \/ \A u \in Thread, g \in {h, th} :
          op[u].pc # "idle" =>
            /\ Home[op[u].h] = Home[g] => op[u].h = g
            /\ Home[op[u].th] = Home[g] => op[u].th = g
    /\ lock' = [lock EXCEPT ![h] = t]
    /\ Go(t, [pc |-> IF Home[h] = Home[th] THEN "find" ELSE "lock", kind |-> k,
              h |-> h, th |-> th, n |-> n, m |-> m, file |-> f, at |-> 0, count |-> 0])
    /\ UNCHANGED <<slots, clusters, open, reader, errors, shown>>

\* fat32_create; a new vnode is made for f.
Create(t, h, n, f) ==
    /\ \A d \in Directory, i \in Position : slots[d][i].file # f
    /\ \A u \in Thread : op[u].file # f
    /\ open[f] = NoLoc
    /\ RemoveWhileOpen \/ \A u \in Thread :
          <<Home[h], Fold[n]>> \in Names(op[u]) => op[u].kind = "create"
    /\ Call(t, "create", h, h, n, n, f)

\* fat32_remove
Remove(t, h, n) ==
    /\ RemoveWhileOpen \/ Unused(Home[h], n)
    /\ Call(t, "remove", h, h, n, n, NoFile)

\* fat32_rename; it returns at once if the names are the same.
Rename(t, h, n, th, m) ==
    /\ ~(Home[h] = Home[th] /\ n = m)
    /\ RemoveWhileOpen \/ (Unused(Home[h], n) /\ Unused(Home[th], m))
    /\ Call(t, "rename", h, th, n, m, NoFile)

\* Mutant: the target directory is not locked.
LockTargetNot(t) ==
    /\ op[t].pc = "lock"
    /\ Go(t, [op[t] EXCEPT !.pc = "find"])
    /\ UNCHANGED <<slots, clusters, lock, open, reader, errors, shown>>

\* fat32_rename locks the source directory first, then the target.
LockTarget(t) ==
    LET o == op[t]
    IN /\ o.pc = "lock" /\ lock[o.th] = NoThread
       /\ lock' = [lock EXCEPT ![o.th] = t]
       /\ Go(t, [o EXCEPT !.pc = "find"])
       /\ UNCHANGED <<slots, clusters, open, reader, errors, shown>>

\* fat32_find_dirent looks for n in directory d and meets 8.3 slot i, or none.
\* fat32_get_dirent takes a FAT entry it cannot read for the end of the
\* directory.
Search(d, n, i) ==
    LET found == Matches(slots[d], n, Limit(d))
    IN \/ i = (IF found = {} THEN None ELSE Min(found)) /\ UNCHANGED errors
       \/ /\ IOError /\ i = None
          /\ \E k \in 1 .. clusters[d] - 1 : Matches(slots[d], n, k * PerCluster) = {}

\* The entry found, with its 8.3 slot at i
Found(o, s, i) == [o EXCEPT !.file = s[i].file, !.at = EntryStart(s, 0, i),
                            !.count = i - EntryStart(s, 0, i) + 1]

\* fat32_make_vnode: the file of 8.3 slot i gets a vnode.
MakeVnode(h, s, i) ==
    /\ s[i].file # NoFile /\ open[s[i].file] = NoLoc
    /\ open' = [open EXCEPT ![s[i].file] =
                  [h |-> h, at |-> EntryStart(s, 0, i), count |-> i - EntryStart(s, 0, i) + 1]]

\* Mutant: a name is not looked for before it is created.
FindNameBlindly(t) ==
    /\ op[t].pc = "find" /\ op[t].kind = "create"
    /\ Go(t, [op[t] EXCEPT !.pc = "alloc"])
    /\ UNCHANGED <<slots, clusters, lock, open, reader, errors, shown>>

\* The name, or the old name.  If fat32_create finds it and VEXCL is not set,
\* it makes a vnode for the file there is.
FindName(t) ==
    LET o == op[t]
        s == slots[Home[o.h]]
        GoOn(p) == Go(t, p) /\ UNCHANGED <<lock, open, reader, shown>>
    IN /\ o.pc = "find"
       /\ UNCHANGED <<slots, clusters>>
       /\ \E i \in Position \cup {None} :
            /\ Search(Home[o.h], o.n, i)
            /\ CASE o.kind = "create" /\ i = None -> GoOn([o EXCEPT !.pc = "alloc"])
                 [] o.kind = "create" /\ i # None ->
                      Return(t) /\ (MakeVnode(o.h, s, i) \/ UNCHANGED open)
                 [] o.kind # "create" /\ i # None ->
                      GoOn([Found(o, s, i) EXCEPT
                              !.pc = IF o.kind = "rename" THEN "find2" ELSE "delete"])
                 [] OTHER -> Return(t) /\ UNCHANGED open                \* ENOENT

\* fat32_rename: the old slots are used again if the new name needs no more.
NextOfRename(o) ==
    IF SameDir(o) /\ Width[o.m] <= o.count THEN "write" ELSE "delete"

FindTarget(t) ==
    LET o == op[t]
    IN /\ o.pc = "find2"
       /\ \E i \in Position \cup {None} :
            /\ Search(Home[o.th], o.m, i)
            /\ Go(t, [o EXCEPT !.pc = IF i = None THEN NextOfRename(o) ELSE "replace"])
       /\ UNCHANGED <<slots, clusters, lock, open, reader, shown>>

\* fat32_delete_fdentry_chain deletes p of the count slots from a on: all, or,
\* if a cluster cannot be read, those before it.
Deletes(a, count, p) ==
    \/ p = count /\ UNCHANGED errors
    \/ IOError /\ p \in 0 .. count - 1 /\ (p = 0 \/ (a + p) % PerCluster = 0)

\* fat32_rename finds the new name taken and calls fat32_remove_common, which
\* takes fv_lock of the target directory itself, and passes over an error of
\* fat32_delete_fdentry_chain.
ReplaceTarget(t) ==
    LET o == op[t]
        d == Home[o.th]
        s == slots[d]
        found == Matches(s, o.m, Limit(d))
    IN /\ o.pc = "replace" /\ lock[o.th] = NoThread
       /\ UNCHANGED <<clusters, open>>
       /\ \/ /\ found # {}
             /\ LET e == Found(o, s, Min(found))
                IN \E p \in 0 .. e.count :
                     /\ Deletes(e.at, e.count, p)
                     /\ slots' = [slots EXCEPT ![d] = Delete(s, e.at, p)]
             /\ Go(t, [o EXCEPT !.pc = NextOfRename(o)])
             /\ Publish({d})
             /\ UNCHANGED lock
          \/ /\ Search(d, o.m, None)
             /\ UNCHANGED slots
             /\ Return(t)                           \* ENOENT

\* A cluster of the directory cannot be read.
SearchError(t) ==
    /\ op[t].pc \in {"find", "find2", "replace", "alloc"}
    /\ op[t].pc = "replace" => lock[op[t].th] = NoThread
    /\ IOError
    /\ UNCHANGED <<slots, clusters, open>>
    /\ Return(t)

\* Mutant: only the 8.3 slot is deleted.
DeleteShortOnly(t) ==
    LET o == op[t]
        d == Home[o.h]
    IN /\ o.pc = "delete"
       /\ slots' = [slots EXCEPT ![d] = Delete(@, o.at + o.count - 1, 1)]
       /\ UNCHANGED <<clusters, open, errors>>
       /\ Return(t)

\* The entry is deleted.  fat32_remove_common passes over an error here;
\* fat32_rename stops.
DeleteEntry(t) ==
    LET o == op[t]
        d == Home[o.h]
    IN /\ o.pc = "delete"
       /\ UNCHANGED <<clusters, open>>
       /\ \E p \in 0 .. o.count :
            /\ Deletes(o.at, o.count, p)
            /\ slots' = [slots EXCEPT ![d] = Delete(@, o.at, p)]
            /\ IF o.kind = "rename" /\ p = o.count
               THEN Go(t, [o EXCEPT !.pc = "alloc"]) /\ UNCHANGED <<lock, reader, shown>>
               ELSE Return(t)

\* The clusters of d that fat32_alloc_fdentry sees: it takes a FAT entry it
\* cannot read for the end of the chain.
InView(d, k) ==
    \/ k = clusters[d] /\ UNCHANGED errors
    \/ k \in 1 .. clusters[d] - 1 /\ IOError

\* Mutant: the new clusters keep what they held.
ExtendUncleared(d, k) ==
    clusters' = [clusters EXCEPT ![d] = Max({@, k})] /\ UNCHANGED slots

\* fat32_clear_cluster, on each cluster that d gains up to its kth
ClearUpTo(d, k) ==
    slots' = [slots EXCEPT ![d] =
        [i \in Position |-> IF i >= Limit(d) /\ i < k * PerCluster THEN EndSlot ELSE @[i]]]

\* The chain of d is made k clusters long; those it gains are cleared.
Extend(d, k) == clusters' = [clusters EXCEPT ![d] = Max({@, k})] /\ ClearUpTo(d, k)

\* fat32_alloc_fdentry: find room and extend the chain as far as needed.  What
\* follows the clusters in view comes into use as it is.
AllocSlots(t) ==
    LET o == op[t]
        d == Home[o.th]
        w == Width[o.m]
    IN /\ o.pc = "alloc"
       /\ \E k \in 1 .. clusters[d] :
            /\ InView(d, k)
            /\ LET lim == k * PerCluster
                   new == Needed(slots[d], w, lim)
               IN \/ /\ k + new <= MaxClusters
                     /\ Extend(d, k + new)
                     /\ Go(t, [o EXCEPT !.pc = "write", !.at = RoomAt(slots[d], w, lim),
                                        !.count = w])
                     /\ UNCHANGED <<lock, reader, shown>>
                  \/ \E got \in clusters[d] - k .. new - 1 :      \* ENOSPC
                     /\ k + got <= MaxClusters
                     /\ Extend(d, k + got)
                     /\ Return(t)
       /\ UNCHANGED open

\* fat32_allocate_cluster fails after it has linked a cluster, the one after the
\* kth, to the chain: it cannot read the FSInfo sector, or the FAT sector of the
\* second copy, and returns without clearing it.  The cluster is of the
\* directory from now on, with what it held before.
AllocUncleared(t) ==
    LET o == op[t]
        d == Home[o.th]
    IN /\ o.pc = "alloc"
       /\ \E v \in 1 .. clusters[d], k \in clusters[d] .. MaxClusters - 1 :
            /\ k < v + Needed(slots[d], Width[o.m], v * PerCluster)
            /\ errors' = errors + (IF v = clusters[d] THEN 1 ELSE 2) /\ errors' <= MaxErrors
            /\ clusters' = [clusters EXCEPT ![d] = k + 1]
            /\ ClearUpTo(d, k)
       /\ uncleared' = uncleared \cup {d}
       /\ UNCHANGED open
       /\ Return(t)

\* Mutant: the slots are written in ascending order of their numbers.
WriteShortFirst(t) ==
    LET o == op[t]
        d == Home[o.th]
    IN /\ o.pc = "write"
       /\ slots' = [slots EXCEPT ![d] = Overwrite(@, o.at,
                      [i \in 0 .. Width[o.m] - 1 |-> EntrySlot(o.m, o.file, Width[o.m] - 1 - i)])]
       /\ UNCHANGED <<clusters, errors, open>>
       /\ Return(t)

\* fat32_create_fdentry writes the entry, p slots of it if one cannot be read.
\* A new file has a vnode from now on.
WriteEntry(t) ==
    LET o == op[t]
        d == Home[o.th]
        w == Width[o.m]
    IN /\ o.pc = "write"
       /\ UNCHANGED clusters
       /\ \E p \in 0 .. w :
            /\ IF p = w THEN UNCHANGED errors ELSE IOError
            /\ slots' = [slots EXCEPT ![d] = Overwrite(@, o.at,
                           [i \in 0 .. p - 1 |-> EntrySlot(o.m, o.file, i)])]
            /\ open' = IF o.kind = "create" /\ p = w
                       THEN [open EXCEPT ![o.file] = [h |-> o.h, at |-> o.at, count |-> w]]
                       ELSE open
            /\ IF p = w /\ w < o.count
               THEN Go(t, [o EXCEPT !.pc = "trim"]) /\ UNCHANGED <<lock, reader, shown>>
               ELSE Return(t)

\* fat32_rename deletes what a shorter name leaves of the old entry.
TrimEntry(t) ==
    LET o == op[t]
        a == o.at + Width[o.m]
        c == o.count - Width[o.m]
    IN /\ o.pc = "trim"
       /\ UNCHANGED <<clusters, open>>
       /\ \E p \in 0 .. c :
            /\ Deletes(a, c, p)
            /\ slots' = [slots EXCEPT ![Home[o.h]] = Delete(@, a, p)]
       /\ Return(t)

----------------------------------------------------------------------------
(* Open files *)

\* No thread is at work in the directory of h.
Quiet(h) ==
    /\ lock[h] = NoThread
    /\ AliasedVnodes \/ \A g \in Handle : Home[g] = Home[h] => lock[g] = NoThread

\* fat32_lookup makes a vnode for the file of name n.  It makes it after it has
\* unlocked the directory, from the place it has found: what counts here, that
\* the place is in somebody's hands, is so from the search on.  (FileTree takes
\* the two apart.)
Lookup(h, n) ==
    /\ Quiet(h)
    /\ RemoveWhileOpen \/ \A u \in Thread : <<Home[h], Fold[n]>> \notin Names(op[u])
    /\ \E i \in Position : Search(Home[h], n, i) /\ MakeVnode(h, slots[Home[h]], i)
    /\ UNCHANGED <<slots, clusters, lock, op, reader, shown>>

\* fat32_update_fdentry, from fat32_close, fat32_fsync or fat32_inactive after
\* a write: size and first cluster go where the vnode has its 8.3 slot.
Written(x, f) == CASE x.kind = "short" -> [x EXCEPT !.file = f]
                   [] x.kind = "lfn"   -> [x EXCEPT !.name = NoName]
                   [] OTHER            -> x

\* Mutant: the first slot of the entry is taken for its 8.3 slot.
EntryOfFirst(f) == open[f].at

EntryOf(f) == open[f].at + open[f].count - 1

SyncMetadata(f) ==
    /\ open[f] # NoLoc /\ Quiet(open[f].h)
    /\ slots' = [slots EXCEPT ![Home[open[f].h]][EntryOf(f)] = Written(@, f)]
    /\ UNCHANGED <<clusters, lock, op, open, reader, errors, shown>>

\* fat32_inactive: the last reference to the vnode is gone.
Inactive(f) ==
    /\ open[f] # NoLoc
    /\ open' = [open EXCEPT ![f] = NoLoc]
    /\ UNCHANGED <<slots, clusters, lock, op, reader, errors, shown>>

----------------------------------------------------------------------------
(* Reading a directory from user space *)

\* A process reads the directory of h from the start.  stable: history, the
\* files that keep their name while it reads; seen and twice: those it has met.
ReadFirst(h) ==
    /\ h \in Readers /\ reader.h = NoHandle
    /\ reader' = [h |-> h, at |-> 0, seen |-> {}, twice |-> {},
                  stable |-> {shown[Home[h]][c] : c \in Class} \ {NoFile}]
    /\ UNCHANGED <<slots, clusters, lock, op, open, errors, shown>>

\* Mutant: the next call goes on one slot too far.
NextOffsetFar(i) == i + 2

\* *offset after an entry with its 8.3 slot at i
NextOffset(i) == i + 1

\* fat32_readdir, one entry at a time: the process may be given any number of
\* entries by one call, and the lock is free between calls.
ReadNext ==
    LET h == reader.h
        s == slots[Home[h]]
        rest == Shorts(s, reader.at, Limit(Home[h]))
    IN /\ h # NoHandle /\ Quiet(h)
       /\ \/ /\ rest # {}
             /\ LET f == s[Min(rest)].file
                IN reader' = [reader EXCEPT !.at = NextOffset(Min(rest)),
                                            !.seen = @ \cup ({f} \cap reader.stable),
                                            !.twice = @ \cup ({f} \cap reader.seen)]
          \/ rest = {} /\ reader' = NoReader
       /\ UNCHANGED <<slots, clusters, lock, op, open, errors, shown>>

----------------------------------------------------------------------------
(* The specification *)

Init ==
    /\ slots = Slots0
    /\ clusters = Clusters0
    /\ lock = [h \in Handle |-> NoThread]
    /\ op = [t \in Thread |-> Idle]
    /\ open = [f \in File |-> NoLoc]
    /\ reader = NoReader
    /\ errors = 0
    /\ shown = [d \in Directory |-> NamesOf(Slots0[d], Clusters0[d] * PerCluster)]
    /\ uncleared = {}

Step(t) ==
    \/ LockTarget(t) \/ FindName(t) \/ FindTarget(t) \/ ReplaceTarget(t) \/ SearchError(t)
    \/ DeleteEntry(t) \/ AllocSlots(t) \/ WriteEntry(t) \/ TrimEntry(t)

\* Whether a call may begin
Calls == CallsAfterError \/ errors = 0

Begin(t) ==
    \E h \in Handle, n \in Name :
        \/ \E f \in File : Create(t, h, n, f)
        \/ Remove(t, h, n)
        \/ \E th \in Handle, m \in Name : Rename(t, h, n, th, m)

Regular ==
    \/ \E t \in Thread : Step(t) \/ (Calls /\ Begin(t))
    \/ /\ Calls
       /\ \/ \E h \in Handle : ReadFirst(h) \/ \E n \in Name : Lookup(h, n)
          \/ \E f \in File : SyncMetadata(f) \/ Inactive(f)
          \/ ReadNext

Next ==
    \/ Regular /\ UNCHANGED uncleared
    \/ \E t \in Thread : AllocUncleared(t)

Spec == Init /\ [][Next]_vars

----------------------------------------------------------------------------
(* Properties *)

\* Every piece of the state keeps its type: no entry runs over the end of its
\* directory, and what a thread or a vnode has in hand is an entry of it.
TypeOK ==
    /\ slots \in [Directory -> [Position -> Slot]]
    /\ clusters \in [Directory -> 1 .. MaxClusters]
    /\ lock \in [Handle -> Thread \cup {NoThread}]
    /\ op \in [Thread -> Op]
    /\ open \in [File -> Loc]
    /\ reader \in [h : Handle \cup {NoHandle}, at : Nat, seen : SUBSET File,
                   twice : SUBSET File, stable : SUBSET File]
    /\ errors \in Nat
    /\ shown \in [Directory -> [Class -> File \cup {NoFile}]]
    /\ uncleared \subseteq Directory

Undamaged == errors = 0

Unlocked(d) == \A h \in Handle : Home[h] = d => lock[h] = NoThread

\* Nothing follows the end mark of a directory: fat32_get_dirent and
\* fat32_alloc_fdentry stop there, so an entry after it would be lost or
\* overwritten.  Of the device errors only one can break this, and only in the
\* directory it meets: the one after which fat32_allocate_cluster leaves a
\* cluster in the chain that it has not cleared.
NothingAfterEnd ==
    \A d \in Directory \ uncleared : \A i, j \in 0 .. Limit(d) - 1 :
        slots[d][i].kind = "end" /\ i < j => slots[d][j].kind = "end"

\* The long-name slots of a directory that is not being changed all belong to
\* a name: they stand in order before an 8.3 slot, and no deleted name leaves
\* any behind for the next file to be called by.
NoOrphans ==
    Undamaged => \A d \in Directory : Unlocked(d) =>
        \A i \in 0 .. Limit(d) - 1 : slots[d][i].kind = "lfn" =>
            LET n == slots[d][i].name
                a == i - (Width[n] - 1 - slots[d][i].seq)
            IN /\ a >= 0 /\ a + Width[n] <= Limit(d)
               /\ \A j \in 0 .. Width[n] - 1 :
                     slots[d][a + j] = EntrySlot(n, slots[d][a + Width[n] - 1].file, j)

\* No two entries of a directory have names that differ only in case, also
\* when two threads create one name at the same time.
NoDuplicateName ==
    Undamaged => \A d \in Directory : Unlocked(d) => \A n \in Name :
        Cardinality(Matches(slots[d], n, Limit(d))) <= 1

\* fat32_update_fdentry writes to the entry of its own file.
SyncHitsOwnEntry ==
    Undamaged => \A f \in File : open[f] # NoLoc /\ Quiet(open[f].h) =>
        LET x == slots[Home[open[f].h]][EntryOf(f)]
        IN x.kind = "short" /\ x.file = f

\* A process that reads a directory to its end meets every file that kept its
\* name meanwhile, and meets it once, whatever is created, removed and renamed
\* between its calls of fat32_readdir.
ReaddirComplete ==
    [][reader.h # NoHandle /\ reader'.h = NoHandle /\ Undamaged =>
         reader.stable \subseteq reader.seen \ reader.twice]_vars

\* What fat32_create_fdentry writes over was free: fat32_alloc_fdentry found
\* room, across clusters, deleted slots and the end mark, while other threads
\* waited for the lock.  (An error in the FAT can break this: a cluster it
\* cannot see comes into use with its entries.)
AllocFindsFree ==
    Undamaged => \A t \in Thread :
        op[t].pc = "write" /\ ~(op[t].kind = "rename" /\ SameDir(op[t])) =>
            \A i \in op[t].at .. op[t].at + op[t].count - 1 :
                slots[Home[op[t].th]][i].kind \in {"deleted", "end"}

\* The directories implement a map from names to files.
Map == INSTANCE DirMap WITH names <- shown

ImplementsDirMap == Map!Spec

----------------------------------------------------------------------------
(* Volumes without damage, the hypotheses of the theorems *)

\* The directories of the volume end at their end marks.
EndsLast ==
    \A d \in Directory : \A i, j \in 0 .. Clusters0[d] * PerCluster - 1 :
        Slots0[d][i].kind = "end" /\ i < j => Slots0[d][j].kind = "end"

\* What starts at a position: an entry, or none
NoEntry == [name |-> NoName, file |-> NoFile]

EntryType == [name : Name, file : File] \cup {NoEntry}

\* x[a] is the entry that starts at position a: its long-name slots and its
\* 8.3 slot are there, and no slot is in use that is not of an entry.
Describes(x, s, lim) ==
    /\ x \in [Position -> EntryType]
    /\ \A a \in Position : x[a] # NoEntry =>
         /\ a + Width[x[a].name] <= lim
         /\ \A j \in 0 .. Width[x[a].name] - 1 : s[a + j] = EntrySlot(x[a].name, x[a].file, j)
    /\ \A i \in Position : i < lim /\ s[i].kind \in {"lfn", "short"} =>
         \E a \in Position : x[a] # NoEntry /\ a <= i /\ i < a + Width[x[a].name]

\* No two entries have one name.
Distinct(x) ==
    \A a, b \in Position :
        x[a] # NoEntry /\ x[b] # NoEntry /\ Fold[x[a].name] = Fold[x[b].name] => a = b

Entries == [Directory -> [Position -> EntryType]]

\* The names of a directory differ by more than case, and a file has one name.
NoTwins(e) == \A d \in Directory : Distinct(e[d])

OneName(e) ==
    \A d, c \in Directory : \A a, b \in Position :
        e[d][a] # NoEntry /\ e[d][a].file = e[c][b].file => d = c /\ a = b

\* e are the entries at mount: every slot in use is of one of them.
MountedWith(e) ==
    /\ \A d \in Directory : Describes(e[d], Slots0[d], Clusters0[d] * PerCluster)
    /\ NoTwins(e) /\ OneName(e)
=============================================================================
