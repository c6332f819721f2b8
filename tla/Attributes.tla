----------------------------- MODULE Attributes -----------------------------
(***************************************************************************)
(* What a vnode and its directory entry say of one file or directory: type,*)
(* read-only bit, mode and the three times.  fat32_create, fat32_mkdir,    *)
(* fat32_lookup, fat32_setattr, fat32_touch, fat32_update_fdentry and      *)
(* fat32_rename convert between the two; the vnode remembers in fv_flags   *)
(* what the entry does not have yet.                                       *)
(***************************************************************************)
EXTENDS Times

CONSTANTS
    Instant,     \* the times the clock shows, and that processes set
    ChmodNew     \* whether a vnode's mode is changed that create or mkdir made

ASSUME AttributesAssumption ==
    Instant \subseteq Timespec /\ ChmodNew \in BOOLEAN

VARIABLES
    entry,   \* the 8.3 slot of the file
    fv,      \* its vnode
    now,     \* nanotime
    asked    \* history: what calls have made of the file, the times last set included

vars == <<entry, fv, now, asked>>

----------------------------------------------------------------------------
(* Entries and vnodes *)

Mode == {"zero", "ro", "rw"}       \* no bits at all, without and with S_IWUSR

NoEntry == [there |-> FALSE]
NoVnode == [there |-> FALSE]

\* In asked: the time was last set in a vnode that then forgot about it.
Lost == [lost |-> TRUE]

\* The clock does not go back.
Later(t) ==
    {u \in Instant : t.day < u.day \/ (t.day = u.day /\ 100 * t.sec + t.cs <= 100 * u.sec + u.cs)}

\* The times of an entry, written from those of a vnode
Creation(t) == <<FatDate(t), FatTime(t), FatTenths(t)>>
LastWrite(t) == <<FatDate(t), FatTime(t)>>

\* fat32_get_dirent, fat32_make_vnode: a vnode as read from the entry
ReadEntry ==
    [there |-> TRUE, new |-> FALSE, dirty |-> {}, attr |-> entry.attr,
     mode |-> IF "dir" \notin entry.attr /\ "ro" \in entry.attr THEN "ro" ELSE "rw",
     a |-> ToUnix(entry.a, 0, 0), m |-> ToUnix(entry.m[1], entry.m[2], 0),
     c |-> ToUnix(entry.c[1], entry.c[2], entry.c[3])]

\* fat32_update_fdentry: what is dirty in f goes to the entry.
UpdateEntry(f) ==
    [entry EXCEPT !.a = IF "a" \in f.dirty THEN FatDate(f.a) ELSE @,
                  !.m = IF "m" \in f.dirty THEN LastWrite(f.m) ELSE @,
                  !.c = IF "c" \in f.dirty THEN Creation(f.c) ELSE @,
                  !.attr = IF "attr" \in f.dirty THEN f.attr ELSE @]

Clean(f) == [f EXCEPT !.dirty = {}]

----------------------------------------------------------------------------
(* Creating and opening *)

\* fat32_create_fdentry writes attributes and times; fat32_make_vnode turns
\* mode 0 into 0644 or 0755 and leaves fv_attr as it was, 0; fat32_touch reads
\* the clock again and sets the times of the vnode.
Make(type, mode) ==
    /\ entry = NoEntry /\ fv = NoVnode
    /\ now' \in Later(now)
    /\ entry' = [there |-> TRUE, attr |-> type \cup IF mode = "rw" THEN {} ELSE {"ro"},
                 a |-> FatDate(now), m |-> LastWrite(now), c |-> Creation(now)]
    /\ fv' = [there |-> TRUE, new |-> TRUE, dirty |-> {"a", "m"}, attr |-> {},
              mode |-> IF mode = "zero" THEN "rw" ELSE mode, a |-> now', m |-> now', c |-> now']
    /\ asked' = [dir |-> type # {}, w |-> mode = "rw", a |-> now', m |-> now', c |-> now]

Create(mode) == Make({}, mode)
Mkdir(mode)  == Make({"dir"}, mode)

\* fat32_lookup
Lookup ==
    /\ entry # NoEntry /\ fv = NoVnode
    /\ fv' = ReadEntry
    /\ UNCHANGED <<entry, now, asked>>

\* fat32_create of a name that exists: fat32_touch sets all times of the vnode,
\* and fat32_make_vnode clears the flags that say so: the entry keeps its own,
\* and the times set are lost.  The read-only attribute denies it to a writer
\* (fat32_faccess).
CreateExisting(write) ==
    /\ entry # NoEntry /\ fv = NoVnode /\ "dir" \notin entry.attr
    /\ ~(write /\ "ro" \in entry.attr)
    /\ fv' = [ReadEntry EXCEPT !.a = now, !.m = now, !.c = now]
    /\ asked' = [asked EXCEPT !.a = Lost, !.m = Lost, !.c = Lost]
    /\ UNCHANGED <<entry, now>>

----------------------------------------------------------------------------
(* Changing *)

\* fat32_read and fat32_write: fat32_touch
Touch(which) ==
    /\ fv # NoVnode
    /\ fv' = [fv EXCEPT !.a = IF which = "a" THEN now ELSE @,
                        !.m = IF which = "m" THEN now ELSE @,
                        !.dirty = @ \cup {which}]
    /\ asked' = [asked EXCEPT !.a = IF which = "a" THEN now ELSE @,
                              !.m = IF which = "m" THEN now ELSE @]
    /\ UNCHANGED <<entry, now>>

\* Mutant: the other attributes are lost.
ChmodedBare(mode) ==
    LET attr == IF mode = "rw" THEN {} ELSE {"ro"}
    IN [fv EXCEPT !.mode = mode, !.attr = attr,
                  !.dirty = @ \cup IF attr = fv.attr THEN {} ELSE {"attr"}]

\* fat32_setattr with AT_MODE: the read-only attribute follows S_IWUSR.
Chmoded(mode) ==
    LET attr == IF mode = "rw" THEN fv.attr \ {"ro"} ELSE fv.attr \cup {"ro"}
    IN [fv EXCEPT !.mode = mode, !.attr = attr,
                  !.dirty = @ \cup IF attr = fv.attr THEN {} ELSE {"attr"}]

\* fat32_setattr ends with fat32_sync_metadata.
Chmod(mode) ==
    /\ fv # NoVnode /\ (ChmodNew \/ ~fv.new)
    /\ entry' = UpdateEntry(Chmoded(mode))
    /\ fv' = Clean(Chmoded(mode))
    /\ asked' = [asked EXCEPT !.w = mode = "rw"]
    /\ UNCHANGED now

\* fat32_setattr with AT_ATIME, AT_MTIME or AT_CTIME
Utimes(which, t) ==
    LET set == [fv EXCEPT ![which] = t, !.dirty = @ \cup {which}]
    IN /\ fv # NoVnode
       /\ entry' = UpdateEntry(set)
       /\ fv' = Clean(set)
       /\ asked' = [asked EXCEPT ![which] = t]
       /\ UNCHANGED now

\* fat32_close, fat32_fsync
Sync ==
    /\ fv # NoVnode /\ fv.dirty # {}
    /\ entry' = UpdateEntry(fv)
    /\ fv' = Clean(fv)
    /\ UNCHANGED <<now, asked>>

\* fat32_inactive writes what is dirty, and the vnode goes.
Inactive ==
    /\ fv # NoVnode
    /\ entry' = UpdateEntry(fv)
    /\ fv' = NoVnode
    /\ UNCHANGED <<now, asked>>

\* fat32_rename: the new entry is made from a vnode read from the old one.
Rename ==
    LET f == ReadEntry
    IN /\ entry # NoEntry /\ fv = NoVnode
       /\ entry' = [entry EXCEPT !.a = FatDate(f.a), !.m = LastWrite(f.m), !.c = Creation(f.c)]
       /\ UNCHANGED <<fv, now, asked>>

\* fat32_remove, fat32_rmdir
Remove ==
    /\ entry # NoEntry /\ fv = NoVnode
    /\ entry' = NoEntry
    /\ UNCHANGED <<fv, now, asked>>

Tick == now' \in Later(now) /\ UNCHANGED <<entry, fv, asked>>

----------------------------------------------------------------------------
(* The specification *)

Init ==
    /\ entry = NoEntry /\ fv = NoVnode
    /\ now \in {t \in Instant : t.day >= 0}
    /\ asked = [dir |-> FALSE, w |-> TRUE, a |-> now, m |-> now, c |-> now]

Next ==
    \/ \E mode \in Mode : Create(mode) \/ Mkdir(mode) \/ Chmod(mode)
    \/ Lookup \/ \E write \in BOOLEAN : CreateExisting(write)
    \/ Touch("a") \/ Touch("m")
    \/ \E which \in {"a", "m", "c"}, t \in Instant : Utimes(which, t)
    \/ Sync \/ Inactive \/ Rename \/ Remove \/ Tick

Spec == Init /\ [][Next]_vars

----------------------------------------------------------------------------
(* Properties *)

Closed == entry # NoEntry /\ fv = NoVnode

\* A directory stays a directory: neither fat32_setattr nor fat32_update_fdentry
\* changes the type of an entry.
TypeKept == entry # NoEntry => ("dir" \in entry.attr <=> asked.dir)

\* When its vnode is gone, the entry says of the file what processes made of it:
\* its type, and whether the owner may write it, as given to fat32_create,
\* fat32_mkdir and fat32_setattr, through any number of calls and renames.
AttrSurvives == Closed => TypeKept /\ ("ro" \in entry.attr <=> ~asked.w)

AtLeast1980(t) == IF t.day < 0 THEN Epoch ELSE t

\* ... and the times are those that were last set (fat32_touch, fat32_setattr)
\* or, for the creation time, those of the creation, as fat32_fat_to_unix_time
\* reads them back: the creation time to 10 ms, the modification time to the even
\* second before, the access time to the day.  The dates are the calendar's.  The
\* one exception is fat32_create of an existing name: the times that it sets
\* ("Set creation and modification times") do not reach the entry, and of a time
\* that no call has set since nothing is claimed.
TimesSurvive ==
    Closed =>
      /\ asked.c # Lost => ReadEntry.c = AtLeast1980(asked.c)
      /\ asked.m # Lost =>
           ReadEntry.m = [AtLeast1980(asked.m) EXCEPT !.sec = @ - (@ % 2), !.cs = 0]
      /\ asked.a # Lost =>
           /\ ReadEntry.a = [AtLeast1980(asked.a) EXCEPT !.sec = 0, !.cs = 0]
           /\ CalendarDay(entry.a) = AtLeast1980(asked.a).day
=============================================================================
