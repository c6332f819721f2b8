------------------------------- MODULE Names -------------------------------
(***************************************************************************)
(* Names as bytes in the slots of a directory: which names fit the 8.3     *)
(* form (fat32_name_is_short), how the others are cut into long-name slots *)
(* with a made-up 8.3 name and its checksum (fat32_write_lfn_fdentry,      *)
(* fat32_generate_short_name, fat32_checksum), and how fat32_get_dirent    *)
(* puts them together again in a buffer that the caller uses for entry     *)
(* after entry.                                                            *)
(*                                                                         *)
(* DirSlots has the same directories with names as values.  Here one       *)
(* directory is changed by whole calls, as its lock makes them, and names  *)
(* are sequences of bytes.                                                 *)
(***************************************************************************)
EXTENDS Integers, FiniteSets, SequencesExt

CONSTANTS
    Name,        \* the names that processes use
    MaxName,     \* FAT32_MAX_NAME; the buffer has one byte more
    NumSlots,    \* bound: slots of the directory
    DirCluster   \* its first cluster

ASSUME NamesAssumption ==
    /\ MaxName \in Nat \ {0} /\ NumSlots \in Nat /\ DirCluster \in Nat
    /\ \A n \in Name : n \in Seq(1 .. 255) /\ Len(n) \in 1 .. MaxName

VARIABLES
    slots,   \* the slots of the directory
    live     \* history: the names created, and not removed since

vars == <<slots, live>>

----------------------------------------------------------------------------
(* Characters *)

Dot   == 46
Space == 32
NUL   == 0
FILL  == 65535     \* FAT32_LFN_FILL

Upper    == 65 .. 90
Lower    == 97 .. 122
Digit    == 48 .. 57
\* $ % ' - _ @ ~ ` ! ( ) { } ^ # &
Sign     == {36, 37, 39, 45, 95, 64, 126, 96, 33, 40, 41, 123, 125, 94, 35, 38}
Extended == 128 .. 255

\* fat32_toupper, fat32_chrcmp
ToUpper(c) == IF c \in Lower THEN c - 32 ELSE c

SameName(n, m) ==
    Len(n) = Len(m) /\ \A i \in 1 .. Len(n) : ToUpper(n[i]) = ToUpper(m[i])

----------------------------------------------------------------------------
(* The 8.3 form *)

Dots(n) == {i \in 1 .. Len(n) : n[i] = Dot}

\* Mutant: the length of the part before the dot is not tested.
IsShortAnyBase(n) ==
    /\ n[1] # Dot /\ Len(n) <= 12
    /\ \A i \in 1 .. Len(n) : n[i] \in Upper \cup Digit \cup Sign \cup Extended \cup {Dot}
    /\ Cardinality(Dots(n)) <= 1

\* fat32_name_is_short; "." and ".." never come here.
IsShort(n) ==
    /\ n[1] # Dot /\ Len(n) <= 12
    /\ \A i \in 1 .. Len(n) : n[i] \in Upper \cup Digit \cup Sign \cup Extended \cup {Dot}
    /\ \/ Dots(n) = {} /\ Len(n) <= 8
       \/ \E d \in 1 .. Len(n) : Dots(n) = {d} /\ d - 1 \in 1 .. 8 /\ Len(n) - d \in 1 .. 3

Padded(s, w) == [i \in 1 .. w |-> IF i <= Len(s) THEN s[i] ELSE Space]

\* fat32_create_fdentry: base and extension, each padded with spaces
Format83(n) ==
    LET d == IF Dots(n) = {} THEN Len(n) + 1 ELSE CHOOSE i \in Dots(n) : TRUE
    IN Padded(SubSeq(n, 1, d - 1), 8) \o Padded(SubSeq(n, d + 1, Len(n)), 3)

\* The part of a padded field before the first space
Unpadded(s) ==
    LET blanks == {i \in 1 .. Len(s) : s[i] = Space}
    IN IF blanks = {} THEN s ELSE SubSeq(s, 1, Min(blanks) - 1)

\* fat32_get_dirent: the name in 8.3 form as the user sees it
Parse83(e) ==
    Unpadded(SubSeq(e, 1, 8))
      \o IF e[9] = Space THEN <<>> ELSE <<Dot>> \o Unpadded(SubSeq(e, 9, 11))

----------------------------------------------------------------------------
(* Long names *)

Nibble(x, i) == (x \div 16 ^ i) % 16

Xor(a, b) ==
    LET Bit(x, k) == (x \div 2 ^ k) % 2
        Differ(k) == IF Bit(a, k) = Bit(b, k) THEN 0 ELSE 2 ^ k
    IN Differ(0) + Differ(1) + Differ(2) + Differ(3)

Hex(d) == IF d < 10 THEN 48 + d ELSE 55 + d

\* fat32_generate_short_name, for an entry from slot a on: four digits of the
\* cluster, three of cluster and slot, four of the slot
GenerateShortName(c, a) ==
    [i \in 1 .. 11 |->
        Hex(IF i <= 4 THEN Nibble(c, 7 - i)
            ELSE IF i <= 7 THEN Xor(Nibble(c, 7 - i), Nibble(a, 11 - i))
            ELSE Nibble(a, 11 - i))]

\* fat32_checksum: rotate right and add
Checksum(e) ==
    FoldLeft(LAMBDA sum, c : ((sum % 2) * 128 + sum \div 2 + c) % 256, 0, e)

NumLfn(n) == (Len(n) + 12) \div 13

\* fv_dirsz
Width(n) == IF IsShort(n) THEN 1 ELSE NumLfn(n) + 1

\* The characters of part q of a name: a NUL after the last, then fill
Chunk(n, q) ==
    [j \in 1 .. 13 |->
        LET i == (q - 1) * 13 + j
        IN IF i <= Len(n) THEN n[i] ELSE IF i = Len(n) + 1 THEN NUL ELSE FILL]

----------------------------------------------------------------------------
(* Slots *)

EndSlot     == [kind |-> "end"]
DeletedSlot == [kind |-> "deleted"]
LabelSlot   == [kind |-> "label"]           \* FAT32_ATTR_VOLUME_ID

ShortSlot(e) == [kind |-> "short", e |-> e]

LfnSlot(n, q, sum) ==
    [kind |-> "lfn", seq |-> q, last |-> q = NumLfn(n), chars |-> Chunk(n, q), sum |-> sum]

\* Mutant: the checksum is that of the long name.
EntrySlotsOwnSum(n, a) ==
    IF IsShort(n) THEN <<ShortSlot(Format83(n))>>
    ELSE [i \in 1 .. NumLfn(n) + 1 |->
            IF i > NumLfn(n) THEN ShortSlot(GenerateShortName(DirCluster, a))
            ELSE LfnSlot(n, NumLfn(n) + 1 - i, Checksum(n))]

\* fat32_create_fdentry, fat32_write_lfn_fdentry: the slots of an entry that
\* starts at slot a, the last part of the name first
EntrySlots(n, a) ==
    LET e == GenerateShortName(DirCluster, a)
    IN IF IsShort(n) THEN <<ShortSlot(Format83(n))>>
       ELSE [i \in 1 .. NumLfn(n) |-> LfnSlot(n, NumLfn(n) + 1 - i, Checksum(e))]
              \o <<ShortSlot(e)>>

\* Slots a, a + 1, ... are overwritten.  Slots are counted from 0.
Overwrite(s, a, new) ==
    [i \in DOMAIN s |-> IF i - a \in 1 .. Len(new) THEN new[i - a] ELSE s[i]]

\* fat32_delete_fdentry_chain
Delete(s, a, w) == Overwrite(s, a, [i \in 1 .. w |-> DeletedSlot])

----------------------------------------------------------------------------
(* Reading: fat32_get_dirent *)

\* The caller's buffer and name_size
Buffer(d, size) == [d |-> d, size |-> size]

\* What a reader finds in a buffer that was never written: anything
Garbage == [i \in 0 .. MaxName |-> 88]

\* The callers set d_name[0] and the size anew before each entry; the rest of
\* the buffer keeps what it held.
Fresh(b) == Buffer([b.d EXCEPT ![0] = NUL], MaxName + 1)

\* fat32_set_dname
SetDname(b, pos, c) ==
    IF pos >= b.size \/ c = FILL THEN b
    ELSE LET k == IF c >= 128 THEN 63 ELSE c
         IN Buffer([b.d EXCEPT ![pos] = k], IF k = NUL THEN pos ELSE b.size)

\* Mutant: the length is not set from the number of parts.
PreTerminatedNot(b, x) == b

\* The last part of a name comes first and sets the length, if the name can
\* fill it.
PreTerminated(b, x) ==
    IF x.last /\ x.seq * 13 < MaxName + 1
    THEN Buffer([b.d EXCEPT ![x.seq * 13] = NUL], x.seq * 13)
    ELSE b

\* A long-name slot x is read.
ReadPart(b, x) ==
    FoldLeft(LAMBDA c, j : SetDname(c, (x.seq - 1) * 13 + j - 1, x.chars[j]),
             PreTerminated(b, x), [j \in 1 .. 13 |-> j])

\* The first n bytes of the buffer
Text(b) == [i \in 1 .. b.size |-> b.d[i - 1]]

\* An 8.3 slot is read: its name is taken if d_name is empty.
NameAt(b, x) == IF b.d[0] = NUL THEN Parse83(x.e) ELSE Text(b)

\* The buffer after it
After(b, x) ==
    IF b.d[0] # NUL THEN b
    ELSE LET n == Parse83(x.e)
         IN Buffer([i \in 0 .. MaxName |->
                      IF i < Len(n) THEN n[i + 1] ELSE IF i = Len(n) THEN NUL ELSE b.d[i]],
                   Len(n))

\* The scan of fat32_find_dirent and fat32_readdir: b, whether long-name slots
\* came (has_lfn), where the entry starts, and the entries found so far
ScanSlot(r, i, x) ==
    CASE r.done -> r
      [] x.kind = "end" -> [r EXCEPT !.done = TRUE]
      [] x.kind = "deleted" -> r
      [] x.kind = "lfn" ->
           [r EXCEPT !.b = ReadPart(@, x), !.lfn = TRUE, !.start = IF x.last THEN i ELSE @]
      [] x.kind = "label" ->
           [r EXCEPT !.b = Fresh(@), !.lfn = FALSE, !.start = 0]
      [] x.kind = "short" ->
           LET a == IF r.lfn THEN r.start ELSE i
           IN [r EXCEPT !.found = Append(@, [name |-> NameAt(r.b, x), at |-> a, count |-> i - a + 1]),
                        !.b = Fresh(After(r.b, x)), !.lfn = FALSE, !.start = 0]

Entries(s) ==
    FoldLeft(LAMBDA r, i : ScanSlot(r, i - 1, s[i]),
             [b |-> Fresh(Buffer(Garbage, 0)), lfn |-> FALSE, start |-> 0, done |-> FALSE, found |-> <<>>],
             [i \in DOMAIN s |-> i]).found

\* fat32_find_dirent: the entries of name n; the first one counts.
Find(s, n) == SelectSeq(Entries(s), LAMBDA e : SameName(e.name, n))

----------------------------------------------------------------------------
(* Changing the directory, under its lock *)

\* fat32_alloc_fdentry: the first run of w free slots
Free(s, a, w) == \A i \in a + 1 .. a + w : s[i].kind \in {"end", "deleted"}

Rooms(s, w) == {a \in 0 .. NumSlots - w : Free(s, a, w)}

Enter(s, n) == LET a == Min(Rooms(s, Width(n))) IN Overwrite(s, a, EntrySlots(n, a))

\* fat32_create, fat32_mkdir
CreateName(n) ==
    /\ Find(slots, n) = <<>> /\ Rooms(slots, Width(n)) # {}
    /\ slots' = Enter(slots, n)
    /\ live' = live \cup {n}

\* fat32_remove, fat32_rmdir
RemoveName(n) ==
    LET e == Head(Find(slots, n))
    IN /\ Find(slots, n) # <<>>
       /\ slots' = Delete(slots, e.at, e.count)
       /\ live' = live \ {m \in live : SameName(m, n)}

\* fat32_rename in one directory: the slots are used again if they are enough,
\* and what is left over is deleted; otherwise the entry moves.
RenameName(n, m) ==
    LET e == Head(Find(slots, n))
        gone == Delete(slots, e.at, e.count)
    IN /\ Find(slots, n) # <<>> /\ Find(slots, m) = <<>>
       /\ IF Width(m) <= e.count
          THEN slots' = Overwrite(gone, e.at, EntrySlots(m, e.at))
          ELSE Rooms(gone, Width(m)) # {} /\ slots' = Enter(gone, m)
       /\ live' = (live \ {k \in live : SameName(k, n)}) \cup {m}

----------------------------------------------------------------------------
(* The specification *)

\* A root directory with its volume label
Init ==
    /\ slots = [i \in 1 .. NumSlots |-> IF i = 1 THEN LabelSlot ELSE EndSlot]
    /\ live = {}

Next ==
    \/ \E n \in Name : CreateName(n) \/ RemoveName(n)
    \/ \E n, m \in Name : RenameName(n, m)

Spec == Init /\ [][Next]_vars

----------------------------------------------------------------------------
(* Properties *)

\* A directory read from its start to its end (fat32_get_dirent in
\* fat32_readdir and fat32_find_dirent) shows exactly the names that were given
\* to fat32_create and fat32_rename, byte for byte, whatever was read into the
\* buffer before and whatever slots were used before; each name has slots of
\* its own.
NamesReadBack ==
    LET es == Entries(slots)
    IN /\ {es[k].name : k \in 1 .. Len(es)} = live
       /\ Len(es) = Cardinality(live)
       /\ \A k \in 1 .. Len(es) :
            es[k].count = Width(es[k].name) /\ (k > 1 => es[k - 1].at + es[k - 1].count <= es[k].at)

\* A reader that follows Microsoft's rules takes a long name only if its parts
\* stand in descending order right before the 8.3 slot and carry the checksum
\* of its name; otherwise it shows the 8.3 name.
LongParts(s, i) ==
    {k \in 1 .. i - 1 : \A j \in 1 .. k :
        LET x == s[i - j]
        IN x.kind = "lfn" /\ x.seq = j /\ x.sum = Checksum(s[i].e) /\ (x.last <=> j = k)}

StrictName(s, i) ==
    IF LongParts(s, i) = {} THEN Parse83(s[i].e)
    ELSE LET k == CHOOSE k \in LongParts(s, i) : TRUE
             all == [p \in 1 .. 13 * k |-> s[i - (p + 12) \div 13].chars[((p - 1) % 13) + 1]]
         IN SelectSeq(all, LAMBDA c : c \notin {NUL, FILL})

\* Such a reader (another operating system's) sees the same names as
\* fat32_get_dirent, and no 8.3 name twice: what fat32_create_fdentry writes is
\* well formed, also where fat32_rename uses slots again.
OthersAgree ==
    LET Shorts == {i \in 1 .. NumSlots : slots[i].kind = "short"}
    IN /\ {StrictName(slots, i) : i \in Shorts} = live
       /\ \A i, j \in Shorts : slots[i].e = slots[j].e => i = j
=============================================================================
