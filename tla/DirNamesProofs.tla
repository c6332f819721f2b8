-------------------------- MODULE DirNamesProofs ---------------------------
(***************************************************************************)
(* Proofs about DirSlots that follow the entries of the directories: no    *)
(* long-name slot is left without its name, no name is entered twice, a    *)
(* vnode keeps the place of its entry, a process that reads misses and     *)
(* repeats nothing, and the directories implement DirMap.                  *)
(*                                                                         *)
(* The inductive invariant says that some map e from positions to entries  *)
(* describes the slots, and relates to e what threads have in hand, what   *)
(* vnodes and readers remember, and the names shown.  Each action puts at  *)
(* most one entry into e or takes one out.                                 *)
(***************************************************************************)
EXTENDS DirSlotsProofs, FiniteSetTheorems

----------------------------------------------------------------------------
(* The entries of a directory *)

\* The 8.3 slot of the entry at a
Last(x, a) == a + Width[x[a].name] - 1

\* The slots of an entry with its 8.3 slot at z, one by one
Laid(s, a, z, n, f) ==
    /\ s[z].kind = "short" /\ s[z].file = f /\ s[z].name = IF a = z THEN n ELSE NoName
    /\ \A k \in a .. z - 1 : s[k].kind = "lfn" /\ s[k].name = n /\ s[k].seq = z - k /\ (s[k].last <=> k = a)

\* The slots of name n
LEMMA EntrySlotIs ==
    ASSUME NEW n \in Name, NEW f, NEW j \in 0 .. Width[n] - 1
    PROVE  /\ j = Width[n] - 1 =>
                /\ EntrySlot(n, f, j).kind = "short" /\ EntrySlot(n, f, j).file = f
                /\ EntrySlot(n, f, j).name = IF Width[n] = 1 THEN n ELSE NoName
           /\ j # Width[n] - 1 =>
                /\ EntrySlot(n, f, j).kind = "lfn" /\ EntrySlot(n, f, j).name = n
                /\ EntrySlot(n, f, j).seq = Width[n] - 1 - j
                /\ (EntrySlot(n, f, j).last <=> j = 0)
<1>1. Width[n] \in Nat /\ Width[n] > 0
    BY SizeFacts
<1>2. CASE j = Width[n] - 1
    BY <1>2 DEF EntrySlot, ShortSlot
<1>3. CASE j # Width[n] - 1
  <2> DEFINE q == Width[n] - 1 - j
             l == q = Width[n] - 1
  <2>1. EntrySlot(n, f, j) = [kind |-> "lfn", name |-> n, seq |-> q, last |-> l, file |-> NoFile]
      BY <1>3 DEF EntrySlot, LfnSlot
  <2>2. l <=> j = 0
      BY <1>1
  <2> HIDE DEF q, l
  <2>3. EntrySlot(n, f, j).last <=> j = 0
      BY <2>1, <2>2
  <2>4. EntrySlot(n, f, j).kind = "lfn" /\ EntrySlot(n, f, j).name = n /\ EntrySlot(n, f, j).seq = q
      BY <2>1
  <2> QED BY <1>3, <2>3, <2>4 DEF q
<1> QED BY <1>2, <1>3

\* What is where an entry is
LEMMA EntryLaid ==
    ASSUME NEW x, NEW s, NEW lim \in Nat, Describes(x, s, lim), NEW a \in Position, x[a] # NoEntry
    PROVE  /\ a \in Nat /\ x[a].name \in Name /\ x[a].file \in File /\ Width[x[a].name] \in Nat
           /\ Last(x, a) \in Nat /\ a <= Last(x, a) /\ Last(x, a) < lim
           /\ Last(x, a) - a + 1 = Width[x[a].name]
           /\ Laid(s, a, Last(x, a), x[a].name, x[a].file)
<1>1. x[a] \in EntryType /\ x[a].name \in Name /\ x[a].file \in File
    BY DEF Describes, EntryType
<1>2. PICK n, f, w : n = x[a].name /\ f = x[a].file /\ w = Width[n]
    OBVIOUS
<1>3. w \in Nat /\ w > 0 /\ a \in Nat
    BY <1>1, <1>2, SizeFacts
<1>4. a + w <= lim /\ \A j \in 0 .. w - 1 : s[a + j] = EntrySlot(n, f, j)
    BY <1>2 DEF Describes
<1>5. PICK z \in Nat : z = a + w - 1
    BY <1>3
<1>6. s[z] = EntrySlot(n, f, w - 1)
  <2>1. w - 1 \in 0 .. w - 1 /\ a + (w - 1) = z
      BY <1>3, <1>5
  <2> QED BY <1>4, <2>1
<1>7. s[z].kind = "short" /\ s[z].file = f /\ s[z].name = IF a = z THEN n ELSE NoName
  <2>1. w - 1 \in 0 .. Width[n] - 1 /\ w - 1 = Width[n] - 1 /\ (a = z <=> Width[n] = 1)
      BY <1>2, <1>3, <1>5
  <2>2. PICK j \in 0 .. Width[n] - 1 : j = w - 1
      BY <2>1
  <2> QED BY <1>1, <1>2, <1>6, <2>1, <2>2, EntrySlotIs
<1>8. ASSUME NEW k \in a .. z - 1
      PROVE  s[k].kind = "lfn" /\ s[k].name = n /\ s[k].seq = z - k /\ (s[k].last <=> k = a)
  <2>1. PICK j \in 0 .. Width[n] - 1 : j = k - a
      BY <1>2, <1>3, <1>5
  <2>2. j # Width[n] - 1 /\ a + j = k /\ Width[n] - 1 - j = z - k /\ (j = 0 <=> k = a) /\ j \in 0 .. w - 1
      BY <1>2, <1>3, <1>5, <2>1
  <2>3. s[k] = EntrySlot(n, f, j)
      BY <1>4, <2>2
  <2>4. EntrySlot(n, f, j).kind = "lfn" /\ EntrySlot(n, f, j).name = n /\ EntrySlot(n, f, j).seq = Width[n] - 1 - j
        /\ (EntrySlot(n, f, j).last <=> j = 0)
      BY <1>1, <1>2, <2>2, EntrySlotIs
  <2> QED BY <2>2, <2>3, <2>4
<1>9. Laid(s, a, z, n, f)
    BY <1>7, <1>8 DEF Laid
<1>10. Last(x, a) = z
    BY <1>2, <1>5 DEF Last
<1> QED BY <1>1, <1>2, <1>3, <1>4, <1>5, <1>9, <1>10

\* Entries do not overlap.
LEMMA EntriesApart ==
    ASSUME NEW x, NEW s, NEW lim \in Nat, Describes(x, s, lim),
           NEW a \in Position, NEW b \in Position, x[a] # NoEntry, x[b] # NoEntry,
           NEW i \in Nat, a <= i, i <= Last(x, a), b <= i, i <= Last(x, b)
    PROVE  a = b
<1>1. PICK y, z, n, m, f, g : /\ y = Last(x, a) /\ z = Last(x, b) /\ n = x[a].name /\ m = x[b].name
                              /\ f = x[a].file /\ g = x[b].file
    OBVIOUS
<1>2. /\ a \in Nat /\ b \in Nat /\ y \in Nat /\ z \in Nat /\ a <= y /\ b <= z /\ n \in Name /\ m \in Name
      /\ y - a + 1 = Width[n] /\ z - b + 1 = Width[m] /\ Laid(s, a, y, n, f) /\ Laid(s, b, z, m, g)
    BY <1>1, EntryLaid
<1>3. ASSUME n = m, y = z PROVE a = b
    BY <1>2, <1>3
<1>4. ASSUME NEW k \in Nat, a <= k, k < y, b <= k, k < z PROVE a = b
  <2>1. k \in a .. y - 1 /\ k \in b .. z - 1
      BY <1>2, <1>4
  <2>2. n = m /\ y - k = z - k
      BY <1>2, <2>1 DEF Laid
  <2> QED BY <1>2, <1>3, <1>4, <2>2
<1>5. CASE s[i].kind = "lfn"
  <2>1. i # y /\ i # z
      BY <1>2, <1>5 DEF Laid
  <2> QED BY <1>1, <1>2, <1>4, <2>1
<1>6. CASE s[i].kind # "lfn"
  <2>1. ~(i \in a .. y - 1) /\ ~(i \in b .. z - 1)
      BY <1>2, <1>6 DEF Laid
  <2>2. i = y /\ i = z
      BY <1>1, <1>2, <2>1
  <2>3. CASE a < i /\ b < i
    <3>1. i - 1 \in Nat /\ a <= i - 1 /\ i - 1 < y /\ b <= i - 1 /\ i - 1 < z
        BY <1>2, <2>2, <2>3
    <3> QED BY <1>4, <3>1
  <2>4. CASE a = i \/ b = i
    <3>1. s[i].name = (IF a = i THEN n ELSE NoName) /\ s[i].name = IF b = i THEN m ELSE NoName
        BY <1>2, <2>2 DEF Laid
    <3>2. n # NoName /\ m # NoName
        BY <1>2, SlotAssumption
    <3> QED BY <2>4, <3>1, <3>2
  <2> QED BY <1>1, <1>2, <2>3, <2>4
<1> QED BY <1>5, <1>6

\* An 8.3 slot is the last of an entry.
LEMMA ShortIsLast ==
    ASSUME NEW x, NEW s, NEW lim \in Nat, Describes(x, s, lim),
           NEW i \in Position, i < lim, s[i].kind = "short"
    PROVE  \E a \in Position : x[a] # NoEntry /\ i = Last(x, a)
<1>1. PICK a \in Position : x[a] # NoEntry /\ a <= i /\ i < a + Width[x[a].name]
    BY DEF Describes
<1>2. PICK z : z = Last(x, a)
    OBVIOUS
<1>3. a \in Nat /\ z \in Nat /\ z - a + 1 = Width[x[a].name] /\ Width[x[a].name] \in Nat
      /\ Laid(s, a, z, x[a].name, x[a].file)
    BY <1>1, <1>2, EntryLaid
<1>4. i \in Nat
    BY SizeFacts
<1>5. ~(i \in a .. z - 1)
    BY <1>3 DEF Laid
<1>6. i = z
    BY <1>1, <1>3, <1>4, <1>5
<1> QED BY <1>1, <1>2, <1>6

\* The long-name slots a scan has met at the 8.3 slot of an entry are those of
\* the entry.
LEMMA EntryFragments ==
    ASSUME NEW x, NEW s, NEW lim \in Nat, \A i \in 0 .. lim - 1 : i \in Position, Describes(x, s, lim),
           NEW a \in Position, x[a] # NoEntry
    PROVE  Fragments(s, 0, Last(x, a)) = a .. Last(x, a) - 1
<1>1. PICK z : z = Last(x, a)
    OBVIOUS
<1>2. /\ a \in Nat /\ z \in Nat /\ a <= z /\ z < lim /\ Laid(s, a, z, x[a].name, x[a].file)
    BY <1>1, EntryLaid
<1>3. ASSUME NEW k \in Fragments(s, 0, z) PROVE k \in a .. z - 1
  <2>1. k \in 0 .. z - 1 /\ s[k].kind = "lfn" /\ \A j \in k .. z - 1 : s[j].kind # "short"
      BY <1>3 DEF Fragments
  <2>2. k \in Position /\ k \in Nat /\ k < lim
      BY <1>2, <2>1
  <2>3. PICK b \in Position : x[b] # NoEntry /\ b <= k /\ k < b + Width[x[b].name]
      BY <2>1, <2>2 DEF Describes
  <2>4. PICK y : y = Last(x, b)
      OBVIOUS
  <2>5. /\ b \in Nat /\ y \in Nat /\ Width[x[b].name] \in Nat /\ y - b + 1 = Width[x[b].name]
        /\ Laid(s, b, y, x[b].name, x[b].file)
      BY <2>3, <2>4, EntryLaid
  <2>6. s[y].kind = "short" /\ k <= y
      BY <2>2, <2>3, <2>5 DEF Laid
  <2>7. z <= y
      BY <1>2, <2>1, <2>2, <2>5, <2>6
  <2>8. a = b
    <3>1. a <= z /\ z <= Last(x, a) /\ b <= z /\ z <= Last(x, b)
        BY <1>1, <1>2, <2>1, <2>2, <2>3, <2>4, <2>5, <2>7
    <3> QED BY <1>2, <2>3, <3>1, EntriesApart
  <2> QED BY <1>2, <2>1, <2>2, <2>3, <2>8
<1>4. ASSUME NEW k \in a .. z - 1 PROVE k \in Fragments(s, 0, z)
  <2>1. k \in 0 .. z - 1 /\ s[k].kind = "lfn"
      BY <1>2 DEF Laid
  <2>2. \A j \in k .. z - 1 : s[j].kind # "short"
    <3>1. \A j \in k .. z - 1 : j \in a .. z - 1
        BY <1>2
    <3> QED BY <1>2, <3>1 DEF Laid
  <2> QED BY <2>1, <2>2 DEF Fragments
<1> QED BY <1>1, <1>3, <1>4

\* fat32_get_dirent finds where an entry starts and what its name is.
LEMMA EntryRead ==
    ASSUME NEW x, NEW s, NEW lim \in Nat, \A i \in 0 .. lim - 1 : i \in Position, Describes(x, s, lim),
           NEW a \in Position, x[a] # NoEntry
    PROVE  EntryStart(s, 0, Last(x, a)) = a /\ EntryName(s, 0, Last(x, a)) = x[a].name
<1>1. PICK z, n : z = Last(x, a) /\ n = x[a].name
    OBVIOUS
<1>2. /\ a \in Nat /\ z \in Nat /\ a <= z /\ z < lim /\ Laid(s, a, z, n, x[a].file)
    BY <1>1, EntryLaid
<1>3. PICK F : F = Fragments(s, 0, z)
    OBVIOUS
<1>4. F = a .. z - 1
    BY <1>1, <1>3, EntryFragments
<1>5. CASE a = z
  <2>1. F = {}
      BY <1>2, <1>4, <1>5
  <2>2. s[z].name = n
      BY <1>2, <1>5 DEF Laid
  <2> QED BY <1>1, <1>3, <1>5, <2>1, <2>2 DEF EntryStart, EntryName
<1>6. CASE a < z
  <2>1. a \in F /\ z - 1 \in F
      BY <1>2, <1>4, <1>6
  <2>2. PICK M : M = LastMarks(s, 0, z)
      OBVIOUS
  <2>3. M = {k \in F : s[k].last}
      BY <1>3, <2>2 DEF LastMarks
  <2>4. \A k \in F : s[k].last <=> k = a
      BY <1>2, <1>4 DEF Laid
  <2>5. \A k : k \in M <=> k = a
      BY <2>1, <2>3, <2>4
  <2>6. M \subseteq Nat /\ M # {} /\ \A k \in M : k <= a
      BY <1>2, <2>5
  <2>7. Max(M) = a
    <3>1. Max(M) \in M
        BY <1>2, <2>6, MaxOf
    <3> QED BY <2>5, <3>1
  <2>8. EntryStart(s, 0, z) = a
      BY <1>3, <2>1, <2>2, <2>6, <2>7 DEF EntryStart
  <2>9. s[z - 1].seq = 1 /\ s[a].seq = z - a /\ s[a].name = n
    <3>1. z - 1 \in a .. z - 1 /\ a \in a .. z - 1 /\ z - (z - 1) = 1
        BY <1>2, <1>6
    <3> QED BY <1>2, <3>1 DEF Laid
  <2>10. ASSUME NEW q \in 1 .. z - a PROVE PartOf(s, 0, z, q) = n
    <3>1. PICK P : P = {k \in F : s[k].seq = q}
        OBVIOUS
    <3>2. \A k \in F : s[k].seq = z - k /\ s[k].name = n
        BY <1>2, <1>4 DEF Laid
    <3>3. z - q \in F /\ z - (z - q) = q
        BY <1>2, <1>4
    <3>4. \A k : k \in P <=> k = z - q
        BY <1>2, <1>4, <3>1, <3>2, <3>3
    <3>5. P \subseteq Nat /\ P # {} /\ \A k \in P : k <= z
      <4>1. z - q \in Nat /\ z - q <= z
          BY <1>2
      <4> QED BY <3>4, <4>1
    <3>6. Max(P) \in P
        BY <1>2, <3>5, MaxOf
    <3>7. s[Max(P)].name = n
        BY <3>2, <3>3, <3>4, <3>6
    <3>8. PartOf(s, 0, z, q) = IF P = {} THEN NoName ELSE s[Max(P)].name
        BY <1>3, <3>1 DEF PartOf
    <3> QED BY <3>5, <3>7, <3>8
  <2>11. EntryName(s, 0, z) = n
    <3>1. ~(\A k \in F : s[k].seq # 1)
        BY <2>1, <2>9
    <3>2. \A q \in 1 .. s[a].seq : PartOf(s, 0, z, q) = s[a].name
        BY <2>9, <2>10
    <3>3. EntryName(s, 0, z) =
            IF \A k \in F : s[k].seq # 1 THEN s[z].name
            ELSE IF M = {} THEN NoName
            ELSE IF \A q \in 1 .. s[Max(M)].seq : PartOf(s, 0, z, q) = s[Max(M)].name
                 THEN s[Max(M)].name ELSE NoName
        BY <1>3, <2>2 DEF EntryName
    <3> QED BY <2>6, <2>7, <2>9, <3>1, <3>2, <3>3
  <2> QED BY <1>1, <2>8, <2>11
<1> QED BY <1>2, <1>5, <1>6

\* Nothing follows the end mark in the first lim slots of s.
Ends(s, lim) == \A i, j \in 0 .. lim - 1 : s[i].kind = "end" /\ i < j => s[j].kind = "end"

\* A scan meets all 8.3 slots.
LEMMA AllShorts ==
    ASSUME NEW s \in Slotted, NEW k \in 1 .. MaxClusters, NEW lim, lim = k * PerCluster, Ends(s, lim),
           NEW a \in Nat, NEW i
    PROVE  i \in Shorts(s, a, lim) <=> i \in Position /\ a <= i /\ i < lim /\ s[i].kind = "short"
<1>1. PICK e : e = EndAt(s, lim)
    OBVIOUS
<1>2. e \in 0 .. lim /\ lim \in Nat /\ (\A j \in 0 .. lim - 1 : j \in Position) /\ (e < lim => s[e].kind = "end")
    BY <1>1, EndAtFacts, SizeFacts
<1>3. i \in Shorts(s, a, lim) <=> i \in a .. e - 1 /\ s[i].kind = "short"
    BY <1>1 DEF Shorts
<1>4. ASSUME i \in Position, a <= i, i < lim, s[i].kind = "short" PROVE i \in a .. e - 1
  <2>1. i \in Nat
      BY <1>4, SizeFacts
  <2>2. ASSUME e <= i PROVE FALSE
    <3>1. e \in 0 .. lim - 1 /\ i \in 0 .. lim - 1 /\ s[e].kind = "end"
        BY <1>2, <1>4, <2>1, <2>2
    <3>2. e # i
        BY <1>4, <3>1
    <3>3. e < i
        BY <1>2, <2>1, <2>2, <3>2
    <3>4. s[i].kind = "end"
        BY <3>1, <3>3 DEF Ends
    <3> QED BY <1>4, <3>4
  <2> QED BY <1>2, <1>4, <2>1, <2>2
<1> QED BY <1>2, <1>3, <1>4

\* fat32_find_dirent finds the entries of a name.
LEMMA MatchesAre ==
    ASSUME NEW s \in Slotted, NEW k \in 1 .. MaxClusters, NEW lim, lim = k * PerCluster, Ends(s, lim),
           NEW x, Describes(x, s, lim), NEW n, NEW i
    PROVE  i \in Matches(s, n, lim) <=>
             \E a \in Position : x[a] # NoEntry /\ i = Last(x, a) /\ Fold[x[a].name] = Fold[n]
<1>1. lim \in Nat /\ (\A j \in 0 .. lim - 1 : j \in Position)
  <2>1. k \in Nat /\ \A j \in 0 .. k * PerCluster - 1 : j \in Position
      BY SizeFacts
  <2> QED BY <2>1, SizeFacts
<1>2. i \in Matches(s, n, lim) <=>
        i \in Shorts(s, 0, lim) /\ EntryName(s, 0, i) \in {m \in Name : Fold[m] = Fold[n]}
    BY DEF Matches
<1>3. ASSUME i \in Matches(s, n, lim)
      PROVE  \E a \in Position : x[a] # NoEntry /\ i = Last(x, a) /\ Fold[x[a].name] = Fold[n]
  <2>1. i \in Position /\ i < lim /\ s[i].kind = "short"
      BY <1>2, <1>3, AllShorts
  <2>2. PICK a \in Position : x[a] # NoEntry /\ i = Last(x, a)
      BY <1>1, <2>1, ShortIsLast
  <2>3. EntryName(s, 0, i) = x[a].name
      BY <1>1, <2>2, EntryRead
  <2> QED BY <1>2, <1>3, <2>2, <2>3
<1>4. ASSUME NEW a \in Position, x[a] # NoEntry, i = Last(x, a), Fold[x[a].name] = Fold[n]
      PROVE  i \in Matches(s, n, lim)
  <2>1. i \in Nat /\ i < lim /\ s[i].kind = "short" /\ x[a].name \in Name
      BY <1>1, <1>4, EntryLaid DEF Laid
  <2>2. i \in Position
      BY <1>1, <2>1
  <2>3. i \in Shorts(s, 0, lim)
      BY <2>1, <2>2, AllShorts
  <2>4. EntryName(s, 0, i) = x[a].name
      BY <1>1, <1>4, EntryRead
  <2> QED BY <1>2, <1>4, <2>1, <2>3, <2>4
<1> QED BY <1>3, <1>4

\* Entries are where they were if the slots in view are as they were.
LEMMA DescribesSame ==
    ASSUME NEW x, NEW s, NEW lim \in Nat, \A i \in 0 .. lim - 1 : i \in Position, Describes(x, s, lim),
           NEW s1, \A i \in Position : i < lim => s1[i] = s[i]
    PROVE  Describes(x, s1, lim)
<1>1. ASSUME NEW a \in Position, x[a] # NoEntry
      PROVE  /\ a + Width[x[a].name] <= lim
             /\ \A j \in 0 .. Width[x[a].name] - 1 : s1[a + j] = EntrySlot(x[a].name, x[a].file, j)
  <2>1. a \in Nat /\ x[a].name \in Name /\ Width[x[a].name] \in Nat
      BY <1>1, EntryLaid
  <2>2. PICK w \in Nat : w = Width[x[a].name]
      BY <2>1
  <2>3. a + w <= lim /\ \A j \in 0 .. w - 1 : s[a + j] = EntrySlot(x[a].name, x[a].file, j)
      BY <1>1, <2>2 DEF Describes
  <2>4. \A j \in 0 .. w - 1 : a + j \in 0 .. lim - 1 /\ a + j < lim
      BY <2>1, <2>3
  <2>5. \A j \in 0 .. w - 1 : s1[a + j] = s[a + j]
      BY <2>4
  <2> QED BY <2>2, <2>3, <2>5
<1>2. \A i \in Position : i < lim /\ s1[i].kind \in {"lfn", "short"} =>
         \E a \in Position : x[a] # NoEntry /\ a <= i /\ i < a + Width[x[a].name]
    BY DEF Describes
<1> QED BY <1>1, <1>2 DEF Describes

\* x1 has the entries of x, but for the one at a.
Alters(x, x1, a) == x1 \in [Position -> EntryType] /\ \A b \in Position : b # a => x1[b] = x[b]

\* The w slots from a on are of no entry that starts elsewhere.
Apart(x, a, w) ==
    \A b \in Position : b # a /\ x[b] # NoEntry => b + Width[x[b].name] <= a \/ a + w <= b

\* The w slots from a on hold v, and nothing else.
Holds(s, a, w, v) ==
    \/ v = NoEntry /\ \A i \in a .. a + w - 1 : s[i].kind \notin {"lfn", "short"}
    \/ /\ v # NoEntry /\ Width[v.name] <= w
       /\ \A j \in 0 .. Width[v.name] - 1 : s[a + j] = EntrySlot(v.name, v.file, j)
       /\ \A i \in a + Width[v.name] .. a + w - 1 : s[i].kind \notin {"lfn", "short"}

\* An entry is put, changed or deleted in w slots that no other entry uses.
LEMMA DescribesPut ==
    ASSUME NEW x, NEW s, NEW lim \in Nat, \A i \in 0 .. lim - 1 : i \in Position, Describes(x, s, lim),
           NEW a \in Position, NEW w \in Nat, a + w <= lim, Apart(x, a, w),
           x[a] # NoEntry => Width[x[a].name] <= w,
           NEW x1, Alters(x, x1, a),
           NEW s1, \A i \in Position : i < lim /\ (i < a \/ a + w <= i) => s1[i] = s[i],
           Holds(s1, a, w, x1[a])
    PROVE  Describes(x1, s1, lim)
<1>0. a \in Nat /\ x1 \in [Position -> EntryType]
    BY SizeFacts DEF Alters
<1>1. ASSUME NEW b \in Position, x1[b] # NoEntry
      PROVE  /\ b + Width[x1[b].name] <= lim
             /\ \A j \in 0 .. Width[x1[b].name] - 1 : s1[b + j] = EntrySlot(x1[b].name, x1[b].file, j)
  <2>1. CASE b = a
    <3>1. Width[x1[a].name] <= w /\ \A j \in 0 .. Width[x1[a].name] - 1 : s1[a + j] = EntrySlot(x1[a].name, x1[a].file, j)
        BY <1>1, <2>1 DEF Holds
    <3>2. x1[a].name \in Name
        BY <1>0, <1>1, <2>1 DEF EntryType
    <3>3. Width[x1[a].name] \in Nat
        BY <3>2, SizeFacts
    <3> QED BY <1>0, <2>1, <3>1, <3>3
  <2>2. CASE b # a
    <3>1. x1[b] = x[b] /\ x[b] # NoEntry
        BY <1>1, <2>2 DEF Alters
    <3>2. b \in Nat /\ Width[x[b].name] \in Nat
        BY <3>1, EntryLaid
    <3>3. PICK v \in Nat : v = Width[x[b].name]
        BY <3>2
    <3>4. b + v <= lim /\ \A j \in 0 .. v - 1 : s[b + j] = EntrySlot(x[b].name, x[b].file, j)
        BY <3>1, <3>3 DEF Describes
    <3>5. b + v <= a \/ a + w <= b
        BY <2>2, <3>1, <3>3 DEF Apart
    <3>6. ASSUME NEW j \in 0 .. v - 1 PROVE s1[b + j] = s[b + j]
      <4>1. b + j \in 0 .. lim - 1 /\ b + j < lim /\ (b + j < a \/ a + w <= b + j)
          BY <1>0, <3>2, <3>4, <3>5
      <4> QED BY <4>1
    <3> QED BY <3>1, <3>3, <3>4, <3>6
  <2> QED BY <2>1, <2>2
<1>2. ASSUME NEW i \in Position, i < lim, s1[i].kind \in {"lfn", "short"}
      PROVE  \E b \in Position : x1[b] # NoEntry /\ b <= i /\ i < b + Width[x1[b].name]
  <2>0. i \in Nat
      BY SizeFacts
  <2>1. CASE a <= i /\ i < a + w
    <3>0. i \in a .. a + w - 1
        BY <1>0, <2>0, <2>1
    <3>1. x1[a] # NoEntry
        BY <1>2, <3>0 DEF Holds
    <3>2. x1[a].name \in Name
        BY <1>0, <3>1 DEF EntryType
    <3>3. PICK v \in Nat : v = Width[x1[a].name]
        BY <3>2, SizeFacts
    <3>4. ~(i \in a + v .. a + w - 1)
        BY <1>2, <3>1, <3>3 DEF Holds
    <3>5. i < a + v
        BY <1>0, <2>0, <2>1, <3>4
    <3> QED BY <2>1, <3>1, <3>3, <3>5
  <2>2. CASE ~(a <= i /\ i < a + w)
    <3>1. s1[i] = s[i]
        BY <1>0, <1>2, <2>0, <2>2
    <3>2. PICK b \in Position : x[b] # NoEntry /\ b <= i /\ i < b + Width[x[b].name]
        BY <1>2, <3>1 DEF Describes
    <3>3. b # a
      <4>1. Width[x[b].name] \in Nat
          BY <3>2, EntryLaid
      <4> QED BY <1>0, <2>0, <2>2, <3>2, <4>1
    <3>4. x1[b] = x[b]
        BY <3>3 DEF Alters
    <3> QED BY <3>2, <3>4
  <2> QED BY <2>1, <2>2
<1> QED BY <1>0, <1>1, <1>2 DEF Describes

\* No other entry uses the slots of an entry.
LEMMA EntryApart ==
    ASSUME NEW x, NEW s, NEW lim \in Nat, Describes(x, s, lim), NEW a \in Position, x[a] # NoEntry
    PROVE  Apart(x, a, Width[x[a].name])
<1>1. PICK y, v : y = Last(x, a) /\ v = Width[x[a].name]
    OBVIOUS
<1>2. a \in Nat /\ y \in Nat /\ v \in Nat /\ y - a + 1 = v /\ a <= y
    BY <1>1, EntryLaid
<1>3. ASSUME NEW b \in Position, b # a, x[b] # NoEntry PROVE b + Width[x[b].name] <= a \/ a + v <= b
  <2>1. PICK z, w : z = Last(x, b) /\ w = Width[x[b].name]
      OBVIOUS
  <2>2. b \in Nat /\ z \in Nat /\ w \in Nat /\ z - b + 1 = w /\ b <= z
      BY <1>3, <2>1, EntryLaid
  <2>3. \A i \in Nat : ~(a <= i /\ i <= y /\ b <= i /\ i <= z)
      BY <1>1, <1>3, <2>1, EntriesApart
  <2>4. ~(a <= b /\ b <= y) /\ ~(b <= a /\ a <= z)
      BY <1>2, <2>2, <2>3
  <2> QED BY <1>2, <2>1, <2>2, <2>4
<1> QED BY <1>1, <1>3 DEF Apart

\* No entry uses free slots.
LEMMA FreeApart ==
    ASSUME NEW x, NEW s, NEW lim \in Nat, Describes(x, s, lim), NEW a \in Position, NEW w \in Nat, w > 0,
           \A i \in a .. a + w - 1 : s[i].kind \notin {"lfn", "short"}
    PROVE  x[a] = NoEntry /\ Apart(x, a, w)
<1>1. a \in Nat
    BY SizeFacts
<1>2. ASSUME NEW b \in Position, x[b] # NoEntry PROVE b + Width[x[b].name] <= a \/ a + w <= b
  <2>1. PICK z, v : z = Last(x, b) /\ v = Width[x[b].name]
      OBVIOUS
  <2>2. b \in Nat /\ z \in Nat /\ v \in Nat /\ z - b + 1 = v /\ b <= z /\ Laid(s, b, z, x[b].name, x[b].file)
      BY <1>2, <2>1, EntryLaid
  <2>3. \A i \in b .. z : s[i].kind \in {"lfn", "short"}
    <3>1. \A i \in b .. z : i = z \/ i \in b .. z - 1
        BY <2>2
    <3> QED BY <2>2, <3>1 DEF Laid
  <2>4. \A i \in Nat : ~(i \in b .. z /\ i \in a .. a + w - 1)
      BY <2>3
  <2>5. ~(a <= b /\ b < a + w) /\ ~(b <= a /\ a <= z)
    <3>1. a <= b /\ b < a + w => b \in b .. z /\ b \in a .. a + w - 1
        BY <1>1, <2>2
    <3>2. b <= a /\ a <= z => a \in b .. z /\ a \in a .. a + w - 1
        BY <1>1, <2>2
    <3> QED BY <1>1, <2>2, <2>4, <3>1, <3>2
  <2> QED BY <1>1, <2>1, <2>2, <2>5
<1>3. x[a] = NoEntry
  <2>1. ASSUME x[a] # NoEntry PROVE FALSE
    <3>1. Width[x[a].name] \in Nat /\ Width[x[a].name] > 0
        BY <2>1, EntryLaid, SizeFacts
    <3> QED BY <1>1, <1>2, <2>1, <3>1
  <2> QED BY <2>1
<1> QED BY <1>2, <1>3 DEF Apart

\* The chain grows, and its new slots are empty.
LEMMA DescribesExtend ==
    ASSUME NEW x, NEW s, NEW lim \in Nat, \A i \in 0 .. lim - 1 : i \in Position, Describes(x, s, lim),
           NEW lim1 \in Nat, lim <= lim1,
           NEW s1, \A i \in Position : i < lim => s1[i] = s[i],
           \A i \in Position : lim <= i /\ i < lim1 => s1[i].kind = "end"
    PROVE  Describes(x, s1, lim1)
<1>1. Describes(x, s1, lim)
    BY DescribesSame
<1>2. ASSUME NEW a \in Position, x[a] # NoEntry PROVE a + Width[x[a].name] <= lim1
  <2>1. a \in Nat /\ Width[x[a].name] \in Nat /\ a + Width[x[a].name] <= lim
      BY <1>1, <1>2, EntryLaid DEF Describes
  <2> QED BY <2>1
<1>3. ASSUME NEW i \in Position, i < lim1, s1[i].kind \in {"lfn", "short"} PROVE i < lim
  <2>1. i \in Nat
      BY SizeFacts
  <2>2. CASE lim <= i
      BY <1>3, <2>2
  <2> QED BY <2>1, <2>2
<1> QED BY <1>1, <1>2, <1>3 DEF Describes

\* sh shows for name k the file that x has under that name, or none.
InSync(x, sh, k) ==
    \A f \in File : sh[k] = f <=> \E a \in Position : x[a] # NoEntry /\ x[a].file = f /\ Fold[x[a].name] = k

\* The names that searches find are those of the entries.
LEMMA NamesAre ==
    ASSUME NEW s \in Slotted, NEW k \in 1 .. MaxClusters, NEW lim, lim = k * PerCluster, Ends(s, lim),
           NEW x, Describes(x, s, lim), Distinct(x), NEW c \in Class
    PROVE  InSync(x, NamesOf(s, lim), c)
<1>1. lim \in Nat /\ \A j \in 0 .. lim - 1 : j \in Position
  <2>1. k \in Nat /\ \A j \in 0 .. k * PerCluster - 1 : j \in Position
      BY SizeFacts
  <2> QED BY <2>1, SizeFacts
<1>2. PICK n \in Name : c = Fold[n]
    BY DEF Class
<1>3. PICK found : found = {i \in Shorts(s, 0, lim) : \E m \in Name : Fold[m] = c /\ EntryName(s, 0, i) = m}
    OBVIOUS
<1>4. NamesOf(s, lim)[c] = IF found = {} THEN NoFile ELSE s[Min(found)].file
    BY <1>3 DEF NamesOf
<1>5. ASSUME NEW i
      PROVE  i \in found <=> \E a \in Position : x[a] # NoEntry /\ i = Last(x, a) /\ Fold[x[a].name] = c
  <2>1. i \in found <=> i \in Matches(s, n, lim)
      BY <1>2, <1>3 DEF Matches
  <2>2. i \in Matches(s, n, lim) <=>
          \E a \in Position : x[a] # NoEntry /\ i = Last(x, a) /\ Fold[x[a].name] = Fold[n]
      BY MatchesAre
  <2> QED BY <1>2, <2>1, <2>2
<1>6. CASE found = {}
  <2>1. \A a \in Position : ~(x[a] # NoEntry /\ Fold[x[a].name] = c)
      BY <1>5, <1>6
  <2>2. NamesOf(s, lim)[c] \notin File
      BY <1>4, <1>6, SlotAssumption
  <2> QED BY <2>1, <2>2 DEF InSync
<1>7. CASE found # {}
  <2>1. found \subseteq Nat
    <3>1. ASSUME NEW i \in found PROVE i \in Nat
      <4>1. PICK a \in Position : x[a] # NoEntry /\ i = Last(x, a)
          BY <1>5
      <4> QED BY <1>1, <4>1, EntryLaid
    <3> QED BY <3>1
  <2>2. PICK i : i = Min(found) /\ i \in found
      BY <1>7, <2>1, MinOf
  <2>3. PICK a \in Position : x[a] # NoEntry /\ i = Last(x, a) /\ Fold[x[a].name] = c
      BY <1>5, <2>2
  <2>4. s[i].file = x[a].file
      BY <1>1, <2>3, EntryLaid DEF Laid
  <2>5. NamesOf(s, lim)[c] = x[a].file
      BY <1>4, <1>7, <2>2, <2>4
  <2>6. \A b \in Position : x[b] # NoEntry /\ Fold[x[b].name] = c => b = a
      BY <2>3 DEF Distinct
  <2> QED BY <2>3, <2>5, <2>6 DEF InSync
<1> QED BY <1>6, <1>7

----------------------------------------------------------------------------
(* The entries of all directories, and what threads and vnodes know of them *)

\* The slots of directory d as they will be when a rename has deleted what is
\* left of the old name
Hidden(ops, d, i) ==
    \E t \in Thread : /\ ops[t].pc = "trim" /\ Home[ops[t].h] = d
                      /\ ops[t].at + Width[ops[t].m] <= i /\ i < ops[t].at + ops[t].count

View(ss, ops, d) == [i \in Position |-> IF Hidden(ops, d, i) THEN DeletedSlot ELSE ss[d][i]]

\* e[d][a] is the entry of directory d at a.
Desc(e, ss, cs, ops) ==
    \A d \in Directory : Describes(e[d], View(ss, ops, d), cs[d] * PerCluster)

\* No entry of d has name k; no entry, and no name shown, is of file f.
NoClass(e, d, k) == \A a \in Position : e[d][a] # NoEntry => Fold[e[d][a].name] # k
Nowhere(e, f) == \A d \in Directory : \A a \in Position : e[d][a].file # f
Unnamed(shn, f) == \A d \in Directory : \A k \in Class : shn[d][k] # f

\* What o has in hand is the entry of the old name.
InHand(e, o) ==
    /\ o.at \in Position /\ e[Home[o.h]][o.at] # NoEntry /\ e[Home[o.h]][o.at].file = o.file
    /\ Fold[e[Home[o.h]][o.at].name] = Fold[o.n] /\ o.count = Width[e[Home[o.h]][o.at].name]

\* The file of o: not in a directory before it is created; then where the
\* rename or removal found it; then in no directory, until the new name is
\* written.  A rename to the same name in another case deletes its own entry.
HandFile(e, o) ==
    /\ o.kind = "create" => o.file \in File /\ Nowhere(e, o.file)
    /\ o.pc \in {"lock", "find"} /\ o.kind # "create" => o.file = NoFile
    /\ o.pc \in {"find2", "replace"} => o.file \in File /\ InHand(e, o)
    /\ o.pc = "delete" =>
         o.file \in File /\ (InHand(e, o) \/ (o.kind = "rename" /\ SameDir(o) /\ Nowhere(e, o.file)))
    /\ o.pc = "alloc" => o.file \in File /\ Nowhere(e, o.file)
    /\ o.pc = "write" =>
         o.file \in File /\ (Nowhere(e, o.file) \/ (o.kind = "rename" /\ SameDir(o) /\ InHand(e, o)))
    /\ o.pc = "trim" => /\ o.file \in File /\ o.at \in Position
                        /\ e[Home[o.th]][o.at] = [name |-> o.m, file |-> o.file]

\* The names of o: the new one is free once it has been looked for, and the
\* old one is of no other file.
HandName(e, o) ==
    /\ o.pc \in {"alloc", "write"} \/ (o.pc = "delete" /\ o.kind = "rename") => NoClass(e, Home[o.th], Fold[o.m])
    /\ o.pc \in {"find2", "replace", "delete", "alloc", "write", "trim"} /\ o.kind = "rename" =>
         \A a \in Position : e[Home[o.h]][a] # NoEntry /\ Fold[e[Home[o.h]][a].name] = Fold[o.n] =>
             e[Home[o.h]][a].file = o.file

\* Meanwhile the directories show the old name, if any, for the file.
HandShown(shn, o) ==
    /\ o.kind = "create" => Unnamed(shn, o.file)
    /\ o.kind = "rename" /\ o.pc \notin {"idle", "lock", "find"} =>
         /\ \A d \in Directory : \A k \in Class : shn[d][k] = o.file => d = Home[o.h] /\ k = Fold[o.n]
         /\ shn[Home[o.h]][Fold[o.n]] \in {o.file, NoFile}
    /\ o.kind = "rename" /\ o.pc \in {"delete", "alloc", "write", "trim"} => shn[Home[o.th]][Fold[o.m]] = NoFile

\* The slots o has in hand, if not those of the entry
HandSlots(e, ss, o) ==
    /\ o.pc = "write" => \/ InHand(e, o)
                         \/ \A i \in o.at .. o.at + o.count - 1 : ss[Home[o.th]][i].kind \in {"deleted", "end"}
    /\ o.pc = "delete" => \/ InHand(e, o)
                          \/ \A i \in o.at .. o.at + o.count - 1 : ss[Home[o.h]][i].kind = "deleted"

Hand(e, ss, shn, o) == HandFile(e, o) /\ HandName(e, o) /\ HandShown(shn, o) /\ HandSlots(e, ss, o)

\* Between a rename's deletion of the old name and its return the directories
\* show its names as they were.
Lags(o, d, k) == o.kind = "rename" /\ o.pc \in {"alloc", "write", "trim"} /\ <<d, k>> \in Names(o)

Lag(ops, d, k) == \E t \in Thread : Lags(ops[t], d, k)

Sync(e, ops, shn) ==
    \A d \in Directory : \A k \in Class : ~Lag(ops, d, k) => InSync(e[d], shn[d], k)

\* Threads work on different files, and on different names but for two that
\* create one name.
FilesApart(ops) == \A t, u \in Thread : t # u /\ ops[t].file = ops[u].file => ops[t].file = NoFile

NamesApart(ops) ==
    \A t, u \in Thread : \A d \in Directory : \A k \in Class :
        t # u /\ <<d, k>> \in Names(ops[t]) /\ <<d, k>> \in Names(ops[u]) =>
            ops[t].kind = "create" /\ ops[u].kind = "create"

\* A vnode knows where the entry of its file is.
OpenAt(e, f, l) ==
    /\ l.h \in Handle /\ l.at \in Position /\ e[Home[l.h]][l.at] # NoEntry
    /\ e[Home[l.h]][l.at].file = f /\ l.count = Width[e[Home[l.h]][l.at].name]

Opened(e, opn) == \A f \in File : opn[f] # NoLoc => OpenAt(e, f, opn[f])

\* A file of name k in directory d is not open.
Shut(e, opn, d, k) == \A a \in Position : e[d][a] # NoEntry /\ Fold[e[d][a].name] = k => opn[e[d][a].file] = NoLoc

Closed(e, opn, o) ==
    /\ o.kind \in {"remove", "rename"} => Shut(e, opn, Home[o.h], Fold[o.n]) /\ Shut(e, opn, Home[o.th], Fold[o.m])
    /\ o.file # NoFile => opn[o.file] = NoLoc

\* A process that reads a directory has seen the stable files before its
\* position, and no others.
Read(e, shn, r) ==
    r.h # NoHandle =>
      /\ r.seen \subseteq r.stable /\ r.twice = {}
      /\ \A f \in r.stable : \E k \in Class : shn[Home[r.h]][k] = f
      /\ \A a \in Position :
            e[Home[r.h]][a] # NoEntry /\ e[Home[r.h]][a].file \in r.stable
            /\ shn[Home[r.h]][Fold[e[Home[r.h]][a].name]] = e[Home[r.h]][a].file =>
                (e[Home[r.h]][a].file \in r.seen <=> Last(e[Home[r.h]], a) < r.at)

----------------------------------------------------------------------------
(* One thread at work in a directory *)

\* o is past its locks, and d is a directory of it.
Works(o, d) == o.pc \notin {"idle", "lock"} /\ d \in {Home[o.h], Home[o.th]}

\* Two threads are never at work in one directory.
LEMMA WorksAlone ==
    ASSUME RoomInv, NEW t \in Thread, NEW u \in Thread, t # u, NEW d, Works(op[t], d), Works(op[u], d)
    PROVE  FALSE
<1>1. ASSUME NEW v \in Thread, Works(op[v], d) PROVE \E g \in {op[v].h, op[v].th} : Home[g] = d /\ lock[g] = v
  <2>1. lock[op[v].h] = v /\ (~SameDir(op[v]) => lock[op[v].th] = v)
      BY <1>1 DEF RoomInv, LockInv, Works
  <2> QED BY <1>1, <2>1 DEF Works, SameDir
<1>2. PICK g \in {op[t].h, op[t].th} : Home[g] = d /\ lock[g] = t
    BY <1>1
<1>3. PICK k \in {op[u].h, op[u].th} : Home[k] = d /\ lock[k] = u
    BY <1>1
<1>4. op[t].pc # "idle" /\ op[u].pc # "idle"
    BY DEF Works
<1>5. g = k
    BY <1>2, <1>3, <1>4 DEF RoomInv, OneVnode
<1> QED BY <1>2, <1>3, <1>5

\* What a step of o does to the entries and to what the directories show:
\* only in its own directories, and only its own file is new.
Moves(o, e, e1, ss, ss1, shn, shn1) ==
    /\ \A d \in Directory : ~Works(o, d) => e1[d] = e[d] /\ shn1[d] = shn[d] /\ ss1[d] = ss[d]
    /\ \A d \in Directory : \A a \in Position : e1[d][a] = e[d][a] \/ e1[d][a] = NoEntry \/ e1[d][a].file = o.file
    /\ \A d \in Directory : \A k \in Class : shn1[d][k] = shn[d][k] \/ shn1[d][k] \in {NoFile, o.file}

\* What other threads have in hand is as it was.
LEMMA OthersHand ==
    ASSUME RoomInv, NEW t \in Thread, NEW u \in Thread, t # u, NEW e, NEW e1, NEW ss1, NEW shn1,
           FilesApart(op), Moves(op[t], e, e1, slots, ss1, shown, shn1), Hand(e, slots, shown, op[u])
    PROVE  Hand(e1, ss1, shn1, op[u])
<1>1. PICK o, p : o = op[t] /\ p = op[u]
    OBVIOUS
<1>2. /\ p \in Op /\ Shape(p) /\ Moves(o, e, e1, slots, ss1, shown, shn1) /\ Hand(e, slots, shown, p)
      /\ (o.file = p.file => p.file = NoFile) /\ (p.pc # "idle" => Home[p.h] \in Directory /\ Home[p.th] \in Directory)
    BY <1>1, OpFacts DEF RoomInv, FilesApart
<1>3. ASSUME p.file \in File, Nowhere(e, p.file) PROVE Nowhere(e1, p.file)
  <2>1. p.file # NoFile /\ p.file # o.file /\ NoEntry.file = NoFile
      BY <1>2, <1>3, SlotAssumption DEF NoEntry
  <2> QED BY <1>2, <1>3, <2>1 DEF Nowhere, Moves
<1>4. ASSUME NEW d \in Directory, NEW k \in Class, p.file \in File, shn1[d][k] = p.file PROVE shown[d][k] = p.file
  <2>1. p.file # NoFile /\ p.file # o.file
      BY <1>2, <1>4, SlotAssumption
  <2> QED BY <1>2, <1>4, <2>1 DEF Moves
<1>5. CASE p.pc = "idle"
  <2>1. p.kind = "none"
      BY <1>2, <1>5 DEF Shape
  <2> QED BY <1>1, <1>5, <2>1 DEF Hand, HandFile, HandName, HandShown, HandSlots
<1>6. ASSUME p.kind = "create" PROVE p.file \in File /\ Nowhere(e1, p.file) /\ Unnamed(shn1, p.file)
  <2>1. p.file \in File /\ Nowhere(e, p.file) /\ Unnamed(shown, p.file)
      BY <1>2, <1>6 DEF Hand, HandFile, HandShown
  <2> QED BY <1>3, <1>4, <2>1 DEF Unnamed
<1>7. CASE p.pc = "lock" \/ p.pc = "find"
  <2>1. HandFile(e1, p)
      BY <1>2, <1>6, <1>7 DEF Hand, HandFile
  <2>2. HandShown(shn1, p)
      BY <1>6, <1>7 DEF HandShown
  <2>3. HandName(e1, p) /\ HandSlots(e1, ss1, p)
      BY <1>7 DEF HandName, HandSlots
  <2> QED BY <1>1, <2>1, <2>2, <2>3 DEF Hand
<1>8. CASE p.pc \notin {"idle", "lock", "find"}
  <2>1. PICK d, c : d = Home[p.h] /\ c = Home[p.th]
      OBVIOUS
  <2>2. d \in Directory /\ c \in Directory /\ ~Works(o, d) /\ ~Works(o, c)
    <3>1. Works(p, d) /\ Works(p, c)
        BY <1>8, <2>1 DEF Works
    <3> QED BY <1>1, <1>2, <1>8, <2>1, <3>1, WorksAlone
  <2>3. /\ e1[d] = e[d] /\ shn1[d] = shown[d] /\ ss1[d] = slots[d]
        /\ e1[c] = e[c] /\ shn1[c] = shown[c] /\ ss1[c] = slots[c]
      BY <1>2, <2>2 DEF Moves
  <2>4. InHand(e1, p) <=> InHand(e, p)
      BY <2>1, <2>3 DEF InHand
  <2>5. NoClass(e1, c, Fold[p.m]) <=> NoClass(e, c, Fold[p.m])
      BY <2>3 DEF NoClass
  <2>6. p.file \in File
    <3>1. p.pc \in {"find2", "replace", "delete", "alloc", "write", "trim"}
        BY <1>2, <1>8 DEF Op, PC
    <3> QED BY <1>2, <3>1 DEF Hand, HandFile
  <2>7. HandFile(e1, p)
      BY <1>2, <1>3, <1>8, <2>1, <2>3, <2>4, <2>6, Zenon DEF Hand, HandFile
  <2>8. HandName(e1, p)
      BY <1>2, <1>8, <2>1, <2>3, <2>5 DEF Hand, HandName
  <2>9. HandShown(shn1, p)
    <3>1. p.kind = "create" => Unnamed(shn1, p.file)
        BY <1>6
    <3>2. HandShown(shown, p)
        BY <1>2 DEF Hand
    <3>3. p.kind = "rename" => \A b \in Directory : \A k \in Class : shn1[b][k] = p.file => b = Home[p.h] /\ k = Fold[p.n]
        BY <1>4, <1>8, <2>6, <3>2 DEF HandShown
    <3>4. p.kind = "rename" => shn1[Home[p.h]][Fold[p.n]] \in {p.file, NoFile}
        BY <1>8, <2>1, <2>3, <3>2 DEF HandShown
    <3>5. p.kind = "rename" /\ p.pc \in {"delete", "alloc", "write", "trim"} => shn1[Home[p.th]][Fold[p.m]] = NoFile
        BY <2>1, <2>3, <3>2 DEF HandShown
    <3> QED BY <3>1, <3>3, <3>4, <3>5 DEF HandShown
  <2>10. HandSlots(e1, ss1, p)
      BY <1>2, <2>1, <2>3, <2>4 DEF Hand, HandSlots
  <2> QED BY <1>1, <2>7, <2>8, <2>9, <2>10 DEF Hand
<1> QED BY <1>1, <1>2, <1>5, <1>7, <1>8 DEF Op, PC

\* The entry of the file in a thread's hand has a name the thread works on.
LEMMA HeldName ==
    ASSUME NEW e \in Entries, OneName(e), NEW o \in Op, Shape(o), HandFile(e, o),
           NEW d \in Directory, NEW a \in Position, e[d][a] # NoEntry, e[d][a].file = o.file
    PROVE  <<d, Fold[e[d][a].name]>> \in Names(o)
<1>1. e[d][a].file \in File
    BY DEF Entries, EntryType
<1>2. o.file \in File /\ o.file # NoFile /\ o.pc # "idle" /\ o.h \in Handle /\ o.th \in Handle
    BY <1>1, SlotAssumption DEF Shape
<1>3. Home[o.h] \in Directory /\ Home[o.th] \in Directory
    BY <1>2, SlotAssumption
<1>4. ~Nowhere(e, o.file)
    BY DEF Nowhere
<1>5. o.kind # "create" /\ o.pc \notin {"lock", "find", "alloc"}
    BY <1>2, <1>4 DEF HandFile
<1>6. CASE o.pc = "trim"
  <2>1. o.at \in Position /\ e[Home[o.th]][o.at] = [name |-> o.m, file |-> o.file]
      BY <1>6 DEF HandFile
  <2>2. d = Home[o.th] /\ a = o.at
      BY <1>3, <2>1 DEF OneName
  <2>3. e[d][a].name = o.m
      BY <2>1, <2>2
  <2> QED BY <1>2, <2>2, <2>3 DEF Names
<1>7. CASE InHand(e, o)
  <2>1. d = Home[o.h] /\ a = o.at
      BY <1>3, <1>7 DEF OneName, InHand
  <2>2. Fold[e[d][a].name] = Fold[o.n]
      BY <1>7, <2>1 DEF InHand
  <2> QED BY <1>2, <2>1, <2>2 DEF Names
<1>8. o.pc \in {"find2", "replace", "delete", "write", "trim"}
    BY <1>2, <1>5 DEF Op, PC
<1>9. o.pc # "trim" => InHand(e, o)
    BY <1>4, <1>8 DEF HandFile
<1> QED BY <1>6, <1>7, <1>9

\* The names in P are of no use to p, which has closed what it works on.
LEMMA ClosedKept ==
    ASSUME NEW p \in Op, Shape(p), NEW e, NEW e1, NEW opn, NEW opn1, Closed(e, opn, p), NEW P,
           e1 \in Entries,
           \A d \in Directory : \A a \in Position :
              \/ e1[d][a] = e[d][a] \/ e1[d][a] = NoEntry \/ opn1[e1[d][a].file] = NoLoc
              \/ <<d, Fold[e1[d][a].name]>> \in P,
           \A d \in Directory : \A a \in Position :
              e1[d][a] # NoEntry /\ opn1[e1[d][a].file] # NoLoc /\ opn[e1[d][a].file] = NoLoc =>
                <<d, Fold[e1[d][a].name]>> \in P,
           p.kind \in {"remove", "rename"} =>
             <<Home[p.h], Fold[p.n]>> \notin P /\ <<Home[p.th], Fold[p.m]>> \notin P,
           p.file # NoFile /\ opn[p.file] = NoLoc => opn1[p.file] = NoLoc
    PROVE  Closed(e1, opn1, p)
<1>1. ASSUME NEW d \in Directory, NEW k, Shut(e, opn, d, k), <<d, k>> \notin P PROVE Shut(e1, opn1, d, k)
  <2>1. ASSUME NEW a \in Position, e1[d][a] # NoEntry, Fold[e1[d][a].name] = k PROVE opn1[e1[d][a].file] = NoLoc
    <3>1. <<d, Fold[e1[d][a].name]>> \notin P
        BY <1>1, <2>1
    <3>2. CASE e1[d][a] = e[d][a]
      <4>1. opn[e1[d][a].file] = NoLoc
          BY <1>1, <2>1, <3>2 DEF Shut
      <4> QED BY <2>1, <3>1, <4>1
    <3>3. CASE opn1[e1[d][a].file] = NoLoc
        BY <3>3
    <3> QED BY <2>1, <3>1, <3>2, <3>3
  <2> QED BY <2>1 DEF Shut
<1>2. p.kind \in {"remove", "rename"} => Home[p.h] \in Directory /\ Home[p.th] \in Directory
  <2>1. p.kind \in {"remove", "rename"} => p.h \in Handle /\ p.th \in Handle
      BY DEF Shape
  <2> QED BY <2>1, SlotAssumption
<1> QED BY <1>1, <1>2 DEF Closed

\* Vnodes know where the entries of their files are if no such entry changes.
LEMMA OpenedKept ==
    ASSUME NEW e \in Entries, NEW e1, NEW opn, NEW opn1, Opened(e, opn),
           \A d \in Directory : \A a \in Position :
              e[d][a] # NoEntry /\ e1[d][a] # e[d][a] => opn[e[d][a].file] = NoLoc,
           \A f \in File : opn1[f] = opn[f] \/ opn1[f] = NoLoc \/ OpenAt(e1, f, opn1[f])
    PROVE  Opened(e1, opn1)
<1>1. ASSUME NEW f \in File, opn[f] # NoLoc PROVE OpenAt(e1, f, opn[f])
  <2>1. PICK l : l = opn[f]
      OBVIOUS
  <2>2. OpenAt(e, f, l)
      BY <1>1, <2>1, Zenon DEF Opened
  <2>3. Home[l.h] \in Directory
      BY <2>2, SlotAssumption DEF OpenAt
  <2>4. e1[Home[l.h]][l.at] = e[Home[l.h]][l.at]
    <3>1. PICK d, a : d = Home[l.h] /\ a = l.at
        BY Zenon
    <3>2. d \in Directory /\ a \in Position /\ e[d][a] # NoEntry /\ e[d][a].file = f
        BY <2>2, <2>3, <3>1 DEF OpenAt
    <3>3. opn[e[d][a].file] # NoLoc
        BY <1>1, <3>2
    <3> QED BY <3>1, <3>2, <3>3
  <2> QED BY <2>1, <2>2, <2>4, Zenon DEF OpenAt
<1> QED BY <1>1, Zenon DEF Opened

\* A reader is left with the files in K to see, which keep their names.
Cut(r, r1, K) ==
    /\ r1.h = r.h /\ r1.at = r.at
    /\ \A f : f \in r1.stable <=> f \in r.stable /\ f \in K
    /\ \A f : f \in r1.seen <=> f \in r.seen /\ f \in K
    /\ \A f : f \in r1.twice <=> f \in r.twice /\ f \in K

Steady(K, shn, shn1) == \A f \in K : \A d \in Directory : \A k \in Class : shn1[d][k] = f <=> shn[d][k] = f

\* The reader keeps its bearings: what it has to see keeps its place.
LEMMA ReadKept ==
    ASSUME NEW e, NEW e1, NEW shn, NEW shn1, NEW r, NEW r1, Read(e, shn, r), NEW K,
           r.h # NoHandle => r.h \in Handle,
           e1 \in Entries,
           Cut(r, r1, K), Steady(K, shn, shn1),
           \A d \in Directory : \A a \in Position :
              \/ e1[d][a] = e[d][a] \/ e1[d][a] = NoEntry
              \/ e1[d][a].file \in K => shn1[d][Fold[e1[d][a].name]] # e1[d][a].file
    PROVE  Read(e1, shn1, r1)
<1> SUFFICES ASSUME r1.h # NoHandle
             PROVE  /\ r1.seen \subseteq r1.stable /\ r1.twice = {}
                    /\ \A f \in r1.stable : \E k \in Class : shn1[Home[r1.h]][k] = f
                    /\ \A a \in Position :
                          e1[Home[r1.h]][a] # NoEntry /\ e1[Home[r1.h]][a].file \in r1.stable
                          /\ shn1[Home[r1.h]][Fold[e1[Home[r1.h]][a].name]] = e1[Home[r1.h]][a].file =>
                              (e1[Home[r1.h]][a].file \in r1.seen <=> Last(e1[Home[r1.h]], a) < r1.at)
    BY DEF Read
<1>0. /\ r1.h = r.h /\ r1.at = r.at
      /\ \A f : f \in r1.stable <=> f \in r.stable /\ f \in K
      /\ \A f : f \in r1.seen <=> f \in r.seen /\ f \in K
      /\ \A f : f \in r1.twice <=> f \in r.twice /\ f \in K
      /\ \A f \in K : \A d \in Directory : \A k \in Class : shn1[d][k] = f <=> shn[d][k] = f
    BY DEF Cut, Steady
<1>1. PICK d : d = Home[r.h]
    OBVIOUS
<1>2. d \in Directory
    BY <1>0, <1>1, SlotAssumption
<1>3. /\ r.seen \subseteq r.stable /\ r.twice = {}
      /\ \A f \in r.stable : \E k \in Class : shn[d][k] = f
      /\ \A a \in Position :
            e[d][a] # NoEntry /\ e[d][a].file \in r.stable /\ shn[d][Fold[e[d][a].name]] = e[d][a].file =>
                (e[d][a].file \in r.seen <=> Last(e[d], a) < r.at)
    BY <1>0, <1>1 DEF Read
<1>4. r1.seen \subseteq r1.stable /\ r1.twice = {}
    BY <1>0, <1>3
<1>5. ASSUME NEW f \in r1.stable PROVE \E k \in Class : shn1[d][k] = f
    BY <1>0, <1>2, <1>3
<1>6. ASSUME NEW a \in Position, e1[d][a] # NoEntry, e1[d][a].file \in r1.stable,
             shn1[d][Fold[e1[d][a].name]] = e1[d][a].file
      PROVE  e1[d][a].file \in r1.seen <=> Last(e1[d], a) < r1.at
  <2>1. PICK f : f = e1[d][a].file
      OBVIOUS
  <2>2. f \in K /\ f \in r.stable
      BY <1>0, <1>6, <2>1
  <2>3. e1[d][a] = e[d][a]
      BY <1>2, <1>6, <2>1, <2>2
  <2>4. Fold[e[d][a].name] \in Class
    <3>1. e1[d][a].name \in Name
        BY <1>2, <1>6 DEF Entries, EntryType
    <3> QED BY <2>3, <3>1 DEF Class
  <2>5. shn[d][Fold[e[d][a].name]] = f
      BY <1>0, <1>2, <1>6, <2>1, <2>2, <2>3, <2>4
  <2>6. f \in r.seen <=> Last(e[d], a) < r.at
      BY <1>3, <1>6, <2>1, <2>2, <2>3, <2>5
  <2>7. Last(e1[d], a) = Last(e[d], a)
      BY <2>3 DEF Last
  <2> QED BY <1>0, <2>1, <2>2, <2>6, <2>7
<1>7. \A a \in Position :
          e1[d][a] # NoEntry /\ e1[d][a].file \in r1.stable /\ shn1[d][Fold[e1[d][a].name]] = e1[d][a].file =>
              (e1[d][a].file \in r1.seen <=> Last(e1[d], a) < r1.at)
    BY <1>6
<1>8. \A f \in r1.stable : \E k \in Class : shn1[d][k] = f
    BY <1>5
<1>9. Home[r1.h] = d
    BY <1>0, <1>1
<1> QED BY ONLY <1>4, <1>7, <1>8, <1>9

\* Names are shown as they are, but for those that a rename is changing.
LEMMA SyncKept ==
    ASSUME NEW e, NEW e1, NEW shn, NEW shn1, NEW ops, NEW ops1, NEW t \in Thread,
           \A u \in Thread : u # t => ops1[u] = ops[u], Sync(e, ops, shn),
           \A d \in Directory : \A k \in Class : ~Lags(ops1[t], d, k) =>
              \/ InSync(e1[d], shn1[d], k)
              \/ ~Lags(ops[t], d, k) /\ e1[d] = e[d] /\ shn1[d] = shn[d]
              \/ ~Lags(ops[t], d, k) /\ (InSync(e[d], shn[d], k) => InSync(e1[d], shn1[d], k))
    PROVE  Sync(e1, ops1, shn1)
<1>1. ASSUME NEW d \in Directory, NEW k \in Class, ~Lag(ops1, d, k) PROVE InSync(e1[d], shn1[d], k)
  <2>1. \A u \in Thread : ~Lags(ops1[u], d, k)
      BY <1>1 DEF Lag
  <2>2. ~Lags(ops[t], d, k) => InSync(e[d], shn[d], k)
    <3>1. ~Lags(ops[t], d, k) => ~Lag(ops, d, k)
        BY <2>1 DEF Lag
    <3> QED BY <3>1 DEF Sync
  <2> QED BY <2>1, <2>2
<1> QED BY <1>1 DEF Sync

\* An entry of directory d at a is put, changed or deleted: it is now v.
Puts(e, e1, d, a, v) ==
    /\ e1 \in Entries /\ e1[d][a] = v
    /\ \A c \in Directory : c # d => e1[c] = e[c]
    /\ \A b \in Position : b # a => e1[d][b] = e[d][b]

\* An entry can be put anywhere.
LEMMA PutsOne ==
    ASSUME NEW e \in Entries, NEW d \in Directory, NEW a \in Position, NEW v \in EntryType
    PROVE  \E e1 : Puts(e, e1, d, a, v)
<1>1. PICK x : x = [e[d] EXCEPT ![a] = v]
    OBVIOUS
<1>2. e[d] \in [Position -> EntryType]
    BY DEF Entries
<1>3. x \in [Position -> EntryType] /\ x[a] = v /\ \A b \in Position : b # a => x[b] = e[d][b]
    BY <1>1, <1>2
<1>4. PICK e1 : e1 = [e EXCEPT ![d] = x]
    OBVIOUS
<1>5. e1 \in Entries /\ e1[d] = x /\ \A c \in Directory : c # d => e1[c] = e[c]
    BY <1>3, <1>4 DEF Entries
<1> QED BY <1>3, <1>5 DEF Puts

\* Nothing changes elsewhere.
LEMMA PutsElse ==
    ASSUME NEW e, NEW e1, NEW d, NEW a, NEW v, Puts(e, e1, d, a, v), NEW c \in Directory, NEW b \in Position
    PROVE  e1[c][b] = IF c = d /\ b = a THEN v ELSE e[c][b]
    BY DEF Puts

\* Names stay distinct.
LEMMA PutsTwins ==
    ASSUME NEW e, NEW e1, NEW d \in Directory, NEW a \in Position, NEW v, Puts(e, e1, d, a, v), NoTwins(e),
           v # NoEntry => \A b \in Position : b # a /\ e[d][b] # NoEntry => Fold[e[d][b].name] # Fold[v.name]
    PROVE  NoTwins(e1)
<1>1. ASSUME NEW c \in Directory, c # d PROVE Distinct(e1[c])
  <2>1. e1[c] = e[c]
      BY <1>1 DEF Puts
  <2> QED BY <2>1 DEF NoTwins
<1>2. Distinct(e1[d])
  <2>1. PICK x, x1 : x = e[d] /\ x1 = e1[d]
      OBVIOUS
  <2>2. Distinct(x) /\ x1[a] = v /\ \A b \in Position : b # a => x1[b] = x[b]
      BY <2>1 DEF NoTwins, Puts
  <2>3. v # NoEntry => \A b \in Position : b # a /\ x[b] # NoEntry => Fold[x[b].name] # Fold[v.name]
      BY <2>1
  <2>4. ASSUME NEW b \in Position, NEW c \in Position, x1[b] # NoEntry, x1[c] # NoEntry,
               Fold[x1[b].name] = Fold[x1[c].name]
        PROVE  b = c
    <3>1. CASE b = a /\ c # a
        BY <2>2, <2>3, <2>4, <3>1
    <3>2. CASE b # a /\ c = a
        BY <2>2, <2>3, <2>4, <3>2
    <3>3. CASE b # a /\ c # a
        BY <2>2, <2>4, <3>3 DEF Distinct
    <3> QED BY <3>1, <3>2, <3>3
  <2> QED BY <2>1, <2>4 DEF Distinct
<1> QED BY <1>1, <1>2 DEF NoTwins

\* A file keeps to one name.
LEMMA PutsOneName ==
    ASSUME NEW e \in Entries, NEW e1, NEW d \in Directory, NEW a \in Position, NEW v, Puts(e, e1, d, a, v), OneName(e),
           v # NoEntry => \A c \in Directory : \A b \in Position : e[c][b].file = v.file => c = d /\ b = a
    PROVE  OneName(e1)
<1>1. ASSUME NEW c \in Directory, NEW b \in Position, NEW k \in Directory, NEW l \in Position,
             e1[c][b] # NoEntry, e1[c][b].file = e1[k][l].file
      PROVE  c = k /\ b = l
  <2>1. /\ e1[c][b] = IF c = d /\ b = a THEN v ELSE e[c][b]
        /\ e1[k][l] = IF k = d /\ l = a THEN v ELSE e[k][l]
      BY PutsElse
  <2>2. e1[c][b].file # NoFile
    <3>1. e1[c][b].file \in File
        BY <1>1 DEF Puts, Entries, EntryType
    <3> QED BY <3>1, SlotAssumption
  <2>3. CASE c = d /\ b = a
    <3>1. v # NoEntry
        BY <1>1, <2>1, <2>3
    <3> QED BY <1>1, <2>1, <2>3, <3>1
  <2>4. CASE ~(c = d /\ b = a) /\ k = d /\ l = a
    <3>1. v # NoEntry
        BY <1>1, <2>1, <2>2, <2>4 DEF NoEntry
    <3> QED BY <1>1, <2>1, <2>4, <3>1
  <2>5. CASE ~(c = d /\ b = a) /\ ~(k = d /\ l = a)
      BY <1>1, <2>1, <2>5 DEF OneName
  <2> QED BY <2>3, <2>4, <2>5
<1> QED BY <1>1 DEF OneName

\* What is shown for a name
LEMMA SyncFacts ==
    ASSUME NEW x, NEW sh, NEW k, InSync(x, sh, k), sh[k] \in File \cup {NoFile}
    PROVE  /\ (\A a \in Position : x[a] # NoEntry => Fold[x[a].name] # k) => sh[k] = NoFile
           /\ \A a \in Position : x[a] # NoEntry /\ x[a].file \in File /\ Fold[x[a].name] = k => sh[k] = x[a].file
           /\ \A sh1 : InSync(x, sh1, k) /\ sh1[k] \in File \cup {NoFile} => sh1[k] = sh[k]
<1>1. (\A a \in Position : x[a] # NoEntry => Fold[x[a].name] # k) => sh[k] = NoFile
    BY DEF InSync
<1>2. \A a \in Position : x[a] # NoEntry /\ x[a].file \in File /\ Fold[x[a].name] = k => sh[k] = x[a].file
    BY DEF InSync
<1>3. ASSUME NEW sh1, InSync(x, sh1, k), sh1[k] \in File \cup {NoFile} PROVE sh1[k] = sh[k]
  <2>1. \A f \in File : sh1[k] = f <=> sh[k] = f
      BY <1>3 DEF InSync
  <2> QED BY <1>3, <2>1, SlotAssumption
<1> QED BY <1>1, <1>2, <1>3

\* Names other than those of the old and the new entry are as they were.
LEMMA PutsSync ==
    ASSUME NEW e, NEW e1, NEW d \in Directory, NEW a \in Position, NEW v, Puts(e, e1, d, a, v), NEW sh, NEW k,
           e[d][a] # NoEntry /\ e[d][a] # v => Fold[e[d][a].name] # k,
           v # NoEntry /\ e[d][a] # v => Fold[v.name] # k, InSync(e[d], sh, k)
    PROVE  InSync(e1[d], sh, k)
<1>1. PICK x, x1 : x = e[d] /\ x1 = e1[d]
    OBVIOUS
<1>2. x1[a] = v /\ \A b \in Position : b # a => x1[b] = x[b]
    BY <1>1 DEF Puts
<1>3. InSync(x, sh, k) /\ (x[a] # NoEntry /\ x[a] # v => Fold[x[a].name] # k) /\ (v # NoEntry /\ x[a] # v => Fold[v.name] # k)
    BY <1>1
<1>4. ASSUME NEW b \in Position, NEW f \in File
      PROVE  (x1[b] # NoEntry /\ x1[b].file = f /\ Fold[x1[b].name] = k) <=>
             (x[b] # NoEntry /\ x[b].file = f /\ Fold[x[b].name] = k)
    BY <1>2, <1>3
<1>5. InSync(x1, sh, k)
    BY <1>3, <1>4 DEF InSync
<1> QED BY <1>1, <1>5

\* Publish: the directories in ds show their entries, the others what they did.
LEMMA Published ==
    ASSUME RoomInv, EndInv', errors' = 0, uncleared = {}, uncleared' = {},
           NEW ds, ds \subseteq Directory, Publish(ds), NEW e1, NoTwins(e1),
           \A d \in ds : Describes(e1[d], slots'[d], clusters'[d] * PerCluster)
    PROVE  /\ \A d \in ds : \A k \in Class : InSync(e1[d], shown'[d], k)
           /\ \A d \in Directory : d \notin ds => shown'[d] = shown[d]
           /\ \E K : Cut(reader, reader', K) /\ Steady(K, shown, shown')
<1>1. ASSUME NEW d \in ds, NEW k \in Class PROVE InSync(e1[d], shown'[d], k)
  <2>1. PICK s, c, lim : s = slots'[d] /\ c = clusters'[d] /\ lim = c * PerCluster
      OBVIOUS
  <2>2. s \in Slotted /\ c \in 1 .. MaxClusters
      BY <2>1 DEF EndInv, TypeOK, Slotted
  <2>3. Ends(s, lim)
    <3>1. \A i, j \in 0 .. lim - 1 : slots'[d][i].kind = "end" /\ i < j => slots'[d][j].kind = "end"
        BY <2>1 DEF EndInv, NothingAfterEnd, Limit
    <3> QED BY <2>1, <3>1 DEF Ends
  <2>4. Describes(e1[d], s, lim) /\ Distinct(e1[d])
      BY <2>1 DEF NoTwins
  <2>5. InSync(e1[d], NamesOf(s, lim), k)
      BY <2>1, <2>2, <2>3, <2>4, NamesAre
  <2>6. shown'[d] = NamesOf(s, lim)
      BY <2>1 DEF Publish
  <2> QED BY <2>5, <2>6
<1>2. ASSUME NEW d \in Directory, d \notin ds PROVE shown'[d] = shown[d]
    BY <1>2 DEF Publish
<1>3. PICK K : K = {f \in File : Whereabouts(shown', f) = Whereabouts(shown, f)}
    OBVIOUS
<1>4. reader' = [reader EXCEPT !.stable = @ \cap K, !.seen = @ \cap K, !.twice = @ \cap K]
    BY <1>3 DEF Publish
<1>5. Cut(reader, reader', K)
  <2>1. reader \in ReaderType
      BY Kept DEF RoomInv
  <2> QED BY <1>4, <2>1 DEF Cut, ReaderType
<1>6. ASSUME NEW f \in K, NEW d \in Directory, NEW k \in Class PROVE shown'[d][k] = f <=> shown[d][k] = f
  <2>1. Whereabouts(shown', f) = Whereabouts(shown, f)
      BY <1>3
  <2>2. /\ <<d, k>> \in Whereabouts(shown', f) <=> shown'[d][k] = f
        /\ <<d, k>> \in Whereabouts(shown, f) <=> shown[d][k] = f
      BY DEF Whereabouts
  <2> QED BY <2>1, <2>2
<1>7. Steady(K, shown, shown')
    BY <1>6 DEF Steady
<1> QED BY <1>1, <1>2, <1>5, <1>7

----------------------------------------------------------------------------
(* The slots in view *)

\* Where t works, no other thread's trim is pending.
LEMMA HiddenOwn ==
    ASSUME RoomInv, NEW t \in Thread, NEW d, Works(op[t], d), NEW ops, \A u \in Thread : u # t => ops[u] = op[u],
           NEW i, Hidden(ops, d, i)
    PROVE  ops[t].pc = "trim" /\ Home[ops[t].h] = d /\ ops[t].at + Width[ops[t].m] <= i /\ i < ops[t].at + ops[t].count
<1>1. PICK u \in Thread : /\ ops[u].pc = "trim" /\ Home[ops[u].h] = d
                          /\ ops[u].at + Width[ops[u].m] <= i /\ i < ops[u].at + ops[u].count
    BY DEF Hidden
<1>2. ASSUME u # t PROVE FALSE
  <2>1. Works(op[u], d)
      BY <1>1, <1>2 DEF Works
  <2> QED BY <1>2, <2>1, WorksAlone
<1> QED BY <1>1, <1>2

\* The slots of k clusters are positions.
LEMMA InPosition ==
    ASSUME NEW k \in 1 .. MaxClusters
    PROVE  k * PerCluster \in Nat /\ \A i \in 0 .. k * PerCluster - 1 : i \in Position
<1>1. k \in Nat
    OBVIOUS
<1> QED BY <1>1, SizeFacts

\* Where t works, and is not about to trim an entry, the slots in view are
\* those of the directory.
LEMMA ViewBefore ==
    ASSUME RoomInv, NEW t \in Thread, NEW d \in Directory, Works(op[t], d), op[t].pc # "trim",
           NEW e, Desc(e, slots, clusters, op)
    PROVE  Describes(e[d], slots[d], clusters[d] * PerCluster)
<1>1. PICK k, lim, s, v : k = clusters[d] /\ lim = k * PerCluster /\ s = slots[d] /\ v = View(slots, op, d)
    OBVIOUS
<1>2. k \in 1 .. MaxClusters
    BY <1>1, DirTypes DEF RoomInv, EndInv
<1>3. lim \in Nat /\ \A i \in 0 .. lim - 1 : i \in Position
    BY <1>1, <1>2, InPosition
<1>4. \A i \in Position : s[i] = v[i]
  <2>1. \A i \in Position : ~Hidden(op, d, i)
      BY HiddenOwn
  <2> QED BY <1>1, <2>1 DEF View
<1>5. Describes(e[d], v, lim)
    BY <1>1 DEF Desc
<1>6. Describes(e[d], s, lim)
    BY <1>3, <1>4, <1>5, DescribesSame
<1> QED BY <1>1, <1>6

\* Slots that t leaves with nothing to trim are in view as they are.
LEMMA ViewAfter ==
    ASSUME RoomInv, NEW t \in Thread, NEW d, Works(op[t], d), NEW ops, \A u \in Thread : u # t => ops[u] = op[u],
           ops[t].pc # "trim", NEW x, NEW ss, NEW k \in 1 .. MaxClusters, Describes(x, ss[d], k * PerCluster)
    PROVE  Describes(x, View(ss, ops, d), k * PerCluster)
<1>1. PICK lim, s, v : lim = k * PerCluster /\ s = ss[d] /\ v = View(ss, ops, d)
    OBVIOUS
<1>3. lim \in Nat /\ \A i \in 0 .. lim - 1 : i \in Position
    BY <1>1, InPosition
<1>4. \A i \in Position : v[i] = s[i]
  <2>1. \A i \in Position : ~Hidden(ops, d, i)
      BY HiddenOwn
  <2> QED BY <1>1, <2>1 DEF View
<1>5. Describes(x, s, lim)
    BY <1>1
<1>6. Describes(x, v, lim)
    BY <1>3, <1>4, <1>5, DescribesSame
<1> QED BY <1>1, <1>6

\* No thread works in directory d.
Still(d) == \A u \in Thread : ~Works(op[u], d)

\* No thread works where no vnode is locked.
LEMMA UnlockedStill ==
    ASSUME RoomInv, NEW d, \A h \in Handle : Home[h] = d => lock[h] = NoThread
    PROVE  Still(d)
<1>1. ASSUME NEW u \in Thread, Works(op[u], d) PROVE FALSE
  <2>1. op[u].h \in Handle /\ op[u].th \in Handle
      BY <1>1, OpFacts DEF RoomInv, Shape, Works
  <2>2. lock[op[u].h] = u /\ (~SameDir(op[u]) => lock[op[u].th] = u)
      BY <1>1 DEF RoomInv, LockInv, Works
  <2>3. lock[op[u].h] = NoThread \/ (lock[op[u].th] = NoThread /\ ~SameDir(op[u]))
      BY <1>1, <2>1 DEF Works, SameDir
  <2> QED BY <2>2, <2>3, SlotAssumption
<1> QED BY <1>1 DEF Still

\* Its slots are in view, and it shows its entries.
LEMMA StillView ==
    ASSUME RoomInv, NEW d \in Directory, Still(d), NEW e, Desc(e, slots, clusters, op), Sync(e, op, shown)
    PROVE  /\ Describes(e[d], slots[d], clusters[d] * PerCluster)
           /\ \A k \in Class : InSync(e[d], shown[d], k)
<1>1. PICK k, lim, s, v : k = clusters[d] /\ lim = k * PerCluster /\ s = slots[d] /\ v = View(slots, op, d)
    OBVIOUS
<1>2. k \in 1 .. MaxClusters
    BY <1>1, DirTypes DEF RoomInv, EndInv
<1>3. lim \in Nat /\ \A i \in 0 .. lim - 1 : i \in Position
    BY <1>1, <1>2, InPosition
<1>4. \A i \in Position : s[i] = v[i]
  <2>1. \A i \in Position : ~Hidden(op, d, i)
      BY DEF Hidden, Still, Works
  <2> QED BY <1>1, <2>1 DEF View
<1>5. Describes(e[d], v, lim)
    BY <1>1 DEF Desc
<1>6. Describes(e[d], s, lim)
    BY <1>3, <1>4, <1>5, DescribesSame
<1>7. ASSUME NEW c \in Class PROVE InSync(e[d], shown[d], c)
  <2>1. ASSUME NEW u \in Thread, Lags(op[u], d, c) PROVE FALSE
    <3>1. op[u].pc \notin {"idle", "lock"} /\ <<d, c>> \in {<<Home[op[u].h], Fold[op[u].n]>>, <<Home[op[u].th], Fold[op[u].m]>>}
        BY <2>1 DEF Lags, Names
    <3>2. d = Home[op[u].h] \/ d = Home[op[u].th]
        BY <3>1
    <3> QED BY <3>1, <3>2 DEF Still, Works
  <2> QED BY <2>1 DEF Sync, Lag
<1> QED BY <1>1, <1>6, <1>7

\* The directories where t does not work keep their entries.
LEMMA DescStep ==
    ASSUME RoomInv, NEW t \in Thread, NEW e, NEW e1, Desc(e, slots, clusters, op),
           NEW ops, \A u \in Thread : u # t => ops[u] = op[u], NEW ss, NEW cs,
           \A d \in Directory : ~Works(op[t], d) => e1[d] = e[d] /\ ss[d] = slots[d] /\ cs[d] = clusters[d],
           ops[t].pc = "trim" => op[t].pc \notin {"idle", "lock"} /\ ops[t].h = op[t].h,
           \A d \in Directory : Works(op[t], d) => Describes(e1[d], View(ss, ops, d), cs[d] * PerCluster)
    PROVE  Desc(e1, ss, cs, ops)
<1>1. ASSUME NEW d \in Directory, ~Works(op[t], d) PROVE Describes(e1[d], View(ss, ops, d), cs[d] * PerCluster)
  <2>1. e1[d] = e[d] /\ ss[d] = slots[d] /\ cs[d] = clusters[d]
      BY <1>1
  <2>2. ASSUME NEW i PROVE Hidden(ops, d, i) <=> Hidden(op, d, i)
    <3>1. ~(op[t].pc = "trim" /\ Home[op[t].h] = d)
        BY <1>1 DEF Works
    <3>2. ~(ops[t].pc = "trim" /\ Home[ops[t].h] = d)
        BY <1>1 DEF Works
    <3> QED BY <3>1, <3>2 DEF Hidden
  <2>3. View(ss, ops, d) = View(slots, op, d)
      BY <2>1, <2>2 DEF View
  <2> QED BY <2>1, <2>3 DEF Desc
<1> QED BY <1>1 DEF Desc

----------------------------------------------------------------------------
(* The joint invariant *)

\* e describes the directories, and all the state agrees with it.
Sound(e, ss, cs, ops, opn, shn, r) ==
    /\ e \in Entries /\ Desc(e, ss, cs, ops) /\ NoTwins(e) /\ OneName(e) /\ Sync(e, ops, shn)
    /\ FilesApart(ops) /\ NamesApart(ops) /\ Opened(e, opn) /\ Read(e, shn, r)
    /\ \A t \in Thread : Hand(e, ss, shn, ops[t]) /\ Closed(e, opn, ops[t])

Known(e) == Sound(e, slots, clusters, op, open, shown, reader)

After == \E e : Sound(e, slots', clusters', op', open', shown', reader')

\* No other thread has q's file or names.
Own(t, q) ==
    /\ \A u \in Thread : u # t /\ q.file # NoFile => op[u].file # q.file
    /\ \A u \in Thread : \A d \in Directory : \A k \in Class :
          u # t /\ <<d, k>> \in Names(q) /\ <<d, k>> \in Names(op[u]) => q.kind = "create" /\ op[u].kind = "create"

\* A step of t: what it has to keep, besides what follows for other threads
LEMMA ThreadStep ==
    ASSUME RoomInv, NEW t \in Thread, NEW q, op' = [op EXCEPT ![t] = q], NEW e, NEW e1, Known(e), e1 \in Entries,
           Moves(op[t], e, e1, slots, slots', shown, shown'), Desc(e1, slots', clusters', op'),
           NoTwins(e1), OneName(e1), Sync(e1, op', shown'), Opened(e1, open'), Read(e1, shown', reader'),
           Own(t, q), Hand(e1, slots', shown', q), Closed(e1, open', q),
           \A u \in Thread : u # t => Closed(e1, open', op[u])
    PROVE  After
<1>1. op'[t] = q /\ \A u \in Thread : u # t => op'[u] = op[u]
    BY DirTypes DEF RoomInv, EndInv
<1>2. FilesApart(op) /\ NamesApart(op) /\ \A u \in Thread : Hand(e, slots, shown, op[u])
    BY DEF Known, Sound
<1>3. FilesApart(op')
  <2>1. ASSUME NEW u \in Thread, NEW v \in Thread, u # v, op'[u].file = op'[v].file PROVE op'[u].file = NoFile
    <3>1. CASE u = t
        BY <1>1, <2>1, <3>1 DEF Own
    <3>2. CASE v = t
        BY <1>1, <2>1, <3>2 DEF Own
    <3>3. CASE u # t /\ v # t
        BY <1>1, <1>2, <2>1, <3>3 DEF FilesApart
    <3> QED BY <3>1, <3>2, <3>3
  <2> QED BY <2>1 DEF FilesApart
<1>4. NamesApart(op')
  <2>1. ASSUME NEW u \in Thread, NEW v \in Thread, NEW d \in Directory, NEW k \in Class,
               u # v, <<d, k>> \in Names(op'[u]), <<d, k>> \in Names(op'[v])
        PROVE  op'[u].kind = "create" /\ op'[v].kind = "create"
    <3>1. CASE u = t
        BY <1>1, <2>1, <3>1 DEF Own
    <3>2. CASE v = t
        BY <1>1, <2>1, <3>2 DEF Own
    <3>3. CASE u # t /\ v # t
        BY <1>1, <1>2, <2>1, <3>3 DEF NamesApart
    <3> QED BY <3>1, <3>2, <3>3
  <2> QED BY <2>1 DEF NamesApart
<1>5. ASSUME NEW u \in Thread PROVE Hand(e1, slots', shown', op'[u]) /\ Closed(e1, open', op'[u])
  <2>1. CASE u = t
      BY <1>1, <2>1
  <2>2. CASE u # t
    <3>1. Hand(e1, slots', shown', op[u])
        BY <1>2, <2>2, OthersHand
    <3> QED BY <1>1, <2>2, <3>1
  <2> QED BY <2>1, <2>2
<1>6. Sound(e1, slots', clusters', op', open', shown', reader')
    BY <1>3, <1>4, <1>5 DEF Sound
<1> QED BY <1>6 DEF After

\* A reader that nothing disturbs
LEMMA ReadSame ==
    ASSUME NEW e, NEW e1, NEW shn, NEW r \in ReaderType, Read(e, shn, r), e1 \in Entries,
           \A d \in Directory : \A a \in Position :
              e1[d][a] = e[d][a] \/ e1[d][a] = NoEntry \/ shn[d][Fold[e1[d][a].name]] # e1[d][a].file
    PROVE  Read(e1, shn, r)
<1>1. Cut(r, r, File)
    BY DEF Cut, ReaderType
<1>2. Steady(File, shn, shn)
    BY DEF Steady
<1>3. r.h # NoHandle => r.h \in Handle
    BY DEF ReaderType
<1> QED BY <1>1, <1>2, <1>3, ReadKept

\* A step of t that only changes what t has in hand
LEMMA StaySame ==
    ASSUME RoomInv, NEW t \in Thread, NEW q, op' = [op EXCEPT ![t] = q], NEW e, Known(e),
           slots' = slots, clusters' = clusters, open' = open, shown' = shown, reader' = reader,
           op[t].pc \notin {"alloc", "write", "trim"}, q.pc # "trim",
           Own(t, q), Hand(e, slots, shown, q), Closed(e, open, q)
    PROVE  After
<1>1. op'[t] = q /\ \A u \in Thread : u # t => op'[u] = op[u]
    BY DirTypes DEF RoomInv, EndInv
<1>2. Moves(op[t], e, e, slots, slots', shown, shown')
    BY DEF Moves
<1>3. Desc(e, slots', clusters', op')
  <2>1. \A d, i : Hidden(op', d, i) <=> Hidden(op, d, i)
      BY <1>1 DEF Hidden
  <2>2. \A d : View(slots', op', d) = View(slots, op, d)
      BY <2>1 DEF View
  <2> QED BY <2>2 DEF Desc, Known, Sound
<1>4. Sync(e, op', shown')
  <2>1. \A d, k : ~Lags(op[t], d, k)
      BY DEF Lags
  <2>2. Sync(e, op, shown)
      BY DEF Known, Sound
  <2> QED BY <1>1, <2>1, <2>2, SyncKept
<1>5. e \in Entries /\ NoTwins(e) /\ OneName(e) /\ Opened(e, open') /\ Read(e, shown', reader')
    BY DEF Known, Sound
<1>6. \A u \in Thread : Closed(e, open', op[u])
    BY DEF Known, Sound
<1> QED BY <1>2, <1>3, <1>4, <1>5, <1>6, ThreadStep

\* Where t works, and its own rename changes nothing yet, names are shown as
\* they are.
LEMMA OwnSync ==
    ASSUME RoomInv, NEW e, Sync(e, op, shown), NEW t \in Thread, NEW d \in Directory, Works(op[t], d), NEW k \in Class,
           ~Lags(op[t], d, k)
    PROVE  InSync(e[d], shown[d], k)
<1>1. ASSUME NEW u \in Thread, Lags(op[u], d, k) PROVE FALSE
  <2>1. Works(op[u], d)
    <3>1. op[u].pc \notin {"idle", "lock"} /\ <<d, k>> \in {<<Home[op[u].h], Fold[op[u].n]>>, <<Home[op[u].th], Fold[op[u].m]>>}
        BY <1>1 DEF Lags, Names
    <3>2. d = Home[op[u].h] \/ d = Home[op[u].th]
        BY <3>1
    <3> QED BY <3>1, <3>2 DEF Works
  <2> QED BY <1>1, <2>1, WorksAlone
<1> QED BY <1>1 DEF Sync, Lag

\* fat32_find_dirent finds the entry of a name, or there is none.
IsEntry(e, d, n, i, a) ==
    /\ a \in Position /\ e[d][a] # NoEntry /\ Fold[e[d][a].name] = Fold[n] /\ i = Last(e[d], a)
    /\ EntryStart(slots[d], 0, i) = a /\ slots[d][i].file = e[d][a].file /\ e[d][a].file \in File
    /\ i - a + 1 = Width[e[d][a].name]

\* An 8.3 slot that a search finds is the last of an entry of the name.
LEMMA MatchIsEntry ==
    ASSUME RoomInv, uncleared = {}, NEW d \in Directory, NEW e, Describes(e[d], slots[d], clusters[d] * PerCluster),
           NEW n, NEW i \in Matches(slots[d], n, Limit(d))
    PROVE  \E a : IsEntry(e, d, n, i, a)
<1>1. PICK s, k, lim, x : s = slots[d] /\ k = clusters[d] /\ lim = k * PerCluster /\ x = e[d]
    OBVIOUS
<1>2. s \in Slotted /\ k \in 1 .. MaxClusters /\ Limit(d) = lim
    BY <1>1, DirTypes DEF RoomInv, EndInv, Limit
<1>3. lim \in Nat /\ \A j \in 0 .. lim - 1 : j \in Position
    BY <1>1, <1>2, InPosition
<1>4. Ends(s, lim)
    BY <1>1, <1>2 DEF RoomInv, EndInv, NothingAfterEnd, Ends
<1>5. Describes(x, s, lim) /\ i \in Matches(s, n, lim)
    BY <1>1, <1>2
<1>6. PICK a \in Position : x[a] # NoEntry /\ i = Last(x, a) /\ Fold[x[a].name] = Fold[n]
    BY <1>1, <1>2, <1>4, <1>5, MatchesAre
<1>7. EntryStart(s, 0, i) = a
    BY <1>3, <1>5, <1>6, EntryRead
<1>8. s[i].file = x[a].file /\ x[a].file \in File /\ i - a + 1 = Width[x[a].name]
    BY <1>3, <1>5, <1>6, EntryLaid DEF Laid
<1> QED BY <1>1, <1>6, <1>7, <1>8 DEF IsEntry

\* A name that a search does not find has no entry.
LEMMA NoMatch ==
    ASSUME RoomInv, uncleared = {}, NEW d \in Directory, NEW e, Describes(e[d], slots[d], clusters[d] * PerCluster),
           NEW n, Matches(slots[d], n, Limit(d)) = {}
    PROVE  NoClass(e, d, Fold[n])
<1>1. PICK s, k, lim, x : s = slots[d] /\ k = clusters[d] /\ lim = k * PerCluster /\ x = e[d]
    OBVIOUS
<1>2. s \in Slotted /\ k \in 1 .. MaxClusters /\ Limit(d) = lim
    BY <1>1, DirTypes DEF RoomInv, EndInv, Limit
<1>4. Ends(s, lim)
    BY <1>1, <1>2 DEF RoomInv, EndInv, NothingAfterEnd, Ends
<1>5. Describes(x, s, lim) /\ Matches(s, n, lim) = {}
    BY <1>1, <1>2
<1>6. ASSUME NEW a \in Position, x[a] # NoEntry, Fold[x[a].name] = Fold[n] PROVE FALSE
  <2>1. Last(x, a) \in Matches(s, n, lim)
      BY <1>1, <1>2, <1>4, <1>5, <1>6, MatchesAre
  <2> QED BY <1>5, <2>1
<1> QED BY <1>1, <1>6 DEF NoClass

\* fat32_find_dirent without a device error
LEMMA SearchFinds ==
    ASSUME RoomInv, errors' = 0, uncleared = {}, NEW d \in Directory, NEW e, Describes(e[d], slots[d], clusters[d] * PerCluster),
           NEW n, NEW i, Search(d, n, i)
    PROVE  /\ i = None => NoClass(e, d, Fold[n])
           /\ i # None => \E a : IsEntry(e, d, n, i, a)
<1>1. ~IOError
    BY Kept DEF RoomInv, IOError
<1>2. PICK found : found = Matches(slots[d], n, Limit(d))
    OBVIOUS
<1>3. i = IF found = {} THEN None ELSE Min(found)
    BY <1>1, <1>2 DEF Search
<1>4. slots[d] \in Slotted /\ clusters[d] \in 1 .. MaxClusters
    BY DirTypes DEF RoomInv, EndInv
<1>5. found # {} => Min(found) \in found /\ Min(found) # None
  <2>1. PICK k \in 1 .. MaxClusters : k = clusters[d]
      BY <1>4
  <2>2. found = Matches(slots[d], n, k * PerCluster)
      BY <1>2, <2>1 DEF Limit
  <2>3. \A j \in found : j \in Position
      BY <1>4, <2>2, MatchFacts
  <2>4. found \subseteq Nat
      BY <2>3, SizeFacts
  <2>5. found # {} => Min(found) \in found
      BY <2>4, MinOf
  <2> QED BY <2>4, <2>5 DEF None
<1>6. CASE found = {}
    BY <1>2, <1>3, <1>6, NoMatch
<1>7. CASE found # {}
    BY <1>2, <1>3, <1>5, <1>7, MatchIsEntry
<1> QED BY <1>6, <1>7

----------------------------------------------------------------------------
(* The steps of a thread that change no directory *)

\* q is a later state of call o.
SameNames(o, q) == q.kind = o.kind /\ q.h = o.h /\ q.th = o.th /\ q.n = o.n /\ q.m = o.m

SameCall(o, q) == q.kind = o.kind /\ q.h = o.h /\ q.th = o.th /\ q.n = o.n /\ q.m = o.m /\ q.file = o.file

\* A call that goes on shares no file and no name with others.
LEMMA CallKept ==
    ASSUME NEW e, Known(e), NEW t \in Thread, NEW q, SameCall(op[t], q), op[t].pc # "idle"
    PROVE  Own(t, q) /\ Closed(e, open, q)
<1>1. FilesApart(op) /\ NamesApart(op) /\ Closed(e, open, op[t])
    BY DEF Known, Sound
<1>2. \A x : x \in Names(q) => x \in Names(op[t])
    BY DEF Names, SameCall
<1>3. Own(t, q)
    BY <1>1, <1>2 DEF Own, SameCall, FilesApart, NamesApart
<1>4. Closed(e, open, q)
    BY <1>1 DEF Closed, SameCall
<1> QED BY <1>3, <1>4

\* fat32_rename locks the target directory.
LEMMA LockTargetNames ==
    ASSUME RoomInv, NEW e, Known(e), NEW t \in Thread, LockTarget(t) PROVE After
<1>1. PICK o, q : o = op[t] /\ q = [o EXCEPT !.pc = "find"]
    OBVIOUS
<1>2. o \in Op /\ Shape(o) /\ o.pc = "lock"
    BY <1>1, OpFacts DEF RoomInv, LockTarget
<1>3. q.pc = "find" /\ SameCall(o, q)
    BY <1>1, <1>2 DEF Op, SameCall
<1>4. Own(t, q) /\ Closed(e, open, q)
    BY <1>1, <1>2, <1>3, CallKept
<1>5. Hand(e, slots, shown, q)
  <2>1. Hand(e, slots, shown, o)
      BY <1>1 DEF Known, Sound
  <2>2. HandFile(e, q)
      BY <1>2, <1>3, <2>1 DEF Hand, HandFile, SameCall
  <2>3. HandShown(shown, q)
      BY <1>3, <2>1 DEF Hand, HandShown, SameCall
  <2>4. HandName(e, q) /\ HandSlots(e, slots, q)
      BY <1>3 DEF HandName, HandSlots
  <2> QED BY <2>2, <2>3, <2>4 DEF Hand
<1>6. /\ op' = [op EXCEPT ![t] = q] /\ slots' = slots /\ clusters' = clusters /\ open' = open /\ shown' = shown
      /\ reader' = reader
    BY <1>1 DEF LockTarget, Go
<1> QED BY <1>1, <1>2, <1>3, <1>4, <1>5, <1>6, StaySame

\* What a name in use by no other thread shows is its file.
LEMMA NotLagging ==
    ASSUME NEW e, Known(e), NEW d \in Directory, NEW k \in Class,
           \A u \in Thread : <<d, k>> \notin Names(op[u])
    PROVE  InSync(e[d], shown[d], k)
<1>1. ~Lag(op, d, k)
    BY DEF Lag, Lags
<1>2. Sync(e, op, shown)
    BY DEF Known, Sound
<1> QED BY <1>1, <1>2 DEF Sync

\* A file that is in no slot, and in no thread's hand, is shown nowhere.
LEMMA NewFile ==
    ASSUME RoomInv, NEW e, Known(e), NEW f \in File, \A d \in Directory, i \in Position : slots[d][i].file # f,
           \A u \in Thread : op[u].file # f
    PROVE  Nowhere(e, f) /\ Unnamed(shown, f)
<1>0. f # NoFile /\ NoEntry.file = NoFile
    BY SlotAssumption DEF NoEntry
<1>1. ASSUME NEW d \in Directory, NEW a \in Position, e[d][a].file = f PROVE FALSE
  <2>1. e[d][a] # NoEntry
      BY <1>0, <1>1
  <2>2. PICK k, lim, v : k = clusters[d] /\ lim = k * PerCluster /\ v = View(slots, op, d)
      OBVIOUS
  <2>3. k \in 1 .. MaxClusters
      BY <2>2, DirTypes DEF RoomInv, EndInv
  <2>4. lim \in Nat /\ \A i \in 0 .. lim - 1 : i \in Position
      BY <2>2, <2>3, InPosition
  <2>5. Describes(e[d], v, lim)
      BY <2>2 DEF Known, Sound, Desc
  <2>6. PICK z : z = Last(e[d], a)
      OBVIOUS
  <2>7. z \in Nat /\ z < lim /\ v[z].file = f
      BY <1>1, <2>1, <2>4, <2>5, <2>6, EntryLaid DEF Laid
  <2>8. z \in Position
      BY <2>4, <2>7
  <2>9. v[z] = DeletedSlot \/ v[z] = slots[d][z]
      BY <2>2, <2>8 DEF View
  <2>10. DeletedSlot.file = NoFile
      BY DEF DeletedSlot, EmptySlot
  <2> QED BY <1>0, <2>7, <2>8, <2>9, <2>10
<1>2. ASSUME NEW d \in Directory, NEW k \in Class, shown[d][k] = f PROVE FALSE
  <2>1. ~InSync(e[d], shown[d], k)
      BY <1>1, <1>2 DEF InSync
  <2>2. PICK u \in Thread : Lags(op[u], d, k)
      BY <2>1 DEF Known, Sound, Sync, Lag
  <2>3. PICK p : p = op[u]
      OBVIOUS
  <2>4. /\ p.kind = "rename" /\ p.pc \in {"alloc", "write", "trim"}
        /\ <<d, k>> \in {<<Home[p.h], Fold[p.n]>>, <<Home[p.th], Fold[p.m]>>} /\ HandShown(shown, p)
      BY <2>2, <2>3 DEF Lags, Names, Known, Sound, Hand
  <2>5. shown[Home[p.h]][Fold[p.n]] \in {p.file, NoFile} /\ shown[Home[p.th]][Fold[p.m]] = NoFile
      BY <2>4 DEF HandShown
  <2>6. (d = Home[p.h] /\ k = Fold[p.n]) \/ (d = Home[p.th] /\ k = Fold[p.m])
      BY <2>4
  <2> QED BY <1>0, <1>2, <2>3, <2>5, <2>6
<1> QED BY <1>1, <1>2 DEF Nowhere, Unnamed

\* A name that is not in use is of no open file.
LEMMA UnusedShut ==
    ASSUME RoomInv, NEW e, Known(e), NEW d \in Directory, NEW n \in Name, Unused(d, n)
    PROVE  Shut(e, open, d, Fold[n])
<1>1. PICK k : k = Fold[n]
    OBVIOUS
<1>2. k \in Class
    BY <1>1 DEF Class
<1>3. InSync(e[d], shown[d], k)
    BY <1>1, <1>2, NotLagging DEF Unused
<1>4. ASSUME NEW a \in Position, e[d][a] # NoEntry, Fold[e[d][a].name] = k PROVE open[e[d][a].file] = NoLoc
  <2>1. e[d][a].file \in File
      BY <1>4 DEF Known, Sound, Entries, EntryType
  <2>2. shown[d][k] = e[d][a].file
      BY <1>3, <1>4, <2>1 DEF InSync
  <2>3. e[d][a].file # NoFile
      BY <2>1, SlotAssumption
  <2> QED BY <1>1, <2>2, <2>3 DEF Unused
<1> QED BY <1>1, <1>4 DEF Shut

\* A call begins with names that no other call is removing or renaming.
LEMMA CallNames ==
    ASSUME RoomInv, NEW e, Known(e), NEW t \in Thread, NEW h \in Handle, NEW th \in Handle, NEW n \in Name, NEW m \in Name,
           NEW k \in {"create", "remove", "rename"}, NEW f, Call(t, k, h, th, n, m, f),
           f # NoFile => \A u \in Thread : op[u].file # f,
           \A u \in Thread : <<Home[h], Fold[n]>> \notin Names(op[u]) \/ (k = "create" /\ op[u].kind = "create"),
           \A u \in Thread : <<Home[th], Fold[m]>> \notin Names(op[u]) \/ (k = "create" /\ op[u].kind = "create"),
           k = "create" => f \in File /\ Nowhere(e, f) /\ Unnamed(shown, f) /\ open[f] = NoLoc,
           k # "create" => f = NoFile /\ Shut(e, open, Home[h], Fold[n]) /\ Shut(e, open, Home[th], Fold[m])
    PROVE  After
<1>1. PICK q : q = [pc |-> IF Home[h] = Home[th] THEN "find" ELSE "lock", kind |-> k,
                    h |-> h, th |-> th, n |-> n, m |-> m, file |-> f, at |-> 0, count |-> 0]
    OBVIOUS
<1>2. q.pc \in {"find", "lock"} /\ q.kind = k /\ q.h = h /\ q.th = th /\ q.n = n /\ q.m = m /\ q.file = f
    BY <1>1
<1>3. op[t].pc = "idle" /\ op' = [op EXCEPT ![t] = q] /\ slots' = slots /\ clusters' = clusters /\ open' = open
      /\ shown' = shown /\ reader' = reader
    BY <1>1 DEF Call, Go
<1>4. Own(t, q)
  <2>1. \A x : x \in Names(q) => x = <<Home[h], Fold[n]>> \/ x = <<Home[th], Fold[m]>>
      BY <1>2 DEF Names
  <2>2. \A u \in Thread : u # t /\ q.file # NoFile => op[u].file # q.file
      BY <1>2
  <2>3. ASSUME NEW u \in Thread, NEW x, x \in Names(q), x \in Names(op[u])
        PROVE  q.kind = "create" /\ op[u].kind = "create"
      BY <1>2, <2>1, <2>3
  <2> QED BY <2>2, <2>3 DEF Own
<1>5. Hand(e, slots, shown, q)
  <2>1. HandFile(e, q)
      BY <1>2 DEF HandFile
  <2>2. HandShown(shown, q)
      BY <1>2 DEF HandShown
  <2>3. HandName(e, q) /\ HandSlots(e, slots, q)
      BY <1>2 DEF HandName, HandSlots
  <2> QED BY <2>1, <2>2, <2>3 DEF Hand
<1>6. Closed(e, open, q)
    BY <1>2 DEF Closed
<1> QED BY <1>2, <1>3, <1>4, <1>5, <1>6, StaySame

\* fat32_create, fat32_remove and fat32_rename begin.
LEMMA BeginNames ==
    ASSUME RoomInv, ~RemoveWhileOpen, NEW e, Known(e), NEW t \in Thread, Begin(t) PROVE After
<1>1. PICK h \in Handle, n \in Name :
        \/ \E f \in File : Create(t, h, n, f)
        \/ Remove(t, h, n)
        \/ \E th \in Handle, m \in Name : Rename(t, h, n, th, m)
    BY DEF Begin
<1>2. Home[h] \in Directory
    BY SlotAssumption
<1>3. ASSUME NEW f \in File, Create(t, h, n, f) PROVE After
  <2>1. Nowhere(e, f) /\ Unnamed(shown, f)
      BY <1>3, NewFile DEF Create
  <2>2. Call(t, "create", h, h, n, n, f) /\ open[f] = NoLoc /\ \A u \in Thread : op[u].file # f
      BY <1>3 DEF Create
  <2>3. \A u \in Thread : <<Home[h], Fold[n]>> \notin Names(op[u]) \/ op[u].kind = "create"
      BY <1>3 DEF Create
  <2> QED BY <2>1, <2>2, <2>3, CallNames
<1>4. ASSUME Remove(t, h, n) PROVE After
  <2>1. Unused(Home[h], n) /\ Call(t, "remove", h, h, n, n, NoFile)
      BY <1>4 DEF Remove
  <2>2. Shut(e, open, Home[h], Fold[n])
      BY <1>2, <2>1, UnusedShut
  <2>3. \A u \in Thread : <<Home[h], Fold[n]>> \notin Names(op[u])
      BY <2>1 DEF Unused
  <2> QED BY <2>1, <2>2, <2>3, CallNames
<1>5. ASSUME NEW th \in Handle, NEW m \in Name, Rename(t, h, n, th, m) PROVE After
  <2>1. Unused(Home[h], n) /\ Unused(Home[th], m) /\ Call(t, "rename", h, th, n, m, NoFile)
      BY <1>5 DEF Rename
  <2>2. Home[th] \in Directory
      BY SlotAssumption
  <2>3. Shut(e, open, Home[h], Fold[n]) /\ Shut(e, open, Home[th], Fold[m])
      BY <1>2, <2>1, <2>2, UnusedShut
  <2>4. \A u \in Thread : <<Home[h], Fold[n]>> \notin Names(op[u]) /\ <<Home[th], Fold[m]>> \notin Names(op[u])
      BY <2>1 DEF Unused
  <2> QED BY <2>1, <2>3, <2>4, CallNames
<1> QED BY <1>1, <1>3, <1>4, <1>5

\* Where a thread works it knows the entries as they are.
LEMMA OwnView ==
    ASSUME RoomInv, NEW e, Known(e), NEW t \in Thread, op[t].pc \notin {"idle", "lock", "trim"},
           NEW d, d \in {Home[op[t].h], Home[op[t].th]}
    PROVE  d \in Directory /\ Works(op[t], d) /\ Describes(e[d], slots[d], clusters[d] * PerCluster)
<1>1. d \in Directory /\ Works(op[t], d)
    BY OpFacts DEF RoomInv, Works
<1>2. Desc(e, slots, clusters, op)
    BY DEF Known, Sound
<1> QED BY <1>1, <1>2, ViewBefore

\* The classes of a thread's names
LEMMA OwnClasses ==
    ASSUME RoomInv, NEW t \in Thread, op[t].pc # "idle"
    PROVE  /\ Fold[op[t].n] \in Class /\ Fold[op[t].m] \in Class
           /\ <<Home[op[t].h], Fold[op[t].n]>> \in Names(op[t]) /\ <<Home[op[t].th], Fold[op[t].m]>> \in Names(op[t])
<1>1. op[t].n \in Name /\ op[t].m \in Name
    BY OpFacts DEF RoomInv, Shape
<1> QED BY <1>1 DEF Class, Names

\* fat32_rename looks for the new name.
LEMMA FindTargetNames ==
    ASSUME RoomInv, errors' = 0, uncleared = {}, NEW e, Known(e), NEW t \in Thread, FindTarget(t) PROVE After
<1>1. PICK o : o = op[t]
    OBVIOUS
<1>2. o \in Op /\ Shape(o) /\ o.pc = "find2" /\ o.kind = "rename"
    BY <1>1, OpFacts DEF RoomInv, FindTarget, Shape
<1>3. PICK i \in Position \cup {None} :
        Search(Home[o.th], o.m, i) /\ Go(t, [o EXCEPT !.pc = IF i = None THEN NextOfRename(o) ELSE "replace"])
    BY <1>1 DEF FindTarget
<1>4. PICK q, d : q = [o EXCEPT !.pc = IF i = None THEN NextOfRename(o) ELSE "replace"] /\ d = Home[o.th]
    OBVIOUS
<1>5. d \in Directory /\ Works(o, d) /\ Describes(e[d], slots[d], clusters[d] * PerCluster)
    BY <1>1, <1>2, <1>4, OwnView
<1>6. q.pc = (IF i = None THEN NextOfRename(o) ELSE "replace") /\ SameCall(o, q) /\ q.at = o.at /\ q.count = o.count
    BY <1>2, <1>4 DEF Op, SameCall
<1>7. Own(t, q) /\ Closed(e, open, q)
    BY <1>1, <1>2, <1>6, CallKept
<1>8. Hand(e, slots, shown, o)
    BY <1>1 DEF Known, Sound
<1>9. o.file \in File /\ InHand(e, o) /\ InHand(e, q)
  <2>1. o.file \in File /\ InHand(e, o)
      BY <1>2, <1>8 DEF Hand, HandFile
  <2> QED BY <1>6, <2>1 DEF InHand, SameCall
<1>10. CASE i # None
  <2>1. HandFile(e, q)
      BY <1>2, <1>6, <1>9, <1>10 DEF HandFile, SameCall
  <2>2. HandName(e, q)
      BY <1>2, <1>6, <1>8, <1>10 DEF Hand, HandName, SameCall
  <2>3. HandShown(shown, q)
      BY <1>2, <1>6, <1>8, <1>10 DEF Hand, HandShown, SameCall
  <2>4. HandSlots(e, slots, q)
      BY <1>6, <1>10 DEF HandSlots
  <2>5. Hand(e, slots, shown, q) /\ q.pc # "trim"
      BY <1>6, <1>10, <2>1, <2>2, <2>3, <2>4 DEF Hand
  <2> QED BY <1>1, <1>2, <1>3, <1>4, <1>7, <2>5, StaySame DEF FindTarget, Go
<1>11. CASE i = None
  <2>1. NoClass(e, d, Fold[o.m])
      BY <1>3, <1>4, <1>5, <1>11, SearchFinds
  <2>2. q.pc \in {"write", "delete"} /\ (q.pc = "write" => SameDir(o)) /\ (SameDir(q) <=> SameDir(o))
      BY <1>6, <1>11 DEF NextOfRename, SameCall, SameDir
  <2>3. HandFile(e, q)
      BY <1>2, <1>6, <1>9, <2>2 DEF HandFile, SameCall
  <2>4. HandName(e, q)
      BY <1>2, <1>4, <1>6, <1>8, <2>1, <2>2 DEF Hand, HandName, SameCall
  <2>5. shown[d][Fold[o.m]] = NoFile
    <3>1. ~Lags(o, d, Fold[o.m])
        BY <1>2 DEF Lags
    <3>2. Fold[o.m] \in Class
        BY <1>1, <1>2, OwnClasses
    <3>3. InSync(e[d], shown[d], Fold[o.m])
        BY <1>1, <1>5, <3>1, <3>2, OwnSync DEF Known, Sound
    <3>4. shown[d][Fold[o.m]] \in File \cup {NoFile}
        BY <1>5, <3>2, Kept DEF RoomInv
    <3> QED BY <2>1, <3>3, <3>4, SyncFacts DEF NoClass
  <2>6. HandShown(shown, q)
      BY <1>2, <1>4, <1>6, <1>8, <2>2, <2>5 DEF Hand, HandShown, SameCall
  <2>7. HandSlots(e, slots, q)
      BY <1>9 DEF HandSlots
  <2>8. Hand(e, slots, shown, q) /\ q.pc # "trim"
      BY <2>2, <2>3, <2>4, <2>6, <2>7, Zenon DEF Hand
  <2> QED BY <1>1, <1>2, <1>3, <1>4, <1>7, <2>8, StaySame DEF FindTarget, Go
<1> QED BY <1>10, <1>11

\* No other thread has file f in hand; it is closed, and shown as k in d only.
SoleFile(t, f, d, k) ==
    /\ \A u \in Thread : u # t => op[u].file # f
    /\ open[f] = NoLoc /\ shown[d][k] = f
    /\ \A c \in Directory : \A j \in Class : shown[c][j] = f => c = d /\ j = k

\* The entry a search finds is in no other thread's hand, and its file is
\* shown by its name only.
LEMMA FoundOwn ==
    ASSUME RoomInv, NEW e, Known(e), NEW t \in Thread, op[t].pc = "find", op[t].kind \in {"remove", "rename"},
           NEW d, d = Home[op[t].h], NEW a \in Position, e[d][a] # NoEntry, Fold[e[d][a].name] = Fold[op[t].n]
    PROVE  SoleFile(t, e[d][a].file, d, Fold[op[t].n])
<1>1. d \in Directory /\ Works(op[t], d)
    BY OwnView
<1>2. PICK f, k : f = e[d][a].file /\ k = Fold[op[t].n]
    OBVIOUS
<1>3. f \in File /\ f # NoFile /\ k \in Class /\ <<d, k>> \in Names(op[t])
  <2>1. f \in File
      BY <1>1, <1>2 DEF Known, Sound, Entries, EntryType
  <2> QED BY <1>2, <2>1, OwnClasses, SlotAssumption
<1>4. ASSUME NEW u \in Thread, u # t, op[u].file = f PROVE FALSE
  <2>1. op[u] \in Op /\ Shape(op[u]) /\ HandFile(e, op[u])
      BY OpFacts DEF RoomInv, Known, Sound, Hand
  <2>2. <<d, Fold[e[d][a].name]>> \in Names(op[u])
      BY <1>1, <1>2, <1>4, <2>1, HeldName DEF Known, Sound
  <2>3. <<d, k>> \in Names(op[u])
      BY <1>2, <2>2, Zenon
  <2> QED BY <1>1, <1>3, <1>4, <2>3 DEF Known, Sound, NamesApart
<1>5. open[f] = NoLoc
    BY <1>2, Zenon DEF Known, Sound, Closed, Shut
<1>6. shown[d][k] = f
  <2>1. ~Lags(op[t], d, k)
      BY DEF Lags
  <2>2. InSync(e[d], shown[d], k)
      BY <1>1, <1>3, <2>1, OwnSync DEF Known, Sound
  <2> QED BY <1>2, <1>3, <2>2, Zenon DEF InSync
<1>7. ASSUME NEW c \in Directory, NEW j \in Class, shown[c][j] = f PROVE c = d /\ j = k
  <2>1. CASE Lag(op, c, j)
    <3>1. PICK u \in Thread : Lags(op[u], c, j)
        BY <2>1 DEF Lag
    <3>2. PICK p : p = op[u]
        OBVIOUS
    <3>3. /\ p.kind = "rename" /\ p.pc \in {"alloc", "write", "trim"}
          /\ <<c, j>> \in {<<Home[p.h], Fold[p.n]>>, <<Home[p.th], Fold[p.m]>>} /\ HandShown(shown, p)
        BY <3>1, <3>2 DEF Lags, Names, Known, Sound, Hand
    <3>4. shown[Home[p.h]][Fold[p.n]] \in {p.file, NoFile} /\ shown[Home[p.th]][Fold[p.m]] = NoFile
        BY <3>3 DEF HandShown
    <3>5. (c = Home[p.h] /\ j = Fold[p.n]) \/ (c = Home[p.th] /\ j = Fold[p.m])
        BY <3>3
    <3>6. p.file = f /\ u # t
        BY <1>3, <1>7, <3>2, <3>3, <3>4, <3>5
    <3> QED BY <1>4, <3>2, <3>6
  <2>2. CASE ~Lag(op, c, j)
    <3>1. InSync(e[c], shown[c], j)
        BY <2>2 DEF Known, Sound, Sync
    <3>2. PICK b \in Position : e[c][b] # NoEntry /\ e[c][b].file = f /\ Fold[e[c][b].name] = j
        BY <1>3, <1>7, <3>1 DEF InSync
    <3>3. c = d /\ b = a
        BY <1>1, <1>2, <3>2 DEF Known, Sound, OneName
    <3> QED BY <1>2, <3>2, <3>3
  <2> QED BY <2>1, <2>2
<1> QED BY <1>2, <1>4, <1>5, <1>6, <1>7, Zenon DEF SoleFile

\* p at another step
At(p, pc) == [p EXCEPT !.pc = pc]

\* What a search puts in hand
LEMMA FoundRecord ==
    ASSUME NEW o \in Op, NEW s, NEW i, NEW a, NEW f \in File, NEW pc, EntryStart(s, 0, i) = a, s[i].file = f, NEW q,
           q = At(Found(o, s, i), pc)
    PROVE  /\ q.pc = pc /\ q.kind = o.kind /\ q.h = o.h /\ q.th = o.th
           /\ q.n = o.n /\ q.m = o.m /\ q.file = f /\ q.at = a /\ q.count = i - a + 1
<1>1. PICK p : p = Found(o, s, i)
    OBVIOUS
<1>2. p = [o EXCEPT !.file = f, !.at = a, !.count = i - a + 1]
    BY <1>1 DEF Found
<1>3. p \in [pc : PC, kind : {"none", "create", "remove", "rename"}, h : Handle \cup {NoHandle},
             th : Handle \cup {NoHandle}, n : Name \cup {NoName}, m : Name \cup {NoName}, file : File \cup {NoFile},
             at : {a}, count : {i - a + 1}]
    BY <1>2 DEF Op
<1>4. q = [p EXCEPT !.pc = pc]
    BY <1>1 DEF At
<1>5. /\ q.pc = pc /\ q.kind = p.kind /\ q.h = p.h /\ q.th = p.th
      /\ q.n = p.n /\ q.m = p.m /\ q.file = p.file /\ q.at = p.at /\ q.count = p.count
    BY <1>3, <1>4
<1>6. /\ p.kind = o.kind /\ p.h = o.h /\ p.th = o.th /\ p.n = o.n /\ p.m = o.m /\ p.file = f /\ p.at = a
      /\ p.count = i - a + 1
    BY <1>2 DEF Op
<1> QED BY <1>5, <1>6

\* A removal or a rename takes the entry at a in hand.
Takes(t, e, o, i, a, q) ==
    /\ o = op[t] /\ o.pc = "find" /\ o.kind \in {"remove", "rename"} /\ IsEntry(e, Home[o.h], o.n, i, a)
    /\ SameNames(o, q) /\ (o.kind = "rename" => q.pc = "find2") /\ (o.kind # "rename" => q.pc = "delete")
    /\ q.file = e[Home[o.h]][a].file /\ q.at = a /\ q.count = i - a + 1 /\ op' = [op EXCEPT ![t] = q]
    /\ slots' = slots /\ clusters' = clusters /\ open' = open /\ shown' = shown /\ reader' = reader

\* It is the entry of the old name, and no other thread has it.
LEMMA FoundNames ==
    ASSUME RoomInv, NEW e, Known(e), NEW t \in Thread, NEW o, NEW i, NEW a, NEW q, Takes(t, e, o, i, a, q)
    PROVE  After
<1>0. /\ o = op[t] /\ o.pc = "find" /\ o.kind \in {"remove", "rename"} /\ IsEntry(e, Home[o.h], o.n, i, a)
      /\ SameNames(o, q) /\ (o.kind = "rename" => q.pc = "find2") /\ (o.kind # "rename" => q.pc = "delete")
      /\ q.file = e[Home[o.h]][a].file /\ q.at = a /\ q.count = i - a + 1 /\ op' = [op EXCEPT ![t] = q]
      /\ slots' = slots /\ clusters' = clusters /\ open' = open /\ shown' = shown /\ reader' = reader
    BY DEF Takes
<1> USE <1>0
<1>1. PICK d, f : d = Home[o.h] /\ f = e[d][a].file
    OBVIOUS
<1>2. a \in Position /\ e[d][a] # NoEntry /\ Fold[e[d][a].name] = Fold[o.n] /\ EntryStart(slots[d], 0, i) = a
      /\ slots[d][i].file = f /\ f \in File /\ i - a + 1 = Width[e[d][a].name]
    BY <1>1 DEF IsEntry
<1>3. o \in Op /\ Shape(o) /\ d \in Directory
    BY <1>1, OpFacts DEF RoomInv
<1>4. /\ q.pc = (IF o.kind = "rename" THEN "find2" ELSE "delete") /\ q.kind = o.kind /\ q.h = o.h /\ q.th = o.th
      /\ q.n = o.n /\ q.m = o.m /\ q.file = f /\ q.at = a /\ q.count = Width[e[d][a].name]
    BY <1>1, <1>2, Zenon DEF SameNames
<1>5. /\ \A u \in Thread : u # t => op[u].file # f
      /\ open[f] = NoLoc /\ shown[d][Fold[o.n]] = f
      /\ \A c \in Directory : \A k \in Class : shown[c][k] = f => c = d /\ k = Fold[o.n]
  <2>1. /\ op[t].pc = "find" /\ op[t].kind \in {"remove", "rename"} /\ d = Home[op[t].h]
        /\ Fold[e[d][a].name] = Fold[op[t].n]
      BY <1>1, <1>2, Zenon
  <2>2. SoleFile(t, e[d][a].file, d, Fold[op[t].n])
      BY ONLY RoomInv, Known(e), t \in Thread, <1>2, <2>1, FoundOwn, Zenon
  <2> QED BY <1>1, <2>2, Zenon DEF SoleFile
<1>6. InHand(e, q)
    BY <1>1, <1>2, <1>4 DEF InHand
<1>7. Hand(e, slots, shown, q)
  <2>1. HandFile(e, q)
      BY <1>2, <1>4, <1>6, Zenon DEF HandFile
  <2>2. HandName(e, q)
    <3>1. \A b \in Position : e[d][b] # NoEntry /\ Fold[e[d][b].name] = Fold[o.n] => b = a
        BY <1>2, <1>3 DEF Known, Sound, NoTwins, Distinct
    <3> QED BY <1>1, <1>4, <3>1, Zenon DEF HandName
  <2>3. HandShown(shown, q)
      BY <1>1, <1>4, <1>5, Zenon DEF HandShown
  <2>4. HandSlots(e, slots, q)
      BY <1>6 DEF HandSlots
  <2> QED BY <2>1, <2>2, <2>3, <2>4 DEF Hand
<1>8. Own(t, q) /\ Closed(e, open, q)
  <2>1. Closed(e, open, o)
      BY DEF Known, Sound
  <2>2. Closed(e, open, q)
      BY <1>4, <1>5, <2>1 DEF Closed
  <2>3. \A x : x \in Names(q) => x \in Names(op[t])
      BY <1>4 DEF Names
  <2> QED BY <1>4, <1>5, <2>2, <2>3 DEF Own, Known, Sound, NamesApart
<1> QED BY <1>4, <1>7, <1>8, StaySame

----------------------------------------------------------------------------
(* What the directories show, as a map *)

\* What can be shown
Tables == [Directory -> [Class -> File \cup {NoFile}]]

\* Tables with the same files for all names are the same.
LEMMA TablesEqual ==
    ASSUME NEW G \in Tables, NEW H \in Tables, \A d \in Directory : \A k \in Class : G[d][k] = H[d][k]
    PROVE  G = H
<1>1. ASSUME NEW d \in Directory PROVE G[d] = H[d]
  <2>1. G[d] \in [Class -> File \cup {NoFile}] /\ H[d] \in [Class -> File \cup {NoFile}]
      BY DEF Tables
  <2> QED BY <2>1
<1> QED BY <1>1 DEF Tables

\* Only the names in P are shown otherwise.
Agree(P) == \A d \in Directory : \A k \in Class : <<d, k>> \notin P => shown'[d][k] = shown[d][k]

MapStep == [Map!Next]_shown

\* One name shows no file any more: a step of the map, or none.
LEMMA MapRemoves ==
    ASSUME shown \in Tables, shown' \in Tables, NEW d \in Directory, NEW k \in Class, Agree({<<d, k>>}),
           shown'[d][k] = NoFile
    PROVE  MapStep
<1>1. CASE shown[d][k] = NoFile
  <2>1. \A c \in Directory : \A j \in Class : shown'[c][j] = shown[c][j]
      BY <1>1 DEF Agree
  <2>2. shown' = shown
      BY <2>1, TablesEqual
  <2> QED BY <2>2 DEF MapStep
<1>2. CASE shown[d][k] # NoFile
  <2>1. PICK F : F = [shown EXCEPT ![d][k] = NoFile]
      OBVIOUS
  <2>2. F \in Tables
      BY <2>1 DEF Tables
  <2>3. \A c \in Directory : \A j \in Class : F[c][j] = IF c = d /\ j = k THEN NoFile ELSE shown[c][j]
      BY <2>1 DEF Tables
  <2>4. \A c \in Directory : \A j \in Class : shown'[c][j] = F[c][j]
      BY <2>3 DEF Agree
  <2>5. shown' = F
      BY <2>2, <2>4, TablesEqual
  <2>6. Map!Remove(d, k)
      BY <1>2, <2>1, <2>5 DEF Map!Remove
  <2> QED BY <2>6 DEF MapStep, Map!Next
<1> QED BY <1>1, <1>2

\* One name shows a file that had none: a step of the map.
LEMMA MapCreates ==
    ASSUME shown \in Tables, shown' \in Tables, NEW d \in Directory, NEW k \in Class, Agree({<<d, k>>}),
           NEW f \in File, shown[d][k] = NoFile, shown'[d][k] = f,
           \A c \in Directory : \A j \in Class : shown[c][j] # f
    PROVE  MapStep
<1>1. PICK F : F = [shown EXCEPT ![d][k] = f]
    OBVIOUS
<1>2. F \in Tables
    BY <1>1 DEF Tables
<1>3. \A c \in Directory : \A j \in Class : F[c][j] = IF c = d /\ j = k THEN f ELSE shown[c][j]
    BY <1>1 DEF Tables
<1>4. \A c \in Directory : \A j \in Class : shown'[c][j] = F[c][j]
    BY <1>3 DEF Agree
<1>5. shown' = F
    BY <1>2, <1>4, TablesEqual
<1>6. Map!Create(d, k, f)
    BY <1>1, <1>5 DEF Map!Create, Map!Named
<1> QED BY <1>6 DEF MapStep, Map!Next

\* The file of one name is shown for another: a step of the map.
LEMMA MapRenames ==
    ASSUME shown \in Tables, shown' \in Tables, NEW d \in Directory, NEW k \in Class, NEW c \in Directory, NEW j \in Class,
           Agree({<<d, k>>, <<c, j>>}), NEW f \in File, shown[d][k] = f, shown[c][j] = NoFile,
           shown'[d][k] = NoFile, shown'[c][j] = f
    PROVE  MapStep
<1>0. f # NoFile
    BY SlotAssumption
<1>1. PICK G, F : G = [shown EXCEPT ![d][k] = NoFile] /\ F = [G EXCEPT ![c][j] = f]
    OBVIOUS
<1>2. G \in Tables /\ F \in Tables
    BY <1>1 DEF Tables
<1>3. \A b \in Directory : \A l \in Class : G[b][l] = IF b = d /\ l = k THEN NoFile ELSE shown[b][l]
    BY <1>1 DEF Tables
<1>4. \A b \in Directory : \A l \in Class : F[b][l] = IF b = c /\ l = j THEN f ELSE G[b][l]
    BY <1>1, <1>2 DEF Tables
<1>5. \A b \in Directory : \A l \in Class : shown'[b][l] = F[b][l]
    BY <1>0, <1>3, <1>4 DEF Agree
<1>6. shown' = F
    BY <1>2, <1>5, TablesEqual
<1>7. shown' = [shown EXCEPT ![d][k] = NoFile, ![c][j] = shown[d][k]]
    BY <1>1, <1>6
<1>8. Map!Rename(d, k, c, j)
    BY <1>0, <1>7 DEF Map!Rename
<1> QED BY <1>8 DEF MapStep, Map!Next

\* The files of a thread's names are not shown by its new name.
LEMMA NewNameFree ==
    ASSUME RoomInv, NEW t \in Thread, op[t].pc = "write", NEW e, Hand(e, slots, shown, op[t])
    PROVE  shown[Home[op[t].th]][Fold[op[t].m]] # op[t].file
<1>1. PICK o : o = op[t]
    OBVIOUS
<1>2. o.kind \in {"create", "rename"} /\ Home[o.th] \in Directory /\ Fold[o.m] \in Class
    BY <1>1, OpFacts, OwnClasses DEF RoomInv, Shape
<1>3. o.file \in File /\ HandShown(shown, o)
    BY <1>1 DEF Hand, HandFile
<1>4. CASE o.kind = "create"
    BY <1>1, <1>2, <1>3, <1>4 DEF HandShown, Unnamed
<1>5. CASE o.kind = "rename"
    BY <1>1, <1>3, <1>5, SlotAssumption DEF HandShown
<1> QED BY <1>2, <1>4, <1>5

\* What t may put: nothing, or its new name
Putting(t, e, d, a, v) ==
    \/ v = e[d][a] \/ v = NoEntry
    \/ op[t].pc = "write" /\ d = Home[op[t].th] /\ v = [name |-> op[t].m, file |-> op[t].file]

\* The directories of t show e1, the others what they did.
Republished(t, e1) ==
    /\ \A c \in Directory : Works(op[t], c) => \A k \in Class : InSync(e1[c], shown'[c], k)
    /\ \A c \in Directory : ~Works(op[t], c) => shown'[c] = shown[c]

\* Where a rename's names lag, the entries they have are of its file.
LEMMA LagsOwn ==
    ASSUME RoomInv, NEW e, Known(e), NEW t \in Thread, NEW c \in Directory, NEW k \in Class, Lags(op[t], c, k),
           NEW b \in Position, e[c][b] # NoEntry, Fold[e[c][b].name] = k
    PROVE  e[c][b].file = op[t].file
<1>1. PICK o : o = op[t]
    OBVIOUS
<1>2. /\ o.kind = "rename" /\ o.pc \in {"alloc", "write", "trim"}
      /\ <<c, k>> \in {<<Home[o.h], Fold[o.n]>>, <<Home[o.th], Fold[o.m]>>}
    BY <1>1 DEF Lags, Names
<1>3. (c = Home[o.h] /\ k = Fold[o.n]) \/ (c = Home[o.th] /\ k = Fold[o.m])
    BY <1>2
<1>4. HandName(e, o) /\ HandFile(e, o) /\ NoTwins(e)
    BY <1>1, Zenon DEF Known, Sound, Hand
<1>5. CASE c = Home[o.h] /\ k = Fold[o.n]
    BY <1>1, <1>2, <1>4, <1>5, Zenon DEF HandName
<1>6. CASE c = Home[o.th] /\ k = Fold[o.m]
  <2>1. o.pc = "trim"
      BY <1>2, <1>4, <1>6 DEF HandName, NoClass
  <2>2. o.at \in Position /\ e[c][o.at] = [name |-> o.m, file |-> o.file] /\ o.file \in File
      BY <1>4, <1>6, <2>1 DEF HandFile
  <2>3. e[c][o.at].name = o.m /\ e[c][o.at].file = o.file /\ e[c][o.at] # NoEntry
      BY <2>2, SlotAssumption DEF NoEntry
  <2>4. b = o.at
      BY <1>4, <1>6, <2>2, <2>3 DEF NoTwins, Distinct
  <2> QED BY <1>1, <2>3, <2>4, Zenon
<1> QED BY <1>3, <1>5, <1>6

\* Only the file of t is new to a name.
LEMMA ShownMoves ==
    ASSUME RoomInv, EndInv', NEW e, Known(e), NEW t \in Thread, NEW d \in Directory, NEW a \in Position, NEW v, NEW e1,
           Puts(e, e1, d, a, v), Putting(t, e, d, a, v), Republished(t, e1),
           NEW c \in Directory, NEW k \in Class
    PROVE  shown'[c][k] = shown[c][k] \/ shown'[c][k] \in {NoFile, op[t].file}
<1>1. CASE ~Works(op[t], c)
    BY <1>1 DEF Republished
<1>2. CASE Works(op[t], c) /\ shown'[c][k] \in File
  <2>1. PICK f \in File : f = shown'[c][k]
      BY <1>2
  <2>2. PICK b \in Position : e1[c][b] # NoEntry /\ e1[c][b].file = f /\ Fold[e1[c][b].name] = k
      BY <1>2, <2>1 DEF Republished, InSync
  <2>3. e1[c][b] = IF c = d /\ b = a THEN v ELSE e[c][b]
      BY PutsElse
  <2>4. CASE e1[c][b] = e[c][b]
    <3>1. CASE Lags(op[t], c, k)
      <4>1. e[c][b].file = op[t].file
          BY <2>2, <2>4, <3>1, LagsOwn
      <4> QED BY <2>1, <2>2, <2>4, <4>1
    <3>2. CASE ~Lags(op[t], c, k)
      <4>1. InSync(e[c], shown[c], k)
          BY <1>2, <3>2, OwnSync DEF Known, Sound
      <4> QED BY <2>1, <2>2, <2>4, <4>1 DEF InSync
    <3> QED BY <3>1, <3>2
  <2>5. CASE e1[c][b] # e[c][b]
    <3>1. c = d /\ b = a /\ v = [name |-> op[t].m, file |-> op[t].file]
        BY <2>2, <2>3, <2>5 DEF Putting
    <3> QED BY <2>1, <2>2, <2>3, <3>1
  <2> QED BY <2>4, <2>5
<1>3. shown'[c][k] \in File \cup {NoFile}
    BY DEF EndInv, TypeOK
<1> QED BY <1>1, <1>2, <1>3

\* A call returns.
LEMMA ReturnStep ==
    ASSUME RoomInv, EndInv', errors' = 0, uncleared = {}, uncleared' = {},
           NEW e, Known(e), NEW t \in Thread, Return(t),
           NEW d \in Directory, Works(op[t], d), NEW a \in Position, NEW v, NEW e1,
           Puts(e, e1, d, a, v), Putting(t, e, d, a, v), NoTwins(e1), OneName(e1),
           \A c \in Directory : ~Works(op[t], c) => slots'[c] = slots[c] /\ clusters'[c] = clusters[c],
           \A c \in Directory : Works(op[t], c) => Describes(e1[c], slots'[c], clusters'[c] * PerCluster),
           Opened(e1, open'), \A u \in Thread : u # t => Closed(e1, open', op[u])
    PROVE  After /\ Republished(t, e1)
<1>1. PICK ds : ds = {Home[op[t].h], Home[op[t].th]}
    OBVIOUS
<1>2. ds \subseteq Directory /\ Publish(ds) /\ op' = [op EXCEPT ![t] = Idle] /\ op[t].pc \notin {"idle", "lock"}
    BY <1>1, OpFacts DEF Return, Unlock, Go, RoomInv, Works
<1>3. \A c : Works(op[t], c) <=> c \in ds
    BY <1>1, <1>2 DEF Works
<1>4. \A c \in ds : Describes(e1[c], slots'[c], clusters'[c] * PerCluster)
    BY <1>2, <1>3
<1>5. /\ \A c \in ds : \A k \in Class : InSync(e1[c], shown'[c], k)
      /\ \A c \in Directory : c \notin ds => shown'[c] = shown[c]
      /\ \E K : Cut(reader, reader', K) /\ Steady(K, shown, shown')
    BY <1>2, <1>4, Published
<1>6. Republished(t, e1)
    BY <1>3, <1>5 DEF Republished
<1>7. op'[t] = Idle /\ \A u \in Thread : u # t => op'[u] = op[u]
    BY <1>2, DirTypes DEF RoomInv, EndInv
<1>8. Idle.pc = "idle" /\ Idle.kind = "none" /\ Idle.file = NoFile /\ Names(Idle) = {}
    BY DEF Idle, Names
<1>9. Moves(op[t], e, e1, slots, slots', shown, shown')
  <2>1. ASSUME NEW c \in Directory, ~Works(op[t], c) PROVE e1[c] = e[c] /\ shown'[c] = shown[c] /\ slots'[c] = slots[c]
      BY <1>6, <2>1 DEF Puts, Republished
  <2>2. ASSUME NEW c \in Directory, NEW b \in Position
        PROVE  e1[c][b] = e[c][b] \/ e1[c][b] = NoEntry \/ e1[c][b].file = op[t].file
    <3>1. e1[c][b] = IF c = d /\ b = a THEN v ELSE e[c][b]
        BY PutsElse
    <3> QED BY <3>1 DEF Putting
  <2>3. ASSUME NEW c \in Directory, NEW k \in Class
        PROVE  shown'[c][k] = shown[c][k] \/ shown'[c][k] \in {NoFile, op[t].file}
      BY <1>6, ShownMoves
  <2> QED BY <2>1, <2>2, <2>3 DEF Moves
<1>10. Desc(e1, slots', clusters', op')
  <2>1. ASSUME NEW c \in Directory, Works(op[t], c) PROVE Describes(e1[c], View(slots', op', c), clusters'[c] * PerCluster)
    <3>1. clusters'[c] \in 1 .. MaxClusters
        BY DEF EndInv, TypeOK
    <3>2. op'[t].pc # "trim"
        BY <1>7, <1>8
    <3> QED BY <1>7, <2>1, <3>1, <3>2, ViewAfter
  <2>2. \A c \in Directory : ~Works(op[t], c) => e1[c] = e[c] /\ slots'[c] = slots[c] /\ clusters'[c] = clusters[c]
      BY DEF Puts
  <2>3. Desc(e, slots, clusters, op) /\ op'[t].pc # "trim"
      BY <1>7, <1>8 DEF Known, Sound
  <2> QED BY <1>7, <2>1, <2>2, <2>3, DescStep
<1>11. Sync(e1, op', shown')
  <2>1. ASSUME NEW c \in Directory, NEW k \in Class
        PROVE  \/ InSync(e1[c], shown'[c], k)
               \/ ~Lags(op[t], c, k) /\ e1[c] = e[c] /\ shown'[c] = shown[c]
    <3>1. CASE Works(op[t], c)
        BY <1>6, <3>1 DEF Republished
    <3>2. CASE ~Works(op[t], c)
      <4>1. ~Lags(op[t], c, k)
          BY <1>2, <3>2 DEF Lags, Names, Works
      <4> QED BY <1>9, <3>2, <4>1 DEF Moves
    <3> QED BY <3>1, <3>2
  <2>2. Sync(e, op, shown)
      BY DEF Known, Sound
  <2> QED BY <1>7, <2>1, <2>2, SyncKept
<1>12. Read(e1, shown', reader')
  <2>1. PICK K : Cut(reader, reader', K) /\ Steady(K, shown, shown')
      BY <1>5
  <2>2. ASSUME NEW c \in Directory, NEW b \in Position
        PROVE  \/ e1[c][b] = e[c][b] \/ e1[c][b] = NoEntry
               \/ e1[c][b].file \in K => shown'[c][Fold[e1[c][b].name]] # e1[c][b].file
    <3>1. e1[c][b] = IF c = d /\ b = a THEN v ELSE e[c][b]
        BY PutsElse
    <3>2. CASE e1[c][b] # e[c][b] /\ e1[c][b] # NoEntry /\ e1[c][b].file \in K
      <4>1. c = d /\ b = a /\ op[t].pc = "write" /\ d = Home[op[t].th] /\ v = [name |-> op[t].m, file |-> op[t].file]
          BY <3>1, <3>2 DEF Putting
      <4>2. e1[c][b].name = op[t].m /\ e1[c][b].file = op[t].file /\ op[t].file \in K
          BY <3>1, <3>2, <4>1
      <4>3. shown[c][Fold[op[t].m]] # op[t].file
          BY <4>1, NewNameFree DEF Known, Sound
      <4>4. Fold[op[t].m] \in Class
          BY <4>1, OwnClasses
      <4> QED BY <2>1, <4>2, <4>3, <4>4 DEF Steady
    <3> QED BY <3>2
  <2>3. reader.h # NoHandle => reader.h \in Handle
      BY Kept DEF RoomInv, ReaderType
  <2>4. Read(e, shown, reader) /\ e1 \in Entries
      BY DEF Known, Sound, Puts
  <2> QED BY <2>1, <2>2, <2>3, <2>4, ReadKept
<1>13. Own(t, Idle) /\ Hand(e1, slots', shown', Idle) /\ Closed(e1, open', Idle)
  <2>1. Own(t, Idle)
      BY <1>8 DEF Own
  <2>2. HandFile(e1, Idle) /\ HandName(e1, Idle)
      BY <1>8 DEF HandFile, HandName
  <2>3. HandShown(shown', Idle) /\ HandSlots(e1, slots', Idle)
      BY <1>8 DEF HandShown, HandSlots
  <2>4. Closed(e1, open', Idle)
      BY <1>8 DEF Closed
  <2> QED BY <2>1, <2>2, <2>3, <2>4 DEF Hand
<1>14. e1 \in Entries
    BY DEF Puts
<1>15. After
    BY <1>2, <1>9, <1>10, <1>11, <1>12, <1>13, <1>14, ThreadStep
<1> QED BY <1>6, <1>15

\* Only the names of t are shown otherwise then.
LEMMA ReturnShown ==
    ASSUME RoomInv, EndInv', NEW e, Known(e), NEW t \in Thread, NEW d \in Directory, Works(op[t], d),
           NEW a \in Position, NEW v, NEW e1, Puts(e, e1, d, a, v), Putting(t, e, d, a, v), Republished(t, e1),
           e[d][a] # NoEntry /\ e[d][a] # v => <<d, Fold[e[d][a].name]>> \in Names(op[t])
    PROVE  Agree(Names(op[t]))
<1>1. ASSUME NEW c \in Directory, NEW k \in Class, <<c, k>> \notin Names(op[t]) PROVE shown'[c][k] = shown[c][k]
  <2>1. CASE ~Works(op[t], c)
      BY <2>1 DEF Republished
  <2>2. CASE Works(op[t], c)
    <3>1. InSync(e1[c], shown'[c], k)
        BY <2>2 DEF Republished
    <3>2. InSync(e[c], shown[c], k)
      <4>1. ~Lags(op[t], c, k)
          BY <1>1 DEF Lags
      <4> QED BY <2>2, <4>1, OwnSync DEF Known, Sound
    <3>3. InSync(e1[c], shown[c], k)
      <4>1. CASE c # d
        <5>1. e1[c] = e[c]
            BY <4>1 DEF Puts
        <5> QED BY <3>2, <5>1
      <4>2. CASE c = d
        <5>1. e[d][a] # NoEntry /\ e[d][a] # v => Fold[e[d][a].name] # k
            BY <1>1, <4>2
        <5>2. v # NoEntry /\ e[d][a] # v => Fold[v.name] # k
          <6>1. ASSUME v # NoEntry, e[d][a] # v PROVE Fold[v.name] # k
            <7>1. op[t].pc = "write" /\ d = Home[op[t].th] /\ v = [name |-> op[t].m, file |-> op[t].file]
                BY <6>1 DEF Putting
            <7>2. v.name = op[t].m
                BY <7>1
            <7>3. <<d, Fold[op[t].m]>> \in Names(op[t])
                BY <7>1, OwnClasses
            <7> QED BY <1>1, <4>2, <7>2, <7>3
          <6> QED BY <6>1
        <5>3. InSync(e[d], shown[d], k)
            BY <3>2, <4>2
        <5>4. InSync(e1[d], shown[d], k)
            BY <5>1, <5>2, <5>3, PutsSync
        <5> QED BY <4>2, <5>4
      <4> QED BY <4>1, <4>2
    <3>4. shown[c][k] \in File \cup {NoFile} /\ shown'[c][k] \in File \cup {NoFile}
        BY Kept DEF RoomInv, EndInv, TypeOK
    <3> QED BY <3>1, <3>3, <3>4, SyncFacts
  <2> QED BY <2>1, <2>2
<1> QED BY <1>1 DEF Agree

\* The tables before and after a step
LEMMA ShownTables ==
    ASSUME RoomInv, EndInv' PROVE shown \in Tables /\ shown' \in Tables
    BY Kept DEF RoomInv, EndInv, TypeOK, Tables

\* Nothing put is a put.
LEMMA PutsNothing ==
    ASSUME NEW e \in Entries, NEW d, NEW a PROVE Puts(e, e, d, a, e[d][a])
    BY DEF Puts

\* A directory has a first slot.
LEMMA FirstPosition ==
    ASSUME RoomInv, NEW d \in Directory PROVE 0 \in Position
<1>1. PICK k \in 1 .. MaxClusters : k = clusters[d]
    BY DirTypes DEF RoomInv, EndInv
<1>2. 1 * PerCluster <= k * PerCluster /\ PerCluster > 0 /\ PerCluster \in Nat /\ k * PerCluster \in Nat
  <2>1. 1 \in Nat /\ k \in Nat /\ 1 <= k
      BY <1>1
  <2> QED BY <2>1, SizeFacts
<1>3. 0 \in 0 .. k * PerCluster - 1
    BY <1>2
<1> QED BY <1>1, <1>3, InPosition

\* A call that changed no entry returns.
LEMMA ReturnSame ==
    ASSUME RoomInv, EndInv', errors' = 0, uncleared = {}, uncleared' = {},
           NEW e, Known(e), NEW t \in Thread, op[t].pc \notin {"idle", "lock", "trim"},
           op[t].pc \in {"alloc", "write"} => op[t].kind # "rename", Return(t),
           \A c \in Directory : ~Works(op[t], c) => slots'[c] = slots[c] /\ clusters'[c] = clusters[c],
           \A c \in Directory : Works(op[t], c) => Describes(e[c], slots'[c], clusters'[c] * PerCluster),
           Opened(e, open'), \A u \in Thread : u # t => Closed(e, open', op[u])
    PROVE  After /\ MapStep
<1>1. PICK d : d = Home[op[t].h]
    OBVIOUS
<1>2. d \in Directory /\ Works(op[t], d)
    BY <1>1, OwnView
<1>3. 0 \in Position
    BY <1>2, FirstPosition
<1>4. e \in Entries /\ NoTwins(e) /\ OneName(e)
    BY DEF Known, Sound
<1>5. Puts(e, e, d, 0, e[d][0]) /\ Putting(t, e, d, 0, e[d][0])
    BY <1>4, PutsNothing DEF Putting
<1>6. After /\ Republished(t, e)
    BY <1>2, <1>3, <1>4, <1>5, ReturnStep
<1>7. ASSUME NEW c \in Directory, NEW k \in Class PROVE shown'[c][k] = shown[c][k]
  <2>1. CASE ~Works(op[t], c)
      BY <1>6, <2>1 DEF Republished
  <2>2. CASE Works(op[t], c)
    <3>1. InSync(e[c], shown'[c], k)
        BY <1>6, <2>2 DEF Republished
    <3>2. InSync(e[c], shown[c], k)
      <4>1. ~Lags(op[t], c, k)
          BY DEF Lags
      <4> QED BY <2>2, <4>1, OwnSync DEF Known, Sound
    <3>3. shown[c][k] \in File \cup {NoFile} /\ shown'[c][k] \in File \cup {NoFile}
        BY ShownTables DEF Tables
    <3> QED BY <3>1, <3>2, <3>3, SyncFacts
  <2> QED BY <2>1, <2>2
<1>8. shown' = shown
    BY <1>7, ShownTables, TablesEqual
<1> QED BY <1>6, <1>8 DEF MapStep

\* A file gets a vnode, which knows where its entry is; it is not one that
\* another thread removes or renames.
LEMMA OpensEntry ==
    ASSUME RoomInv, NEW e, Known(e), NEW h \in Handle, NEW d, d = Home[h], NEW n, NEW i, NEW a,
           IsEntry(e, d, n, i, a), MakeVnode(h, slots[d], i)
    PROVE  /\ Opened(e, open')
           /\ \A u \in Thread : (op[u].kind \in {"remove", "rename"} => <<d, Fold[n]>> \notin Names(op[u])) =>
                Closed(e, open', op[u])
<1>1. PICK f, k : f = e[d][a].file /\ k = Fold[n]
    OBVIOUS
<1>2. /\ a \in Position /\ e[d][a] # NoEntry /\ Fold[e[d][a].name] = k /\ EntryStart(slots[d], 0, i) = a
      /\ slots[d][i].file = f /\ f \in File /\ i - a + 1 = Width[e[d][a].name] /\ d \in Directory /\ f # NoFile
    BY <1>1, SlotAssumption DEF IsEntry
<1>3. PICK l : l = [h |-> h, at |-> a, count |-> i - a + 1]
    OBVIOUS
<1>4. open' = [open EXCEPT ![f] = l] /\ open[f] = NoLoc
    BY <1>2, <1>3 DEF MakeVnode
<1>5. open'[f] = l /\ \A g \in File : g # f => open'[g] = open[g]
    BY <1>2, <1>4, DirTypes DEF RoomInv, EndInv
<1>6. OpenAt(e, f, l)
    BY <1>1, <1>2, <1>3 DEF OpenAt
<1>7. e \in Entries /\ OneName(e) /\ Opened(e, open)
    BY DEF Known, Sound
<1>8. Opened(e, open')
    BY <1>5, <1>6, <1>7, OpenedKept
<1>9. ASSUME NEW u \in Thread, op[u].kind \in {"remove", "rename"} => <<d, k>> \notin Names(op[u])
      PROVE  Closed(e, open', op[u])
  <2>1. PICK p, P : p = op[u] /\ P = {<<d, k>>}
      OBVIOUS
  <2>2. p \in Op /\ Shape(p) /\ HandFile(e, p) /\ Closed(e, open, p)
      BY <2>1, OpFacts DEF RoomInv, Known, Sound, Hand
  <2>3. ASSUME p.file = f PROVE FALSE
    <3>1. <<d, k>> \in Names(p)
        BY <1>1, <1>2, <1>7, <2>2, <2>3, HeldName
    <3>2. p.kind # "create"
        BY <1>1, <1>2, <2>2, <2>3 DEF HandFile, Nowhere
    <3>3. p.pc # "idle"
        BY <3>1 DEF Names
    <3>4. p.kind \in {"remove", "rename"}
        BY <2>2, <3>2, <3>3 DEF Shape
    <3> QED BY <1>9, <2>1, <3>1, <3>4
  <2>4. p.file # NoFile /\ open[p.file] = NoLoc => open'[p.file] = NoLoc
      BY <1>5, <2>2, <2>3 DEF Op
  <2>5. ASSUME NEW c \in Directory, NEW b \in Position,
               e[c][b] # NoEntry, open'[e[c][b].file] # NoLoc, open[e[c][b].file] = NoLoc
        PROVE  <<c, Fold[e[c][b].name]>> \in P
    <3>1. e[c][b].file \in File
        BY <1>7, <2>5 DEF Entries, EntryType
    <3>2. e[c][b].file = f
        BY <1>5, <2>5, <3>1
    <3>3. c = d /\ b = a
        BY <1>1, <1>2, <1>7, <2>5, <3>2 DEF OneName
    <3> QED BY <1>2, <2>1, <3>3
  <2>6. p.kind \in {"remove", "rename"} => <<Home[p.h], Fold[p.n]>> \notin P /\ <<Home[p.th], Fold[p.m]>> \notin P
    <3>1. ASSUME p.kind \in {"remove", "rename"} PROVE <<Home[p.h], Fold[p.n]>> \in Names(p) /\ <<Home[p.th], Fold[p.m]>> \in Names(p)
        BY <2>2, <3>1 DEF Names, Shape
    <3> QED BY <1>9, <2>1, <3>1
  <2>7. Closed(e, open', p)
      BY <1>7, <2>2, <2>4, <2>5, <2>6, ClosedKept
  <2> QED BY <2>1, <2>7
<1> QED BY <1>1, <1>8, <1>9

\* fat32_create, fat32_remove and fat32_rename look for the name.
LEMMA FindNameNames ==
    ASSUME RoomInv, EndInv', errors' = 0, uncleared = {}, uncleared' = {},
           NEW e, Known(e), NEW t \in Thread, FindName(t) PROVE After /\ MapStep
<1>1. PICK o \in Op : o = op[t] /\ Shape(o)
    BY OpFacts DEF RoomInv
<1>2. o.pc = "find" /\ slots' = slots /\ clusters' = clusters
    BY <1>1 DEF FindName
<1>3. PICK d : d = Home[o.h]
    OBVIOUS
<1>4. d \in Directory /\ Works(o, d) /\ Describes(e[d], slots[d], clusters[d] * PerCluster) /\ o.h \in Handle
    BY <1>1, <1>2, <1>3, OwnView DEF Shape
<1>5. PICK i \in Position \cup {None} :
        /\ Search(d, o.n, i)
        /\ \/ /\ o.kind = "create" /\ i = None
              /\ Go(t, [o EXCEPT !.pc = "alloc"]) /\ UNCHANGED <<open, reader, shown>>
           \/ /\ o.kind = "create" /\ i # None
              /\ Return(t) /\ (MakeVnode(o.h, slots[d], i) \/ UNCHANGED open)
           \/ /\ o.kind # "create" /\ i # None
              /\ Go(t, [Found(o, slots[d], i) EXCEPT !.pc = IF o.kind = "rename" THEN "find2" ELSE "delete"])
              /\ UNCHANGED <<open, reader, shown>>
           \/ Return(t) /\ UNCHANGED open
    BY <1>1, <1>3 DEF FindName
<1>6. i = None => NoClass(e, d, Fold[o.n])
    BY <1>4, <1>5, SearchFinds
<1>7. i # None => \E a : IsEntry(e, d, o.n, i, a)
    BY <1>4, <1>5, SearchFinds
<1>8. ASSUME Return(t), Opened(e, open'), \A u \in Thread : u # t => Closed(e, open', op[u]) PROVE After /\ MapStep
  <2>1. \A c \in Directory : ~Works(op[t], c) => slots'[c] = slots[c] /\ clusters'[c] = clusters[c]
      BY <1>2
  <2>2. ASSUME NEW c \in Directory, Works(op[t], c) PROVE Describes(e[c], slots'[c], clusters'[c] * PerCluster)
    <3>1. op[t].pc \notin {"idle", "lock", "trim"} /\ c \in {Home[op[t].h], Home[op[t].th]}
        BY <1>1, <1>2, <2>2 DEF Works
    <3> QED BY <1>2, <3>1, OwnView
  <2>3. op[t].pc \notin {"idle", "lock", "trim"} /\ op[t].pc \notin {"alloc", "write"}
      BY <1>1, <1>2
  <2> QED BY <1>8, <2>1, <2>2, <2>3, ReturnSame
<1>9. CASE /\ o.kind = "create" /\ i = None
           /\ Go(t, [o EXCEPT !.pc = "alloc"]) /\ UNCHANGED <<open, reader, shown>>
  <2>1. PICK q : q = [o EXCEPT !.pc = "alloc"]
      OBVIOUS
  <2>2. q.pc = "alloc" /\ SameCall(o, q)
      BY <2>1 DEF Op, SameCall
  <2>3. Own(t, q) /\ Closed(e, open, q)
      BY <1>1, <1>2, <2>2, CallKept
  <2>4. Hand(e, slots, shown, o)
      BY <1>1 DEF Known, Sound
  <2>5. Hand(e, slots, shown, q)
    <3>1. HandFile(e, q)
        BY <1>9, <2>2, <2>4 DEF Hand, HandFile, SameCall
    <3>2. NoClass(e, Home[q.th], Fold[q.m])
        BY <1>1, <1>3, <1>6, <1>9, <2>2 DEF Shape, SameCall
    <3>3. HandName(e, q)
        BY <1>9, <2>2, <3>2 DEF HandName, SameCall
    <3>4. HandShown(shown, q)
        BY <1>9, <2>2, <2>4 DEF Hand, HandShown, SameCall
    <3>5. HandSlots(e, slots, q)
        BY <2>2 DEF HandSlots
    <3> QED BY <3>1, <3>3, <3>4, <3>5 DEF Hand
  <2>6. After
    <3>1. op' = [op EXCEPT ![t] = q] /\ open' = open /\ shown' = shown /\ reader' = reader
        BY <1>9, <2>1 DEF Go
    <3> QED BY <1>1, <1>2, <2>2, <2>3, <2>5, <3>1, StaySame
  <2> QED BY <1>9, <2>6 DEF MapStep
<1>10. CASE /\ o.kind = "create" /\ i # None
            /\ Return(t) /\ (MakeVnode(o.h, slots[d], i) \/ UNCHANGED open)
  <2>1. CASE UNCHANGED open
    <3>1. Opened(e, open') /\ \A u \in Thread : Closed(e, open', op[u])
        BY <2>1 DEF Known, Sound
    <3> QED BY <1>8, <1>10, <3>1
  <2>2. CASE MakeVnode(o.h, slots[d], i)
    <3>1. PICK a : IsEntry(e, d, o.n, i, a)
        BY <1>7, <1>10
    <3>2. /\ Opened(e, open')
          /\ \A u \in Thread : (op[u].kind \in {"remove", "rename"} => <<d, Fold[o.n]>> \notin Names(op[u])) =>
               Closed(e, open', op[u])
        BY <1>3, <1>4, <2>2, <3>1, OpensEntry
    <3>3. ASSUME NEW u \in Thread, u # t PROVE op[u].kind \in {"remove", "rename"} => <<d, Fold[o.n]>> \notin Names(op[u])
      <4>1. <<d, Fold[o.n]>> \in Names(op[t]) /\ Fold[o.n] \in Class
          BY <1>1, <1>2, <1>3, OwnClasses
      <4> QED BY <1>4, <3>3, <4>1 DEF Known, Sound, NamesApart
    <3> QED BY <1>8, <1>10, <3>2, <3>3
  <2> QED BY <1>10, <2>1, <2>2
<1>11. CASE /\ o.kind # "create" /\ i # None
            /\ Go(t, [Found(o, slots[d], i) EXCEPT !.pc = IF o.kind = "rename" THEN "find2" ELSE "delete"])
            /\ UNCHANGED <<open, reader, shown>>
  <2>1. PICK a : IsEntry(e, d, o.n, i, a)
      BY <1>7, <1>11
  <2>2. PICK q, pc, f : /\ pc = (IF o.kind = "rename" THEN "find2" ELSE "delete") /\ f = e[d][a].file
                        /\ q = [Found(o, slots[d], i) EXCEPT !.pc = pc]
      OBVIOUS
  <2>3. EntryStart(slots[d], 0, i) = a /\ slots[d][i].file = f /\ f \in File
      BY <2>1, <2>2 DEF IsEntry
  <2>4. /\ q.pc = pc /\ q.kind = o.kind /\ q.h = o.h /\ q.th = o.th
        /\ q.n = o.n /\ q.m = o.m /\ q.file = f /\ q.at = a /\ q.count = i - a + 1
    <3>1. PICK s : s = slots[d]
        OBVIOUS
    <3>2. EntryStart(s, 0, i) = a /\ s[i].file = f /\ f \in File /\ q = At(Found(o, s, i), pc) /\ o \in Op
        BY <2>2, <2>3, <3>1 DEF At
    <3> QED BY ONLY <3>2, FoundRecord
  <2>5. /\ SameNames(o, q) /\ q.file = e[Home[o.h]][a].file
        /\ (o.kind = "rename" => q.pc = "find2") /\ (o.kind # "rename" => q.pc = "delete")
      BY <1>3, <2>2, <2>4 DEF SameNames
  <2>6. op' = [op EXCEPT ![t] = q] /\ open' = open /\ shown' = shown /\ reader' = reader
      BY <1>11, <2>2 DEF Go
  <2>7. o.kind \in {"remove", "rename"} /\ IsEntry(e, Home[o.h], o.n, i, a)
      BY <1>1, <1>2, <1>3, <1>11, <2>1 DEF Shape
  <2>8. After
    <3>1. /\ o = op[t] /\ o.pc = "find" /\ q.at = a /\ q.count = i - a + 1 /\ slots' = slots /\ clusters' = clusters
        BY <1>1, <1>2, <2>4
    <3>2. Takes(t, e, o, i, a, q)
        BY ONLY <2>5, <2>6, <2>7, <3>1 DEF Takes
    <3> QED BY <3>2, FoundNames
  <2> QED BY <2>6, <2>8 DEF MapStep
<1>12. CASE Return(t) /\ UNCHANGED open
  <2>1. Opened(e, open') /\ \A u \in Thread : Closed(e, open', op[u])
      BY <1>12 DEF Known, Sound
  <2> QED BY <1>8, <1>12, <2>1
<1> QED BY <1>5, <1>9, <1>10, <1>11, <1>12

----------------------------------------------------------------------------
(* The steps of a thread that change a directory *)

\* Vnodes know their entries, and threads have closed files in hand, if only a
\* closed entry changes.
LEMMA PutsOpen ==
    ASSUME RoomInv, NEW e, Known(e), NEW t \in Thread, NEW d, NEW a, NEW v, NEW e1,
           Puts(e, e1, d, a, v), Putting(t, e, d, a, v),
           e[d][a] # NoEntry /\ e[d][a] # v => open[e[d][a].file] = NoLoc
    PROVE  Opened(e1, open) /\ \A u \in Thread : Closed(e1, open, op[u])
<1>1. ASSUME NEW c \in Directory, NEW b \in Position PROVE e1[c][b] = IF c = d /\ b = a THEN v ELSE e[c][b]
    BY PutsElse
<1>2. e1 \in Entries /\ e \in Entries /\ Opened(e, open)
    BY DEF Puts, Known, Sound
<1>3. Opened(e1, open)
  <2>1. \A c \in Directory : \A b \in Position : e[c][b] # NoEntry /\ e1[c][b] # e[c][b] => open[e[c][b].file] = NoLoc
      BY <1>1
  <2> QED BY <1>2, <2>1, OpenedKept
<1>4. ASSUME NEW u \in Thread PROVE Closed(e1, open, op[u])
  <2>1. PICK p, P : p = op[u] /\ P = {}
      OBVIOUS
  <2>2. p \in Op /\ Shape(p) /\ Closed(e, open, p)
      BY <2>1, OpFacts DEF RoomInv, Known, Sound
  <2>3. ASSUME NEW c \in Directory, NEW b \in Position
        PROVE  e1[c][b] = e[c][b] \/ e1[c][b] = NoEntry \/ open[e1[c][b].file] = NoLoc
    <3>1. CASE e1[c][b] # e[c][b] /\ e1[c][b] # NoEntry
      <4>1. v = [name |-> op[t].m, file |-> op[t].file] /\ e1[c][b] = v
          BY <1>1, <3>1 DEF Putting
      <4>2. e1[c][b].file = op[t].file
          BY <4>1
      <4>3. op[t].file # NoFile
        <5>1. e1[c][b].file \in File
            BY <1>2, <3>1 DEF Entries, EntryType
        <5> QED BY <4>2, <5>1, SlotAssumption
      <4>4. Closed(e, open, op[t])
          BY DEF Known, Sound
      <4> QED BY <4>2, <4>3, <4>4 DEF Closed
    <3> QED BY <3>1
  <2>4. \A c \in Directory : \A b \in Position :
            \/ e1[c][b] = e[c][b] \/ e1[c][b] = NoEntry \/ open[e1[c][b].file] = NoLoc
            \/ <<c, Fold[e1[c][b].name]>> \in P
      BY <2>3
  <2>5. \A c \in Directory : \A b \in Position :
            e1[c][b] # NoEntry /\ open[e1[c][b].file] # NoLoc /\ open[e1[c][b].file] = NoLoc =>
                <<c, Fold[e1[c][b].name]>> \in P
      OBVIOUS
  <2>6. p.kind \in {"remove", "rename"} => <<Home[p.h], Fold[p.n]>> \notin P /\ <<Home[p.th], Fold[p.m]>> \notin P
      BY <2>1
  <2>7. p.file # NoFile /\ open[p.file] = NoLoc => open[p.file] = NoLoc
      OBVIOUS
  <2>8. Closed(e1, open, p)
      BY ONLY <1>2, <2>2, <2>4, <2>5, <2>6, <2>7, ClosedKept
  <2> QED BY <2>1, <2>8
<1> QED BY <1>3, <1>4

\* A rename goes on with an entry changed, or any call with none.
LEMMA GoStep ==
    ASSUME RoomInv, EndInv', NEW e, Known(e), NEW t \in Thread, NEW q, op' = [op EXCEPT ![t] = q],
           SameCall(op[t], q), q.pc # "idle", shown' = shown, reader' = reader, open' = open,
           NEW d \in Directory, Works(op[t], d), NEW a \in Position, NEW v, NEW e1,
           Puts(e, e1, d, a, v), Putting(t, e, d, a, v), NoTwins(e1), OneName(e1),
           \A c \in Directory : ~Works(op[t], c) => slots'[c] = slots[c] /\ clusters'[c] = clusters[c],
           \A c \in Directory : Works(op[t], c) => Describes(e1[c], View(slots', op', c), clusters'[c] * PerCluster),
           e[d][a] # NoEntry /\ e[d][a] # v => open[e[d][a].file] = NoLoc /\ <<d, Fold[e[d][a].name]>> \in Names(op[t]),
           (q.kind = "rename" /\ q.pc \in {"alloc", "write", "trim"}) \/ (v = e[d][a] /\ op[t].kind # "rename"),
           Hand(e1, slots', shown, q)
    PROVE  After
<1>1. op'[t] = q /\ \A u \in Thread : u # t => op'[u] = op[u]
    BY DirTypes DEF RoomInv, EndInv
<1>2. op[t].pc \notin {"idle", "lock"} /\ Names(q) = Names(op[t])
    BY DEF Works, Names, SameCall
<1>3. ASSUME NEW c \in Directory, NEW b \in Position PROVE e1[c][b] = IF c = d /\ b = a THEN v ELSE e[c][b]
    BY PutsElse
<1>4. Moves(op[t], e, e1, slots, slots', shown, shown')
  <2>1. ASSUME NEW c \in Directory, ~Works(op[t], c) PROVE e1[c] = e[c] /\ shown'[c] = shown[c] /\ slots'[c] = slots[c]
      BY <2>1 DEF Puts
  <2>2. ASSUME NEW c \in Directory, NEW b \in Position
        PROVE  e1[c][b] = e[c][b] \/ e1[c][b] = NoEntry \/ e1[c][b].file = op[t].file
      BY <1>3 DEF Putting
  <2> QED BY <2>1, <2>2 DEF Moves
<1>5. Desc(e1, slots', clusters', op')
  <2>1. \A c \in Directory : ~Works(op[t], c) => e1[c] = e[c] /\ slots'[c] = slots[c] /\ clusters'[c] = clusters[c]
      BY DEF Puts
  <2>2. Desc(e, slots, clusters, op) /\ op'[t].h = op[t].h
      BY <1>1 DEF Known, Sound, SameCall
  <2>3. \A u \in Thread : u # t => op'[u] = op[u]
      BY <1>1
  <2>4. op'[t].pc = "trim" => op[t].pc \notin {"idle", "lock"} /\ op'[t].h = op[t].h
      BY <1>2, <2>2
  <2>5. \A c \in Directory : Works(op[t], c) => Describes(e1[c], View(slots', op', c), clusters'[c] * PerCluster)
      OBVIOUS
  <2>6. RoomInv /\ t \in Thread
      OBVIOUS
  <2> QED BY ONLY <2>1, <2>2, <2>3, <2>4, <2>5, <2>6, DescStep
<1>6. Sync(e1, op', shown')
  <2>1. ASSUME NEW c \in Directory, NEW k \in Class, ~Lags(op'[t], c, k)
        PROVE  ~Lags(op[t], c, k) /\ (InSync(e[c], shown[c], k) => InSync(e1[c], shown'[c], k))
    <3>1. ~Lags(op[t], c, k)
        BY <1>1, <1>2, <2>1 DEF Lags, SameCall
    <3>2. CASE c # d
      <4>1. e1[c] = e[c] /\ shown'[c] = shown[c]
          BY <3>2 DEF Puts
      <4> QED BY <3>1, <4>1
    <3>3. CASE c = d /\ v = e[d][a]
      <4>1. InSync(e[d], shown[d], k) => InSync(e1[d], shown[d], k)
          BY <3>3, PutsSync
      <4> QED BY <3>1, <3>3, <4>1
    <3>4. CASE c = d /\ <<c, k>> \notin Names(op[t])
      <4>1. e[d][a] # NoEntry /\ e[d][a] # v => Fold[e[d][a].name] # k
          BY <3>4
      <4>2. v # NoEntry /\ e[d][a] # v => Fold[v.name] # k
        <5>1. ASSUME v # NoEntry, e[d][a] # v PROVE Fold[v.name] # k
          <6>1. op[t].pc = "write" /\ d = Home[op[t].th] /\ v = [name |-> op[t].m, file |-> op[t].file]
              BY <5>1, Zenon DEF Putting
          <6>2. v.name = op[t].m
              BY <6>1, Zenon
          <6>3. <<d, Fold[op[t].m]>> \in Names(op[t])
              BY <6>1, OwnClasses
          <6> QED BY <3>4, <6>2, <6>3
        <5> QED BY <5>1
      <4>3. d \in Directory /\ a \in Position /\ Puts(e, e1, d, a, v)
          OBVIOUS
      <4>4. InSync(e[d], shown[d], k) => InSync(e1[d], shown[d], k)
          BY ONLY <4>1, <4>2, <4>3, PutsSync, Zenon
      <4> QED BY <3>1, <3>4, <4>4
    <3>5. v = e[d][a] \/ <<c, k>> \notin Names(op[t])
      <4>1. ~Lags(q, c, k)
          BY <1>1, <2>1
      <4>2. (q.kind = "rename" /\ q.pc \in {"alloc", "write", "trim"}) => <<c, k>> \notin Names(q)
          BY <4>1 DEF Lags
      <4> QED BY <1>2, <4>2
    <3> QED BY <3>2, <3>3, <3>4, <3>5
  <2>2. Sync(e, op, shown) /\ t \in Thread
      BY DEF Known, Sound
  <2>3. \A c \in Directory : \A k \in Class : ~Lags(op'[t], c, k) =>
           \/ InSync(e1[c], shown'[c], k)
           \/ ~Lags(op[t], c, k) /\ e1[c] = e[c] /\ shown'[c] = shown[c]
           \/ ~Lags(op[t], c, k) /\ (InSync(e[c], shown[c], k) => InSync(e1[c], shown'[c], k))
      BY ONLY <2>1, Zenon
  <2>4. \A u \in Thread : u # t => op'[u] = op[u]
      BY <1>1
  <2> QED BY ONLY <2>2, <2>3, <2>4, SyncKept
<1>7. Opened(e1, open') /\ \A u \in Thread : Closed(e1, open', op[u])
  <2>1. e[d][a] # NoEntry /\ e[d][a] # v => open[e[d][a].file] = NoLoc
      OBVIOUS
  <2>2. Opened(e1, open) /\ \A u \in Thread : Closed(e1, open, op[u])
      BY <2>1, PutsOpen
  <2> QED BY <2>2
<1>8. Read(e1, shown', reader')
  <2>1. ASSUME NEW c \in Directory, NEW b \in Position
        PROVE  e1[c][b] = e[c][b] \/ e1[c][b] = NoEntry \/ shown[c][Fold[e1[c][b].name]] # e1[c][b].file
    <3>1. CASE e1[c][b] # e[c][b] /\ e1[c][b] # NoEntry
      <4>1. c = d /\ b = a /\ e1[c][b] = v /\ op[t].pc = "write" /\ d = Home[op[t].th] /\ v = [name |-> op[t].m, file |-> op[t].file]
          BY <1>3, <3>1, Zenon DEF Putting
      <4>2. e1[c][b].name = op[t].m /\ e1[c][b].file = op[t].file
          BY ONLY <4>1
      <4>3. shown[c][Fold[op[t].m]] # op[t].file
          BY <4>1, NewNameFree DEF Known, Sound
      <4> QED BY <4>2, <4>3
    <3> QED BY <3>1
  <2>2. Read(e, shown, reader) /\ e1 \in Entries /\ reader \in ReaderType
      BY Kept DEF Known, Sound, Puts, RoomInv
  <2> QED BY <2>1, <2>2, ReadSame
<1>9. Own(t, q) /\ Closed(e1, open', q)
  <2>1. Own(t, q)
      BY <1>2, CallKept
  <2>2. Closed(e1, open', op[t])
      BY <1>7
  <2> QED BY <2>1, <2>2 DEF Closed, SameCall
<1>10. e1 \in Entries /\ Hand(e1, slots', shown', q)
    BY DEF Puts
<1> QED BY <1>4, <1>5, <1>6, <1>7, <1>8, <1>9, <1>10, ThreadStep

\* The w slots of directory d from a on are those of an entry, or free.
Room(e, d, a, w) ==
    \/ e[d][a] # NoEntry /\ w = Width[e[d][a].name]
    \/ \A i \in a .. a + w - 1 : slots[d][i].kind \in {"deleted", "end"}

\* Of free slots no entry starts at the first.
LEMMA RoomEmpty ==
    ASSUME RoomInv, NEW d \in Directory, NEW e, Describes(e[d], slots[d], clusters[d] * PerCluster), NEW a \in Position,
           NEW w \in Nat, w > 0, \A i \in a .. a + w - 1 : slots[d][i].kind \in {"deleted", "end"}
    PROVE  e[d][a] = NoEntry /\ Apart(e[d], a, w)
<1>1. PICK s, k, lim, x : s = slots[d] /\ k = clusters[d] /\ lim = k * PerCluster /\ x = e[d]
    OBVIOUS
<1>2. k \in 1 .. MaxClusters
    BY <1>1, DirTypes DEF RoomInv, EndInv
<1>3. lim \in Nat
    BY <1>1, <1>2, InPosition
<1>4. Describes(x, s, lim) /\ \A i \in a .. a + w - 1 : s[i].kind \notin {"lfn", "short"}
  <2>1. \A i \in a .. a + w - 1 : s[i].kind \in {"deleted", "end"}
      BY <1>1
  <2> QED BY <1>1, <2>1
<1> QED BY <1>1, <1>3, <1>4, FreeApart

\* An entry is put there, or deleted.
LEMMA PutDescribes ==
    ASSUME RoomInv, NEW e \in Entries, NEW d \in Directory, Describes(e[d], slots[d], clusters[d] * PerCluster),
           NEW a \in Position, NEW w \in Nat, w > 0, a + w <= clusters[d] * PerCluster, Room(e, d, a, w),
           NEW v, NEW e1, Puts(e, e1, d, a, v), NEW s1,
           \A i \in Position : i < a \/ a + w <= i => s1[i] = slots[d][i], Holds(s1, a, w, v)
    PROVE  Describes(e1[d], s1, clusters[d] * PerCluster)
<1>1. PICK s, k, lim, x, x1 : s = slots[d] /\ k = clusters[d] /\ lim = k * PerCluster /\ x = e[d] /\ x1 = e1[d]
    OBVIOUS
<1>2. k \in 1 .. MaxClusters
    BY <1>1, DirTypes DEF RoomInv, EndInv
<1>3. lim \in Nat /\ \A i \in 0 .. lim - 1 : i \in Position
    BY <1>1, <1>2, InPosition
<1>4. Describes(x, s, lim) /\ a + w <= lim
    BY <1>1
<1>5. Apart(x, a, w) /\ (x[a] # NoEntry => Width[x[a].name] <= w)
  <2>1. CASE e[d][a] # NoEntry /\ w = Width[e[d][a].name]
      BY <1>1, <1>3, <1>4, <2>1, EntryApart
  <2>2. CASE \A i \in a .. a + w - 1 : slots[d][i].kind \in {"deleted", "end"}
      BY <1>1, <2>2, RoomEmpty
  <2> QED BY <2>1, <2>2 DEF Room
<1>6. Alters(x, x1, a) /\ x1[a] = v
  <2>1. x1 \in [Position -> EntryType]
      BY <1>1 DEF Puts, Entries
  <2> QED BY <1>1, <2>1 DEF Alters, Puts
<1>7. \A i \in Position : i < lim /\ (i < a \/ a + w <= i) => s1[i] = s[i]
    BY <1>1
<1>8. Holds(s1, a, w, x1[a])
    BY <1>6
<1>9. Describes(x1, s1, lim)
    BY ONLY a \in Position, w \in Nat, <1>3, <1>4, <1>5, <1>6, <1>7, <1>8, DescribesPut
<1> QED BY <1>1, <1>9

\* The slots of an entry are deleted.
LEMMA DeleteDescribes ==
    ASSUME RoomInv, NEW e \in Entries, NEW d \in Directory, Describes(e[d], slots[d], clusters[d] * PerCluster),
           NEW a \in Position, NEW w \in Nat, w > 0, a + w <= clusters[d] * PerCluster, Room(e, d, a, w),
           NEW e1, Puts(e, e1, d, a, NoEntry)
    PROVE  Describes(e1[d], Delete(slots[d], a, w), clusters[d] * PerCluster)
<1>1. PICK s1 : s1 = Delete(slots[d], a, w)
    OBVIOUS
<1>2. slots[d] \in Slotted /\ a \in Nat
    BY DirTypes, SizeFacts DEF RoomInv, EndInv
<1>3. \A i \in Position : s1[i] = IF a <= i /\ i < a + w THEN DeletedSlot ELSE slots[d][i]
    BY <1>1, <1>2, DeleteFacts
<1>4. \A i \in Position : i < a \/ a + w <= i => s1[i] = slots[d][i]
  <2>2. \A i \in Position : i \in Nat
      BY SizeFacts
  <2>1. \A i \in Position : i < a \/ a + w <= i => ~(a <= i /\ i < a + w)
      BY ONLY <1>2, <2>2, w \in Nat
  <2> QED BY <1>3, <2>1, Zenon
<1>5. Holds(s1, a, w, NoEntry)
  <2>1. ASSUME NEW i \in a .. a + w - 1 PROVE s1[i].kind = "deleted"
    <3>1. PICK k, lim : k = clusters[d] /\ lim = k * PerCluster
        OBVIOUS
    <3>2. lim \in Nat /\ \A j \in 0 .. lim - 1 : j \in Position
      <4>1. k \in 1 .. MaxClusters
          BY <3>1, DirTypes DEF RoomInv, EndInv
      <4> QED BY <3>1, <4>1, InPosition
    <3>3. a + w <= lim
        BY <3>1
    <3>4. i \in 0 .. lim - 1 /\ a <= i /\ i < a + w
        BY <1>2, <3>2, <3>3
    <3>5. s1[i] = DeletedSlot
        BY <1>3, <3>2, <3>4
    <3> QED BY <3>5 DEF DeletedSlot, EmptySlot
  <2> QED BY <2>1 DEF Holds
<1>6. Describes(e1[d], s1, clusters[d] * PerCluster)
    BY <1>4, <1>5, PutDescribes
<1> QED BY <1>1, <1>6

\* fat32_delete_fdentry_chain goes to its end if no device error is met.
LEMMA DeletesAll ==
    ASSUME RoomInv, errors' = 0, uncleared = {}, NEW a, NEW c, NEW p, Deletes(a, c, p) PROVE p = c
<1>1. ~IOError
    BY Kept DEF RoomInv, IOError
<1> QED BY <1>1 DEF Deletes

\* fat32_remove and fat32_rename delete the entry.
LEMMA DeleteEntryNames ==
    ASSUME RoomInv, EndInv', errors' = 0, uncleared = {}, uncleared' = {},
           NEW e, Known(e), NEW t \in Thread, DeleteEntry(t) PROVE After /\ MapStep
<1>1. PICK o \in Op : o = op[t] /\ Shape(o) /\ Reach(o) /\ o.at \in Nat /\ o.count \in Nat
    BY OpFacts DEF RoomInv
<1>2. o.pc = "delete" /\ clusters' = clusters /\ open' = open
    BY <1>1 DEF DeleteEntry
<1>3. PICK d, k, a, w : d = Home[o.h] /\ k = Fold[o.n] /\ a = o.at /\ w = o.count
    OBVIOUS
<1>4. d \in Directory /\ Works(o, d) /\ Describes(e[d], slots[d], clusters[d] * PerCluster)
    BY <1>1, <1>2, <1>3, OwnView
<1>5. PICK p \in 0 .. o.count :
        /\ Deletes(o.at, o.count, p)
        /\ slots' = [slots EXCEPT ![d] = Delete(slots[d], o.at, p)]
        /\ IF o.kind = "rename" /\ p = o.count
           THEN Go(t, [o EXCEPT !.pc = "alloc"]) /\ UNCHANGED <<lock, reader, shown>>
           ELSE Return(t)
    BY <1>1, <1>3 DEF DeleteEntry
<1>6. p = o.count
    BY <1>5, DeletesAll
<1>7. slots'[d] = Delete(slots[d], a, w) /\ \A c \in Directory : c # d => slots'[c] = slots[c]
    BY <1>3, <1>4, <1>5, <1>6, DirTypes DEF RoomInv, EndInv
<1>8. Hand(e, slots, shown, o) /\ Closed(e, open, o) /\ e \in Entries /\ NoTwins(e) /\ OneName(e)
    BY <1>1 DEF Known, Sound
<1>9. w \in Nat /\ w > 0 /\ a + w <= clusters[d] * PerCluster /\ a \in Position
  <2>1. PICK lim : lim = clusters[d] * PerCluster
      OBVIOUS
  <2>2. lim \in Nat /\ \A i \in 0 .. lim - 1 : i \in Position
      BY <1>4, <2>1, DirTypes, InPosition DEF RoomInv, EndInv
  <2>3. w \in Nat /\ w > 0 /\ a \in Nat /\ a + w <= lim
      BY <1>1, <1>2, <1>3, <2>1 DEF Reach, Front, Limit
  <2>4. a \in 0 .. lim - 1
      BY <2>2, <2>3
  <2> QED BY <2>1, <2>2, <2>3, <2>4
<1>10. \/ InHand(e, o)
       \/ \A i \in a .. a + w - 1 : slots[d][i].kind \in {"deleted", "end"}
    BY <1>2, <1>3, <1>8 DEF Hand, HandSlots
<1>11. InHand(e, o) => /\ e[d][a] # NoEntry /\ e[d][a].file = o.file /\ Fold[e[d][a].name] = k
                       /\ w = Width[e[d][a].name]
    BY <1>3 DEF InHand
<1>12. Room(e, d, a, w)
    BY <1>10, <1>11 DEF Room
<1>13. ASSUME e[d][a] # NoEntry PROVE InHand(e, o)
    BY <1>4, <1>9, <1>10, <1>13, RoomEmpty
<1>14. PICK e1 : Puts(e, e1, d, a, NoEntry)
    BY <1>4, <1>8, <1>9, PutsOne DEF EntryType
<1>15. Describes(e1[d], slots'[d], clusters'[d] * PerCluster)
    BY <1>2, <1>4, <1>7, <1>8, <1>9, <1>12, <1>14, DeleteDescribes
<1>16. Putting(t, e, d, a, NoEntry) /\ NoTwins(e1) /\ OneName(e1) /\ e1 \in Entries
  <2>1. NoTwins(e1)
      BY <1>4, <1>8, <1>9, <1>14, PutsTwins
  <2>2. OneName(e1)
      BY <1>4, <1>8, <1>9, <1>14, PutsOneName
  <2> QED BY <1>14, <2>1, <2>2 DEF Putting, Puts
<1>17. ASSUME NEW c \in Directory, NEW b \in Position PROVE e1[c][b] = IF c = d /\ b = a THEN NoEntry ELSE e[c][b]
    BY <1>14, PutsElse
<1>18. e[d][a] # NoEntry /\ e[d][a] # NoEntry => open[e[d][a].file] = NoLoc /\ <<d, Fold[e[d][a].name]>> \in Names(op[t])
  <2>1. ASSUME e[d][a] # NoEntry PROVE open[e[d][a].file] = NoLoc /\ <<d, Fold[e[d][a].name]>> \in Names(op[t])
    <3>1. e[d][a].file = o.file /\ Fold[e[d][a].name] = k
        BY <1>11, <1>13, <2>1
    <3>2. o.file # NoFile
        BY <1>2, <1>8, SlotAssumption DEF Hand, HandFile
    <3>3. open[o.file] = NoLoc
        BY <1>8, <3>2 DEF Closed
    <3>4. <<d, k>> \in Names(op[t])
        BY <1>1, <1>2, <1>3, OwnClasses
    <3> QED BY <3>1, <3>3, <3>4
  <2> QED BY <2>1
<1>19. \A c \in Directory : ~Works(op[t], c) => slots'[c] = slots[c] /\ clusters'[c] = clusters[c]
    BY <1>1, <1>2, <1>4, <1>7
<1>20. ASSUME NEW c \in Directory, Works(op[t], c) PROVE Describes(e1[c], slots'[c], clusters'[c] * PerCluster)
  <2>1. CASE c # d
    <3>1. e1[c] = e[c] /\ slots'[c] = slots[c] /\ clusters'[c] = clusters[c]
        BY <1>2, <1>7, <1>14, <2>1 DEF Puts
    <3>2. op[t].pc \notin {"idle", "lock", "trim"} /\ c \in {Home[op[t].h], Home[op[t].th]}
        BY <1>1, <1>2, <1>20 DEF Works
    <3> QED BY <3>1, <3>2, OwnView
  <2> QED BY <1>15, <2>1
<1>21. CASE o.kind # "rename"
  <2>1. o.kind = "remove" /\ Return(t) /\ o.h = o.th /\ o.n = o.m
      BY <1>1, <1>2, <1>5, <1>21 DEF Shape
  <2>2. e[d][a] # NoEntry /\ e[d][a] # NoEntry => open[e[d][a].file] = NoLoc
      BY <1>18
  <2>3. Opened(e1, open) /\ \A u \in Thread : Closed(e1, open, op[u])
      BY <1>14, <1>16, <2>2, PutsOpen
  <2>4. Opened(e1, open') /\ \A u \in Thread : u # t => Closed(e1, open', op[u])
      BY <1>2, <2>3
  <2>5. Works(op[t], d)
      BY <1>1, <1>4
  <2>6. After /\ Republished(t, e1)
      BY <1>4, <1>9, <1>14, <1>16, <1>19, <1>20, <2>1, <2>4, <2>5, ReturnStep
  <2>7. e[d][a] # NoEntry /\ e[d][a] # NoEntry => <<d, Fold[e[d][a].name]>> \in Names(op[t])
      BY <1>18
  <2>8. Agree(Names(op[t]))
      BY <1>4, <1>9, <1>14, <1>16, <2>5, <2>6, <2>7, ReturnShown
  <2>9. Names(op[t]) = {<<d, k>>} /\ k \in Class
      BY <1>1, <1>2, <1>3, <2>1, OwnClasses DEF Names
  <2>10. InHand(e, o)
      BY <1>2, <1>8, <2>1 DEF Hand, HandFile
  <2>11. \A b \in Position : e1[d][b] # NoEntry => Fold[e1[d][b].name] # k
      BY <1>4, <1>8, <1>9, <1>11, <1>17, <2>10 DEF NoTwins, Distinct
  <2>12. shown'[d][k] = NoFile
    <3>1. InSync(e1[d], shown'[d], k)
        BY <1>4, <2>5, <2>6, <2>9 DEF Republished
    <3>2. shown'[d][k] \in File \cup {NoFile}
        BY <1>4, <2>9, ShownTables DEF Tables
    <3> QED BY <2>11, <3>1, <3>2, SyncFacts
  <2>13. Agree({<<d, k>>})
      BY <2>8, <2>9
  <2>14. MapStep
      BY <1>4, <2>9, <2>12, <2>13, ShownTables, MapRemoves
  <2> QED BY <2>6, <2>14
<1>22. CASE o.kind = "rename"
  <2>1. PICK q : q = [o EXCEPT !.pc = "alloc"]
      OBVIOUS
  <2>2. op' = [op EXCEPT ![t] = q] /\ shown' = shown /\ reader' = reader
      BY <1>5, <1>6, <1>22, <2>1 DEF Go
  <2>3. q.pc = "alloc" /\ SameCall(o, q)
      BY <2>1 DEF Op, SameCall
  <2>4. Hand(e1, slots', shown, q)
    <3>1. o.file \in File /\ Nowhere(e1, o.file)
      <4>1. o.file \in File /\ (InHand(e, o) \/ Nowhere(e, o.file)) /\ NoEntry.file = NoFile /\ o.file # NoFile
          BY <1>2, <1>8, SlotAssumption DEF Hand, HandFile, NoEntry
      <4>2. CASE Nowhere(e, o.file)
          BY <1>17, <4>1, <4>2 DEF Nowhere
      <4>3. CASE InHand(e, o)
        <5>1. \A c \in Directory : \A b \in Position : e[c][b].file = o.file => c = d /\ b = a
            BY <1>4, <1>8, <1>9, <1>11, <4>3 DEF OneName
        <5> QED BY <1>17, <4>1, <5>1 DEF Nowhere
      <4> QED BY <4>1, <4>2, <4>3
    <3>2. HandFile(e1, q)
        BY <1>22, <2>3, <3>1 DEF HandFile, SameCall
    <3>3. Home[o.th] \in Directory /\ Home[o.h] \in Directory
        BY <1>1, <1>2, OpFacts DEF RoomInv
    <3>4. HandName(e, o)
        BY <1>8 DEF Hand
    <3>5. NoClass(e1, Home[o.th], Fold[o.m])
      <4>1. NoClass(e, Home[o.th], Fold[o.m])
          BY <1>2, <1>22, <3>4 DEF HandName
      <4> QED BY <1>17, <3>3, <4>1 DEF NoClass
    <3>6. \A b \in Position : e1[d][b] # NoEntry /\ Fold[e1[d][b].name] = k => e1[d][b].file = o.file
      <4>1. \A b \in Position : e[d][b] # NoEntry /\ Fold[e[d][b].name] = k => e[d][b].file = o.file
          BY <1>2, <1>3, <1>22, <3>4 DEF HandName
      <4> QED BY <1>4, <1>17, <4>1
    <3>7. HandName(e1, q)
        BY <1>3, <2>3, <3>5, <3>6 DEF HandName, SameCall
    <3>8. HandShown(shown, q)
        BY <1>2, <1>8, <1>22, <2>3 DEF Hand, HandShown, SameCall
    <3>9. HandSlots(e1, slots', q)
        BY <2>3 DEF HandSlots
    <3> QED BY <3>2, <3>7, <3>8, <3>9 DEF Hand
  <2>5. op'[t] = q /\ \A u \in Thread : u # t => op'[u] = op[u]
      BY <2>2, DirTypes DEF RoomInv, EndInv
  <2>6. ASSUME NEW c \in Directory, Works(op[t], c) PROVE Describes(e1[c], View(slots', op', c), clusters'[c] * PerCluster)
    <3>1. clusters'[c] \in 1 .. MaxClusters /\ op'[t].pc # "trim"
        BY <2>3, <2>5 DEF EndInv, TypeOK
    <3> QED BY <1>20, <2>5, <2>6, <3>1, ViewAfter
  <2>7. Works(op[t], d) /\ SameCall(op[t], q) /\ q.pc # "idle" /\ q.kind = "rename" /\ q.pc \in {"alloc", "write", "trim"}
      BY <1>1, <1>4, <1>22, <2>3 DEF SameCall
  <2>8. After
      BY <1>2, <1>4, <1>9, <1>14, <1>16, <1>18, <1>19, <2>2, <2>4, <2>6, <2>7, GoStep
  <2> QED BY <2>2, <2>8 DEF MapStep
<1> QED BY <1>21, <1>22

\* The room that fat32_alloc_fdentry finds is free when the chain has grown.
LEMMA AllocRoom ==
    ASSUME RoomInv, uncleared = {}, uncleared' = {}, NEW d \in Directory, NEW k, k = clusters[d],
           NEW w \in Nat, w > 0, NEW j \in 1 .. MaxClusters,
           NEW a, a = RoomAt(slots[d], w, k * PerCluster), j = k + Needed(slots[d], w, k * PerCluster), Extend(d, j)
    PROVE  \A x \in a .. a + w - 1 : slots'[d][x].kind \in {"deleted", "end"}
<1>1. /\ slots \in [Directory -> Slotted] /\ slots[d] \in Slotted /\ k \in 1 .. MaxClusters /\ EndInv
    BY DirTypes DEF RoomInv, EndInv
<1>2. PICK lim, to : lim = k * PerCluster /\ to = j * PerCluster
    OBVIOUS
<1>3. lim \in Nat /\ Limit(d) = lim /\ to \in Nat /\ \A i \in 0 .. to - 1 : i \in Position
    BY <1>1, <1>2, InPosition DEF Limit
<1>4. a \in Nat /\ a + w <= to
  <2>1. a \in 0 .. EndAt(slots[d], k * PerCluster) /\ a + w <= to
      BY <1>1, <1>2, RoomFacts
  <2>2. EndAt(slots[d], k * PerCluster) \in 0 .. lim
      BY <1>1, <1>2, EndAtFacts
  <2> QED BY <1>3, <2>1, <2>2
<1>5. ASSUME NEW x \in a .. a + w - 1 PROVE slots'[d][x].kind \in {"deleted", "end"}
  <2>1. x \in Nat /\ a <= x /\ x < a + w /\ x < to /\ x \in Position
    <3>1. x \in Nat /\ a <= x /\ x < a + w /\ x < to
        BY <1>3, <1>4
    <3>2. x \in 0 .. to - 1
        BY <1>3, <3>1
    <3> QED BY <1>3, <3>1, <3>2
  <2>2. CASE x < lim
    <3>1. \A i, y \in 0 .. k * PerCluster - 1 : slots[d][i].kind = "end" /\ i < y => slots[d][y].kind = "end"
        BY <1>2, <1>3 DEF RoomInv, EndInv, NothingAfterEnd
    <3>2. RoomAt(slots[d], w, k * PerCluster) <= x /\ x < RoomAt(slots[d], w, k * PerCluster) + w /\ x < k * PerCluster
        BY <1>2, <2>1, <2>2
    <3>3. slots[d][x].kind \in Free
        BY <1>1, <2>1, <3>1, <3>2, RoomFree
    <3>4. x \in 0 .. Limit(d) - 1
        BY <1>3, <2>1, <2>2
    <3>5. uncleared' = uncleared
        OBVIOUS
    <3>6. slots'[d][x] = slots[d][x]
        BY <1>1, <3>4, <3>5, ExtendKept
    <3> QED BY <3>3, <3>6 DEF Free
  <2>3. CASE x >= lim
    <3>1. x >= Limit(d) /\ x < j * PerCluster
        BY <1>2, <1>3, <2>1, <2>3
    <3>2. slots'[d][x] = EndSlot
        BY <1>1, <2>1, <3>1 DEF Extend, ClearUpTo
    <3> QED BY <3>2 DEF EndSlot, EmptySlot
  <2> QED BY <1>3, <2>1, <2>2, <2>3
<1> QED BY <1>5

\* The entries of a directory are as they were then.
LEMMA ExtendDescribes ==
    ASSUME RoomInv, uncleared = {}, uncleared' = {}, NEW d \in Directory, NEW j \in 1 .. MaxClusters,
           clusters[d] <= j, Extend(d, j), NEW e, Describes(e[d], slots[d], clusters[d] * PerCluster)
    PROVE  /\ Describes(e[d], slots'[d], clusters'[d] * PerCluster)
           /\ \A c \in Directory : c # d => slots'[c] = slots[c] /\ clusters'[c] = clusters[c]
<1>1. PICK k, k1, lim, lim1, s, s1, x : /\ k = clusters[d] /\ k1 = clusters'[d] /\ lim = k * PerCluster
                                        /\ lim1 = k1 * PerCluster /\ s = slots[d] /\ s1 = slots'[d] /\ x = e[d]
    OBVIOUS
<1>2. /\ slots \in [Directory -> Slotted] /\ clusters \in [Directory -> 1 .. MaxClusters] /\ k \in 1 .. MaxClusters
      /\ s \in Slotted /\ EndInv
    BY <1>1, DirTypes DEF RoomInv, EndInv
<1>3. k1 = j
  <2>1. k \in Nat /\ j \in Nat /\ k <= j
      BY <1>1, <1>2
  <2>2. Max({k, j}) = j
      BY <2>1, MaxOfTwo
  <2>3. clusters'[d] = Max({k, j})
      BY <1>1, <1>2 DEF Extend, ClearUpTo
  <2> QED BY <1>1, <2>2, <2>3
<1>4. lim \in Nat /\ lim1 \in Nat /\ lim <= lim1 /\ Limit(d) = lim /\ \A i \in 0 .. lim - 1 : i \in Position
  <2>1. k \in Nat /\ k1 \in Nat /\ k <= k1
      BY <1>1, <1>2, <1>3
  <2>2. k * PerCluster <= k1 * PerCluster
      BY <2>1, SizeFacts
  <2> QED BY <1>1, <1>2, <1>3, <2>2, InPosition DEF Limit
<1>5. \A i \in Position : i < lim => s1[i] = s[i]
  <2>0. uncleared' = uncleared
      OBVIOUS
  <2>1. \A i \in 0 .. Limit(d) - 1 : s1[i] = s[i]
      BY <1>1, <1>2, <2>0, ExtendKept
  <2>2. \A i \in Position : i \in Nat
      BY SizeFacts
  <2> QED BY <1>4, <2>1, <2>2
<1>6. \A i \in Position : lim <= i /\ i < lim1 => s1[i].kind = "end"
  <2>1. ASSUME NEW i \in Position, lim <= i, i < lim1 PROVE s1[i].kind = "end"
    <3>1. i >= Limit(d) /\ i < j * PerCluster
      <4>1. i \in Nat
          BY SizeFacts
      <4> QED BY <1>1, <1>3, <1>4, <2>1, <4>1
    <3>2. s1[i] = EndSlot
        BY <1>1, <1>2, <3>1 DEF Extend, ClearUpTo
    <3> QED BY <3>2 DEF EndSlot, EmptySlot
  <2> QED BY <2>1
<1>7. Describes(x, s, lim)
    BY <1>1
<1>8. Describes(x, s1, lim1)
    BY <1>4, <1>5, <1>6, <1>7, DescribesExtend
<1>9. \A c \in Directory : c # d => slots'[c] = slots[c] /\ clusters'[c] = clusters[c]
    BY <1>2 DEF Extend, ClearUpTo
<1> QED BY <1>1, <1>8, <1>9

\* A rename that has deleted the old name finds no room for the new one.
LEMMA LostRename ==
    ASSUME RoomInv, EndInv', errors' = 0, uncleared = {}, uncleared' = {},
           NEW e, Known(e), NEW t \in Thread, op[t].pc = "alloc", op[t].kind = "rename",
           Return(t), open' = open,
           \A c \in Directory : ~Works(op[t], c) => slots'[c] = slots[c] /\ clusters'[c] = clusters[c],
           \A c \in Directory : Works(op[t], c) => Describes(e[c], slots'[c], clusters'[c] * PerCluster)
    PROVE  After /\ MapStep
<1>1. PICK o : o = op[t]
    OBVIOUS
<1>2. PICK d, k, c, j : d = Home[o.h] /\ k = Fold[o.n] /\ c = Home[o.th] /\ j = Fold[o.m]
    OBVIOUS
<1>3. d \in Directory /\ Works(op[t], d) /\ c \in Directory /\ Works(op[t], c)
    BY <1>1, <1>2, OwnView
<1>4. k \in Class /\ j \in Class /\ Names(op[t]) = {<<d, k>>, <<c, j>>}
    BY <1>1, <1>2, OwnClasses DEF Names
<1>5. e \in Entries /\ NoTwins(e) /\ OneName(e) /\ Opened(e, open') /\ \A u \in Thread : Closed(e, open', op[u])
    BY DEF Known, Sound
<1>6. Puts(e, e, d, 0, e[d][0]) /\ Putting(t, e, d, 0, e[d][0]) /\ 0 \in Position
    BY <1>3, <1>5, PutsNothing, FirstPosition DEF Putting
<1>7. After /\ Republished(t, e)
    BY <1>3, <1>5, <1>6, ReturnStep
<1>8. Agree(Names(op[t]))
    BY <1>3, <1>6, <1>7, ReturnShown
<1>9. HandFile(e, o) /\ HandName(e, o) /\ HandShown(shown, o)
    BY <1>1 DEF Known, Sound, Hand
<1>10. \A a \in Position : e[d][a] # NoEntry => Fold[e[d][a].name] # k
  <2>1. Nowhere(e, o.file)
      BY <1>1, <1>9, Zenon DEF HandFile
  <2>2. \A a \in Position : e[d][a] # NoEntry /\ Fold[e[d][a].name] = k => e[d][a].file = o.file
      BY <1>1, <1>2, <1>9 DEF HandName
  <2> QED BY <1>3, <2>1, <2>2 DEF Nowhere
<1>11. \A a \in Position : e[c][a] # NoEntry => Fold[e[c][a].name] # j
    BY <1>1, <1>2, <1>9 DEF HandName, NoClass
<1>12. shown'[d][k] = NoFile /\ shown'[c][j] = NoFile
  <2>1. InSync(e[d], shown'[d], k) /\ InSync(e[c], shown'[c], j)
      BY <1>3, <1>4, <1>7 DEF Republished
  <2>2. shown'[d][k] \in File \cup {NoFile} /\ shown'[c][j] \in File \cup {NoFile}
      BY <1>3, <1>4, ShownTables DEF Tables
  <2>3. shown'[d][k] = NoFile
      BY <1>10, <2>1, <2>2, SyncFacts
  <2>4. shown'[c][j] = NoFile
      BY <1>11, <2>1, <2>2, SyncFacts
  <2> QED BY <2>3, <2>4
<1>13. shown[c][j] = NoFile
    BY <1>1, <1>2, <1>9 DEF HandShown
<1>14. Agree({<<d, k>>})
  <2>1. ASSUME NEW b \in Directory, NEW l \in Class, <<b, l>> \notin {<<d, k>>} PROVE shown'[b][l] = shown[b][l]
    <3>1. CASE <<b, l>> = <<c, j>>
      <4>1. b = c /\ l = j
          BY <3>1
      <4> QED BY <1>12, <1>13, <4>1
    <3>2. CASE <<b, l>> # <<c, j>>
      <4>1. <<b, l>> \notin Names(op[t])
          BY <1>4, <2>1, <3>2
      <4> QED BY <1>8, <4>1 DEF Agree
    <3> QED BY <3>1, <3>2
  <2> QED BY <2>1 DEF Agree
<1>15. MapStep
    BY <1>3, <1>4, <1>12, <1>14, ShownTables, MapRemoves
<1> QED BY <1>7, <1>15

\* fat32_alloc_fdentry finds room, or there is none.
LEMMA AllocSlotsNames ==
    ASSUME RoomInv, EndInv', errors' = 0, uncleared = {}, uncleared' = {},
           NEW e, Known(e), NEW t \in Thread, AllocSlots(t) PROVE After /\ MapStep
<1>1. PICK o \in Op : o = op[t] /\ Shape(o)
    BY OpFacts DEF RoomInv
<1>2. o.pc = "alloc" /\ open' = open
    BY <1>1 DEF AllocSlots
<1>3. PICK d, w : d = Home[o.th] /\ w = Width[o.m]
    OBVIOUS
<1>4. d \in Directory /\ Works(op[t], d) /\ Describes(e[d], slots[d], clusters[d] * PerCluster) /\ w \in Nat /\ w > 0
    BY <1>1, <1>2, <1>3, OwnView, OpFacts, Zenon DEF RoomInv
<1>5. PICK k \in 1 .. clusters[d] :
        /\ InView(d, k)
        /\ \/ /\ k + Needed(slots[d], w, k * PerCluster) <= MaxClusters
              /\ Extend(d, k + Needed(slots[d], w, k * PerCluster))
              /\ Go(t, [o EXCEPT !.pc = "write", !.at = RoomAt(slots[d], w, k * PerCluster), !.count = w])
              /\ UNCHANGED <<lock, reader, shown>>
           \/ \E got \in clusters[d] - k .. Needed(slots[d], w, k * PerCluster) - 1 :
              k + got <= MaxClusters /\ Extend(d, k + got) /\ Return(t)
    BY <1>1, <1>3, Zenon DEF AllocSlots
<1>6. k = clusters[d] /\ k \in 1 .. MaxClusters /\ MaxClusters \in Nat
    BY <1>4, <1>5, ErrorsGrow, DirTypes, SizeFacts DEF RoomInv, EndInv
<1>7. PICK a, new : a = RoomAt(slots[d], w, k * PerCluster) /\ new = Needed(slots[d], w, k * PerCluster)
    OBVIOUS
<1>8. a \in Nat /\ new \in Nat
  <2>1. slots[d] \in Slotted
      BY <1>4, DirTypes DEF RoomInv, EndInv
  <2>2. a \in 0 .. EndAt(slots[d], k * PerCluster) /\ new \in Nat
      BY <1>4, <1>6, <1>7, <2>1, RoomFacts
  <2>3. EndAt(slots[d], k * PerCluster) \in 0 .. k * PerCluster /\ k * PerCluster \in Nat
      BY <1>6, <2>1, EndAtFacts, InPosition
  <2> QED BY <2>2, <2>3
<1>9. ASSUME NEW j \in 1 .. MaxClusters, k <= j, Extend(d, j)
      PROVE  /\ \A c \in Directory : ~Works(op[t], c) => slots'[c] = slots[c] /\ clusters'[c] = clusters[c]
             /\ \A c \in Directory : Works(op[t], c) => Describes(e[c], slots'[c], clusters'[c] * PerCluster)
  <2>1. /\ Describes(e[d], slots'[d], clusters'[d] * PerCluster)
        /\ \A c \in Directory : c # d => slots'[c] = slots[c] /\ clusters'[c] = clusters[c]
      BY <1>4, <1>6, <1>9, ExtendDescribes
  <2>2. ASSUME NEW c \in Directory, Works(op[t], c), c # d PROVE Describes(e[c], slots'[c], clusters'[c] * PerCluster)
    <3>1. op[t].pc \notin {"idle", "lock", "trim"} /\ c \in {Home[op[t].h], Home[op[t].th]}
        BY <1>1, <1>2, <2>2 DEF Works
    <3>2. Describes(e[c], slots[c], clusters[c] * PerCluster)
        BY <3>1, OwnView
    <3> QED BY <2>1, <2>2, <3>2
  <2> QED BY <1>4, <2>1, <2>2
<1>10. CASE \E got \in clusters[d] - k .. new - 1 : k + got <= MaxClusters /\ Extend(d, k + got) /\ Return(t)
  <2>1. PICK got \in clusters[d] - k .. new - 1 : k + got <= MaxClusters /\ Extend(d, k + got) /\ Return(t)
      BY <1>10
  <2>2. PICK j \in 1 .. MaxClusters : j = k + got /\ k <= j
      BY <1>6, <1>8, <2>1
  <2>3. /\ \A c \in Directory : ~Works(op[t], c) => slots'[c] = slots[c] /\ clusters'[c] = clusters[c]
        /\ \A c \in Directory : Works(op[t], c) => Describes(e[c], slots'[c], clusters'[c] * PerCluster)
      BY <1>9, <2>1, <2>2
  <2>4. Opened(e, open') /\ \A u \in Thread : u # t => Closed(e, open', op[u])
      BY <1>2 DEF Known, Sound
  <2>5. op[t].pc \notin {"idle", "lock", "trim"}
      BY <1>1, <1>2
  <2>6. CASE o.kind # "rename"
    <3>1. op[t].pc \in {"alloc", "write"} => op[t].kind # "rename"
        BY <1>1, <2>6
    <3> QED BY <2>1, <2>3, <2>4, <2>5, <3>1, ReturnSame
  <2>7. CASE o.kind = "rename"
      BY <1>1, <1>2, <2>1, <2>3, <2>7, LostRename
  <2> QED BY <2>6, <2>7
<1>11. CASE /\ k + new <= MaxClusters /\ Extend(d, k + new)
            /\ Go(t, [o EXCEPT !.pc = "write", !.at = a, !.count = w])
            /\ UNCHANGED <<lock, reader, shown>>
  <2>1. PICK j \in 1 .. MaxClusters : j = k + new /\ k <= j
      BY <1>6, <1>8, <1>11
  <2>2. Extend(d, j)
      BY <1>11, <2>1
  <2>3. /\ \A c \in Directory : ~Works(op[t], c) => slots'[c] = slots[c] /\ clusters'[c] = clusters[c]
        /\ \A c \in Directory : Works(op[t], c) => Describes(e[c], slots'[c], clusters'[c] * PerCluster)
      BY <1>9, <2>1, <2>2
  <2>4. PICK q : q = [o EXCEPT !.pc = "write", !.at = a, !.count = w]
      OBVIOUS
  <2>5. op' = [op EXCEPT ![t] = q] /\ shown' = shown /\ reader' = reader
      BY <1>11, <2>4 DEF Go
  <2>6. q.pc = "write" /\ SameCall(o, q) /\ q.at = a /\ q.count = w
      BY <2>4 DEF Op, SameCall
  <2>7. \A x \in a .. a + w - 1 : slots'[d][x].kind \in {"deleted", "end"}
      BY <1>4, <1>6, <1>7, <2>1, <2>2, AllocRoom
  <2>8. Hand(e, slots', shown, q)
    <3>1. Hand(e, slots, shown, o)
        BY <1>1 DEF Known, Sound
    <3>2. HandFile(e, q)
        BY <1>1, <1>2, <2>6, <3>1, Zenon DEF Hand, HandFile, SameCall
    <3>3. HandName(e, q)
        BY <1>1, <1>2, <2>6, <3>1 DEF Hand, HandName, SameCall
    <3>4. HandShown(shown, q)
        BY <1>1, <1>2, <2>6, <3>1 DEF Hand, HandShown, SameCall
    <3>5. HandSlots(e, slots', q)
        BY <1>3, <2>6, <2>7 DEF HandSlots, SameCall
    <3> QED BY <3>2, <3>3, <3>4, <3>5 DEF Hand
  <2>9. op'[t] = q /\ \A u \in Thread : u # t => op'[u] = op[u]
      BY <2>5, DirTypes DEF RoomInv, EndInv
  <2>10. ASSUME NEW c \in Directory, Works(op[t], c) PROVE Describes(e[c], View(slots', op', c), clusters'[c] * PerCluster)
    <3>1. clusters'[c] \in 1 .. MaxClusters /\ op'[t].pc # "trim"
        BY <2>6, <2>9 DEF EndInv, TypeOK
    <3> QED BY <2>3, <2>9, <2>10, <3>1, ViewAfter
  <2>11. e \in Entries /\ NoTwins(e) /\ OneName(e)
      BY DEF Known, Sound
  <2>12. Puts(e, e, d, 0, e[d][0]) /\ Putting(t, e, d, 0, e[d][0]) /\ 0 \in Position
      BY <1>4, <2>11, PutsNothing, FirstPosition DEF Putting
  <2>13. SameCall(op[t], q) /\ q.pc # "idle" /\ (q.kind = "rename" => q.pc \in {"alloc", "write", "trim"})
         /\ (q.kind = op[t].kind)
      BY <1>1, <2>6 DEF SameCall
  <2>14. After
      BY <1>2, <1>4, <2>3, <2>5, <2>8, <2>10, <2>11, <2>12, <2>13, GoStep
  <2> QED BY <2>5, <2>14 DEF MapStep
<1> QED BY <1>5, <1>7, <1>10, <1>11

\* The rename o has put its file's entry at a, where alone the old name may be.
Renamed(o, e1, a) ==
    /\ o.kind = "rename" /\ o.pc \in {"write", "trim"}
    /\ e1[Home[o.th]][a] # NoEntry /\ e1[Home[o.th]][a].name = o.m /\ e1[Home[o.th]][a].file = o.file
    /\ \A b \in Position : e1[Home[o.h]][b] # NoEntry /\ Fold[e1[Home[o.h]][b].name] = Fold[o.n] =>
           Home[o.h] = Home[o.th] /\ b = a

\* A rename has put the new name in place of the old one.
LEMMA RenameShown ==
    ASSUME RoomInv, EndInv', NEW e, Known(e), NEW t \in Thread, NEW e1, Republished(t, e1), Agree(Names(op[t])),
           NEW a \in Position, Renamed(op[t], e1, a)
    PROVE  MapStep
<1>0. PICK o : o = op[t]
    OBVIOUS
<1>1. PICK d, k, c, j, f : d = Home[o.h] /\ k = Fold[o.n] /\ c = Home[o.th] /\ j = Fold[o.m] /\ f = o.file
    BY Zenon
<1>a. /\ o.kind = "rename" /\ o.pc \in {"write", "trim"} /\ o.pc # "idle"
      /\ e1[c][a] # NoEntry /\ e1[c][a].name = o.m /\ e1[c][a].file = f
      /\ \A b \in Position : e1[d][b] # NoEntry /\ Fold[e1[d][b].name] = k => d = c /\ b = a
    BY <1>0, <1>1, Zenon DEF Renamed
<1>2. d \in Directory /\ c \in Directory /\ Works(op[t], d) /\ Works(op[t], c)
    BY <1>0, <1>1, <1>a, OpFacts, Zenon DEF RoomInv, Works
<1>3. k \in Class /\ j \in Class /\ Names(op[t]) = {<<d, k>>, <<c, j>>}
    BY <1>0, <1>1, <1>a, OwnClasses DEF Names
<1>4. HandFile(e, o) /\ HandShown(shown, o)
    BY <1>0 DEF Known, Sound, Hand
<1>5. f \in File /\ f # NoFile
    BY <1>1, <1>a, <1>4, SlotAssumption DEF HandFile
<1>6. /\ \A b \in Directory : \A l \in Class : shown[b][l] = f => b = d /\ l = k
      /\ shown[d][k] \in {f, NoFile} /\ shown[c][j] = NoFile
    BY <1>1, <1>a, <1>4 DEF HandShown
<1>7. InSync(e1[d], shown'[d], k) /\ InSync(e1[c], shown'[c], j)
    BY <1>2, <1>3 DEF Republished
<1>8. shown'[d][k] \in File \cup {NoFile} /\ shown'[c][j] \in File \cup {NoFile} /\ shown \in Tables /\ shown' \in Tables
    BY <1>2, <1>3, ShownTables DEF Tables
<1>9. shown'[c][j] = f
  <2>1. e1[c][a] # NoEntry /\ e1[c][a].file = f /\ Fold[e1[c][a].name] = j
      BY <1>1, <1>a
  <2> QED BY <1>5, <1>7, <1>8, <2>1, SyncFacts
<1>10. ASSUME <<d, k>> # <<c, j>> PROVE shown'[d][k] = NoFile
  <2>1. \A b \in Position : e1[d][b] # NoEntry => Fold[e1[d][b].name] # k
    <3>1. ASSUME NEW b \in Position, e1[d][b] # NoEntry, Fold[e1[d][b].name] = k PROVE FALSE
      <4>1. d = c /\ b = a
          BY <1>a, <3>1
      <4>2. k = j
          BY <1>1, <1>a, <3>1, <4>1
      <4> QED BY <1>10, <4>1, <4>2
    <3> QED BY <3>1
  <2> QED BY <1>7, <1>8, <2>1, SyncFacts
<1>11. CASE <<d, k>> # <<c, j>> /\ shown[d][k] = f
  <2>1. Agree({<<d, k>>, <<c, j>>})
      BY <1>3
  <2> QED BY <1>2, <1>3, <1>5, <1>6, <1>8, <1>9, <1>10, <1>11, <2>1, MapRenames
<1>12. CASE <<d, k>> = <<c, j>> \/ shown[d][k] = NoFile
  <2>1. \A b \in Directory : \A l \in Class : shown[b][l] # f
    <3>1. shown[d][k] = NoFile
      <4>1. <<d, k>> = <<c, j>> => d = c /\ k = j
          OBVIOUS
      <4> QED BY <1>6, <1>12, <4>1
    <3> QED BY <1>5, <1>6, <3>1
  <2>2. Agree({<<c, j>>})
    <3>1. ASSUME NEW b \in Directory, NEW l \in Class, <<b, l>> \notin {<<c, j>>} PROVE shown'[b][l] = shown[b][l]
      <4>1. CASE <<b, l>> = <<d, k>>
        <5>1. b = d /\ l = k /\ <<d, k>> # <<c, j>>
            BY <3>1, <4>1
        <5> QED BY <1>10, <1>12, <5>1
      <4>2. CASE <<b, l>> # <<d, k>>
        <5>1. <<b, l>> \notin Names(op[t])
            BY <1>3, <3>1, <4>2
        <5> QED BY <5>1 DEF Agree
      <4> QED BY <4>1, <4>2
    <3> QED BY <3>1 DEF Agree
  <2> QED BY <1>2, <1>3, <1>5, <1>6, <1>8, <1>9, <2>1, <2>2, MapCreates
<1> QED BY <1>6, <1>11, <1>12

\* fat32_rename deletes what is left of the old entry.
LEMMA TrimEntryNames ==
    ASSUME RoomInv, EndInv', errors' = 0, uncleared = {}, uncleared' = {},
           NEW e, Known(e), NEW t \in Thread, TrimEntry(t) PROVE After /\ MapStep
<1>1. PICK o \in Op : o = op[t] /\ Shape(o) /\ Reach(o) /\ o.at \in Nat /\ o.count \in Nat
    BY OpFacts DEF RoomInv
<1>2. o.pc = "trim" /\ clusters' = clusters /\ open' = open /\ Return(t) /\ o.kind = "rename" /\ SameDir(o)
    BY <1>1 DEF TrimEntry, Shape, Reach
<1>3. PICK d, k, a, b, c : d = Home[o.h] /\ k = Fold[o.n] /\ a = o.at /\ b = o.at + Width[o.m] /\ c = o.count - Width[o.m]
    OBVIOUS
<1>4. d \in Directory /\ d = Home[o.th] /\ Works(op[t], d) /\ Width[o.m] \in Nat
    BY <1>1, <1>2, <1>3, OpFacts DEF RoomInv, Works, SameDir
<1>5. PICK p \in 0 .. c : Deletes(b, c, p) /\ slots' = [slots EXCEPT ![d] = Delete(slots[d], b, p)]
    BY <1>1, <1>3 DEF TrimEntry
<1>6. p = c /\ c \in Nat /\ b \in Nat
    BY <1>1, <1>2, <1>3, <1>4, <1>5, DeletesAll DEF Reach
<1>7. slots'[d] = Delete(slots[d], b, c) /\ \A x \in Directory : x # d => slots'[x] = slots[x]
    BY <1>4, <1>5, <1>6, DirTypes DEF RoomInv, EndInv
<1>8. ASSUME NEW i \in Position PROVE slots'[d][i] = View(slots, op, d)[i]
  <2>1. slots[d] \in Slotted /\ i \in Nat
      BY <1>4, DirTypes, SizeFacts DEF RoomInv, EndInv
  <2>2. slots'[d][i] = IF b <= i /\ i < b + c THEN DeletedSlot ELSE slots[d][i]
    <3>1. PICK s, s1 : s = slots[d] /\ s1 = slots'[d]
        OBVIOUS
    <3>2. s \in Slotted /\ b \in Nat /\ c \in Nat /\ s1 = Delete(s, b, c)
        BY ONLY <1>6, <1>7, <2>1, <3>1
    <3>3. \A j \in Position : Delete(s, b, c)[j] = IF b <= j /\ j < b + c THEN DeletedSlot ELSE s[j]
        BY ONLY <3>2, DeleteFacts
    <3>4. s1[i] = IF b <= i /\ i < b + c THEN DeletedSlot ELSE s[i]
        BY <3>2, <3>3
    <3> QED BY ONLY <3>1, <3>4
  <2>3. View(slots, op, d)[i] = IF Hidden(op, d, i) THEN DeletedSlot ELSE slots[d][i]
      BY DEF View
  <2>4. b + c = o.at + o.count
      BY <1>1, <1>3, <1>4
  <2>5. b <= i /\ i < b + c => Hidden(op, d, i)
      BY <1>1, <1>2, <1>3, <2>4 DEF Hidden
  <2>6. Hidden(op, d, i) => b <= i /\ i < b + c
    <3>1. ASSUME Hidden(op, d, i)
          PROVE  op[t].at + Width[op[t].m] <= i /\ i < op[t].at + op[t].count
        BY <1>4, <3>1, HiddenOwn
    <3> QED BY <1>1, <1>3, <2>4, <3>1
  <2> QED BY <2>2, <2>3, <2>5, <2>6
<1>9. Describes(e[d], slots'[d], clusters'[d] * PerCluster)
  <2>1. PICK lim, s, s1 : lim = clusters[d] * PerCluster /\ s = View(slots, op, d) /\ s1 = slots'[d]
      OBVIOUS
  <2>2. lim \in Nat /\ \A i \in 0 .. lim - 1 : i \in Position
      BY <1>4, <2>1, DirTypes, InPosition DEF RoomInv, EndInv
  <2>3. Describes(e[d], s, lim)
      BY <1>4, <2>1 DEF Known, Sound, Desc
  <2>4. \A i \in Position : i < lim => s1[i] = s[i]
      BY <1>8, <2>1
  <2>5. Describes(e[d], s1, lim)
      BY <2>2, <2>3, <2>4, DescribesSame
  <2> QED BY <1>2, <2>1, <2>5
<1>10. e \in Entries /\ NoTwins(e) /\ OneName(e) /\ Opened(e, open') /\ \A u \in Thread : Closed(e, open', op[u])
    BY <1>2 DEF Known, Sound
<1>11. HandFile(e, o) /\ HandName(e, o)
    BY <1>1 DEF Known, Sound, Hand
<1>12. a \in Position /\ e[d][a] = [name |-> o.m, file |-> o.file] /\ o.file \in File
    BY <1>2, <1>3, <1>4, <1>11 DEF HandFile
<1>13. e[d][a].name = o.m /\ e[d][a].file = o.file /\ e[d][a] # NoEntry
    BY <1>12, SlotAssumption DEF NoEntry
<1>14. Puts(e, e, d, a, e[d][a]) /\ Putting(t, e, d, a, e[d][a])
    BY <1>10, PutsNothing DEF Putting
<1>15. \A x \in Directory : Works(op[t], x) => x = d
    BY <1>1, <1>3, <1>4 DEF Works
<1>16. \A x \in Directory : ~Works(op[t], x) => slots'[x] = slots[x] /\ clusters'[x] = clusters[x]
    BY <1>2, <1>4, <1>7
<1>17. \A x \in Directory : Works(op[t], x) => Describes(e[x], slots'[x], clusters'[x] * PerCluster)
    BY <1>9, <1>15
<1>18. After /\ Republished(t, e)
    BY <1>2, <1>4, <1>10, <1>12, <1>14, <1>16, <1>17, ReturnStep
<1>19. Agree(Names(op[t]))
    BY <1>4, <1>12, <1>14, <1>18, ReturnShown
<1>20. \A x \in Position : e[Home[o.h]][x] # NoEntry /\ Fold[e[Home[o.h]][x].name] = Fold[o.n] =>
               Home[o.h] = Home[o.th] /\ x = a
  <2>1. \A x \in Position : e[d][x] # NoEntry /\ Fold[e[d][x].name] = k => e[d][x].file = o.file
      BY <1>2, <1>3, <1>11 DEF HandName
  <2>2. \A x \in Position : e[d][x].file = o.file => x = a
      BY <1>4, <1>10, <1>12, <1>13 DEF OneName
  <2> QED BY <1>3, <1>4, <2>1, <2>2
<1>21. MapStep
  <2>1. /\ e[Home[o.th]][a] # NoEntry /\ e[Home[o.th]][a].name = o.m /\ e[Home[o.th]][a].file = o.file
        /\ o.kind = "rename" /\ o.pc \in {"write", "trim"}
      BY <1>2, <1>4, <1>13, Zenon
  <2>2. Renamed(op[t], e, a)
      BY ONLY <1>1, <1>20, <2>1 DEF Renamed
  <2> QED BY <1>12, <1>18, <1>19, <2>2, RenameShown
<1> QED BY <1>18, <1>21

\* Slots s1 are s with the entry v at a, and the rest of its w slots deleted.
EntryWritten(s, s1, a, w, v) ==
    \A i \in Position :
        s1[i] = IF a + Width[v.name] <= i /\ i < a + w THEN DeletedSlot
                ELSE Overwrite(s, a, [j \in 0 .. Width[v.name] - 1 |-> EntrySlot(v.name, v.file, j)])[i]

\* The slots of a new entry, with w slots for it of which the last may stay
\* to be deleted
LEMMA WriteHolds ==
    ASSUME RoomInv, NEW d \in Directory, NEW a \in Nat, NEW w \in Nat, NEW v \in EntryType, v # NoEntry, Width[v.name] <= w,
           a + w <= clusters[d] * PerCluster, NEW s1, EntryWritten(slots[d], s1, a, w, v)
    PROVE  /\ \A i \in Position : i < a \/ a + w <= i => s1[i] = slots[d][i]
           /\ Holds(s1, a, w, v)
<1>0. PICK n, f, lim : n = v.name /\ f = v.file /\ lim = clusters[d] * PerCluster /\ n \in Name /\ f \in File
    BY DEF EntryType
<1>1. PICK l, new, s : /\ l = Width[n] /\ new = [i \in 0 .. Width[n] - 1 |-> EntrySlot(n, f, i)]
                       /\ s = Overwrite(slots[d], a, new)
    OBVIOUS
<1>2. l \in Nat /\ l > 0 /\ l <= w /\ slots[d] \in Slotted /\ a + w <= lim
    BY <1>0, <1>1, SizeFacts, DirTypes DEF RoomInv, EndInv
<1>3. DOMAIN new = 0 .. l - 1 /\ \A i \in 0 .. l - 1 : new[i] = EntrySlot(n, f, i) /\ new[i] \in Slot
    BY <1>0, <1>1, EntrySlotFacts
<1>4. \A i \in Position : s[i] = IF a <= i /\ i < a + l THEN new[i - a] ELSE slots[d][i]
  <2>1. PICK x : x = slots[d]
      OBVIOUS
  <2>2. x \in Slotted /\ s = Overwrite(x, a, new) /\ DOMAIN new = 0 .. l - 1
      BY <1>1, <1>2, <1>3, <2>1
  <2>3. \A i \in Position : i - a \in 0 .. l - 1 <=> a <= i /\ i < a + l
      BY <1>2, SizeFacts
  <2>4. \A i \in Position : s[i] = IF a <= i /\ i < a + l THEN new[i - a] ELSE x[i]
      BY ONLY <2>2, <2>3 DEF Overwrite, Slotted
  <2> QED BY ONLY <2>1, <2>4
<1>5. ASSUME NEW i \in Position PROVE i \in Nat /\ s1[i] = IF a + l <= i /\ i < a + w THEN DeletedSlot ELSE s[i]
    BY <1>0, <1>1, SizeFacts DEF EntryWritten
<1>6. ASSUME NEW i \in Position, i < a \/ a + w <= i PROVE s1[i] = slots[d][i]
  <2>1. a \in Nat /\ w \in Nat /\ l \in Nat /\ l <= w /\ i \in Nat
      BY <1>2, <1>5
  <2>2. ~(a + l <= i /\ i < a + w) /\ ~(a <= i /\ i < a + l)
      BY ONLY <1>6, <2>1
  <2> QED BY <1>4, <1>5, <2>2
<1>7. lim \in Nat /\ \A i \in 0 .. lim - 1 : i \in Position
    BY <1>0, DirTypes, InPosition DEF RoomInv, EndInv
<1>8. ASSUME NEW j \in 0 .. l - 1 PROVE s1[a + j] = EntrySlot(n, f, j)
  <2>1. a + j \in 0 .. lim - 1 /\ ~(a + l <= a + j) /\ a <= a + j /\ a + j < a + l /\ (a + j) - a = j
      BY <1>2, <1>7
  <2> QED BY <1>3, <1>4, <1>5, <1>7, <2>1
<1>9. ASSUME NEW i \in a + l .. a + w - 1 PROVE s1[i].kind \notin {"lfn", "short"}
  <2>1. i \in 0 .. lim - 1 /\ a + l <= i /\ i < a + w
      BY <1>2, <1>7
  <2>2. s1[i] = DeletedSlot
      BY <1>5, <1>7, <2>1
  <2> QED BY <2>2 DEF DeletedSlot, EmptySlot
<1>10. Holds(s1, a, w, v)
    BY <1>0, <1>1, <1>2, <1>8, <1>9 DEF Holds
<1> QED BY <1>6, <1>10

\* The call o writes the entry v of the file it creates, at l.
Creates(o, d, a, v, l) ==
    /\ o.pc = "write" /\ o.kind = "create" /\ d = Home[o.th] /\ v = [name |-> o.m, file |-> o.file]
    /\ l = [h |-> o.h, at |-> a, count |-> Width[o.m]]

\* The new file of a call that creates a name gets its vnode.
LEMMA CreateOpens ==
    ASSUME RoomInv, NEW e, Known(e), NEW t \in Thread, NEW d \in Directory, NEW a \in Position, NEW v,
           e[d][a] = NoEntry, NEW e1, Puts(e, e1, d, a, v), OneName(e1), NEW l, Creates(op[t], d, a, v, l),
           open' = [open EXCEPT ![op[t].file] = l]
    PROVE  Opened(e1, open') /\ \A u \in Thread : u # t => Closed(e1, open', op[u])
<1>0. PICK o : o = op[t] /\ Creates(o, d, a, v, l)
    OBVIOUS
<1> USE <1>0 DEF Creates
<1>1. PICK f, P : f = o.file /\ P = {<<d, Fold[o.m]>>}
    OBVIOUS
<1>2. o \in Op /\ Shape(o) /\ o.h = o.th /\ o.h \in Handle
    BY OpFacts DEF RoomInv, Shape
<1>3. f \in File /\ f # NoFile
    BY <1>1, SlotAssumption DEF Known, Sound, Hand, HandFile
<1>4. open'[f] = l /\ \A g \in File : g # f => open'[g] = open[g]
    BY <1>1, <1>3, DirTypes DEF RoomInv, EndInv
<1>5. v # NoEntry /\ v.name = o.m /\ v.file = f
    BY <1>1, <1>3 DEF NoEntry
<1>6. ASSUME NEW c \in Directory, NEW b \in Position PROVE e1[c][b] = IF c = d /\ b = a THEN v ELSE e[c][b]
    BY PutsElse
<1>7. e \in Entries /\ e1 \in Entries /\ Opened(e, open)
    BY DEF Known, Sound, Puts
<1>8. Opened(e1, open')
  <2>1. l.h = o.h /\ l.at = a /\ l.count = Width[o.m]
      OBVIOUS
  <2>2. OpenAt(e1, f, l)
      BY <1>2, <1>5, <1>6, <2>1 DEF OpenAt
  <2>3. \A c \in Directory : \A b \in Position : e[c][b] # NoEntry /\ e1[c][b] # e[c][b] => open[e[c][b].file] = NoLoc
      BY <1>6
  <2>4. \A g \in File : open'[g] = open[g] \/ open'[g] = NoLoc \/ OpenAt(e1, g, open'[g])
      BY <1>4, <2>2
  <2> QED BY ONLY <1>7, <2>3, <2>4, OpenedKept
<1>9. ASSUME NEW u \in Thread, u # t PROVE Closed(e1, open', op[u])
  <2>1. PICK p : p = op[u]
      OBVIOUS
  <2>2. p \in Op /\ Shape(p) /\ Closed(e, open, p)
      BY <2>1, OpFacts DEF RoomInv, Known, Sound
  <2>3. \A c \in Directory : \A b \in Position :
            \/ e1[c][b] = e[c][b] \/ e1[c][b] = NoEntry \/ open'[e1[c][b].file] = NoLoc
            \/ <<c, Fold[e1[c][b].name]>> \in P
      BY <1>1, <1>5, <1>6
  <2>4. ASSUME NEW c \in Directory, NEW b \in Position,
               e1[c][b] # NoEntry, open'[e1[c][b].file] # NoLoc, open[e1[c][b].file] = NoLoc
        PROVE  <<c, Fold[e1[c][b].name]>> \in P
    <3>1. e1[c][b].file \in File
        BY <1>7, <2>4 DEF Entries, EntryType
    <3>2. e1[c][b].file = f
        BY <1>4, <2>4, <3>1
    <3>3. e1[d][a] # NoEntry /\ e1[d][a].file = f
        BY <1>5, <1>6
    <3>4. c = d /\ b = a
        BY <3>2, <3>3 DEF OneName
    <3> QED BY <1>1, <1>5, <1>6, <3>4
  <2>5. p.kind \in {"remove", "rename"} => <<Home[p.h], Fold[p.n]>> \notin P /\ <<Home[p.th], Fold[p.m]>> \notin P
    <3>1. ASSUME p.kind \in {"remove", "rename"}, NEW x \in Names(p), x \in P PROVE FALSE
      <4>1. x = <<d, Fold[o.m]>> /\ x \in Names(op[t]) /\ Fold[o.m] \in Class
          BY <1>1, <3>1, OwnClasses
      <4>2. NamesApart(op)
          BY DEF Known, Sound
      <4>3. op[u].kind = "create"
          BY <1>9, <2>1, <3>1, <4>1, <4>2 DEF NamesApart
      <4> QED BY <2>1, <3>1, <4>3
    <3>2. p.kind \in {"remove", "rename"} => <<Home[p.h], Fold[p.n]>> \in Names(p) /\ <<Home[p.th], Fold[p.m]>> \in Names(p)
        BY <2>2 DEF Names, Shape
    <3> QED BY <3>1, <3>2
  <2>6. p.file # NoFile /\ open[p.file] = NoLoc => open'[p.file] = NoLoc
    <3>1. p.file # NoFile => p.file # f /\ p.file \in File
        BY <1>1, <1>9, <2>1, <2>2 DEF Known, Sound, FilesApart, Op
    <3> QED BY <1>4, <3>1
  <2>7. \A c \in Directory : \A b \in Position :
            e1[c][b] # NoEntry /\ open'[e1[c][b].file] # NoLoc /\ open[e1[c][b].file] = NoLoc =>
              <<c, Fold[e1[c][b].name]>> \in P
      BY <2>4
  <2>8. Closed(e1, open', p)
      BY ONLY <1>7, <2>2, <2>3, <2>5, <2>6, <2>7, ClosedKept
  <2> QED BY <2>1, <2>8
<1> QED BY <1>8, <1>9

\* fat32_create_fdentry writes the entry.
LEMMA WriteEntryNames ==
    ASSUME RoomInv, EndInv', errors' = 0, uncleared = {}, uncleared' = {},
           NEW e, Known(e), NEW t \in Thread, WriteEntry(t) PROVE After /\ MapStep
<1>1. PICK o \in Op : o = op[t] /\ Shape(o) /\ Reach(o) /\ o.at \in Nat /\ o.count \in Nat
    BY OpFacts DEF RoomInv
<1>2. o.pc = "write" /\ clusters' = clusters /\ o.m \in Name /\ o.kind \in {"create", "rename"} /\ o.h \in Handle
    BY <1>1 DEF WriteEntry, Shape
<1>3. PICK d, k, a, w, l : d = Home[o.th] /\ k = Fold[o.m] /\ a = o.at /\ w = o.count /\ l = Width[o.m]
    OBVIOUS
<1>4. d \in Directory /\ Works(op[t], d) /\ Describes(e[d], slots[d], clusters[d] * PerCluster) /\ l \in Nat /\ l > 0
    BY <1>1, <1>2, <1>3, OwnView, OpFacts DEF RoomInv
<1>5. /\ slots' = [slots EXCEPT ![d] = Overwrite(slots[d], a, [i \in 0 .. l - 1 |-> EntrySlot(o.m, o.file, i)])]
      /\ open' = IF o.kind = "create" THEN [open EXCEPT ![o.file] = [h |-> o.h, at |-> a, count |-> l]] ELSE open
      /\ IF l < w THEN Go(t, [o EXCEPT !.pc = "trim"]) /\ UNCHANGED <<lock, reader, shown>> ELSE Return(t)
  <2>1. PICK p \in 0 .. l :
            /\ IF p = l THEN UNCHANGED errors ELSE IOError
            /\ slots' = [slots EXCEPT ![d] = Overwrite(slots[d], a, [i \in 0 .. p - 1 |-> EntrySlot(o.m, o.file, i)])]
            /\ open' = IF o.kind = "create" /\ p = l
                       THEN [open EXCEPT ![o.file] = [h |-> o.h, at |-> a, count |-> l]]
                       ELSE open
            /\ IF p = l /\ l < w
               THEN Go(t, [o EXCEPT !.pc = "trim"]) /\ UNCHANGED <<lock, reader, shown>>
               ELSE Return(t)
      BY <1>1, <1>3, Zenon DEF WriteEntry
  <2>2. p = l
    <3>1. ~IOError
        BY Kept DEF RoomInv, IOError
    <3> QED BY <2>1, <3>1
  <2> QED BY <2>1, <2>2
<1>6. PICK s1 : s1 = Overwrite(slots[d], a, [i \in 0 .. l - 1 |-> EntrySlot(o.m, o.file, i)])
    OBVIOUS
<1>7. slots'[d] = s1 /\ \A c \in Directory : c # d => slots'[c] = slots[c]
    BY <1>4, <1>5, <1>6, DirTypes DEF RoomInv, EndInv
<1>8. Hand(e, slots, shown, o) /\ Closed(e, open, o) /\ e \in Entries /\ NoTwins(e) /\ OneName(e)
    BY <1>1 DEF Known, Sound
<1>9. o.file \in File /\ o.file # NoFile /\ open[o.file] = NoLoc
  <2>1. o.file \in File
      BY <1>2, <1>8 DEF Hand, HandFile
  <2> QED BY <1>8, <2>1, SlotAssumption DEF Closed
<1>10. a + w <= clusters[d] * PerCluster /\ a \in Position /\ l <= w /\ a \in Nat /\ w \in Nat /\ w > 0
       /\ (l < w => o.kind = "rename" /\ SameDir(o))
  <2>1. PICK lim : lim = clusters[d] * PerCluster
      OBVIOUS
  <2>2. lim \in Nat /\ \A i \in 0 .. lim - 1 : i \in Position
      BY <1>4, <2>1, DirTypes, InPosition DEF RoomInv, EndInv
  <2>3. /\ a \in Nat /\ w \in Nat /\ a + l <= lim /\ w >= l
        /\ (w > l => a + w <= lim /\ o.kind = "rename" /\ SameDir(o))
      BY <1>1, <1>2, <1>3, <2>1 DEF Reach, Front, Limit
  <2>4. a + w <= lim /\ l <= w /\ w > 0
      BY <1>4, <2>2, <2>3
  <2>5. a \in 0 .. lim - 1
      BY <2>2, <2>3, <2>4
  <2> QED BY <1>4, <2>1, <2>2, <2>3, <2>4, <2>5
<1>11. InHand(e, o) => /\ o.kind = "rename" /\ SameDir(o) /\ d = Home[o.h] /\ e[d][a] # NoEntry /\ e[d][a].file = o.file
                       /\ Fold[e[d][a].name] = Fold[o.n] /\ w = Width[e[d][a].name]
  <2>1. ASSUME InHand(e, o) PROVE ~Nowhere(e, o.file)
    <3>1. Home[o.h] \in Directory
        BY <1>2, SlotAssumption
    <3> QED BY <2>1, <3>1 DEF InHand, Nowhere
  <2>2. ASSUME InHand(e, o) PROVE o.kind = "rename" /\ SameDir(o)
      BY <1>2, <1>8, <2>1, <2>2 DEF Hand, HandFile
  <2> QED BY <1>3, <2>2 DEF InHand, SameDir
<1>12. InHand(e, o) \/ \A i \in a .. a + w - 1 : slots[d][i].kind \in {"deleted", "end"}
    BY <1>2, <1>3, <1>8 DEF Hand, HandSlots
<1>13. Room(e, d, a, w)
    BY <1>11, <1>12 DEF Room
<1>14. e[d][a] # NoEntry => InHand(e, o)
    BY <1>4, <1>10, <1>12, RoomEmpty
<1>15. PICK v : v = [name |-> o.m, file |-> o.file]
    OBVIOUS
<1>16. v \in EntryType /\ v # NoEntry /\ v.name = o.m /\ v.file = o.file
    BY <1>2, <1>9, <1>15 DEF EntryType, NoEntry
<1>17. PICK e1 : Puts(e, e1, d, a, v)
    BY <1>4, <1>8, <1>10, <1>16, PutsOne
<1>18. ASSUME NEW c \in Directory, NEW b \in Position PROVE e1[c][b] = IF c = d /\ b = a THEN v ELSE e[c][b]
    BY <1>17, PutsElse
<1>19. NoClass(e, d, k)
    BY <1>2, <1>3, <1>8 DEF Hand, HandName
<1>20. \A c \in Directory : \A b \in Position : e[c][b].file = o.file => c = d /\ b = a
  <2>1. CASE Nowhere(e, o.file)
      BY <2>1 DEF Nowhere
  <2>2. CASE InHand(e, o)
      BY <1>4, <1>8, <1>10, <1>11, <2>2 DEF OneName
  <2> QED BY <1>2, <1>8, <2>1, <2>2 DEF Hand, HandFile
<1>21. Putting(t, e, d, a, v) /\ NoTwins(e1) /\ OneName(e1) /\ e1 \in Entries
  <2>1. NoTwins(e1)
    <3>1. \A b \in Position : b # a /\ e[d][b] # NoEntry => Fold[e[d][b].name] # Fold[v.name]
        BY <1>3, <1>16, <1>19 DEF NoClass
    <3> QED BY <1>4, <1>8, <1>10, <1>17, <3>1, PutsTwins
  <2>2. OneName(e1)
      BY <1>4, <1>8, <1>10, <1>16, <1>17, <1>20, PutsOneName
  <2>3. Putting(t, e, d, a, v)
      BY <1>1, <1>2, <1>3, <1>15 DEF Putting
  <2> QED BY <1>17, <2>1, <2>2, <2>3 DEF Puts
<1>22. e[d][a] # NoEntry /\ e[d][a] # v => open[e[d][a].file] = NoLoc /\ <<d, Fold[e[d][a].name]>> \in Names(op[t])
  <2>1. ASSUME e[d][a] # NoEntry PROVE open[e[d][a].file] = NoLoc /\ <<d, Fold[e[d][a].name]>> \in Names(op[t])
    <3>1. e[d][a].file = o.file /\ Fold[e[d][a].name] = Fold[o.n] /\ d = Home[o.h]
        BY <1>11, <1>14, <2>1
    <3>2. <<Home[o.h], Fold[o.n]>> \in Names(op[t])
        BY <1>1, <1>2, OwnClasses
    <3> QED BY <1>9, <3>1, <3>2
  <2> QED BY <2>1
<1>23. \A c \in Directory : ~Works(op[t], c) => slots'[c] = slots[c] /\ clusters'[c] = clusters[c]
    BY <1>2, <1>4, <1>7
<1>24. ASSUME NEW c \in Directory, Works(op[t], c), c # d
       PROVE  Describes(e1[c], slots'[c], clusters'[c] * PerCluster)
  <2>1. e1[c] = e[c] /\ slots'[c] = slots[c] /\ clusters'[c] = clusters[c]
      BY <1>2, <1>7, <1>17, <1>24 DEF Puts
  <2>2. op[t].pc \notin {"idle", "lock", "trim"} /\ c \in {Home[op[t].h], Home[op[t].th]}
      BY <1>1, <1>2, <1>24 DEF Works
  <2> QED BY <2>1, <2>2, OwnView
<1>25. ASSUME NEW s2, \A i \in Position : s2[i] = IF a + l <= i /\ i < a + w THEN DeletedSlot ELSE s1[i]
       PROVE  Describes(e1[d], s2, clusters'[d] * PerCluster)
  <2>1. EntryWritten(slots[d], s2, a, w, v)
    <3>1. v.name = o.m /\ v.file = o.file /\ l = Width[o.m]
        BY <1>3, <1>16
    <3> QED BY ONLY <1>6, <1>25, <3>1 DEF EntryWritten
  <2>2. a + w <= clusters[d] * PerCluster /\ Width[v.name] <= w /\ v \in EntryType /\ v # NoEntry
      BY <1>3, <1>10, <1>16
  <2>3. (\A i \in Position : i < a \/ a + w <= i => s2[i] = slots[d][i]) /\ Holds(s2, a, w, v)
      BY <1>4, <1>10, <2>1, <2>2, WriteHolds
  <2>5. Describes(e1[d], s2, clusters[d] * PerCluster)
      BY <1>4, <1>8, <1>10, <1>13, <1>17, <2>3, PutDescribes
  <2> QED BY <1>2, <2>5
<1>26. \A b \in Position : e1[Home[o.h]][b] # NoEntry /\ Fold[e1[Home[o.h]][b].name] = Fold[o.n] /\ o.kind = "rename" =>
               Home[o.h] = Home[o.th] /\ b = a
  <2>1. ASSUME NEW b \in Position, e1[Home[o.h]][b] # NoEntry, Fold[e1[Home[o.h]][b].name] = Fold[o.n], o.kind = "rename"
        PROVE  Home[o.h] = Home[o.th] /\ b = a
    <3>1. PICK c : c = Home[o.h]
        OBVIOUS
    <3>2. c \in Directory
        BY <1>2, <3>1, SlotAssumption
    <3>3. CASE ~(c = d /\ b = a)
      <4>1. e1[c][b] = e[c][b]
          BY <1>18, <3>2, <3>3
      <4>2. e[c][b].file = o.file
          BY <1>2, <1>8, <2>1, <3>1, <4>1 DEF Hand, HandName
      <4> QED BY <1>20, <3>2, <3>3, <4>2
    <3> QED BY <1>3, <3>1, <3>3
  <2> QED BY <2>1
<1>27. CASE l < w
  <2>1. PICK q : q = [o EXCEPT !.pc = "trim"]
      OBVIOUS
  <2>2. op' = [op EXCEPT ![t] = q] /\ shown' = shown /\ reader' = reader /\ o.kind = "rename" /\ SameDir(o) /\ open' = open
      BY <1>5, <1>10, <1>27, <2>1 DEF Go
  <2>3. q.pc = "trim" /\ SameCall(o, q) /\ q.at = a /\ q.count = w
      BY <1>3, <2>1 DEF Op, SameCall
  <2>4. op'[t] = q /\ \A u \in Thread : u # t => op'[u] = op[u]
      BY <2>2, DirTypes DEF RoomInv, EndInv
  <2>5. d = Home[o.h] /\ \A c \in Directory : Works(op[t], c) => c = d
      BY <1>1, <1>3, <2>2 DEF SameDir, Works
  <2>6. Describes(e1[d], View(slots', op', d), clusters'[d] * PerCluster)
    <3>1. ASSUME NEW i \in Position
          PROVE  View(slots', op', d)[i] = IF a + l <= i /\ i < a + w THEN DeletedSlot ELSE s1[i]
      <4>1. View(slots', op', d)[i] = IF Hidden(op', d, i) THEN DeletedSlot ELSE slots'[d][i]
          BY DEF View
      <4>2. op'[t].pc = "trim" /\ Home[op'[t].h] = d /\ op'[t].at + Width[op'[t].m] = a + l /\ op'[t].at + op'[t].count = a + w
          BY <1>3, <2>3, <2>4, <2>5 DEF SameCall
      <4>3. a + l <= i /\ i < a + w => Hidden(op', d, i)
          BY <4>2 DEF Hidden
      <4>4. Hidden(op', d, i) => a + l <= i /\ i < a + w
        <5>1. ASSUME Hidden(op', d, i) PROVE op'[t].at + Width[op'[t].m] <= i /\ i < op'[t].at + op'[t].count
            BY <1>4, <2>4, <5>1, HiddenOwn
        <5> QED BY <4>2, <5>1
      <4> QED BY <1>7, <4>1, <4>3, <4>4
    <3> QED BY <1>25, <3>1
  <2>7. Hand(e1, slots', shown, q)
    <3>1. e1[d][a] = v
        BY <1>4, <1>10, <1>18
    <3>2. HandFile(e1, q)
        BY <1>3, <1>9, <1>10, <1>15, <2>2, <2>3, <3>1 DEF HandFile, SameCall
    <3>3. \A b \in Position : e1[d][b] # NoEntry /\ Fold[e1[d][b].name] = Fold[o.n] => e1[d][b].file = o.file
        BY <1>16, <1>26, <2>2, <2>5, <3>1
    <3>4. HandName(e1, q)
        BY <2>3, <2>5, <3>3 DEF HandName, SameCall
    <3>5. HandShown(shown, q)
        BY <1>2, <1>8, <2>2, <2>3 DEF Hand, HandShown, SameCall
    <3>6. HandSlots(e1, slots', q)
        BY <2>3 DEF HandSlots
    <3> QED BY <3>2, <3>4, <3>5, <3>6 DEF Hand
  <2>8. \A c \in Directory : Works(op[t], c) => Describes(e1[c], View(slots', op', c), clusters'[c] * PerCluster)
      BY <2>5, <2>6
  <2>9. SameCall(op[t], q) /\ q.pc # "idle" /\ q.kind = "rename" /\ q.pc \in {"alloc", "write", "trim"}
      BY <1>1, <2>2, <2>3 DEF SameCall
  <2>10. After
      BY <1>4, <1>10, <1>17, <1>21, <1>22, <1>23, <2>2, <2>7, <2>8, <2>9, GoStep
  <2> QED BY <2>2, <2>10 DEF MapStep
<1>28. CASE ~(l < w)
  <2>1. Return(t) /\ l = w
      BY <1>4, <1>5, <1>10, <1>28
  <2>2. Describes(e1[d], slots'[d], clusters'[d] * PerCluster)
    <3>1. ASSUME NEW i \in Position PROVE ~(a + l <= i /\ i < a + w)
      <4>1. i \in Nat /\ a \in Nat /\ l \in Nat /\ l = w
          BY <1>4, <1>10, <2>1, SizeFacts
      <4> QED BY ONLY <4>1
    <3>2. \A i \in Position : s1[i] = IF a + l <= i /\ i < a + w THEN DeletedSlot ELSE s1[i]
        BY ONLY <3>1
    <3> QED BY <1>7, <1>25, <3>2
  <2>3. \A c \in Directory : Works(op[t], c) => Describes(e1[c], slots'[c], clusters'[c] * PerCluster)
      BY <1>24, <2>2
  <2>4. Opened(e1, open') /\ \A u \in Thread : u # t => Closed(e1, open', op[u])
    <3>1. CASE o.kind = "create"
      <4>1. PICK loc : loc = [h |-> o.h, at |-> a, count |-> Width[o.m]]
          OBVIOUS
      <4>2. open' = [open EXCEPT ![o.file] = loc] /\ e[d][a] = NoEntry
          BY <1>3, <1>5, <1>11, <1>14, <3>1, <4>1
      <4>3. Creates(op[t], d, a, v, loc)
          BY <1>1, <1>2, <1>3, <1>15, <3>1, <4>1 DEF Creates
      <4>4. open' = [open EXCEPT ![op[t].file] = loc]
          BY <1>1, <4>2
      <4> QED BY <1>4, <1>10, <1>17, <1>21, <4>2, <4>3, <4>4, CreateOpens
    <3>2. CASE o.kind # "create"
      <4>1. e[d][a] # NoEntry /\ e[d][a] # v => open[e[d][a].file] = NoLoc
          BY <1>22
      <4>2. Opened(e1, open) /\ \A u \in Thread : Closed(e1, open, op[u])
          BY <1>17, <1>21, <4>1, PutsOpen
      <4>3. open' = open
          BY <1>5, <3>2
      <4> QED BY <4>2, <4>3
    <3> QED BY <3>1, <3>2
  <2>5. After /\ Republished(t, e1)
      BY <1>4, <1>10, <1>17, <1>21, <1>23, <2>1, <2>3, <2>4, ReturnStep
  <2>6. e[d][a] # NoEntry /\ e[d][a] # v => <<d, Fold[e[d][a].name]>> \in Names(op[t])
      BY <1>22
  <2>7. Agree(Names(op[t]))
      BY <1>4, <1>10, <1>17, <1>21, <2>5, <2>6, ReturnShown
  <2>8. e1[d][a] = v
      BY <1>4, <1>10, <1>18
  <2>9. CASE o.kind = "rename"
    <3>1. e1[Home[o.th]][a] # NoEntry /\ e1[Home[o.th]][a].name = o.m /\ e1[Home[o.th]][a].file = o.file
        BY <1>3, <1>16, <2>8
    <3>2. \A b \in Position : e1[Home[o.h]][b] # NoEntry /\ Fold[e1[Home[o.h]][b].name] = Fold[o.n] =>
               Home[o.h] = Home[o.th] /\ b = a
        BY <1>26, <2>9, Zenon
    <3>3. Renamed(op[t], e1, a)
        BY ONLY <1>1, <1>2, <2>9, <3>1, <3>2, Zenon DEF Renamed
    <3>4. MapStep
        BY <1>10, <2>5, <2>7, <3>3, RenameShown
    <3> QED BY <2>5, <3>4
  <2>10. CASE o.kind = "create"
    <3>1. Names(op[t]) = {<<d, k>>} /\ k \in Class
        BY <1>1, <1>2, <1>3, <2>10, OwnClasses DEF Names, Shape
    <3>2. shown[d][k] = NoFile
      <4>1. ~Lags(op[t], d, k)
          BY <1>1, <2>10 DEF Lags
      <4>2. InSync(e[d], shown[d], k)
          BY <1>4, <3>1, <4>1, OwnSync DEF Known, Sound
      <4>3. shown[d][k] \in File \cup {NoFile}
          BY <1>4, <3>1, ShownTables DEF Tables
      <4> QED BY <1>19, <4>2, <4>3, SyncFacts DEF NoClass
    <3>3. shown'[d][k] = o.file
      <4>1. InSync(e1[d], shown'[d], k) /\ shown'[d][k] \in File \cup {NoFile}
          BY <1>4, <2>5, <3>1, ShownTables DEF Republished, Tables
      <4>2. e1[d][a] # NoEntry /\ e1[d][a].file = o.file /\ Fold[e1[d][a].name] = k
          BY <1>3, <1>16, <2>8
      <4> QED BY <1>9, <1>10, <4>1, <4>2, SyncFacts
    <3>4. \A c \in Directory : \A j \in Class : shown[c][j] # o.file
        BY <1>8, <2>10 DEF Hand, HandShown, Unnamed
    <3>5. Agree({<<d, k>>})
        BY <2>7, <3>1
    <3>6. MapStep
        BY <1>4, <1>9, <3>1, <3>2, <3>3, <3>4, <3>5, ShownTables, MapCreates
    <3> QED BY <2>5, <3>6
  <2> QED BY <1>2, <2>9, <2>10
<1> QED BY <1>27, <1>28

\* The rename o removes the entry of its new name, at a of its own directory.
Replaces(o, q, e, d, a) ==
    /\ o.pc = "replace" /\ d = Home[o.th] /\ d = Home[o.h] /\ e[d][a] # NoEntry /\ Fold[e[d][a].name] = Fold[o.m]
    /\ SameCall(o, q) /\ q.at = o.at /\ q.count = o.count /\ q.pc \in {"write", "delete"}

\* fat32_rename removes the file that has the new name: what it has in hand
\* then.  It may be the file that it renames.
LEMMA ReplacedHand ==
    ASSUME RoomInv, EndInv', NEW e, Known(e), NEW t \in Thread, NEW d, NEW a \in Position, NEW q, Replaces(op[t], q, e, d, a),
           NEW e1, Puts(e, e1, d, a, NoEntry), Republished(t, e1),
           \A i \in a .. a + Width[e[d][a].name] - 1 : slots'[d][i].kind = "deleted"
    PROVE  Hand(e1, slots', shown', q)
<1>0. PICK o : o = op[t] /\ Replaces(o, q, e, d, a)
    BY Zenon
<1>a. /\ o.pc = "replace" /\ d = Home[o.th] /\ d = Home[o.h] /\ e[d][a] # NoEntry /\ Fold[e[d][a].name] = Fold[o.m]
      /\ SameCall(o, q) /\ q.at = o.at /\ q.count = o.count /\ q.pc \in {"write", "delete"}
    BY <1>0, Zenon DEF Replaces
<1>1. o \in Op /\ Shape(o) /\ d \in Directory /\ o.kind = "rename" /\ SameDir(q) /\ Works(op[t], d)
  <2>1. o \in Op /\ Shape(o) /\ d \in Directory
      BY <1>0, <1>a, OpFacts DEF RoomInv
  <2>2. o.kind = "rename"
      BY <1>a, <2>1 DEF Shape
  <2>3. SameDir(q)
      BY <1>a DEF SameDir, SameCall
  <2>4. Works(op[t], d)
      BY <1>0, <1>a DEF Works
  <2> QED BY <2>1, <2>2, <2>3, <2>4, Zenon
<1>2. Hand(e, slots, shown, o) /\ e \in Entries /\ NoTwins(e) /\ OneName(e) /\ e1 \in Entries
    BY <1>0 DEF Known, Sound, Puts
<1>3. o.file \in File /\ InHand(e, o) /\ o.file # NoFile /\ NoEntry.file = NoFile
    BY <1>2, <1>a, SlotAssumption, Zenon DEF Hand, HandFile, NoEntry
<1>4. /\ o.at \in Position /\ e[d][o.at] # NoEntry /\ e[d][o.at].file = o.file
      /\ Fold[e[d][o.at].name] = Fold[o.n] /\ o.count = Width[e[d][o.at].name]
    BY <1>3, <1>a DEF InHand
<1>5. ASSUME NEW c \in Directory, NEW b \in Position PROVE e1[c][b] = IF c = d /\ b = a THEN NoEntry ELSE e[c][b]
  <2>1. Puts(e, e1, d, a, NoEntry)
      OBVIOUS
  <2> QED BY ONLY <1>5, <2>1, PutsElse
<1>6. a = o.at => Nowhere(e1, o.file)
  <2>1. \A c \in Directory : \A b \in Position : e[c][b].file = o.file => c = d /\ b = o.at
    <3>1. ASSUME NEW c \in Directory, NEW b \in Position, e[c][b].file = o.file PROVE c = d /\ b = o.at
      <4>1. e[d][o.at] # NoEntry /\ e[d][o.at].file = e[c][b].file
          BY <1>4, <3>1, Zenon
      <4> QED BY ONLY <1>1, <1>2, <1>4, <3>1, <4>1 DEF OneName
    <3> QED BY <3>1
  <2> QED BY <1>3, <1>5, <2>1 DEF Nowhere
<1>7. a # o.at => InHand(e1, q)
  <2>1. a # o.at => e1[d][o.at] = e[d][o.at]
      BY <1>1, <1>4, <1>5
  <2> QED BY <1>4, <1>a, <2>1 DEF InHand, SameCall
<1>8. HandFile(e1, q)
    BY <1>1, <1>3, <1>6, <1>7, <1>a DEF HandFile, SameCall
<1>9. NoClass(e1, d, Fold[o.m])
  <2>1. \A b \in Position : e[d][b] # NoEntry /\ Fold[e[d][b].name] = Fold[o.m] => b = a
      BY <1>1, <1>2, <1>a DEF NoTwins, Distinct
  <2> QED BY <1>1, <1>5, <2>1 DEF NoClass
<1>10. \A b \in Position : e1[d][b] # NoEntry /\ Fold[e1[d][b].name] = Fold[o.n] => e1[d][b].file = o.file
  <2>1. \A b \in Position : e[d][b] # NoEntry /\ Fold[e[d][b].name] = Fold[o.n] => e[d][b].file = o.file
      BY <1>1, <1>2, <1>a, Zenon DEF Hand, HandName
  <2> QED BY <1>1, <1>5, <2>1, Zenon
<1>11. HandName(e1, q)
    BY <1>9, <1>10, <1>a, Zenon DEF HandName, SameCall
<1>12. Fold[o.n] \in Class /\ Fold[o.m] \in Class
    BY <1>0, <1>a, OwnClasses, Zenon
<1>13. ASSUME NEW c \in Directory, NEW k \in Class, shown'[c][k] = o.file PROVE c = d /\ k = Fold[o.n]
  <2>1. HandShown(shown, o)
      BY <1>2 DEF Hand
  <2>2. CASE c = d
    <3>1. InSync(e1[d], shown'[d], k)
        BY <1>1 DEF Republished
    <3>2. PICK b \in Position : e1[d][b] # NoEntry /\ e1[d][b].file = o.file /\ Fold[e1[d][b].name] = k
        BY <1>3, <1>13, <2>2, <3>1 DEF InSync
    <3>3. e1[d][b] = e[d][b]
        BY <1>1, <1>5, <3>2
    <3>4. b = o.at
      <4>1. e[d][o.at] # NoEntry /\ e[d][o.at].file = e[d][b].file
          BY <1>4, <3>2, <3>3
      <4> QED BY ONLY <1>1, <1>2, <1>4, <3>2, <4>1 DEF OneName
    <3> QED BY <1>4, <2>2, <3>2, <3>3, <3>4
  <2>3. CASE c # d
    <3>1. ~Works(op[t], c)
        BY <1>0, <1>a, <2>3 DEF Works
    <3>2. shown[c][k] = o.file
        BY <1>13, <3>1 DEF Republished
    <3> QED BY <1>1, <1>a, <2>1, <3>2, Zenon DEF HandShown
  <2> QED BY <2>2, <2>3
<1>14. shown'[d][Fold[o.n]] \in {o.file, NoFile} /\ shown'[d][Fold[o.m]] = NoFile
  <2>1. InSync(e1[d], shown'[d], Fold[o.n]) /\ InSync(e1[d], shown'[d], Fold[o.m])
      BY <1>1, <1>12 DEF Republished
  <2>2. shown'[d][Fold[o.n]] \in File \cup {NoFile} /\ shown'[d][Fold[o.m]] \in File \cup {NoFile}
      BY <1>1, <1>12, ShownTables DEF Tables
  <2>3. shown'[d][Fold[o.m]] = NoFile
    <3>1. \A b \in Position : e1[d][b] # NoEntry => Fold[e1[d][b].name] # Fold[o.m]
        BY <1>9 DEF NoClass
    <3> QED BY ONLY <2>1, <2>2, <3>1, SyncFacts
  <2>4. shown'[d][Fold[o.n]] \in {o.file, NoFile}
    <3>1. PICK f : f = shown'[d][Fold[o.n]]
        OBVIOUS
    <3>2. CASE f \in File
      <4>1. PICK b \in Position : e1[d][b] # NoEntry /\ e1[d][b].file = f /\ Fold[e1[d][b].name] = Fold[o.n]
          BY ONLY <2>1, <3>1, <3>2 DEF InSync
      <4> QED BY <1>10, <3>1, <4>1
    <3> QED BY <2>2, <3>1, <3>2
  <2> QED BY <2>3, <2>4
<1>15. HandShown(shown', q)
    BY <1>1, <1>13, <1>14, <1>a, Zenon DEF HandShown, SameCall
<1>16. HandSlots(e1, slots', q)
  <2>1. CASE a # o.at
      BY <1>7, <1>a, <2>1 DEF HandSlots
  <2>2. CASE a = o.at
    <3>1. \A i \in q.at .. q.at + q.count - 1 : slots'[d][i].kind = "deleted"
        BY <1>4, <1>a, <2>2, Zenon
    <3> QED BY <1>a, <3>1, Zenon DEF HandSlots, SameCall
  <2> QED BY <2>1, <2>2
<1> QED BY <1>8, <1>11, <1>15, <1>16 DEF Hand

\* fat32_rename removes the entry that has the new name.
LEMMA ReplaceTargetNames ==
    ASSUME RoomInv, EndInv', errors' = 0, uncleared = {}, uncleared' = {},
           NEW e, Known(e), NEW t \in Thread, ReplaceTarget(t) PROVE After /\ MapStep
<1>1. PICK o \in Op : o = op[t] /\ Shape(o)
    BY OpFacts DEF RoomInv
<1>2. o.pc = "replace" /\ clusters' = clusters /\ open' = open /\ o.kind = "rename" /\ lock[o.th] = NoThread
    BY <1>1, Zenon DEF ReplaceTarget, Shape
<1>3. PICK d, k : d = Home[o.th] /\ k = Fold[o.m]
    OBVIOUS
<1>4. d \in Directory /\ Works(op[t], d) /\ Describes(e[d], slots[d], clusters[d] * PerCluster) /\ k \in Class
    BY <1>1, <1>2, <1>3, OwnView, OwnClasses
<1>5. d = Home[o.h]
  <2>1. ~SameDir(o) => lock[o.th] = t
      BY <1>1, <1>2 DEF RoomInv, LockInv
  <2> QED BY <1>2, <1>3, <2>1, SlotAssumption DEF SameDir
<1>6. \A c : Works(op[t], c) <=> c = d
    BY <1>1, <1>2, <1>3, <1>5 DEF Works
<1>7. e \in Entries /\ NoTwins(e) /\ OneName(e) /\ Opened(e, open) /\ Closed(e, open, o) /\ \A u \in Thread : Closed(e, open, op[u])
    BY <1>1 DEF Known, Sound
<1>8. CASE UNCHANGED slots /\ Return(t)
  <2>1. Opened(e, open') /\ \A u \in Thread : u # t => Closed(e, open', op[u])
      BY <1>2, <1>7
  <2>2. op[t].pc \notin {"idle", "lock", "trim"} /\ op[t].pc \notin {"alloc", "write"}
      BY <1>1, <1>2
  <2>3. \A c \in Directory : ~Works(op[t], c) => slots'[c] = slots[c] /\ clusters'[c] = clusters[c]
      BY <1>2, <1>8
  <2>4. \A c \in Directory : Works(op[t], c) => Describes(e[c], slots'[c], clusters'[c] * PerCluster)
      BY <1>2, <1>4, <1>6, <1>8
  <2> QED BY <1>8, <2>1, <2>2, <2>3, <2>4, ReturnSame
<1>9. PICK found, i : found = Matches(slots[d], o.m, Limit(d)) /\ i = Min(found)
    OBVIOUS
<1>10. ASSUME found # {}, NEW p, Deletes(Found(o, slots[d], i).at, Found(o, slots[d], i).count, p),
              slots' = [slots EXCEPT ![d] = Delete(slots[d], Found(o, slots[d], i).at, p)],
              Go(t, [o EXCEPT !.pc = NextOfRename(o)]), Publish({d})
       PROVE  After /\ MapStep
  <2>1. i \in found
    <3>1. \A x \in found : x \in Nat
        BY <1>4, <1>9, FoundFacts, SizeFacts DEF RoomInv
    <3>2. found \subseteq Nat
        BY <3>1
    <3> QED BY <1>9, <1>10, <3>2, MinOf
  <2>2. PICK a : IsEntry(e, d, o.m, i, a)
      BY <1>4, <1>9, <2>1, MatchIsEntry
  <2>3. PICK w : w = Width[e[d][a].name]
      OBVIOUS
  <2>4. /\ a \in Position /\ e[d][a] # NoEntry /\ Fold[e[d][a].name] = k /\ EntryStart(slots[d], 0, i) = a
        /\ i - a + 1 = w /\ slots[d][i].file = e[d][a].file /\ e[d][a].file \in File
      BY <1>3, <2>2, <2>3 DEF IsEntry
  <2>5. Found(o, slots[d], i).at = a /\ Found(o, slots[d], i).count = w
    <3>1. PICK s, f : s = slots[d] /\ f = e[d][a].file
        OBVIOUS
    <3>2. Found(o, s, i) = [o EXCEPT !.file = f, !.at = a, !.count = w]
        BY <2>4, <3>1 DEF Found
    <3> QED BY <3>1, <3>2 DEF Op
  <2>6. p = w
      BY <1>10, <2>5, DeletesAll
  <2>7. slots'[d] = Delete(slots[d], a, w) /\ \A c \in Directory : c # d => slots'[c] = slots[c]
      BY <1>4, <1>10, <2>5, <2>6, DirTypes DEF RoomInv, EndInv
  <2>8. w \in Nat /\ w > 0 /\ a + w <= clusters[d] * PerCluster
    <3>1. e[d][a].name \in Name
        BY <1>4, <1>7, <2>4 DEF Entries, EntryType
    <3> QED BY <1>4, <2>3, <2>4, <3>1, SizeFacts DEF Describes
  <2>9. PICK e1 : Puts(e, e1, d, a, NoEntry)
      BY <1>4, <1>7, <2>4, PutsOne DEF EntryType
  <2>10. Room(e, d, a, w)
      BY <2>3, <2>4 DEF Room
  <2>11. Describes(e1[d], slots'[d], clusters'[d] * PerCluster)
      BY <1>2, <1>4, <1>7, <2>4, <2>7, <2>8, <2>9, <2>10, DeleteDescribes
  <2>12. ASSUME NEW c \in Directory, NEW b \in Position PROVE e1[c][b] = IF c = d /\ b = a THEN NoEntry ELSE e[c][b]
      BY <2>9, PutsElse
  <2>13. NoTwins(e1) /\ OneName(e1) /\ e1 \in Entries /\ Putting(t, e, d, a, NoEntry)
    <3>1. NoTwins(e1)
        BY <1>4, <1>7, <2>4, <2>9, PutsTwins
    <3>2. OneName(e1)
        BY <1>4, <1>7, <2>4, <2>9, PutsOneName
    <3> QED BY <2>9, <3>1, <3>2 DEF Putting, Puts
  <2>14. /\ \A k1 \in Class : InSync(e1[d], shown'[d], k1)
         /\ \A c \in Directory : c # d => shown'[c] = shown[c]
         /\ \E K : Cut(reader, reader', K) /\ Steady(K, shown, shown')
    <3>1. PICK ds : ds = {d}
        OBVIOUS
    <3>2. ds \subseteq Directory /\ Publish(ds) /\ \A c \in ds : Describes(e1[c], slots'[c], clusters'[c] * PerCluster)
        BY <1>4, <1>10, <2>11, <3>1
    <3>3. /\ \A c \in ds : \A k1 \in Class : InSync(e1[c], shown'[c], k1)
          /\ \A c \in Directory : c \notin ds => shown'[c] = shown[c]
          /\ \E K : Cut(reader, reader', K) /\ Steady(K, shown, shown')
        BY <2>13, <3>2, Published
    <3> QED BY <3>1, <3>3
  <2>15. Republished(t, e1)
      BY <1>6, <2>14 DEF Republished
  <2>16. PICK q : q = [o EXCEPT !.pc = NextOfRename(o)]
      OBVIOUS
  <2>17. q.pc \in {"write", "delete"} /\ SameCall(o, q) /\ q.at = o.at /\ q.count = o.count
      BY <2>16 DEF Op, SameCall, NextOfRename
  <2>18. op' = [op EXCEPT ![t] = q]
      BY <1>10, <2>16 DEF Go
  <2>19. op'[t] = q /\ \A u \in Thread : u # t => op'[u] = op[u]
      BY <2>18, DirTypes DEF RoomInv, EndInv
  <2>20. \A j \in a .. a + Width[e[d][a].name] - 1 : slots'[d][j].kind = "deleted"
    <3>1. ASSUME NEW j \in a .. a + w - 1 PROVE slots'[d][j].kind = "deleted"
      <4>1. PICK lim : lim = clusters[d] * PerCluster
          OBVIOUS
      <4>2. lim \in Nat /\ \A x \in 0 .. lim - 1 : x \in Position
          BY <1>4, <4>1, DirTypes, InPosition DEF RoomInv, EndInv
      <4>3. a \in Nat /\ a + w <= lim /\ w \in Nat
          BY <2>4, <2>8, <4>1, SizeFacts
      <4>4. j \in 0 .. lim - 1 /\ a <= j /\ j < a + w
          BY <4>2, <4>3
      <4>5. slots[d] \in Slotted
          BY <1>4, DirTypes DEF RoomInv, EndInv
      <4>6. \A x \in Position : Delete(slots[d], a, w)[x] = IF a <= x /\ x < a + w THEN DeletedSlot ELSE slots[d][x]
          BY ONLY <4>3, <4>5, DeleteFacts
      <4>7. Delete(slots[d], a, w)[j] = DeletedSlot
          BY <4>2, <4>4, <4>6
      <4> QED BY <2>7, <4>7 DEF DeletedSlot, EmptySlot
    <3> QED BY <2>3, <3>1
  <2>21. Hand(e1, slots', shown', q)
    <3>1. Replaces(op[t], q, e, d, a)
        BY <1>1, <1>2, <1>3, <1>5, <2>4, <2>17 DEF Replaces
    <3> QED BY <2>4, <2>9, <2>15, <2>20, <3>1, ReplacedHand
  <2>22. Moves(op[t], e, e1, slots, slots', shown, shown')
    <3>1. \A c \in Directory : ~Works(op[t], c) => e1[c] = e[c] /\ shown'[c] = shown[c] /\ slots'[c] = slots[c]
        BY <1>6, <2>7, <2>9, <2>14 DEF Puts
    <3>2. \A c \in Directory : \A b \in Position : e1[c][b] = e[c][b] \/ e1[c][b] = NoEntry
        BY <2>12
    <3>3. ASSUME NEW c \in Directory, NEW k1 \in Class
          PROVE  shown'[c][k1] = shown[c][k1] \/ shown'[c][k1] \in {NoFile, op[t].file}
        BY <1>4, <2>4, <2>9, <2>13, <2>15, ShownMoves
    <3> QED BY <3>1, <3>2, <3>3 DEF Moves
  <2>23. Desc(e1, slots', clusters', op')
    <3>1. op'[t].pc # "trim" /\ clusters'[d] \in 1 .. MaxClusters
        BY <1>4, <2>17, <2>19 DEF EndInv, TypeOK
    <3>2. Describes(e1[d], View(slots', op', d), clusters'[d] * PerCluster)
        BY <1>4, <2>11, <2>19, <3>1, ViewAfter
    <3>3. \A c \in Directory : Works(op[t], c) => Describes(e1[c], View(slots', op', c), clusters'[c] * PerCluster)
        BY <1>6, <3>2
    <3>4. \A c \in Directory : ~Works(op[t], c) => e1[c] = e[c] /\ slots'[c] = slots[c] /\ clusters'[c] = clusters[c]
        BY <1>2, <1>6, <2>7, <2>9 DEF Puts
    <3>5. Desc(e, slots, clusters, op)
        BY DEF Known, Sound
    <3> QED BY <2>19, <3>1, <3>3, <3>4, <3>5, DescStep
  <2>24. Sync(e1, op', shown')
    <3>1. ASSUME NEW c \in Directory, NEW k1 \in Class
          PROVE  \/ InSync(e1[c], shown'[c], k1)
                 \/ ~Lags(op[t], c, k1) /\ e1[c] = e[c] /\ shown'[c] = shown[c]
      <4>1. ~Lags(op[t], c, k1)
          BY <1>1, <1>2 DEF Lags
      <4>2. CASE c = d
          BY <2>14, <4>2
      <4>3. CASE c # d
          BY <2>9, <2>14, <4>1, <4>3 DEF Puts
      <4> QED BY <4>2, <4>3
    <3>2. Sync(e, op, shown)
        BY DEF Known, Sound
    <3>3. t \in Thread
        OBVIOUS
    <3> QED BY ONLY <2>19, <3>1, <3>2, <3>3, SyncKept
  <2>25. Read(e1, shown', reader')
    <3>1. PICK K : Cut(reader, reader', K) /\ Steady(K, shown, shown')
        BY <2>14
    <3>2. \A c \in Directory : \A b \in Position : e1[c][b] = e[c][b] \/ e1[c][b] = NoEntry
        BY <2>12
    <3>3. reader.h # NoHandle => reader.h \in Handle
        BY Kept DEF RoomInv, ReaderType
    <3>4. Read(e, shown, reader)
        BY DEF Known, Sound
    <3> QED BY <2>13, <3>1, <3>2, <3>3, <3>4, ReadKept
  <2>26. Opened(e1, open') /\ \A u \in Thread : Closed(e1, open', op[u])
    <3>1. open[e[d][a].file] = NoLoc
        BY <1>2, <1>3, <1>7, <2>4, Zenon DEF Closed, Shut
    <3>2. Opened(e1, open) /\ \A u \in Thread : Closed(e1, open, op[u])
        BY <2>9, <2>13, <3>1, PutsOpen
    <3> QED BY <1>2, <3>2, Zenon
  <2>27. Own(t, q) /\ Closed(e1, open', q)
    <3>1. SameCall(op[t], q) /\ op[t].pc # "idle"
        BY <1>1, <1>2, <2>17
    <3>2. Own(t, q)
        BY <3>1, CallKept
    <3>3. Closed(e1, open', op[t])
        BY <2>26
    <3> QED BY <3>1, <3>2, <3>3 DEF Closed, SameCall
  <2>28. After
      BY <2>13, <2>18, <2>21, <2>22, <2>23, <2>24, <2>25, <2>26, <2>27, ThreadStep
  <2>29. shown \in Tables /\ shown' \in Tables
      BY ShownTables
  <2>30. shown'[d][k] = NoFile
    <3>1. \A b \in Position : e1[d][b] # NoEntry => Fold[e1[d][b].name] # k
        BY <1>4, <1>7, <2>4, <2>12 DEF NoTwins, Distinct
    <3>2. InSync(e1[d], shown'[d], k) /\ shown'[d][k] \in File \cup {NoFile}
        BY <1>4, <2>14, <2>29 DEF Tables
    <3> QED BY <3>1, <3>2, SyncFacts
  <2>31. ASSUME NEW c \in Directory, NEW j \in Class, <<c, j>> \notin {<<d, k>>} PROVE shown'[c][j] = shown[c][j]
    <3>1. CASE c = d
      <4>1. j # k
          BY <2>31, <3>1
      <4>2. ~Lags(op[t], d, j)
          BY <1>1, <1>2 DEF Lags
      <4>3. InSync(e[d], shown[d], j)
          BY <1>4, <4>2, OwnSync DEF Known, Sound
      <4>4. InSync(e1[d], shown[d], j)
          BY <1>4, <2>4, <2>9, <4>1, <4>3, PutsSync
      <4>5. InSync(e1[d], shown'[d], j) /\ shown[d][j] \in File \cup {NoFile} /\ shown'[d][j] \in File \cup {NoFile}
          BY <1>4, <2>14, <2>29 DEF Tables
      <4>6. shown'[d][j] = shown[d][j]
          BY <4>4, <4>5, SyncFacts
      <4> QED BY <3>1, <4>6
    <3>2. CASE c # d
        BY <2>14, <3>2
    <3> QED BY <3>1, <3>2
  <2>32. Agree({<<d, k>>})
      BY <2>31 DEF Agree
  <2>33. MapStep
      BY <1>4, <2>29, <2>30, <2>32, MapRemoves, Zenon
  <2> QED BY <2>28, <2>33
<1>11. \/ /\ found # {}
          /\ \E p \in 0 .. Found(o, slots[d], i).count :
                /\ Deletes(Found(o, slots[d], i).at, Found(o, slots[d], i).count, p)
                /\ slots' = [slots EXCEPT ![d] = Delete(slots[d], Found(o, slots[d], i).at, p)]
          /\ Go(t, [o EXCEPT !.pc = NextOfRename(o)]) /\ Publish({d})
       \/ UNCHANGED slots /\ Return(t)
    BY <1>1, <1>3, <1>9, Zenon DEF ReplaceTarget
<1> QED BY <1>8, <1>10, <1>11

----------------------------------------------------------------------------
(* The steps of no thread's operation *)

\* No thread works in the directory of a vnode that may be used without its lock.
LEMMA QuietStill ==
    ASSUME RoomInv, ~AliasedVnodes, NEW h \in Handle, Quiet(h) PROVE Still(Home[h])
<1>1. \A g \in Handle : Home[g] = Home[h] => lock[g] = NoThread
    BY DEF Quiet
<1> QED BY <1>1, UnlockedStill

\* A step that changes only what vnodes and readers know
LEMMA OthersSame ==
    ASSUME NEW e, Known(e), slots' = slots, clusters' = clusters, op' = op, shown' = shown,
           Opened(e, open'), \A u \in Thread : Closed(e, open', op[u]), Read(e, shown, reader')
    PROVE  After
<1>1. Sound(e, slots', clusters', op', open', shown', reader')
    BY DEF Known, Sound
<1> QED BY <1>1 DEF After

\* fat32_lookup gives the file a vnode that knows its entry.
LEMMA LookupNames ==
    ASSUME RoomInv, ~AliasedVnodes, ~RemoveWhileOpen, errors' = 0, uncleared = {}, NEW e, Known(e),
           NEW h \in Handle, NEW n \in Name, Lookup(h, n)
    PROVE  After
<1>1. PICK d \in Directory : d = Home[h]
    BY SlotAssumption
<1>2. PICK i \in Position : Search(d, n, i) /\ MakeVnode(h, slots[d], i)
    BY <1>1 DEF Lookup
<1>3. /\ slots' = slots /\ clusters' = clusters /\ op' = op /\ shown' = shown /\ reader' = reader
      /\ Quiet(h) /\ \A u \in Thread : <<d, Fold[n]>> \notin Names(op[u])
    BY <1>1 DEF Lookup
<1>4. Describes(e[d], slots[d], clusters[d] * PerCluster)
  <2>1. Still(d)
      BY <1>1, <1>3, QuietStill
  <2> QED BY <2>1, StillView DEF Known, Sound
<1>5. i # None
    BY SizeFacts DEF None
<1>6. PICK a : IsEntry(e, d, n, i, a)
    BY <1>2, <1>4, <1>5, SearchFinds
<1>7. Opened(e, open') /\ \A u \in Thread : Closed(e, open', op[u])
    BY <1>1, <1>2, <1>3, <1>6, OpensEntry
<1>8. Read(e, shown, reader')
    BY <1>3 DEF Known, Sound
<1> QED BY <1>3, <1>7, <1>8, OthersSame

\* A vnode whose directory no thread works in has the 8.3 slot of its file.
LEMMA OwnShort ==
    ASSUME RoomInv, ~AliasedVnodes, NEW e, Known(e), NEW f \in File, open[f] # NoLoc, Quiet(open[f].h)
    PROVE  /\ open[f].h \in Handle /\ EntryOf(f) \in Position
           /\ slots[Home[open[f].h]][EntryOf(f)].kind = "short" /\ slots[Home[open[f].h]][EntryOf(f)].file = f
<1>1. PICK l, d, a, z : l = open[f] /\ d = Home[l.h] /\ a = l.at /\ z = EntryOf(f)
    OBVIOUS
<1>2. OpenAt(e, f, l)
    BY <1>1 DEF Known, Sound, Opened
<1>3. /\ l.h \in Handle /\ d \in Directory /\ a \in Position /\ e[d][a] # NoEntry /\ e[d][a].file = f
      /\ l.count = Width[e[d][a].name]
    BY <1>1, <1>2, SlotAssumption DEF OpenAt
<1>4. PICK k \in 1 .. MaxClusters : k = clusters[d]
    BY <1>3, DirTypes DEF RoomInv, EndInv
<1>5. PICK lim : lim = k * PerCluster
    OBVIOUS
<1>6. lim \in Nat /\ \A i \in 0 .. lim - 1 : i \in Position
    BY <1>5, InPosition
<1>7. Describes(e[d], slots[d], lim)
  <2>1. Still(d)
      BY <1>1, <1>3, QuietStill
  <2>2. Describes(e[d], slots[d], clusters[d] * PerCluster)
      BY <1>3, <2>1, StillView, Zenon DEF Known, Sound
  <2> QED BY <1>4, <1>5, <2>2
<1>8. z = Last(e[d], a)
    BY <1>1, <1>3, Zenon DEF EntryOf, Last
<1>9. z \in Nat /\ z < lim /\ Laid(slots[d], a, z, e[d][a].name, e[d][a].file)
    BY <1>3, <1>6, <1>7, <1>8, EntryLaid
<1>10. z \in Position
    BY <1>6, <1>9
<1>11. slots[d][z].kind = "short" /\ slots[d][z].file = f
    BY <1>3, <1>9 DEF Laid
<1> QED BY <1>1, <1>3, <1>10, <1>11

\* fat32_update_fdentry writes to the entry of its file, which keeps its name.
LEMMA SyncMetadataNames ==
    ASSUME RoomInv, ~AliasedVnodes, NEW e, Known(e), NEW f \in File, SyncMetadata(f) PROVE After
<1>1. PICK d, z, x : d = Home[open[f].h] /\ z = EntryOf(f) /\ x = slots[d][z]
    OBVIOUS
<1>2. open[f] # NoLoc /\ Quiet(open[f].h)
    BY DEF SyncMetadata
<1>3. z \in Position /\ x.kind = "short" /\ x.file = f /\ d \in Directory
    BY <1>1, <1>2, OwnShort, SlotAssumption
<1>4. slots \in [Directory -> Slotted] /\ slots[d] \in Slotted /\ x \in Slot
    BY <1>1, <1>3, DirTypes DEF RoomInv, EndInv, Slotted
<1>5. Written(x, f) = x
  <2>1. Written(x, f) = [x EXCEPT !.file = f]
      BY <1>3 DEF Written
  <2> QED BY <1>3, <1>4, <2>1 DEF Slot
<1>6. slots' = slots
  <2>1. slots' = [slots EXCEPT ![d][z] = Written(x, f)]
      BY <1>1 DEF SyncMetadata
  <2>2. [slots[d] EXCEPT ![z] = x] = slots[d]
      BY <1>1, <1>3, <1>4 DEF Slotted
  <2> QED BY <1>3, <1>4, <1>5, <2>1, <2>2
<1>7. clusters' = clusters /\ op' = op /\ shown' = shown /\ open' = open /\ reader' = reader
    BY DEF SyncMetadata
<1> QED BY <1>6, <1>7, OthersSame DEF Known, Sound

\* fat32_inactive: no other file changes.
LEMMA InactiveNames ==
    ASSUME RoomInv, NEW e, Known(e), NEW f \in File, Inactive(f) PROVE After
<1>1. open' = [open EXCEPT ![f] = NoLoc] /\ slots' = slots /\ clusters' = clusters /\ op' = op /\ shown' = shown /\ reader' = reader
    BY DEF Inactive
<1>2. \A g \in File : open'[g] = open[g] \/ open'[g] = NoLoc
    BY <1>1, DirTypes DEF RoomInv, EndInv
<1>3. e \in Entries /\ Opened(e, open) /\ Read(e, shown, reader')
    BY <1>1 DEF Known, Sound
<1>4. Opened(e, open')
    BY <1>2, <1>3, OpenedKept
<1>5. ASSUME NEW u \in Thread PROVE Closed(e, open', op[u])
  <2>1. PICK p : p = op[u]
      OBVIOUS
  <2>2. p \in Op /\ Closed(e, open, p)
      BY <2>1, OpFacts DEF RoomInv, Known, Sound
  <2>3. p.file # NoFile => p.file \in File
      BY <2>2 DEF Op
  <2>4. \A c \in Directory : \A b \in Position : e[c][b] # NoEntry => e[c][b].file \in File
      BY <1>3 DEF Entries, EntryType
  <2>5. ASSUME NEW c \in Directory, NEW k, Shut(e, open, c, k) PROVE Shut(e, open', c, k)
      BY <1>2, <2>4, <2>5 DEF Shut
  <2>6. p.kind \in {"remove", "rename"} => Home[p.h] \in Directory /\ Home[p.th] \in Directory
    <3>1. Shape(p)
        BY <2>1, OpFacts DEF RoomInv
    <3>2. p.kind \in {"remove", "rename"} => p.h \in Handle /\ p.th \in Handle
        BY <3>1 DEF Shape
    <3> QED BY <3>2, SlotAssumption
  <2>7. Closed(e, open', p)
      BY <1>2, <2>2, <2>3, <2>5, <2>6 DEF Closed
  <2> QED BY <2>1, <2>7
<1> QED BY <1>1, <1>3, <1>4, <1>5, OthersSame

\* A process that starts to read a directory has seen nothing of it.
LEMMA ReadFirstNames ==
    ASSUME RoomInv, NEW e, Known(e), NEW h \in Handle, ReadFirst(h) PROVE After
<1>1. PICK d \in Directory : d = Home[h]
    BY SlotAssumption
<1>2. PICK F : F = {shown[d][c] : c \in Class} \ {NoFile}
    OBVIOUS
<1>3. PICK r : r = [h |-> h, at |-> 0, seen |-> {}, twice |-> {}, stable |-> F]
    OBVIOUS
<1>4. reader' = r /\ slots' = slots /\ clusters' = clusters /\ op' = op /\ shown' = shown /\ open' = open
    BY <1>1, <1>2, <1>3 DEF ReadFirst
<1>5. \A f \in F : \E k \in Class : shown[d][k] = f
    BY <1>2
<1>6. ASSUME NEW a \in Position, e[d][a] # NoEntry PROVE ~(Last(e[d], a) < 0)
  <2>1. e[d][a].name \in Name
      BY <1>6 DEF Known, Sound, Entries, EntryType
  <2>2. Width[e[d][a].name] \in Nat /\ Width[e[d][a].name] > 0 /\ a \in Nat
      BY <2>1, SizeFacts
  <2> QED BY <2>2 DEF Last
<1>7. r.h = h /\ r.at = 0 /\ r.seen = {} /\ r.twice = {} /\ r.stable = F
    BY <1>3
<1>8. Read(e, shown, r)
    BY <1>1, <1>5, <1>6, <1>7 DEF Read
<1> QED BY <1>4, <1>8, OthersSame DEF Known, Sound

\* What a reader of directory d has before it: the 8.3 slots from at on are the
\* last slots of the entries there.
LEMMA ReadAhead ==
    ASSUME RoomInv, uncleared = {}, ~AliasedVnodes, NEW e, Known(e), NEW h \in Handle, Quiet(h), NEW d, d = Home[h], NEW at \in Nat
    PROVE  /\ d \in Directory /\ Describes(e[d], slots[d], Limit(d)) /\ Limit(d) \in Nat
           /\ \A k \in Class : InSync(e[d], shown[d], k)
           /\ \A i : i \in Shorts(slots[d], at, Limit(d)) =>
                i \in Nat /\ at <= i /\ \E a \in Position : e[d][a] # NoEntry /\ i = Last(e[d], a)
           /\ \A a \in Position : e[d][a] # NoEntry /\ at <= Last(e[d], a) =>
                Last(e[d], a) \in Shorts(slots[d], at, Limit(d))
<1>1. d \in Directory
    BY SlotAssumption
<1>2. PICK s, k, lim, x : s = slots[d] /\ k = clusters[d] /\ lim = k * PerCluster /\ x = e[d]
    OBVIOUS
<1>3. s \in Slotted /\ k \in 1 .. MaxClusters /\ Limit(d) = lim
    BY <1>1, <1>2, DirTypes DEF RoomInv, EndInv, Limit
<1>4. lim \in Nat /\ \A j \in 0 .. lim - 1 : j \in Position
    BY <1>2, <1>3, InPosition
<1>5. Ends(s, lim)
    BY <1>1, <1>2, <1>3 DEF RoomInv, EndInv, NothingAfterEnd, Ends
<1>6. Describes(x, s, lim) /\ \A c \in Class : InSync(x, shown[d], c)
  <2>1. Still(d)
      BY QuietStill
  <2> QED BY <1>1, <1>2, <2>1, StillView DEF Known, Sound
<1>7. ASSUME NEW i \in Shorts(s, at, lim)
      PROVE  i \in Nat /\ at <= i /\ \E a \in Position : x[a] # NoEntry /\ i = Last(x, a)
  <2>1. i \in Position /\ at <= i /\ i < lim /\ s[i].kind = "short"
      BY <1>2, <1>3, <1>5, AllShorts
  <2> QED BY <1>4, <1>6, <2>1, ShortIsLast, SizeFacts
<1>8. ASSUME NEW a \in Position, x[a] # NoEntry, at <= Last(x, a) PROVE Last(x, a) \in Shorts(s, at, lim)
  <2>1. PICK z : z = Last(x, a)
      OBVIOUS
  <2>2. z \in Nat /\ z < lim /\ Laid(s, a, z, x[a].name, x[a].file)
      BY <1>4, <1>6, <1>8, <2>1, EntryLaid
  <2>3. z \in Position /\ s[z].kind = "short"
      BY <1>4, <2>2 DEF Laid
  <2>4. z \in Shorts(s, at, lim)
      BY <1>2, <1>3, <1>5, <1>8, <2>1, <2>2, <2>3, AllShorts
  <2> QED BY <2>1, <2>4
<1> QED BY <1>1, <1>2, <1>3, <1>4, <1>6, <1>7, <1>8

\* What a reader knows of a directory with entries x and names sh
LEMMA ReaderKnows ==
    ASSUME NEW e, NEW r, Read(e, shown, r), r.h # NoHandle, NEW d, d = Home[r.h],
           \A k \in Class : InSync(e[d], shown[d], k), d \in Directory, e \in Entries,
           shown \in Tables
    PROVE  /\ r.seen \subseteq r.stable /\ r.twice = {}
           /\ \A f \in r.stable : f \in File => \E a \in Position : e[d][a] # NoEntry /\ e[d][a].file = f
           /\ \A a \in Position : e[d][a] # NoEntry /\ e[d][a].file \in r.stable =>
                (e[d][a].file \in r.seen <=> Last(e[d], a) < r.at)
<1>1. /\ r.seen \subseteq r.stable /\ r.twice = {}
      /\ \A f \in r.stable : \E k \in Class : shown[d][k] = f
      /\ \A a \in Position :
            e[d][a] # NoEntry /\ e[d][a].file \in r.stable /\ shown[d][Fold[e[d][a].name]] = e[d][a].file =>
                (e[d][a].file \in r.seen <=> Last(e[d], a) < r.at)
    BY DEF Read
<1>2. ASSUME NEW f \in r.stable, f \in File PROVE \E a \in Position : e[d][a] # NoEntry /\ e[d][a].file = f
  <2>1. PICK k \in Class : shown[d][k] = f
      BY <1>1
  <2> QED BY <1>2, <2>1 DEF InSync
<1>3. ASSUME NEW a \in Position, e[d][a] # NoEntry PROVE shown[d][Fold[e[d][a].name]] = e[d][a].file
  <2>1. PICK k : k = Fold[e[d][a].name]
      OBVIOUS
  <2>2. e[d][a].name \in Name /\ e[d][a].file \in File
      BY <1>3 DEF Entries, EntryType
  <2>3. k \in Class
      BY <2>1, <2>2 DEF Class
  <2>4. InSync(e[d], shown[d], k) /\ shown[d][k] \in File \cup {NoFile}
      BY <2>3 DEF Tables
  <2>5. shown[d][k] = e[d][a].file
      BY ONLY <1>3, <2>1, <2>2, <2>4, SyncFacts
  <2> QED BY <2>1, <2>5
<1> QED BY <1>1, <1>2, <1>3

\* fat32_readdir goes on to the next entry, which it has not seen.
LEMMA ReadNextNames ==
    ASSUME RoomInv, uncleared = {}, ~AliasedVnodes, NEW e, Known(e), ReadNext PROVE After
<1>1. PICK r, h, d : r = reader /\ h = r.h /\ d = Home[h]
    OBVIOUS
<1>2. PICK rest : rest = Shorts(slots[d], r.at, Limit(d))
    OBVIOUS
<1>3. /\ slots' = slots /\ clusters' = clusters /\ op' = op /\ shown' = shown /\ open' = open
      /\ h # NoHandle /\ Quiet(h)
    BY <1>1 DEF ReadNext
<1>4. r \in ReaderType /\ h \in Handle /\ r.at \in Nat
    BY <1>1, <1>3, Kept DEF RoomInv, ReaderType
<1>5. /\ d \in Directory /\ Describes(e[d], slots[d], Limit(d)) /\ Limit(d) \in Nat
      /\ \A k \in Class : InSync(e[d], shown[d], k)
      /\ \A i \in rest : i \in Nat /\ r.at <= i /\ \E a \in Position : e[d][a] # NoEntry /\ i = Last(e[d], a)
      /\ \A a \in Position : e[d][a] # NoEntry /\ r.at <= Last(e[d], a) => Last(e[d], a) \in rest
    BY <1>1, <1>2, <1>3, <1>4, ReadAhead
<1>6. Read(e, shown, r) /\ e \in Entries /\ OneName(e)
    BY <1>1 DEF Known, Sound
<1>7. shown \in Tables
    BY Kept DEF RoomInv, EndInv, TypeOK, Tables
<1>8. /\ r.seen \subseteq r.stable /\ r.twice = {}
      /\ \A a \in Position : e[d][a] # NoEntry /\ e[d][a].file \in r.stable =>
            (e[d][a].file \in r.seen <=> Last(e[d], a) < r.at)
    BY <1>1, <1>3, <1>5, <1>6, <1>7, ReaderKnows
<1>9. Read(e, shown, reader')
  <2>1. CASE reader' = NoReader
    <3>1. reader'.h = NoHandle
        BY <2>1 DEF NoReader
    <3> QED BY <3>1 DEF Read
  <2>2. CASE reader' # NoReader
    <3>1. PICK i, f : i = Min(rest) /\ f = slots[d][i].file
        OBVIOUS
    <3>2. rest # {} /\ reader' = [r EXCEPT !.at = NextOffset(i), !.seen = @ \cup ({f} \cap r.stable),
                                           !.twice = @ \cup ({f} \cap r.seen)]
        BY <1>1, <1>2, <2>2, <3>1 DEF ReadNext
    <3>3. /\ reader'.h = h /\ reader'.at = i + 1 /\ reader'.stable = r.stable
          /\ reader'.seen = r.seen \cup ({f} \cap r.stable) /\ reader'.twice = r.twice \cup ({f} \cap r.seen)
        BY <1>1, <1>4, <3>2 DEF ReaderType, NextOffset
    <3>4. i \in rest /\ \A j \in rest : i <= j
      <4>1. rest \subseteq Nat
          BY <1>5
      <4> QED BY <3>1, <3>2, <4>1, MinOf
    <3>5. PICK a \in Position : e[d][a] # NoEntry /\ i = Last(e[d], a)
        BY <1>5, <3>4
    <3>6. i \in Nat /\ r.at <= i
        BY <1>5, <3>4
    <3>7. e[d][a].file = f
      <4>1. Laid(slots[d], a, Last(e[d], a), e[d][a].name, e[d][a].file)
          BY <1>5, <3>5, EntryLaid
      <4> QED BY <3>1, <3>5, <4>1 DEF Laid
    <3>8. f \notin r.seen
      <4>1. ~(Last(e[d], a) < r.at)
          BY <1>4, <3>5, <3>6
      <4> QED BY <1>8, <3>5, <3>7, <4>1
    <3>9. reader'.seen \subseteq reader'.stable /\ reader'.twice = {}
        BY <1>8, <3>3, <3>8
    <3>10. \A g \in reader'.stable : \E k \in Class : shown[d][k] = g
        BY <1>1, <1>3, <1>6, <3>3, Zenon DEF Read
    <3>11. ASSUME NEW b \in Position, e[d][b] # NoEntry, e[d][b].file \in reader'.stable
           PROVE  e[d][b].file \in reader'.seen <=> Last(e[d], b) < reader'.at
      <4>1. CASE b = a
        <5>1. Last(e[d], b) < reader'.at
            BY <3>3, <3>5, <3>6, <4>1
        <5>2. e[d][b].file \in reader'.seen
            BY <3>3, <3>7, <3>11, <4>1
        <5> QED BY <5>1, <5>2
      <4>2. CASE b # a
        <5>1. e[d][b].file # f
            BY <1>5, <1>6, <3>5, <3>7, <3>11, <4>2 DEF OneName
        <5>2. e[d][b].file \in reader'.seen <=> e[d][b].file \in r.seen
            BY <3>3, <5>1
        <5>3. e[d][b].file \in r.seen <=> Last(e[d], b) < r.at
            BY <1>8, <3>3, <3>11
        <5>4. PICK z : z = Last(e[d], b)
            OBVIOUS
        <5>5. z \in Nat /\ b <= z /\ b \in Nat /\ a <= i /\ a \in Nat
            BY <1>5, <3>5, <3>11, <5>4, EntryLaid
        <5>6. z # i
          <6>1. ASSUME z = i PROVE FALSE
            <7>1. a <= i /\ i <= Last(e[d], a) /\ b <= i /\ i <= Last(e[d], b)
                BY <3>5, <3>6, <5>4, <5>5, <6>1
            <7>2. a = b
                BY <1>5, <3>5, <3>6, <3>11, <7>1, EntriesApart
            <7> QED BY <4>2, <7>2
          <6> QED BY <6>1
        <5>7. ~(z < r.at) => z \in rest
            BY <1>4, <1>5, <3>11, <5>4, <5>5
        <5>8. z < r.at <=> z < i + 1
            BY <1>4, <3>4, <3>6, <5>5, <5>6, <5>7
        <5> QED BY <3>3, <5>2, <5>3, <5>4, <5>8
      <4> QED BY <4>1, <4>2
    <3>12. Home[reader'.h] = d
        BY <1>1, <3>3
    <3> QED BY <3>9, <3>10, <3>11, <3>12 DEF Read
  <2> QED BY <2>1, <2>2
<1> QED BY <1>3, <1>9, OthersSame DEF Known, Sound

\* A process that comes to the end of a directory has seen what is stable.
LEMMA ReadEnds ==
    ASSUME RoomInv, uncleared = {}, ~AliasedVnodes, NEW e, Known(e), ReadNext, reader'.h = NoHandle
    PROVE  reader.stable \subseteq reader.seen \ reader.twice
<1>1. PICK r, h, d : r = reader /\ h = r.h /\ d = Home[h]
    OBVIOUS
<1>2. PICK rest : rest = Shorts(slots[d], r.at, Limit(d))
    OBVIOUS
<1>3. h # NoHandle /\ Quiet(h)
    BY <1>1 DEF ReadNext
<1>4. r \in ReaderType /\ h \in Handle /\ r.at \in Nat /\ r.stable \subseteq File
    BY <1>1, <1>3, Kept DEF RoomInv, ReaderType
<1>5. rest = {}
  <2>1. SUFFICES ASSUME rest # {} PROVE FALSE
      OBVIOUS
  <2>2. PICK i, f : reader' = [r EXCEPT !.at = NextOffset(i), !.seen = @ \cup ({f} \cap r.stable),
                                        !.twice = @ \cup ({f} \cap r.seen)]
      BY <1>1, <1>2, <2>1 DEF ReadNext
  <2>3. reader'.h = h
      BY <1>1, <1>4, <2>2 DEF ReaderType
  <2> QED BY <1>3, <2>3
<1>6. /\ d \in Directory /\ Describes(e[d], slots[d], Limit(d)) /\ Limit(d) \in Nat
      /\ \A k \in Class : InSync(e[d], shown[d], k)
      /\ \A a \in Position : e[d][a] # NoEntry /\ r.at <= Last(e[d], a) => Last(e[d], a) \in rest
    BY <1>1, <1>2, <1>3, <1>4, ReadAhead
<1>7. Read(e, shown, r) /\ e \in Entries
    BY <1>1 DEF Known, Sound
<1>8. shown \in Tables
    BY Kept DEF RoomInv, EndInv, TypeOK, Tables
<1>9. /\ r.twice = {}
      /\ \A f \in r.stable : f \in File => \E a \in Position : e[d][a] # NoEntry /\ e[d][a].file = f
      /\ \A a \in Position : e[d][a] # NoEntry /\ e[d][a].file \in r.stable =>
            (e[d][a].file \in r.seen <=> Last(e[d], a) < r.at)
    BY <1>1, <1>3, <1>6, <1>7, <1>8, ReaderKnows
<1>10. ASSUME NEW f \in r.stable PROVE f \in r.seen
  <2>1. PICK a \in Position : e[d][a] # NoEntry /\ e[d][a].file = f
      BY <1>4, <1>9
  <2>2. Last(e[d], a) \in Nat
      BY <1>6, <2>1, EntryLaid
  <2>3. Last(e[d], a) < r.at
      BY <1>4, <1>5, <1>6, <2>1, <2>2
  <2> QED BY <1>9, <2>1, <2>3
<1> QED BY <1>1, <1>9, <1>10

----------------------------------------------------------------------------
(* Every step *)

\* What no step does: show names that a device error may have damaged, or stop
\* a process that reads.
Shows == (errors' # 0 => shown' = shown) /\ reader'.h = reader.h

\* mrunlock of a directory
LEMMA PublishShows ==
    ASSUME RoomInv PROVE (\A ds : Publish(ds) => Shows) /\ \A t : Return(t) => Shows
<1>1. shown \in Tables /\ reader \in ReaderType
    BY Kept DEF RoomInv, EndInv, TypeOK, Tables
<1>2. ASSUME NEW ds, Publish(ds) PROVE Shows
  <2>1. ASSUME errors' # 0 PROVE shown' = shown
    <3>1. shown' = [d \in Directory |-> IF errors' = 0 /\ d \in ds THEN NamesOf(slots'[d], clusters'[d] * PerCluster)
                                        ELSE shown[d]]
        BY <1>2 DEF Publish
    <3>2. shown' = [d \in Directory |-> shown[d]]
        BY <2>1, <3>1
    <3> QED BY <1>1, <3>2 DEF Tables
  <2>2. PICK K : reader' = [reader EXCEPT !.stable = @ \cap K, !.seen = @ \cap K, !.twice = @ \cap K]
      BY <1>2 DEF Publish
  <2>3. reader'.h = reader.h
      BY <1>1, <2>2 DEF ReaderType
  <2> QED BY <2>1, <2>3 DEF Shows
<1>3. ASSUME NEW t, Return(t) PROVE Shows
    BY <1>2, <1>3, Zenon DEF Return, Unlock
<1> QED BY <1>2, <1>3

\* A step of a thread shows what it has done when it unlocks, and then only
\* if the device has made no error.
LEMMA StepShows ==
    ASSUME RoomInv, NEW t \in Thread, Step(t) PROVE Shows /\ (errors' = 0 => errors = 0)
<1>1. ASSUME UNCHANGED <<reader, shown>> PROVE Shows
    BY <1>1 DEF Shows
<1>2. CASE LockTarget(t)
    BY <1>1, <1>2, ErrorsGrow DEF LockTarget
<1>3. CASE FindName(t)
  <2>1. UNCHANGED <<reader, shown>> \/ Return(t)
      BY <1>3, Zenon DEF FindName
  <2>2. \E d, n, i : Search(d, n, i)
      BY <1>3, Zenon DEF FindName
  <2> QED BY <1>1, <2>1, <2>2, PublishShows, ErrorsGrow
<1>4. CASE FindTarget(t)
    BY <1>1, <1>4, ErrorsGrow DEF FindTarget
<1>5. CASE ReplaceTarget(t)
  <2>1. (\E ds : Publish(ds)) \/ Return(t)
      BY <1>5, Zenon DEF ReplaceTarget
  <2>2. (\E a, c, p : Deletes(a, c, p)) \/ \E d, n, i : Search(d, n, i)
      BY <1>5, Zenon DEF ReplaceTarget
  <2> QED BY <2>1, <2>2, PublishShows, ErrorsGrow
<1>6. CASE SearchError(t)
    BY <1>6, PublishShows, ErrorsGrow DEF SearchError
<1>7. CASE DeleteEntry(t)
  <2>1. UNCHANGED <<reader, shown>> \/ Return(t)
      BY <1>7, Zenon DEF DeleteEntry
  <2>2. \E a, c, p : Deletes(a, c, p)
      BY <1>7, Zenon DEF DeleteEntry
  <2> QED BY <1>1, <2>1, <2>2, PublishShows, ErrorsGrow
<1>8. CASE AllocSlots(t)
  <2>1. UNCHANGED <<reader, shown>> \/ Return(t)
      BY <1>8, Zenon DEF AllocSlots
  <2>2. \E d, k : InView(d, k)
      BY <1>8, Zenon DEF AllocSlots
  <2> QED BY <1>1, <2>1, <2>2, PublishShows, ErrorsGrow
<1>9. CASE WriteEntry(t)
  <2>1. UNCHANGED <<reader, shown>> \/ Return(t)
      BY <1>9, Zenon DEF WriteEntry
  <2>2. UNCHANGED errors \/ IOError
      BY <1>9, Zenon DEF WriteEntry
  <2> QED BY <1>1, <2>1, <2>2, PublishShows, ErrorsGrow
<1>10. CASE TrimEntry(t)
  <2>1. Return(t)
      BY <1>10 DEF TrimEntry
  <2>2. \E a, c, p : Deletes(a, c, p)
      BY <1>10, Zenon DEF TrimEntry
  <2> QED BY <2>1, <2>2, PublishShows, ErrorsGrow
<1> QED BY <1>2, <1>3, <1>4, <1>5, <1>6, <1>7, <1>8, <1>9, <1>10 DEF Step

\* A step of a thread without a device error
LEMMA StepNames ==
    ASSUME RoomInv, EndInv', errors' = 0, uncleared = {}, uncleared' = {},
           NEW e, Known(e), NEW t \in Thread, Step(t) PROVE After /\ MapStep
<1>1. CASE LockTarget(t)
  <2>1. shown' = shown
      BY <1>1 DEF LockTarget
  <2> QED BY <1>1, <2>1, LockTargetNames DEF MapStep
<1>2. CASE FindTarget(t)
  <2>1. shown' = shown
      BY <1>2 DEF FindTarget
  <2> QED BY <1>2, <2>1, FindTargetNames DEF MapStep
<1>3. ~SearchError(t)
  <2>1. errors \in Nat
      BY Kept DEF RoomInv
  <2> QED BY <2>1 DEF SearchError, IOError
<1> QED BY <1>1, <1>2, <1>3, FindNameNames, ReplaceTargetNames, DeleteEntryNames, AllocSlotsNames, WriteEntryNames,
           TrimEntryNames DEF Step

\* The invariant: as long as the device has made no error, every slot in use
\* is of an entry, and threads, vnodes and readers know the entries.
NamesInv == RoomInv /\ (errors = 0 => \E e : Known(e))

\* A call that begins shows nothing yet.
LEMMA BeginShows ==
    ASSUME NEW t, Begin(t) PROVE shown' = shown /\ errors' = errors /\ reader' = reader
<1>1. ASSUME NEW k, NEW h, NEW th, NEW n, NEW m, NEW f, Call(t, k, h, th, n, m, f)
      PROVE  shown' = shown /\ errors' = errors /\ reader' = reader
    BY <1>1 DEF Call
<1>2. PICK h \in Handle, n \in Name : \/ \E f \in File : Create(t, h, n, f)
                                     \/ Remove(t, h, n)
                                     \/ \E th \in Handle, m \in Name : Rename(t, h, n, th, m)
    BY DEF Begin
<1>3. ASSUME NEW f, Create(t, h, n, f) PROVE Call(t, "create", h, h, n, n, f)
    BY <1>3 DEF Create
<1>4. ASSUME Remove(t, h, n) PROVE Call(t, "remove", h, h, n, n, NoFile)
    BY <1>4 DEF Remove
<1>5. ASSUME NEW th, NEW m, Rename(t, h, n, th, m) PROVE Call(t, "rename", h, th, n, m, NoFile)
    BY <1>5 DEF Rename
<1> QED BY ONLY <1>1, <1>2, <1>3, <1>4, <1>5, Zenon

\* Every step keeps it, and is a step of the map of names.
LEMMA NextNames ==
    ASSUME NamesInv, ~AliasedVnodes, ~RemoveWhileOpen, [Next]_vars PROVE NamesInv' /\ MapStep
<1>1. RoomInv /\ RoomInv' /\ EndInv'
    BY NextRoom DEF NamesInv, RoomInv
<1>2. ASSUME errors' = 0 => After PROVE NamesInv'
    BY <1>1, <1>2 DEF NamesInv, After, Known
<1>3. ASSUME errors' = 0, errors = 0 PROVE uncleared = {} /\ uncleared' = {} /\ \E e : Known(e)
    BY <1>1, <1>3 DEF NamesInv, RoomInv, ClearedInv
<1>4. ASSUME shown' = shown PROVE MapStep
    BY <1>4 DEF MapStep
<1>5. CASE \E t \in Thread : Step(t)
  <2>1. PICK t \in Thread : Step(t)
      BY <1>5
  <2>2. Shows /\ (errors' = 0 => errors = 0)
      BY <1>1, <2>1, StepShows
  <2>3. errors' = 0 => After /\ MapStep
      BY <1>1, <1>3, <2>1, <2>2, StepNames
  <2>4. errors' # 0 => MapStep
      BY <1>4, <2>2 DEF Shows
  <2> QED BY <1>2, <2>3, <2>4
<1>6. CASE \E t \in Thread : Begin(t)
  <2>1. PICK t \in Thread : Begin(t)
      BY <1>6
  <2>2. shown' = shown /\ errors' = errors
      BY <2>1, BeginShows
  <2>3. errors' = 0 => After
      BY <1>1, <1>3, <2>1, <2>2, BeginNames
  <2> QED BY <1>2, <1>4, <2>2, <2>3
<1>7. CASE \E h \in Handle : ReadFirst(h)
  <2>1. PICK h \in Handle : ReadFirst(h)
      BY <1>7
  <2>2. shown' = shown /\ errors' = errors
      BY <2>1 DEF ReadFirst
  <2>3. errors' = 0 => After
      BY <1>1, <1>3, <2>1, <2>2, ReadFirstNames
  <2> QED BY <1>2, <1>4, <2>2, <2>3
<1>8. CASE \E h \in Handle : \E n \in Name : Lookup(h, n)
  <2>1. PICK h \in Handle, n \in Name : Lookup(h, n)
      BY <1>8
  <2>2. shown' = shown /\ (errors' = 0 => errors = 0)
      BY <1>1, <2>1, ErrorsGrow DEF Lookup
  <2>3. errors' = 0 => After
      BY <1>1, <1>3, <2>1, <2>2, LookupNames
  <2> QED BY <1>2, <1>4, <2>2, <2>3
<1>9. CASE \E f \in File : SyncMetadata(f)
  <2>1. PICK f \in File : SyncMetadata(f)
      BY <1>9
  <2>2. shown' = shown /\ errors' = errors
      BY <2>1 DEF SyncMetadata
  <2>3. errors' = 0 => After
      BY <1>1, <1>3, <2>1, <2>2, SyncMetadataNames
  <2> QED BY <1>2, <1>4, <2>2, <2>3
<1>10. CASE \E f \in File : Inactive(f)
  <2>1. PICK f \in File : Inactive(f)
      BY <1>10
  <2>2. shown' = shown /\ errors' = errors
      BY <2>1 DEF Inactive
  <2>3. errors' = 0 => After
      BY <1>1, <1>3, <2>1, <2>2, InactiveNames
  <2> QED BY <1>2, <1>4, <2>2, <2>3
<1>11. CASE ReadNext
  <2>1. shown' = shown /\ errors' = errors
      BY <1>11 DEF ReadNext
  <2>2. errors' = 0 => After
      BY <1>1, <1>3, <1>11, <2>1, ReadNextNames
  <2> QED BY <1>2, <1>4, <2>1, <2>2
<1>12. CASE UNCHANGED vars
  <2>1. /\ slots' = slots /\ clusters' = clusters /\ op' = op /\ shown' = shown /\ open' = open /\ reader' = reader
        /\ errors' = errors
      BY <1>12 DEF vars
  <2>2. errors' = 0 => After
      BY <1>3, <2>1 DEF After, Known
  <2> QED BY <1>2, <1>4, <2>1, <2>2
<1>13. CASE \E t \in Thread : AllocUncleared(t)
  <2>1. errors' # 0 /\ Shows
      BY <1>1, <1>13, UnclearedError, PublishShows
  <2> QED BY <1>2, <1>4, <2>1 DEF Shows
<1> QED BY <1>5, <1>6, <1>7, <1>8, <1>9, <1>10, <1>11, <1>12, <1>13 DEF Next, Regular

\* A volume without damage
SoundVolume == \E e \in Entries : MountedWith(e)

\* A sound volume satisfies the invariant when it is mounted.
LEMMA InitNames ==
    ASSUME EndsLast, SoundVolume, Init PROVE NamesInv
<1>1. EndInv
    BY InitEnds
<1>2. /\ slots = Slots0 /\ clusters = Clusters0 /\ (\A f \in File : open[f] = NoLoc) /\ reader = NoReader
      /\ shown = [d \in Directory |-> NamesOf(Slots0[d], Clusters0[d] * PerCluster)]
      /\ (\A t \in Thread : op[t] = Idle) /\ uncleared = {}
    BY DEF Init
<1>3. Idle.pc = "idle" /\ Idle.kind = "none" /\ Idle.file = NoFile
    BY DEF Idle
<1>4. \A t \in Thread : op[t].pc = "idle" /\ op[t].kind = "none" /\ op[t].file = NoFile
    BY <1>2, <1>3
<1>5. RoomInv
  <2>1. LockInv /\ OneVnode /\ AllocFindsFree /\ ClearedInv
      BY <1>2, <1>4 DEF LockInv, OneVnode, AllocFindsFree, ClearedInv
  <2> QED BY <1>1, <2>1 DEF RoomInv
<1>6. PICK e \in Entries : /\ \A d \in Directory : Describes(e[d], slots[d], clusters[d] * PerCluster)
                           /\ NoTwins(e) /\ OneName(e)
    BY <1>2 DEF SoundVolume, MountedWith
<1>7. ASSUME NEW d \in Directory
      PROVE  Describes(e[d], View(slots, op, d), clusters[d] * PerCluster) /\ \A k \in Class : InSync(e[d], shown[d], k)
  <2>1. PICK k, lim, s, v : k = clusters[d] /\ lim = k * PerCluster /\ s = slots[d] /\ v = View(slots, op, d)
      OBVIOUS
  <2>2. k \in 1 .. MaxClusters /\ s \in Slotted
      BY <1>1, <2>1, DirTypes DEF EndInv
  <2>3. lim \in Nat /\ \A i \in 0 .. lim - 1 : i \in Position
      BY <2>1, <2>2, InPosition
  <2>4. \A i \in Position : v[i] = s[i]
    <3>1. \A i \in Position : ~Hidden(op, d, i)
        BY <1>4 DEF Hidden
    <3> QED BY <2>1, <3>1 DEF View
  <2>5. Describes(e[d], s, lim)
      BY <1>6, <2>1
  <2>6. Describes(e[d], v, lim)
      BY <2>3, <2>4, <2>5, DescribesSame
  <2>7. Ends(s, lim)
      BY <1>1, <1>2, <2>1 DEF EndInv, NothingAfterEnd, Ends, Limit
  <2>8. shown[d] = NamesOf(s, lim)
      BY <1>2, <2>1
  <2>9. Distinct(e[d])
      BY <1>6 DEF NoTwins
  <2>10. \A c \in Class : InSync(e[d], shown[d], c)
      BY <2>1, <2>2, <2>5, <2>7, <2>8, <2>9, NamesAre
  <2> QED BY <2>1, <2>6, <2>10
<1>8. Desc(e, slots, clusters, op) /\ Sync(e, op, shown)
    BY <1>7 DEF Desc, Sync
<1>9. FilesApart(op) /\ NamesApart(op)
    BY <1>4 DEF FilesApart, NamesApart, Names
<1>10. Opened(e, open) /\ Read(e, shown, reader)
    BY <1>2 DEF Opened, Read, NoReader
<1>11. ASSUME NEW t \in Thread PROVE Hand(e, slots, shown, op[t]) /\ Closed(e, open, op[t])
    BY <1>4 DEF Hand, HandFile, HandName, HandShown, HandSlots, Closed
<1>12. Known(e)
    BY <1>6, <1>8, <1>9, <1>10, <1>11 DEF Known, Sound
<1> QED BY <1>5, <1>12 DEF NamesInv

----------------------------------------------------------------------------
(* The theorems *)

\* In a directory that no thread has locked the slots in use are its entries.
LEMMA UnlockedEntries ==
    ASSUME NamesInv, Undamaged, NEW d \in Directory, Unlocked(d)
    PROVE  \E e : Known(e) /\ Describes(e[d], slots[d], Limit(d))
<1>1. PICK e : Known(e)
    BY DEF NamesInv, Undamaged
<1>2. RoomInv /\ Still(d)
    BY UnlockedStill DEF NamesInv, Unlocked
<1>3. Describes(e[d], slots[d], clusters[d] * PerCluster)
    BY <1>1, <1>2, StillView DEF Known, Sound
<1> QED BY <1>1, <1>3 DEF Limit

\* The invariant: every long-name slot belongs to a name.
LEMMA InvNoOrphans ==
    ASSUME NamesInv PROVE NoOrphans
<1>1. ASSUME Undamaged, NEW d \in Directory, Unlocked(d), NEW i \in 0 .. Limit(d) - 1, slots[d][i].kind = "lfn",
             NEW n, n = slots[d][i].name, NEW b, b = i - (Width[n] - 1 - slots[d][i].seq)
      PROVE  /\ b >= 0 /\ b + Width[n] <= Limit(d)
             /\ \A j \in 0 .. Width[n] - 1 : slots[d][b + j] = EntrySlot(n, slots[d][b + Width[n] - 1].file, j)
  <2>1. PICK e : Describes(e[d], slots[d], Limit(d))
      BY <1>1, UnlockedEntries
  <2>2. PICK x, s, lim : x = e[d] /\ s = slots[d] /\ lim = Limit(d)
      OBVIOUS
  <2>3. lim \in Nat /\ i \in Position /\ i \in Nat /\ i < lim
    <3>1. lim \in Nat /\ \A j \in 0 .. lim - 1 : j \in Position
        BY <2>2, DirTypes DEF NamesInv, RoomInv, EndInv
    <3> QED BY <1>1, <2>2, <3>1
  <2>4. Describes(x, s, lim) /\ s[i].kind = "lfn"
      BY <1>1, <2>1, <2>2
  <2>5. PICK a \in Position : x[a] # NoEntry /\ a <= i /\ i < a + Width[x[a].name]
      BY <2>3, <2>4 DEF Describes
  <2>6. PICK z : z = Last(x, a)
      OBVIOUS
  <2>7. /\ a \in Nat /\ z \in Nat /\ x[a].name \in Name /\ Width[x[a].name] \in Nat
        /\ z - a + 1 = Width[x[a].name] /\ z < lim /\ Laid(s, a, z, x[a].name, x[a].file)
      BY <2>3, <2>4, <2>5, <2>6, EntryLaid
  <2>8. i # z
      BY <2>4, <2>7 DEF Laid
  <2>9. i \in a .. z - 1
      BY <2>3, <2>5, <2>7, <2>8
  <2>10. s[i].name = x[a].name /\ s[i].seq = z - i
      BY <2>7, <2>9 DEF Laid
  <2>11. n = x[a].name /\ b = a /\ a + Width[n] - 1 = z
      BY <1>1, <2>2, <2>3, <2>7, <2>10
  <2>12. s[z].file = x[a].file
      BY <2>7 DEF Laid
  <2>13. \A j \in 0 .. Width[n] - 1 : s[a + j] = EntrySlot(n, x[a].file, j)
      BY <2>4, <2>5, <2>11 DEF Describes
  <2>14. /\ a >= 0 /\ a + Width[n] <= lim
         /\ \A j \in 0 .. Width[n] - 1 : s[a + j] = EntrySlot(n, s[a + Width[n] - 1].file, j)
    <3>1. a >= 0 /\ a + Width[n] <= lim
        BY ONLY <2>3, <2>7, <2>11
    <3>2. s[a + Width[n] - 1].file = x[a].file
        BY ONLY <2>11, <2>12
    <3> QED BY ONLY <2>13, <3>1, <3>2
  <2> QED BY ONLY <2>2, <2>11, <2>14
<1> QED BY <1>1 DEF NoOrphans

\* The invariant: a name has at most one entry.
LEMMA InvNoDuplicateName ==
    ASSUME NamesInv PROVE NoDuplicateName
<1>1. ASSUME Undamaged, NEW d \in Directory, Unlocked(d), NEW n \in Name
      PROVE  Cardinality(Matches(slots[d], n, Limit(d))) <= 1
  <2>1. PICK e : Known(e) /\ Describes(e[d], slots[d], Limit(d))
      BY <1>1, UnlockedEntries
  <2>2. PICK s, k, lim, x, M : /\ s = slots[d] /\ k = clusters[d] /\ lim = k * PerCluster /\ x = e[d]
                               /\ M = Matches(s, n, lim)
      OBVIOUS
  <2>3. s \in Slotted /\ k \in 1 .. MaxClusters /\ Limit(d) = lim
      BY <2>2, DirTypes DEF NamesInv, RoomInv, EndInv, Limit
  <2>4. Ends(s, lim)
      BY <1>1, <2>2, <2>3 DEF NamesInv, RoomInv, ClearedInv, Undamaged, EndInv, NothingAfterEnd, Ends
  <2>5. Describes(x, s, lim) /\ Distinct(x)
      BY <2>1, <2>2, <2>3 DEF Known, Sound, NoTwins
  <2>6. ASSUME NEW i \in M, NEW j \in M PROVE i = j
    <3>1. PICK a \in Position : x[a] # NoEntry /\ i = Last(x, a) /\ Fold[x[a].name] = Fold[n]
        BY <2>2, <2>3, <2>4, <2>5, MatchesAre
    <3>2. PICK b \in Position : x[b] # NoEntry /\ j = Last(x, b) /\ Fold[x[b].name] = Fold[n]
        BY <2>2, <2>3, <2>4, <2>5, MatchesAre
    <3>3. a = b
        BY <2>5, <3>1, <3>2 DEF Distinct
    <3> QED BY <3>1, <3>2, <3>3
  <2>7. CASE M = {}
    <3>1. Cardinality(M) = 0
        BY <2>7, FS_EmptySet
    <3> QED BY <2>2, <2>3, <3>1
  <2>8. CASE M # {}
    <3>1. PICK i : i \in M
        BY <2>8
    <3>2. M = {i}
        BY <2>6, <3>1
    <3>3. Cardinality(M) = 1
        BY <3>2, FS_Singleton
    <3> QED BY <2>2, <2>3, <3>3
  <2> QED BY <2>7, <2>8
<1> QED BY <1>1 DEF NoDuplicateName

\* The invariant: a vnode writes to the entry of its file.
LEMMA InvSyncHitsOwnEntry ==
    ASSUME NamesInv, ~AliasedVnodes PROVE SyncHitsOwnEntry
<1>1. ASSUME Undamaged, NEW f \in File, open[f] # NoLoc, Quiet(open[f].h)
      PROVE  slots[Home[open[f].h]][EntryOf(f)].kind = "short" /\ slots[Home[open[f].h]][EntryOf(f)].file = f
  <2>1. PICK e : Known(e)
      BY <1>1 DEF NamesInv, Undamaged
  <2> QED BY <1>1, <2>1, OwnShort DEF NamesInv
<1> QED BY <1>1 DEF SyncHitsOwnEntry

\* fat32_create_fdentry, fat32_delete_fdentry_chain and fat32_rename leave no
\* long-name slot without its name: in a directory that no thread has locked
\* every one stands in its place in a whole entry.  For directories, names and
\* numbers of threads of any size, on a sound volume, one vnode of a directory
\* in use at a time and no open file removed or renamed
THEOREM NoOrphanSlots ==
    ASSUME EndsLast, SoundVolume, ~AliasedVnodes, ~RemoveWhileOpen PROVE Spec => []NoOrphans
<1>1. Init => NamesInv
    BY InitNames
<1>2. NamesInv /\ [Next]_vars => NamesInv'
    BY NextNames
<1>3. NamesInv => NoOrphans
    BY InvNoOrphans
<1> QED BY <1>1, <1>2, <1>3, PTL DEF Spec

\* fat32_create and fat32_rename never enter a name that a directory has, in
\* whatever case: the lock is held from fat32_find_dirent to the last write, and
\* of two threads that create one name the second finds it.
THEOREM NamesStayDistinct ==
    ASSUME EndsLast, SoundVolume, ~AliasedVnodes, ~RemoveWhileOpen PROVE Spec => []NoDuplicateName
<1>1. Init => NamesInv
    BY InitNames
<1>2. NamesInv /\ [Next]_vars => NamesInv'
    BY NextNames
<1>3. NamesInv => NoDuplicateName
    BY InvNoDuplicateName
<1> QED BY <1>1, <1>2, <1>3, PTL DEF Spec

\* fat32_update_fdentry writes size and first cluster to the entry of its own
\* file: fv_diroff and fv_dirsz of a vnode stay those of the entry, whatever
\* other threads create, remove and rename meanwhile.
THEOREM SyncStaysHome ==
    ASSUME EndsLast, SoundVolume, ~AliasedVnodes, ~RemoveWhileOpen PROVE Spec => []SyncHitsOwnEntry
<1>1. Init => NamesInv
    BY InitNames
<1>2. NamesInv /\ [Next]_vars => NamesInv'
    BY NextNames
<1>3. NamesInv => SyncHitsOwnEntry
    BY InvSyncHitsOwnEntry
<1> QED BY <1>1, <1>2, <1>3, PTL DEF Spec

\* The directories implement DirMap: what a search finds in an unlocked
\* directory changes as a map from names to files does, one name created,
\* removed or renamed at a time, for all the interleavings of the slots that
\* fat32_create, fat32_remove and fat32_rename write.
THEOREM DirectoriesAreMaps ==
    ASSUME EndsLast, SoundVolume, ~AliasedVnodes, ~RemoveWhileOpen PROVE Spec => ImplementsDirMap
<1>1. Init => NamesInv
    BY InitNames
<1>2. NamesInv /\ [Next]_vars => NamesInv'
    BY NextNames
<1>3. Init => Map!Init
  <2>1. ASSUME Init PROVE shown \in [Directory -> [Class -> File \cup {NoFile}]]
      BY <2>1, InitEnds DEF EndInv, TypeOK
  <2> QED BY <2>1 DEF Map!Init
<1>4. NamesInv /\ [Next]_vars => [Map!Next]_shown
    BY NextNames DEF MapStep
<1> QED BY <1>1, <1>2, <1>3, <1>4, PTL DEF Spec, ImplementsDirMap, Map!Spec

\* fat32_readdir, called again and again, gives every file that keeps its name
\* until the end, and gives it once: the offset between two calls stays right
\* whatever is created, removed and renamed before and behind it.
THEOREM ReadersMissNothing ==
    ASSUME EndsLast, SoundVolume, ~AliasedVnodes, ~RemoveWhileOpen PROVE Spec => ReaddirComplete
<1> DEFINE Ended == reader.h # NoHandle /\ reader'.h = NoHandle /\ Undamaged =>
                      reader.stable \subseteq reader.seen \ reader.twice
<1>1. Init => NamesInv
    BY InitNames
<1>2. NamesInv /\ [Next]_vars => NamesInv'
    BY NextNames
<1>3. NamesInv /\ [Next]_vars => [Ended]_vars
  <2>1. SUFFICES ASSUME NamesInv, Next, reader.h # NoHandle, reader'.h = NoHandle, Undamaged
                 PROVE  reader.stable \subseteq reader.seen \ reader.twice
      OBVIOUS
  <2>2. PICK e : Known(e)
      BY <2>1 DEF NamesInv, Undamaged
  <2>3. ~\E t \in Thread : Step(t)
      BY <2>1, StepShows DEF NamesInv, Shows
  <2>4. ~\E t \in Thread : Begin(t)
      BY <2>1, BeginShows
  <2>5. ~\E h \in Handle : ReadFirst(h) \/ \E n \in Name : Lookup(h, n)
      BY <2>1 DEF ReadFirst, Lookup
  <2>6. ~\E f \in File : SyncMetadata(f) \/ Inactive(f)
      BY <2>1 DEF SyncMetadata, Inactive
  <2>7. ~\E t \in Thread : AllocUncleared(t)
      BY <2>1, UnclearedError, PublishShows DEF NamesInv, Shows
  <2>8. ReadNext
      BY <2>1, <2>3, <2>4, <2>5, <2>6, <2>7 DEF Next, Regular
  <2>9. uncleared = {}
      BY <2>1 DEF NamesInv, RoomInv, ClearedInv, Undamaged
  <2> QED BY <2>1, <2>2, <2>8, <2>9, ReadEnds DEF NamesInv
<1> QED BY <1>1, <1>2, <1>3, PTL DEF Spec, ReaddirComplete
=============================================================================
