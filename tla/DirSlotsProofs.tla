-------------------------- MODULE DirSlotsProofs ---------------------------
(***************************************************************************)
(* Proofs about DirSlots for every size of directories and clusters, every *)
(* set of names, threads and vnodes.  Proved here is what holds whatever   *)
(* the device does and however the threads share directories: the types,   *)
(* and that nothing ever follows the end mark of a directory all of whose  *)
(* clusters were cleared when it got them.                                 *)
(***************************************************************************)
EXTENDS DirSlots, NatLemmas, TLAPS

----------------------------------------------------------------------------
(* The inductive invariant *)

\* The first n slots of directory d are there, and before its end mark, unless
\* the directory has a cluster that was not cleared.
Front(d, n) ==
    n <= Limit(d) /\ (d \notin uncleared => \A i \in 0 .. n - 1 : slots[d][i].kind # "end")

\* The operations a thread can be in
Shape(o) ==
    /\ o.pc # "idle" => o.h \in Handle /\ o.th \in Handle /\ o.n \in Name /\ o.m \in Name
    /\ o.pc = "idle" => o.kind = "none" /\ o.file = NoFile
    /\ o.pc # "idle" => o.kind \in {"create", "remove", "rename"}
    /\ o.kind \in {"create", "remove"} => o.h = o.th /\ o.n = o.m
    /\ o.pc = "lock" => o.kind = "rename" /\ ~SameDir(o)
    /\ o.pc \in {"find2", "replace", "trim"} => o.kind = "rename"
    /\ o.pc = "delete" => o.kind # "create"
    /\ o.pc \in {"alloc", "write"} => o.kind # "remove"

\* What a thread has in hand lies before the end mark, or, if it is room for a
\* new entry, starts no later than there.
Reach(o) ==
    /\ o.pc \in {"find2", "replace", "delete", "trim"} =>
         Front(Home[o.h], o.at + o.count) /\ o.count > 0
    /\ o.pc = "write" =>
         /\ Front(Home[o.th], o.at) /\ o.at + Width[o.m] <= Limit(Home[o.th])
         /\ o.count >= Width[o.m]
         /\ o.count > Width[o.m] =>
              o.kind = "rename" /\ SameDir(o) /\ Front(Home[o.th], o.at + o.count)
    /\ o.pc = "trim" => SameDir(o) /\ o.count > Width[o.m]

OpInv == \A t \in Thread : Shape(op[t]) /\ Reach(op[t])

\* An open file has a vnode of a directory.
OpenInv == \A f \in File : open[f] # NoLoc => open[f].h \in Handle

EndInv == TypeOK /\ OpInv /\ OpenInv /\ NothingAfterEnd

----------------------------------------------------------------------------
(* Facts about the operators of the model *)

\* The least and the greatest number of a set
LEMMA MinOf ==
    ASSUME NEW T, T \subseteq Nat, T # {}
    PROVE  Min(T) \in T /\ \A x \in T : Min(T) <= x
    BY LeastNat, Zenon DEF Min

\* A finite set of numbers has its maximum in it.
LEMMA MaxOf ==
    ASSUME NEW T, T \subseteq Nat, T # {}, NEW b \in Nat, \A x \in T : x <= b
    PROVE  Max(T) \in T /\ \A x \in T : x <= Max(T)
<1>1. \E x \in T : \A y \in T : x >= y
  <2>1. PICK x \in T : \A y \in T : y <= x
      BY GreatestNat
  <2>2. \A y \in T : x >= y
      BY <2>1
  <2> QED BY <2>2
<1>2. Max(T) \in T /\ \A x \in T : Max(T) >= x
    BY <1>1, Zenon DEF Max
<1> QED BY <1>2

\* The longer of two chains
LEMMA MaxOfTwo ==
    ASSUME NEW a \in Nat, NEW b \in Nat
    PROVE  Max({a, b}) \in {a, b} /\ a <= Max({a, b}) /\ b <= Max({a, b})
<1>1. \A x \in {a, b} : x <= a + b
    OBVIOUS
<1> QED BY <1>1, MaxOf

\* The numbers of slots
LEMMA SizeFacts ==
    /\ PerCluster \in Nat /\ PerCluster > 0 /\ MaxClusters \in Nat
    /\ \A k \in Nat : k * PerCluster \in Nat
    /\ \A k \in 1 .. MaxClusters : \A i \in 0 .. k * PerCluster - 1 : i \in Position
    /\ \A i \in Position : i \in Nat
    /\ \A k, j \in Nat : k <= j => k * PerCluster <= j * PerCluster
    /\ \A n \in Name : Width[n] \in Nat /\ Width[n] > 0
<1>1. /\ PerCluster \in Nat /\ PerCluster > 0 /\ MaxClusters \in Nat
      /\ \A n \in Name : Width[n] \in Nat /\ Width[n] > 0
    BY SlotAssumption DEF SlotAssumption
<1>2. ASSUME NEW k \in Nat, NEW j \in Nat, k <= j
      PROVE  k * PerCluster \in Nat /\ j * PerCluster \in Nat /\ k * PerCluster <= j * PerCluster
    BY <1>1, <1>2, TimesMonotone
<1>3. ASSUME NEW k \in 1 .. MaxClusters, NEW i \in 0 .. k * PerCluster - 1 PROVE i \in Position
  <2>1. k * PerCluster \in Nat /\ MaxClusters * PerCluster \in Nat
        /\ k * PerCluster <= MaxClusters * PerCluster
      BY <1>1, <1>2
  <2> DEFINE x == k * PerCluster
             y == MaxClusters * PerCluster
  <2> HIDE DEF x, y
  <2> QED BY <2>1 DEF Position, x, y
<1>4. \A i \in Position : i \in Nat
    BY DEF Position
<1> QED BY <1>1, <1>2, <1>3, <1>4

\* The slots of one directory
Slotted == [Position -> Slot]

\* A scan of k clusters stops at the end mark.
LEMMA EndAtFacts ==
    ASSUME NEW s \in Slotted, NEW k \in 1 .. MaxClusters
    PROVE  LET lim == k * PerCluster
           IN /\ EndAt(s, lim) \in 0 .. lim
              /\ \A i \in 0 .. EndAt(s, lim) - 1 : s[i].kind # "end"
              /\ EndAt(s, lim) < lim => s[EndAt(s, lim)].kind = "end"
<1> DEFINE lim == k * PerCluster
           ends == {i \in 0 .. lim - 1 : s[i].kind = "end"}
<1>1. lim \in Nat
    BY SizeFacts
<1> HIDE DEF lim
<1>2. CASE ends = {}
    BY <1>1, <1>2 DEF EndAt, lim
<1>3. CASE ends # {}
  <2>1. ends \subseteq Nat
      BY <1>1
  <2>2. Min(ends) \in ends /\ \A x \in ends : Min(ends) <= x
      BY <1>3, <2>1, MinOf
  <2>3. EndAt(s, lim) = Min(ends)
      BY <1>3 DEF EndAt
  <2> HIDE DEF ends
  <2>4. EndAt(s, lim) \in 0 .. lim - 1 /\ s[EndAt(s, lim)].kind = "end"
      BY <2>2, <2>3 DEF ends
  <2>5. ASSUME NEW i \in 0 .. EndAt(s, lim) - 1, s[i].kind = "end" PROVE FALSE
    <3>1. i \in ends
        BY <1>1, <2>4, <2>5 DEF ends
    <3> QED BY <1>1, <2>2, <2>3, <2>4, <3>1
  <2> QED BY <1>1, <2>4, <2>5 DEF lim
<1> QED BY <1>2, <1>3

\* A name that is found has its 8.3 slot before the end mark.
LEMMA MatchFacts ==
    ASSUME NEW s \in Slotted, NEW k \in 1 .. MaxClusters, NEW n, NEW i \in Matches(s, n, k * PerCluster)
    PROVE  /\ i \in Position /\ i \in 0 .. k * PerCluster - 1 /\ s[i].kind = "short" /\ s[i] \in Slot
           /\ \A j \in 0 .. i : s[j].kind # "end"
<1> DEFINE lim == k * PerCluster
<1>1. i \in 0 .. EndAt(s, lim) - 1 /\ s[i].kind = "short"
    BY DEF Matches, Shorts
<1>2. EndAt(s, lim) \in 0 .. lim /\ \A j \in 0 .. EndAt(s, lim) - 1 : s[j].kind # "end"
    BY EndAtFacts
<1>3. lim \in Nat /\ \A j \in 0 .. lim - 1 : j \in Position
    BY SizeFacts
<1> HIDE DEF lim
<1>4. i \in 0 .. lim - 1 /\ \A j \in 0 .. i : j \in 0 .. EndAt(s, lim) - 1
    BY <1>1, <1>2, <1>3
<1> QED BY <1>1, <1>2, <1>3, <1>4 DEF lim, Slotted

\* What fat32_find_dirent returns: nothing, or the first match
LEMMA SearchFacts ==
    ASSUME NEW d, slots[d] \in Slotted, clusters[d] \in 1 .. MaxClusters, NEW n, NEW i, Search(d, n, i), i # None
    PROVE  /\ i \in Matches(slots[d], n, Limit(d)) /\ i = Min(Matches(slots[d], n, Limit(d)))
           /\ i \in Position /\ i \in 0 .. Limit(d) - 1 /\ slots[d][i].kind = "short"
           /\ slots[d][i] \in Slot
           /\ \A j \in 0 .. i : slots[d][j].kind # "end"
           /\ UNCHANGED errors
<1> DEFINE found == Matches(slots[d], n, Limit(d))
<1>1. found # {} /\ i = Min(found) /\ UNCHANGED errors
    BY DEF Search
<1>2. \A x \in found : x \in Nat
    BY MatchFacts, SizeFacts DEF Limit
<1>3. i \in found
  <2>1. found \subseteq Nat
      BY <1>2
  <2> QED BY <1>1, <2>1, MinOf
<1> QED BY <1>1, <1>3, MatchFacts DEF Limit

\* Where an entry starts
LEMMA StartFacts ==
    ASSUME NEW s, NEW i \in Nat
    PROVE  EntryStart(s, 0, i) \in 0 .. i
<1> DEFINE marks == LastMarks(s, 0, i)
<1>1. marks \subseteq Nat /\ \A x \in marks : x <= i
    BY DEF LastMarks, Fragments
<1>2. marks # {} => Max(marks) \in marks
    BY <1>1, MaxOf
<1> QED BY <1>1, <1>2 DEF EntryStart

\* The names of a directory have files.
LEMMA NamesOfType ==
    ASSUME NEW s \in Slotted, NEW k \in 1 .. MaxClusters
    PROVE  NamesOf(s, k * PerCluster) \in [Class -> File \cup {NoFile}]
<1> DEFINE lim == k * PerCluster
           found(c) == {i \in Shorts(s, 0, lim) : \E n \in Name : Fold[n] = c /\ EntryName(s, 0, i) = n}
<1>1. EndAt(s, lim) \in 0 .. lim /\ lim \in Nat /\ \A j \in 0 .. lim - 1 : j \in Position
    BY EndAtFacts, SizeFacts
<1> HIDE DEF lim
<1>2. \A i \in Shorts(s, 0, lim) : i \in Nat /\ i \in Position
    BY <1>1 DEF Shorts
<1>3. ASSUME NEW c, found(c) # {} PROVE s[Min(found(c))].file \in File \cup {NoFile}
  <2>1. found(c) \subseteq Nat /\ found(c) \subseteq Position
      BY <1>2
  <2>2. Min(found(c)) \in Position
      BY <1>3, <2>1, MinOf
  <2> QED BY <2>2 DEF Slotted, Slot
<1>4. NamesOf(s, lim) = [c \in Class |-> IF found(c) = {} THEN NoFile ELSE s[Min(found(c))].file]
    BY DEF NamesOf
<1> HIDE DEF found
<1> QED BY <1>3, <1>4 DEF lim

\* Where fat32_alloc_fdentry finds room in the first k clusters: no later than
\* at the end mark, and in no more clusters than it says it needs
LEMMA RoomFacts ==
    ASSUME NEW s \in Slotted, NEW k \in 1 .. MaxClusters, NEW w \in Nat, w > 0
    PROVE  LET lim == k * PerCluster
           IN /\ RoomAt(s, w, lim) \in 0 .. EndAt(s, lim)
              /\ Needed(s, w, lim) \in Nat
              /\ RoomAt(s, w, lim) + w <= (k + Needed(s, w, lim)) * PerCluster
<1> DEFINE lim == k * PerCluster
           e == EndAt(s, lim)
           a == RoomAt(s, w, lim)
           tails == {x \in 0 .. e : AllDeleted(s, x, e)}
<1>1. e \in 0 .. lim /\ lim \in Nat /\ PerCluster \in Nat /\ PerCluster > 0
    BY EndAtFacts, SizeFacts
<1> HIDE DEF lim, e
<1>2. a \in 0 .. e
  <2>1. CASE FreeRuns(s, w, lim) # {}
    <3>1. FreeRuns(s, w, lim) \subseteq Nat
        BY <1>1 DEF FreeRuns, e
    <3>2. Min(FreeRuns(s, w, lim)) \in FreeRuns(s, w, lim)
        BY <2>1, <3>1, MinOf
    <3>3. Min(FreeRuns(s, w, lim)) \in 0 .. e - w
        BY <3>2 DEF FreeRuns, e
    <3> QED BY <1>1, <2>1, <3>3 DEF RoomAt
  <2>2. CASE FreeRuns(s, w, lim) = {}
    <3>1. tails \subseteq Nat /\ tails # {}
      <4>1. e \in tails
          BY <1>1 DEF AllDeleted
      <4> QED BY <1>1, <4>1
    <3>2. Min(tails) \in tails
        BY <3>1, MinOf
    <3>3. a = Min(tails)
        BY <2>2 DEF RoomAt, TailStart, e
    <3> QED BY <3>2, <3>3
  <2> QED BY <2>1, <2>2
<1> HIDE DEF a
<1> DEFINE over == a + w - lim
           new == Needed(s, w, lim)
<1>3. new = IF over > 0 THEN (over + PerCluster - 1) \div PerCluster ELSE 0
    BY DEF Needed, a
<1> HIDE DEF new
<1>4. new \in Nat /\ over <= new * PerCluster /\ new * PerCluster \in Nat
  <2>1. CASE over > 0
    <3> DEFINE x == over + PerCluster - 1
               q == x \div PerCluster
    <3>1. x \in Nat /\ PerCluster \in Nat \ {0}
        BY <1>1, <1>2, <2>1
    <3> HIDE DEF x
    <3>2. q \in Nat /\ x < q * PerCluster + PerCluster
        BY <3>1, Quotient
    <3> HIDE DEF q
    <3>3. q * PerCluster \in Nat
        BY <3>1, <3>2
    <3>4. over <= q * PerCluster
      <4> DEFINE y == q * PerCluster
      <4> HIDE DEF y
      <4> QED BY <1>1, <1>2, <3>1, <3>2, <3>3 DEF x, y
    <3>5. new = q
        BY <1>3, <2>1 DEF q, x
    <3> QED BY <3>2, <3>3, <3>4, <3>5
  <2>2. CASE ~(over > 0)
    <3>1. new = 0
        BY <1>3, <2>2
    <3> QED BY <1>1, <1>2, <2>2, <3>1
  <2> QED BY <2>1, <2>2
<1>5. (k + new) * PerCluster = lim + new * PerCluster
    BY <1>1, <1>4 DEF lim
<1>6. a + w <= lim + new * PerCluster
  <2> DEFINE y == new * PerCluster
  <2> HIDE DEF y
  <2> QED BY <1>1, <1>2, <1>4 DEF y
<1> QED BY <1>1, <1>2, <1>4, <1>5, <1>6 DEF a, e, lim, new

\* Writing p slots from position a on
LEMMA OverwriteFacts ==
    ASSUME NEW s \in Slotted, NEW a \in Nat, NEW p \in Nat, NEW new, DOMAIN new = 0 .. p - 1,
           \A i \in 0 .. p - 1 : new[i] \in Slot
    PROVE  /\ Overwrite(s, a, new) \in Slotted
           /\ \A i \in Position : Overwrite(s, a, new)[i] =
                IF a <= i /\ i < a + p THEN new[i - a] ELSE s[i]
<1>1. \A i \in Position : i \in Nat
    BY SizeFacts
<1>2. \A i \in Position : i - a \in 0 .. p - 1 <=> a <= i /\ i < a + p
    BY <1>1
<1> QED BY <1>2 DEF Overwrite, Slotted

\* Marking p slots from position a on as deleted
LEMMA DeleteFacts ==
    ASSUME NEW s \in Slotted, NEW a \in Nat, NEW p \in Nat
    PROVE  /\ Delete(s, a, p) \in Slotted
           /\ \A i \in Position : Delete(s, a, p)[i] =
                IF a <= i /\ i < a + p THEN DeletedSlot ELSE s[i]
<1> DEFINE new == [i \in 0 .. p - 1 |-> DeletedSlot]
<1>1. DeletedSlot \in Slot
    BY DEF DeletedSlot, EmptySlot, Slot
<1>2. DOMAIN new = 0 .. p - 1 /\ \A i \in 0 .. p - 1 : new[i] = DeletedSlot
    OBVIOUS
<1> HIDE DEF new
<1>3. /\ Overwrite(s, a, new) \in Slotted
      /\ \A i \in Position : Overwrite(s, a, new)[i] =
           IF a <= i /\ i < a + p THEN new[i - a] ELSE s[i]
    BY <1>1, <1>2, OverwriteFacts
<1>4. \A i \in Position : a <= i /\ i < a + p => new[i - a] = DeletedSlot
    BY <1>2, SizeFacts
<1> QED BY <1>3, <1>4 DEF Delete, new

\* The slots of an entry
LEMMA EntrySlotFacts ==
    ASSUME NEW n \in Name, NEW f \in File \cup {NoFile}, NEW i \in 0 .. Width[n] - 1
    PROVE  EntrySlot(n, f, i) \in Slot /\ EntrySlot(n, f, i).kind \in {"lfn", "short"}
<1>1. Width[n] \in Nat /\ Width[n] - 1 - i \in Nat
    BY SizeFacts
<1> DEFINE q == Width[n] - 1 - i
           l == q = Width[n] - 1
<1>2. ShortSlot(n, f) \in Slot /\ ShortSlot(n, f).kind = "short"
    BY DEF ShortSlot, Slot
<1>3. LfnSlot(n, q) \in Slot /\ LfnSlot(n, q).kind = "lfn"
  <2>1. LfnSlot(n, q) = [kind |-> "lfn", name |-> n, seq |-> q, last |-> l, file |-> NoFile]
      BY DEF LfnSlot
  <2>2. q \in Nat /\ l \in BOOLEAN
      BY <1>1
  <2> HIDE DEF q, l
  <2> QED BY <2>1, <2>2 DEF Slot
<1> QED BY <1>2, <1>3 DEF EntrySlot

----------------------------------------------------------------------------
(* What every step has to keep *)

\* What the invariant says of the types.
LEMMA DirTypes ==
    ASSUME TypeOK
    PROVE  /\ slots \in [Directory -> Slotted] /\ clusters \in [Directory -> 1 .. MaxClusters]
           /\ op \in [Thread -> Op] /\ open \in [File -> Loc]
           /\ lock \in [Handle -> Thread \cup {NoThread}] /\ uncleared \subseteq Directory
           /\ \A d \in Directory : /\ slots[d] \in Slotted /\ clusters[d] \in 1 .. MaxClusters
                                   /\ Limit(d) \in Nat
                                   /\ \A i \in 0 .. Limit(d) - 1 : i \in Position
           /\ \A h \in Handle : Home[h] \in Directory
           /\ NoHandle \notin Handle /\ NoThread \notin Thread /\ NoFile \notin File /\ NoName \notin Name
<1>1. /\ slots \in [Directory -> Slotted] /\ clusters \in [Directory -> 1 .. MaxClusters]
      /\ op \in [Thread -> Op] /\ open \in [File -> Loc]
      /\ lock \in [Handle -> Thread \cup {NoThread}] /\ uncleared \subseteq Directory
    BY DEF TypeOK, Slotted
<1>2. \A h \in Handle : Home[h] \in Directory
    BY SlotAssumption DEF SlotAssumption
<1>3. ASSUME NEW d \in Directory
      PROVE  /\ slots[d] \in Slotted /\ clusters[d] \in 1 .. MaxClusters
             /\ Limit(d) \in Nat /\ \A i \in 0 .. Limit(d) - 1 : i \in Position
  <2>1. slots[d] \in Slotted /\ clusters[d] \in 1 .. MaxClusters
      BY <1>1
  <2>2. clusters[d] * PerCluster \in Nat
      BY <2>1, SizeFacts
  <2>3. \A i \in 0 .. clusters[d] * PerCluster - 1 : i \in Position
      BY <2>1, SizeFacts
  <2> QED BY <2>1, <2>2, <2>3 DEF Limit
<1>4. NoHandle \notin Handle /\ NoThread \notin Thread /\ NoFile \notin File /\ NoName \notin Name
    BY SlotAssumption DEF SlotAssumption
<1> QED BY <1>1, <1>2, <1>3, <1>4

\* Directories get no shorter, and no slot before an end mark becomes one.
Grows ==
    /\ uncleared \subseteq uncleared' /\ uncleared' \subseteq Directory
    /\ \A d \in Directory :
        /\ clusters'[d] >= clusters[d]
        /\ \A i \in 0 .. Limit(d) - 1 : slots[d][i].kind # "end" => slots'[d][i].kind # "end"

\* What was before the end mark stays there.
LEMMA FrontKept ==
    ASSUME TypeOK, clusters' \in [Directory -> 1 .. MaxClusters], Grows, NEW d \in Directory,
           NEW n \in Nat, Front(d, n)
    PROVE  Front(d, n)'
<1>1. Limit(d) <= Limit(d)' /\ Limit(d) \in Nat /\ Limit(d)' \in Nat
  <2>1. clusters[d] \in Nat /\ clusters'[d] \in Nat /\ clusters[d] <= clusters'[d]
      BY DirTypes DEF Grows
  <2> QED BY <2>1, SizeFacts DEF Limit
<1>2. n <= Limit(d) /\ (d \notin uncleared => \A i \in 0 .. n - 1 : slots[d][i].kind # "end")
    BY DEF Front
<1>3. d \notin uncleared' => \A i \in 0 .. n - 1 : slots'[d][i].kind # "end"
    BY <1>1, <1>2 DEF Grows
<1> QED BY <1>1, <1>2, <1>3 DEF Front

\* What a thread has in hand stays in reach.
LEMMA ReachKept ==
    ASSUME TypeOK, clusters' \in [Directory -> 1 .. MaxClusters], Grows, NEW o \in Op, Shape(o), Reach(o)
    PROVE  Reach(o)'
<1>1. o.at \in Nat /\ o.count \in Nat /\ o.at + o.count \in Nat
    BY DEF Op
<1>2. o.pc # "idle" => Home[o.h] \in Directory /\ Home[o.th] \in Directory
    BY DirTypes DEF Shape
<1>3. o.pc # "idle" => Limit(Home[o.th]) <= Limit(Home[o.th])' /\ Limit(Home[o.th]) \in Nat
                       /\ Limit(Home[o.th])' \in Nat
  <2>1. SUFFICES ASSUME NEW d \in Directory PROVE Limit(d) <= Limit(d)' /\ Limit(d) \in Nat /\ Limit(d)' \in Nat
      BY <1>2
  <2>2. clusters[d] \in Nat /\ clusters'[d] \in Nat /\ clusters[d] <= clusters'[d]
      BY DirTypes DEF Grows
  <2> QED BY <2>2, SizeFacts DEF Limit
<1>4. \A d \in Directory, n \in Nat : Front(d, n) => Front(d, n)'
    BY FrontKept
<1>5. o.pc = "write" => Width[o.m] \in Nat
    BY SizeFacts DEF Shape
<1>6. CASE o.pc \in {"find2", "replace", "delete", "trim"}
  <2>1. Front(Home[o.h], o.at + o.count)'
      BY <1>1, <1>2, <1>4, <1>6 DEF Reach
  <2> QED BY <1>6, <2>1 DEF Reach
<1>7. CASE o.pc = "write"
  <2>1. Front(Home[o.th], o.at)' /\ (o.count > Width[o.m] => Front(Home[o.th], o.at + o.count)')
      BY <1>1, <1>2, <1>4, <1>7 DEF Reach
  <2>2. o.at + Width[o.m] <= Limit(Home[o.th])'
      BY <1>1, <1>3, <1>5, <1>7 DEF Reach
  <2> QED BY <1>7, <2>1, <2>2 DEF Reach
<1>8. CASE o.pc \notin {"find2", "replace", "delete", "trim", "write"}
    BY <1>8 DEF Reach
<1> QED BY <1>6, <1>7, <1>8

----------------------------------------------------------------------------
(* What steps have in common *)

ReaderType == [h : Handle \cup {NoHandle}, at : Nat, seen : SUBSET File, twice : SUBSET File,
               stable : SUBSET File]

\* A step that changes no directory keeps what is known of them.
LEMMA SameSlots ==
    ASSUME EndInv, UNCHANGED <<slots, clusters, uncleared>>
    PROVE  /\ slots' \in [Directory -> Slotted] /\ clusters' \in [Directory -> 1 .. MaxClusters]
           /\ Grows /\ NothingAfterEnd'
<1>1. slots \in [Directory -> Slotted] /\ clusters \in [Directory -> 1 .. MaxClusters] /\ NothingAfterEnd
      /\ uncleared \subseteq Directory
    BY DirTypes DEF EndInv
<1>2. Grows
  <2>1. \A d \in Directory : clusters[d] \in Nat
      BY <1>1
  <2> QED BY <1>1, <2>1 DEF Grows
<1>3. NothingAfterEnd'
    BY <1>1 DEF NothingAfterEnd, Limit
<1> QED BY <1>1, <1>2, <1>3

\* A step that writes some slots, from one that is not after the end mark on,
\* and writes no end mark
LEMMA WriteKept ==
    ASSUME EndInv, NEW d \in Directory, NEW a \in Nat, NEW p \in Nat, NEW s \in Slotted,
           slots' = [slots EXCEPT ![d] = s], clusters' = clusters, uncleared' = uncleared, Front(d, a),
           \A i \in Position : IF a <= i /\ i < a + p THEN s[i].kind # "end"
                               ELSE s[i].kind = slots[d][i].kind
    PROVE  /\ slots' \in [Directory -> Slotted] /\ clusters' \in [Directory -> 1 .. MaxClusters]
           /\ Grows /\ NothingAfterEnd'
<1>1. slots \in [Directory -> Slotted] /\ clusters \in [Directory -> 1 .. MaxClusters] /\ NothingAfterEnd
      /\ uncleared \subseteq Directory
    BY DirTypes DEF EndInv
<1>2. /\ slots' \in [Directory -> Slotted] /\ clusters' \in [Directory -> 1 .. MaxClusters]
      /\ slots'[d] = s /\ \A c \in Directory : c # d => slots'[c] = slots[c]
    BY <1>1
<1>3. /\ Limit(d) \in Nat /\ \A c \in Directory : Limit(c)' = Limit(c) /\ clusters[c] \in Nat
      /\ \A i \in 0 .. Limit(d) - 1 : i \in Position /\ i \in Nat
    BY <1>1, DirTypes DEF EndInv, Limit
<1>4. Grows
    BY <1>1, <1>2, <1>3 DEF Grows
<1>5. ASSUME d \notin uncleared, NEW i \in 0 .. Limit(d) - 1, NEW j \in 0 .. Limit(d) - 1, s[i].kind = "end", i < j
      PROVE  s[j].kind = "end"
  <2>1. ~(a <= i /\ i < a + p)
      BY <1>3, <1>5
  <2>2. slots[d][i].kind = "end"
      BY <1>3, <1>5, <2>1
  <2>3. ~(i < a)
      BY <1>3, <1>5, <2>2 DEF Front
  <2>4. slots[d][j].kind = "end"
      BY <1>1, <1>5, <2>2 DEF NothingAfterEnd
  <2>5. ~(a <= j /\ j < a + p)
      BY <1>3, <1>5, <2>1, <2>3
  <2> QED BY <1>3, <2>4, <2>5
<1>6. NothingAfterEnd'
  <2>1. SUFFICES ASSUME NEW c \in Directory \ uncleared, NEW i \in 0 .. Limit(c) - 1, NEW j \in 0 .. Limit(c) - 1,
                        slots'[c][i].kind = "end", i < j
                 PROVE  slots'[c][j].kind = "end"
      BY <1>3 DEF NothingAfterEnd
  <2>2. CASE c = d
      BY <1>2, <1>5, <2>1, <2>2
  <2>3. CASE c # d
      BY <1>1, <1>2, <2>1, <2>3 DEF NothingAfterEnd
  <2> QED BY <2>2, <2>3
<1> QED BY <1>2, <1>4, <1>6

\* A step that deletes some slots before the end mark
LEMMA DeleteKept ==
    ASSUME EndInv, NEW d \in Directory, NEW a \in Nat, NEW p \in Nat,
           slots' = [slots EXCEPT ![d] = Delete(slots[d], a, p)], clusters' = clusters,
           uncleared' = uncleared, Front(d, a)
    PROVE  /\ slots' \in [Directory -> Slotted] /\ clusters' \in [Directory -> 1 .. MaxClusters]
           /\ Grows /\ NothingAfterEnd'
<1>1. slots[d] \in Slotted
    BY DirTypes DEF EndInv
<1>2. /\ Delete(slots[d], a, p) \in Slotted
      /\ \A i \in Position : Delete(slots[d], a, p)[i] =
           IF a <= i /\ i < a + p THEN DeletedSlot ELSE slots[d][i]
    BY <1>1, DeleteFacts
<1>3. DeletedSlot.kind # "end"
    BY DEF DeletedSlot, EmptySlot
<1>4. \A i \in Position : IF a <= i /\ i < a + p THEN Delete(slots[d], a, p)[i].kind # "end"
                          ELSE Delete(slots[d], a, p)[i].kind = slots[d][i].kind
    BY <1>2, <1>3
<1>5. PICK s \in Slotted : s = Delete(slots[d], a, p)
    BY <1>2
<1> QED BY <1>4, <1>5, WriteKept

\* Fewer slots are before the end mark, too.
LEMMA FrontLess ==
    ASSUME NEW d, NEW n \in Nat, NEW k \in Nat, k <= n, Limit(d) \in Nat, Front(d, n)
    PROVE  Front(d, k)
    BY DEF Front

\* What Publish leaves has its type.
LEMMA PublishType ==
    ASSUME TypeOK, NEW ds, Publish(ds), slots' \in [Directory -> Slotted],
           clusters' \in [Directory -> 1 .. MaxClusters]
    PROVE  shown' \in [Directory -> [Class -> File \cup {NoFile}]] /\ reader' \in ReaderType
<1>1. \A d \in Directory :
        NamesOf(slots'[d], clusters'[d] * PerCluster) \in [Class -> File \cup {NoFile}]
    BY NamesOfType
<1>2. shown' \in [Directory -> [Class -> File \cup {NoFile}]]
    BY <1>1 DEF Publish, TypeOK
<1>3. reader' \in ReaderType
  <2>1. reader \in ReaderType
      BY DEF TypeOK, ReaderType
  <2>2. PICK kept : reader' = [reader EXCEPT !.stable = @ \cap kept, !.seen = @ \cap kept,
                                             !.twice = @ \cap kept]
      BY DEF Publish
  <2> QED BY <2>1, <2>2 DEF ReaderType
<1> QED BY <1>2, <1>3

\* What the end of an operation leaves has its type.
LEMMA ReturnType ==
    ASSUME TypeOK, NEW t \in Thread, Return(t), slots' \in [Directory -> Slotted],
           clusters' \in [Directory -> 1 .. MaxClusters]
    PROVE  /\ shown' \in [Directory -> [Class -> File \cup {NoFile}]] /\ reader' \in ReaderType
           /\ lock' \in [Handle -> Thread \cup {NoThread}]
           /\ op' = [op EXCEPT ![t] = Idle] /\ Idle \in Op
<1>1. shown' \in [Directory -> [Class -> File \cup {NoFile}]] /\ reader' \in ReaderType
    BY PublishType DEF Return, Unlock
<1>2. lock' \in [Handle -> Thread \cup {NoThread}]
    BY DEF Return, Unlock, TypeOK
<1>3. op' = [op EXCEPT ![t] = Idle]
    BY DEF Return, Go
<1>4. Idle \in Op
    BY DEF Idle, Op, PC
<1> QED BY <1>1, <1>2, <1>3, <1>4

\* A step of t that leaves it in operation o keeps the invariant if what it
\* writes and o are sound.
LEMMA StepKeeps ==
    ASSUME EndInv, NEW t \in Thread, NEW o \in Op, op' = [op EXCEPT ![t] = o],
           slots' \in [Directory -> Slotted], clusters' \in [Directory -> 1 .. MaxClusters],
           Grows, NothingAfterEnd', Shape(o), Reach(o)',
           lock' \in [Handle -> Thread \cup {NoThread}], open' \in [File -> Loc], OpenInv',
           reader' \in ReaderType, errors' \in Nat,
           shown' \in [Directory -> [Class -> File \cup {NoFile}]]
    PROVE  EndInv'
<1>1. op \in [Thread -> Op] /\ TypeOK
    BY DEF EndInv, TypeOK
<1>2. op' \in [Thread -> Op] /\ op'[t] = o /\ \A u \in Thread : u # t => op'[u] = op[u]
    BY <1>1
<1>3. TypeOK'
    BY <1>2 DEF TypeOK, Slotted, ReaderType, Grows
<1>4. ASSUME NEW u \in Thread PROVE Shape(op'[u]) /\ Reach(op[u])'
  <2>1. CASE u = t
    <3>1. op'[u] = o
        BY <1>2, <2>1
    <3> QED BY <3>1 DEF Shape, Reach, SameDir, Front, Limit
  <2>2. CASE u # t
    <3>1. PICK x \in Op : x = op[u]
        BY <1>1
    <3>2. Shape(x) /\ Reach(x)
        BY <3>1 DEF EndInv, OpInv
    <3>3. Reach(x)'
        BY <1>1, <3>2, ReachKept
    <3>4. op'[u] = x
        BY <1>2, <2>2, <3>1
    <3> QED BY <3>2, <3>3, <3>4 DEF Shape, Reach, SameDir, Front, Limit
  <2> QED BY <2>1, <2>2
<1>5. OpInv'
    BY <1>4 DEF OpInv, Shape, SameDir
<1> QED BY <1>3, <1>5 DEF EndInv

\* The same for a step of no thread's operation
LEMMA OthersKeep ==
    ASSUME EndInv, op' = op,
           slots' \in [Directory -> Slotted], clusters' \in [Directory -> 1 .. MaxClusters],
           Grows, NothingAfterEnd',
           lock' \in [Handle -> Thread \cup {NoThread}], open' \in [File -> Loc], OpenInv',
           reader' \in ReaderType, errors' \in Nat,
           shown' \in [Directory -> [Class -> File \cup {NoFile}]]
    PROVE  EndInv'
<1>1. op \in [Thread -> Op] /\ TypeOK
    BY DEF EndInv, TypeOK
<1>2. TypeOK'
    BY <1>1 DEF TypeOK, Slotted, ReaderType, Grows
<1>3. ASSUME NEW u \in Thread PROVE Shape(op'[u]) /\ Reach(op[u])'
  <2>1. PICK x \in Op : x = op[u]
      BY <1>1
  <2>2. Shape(x) /\ Reach(x)
      BY <2>1 DEF EndInv, OpInv
  <2>3. Reach(x)'
      BY <1>1, <2>2, ReachKept
  <2>4. op'[u] = x
      BY <2>1
  <2> QED BY <2>2, <2>3, <2>4 DEF Shape, Reach, SameDir, Front, Limit
<1>4. OpInv'
    BY <1>3 DEF OpInv, Shape, SameDir
<1> QED BY <1>2, <1>4 DEF EndInv

\* An operation that ends keeps the invariant if what it writes is sound.
LEMMA ReturnKeeps ==
    ASSUME EndInv, NEW t \in Thread, Return(t),
           slots' \in [Directory -> Slotted], clusters' \in [Directory -> 1 .. MaxClusters],
           Grows, NothingAfterEnd', open' \in [File -> Loc], OpenInv', errors' \in Nat
    PROVE  EndInv'
<1>1. TypeOK
    BY DEF EndInv
<1>2. /\ shown' \in [Directory -> [Class -> File \cup {NoFile}]] /\ reader' \in ReaderType
      /\ lock' \in [Handle -> Thread \cup {NoThread}]
      /\ op' = [op EXCEPT ![t] = Idle] /\ Idle \in Op
    BY <1>1, ReturnType
<1>3. PICK o \in Op : o = Idle
    BY <1>2
<1>4. o.pc = "idle" /\ o.kind = "none" /\ o.file = NoFile
    BY <1>3 DEF Idle
<1>5. Shape(o) /\ Reach(o)'
    BY <1>4 DEF Shape, Reach
<1> QED BY <1>2, <1>3, <1>5, StepKeeps

\* The pieces of the state a step leaves alone
LEMMA Kept ==
    ASSUME EndInv
    PROVE  /\ TypeOK /\ NothingAfterEnd /\ OpenInv
           /\ lock \in [Handle -> Thread \cup {NoThread}]
           /\ open \in [File -> Loc] /\ reader \in ReaderType /\ errors \in Nat
           /\ shown \in [Directory -> [Class -> File \cup {NoFile}]]
           /\ UNCHANGED open => OpenInv'
           /\ UNCHANGED errors => errors' \in Nat
           /\ IOError => errors' \in Nat
           /\ \A d, n, i : Search(d, n, i) => errors' \in Nat
           /\ \A a, c, p : Deletes(a, c, p) => errors' \in Nat
<1>1. TypeOK /\ NothingAfterEnd /\ OpenInv
    BY DEF EndInv
<1>2. /\ lock \in [Handle -> Thread \cup {NoThread}]
      /\ open \in [File -> Loc] /\ reader \in ReaderType /\ errors \in Nat
      /\ shown \in [Directory -> [Class -> File \cup {NoFile}]]
    BY <1>1 DEF TypeOK, ReaderType
<1>3. UNCHANGED open => OpenInv'
    BY <1>1 DEF OpenInv
<1>4. (UNCHANGED errors => errors' \in Nat) /\ (IOError => errors' \in Nat)
    BY <1>2 DEF IOError
<1>5. \A d, n, i : Search(d, n, i) => UNCHANGED errors \/ IOError
    BY Zenon DEF Search
<1>6. \A a, c, p : Deletes(a, c, p) => UNCHANGED errors \/ IOError
    BY Zenon DEF Deletes
<1> QED BY <1>1, <1>2, <1>3, <1>4, <1>5, <1>6

\* The operation of a thread that is not idle
LEMMA OpFacts ==
    ASSUME EndInv, NEW t \in Thread
    PROVE  /\ op[t] \in Op /\ Shape(op[t]) /\ Reach(op[t])
           /\ op[t].at \in Nat /\ op[t].count \in Nat
           /\ op[t].pc # "idle" => /\ Home[op[t].h] \in Directory /\ Home[op[t].th] \in Directory
                                   /\ Width[op[t].m] \in Nat /\ Width[op[t].m] > 0
<1>1. op[t] \in Op /\ Shape(op[t]) /\ Reach(op[t])
    BY DirTypes DEF EndInv, OpInv
<1>2. op[t].at \in Nat /\ op[t].count \in Nat
    BY <1>1 DEF Op
<1>3. op[t].pc # "idle" => /\ Home[op[t].h] \in Directory /\ Home[op[t].th] \in Directory
                           /\ Width[op[t].m] \in Nat /\ Width[op[t].m] > 0
    BY <1>1, DirTypes, SizeFacts DEF EndInv, Shape
<1> QED BY <1>1, <1>2, <1>3

\* The entry a search finds lies before the end mark.
LEMMA FoundFacts ==
    ASSUME EndInv, NEW d \in Directory, NEW n, NEW i \in Matches(slots[d], n, Limit(d))
    PROVE  LET a == EntryStart(slots[d], 0, i)
           IN /\ i \in Position /\ a \in Nat /\ i - a + 1 \in Nat /\ i - a + 1 > 0
              /\ Front(d, a + (i - a + 1)) /\ slots[d][i].file \in File \cup {NoFile}
              /\ slots[d][i].kind = "short"
<1> DEFINE a == EntryStart(slots[d], 0, i)
<1>1. slots[d] \in Slotted /\ clusters[d] \in 1 .. MaxClusters /\ Limit(d) \in Nat
    BY DirTypes DEF EndInv
<1>2. /\ i \in Position /\ i \in 0 .. Limit(d) - 1 /\ slots[d][i].kind = "short" /\ slots[d][i] \in Slot
      /\ \A j \in 0 .. i : slots[d][j].kind # "end"
    BY <1>1, MatchFacts DEF Limit
<1>3. i \in Nat
    BY <1>2, SizeFacts
<1>4. a \in 0 .. i
    BY <1>3, StartFacts
<1> HIDE DEF a
<1>5. a \in Nat /\ i - a + 1 \in Nat /\ i - a + 1 > 0 /\ a + (i - a + 1) = i + 1
    BY <1>3, <1>4
<1>6. Front(d, i + 1)
    BY <1>1, <1>2, <1>3 DEF Front
<1>7. slots[d][i].file \in File \cup {NoFile}
    BY <1>2 DEF Slot
<1> QED BY <1>2, <1>5, <1>6, <1>7 DEF a

\* The operation a search that finds slot i goes on with
FoundThen(o, s, i, pc) == [Found(o, s, i) EXCEPT !.pc = pc]

\* It has an entry of the directory in hand.
LEMMA FoundOp ==
    ASSUME EndInv, NEW o \in Op, o.h \in Handle, NEW n,
           NEW i \in Matches(slots[Home[o.h]], n, Limit(Home[o.h])), NEW pc \in PC,
           NEW q, q = FoundThen(o, slots[Home[o.h]], i, pc)
    PROVE  /\ q \in Op /\ q.pc = pc /\ q.kind = o.kind /\ q.h = o.h /\ q.th = o.th
           /\ q.n = o.n /\ q.m = o.m /\ Front(Home[q.h], q.at + q.count) /\ q.count > 0
<1> DEFINE d == Home[o.h]
           s == slots[d]
           a == EntryStart(s, 0, i)
           c == i - a + 1
           f == s[i].file
<1>1. d \in Directory
    BY DirTypes DEF EndInv
<1>2. a \in Nat /\ c \in Nat /\ c > 0 /\ Front(d, a + c) /\ f \in File \cup {NoFile}
    BY <1>1, FoundFacts
<1>3. q = [[o EXCEPT !.file = f, !.at = a, !.count = c] EXCEPT !.pc = pc]
    BY DEF Found, FoundThen
<1> HIDE DEF a, c, f
<1>4. q \in Op /\ q.pc = pc /\ q.kind = o.kind /\ q.h = o.h /\ q.th = o.th
      /\ q.n = o.n /\ q.m = o.m /\ q.at = a /\ q.count = c
    BY <1>2, <1>3 DEF Op
<1> QED BY <1>2, <1>4

----------------------------------------------------------------------------
(* Every action keeps the invariant *)

\* fat32_rename locks the second directory: the end of directories.
LEMMA LockTargetKeeps ==
    ASSUME EndInv, NEW t \in Thread, LockTarget(t), uncleared' = uncleared PROVE EndInv'
<1>1. PICK o \in Op : o = op[t]
    BY OpFacts
<1>2. o.pc = "lock" /\ op' = [op EXCEPT ![t] = [o EXCEPT !.pc = "find"]]
      /\ lock' = [lock EXCEPT ![o.th] = t] /\ UNCHANGED <<slots, clusters, open, reader, errors, shown>>
    BY <1>1 DEF LockTarget, Go
<1>3. PICK q \in Op : q = [o EXCEPT !.pc = "find"]
    BY DEF Op, PC
<1>4. q.pc = "find" /\ q.kind = o.kind /\ q.h = o.h /\ q.th = o.th /\ q.n = o.n /\ q.m = o.m
    BY <1>3 DEF Op
<1>5. Shape(o)
    BY <1>1, OpFacts
<1>6. Shape(q) /\ Reach(q)'
    BY <1>2, <1>4, <1>5 DEF Shape, Reach, SameDir
<1>7. lock' \in [Handle -> Thread \cup {NoThread}]
    BY <1>2, Kept
<1> QED BY <1>2, <1>3, <1>6, <1>7, SameSlots, Kept, StepKeeps

\* An operation begins: the end of directories.
LEMMA CallKeeps ==
    ASSUME EndInv, NEW t \in Thread, NEW h \in Handle, NEW th \in Handle, NEW n \in Name, NEW m \in Name,
           NEW f \in File \cup {NoFile}, NEW k \in {"create", "remove", "rename"},
           k # "rename" => h = th /\ n = m, Call(t, k, h, th, n, m, f), uncleared' = uncleared
    PROVE  EndInv'
<1> DEFINE pc == IF Home[h] = Home[th] THEN "find" ELSE "lock"
           q == [pc |-> pc, kind |-> k, h |-> h, th |-> th, n |-> n, m |-> m, file |-> f,
                 at |-> 0, count |-> 0]
<1>1. op' = [op EXCEPT ![t] = q] /\ lock' = [lock EXCEPT ![h] = t]
      /\ UNCHANGED <<slots, clusters, open, reader, errors, shown>>
    BY DEF Call, Go
<1>2. pc \in PC /\ pc \in {"find", "lock"} /\ (pc = "lock" => Home[h] # Home[th])
    BY DEF PC
<1> HIDE DEF pc
<1>3. PICK o \in Op : o = q
    BY <1>2 DEF Op
<1>4. o.pc = pc /\ o.kind = k /\ o.h = h /\ o.th = th /\ o.n = n /\ o.m = m
    BY <1>3
<1> HIDE DEF q
<1>5. Shape(o)
    BY <1>2, <1>4 DEF Shape, SameDir
<1>6. Reach(o)'
    BY <1>2, <1>4 DEF Reach
<1>7. lock' \in [Handle -> Thread \cup {NoThread}]
    BY <1>1, Kept
<1> QED BY <1>1, <1>3, <1>5, <1>6, <1>7, SameSlots, Kept, StepKeeps

\* Each operation begins: the end of directories.
LEMMA BeginKeeps ==
    ASSUME EndInv, NEW t \in Thread, Begin(t), uncleared' = uncleared PROVE EndInv'
<1>1. PICK h \in Handle, n \in Name :
        \/ \E f \in File : Create(t, h, n, f)
        \/ Remove(t, h, n)
        \/ \E th \in Handle, m \in Name : Rename(t, h, n, th, m)
    BY Zenon DEF Begin
<1>2. CASE \E f \in File : Create(t, h, n, f)
    BY <1>2, CallKeeps DEF Create
<1>3. CASE Remove(t, h, n)
    BY <1>3, CallKeeps DEF Remove
<1>4. CASE \E th \in Handle, m \in Name : Rename(t, h, n, th, m)
    BY <1>4, CallKeeps DEF Rename
<1> QED BY <1>1, <1>2, <1>3, <1>4

\* A vnode of a file is of a directory, too.
LEMMA MakeVnodeKeeps ==
    ASSUME EndInv, NEW h \in Handle, NEW n, NEW i \in Matches(slots[Home[h]], n, Limit(Home[h])),
           MakeVnode(h, slots[Home[h]], i)
    PROVE  open' \in [File -> Loc] /\ OpenInv'
<1> DEFINE d == Home[h]
           a == EntryStart(slots[d], 0, i)
           c == i - a + 1
           f == slots[d][i].file
           x == [h |-> h, at |-> a, count |-> c]
<1>1. d \in Directory
    BY DirTypes DEF EndInv
<1>2. a \in Nat /\ c \in Nat /\ f \in File \cup {NoFile}
    BY <1>1, FoundFacts
<1>3. f # NoFile /\ open' = [open EXCEPT ![f] = x]
    BY DEF MakeVnode
<1> HIDE DEF a, c, f
<1>4. x \in Loc /\ x.h \in Handle
    BY <1>2 DEF Loc
<1> HIDE DEF x
<1>5. open' \in [File -> Loc] /\ \A g \in File : open'[g] = IF g = f THEN x ELSE open[g]
    BY <1>3, <1>4, Kept
<1> QED BY <1>4, <1>5, Kept DEF OpenInv

\* The search for the name: the end of directories.
LEMMA FindNameKeeps ==
    ASSUME EndInv, NEW t \in Thread, FindName(t), uncleared' = uncleared PROVE EndInv'
<1>1. PICK o \in Op : o = op[t]
    BY OpFacts
<1> DEFINE s == slots[Home[o.h]]
<1>2. o.pc = "find" /\ UNCHANGED <<slots, clusters>>
    BY <1>1 DEF FindName
<1>3. PICK i \in Position \cup {None} :
        /\ Search(Home[o.h], o.n, i)
        /\ \/ /\ o.kind = "create" /\ i = None
              /\ Go(t, [o EXCEPT !.pc = "alloc"]) /\ UNCHANGED <<lock, open, reader, shown>>
           \/ /\ o.kind = "create" /\ i # None
              /\ Return(t) /\ (MakeVnode(o.h, s, i) \/ UNCHANGED open)
           \/ /\ o.kind # "create" /\ i # None
              /\ Go(t, [Found(o, s, i) EXCEPT !.pc = IF o.kind = "rename" THEN "find2" ELSE "delete"])
              /\ UNCHANGED <<lock, open, reader, shown>>
           \/ Return(t) /\ UNCHANGED open
    BY <1>1 DEF FindName
<1>4. Shape(o) /\ o.h \in Handle /\ Home[o.h] \in Directory
    BY <1>1, <1>2, OpFacts DEF Shape
<1>5. i # None => i \in Matches(slots[Home[o.h]], o.n, Limit(Home[o.h]))
    BY <1>3, <1>4, SearchFacts, DirTypes DEF EndInv
<1>6. errors' \in Nat
    BY <1>3, Kept
<1>7. CASE /\ o.kind = "create" /\ i = None
           /\ Go(t, [o EXCEPT !.pc = "alloc"]) /\ UNCHANGED <<lock, open, reader, shown>>
  <2>1. PICK q \in Op : q = [o EXCEPT !.pc = "alloc"]
      BY DEF Op, PC
  <2>2. q.pc = "alloc" /\ q.kind = o.kind /\ q.h = o.h /\ q.th = o.th /\ q.n = o.n /\ q.m = o.m
      BY <2>1 DEF Op
  <2>3. Shape(q) /\ Reach(q)'
      BY <1>2, <1>4, <1>7, <2>2 DEF Shape, Reach, SameDir
  <2> QED BY <1>2, <1>6, <1>7, <2>1, <2>3, SameSlots, Kept, StepKeeps DEF Go
<1>8. CASE /\ o.kind = "create" /\ i # None
           /\ Return(t) /\ (MakeVnode(o.h, s, i) \/ UNCHANGED open)
  <2>1. open' \in [File -> Loc] /\ OpenInv'
      BY <1>4, <1>5, <1>8, MakeVnodeKeeps, Kept
  <2> QED BY <1>2, <1>6, <1>8, <2>1, SameSlots, ReturnKeeps
<1>9. CASE /\ o.kind # "create" /\ i # None
           /\ Go(t, [Found(o, s, i) EXCEPT !.pc = IF o.kind = "rename" THEN "find2" ELSE "delete"])
           /\ UNCHANGED <<lock, open, reader, shown>>
  <2> DEFINE pc == IF o.kind = "rename" THEN "find2" ELSE "delete"
  <2>1. pc \in PC /\ pc \in {"find2", "delete"} /\ (pc = "find2" => o.kind = "rename")
      BY DEF PC
  <2>2. op' = [op EXCEPT ![t] = [Found(o, s, i) EXCEPT !.pc = pc]]
      BY <1>9 DEF Go
  <2> HIDE DEF pc
  <2>3. PICK q : q = [Found(o, s, i) EXCEPT !.pc = pc]
      OBVIOUS
  <2>3a. /\ EndInv /\ o \in Op /\ i \in Matches(slots[Home[o.h]], o.n, Limit(Home[o.h])) /\ o.h \in Handle
         /\ q = FoundThen(o, slots[Home[o.h]], i, pc) /\ pc \in PC
      BY <1>4, <1>5, <1>9, <2>1, <2>3 DEF FoundThen
  <2>4. q \in Op /\ q.pc = pc /\ q.kind = o.kind /\ q.h = o.h /\ q.th = o.th /\ q.n = o.n /\ q.m = o.m
        /\ Front(Home[q.h], q.at + q.count) /\ q.count > 0
      BY ONLY <2>3a, FoundOp
  <2>5. Shape(q)
      BY <1>2, <1>4, <1>9, <2>1, <2>4 DEF Shape, SameDir
  <2>6. Reach(q)
      BY <2>1, <2>4 DEF Reach
  <2>7. Reach(q)'
      BY <1>2, <2>4, <2>5, <2>6, SameSlots, ReachKept, Kept
  <2> QED BY <1>2, <1>6, <1>9, <2>2, <2>3, <2>4, <2>5, <2>7, SameSlots, Kept, StepKeeps
<1>10. CASE Return(t) /\ UNCHANGED open
    BY <1>2, <1>6, <1>10, SameSlots, Kept, ReturnKeeps
<1> QED BY <1>3, <1>7, <1>8, <1>9, <1>10

\* What fat32_rename does once the new name is free
LEMMA RenameGoesOn ==
    ASSUME EndInv, NEW o \in Op, Shape(o), Reach(o), o.pc \in {"find2", "replace"}
    PROVE  /\ [o EXCEPT !.pc = NextOfRename(o)] \in Op
           /\ Shape([o EXCEPT !.pc = NextOfRename(o)]) /\ Reach([o EXCEPT !.pc = NextOfRename(o)])
<1> DEFINE pc == NextOfRename(o)
           q == [o EXCEPT !.pc = pc]
<1>1. pc \in {"write", "delete"} /\ pc \in PC
      /\ (pc = "write" => SameDir(o) /\ Width[o.m] <= o.count)
    BY DEF NextOfRename, PC
<1> HIDE DEF pc
<1>2. q \in Op /\ q.pc = pc /\ q.kind = o.kind /\ q.h = o.h /\ q.th = o.th /\ q.n = o.n /\ q.m = o.m
      /\ q.at = o.at /\ q.count = o.count
    BY <1>1 DEF Op
<1> HIDE DEF q
<1>3. Shape(q)
    BY <1>1, <1>2 DEF Shape, SameDir
<1>4. /\ Home[o.h] \in Directory /\ Limit(Home[o.h]) \in Nat /\ Width[o.m] \in Nat
      /\ o.at \in Nat /\ o.count \in Nat
    BY DirTypes, SizeFacts DEF EndInv, Shape, Op
<1>5. Front(Home[o.h], o.at + o.count) /\ o.count > 0 /\ o.at + o.count <= Limit(Home[o.h])
    BY DEF Reach, Front
<1>6. Front(Home[o.h], o.at)
    BY <1>4, <1>5, FrontLess
<1>7. ASSUME pc = "delete" PROVE Reach(q)
    BY <1>2, <1>5, <1>7 DEF Reach
<1>8. ASSUME pc = "write" PROVE Reach(q)
  <2>1. Home[q.th] = Home[o.h] /\ SameDir(q)
      BY <1>1, <1>2, <1>8 DEF SameDir
  <2>2. q.at + Width[q.m] <= Limit(Home[q.th]) /\ q.count >= Width[q.m]
      BY <1>1, <1>2, <1>4, <1>5, <1>8, <2>1
  <2>3. q.kind = "rename"
      BY <1>2 DEF Shape
  <2> QED BY <1>2, <1>5, <1>6, <1>8, <2>1, <2>2, <2>3 DEF Reach
<1> QED BY <1>1, <1>2, <1>3, <1>7, <1>8 DEF pc, q

\* fat32_rename's search for the new name: the end of directories.
LEMMA FindTargetKeeps ==
    ASSUME EndInv, NEW t \in Thread, FindTarget(t), uncleared' = uncleared PROVE EndInv'
<1>1. PICK o \in Op : o = op[t]
    BY OpFacts
<1>2. o.pc = "find2" /\ UNCHANGED <<slots, clusters, lock, open, reader, shown>>
    BY <1>1 DEF FindTarget
<1>3. PICK i \in Position \cup {None} :
        /\ Search(Home[o.th], o.m, i)
        /\ op' = [op EXCEPT ![t] = [o EXCEPT !.pc = IF i = None THEN NextOfRename(o) ELSE "replace"]]
    BY <1>1 DEF FindTarget, Go
<1>4. Shape(o) /\ Reach(o)
    BY <1>1, OpFacts
<1>5. errors' \in Nat
    BY <1>3, Kept
<1>6. CASE i = None
  <2>1. PICK q \in Op : q = [o EXCEPT !.pc = NextOfRename(o)]
      BY <1>2, <1>4, RenameGoesOn
  <2>2. Shape(q) /\ Reach(q)
      BY <1>2, <1>4, <2>1, RenameGoesOn
  <2>3. Reach(q)'
      BY <1>2, <2>2, SameSlots, ReachKept, Kept
  <2>4. op' = [op EXCEPT ![t] = q]
      BY <1>3, <1>6, <2>1
  <2> QED BY <1>2, <1>5, <2>2, <2>3, <2>4, SameSlots, Kept, StepKeeps
<1>7. CASE i # None
  <2>1. PICK q \in Op : q = [o EXCEPT !.pc = "replace"]
      BY DEF Op, PC
  <2>2. q.pc = "replace" /\ q.kind = o.kind /\ q.h = o.h /\ q.th = o.th /\ q.n = o.n /\ q.m = o.m
        /\ q.at = o.at /\ q.count = o.count
      BY <2>1 DEF Op
  <2>3. Shape(q)
      BY <1>2, <1>4, <2>2 DEF Shape, SameDir
  <2>4. Reach(q)
      BY <1>2, <1>4, <2>2 DEF Reach
  <2>5. Reach(q)'
      BY <1>2, <2>3, <2>4, SameSlots, ReachKept, Kept
  <2>6. op' = [op EXCEPT ![t] = q]
      BY <1>3, <1>7, <2>1
  <2> QED BY <1>2, <1>5, <2>3, <2>5, <2>6, SameSlots, Kept, StepKeeps
<1> QED BY <1>6, <1>7

\* fat32_rename removes what has the new name: the end of directories.
LEMMA ReplaceTargetKeeps ==
    ASSUME EndInv, NEW t \in Thread, ReplaceTarget(t), uncleared' = uncleared PROVE EndInv'
<1>1. PICK o \in Op : o = op[t]
    BY OpFacts
<1>2. PICK d \in Directory : d = Home[o.th]
    BY <1>1, OpFacts DEF ReplaceTarget
<1> DEFINE found == Matches(slots[d], o.m, Limit(d))
<1>3. o.pc = "replace" /\ UNCHANGED <<clusters, open>>
    BY <1>1 DEF ReplaceTarget
<1>4. \/ /\ found # {}
         /\ \E p \in 0 .. Found(o, slots[d], Min(found)).count :
              /\ Deletes(Found(o, slots[d], Min(found)).at, Found(o, slots[d], Min(found)).count, p)
              /\ slots' = [slots EXCEPT ![d] = Delete(slots[d], Found(o, slots[d], Min(found)).at, p)]
         /\ Go(t, [o EXCEPT !.pc = NextOfRename(o)])
         /\ Publish({d})
         /\ UNCHANGED lock
      \/ Search(d, o.m, None) /\ UNCHANGED slots /\ Return(t)
    BY <1>1, <1>2 DEF ReplaceTarget
<1>5. Shape(o) /\ Reach(o)
    BY <1>1, OpFacts
<1>6. CASE /\ found # {}
           /\ \E p \in 0 .. Found(o, slots[d], Min(found)).count :
                /\ Deletes(Found(o, slots[d], Min(found)).at, Found(o, slots[d], Min(found)).count, p)
                /\ slots' = [slots EXCEPT ![d] = Delete(slots[d], Found(o, slots[d], Min(found)).at, p)]
           /\ Go(t, [o EXCEPT !.pc = NextOfRename(o)])
           /\ Publish({d})
           /\ UNCHANGED lock
  <2>1. Min(found) \in found
    <3>1. \A x \in found : x \in Nat
        BY FoundFacts, SizeFacts
    <3>2. found \subseteq Nat
        BY <3>1
    <3> QED BY <1>6, <3>2, MinOf
  <2>2. PICK i \in found : i = Min(found)
      BY <2>1
  <2> DEFINE a == EntryStart(slots[d], 0, i)
             c == i - a + 1
             f == slots[d][i].file
  <2>3. a \in Nat /\ c \in Nat /\ Front(d, a + c)
      BY FoundFacts
  <2>4. Found(o, slots[d], Min(found)) = [o EXCEPT !.file = f, !.at = a, !.count = c]
      BY <2>2 DEF Found
  <2> HIDE DEF found, a, c, f
  <2>5. Found(o, slots[d], Min(found)).at = a /\ Found(o, slots[d], Min(found)).count = c
      BY <2>3, <2>4 DEF Op
  <2>6. PICK p \in 0 .. c : Deletes(a, c, p) /\ slots' = [slots EXCEPT ![d] = Delete(slots[d], a, p)]
      BY <1>6, <2>5
  <2>7. Front(d, a) /\ p \in Nat
      BY <2>3, FrontLess, DirTypes DEF EndInv
  <2>8. /\ slots' \in [Directory -> Slotted] /\ clusters' \in [Directory -> 1 .. MaxClusters]
        /\ Grows /\ NothingAfterEnd'
      BY <1>3, <2>3, <2>6, <2>7, DeleteKept
  <2>9. PICK q \in Op : q = [o EXCEPT !.pc = NextOfRename(o)]
      BY <1>3, <1>5, RenameGoesOn
  <2>10. Shape(q) /\ Reach(q)
      BY <1>3, <1>5, <2>9, RenameGoesOn
  <2>11. Reach(q)'
      BY <2>8, <2>10, ReachKept, Kept
  <2>12. op' = [op EXCEPT ![t] = q]
      BY <1>6, <2>9 DEF Go
  <2>13. shown' \in [Directory -> [Class -> File \cup {NoFile}]] /\ reader' \in ReaderType
      BY <1>6, <2>8, PublishType, Kept
  <2>14. errors' \in Nat
      BY <2>6, Kept
  <2>15. UNCHANGED lock
      BY <1>6
  <2> QED BY <1>3, <2>8, <2>10, <2>11, <2>12, <2>13, <2>14, <2>15, Kept, StepKeeps
<1>7. CASE Search(d, o.m, None) /\ UNCHANGED slots /\ Return(t)
    BY <1>3, <1>7, SameSlots, Kept, ReturnKeeps
<1> QED BY <1>4, <1>6, <1>7

\* A search that ends with a device error: the end of directories.
LEMMA SearchErrorKeeps ==
    ASSUME EndInv, NEW t \in Thread, SearchError(t), uncleared' = uncleared PROVE EndInv'
    BY SameSlots, Kept, ReturnKeeps DEF SearchError

\* fat32_delete_fdentry: the end of directories.
LEMMA DeleteEntryKeeps ==
    ASSUME EndInv, NEW t \in Thread, DeleteEntry(t), uncleared' = uncleared PROVE EndInv'
<1>1. PICK o \in Op : o = op[t]
    BY OpFacts
<1>2. o.pc = "delete" /\ UNCHANGED <<clusters, open>>
    BY <1>1 DEF DeleteEntry
<1>3. PICK d \in Directory : d = Home[o.h]
    BY <1>1, <1>2, OpFacts
<1>4. PICK p \in 0 .. o.count :
        /\ Deletes(o.at, o.count, p)
        /\ slots' = [slots EXCEPT ![d] = Delete(slots[d], o.at, p)]
        /\ \/ o.kind = "rename" /\ Go(t, [o EXCEPT !.pc = "alloc"]) /\ UNCHANGED <<lock, reader, shown>>
           \/ Return(t)
    BY <1>1, <1>3 DEF DeleteEntry
<1>5. Shape(o) /\ Front(d, o.at + o.count) /\ o.at \in Nat /\ o.count \in Nat
    BY <1>1, <1>2, <1>3, OpFacts DEF Reach
<1>6. Front(d, o.at) /\ p \in Nat
    BY <1>5, FrontLess, DirTypes DEF EndInv
<1>7. /\ slots' \in [Directory -> Slotted] /\ clusters' \in [Directory -> 1 .. MaxClusters]
      /\ Grows /\ NothingAfterEnd'
    BY <1>2, <1>4, <1>5, <1>6, DeleteKept
<1>8. errors' \in Nat
    BY <1>4, Kept
<1>9. CASE o.kind = "rename" /\ Go(t, [o EXCEPT !.pc = "alloc"]) /\ UNCHANGED <<lock, reader, shown>>
  <2>1. PICK q \in Op : q = [o EXCEPT !.pc = "alloc"]
      BY DEF Op, PC
  <2>2. q.pc = "alloc" /\ q.kind = o.kind /\ q.h = o.h /\ q.th = o.th /\ q.n = o.n /\ q.m = o.m
      BY <2>1 DEF Op
  <2>3. Shape(q) /\ Reach(q)'
      BY <1>2, <1>5, <1>9, <2>2 DEF Shape, Reach, SameDir
  <2> QED BY <1>2, <1>7, <1>8, <1>9, <2>1, <2>3, Kept, StepKeeps DEF Go
<1>10. CASE Return(t)
    BY <1>2, <1>7, <1>8, <1>10, Kept, ReturnKeeps
<1> QED BY <1>4, <1>9, <1>10

\* fat32_rename deletes what a shorter name leaves: the end of directories.
LEMMA TrimEntryKeeps ==
    ASSUME EndInv, NEW t \in Thread, TrimEntry(t), uncleared' = uncleared PROVE EndInv'
<1>1. PICK o \in Op : o = op[t]
    BY OpFacts
<1> DEFINE a == o.at + Width[o.m]
           c == o.count - Width[o.m]
<1>2. o.pc = "trim" /\ UNCHANGED <<clusters, open>> /\ Return(t)
    BY <1>1 DEF TrimEntry
<1>3. PICK d \in Directory : d = Home[o.h]
    BY <1>1, <1>2, OpFacts
<1>4. PICK p \in 0 .. c : Deletes(a, c, p) /\ slots' = [slots EXCEPT ![d] = Delete(slots[d], a, p)]
    BY <1>1, <1>3 DEF TrimEntry
<1>5. Front(d, o.at + o.count) /\ o.at \in Nat /\ o.count \in Nat /\ Width[o.m] \in Nat /\ o.count > Width[o.m]
    BY <1>1, <1>2, <1>3, OpFacts DEF Reach
<1>6. Front(d, a) /\ a \in Nat /\ p \in Nat
    BY <1>5, FrontLess, DirTypes DEF EndInv
<1>7. /\ slots' \in [Directory -> Slotted] /\ clusters' \in [Directory -> 1 .. MaxClusters]
      /\ Grows /\ NothingAfterEnd'
    BY <1>2, <1>4, <1>6, DeleteKept
<1> QED BY <1>2, <1>4, <1>7, Kept, ReturnKeeps

\* fat32_create_fdentry writes: the end of directories.
LEMMA WriteEntryKeeps ==
    ASSUME EndInv, NEW t \in Thread, WriteEntry(t), uncleared' = uncleared PROVE EndInv'
<1>1. PICK o \in Op : o = op[t]
    BY OpFacts
<1>2. o.pc = "write" /\ UNCHANGED clusters
    BY <1>1 DEF WriteEntry
<1>3. PICK d \in Directory : d = Home[o.th]
    BY <1>1, <1>2, OpFacts
<1> DEFINE w == Width[o.m]
           new(p) == [i \in 0 .. p - 1 |-> EntrySlot(o.m, o.file, i)]
<1>4. PICK p \in 0 .. w :
        /\ IF p = w THEN UNCHANGED errors ELSE IOError
        /\ slots' = [slots EXCEPT ![d] = Overwrite(slots[d], o.at, new(p))]
        /\ open' = IF o.kind = "create" /\ p = w
                   THEN [open EXCEPT ![o.file] = [h |-> o.h, at |-> o.at, count |-> w]]
                   ELSE open
        /\ \/ w < o.count /\ Go(t, [o EXCEPT !.pc = "trim"]) /\ UNCHANGED <<lock, reader, shown>>
           \/ Return(t)
    BY <1>1, <1>3 DEF WriteEntry
<1>5. /\ Shape(o) /\ o.h \in Handle /\ o.m \in Name /\ o.file \in File \cup {NoFile} /\ o.at \in Nat
      /\ o.count \in Nat /\ w \in Nat /\ w > 0 /\ p \in Nat
    BY <1>1, <1>2, OpFacts DEF Shape, Op
<1>6. Front(d, o.at) /\ o.kind # "remove" /\ slots[d] \in Slotted
      /\ (o.count > w => o.kind = "rename" /\ SameDir(o) /\ Front(d, o.at + o.count))
    BY <1>1, <1>2, <1>3, OpFacts, DirTypes DEF Reach, Shape, EndInv
<1>7. \A i \in 0 .. p - 1 : EntrySlot(o.m, o.file, i) \in Slot
                            /\ EntrySlot(o.m, o.file, i).kind # "end"
  <2>1. \A i \in 0 .. p - 1 : i \in 0 .. w - 1
      BY <1>4, <1>5
  <2> QED BY <1>5, <2>1, EntrySlotFacts
<1>8. DOMAIN new(p) = 0 .. p - 1 /\ \A i \in 0 .. p - 1 : new(p)[i] \in Slot /\ new(p)[i].kind # "end"
    BY <1>7
<1> HIDE DEF new
<1>9. PICK s \in Slotted :
        /\ s = Overwrite(slots[d], o.at, new(p))
        /\ \A i \in Position : s[i] = IF o.at <= i /\ i < o.at + p THEN new(p)[i - o.at] ELSE slots[d][i]
    BY <1>5, <1>6, <1>8, OverwriteFacts
<1>10. \A i \in Position : IF o.at <= i /\ i < o.at + p THEN s[i].kind # "end"
                           ELSE s[i].kind = slots[d][i].kind
  <2>1. \A i \in Position : o.at <= i /\ i < o.at + p => i - o.at \in 0 .. p - 1
      BY <1>5, SizeFacts
  <2> QED BY <1>8, <1>9, <2>1
<1>11. /\ slots' \in [Directory -> Slotted] /\ clusters' \in [Directory -> 1 .. MaxClusters]
       /\ Grows /\ NothingAfterEnd'
  <2>1. slots' = [slots EXCEPT ![d] = s] /\ clusters' = clusters
      BY <1>2, <1>4, <1>9
  <2>2. PICK a \in Nat : a = o.at
      BY <1>5
  <2>3. Front(d, a) /\ \A i \in Position : IF a <= i /\ i < a + p THEN s[i].kind # "end"
                                           ELSE s[i].kind = slots[d][i].kind
      BY <1>6, <1>10, <2>2
  <2> QED BY <1>5, <2>1, <2>3, WriteKept
<1>12. errors' \in Nat
    BY <1>4, Kept
<1>13. open' \in [File -> Loc] /\ OpenInv'
  <2>1. CASE open' = open
      BY <2>1, Kept
  <2>2. CASE open' = [open EXCEPT ![o.file] = [h |-> o.h, at |-> o.at, count |-> w]]
    <3> DEFINE x == [h |-> o.h, at |-> o.at, count |-> w]
    <3>1. x \in Loc /\ x.h \in Handle
        BY <1>5 DEF Loc
    <3> HIDE DEF x
    <3>2. open' = [open EXCEPT ![o.file] = x]
        BY <2>2 DEF x
    <3>3. open' \in [File -> Loc] /\ \A g \in File : open'[g] = IF g = o.file THEN x ELSE open[g]
        BY <3>1, <3>2, Kept
    <3> QED BY <3>1, <3>3, Kept DEF OpenInv
  <2> QED BY <1>4, <2>1, <2>2
<1>14. CASE w < o.count /\ Go(t, [o EXCEPT !.pc = "trim"]) /\ UNCHANGED <<lock, reader, shown>>
  <2>1. PICK q \in Op : q = [o EXCEPT !.pc = "trim"]
      BY DEF Op, PC
  <2>2. q.pc = "trim" /\ q.kind = o.kind /\ q.h = o.h /\ q.th = o.th /\ q.n = o.n /\ q.m = o.m
        /\ q.at = o.at /\ q.count = o.count
      BY <2>1 DEF Op
  <2>3. SameDir(o) /\ Front(Home[o.h], o.at + o.count)
      BY <1>3, <1>5, <1>6, <1>14 DEF SameDir
  <2>4. Shape(q)
      BY <1>2, <1>5, <1>6, <1>14, <2>2 DEF Shape, SameDir
  <2>5. Reach(q)
      BY <1>5, <1>14, <2>2, <2>3 DEF Reach, SameDir
  <2>6. Reach(q)'
      BY <1>11, <2>4, <2>5, ReachKept, Kept
  <2> QED BY <1>11, <1>12, <1>13, <1>14, <2>1, <2>4, <2>6, Kept, StepKeeps DEF Go
<1>15. CASE Return(t)
    BY <1>2, <1>11, <1>12, <1>13, <1>15, ReturnKeeps
<1> QED BY <1>4, <1>14, <1>15

\* A chain made longer, as far as k clusters, ends in end marks.
LEMMA ExtendKept ==
    ASSUME EndInv, NEW d \in Directory, NEW k \in 1 .. MaxClusters, Extend(d, k), uncleared' = uncleared
    PROVE  /\ slots' \in [Directory -> Slotted] /\ clusters' \in [Directory -> 1 .. MaxClusters]
           /\ Grows /\ NothingAfterEnd' /\ clusters'[d] >= k /\ Limit(d)' >= k * PerCluster
           /\ \A i \in 0 .. Limit(d) - 1 : slots'[d][i] = slots[d][i]
<1> DEFINE new == Max({clusters[d], k})
           s == [i \in Position |-> IF i >= Limit(d) /\ i < k * PerCluster THEN EndSlot ELSE slots[d][i]]
<1>1. slots \in [Directory -> Slotted] /\ clusters \in [Directory -> 1 .. MaxClusters] /\ NothingAfterEnd
      /\ slots[d] \in Slotted /\ clusters[d] \in 1 .. MaxClusters /\ Limit(d) \in Nat
      /\ \A i \in 0 .. Limit(d) - 1 : i \in Position /\ i \in Nat
    BY DirTypes DEF EndInv
<1>2. new \in {clusters[d], k} /\ clusters[d] <= new /\ k <= new
    BY <1>1, MaxOfTwo
<1>3. clusters' = [clusters EXCEPT ![d] = new] /\ slots' = [slots EXCEPT ![d] = s]
    BY DEF Extend, ClearUpTo
<1>4. EndSlot \in Slot /\ EndSlot.kind = "end"
    BY DEF EndSlot, EmptySlot, Slot
<1>5. /\ s \in Slotted
      /\ \A i \in Position : i >= Limit(d) /\ i < k * PerCluster => s[i] = EndSlot
      /\ \A i \in Position : ~(i >= Limit(d) /\ i < k * PerCluster) => s[i] = slots[d][i]
    BY <1>1, <1>4 DEF Slotted
<1> HIDE DEF new, s
<1>6. /\ slots' \in [Directory -> Slotted] /\ slots'[d] = s
      /\ \A c \in Directory : c # d => slots'[c] = slots[c] /\ clusters'[c] = clusters[c]
      /\ clusters' \in [Directory -> 1 .. MaxClusters] /\ clusters'[d] = new
    BY <1>1, <1>2, <1>3, <1>5
<1>7. \A i \in 0 .. Limit(d) - 1 : slots'[d][i] = slots[d][i]
    BY <1>1, <1>5, <1>6
<1>8. Grows
  <2>1. \A c \in Directory : clusters'[c] >= clusters[c]
      BY <1>1, <1>2, <1>6
  <2>2. uncleared \subseteq Directory
      BY Kept DEF TypeOK
  <2> QED BY <1>6, <1>7, <2>1, <2>2 DEF Grows
<1>9. Limit(d)' = new * PerCluster /\ new * PerCluster \in Nat /\ k * PerCluster \in Nat
      /\ k * PerCluster <= new * PerCluster /\ (new * PerCluster = Limit(d) \/ new * PerCluster = k * PerCluster)
      /\ \A i \in 0 .. new * PerCluster - 1 : i \in Position
  <2>1. new \in 1 .. MaxClusters /\ k \in Nat /\ new \in Nat
      BY <1>1, <1>2
  <2>2. Limit(d)' = new * PerCluster
      BY <1>6 DEF Limit
  <2>3. new * PerCluster \in Nat /\ k * PerCluster \in Nat /\ k * PerCluster <= new * PerCluster
      BY <1>2, <2>1, SizeFacts
  <2>4. \A i \in 0 .. new * PerCluster - 1 : i \in Position
      BY <2>1, SizeFacts
  <2>5. new * PerCluster = Limit(d) \/ new * PerCluster = k * PerCluster
      BY <1>2 DEF Limit
  <2> QED BY <2>2, <2>3, <2>4, <2>5
<1>10. NothingAfterEnd'
  <2> DEFINE to == k * PerCluster
             all == new * PerCluster
  <2>1. Limit(d)' = all /\ all \in Nat /\ to \in Nat /\ to <= all /\ (all = Limit(d) \/ all = to)
        /\ \A i \in 0 .. all - 1 : i \in Position
      BY <1>9
  <2>2. /\ \A i \in Position : i >= Limit(d) /\ i < to => s[i] = EndSlot
        /\ \A i \in Position : ~(i >= Limit(d) /\ i < to) => s[i] = slots[d][i]
      BY <1>5
  <2> HIDE DEF to, all
  <2>3. ASSUME d \notin uncleared, NEW i \in 0 .. all - 1, NEW j \in 0 .. all - 1, s[i].kind = "end", i < j
        PROVE  s[j].kind = "end"
    <3>1. CASE j >= Limit(d)
      <4>1. j < to
          BY <1>1, <2>1, <2>3, <3>1
      <4>2. s[j] = EndSlot
          BY <2>1, <2>2, <3>1, <4>1
      <4> QED BY <1>4, <4>2
    <3>2. CASE j < Limit(d)
      <4>1. i \in 0 .. Limit(d) - 1 /\ j \in 0 .. Limit(d) - 1
          BY <1>1, <2>1, <2>3, <3>2
      <4>2. s[i] = slots[d][i] /\ s[j] = slots[d][j]
          BY <1>1, <2>2, <4>1
      <4> QED BY <1>1, <2>3, <4>1, <4>2 DEF NothingAfterEnd
    <3> QED BY <1>1, <2>1, <3>1, <3>2
  <2>4. SUFFICES ASSUME NEW c \in Directory \ uncleared, NEW i \in 0 .. Limit(c)' - 1, NEW j \in 0 .. Limit(c)' - 1,
                        slots'[c][i].kind = "end", i < j
                 PROVE  slots'[c][j].kind = "end"
      BY DEF NothingAfterEnd
  <2>5. CASE c = d
      BY <1>6, <2>1, <2>3, <2>4, <2>5
  <2>6. CASE c # d
    <3>1. slots'[c] = slots[c] /\ Limit(c)' = Limit(c)
        BY <1>6, <2>6 DEF Limit
    <3> QED BY <1>1, <2>4, <3>1 DEF NothingAfterEnd
  <2> QED BY <2>5, <2>6
<1>11. clusters'[d] >= k /\ Limit(d)' >= k * PerCluster
  <2>1. clusters'[d] >= k
      BY <1>1, <1>2, <1>6
  <2> DEFINE to == k * PerCluster
             all == new * PerCluster
  <2>2. Limit(d)' = all /\ all \in Nat /\ to \in Nat /\ to <= all
      BY <1>9
  <2> HIDE DEF to, all
  <2>3. Limit(d)' >= to
      BY <2>2
  <2> QED BY <2>1, <2>3 DEF to
<1> QED BY <1>6, <1>7, <1>8, <1>10, <1>11

\* fat32_alloc_fdentry: the end of directories.
LEMMA AllocSlotsKeeps ==
    ASSUME EndInv, NEW t \in Thread, AllocSlots(t), uncleared' = uncleared PROVE EndInv'
<1>1. PICK o \in Op : o = op[t]
    BY OpFacts
<1>2. o.pc = "alloc" /\ UNCHANGED open
    BY <1>1 DEF AllocSlots
<1>3. PICK d \in Directory : d = Home[o.th]
    BY <1>1, <1>2, OpFacts
<1> DEFINE w == Width[o.m]
           new(k) == Needed(slots[d], w, k * PerCluster)
           a(k) == RoomAt(slots[d], w, k * PerCluster)
<1>4. PICK k \in 1 .. clusters[d] :
        /\ InView(d, k)
        /\ \/ /\ k + new(k) <= MaxClusters
              /\ Extend(d, k + new(k))
              /\ op' = [op EXCEPT ![t] = [o EXCEPT !.pc = "write", !.at = a(k), !.count = w]]
              /\ UNCHANGED <<lock, reader, shown>>
           \/ \E got \in clusters[d] - k .. new(k) - 1 :
              /\ k + got <= MaxClusters
              /\ Extend(d, k + got)
              /\ Return(t)
    BY <1>1, <1>3 DEF AllocSlots, Go
<1>5. slots[d] \in Slotted /\ clusters[d] \in 1 .. MaxClusters /\ k \in 1 .. MaxClusters
      /\ Limit(d) \in Nat /\ w \in Nat /\ w > 0 /\ Shape(o) /\ MaxClusters \in Nat
    BY <1>1, <1>2, OpFacts, DirTypes, SizeFacts DEF EndInv
<1> DEFINE view == k * PerCluster
<1>6. /\ a(k) \in 0 .. EndAt(slots[d], view) /\ new(k) \in Nat
      /\ a(k) + w <= (k + new(k)) * PerCluster
    BY <1>5, RoomFacts
<1>7. /\ EndAt(slots[d], view) \in 0 .. view
      /\ \A i \in 0 .. EndAt(slots[d], view) - 1 : slots[d][i].kind # "end"
    BY <1>5, EndAtFacts
<1>8. view \in Nat /\ view <= Limit(d)
  <2>1. clusters[d] \in Nat /\ k \in Nat /\ k <= clusters[d]
      BY <1>5
  <2> QED BY <2>1, SizeFacts DEF Limit
<1> HIDE DEF view, a, new
<1>9. a(k) \in Nat /\ Front(d, a(k))
    BY <1>5, <1>6, <1>7, <1>8 DEF Front
<1>10. errors' \in Nat
    BY <1>4, Kept DEF InView
<1>11. CASE /\ k + new(k) <= MaxClusters
            /\ Extend(d, k + new(k))
            /\ op' = [op EXCEPT ![t] = [o EXCEPT !.pc = "write", !.at = a(k), !.count = w]]
            /\ UNCHANGED <<lock, reader, shown>>
  <2>1. PICK j \in 1 .. MaxClusters : j = k + new(k)
      BY <1>5, <1>6, <1>11
  <2>2. /\ slots' \in [Directory -> Slotted] /\ clusters' \in [Directory -> 1 .. MaxClusters]
        /\ Grows /\ NothingAfterEnd' /\ Limit(d)' >= j * PerCluster
      BY <1>11, <2>1, ExtendKept
  <2>3. PICK b \in Nat : b = a(k)
      BY <1>9
  <2>4. Front(d, b)'
      BY <1>9, <2>2, <2>3, FrontKept, Kept
  <2>5. b + w <= Limit(d)'
    <3> DEFINE x == j * PerCluster
    <3>1. x \in Nat /\ b + w <= x /\ Limit(d)' >= x /\ Limit(d)' \in Nat
      <4>1. x \in Nat
          BY <2>1, SizeFacts
      <4>2. Limit(d)' \in Nat
          BY <2>2, SizeFacts DEF Limit
      <4> QED BY <1>6, <2>1, <2>2, <2>3, <4>1, <4>2
    <3> HIDE DEF x
    <3> QED BY <1>5, <3>1
  <2>6. PICK q \in Op : q = [o EXCEPT !.pc = "write", !.at = b, !.count = w]
      BY <1>5, <2>3 DEF Op, PC
  <2>7. q.pc = "write" /\ q.kind = o.kind /\ q.h = o.h /\ q.th = o.th /\ q.n = o.n /\ q.m = o.m
        /\ q.at = b /\ q.count = w
      BY <2>6 DEF Op
  <2>8. Shape(q)
      BY <1>2, <1>5, <2>7 DEF Shape, SameDir
  <2>9. Reach(q)'
      BY <1>3, <1>5, <2>4, <2>5, <2>7 DEF Reach
  <2>10. op' = [op EXCEPT ![t] = q]
      BY <1>11, <2>3, <2>6
  <2> QED BY <1>2, <1>10, <1>11, <2>2, <2>8, <2>9, <2>10, Kept, StepKeeps
<1>12. CASE \E got \in clusters[d] - k .. new(k) - 1 :
              /\ k + got <= MaxClusters
              /\ Extend(d, k + got)
              /\ Return(t)
  <2>1. PICK got \in clusters[d] - k .. new(k) - 1 :
              k + got <= MaxClusters /\ Extend(d, k + got) /\ Return(t)
      BY <1>12
  <2>2. PICK j \in 1 .. MaxClusters : j = k + got
      BY <1>5, <1>6, <2>1
  <2>3. /\ slots' \in [Directory -> Slotted] /\ clusters' \in [Directory -> 1 .. MaxClusters]
        /\ Grows /\ NothingAfterEnd'
      BY <2>1, <2>2, ExtendKept
  <2> QED BY <1>2, <1>10, <2>1, <2>3, Kept, ReturnKeeps
<1> QED BY <1>4, <1>11, <1>12

\* A cluster that is linked and not cleared: nothing is claimed of its directory
\* any more, and the others are as they were.
LEMMA AllocUnclearedKeeps ==
    ASSUME EndInv, NEW t \in Thread, AllocUncleared(t) PROVE EndInv'
<1>1. PICK o \in Op : o = op[t]
    BY OpFacts
<1>2. o.pc = "alloc" /\ UNCHANGED open /\ Return(t)
    BY <1>1 DEF AllocUncleared
<1>3. PICK d \in Directory : d = Home[o.th]
    BY <1>1, <1>2, OpFacts
<1>4. uncleared' = uncleared \cup {d}
    BY <1>1, <1>3 DEF AllocUncleared
<1>5. PICK v \in 1 .. clusters[d], k \in clusters[d] .. MaxClusters - 1 :
        /\ errors' = errors + (IF v = clusters[d] THEN 1 ELSE 2)
        /\ clusters' = [clusters EXCEPT ![d] = k + 1]
        /\ ClearUpTo(d, k)
    BY <1>1, <1>3 DEF AllocUncleared
<1> DEFINE s == [i \in Position |-> IF i >= Limit(d) /\ i < k * PerCluster THEN EndSlot ELSE slots[d][i]]
<1>6. /\ slots \in [Directory -> Slotted] /\ clusters \in [Directory -> 1 .. MaxClusters]
      /\ slots[d] \in Slotted /\ clusters[d] \in 1 .. MaxClusters /\ MaxClusters \in Nat /\ Limit(d) \in Nat
      /\ \A i \in 0 .. Limit(d) - 1 : i \in Position /\ i \in Nat
    BY DirTypes, SizeFacts DEF EndInv
<1>7. /\ uncleared \subseteq Directory /\ NothingAfterEnd /\ errors \in Nat
    BY Kept DEF TypeOK
<1>8. slots' = [slots EXCEPT ![d] = s]
    BY <1>5 DEF ClearUpTo
<1>9. s \in Slotted /\ \A i \in Position : i < Limit(d) => s[i] = slots[d][i]
  <2>1. EndSlot \in Slot
      BY DEF EndSlot, EmptySlot, Slot
  <2>2. \A i \in Position : s[i] = (IF i >= Limit(d) /\ i < k * PerCluster THEN EndSlot ELSE slots[d][i])
      OBVIOUS
  <2>3. s \in Slotted
      BY <1>6, <2>1 DEF Slotted
  <2>4. \A i \in Position : i < Limit(d) => ~(i >= Limit(d))
    <3>1. Position \subseteq Int
        BY DEF Position
    <3> QED BY <1>6, <3>1
  <2> QED BY <2>2, <2>3, <2>4, Zenon
<1> HIDE DEF s
<1>10. /\ slots' \in [Directory -> Slotted] /\ slots'[d] = s
       /\ \A c \in Directory : c # d => slots'[c] = slots[c]
    BY <1>6, <1>8, <1>9
<1>11. /\ clusters' \in [Directory -> 1 .. MaxClusters] /\ clusters'[d] >= clusters[d]
       /\ \A c \in Directory : c # d => clusters'[c] = clusters[c]
    BY <1>5, <1>6
<1>12. Grows
  <2>1. \A i \in 0 .. Limit(d) - 1 : slots'[d][i] = slots[d][i]
      BY <1>6, <1>9, <1>10
  <2>2. \A c \in Directory : clusters'[c] >= clusters[c]
      BY <1>6, <1>11
  <2> QED BY <1>4, <1>7, <1>10, <2>1, <2>2 DEF Grows
<1>13. NothingAfterEnd'
  <2>1. \A c \in Directory \ uncleared' : c # d /\ c \in Directory \ uncleared
      BY <1>4
  <2>2. \A c \in Directory \ uncleared' : slots'[c] = slots[c] /\ Limit(c)' = Limit(c)
      BY <1>10, <1>11, <2>1 DEF Limit
  <2> QED BY <1>7, <2>1, <2>2 DEF NothingAfterEnd
<1>14. errors' \in Nat
    BY <1>5, <1>7
<1> QED BY <1>2, <1>10, <1>11, <1>12, <1>13, <1>14, Kept, ReturnKeeps

\* A sync writes into the slot of its file, whatever is there now, and makes
\* no end mark of it.
LEMMA SyncMetadataKeeps ==
    ASSUME EndInv, NEW f \in File, SyncMetadata(f), uncleared' = uncleared PROVE EndInv'
<1> DEFINE e == EntryOf(f)
<1>1. PICK d \in Directory : d = Home[open[f].h]
    BY Kept, DirTypes DEF SyncMetadata, OpenInv
<1>2. slots' = [slots EXCEPT ![d][e] = Written(slots[d][e], f)]
      /\ UNCHANGED <<clusters, lock, op, open, reader, errors, shown>>
    BY <1>1 DEF SyncMetadata
<1> DEFINE s == [slots[d] EXCEPT ![e] = Written(slots[d][e], f)]
<1>3. slots[d] \in Slotted /\ Limit(d) \in Nat
    BY DirTypes DEF EndInv
<1>4. \A x \in Slot : Written(x, f) \in Slot /\ Written(x, f).kind = x.kind
  <2>1. SUFFICES ASSUME NEW x \in Slot PROVE Written(x, f) \in Slot /\ Written(x, f).kind = x.kind
      OBVIOUS
  <2>2. CASE x.kind = "short"
    <3>1. Written(x, f) = [x EXCEPT !.file = f]
        BY <2>2 DEF Written
    <3> QED BY <3>1 DEF Slot
  <2>3. CASE x.kind = "lfn"
    <3>1. Written(x, f) = [x EXCEPT !.name = NoName]
        BY <2>3 DEF Written
    <3> QED BY <3>1 DEF Slot
  <2>4. CASE x.kind # "short" /\ x.kind # "lfn"
    <3>1. Written(x, f) = x
        BY <2>4 DEF Written
    <3> QED BY <3>1
  <2> QED BY <2>2, <2>3, <2>4
<1>5. s \in Slotted /\ \A i \in Position : s[i].kind = slots[d][i].kind
  <2> HIDE DEF e
  <2>1. \A i \in Position : slots[d][i] \in Slot
      BY <1>3 DEF Slotted
  <2> QED BY <1>3, <1>4, <2>1 DEF Slotted
<1>6. slots' = [slots EXCEPT ![d] = s]
    BY <1>2
<1> HIDE DEF e, s
<1>7. PICK z \in Slotted : z = s
    BY <1>5
<1>8. PICK o \in Nat : o = 0
    OBVIOUS
<1>9. /\ Front(d, o)
      /\ \A i \in Position : IF o <= i /\ i < o + o THEN z[i].kind # "end" ELSE z[i].kind = slots[d][i].kind
  <2>1. \A i \in Position : ~(o <= i /\ i < o + o)
      BY <1>8, SizeFacts
  <2> QED BY <1>3, <1>5, <1>7, <1>8, <2>1 DEF Front
<1>10. /\ slots' \in [Directory -> Slotted] /\ clusters' \in [Directory -> 1 .. MaxClusters]
       /\ Grows /\ NothingAfterEnd'
  <2>1. slots' = [slots EXCEPT ![d] = z] /\ clusters' = clusters
      BY <1>2, <1>6, <1>7
  <2> QED BY <1>9, <2>1, WriteKept
<1> QED BY <1>2, <1>10, Kept, OthersKeep

\* fat32_lookup: the end of directories.
LEMMA LookupKeeps ==
    ASSUME EndInv, NEW h \in Handle, NEW n \in Name, Lookup(h, n), uncleared' = uncleared PROVE EndInv'
<1>1. PICK i \in Position : Search(Home[h], n, i) /\ MakeVnode(h, slots[Home[h]], i)
    BY DEF Lookup
<1>2. UNCHANGED <<slots, clusters, lock, op, reader, shown>> /\ Home[h] \in Directory
    BY DirTypes DEF Lookup, EndInv
<1>3. i # None
    BY SizeFacts DEF None
<1>4. i \in Matches(slots[Home[h]], n, Limit(Home[h]))
    BY <1>1, <1>2, <1>3, SearchFacts, DirTypes DEF EndInv
<1>5. open' \in [File -> Loc] /\ OpenInv'
    BY <1>1, <1>4, MakeVnodeKeeps
<1>6. errors' \in Nat
    BY <1>1, Kept
<1> QED BY <1>2, <1>5, <1>6, SameSlots, Kept, OthersKeep

\* fat32_inactive: the end of directories.
LEMMA InactiveKeeps ==
    ASSUME EndInv, NEW f \in File, Inactive(f), uncleared' = uncleared PROVE EndInv'
<1>1. open' = [open EXCEPT ![f] = NoLoc] /\ UNCHANGED <<slots, clusters, lock, op, reader, errors, shown>>
    BY DEF Inactive
<1>2. NoLoc \in Loc
    BY DEF NoLoc, Loc
<1>3. open' \in [File -> Loc] /\ OpenInv'
  <2>1. open' \in [File -> Loc] /\ \A g \in File : open'[g] = NoLoc \/ open'[g] = open[g]
      BY <1>1, <1>2, Kept
  <2> QED BY <2>1, Kept DEF OpenInv
<1> QED BY <1>1, <1>3, SameSlots, Kept, OthersKeep

\* The first fat32_readdir: the end of directories.
LEMMA ReadFirstKeeps ==
    ASSUME EndInv, NEW h \in Handle, ReadFirst(h), uncleared' = uncleared PROVE EndInv'
<1> DEFINE stable == {shown[Home[h]][c] : c \in Class} \ {NoFile}
<1>1. reader' = [h |-> h, at |-> 0, seen |-> {}, twice |-> {}, stable |-> stable]
      /\ UNCHANGED <<slots, clusters, lock, op, open, errors, shown>>
    BY DEF ReadFirst
<1>2. stable \in SUBSET File
  <2>1. Home[h] \in Directory
      BY DirTypes DEF EndInv
  <2>2. \A c \in Class : shown[Home[h]][c] \in File \cup {NoFile}
      BY <2>1, Kept
  <2> QED BY <2>2
<1> HIDE DEF stable
<1>3. reader' \in ReaderType
    BY <1>1, <1>2 DEF ReaderType
<1> QED BY <1>1, <1>3, SameSlots, Kept, OthersKeep

\* A later fat32_readdir: the end of directories.
LEMMA ReadNextKeeps ==
    ASSUME EndInv, ReadNext, uncleared' = uncleared PROVE EndInv'
<1>1. UNCHANGED <<slots, clusters, lock, op, open, errors, shown>>
    BY DEF ReadNext
<1>2. reader \in ReaderType
    BY Kept
<1>3. reader' \in ReaderType
  <2>1. CASE reader' = NoReader
      BY <2>1 DEF NoReader, ReaderType
  <2>2. CASE reader' # NoReader
    <3> DEFINE d == Home[reader.h]
               rest == Shorts(slots[d], reader.at, Limit(d))
               f == slots[d][Min(rest)].file
    <3>1. rest # {} /\ reader.h # NoHandle
          /\ reader' = [reader EXCEPT !.at = NextOffset(Min(rest)),
                                      !.seen = @ \cup ({f} \cap reader.stable),
                                      !.twice = @ \cup ({f} \cap reader.seen)]
        BY <2>2 DEF ReadNext
    <3>2. rest \subseteq Nat
      <4>1. d \in Directory /\ reader.at \in Nat
          BY <1>2, <3>1, DirTypes DEF EndInv, ReaderType
      <4>2. EndAt(slots[d], Limit(d)) \in 0 .. Limit(d) /\ Limit(d) \in Nat
          BY <4>1, EndAtFacts, DirTypes DEF EndInv, Limit
      <4> QED BY <4>1, <4>2 DEF Shorts
    <3>3. Min(rest) \in Nat
        BY <3>1, <3>2, MinOf
    <3>4. NextOffset(Min(rest)) \in Nat
        BY <3>3 DEF NextOffset
    <3> HIDE DEF f, rest
    <3> QED BY <1>2, <3>1, <3>4 DEF ReaderType
  <2> QED BY <2>1, <2>2
<1> QED BY <1>1, <1>3, SameSlots, Kept, OthersKeep

----------------------------------------------------------------------------
(* The theorems *)

\* The directories on disk satisfy the invariant.
LEMMA InitEnds ==
    ASSUME EndsLast, Init PROVE EndInv
<1>1. /\ slots \in [Directory -> Slotted] /\ clusters \in [Directory -> 1 .. MaxClusters]
      /\ slots = Slots0 /\ clusters = Clusters0
    BY VolumeAssumption DEF VolumeAssumption, Init, Slotted
<1>2. Idle \in Op /\ NoLoc \in Loc /\ NoReader \in ReaderType
    BY DEF Idle, Op, PC, NoLoc, Loc, NoReader, ReaderType
<1>3. \A d \in Directory : NamesOf(Slots0[d], Clusters0[d] * PerCluster) \in [Class -> File \cup {NoFile}]
    BY <1>1, NamesOfType
<1>4. TypeOK
  <2>1. shown \in [Directory -> [Class -> File \cup {NoFile}]]
      BY <1>3 DEF Init
  <2>2. lock \in [Handle -> Thread \cup {NoThread}] /\ op \in [Thread -> Op] /\ open \in [File -> Loc]
        /\ reader \in ReaderType /\ errors \in Nat /\ uncleared \subseteq Directory
      BY <1>2 DEF Init
  <2> QED BY <1>1, <2>1, <2>2 DEF TypeOK, Slotted, ReaderType
<1>5. OpInv
  <2>1. Idle.pc = "idle" /\ Idle.kind = "none" /\ Idle.file = NoFile
      BY DEF Idle
  <2>2. \A t \in Thread : op[t] = Idle
      BY DEF Init
  <2>3. Shape(Idle) /\ Reach(Idle)
      BY <2>1 DEF Shape, Reach
  <2> QED BY <2>2, <2>3 DEF OpInv
<1>6. OpenInv
    BY DEF OpenInv, Init
<1>7. NothingAfterEnd
    BY <1>1 DEF NothingAfterEnd, EndsLast, Limit
<1> QED BY <1>4, <1>5, <1>6, <1>7 DEF EndInv

\* Every step keeps the end of directories.
LEMMA NextEnds ==
    ASSUME EndInv, [Next]_vars PROVE EndInv'
<1>1. CASE UNCHANGED vars
  <2>1. UNCHANGED <<slots, clusters, lock, op, open, reader, errors, shown, uncleared>>
      BY <1>1 DEF vars
  <2> QED BY <2>1, SameSlots, Kept, OthersKeep
<1>2. CASE uncleared' = uncleared /\ \E t \in Thread : Step(t)
    BY <1>2, LockTargetKeeps, FindNameKeeps, FindTargetKeeps, ReplaceTargetKeeps, SearchErrorKeeps,
       DeleteEntryKeeps, AllocSlotsKeeps, WriteEntryKeeps, TrimEntryKeeps DEF Step
<1>3. CASE uncleared' = uncleared /\ \E t \in Thread : Begin(t)
    BY <1>3, BeginKeeps
<1>4. CASE uncleared' = uncleared /\ (\E h \in Handle : ReadFirst(h) \/ \E n \in Name : Lookup(h, n))
    BY <1>4, ReadFirstKeeps, LookupKeeps
<1>5. CASE uncleared' = uncleared /\ \E f \in File : SyncMetadata(f) \/ Inactive(f)
    BY <1>5, SyncMetadataKeeps, InactiveKeeps
<1>6. CASE uncleared' = uncleared /\ ReadNext
    BY <1>6, ReadNextKeeps
<1>7. CASE \E t \in Thread : AllocUncleared(t)
    BY <1>7, AllocUnclearedKeeps
<1> QED BY <1>1, <1>2, <1>3, <1>4, <1>5, <1>6, <1>7 DEF Next, Regular

\* fat32_get_dirent, fat32_alloc_fdentry, fat32_create_fdentry and
\* fat32_delete_fdentry_chain leave nothing after the end mark of a directory
\* that had nothing there, however many threads use it, through one vnode or
\* several, and whichever clusters cannot be read or allocated, as long as
\* fat32_allocate_cluster does not fail between linking a cluster to this
\* directory and clearing it.
THEOREM NothingFollowsEnd ==
    ASSUME EndsLast PROVE Spec => []NothingAfterEnd
<1>1. Init => EndInv
    BY InitEnds
<1>2. EndInv /\ [Next]_vars => EndInv'
    BY NextEnds
<1>3. EndInv => NothingAfterEnd
    BY DEF EndInv
<1> QED BY <1>1, <1>2, <1>3, PTL DEF Spec

\* On such a volume every slot written is a slot of a directory, and threads,
\* vnodes and readers keep positions of one.
THEOREM DirSlotsTypes ==
    ASSUME EndsLast PROVE Spec => []TypeOK
<1>1. Init => EndInv
    BY InitEnds
<1>2. EndInv /\ [Next]_vars => EndInv'
    BY NextEnds
<1>3. EndInv => TypeOK
    BY DEF EndInv
<1> QED BY <1>1, <1>2, <1>3, PTL DEF Spec

----------------------------------------------------------------------------
(* What is written over was free *)

\* A thread at work has fv_lock of its directories.
LockInv ==
    \A t \in Thread :
        /\ op[t].pc # "idle" => lock[op[t].h] = t
        /\ op[t].pc \notin {"idle", "lock"} /\ ~SameDir(op[t]) => lock[op[t].th] = t

\* Threads at work in one directory use one vnode of it.
OneVnode ==
    \A t, u \in Thread : t # u /\ op[t].pc # "idle" /\ op[u].pc # "idle" =>
        \A g \in {op[t].h, op[t].th}, k \in {op[u].h, op[u].th} : Home[g] = Home[k] => g = k

Free == {"deleted", "end"}

\* Without a device error every cluster was cleared.
ClearedInv == errors = 0 => uncleared = {}

RoomInv == EndInv /\ LockInv /\ OneVnode /\ AllocFindsFree /\ ClearedInv

\* No two threads write entries into one directory at a time.
LEMMA OneWriter ==
    ASSUME LockInv, OneVnode, NEW t \in Thread, NEW u \in Thread, t # u,
           op[t].pc = "write", op[u].pc = "write"
    PROVE  Home[op[t].th] # Home[op[u].th]
<1>1. SUFFICES ASSUME Home[op[t].th] = Home[op[u].th] PROVE FALSE
    OBVIOUS
<1>2. op[t].pc # "idle" /\ op[u].pc # "idle" /\ op[t].pc \notin {"idle", "lock"} /\ op[u].pc \notin {"idle", "lock"}
    OBVIOUS
<1>3. lock[op[t].h] = t /\ lock[op[u].h] = u
      /\ (~SameDir(op[t]) => lock[op[t].th] = t) /\ (~SameDir(op[u]) => lock[op[u].th] = u)
    BY <1>2 DEF LockInv
<1>4. \A g \in {op[t].h, op[t].th}, k \in {op[u].h, op[u].th} : Home[g] = Home[k] => g = k
    BY <1>2 DEF OneVnode
<1>5. op[t].th = op[u].th
    BY <1>1, <1>4
<1>6. (SameDir(op[t]) => op[t].h = op[u].th) /\ (SameDir(op[u]) => op[t].th = op[u].h)
      /\ (SameDir(op[t]) /\ SameDir(op[u]) => op[t].h = op[u].h)
    BY <1>1, <1>4 DEF SameDir
<1> QED BY <1>3, <1>5, <1>6

\* How a step of t changes who is at work: its operation goes on with the same
\* vnodes, or ends.  Locks that t takes were free; it gives up its own at the end.
Proceeds(t, q) ==
    /\ op[t].pc # "idle" /\ op' = [op EXCEPT ![t] = q]
    /\ q.pc # "idle" => q.h = op[t].h /\ q.th = op[t].th /\ q.pc # "lock"
    /\ \A h \in Handle :
          \/ lock'[h] = lock[h]
          \/ lock[h] = NoThread /\ lock'[h] = t
          \/ q.pc = "idle" /\ lock[h] = t
    /\ op[t].pc = "lock" /\ q.pc # "idle" => lock'[q.th] = t

\* Locks and the vnodes in use stay right when one thread takes or lets go of its own.
LEMMA ControlKept ==
    ASSUME RoomInv, NEW t \in Thread, NEW q \in Op, Proceeds(t, q)
    PROVE  LockInv' /\ OneVnode'
<1>1. op \in [Thread -> Op] /\ NoThread \notin Thread
    BY DirTypes DEF RoomInv, EndInv
<1>2. op'[t] = q /\ \A u \in Thread : u # t => op'[u] = op[u]
    BY <1>1 DEF Proceeds
<1>3. \A u \in Thread : op[u].pc # "idle" => op[u].h \in Handle /\ op[u].th \in Handle
    BY DEF RoomInv, EndInv, OpInv, Shape
<1>4. ASSUME NEW u \in Thread, NEW h \in Handle, lock[h] = u, u # t \/ q.pc # "idle" PROVE lock'[h] = u
  <2>1. u # NoThread
      BY <1>1
  <2> QED BY <1>4, <2>1 DEF Proceeds
<1>5. ASSUME NEW u \in Thread
      PROVE  /\ op'[u].pc # "idle" => lock'[op'[u].h] = u
             /\ op'[u].pc \notin {"idle", "lock"} /\ Home[op'[u].h] # Home[op'[u].th] => lock'[op'[u].th] = u
  <2>1. /\ op[u].pc # "idle" => lock[op[u].h] = u
        /\ op[u].pc \notin {"idle", "lock"} /\ Home[op[u].h] # Home[op[u].th] => lock[op[u].th] = u
      BY DEF RoomInv, LockInv, SameDir
  <2>2. CASE u # t
      BY <1>2, <1>3, <1>4, <2>1, <2>2
  <2>3. CASE u = t /\ q.pc # "idle"
    <3>1. q.h = op[t].h /\ q.th = op[t].th /\ op[t].pc # "idle"
        BY <2>3 DEF Proceeds
    <3>2. lock'[q.h] = t
        BY <1>3, <1>4, <2>1, <2>3, <3>1
    <3>3. CASE op[t].pc = "lock"
      <4>1. lock'[q.th] = t
          BY <2>3, <3>3 DEF Proceeds
      <4> QED BY <1>2, <2>3, <3>2, <4>1
    <3>4. CASE op[t].pc # "lock"
      <4>1. Home[q.h] # Home[q.th] => lock'[q.th] = t
          BY <1>3, <1>4, <2>1, <2>3, <3>1, <3>4
      <4> QED BY <1>2, <2>3, <3>2, <4>1
    <3> QED BY <3>3, <3>4
  <2>4. CASE u = t /\ q.pc = "idle"
      BY <1>2, <2>4
  <2> QED BY <2>2, <2>3, <2>4
<1>6. LockInv'
    BY <1>5 DEF LockInv, SameDir
<1>7. \A u \in Thread : op'[u].pc # "idle" => op[u].pc # "idle" /\ op'[u].h = op[u].h /\ op'[u].th = op[u].th
    BY <1>2 DEF Proceeds
<1>8. OneVnode'
    BY <1>7 DEF RoomInv, OneVnode
<1> QED BY <1>6, <1>8

\* The end of an operation
LEMMA ReturnProceeds ==
    ASSUME RoomInv, NEW t \in Thread, op[t].pc # "idle", Return(t)
    PROVE  Proceeds(t, Idle) /\ Idle \in Op /\ Idle.pc = "idle"
<1>1. Idle \in Op /\ Idle.pc = "idle"
    BY DEF Idle, Op, PC
<1>2. \A h \in Handle : lock'[h] = lock[h] \/ lock[h] = t
    BY DEF Return, Unlock
<1>3. op' = [op EXCEPT ![t] = Idle]
    BY DEF Return, Go
<1> QED BY <1>1, <1>2, <1>3 DEF Proceeds

\* A slot that was free is free.
StaysFree(d) ==
    \A i \in 0 .. Limit(d) - 1 : slots[d][i].kind \in Free => slots'[d][i].kind \in Free

\* The room of other threads stays free as long as t writes nothing into it.
LEMMA RoomKept ==
    ASSUME RoomInv, EndInv', NEW t \in Thread, \A u \in Thread : u # t => op'[u] = op[u],
           errors' = 0 => errors = 0, NEW q \in Op, op'[t] = q,
           errors' = 0 => \A u \in Thread : u # t /\ op[u].pc = "write" => StaysFree(Home[op[u].th]),
           errors' = 0 /\ q.pc = "write" /\ ~(q.kind = "rename" /\ SameDir(q)) =>
             \A i \in q.at .. q.at + q.count - 1 : slots'[Home[q.th]][i].kind \in Free
    PROVE  AllocFindsFree'
<1>1. SUFFICES ASSUME NEW u \in Thread, errors' = 0, op'[u].pc = "write",
                      ~(op'[u].kind = "rename" /\ Home[op'[u].h] = Home[op'[u].th]),
                      NEW i \in op'[u].at .. op'[u].at + op'[u].count - 1
               PROVE  slots'[Home[op'[u].th]][i].kind \in Free
    BY DEF AllocFindsFree, Undamaged, Free, SameDir
<1>2. CASE u = t
    BY <1>1, <1>2 DEF SameDir
<1>3. CASE u # t
  <2>1. op'[u] = op[u]
      BY <1>3
  <2>2. slots[Home[op[u].th]][i].kind \in Free
      BY <1>1, <2>1 DEF RoomInv, AllocFindsFree, Undamaged, Free, SameDir
  <2>3. StaysFree(Home[op[u].th])
      BY <1>1, <1>3, <2>1
  <2>4. /\ op[u].at \in Nat /\ op[u].count \in Nat /\ Width[op[u].m] \in Nat /\ Reach(op[u])
        /\ Limit(Home[op[u].th]) \in Nat
      BY <1>1, <2>1, OpFacts, DirTypes DEF RoomInv, EndInv
  <2>5. /\ op[u].at + Width[op[u].m] <= Limit(Home[op[u].th]) /\ op[u].count >= Width[op[u].m]
        /\ op[u].count > Width[op[u].m] => op[u].kind = "rename" /\ SameDir(op[u])
      BY <1>1, <2>1, <2>4 DEF Reach
  <2>6. op[u].count = Width[op[u].m]
      BY <1>1, <2>1, <2>4, <2>5 DEF SameDir
  <2>7. i \in 0 .. Limit(Home[op[u].th]) - 1
      BY <1>1, <2>1, <2>4, <2>5, <2>6
  <2> QED BY <2>1, <2>2, <2>3, <2>7 DEF StaysFree
<1> QED BY <1>2, <1>3

\* A device error is never forgotten.
LEMMA ErrorsGrow ==
    ASSUME RoomInv
    PROVE  /\ UNCHANGED errors \/ IOError => (errors' = 0 => errors = 0)
           /\ \A d, n, i : Search(d, n, i) => (errors' = 0 => errors = 0)
           /\ \A a, c, p : Deletes(a, c, p) => (errors' = 0 => errors = 0)
           /\ \A d, k : InView(d, k) => (errors' = 0 => errors = 0 /\ k = clusters[d])
<1>1. errors \in Nat
    BY Kept DEF RoomInv
<1>2. (UNCHANGED errors => (errors' = 0 => errors = 0)) /\ (IOError => errors' # 0)
    BY <1>1 DEF IOError
<1>3. \A d, n, i : Search(d, n, i) => UNCHANGED errors \/ IOError
    BY Zenon DEF Search
<1>4. \A a, c, p : Deletes(a, c, p) => UNCHANGED errors \/ IOError
    BY Zenon DEF Deletes
<1>5. \A d, k : InView(d, k) => (UNCHANGED errors /\ k = clusters[d]) \/ IOError
    BY Zenon DEF InView
<1> QED BY <1>2, <1>3, <1>4, <1>5

\* A step of t keeps the invariant if it leaves the room of others free.
LEMMA RoomStep ==
    ASSUME RoomInv, EndInv', NEW t \in Thread, NEW q \in Op, Proceeds(t, q), errors' = 0 => errors = 0,
           errors' = 0 => uncleared' = uncleared,
           errors' = 0 => \A u \in Thread : u # t /\ op[u].pc = "write" => StaysFree(Home[op[u].th]),
           errors' = 0 /\ q.pc = "write" /\ ~(q.kind = "rename" /\ SameDir(q)) =>
             \A i \in q.at .. q.at + q.count - 1 : slots'[Home[q.th]][i].kind \in Free
    PROVE  RoomInv'
<1>1. LockInv' /\ OneVnode'
    BY ControlKept
<1>2. op'[t] = q /\ \A u \in Thread : u # t => op'[u] = op[u]
    BY DirTypes DEF Proceeds, RoomInv, EndInv
<1>3. AllocFindsFree'
    BY <1>2, RoomKept
<1>4. ClearedInv'
    BY DEF RoomInv, ClearedInv
<1> QED BY <1>1, <1>3, <1>4 DEF RoomInv

\* A step of t at which room of others cannot be written over
LEMMA QuietStep ==
    ASSUME RoomInv, EndInv', NEW t \in Thread, NEW q \in Op, Proceeds(t, q), errors' = 0 => errors = 0,
           errors' = 0 => uncleared' = uncleared,
           \A d \in Directory : StaysFree(d), q.pc = "write" => q.kind = "rename" /\ SameDir(q)
    PROVE  RoomInv'
<1>1. \A u \in Thread : op[u].pc = "write" => Home[op[u].th] \in Directory
    BY OpFacts DEF RoomInv
<1> QED BY <1>1, RoomStep

\* An operation that returns and writes nothing keeps the room of others.
LEMMA QuietReturn ==
    ASSUME RoomInv, EndInv', NEW t \in Thread, op[t].pc # "idle", Return(t), errors' = 0 => errors = 0,
           errors' = 0 => uncleared' = uncleared,
           \A d \in Directory : StaysFree(d)
    PROVE  RoomInv'
<1>1. PICK q \in Op : q = Idle
    BY ReturnProceeds
<1>2. Proceeds(t, q) /\ q.pc = "idle"
    BY <1>1, ReturnProceeds
<1> QED BY <1>2, QuietStep

\* What is free stays free when nothing is written,
LEMMA SameSlotsFree ==
    ASSUME UNCHANGED slots PROVE \A d \in Directory : StaysFree(d)
    BY DEF StaysFree

\* and when entries are deleted.
LEMMA DeletedFree ==
    ASSUME RoomInv, NEW d \in Directory, NEW a \in Nat, NEW p \in Nat,
           slots' = [slots EXCEPT ![d] = Delete(slots[d], a, p)]
    PROVE  \A c \in Directory : StaysFree(c)
<1>1. slots \in [Directory -> Slotted] /\ slots[d] \in Slotted
      /\ \A i \in 0 .. Limit(d) - 1 : i \in Position
    BY DirTypes DEF RoomInv, EndInv
<1>2. \A i \in Position : Delete(slots[d], a, p)[i] = IF a <= i /\ i < a + p THEN DeletedSlot ELSE slots[d][i]
    BY <1>1, DeleteFacts
<1>3. DeletedSlot.kind \in Free
    BY DEF DeletedSlot, EmptySlot, Free
<1>4. slots'[d] = Delete(slots[d], a, p) /\ \A c \in Directory : c # d => slots'[c] = slots[c]
    BY <1>1
<1>5. StaysFree(d)
    BY <1>1, <1>2, <1>3, <1>4 DEF StaysFree
<1>6. \A c \in Directory : c # d => StaysFree(c)
    BY <1>4 DEF StaysFree
<1> QED BY <1>5, <1>6

\* A step on with the operation in hand
LEMMA GoesOn ==
    ASSUME NEW t \in Thread, NEW q, op[t].pc \notin {"idle", "lock"}, op' = [op EXCEPT ![t] = q],
           q.pc # "lock", q.h = op[t].h, q.th = op[t].th, UNCHANGED lock
    PROVE  Proceeds(t, q)
    BY DEF Proceeds

\* fat32_rename locks the second directory: the room that others found.
LEMMA LockTargetRoom ==
    ASSUME RoomInv, EndInv', NEW t \in Thread, LockTarget(t), uncleared' = uncleared PROVE RoomInv'
<1>1. PICK o \in Op : o = op[t] /\ Shape(o)
    BY OpFacts DEF RoomInv
<1>2. o.pc = "lock" /\ lock[o.th] = NoThread /\ op' = [op EXCEPT ![t] = [o EXCEPT !.pc = "find"]]
      /\ lock' = [lock EXCEPT ![o.th] = t] /\ UNCHANGED <<slots, clusters, open, reader, errors, shown>>
    BY <1>1 DEF LockTarget, Go
<1>3. PICK q \in Op : q = [o EXCEPT !.pc = "find"]
    BY DEF Op, PC
<1>4. q.pc = "find" /\ q.h = o.h /\ q.th = o.th
    BY <1>3 DEF Op
<1>5. lock \in [Handle -> Thread \cup {NoThread}] /\ o.th \in Handle
    BY <1>1, <1>2, Kept DEF RoomInv, Shape
<1>6. lock'[o.th] = t /\ \A h \in Handle : h # o.th => lock'[h] = lock[h]
    BY <1>2, <1>5
<1>7. Proceeds(t, q)
    BY <1>1, <1>2, <1>3, <1>4, <1>6 DEF Proceeds
<1> QED BY <1>2, <1>4, <1>7, SameSlotsFree, QuietStep

\* The search for the name: the room that others found.
LEMMA FindNameRoom ==
    ASSUME RoomInv, EndInv', NEW t \in Thread, FindName(t), uncleared' = uncleared PROVE RoomInv'
<1>1. PICK o \in Op : o = op[t] /\ Shape(o)
    BY OpFacts DEF RoomInv
<1> DEFINE s == slots[Home[o.h]]
           pc == IF o.kind = "rename" THEN "find2" ELSE "delete"
<1>2. o.pc = "find" /\ UNCHANGED <<slots, clusters>>
    BY <1>1 DEF FindName
<1>3. PICK i \in Position \cup {None} :
        /\ Search(Home[o.h], o.n, i)
        /\ \/ Go(t, [o EXCEPT !.pc = "alloc"]) /\ UNCHANGED lock
           \/ i # None /\ Go(t, [Found(o, s, i) EXCEPT !.pc = pc]) /\ UNCHANGED lock
           \/ Return(t)
    BY <1>1 DEF FindName
<1>4. errors' = 0 => errors = 0
    BY <1>3, ErrorsGrow
<1>5. CASE Go(t, [o EXCEPT !.pc = "alloc"]) /\ UNCHANGED lock
  <2>1. PICK q \in Op : q = [o EXCEPT !.pc = "alloc"]
      BY DEF Op, PC
  <2>2. q.pc = "alloc" /\ q.h = o.h /\ q.th = o.th
      BY <2>1 DEF Op
  <2>3. Proceeds(t, q)
      BY <1>1, <1>2, <1>5, <2>1, <2>2, GoesOn DEF Go
  <2> QED BY <1>2, <1>4, <2>2, <2>3, SameSlotsFree, QuietStep
<1>6. CASE i # None /\ Go(t, [Found(o, s, i) EXCEPT !.pc = pc]) /\ UNCHANGED lock
  <2>1. pc \in PC /\ pc \in {"find2", "delete"}
      BY DEF PC
  <2>2. op' = [op EXCEPT ![t] = [Found(o, s, i) EXCEPT !.pc = pc]]
      BY <1>6 DEF Go
  <2> HIDE DEF pc
  <2>3. EndInv /\ o.h \in Handle /\ i \in Matches(slots[Home[o.h]], o.n, Limit(Home[o.h]))
    <3>1. EndInv /\ o.h \in Handle /\ Home[o.h] \in Directory
        BY <1>1, <1>2, DirTypes DEF RoomInv, Shape, EndInv
    <3> QED BY <1>3, <1>6, <3>1, SearchFacts, DirTypes DEF EndInv
  <2>4. PICK q \in Op : q = [Found(o, s, i) EXCEPT !.pc = pc]
      BY <2>1, <2>3, FoundOp DEF FoundThen
  <2>5. q.pc = pc /\ q.h = o.h /\ q.th = o.th
    <3> DEFINE b == EntryStart(s, 0, i)
               c == i - b + 1
               f == s[i].file
    <3>1. q = [[o EXCEPT !.file = f, !.at = b, !.count = c] EXCEPT !.pc = pc]
        BY <2>4 DEF Found
    <3> HIDE DEF b, c, f
    <3> QED BY <3>1 DEF Op
  <2>6. Proceeds(t, q)
      BY <1>1, <1>2, <1>6, <2>1, <2>2, <2>4, <2>5, GoesOn
  <2> QED BY <1>2, <1>4, <2>1, <2>5, <2>6, SameSlotsFree, QuietStep
<1>7. CASE Return(t)
    BY <1>1, <1>2, <1>4, <1>7, SameSlotsFree, QuietReturn
<1> QED BY <1>3, <1>5, <1>6, <1>7

\* fat32_rename writes over the old entry only in its own directory.
LEMMA RenameInPlace ==
    ASSUME NEW o \in Op, Shape(o), o.pc \in {"find2", "replace"}, NEW q \in Op,
           q = [o EXCEPT !.pc = NextOfRename(o)]
    PROVE  q.h = o.h /\ q.th = o.th /\ q.pc \in {"write", "delete"}
           /\ (q.pc = "write" => q.kind = "rename" /\ SameDir(q))
<1>1. NextOfRename(o) \in {"write", "delete"} /\ (NextOfRename(o) = "write" => SameDir(o)) /\ o.kind = "rename"
    BY DEF NextOfRename, Shape
<1>2. q.pc = NextOfRename(o) /\ q.kind = o.kind /\ q.h = o.h /\ q.th = o.th
    BY DEF Op
<1> QED BY <1>1, <1>2 DEF SameDir

\* fat32_rename's search for the new name: the room that others found.
LEMMA FindTargetRoom ==
    ASSUME RoomInv, EndInv', NEW t \in Thread, FindTarget(t), uncleared' = uncleared PROVE RoomInv'
<1>1. PICK o \in Op : o = op[t] /\ Shape(o) /\ Reach(o)
    BY OpFacts DEF RoomInv
<1>2. o.pc = "find2" /\ UNCHANGED <<slots, clusters, lock, open, reader, shown>>
    BY <1>1 DEF FindTarget
<1>3. PICK i \in Position \cup {None} :
        /\ Search(Home[o.th], o.m, i)
        /\ op' = [op EXCEPT ![t] = [o EXCEPT !.pc = IF i = None THEN NextOfRename(o) ELSE "replace"]]
    BY <1>1 DEF FindTarget, Go
<1>4. errors' = 0 => errors = 0
    BY <1>3, ErrorsGrow
<1>5. CASE i = None
  <2>1. PICK q \in Op : q = [o EXCEPT !.pc = NextOfRename(o)]
      BY <1>1, <1>2, RenameGoesOn DEF RoomInv
  <2>2. q.h = o.h /\ q.th = o.th /\ q.pc \in {"write", "delete"}
        /\ (q.pc = "write" => q.kind = "rename" /\ SameDir(q))
      BY <1>1, <1>2, <2>1, RenameInPlace
  <2>3. Proceeds(t, q)
      BY <1>1, <1>2, <1>3, <1>5, <2>1, <2>2, GoesOn
  <2> QED BY <1>2, <1>4, <2>2, <2>3, SameSlotsFree, QuietStep
<1>6. CASE i # None
  <2>1. PICK q \in Op : q = [o EXCEPT !.pc = "replace"]
      BY DEF Op, PC
  <2>2. q.pc = "replace" /\ q.h = o.h /\ q.th = o.th
      BY <2>1 DEF Op
  <2>3. Proceeds(t, q)
      BY <1>1, <1>2, <1>3, <1>6, <2>1, <2>2, GoesOn
  <2> QED BY <1>2, <1>4, <2>2, <2>3, SameSlotsFree, QuietStep
<1> QED BY <1>5, <1>6

\* fat32_rename removes what has the new name: the room that others found.
LEMMA ReplaceTargetRoom ==
    ASSUME RoomInv, EndInv', NEW t \in Thread, ReplaceTarget(t), uncleared' = uncleared PROVE RoomInv'
<1>1. PICK o \in Op : o = op[t] /\ Shape(o) /\ Reach(o)
    BY OpFacts DEF RoomInv
<1>2. PICK d \in Directory : d = Home[o.th]
    BY <1>1, OpFacts DEF ReplaceTarget, RoomInv
<1> DEFINE found == Matches(slots[d], o.m, Limit(d))
           e == Found(o, slots[d], Min(found))
<1>3. o.pc = "replace"
    BY <1>1 DEF ReplaceTarget
<1>4. \/ /\ found # {}
         /\ \E p \in 0 .. e.count :
              Deletes(e.at, e.count, p) /\ slots' = [slots EXCEPT ![d] = Delete(slots[d], e.at, p)]
         /\ op' = [op EXCEPT ![t] = [o EXCEPT !.pc = NextOfRename(o)]]
         /\ UNCHANGED lock
      \/ Search(d, o.m, None) /\ UNCHANGED slots /\ Return(t)
    BY <1>1, <1>2 DEF ReplaceTarget, Go
<1>5. CASE /\ found # {}
           /\ \E p \in 0 .. e.count :
                Deletes(e.at, e.count, p) /\ slots' = [slots EXCEPT ![d] = Delete(slots[d], e.at, p)]
           /\ op' = [op EXCEPT ![t] = [o EXCEPT !.pc = NextOfRename(o)]]
           /\ UNCHANGED lock
  <2>1. Min(found) \in found
    <3>1. \A x \in found : x \in Nat
        BY FoundFacts, SizeFacts DEF RoomInv
    <3>2. found \subseteq Nat
        BY <3>1
    <3> QED BY <1>5, <3>2, MinOf
  <2> DEFINE i == Min(found)
             a == EntryStart(slots[d], 0, i)
             c == i - a + 1
             f == slots[d][i].file
  <2>2. a \in Nat /\ c \in Nat
      BY <2>1, FoundFacts DEF RoomInv
  <2>3. e = [o EXCEPT !.file = f, !.at = a, !.count = c]
      BY DEF Found
  <2>4. PICK p \in 0 .. e.count :
          Deletes(e.at, e.count, p) /\ slots' = [slots EXCEPT ![d] = Delete(slots[d], e.at, p)]
      BY <1>5
  <2> HIDE DEF found, a, c, f, e, i
  <2>5. e.at = a /\ e.count = c
      BY <2>2, <2>3 DEF Op
  <2>6. p \in Nat /\ e.at \in Nat
      BY <2>2, <2>4, <2>5
  <2>7. \A b \in Directory : StaysFree(b)
      BY <2>4, <2>6, DeletedFree
  <2>8. PICK q \in Op : q = [o EXCEPT !.pc = NextOfRename(o)]
      BY <1>1, <1>3, RenameGoesOn DEF RoomInv
  <2>9. q.h = o.h /\ q.th = o.th /\ q.pc \in {"write", "delete"}
        /\ (q.pc = "write" => q.kind = "rename" /\ SameDir(q))
      BY <1>1, <1>3, <2>8, RenameInPlace
  <2>10. Proceeds(t, q)
      BY <1>1, <1>3, <1>5, <2>8, <2>9, GoesOn
  <2>11. errors' = 0 => errors = 0
      BY <2>4, ErrorsGrow
  <2> QED BY <2>7, <2>9, <2>10, <2>11, QuietStep
<1>6. CASE Search(d, o.m, None) /\ UNCHANGED slots /\ Return(t)
    BY <1>1, <1>3, <1>6, ErrorsGrow, SameSlotsFree, QuietReturn
<1> QED BY <1>4, <1>5, <1>6

\* A search that ends with a device error: the room that others found.
LEMMA SearchErrorRoom ==
    ASSUME RoomInv, EndInv', NEW t \in Thread, SearchError(t), uncleared' = uncleared PROVE RoomInv'
<1>1. op[t].pc # "idle" /\ UNCHANGED slots /\ IOError /\ Return(t)
    BY DEF SearchError
<1> QED BY <1>1, ErrorsGrow, SameSlotsFree, QuietReturn

\* fat32_delete_fdentry: the room that others found.
LEMMA DeleteEntryRoom ==
    ASSUME RoomInv, EndInv', NEW t \in Thread, DeleteEntry(t), uncleared' = uncleared PROVE RoomInv'
<1>1. PICK o \in Op : o = op[t] /\ Shape(o) /\ o.at \in Nat /\ o.count \in Nat
    BY OpFacts DEF RoomInv
<1>2. PICK d \in Directory : d = Home[o.h]
    BY <1>1, OpFacts DEF DeleteEntry, RoomInv
<1>3. o.pc = "delete"
    BY <1>1 DEF DeleteEntry
<1>4. PICK p \in 0 .. o.count :
        /\ Deletes(o.at, o.count, p)
        /\ slots' = [slots EXCEPT ![d] = Delete(slots[d], o.at, p)]
        /\ \/ Go(t, [o EXCEPT !.pc = "alloc"]) /\ UNCHANGED lock
           \/ Return(t)
    BY <1>1, <1>2 DEF DeleteEntry
<1>5. (errors' = 0 => errors = 0) /\ \A b \in Directory : StaysFree(b)
  <2>1. p \in Nat
      BY <1>1, <1>4
  <2>2. \A b \in Directory : StaysFree(b)
      BY <1>1, <1>4, <2>1, DeletedFree
  <2> QED BY <1>4, <2>2, ErrorsGrow
<1>6. CASE Go(t, [o EXCEPT !.pc = "alloc"]) /\ UNCHANGED lock
  <2>1. PICK q \in Op : q = [o EXCEPT !.pc = "alloc"]
      BY DEF Op, PC
  <2>2. q.pc = "alloc" /\ q.h = o.h /\ q.th = o.th
      BY <2>1 DEF Op
  <2>3. Proceeds(t, q)
      BY <1>1, <1>3, <1>6, <2>1, <2>2, GoesOn DEF Go
  <2> QED BY <1>5, <2>2, <2>3, QuietStep
<1>7. CASE Return(t)
    BY <1>1, <1>3, <1>5, <1>7, QuietReturn
<1> QED BY <1>4, <1>6, <1>7

\* fat32_rename deletes what a shorter name leaves: the room that others found.
LEMMA TrimEntryRoom ==
    ASSUME RoomInv, EndInv', NEW t \in Thread, TrimEntry(t), uncleared' = uncleared PROVE RoomInv'
<1>1. PICK o \in Op : o = op[t] /\ o.at \in Nat /\ o.count \in Nat
    BY OpFacts DEF RoomInv
<1>2. PICK d \in Directory : d = Home[o.h]
    BY <1>1, OpFacts DEF TrimEntry, RoomInv
<1> DEFINE a == o.at + Width[o.m]
           c == o.count - Width[o.m]
<1>3. o.pc = "trim" /\ Return(t) /\ Width[o.m] \in Nat
    BY <1>1, OpFacts DEF TrimEntry, RoomInv
<1>4. PICK p \in 0 .. c : Deletes(a, c, p) /\ slots' = [slots EXCEPT ![d] = Delete(slots[d], a, p)]
    BY <1>1, <1>2 DEF TrimEntry
<1>5. a \in Nat /\ p \in Nat
    BY <1>1, <1>3, <1>4
<1>6. (errors' = 0 => errors = 0) /\ \A b \in Directory : StaysFree(b)
    BY <1>4, <1>5, ErrorsGrow, DeletedFree
<1> QED BY <1>1, <1>3, <1>6, QuietReturn

\* Where fat32_alloc_fdentry finds room, the slots it sees are free.
LEMMA RoomFree ==
    ASSUME NEW s \in Slotted, NEW k \in 1 .. MaxClusters, NEW w \in Nat, w > 0,
           \A i, j \in 0 .. k * PerCluster - 1 : s[i].kind = "end" /\ i < j => s[j].kind = "end",
           NEW x \in Nat, RoomAt(s, w, k * PerCluster) <= x, x < RoomAt(s, w, k * PerCluster) + w,
           x < k * PerCluster
    PROVE  s[x].kind \in Free
<1> DEFINE lim == k * PerCluster
           e == EndAt(s, lim)
           a == RoomAt(s, w, lim)
           tails == {y \in 0 .. e : AllDeleted(s, y, e)}
<1>1. e \in 0 .. lim /\ lim \in Nat /\ (e < lim => s[e].kind = "end")
    BY EndAtFacts, SizeFacts
<1>2. /\ a <= x /\ x < a + w /\ x < lim
      /\ \A i, j \in 0 .. lim - 1 : s[i].kind = "end" /\ i < j => s[j].kind = "end"
    OBVIOUS
<1> HIDE DEF lim, e
<1>3. CASE FreeRuns(s, w, lim) # {}
  <2>1. FreeRuns(s, w, lim) \subseteq Nat
      BY <1>1 DEF FreeRuns, e
  <2>2. Min(FreeRuns(s, w, lim)) \in FreeRuns(s, w, lim)
      BY <1>3, <2>1, MinOf
  <2>3. a \in Nat /\ AllDeleted(s, a, a + w)
      BY <1>3, <2>1, <2>2 DEF RoomAt, FreeRuns
  <2> HIDE DEF a
  <2>4. s[x].kind = "deleted"
      BY <1>2, <2>3 DEF AllDeleted
  <2> QED BY <2>4 DEF Free
<1>4. CASE FreeRuns(s, w, lim) = {}
  <2>1. tails \subseteq Nat /\ tails # {}
    <3>1. e \in tails
        BY <1>1 DEF AllDeleted
    <3> QED BY <1>1, <3>1
  <2>2. Min(tails) \in tails
      BY <2>1, MinOf
  <2>3. a = Min(tails)
      BY <1>4 DEF RoomAt, TailStart, e
  <2>4. a \in Nat /\ AllDeleted(s, a, e)
      BY <1>1, <2>2, <2>3
  <2> HIDE DEF a
  <2>5. CASE x < e
    <3>1. s[x].kind = "deleted"
        BY <1>1, <1>2, <2>4, <2>5 DEF AllDeleted
    <3> QED BY <3>1 DEF Free
  <2>6. CASE x >= e
    <3>1. e \in 0 .. lim - 1 /\ x \in 0 .. lim - 1 /\ s[e].kind = "end"
        BY <1>1, <1>2, <2>6
    <3>2. s[x].kind = "end"
        BY <1>1, <1>2, <2>6, <3>1
    <3> QED BY <3>2 DEF Free
  <2> QED BY <1>1, <2>5, <2>6
<1> QED BY <1>3, <1>4

\* fat32_alloc_fdentry: the room that others found.
LEMMA AllocSlotsRoom ==
    ASSUME RoomInv, EndInv', NEW t \in Thread, AllocSlots(t), uncleared' = uncleared PROVE RoomInv'
<1>1. PICK o \in Op : o = op[t] /\ Shape(o)
    BY OpFacts DEF RoomInv
<1>2. o.pc = "alloc"
    BY <1>1 DEF AllocSlots
<1>3. PICK d \in Directory : d = Home[o.th]
    BY <1>1, <1>2, OpFacts DEF RoomInv
<1> DEFINE w == Width[o.m]
           new(k) == Needed(slots[d], w, k * PerCluster)
           a(k) == RoomAt(slots[d], w, k * PerCluster)
<1>4. PICK k \in 1 .. clusters[d] :
        /\ InView(d, k)
        /\ \/ /\ k + new(k) <= MaxClusters
              /\ Extend(d, k + new(k))
              /\ op' = [op EXCEPT ![t] = [o EXCEPT !.pc = "write", !.at = a(k), !.count = w]]
              /\ UNCHANGED lock
           \/ \E got \in clusters[d] - k .. new(k) - 1 :
              /\ k + got <= MaxClusters
              /\ Extend(d, k + got)
              /\ Return(t)
    BY <1>1, <1>3 DEF AllocSlots, Go
<1>5. /\ slots \in [Directory -> Slotted] /\ slots[d] \in Slotted /\ clusters[d] \in 1 .. MaxClusters
      /\ k \in 1 .. MaxClusters /\ Limit(d) \in Nat /\ w \in Nat /\ w > 0 /\ MaxClusters \in Nat /\ EndInv
    BY <1>1, <1>2, OpFacts, DirTypes, SizeFacts DEF EndInv, RoomInv
<1>6. /\ a(k) \in 0 .. EndAt(slots[d], k * PerCluster) /\ new(k) \in Nat
      /\ a(k) + w <= (k + new(k)) * PerCluster
    BY <1>5, RoomFacts
<1>7. errors' = 0 => errors = 0 /\ k = clusters[d]
    BY <1>4, ErrorsGrow
<1>8. ASSUME NEW j \in 1 .. MaxClusters, Extend(d, j)
      PROVE  /\ \A c \in Directory : StaysFree(c)
             /\ \A i \in 0 .. Limit(d) - 1 : slots'[d][i] = slots[d][i]
             /\ \A i \in Position : i >= Limit(d) /\ i < j * PerCluster => slots'[d][i].kind \in Free
  <2>1. \A i \in 0 .. Limit(d) - 1 : slots'[d][i] = slots[d][i]
      BY <1>5, <1>8, ExtendKept
  <2>2. \A c \in Directory : c # d => slots'[c] = slots[c]
      BY <1>5, <1>8 DEF Extend, ClearUpTo
  <2>3. \A i \in Position : i >= Limit(d) /\ i < j * PerCluster => slots'[d][i] = EndSlot
      BY <1>5, <1>8 DEF Extend, ClearUpTo
  <2>4. EndSlot.kind \in Free
      BY DEF EndSlot, EmptySlot, Free
  <2>5. StaysFree(d) /\ \A c \in Directory : c # d => StaysFree(c)
      BY <2>1, <2>2 DEF StaysFree
  <2> QED BY <2>1, <2>3, <2>4, <2>5
<1>9. CASE /\ k + new(k) <= MaxClusters
           /\ Extend(d, k + new(k))
           /\ op' = [op EXCEPT ![t] = [o EXCEPT !.pc = "write", !.at = a(k), !.count = w]]
           /\ UNCHANGED lock
  <2>1. PICK j \in 1 .. MaxClusters : j = k + new(k)
      BY <1>5, <1>6, <1>9
  <2>2. PICK b \in Nat : b = a(k)
    <3>1. EndAt(slots[d], k * PerCluster) \in 0 .. k * PerCluster
        BY <1>5, EndAtFacts
    <3>2. k * PerCluster \in Nat
        BY <1>5, SizeFacts
    <3> QED BY <1>6, <3>1, <3>2
  <2>3. b + w <= j * PerCluster
      BY <1>6, <2>1, <2>2
  <2>4. ASSUME errors' = 0, NEW x \in b .. b + w - 1 PROVE slots'[d][x].kind \in Free
    <3>1. k = clusters[d] /\ k * PerCluster = Limit(d)
        BY <1>7, <2>4 DEF Limit
    <3>2. x \in Nat /\ b <= x /\ x < b + w
        BY <1>5, <2>2
    <3>3. CASE x < Limit(d)
      <4>1. slots[d][x].kind \in Free
        <5>1. \A i, y \in 0 .. k * PerCluster - 1 : slots[d][i].kind = "end" /\ i < y => slots[d][y].kind = "end"
            BY <1>5, <1>7, <2>4, <3>1 DEF RoomInv, ClearedInv, EndInv, NothingAfterEnd
        <5>2. RoomAt(slots[d], w, k * PerCluster) <= x /\ x < RoomAt(slots[d], w, k * PerCluster) + w
              /\ x < k * PerCluster
            BY <2>2, <3>1, <3>2, <3>3
        <5> QED BY <1>5, <3>2, <5>1, <5>2, RoomFree
      <4>2. x \in 0 .. Limit(d) - 1
          BY <1>5, <3>2, <3>3
      <4> QED BY <1>8, <1>9, <2>1, <4>1, <4>2
    <3>4. CASE x >= Limit(d)
      <4> DEFINE to == j * PerCluster
      <4>1. to \in Nat /\ b + w <= to /\ \A i \in 0 .. to - 1 : i \in Position
        <5>1. j \in Nat
            BY <1>5
        <5>2. to \in Nat
            BY <5>1, SizeFacts
        <5>3. \A i \in 0 .. j * PerCluster - 1 : i \in Position
            BY SizeFacts
        <5> QED BY <2>3, <5>2, <5>3
      <4> HIDE DEF to
      <4>2. x < to /\ x \in Position
          BY <1>5, <3>2, <4>1
      <4>3. x < j * PerCluster
          BY <4>2 DEF to
      <4> QED BY <1>8, <1>9, <2>1, <3>4, <4>2, <4>3
    <3> QED BY <1>5, <3>2, <3>3, <3>4
  <2>5. PICK q \in Op : q = [o EXCEPT !.pc = "write", !.at = b, !.count = w]
      BY <1>5 DEF Op, PC
  <2>6. q.pc = "write" /\ q.h = o.h /\ q.th = o.th /\ q.at = b /\ q.count = w
      BY <1>5, <2>5 DEF Op
  <2>7. Proceeds(t, q)
    <3>1. op' = [op EXCEPT ![t] = q] /\ UNCHANGED lock
        BY <1>9, <2>2, <2>5
    <3> QED BY <1>1, <1>2, <2>6, <3>1, GoesOn
  <2>8. \A c \in Directory : StaysFree(c)
      BY <1>8, <1>9, <2>1
  <2>9. \A u \in Thread : op[u].pc = "write" => StaysFree(Home[op[u].th])
      BY <2>8, OpFacts DEF RoomInv
  <2>10. errors' = 0 => \A i \in q.at .. q.at + q.count - 1 : slots'[Home[q.th]][i].kind \in Free
      BY <1>3, <2>4, <2>6
  <2> QED BY <1>7, <2>7, <2>9, <2>10, RoomStep
<1>10. CASE \E got \in clusters[d] - k .. new(k) - 1 :
              /\ k + got <= MaxClusters
              /\ Extend(d, k + got)
              /\ Return(t)
  <2>1. PICK got \in clusters[d] - k .. new(k) - 1 :
              k + got <= MaxClusters /\ Extend(d, k + got) /\ Return(t)
      BY <1>10
  <2> HIDE DEF new
  <2>2. PICK j \in 1 .. MaxClusters : j = k + got
      BY <1>5, <1>6, <2>1
  <2> QED BY <1>1, <1>2, <1>7, <1>8, <2>1, <2>2, QuietReturn
<1> QED BY <1>4, <1>9, <1>10

\* A cluster that is linked and not cleared comes with a device error,
LEMMA UnclearedError ==
    ASSUME RoomInv, NEW t \in Thread, AllocUncleared(t) PROVE errors' # 0 /\ Return(t)
<1>1. errors \in Nat
    BY Kept DEF RoomInv
<1>2. PICK v : errors' = errors + (IF v = clusters[Home[op[t].th]] THEN 1 ELSE 2)
    BY Zenon DEF AllocUncleared
<1>3. Return(t)
    BY Zenon DEF AllocUncleared
<1> QED BY <1>1, <1>2, <1>3

\* after which nothing is said of the room of others.
LEMMA AllocUnclearedRoom ==
    ASSUME RoomInv, EndInv', NEW t \in Thread, AllocUncleared(t) PROVE RoomInv'
<1>1. op[t].pc # "idle" /\ Return(t) /\ errors' # 0
    BY UnclearedError DEF AllocUncleared
<1>2. PICK q \in Op : q = Idle
    BY <1>1, ReturnProceeds
<1>3. Proceeds(t, q)
    BY <1>1, <1>2, ReturnProceeds
<1> QED BY <1>1, <1>3, RoomStep

\* fat32_create_fdentry writes: the room that others found.
LEMMA WriteEntryRoom ==
    ASSUME RoomInv, EndInv', NEW t \in Thread, WriteEntry(t), uncleared' = uncleared PROVE RoomInv'
<1>1. PICK o \in Op : o = op[t] /\ Shape(o)
    BY OpFacts DEF RoomInv
<1>2. o.pc = "write"
    BY <1>1 DEF WriteEntry
<1>3. PICK d \in Directory : d = Home[o.th]
    BY <1>1, <1>2, OpFacts DEF RoomInv
<1> DEFINE w == Width[o.m]
<1>4. PICK p \in 0 .. w :
        /\ IF p = w THEN UNCHANGED errors ELSE IOError
        /\ \E s : slots' = [slots EXCEPT ![d] = s]
        /\ \/ Go(t, [o EXCEPT !.pc = "trim"]) /\ UNCHANGED lock
           \/ Return(t)
    BY <1>1, <1>3 DEF WriteEntry
<1>5. errors' = 0 => errors = 0
    BY <1>4, ErrorsGrow
<1>6. \A u \in Thread : u # t /\ op[u].pc = "write" => StaysFree(Home[op[u].th])
  <2>1. SUFFICES ASSUME NEW u \in Thread, u # t, op[u].pc = "write" PROVE StaysFree(Home[op[u].th])
      OBVIOUS
  <2>2. Home[op[u].th] # d /\ Home[op[u].th] \in Directory
      BY <1>1, <1>2, <1>3, <2>1, OneWriter, OpFacts DEF RoomInv
  <2>3. slots'[Home[op[u].th]] = slots[Home[op[u].th]]
      BY <1>4, <2>2, DirTypes DEF RoomInv, EndInv
  <2> QED BY <2>3 DEF StaysFree
<1>7. CASE Go(t, [o EXCEPT !.pc = "trim"]) /\ UNCHANGED lock
  <2>1. PICK q \in Op : q = [o EXCEPT !.pc = "trim"]
      BY DEF Op, PC
  <2>2. q.pc = "trim" /\ q.h = o.h /\ q.th = o.th
      BY <2>1 DEF Op
  <2>3. Proceeds(t, q)
      BY <1>1, <1>2, <1>7, <2>1, <2>2, GoesOn DEF Go
  <2> QED BY <1>5, <1>6, <2>2, <2>3, RoomStep
<1>8. CASE Return(t)
  <2>1. PICK q \in Op : q = Idle
      BY <1>1, <1>2, <1>8, ReturnProceeds
  <2>2. Proceeds(t, q) /\ q.pc = "idle"
      BY <1>1, <1>2, <1>8, <2>1, ReturnProceeds
  <2> QED BY <1>5, <1>6, <2>2, RoomStep
<1> QED BY <1>4, <1>7, <1>8

\* An operation begins: the room that others found.
LEMMA CallRoom ==
    ASSUME RoomInv, EndInv', ~AliasedVnodes, NEW t \in Thread, NEW h \in Handle, NEW th \in Handle,
           NEW n, NEW m, NEW f, NEW k, Call(t, k, h, th, n, m, f), uncleared' = uncleared
    PROVE  RoomInv'
<1> DEFINE pc == IF Home[h] = Home[th] THEN "find" ELSE "lock"
<1>1. /\ op[t].pc = "idle" /\ lock[h] = NoThread /\ lock' = [lock EXCEPT ![h] = t]
      /\ op' = [op EXCEPT ![t] = [pc |-> pc, kind |-> k, h |-> h, th |-> th, n |-> n, m |-> m,
                                  file |-> f, at |-> 0, count |-> 0]]
      /\ UNCHANGED <<slots, clusters, open, reader, errors, shown>>
    BY DEF Call, Go
<1>2. \A u \in Thread, g \in {h, th} :
          op[u].pc # "idle" => /\ Home[op[u].h] = Home[g] => op[u].h = g
                               /\ Home[op[u].th] = Home[g] => op[u].th = g
    BY DEF Call
<1>3. op \in [Thread -> Op] /\ lock \in [Handle -> Thread \cup {NoThread}] /\ NoThread \notin Thread
    BY DirTypes DEF RoomInv, EndInv
<1>4. /\ op'[t].pc = pc /\ op'[t].h = h /\ op'[t].th = th /\ \A u \in Thread : u # t => op'[u] = op[u]
      /\ lock'[h] = t /\ \A g \in Handle : g # h => lock'[g] = lock[g]
    BY <1>1, <1>3
<1>5. pc \in {"find", "lock"} /\ (pc = "find" => Home[h] = Home[th])
    OBVIOUS
<1> HIDE DEF pc
<1>6. \A u \in Thread : op[u].pc # "idle" => op[u].h \in Handle /\ op[u].th \in Handle
    BY DEF RoomInv, EndInv, OpInv, Shape
<1>7. ASSUME NEW u \in Thread
      PROVE  /\ op'[u].pc # "idle" => lock'[op'[u].h] = u
             /\ op'[u].pc \notin {"idle", "lock"} /\ Home[op'[u].h] # Home[op'[u].th] => lock'[op'[u].th] = u
  <2>1. /\ op[u].pc # "idle" => lock[op[u].h] = u
        /\ op[u].pc \notin {"idle", "lock"} /\ Home[op[u].h] # Home[op[u].th] => lock[op[u].th] = u
      BY DEF RoomInv, LockInv, SameDir
  <2>2. CASE u # t
    <3>1. \A g \in Handle : lock[g] = u => g # h
        BY <1>1, <1>3
    <3> QED BY <1>4, <1>6, <2>1, <2>2, <3>1
  <2>3. CASE u = t
      BY <1>4, <1>5, <2>3
  <2> QED BY <2>2, <2>3
<1>8. LockInv'
    BY <1>7 DEF LockInv, SameDir
<1>9. ASSUME NEW u \in Thread, NEW v \in Thread, u # v, op'[u].pc # "idle", op'[v].pc # "idle",
             NEW g \in {op'[u].h, op'[u].th}, NEW x \in {op'[v].h, op'[v].th}, Home[g] = Home[x]
      PROVE  g = x
  <2>1. CASE u = t
    <3>1. g \in {h, th} /\ op'[v] = op[v]
        BY <1>4, <1>9, <2>1
    <3> QED BY <1>2, <1>9, <3>1
  <2>2. CASE v = t
    <3>1. x \in {h, th} /\ op'[u] = op[u]
        BY <1>4, <1>9, <2>2
    <3> QED BY <1>2, <1>9, <3>1
  <2>3. CASE u # t /\ v # t
    <3>1. op'[u] = op[u] /\ op'[v] = op[v]
        BY <1>4, <2>3
    <3> QED BY <1>9, <3>1 DEF RoomInv, OneVnode
  <2> QED BY <2>1, <2>2, <2>3
<1>10. OneVnode'
    BY <1>9 DEF OneVnode
<1>11. AllocFindsFree'
  <2>1. PICK q : q = op'[t]
      OBVIOUS
  <2>2. q \in Op /\ q.pc # "write"
      BY <1>4, <1>5, <2>1, DirTypes DEF EndInv, TypeOK
  <2>3. \A d \in Directory : StaysFree(d)
      BY <1>1, SameSlotsFree
  <2>4. \A u \in Thread : op[u].pc = "write" => StaysFree(Home[op[u].th])
      BY <2>3, OpFacts DEF RoomInv
  <2> QED BY <1>1, <1>4, <2>1, <2>2, <2>4, RoomKept
<1>12. ClearedInv'
    BY <1>1 DEF RoomInv, ClearedInv
<1> QED BY <1>8, <1>10, <1>11, <1>12 DEF RoomInv

\* Each operation begins: the room that others found.
LEMMA BeginRoom ==
    ASSUME RoomInv, EndInv', ~AliasedVnodes, NEW t \in Thread, Begin(t), uncleared' = uncleared PROVE RoomInv'
<1>1. PICK h \in Handle, n \in Name :
        \/ \E f \in File : Create(t, h, n, f)
        \/ Remove(t, h, n)
        \/ \E th \in Handle, m \in Name : Rename(t, h, n, th, m)
    BY Zenon DEF Begin
<1>2. CASE \E f \in File : Create(t, h, n, f)
    BY <1>2, CallRoom DEF Create
<1>3. CASE Remove(t, h, n)
    BY <1>3, CallRoom DEF Remove
<1>4. CASE \E th \in Handle, m \in Name : Rename(t, h, n, th, m)
    BY <1>4, CallRoom DEF Rename
<1> QED BY <1>1, <1>2, <1>3, <1>4

\* A step of no thread's operation that frees or fills no slot
LEMMA OthersRoom ==
    ASSUME RoomInv, EndInv', UNCHANGED <<op, lock>>, errors' = 0 => errors = 0,
           errors' = 0 => uncleared' = uncleared,
           \A d \in Directory : StaysFree(d)
    PROVE  RoomInv'
<1>1. LockInv' /\ OneVnode'
    BY DEF RoomInv, LockInv, OneVnode, SameDir
<1>2. AllocFindsFree'
  <2>1. CASE Thread = {}
      BY <2>1 DEF AllocFindsFree
  <2>2. CASE Thread # {}
    <3>1. PICK t \in Thread : TRUE
        BY <2>2
    <3>2. PICK q \in Op : q = op[t] /\ Shape(q) /\ Reach(q)
        BY OpFacts DEF RoomInv
    <3>3. \A u \in Thread : op[u].pc = "write" => StaysFree(Home[op[u].th])
        BY OpFacts DEF RoomInv
    <3>4. ASSUME errors' = 0, q.pc = "write", ~(q.kind = "rename" /\ SameDir(q)),
                 NEW i \in q.at .. q.at + q.count - 1
          PROVE  slots'[Home[q.th]][i].kind \in Free
      <4>1. slots[Home[q.th]][i].kind \in Free
          BY <3>2, <3>4 DEF RoomInv, AllocFindsFree, Undamaged, Free, SameDir
      <4>2. /\ q.at \in Nat /\ q.count \in Nat /\ Width[q.m] \in Nat /\ Limit(Home[q.th]) \in Nat
            /\ q.at + Width[q.m] <= Limit(Home[q.th]) /\ q.count = Width[q.m]
        <5>1. q.at \in Nat /\ q.count \in Nat /\ Width[q.m] \in Nat /\ Limit(Home[q.th]) \in Nat
            BY <3>2, <3>4, OpFacts, DirTypes DEF RoomInv, EndInv
        <5> QED BY <3>2, <3>4, <5>1 DEF Reach
      <4>3. i \in 0 .. Limit(Home[q.th]) - 1
          BY <3>4, <4>2
      <4> QED BY <3>2, <3>3, <3>4, <4>1, <4>3 DEF StaysFree
    <3> QED BY <3>2, <3>3, <3>4, RoomKept
  <2> QED BY <2>1, <2>2
<1>3. ClearedInv'
    BY DEF RoomInv, ClearedInv
<1> QED BY <1>1, <1>2, <1>3 DEF RoomInv

\* fat32_sync_metadata: the room that others found.
LEMMA SyncMetadataRoom ==
    ASSUME RoomInv, EndInv', NEW f \in File, SyncMetadata(f), uncleared' = uncleared PROVE RoomInv'
<1> DEFINE e == EntryOf(f)
<1>1. PICK d \in Directory : d = Home[open[f].h]
    BY Kept, DirTypes DEF SyncMetadata, OpenInv, RoomInv
<1>2. slots' = [slots EXCEPT ![d][e] = Written(slots[d][e], f)]
      /\ UNCHANGED <<clusters, lock, op, open, reader, errors, shown>>
    BY <1>1 DEF SyncMetadata
<1>3. slots \in [Directory -> Slotted] /\ slots[d] \in Slotted /\ \A i \in 0 .. Limit(d) - 1 : i \in Position
    BY DirTypes DEF RoomInv, EndInv
<1> HIDE DEF e
<1>4. slots'[d] = [slots[d] EXCEPT ![e] = Written(slots[d][e], f)]
      /\ \A c \in Directory : c # d => slots'[c] = slots[c]
    BY <1>2, <1>3
<1>5. ASSUME NEW x \in Slot, x.kind \in Free PROVE Written(x, f) = x
    BY <1>5 DEF Written, Free
<1>6. StaysFree(d)
  <2>1. SUFFICES ASSUME NEW i \in 0 .. Limit(d) - 1, slots[d][i].kind \in Free
                 PROVE  slots'[d][i].kind \in Free
      BY DEF StaysFree
  <2>2. i \in Position /\ slots[d][i] \in Slot
      BY <1>3 DEF Slotted
  <2>3. slots'[d][i] = slots[d][i]
      BY <1>3, <1>4, <1>5, <2>1, <2>2 DEF Slotted
  <2> QED BY <2>1, <2>3
<1>7. \A c \in Directory : StaysFree(c)
    BY <1>4, <1>6 DEF StaysFree
<1> QED BY <1>2, <1>7, OthersRoom

\* Every step keeps the room that others found free.
LEMMA NextRoom ==
    ASSUME RoomInv, ~AliasedVnodes, [Next]_vars PROVE RoomInv'
<1>1. EndInv'
    BY NextEnds DEF RoomInv
<1>2. CASE UNCHANGED vars
    BY <1>1, <1>2, SameSlotsFree, OthersRoom DEF vars
<1>3. CASE uncleared' = uncleared /\ \E t \in Thread : Step(t)
    BY <1>1, <1>3, LockTargetRoom, FindNameRoom, FindTargetRoom, ReplaceTargetRoom, SearchErrorRoom,
       DeleteEntryRoom, AllocSlotsRoom, WriteEntryRoom, TrimEntryRoom DEF Step
<1>4. CASE uncleared' = uncleared /\ \E t \in Thread : Begin(t)
    BY <1>1, <1>4, BeginRoom
<1>5. CASE uncleared' = uncleared /\ (\E h \in Handle : ReadFirst(h) \/ \E n \in Name : Lookup(h, n))
  <2>1. UNCHANGED <<slots, op, lock>>
      BY <1>5 DEF ReadFirst, Lookup
  <2>2. errors' = 0 => errors = 0
      BY <1>5, ErrorsGrow DEF ReadFirst, Lookup
  <2> QED BY <1>1, <1>5, <2>1, <2>2, SameSlotsFree, OthersRoom
<1>6. CASE uncleared' = uncleared /\ \E f \in File : SyncMetadata(f)
    BY <1>1, <1>6, SyncMetadataRoom
<1>7. CASE uncleared' = uncleared /\ (ReadNext \/ \E f \in File : Inactive(f))
  <2>1. UNCHANGED <<slots, op, lock, errors>>
      BY <1>7 DEF ReadNext, Inactive
  <2> QED BY <1>1, <1>7, <2>1, SameSlotsFree, OthersRoom
<1>8. CASE \E t \in Thread : AllocUncleared(t)
    BY <1>1, <1>8, AllocUnclearedRoom
<1> QED BY <1>2, <1>3, <1>4, <1>5, <1>6, <1>7, <1>8 DEF Next, Regular

\* What fat32_create_fdentry writes over is free.  fat32_alloc_fdentry finds a
\* run of deleted slots or goes on from the end mark into cleared clusters, and
\* fv_lock keeps other threads from taking the room before it is written: no
\* file can lose its entry to a new one.  For directories of any size and any
\* number of threads, one vnode of a directory in use at a time
THEOREM NothingWrittenOver ==
    ASSUME EndsLast, ~AliasedVnodes PROVE Spec => []AllocFindsFree
<1>1. Init => RoomInv
  <2>1. SUFFICES ASSUME Init PROVE RoomInv
      OBVIOUS
  <2>2. EndInv
      BY <2>1, InitEnds
  <2>3. \A t \in Thread : op[t].pc = "idle"
      BY <2>1 DEF Init, Idle
  <2>4. LockInv /\ OneVnode /\ AllocFindsFree /\ ClearedInv
      BY <2>1, <2>3 DEF LockInv, OneVnode, AllocFindsFree, ClearedInv, Init
  <2> QED BY <2>2, <2>4 DEF RoomInv
<1>2. RoomInv /\ [Next]_vars => RoomInv'
    BY NextRoom
<1>3. RoomInv => AllocFindsFree
    BY DEF RoomInv
<1> QED BY <1>1, <1>2, <1>3, PTL DEF Spec
============================================================================
