-------------------------- MODULE FileTreeProofs ---------------------------
(***************************************************************************)
(* Proofs about FileTree for every disk, set of names, number of vnodes    *)
(* and of threads: what a process wrote is in the entry or marked dirty in *)
(* the vnode, no cluster is lost or shared, the directories form a tree,   *)
(* and none is freed that is not empty, as long as processes keep to what  *)
(* the driver survives (Practices = {}) and no harm was done.              *)
(*                                                                         *)
(* The inductive invariant (TreeInv) has three parts.  DataInv says which  *)
(* file is truly in which place: good, the first cluster and the size it   *)
(* has.  What is on the disk (DiskGood) and what is in the vnodes          *)
(* (VnodesGood) are each related to good alone, so that one changes        *)
(* without the other.  CtlInv says which vnodes and locks a call has,      *)
(* that the vnodes are a tree, and that nobody drops a vnode another call  *)
(* works with; it is what the locks of the driver give.  FoundInv says     *)
(* that what a call found before it let a lock go, or waited for another   *)
(* one, is still there when it uses it.                                    *)
(*                                                                         *)
(* Every action is shown to keep CtlInv (the lemmas ...Ctl), and, unless   *)
(* it does harm, DataInv and FoundInv (the lemmas ...Inv).                 *)
(***************************************************************************)
EXTENDS FileTree, FiniteSetTheorems, TLAPS

----------------------------------------------------------------------------
(* The disk and the vnodes: u, d, dd, fw are values of use, dir, dotdot and *)
(* vn; g[c][s] is the first cluster and the size of the file in slot s of   *)
(* the directory in cluster c.                                              *)

IsEntry(u, d, c, s) == c \in Cluster /\ s \in Slots[c] /\ u[c] = "dir" /\ d[c][s] # FreeSlot

TrueTo(u, isdir, x) ==
    IF isdir THEN x.first \in Cluster \ {Root} /\ u[x.first] = "dir"
    ELSE IF x.first = NoCluster THEN x.size = 0
    ELSE x.first \in Cluster /\ u[x.first] = IF x.size = 0 THEN "file" ELSE "data"

\* Directories lie in no circle.
NoCircle(u, dd) ==
    \A S \in SUBSET {c \in Cluster \ {Root} : u[c] = "dir"} : S # {} => \E c \in S : dd[c] \notin S

\* A slot without a name is free.
NoNameFree(u, d) ==
    \A c \in Cluster : \A s \in Slots[c] :
        u[c] = "dir" /\ d[c][s].name = NoName => d[c][s] = FreeSlot

\* What entries have is allocated to them, and ".." of a directory is right.
EntriesGood(u, d, dd, g) ==
    \A c \in Cluster : \A s \in Slots[c] : IsEntry(u, d, c, s) =>
        /\ TrueTo(u, d[c][s].isdir, g[c][s])
        /\ d[c][s].isdir => dd[g[c][s].first] = c

OneOwner(u, d, g) ==
    \A b, c \in Cluster : \A r \in Slots[b], s \in Slots[c] :
        IsEntry(u, d, b, r) /\ IsEntry(u, d, c, s)
          /\ g[b][r].first = g[c][s].first /\ g[b][r].first # NoCluster => b = c /\ r = s

NoneLost(u, d, g) ==
    \A x \in Cluster \ {Root} : u[x] # "free" =>
        \E c \in Cluster : \E s \in Slots[c] : IsEntry(u, d, c, s) /\ g[c][s].first = x

DiskGood(u, d, dd, g) ==
    /\ u[Root] = "dir" /\ NoNameFree(u, d) /\ EntriesGood(u, d, dd, g)
    /\ OneOwner(u, d, g) /\ NoneLost(u, d, g) /\ NoCircle(u, dd)

\* v has its entry in slot s of the directory in cluster c.
At(fw, v, c, s) ==
    v # RootVnode /\ fw[v].used /\ fw[fw[v].parent].first = c /\ fw[v].s = s

\* Vnode x is as the file x is of which e is the entry.
Agrees(x, e, true) ==
    /\ x.isdir = e.isdir /\ x.first = true.first /\ x.size = true.size
    /\ x.first # e.first => "cluster" \in x.dirty
    /\ x.size # e.size => "size" \in x.dirty
    /\ x.isdir => x.dirty \subseteq {"time"}

VnodesGood(u, d, fw, g) ==
    /\ \A v \in Vnode \ {RootVnode} : fw[v].used =>
         LET c == fw[fw[v].parent].first
             s == fw[v].s
         IN IsEntry(u, d, c, s) /\ Agrees(fw[v], d[c][s], g[c][s])
    /\ \A v, w \in Vnode : \A c \in Cluster : \A s \in Slots[c] :
         At(fw, v, c, s) /\ At(fw, w, c, s) /\ ~fw[v].isdir => v = w
    /\ \A c \in Cluster : \A s \in Slots[c] : 
         IsEntry(u, d, c, s) /\ (\A v \in Vnode : ~At(fw, v, c, s)) =>
             d[c][s].first = g[c][s].first /\ d[c][s].size = g[c][s].size

IsGood(g) ==
    /\ DOMAIN g = Cluster
    /\ \A c \in Cluster : g[c] \in [Slots[c] -> [first : Cluster \cup {NoCluster}, size : 0 .. 1]]

Data(u, d, dd, fw) == \E g : IsGood(g) /\ DiskGood(u, d, dd, g) /\ VnodesGood(u, d, fw, g)

DataInv == Data(use, dir, dotdot, vn)

----------------------------------------------------------------------------
(* Calls and locks *)

\* The vnodes are a tree, whatever happens to the disk.
Hangs(fw, v) ==
    /\ fw[v].parent \in Vnode /\ fw[fw[v].parent].used /\ fw[fw[v].parent].isdir

VnodeInv(fw) ==
    /\ fw[RootVnode] = RootFatVnode
    /\ \A v \in Vnode : fw[v].used /\ fw[v].isdir => fw[v].first \in Cluster
    /\ \A v \in Vnode : ~fw[v].used => fw[v] = NoFatVnode
    /\ \A v \in Vnode \ {RootVnode} : fw[v].used => Hangs(fw, v)

----------------------------------------------------------------------------
(* What changes when one slot of one directory does *)

UseType(u) == u \in [Cluster -> {"free", "dir", "file", "data"}]

DirType(d) == DOMAIN d = Cluster /\ \A c \in Cluster : d[c] \in [Slots[c] -> Entry]

Truth == [first : Cluster \cup {NoCluster}, size : 0 .. 1]

\* d1 is d but for slot s of the directory in cluster c.
Same(d, d1, c, s) ==
    \A b \in Cluster : \A r \in Slots[b] : b # c \/ r # s => d1[b][r] = d[b][r]

Put(d, c, s, e) == [d EXCEPT ![c][s] = e]

\* Writing one entry changes one slot of one directory.
LEMMA PutEntry ==
    ASSUME NEW d, DirType(d), NEW c \in Cluster, NEW s \in Slots[c], NEW e \in Entry
    PROVE  /\ DirType(Put(d, c, s, e)) /\ Put(d, c, s, e)[c][s] = e /\ Same(d, Put(d, c, s, e), c, s)
           /\ \A b \in Cluster : b # c => Put(d, c, s, e)[b] = d[b]
    BY DEF DirType, Same, Put

\* The true place of one file changes, and no other.
LEMMA PutGood ==
    ASSUME NEW g, IsGood(g), NEW c \in Cluster, NEW s \in Slots[c], NEW x \in Truth
    PROVE  IsGood(Put(g, c, s, x)) /\ Put(g, c, s, x)[c][s] = x /\ Same(g, Put(g, c, s, x), c, s)
    BY DEF IsGood, Truth, Same, Put

\* A deleted record is a directory record.
LEMMA FreeSlotEntry == FreeSlot \in Entry
    BY TreeAssumption DEF FreeSlot, Entry

----------------------------------------------------------------------------
(* The vnodes *)

\* A vnode is below a directory, in one of its slots, and has its entry there.
LEMMA VnodePlace ==
    ASSUME NEW u, NEW d, NEW fw, NEW g, VnodesGood(u, d, fw, g), NEW v \in Vnode,
           NEW c, NEW s, At(fw, v, c, s)
    PROVE  c \in Cluster /\ s \in Slots[c] /\ IsEntry(u, d, c, s) /\ Agrees(fw[v], d[c][s], g[c][s])
<1>1. v \in Vnode \ {RootVnode} /\ fw[v].used /\ fw[fw[v].parent].first = c /\ fw[v].s = s
    BY DEF At
<1>2. IsEntry(u, d, c, s) /\ Agrees(fw[v], d[c][s], g[c][s])
    BY <1>1, Zenon DEF VnodesGood
<1> QED BY <1>2 DEF IsEntry

\* The other way round
LEMMA PlacesGood ==
    ASSUME NEW u, NEW d, NEW fw, NEW g,
           \A v \in Vnode : \A c, s : At(fw, v, c, s) =>
               IsEntry(u, d, c, s) /\ Agrees(fw[v], d[c][s], g[c][s]),
           \A v, w \in Vnode : \A c, s : At(fw, v, c, s) /\ At(fw, w, c, s) /\ ~fw[v].isdir => v = w,
           \A c \in Cluster : \A s \in Slots[c] :
               IsEntry(u, d, c, s) /\ (\A v \in Vnode : ~At(fw, v, c, s)) =>
                   d[c][s].first = g[c][s].first /\ d[c][s].size = g[c][s].size
    PROVE  VnodesGood(u, d, fw, g)
<1>1. ASSUME NEW v \in Vnode \ {RootVnode}, fw[v].used
      PROVE  LET c == fw[fw[v].parent].first
                 s == fw[v].s
             IN IsEntry(u, d, c, s) /\ Agrees(fw[v], d[c][s], g[c][s])
  <2>1. v \in Vnode /\ At(fw, v, fw[fw[v].parent].first, fw[v].s)
      BY <1>1, Zenon DEF At
  <2> QED BY <2>1, Zenon
<1> QED BY <1>1, Zenon DEF VnodesGood

\* An entry of a directory is right, whatever vnodes there are of it.
LEMMA DirEntryRight ==
    ASSUME NEW u, NEW d, NEW fw, NEW g, VnodesGood(u, d, fw, g),
           NEW c \in Cluster, NEW s \in Slots[c], IsEntry(u, d, c, s), d[c][s].isdir
    PROVE  d[c][s].first = g[c][s].first /\ d[c][s].size = g[c][s].size
<1>1. CASE \A v \in Vnode : ~At(fw, v, c, s)
    BY <1>1, Zenon DEF VnodesGood
<1>2. CASE \E v \in Vnode : At(fw, v, c, s)
  <2>1. PICK v \in Vnode : At(fw, v, c, s)
      BY <1>2
  <2>2. Agrees(fw[v], d[c][s], g[c][s])
      BY <2>1, VnodePlace, Zenon
  <2> QED BY <2>2 DEF Agrees
<1> QED BY <1>1, <1>2, Zenon

\* Where there is no vnode the entry is right.
LEMMA EntryRight ==
    ASSUME NEW u, NEW d, NEW fw, NEW g, VnodesGood(u, d, fw, g),
           NEW c \in Cluster, NEW s \in Slots[c], IsEntry(u, d, c, s),
           \A v \in Vnode : ~At(fw, v, c, s)
    PROVE  d[c][s].first = g[c][s].first /\ d[c][s].size = g[c][s].size
    BY Zenon DEF VnodesGood

\* A change of the disk that leaves the entries of vnodes alone
Keeps(fw, u, d, g, u1, d1, g1) ==
    /\ \A v \in Vnode : \A c \in Cluster : \A s \in Slots[c] :
         At(fw, v, c, s) /\ IsEntry(u, d, c, s) =>
             IsEntry(u1, d1, c, s) /\ d1[c][s] = d[c][s] /\ g1[c][s] = g[c][s]
    /\ \A c \in Cluster : \A s \in Slots[c] :
         IsEntry(u1, d1, c, s) /\ (\A v \in Vnode : ~At(fw, v, c, s)) =>
             d1[c][s].first = g1[c][s].first /\ d1[c][s].size = g1[c][s].size

\* The vnodes stay right when only slots change that no vnode stands for.
LEMMA VnodesKept ==
    ASSUME NEW u, NEW d, NEW fw, NEW g, VnodesGood(u, d, fw, g), NEW u1, NEW d1, NEW g1,
           Keeps(fw, u, d, g, u1, d1, g1)
    PROVE  VnodesGood(u1, d1, fw, g1)
<1>1. ASSUME NEW v \in Vnode, NEW c, NEW s, At(fw, v, c, s)
      PROVE  IsEntry(u1, d1, c, s) /\ Agrees(fw[v], d1[c][s], g1[c][s])
  <2>1. c \in Cluster /\ s \in Slots[c] /\ IsEntry(u, d, c, s) /\ Agrees(fw[v], d[c][s], g[c][s])
      BY <1>1, VnodePlace, Zenon
  <2> QED BY <1>1, <2>1, Zenon DEF Keeps
<1>2. ASSUME NEW v \in Vnode, NEW w \in Vnode, NEW c, NEW s,
             At(fw, v, c, s), At(fw, w, c, s), ~fw[v].isdir
      PROVE  v = w
  <2>1. c \in Cluster /\ s \in Slots[c]
      BY <1>2, VnodePlace, Zenon
  <2> QED BY <1>2, <2>1, Zenon DEF VnodesGood
<1> QED BY <1>1, <1>2, PlacesGood, Zenon DEF Keeps

VnodeType(fw) == fw \in [Vnode -> FatVnode]

\* fx is fw but for flags, of which only "time" is new.
OnlyTimes(fw, fx) ==
    \A v \in Vnode :
        /\ fx[v].used = fw[v].used /\ fx[v].first = fw[v].first /\ fx[v].size = fw[v].size
        /\ fx[v].isdir = fw[v].isdir /\ fx[v].parent = fw[v].parent /\ fx[v].s = fw[v].s
        /\ fw[v].dirty \subseteq fx[v].dirty /\ fx[v].dirty \subseteq fw[v].dirty \cup {"time"}

\* The vnodes stay a tree when none is made, dropped or moved.
LEMMA SameTree ==
    ASSUME NEW fw, NEW fx, VnodeInv(fw), VnodeType(fx), OnlyTimes(fw, fx),
           \A v \in Vnode : ~fw[v].used \/ v = RootVnode => fx[v] = fw[v]
    PROVE  VnodeInv(fx)
<1> USE TreeAssumption
<1>1. fx[RootVnode] = RootFatVnode
    BY DEF VnodeInv
<1>2. ASSUME NEW v \in Vnode, fx[v].used, fx[v].isdir PROVE fx[v].first \in Cluster
    BY <1>2 DEF VnodeInv, OnlyTimes
<1>3. ASSUME NEW v \in Vnode, ~fx[v].used PROVE fx[v] = NoFatVnode
    BY <1>3 DEF VnodeInv, OnlyTimes
<1>4. ASSUME NEW v \in Vnode \ {RootVnode}, fx[v].used PROVE Hangs(fx, v)
    BY <1>4 DEF VnodeInv, OnlyTimes, Hangs
<1> QED BY <1>1, <1>2, <1>3, <1>4, Zenon DEF VnodeInv

\* A vnode that is not moved stands for the slot it stood for.
LEMMA SamePlaces ==
    ASSUME NEW fw, NEW fx, VnodeInv(fw), OnlyTimes(fw, fx), NEW v \in Vnode, NEW c, NEW s
    PROVE  At(fx, v, c, s) <=> At(fw, v, c, s)
<1>1. CASE fw[v].used /\ v # RootVnode
  <2>1. fw[v].parent \in Vnode
      BY <1>1, Zenon DEF VnodeInv, Hangs
  <2> QED BY <2>1, Zenon DEF At, OnlyTimes
<1>2. CASE ~(fw[v].used /\ v # RootVnode)
    BY <1>2, Zenon DEF At, OnlyTimes
<1> QED BY <1>1, <1>2, Zenon

\* Vnodes that differ in the "time" flag alone stay right.
LEMMA OnlyTimesGood ==
    ASSUME NEW u, NEW d, NEW fw, NEW fx, NEW g, VnodeInv(fw), OnlyTimes(fw, fx),
           VnodesGood(u, d, fw, g)
    PROVE  VnodesGood(u, d, fx, g)
<1>1. ASSUME NEW v \in Vnode, NEW c, NEW s, At(fx, v, c, s)
      PROVE  IsEntry(u, d, c, s) /\ Agrees(fx[v], d[c][s], g[c][s])
  <2>1. At(fw, v, c, s)
      BY <1>1, SamePlaces
  <2>2. IsEntry(u, d, c, s) /\ Agrees(fw[v], d[c][s], g[c][s])
      BY <2>1, VnodePlace, Zenon
  <2>3. Agrees(fx[v], d[c][s], g[c][s])
      BY <2>2 DEF Agrees, OnlyTimes
  <2> QED BY <2>2, <2>3
<1>2. ASSUME NEW v \in Vnode, NEW w \in Vnode, NEW c, NEW s,
             At(fx, v, c, s), At(fx, w, c, s), ~fx[v].isdir
      PROVE  v = w
  <2>1. At(fw, v, c, s) /\ At(fw, w, c, s) /\ ~fw[v].isdir
      BY <1>2, SamePlaces DEF OnlyTimes
  <2>2. c \in Cluster /\ s \in Slots[c]
      BY <2>1, VnodePlace, Zenon
  <2> QED BY <2>1, <2>2, Zenon DEF VnodesGood
<1>3. ASSUME NEW c \in Cluster, NEW s \in Slots[c], IsEntry(u, d, c, s),
             \A v \in Vnode : ~At(fx, v, c, s)
      PROVE  d[c][s].first = g[c][s].first /\ d[c][s].size = g[c][s].size
  <2>1. \A v \in Vnode : ~At(fw, v, c, s)
      BY <1>3, SamePlaces
  <2> QED BY <1>3, <2>1, Zenon DEF VnodesGood
<1> QED BY <1>1, <1>2, <1>3, PlacesGood, Zenon

\* fat32_touch
LEMMA TouchedTimes ==
    ASSUME NEW fw, VnodeType(fw), NEW v \in Vnode
    PROVE  /\ VnodeType(Touched(fw, v)) /\ OnlyTimes(fw, Touched(fw, v))
           /\ \A w \in Vnode : w = RootVnode \/ w # v => Touched(fw, v)[w] = fw[w]
<1>1. CASE v = RootVnode
    BY <1>1 DEF Touched, OnlyTimes
<1>2. CASE v # RootVnode
    BY <1>2 DEF Touched, OnlyTimes, VnodeType, FatVnode, Flag
<1> QED BY <1>1, <1>2

\* fat32_touch keeps what is known of the vnodes.
LEMMA TouchedGood ==
    ASSUME NEW fw, VnodeType(fw), VnodeInv(fw), NEW v \in Vnode, fw[v].used
    PROVE  /\ VnodeType(Touched(fw, v)) /\ VnodeInv(Touched(fw, v))
           /\ \A u, d, g : VnodesGood(u, d, fw, g) => VnodesGood(u, d, Touched(fw, v), g)
<1>1. PICK fx : fx = Touched(fw, v)
    OBVIOUS
<1>2. /\ VnodeType(fx) /\ OnlyTimes(fw, fx)
      /\ \A w \in Vnode : w = RootVnode \/ w # v => fx[w] = fw[w]
    BY <1>1, TouchedTimes
<1>3. VnodeInv(fx)
    BY <1>2, SameTree, Zenon
<1>4. ASSUME NEW u, NEW d, NEW g, VnodesGood(u, d, fw, g) PROVE VnodesGood(u, d, fx, g)
    BY <1>2, <1>4, OnlyTimesGood, Zenon
<1> QED BY <1>1, <1>2, <1>3, <1>4, Zenon

\* The vnode of the root is always there.
LEMMA RootUsed ==
    ASSUME NEW fw, VnodeInv(fw)
    PROVE  fw[RootVnode].used = TRUE /\ fw[RootVnode].isdir = TRUE /\ fw[RootVnode].first = Root
    BY DEF VnodeInv, RootFatVnode, NoFatVnode

\* fat32_make_vnode: vnode n of the entry in slot s of the directory of vnode p
LEMMA MadeTree ==
    ASSUME NEW fw, VnodeType(fw), VnodeInv(fw), NEW n \in Vnode, ~fw[n].used,
           NEW p \in Vnode, fw[p].used, fw[p].isdir, NEW s \in Nat, NEW e \in Entry,
           e.isdir => e.first \in Cluster, NEW flags \in SUBSET Flag
    PROVE  LET fx == [fw EXCEPT ![n] = VnodeOf(e, p, s, flags)]
           IN VnodeType(fx) /\ VnodeInv(fx)
<1> DEFINE fx == [fw EXCEPT ![n] = VnodeOf(e, p, s, flags)]
<1> USE TreeAssumption
<1>1. VnodeOf(e, p, s, flags) \in FatVnode
    BY DEF VnodeOf, FatVnode, Entry
<1>2. VnodeType(fx) /\ fx[n] = VnodeOf(e, p, s, flags) /\ \A w \in Vnode : w # n => fx[w] = fw[w]
    BY <1>1 DEF VnodeType
<1> HIDE DEF fx
<1>3. n # RootVnode
    BY DEF VnodeInv, RootFatVnode, NoFatVnode
<1>4. fx[RootVnode] = RootFatVnode
    BY <1>2, <1>3 DEF VnodeInv
<1>5. /\ fx[n].used = TRUE /\ fx[n].isdir = e.isdir /\ fx[n].first = e.first /\ fx[n].parent = p
    BY <1>2 DEF VnodeOf
<1>6. ASSUME NEW v \in Vnode, fx[v].used, fx[v].isdir PROVE fx[v].first \in Cluster
    BY <1>2, <1>5, <1>6 DEF VnodeInv
<1>7. ASSUME NEW v \in Vnode, ~fx[v].used PROVE fx[v] = NoFatVnode
    BY <1>2, <1>5, <1>7 DEF VnodeInv
<1>8. ASSUME NEW v \in Vnode \ {RootVnode}, fx[v].used PROVE Hangs(fx, v)
  <2>1. CASE v = n
    <3>1. p # n
        OBVIOUS
    <3> QED BY <1>2, <1>5, <2>1, <3>1 DEF Hangs
  <2>2. CASE v # n
    <3>1. fw[v].used /\ fx[v] = fw[v] /\ Hangs(fw, v)
        BY <1>2, <1>8, <2>2 DEF VnodeInv
    <3>2. fw[v].parent # n
        BY <3>1 DEF Hangs
    <3> QED BY <1>2, <3>1, <3>2 DEF Hangs
  <2> QED BY <2>1, <2>2
<1>9. VnodeInv(fx)
    BY <1>4, <1>6, <1>7, <1>8, Zenon DEF VnodeInv
<1> QED BY <1>2, <1>9 DEF fx

\* The places of vnodes when one is made
Made(fw, fx, n, p, s) ==
    /\ n \in Vnode /\ fw[n].used = FALSE /\ p \in Vnode /\ fw[p].used = TRUE
    /\ fx[n].used = TRUE /\ fx[n].parent = p /\ fx[n].s = s
    /\ \A w \in Vnode : w # n => fx[w] = fw[w]

\* fat32_lookup adds one vnode, at the slot it found.
LEMMA MadePlaces ==
    ASSUME NEW fw, NEW fx, NEW n, NEW p, NEW s, VnodeInv(fw), Made(fw, fx, n, p, s)
    PROVE  \A v \in Vnode : \A b, r :
               At(fx, v, b, r) <=> At(fw, v, b, r) \/ (v = n /\ b = fw[p].first /\ r = s)
<1> SUFFICES ASSUME NEW v \in Vnode, NEW b, NEW r
             PROVE  At(fx, v, b, r) <=> At(fw, v, b, r) \/ (v = n /\ b = fw[p].first /\ r = s)
    OBVIOUS
<1> USE TreeAssumption
<1>3. n # RootVnode /\ p # n
    BY RootUsed DEF Made
<1>4. CASE v = n
    BY <1>3, <1>4 DEF At, Made
<1>5. CASE v # n /\ fw[v].used /\ v # RootVnode
  <2>1. fw[v].parent \in Vnode /\ fw[v].parent # n
      BY <1>5 DEF VnodeInv, Hangs, Made
  <2> QED BY <1>5, <2>1 DEF At, Made
<1>6. CASE v # n /\ ~(fw[v].used /\ v # RootVnode)
    BY <1>6 DEF At, Made
<1> QED BY <1>4, <1>5, <1>6, Zenon

\* A vnode made of the entry of its slot agrees with it.
LEMMA MadeGood ==
    ASSUME NEW u, NEW d, NEW fw, NEW g, VnodesGood(u, d, fw, g), DirType(d),
           VnodeType(fw), VnodeInv(fw), NEW n \in Vnode, ~fw[n].used,
           NEW p \in Vnode, fw[p].used, fw[p].isdir, NEW s, NEW flags \in SUBSET {"time"},
           IsEntry(u, d, fw[p].first, s),
           ~d[fw[p].first][s].isdir => \A v \in Vnode : ~At(fw, v, fw[p].first, s)
    PROVE  VnodesGood(u, d, [fw EXCEPT ![n] = VnodeOf(d[fw[p].first][s], p, s, flags)], g)
<1>1. PICK c \in Cluster : c = fw[p].first
    BY DEF IsEntry
<1>2. PICK e \in Entry : e = d[c][s] /\ s \in Slots[c]
    BY <1>1 DEF IsEntry, DirType
<1>3. PICK fx : fx = [fw EXCEPT ![n] = VnodeOf(e, p, s, flags)]
    OBVIOUS
<1>4. /\ fx[n] = VnodeOf(e, p, s, flags) /\ \A w \in Vnode : w # n => fx[w] = fw[w]
    BY <1>3 DEF VnodeType
<1>5. \A v \in Vnode : \A b, r : At(fx, v, b, r) <=> At(fw, v, b, r) \/ (v = n /\ b = c /\ r = s)
  <2>1. \A v \in Vnode : \A b, r :
            At(fx, v, b, r) <=> At(fw, v, b, r) \/ (v = n /\ b = fw[p].first /\ r = s)
    <3>1. Made(fw, fx, n, p, s)
        BY <1>4 DEF VnodeOf, Made, VnodeType, FatVnode
    <3> QED BY <3>1, MadePlaces
  <2> QED BY <1>1, <2>1
<1>6. e.first = g[c][s].first /\ e.size = g[c][s].size
  <2> IsEntry(u, d, c, s) /\ (~d[c][s].isdir => \A v \in Vnode : ~At(fw, v, c, s))
      BY <1>1
  <2>1. CASE e.isdir
      BY <1>2, <2>1, DirEntryRight
  <2>2. CASE ~e.isdir
      BY <1>2, <2>2, EntryRight
  <2> QED BY <2>1, <2>2
<1>7. IsEntry(u, d, c, s) /\ Agrees(fx[n], e, g[c][s])
    BY <1>1, <1>4, <1>6 DEF Agrees, VnodeOf
<1>8. ASSUME NEW v \in Vnode, NEW b, NEW r, At(fx, v, b, r)
      PROVE  IsEntry(u, d, b, r) /\ Agrees(fx[v], d[b][r], g[b][r])
  <2>1. CASE v = n /\ b = c /\ r = s
      BY <1>2, <1>7, <2>1, Zenon
  <2>2. CASE At(fw, v, b, r)
    <3>1. v # n
        BY <2>2, Zenon DEF At
    <3>2. IsEntry(u, d, b, r) /\ Agrees(fw[v], d[b][r], g[b][r])
        BY <2>2, VnodePlace, Zenon
    <3> QED BY <1>4, <3>1, <3>2
  <2> QED BY <1>5, <1>8, <2>1, <2>2
<1>9. ASSUME NEW v \in Vnode, NEW w \in Vnode, NEW b, NEW r,
             At(fx, v, b, r), At(fx, w, b, r), ~fx[v].isdir
      PROVE  v = w
  <2>1. ~d[b][r].isdir
    <3>1. Agrees(fx[v], d[b][r], g[b][r])
        BY <1>8, <1>9
    <3> QED BY <1>9, <3>1 DEF Agrees
  <2>2. CASE b = c /\ r = s
      BY <1>1, <1>2, <1>5, <1>9, <2>1, <2>2, Zenon
  <2>3. CASE ~(b = c /\ r = s)
    <3>1. At(fw, v, b, r) /\ At(fw, w, b, r)
        BY <1>5, <1>9, <2>3
    <3>2. v # n /\ b \in Cluster /\ r \in Slots[b]
        BY <3>1, VnodePlace, Zenon DEF At
    <3> QED BY <1>4, <1>9, <3>1, <3>2, Zenon DEF VnodesGood
  <2> QED BY <2>2, <2>3, Zenon
<1>10. ASSUME NEW b \in Cluster, NEW r \in Slots[b], IsEntry(u, d, b, r),
              \A v \in Vnode : ~At(fx, v, b, r)
       PROVE  d[b][r].first = g[b][r].first /\ d[b][r].size = g[b][r].size
  <2>1. \A v \in Vnode : ~At(fw, v, b, r)
      BY <1>5, <1>10, Zenon
  <2> QED BY <1>10, <2>1, Zenon DEF VnodesGood
<1>11. VnodesGood(u, d, fx, g)
    BY <1>8, <1>9, <1>10, PlacesGood, Zenon
<1> QED BY <1>1, <1>2, <1>3, <1>11

\* A vnode without flags of its own goes.
LEMMA GoneTree ==
    ASSUME NEW fw, VnodeType(fw), VnodeInv(fw), NEW n \in Vnode, n # RootVnode,
           \A w \in Vnode : fw[w].parent # n
    PROVE  LET fx == [fw EXCEPT ![n] = NoFatVnode]
           IN /\ VnodeType(fx) /\ VnodeInv(fx)
              /\ \A v \in Vnode : \A b, r : At(fx, v, b, r) <=> At(fw, v, b, r) /\ v # n
<1> DEFINE fx == [fw EXCEPT ![n] = NoFatVnode]
<1> USE TreeAssumption
<1>1. NoFatVnode \in FatVnode /\ NoFatVnode.used = FALSE
    BY DEF NoFatVnode, FatVnode
<1>2. VnodeType(fx) /\ fx[n] = NoFatVnode /\ \A w \in Vnode : w # n => fx[w] = fw[w]
    BY <1>1 DEF VnodeType
<1> HIDE DEF fx
<1>3. fx[RootVnode] = RootFatVnode
    BY <1>2 DEF VnodeInv
<1>4. ASSUME NEW v \in Vnode, fx[v].used, fx[v].isdir PROVE fx[v].first \in Cluster
    BY <1>1, <1>2, <1>4 DEF VnodeInv
<1>5. ASSUME NEW v \in Vnode, ~fx[v].used PROVE fx[v] = NoFatVnode
    BY <1>2, <1>5 DEF VnodeInv
<1>6. ASSUME NEW v \in Vnode \ {RootVnode}, fx[v].used PROVE Hangs(fx, v)
    BY <1>1, <1>2, <1>6 DEF VnodeInv, Hangs
<1>7. VnodeInv(fx)
    BY <1>3, <1>4, <1>5, <1>6, Zenon DEF VnodeInv
<1>8. ASSUME NEW v \in Vnode, NEW b, NEW r
      PROVE  At(fx, v, b, r) <=> At(fw, v, b, r) /\ v # n
  <2>1. CASE v = n \/ ~fw[v].used \/ v = RootVnode
      BY <1>1, <1>2, <2>1 DEF At
  <2>2. CASE v # n /\ fw[v].used /\ v # RootVnode
    <3>1. fw[v].parent \in Vnode /\ fw[v].parent # n
        BY <2>2 DEF VnodeInv, Hangs
    <3> QED BY <1>2, <2>2, <3>1 DEF At
  <2> QED BY <2>1, <2>2
<1> QED BY <1>2, <1>7, <1>8, Zenon DEF fx

\* Dropping a vnode that has no more than times to write back keeps the others right.
LEMMA GoneGood ==
    ASSUME NEW u, NEW d, NEW fw, NEW g, VnodesGood(u, d, fw, g),
           VnodeType(fw), VnodeInv(fw), NEW n \in Vnode, n # RootVnode, fw[n].used,
           \A w \in Vnode : fw[w].parent # n, fw[n].dirty \subseteq {"time"}
    PROVE  VnodesGood(u, d, [fw EXCEPT ![n] = NoFatVnode], g)
<1>1. PICK fx : fx = [fw EXCEPT ![n] = NoFatVnode]
    OBVIOUS
<1>2. \A v \in Vnode : \A b, r : At(fx, v, b, r) <=> At(fw, v, b, r) /\ v # n
    BY <1>1, GoneTree, Zenon
<1>3. \A v \in Vnode : v # n => fx[v] = fw[v]
    BY <1>1 DEF VnodeType
<1>4. ASSUME NEW v \in Vnode, NEW b, NEW r, At(fx, v, b, r)
      PROVE  IsEntry(u, d, b, r) /\ Agrees(fx[v], d[b][r], g[b][r])
  <2>1. At(fw, v, b, r) /\ fx[v] = fw[v]
      BY <1>2, <1>3, <1>4
  <2>2. IsEntry(u, d, b, r) /\ Agrees(fw[v], d[b][r], g[b][r])
      BY <2>1, VnodePlace, Zenon
  <2> QED BY <2>1, <2>2
<1>5. ASSUME NEW v \in Vnode, NEW w \in Vnode, NEW b, NEW r,
             At(fx, v, b, r), At(fx, w, b, r), ~fx[v].isdir
      PROVE  v = w
  <2>1. At(fw, v, b, r) /\ At(fw, w, b, r) /\ ~fw[v].isdir
      BY <1>2, <1>3, <1>5, Zenon
  <2>2. b \in Cluster /\ r \in Slots[b]
      BY <2>1, VnodePlace, Zenon
  <2> QED BY <2>1, <2>2, Zenon DEF VnodesGood
<1>6. ASSUME NEW b \in Cluster, NEW r \in Slots[b], IsEntry(u, d, b, r),
             \A v \in Vnode : ~At(fx, v, b, r)
      PROVE  d[b][r].first = g[b][r].first /\ d[b][r].size = g[b][r].size
  <2>1. CASE \A v \in Vnode : ~At(fw, v, b, r)
      BY <1>6, <2>1, Zenon DEF VnodesGood
  <2>2. CASE \E v \in Vnode : At(fw, v, b, r)
    <3>1. At(fw, n, b, r)
        BY <1>2, <1>6, <2>2, Zenon
    <3>2. Agrees(fw[n], d[b][r], g[b][r])
        BY <3>1, VnodePlace, Zenon
    <3> QED BY <3>2 DEF Agrees
  <2> QED BY <2>1, <2>2, Zenon
<1> QED BY <1>1, <1>4, <1>5, <1>6, PlacesGood, Zenon

----------------------------------------------------------------------------
(* The disk *)

\* Directories of which some are freed lie in no circle.
LEMMA FewerDirs ==
    ASSUME NEW u, NEW dd, NEW u1, NoCircle(u, dd), \A c \in Cluster : u1[c] = "dir" => u[c] = "dir"
    PROVE  NoCircle(u1, dd)
<1> SUFFICES ASSUME NEW S \in SUBSET {c \in Cluster \ {Root} : u1[c] = "dir"}, S # {}
             PROVE  \E c \in S : dd[c] \notin S
    BY DEF NoCircle
<1>1. S \in SUBSET {c \in Cluster \ {Root} : u[c] = "dir"}
    OBVIOUS
<1> QED BY <1>1, Zenon DEF NoCircle

\* An entry is allocated to no cluster that is free.
LEMMA OwnedUsed ==
    ASSUME NEW u, NEW d, NEW dd, NEW g, EntriesGood(u, d, dd, g), NEW c \in Cluster, NEW s \in Slots[c],
           IsEntry(u, d, c, s), g[c][s].first \in Cluster
    PROVE  u[g[c][s].first] \in {"dir", "file", "data"}
    BY TreeAssumption DEF EntriesGood, TrueTo

\* fat32_update_fdentry changes neither names nor types.
LEMMA DiskSame ==
    ASSUME NEW u, NEW d, NEW dd, NEW g, DiskGood(u, d, dd, g), NEW d1,
           \A c \in Cluster : \A s \in Slots[c] :
               /\ d1[c][s] = FreeSlot <=> d[c][s] = FreeSlot
               /\ d1[c][s].name = d[c][s].name /\ d1[c][s].isdir = d[c][s].isdir
    PROVE  DiskGood(u, d1, dd, g)
<1>1. \A c \in Cluster : \A s \in Slots[c] : IsEntry(u, d1, c, s) <=> IsEntry(u, d, c, s)
    BY Zenon DEF IsEntry
<1>2. NoNameFree(u, d1)
    BY DEF DiskGood, NoNameFree
<1>3. EntriesGood(u, d1, dd, g)
    BY <1>1 DEF DiskGood, EntriesGood
<1>4. OneOwner(u, d1, g)
    BY <1>1 DEF DiskGood, OneOwner
<1>5. NoneLost(u, d1, g)
    BY <1>1 DEF DiskGood, NoneLost
<1> QED BY <1>2, <1>3, <1>4, <1>5, Zenon DEF DiskGood

\* fat32_create: a new file has no cluster.
LEMMA DiskNewFile ==
    ASSUME NEW u, NEW d, NEW dd, NEW g, DiskGood(u, d, dd, g), NEW d1, NEW g1,
           NEW c \in Cluster, NEW s \in Slots[c], u[c] = "dir", d[c][s] = FreeSlot,
           Same(d, d1, c, s), Same(g, g1, c, s), d1[c][s].name \in Name, ~d1[c][s].isdir,
           g1[c][s].first = NoCluster, g1[c][s].size = 0
    PROVE  DiskGood(u, d1, dd, g1)
<1> USE TreeAssumption
<1>1. d1[c][s] # FreeSlot
    BY DEF FreeSlot
<1>2. \A b \in Cluster : \A r \in Slots[b] : IsEntry(u, d1, b, r) <=> IsEntry(u, d, b, r) \/ (b = c /\ r = s)
    BY <1>1 DEF IsEntry, Same
<1>3. \A b \in Cluster : \A r \in Slots[b] : IsEntry(u, d, b, r) => d1[b][r] = d[b][r] /\ g1[b][r] = g[b][r]
    BY DEF IsEntry, Same
<1>4. NoNameFree(u, d1)
  <2> SUFFICES ASSUME NEW b \in Cluster, NEW r \in Slots[b], u[b] = "dir", d1[b][r].name = NoName
               PROVE  d1[b][r] = FreeSlot
      BY Zenon DEF NoNameFree
  <2>1. b # c \/ r # s
      OBVIOUS
  <2> QED BY <2>1 DEF DiskGood, NoNameFree, Same
<1>5. EntriesGood(u, d1, dd, g1)
  <2> SUFFICES ASSUME NEW b \in Cluster, NEW r \in Slots[b], IsEntry(u, d1, b, r)
               PROVE  TrueTo(u, d1[b][r].isdir, g1[b][r]) /\ (d1[b][r].isdir => dd[g1[b][r].first] = b)
      BY Zenon DEF EntriesGood
  <2>1. CASE b = c /\ r = s
      BY <2>1 DEF TrueTo
  <2>2. CASE IsEntry(u, d, b, r)
      BY <1>3, <2>2 DEF DiskGood, EntriesGood
  <2> QED BY <1>2, <2>1, <2>2
<1>6. OneOwner(u, d1, g1)
    BY <1>2, <1>3 DEF DiskGood, OneOwner
<1>7. NoneLost(u, d1, g1)
  <2> SUFFICES ASSUME NEW x \in Cluster \ {Root}, u[x] # "free"
               PROVE  \E b \in Cluster : \E r \in Slots[b] : IsEntry(u, d1, b, r) /\ g1[b][r].first = x
      BY Zenon DEF NoneLost
  <2>1. PICK b \in Cluster : \E r \in Slots[b] : IsEntry(u, d, b, r) /\ g[b][r].first = x
      BY Zenon DEF DiskGood, NoneLost
  <2> QED BY <1>2, <1>3, <2>1
<1> QED BY <1>4, <1>5, <1>6, <1>7, Zenon DEF DiskGood

\* A directory is entered and made empty.
NewDir(d, d1, c, s, e, new) ==
    /\ d1[c][s] = e /\ d1[new] = EmptyDir(new)
    /\ \A b \in Cluster : \A r \in Slots[b] : (b # c \/ r # s) /\ b # new => d1[b][r] = d[b][r]

\* u1 is u but for its value y at x.
Sets(u, u1, x, y) == u1[x] = y /\ \A b \in Cluster : b # x => u1[b] = u[b]

\* fat32_mkdir: a free cluster becomes a directory.
LEMMA DiskNewDir ==
    ASSUME NEW u, NEW d, NEW dd, NEW g, DiskGood(u, d, dd, g),
           NEW c \in Cluster, NEW s \in Slots[c], u[c] = "dir", d[c][s] = FreeSlot,
           NEW new \in Cluster, u[new] = "free", NEW e, e.name \in Name, e.isdir,
           NEW u1, Sets(u, u1, new, "dir"), NEW d1, NewDir(d, d1, c, s, e, new),
           NEW dd1, Sets(dd, dd1, new, c), NEW g1, Same(g, g1, c, s), g1[c][s].first = new
    PROVE  DiskGood(u1, d1, dd1, g1)
<1> USE TreeAssumption
<1>0. /\ u1[new] = "dir" /\ \A b \in Cluster : b # new => u1[b] = u[b]
      /\ dd1[new] = c /\ \A b \in Cluster : b # new => dd1[b] = dd[b]
    BY DEF Sets
<1>1. /\ d1[c][s] = e /\ \A r \in Slots[new] : d1[new][r] = FreeSlot
      /\ \A b \in Cluster : \A r \in Slots[b] : (b # c \/ r # s) /\ b # new => d1[b][r] = d[b][r]
    BY DEF NewDir, EmptyDir
<1>3. d1[c][s] # FreeSlot /\ c # new /\ new # Root
    BY <1>1 DEF FreeSlot, DiskGood
<1>4. \A b \in Cluster : \A r \in Slots[b] : IsEntry(u1, d1, b, r) <=> IsEntry(u, d, b, r) \/ (b = c /\ r = s)
    BY <1>0, <1>1, <1>3 DEF IsEntry
<1>5. \A b \in Cluster : \A r \in Slots[b] : IsEntry(u, d, b, r) => d1[b][r] = d[b][r] /\ g1[b][r] = g[b][r]
    BY <1>1, <1>3 DEF IsEntry, Same
<1>6. \A b \in Cluster : \A r \in Slots[b] : IsEntry(u, d, b, r) =>
          /\ g[b][r].first # new
          /\ TrueTo(u, d[b][r].isdir, g[b][r])
          /\ d[b][r].isdir => dd[g[b][r].first] = b
    BY DEF DiskGood, EntriesGood, TrueTo
<1>7. NoNameFree(u1, d1)
  <2> SUFFICES ASSUME NEW b \in Cluster, NEW r \in Slots[b], u1[b] = "dir", d1[b][r].name = NoName
               PROVE  d1[b][r] = FreeSlot
      BY Zenon DEF NoNameFree
  <2>1. b # c \/ r # s
      BY <1>1
  <2> QED BY <1>0, <1>1, <2>1 DEF DiskGood, NoNameFree
<1>8. EntriesGood(u1, d1, dd1, g1)
  <2> SUFFICES ASSUME NEW b \in Cluster, NEW r \in Slots[b], IsEntry(u1, d1, b, r)
               PROVE  TrueTo(u1, d1[b][r].isdir, g1[b][r]) /\ (d1[b][r].isdir => dd1[g1[b][r].first] = b)
      BY Zenon DEF EntriesGood
  <2>1. CASE b = c /\ r = s
      BY <1>0, <1>1, <1>3, <2>1 DEF TrueTo
  <2>2. CASE IsEntry(u, d, b, r)
    <3>1. d1[b][r] = d[b][r] /\ g1[b][r] = g[b][r]
        BY <1>5, <2>2
    <3>2. g[b][r].first # new /\ TrueTo(u, d[b][r].isdir, g[b][r]) /\ (d[b][r].isdir => dd[g[b][r].first] = b)
        BY <1>6, <2>2
    <3> QED BY <1>0, <3>1, <3>2 DEF TrueTo
  <2> QED BY <1>4, <2>1, <2>2
<1>9. OneOwner(u1, d1, g1)
    BY <1>4, <1>5, <1>6 DEF DiskGood, OneOwner
<1>10. NoneLost(u1, d1, g1)
  <2> SUFFICES ASSUME NEW x \in Cluster \ {Root}, u1[x] # "free"
               PROVE  \E b \in Cluster : \E r \in Slots[b] : IsEntry(u1, d1, b, r) /\ g1[b][r].first = x
      BY Zenon DEF NoneLost
  <2>1. CASE x = new
      BY <1>4, <2>1
  <2>2. CASE x # new
    <3>1. PICK b \in Cluster : \E r \in Slots[b] : IsEntry(u, d, b, r) /\ g[b][r].first = x
        BY <1>0, <2>2 DEF DiskGood, NoneLost
    <3> QED BY <1>4, <1>5, <3>1
  <2> QED BY <2>1, <2>2
<1>11. NoCircle(u1, dd1)
  <2> SUFFICES ASSUME NEW S \in SUBSET {b \in Cluster \ {Root} : u1[b] = "dir"}, S # {},
                      \A b \in S : dd1[b] \in S
               PROVE  FALSE
      BY DEF NoCircle
  <2>1. ASSUME NEW b \in Cluster \ {Root}, u[b] = "dir" PROVE dd[b] # new
    <3>1. PICK a \in Cluster : \E r \in Slots[a] : IsEntry(u, d, a, r) /\ g[a][r].first = b
        BY <2>1 DEF DiskGood, NoneLost
    <3>2. PICK r \in Slots[a] : IsEntry(u, d, a, r) /\ g[a][r].first = b
        BY <3>1
    <3>3. dd[b] = a /\ u[a] = "dir"
        BY <1>6, <2>1, <3>2 DEF TrueTo, IsEntry
    <3> QED BY <3>3
  <2>2. PICK T : T = S \ {new}
      OBVIOUS
  <2>3. T \in SUBSET {b \in Cluster \ {Root} : u[b] = "dir"}
      BY <1>0, <2>2
  <2>4. T # {}
    <3>1. CASE S = {new}
        BY <1>0, <1>3, <3>1
    <3> QED BY <2>2, <3>1
  <2>5. \A b \in T : dd[b] \in T
      BY <1>0, <2>1, <2>2, <2>3
  <2> QED BY <2>3, <2>4, <2>5, Zenon DEF DiskGood, NoCircle
<1>12. u1[Root] = "dir"
    BY <1>0, <1>3 DEF DiskGood
<1> QED BY <1>7, <1>8, <1>9, <1>10, <1>11, <1>12, Zenon DEF DiskGood

\* fat32_remove_common: the entry goes, and what it had is free.
LEMMA DiskDeleted ==
    ASSUME NEW u, NEW d, NEW dd, NEW g, DiskGood(u, d, dd, g), UseType(u), NEW d1, NEW u1,
           NEW c \in Cluster, NEW s \in Slots[c], IsEntry(u, d, c, s),
           Same(d, d1, c, s), d1[c][s] = FreeSlot,
           u1 = IF g[c][s].first = NoCluster THEN u ELSE [u EXCEPT ![g[c][s].first] = "free"],
           d[c][s].isdir => \A r \in Slots[g[c][s].first] : d[g[c][s].first][r] = FreeSlot
    PROVE  DiskGood(u1, d1, dd, g)
<1> USE TreeAssumption
<1>1. PICK x : x = g[c][s].first
    OBVIOUS
<1>2. TrueTo(u, d[c][s].isdir, g[c][s])
    BY Zenon DEF DiskGood, EntriesGood
<1>3. /\ x = NoCluster => u1 = u /\ ~d[c][s].isdir
      /\ x # NoCluster => x \in Cluster \ {Root} /\ u1[x] = "free"
      /\ \A b \in Cluster : b # x => u1[b] = u[b]
      /\ u1[Root] = "dir"
    BY <1>1, <1>2 DEF UseType, TrueTo, DiskGood
<1>4. ASSUME NEW b \in Cluster, NEW r \in Slots[b]
      PROVE  IsEntry(u1, d1, b, r) <=> IsEntry(u, d, b, r) /\ ~(b = c /\ r = s)
  <2>1. CASE b = c /\ r = s
      BY <2>1 DEF IsEntry
  <2>2. CASE ~(b = c /\ r = s) /\ b # x
      BY <1>3, <2>2 DEF IsEntry, Same
  <2>3. CASE ~(b = c /\ r = s) /\ b = x
    <3>1. ~IsEntry(u1, d1, b, r)
        BY <1>3, <2>3 DEF IsEntry
    <3>2. ~IsEntry(u, d, b, r)
        BY <1>1, <1>2, <1>3, <2>3 DEF IsEntry, TrueTo
    <3> QED BY <3>1, <3>2
  <2> QED BY <2>1, <2>2, <2>3
<1>5. \A b \in Cluster : \A r \in Slots[b] : ~(b = c /\ r = s) => d1[b][r] = d[b][r]
    BY DEF Same
<1>6. \A b \in Cluster : \A r \in Slots[b] : IsEntry(u1, d1, b, r) =>
          /\ g[b][r].first # x \/ x = NoCluster
          /\ d1[b][r] = d[b][r] /\ TrueTo(u, d[b][r].isdir, g[b][r])
          /\ d[b][r].isdir => dd[g[b][r].first] = b
    BY <1>1, <1>4, <1>5 DEF DiskGood, EntriesGood, OneOwner
<1>7. NoNameFree(u1, d1)
  <2> SUFFICES ASSUME NEW b \in Cluster, NEW r \in Slots[b], u1[b] = "dir", d1[b][r].name = NoName
               PROVE  d1[b][r] = FreeSlot
      BY Zenon DEF NoNameFree
  <2>1. CASE b = c /\ r = s
      BY <2>1
  <2>2. CASE ~(b = c /\ r = s)
    <3>1. u[b] = "dir"
        BY <1>3
    <3> QED BY <1>5, <2>2, <3>1 DEF DiskGood, NoNameFree
  <2> QED BY <2>1, <2>2
<1>8. EntriesGood(u1, d1, dd, g)
  <2> SUFFICES ASSUME NEW b \in Cluster, NEW r \in Slots[b], IsEntry(u1, d1, b, r)
               PROVE  TrueTo(u1, d1[b][r].isdir, g[b][r]) /\ (d1[b][r].isdir => dd[g[b][r].first] = b)
      BY Zenon DEF EntriesGood
  <2>1. /\ g[b][r].first # x \/ x = NoCluster
        /\ d1[b][r] = d[b][r] /\ TrueTo(u, d[b][r].isdir, g[b][r])
        /\ d[b][r].isdir => dd[g[b][r].first] = b
      BY <1>6
  <2> QED BY <1>3, <2>1 DEF TrueTo
<1>9. OneOwner(u1, d1, g)
    BY <1>4 DEF DiskGood, OneOwner
<1>10. NoneLost(u1, d1, g)
  <2> SUFFICES ASSUME NEW y \in Cluster \ {Root}, u1[y] # "free"
               PROVE  \E b \in Cluster : \E r \in Slots[b] : IsEntry(u1, d1, b, r) /\ g[b][r].first = y
      BY Zenon DEF NoneLost
  <2>1. u[y] # "free" /\ y # x
      BY <1>3
  <2>2. PICK b \in Cluster : \E r \in Slots[b] : IsEntry(u, d, b, r) /\ g[b][r].first = y
      BY <2>1 DEF DiskGood, NoneLost
  <2> QED BY <1>1, <1>4, <2>1, <2>2
<1>11. NoCircle(u1, dd)
  <2>1. \A b \in Cluster : u1[b] = "dir" => u[b] = "dir"
      BY <1>3
  <2> QED BY <2>1, FewerDirs, Zenon DEF DiskGood
<1> QED BY <1>3, <1>7, <1>8, <1>9, <1>10, <1>11, Zenon DEF DiskGood

\* The entry in slot s of the directory in cluster c is now e, in slot r of b.
Moves(d, d1, c, s, b, r, e) ==
    /\ d1[b][r] = e
    /\ ~(b = c /\ r = s) => d1[c][s] = FreeSlot
    /\ \A a \in Cluster : \A q \in Slots[a] :
         ~(a = c /\ q = s) /\ ~(a = b /\ q = r) => d1[a][q] = d[a][q]

\* The directory in cluster x is now below that in b.
Relinks(dd, dd1, x, b) == \A y \in Cluster : dd1[y] = IF y = x THEN b ELSE dd[y]

\* fat32_rename: the entry in slot s of c moves to slot r of b.
LEMMA DiskMoved ==
    ASSUME NEW u, NEW d, NEW dd, NEW g, DiskGood(u, d, dd, g), NEW d1, NEW dd1, NEW g1, NEW e,
           NEW c \in Cluster, NEW s \in Slots[c], IsEntry(u, d, c, s),
           NEW b \in Cluster, NEW r \in Slots[b], u[b] = "dir",
           d[b][r] = FreeSlot \/ (b = c /\ r = s), Moves(d, d1, c, s, b, r, e),
           e.name \in Name, e.isdir = d[c][s].isdir, Same(g, g1, b, r), g1[b][r] = g[c][s],
           IF d[c][s].isdir THEN Relinks(dd, dd1, g[c][s].first, b) ELSE dd1 = dd, NoCircle(u, dd1)
    PROVE  DiskGood(u, d1, dd1, g1)
<1>0. /\ d1[b][r] = e /\ (~(b = c /\ r = s) => d1[c][s] = FreeSlot)
      /\ \A a \in Cluster : \A q \in Slots[a] :
           ~(a = c /\ q = s) /\ ~(a = b /\ q = r) => d1[a][q] = d[a][q]
      /\ \A x \in Cluster : dd1[x] = IF d[c][s].isdir /\ x = g[c][s].first THEN b ELSE dd[x]
    BY DEF Moves, Relinks
<1> USE TreeAssumption
<1>1. d1[b][r] # FreeSlot
    BY <1>0 DEF FreeSlot
<1>2. TrueTo(u, d[c][s].isdir, g[c][s])
    BY Zenon DEF DiskGood, EntriesGood
<1>3. ASSUME NEW a \in Cluster, NEW q \in Slots[a]
      PROVE  IsEntry(u, d1, a, q) <=> (IsEntry(u, d, a, q) /\ ~(a = c /\ q = s)) \/ (a = b /\ q = r)
  <2>1. CASE a = b /\ q = r
      BY <1>0, <1>1, <2>1 DEF IsEntry
  <2>2. CASE a = c /\ q = s /\ ~(a = b /\ q = r)
      BY <1>0, <2>2 DEF IsEntry
  <2>3. CASE ~(a = c /\ q = s) /\ ~(a = b /\ q = r)
      BY <1>0, <2>3 DEF IsEntry
  <2> QED BY <1>0, <2>1, <2>2, <2>3
<1>4. ASSUME NEW a \in Cluster, NEW q \in Slots[a], IsEntry(u, d, a, q), ~(a = c /\ q = s)
      PROVE  d1[a][q] = d[a][q] /\ g1[a][q] = g[a][q] /\ ~(a = b /\ q = r)
  <2>1. ~(a = b /\ q = r)
      BY <1>0, <1>4 DEF IsEntry
  <2> QED BY <1>0, <1>4, <2>1 DEF Same
<1>5. NoNameFree(u, d1)
  <2> SUFFICES ASSUME NEW a \in Cluster, NEW q \in Slots[a], u[a] = "dir", d1[a][q].name = NoName
               PROVE  d1[a][q] = FreeSlot
      BY Zenon DEF NoNameFree
  <2>1. ~(a = b /\ q = r)
      BY <1>0
  <2>2. CASE a = c /\ q = s
      BY <1>0, <2>1, <2>2
  <2>3. CASE ~(a = c /\ q = s)
      BY <1>0, <2>1, <2>3 DEF DiskGood, NoNameFree
  <2> QED BY <1>0, <2>2, <2>3
<1>6. EntriesGood(u, d1, dd1, g1)
  <2> SUFFICES ASSUME NEW a \in Cluster, NEW q \in Slots[a], IsEntry(u, d1, a, q)
               PROVE  TrueTo(u, d1[a][q].isdir, g1[a][q]) /\ (d1[a][q].isdir => dd1[g1[a][q].first] = a)
      BY Zenon DEF EntriesGood
  <2>1. CASE a = b /\ q = r
      BY <1>0, <1>2, <2>1 DEF TrueTo
  <2>2. CASE IsEntry(u, d, a, q) /\ ~(a = c /\ q = s)
    <3>1. d1[a][q] = d[a][q] /\ g1[a][q] = g[a][q]
        BY <1>0, <1>4, <2>2
    <3>2. TrueTo(u, d[a][q].isdir, g[a][q]) /\ (d[a][q].isdir => dd[g[a][q].first] = a)
        BY <1>0, <2>2, Zenon DEF DiskGood, EntriesGood
    <3>3. g[a][q].first # NoCluster => g[a][q].first # g[c][s].first
        BY <1>0, <2>2 DEF DiskGood, OneOwner
    <3> QED BY <1>0, <3>1, <3>2, <3>3 DEF TrueTo
  <2> QED BY <1>0, <1>3, <2>1, <2>2
<1>7. OneOwner(u, d1, g1)
  <2> SUFFICES ASSUME NEW a \in Cluster, NEW k \in Cluster, NEW q \in Slots[a], NEW l \in Slots[k],
                      IsEntry(u, d1, a, q), IsEntry(u, d1, k, l),
                      g1[a][q].first = g1[k][l].first, g1[a][q].first # NoCluster
               PROVE  a = k /\ q = l
      BY Zenon DEF OneOwner
  <2> DEFINE old(j, i) == IsEntry(u, d, j, i) /\ ~(j = c /\ i = s)
  <2>1. CASE old(a, q) /\ old(k, l)
      BY <1>0, <1>4, <2>1 DEF DiskGood, OneOwner
  <2>2. CASE old(a, q) /\ k = b /\ l = r
      BY <1>0, <1>4, <2>2 DEF DiskGood, OneOwner
  <2>3. CASE a = b /\ q = r /\ old(k, l)
      BY <1>0, <1>4, <2>3 DEF DiskGood, OneOwner
  <2>4. CASE a = b /\ q = r /\ k = b /\ l = r
      BY <1>0, <2>4
  <2> QED BY <1>0, <1>3, <2>1, <2>2, <2>3, <2>4
<1>8. NoneLost(u, d1, g1)
  <2> SUFFICES ASSUME NEW y \in Cluster \ {Root}, u[y] # "free"
               PROVE  \E a \in Cluster : \E q \in Slots[a] : IsEntry(u, d1, a, q) /\ g1[a][q].first = y
      BY Zenon DEF NoneLost
  <2>1. PICK a \in Cluster : \E q \in Slots[a] : IsEntry(u, d, a, q) /\ g[a][q].first = y
      BY Zenon DEF DiskGood, NoneLost
  <2>2. PICK q \in Slots[a] : IsEntry(u, d, a, q) /\ g[a][q].first = y
      BY <1>0, <2>1
  <2>3. CASE a = c /\ q = s
      BY <1>0, <1>3, <2>2, <2>3
  <2>4. CASE ~(a = c /\ q = s)
      BY <1>0, <1>3, <1>4, <2>2, <2>4
  <2> QED BY <1>0, <2>3, <2>4
<1> QED BY <1>5, <1>6, <1>7, <1>8, Zenon DEF DiskGood

\* fat32_write: an empty file gets a free cluster.
LEMMA DiskWritten ==
    ASSUME NEW u, NEW d, NEW dd, NEW g, DiskGood(u, d, dd, g), UseType(u), NEW u1, NEW g1,
           NEW c \in Cluster, NEW s \in Slots[c], IsEntry(u, d, c, s), ~d[c][s].isdir,
           g[c][s].first = NoCluster, NEW x \in Cluster, u[x] = "free",
           NEW k, k = IF g1[c][s].size = 0 THEN "file" ELSE "data",
           u1 = [u EXCEPT ![x] = k], Same(g, g1, c, s), g1[c][s].first = x
    PROVE  DiskGood(u1, d, dd, g1)
<1> USE TreeAssumption
<1>1. u1[x] = k /\ k \in {"file", "data"} /\ \A b \in Cluster : b # x => u1[b] = u[b]
    BY DEF UseType
<1>2. u1[Root] = "dir" /\ x # Root
    BY <1>1 DEF DiskGood
<1>3. \A b \in Cluster : \A r \in Slots[b] : IsEntry(u1, d, b, r) <=> IsEntry(u, d, b, r)
    BY <1>1 DEF IsEntry
<1>4. \A b \in Cluster : \A r \in Slots[b] : IsEntry(u, d, b, r) =>
          /\ g[b][r].first # x
          /\ TrueTo(u, d[b][r].isdir, g[b][r])
          /\ d[b][r].isdir => dd[g[b][r].first] = b
    BY DEF DiskGood, EntriesGood, TrueTo
<1>5. NoNameFree(u1, d)
    BY <1>1 DEF DiskGood, NoNameFree
<1>6. EntriesGood(u1, d, dd, g1)
  <2> SUFFICES ASSUME NEW b \in Cluster, NEW r \in Slots[b], IsEntry(u1, d, b, r)
               PROVE  TrueTo(u1, d[b][r].isdir, g1[b][r]) /\ (d[b][r].isdir => dd[g1[b][r].first] = b)
      BY Zenon DEF EntriesGood
  <2>1. CASE b = c /\ r = s
      BY <1>1, <2>1 DEF TrueTo
  <2>2. CASE ~(b = c /\ r = s)
    <3>1. g1[b][r] = g[b][r]
        BY <2>2 DEF Same
    <3>2. g[b][r].first # x /\ TrueTo(u, d[b][r].isdir, g[b][r]) /\ (d[b][r].isdir => dd[g[b][r].first] = b)
        BY <1>3, <1>4
    <3> QED BY <1>1, <3>1, <3>2 DEF TrueTo
  <2> QED BY <2>1, <2>2
<1>7. OneOwner(u1, d, g1)
  <2> SUFFICES ASSUME NEW a \in Cluster, NEW h \in Cluster, NEW q \in Slots[a], NEW l \in Slots[h],
                      IsEntry(u, d, a, q), IsEntry(u, d, h, l),
                      g1[a][q].first = g1[h][l].first, g1[a][q].first # NoCluster
               PROVE  a = h /\ q = l
      BY <1>3 DEF OneOwner
  <2>1. \A b \in Cluster : \A r \in Slots[b] : ~(b = c /\ r = s) => g1[b][r] = g[b][r]
      BY DEF Same
  <2>2. g[a][q].first # x /\ g[h][l].first # x
      BY <1>4
  <2> QED BY <2>1, <2>2 DEF DiskGood, OneOwner
<1>8. NoneLost(u1, d, g1)
  <2> SUFFICES ASSUME NEW y \in Cluster \ {Root}, u1[y] # "free"
               PROVE  \E b \in Cluster : \E r \in Slots[b] : IsEntry(u1, d, b, r) /\ g1[b][r].first = y
      BY Zenon DEF NoneLost
  <2>1. CASE y = x
      BY <1>3, <2>1
  <2>2. CASE y # x
    <3>1. PICK b \in Cluster : \E r \in Slots[b] : IsEntry(u, d, b, r) /\ g[b][r].first = y
        BY <1>1, <2>2 DEF DiskGood, NoneLost
    <3>2. PICK r \in Slots[b] : IsEntry(u, d, b, r) /\ g[b][r].first = y
        BY <3>1
    <3>3. ~(b = c /\ r = s)
        BY <3>2
    <3> QED BY <1>3, <3>2, <3>3 DEF Same
  <2> QED BY <2>1, <2>2
<1>9. NoCircle(u1, dd)
  <2>1. \A b \in Cluster : u1[b] = "dir" => u[b] = "dir"
      BY <1>1
  <2> QED BY <2>1, FewerDirs, Zenon DEF DiskGood
<1> QED BY <1>2, <1>5, <1>6, <1>7, <1>8, <1>9, Zenon DEF DiskGood

\* fat32_write to a file that has a cluster: its size changes.
LEMMA DiskSized ==
    ASSUME NEW u, NEW d, NEW dd, NEW g, DiskGood(u, d, dd, g), UseType(u), NEW u1, NEW g1,
           NEW c \in Cluster, NEW s \in Slots[c], IsEntry(u, d, c, s), ~d[c][s].isdir,
           NEW x \in Cluster, g[c][s].first = x,
           NEW k, k = IF g1[c][s].size = 0 THEN "file" ELSE "data",
           u1 = [u EXCEPT ![x] = k], Same(g, g1, c, s), g1[c][s].first = x
    PROVE  DiskGood(u1, d, dd, g1)
<1> USE TreeAssumption
<1>1. \A b \in Cluster : \A r \in Slots[b] : g1[b][r].first = g[b][r].first
    BY DEF Same
<1>2. \A b \in Cluster : \A r \in Slots[b] : IsEntry(u, d, b, r) =>
          TrueTo(u, d[b][r].isdir, g[b][r]) /\ (d[b][r].isdir => dd[g[b][r].first] = b)
    BY Zenon DEF DiskGood, EntriesGood
<1>3. u[x] \in {"file", "data"}
    BY <1>2 DEF TrueTo
<1>4. u1[x] = k /\ k \in {"file", "data"} /\ \A b \in Cluster : b # x => u1[b] = u[b]
    BY DEF UseType
<1>5. \A b \in Cluster : (u1[b] = "dir" <=> u[b] = "dir") /\ (u1[b] = "free" <=> u[b] = "free")
    BY <1>3, <1>4
<1>6. \A b \in Cluster : \A r \in Slots[b] : IsEntry(u1, d, b, r) <=> IsEntry(u, d, b, r)
    BY <1>5 DEF IsEntry
<1>7. NoNameFree(u1, d)
    BY <1>5 DEF DiskGood, NoNameFree
<1>8. EntriesGood(u1, d, dd, g1)
  <2> SUFFICES ASSUME NEW b \in Cluster, NEW r \in Slots[b], IsEntry(u, d, b, r)
               PROVE  TrueTo(u1, d[b][r].isdir, g1[b][r]) /\ (d[b][r].isdir => dd[g1[b][r].first] = b)
      BY <1>6, Zenon DEF EntriesGood
  <2>1. TrueTo(u, d[b][r].isdir, g[b][r]) /\ (d[b][r].isdir => dd[g[b][r].first] = b)
      BY <1>2
  <2>2. CASE b = c /\ r = s
      BY <1>4, <2>2 DEF TrueTo
  <2>3. CASE ~(b = c /\ r = s)
    <3>1. g1[b][r] = g[b][r]
        BY <2>3 DEF Same
    <3>2. g[b][r].first # x
        BY <2>3 DEF DiskGood, OneOwner
    <3> QED BY <1>4, <2>1, <3>1, <3>2 DEF TrueTo
  <2> QED BY <2>2, <2>3
<1>9. OneOwner(u1, d, g1) /\ NoneLost(u1, d, g1)
  <2>1. OneOwner(u1, d, g1)
    <3> SUFFICES ASSUME NEW a \in Cluster, NEW b \in Cluster, NEW q \in Slots[a], NEW r \in Slots[b],
                        IsEntry(u1, d, a, q), IsEntry(u1, d, b, r),
                        g1[a][q].first = g1[b][r].first, g1[a][q].first # NoCluster
                 PROVE  a = b /\ q = r
        BY DEF OneOwner
    <3>1. IsEntry(u, d, a, q) /\ IsEntry(u, d, b, r)
        BY <1>6
    <3>2. g1[a][q].first = g[a][q].first /\ g1[b][r].first = g[b][r].first
        BY <1>1
    <3> QED BY <3>1, <3>2 DEF DiskGood, OneOwner
  <2>2. NoneLost(u1, d, g1)
    <3> SUFFICES ASSUME NEW y \in Cluster \ {Root}, u1[y] # "free"
                 PROVE  \E b \in Cluster : \E r \in Slots[b] : IsEntry(u1, d, b, r) /\ g1[b][r].first = y
        BY Zenon DEF NoneLost
    <3>1. u[y] # "free"
        BY <1>5
    <3>2. PICK b \in Cluster : \E r \in Slots[b] : IsEntry(u, d, b, r) /\ g[b][r].first = y
        BY <3>1 DEF DiskGood, NoneLost
    <3>3. PICK r \in Slots[b] : IsEntry(u, d, b, r) /\ g[b][r].first = y
        BY <3>2
    <3>4. IsEntry(u1, d, b, r) /\ g1[b][r].first = y
        BY <1>1, <1>6, <3>3
    <3> QED BY <3>4
  <2> QED BY <2>1, <2>2
<1>10. NoCircle(u1, dd) /\ u1[Root] = "dir"
    BY <1>5, FewerDirs, Zenon DEF DiskGood
<1> QED BY <1>7, <1>8, <1>9, <1>10, Zenon DEF DiskGood

\* fat32_truncate to no size: what the file had is free.
LEMMA DiskTruncated ==
    ASSUME NEW u, NEW d, NEW dd, NEW g, DiskGood(u, d, dd, g), UseType(u), NEW u1, NEW g1,
           NEW c \in Cluster, NEW s \in Slots[c], IsEntry(u, d, c, s), ~d[c][s].isdir,
           u1 = IF g[c][s].first = NoCluster THEN u ELSE [u EXCEPT ![g[c][s].first] = "free"],
           Same(g, g1, c, s), g1[c][s].first = NoCluster, g1[c][s].size = 0
    PROVE  DiskGood(u1, d, dd, g1)
<1> USE TreeAssumption
<1>1. PICK x : x = g[c][s].first
    OBVIOUS
<1>2. TrueTo(u, d[c][s].isdir, g[c][s])
    BY Zenon DEF DiskGood, EntriesGood
<1>3. /\ x = NoCluster => u1 = u
      /\ x # NoCluster => x \in Cluster \ {Root} /\ u1[x] = "free" /\ u[x] \in {"file", "data"}
      /\ \A b \in Cluster : b # x => u1[b] = u[b]
      /\ u1[Root] = "dir"
    BY <1>1, <1>2 DEF UseType, TrueTo, DiskGood
<1>4. \A b \in Cluster : \A r \in Slots[b] : IsEntry(u1, d, b, r) <=> IsEntry(u, d, b, r)
    BY <1>3 DEF IsEntry
<1>5. \A b \in Cluster : \A r \in Slots[b] : ~(b = c /\ r = s) => g1[b][r] = g[b][r]
    BY DEF Same
<1>6. NoNameFree(u1, d)
    BY <1>3 DEF DiskGood, NoNameFree
<1>7. EntriesGood(u1, d, dd, g1)
  <2> SUFFICES ASSUME NEW b \in Cluster, NEW r \in Slots[b], IsEntry(u1, d, b, r)
               PROVE  TrueTo(u1, d[b][r].isdir, g1[b][r]) /\ (d[b][r].isdir => dd[g1[b][r].first] = b)
      BY Zenon DEF EntriesGood
  <2>1. CASE b = c /\ r = s
      BY <2>1 DEF TrueTo
  <2>2. CASE ~(b = c /\ r = s)
    <3>1. g1[b][r] = g[b][r] /\ IsEntry(u, d, b, r)
        BY <1>4, <1>5, <2>2
    <3>2. TrueTo(u, d[b][r].isdir, g[b][r]) /\ (d[b][r].isdir => dd[g[b][r].first] = b)
        BY <3>1, Zenon DEF DiskGood, EntriesGood
    <3>3. g[b][r].first # NoCluster => g[b][r].first # x
        BY <1>1, <2>2, <3>1 DEF DiskGood, OneOwner
    <3> QED BY <1>3, <3>1, <3>2, <3>3 DEF TrueTo
  <2> QED BY <2>1, <2>2
<1>8. OneOwner(u1, d, g1)
    BY <1>4, <1>5 DEF DiskGood, OneOwner
<1>9. NoneLost(u1, d, g1)
  <2> SUFFICES ASSUME NEW y \in Cluster \ {Root}, u1[y] # "free"
               PROVE  \E b \in Cluster : \E r \in Slots[b] : IsEntry(u1, d, b, r) /\ g1[b][r].first = y
      BY Zenon DEF NoneLost
  <2>1. u[y] # "free" /\ y # x
      BY <1>3
  <2>2. PICK b \in Cluster : \E r \in Slots[b] : IsEntry(u, d, b, r) /\ g[b][r].first = y
      BY <2>1 DEF DiskGood, NoneLost
  <2>3. PICK r \in Slots[b] : IsEntry(u, d, b, r) /\ g[b][r].first = y
      BY <2>2
  <2> QED BY <1>1, <1>4, <1>5, <2>1, <2>3
<1>10. NoCircle(u1, dd)
  <2>1. \A b \in Cluster : u1[b] = "dir" => u[b] = "dir"
      BY <1>3
  <2> QED BY <2>1, FewerDirs, Zenon DEF DiskGood
<1> QED BY <1>3, <1>6, <1>7, <1>8, <1>9, <1>10, Zenon DEF DiskGood

----------------------------------------------------------------------------
(* The disk and the vnodes together *)

\* The vnode of a directory, and the directory above it
LEMMA DirVnode ==
    ASSUME NEW u, NEW d, NEW dd, NEW fw, NEW g, DiskGood(u, d, dd, g), VnodesGood(u, d, fw, g),
           VnodeInv(fw), NEW v \in Vnode, v # RootVnode, fw[v].used, fw[v].isdir
    PROVE  \E c \in Cluster : \E s \in Slots[c] :
               /\ At(fw, v, c, s) /\ IsEntry(u, d, c, s) /\ d[c][s].isdir
               /\ g[c][s].first = fw[v].first /\ dd[fw[v].first] = c
               /\ fw[v].parent \in Vnode /\ fw[fw[v].parent].used /\ fw[fw[v].parent].isdir
               /\ fw[fw[v].parent].first = c
<1>1. PICK c, s : c = fw[fw[v].parent].first /\ s = fw[v].s
    OBVIOUS
<1>2. At(fw, v, c, s)
    BY <1>1, Zenon DEF At
<1>3. c \in Cluster /\ s \in Slots[c] /\ IsEntry(u, d, c, s) /\ Agrees(fw[v], d[c][s], g[c][s])
    BY <1>2, VnodePlace, Zenon
<1>4. d[c][s].isdir /\ g[c][s].first = fw[v].first
    BY <1>3 DEF Agrees
<1>5. dd[g[c][s].first] = c
    BY <1>3, <1>4, Zenon DEF DiskGood, EntriesGood
<1>6. Hangs(fw, v)
    BY Zenon DEF VnodeInv
<1> QED BY <1>1, <1>2, <1>3, <1>4, <1>5, <1>6 DEF Hangs

\* The directory of a vnode is one on the disk.
LEMMA DirVnodeUsed ==
    ASSUME NEW u, NEW d, NEW dd, NEW fw, NEW g, DiskGood(u, d, dd, g), VnodesGood(u, d, fw, g),
           VnodeInv(fw), NEW v \in Vnode, fw[v].used, fw[v].isdir
    PROVE  fw[v].first \in Cluster /\ u[fw[v].first] = "dir"
<1>1. CASE v = RootVnode
    BY <1>1, RootUsed, TreeAssumption DEF DiskGood
<1>2. CASE v # RootVnode
  <2>1. PICK c \in Cluster : \E s \in Slots[c] :
            IsEntry(u, d, c, s) /\ d[c][s].isdir /\ g[c][s].first = fw[v].first
      BY <1>2, DirVnode
  <2>2. PICK s \in Slots[c] : IsEntry(u, d, c, s) /\ d[c][s].isdir /\ g[c][s].first = fw[v].first
      BY <2>1
  <2>3. TrueTo(u, d[c][s].isdir, g[c][s])
      BY <2>2, Zenon DEF DiskGood, EntriesGood
  <2> QED BY <2>2, <2>3 DEF TrueTo
<1> QED BY <1>1, <1>2

\* A directory without a vnode does not come to lie below itself: the
\* directory it moves to has a vnode, and so have all above that.
LEMMA MovedNoCircle ==
    ASSUME NEW u, NEW d, NEW dd, NEW fw, NEW g, DiskGood(u, d, dd, g), VnodesGood(u, d, fw, g),
           VnodeInv(fw), NEW c \in Cluster, NEW s \in Slots[c], IsEntry(u, d, c, s),
           \A v \in Vnode : ~At(fw, v, c, s),
           NEW w \in Vnode, fw[w].used, fw[w].isdir, NEW dd1,
           IF d[c][s].isdir THEN Relinks(dd, dd1, g[c][s].first, fw[w].first) ELSE dd1 = dd
    PROVE  NoCircle(u, dd1)
<1> SUFFICES ASSUME NEW S \in SUBSET {b \in Cluster \ {Root} : u[b] = "dir"}, S # {},
                    \A b \in S : dd1[b] \in S
             PROVE  FALSE
    BY DEF NoCircle
<1>0. \A x \in Cluster : dd1[x] = IF d[c][s].isdir /\ x = g[c][s].first THEN fw[w].first ELSE dd[x]
    BY DEF Relinks
<1>1. ASSUME NEW T \in SUBSET S, T # {}, \A b \in T : dd[b] \in T PROVE FALSE
  <2>1. T \in SUBSET {b \in Cluster \ {Root} : u[b] = "dir"}
      OBVIOUS
  <2> QED BY <1>1, <2>1, Zenon DEF DiskGood, NoCircle
<1>2. CASE ~(d[c][s].isdir /\ g[c][s].first \in S)
  <2>1. \A b \in S : dd[b] \in S
      BY <1>0, <1>2
  <2> QED BY <1>1, <2>1
<1>3. CASE d[c][s].isdir /\ g[c][s].first \in S
  <2> DEFINE T == {b \in S : \E v \in Vnode : fw[v].used /\ fw[v].isdir /\ fw[v].first = b}
  <2>1. fw[w].first \in T
      BY <1>0, <1>3
  <2>2. ASSUME NEW b \in T PROVE dd[b] \in T
    <3>1. PICK v \in Vnode : fw[v].used /\ fw[v].isdir /\ fw[v].first = b
        BY <2>2
    <3>2. v # RootVnode
        BY <2>2, <3>1, RootUsed
    <3>3. PICK a \in Cluster : \E r \in Slots[a] :
               /\ At(fw, v, a, r) /\ IsEntry(u, d, a, r)
               /\ g[a][r].first = fw[v].first /\ dd[fw[v].first] = a
               /\ fw[v].parent \in Vnode /\ fw[fw[v].parent].used /\ fw[fw[v].parent].isdir
               /\ fw[fw[v].parent].first = a
        BY <3>1, <3>2, DirVnode
    <3>4. PICK r \in Slots[a] : At(fw, v, a, r) /\ IsEntry(u, d, a, r) /\ g[a][r].first = b
        BY <3>1, <3>3
    <3>5. b \in Cluster /\ b # NoCluster
        BY <2>2, TreeAssumption
    <3>6. b # g[c][s].first
        BY <3>4, <3>5 DEF DiskGood, OneOwner
    <3>7. dd[b] = a /\ dd1[b] = dd[b] /\ b \in S
        BY <1>0, <2>2, <3>1, <3>3, <3>5, <3>6
    <3>8. a \in S
        BY <3>7
    <3> QED BY <3>3, <3>7, <3>8
  <2> HIDE DEF T
  <2>3. T \in SUBSET S
      BY DEF T
  <2> QED BY <1>1, <2>1, <2>2, <2>3
<1> QED BY <1>2, <1>3

\* fat32_write and fat32_truncate change first cluster and size in the vnode
\* and mark both dirty.
LEMMA ChangedTree ==
    ASSUME NEW fw, VnodeType(fw), VnodeInv(fw), NEW v \in Vnode, fw[v].used, ~fw[v].isdir,
           NEW y \in FatVnode, y.used, ~y.isdir, y.parent = fw[v].parent, y.s = fw[v].s
    PROVE  LET fx == [fw EXCEPT ![v] = y]
           IN /\ VnodeType(fx) /\ VnodeInv(fx)
              /\ \A w \in Vnode : \A b, r : At(fx, w, b, r) <=> At(fw, w, b, r)
<1> DEFINE fx == [fw EXCEPT ![v] = y]
<1>1. VnodeType(fx) /\ fx[v] = y /\ \A w \in Vnode : w # v => fx[w] = fw[w]
    BY DEF VnodeType
<1> HIDE DEF fx
<1>2. v # RootVnode
    BY RootUsed
<1>3. fx[RootVnode] = RootFatVnode
    BY <1>1, <1>2, TreeAssumption DEF VnodeInv
<1>4. ASSUME NEW w \in Vnode, fx[w].used, fx[w].isdir PROVE fx[w].first \in Cluster
    BY <1>1, <1>4 DEF VnodeInv
<1>5. ASSUME NEW w \in Vnode, ~fx[w].used PROVE fx[w] = NoFatVnode
    BY <1>1, <1>5 DEF VnodeInv
<1>6. ASSUME NEW w \in Vnode \ {RootVnode}, fw[w].used
      PROVE  Hangs(fw, w) /\ fw[w].parent # v
    BY <1>6 DEF VnodeInv, Hangs
<1>7. ASSUME NEW w \in Vnode \ {RootVnode}, fx[w].used PROVE Hangs(fx, w)
    BY <1>1, <1>6, <1>7 DEF Hangs
<1>8. VnodeInv(fx)
    BY <1>3, <1>4, <1>5, <1>7, Zenon DEF VnodeInv
<1>9. ASSUME NEW w \in Vnode, NEW b, NEW r PROVE At(fx, w, b, r) <=> At(fw, w, b, r)
  <2>1. CASE w = RootVnode \/ ~fw[w].used
      BY <1>1, <2>1 DEF At
  <2>2. CASE w # RootVnode /\ fw[w].used
    <3>1. fw[w].parent \in Vnode /\ fw[w].parent # v
        BY <1>6, <2>2 DEF Hangs
    <3> QED BY <1>1, <2>2, <3>1 DEF At
  <2> QED BY <2>1, <2>2
<1> QED BY <1>1, <1>8, <1>9, Zenon DEF fx

\* Vnode x became y, and flags say what changed.
Marks(x, y) ==
    /\ x.dirty \subseteq y.dirty
    /\ y.first # x.first => "cluster" \in y.dirty
    /\ y.size # x.size => "size" \in y.dirty

\* fat32_write and fat32_truncate: one vnode, and the file it is of, change.
LEMMA ChangedGood ==
    ASSUME NEW u, NEW d, NEW fw, NEW g, VnodesGood(u, d, fw, g), VnodeType(fw), VnodeInv(fw),
           NEW c \in Cluster, NEW s \in Slots[c], NEW v \in Vnode, At(fw, v, c, s), ~fw[v].isdir,
           NEW y \in FatVnode, y.used, ~y.isdir, y.parent = fw[v].parent, y.s = fw[v].s,
           Marks(fw[v], y),
           NEW u1, \A b \in Cluster : u1[b] = "dir" <=> u[b] = "dir",
           NEW g1, Same(g, g1, c, s), g1[c][s].first = y.first, g1[c][s].size = y.size
    PROVE  VnodesGood(u1, d, [fw EXCEPT ![v] = y], g1)
<1>1. PICK fx : fx = [fw EXCEPT ![v] = y]
    OBVIOUS
<1>2. fw[v].used
    BY DEF At
<1>3. \A w \in Vnode : \A b, r : At(fx, w, b, r) <=> At(fw, w, b, r)
    BY <1>1, <1>2, ChangedTree
<1>4. fx[v] = y /\ \A w \in Vnode : w # v => fx[w] = fw[w]
    BY <1>1 DEF VnodeType
<1>5. \A b, r : IsEntry(u1, d, b, r) <=> IsEntry(u, d, b, r)
    BY DEF IsEntry
<1>6. ASSUME NEW w \in Vnode, NEW b, NEW r, At(fx, w, b, r)
      PROVE  IsEntry(u1, d, b, r) /\ Agrees(fx[w], d[b][r], g1[b][r])
  <2>1. At(fw, w, b, r)
      BY <1>3, <1>6
  <2>2. b \in Cluster /\ r \in Slots[b] /\ IsEntry(u, d, b, r) /\ Agrees(fw[w], d[b][r], g[b][r])
      BY <2>1, VnodePlace, Zenon
  <2>3. CASE w = v
    <3>1. b = c /\ r = s
        BY <2>1, <2>3 DEF At
    <3>2. d[b][r].isdir = FALSE /\ y.isdir = FALSE
        BY <2>2, <2>3 DEF Agrees, VnodeType, FatVnode
    <3>3. Agrees(y, d[c][s], g1[c][s])
        BY <2>2, <2>3, <3>1, <3>2 DEF Agrees, Marks
    <3>4. IsEntry(u1, d, b, r)
        BY <1>5, <2>2
    <3> QED BY <1>4, <2>3, <3>1, <3>3, <3>4
  <2>4. CASE w # v
    <3>1. ~(b = c /\ r = s)
        BY <2>1, <2>4 DEF VnodesGood
    <3>2. g1[b][r] = g[b][r]
        BY <2>2, <3>1 DEF Same
    <3> QED BY <1>4, <1>5, <2>2, <2>4, <3>2
  <2> QED BY <2>3, <2>4
<1>7. ASSUME NEW w \in Vnode, NEW x \in Vnode, NEW b, NEW r,
             At(fx, w, b, r), At(fx, x, b, r), ~fx[w].isdir
      PROVE  w = x
  <2>1. At(fw, w, b, r) /\ At(fw, x, b, r) /\ ~fw[w].isdir
      BY <1>3, <1>4, <1>7
  <2>2. b \in Cluster /\ r \in Slots[b]
      BY <2>1, VnodePlace, Zenon
  <2> QED BY <2>1, <2>2, Zenon DEF VnodesGood
<1>8. ASSUME NEW b \in Cluster, NEW r \in Slots[b], IsEntry(u1, d, b, r),
             \A w \in Vnode : ~At(fx, w, b, r)
      PROVE  d[b][r].first = g1[b][r].first /\ d[b][r].size = g1[b][r].size
  <2>1. ~At(fx, v, b, r) /\ \A w \in Vnode : ~At(fw, w, b, r)
      BY <1>3, <1>8
  <2>2. ~(b = c /\ r = s)
      BY <2>1
  <2>3. g1[b][r] = g[b][r] /\ IsEntry(u, d, b, r)
      BY <1>5, <1>8, <2>2 DEF Same
  <2>4. d[b][r].first = g[b][r].first /\ d[b][r].size = g[b][r].size
      BY <2>1, <2>3, Zenon DEF VnodesGood
  <2> QED BY <2>3, <2>4
<1> QED BY <1>1, <1>6, <1>7, <1>8, PlacesGood, Zenon

\* fat32_update_fdentry, for an entry that is there
LEMMA WriteBackIs ==
    ASSUME NEW e \in Entry, e # FreeSlot, NEW x \in FatVnode
    PROVE  LET f == WriteBack(e, x)
           IN /\ f \in Entry /\ f.name = e.name /\ f.isdir = e.isdir
              /\ f.size = IF "size" \in x.dirty THEN x.size ELSE e.size
              /\ f.first = IF "cluster" \in x.dirty THEN x.first ELSE e.first
              /\ "size" \notin x.dirty /\ "cluster" \notin x.dirty => f = e
    BY DEF WriteBack, Entry, FatVnode

\* fat32_sync_metadata: the entry becomes what the vnode says, and the flags go.
LEMMA WrittenGood ==
    ASSUME NEW u, NEW d, NEW dd, NEW fw, NEW g, DiskGood(u, d, dd, g), VnodesGood(u, d, fw, g),
           DirType(d), VnodeType(fw), VnodeInv(fw),
           NEW c \in Cluster, NEW s \in Slots[c], NEW v \in Vnode, At(fw, v, c, s)
    PROVE  LET d1 == [d EXCEPT ![c][s] = WriteBack(@, fw[v])]
               fx == [fw EXCEPT ![v] = [fw[v] EXCEPT !.dirty = {}]]
           IN /\ DirType(d1) /\ DiskGood(u, d1, dd, g)
              /\ VnodeType(fx) /\ VnodeInv(fx) /\ VnodesGood(u, d1, fx, g)
              /\ \A w \in Vnode : \A b, r : At(fx, w, b, r) <=> At(fw, w, b, r)
<1> USE TreeAssumption
<1>1. PICK e \in Entry : e = d[c][s]
    BY DEF DirType
<1>2. PICK f, d1, fx : /\ f = WriteBack(e, fw[v]) /\ d1 = [d EXCEPT ![c][s] = f]
                       /\ fx = [fw EXCEPT ![v] = [fw[v] EXCEPT !.dirty = {}]]
    OBVIOUS
<1>3. [d EXCEPT ![c][s] = WriteBack(@, fw[v])] = d1
    BY <1>1, <1>2 DEF DirType
<1>4. IsEntry(u, d, c, s) /\ Agrees(fw[v], e, g[c][s]) /\ fw[v] \in FatVnode /\ v # RootVnode /\ fw[v].used
    BY <1>1, VnodePlace DEF VnodeType, At
<1>5. e # FreeSlot /\ e.name # NoName
    BY <1>1, <1>4 DEF IsEntry, DiskGood, NoNameFree
<1>6. /\ f \in Entry /\ f.name = e.name /\ f.isdir = e.isdir
      /\ f.size = IF "size" \in fw[v].dirty THEN fw[v].size ELSE e.size
      /\ f.first = IF "cluster" \in fw[v].dirty THEN fw[v].first ELSE e.first
      /\ "size" \notin fw[v].dirty /\ "cluster" \notin fw[v].dirty => f = e
    BY <1>2, <1>4, <1>5, WriteBackIs
<1>7. f # FreeSlot
    BY <1>5, <1>6 DEF FreeSlot
<1>8. /\ DirType(d1) /\ d1[c][s] = f
      /\ \A b \in Cluster : \A r \in Slots[b] : b # c \/ r # s => d1[b][r] = d[b][r]
  <2>1. DirType(d1) /\ d1[c][s] = f /\ Same(d, d1, c, s)
    <3>1. d1 = Put(d, c, s, f) /\ f \in Entry
        BY <1>2, <1>6 DEF Put
    <3> QED BY <3>1, PutEntry
  <2> QED BY <2>1 DEF Same
<1>9. DiskGood(u, d1, dd, g)
  <2>1. \A b \in Cluster : \A r \in Slots[b] :
             /\ d1[b][r] = FreeSlot <=> d[b][r] = FreeSlot
             /\ d1[b][r].name = d[b][r].name /\ d1[b][r].isdir = d[b][r].isdir
    <3> SUFFICES ASSUME NEW b \in Cluster, NEW r \in Slots[b]
                 PROVE  /\ d1[b][r] = FreeSlot <=> d[b][r] = FreeSlot
                        /\ d1[b][r].name = d[b][r].name /\ d1[b][r].isdir = d[b][r].isdir
        OBVIOUS
    <3>1. CASE b = c /\ r = s
        BY <1>1, <1>5, <1>6, <1>7, <1>8, <3>1
    <3>2. CASE b # c \/ r # s
        BY <1>8, <3>2
    <3> QED BY <3>1, <3>2
  <2> QED BY <2>1, DiskSame
<1>10. /\ fx[v].used = fw[v].used /\ fx[v].isdir = fw[v].isdir /\ fx[v].first = fw[v].first
       /\ fx[v].size = fw[v].size /\ fx[v].parent = fw[v].parent /\ fx[v].s = fw[v].s
       /\ fx[v].dirty = {}
       /\ \A w \in Vnode : w # v => fx[w] = fw[w]
       /\ VnodeType(fx)
    BY <1>2 DEF VnodeType, FatVnode
<1>11. VnodeInv(fx)
  <2>1. fx[RootVnode] = RootFatVnode
      BY <1>4, <1>10 DEF VnodeInv
  <2>2. ASSUME NEW w \in Vnode, fx[w].used, fx[w].isdir PROVE fx[w].first \in Cluster
      BY <1>10, <2>2 DEF VnodeInv
  <2>3. ASSUME NEW w \in Vnode, ~fx[w].used PROVE fx[w] = NoFatVnode
      BY <1>4, <1>10, <2>3 DEF VnodeInv
  <2>4. ASSUME NEW w \in Vnode \ {RootVnode}, fx[w].used PROVE Hangs(fx, w)
    <3>1. Hangs(fw, w) /\ fx[w].parent = fw[w].parent
        BY <1>10, <2>4 DEF VnodeInv
    <3> QED BY <1>10, <3>1 DEF Hangs
  <2> QED BY <2>1, <2>2, <2>3, <2>4, Zenon DEF VnodeInv
<1>12. ASSUME NEW w \in Vnode, NEW b, NEW r PROVE At(fx, w, b, r) <=> At(fw, w, b, r)
  <2>1. CASE w = RootVnode \/ ~fw[w].used
      BY <1>10, <2>1 DEF At
  <2>2. CASE w # RootVnode /\ fw[w].used
    <3>1. fw[w].parent \in Vnode
        BY <2>2 DEF VnodeInv, Hangs
    <3>2. fx[fw[w].parent].first = fw[fw[w].parent].first
        BY <1>10, <3>1
    <3>3. fx[w].used = fw[w].used /\ fx[w].parent = fw[w].parent /\ fx[w].s = fw[w].s
        BY <1>10
    <3> QED BY <2>2, <3>2, <3>3 DEF At
  <2> QED BY <2>1, <2>2
<1>13. VnodesGood(u, d1, fx, g)
  <2>1. \A b \in Cluster : \A r \in Slots[b] : IsEntry(u, d1, b, r) <=> IsEntry(u, d, b, r)
    <3>1. \A b \in Cluster : \A r \in Slots[b] : d1[b][r] = FreeSlot <=> d[b][r] = FreeSlot
        BY <1>1, <1>5, <1>7, <1>8
    <3> QED BY <3>1 DEF IsEntry
  <2>2. ASSUME NEW w \in Vnode, NEW b, NEW r, At(fx, w, b, r)
        PROVE  IsEntry(u, d1, b, r) /\ Agrees(fx[w], d1[b][r], g[b][r])
    <3>1. At(fw, w, b, r)
        BY <1>12, <2>2
    <3>2. b \in Cluster /\ r \in Slots[b] /\ IsEntry(u, d, b, r) /\ Agrees(fw[w], d[b][r], g[b][r])
        BY <3>1, VnodePlace, Zenon
    <3>3. CASE w = v
      <4>1. b = c /\ r = s
          BY <3>1, <3>3 DEF At
      <4>2. Agrees(fx[v], f, g[c][s])
          BY <1>4, <1>6, <1>10 DEF Agrees
      <4> QED BY <1>8, <2>1, <3>2, <3>3, <4>1, <4>2
    <3>4. CASE w # v /\ b = c /\ r = s
      <4>1. fw[v].isdir
          BY <3>1, <3>4 DEF VnodesGood
      <4>2. f = e
          BY <1>4, <1>6, <4>1 DEF Agrees
      <4> QED BY <1>1, <1>8, <1>10, <2>1, <3>2, <3>4, <4>2
    <3>5. CASE w # v /\ ~(b = c /\ r = s)
        BY <1>8, <1>10, <2>1, <3>2, <3>5
    <3> QED BY <3>3, <3>4, <3>5
  <2>3. ASSUME NEW w \in Vnode, NEW x \in Vnode, NEW b, NEW r,
               At(fx, w, b, r), At(fx, x, b, r), ~fx[w].isdir
        PROVE  w = x
    <3>1. At(fw, w, b, r) /\ At(fw, x, b, r) /\ ~fw[w].isdir
        BY <1>10, <1>12, <2>3
    <3>2. b \in Cluster /\ r \in Slots[b]
        BY <3>1, VnodePlace, Zenon
    <3> QED BY <3>1, <3>2, Zenon DEF VnodesGood
  <2>4. ASSUME NEW b \in Cluster, NEW r \in Slots[b], IsEntry(u, d1, b, r),
               \A w \in Vnode : ~At(fx, w, b, r)
        PROVE  d1[b][r].first = g[b][r].first /\ d1[b][r].size = g[b][r].size
    <3>1. \A w \in Vnode : ~At(fw, w, b, r)
        BY <1>12, <2>4
    <3>2. b # c \/ r # s
        BY <3>1
    <3>3. IsEntry(u, d, b, r)
        BY <2>1, <2>4
    <3>4. d[b][r].first = g[b][r].first /\ d[b][r].size = g[b][r].size
        BY <3>1, <3>3, Zenon DEF VnodesGood
    <3> QED BY <1>8, <3>2, <3>4
  <2> QED BY <2>2, <2>3, <2>4, PlacesGood, Zenon
<1> QED BY <1>2, <1>3, <1>8, <1>9, <1>10, <1>11, <1>12, <1>13, Zenon

----------------------------------------------------------------------------
(* The operations, on the disk and the vnodes *)

Typed(u, d, dd, fw) ==
    /\ UseType(u) /\ DirType(d) /\ dd \in [Cluster -> Cluster]
    /\ VnodeType(fw) /\ VnodeInv(fw)

\* fat32_touch, on the disk and the vnodes.
LEMMA TouchData ==
    ASSUME NEW u, NEW d, NEW dd, NEW fw, Typed(u, d, dd, fw), NEW v \in Vnode, fw[v].used
    PROVE  /\ Typed(u, d, dd, Touched(fw, v))
           /\ Data(u, d, dd, fw) => Data(u, d, dd, Touched(fw, v))
<1>1. /\ VnodeType(Touched(fw, v)) /\ VnodeInv(Touched(fw, v))
      /\ \A a, b, g : VnodesGood(a, b, fw, g) => VnodesGood(a, b, Touched(fw, v), g)
    BY TouchedGood DEF Typed
<1> QED BY <1>1, Zenon DEF Typed, Data

\* fat32_make_vnode, of an entry that has no vnode.
LEMMA MakeData ==
    ASSUME NEW u, NEW d, NEW dd, NEW fw, Typed(u, d, dd, fw), NEW n \in Vnode, ~fw[n].used,
           NEW p \in Vnode, fw[p].used, fw[p].isdir, NEW c, c = fw[p].first, NEW s, IsEntry(u, d, c, s),
           ~d[c][s].isdir => \A v \in Vnode : ~At(fw, v, c, s), NEW flags \in SUBSET {"time"},
           NEW e, e = d[c][s], Data(u, d, dd, fw)
    PROVE  Data(u, d, dd, [fw EXCEPT ![n] = VnodeOf(e, p, s, flags)])
<1>1. PICK g : IsGood(g) /\ DiskGood(u, d, dd, g) /\ VnodesGood(u, d, fw, g)
    BY DEF Data
<1>2. VnodesGood(u, d, [fw EXCEPT ![n] = VnodeOf(d[fw[p].first][s], p, s, flags)], g)
    BY <1>1, MadeGood DEF Typed
<1> QED BY <1>1, <1>2 DEF Data

\* fat32_inactive, of a vnode with no dirty flag.
LEMMA GoneData ==
    ASSUME NEW u, NEW d, NEW dd, NEW fw, Typed(u, d, dd, fw), NEW n \in Vnode, n # RootVnode, fw[n].used,
           \A w \in Vnode : fw[w].parent # n, fw[n].dirty \subseteq {"time"}, Data(u, d, dd, fw)
    PROVE  Data(u, d, dd, [fw EXCEPT ![n] = NoFatVnode])
<1>1. PICK g : IsGood(g) /\ DiskGood(u, d, dd, g) /\ VnodesGood(u, d, fw, g)
    BY DEF Data
<1>2. VnodesGood(u, d, [fw EXCEPT ![n] = NoFatVnode], g)
    BY <1>1, GoneGood DEF Typed
<1> QED BY <1>1, <1>2 DEF Data

\* fat32_create: an empty file in a free slot.
LEMMA NewFileData ==
    ASSUME NEW u, NEW d, NEW dd, NEW fw, Typed(u, d, dd, fw), Data(u, d, dd, fw),
           NEW c \in Cluster, NEW s \in Slots[c], u[c] = "dir", d[c][s] = FreeSlot,
           NEW e \in Entry, e.name \in Name, ~e.isdir, e.first = NoCluster, e.size = 0
    PROVE  Data(u, Put(d, c, s, e), dd, fw)
<1>1. PICK g : IsGood(g) /\ DiskGood(u, d, dd, g) /\ VnodesGood(u, d, fw, g)
    BY DEF Data
<1>2. PICK d1, x, g1 : /\ d1 = Put(d, c, s, e) /\ x = [first |-> NoCluster, size |-> 0]
                       /\ g1 = Put(g, c, s, x)
    OBVIOUS
<1>3. DirType(d1) /\ d1[c][s] = e /\ Same(d, d1, c, s)
    BY <1>2, PutEntry DEF Typed
<1>4. x \in Truth /\ x.first = NoCluster /\ x.size = 0
    BY <1>2 DEF Truth
<1>5. IsGood(g1) /\ g1[c][s] = x /\ Same(g, g1, c, s)
    BY <1>1, <1>2, <1>4, PutGood
<1>6. DiskGood(u, d1, dd, g1)
    BY <1>1, <1>3, <1>4, <1>5, DiskNewFile
<1>7. VnodesGood(u, d1, fw, g1)
  <2>1. ASSUME NEW v \in Vnode, NEW b \in Cluster, NEW r \in Slots[b], At(fw, v, b, r), IsEntry(u, d, b, r)
        PROVE  IsEntry(u, d1, b, r) /\ d1[b][r] = d[b][r] /\ g1[b][r] = g[b][r]
    <3>1. b # c \/ r # s
        BY <2>1 DEF IsEntry
    <3> QED BY <1>3, <1>5, <2>1, <3>1 DEF Same, IsEntry
  <2>2. ASSUME NEW b \in Cluster, NEW r \in Slots[b], IsEntry(u, d1, b, r), \A v \in Vnode : ~At(fw, v, b, r)
        PROVE  d1[b][r].first = g1[b][r].first /\ d1[b][r].size = g1[b][r].size
    <3>1. CASE b = c /\ r = s
        BY <1>3, <1>4, <1>5, <3>1
    <3>2. CASE b # c \/ r # s
      <4>1. d1[b][r] = d[b][r] /\ g1[b][r] = g[b][r]
          BY <1>3, <1>5, <3>2 DEF Same
      <4>2. IsEntry(u, d, b, r)
          BY <2>2, <4>1 DEF IsEntry
      <4> QED BY <1>1, <2>2, <4>1, <4>2, EntryRight
    <3> QED BY <3>1, <3>2
  <2>3. Keeps(fw, u, d, g, u, d1, g1)
      BY <2>1, <2>2, Zenon DEF Keeps
  <2> QED BY <1>1, <2>3, VnodesKept, Zenon
<1> QED BY <1>2, <1>5, <1>6, <1>7, Zenon DEF Data

\* fat32_mkdir writes one entry and the new cluster.
LEMMA NewDirPut ==
    ASSUME NEW d, DirType(d), NEW c \in Cluster, NEW s \in Slots[c], NEW e \in Entry,
           NEW new \in Cluster, new # c
    PROVE  LET d1 == [d EXCEPT ![c][s] = e, ![new] = EmptyDir(new)]
           IN DirType(d1) /\ NewDir(d, d1, c, s, e, new)
<1>1. EmptyDir(new) \in [Slots[new] -> Entry]
    BY FreeSlotEntry DEF EmptyDir
<1> QED BY <1>1 DEF DirType, NewDir

\* fat32_mkdir: a new directory in a free cluster.
LEMMA NewDirData ==
    ASSUME NEW u, NEW d, NEW dd, NEW fw, Typed(u, d, dd, fw), Data(u, d, dd, fw),
           NEW c \in Cluster, NEW s \in Slots[c], u[c] = "dir", d[c][s] = FreeSlot,
           NEW new \in Cluster, u[new] = "free",
           NEW e \in Entry, e.name \in Name, e.isdir, e.first = new, e.size = 0,
           NEW d1, NewDir(d, d1, c, s, e, new),
           NEW u1, Sets(u, u1, new, "dir"), NEW dd1, Sets(dd, dd1, new, c)
    PROVE  Data(u1, d1, dd1, fw)
<1> USE TreeAssumption
<1>1. PICK g : IsGood(g) /\ DiskGood(u, d, dd, g) /\ VnodesGood(u, d, fw, g)
    BY DEF Data
<1>2. PICK x, g1 : x = [first |-> new, size |-> 0] /\ g1 = Put(g, c, s, x)
    OBVIOUS
<1>3. c # new
    OBVIOUS
<1>4. /\ d1[c][s] = e /\ d1[new] = EmptyDir(new)
      /\ \A b \in Cluster : \A r \in Slots[b] : (b # c \/ r # s) /\ b # new => d1[b][r] = d[b][r]
    BY DEF NewDir
<1>5. \A r \in Slots[new] : d1[new][r] = FreeSlot
    BY <1>4 DEF EmptyDir
<1>6. x \in Truth /\ x.first = new /\ x.size = 0
    BY <1>2 DEF Truth
<1>7. IsGood(g1) /\ g1[c][s] = x /\ Same(g, g1, c, s)
    BY <1>1, <1>2, <1>6, PutGood
<1>8. /\ u1[new] = "dir" /\ \A b \in Cluster : b # new => u1[b] = u[b]
      /\ dd1[new] = c /\ \A b \in Cluster : b # new => dd1[b] = dd[b]
    BY DEF Sets
<1>9. DiskGood(u1, d1, dd1, g1)
    BY <1>1, <1>6, <1>7, DiskNewDir
<1>10. VnodesGood(u1, d1, fw, g1)
  <2>1. ASSUME NEW v \in Vnode, NEW b \in Cluster, NEW r \in Slots[b], At(fw, v, b, r), IsEntry(u, d, b, r)
        PROVE  IsEntry(u1, d1, b, r) /\ d1[b][r] = d[b][r] /\ g1[b][r] = g[b][r]
    <3>1. (b # c \/ r # s) /\ b # new
        BY <2>1 DEF IsEntry
    <3>2. d1[b][r] = d[b][r] /\ g1[b][r] = g[b][r] /\ u1[b] = u[b]
        BY <1>4, <1>7, <1>8, <3>1 DEF Same
    <3> QED BY <2>1, <3>2 DEF IsEntry
  <2>2. ASSUME NEW b \in Cluster, NEW r \in Slots[b], IsEntry(u1, d1, b, r), \A v \in Vnode : ~At(fw, v, b, r)
        PROVE  d1[b][r].first = g1[b][r].first /\ d1[b][r].size = g1[b][r].size
    <3>1. CASE b = c /\ r = s
        BY <1>4, <1>6, <1>7, <3>1
    <3>2. CASE (b # c \/ r # s) /\ b # new
      <4>1. d1[b][r] = d[b][r] /\ g1[b][r] = g[b][r]
          BY <1>4, <1>7, <3>2 DEF Same
      <4>2. IsEntry(u, d, b, r)
          BY <1>8, <2>2, <3>2, <4>1 DEF IsEntry
      <4> QED BY <1>1, <2>2, <4>1, <4>2, EntryRight
    <3>3. CASE b = new
        BY <1>5, <2>2, <3>3 DEF IsEntry
    <3> QED BY <3>1, <3>2, <3>3
  <2>3. Keeps(fw, u, d, g, u1, d1, g1)
      BY <2>1, <2>2 DEF Keeps
  <2> QED BY <1>1, <2>3, VnodesKept, Zenon
<1> QED BY <1>7, <1>9, <1>10, Zenon DEF Data

\* fat32_remove_common: the entry goes and its cluster becomes free.
LEMMA DeleteData ==
    ASSUME NEW u, NEW d, NEW dd, NEW fw, Typed(u, d, dd, fw), Data(u, d, dd, fw),
           NEW c \in Cluster, NEW s \in Slots[c], IsEntry(u, d, c, s), \A v \in Vnode : ~At(fw, v, c, s),
           d[c][s].isdir => d[d[c][s].first] = EmptyDir(d[c][s].first),
           NEW u1, u1 = IF d[c][s].first = NoCluster THEN u ELSE [u EXCEPT ![d[c][s].first] = "free"]
    PROVE  Data(u1, Put(d, c, s, FreeSlot), dd, fw)
<1> USE TreeAssumption
<1>1. PICK g : IsGood(g) /\ DiskGood(u, d, dd, g) /\ VnodesGood(u, d, fw, g)
    BY DEF Data
<1>2. PICK d1 : d1 = Put(d, c, s, FreeSlot)
    OBVIOUS
<1>3. DirType(d1) /\ d1[c][s] = FreeSlot /\ Same(d, d1, c, s)
    BY <1>2, PutEntry, FreeSlotEntry DEF Typed
<1>4. d[c][s].first = g[c][s].first
    BY <1>1, EntryRight
<1>5. TrueTo(u, d[c][s].isdir, g[c][s])
    BY <1>1, Zenon DEF DiskGood, EntriesGood
<1>6. d[c][s].isdir => \A r \in Slots[g[c][s].first] : d[g[c][s].first][r] = FreeSlot
    BY <1>4 DEF EmptyDir
<1>7. u1 = IF g[c][s].first = NoCluster THEN u ELSE [u EXCEPT ![g[c][s].first] = "free"]
    BY <1>4
<1>8. DiskGood(u1, d1, dd, g)
    BY <1>1, <1>3, <1>6, <1>7, DiskDeleted DEF Typed
<1>9. VnodesGood(u1, d1, fw, g)
  <2>1. ASSUME NEW v \in Vnode, NEW b \in Cluster, NEW r \in Slots[b], At(fw, v, b, r), IsEntry(u, d, b, r)
        PROVE  IsEntry(u1, d1, b, r) /\ d1[b][r] = d[b][r] /\ g[b][r] = g[b][r]
    <3>1. b # c \/ r # s
        BY <2>1
    <3>2. u1[b] = "dir"
      <4>1. CASE b = g[c][s].first
          BY <1>5, <1>6, <2>1, <4>1 DEF TrueTo, IsEntry
      <4>2. CASE b # g[c][s].first
          BY <1>7, <2>1, <4>2 DEF IsEntry, Typed, UseType
      <4> QED BY <4>1, <4>2
    <3> QED BY <1>3, <2>1, <3>1, <3>2 DEF Same, IsEntry
  <2>2. ASSUME NEW b \in Cluster, NEW r \in Slots[b], IsEntry(u1, d1, b, r), \A v \in Vnode : ~At(fw, v, b, r)
        PROVE  d1[b][r].first = g[b][r].first /\ d1[b][r].size = g[b][r].size
    <3>1. b # c \/ r # s
        BY <1>3, <2>2 DEF IsEntry
    <3>2. d1[b][r] = d[b][r]
        BY <1>3, <3>1 DEF Same
    <3>3. u[b] = "dir"
        BY <1>5, <1>7, <2>2 DEF IsEntry, Typed, UseType, TrueTo
    <3>4. IsEntry(u, d, b, r)
        BY <2>2, <3>2, <3>3 DEF IsEntry
    <3> QED BY <1>1, <2>2, <3>2, <3>4, EntryRight
  <2>3. Keeps(fw, u, d, g, u1, d1, g)
      BY <2>1, <2>2, Zenon DEF Keeps
  <2> QED BY <1>1, <2>3, VnodesKept, Zenon
<1> QED BY <1>1, <1>2, <1>8, <1>9, Zenon DEF Data

\* fat32_rename writes the new entry and deletes the old one.
LEMMA MovePut ==
    ASSUME NEW d, DirType(d), NEW c \in Cluster, NEW s \in Slots[c], NEW b \in Cluster,
           NEW r \in Slots[b], NEW e \in Entry
    PROVE  LET d1 == [[d EXCEPT ![c][s] = FreeSlot] EXCEPT ![b][r] = e]
           IN DirType(d1) /\ Moves(d, d1, c, s, b, r, e)
<1>1. PICK gone : gone = Put(d, c, s, FreeSlot)
    OBVIOUS
<1>2. DirType(gone) /\ gone[c][s] = FreeSlot /\ Same(d, gone, c, s)
    BY <1>1, FreeSlotEntry, PutEntry
<1>3. PICK d1 : d1 = Put(gone, b, r, e)
    OBVIOUS
<1>4. DirType(d1) /\ d1[b][r] = e /\ Same(gone, d1, b, r)
    BY <1>2, <1>3, PutEntry
<1>5. Moves(d, d1, c, s, b, r, e)
    BY <1>2, <1>4 DEF Moves, Same
<1> QED BY <1>1, <1>3, <1>4, <1>5 DEF Put

\* fat32_rename, of what has no vnode, into the directory of vnode w
LEMMA MoveData ==
    ASSUME NEW u, NEW d, NEW dd, NEW fw, Typed(u, d, dd, fw), Data(u, d, dd, fw),
           NEW c \in Cluster, NEW s \in Slots[c], IsEntry(u, d, c, s), \A v \in Vnode : ~At(fw, v, c, s),
           d[c][s].size = 0, NEW w \in Vnode, fw[w].used, fw[w].isdir,
           NEW b, b = fw[w].first, NEW r \in Slots[b], d[b][r] = FreeSlot \/ (b = c /\ r = s),
           NEW e \in Entry, e.name \in Name, e.first = d[c][s].first, e.size = 0, e.isdir = d[c][s].isdir,
           NEW d1, Moves(d, d1, c, s, b, r, e),
           NEW dd1, IF d[c][s].isdir THEN Relinks(dd, dd1, d[c][s].first, b) ELSE dd1 = dd
    PROVE  Data(u, d1, dd1, fw)
<1> USE TreeAssumption
<1>1. PICK g : IsGood(g) /\ DiskGood(u, d, dd, g) /\ VnodesGood(u, d, fw, g)
    BY DEF Data
<1>2. b \in Cluster /\ u[b] = "dir"
    BY <1>1, DirVnodeUsed DEF Typed
<1>3. d[c][s].first = g[c][s].first /\ g[c][s].size = 0
    BY <1>1, EntryRight
<1>4. g[c][s] \in Truth
    BY <1>1 DEF IsGood, Truth
<1>5. PICK g1 : g1 = Put(g, b, r, g[c][s])
    OBVIOUS
<1>6. IsGood(g1) /\ g1[b][r] = g[c][s] /\ Same(g, g1, b, r)
    BY <1>1, <1>2, <1>4, <1>5, PutGood
<1>7. IF d[c][s].isdir THEN Relinks(dd, dd1, g[c][s].first, b) ELSE dd1 = dd
    BY <1>3
<1>8. NoCircle(u, dd1)
    BY <1>1, <1>7, MovedNoCircle DEF Typed
<1>9. /\ d1[b][r] = e /\ (~(b = c /\ r = s) => d1[c][s] = FreeSlot)
      /\ \A a \in Cluster : \A q \in Slots[a] :
           ~(a = c /\ q = s) /\ ~(a = b /\ q = r) => d1[a][q] = d[a][q]
    BY DEF Moves
<1>10. DiskGood(u, d1, dd1, g1)
    BY <1>1, <1>2, <1>6, <1>7, <1>8, DiskMoved
<1>11. VnodesGood(u, d1, fw, g1)
  <2>1. ASSUME NEW v \in Vnode, NEW a \in Cluster, NEW q \in Slots[a], At(fw, v, a, q), IsEntry(u, d, a, q)
        PROVE  IsEntry(u, d1, a, q) /\ d1[a][q] = d[a][q] /\ g1[a][q] = g[a][q]
    <3>1. ~(a = c /\ q = s) /\ ~(a = b /\ q = r)
        BY <2>1 DEF IsEntry
    <3>2. d1[a][q] = d[a][q] /\ g1[a][q] = g[a][q]
        BY <1>6, <1>9, <3>1 DEF Same
    <3> QED BY <2>1, <3>2 DEF IsEntry
  <2>2. ASSUME NEW a \in Cluster, NEW q \in Slots[a], IsEntry(u, d1, a, q), \A v \in Vnode : ~At(fw, v, a, q)
        PROVE  d1[a][q].first = g1[a][q].first /\ d1[a][q].size = g1[a][q].size
    <3>1. CASE a = b /\ q = r
        BY <1>3, <1>6, <1>9, <3>1
    <3>2. CASE a = c /\ q = s /\ ~(a = b /\ q = r)
        BY <1>9, <2>2, <3>2 DEF IsEntry
    <3>3. CASE ~(a = c /\ q = s) /\ ~(a = b /\ q = r)
      <4>1. d1[a][q] = d[a][q] /\ g1[a][q] = g[a][q]
          BY <1>6, <1>9, <3>3 DEF Same
      <4>2. IsEntry(u, d, a, q)
          BY <2>2, <4>1 DEF IsEntry
      <4> QED BY <1>1, <2>2, <4>1, <4>2, EntryRight
    <3> QED BY <3>1, <3>2, <3>3
  <2>3. Keeps(fw, u, d, g, u, d1, g1)
      BY <2>1, <2>2 DEF Keeps
  <2> QED BY <1>1, <2>3, VnodesKept, Zenon
<1> QED BY <1>6, <1>10, <1>11, Zenon DEF Data

\* The place of the vnode of a file
FileAt(u, d, fw, g, v, c, s) ==
    /\ c \in Cluster /\ s \in Slots[c] /\ At(fw, v, c, s) /\ IsEntry(u, d, c, s)
    /\ d[c][s].isdir = FALSE
    /\ g[c][s].first = fw[v].first /\ g[c][s].size = fw[v].size

\* The vnode of a file stands for one entry.
LEMMA FilePlace ==
    ASSUME NEW u, NEW d, NEW dd, NEW fw, NEW g, Typed(u, d, dd, fw), VnodesGood(u, d, fw, g),
           NEW v \in Vnode, fw[v].used, ~fw[v].isdir
    PROVE  \E c, s : FileAt(u, d, fw, g, v, c, s)
<1>0. PICK c, s : c = fw[fw[v].parent].first /\ s = fw[v].s
    OBVIOUS
<1>1. v # RootVnode
    BY RootUsed DEF Typed
<1>2. At(fw, v, c, s)
    BY <1>0, <1>1, Zenon DEF At
<1>3. c \in Cluster /\ s \in Slots[c] /\ IsEntry(u, d, c, s) /\ Agrees(fw[v], d[c][s], g[c][s])
    BY <1>2, VnodePlace, Zenon
<1>4. fw[v].isdir = FALSE
    BY DEF Typed, VnodeType, FatVnode
<1>5. FileAt(u, d, fw, g, v, c, s)
    BY <1>2, <1>3, <1>4 DEF Agrees, FileAt
<1> QED BY <1>5, Zenon

\* fat32_write: the first cluster and the size of a file change.
LEMMA WriteData ==
    ASSUME NEW u, NEW d, NEW dd, NEW fw, Typed(u, d, dd, fw), Data(u, d, dd, fw),
           NEW v \in Vnode, fw[v].used, ~fw[v].isdir, NEW x \in Cluster,
           fw[v].first = x \/ (fw[v].first = NoCluster /\ u[x] = "free"),
           NEW y \in FatVnode, y.used, ~y.isdir,
           y.parent = fw[v].parent, y.s = fw[v].s, y.first = x, Marks(fw[v], y),
           NEW k, k = IF y.size = 0 THEN "file" ELSE "data"
    PROVE  Data([u EXCEPT ![x] = k], d, dd, [fw EXCEPT ![v] = y])
<1> USE TreeAssumption
<1>1. PICK g : IsGood(g) /\ DiskGood(u, d, dd, g) /\ VnodesGood(u, d, fw, g)
    BY DEF Data
<1>2. PICK c, s : FileAt(u, d, fw, g, v, c, s)
    BY <1>1, FilePlace, Zenon
<1>3. /\ c \in Cluster /\ s \in Slots[c] /\ At(fw, v, c, s) /\ IsEntry(u, d, c, s)
      /\ d[c][s].isdir = FALSE
      /\ g[c][s].first = fw[v].first /\ g[c][s].size = fw[v].size
    BY <1>2 DEF FileAt
<1>4. PICK u1, z, g1 : /\ u1 = [u EXCEPT ![x] = k] /\ z = [first |-> x, size |-> y.size]
                       /\ g1 = Put(g, c, s, z)
    OBVIOUS
<1>5. z \in Truth /\ z.first = x /\ z.size = y.size
    BY <1>4 DEF Truth, FatVnode
<1>6. IsGood(g1) /\ g1[c][s] = z /\ Same(g, g1, c, s)
    BY <1>1, <1>3, <1>4, <1>5, PutGood
<1>7. DiskGood(u1, d, dd, g1) /\ \A b \in Cluster : u1[b] = "dir" <=> u[b] = "dir"
  <2>1. CASE fw[v].first = x
    <3>1. TrueTo(u, d[c][s].isdir, g[c][s])
        BY <1>1, <1>3, Zenon DEF DiskGood, EntriesGood
    <3>2. u[x] \in {"file", "data"} /\ k \in {"file", "data"}
        BY <1>3, <2>1, <3>1 DEF TrueTo
    <3>3. \A b \in Cluster : u1[b] = "dir" <=> u[b] = "dir"
        BY <1>4, <3>2 DEF Typed, UseType
    <3>4. /\ DiskGood(u, d, dd, g) /\ UseType(u) /\ c \in Cluster /\ s \in Slots[c]
          /\ IsEntry(u, d, c, s) /\ ~d[c][s].isdir /\ x \in Cluster /\ g[c][s].first = x
          /\ k = (IF g1[c][s].size = 0 THEN "file" ELSE "data")
          /\ u1 = [u EXCEPT ![x] = k] /\ Same(g, g1, c, s) /\ g1[c][s].first = x
        BY <1>1, <1>3, <1>4, <1>5, <1>6, <2>1 DEF Typed
    <3>5. DiskGood(u1, d, dd, g1)
        BY ONLY <3>4, DiskSized
    <3> QED BY <3>3, <3>5
  <2>2. CASE fw[v].first = NoCluster /\ u[x] = "free"
    <3>3. /\ DiskGood(u, d, dd, g) /\ UseType(u) /\ c \in Cluster /\ s \in Slots[c]
          /\ IsEntry(u, d, c, s) /\ ~d[c][s].isdir /\ g[c][s].first = NoCluster
          /\ u[x] = "free" /\ Same(g, g1, c, s) /\ g1[c][s].first = x
          /\ k = (IF g1[c][s].size = 0 THEN "file" ELSE "data")
        BY <1>1, <1>3, <1>5, <1>6, <2>2 DEF Typed
    <3>4. u1 = [u EXCEPT ![x] = k] /\ x \in Cluster
        BY <1>4
    <3>1. DiskGood(u1, d, dd, g1)
        BY ONLY <3>3, <3>4, DiskWritten
    <3>2. k \in {"file", "data"} /\ \A b \in Cluster : u1[b] = "dir" <=> u[b] = "dir"
        BY <1>4, <2>2 DEF Typed, UseType
    <3> QED BY <3>1, <3>2
  <2> QED BY <2>1, <2>2
<1>9. VnodesGood(u1, d, [fw EXCEPT ![v] = y], g1)
    BY <1>1, <1>3, <1>5, <1>6, <1>7, ChangedGood DEF Typed
<1> QED BY <1>4, <1>6, <1>7, <1>9, Zenon DEF Data

\* fat32_truncate: a file gives its cluster back.
LEMMA TruncateData ==
    ASSUME NEW u, NEW d, NEW dd, NEW fw, Typed(u, d, dd, fw), Data(u, d, dd, fw),
           NEW v \in Vnode, fw[v].used, ~fw[v].isdir, NEW y \in FatVnode, y.used, ~y.isdir,
           y.parent = fw[v].parent, y.s = fw[v].s, y.first = NoCluster, y.size = 0,
           Marks(fw[v], y),
           NEW u1, u1 = IF fw[v].first = NoCluster THEN u ELSE [u EXCEPT ![fw[v].first] = "free"]
    PROVE  Data(u1, d, dd, [fw EXCEPT ![v] = y])
<1> USE TreeAssumption
<1>1. PICK g : IsGood(g) /\ DiskGood(u, d, dd, g) /\ VnodesGood(u, d, fw, g)
    BY DEF Data
<1>2. PICK c, s : FileAt(u, d, fw, g, v, c, s)
    BY <1>1, FilePlace, Zenon
<1>3. /\ c \in Cluster /\ s \in Slots[c] /\ At(fw, v, c, s) /\ IsEntry(u, d, c, s)
      /\ d[c][s].isdir = FALSE
      /\ g[c][s].first = fw[v].first /\ g[c][s].size = fw[v].size
    BY <1>2 DEF FileAt
<1>4. PICK z, g1 : z = [first |-> NoCluster, size |-> 0] /\ g1 = Put(g, c, s, z)
    OBVIOUS
<1>5. z \in Truth /\ z.first = NoCluster /\ z.size = 0
    BY <1>4 DEF Truth
<1>6. IsGood(g1) /\ g1[c][s] = z /\ Same(g, g1, c, s)
    BY <1>1, <1>3, <1>4, <1>5, PutGood
<1>7. u1 = IF g[c][s].first = NoCluster THEN u ELSE [u EXCEPT ![g[c][s].first] = "free"]
    BY <1>3
<1>8. DiskGood(u1, d, dd, g1)
    BY <1>1, <1>3, <1>5, <1>6, <1>7, DiskTruncated DEF Typed
<1>9. \A b \in Cluster : u1[b] = "dir" <=> u[b] = "dir"
  <2>1. TrueTo(u, d[c][s].isdir, g[c][s])
      BY <1>1, <1>3, Zenon DEF DiskGood, EntriesGood
  <2> QED BY <1>3, <1>7, <2>1 DEF Typed, UseType, TrueTo
<1>10. VnodesGood(u1, d, [fw EXCEPT ![v] = y], g1)
    BY <1>1, <1>3, <1>5, <1>6, <1>9, ChangedGood DEF Typed
<1> QED BY <1>6, <1>8, <1>10, Zenon DEF Data

\* fat32_sync_metadata
LEMMA SyncData ==
    ASSUME NEW u, NEW d, NEW dd, NEW fw, Typed(u, d, dd, fw), Data(u, d, dd, fw),
           NEW v \in Vnode, fw[v].used, v # RootVnode, NEW c, NEW s, At(fw, v, c, s)
    PROVE  LET d1 == [d EXCEPT ![c][s] = WriteBack(@, fw[v])]
               fx == [fw EXCEPT ![v] = [fw[v] EXCEPT !.dirty = {}]]
           IN Typed(u, d1, dd, fx) /\ Data(u, d1, dd, fx)
<1>1. PICK g : IsGood(g) /\ DiskGood(u, d, dd, g) /\ VnodesGood(u, d, fw, g)
    BY DEF Data
<1>2. c \in Cluster /\ s \in Slots[c]
    BY <1>1, VnodePlace, Zenon
<1>3. PICK d1, fx : /\ d1 = [d EXCEPT ![c][s] = WriteBack(@, fw[v])]
                    /\ fx = [fw EXCEPT ![v] = [fw[v] EXCEPT !.dirty = {}]]
    OBVIOUS
<1>4. /\ DirType(d1) /\ DiskGood(u, d1, dd, g)
      /\ VnodeType(fx) /\ VnodeInv(fx) /\ VnodesGood(u, d1, fx, g)
    BY <1>1, <1>2, <1>3, WrittenGood DEF Typed
<1> QED BY <1>1, <1>3, <1>4, Zenon DEF Data, Typed

----------------------------------------------------------------------------
(* Calls and locks: fw, lk, ops are values of vn, lock and op. *)

InDir == {"make", "delete", "lock_target", "replace", "move"}
InRename == {"lock_target", "replace", "move"}
InSync == {"sync_parent", "sync_self"}

UsesOf(fw, o) ==
    {o.v, o.w, IF o.pc \in {"sync_parent", "sync_self"} THEN fw[o.v].parent ELSE NoVnode} \ {NoVnode}

\* What a call has: its vnodes and its locks
Shape(fw, o) ==
    /\ o.pc = "idle" => o = Idle
    /\ o.pc # "idle" => o.v \in Vnode /\ fw[o.v].used
    /\ o.pc \in InDir => fw[o.v].isdir /\ ~o.last
    /\ o.pc \in InRename => o.w \in Vnode /\ fw[o.w].used /\ fw[o.w].isdir
    /\ o.pc \notin InRename => o.w = NoVnode
    /\ o.pc \in InSync => o.v # RootVnode
    /\ o.pc = "make" /\ o.e.isdir => o.e.first \in Cluster

Locks(fw, lk, t, o) ==
    /\ o.pc \in {"delete", "lock_target", "replace", "move"} => lk[o.v] = t
    /\ o.pc \in {"replace", "move"} => fw[o.v].first = fw[o.w].first \/ lk[o.w] = t
    /\ o.pc = "sync_self" => lk[fw[o.v].parent] = t

\* fat32_inactive has the vnode for itself.
LastAlone(fw, ops) ==
    \A t \in Thread : ops[t].last =>
        /\ \A x \in Vnode : fw[x].parent # ops[t].v
        /\ \A u \in Thread \ {t} : ops[t].v \notin UsesOf(fw, ops[u])

\* Two threads in one directory are there through the same vnode.
Exclusion(fw, ops) ==
    \A t \in Thread : \A u \in Thread \ {t} :
        \A v \in UsesOf(fw, ops[t]), w \in UsesOf(fw, ops[u]) :
            fw[v].isdir /\ fw[w].isdir /\ fw[v].first = fw[w].first => v = w

Ctl(fw, lk, ops) ==
    /\ VnodeInv(fw)
    /\ \A t \in Thread : Shape(fw, ops[t]) /\ Locks(fw, lk, t, ops[t])
    /\ LastAlone(fw, ops) /\ Exclusion(fw, ops)

CtlInv == TypeOK /\ Ctl(vn, lock, op)

\* The vnodes a call works on are there.
LEMMA UsesUsed ==
    ASSUME NEW fw, VnodeInv(fw), NEW o, Shape(fw, o), NEW x \in UsesOf(fw, o)
    PROVE  x \in Vnode /\ fw[x].used
<1> USE TreeAssumption
<1>1. CASE o.pc = "idle"
    BY <1>1 DEF Shape, UsesOf, Idle
<1>2. CASE o.pc # "idle" /\ x = o.v
    BY <1>2 DEF Shape
<1>3. CASE o.pc # "idle" /\ x = o.w
    BY <1>3 DEF Shape, UsesOf
<1>4. CASE o.pc \in {"sync_parent", "sync_self"} /\ x = fw[o.v].parent
  <2>1. o.v \in Vnode \ {RootVnode} /\ fw[o.v].used
      BY <1>4 DEF Shape, InSync
  <2> QED BY <1>4, <2>1 DEF VnodeInv, Hangs
<1> QED BY <1>1, <1>2, <1>3, <1>4 DEF UsesOf

----------------------------------------------------------------------------
(* A step of thread t *)

\* Vnode x is in the same place, and of the same directory if it is of one.
Stays(fw, fx, x) ==
    /\ fx[x].used = fw[x].used /\ fx[x].isdir = fw[x].isdir
    /\ fx[x].parent = fw[x].parent /\ fx[x].s = fw[x].s
    /\ fw[x].isdir => fx[x].first = fw[x].first

\* No other thread tears x down or is in its directory through another vnode.
Allowed(fw, ops, t, x) ==
    \A u \in Thread \ {t} :
        /\ ops[u].last => ops[u].v # x
        /\ fw[x].isdir => \A y \in UsesOf(fw, ops[u]) :
             fw[y].isdir /\ fw[y].first = fw[x].first => y = x

\* No thread is dropping a vnode that another one works with.
LEMMA UsesAllowed ==
    ASSUME NEW fw, NEW lk, NEW ops, Ctl(fw, lk, ops), NEW t \in Thread,
           NEW x \in UsesOf(fw, ops[t])
    PROVE  Allowed(fw, ops, t, x)
<1>1. ASSUME NEW u \in Thread \ {t}, ops[u].last PROVE ops[u].v # x
    BY <1>1, Zenon DEF Ctl, LastAlone
<1>2. ASSUME NEW u \in Thread \ {t}, fw[x].isdir, NEW y \in UsesOf(fw, ops[u]),
             fw[y].isdir, fw[y].first = fw[x].first
      PROVE  y = x
    BY <1>2 DEF Ctl, Exclusion
<1> QED BY <1>1, <1>2, Zenon DEF Allowed

CtlFrame(fw, lk, ops, fx, lx, ox, t) ==
    /\ \A u \in Thread \ {t} : ox[u] = ops[u]
    /\ \A u \in Thread \ {t} : \A x \in Vnode : lk[x] = u => lx[x] = u
    /\ \A x \in Vnode : fw[x].used =>
         Stays(fw, fx, x) \/ \A u \in Thread \ {t} : x \notin UsesOf(fw, ops[u])
    /\ \A x \in Vnode :
         fx[x].parent \in {fw[x].parent, NoVnode} \/ Allowed(fw, ops, t, fx[x].parent)
    /\ \A x \in UsesOf(fx, ox[t]) : Allowed(fw, ops, t, x) /\ Stays(fw, fx, x)
    /\ ox[t].last => /\ \A x \in Vnode : fx[x].parent # ox[t].v
                     /\ \A u \in Thread \ {t} : ox[t].v \notin UsesOf(fw, ops[u])

\* The other calls have what they had.
LEMMA CtlOther ==
    ASSUME NEW fw, NEW lk, NEW ops, Ctl(fw, lk, ops), NEW t \in Thread,
           NEW fx, NEW lx, NEW ox, CtlFrame(fw, lk, ops, fx, lx, ox, t),
           NEW u \in Thread \ {t}
    PROVE  /\ ox[u] = ops[u] /\ UsesOf(fx, ox[u]) = UsesOf(fw, ops[u])
           /\ \A x \in UsesOf(fw, ops[u]) : x \in Vnode /\ Stays(fw, fx, x)
           /\ Shape(fx, ox[u]) /\ Locks(fx, lx, u, ox[u])
<1> USE TreeAssumption
<1>1. PICK o : o = ops[u]
    OBVIOUS
<1>2. ox[u] = o /\ Shape(fw, o) /\ Locks(fw, lk, u, o) /\ VnodeInv(fw)
    BY <1>1 DEF Ctl, CtlFrame
<1>3. ASSUME NEW x \in UsesOf(fw, o) PROVE x \in Vnode /\ Stays(fw, fx, x)
  <2>1. x \in Vnode /\ fw[x].used
      BY <1>2, <1>3, UsesUsed
  <2> QED BY <1>1, <1>3, <2>1 DEF CtlFrame
<1>4. o.pc # "idle" => o.v \in UsesOf(fw, o)
    BY <1>2 DEF Shape, UsesOf
<1>5. o.pc \in InRename => o.w \in UsesOf(fw, o)
    BY <1>2 DEF Shape, UsesOf
<1>6. o.pc \in InSync => fw[o.v].parent \in UsesOf(fw, o) /\ fw[o.v].parent \in Vnode
  <2> SUFFICES ASSUME o.pc \in InSync PROVE fw[o.v].parent \in UsesOf(fw, o) /\ fw[o.v].parent \in Vnode
      OBVIOUS
  <2>1. o.v \in Vnode \ {RootVnode} /\ fw[o.v].used
      BY <1>2 DEF Shape, InSync
  <2>2. fw[o.v].parent \in Vnode
      BY <1>2, <2>1 DEF VnodeInv, Hangs
  <2> QED BY <2>2 DEF UsesOf, InSync
<1>7. UsesOf(fx, o) = UsesOf(fw, o)
  <2>1. CASE o.pc \in InSync
    <3>1. fx[o.v].parent = fw[o.v].parent
        BY <1>3, <1>4, <2>1 DEF Stays, InSync
    <3> QED BY <3>1 DEF UsesOf
  <2>2. CASE o.pc \notin InSync
      BY <2>2 DEF UsesOf, InSync
  <2> QED BY <2>1, <2>2
<1>8. Shape(fx, o)
  <2>1. o.pc # "idle" => Stays(fw, fx, o.v)
      BY <1>3, <1>4
  <2>2. o.pc \in InRename => Stays(fw, fx, o.w)
      BY <1>3, <1>5
  <2> QED BY <1>2, <2>1, <2>2 DEF Shape, Stays, InDir, InRename, InSync
<1>9. Locks(fx, lx, u, o)
  <2>1. \A x \in Vnode : lk[x] = u => lx[x] = u
      BY DEF CtlFrame
  <2>2. o.pc # "idle" => o.v \in Vnode /\ Stays(fw, fx, o.v)
      BY <1>3, <1>4
  <2>3. o.pc \in InRename => o.w \in Vnode /\ Stays(fw, fx, o.w) /\ fw[o.v].isdir /\ fw[o.w].isdir
      BY <1>2, <1>3, <1>5 DEF Shape, InRename, InDir
  <2>4. o.pc = "sync_self" => lx[fx[o.v].parent] = u
    <3> SUFFICES ASSUME o.pc = "sync_self" PROVE lx[fx[o.v].parent] = u
        OBVIOUS
    <3>1. fx[o.v].parent = fw[o.v].parent
        BY <2>2 DEF Stays
    <3> QED BY <1>2, <1>6, <2>1, <3>1 DEF Locks, InSync
  <2>5. o.pc \in {"delete", "lock_target", "replace", "move"} => lx[o.v] = u
      BY <1>2, <2>1, <2>2 DEF Locks
  <2>6. o.pc \in {"replace", "move"} => fx[o.v].first = fx[o.w].first \/ lx[o.w] = u
    <3> SUFFICES ASSUME o.pc \in {"replace", "move"} PROVE fx[o.v].first = fx[o.w].first \/ lx[o.w] = u
        OBVIOUS
    <3>1. Stays(fw, fx, o.v) /\ Stays(fw, fx, o.w) /\ fw[o.v].isdir /\ fw[o.w].isdir /\ o.w \in Vnode
        BY <2>2, <2>3 DEF InRename
    <3> QED BY <1>2, <2>1, <3>1 DEF Locks, Stays
  <2> QED BY <2>4, <2>5, <2>6 DEF Locks
<1> QED BY <1>1, <1>2, <1>3, <1>7, <1>8, <1>9

\* What a step of one thread has to keep for the control invariant.
LEMMA CtlStep ==
    ASSUME NEW fw, NEW lk, NEW ops, Ctl(fw, lk, ops), NEW t \in Thread,
           NEW fx, NEW lx, NEW ox, CtlFrame(fw, lk, ops, fx, lx, ox, t),
           VnodeInv(fx), Shape(fx, ox[t]), Locks(fx, lx, t, ox[t])
    PROVE  Ctl(fx, lx, ox)
<1> USE TreeAssumption
<1>1. \A u \in Thread \ {t} :
          /\ ox[u] = ops[u] /\ UsesOf(fx, ox[u]) = UsesOf(fw, ops[u])
          /\ \A x \in UsesOf(fw, ops[u]) : x \in Vnode /\ Stays(fw, fx, x)
          /\ Shape(fx, ox[u]) /\ Locks(fx, lx, u, ox[u])
    BY CtlOther
<1>2. ASSUME NEW u \in Thread PROVE Shape(fx, ox[u]) /\ Locks(fx, lx, u, ox[u])
  <2>1. CASE u = t
      BY <2>1
  <2>2. CASE u # t
      BY <1>1, <2>2
  <2> QED BY <2>1, <2>2
<1>3. LastAlone(fx, ox)
  <2>1. ASSUME NEW u \in Thread, ox[u].last, NEW x \in Vnode PROVE fx[x].parent # ox[u].v
    <3>1. CASE u = t
        BY <2>1, <3>1, Zenon DEF CtlFrame
    <3>2. CASE u # t
      <4>1. ops[u].last /\ ox[u].v = ops[u].v /\ ops[u].v # NoVnode
        <5>1. ops[u].pc # "idle"
            BY <1>1, <2>1, <3>2 DEF Ctl, Shape, Idle
        <5> QED BY <1>1, <2>1, <3>2, <5>1 DEF Ctl, Shape
      <4>2. fw[x].parent # ops[u].v
          BY <4>1, Zenon DEF Ctl, LastAlone
      <4>3. Allowed(fw, ops, t, fx[x].parent) => fx[x].parent # ops[u].v
          BY <3>2, <4>1, Zenon DEF Allowed
      <4> QED BY <4>1, <4>2, <4>3 DEF CtlFrame
    <3> QED BY <3>1, <3>2, Zenon
  <2>2. ASSUME NEW u \in Thread, ox[u].last, NEW r \in Thread \ {u}
        PROVE  ox[u].v \notin UsesOf(fx, ox[r])
    <3>1. CASE u = t
        BY <1>1, <2>2, <3>1 DEF CtlFrame
    <3>2. CASE u # t /\ r = t
      <4>1. ops[u].last /\ ox[u].v = ops[u].v
          BY <1>1, <2>2, <3>2
      <4>2. ASSUME ox[u].v \in UsesOf(fx, ox[t]) PROVE FALSE
        <5>1. Allowed(fw, ops, t, ops[u].v)
            BY <4>1, <4>2, Zenon DEF CtlFrame
        <5> QED BY <3>2, <4>1, <5>1, Zenon DEF Allowed
      <4> QED BY <3>2, <4>2, Zenon
    <3>3. CASE u # t /\ r # t
        BY <1>1, <2>2, <3>3 DEF Ctl, LastAlone
    <3> QED BY <3>1, <3>2, <3>3, Zenon
  <2> QED BY <2>1, <2>2, Zenon DEF LastAlone
<1>4. ASSUME NEW u \in Thread \ {t}, NEW x \in UsesOf(fx, ox[t]), NEW y \in UsesOf(fx, ox[u]),
             fx[x].isdir, fx[y].isdir, fx[x].first = fx[y].first
      PROVE  x = y
  <2>1. Allowed(fw, ops, t, x) /\ Stays(fw, fx, x)
      BY Zenon DEF CtlFrame
  <2>2. y \in UsesOf(fw, ops[u]) /\ Stays(fw, fx, y)
      BY <1>1
  <2>3. fw[x].isdir /\ fw[y].isdir /\ fw[x].first = fw[y].first
      BY <1>4, <2>1, <2>2 DEF Stays
  <2> QED BY <2>1, <2>2, <2>3, Zenon DEF Allowed
<1>5. Exclusion(fx, ox)
  <2> SUFFICES ASSUME NEW r \in Thread, NEW u \in Thread \ {r}, NEW x \in UsesOf(fx, ox[r]),
                      NEW y \in UsesOf(fx, ox[u]), fx[x].isdir, fx[y].isdir, fx[x].first = fx[y].first
               PROVE  x = y
      BY Zenon DEF Exclusion
  <2>1. CASE r = t
      BY <1>4, <2>1
  <2>2. CASE u = t
      BY <1>4, <2>2
  <2>3. CASE r # t /\ u # t
    <3>1. x \in UsesOf(fw, ops[r]) /\ Stays(fw, fx, x) /\ y \in UsesOf(fw, ops[u]) /\ Stays(fw, fx, y)
        BY <1>1, <2>3
    <3> QED BY <3>1 DEF Ctl, Exclusion, Stays
  <2> QED BY <2>1, <2>2, <2>3
<1> QED BY <1>2, <1>3, <1>5, Zenon DEF Ctl
----------------------------------------------------------------------------
(* What steps do to the vnodes *)

\* Vnodes stay where they are: fat32_touch, fat32_write, fat32_truncate,
\* fat32_sync_metadata
Kept(fw, fx) ==
    /\ VnodeType(fx) /\ fx[RootVnode] = fw[RootVnode]
    /\ \A x \in Vnode : Stays(fw, fx, x) /\ (~fw[x].used => fx[x] = fw[x])

\* Steps that keep the vnodes in place keep their tree.
LEMMA KeptTree ==
    ASSUME NEW fw, NEW fx, VnodeInv(fw), Kept(fw, fx)
    PROVE  VnodeInv(fx) /\ \A x \in Vnode : \A b, r : At(fx, x, b, r) <=> At(fw, x, b, r)
<1> USE TreeAssumption
<1>1. fx[RootVnode] = RootFatVnode
    BY DEF VnodeInv, Kept
<1>2. ASSUME NEW v \in Vnode, fx[v].used, fx[v].isdir PROVE fx[v].first \in Cluster
    BY <1>2 DEF VnodeInv, Kept, Stays
<1>3. ASSUME NEW v \in Vnode, ~fx[v].used PROVE fx[v] = NoFatVnode
    BY <1>3 DEF VnodeInv, Kept, Stays
<1>4. ASSUME NEW v \in Vnode \ {RootVnode}, fx[v].used PROVE Hangs(fx, v)
    BY <1>4 DEF VnodeInv, Kept, Stays, Hangs
<1>5. VnodeInv(fx)
    BY <1>1, <1>2, <1>3, <1>4, Zenon DEF VnodeInv
<1>6. ASSUME NEW x \in Vnode, NEW b, NEW r PROVE At(fx, x, b, r) <=> At(fw, x, b, r)
  <2>1. Stays(fw, fx, x)
      BY DEF Kept
  <2>2. CASE x = RootVnode \/ ~fw[x].used
      BY <2>1, <2>2 DEF At, Stays
  <2>3. CASE x # RootVnode /\ fw[x].used
    <3>1. fw[x].parent \in Vnode /\ fw[fw[x].parent].isdir
        BY <2>3 DEF VnodeInv, Hangs
    <3>2. Stays(fw, fx, fw[x].parent)
        BY <3>1 DEF Kept
    <3> QED BY <2>1, <3>1, <3>2 DEF At, Stays
  <2> QED BY <2>2, <2>3
<1> QED BY <1>5, <1>6, Zenon

\* Vnodes that do not change stay in place.
LEMMA KeptSame ==
    ASSUME NEW fw, VnodeType(fw) PROVE Kept(fw, fw)
    BY DEF Kept, Stays

\* Two changes that keep the vnodes in place do so together.
LEMMA KeptTwice ==
    ASSUME NEW fw, NEW fx, NEW fy, Kept(fw, fx), Kept(fx, fy) PROVE Kept(fw, fy)
    BY DEF Kept, Stays

\* fat32_touch keeps the vnodes in place.
LEMMA KeptTouched ==
    ASSUME NEW fw, VnodeType(fw), NEW v \in Vnode, fw[v].used
    PROVE  Kept(fw, Touched(fw, v))
<1>1. PICK fx : fx = Touched(fw, v)
    OBVIOUS
<1>2. /\ VnodeType(fx) /\ OnlyTimes(fw, fx)
      /\ \A w \in Vnode : w = RootVnode \/ w # v => fx[w] = fw[w]
    BY <1>1, TouchedTimes
<1>3. Kept(fw, fx)
    BY <1>2, TreeAssumption DEF Kept, Stays, OnlyTimes
<1> QED BY <1>1, <1>3

\* A vnode may change its cluster, its size and its flags in place.
LEMMA KeptSet ==
    ASSUME NEW fw, VnodeType(fw), NEW v \in Vnode, v # RootVnode, fw[v].used, NEW y \in FatVnode,
           y.used = fw[v].used, y.isdir = fw[v].isdir, y.parent = fw[v].parent, y.s = fw[v].s,
           fw[v].isdir => y.first = fw[v].first
    PROVE  Kept(fw, [fw EXCEPT ![v] = y])
<1>1. PICK fx : fx = [fw EXCEPT ![v] = y]
    OBVIOUS
<1>2. VnodeType(fx) /\ fx[v] = y /\ \A w \in Vnode : w # v => fx[w] = fw[w]
    BY <1>1 DEF VnodeType
<1>3. Kept(fw, fx)
    BY <1>2, TreeAssumption DEF Kept, Stays
<1> QED BY <1>1, <1>3

\* A vnode may be made for slot s of the directory of p: fat32_make_vnode
Grows(fw, fx, p, s) ==
    /\ VnodeType(fx) /\ VnodeInv(fx)
    /\ \A x \in Vnode :
         /\ fw[x].used => Stays(fw, fx, x)
         /\ fx[x].parent \in {fw[x].parent, p}
         /\ \A b, r : At(fx, x, b, r) => At(fw, x, b, r) \/ (b = fw[p].first /\ r = s)

\* A step that makes no vnode is one that makes at most one.
LEMMA KeptGrows ==
    ASSUME NEW fw, NEW fx, VnodeInv(fw), Kept(fw, fx), NEW p, NEW s
    PROVE  Grows(fw, fx, p, s)
<1>1. VnodeInv(fx) /\ \A x \in Vnode : \A b, r : At(fx, x, b, r) <=> At(fw, x, b, r)
    BY KeptTree
<1> QED BY <1>1 DEF Grows, Kept, Stays

\* fat32_make_vnode adds a vnode below its directory.
LEMMA MakeGrows ==
    ASSUME NEW fw, VnodeType(fw), VnodeInv(fw), NEW f1, Kept(fw, f1),
           NEW p \in Vnode, fw[p].used, fw[p].isdir, NEW s \in Nat, NEW e \in Entry,
           e.isdir => e.first \in Cluster, NEW flags \in SUBSET Flag,
           NEW n \in Vnode, ~fw[n].used
    PROVE  Grows(fw, [f1 EXCEPT ![n] = VnodeOf(e, p, s, flags)], p, s)
<1>1. PICK fx : fx = [f1 EXCEPT ![n] = VnodeOf(e, p, s, flags)]
    OBVIOUS
<1>2. /\ VnodeType(f1) /\ ~f1[n].used /\ f1[n].used = FALSE /\ f1[p].used /\ f1[p].used = TRUE
      /\ f1[p].isdir /\ f1[p].first = fw[p].first
    BY DEF Kept, Stays, VnodeType, FatVnode
<1>3. VnodeInv(f1) /\ \A x \in Vnode : \A b, r : At(f1, x, b, r) <=> At(fw, x, b, r)
    BY KeptTree
<1>4. VnodeType(fx) /\ VnodeInv(fx)
    BY <1>1, <1>2, <1>3, MadeTree
<1>5. fx[n] = VnodeOf(e, p, s, flags) /\ \A w \in Vnode : w # n => fx[w] = f1[w]
    BY <1>1, <1>2 DEF VnodeType
<1>6. Made(f1, fx, n, p, s)
    BY <1>2, <1>5 DEF Made, VnodeOf
<1>7. \A x \in Vnode : \A b, r : At(fx, x, b, r) <=> At(f1, x, b, r) \/ (x = n /\ b = f1[p].first /\ r = s)
    BY <1>3, <1>6, MadePlaces
<1>8. ASSUME NEW x \in Vnode
      PROVE  /\ fw[x].used => Stays(fw, fx, x)
             /\ fx[x].parent \in {fw[x].parent, p}
             /\ \A b, r : At(fx, x, b, r) => At(fw, x, b, r) \/ (b = fw[p].first /\ r = s)
  <2>1. CASE x = n
      BY <1>2, <1>3, <1>5, <1>7, <2>1 DEF VnodeOf
  <2>2. CASE x # n
      BY <1>2, <1>3, <1>5, <1>7, <2>2 DEF Kept, Stays
  <2> QED BY <2>1, <2>2
<1>9. Grows(fw, fx, p, s)
    BY <1>4, <1>8, Zenon DEF Grows
<1> QED BY <1>1, <1>9

\* fat32_make_vnode, as the actions have it
LEMMA MakeVnodeGrows ==
    ASSUME VnodeType(vn), VnodeInv(vn), NEW f1, Kept(vn, f1),
           NEW p \in Vnode, vn[p].used, vn[p].isdir, NEW s \in Nat, NEW e \in Entry,
           e.isdir => e.first \in Cluster, NEW flags \in SUBSET Flag,
           MakeVnode(f1, e, p, s, flags)
    PROVE  Grows(vn, vn', p, s)
<1>1. CASE vn' = f1
    BY <1>1, KeptGrows
<1>2. ASSUME NEW n \in SpareVnodes, vn' = [f1 EXCEPT ![n] = VnodeOf(e, p, s, flags)]
      PROVE  Grows(vn, vn', p, s)
  <2>1. n \in Vnode /\ ~vn[n].used
      BY DEF SpareVnodes
  <2>2. PICK fw : fw = vn
      OBVIOUS
  <2>3. Grows(fw, [f1 EXCEPT ![n] = VnodeOf(e, p, s, flags)], p, s)
      BY <2>1, <2>2, MakeGrows
  <2> QED BY <1>2, <2>2, <2>3
<1> QED BY <1>1, <1>2 DEF MakeVnode

\* A vnode goes: fat32_inactive
Goes(fw, fx, n) ==
    /\ VnodeType(fx) /\ VnodeInv(fx) /\ fx[n] = NoFatVnode
    /\ \A x \in Vnode : x # n => fx[x] = fw[x]
    /\ \A x \in Vnode : \A b, r : At(fx, x, b, r) => At(fw, x, b, r)

\* fat32_inactive takes away a vnode that has no children.
LEMMA GoneGoes ==
    ASSUME NEW fw, VnodeType(fw), VnodeInv(fw), NEW n \in Vnode, n # RootVnode,
           \A w \in Vnode : fw[w].parent # n
    PROVE  Goes(fw, [fw EXCEPT ![n] = NoFatVnode], n)
<1>1. PICK fx : fx = [fw EXCEPT ![n] = NoFatVnode]
    OBVIOUS
<1>2. VnodeType(fx) /\ VnodeInv(fx) /\ \A x \in Vnode : \A b, r : At(fx, x, b, r) => At(fw, x, b, r)
    BY <1>1, GoneTree
<1>3. fx[n] = NoFatVnode /\ \A x \in Vnode : x # n => fx[x] = fw[x]
    BY <1>1 DEF VnodeType
<1> QED BY <1>1, <1>2, <1>3 DEF Goes
----------------------------------------------------------------------------
(* Steps, as the control sees them *)

VnFrame(fw, ops, fx, t) ==
    /\ \A x \in Vnode : fw[x].used =>
         Stays(fw, fx, x) \/ \A u \in Thread \ {t} : x \notin UsesOf(fw, ops[u])
    /\ \A x \in Vnode :
         fx[x].parent \in {fw[x].parent, NoVnode} \/ Allowed(fw, ops, t, fx[x].parent)

Others(lk, ops, lx, ox, t) ==
    /\ \A u \in Thread \ {t} : ox[u] = ops[u]
    /\ \A u \in Thread \ {t} : \A x \in Vnode : lk[x] = u => lx[x] = u

OnlyAllowed(fw, ops, fx, o, t) == \A x \in UsesOf(fx, o) : Allowed(fw, ops, t, x) /\ Stays(fw, fx, x)

\* Other threads notice nothing of vnodes that stay in place,
LEMMA KeptFrame ==
    ASSUME NEW fw, NEW fx, Kept(fw, fx), NEW ops, NEW t PROVE VnFrame(fw, ops, fx, t)
    BY DEF Kept, VnFrame, Stays

\* nor of one that is made,
LEMMA GrowsFrame ==
    ASSUME NEW fw, NEW fx, NEW p, NEW s, Grows(fw, fx, p, s), NEW ops, NEW t, Allowed(fw, ops, t, p)
    PROVE  VnFrame(fw, ops, fx, t)
    BY DEF Grows, VnFrame

\* nor of one that goes, if they do not use it.
LEMMA GoesFrame ==
    ASSUME NEW fw, NEW fx, NEW n, Goes(fw, fx, n), NEW ops, NEW t,
           \A u \in Thread \ {t} : n \notin UsesOf(fw, ops[u])
    PROVE  VnFrame(fw, ops, fx, t)
<1>1. fx[n].parent = NoVnode
    BY DEF Goes, NoFatVnode
<1> QED BY <1>1 DEF Goes, VnFrame, Stays

\* A call is over, or was none.
LEMMA CtlToIdle ==
    ASSUME CtlInv, NEW t \in Thread, TypeOK', VnodeInv(vn'), VnFrame(vn, op, vn', t),
           Others(lock, op, lock', op', t), op'[t] = Idle
    PROVE  CtlInv'
<1> USE TreeAssumption
<1>1. PICK fw, lk, ops, fx, lx, ox :
          fw = vn /\ lk = lock /\ ops = op /\ fx = vn' /\ lx = lock' /\ ox = op'
    OBVIOUS
<1>2. /\ Ctl(fw, lk, ops) /\ VnodeInv(fx) /\ VnFrame(fw, ops, fx, t) /\ Others(lk, ops, lx, ox, t)
      /\ ox[t] = Idle
    BY <1>1 DEF CtlInv
<1>3. UsesOf(fx, ox[t]) = {} /\ ox[t].last = FALSE
    BY <1>2 DEF UsesOf, Idle
<1>4. CtlFrame(fw, lk, ops, fx, lx, ox, t)
    BY <1>2, <1>3, Zenon DEF CtlFrame, VnFrame, Others
<1>5. Shape(fx, ox[t]) /\ Locks(fx, lx, t, ox[t])
    BY <1>2 DEF Shape, Locks, Idle, InDir, InRename, InSync, FreeSlot
<1>6. Ctl(fx, lx, ox)
    BY <1>2, <1>4, <1>5, CtlStep, Zenon
<1> QED BY <1>1, <1>6 DEF CtlInv

\* A call begins or goes on; it may be fat32_inactive.
LEMMA CtlToSync ==
    ASSUME CtlInv, NEW t \in Thread, TypeOK', VnodeInv(vn'), VnFrame(vn, op, vn', t),
           Others(lock, op, lock', op', t), NEW o, op'[t] = o,
           Shape(vn', o), Locks(vn', lock', t, o), OnlyAllowed(vn, op, vn', o, t),
           o.last => /\ \A x \in Vnode : vn'[x].parent # o.v
                     /\ \A u \in Thread \ {t} : o.v \notin UsesOf(vn, op[u])
    PROVE  CtlInv'
<1>1. PICK fw, lk, ops, fx, lx, ox :
          fw = vn /\ lk = lock /\ ops = op /\ fx = vn' /\ lx = lock' /\ ox = op'
    OBVIOUS
<1>2. /\ Ctl(fw, lk, ops) /\ VnodeInv(fx) /\ VnFrame(fw, ops, fx, t) /\ Others(lk, ops, lx, ox, t)
      /\ ox[t] = o /\ Shape(fx, o) /\ Locks(fx, lx, t, o) /\ OnlyAllowed(fw, ops, fx, o, t)
      /\ o.last => /\ \A x \in Vnode : fx[x].parent # o.v
                   /\ \A u \in Thread \ {t} : o.v \notin UsesOf(fw, ops[u])
    BY <1>1 DEF CtlInv
<1>4. CtlFrame(fw, lk, ops, fx, lx, ox, t)
    BY <1>2 DEF CtlFrame, VnFrame, Others, OnlyAllowed
<1>5. Shape(fx, ox[t]) /\ Locks(fx, lx, t, ox[t])
    BY <1>2
<1>6. Ctl(fx, lx, ox)
    BY <1>2, <1>4, <1>5, CtlStep, Zenon
<1> QED BY <1>1, <1>6 DEF CtlInv

\* The same for any other call
LEMMA CtlToCall ==
    ASSUME CtlInv, NEW t \in Thread, TypeOK', VnodeInv(vn'), VnFrame(vn, op, vn', t),
           Others(lock, op, lock', op', t), NEW o, op'[t] = o, ~o.last,
           Shape(vn', o), Locks(vn', lock', t, o), OnlyAllowed(vn, op, vn', o, t)
    PROVE  CtlInv'
    BY CtlToSync

\* The conditions under which processes call
LEMMA MayCallAllowed ==
    ASSUME CtlInv, Practices = {}, NEW t \in Thread, NEW x, MayCall(t, x)
    PROVE  Allowed(vn, op, t, x) /\ op[t] = Idle /\ vn[x].used
<1>1. op[t] = Idle
    BY DEF MayCall, CtlInv, Ctl, Shape
<1>2. ASSUME NEW u \in Thread \ {t}, op[u].last PROVE op[u].v # x
    BY <1>2 DEF MayCall
<1>3. ASSUME NEW u \in Thread \ {t}, vn[x].isdir, NEW y \in UsesOf(vn, op[u]),
             vn[y].isdir, vn[y].first = vn[x].first
      PROVE  y = x
  <2>1. y \in Uses(op[u])
      BY DEF Uses, UsesOf
  <2> QED BY <1>3, <2>1 DEF MayCall
<1> QED BY <1>1, <1>2, <1>3, Zenon DEF MayCall, Allowed

\* Locks and calls of the others, when t takes or lets go of locks
LEMMA ReturnOthers ==
    ASSUME TypeOK, NEW t \in Thread, Return(t)
    PROVE  /\ op'[t] = Idle /\ Others(lock, op, lock', op', t)
           /\ lock' \in [Vnode -> Thread \cup {NoThread}] /\ op' \in [Thread -> Op]
<1> USE TreeAssumption
<1>1. Idle \in Op
    BY FreeSlotEntry DEF Idle, Op, PC
<1>2. op'[t] = Idle /\ op' \in [Thread -> Op] /\ \A u \in Thread \ {t} : op'[u] = op[u]
    BY <1>1 DEF TypeOK, Return, Go
<1>3. lock' \in [Vnode -> Thread \cup {NoThread}] /\ \A u \in Thread \ {t} : \A x \in Vnode : lock[x] = u => lock'[x] = u
    BY DEF TypeOK, Return, Unlock
<1> QED BY <1>2, <1>3 DEF Others

\* A step of a thread leaves the calls of the others alone.
LEMMA GoOthers ==
    ASSUME TypeOK, NEW t \in Thread, NEW o \in Op, Go(t, o)
    PROVE  op'[t] = o /\ op' \in [Thread -> Op] /\ \A u \in Thread \ {t} : op'[u] = op[u]
    BY DEF TypeOK, Go
----------------------------------------------------------------------------
(* CtlInv is preserved. *)

\* What the control invariant says of the types.
LEMMA CtlTyped ==
    ASSUME CtlInv
    PROVE  /\ Typed(use, dir, dotdot, vn) /\ UseType(use) /\ DirType(dir) /\ dotdot \in [Cluster -> Cluster]
           /\ VnodeType(vn) /\ VnodeInv(vn) /\ TypeOK
    BY DEF CtlInv, Ctl, TypeOK, Typed, UseType, DirType, VnodeType

\* The directory of a vnode
LEMMA DirCluster ==
    ASSUME CtlInv, NEW v \in Vnode, vn[v].used, vn[v].isdir
    PROVE  vn[v].first \in Cluster /\ \A s \in Slots[vn[v].first] : s \in Nat /\ dir[vn[v].first][s] \in Entry
<1>1. vn[v].first \in Cluster
    BY CtlTyped DEF VnodeInv
<1> QED BY <1>1, CtlTyped, TreeAssumption DEF DirType

\* What a name leads to
LEMMA NamedEntry ==
    ASSUME CtlInv, DataInv, NEW v \in Vnode, vn[v].used, vn[v].isdir, NEW n \in Name,
           NEW c, c = vn[v].first, NEW s \in Find(c, n)
    PROVE  /\ c \in Cluster /\ s \in Slots[c] /\ s \in Nat /\ dir[c][s] \in Entry
           /\ dir[c][s].name = n /\ dir[c][s] # FreeSlot /\ IsEntry(use, dir, c, s)
           /\ dir[c][s].isdir =>
                dir[c][s].first \in Cluster /\ dir[c][s].first # Root /\ use[dir[c][s].first] = "dir"
<1>1. c \in Cluster /\ s \in Slots[c] /\ s \in Nat /\ dir[c][s] \in Entry /\ dir[c][s].name = n
    BY DirCluster DEF Find
<1>2. dir[c][s] # FreeSlot
    BY <1>1, TreeAssumption DEF FreeSlot
<1>3. PICK g : IsGood(g) /\ DiskGood(use, dir, dotdot, g) /\ VnodesGood(use, dir, vn, g)
    BY DEF DataInv, Data
<1>4. PICK u, d, dd, fw : u = use /\ d = dir /\ dd = dotdot /\ fw = vn
    OBVIOUS
<1>5. DiskGood(u, d, dd, g) /\ VnodesGood(u, d, fw, g) /\ VnodeInv(fw) /\ fw[v].used /\ fw[v].isdir /\ c = fw[v].first
    BY <1>3, <1>4, CtlTyped
<1>6. u[c] = "dir"
    BY <1>5, DirVnodeUsed
<1>7. IsEntry(u, d, c, s)
    BY <1>1, <1>2, <1>4, <1>6 DEF IsEntry
<1>8. ASSUME d[c][s].isdir PROVE d[c][s].first \in Cluster \ {Root} /\ u[d[c][s].first] = "dir"
  <2>1. d[c][s].first = g[c][s].first
      BY <1>1, <1>5, <1>7, <1>8, DirEntryRight
  <2>2. TrueTo(u, d[c][s].isdir, g[c][s])
      BY <1>1, <1>5, <1>7, Zenon DEF DiskGood, EntriesGood
  <2> QED BY <1>8, <2>1, <2>2 DEF TrueTo
<1> QED BY <1>1, <1>2, <1>4, <1>7, <1>8

\* fat32_lookup, up to the entry: locks and calls stay right.
LEMMA LookupCtl ==
    ASSUME CtlInv, DataInv, Practices = {}, NEW t \in Thread, NEW v \in Vnode, NEW n \in Name,
           Lookup(t, v, n)
    PROVE  CtlInv'
<1> USE TreeAssumption
<1>1. Allowed(vn, op, t, v) /\ op[t] = Idle /\ vn[v].used /\ vn[v].isdir
    BY MayCallAllowed DEF Lookup
<1>2. PICK c : c = vn[v].first
    OBVIOUS
<1>3. PICK s \in Find(c, n) :
          Go(t, [Idle EXCEPT !.pc = "make", !.v = v, !.n = n, !.s = s, !.e = dir[c][s]])
    BY <1>2 DEF Lookup
<1>4. s \in Nat /\ dir[c][s] \in Entry /\ (dir[c][s].isdir => dir[c][s].first \in Cluster)
    BY <1>1, <1>2, NamedEntry
<1>5. PICK o : o = [Idle EXCEPT !.pc = "make", !.v = v, !.n = n, !.s = s, !.e = dir[c][s]]
    OBVIOUS
<1>6. /\ o \in Op /\ o.pc = "make" /\ o.v = v /\ o.w = NoVnode /\ o.last = FALSE
      /\ o.e.isdir => o.e.first \in Cluster
    BY <1>4, <1>5 DEF Idle, Op, PC
<1>7. op'[t] = o /\ op' \in [Thread -> Op] /\ \A u \in Thread \ {t} : op'[u] = op[u]
    BY <1>3, <1>5, <1>6, CtlTyped, GoOthers
<1>8. use' = use /\ dir' = dir /\ dotdot' = dotdot /\ vn' = vn /\ lock' = lock /\ faults' = faults
    BY DEF Lookup
<1>9. TypeOK'
    BY <1>7, <1>8, CtlTyped DEF TypeOK
<1>10. VnodeInv(vn') /\ VnFrame(vn, op, vn', t) /\ Stays(vn, vn', v)
    BY <1>8, CtlTyped, KeptSame, KeptFrame DEF Stays
<1>11. Others(lock, op, lock', op', t)
    BY <1>7, <1>8 DEF Others
<1>12. OnlyAllowed(vn, op, vn', o, t)
    BY <1>1, <1>6, <1>10 DEF OnlyAllowed, UsesOf
<1>13. Shape(vn', o) /\ Locks(vn', lock', t, o)
    BY <1>1, <1>6, <1>8 DEF Shape, Locks, InDir, InRename, InSync
<1> QED BY <1>6, <1>7, <1>9, <1>10, <1>11, <1>12, <1>13, CtlToCall

\* fat32_lookup, after the directory is unlocked.
LEMMA LookupMakeCtl ==
    ASSUME CtlInv, NEW t \in Thread, LookupMake(t)
    PROVE  CtlInv'
<1> USE TreeAssumption
<1>1. PICK o : o = op[t]
    OBVIOUS
<1>2. /\ o.pc = "make" /\ Shape(vn, o) /\ o \in Op
      /\ MakeVnode(vn, o.e, o.v, o.s, {}) /\ Go(t, Idle)
    BY <1>1 DEF LookupMake, CtlInv, Ctl, TypeOK
<1>3. /\ o.v \in Vnode /\ vn[o.v].used /\ vn[o.v].isdir /\ o.s \in Nat /\ o.e \in Entry
      /\ o.e.isdir => o.e.first \in Cluster
    BY <1>2 DEF Shape, InDir, Op
<1>4. Grows(vn, vn', o.v, o.s)
  <2>1. Kept(vn, vn) /\ VnodeType(vn) /\ VnodeInv(vn)
      BY CtlTyped, KeptSame
  <2> QED BY <1>2, <1>3, <2>1, MakeVnodeGrows
<1>5. Allowed(vn, op, t, o.v)
  <2>1. o.v \in UsesOf(vn, op[t])
      BY <1>1, <1>3 DEF UsesOf
  <2> QED BY <2>1, UsesAllowed DEF CtlInv
<1>6. VnodeInv(vn') /\ VnodeType(vn') /\ VnFrame(vn, op, vn', t)
    BY <1>4, <1>5, GrowsFrame DEF Grows
<1>7. Idle \in Op
    BY FreeSlotEntry DEF Idle, Op, PC
<1>8. op'[t] = Idle /\ op' \in [Thread -> Op] /\ \A u \in Thread \ {t} : op'[u] = op[u]
    BY <1>2, <1>7, CtlTyped, GoOthers
<1>9. use' = use /\ dir' = dir /\ dotdot' = dotdot /\ lock' = lock /\ faults' = faults
    BY DEF LookupMake
<1>10. TypeOK'
    BY <1>6, <1>8, <1>9, CtlTyped DEF TypeOK, VnodeType
<1>11. Others(lock, op, lock', op', t)
    BY <1>8, <1>9 DEF Others
<1> QED BY <1>6, <1>8, <1>10, <1>11, CtlToIdle
\* fat32_create and fat32_mkdir write one record and make one vnode.
LEMMA EnterNewVnodes ==
    ASSUME CtlInv, NEW v \in Vnode, vn[v].used, vn[v].isdir, NEW s \in Slots[vn[v].first],
           NEW e \in Entry, e.isdir => e.first \in Cluster, EnterNew(v, s, e)
    PROVE  DirType(dir') /\ Grows(vn, vn', v, s)
<1>1. vn[v].first \in Cluster /\ s \in Nat
    BY DirCluster
<1>2. DirType(dir')
  <2>1. CASE e.isdir
    <3>1. EmptyDir(e.first) \in [Slots[e.first] -> Entry]
        BY FreeSlotEntry DEF EmptyDir
    <3> QED BY <1>1, <2>1, <3>1, CtlTyped DEF EnterNew, DirType
  <2>2. CASE ~e.isdir
    <3>1. dir' = Put(dir, vn[v].first, s, e)
        BY <2>2 DEF EnterNew, Put
    <3> QED BY <1>1, <3>1, CtlTyped, PutEntry
  <2> QED BY <2>1, <2>2
<1>3. PICK f1 : f1 = IF SpareVnodes = {} THEN vn ELSE Touched(vn, v)
    OBVIOUS
<1>4. Kept(vn, f1)
    BY <1>3, CtlTyped, KeptSame, KeptTouched
<1>5. MakeVnode(f1, e, v, s, {"time"}) /\ {"time"} \in SUBSET Flag
    BY <1>3 DEF EnterNew, Flag
<1>6. Grows(vn, vn', v, s)
    BY <1>1, <1>4, <1>5, CtlTyped, MakeVnodeGrows
<1> QED BY <1>2, <1>6

\* fat32_create of a name that is not there.
LEMMA CreateCtl ==
    ASSUME CtlInv, Practices = {}, NEW t \in Thread, NEW v \in Vnode, NEW n \in Name, Create(t, v, n)
    PROVE  CtlInv'
<1> USE TreeAssumption
<1>1. Allowed(vn, op, t, v) /\ op[t] = Idle /\ vn[v].used /\ vn[v].isdir
    BY MayCallAllowed DEF Create
<1>2. PICK e : e = [name |-> n, first |-> NoCluster, size |-> 0, isdir |-> FALSE]
    OBVIOUS
<1>3. e \in Entry /\ (e.isdir => e.first \in Cluster)
    BY <1>2 DEF Entry
<1>4. PICK s \in Room(vn[v].first) : EnterNew(v, s, e)
    BY <1>2 DEF Create
<1>5. s \in Slots[vn[v].first]
    BY DEF Room, First, Find
<1>6. DirType(dir') /\ Grows(vn, vn', v, s)
    BY <1>1, <1>3, <1>4, <1>5, EnterNewVnodes
<1>7. VnodeInv(vn') /\ VnodeType(vn') /\ VnFrame(vn, op, vn', t)
    BY <1>1, <1>6, GrowsFrame DEF Grows
<1>8. use' = use /\ dotdot' = dotdot /\ lock' = lock /\ faults' = faults /\ op' = op
    BY DEF Create
<1>9. TypeOK'
    BY <1>6, <1>7, <1>8, CtlTyped DEF TypeOK, VnodeType, DirType
<1>10. Others(lock, op, lock', op', t) /\ op'[t] = Idle
    BY <1>1, <1>8 DEF Others
<1> QED BY <1>7, <1>9, <1>10, CtlToIdle

\* A failure that does harm is counted.
LEMMA MishapType ==
    ASSUME TypeOK, Mishap PROVE faults' \in [met : 0 .. MaxFaults, harm : BOOLEAN] /\ faults'.harm
    BY TreeAssumption DEF TypeOK, Mishap

\* A failure that does none leaves harm as it was.
LEMMA SurvivedType ==
    ASSUME TypeOK, Survived
    PROVE  faults' \in [met : 0 .. MaxFaults, harm : BOOLEAN] /\ faults'.harm = faults.harm
    BY DEF TypeOK, Survived

\* An error that leaves vnodes and calls alone keeps what is known of them.
LEMMA SameCtl ==
    ASSUME CtlInv, UseType(use'), Mishap, dir' = dir, dotdot' = dotdot, vn' = vn, lock' = lock, op' = op
    PROVE  CtlInv'
<1>1. TypeOK /\ Ctl(vn, lock, op)
    BY DEF CtlInv
<1>2. TypeOK'
    BY <1>1, MishapType DEF TypeOK, UseType
<1>3. Ctl(vn', lock', op')
    BY <1>1
<1> QED BY <1>2, <1>3 DEF CtlInv

\* The entry of a truncated file, and that of one with a new name
LEMMA CutEntry ==
    ASSUME NEW e0 \in Entry, NEW e, e = [e0 EXCEPT !.first = NoCluster, !.size = 0]
    PROVE  /\ e \in Entry /\ e.isdir = e0.isdir /\ e.name = e0.name /\ e.first = NoCluster /\ e.size = 0
<1>1. /\ e.isdir = e0.isdir /\ e.name = e0.name /\ e.first = NoCluster /\ e.size = 0
      /\ e = [name |-> e.name, first |-> e.first, size |-> e.size, isdir |-> e.isdir]
    BY DEF Entry
<1>2. e.name \in Name \cup {NoName} /\ e.first \in Cluster \cup {NoCluster} /\ e.size \in 0 .. 1 /\ e.isdir \in BOOLEAN
    BY <1>1 DEF Entry
<1>3. e \in Entry
    BY <1>1, <1>2 DEF Entry
<1> QED BY <1>1, <1>3

\* The record fat32_rename writes is of the same file, under the new name, without a size.
LEMMA RenamedEntry ==
    ASSUME NEW e0 \in Entry, NEW m \in Name \cup {NoName}, NEW e, e = Renamed(e0, m)
    PROVE  /\ e \in Entry /\ e.isdir = e0.isdir /\ e.name = m /\ e.first = e0.first /\ e.size = 0
<1>1. /\ e.isdir = e0.isdir /\ e.name = m /\ e.first = e0.first /\ e.size = 0
      /\ e = [name |-> e.name, first |-> e.first, size |-> e.size, isdir |-> e.isdir]
    BY DEF Entry, Renamed
<1>2. e.name \in Name \cup {NoName} /\ e.first \in Cluster \cup {NoCluster} /\ e.size \in 0 .. 1 /\ e.isdir \in BOOLEAN
    BY <1>1 DEF Entry
<1>3. e \in Entry
    BY <1>1, <1>2 DEF Entry
<1> QED BY <1>1, <1>3

\* fat32_create of a name that is there.
LEMMA CreateExistingCtl ==
    ASSUME CtlInv, DataInv, Practices = {}, NEW t \in Thread, NEW v \in Vnode, NEW n \in Name,
           NEW truncate \in BOOLEAN, CreateExisting(t, v, n, truncate)
    PROVE  CtlInv'
<1> USE TreeAssumption
<1>1. Allowed(vn, op, t, v) /\ op[t] = Idle /\ vn[v].used /\ vn[v].isdir
    BY MayCallAllowed DEF CreateExisting
<1>2. PICK c : c = vn[v].first
    OBVIOUS
<1>0. PICK s \in Find(c, n) :
          LET e == dir[c][s]
              cut == truncate /\ ~e.isdir
          IN /\ use' = IF cut /\ e.first # NoCluster
                       THEN [use EXCEPT ![e.first] = "free"] ELSE use
             /\ \/ /\ MakeVnode(IF e.isdir THEN vn ELSE Touched(vn, v),
                                IF cut THEN [e EXCEPT !.first = NoCluster, !.size = 0] ELSE e,
                                v, s, {})
                   /\ faults' = faults
                \/ Mishap /\ vn' = vn
    BY <1>2 DEF CreateExisting
<1>12. UseType(use')
    BY <1>0, CtlTyped DEF UseType
<1>11. dir' = dir /\ dotdot' = dotdot /\ lock' = lock /\ op' = op
    BY DEF CreateExisting
<1> SUFFICES ASSUME faults' = faults,
                    MakeVnode(IF dir[c][s].isdir THEN vn ELSE Touched(vn, v),
                              IF truncate /\ ~dir[c][s].isdir
                              THEN [dir[c][s] EXCEPT !.first = NoCluster, !.size = 0] ELSE dir[c][s],
                              v, s, {})
             PROVE  CtlInv'
    BY <1>0, <1>11, <1>12, SameCtl
<1>4. s \in Nat /\ dir[c][s] \in Entry /\ (dir[c][s].isdir => dir[c][s].first \in Cluster)
    BY <1>1, <1>2, NamedEntry
<1>5. PICK e, f1 : /\ f1 = IF dir[c][s].isdir THEN vn ELSE Touched(vn, v)
                   /\ e = IF truncate /\ ~dir[c][s].isdir
                          THEN [dir[c][s] EXCEPT !.first = NoCluster, !.size = 0] ELSE dir[c][s]
    OBVIOUS
<1>6. e \in Entry /\ (e.isdir => e.first \in Cluster)
  <2>1. PICK e0 \in Entry : e0 = dir[c][s]
      BY <1>4
  <2>2. CASE truncate /\ ~e0.isdir
    <3>1. e = [e0 EXCEPT !.first = NoCluster, !.size = 0]
        BY <1>5, <2>1, <2>2
    <3>2. e \in Entry /\ e.isdir = e0.isdir
        BY <3>1, CutEntry
    <3> QED BY <2>2, <3>2
  <2>3. CASE ~(truncate /\ ~e0.isdir)
      BY <1>4, <1>5, <2>1, <2>3
  <2> QED BY <2>2, <2>3
<1>7. Kept(vn, f1)
    BY <1>1, <1>5, CtlTyped, KeptSame, KeptTouched
<1>8. MakeVnode(f1, e, v, s, {}) /\ {} \in SUBSET Flag
    BY <1>5
<1>9. Grows(vn, vn', v, s)
    BY <1>1, <1>4, <1>6, <1>7, <1>8, CtlTyped, MakeVnodeGrows
<1>10. VnodeInv(vn') /\ VnodeType(vn') /\ VnFrame(vn, op, vn', t)
    BY <1>1, <1>9, GrowsFrame DEF Grows
<1>13. TypeOK'
    BY <1>10, <1>11, <1>12, CtlTyped DEF TypeOK, VnodeType, UseType
<1>14. Others(lock, op, lock', op', t) /\ op'[t] = Idle
    BY <1>1, <1>11 DEF Others
<1> QED BY <1>10, <1>13, <1>14, CtlToIdle

\* A rename that loses an entry does harm.
LEMMA LossType ==
    ASSUME TypeOK, Loss PROVE faults' \in [met : 0 .. MaxFaults, harm : BOOLEAN] /\ faults'.harm
<1>1. PICK f \in [met : 0 .. MaxFaults, harm : BOOLEAN] : f = faults
    BY DEF TypeOK
<1>2. faults' = [met |-> f.met, harm |-> TRUE]
    BY <1>1 DEF Loss
<1> QED BY <1>2

\* fat32_mkdir.
LEMMA MkdirCtl ==
    ASSUME CtlInv, Practices = {}, NEW t \in Thread, NEW v \in Vnode, NEW n \in Name, Mkdir(t, v, n)
    PROVE  CtlInv'
<1> USE TreeAssumption
<1>1. Allowed(vn, op, t, v) /\ op[t] = Idle /\ vn[v].used /\ vn[v].isdir
    BY MayCallAllowed DEF Mkdir
<1>2. vn[v].first \in Cluster
    BY <1>1, DirCluster
<1>3. PICK new \in Unallocated :
          /\ use' = [use EXCEPT ![new] = "dir"]
          /\ \/ /\ InitDir(new, vn[v].first)
                /\ \E s \in Room(vn[v].first) :
                     EnterNew(v, s, [name |-> n, first |-> new, size |-> 0, isdir |-> TRUE])
                /\ UNCHANGED faults
             \/ Mishap /\ UNCHANGED <<dir, dotdot, vn>>
    BY DEF Mkdir
<1>4. UseType(use') /\ new \in Cluster
    BY <1>3, CtlTyped DEF UseType, Unallocated
<1>5. lock' = lock /\ op' = op
    BY DEF Mkdir
<1>6. Others(lock, op, lock', op', t) /\ op'[t] = Idle
    BY <1>1, <1>5 DEF Others
<1>7. CASE Mishap /\ UNCHANGED <<dir, dotdot, vn>>
  <2>1. VnodeInv(vn') /\ VnFrame(vn, op, vn', t)
      BY <1>7, CtlTyped, KeptSame, KeptFrame
  <2>2. TypeOK'
      BY <1>4, <1>5, <1>7, CtlTyped, MishapType DEF TypeOK, UseType
  <2> QED BY <1>6, <2>1, <2>2, CtlToIdle
<1>8. ASSUME InitDir(new, vn[v].first), UNCHANGED faults, NEW s \in Room(vn[v].first),
             EnterNew(v, s, [name |-> n, first |-> new, size |-> 0, isdir |-> TRUE])
      PROVE  CtlInv'
  <2>1. PICK e : e = [name |-> n, first |-> new, size |-> 0, isdir |-> TRUE]
      OBVIOUS
  <2>2. e \in Entry /\ (e.isdir => e.first \in Cluster) /\ EnterNew(v, s, e)
      BY <1>4, <1>8, <2>1 DEF Entry
  <2>3. s \in Slots[vn[v].first]
      BY DEF Room, First, Find
  <2>4. DirType(dir') /\ Grows(vn, vn', v, s)
      BY <1>1, <2>2, <2>3, EnterNewVnodes
  <2>5. VnodeInv(vn') /\ VnodeType(vn') /\ VnFrame(vn, op, vn', t)
      BY <1>1, <2>4, GrowsFrame DEF Grows
  <2>6. dotdot' \in [Cluster -> Cluster]
      BY <1>2, <1>8, CtlTyped DEF InitDir
  <2>7. TypeOK'
      BY <1>4, <1>5, <1>8, <2>4, <2>5, <2>6, CtlTyped DEF TypeOK, VnodeType, DirType, UseType
  <2> QED BY <1>6, <2>5, <2>7, CtlToIdle
<1> QED BY <1>3, <1>7, <1>8

\* fat32_remove and fat32_rmdir, up to the entry they found.
LEMMA RemoveFindCtl ==
    ASSUME CtlInv, Practices = {}, NEW t \in Thread, NEW v \in Vnode, NEW n \in Name,
           RemoveFind(t, v, n)
    PROVE  CtlInv'
<1> USE TreeAssumption
<1>1. Allowed(vn, op, t, v) /\ op[t] = Idle /\ vn[v].used /\ vn[v].isdir
    BY MayCallAllowed DEF RemoveFind
<1>2. PICK c : c = vn[v].first
    OBVIOUS
<1>3. PICK s \in Find(c, n) :
          /\ IF dir[c][s].isdir THEN DirEmpty(dir[c][s].first) ELSE UNCHANGED faults
          /\ Go(t, [Idle EXCEPT !.pc = "delete", !.v = v, !.n = n, !.s = s, !.e = dir[c][s]])
    BY <1>2 DEF RemoveFind
<1>4. s \in Nat /\ dir[c][s] \in Entry
    BY <1>1, <1>2, DirCluster DEF Find
<1>5. PICK o : o = [Idle EXCEPT !.pc = "delete", !.v = v, !.n = n, !.s = s, !.e = dir[c][s]]
    OBVIOUS
<1>6. o \in Op /\ o.pc = "delete" /\ o.v = v /\ o.w = NoVnode /\ o.last = FALSE
    BY <1>4, <1>5 DEF Idle, Op, PC
<1>7. op'[t] = o /\ op' \in [Thread -> Op] /\ \A u \in Thread \ {t} : op'[u] = op[u]
    BY <1>3, <1>5, <1>6, CtlTyped, GoOthers
<1>8. /\ use' = use /\ dir' = dir /\ dotdot' = dotdot /\ vn' = vn
      /\ lock' = [lock EXCEPT ![v] = t] /\ lock[v] = NoThread
    BY DEF RemoveFind
<1>9. faults' \in [met : 0 .. MaxFaults, harm : BOOLEAN]
    BY <1>3, CtlTyped, MishapType DEF DirEmpty, TypeOK
<1>10. /\ lock' \in [Vnode -> Thread \cup {NoThread}] /\ lock'[v] = t
       /\ \A x \in Vnode : x # v => lock'[x] = lock[x]
    BY <1>8, CtlTyped DEF TypeOK
<1>11. TypeOK'
    BY <1>7, <1>8, <1>9, <1>10, CtlTyped DEF TypeOK
<1>12. VnodeInv(vn') /\ VnFrame(vn, op, vn', t) /\ Stays(vn, vn', v)
    BY <1>8, CtlTyped, KeptSame, KeptFrame DEF Stays
<1>13. Others(lock, op, lock', op', t)
    BY <1>7, <1>8, <1>10 DEF Others
<1>14. OnlyAllowed(vn, op, vn', o, t)
    BY <1>1, <1>6, <1>12 DEF OnlyAllowed, UsesOf
<1>15. Shape(vn', o) /\ Locks(vn', lock', t, o)
    BY <1>1, <1>6, <1>8, <1>10 DEF Shape, Locks, InDir, InRename, InSync
<1> QED BY <1>6, <1>7, <1>11, <1>12, <1>13, <1>14, <1>15, CtlToCall
\* Deleting an entry and freeing its cluster keep the types.
LEMMA DeleteTypes ==
    ASSUME TypeOK, NEW c, NEW s, NEW first \in Cluster \cup {NoCluster}, DeleteAndFree(c, s, first)
    PROVE  UseType(use') /\ DirType(dir') /\ faults' \in [met : 0 .. MaxFaults, harm : BOOLEAN]
<1>1. PICK gone, freed :
          /\ gone = [dir EXCEPT ![c][s] = FreeSlot]
          /\ freed = IF first = NoCluster THEN use ELSE [use EXCEPT ![first] = "free"]
    OBVIOUS
<1>2. UseType(use) /\ UseType(freed)
    BY <1>1, TreeAssumption DEF TypeOK, UseType
<1>3. DirType(dir) /\ DirType(gone)
    BY <1>1, FreeSlotEntry DEF TypeOK, DirType
<1>4. \/ dir' = gone /\ use' = freed /\ UNCHANGED faults
      \/ Mishap /\ dir' = dir /\ use' = freed
      \/ Mishap /\ dir' = gone /\ use' = use
    BY <1>1 DEF DeleteAndFree
<1> QED BY <1>2, <1>3, <1>4, MishapType DEF TypeOK

\* fat32_remove and fat32_rmdir, from the entry on.
LEMMA RemoveDeleteCtl ==
    ASSUME CtlInv, NEW t \in Thread, RemoveDelete(t)
    PROVE  CtlInv'
<1>1. PICK o : o = op[t]
    OBVIOUS
<1>2. /\ o.pc = "delete" /\ Shape(vn, o) /\ o \in Op
      /\ DeleteAndFree(vn[o.v].first, o.s, o.e.first) /\ vn' = Touched(vn, o.v) /\ Return(t)
      /\ dotdot' = dotdot
    BY <1>1 DEF RemoveDelete, CtlInv, Ctl, TypeOK
<1>3. o.v \in Vnode /\ vn[o.v].used /\ o.e.first \in Cluster \cup {NoCluster}
    BY <1>2 DEF Shape, Op, Entry
<1>4. Kept(vn, vn') /\ VnodeType(vn')
    BY <1>2, <1>3, CtlTyped, KeptTouched DEF Kept
<1>5. VnodeInv(vn') /\ VnFrame(vn, op, vn', t)
    BY <1>4, CtlTyped, KeptTree, KeptFrame
<1>6. UseType(use') /\ DirType(dir') /\ faults' \in [met : 0 .. MaxFaults, harm : BOOLEAN]
    BY <1>2, <1>3, CtlTyped, DeleteTypes
<1>7. /\ op'[t] = Idle /\ Others(lock, op, lock', op', t)
      /\ lock' \in [Vnode -> Thread \cup {NoThread}] /\ op' \in [Thread -> Op]
    BY <1>2, CtlTyped, ReturnOthers
<1>8. TypeOK'
    BY <1>2, <1>4, <1>6, <1>7, CtlTyped DEF TypeOK, UseType, DirType, VnodeType
<1> QED BY <1>5, <1>7, <1>8, CtlToIdle

\* fat32_rename has looked for the source and the target.
LEMMA RenameFindCtl ==
    ASSUME CtlInv, NEW t \in Thread, NEW o \in Op, NEW ls, RenameFind(t, o, ls),
           UNCHANGED <<use, dir, dotdot, vn, faults>>,
           o.v \in Vnode, vn[o.v].used, vn[o.v].isdir, Allowed(vn, op, t, o.v),
           o.w \in Vnode, vn[o.w].used, vn[o.w].isdir, Allowed(vn, op, t, o.w), ~o.last,
           o.v \in ls, vn[o.v].first = vn[o.w].first \/ o.w \in ls,
           \A x \in ls : x \in Vnode /\ lock[x] \in {NoThread, t}
    PROVE  CtlInv'
<1> USE TreeAssumption
<1>1. VnodeInv(vn') /\ VnFrame(vn, op, vn', t) /\ \A x \in Vnode : Stays(vn, vn', x)
    BY CtlTyped, KeptSame, KeptFrame DEF Stays
<1>2. CASE Return(t)
  <2>1. /\ op'[t] = Idle /\ Others(lock, op, lock', op', t)
        /\ lock' \in [Vnode -> Thread \cup {NoThread}] /\ op' \in [Thread -> Op]
      BY <1>2, CtlTyped, ReturnOthers
  <2>2. TypeOK'
      BY <2>1, CtlTyped DEF TypeOK
  <2> QED BY <1>1, <2>1, <2>2, CtlToIdle
<1>3. ASSUME NEW s \in Find(vn[o.v].first, o.n), NEW pc \in {"move", "replace"},
             Go(t, [o EXCEPT !.pc = pc, !.s = s, !.e = dir[vn[o.v].first][s]]),
             lock' = [v \in Vnode |-> IF v \in ls THEN t ELSE lock[v]]
      PROVE  CtlInv'
  <2>1. s \in Nat /\ dir[vn[o.v].first][s] \in Entry
      BY DirCluster DEF Find
  <2>2. PICK p : p = [o EXCEPT !.pc = pc, !.s = s, !.e = dir[vn[o.v].first][s]]
      OBVIOUS
  <2>3. p \in Op /\ p.pc = pc /\ p.v = o.v /\ p.w = o.w /\ p.last = o.last
      BY <1>3, <2>1, <2>2 DEF Op, PC
  <2>4. op'[t] = p /\ op' \in [Thread -> Op] /\ \A u \in Thread \ {t} : op'[u] = op[u]
      BY <1>3, <2>2, <2>3, CtlTyped, GoOthers
  <2>5. /\ lock' \in [Vnode -> Thread \cup {NoThread}] /\ \A x \in ls : lock'[x] = t
        /\ \A x \in Vnode : x \notin ls => lock'[x] = lock[x]
      BY <1>3, CtlTyped DEF TypeOK
  <2>6. TypeOK'
      BY <2>4, <2>5, CtlTyped DEF TypeOK
  <2>7. Others(lock, op, lock', op', t)
      BY <2>4, <2>5 DEF Others
  <2>8. OnlyAllowed(vn, op, vn', p, t)
      BY <1>1, <1>3, <2>3 DEF OnlyAllowed, UsesOf
  <2>9. Shape(vn', p) /\ Locks(vn', lock', t, p)
      BY <1>3, <2>3, <2>5 DEF Shape, Locks, InDir, InRename, InSync
  <2>10. ~p.last
      BY <2>3
  <2> QED BY <1>1, <2>4, <2>6, <2>7, <2>8, <2>9, <2>10, CtlToCall
<1>4. Return(t) \/ \E s \in Find(vn[o.v].first, o.n) : \E pc \in {"move", "replace"} :
          /\ Go(t, [o EXCEPT !.pc = pc, !.s = s, !.e = dir[vn[o.v].first][s]])
          /\ lock' = [v \in Vnode |-> IF v \in ls THEN t ELSE lock[v]]
  <2>1. PICK c, d, targets : c = vn[o.v].first /\ d = vn[o.w].first /\ targets = Find(d, o.m)
      OBVIOUS
  <2>2. ASSUME NEW s \in Find(c, o.n),
               Go(t, [o EXCEPT !.pc = IF targets = {} THEN "move" ELSE "replace",
                                        !.s = s, !.e = dir[c][s]])
        PROVE  \E pc \in {"move", "replace"} : Go(t, [o EXCEPT !.pc = pc, !.s = s, !.e = dir[c][s]])
      BY <2>2
  <2> QED BY <2>1, <2>2 DEF RenameFind
<1> QED BY <1>2, <1>3, <1>4

\* fat32_rename, up to the source entry.
LEMMA RenameCallCtl ==
    ASSUME CtlInv, Practices = {}, NEW t \in Thread, NEW v \in Vnode, NEW n \in Name,
           NEW w \in Vnode, NEW m \in Name, RenameCall(t, v, n, w, m)
    PROVE  CtlInv'
<1> USE TreeAssumption
<1>1. /\ Allowed(vn, op, t, v) /\ vn[v].used /\ vn[v].isdir
      /\ Allowed(vn, op, t, w) /\ vn[w].used /\ vn[w].isdir /\ op[t] = Idle
    BY MayCallAllowed DEF RenameCall
<1>2. PICK o : o = [Idle EXCEPT !.v = v, !.w = w, !.n = n, !.m = m]
    OBVIOUS
<1>3. o \in Op /\ o.v = v /\ o.w = w /\ o.last = FALSE
    BY <1>2, FreeSlotEntry DEF Op, Idle, PC
<1>4. /\ lock[v] = NoThread /\ UNCHANGED <<use, dir, dotdot, vn, faults>>
      /\ \/ SameDir(o) /\ RenameFind(t, o, {v})
         \/ lock' = [lock EXCEPT ![v] = t] /\ Go(t, [o EXCEPT !.pc = "lock_target"])
    BY <1>2 DEF RenameCall
<1>5. CASE SameDir(o) /\ RenameFind(t, o, {v})
    BY <1>1, <1>3, <1>4, <1>5, RenameFindCtl DEF SameDir
<1>6. CASE lock' = [lock EXCEPT ![v] = t] /\ Go(t, [o EXCEPT !.pc = "lock_target"])
  <2>1. PICK p : p = [o EXCEPT !.pc = "lock_target"]
      OBVIOUS
  <2>2. p \in Op /\ p.pc = "lock_target" /\ p.v = v /\ p.w = w /\ p.last = FALSE
      BY <1>3, <2>1 DEF Op, PC
  <2>3. op'[t] = p /\ op' \in [Thread -> Op] /\ \A u \in Thread \ {t} : op'[u] = op[u]
      BY <1>6, <2>1, <2>2, CtlTyped, GoOthers
  <2>4. /\ lock' \in [Vnode -> Thread \cup {NoThread}] /\ lock'[v] = t
        /\ \A x \in Vnode : x # v => lock'[x] = lock[x]
      BY <1>6, CtlTyped DEF TypeOK
  <2>5. TypeOK'
      BY <1>4, <2>3, <2>4, CtlTyped DEF TypeOK
  <2>6. VnodeInv(vn') /\ VnFrame(vn, op, vn', t) /\ Stays(vn, vn', v) /\ Stays(vn, vn', w)
      BY <1>4, CtlTyped, KeptSame, KeptFrame DEF Stays
  <2>7. Others(lock, op, lock', op', t)
      BY <1>4, <2>3, <2>4 DEF Others
  <2>8. OnlyAllowed(vn, op, vn', p, t)
      BY <1>1, <2>2, <2>6 DEF OnlyAllowed, UsesOf
  <2>9. Shape(vn', p) /\ Locks(vn', lock', t, p)
      BY <1>1, <1>4, <2>2, <2>4 DEF Shape, Locks, InDir, InRename, InSync
  <2> QED BY <2>2, <2>3, <2>5, <2>6, <2>7, <2>8, <2>9, CtlToCall
<1> QED BY <1>4, <1>5, <1>6

\* The vnodes of a rename
LEMMA RenameVnodes ==
    ASSUME CtlInv, NEW t \in Thread, NEW o, o = op[t], o.pc \in InRename
    PROVE  /\ o \in Op /\ ~o.last /\ lock[o.v] = t
           /\ o.v \in Vnode /\ vn[o.v].used /\ vn[o.v].isdir /\ Allowed(vn, op, t, o.v)
           /\ o.w \in Vnode /\ vn[o.w].used /\ vn[o.w].isdir /\ Allowed(vn, op, t, o.w)
           /\ vn[o.v].first \in Cluster /\ vn[o.w].first \in Cluster
<1> USE TreeAssumption
<1>1. Shape(vn, o) /\ Locks(vn, lock, t, o) /\ o \in Op
    BY DEF CtlInv, Ctl, TypeOK
<1>2. /\ ~o.last /\ lock[o.v] = t /\ o.v \in Vnode /\ vn[o.v].used /\ vn[o.v].isdir
      /\ o.w \in Vnode /\ vn[o.w].used /\ vn[o.w].isdir
    BY <1>1 DEF Shape, Locks, InDir, InRename
<1>3. o.v \in UsesOf(vn, op[t]) /\ o.w \in UsesOf(vn, op[t])
    BY <1>2 DEF UsesOf
<1>4. Allowed(vn, op, t, o.v) /\ Allowed(vn, op, t, o.w)
    BY <1>3, UsesAllowed DEF CtlInv
<1> QED BY <1>1, <1>2, <1>4, DirCluster

\* fat32_rename locks the target directory.
LEMMA RenameLockTargetCtl ==
    ASSUME CtlInv, NEW t \in Thread, RenameLockTarget(t)
    PROVE  CtlInv'
<1>1. PICK o : o = op[t]
    OBVIOUS
<1>2. /\ o.pc \in InRename /\ lock[o.w] = NoThread /\ RenameFind(t, o, {o.v, o.w})
      /\ UNCHANGED <<use, dir, dotdot, vn, faults>>
    BY <1>1 DEF RenameLockTarget, InRename
<1>3. /\ o \in Op /\ ~o.last /\ lock[o.v] = t
      /\ o.v \in Vnode /\ vn[o.v].used /\ vn[o.v].isdir /\ Allowed(vn, op, t, o.v)
      /\ o.w \in Vnode /\ vn[o.w].used /\ vn[o.w].isdir /\ Allowed(vn, op, t, o.w)
    BY <1>1, <1>2, RenameVnodes
<1> QED BY <1>2, <1>3, RenameFindCtl
\* fat32_rename deletes what has the new name.
LEMMA RenameReplaceCtl ==
    ASSUME CtlInv, NEW t \in Thread, RenameReplace(t)
    PROVE  CtlInv'
<1> USE TreeAssumption
<1>1. PICK o : o = op[t]
    OBVIOUS
<1>2. o.pc = "replace" /\ o.pc \in InRename /\ dotdot' = dotdot
    BY <1>1 DEF RenameReplace, InRename
<1>3. /\ o \in Op /\ ~o.last /\ lock[o.v] = t
      /\ o.v \in Vnode /\ vn[o.v].used /\ vn[o.v].isdir /\ Allowed(vn, op, t, o.v)
      /\ o.w \in Vnode /\ vn[o.w].used /\ vn[o.w].isdir /\ Allowed(vn, op, t, o.w)
    BY <1>1, <1>2, RenameVnodes
<1>4. PICK d : d = vn[o.w].first
    OBVIOUS
<1>5. PICK x \in Find(d, o.m) :
          \/ Return(t) /\ UNCHANGED <<use, dir, vn, faults>>
          \/ /\ DeleteAndFree(d, x, dir[d][x].first) /\ vn' = Touched(vn, o.w)
             /\ Go(t, [o EXCEPT !.pc = "move"]) /\ UNCHANGED lock
    BY <1>1, <1>4 DEF RenameReplace
<1>6. CASE Return(t) /\ UNCHANGED <<use, dir, vn, faults>>
  <2>1. /\ op'[t] = Idle /\ Others(lock, op, lock', op', t)
        /\ lock' \in [Vnode -> Thread \cup {NoThread}] /\ op' \in [Thread -> Op]
      BY <1>6, CtlTyped, ReturnOthers
  <2>2. TypeOK'
      BY <1>2, <1>6, <2>1, CtlTyped DEF TypeOK
  <2>3. VnodeInv(vn') /\ VnFrame(vn, op, vn', t)
      BY <1>6, CtlTyped, KeptSame, KeptFrame
  <2> QED BY <2>1, <2>2, <2>3, CtlToIdle
<1>7. CASE /\ DeleteAndFree(d, x, dir[d][x].first) /\ vn' = Touched(vn, o.w)
           /\ Go(t, [o EXCEPT !.pc = "move"]) /\ UNCHANGED lock
  <2>1. Kept(vn, vn') /\ VnodeType(vn')
      BY <1>3, <1>7, CtlTyped, KeptTouched DEF Kept
  <2>2. VnodeInv(vn') /\ VnFrame(vn, op, vn', t) /\ Stays(vn, vn', o.v) /\ Stays(vn, vn', o.w)
      BY <1>3, <2>1, CtlTyped, KeptTree, KeptFrame DEF Kept
  <2>3. dir[d][x].first \in Cluster \cup {NoCluster}
      BY <1>3, <1>4, DirCluster DEF Find, Entry
  <2>4. UseType(use') /\ DirType(dir') /\ faults' \in [met : 0 .. MaxFaults, harm : BOOLEAN]
      BY <1>7, <2>3, CtlTyped, DeleteTypes
  <2>5. PICK p : p = [o EXCEPT !.pc = "move"]
      OBVIOUS
  <2>6. p \in Op /\ p.pc = "move" /\ p.v = o.v /\ p.w = o.w /\ p.last = o.last
      BY <1>3, <2>5 DEF Op, PC
  <2>7. op'[t] = p /\ op' \in [Thread -> Op] /\ \A u \in Thread \ {t} : op'[u] = op[u]
      BY <1>7, <2>5, <2>6, CtlTyped, GoOthers
  <2>8. TypeOK'
      BY <1>2, <1>7, <2>1, <2>4, <2>7, CtlTyped DEF TypeOK, UseType, DirType, VnodeType
  <2>9. Others(lock, op, lock', op', t)
      BY <1>7, <2>7 DEF Others
  <2>10. OnlyAllowed(vn, op, vn', p, t)
      BY <1>3, <2>2, <2>6 DEF OnlyAllowed, UsesOf
  <2>11. Shape(vn', p)
      BY <1>3, <2>2, <2>6 DEF Shape, InDir, InRename, InSync, Stays
  <2>12. vn[o.v].first = vn[o.w].first \/ lock[o.w] = t
      BY <1>1, <1>2 DEF CtlInv, Ctl, Locks
  <2>13. Locks(vn', lock', t, p)
      BY <1>3, <1>7, <2>2, <2>6, <2>12 DEF Locks, Stays
  <2>14. ~p.last
      BY <1>3, <2>6
  <2> QED BY <2>2, <2>7, <2>8, <2>9, <2>10, <2>11, <2>13, <2>14, CtlToCall
<1> QED BY <1>5, <1>6, <1>7

\* fat32_rename within one directory.
LEMMA RenameInPlaceCtl ==
    ASSUME CtlInv, NEW t \in Thread, RenameInPlace(t)
    PROVE  CtlInv'
<1>1. PICK o : o = op[t]
    OBVIOUS
<1>2. /\ o.pc \in InRename /\ dir' = [dir EXCEPT ![vn[o.v].first][o.s] = Renamed(o.e, o.m)]
      /\ vn' = Touched(vn, o.v) /\ Return(t) /\ UNCHANGED <<use, dotdot, faults>>
    BY <1>1 DEF RenameInPlace, InRename
<1>3. o \in Op /\ o.v \in Vnode /\ vn[o.v].used
    BY <1>1, <1>2, RenameVnodes
<1>4. PICK e \in Entry : e = Renamed(o.e, o.m)
    BY <1>3, RenamedEntry DEF Op
<1>5. DirType(dir')
    BY <1>2, <1>4, CtlTyped DEF DirType
<1>6. Kept(vn, vn') /\ VnodeType(vn')
    BY <1>2, <1>3, CtlTyped, KeptTouched DEF Kept
<1>7. VnodeInv(vn') /\ VnFrame(vn, op, vn', t)
    BY <1>6, CtlTyped, KeptTree, KeptFrame
<1>8. /\ op'[t] = Idle /\ Others(lock, op, lock', op', t)
      /\ lock' \in [Vnode -> Thread \cup {NoThread}] /\ op' \in [Thread -> Op]
    BY <1>2, CtlTyped, ReturnOthers
<1>9. TypeOK'
    BY <1>2, <1>5, <1>6, <1>8, CtlTyped DEF TypeOK, DirType, VnodeType
<1> QED BY <1>7, <1>8, <1>9, CtlToIdle

\* What fat32_rename does to the vnodes: the times of the directories
LEMMA MoveTouches ==
    ASSUME NEW fw, VnodeType(fw), NEW v \in Vnode, fw[v].used, NEW w \in Vnode, fw[w].used, NEW fx,
           fx = fw \/ fx = Touched(fw, v) \/ fx = Touched(Touched(fw, v), w)
    PROVE  Kept(fw, fx)
<1>1. CASE fx = fw
    BY <1>1, KeptSame
<1>2. CASE fx = Touched(fw, v)
    BY <1>2, KeptTouched
<1>3. CASE fx = Touched(Touched(fw, v), w)
  <2>1. PICK f1 : f1 = Touched(fw, v)
      OBVIOUS
  <2>2. Kept(fw, f1)
      BY <2>1, KeptTouched
  <2>3. VnodeType(f1) /\ f1[w].used
      BY <2>2 DEF Kept, Stays
  <2>4. Kept(f1, fx)
      BY <1>3, <2>1, <2>3, KeptTouched
  <2> QED BY <2>2, <2>4, KeptTwice
<1> QED BY <1>1, <1>2, <1>3

\* fat32_rename from one directory to another.
LEMMA RenameMoveCtl ==
    ASSUME CtlInv, NEW t \in Thread, RenameMove(t)
    PROVE  CtlInv'
<1> USE TreeAssumption
<1>1. PICK o : o = op[t]
    OBVIOUS
<1>2. o.pc \in InRename /\ Return(t) /\ use' = use
    BY <1>1 DEF RenameMove, InRename
<1>3. /\ o \in Op /\ o.v \in Vnode /\ vn[o.v].used /\ o.w \in Vnode /\ vn[o.w].used
      /\ vn[o.w].first \in Cluster
    BY <1>1, <1>2, RenameVnodes
<1>4. PICK e \in Entry : e = Renamed(o.e, o.m)
    BY <1>3, RenamedEntry DEF Op
<1>5. PICK c, d, gone : c = vn[o.v].first /\ d = vn[o.w].first /\ gone = [dir EXCEPT ![c][o.s] = FreeSlot]
    OBVIOUS
<1>6. DirType(gone)
    BY <1>5, FreeSlotEntry, CtlTyped DEF DirType
<1>7. dir' = dir \/ dir' = gone \/ \E s : dir' = [gone EXCEPT ![d][s] = e]
    BY <1>1, <1>4, <1>5 DEF RenameMove
<1>8. DirType(dir')
    BY <1>6, <1>7, CtlTyped DEF DirType
<1>9. Kept(vn, vn')
  <2>1. vn' = vn \/ vn' = Touched(vn, o.v) \/ vn' = Touched(Touched(vn, o.v), o.w)
      BY <1>1 DEF RenameMove
  <2> QED BY <1>3, <2>1, CtlTyped, MoveTouches
<1>10. VnodeInv(vn') /\ VnFrame(vn, op, vn', t) /\ VnodeType(vn')
    BY <1>9, CtlTyped, KeptTree, KeptFrame DEF Kept
<1>11. /\ op'[t] = Idle /\ Others(lock, op, lock', op', t)
       /\ lock' \in [Vnode -> Thread \cup {NoThread}] /\ op' \in [Thread -> Op]
    BY <1>2, CtlTyped, ReturnOthers
<1>12. faults' = faults \/ Mishap \/ Survived \/ Loss
    BY <1>1 DEF RenameMove, DotDotMoved
<1>13. faults' \in [met : 0 .. MaxFaults, harm : BOOLEAN]
    BY <1>12, CtlTyped, MishapType, SurvivedType, LossType DEF TypeOK
<1>14. dotdot' = dotdot \/ dotdot' = [dotdot EXCEPT ![o.e.first] = d]
    BY <1>1, <1>5 DEF RenameMove, DotDotMoved
<1>15. dotdot' \in [Cluster -> Cluster]
    BY <1>3, <1>5, <1>14, CtlTyped
<1>16. TypeOK'
    BY <1>2, <1>8, <1>10, <1>11, <1>13, <1>15, CtlTyped DEF TypeOK, DirType, VnodeType
<1> QED BY <1>10, <1>11, <1>16, CtlToIdle

\* A vnode with another first cluster and size, or with other flags
SetVnode(x, c, z, D) == [x EXCEPT !.first = c, !.size = z, !.dirty = D]

SetFlags(x, D) == [x EXCEPT !.dirty = D]

\* A vnode with a new cluster, size and flags is in its place.
LEMMA VnodeSet ==
    ASSUME NEW x \in FatVnode, NEW c \in Cluster \cup {NoCluster}, NEW z \in 0 .. 1, NEW D \in SUBSET Flag
    PROVE  LET y == SetVnode(x, c, z, D)
           IN /\ y \in FatVnode /\ y.used = x.used /\ y.isdir = x.isdir /\ y.parent = x.parent
              /\ y.s = x.s /\ y.first = c /\ y.size = z /\ y.dirty = D
    BY DEF FatVnode, SetVnode

\* A vnode with new flags is in its place.
LEMMA VnodeFlags ==
    ASSUME NEW x \in FatVnode, NEW D \in SUBSET Flag
    PROVE  LET y == SetFlags(x, D)
           IN /\ y \in FatVnode /\ y.used = x.used /\ y.isdir = x.isdir /\ y.parent = x.parent
              /\ y.s = x.s /\ y.first = x.first /\ y.size = x.size /\ y.dirty = D
    BY DEF FatVnode, SetFlags

\* fat32_write in the vnode, with the flags it sets
Written(x, c, z, new) == [x EXCEPT !.first = c, !.size = z, !.dirty = @ \cup {"time"} \cup new]

\* The flags of fat32_write
Fresh(x) == IF x.first = NoCluster THEN {"cluster"} ELSE {}

Grown(x) == IF x.size = 0 THEN {"size"} ELSE {}

\* What fat32_write makes of a vnode.
LEMMA WriteVnode ==
    ASSUME CtlInv, NEW v \in Vnode, vn[v].used, ~vn[v].isdir, NEW x, x = vn[v],
           NEW new \in SUBSET Flag, NEW c \in Cluster, NEW z \in 0 .. 1, NEW y,
           y = Written(x, c, z, new)
    PROVE  /\ y \in FatVnode /\ y.used = x.used /\ y.isdir = x.isdir /\ y.parent = x.parent /\ y.s = x.s
           /\ y.first = c /\ y.size = z /\ y.dirty = x.dirty \cup {"time"} \cup new
           /\ Kept(vn, [vn EXCEPT ![v] = y])
<1> USE TreeAssumption
<1>1. VnodeType(vn) /\ VnodeInv(vn) /\ v # RootVnode /\ x \in FatVnode
    BY CtlTyped, RootUsed DEF VnodeType
<1>2. PICK D \in SUBSET Flag : D = x.dirty \cup {"time"} \cup new
    BY <1>1 DEF FatVnode, Flag
<1>3. /\ y \in FatVnode /\ y.used = x.used /\ y.isdir = x.isdir /\ y.parent = x.parent /\ y.s = x.s
      /\ y.first = c /\ y.size = z /\ y.dirty = D
  <2>1. y = SetVnode(x, c, z, D)
      BY <1>2 DEF SetVnode, Written
  <2> QED BY <1>1, <2>1, VnodeSet
<1>4. Kept(vn, [vn EXCEPT ![v] = y])
    BY <1>1, <1>3, KeptSet
<1> QED BY <1>2, <1>3, <1>4

\* What fat32_write does: the times, a cluster, a size.
LEMMA WriteCases ==
    ASSUME NEW t, NEW v, Write(t, v), NEW x, x = vn[v]
    PROVE  /\ \/ \E c \in IF x.first = NoCluster THEN Unallocated ELSE {x.first} :
                   \/ /\ vn' = [vn EXCEPT ![v] = Written(x, c, 1, Fresh(x) \cup Grown(x))]
                      /\ use' = [use EXCEPT ![c] = "data"] /\ faults' = faults
                   \/ /\ use' = [use EXCEPT ![c] = IF x.first = NoCluster THEN "file" ELSE @]
                      /\ \/ /\ vn' = [vn EXCEPT ![v] = Written(x, c, x.size, Fresh(x))]
                            /\ faults' = faults
                         \/ vn' = Touched(vn, v) /\ Mishap
              \/ vn' = Touched(vn, v) /\ use' = use /\ faults' = faults
           /\ dir' = dir /\ dotdot' = dotdot /\ lock' = lock /\ op' = op
    BY DEF Write, Written, Fresh, Grown, Survived

\* fat32_write.
LEMMA WriteCtl ==
    ASSUME CtlInv, Practices = {}, NEW t \in Thread, NEW v \in Vnode, Write(t, v)
    PROVE  CtlInv'
<1> USE TreeAssumption
<1>1. Allowed(vn, op, t, v) /\ op[t] = Idle /\ vn[v].used /\ ~vn[v].isdir
    BY MayCallAllowed DEF Write
<1>2. PICK x : x = vn[v]
    OBVIOUS
<1>3. UNCHANGED <<dir, dotdot, lock, op>>
    BY DEF Write
<1>4. Others(lock, op, lock', op', t) /\ op'[t] = Idle
    BY <1>1, <1>3 DEF Others
<1>5. x \in FatVnode /\ x.size \in 0 .. 1 /\ 1 \in 0 .. 1
      /\ Fresh(x) \in SUBSET Flag /\ Fresh(x) \cup Grown(x) \in SUBSET Flag
    BY <1>2, CtlTyped DEF Flag, VnodeType, FatVnode, Fresh, Grown
<1>6. Kept(vn, vn') /\ UseType(use') /\ faults' \in [met : 0 .. MaxFaults, harm : BOOLEAN]
  <2>1. ASSUME vn' = Touched(vn, v) PROVE Kept(vn, vn')
      BY <1>1, <2>1, CtlTyped, KeptTouched
  <2>2. ASSUME NEW c \in Cluster, NEW z \in 0 .. 1, NEW new \in SUBSET Flag,
               vn' = [vn EXCEPT ![v] = Written(x, c, z, new)]
        PROVE  Kept(vn, vn')
    <3>1. PICK y : y = Written(x, c, z, new)
        OBVIOUS
    <3>2. Kept(vn, [vn EXCEPT ![v] = y])
        BY <1>1, <1>2, <3>1, WriteVnode
    <3> QED BY <2>2, <3>1, <3>2
  <2>3. faults \in [met : 0 .. MaxFaults, harm : BOOLEAN] /\ TypeOK
      BY CtlTyped DEF TypeOK
  <2>4. ASSUME NEW c \in IF x.first = NoCluster THEN Unallocated ELSE {x.first} PROVE c \in Cluster
      BY <1>5, <2>4 DEF Unallocated, FatVnode
  <2>5. Kept(vn, vn')
    <3>1. CASE vn' = Touched(vn, v)
        BY <2>1, <3>1
    <3>2. CASE vn' # Touched(vn, v)
      <4>1. PICK c \in IF x.first = NoCluster THEN Unallocated ELSE {x.first} :
                \/ vn' = [vn EXCEPT ![v] = Written(x, c, 1, Fresh(x) \cup Grown(x))]
                \/ vn' = [vn EXCEPT ![v] = Written(x, c, x.size, Fresh(x))]
          BY <1>2, <3>2, WriteCases
      <4>2. c \in Cluster
          BY <2>4, <4>1
      <4> QED BY <1>5, <2>2, <4>1, <4>2
    <3> QED BY <3>1, <3>2
  <2>6. faults' \in [met : 0 .. MaxFaults, harm : BOOLEAN]
      BY <1>2, <2>3, WriteCases, MishapType
  <2>7. UseType(use')
    <3>1. UseType(use)
        BY <2>3 DEF TypeOK, UseType
    <3>2. CASE use' = use
        BY <3>1, <3>2
    <3>3. CASE use' # use
      <4>1. PICK c \in IF x.first = NoCluster THEN Unallocated ELSE {x.first} :
                \/ use' = [use EXCEPT ![c] = "data"]
                \/ use' = [use EXCEPT ![c] = IF x.first = NoCluster THEN "file" ELSE @]
          BY <1>2, <3>3, WriteCases
      <4>2. c \in Cluster
          BY <2>4, <4>1
      <4> QED BY <3>1, <4>1, <4>2 DEF UseType
    <3> QED BY <3>2, <3>3
  <2> QED BY <2>5, <2>6, <2>7
<1>7. VnodeInv(vn') /\ VnFrame(vn, op, vn', t) /\ VnodeType(vn')
    BY <1>6, CtlTyped, KeptTree, KeptFrame DEF Kept
<1>8. TypeOK'
    BY <1>3, <1>6, <1>7, CtlTyped DEF TypeOK, UseType, VnodeType
<1> QED BY <1>4, <1>7, <1>8, CtlToIdle

\* fat32_setattr in the vnode
Attributed(x, truncate) == IF truncate THEN Truncated(x) ELSE [x EXCEPT !.dirty = @ \cup {"time"}]

\* What fat32_setattr makes of a vnode.
LEMMA SetattrVnode ==
    ASSUME CtlInv, NEW v \in Vnode, v # RootVnode, vn[v].used, NEW x, x = vn[v],
           NEW truncate \in BOOLEAN, truncate => ~x.isdir, NEW y,
           y = Attributed(x, truncate)
    PROVE  /\ y \in FatVnode /\ y.used = x.used /\ y.isdir = x.isdir /\ y.parent = x.parent /\ y.s = x.s
           /\ truncate => /\ y.first = NoCluster /\ y.size = 0
                          /\ y.dirty = x.dirty \cup {"size", "cluster"}
           /\ ~truncate => y.first = x.first
           /\ Kept(vn, [vn EXCEPT ![v] = y])
<1> USE TreeAssumption
<1>1. VnodeType(vn) /\ x \in FatVnode
    BY CtlTyped DEF VnodeType
<1>2. CASE truncate
  <2>1. PICK D \in SUBSET Flag : D = x.dirty \cup {"size", "cluster"}
      BY <1>1 DEF FatVnode, Flag
  <2>2. y = SetVnode(x, NoCluster, 0, D)
      BY <1>2, <2>1 DEF Attributed, Truncated, SetVnode
  <2>3. /\ y \in FatVnode /\ y.used = x.used /\ y.isdir = x.isdir /\ y.parent = x.parent /\ y.s = x.s
        /\ y.first = NoCluster /\ y.size = 0 /\ y.dirty = D
      BY <1>1, <2>2, VnodeSet
  <2>4. Kept(vn, [vn EXCEPT ![v] = y])
      BY <1>1, <1>2, <2>3, KeptSet
  <2> QED BY <1>2, <2>1, <2>3, <2>4
<1>3. CASE ~truncate
  <2>1. PICK D \in SUBSET Flag : D = x.dirty \cup {"time"}
      BY <1>1 DEF FatVnode, Flag
  <2>2. y = SetFlags(x, D)
      BY <1>3, <2>1 DEF Attributed, SetFlags
  <2>3. /\ y \in FatVnode /\ y.used = x.used /\ y.isdir = x.isdir /\ y.parent = x.parent /\ y.s = x.s
        /\ y.first = x.first
      BY <1>1, <2>2, VnodeFlags
  <2>4. Kept(vn, [vn EXCEPT ![v] = y])
      BY <1>1, <2>3, KeptSet
  <2> QED BY <1>3, <2>3, <2>4
<1> QED BY <1>2, <1>3

\* The parent of a vnode
LEMMA ParentVnode ==
    ASSUME CtlInv, NEW v \in Vnode, v # RootVnode, vn[v].used
    PROVE  vn[v].parent \in Vnode /\ vn[vn[v].parent].used /\ vn[vn[v].parent].isdir
    BY CtlTyped DEF VnodeInv, Hangs

\* A call that will write back the metadata of v
LEMMA SyncBegins ==
    ASSUME CtlInv, Practices = {}, NEW t \in Thread, NEW v \in Vnode, v # RootVnode,
           MayCall(t, v), MayCall(t, vn[v].parent), NEW last \in BOOLEAN, Kept(vn, vn'),
           last => /\ \A w \in Vnode : vn[w].parent # v
                   /\ \A u \in Thread : v \notin Uses(op[u]),
           NEW o \in Op, o.pc = "sync_parent", o.v = v, o.w = NoVnode, o.last = last, Go(t, o),
           UseType(use'), UNCHANGED <<dir, dotdot, lock, faults>>
    PROVE  CtlInv'
<1> USE TreeAssumption
<1>1. /\ Allowed(vn, op, t, v) /\ vn[v].used
      /\ Allowed(vn, op, t, vn[v].parent) /\ op[t] = Idle
    BY MayCallAllowed
<1>2. vn[v].parent \in Vnode
    BY <1>1, ParentVnode
<1>5. op'[t] = o /\ op' \in [Thread -> Op] /\ \A u \in Thread \ {t} : op'[u] = op[u]
    BY CtlTyped, GoOthers
<1>6. VnodeInv(vn') /\ VnFrame(vn, op, vn', t) /\ VnodeType(vn')
    BY CtlTyped, KeptTree, KeptFrame DEF Kept
<1>7. TypeOK'
    BY <1>5, <1>6, CtlTyped DEF TypeOK, UseType, VnodeType
<1>8. Others(lock, op, lock', op', t)
    BY <1>5 DEF Others
<1>9. Stays(vn, vn', v) /\ Stays(vn, vn', vn[v].parent)
    BY <1>2 DEF Kept
<1>10. UsesOf(vn', o) = {v, vn[v].parent}
    BY <1>2, <1>9 DEF UsesOf, Stays
<1>11. OnlyAllowed(vn, op, vn', o, t)
    BY <1>1, <1>9, <1>10 DEF OnlyAllowed
<1>12. Shape(vn', o) /\ Locks(vn', lock', t, o)
    BY <1>1, <1>9 DEF Shape, Locks, InDir, InRename, InSync, Stays
<1>13. o.last => /\ \A x \in Vnode : vn'[x].parent # o.v
                 /\ \A u \in Thread \ {t} : o.v \notin UsesOf(vn, op[u])
  <2>1. ASSUME NEW u \in Thread PROVE UsesOf(vn, op[u]) = Uses(op[u])
      BY DEF UsesOf, Uses
  <2>2. \A x \in Vnode : vn'[x].parent = vn[x].parent
      BY DEF Kept, Stays
  <2> QED BY <2>1, <2>2
<1> QED BY <1>5, <1>6, <1>7, <1>8, <1>11, <1>12, <1>13, CtlToSync

\* fat32_setattr.
LEMMA SetattrCtl ==
    ASSUME CtlInv, Practices = {}, NEW t \in Thread, NEW v \in Vnode, NEW truncate \in BOOLEAN,
           Setattr(t, v, truncate)
    PROVE  CtlInv'
<1>1. PICK x, y : x = vn[v] /\ y = Attributed(x, truncate)
    OBVIOUS
<1>2. /\ v # RootVnode /\ MayCall(t, v) /\ MayCall(t, vn[v].parent) /\ vn[v].used
      /\ truncate => ~x.isdir
      /\ use' = IF truncate /\ x.first # NoCluster THEN [use EXCEPT ![x.first] = "free"] ELSE use
      /\ \/ /\ vn' = [vn EXCEPT ![v] = y]
            /\ Go(t, [Idle EXCEPT !.pc = "sync_parent", !.v = v])
            /\ faults' = faults
         \/ Mishap /\ vn' = vn /\ op' = op
      /\ dir' = dir /\ dotdot' = dotdot /\ lock' = lock
    BY <1>1 DEF Setattr, MayCall, Attributed
<1>4. UseType(use')
    BY <1>2, CtlTyped DEF UseType
<1>3. CASE /\ vn' = [vn EXCEPT ![v] = y]
           /\ Go(t, [Idle EXCEPT !.pc = "sync_parent", !.v = v])
           /\ faults' = faults
  <2>1. Kept(vn, vn')
      BY <1>1, <1>2, <1>3, SetattrVnode
  <2>2. PICK o : o = [Idle EXCEPT !.pc = "sync_parent", !.v = v]
      OBVIOUS
  <2>3. o \in Op /\ o.pc = "sync_parent" /\ o.v = v /\ o.w = NoVnode /\ o.last = FALSE /\ FALSE \in BOOLEAN
      BY <2>2, FreeSlotEntry, TreeAssumption DEF Op, Idle, PC
  <2> QED BY <1>2, <1>3, <1>4, <2>1, <2>2, <2>3, SyncBegins
<1>5. CASE Mishap /\ vn' = vn /\ op' = op
    BY <1>2, <1>4, <1>5, CtlTyped, SameCtl
<1> QED BY <1>2, <1>3, <1>5

\* fat32_fsync and fat32_inactive begin to write a vnode back.
LEMMA SyncCtl ==
    ASSUME CtlInv, Practices = {}, NEW t \in Thread, NEW v \in Vnode, NEW last \in BOOLEAN,
           Sync(t, v, last)
    PROVE  CtlInv'
<1>1. Kept(vn, vn') /\ UseType(use')
    BY CtlTyped, KeptSame DEF Sync, UseType
<1>2. PICK o : o = [Idle EXCEPT !.pc = "sync_parent", !.v = v, !.last = last]
    OBVIOUS
<1>3. o \in Op /\ o.pc = "sync_parent" /\ o.v = v /\ o.w = NoVnode /\ o.last = last
    BY <1>2, FreeSlotEntry, TreeAssumption DEF Op, Idle, PC
<1> QED BY <1>1, <1>2, <1>3, SyncBegins DEF Sync

\* fat32_inactive of a vnode that is clean.
LEMMA InactiveCtl ==
    ASSUME CtlInv, Practices = {}, NEW t \in Thread, NEW v \in Vnode, Inactive(t, v)
    PROVE  CtlInv'
<1>1. Goes(vn, vn', v)
    BY CtlTyped, GoneGoes DEF Inactive
<1>2. \A u \in Thread \ {t} : v \notin UsesOf(vn, op[u])
    BY DEF Inactive, Uses, UsesOf
<1>3. VnodeInv(vn') /\ VnodeType(vn') /\ VnFrame(vn, op, vn', t)
    BY <1>1, <1>2, GoesFrame DEF Goes
<1>4. UNCHANGED <<use, dir, dotdot, lock, op, faults>> /\ op[t] = Idle
    BY MayCallAllowed DEF Inactive
<1>5. TypeOK'
    BY <1>3, <1>4, CtlTyped DEF TypeOK, VnodeType
<1>6. Others(lock, op, lock', op', t) /\ op'[t] = Idle
    BY <1>4 DEF Others
<1> QED BY <1>3, <1>5, <1>6, CtlToIdle

\* The vnodes of a call that writes back metadata
LEMMA SyncVnodes ==
    ASSUME CtlInv, NEW t \in Thread, NEW o, o = op[t], o.pc \in InSync
    PROVE  /\ o \in Op /\ o.v \in Vnode /\ o.v # RootVnode /\ vn[o.v].used /\ o.w = NoVnode
           /\ Allowed(vn, op, t, o.v) /\ Allowed(vn, op, t, vn[o.v].parent)
           /\ vn[o.v].parent \in Vnode /\ vn[vn[o.v].parent].used /\ vn[vn[o.v].parent].isdir
           /\ vn[vn[o.v].parent].first \in Cluster /\ UsesOf(vn, o) = {o.v, vn[o.v].parent}
           /\ o.last => /\ \A x \in Vnode : vn[x].parent # o.v
                        /\ \A u \in Thread \ {t} : o.v \notin UsesOf(vn, op[u])
<1> USE TreeAssumption
<1>1. Shape(vn, o) /\ o \in Op
    BY DEF CtlInv, Ctl, TypeOK
<1>2. o.v \in Vnode /\ o.v # RootVnode /\ vn[o.v].used /\ o.w = NoVnode
    BY <1>1 DEF Shape, InSync, InRename
<1>3. /\ vn[o.v].parent \in Vnode /\ vn[vn[o.v].parent].used /\ vn[vn[o.v].parent].isdir
      /\ vn[vn[o.v].parent].first \in Cluster
    BY <1>2, ParentVnode, DirCluster
<1>4. UsesOf(vn, op[t]) = {o.v, vn[o.v].parent}
    BY <1>2, <1>3 DEF UsesOf, InSync
<1>5. Allowed(vn, op, t, o.v) /\ Allowed(vn, op, t, vn[o.v].parent)
    BY <1>4, UsesAllowed DEF CtlInv
<1>6. o.last => /\ \A x \in Vnode : vn[x].parent # o.v
                /\ \A u \in Thread \ {t} : o.v \notin UsesOf(vn, op[u])
    BY DEF CtlInv, Ctl, LastAlone
<1> QED BY <1>1, <1>2, <1>3, <1>4, <1>5, <1>6

\* fat32_sync_metadata locks the parent.
LEMMA SyncLockParentCtl ==
    ASSUME CtlInv, NEW t \in Thread, SyncLockParent(t)
    PROVE  CtlInv'
<1> USE TreeAssumption
<1>1. PICK o, p : o = op[t] /\ p = vn[o.v].parent
    OBVIOUS
<1>2. /\ o.pc \in InSync /\ lock[p] = NoThread /\ lock' = [lock EXCEPT ![p] = t]
      /\ Go(t, [o EXCEPT !.pc = "sync_self"]) /\ UNCHANGED <<use, dir, dotdot, vn, faults>>
    BY <1>1 DEF SyncLockParent, InSync
<1>3. /\ o \in Op /\ o.v \in Vnode /\ o.v # RootVnode /\ vn[o.v].used /\ o.w = NoVnode
      /\ Allowed(vn, op, t, o.v) /\ Allowed(vn, op, t, p) /\ p \in Vnode
      /\ o.last => /\ \A x \in Vnode : vn[x].parent # o.v
                   /\ \A u \in Thread \ {t} : o.v \notin UsesOf(vn, op[u])
    BY <1>1, <1>2, SyncVnodes
<1>4. PICK q : q = [o EXCEPT !.pc = "sync_self"]
    OBVIOUS
<1>5. q \in Op /\ q.pc = "sync_self" /\ q.v = o.v /\ q.w = NoVnode /\ q.last = o.last
    BY <1>3, <1>4 DEF Op, PC
<1>6. op'[t] = q /\ op' \in [Thread -> Op] /\ \A u \in Thread \ {t} : op'[u] = op[u]
    BY <1>2, <1>4, <1>5, CtlTyped, GoOthers
<1>7. /\ lock' \in [Vnode -> Thread \cup {NoThread}] /\ lock'[p] = t
      /\ \A x \in Vnode : x # p => lock'[x] = lock[x]
    BY <1>2, <1>3, CtlTyped DEF TypeOK
<1>8. TypeOK'
    BY <1>2, <1>6, <1>7, CtlTyped DEF TypeOK
<1>9. VnodeInv(vn') /\ VnFrame(vn, op, vn', t) /\ \A x \in Vnode : Stays(vn, vn', x)
    BY <1>2, CtlTyped, KeptSame, KeptFrame DEF Stays
<1>10. Others(lock, op, lock', op', t)
    BY <1>2, <1>6, <1>7 DEF Others
<1>11. OnlyAllowed(vn, op, vn', q, t)
    BY <1>1, <1>2, <1>3, <1>5, <1>9 DEF OnlyAllowed, UsesOf
<1>12. Shape(vn', q) /\ Locks(vn', lock', t, q)
    BY <1>1, <1>2, <1>3, <1>5, <1>7 DEF Shape, Locks, InDir, InRename, InSync
<1>13. q.last => /\ \A x \in Vnode : vn'[x].parent # q.v
                 /\ \A u \in Thread \ {t} : q.v \notin UsesOf(vn, op[u])
    BY <1>2, <1>3, <1>5
<1> QED BY <1>6, <1>8, <1>9, <1>10, <1>11, <1>12, <1>13, CtlToSync

\* fat32_sync_metadata writes the entry.
LEMMA SyncSelfCtl ==
    ASSUME CtlInv, NEW t \in Thread, SyncSelf(t)
    PROVE  CtlInv'
<1> USE TreeAssumption
<1>1. PICK o, x : o = op[t] /\ x = vn[o.v]
    OBVIOUS
<1>2. /\ o.pc \in InSync /\ Return(t) /\ UNCHANGED <<use, dotdot>>
      /\ \/ /\ dir' = [dir EXCEPT ![vn[x.parent].first][x.s] = WriteBack(@, x)]
            /\ vn' = [vn EXCEPT ![o.v] = IF o.last THEN NoFatVnode ELSE [x EXCEPT !.dirty = {}]]
            /\ UNCHANGED faults
         \/ /\ Mishap \/ Survived
            /\ vn' = IF o.last THEN [vn EXCEPT ![o.v] = NoFatVnode] ELSE vn
            /\ UNCHANGED dir
    BY <1>1 DEF SyncSelf, InSync
<1>3. /\ o \in Op /\ o.v \in Vnode /\ o.v # RootVnode /\ vn[o.v].used
      /\ vn[x.parent].first \in Cluster
      /\ o.last => /\ \A y \in Vnode : vn[y].parent # o.v
                   /\ \A u \in Thread \ {t} : o.v \notin UsesOf(vn, op[u])
    BY <1>1, <1>2, SyncVnodes
<1>4. x \in FatVnode
    BY <1>1, <1>3, CtlTyped DEF VnodeType
<1>5. VnodeInv(vn') /\ VnFrame(vn, op, vn', t) /\ VnodeType(vn')
  <2>1. CASE o.last
    <3>1. vn' = [vn EXCEPT ![o.v] = NoFatVnode]
        BY <1>2, <2>1
    <3>2. Goes(vn, vn', o.v)
        BY <1>3, <2>1, <3>1, CtlTyped, GoneGoes
    <3> QED BY <1>3, <2>1, <3>2, GoesFrame DEF Goes
  <2>2. CASE ~o.last
    <3>1. Kept(vn, vn')
      <4>1. CASE vn' = vn
          BY <4>1, CtlTyped, KeptSame
      <4>2. CASE vn' = [vn EXCEPT ![o.v] = [x EXCEPT !.dirty = {}]]
        <5>1. PICK y : y = SetFlags(x, {}) /\ y = [x EXCEPT !.dirty = {}]
            BY DEF SetFlags
        <5>2. /\ y \in FatVnode /\ y.used = x.used /\ y.isdir = x.isdir /\ y.parent = x.parent /\ y.s = x.s
              /\ y.first = x.first
            BY <1>4, <5>1, VnodeFlags
        <5> QED BY <1>1, <1>3, <4>2, <5>1, <5>2, CtlTyped, KeptSet
      <4> QED BY <1>2, <2>2, <4>1, <4>2
    <3> QED BY <3>1, CtlTyped, KeptTree, KeptFrame DEF Kept
  <2> QED BY <2>1, <2>2
<1>6. DirType(dir')
  <2>1. CASE dir' = [dir EXCEPT ![vn[x.parent].first][x.s] = WriteBack(@, x)]
    <3>1. PICK c \in Cluster : c = vn[x.parent].first
        BY <1>3
    <3>2. \A s \in Slots[c] : WriteBack(dir[c][s], x) \in Entry
      <4> SUFFICES ASSUME NEW s \in Slots[c] PROVE WriteBack(dir[c][s], x) \in Entry
          OBVIOUS
      <4>1. dir[c][s] \in Entry
          BY CtlTyped DEF DirType
      <4>2. CASE dir[c][s] = FreeSlot
          BY <4>1, <4>2 DEF WriteBack
      <4>3. CASE dir[c][s] # FreeSlot
          BY <1>4, <4>1, <4>3, WriteBackIs
      <4> QED BY <4>2, <4>3
    <3>3. dir' = [dir EXCEPT ![c][x.s] = WriteBack(dir[c][x.s], x)]
        BY <2>1, <3>1
    <3>4. CASE x.s \in Slots[c]
        BY <3>2, <3>3, <3>4, CtlTyped DEF DirType
    <3>5. CASE x.s \notin Slots[c]
        BY <3>3, <3>5, CtlTyped DEF DirType
    <3> QED BY <3>4, <3>5
  <2>2. CASE dir' = dir
      BY <2>2, CtlTyped
  <2> QED BY <1>2, <2>1, <2>2
<1>7. faults' \in [met : 0 .. MaxFaults, harm : BOOLEAN]
    BY <1>2, CtlTyped, MishapType, SurvivedType DEF TypeOK
<1>8. /\ op'[t] = Idle /\ Others(lock, op, lock', op', t)
      /\ lock' \in [Vnode -> Thread \cup {NoThread}] /\ op' \in [Thread -> Op]
    BY <1>2, CtlTyped, ReturnOthers
<1>9. TypeOK'
    BY <1>2, <1>5, <1>6, <1>7, <1>8, CtlTyped DEF TypeOK, UseType, DirType, VnodeType
<1> QED BY <1>5, <1>8, <1>9, CtlToIdle
----------------------------------------------------------------------------
(* What calls have found *)

\* fat32_lookup is about to make a vnode of slot s of directory c.
Claims(fw, ops, u, c, s) == ops[u].pc = "make" /\ fw[ops[u].v].first = c /\ ops[u].s = s

Taken(fw, ops, c, s) ==
    (\E v \in Vnode : At(fw, v, c, s)) \/ \E u \in Thread : Claims(fw, ops, u, c, s)

\* Thread u has locked the directory in cluster c.
Has(fw, lk, ops, u, c) == \E y \in UsesOf(fw, ops[u]) : fw[y].isdir /\ fw[y].first = c /\ lk[y] = u

\* What a call has found is still there, and nobody else has it.
FoundOf(d, fw, ops, t, o) ==
    LET c == fw[o.v].first
        b == fw[o.w].first
    IN /\ o.pc \in {"make", "delete", "replace", "move"} =>
            o.s \in Slots[c] /\ d[c][o.s] = o.e /\ o.e # FreeSlot
       /\ o.pc = "make" /\ ~o.e.isdir =>
            /\ \A v \in Vnode : ~At(fw, v, c, o.s)
            /\ \A u \in Thread \ {t} : ~Claims(fw, ops, u, c, o.s)
       /\ o.pc \in {"delete", "replace", "move"} => ~Taken(fw, ops, c, o.s)
       /\ o.pc = "delete" /\ o.e.isdir => d[o.e.first] = EmptyDir(o.e.first)
       /\ o.pc \in InRename => ~(c = b /\ o.n = o.m) /\ o.n \in Name /\ o.m \in Name
       /\ o.pc \in {"replace", "move"} => o.e.name = o.n /\ o.e.size = 0
       /\ o.pc = "replace" => \A x \in Slots[b] : d[b][x].name = o.m => ~Taken(fw, ops, b, x)

FoundInv == \A t \in Thread : FoundOf(dir, vn, op, t, op[t])

\* A step of t leaves alone what the others have found.
FoundFrame(d, fw, lk, ops, d1, fx, ox, t) ==
    /\ \A u \in Thread \ {t} : ox[u] = ops[u] /\ \A x \in UsesOf(fw, ops[u]) : Stays(fw, fx, x)
    /\ \A u \in Thread \ {t} : \A c \in Cluster : Has(fw, lk, ops, u, c) =>
         d1[c] = d[c] /\ \A s \in Slots[c] : Taken(fx, ox, c, s) => Taken(fw, ops, c, s)
    /\ \A u \in Thread \ {t} : \A c \in Cluster : \A s \in Slots[c] :
         Claims(fw, ops, u, c, s) /\ d[c][s] # FreeSlot =>
             /\ d1[c][s] = d[c][s]
             /\ ~d[c][s].isdir => /\ \A v \in Vnode : At(fx, v, c, s) => At(fw, v, c, s)
                                  /\ ~Claims(fx, ox, t, c, s)
    /\ \A u \in Thread \ {t} : ops[u].pc = "delete" /\ ops[u].e.isdir =>
         d1[ops[u].e.first] = d[ops[u].e.first]

\* What one thread found stays found when another one takes a step.
LEMMA FoundStep ==
    ASSUME NEW d, NEW fw, NEW lk, NEW ops, Ctl(fw, lk, ops), NEW t \in Thread,
           NEW d1, NEW fx, NEW ox, FoundFrame(d, fw, lk, ops, d1, fx, ox, t),
           NEW r \in Thread \ {t}, FoundOf(d, fw, ops, r, ops[r])
    PROVE  FoundOf(d1, fx, ox, r, ox[r])
<1> USE TreeAssumption
<1>1. PICK o : o = ops[r]
    OBVIOUS
<1>2. PICK c, b : c = fw[o.v].first /\ b = fw[o.w].first
    OBVIOUS
<1>3. ox[r] = o /\ FoundOf(d, fw, ops, r, o) /\ Shape(fw, o) /\ Locks(fw, lk, r, o)
    BY <1>1 DEF FoundFrame, Ctl
<1>4. ASSUME o.pc \in InDir
      PROVE  c \in Cluster /\ fx[o.v].first = c /\ o.v \in UsesOf(fw, o) /\ fw[o.v].isdir
  <2>1. o.v \in Vnode /\ fw[o.v].used /\ fw[o.v].isdir
      BY <1>3, <1>4 DEF Shape, InDir
  <2>2. o.v \in UsesOf(fw, o)
      BY <2>1 DEF UsesOf
  <2>3. Stays(fw, fx, o.v)
      BY <1>1, <2>2 DEF FoundFrame
  <2> QED BY <1>2, <2>1, <2>2, <2>3 DEF Stays, Ctl, VnodeInv
<1>5. ASSUME o.pc \in InRename
      PROVE  b \in Cluster /\ fx[o.w].first = b /\ o.w \in UsesOf(fw, o) /\ fw[o.w].isdir
  <2>1. o.w \in Vnode /\ fw[o.w].used /\ fw[o.w].isdir
      BY <1>3, <1>5 DEF Shape, InRename
  <2>2. o.w \in UsesOf(fw, o)
      BY <2>1 DEF UsesOf
  <2>3. Stays(fw, fx, o.w)
      BY <1>1, <2>2 DEF FoundFrame
  <2> QED BY <1>2, <2>1, <2>2, <2>3 DEF Stays, Ctl, VnodeInv
<1>6. CASE o.pc = "make"
  <2>1. /\ c \in Cluster /\ fx[o.v].first = c /\ o.s \in Slots[c] /\ d[c][o.s] = o.e /\ o.e # FreeSlot
      BY <1>2, <1>3, <1>4, <1>6 DEF InDir, FoundOf
  <2>2. Claims(fw, ops, r, c, o.s)
      BY <1>1, <1>2, <1>6 DEF Claims
  <2>3. /\ d1[c][o.s] = d[c][o.s]
        /\ ~d[c][o.s].isdir => /\ \A v \in Vnode : At(fx, v, c, o.s) => At(fw, v, c, o.s)
                               /\ ~Claims(fx, ox, t, c, o.s)
      BY <2>1, <2>2 DEF FoundFrame
  <2>4. ASSUME ~o.e.isdir, NEW u \in Thread \ {r} PROVE ~Claims(fx, ox, u, c, o.s)
    <3>1. CASE u = t
        BY <2>1, <2>3, <2>4, <3>1
    <3>2. CASE u # t
      <4>1. ~Claims(fw, ops, u, c, o.s)
          BY <1>2, <1>3, <1>6, <2>4 DEF FoundOf
      <4>2. ASSUME ops[u].pc = "make" PROVE fx[ops[u].v].first = fw[ops[u].v].first
        <5>1. Shape(fw, ops[u])
            BY DEF Ctl
        <5>2. ops[u].v \in UsesOf(fw, ops[u]) /\ fw[ops[u].v].isdir
            BY <4>2, <5>1 DEF Shape, UsesOf, InDir
        <5> QED BY <3>2, <5>2 DEF FoundFrame, Stays
      <4> QED BY <3>2, <4>1, <4>2 DEF Claims, FoundFrame
    <3> QED BY <3>1, <3>2
  <2>5. ~o.e.isdir => \A v \in Vnode : ~At(fx, v, c, o.s)
      BY <1>2, <1>3, <1>6, <2>1, <2>3 DEF FoundOf
  <2> QED BY <1>3, <1>6, <2>1, <2>3, <2>4, <2>5 DEF FoundOf, InRename
<1>7. CASE o.pc \in {"delete", "lock_target", "replace", "move"}
  <2>1. c \in Cluster /\ fx[o.v].first = c /\ o.v \in UsesOf(fw, o) /\ fw[o.v].isdir /\ lk[o.v] = r
      BY <1>3, <1>4, <1>7 DEF InDir, Locks
  <2>2. Has(fw, lk, ops, r, c)
      BY <1>1, <1>2, <2>1 DEF Has
  <2>3. d1[c] = d[c] /\ \A s \in Slots[c] : Taken(fx, ox, c, s) => Taken(fw, ops, c, s)
      BY <2>1, <2>2, Zenon DEF FoundFrame
  <2>4. CASE o.pc = "delete"
    <3>1. /\ o.s \in Slots[c] /\ d[c][o.s] = o.e /\ o.e # FreeSlot /\ ~Taken(fw, ops, c, o.s)
          /\ o.e.isdir => d[o.e.first] = EmptyDir(o.e.first)
        BY <1>2, <1>3, <2>4 DEF FoundOf
    <3>2. o.e.isdir => d1[o.e.first] = d[o.e.first]
        BY <1>1, <2>4 DEF FoundFrame
    <3> QED BY <1>3, <2>1, <2>3, <2>4, <3>1, <3>2 DEF FoundOf, InRename
  <2>5. CASE o.pc = "lock_target"
    <3>1. fx[o.w].first = b
        BY <1>5, <2>5 DEF InRename
    <3> QED BY <1>2, <1>3, <2>1, <2>5, <3>1 DEF FoundOf, InRename
  <2>6. CASE o.pc \in {"replace", "move"}
    <3>1. fx[o.w].first = b /\ b \in Cluster /\ o.w \in UsesOf(fw, o) /\ fw[o.w].isdir
        BY <1>5, <2>6 DEF InRename
    <3>2. /\ o.s \in Slots[c] /\ d[c][o.s] = o.e /\ o.e # FreeSlot /\ ~Taken(fw, ops, c, o.s)
          /\ ~(c = b /\ o.n = o.m) /\ o.n \in Name /\ o.m \in Name /\ o.e.name = o.n /\ o.e.size = 0
        BY <1>2, <1>3, <2>6 DEF FoundOf, InRename
    <3>3. Has(fw, lk, ops, r, b)
      <4>1. c = b \/ lk[o.w] = r
          BY <1>2, <1>3, <2>6 DEF Locks
      <4>2. CASE c = b
          BY <2>2, <4>2
      <4>3. CASE lk[o.w] = r
          BY <1>1, <1>2, <3>1, <4>3 DEF Has
      <4> QED BY <4>1, <4>2, <4>3
    <3>4. d1[b] = d[b] /\ \A s \in Slots[b] : Taken(fx, ox, b, s) => Taken(fw, ops, b, s)
        BY <3>1, <3>3, Zenon DEF FoundFrame
    <3>5. o.pc = "replace" => \A x \in Slots[b] : d[b][x].name = o.m => ~Taken(fw, ops, b, x)
        BY <1>2, <1>3 DEF FoundOf
    <3>6. o.pc = "replace" => \A x \in Slots[b] : d1[b][x].name = o.m => ~Taken(fx, ox, b, x)
        BY <3>4, <3>5
    <3> QED BY <1>3, <2>1, <2>3, <2>6, <3>1, <3>2, <3>6 DEF FoundOf
  <2> QED BY <1>7, <2>4, <2>5, <2>6
<1>8. CASE o.pc \notin {"make", "delete", "lock_target", "replace", "move"}
    BY <1>3, <1>8 DEF FoundOf, InRename
<1> QED BY <1>6, <1>7, <1>8

\* What a thread has locked, no other has; nor is it locked by one that
\* waits for nobody.
LEMMA HasAlone ==
    ASSUME NEW fw, NEW lk, NEW ops, NEW t \in Thread, NEW x, Allowed(fw, ops, t, x), fw[x].isdir,
           NEW c, c = fw[x].first, lk[x] \in {t, NoThread}, NEW u \in Thread \ {t}
    PROVE  ~Has(fw, lk, ops, u, c)
<1> SUFFICES ASSUME NEW y \in UsesOf(fw, ops[u]), fw[y].isdir, fw[y].first = c, lk[y] = u PROVE FALSE
    BY DEF Has
<1>1. y = x
    BY DEF Allowed
<1> QED BY <1>1, TreeAssumption

\* The frame, when t works in the directories in C only
LEMMA FrameIn ==
    ASSUME NEW d, NEW fw, NEW lk, NEW ops, Ctl(fw, lk, ops), NEW t \in Thread,
           NEW d1, NEW fx, NEW ox, NEW C,
           \A u \in Thread \ {t} : ox[u] = ops[u] /\ \A x \in UsesOf(fw, ops[u]) : Stays(fw, fx, x),
           \A c \in C : \A u \in Thread \ {t} : ~Has(fw, lk, ops, u, c),
           \A c \in Cluster : c \notin C => d1[c] = d[c],
           \A c \in Cluster : \A s \in Slots[c] : \A v \in Vnode :
               At(fx, v, c, s) => c \in C \/ Taken(fw, ops, c, s),
           \A c \in Cluster : \A s \in Slots[c] :
               Claims(fx, ox, t, c, s) => c \in C \/ Taken(fw, ops, c, s),
           \A u \in Thread \ {t} : \A c \in Cluster : \A s \in Slots[c] :
               Claims(fw, ops, u, c, s) /\ d[c][s] # FreeSlot =>
                   /\ d1[c][s] = d[c][s]
                   /\ ~d[c][s].isdir => /\ \A v \in Vnode : At(fx, v, c, s) => At(fw, v, c, s)
                                        /\ ~Claims(fx, ox, t, c, s),
           \A u \in Thread \ {t} : ops[u].pc = "delete" /\ ops[u].e.isdir =>
               d1[ops[u].e.first] = d[ops[u].e.first]
    PROVE  FoundFrame(d, fw, lk, ops, d1, fx, ox, t)
<1>1. ASSUME NEW u \in Thread \ {t}, NEW c, NEW s, Claims(fx, ox, u, c, s)
      PROVE  Claims(fw, ops, u, c, s)
  <2>1. ox[u] = ops[u] /\ ops[u].pc = "make" /\ Shape(fw, ops[u])
      BY <1>1 DEF Claims, Ctl
  <2>2. ops[u].v \in UsesOf(fw, ops[u]) /\ fw[ops[u].v].isdir
      BY <2>1, TreeAssumption DEF Shape, UsesOf, InDir
  <2>3. Stays(fw, fx, ops[u].v)
      BY <2>2
  <2> QED BY <1>1, <2>1, <2>2, <2>3 DEF Claims, Stays
<1>2. ASSUME NEW u \in Thread \ {t}, NEW c \in Cluster, Has(fw, lk, ops, u, c)
      PROVE  d1[c] = d[c] /\ \A s \in Slots[c] : Taken(fx, ox, c, s) => Taken(fw, ops, c, s)
  <2>1. c \notin C
      BY <1>2
  <2>2. ASSUME NEW s \in Slots[c], Taken(fx, ox, c, s) PROVE Taken(fw, ops, c, s)
    <3>1. CASE \E v \in Vnode : At(fx, v, c, s)
        BY <2>1, <3>1
    <3>2. CASE \E r \in Thread : Claims(fx, ox, r, c, s)
      <4>1. PICK r \in Thread : Claims(fx, ox, r, c, s)
          BY <3>2
      <4>2. CASE r = t
          BY <2>1, <4>1, <4>2
      <4>3. CASE r # t
        <5>1. Claims(fw, ops, r, c, s)
            BY <1>1, <4>1, <4>3
        <5> QED BY <5>1 DEF Taken
      <4> QED BY <4>2, <4>3
    <3> QED BY <2>2, <3>1, <3>2 DEF Taken
  <2> QED BY <2>1, <2>2
<1> QED BY <1>2, Zenon DEF FoundFrame

----------------------------------------------------------------------------
(* Calls leave alone what others have found *)

\* A call that found an entry still has it, though others ran since.
LEMMA FoundEntry ==
    ASSUME CtlInv, DataInv, FoundInv, NEW t \in Thread, NEW o, o = op[t],
           o.pc \in {"make", "delete", "replace", "move"}, NEW c, c = vn[o.v].first
    PROVE  /\ c \in Cluster /\ o.s \in Slots[c] /\ dir[c][o.s] = o.e /\ IsEntry(use, dir, c, o.s)
           /\ o \in Op /\ o.e \in Entry /\ o.v \in Vnode /\ vn[o.v].used /\ vn[o.v].isdir /\ use[c] = "dir"
<1>1. Shape(vn, o) /\ o \in Op /\ FoundOf(dir, vn, op, t, o)
    BY DEF CtlInv, Ctl, TypeOK, FoundInv
<1>2. o.v \in Vnode /\ vn[o.v].used /\ vn[o.v].isdir
    BY <1>1 DEF Shape, InDir
<1>3. c \in Cluster
    BY <1>2, DirCluster
<1>4. use[c] = "dir"
    BY <1>2, CtlTyped, DirVnodeUsed DEF DataInv, Data
<1>5. o.s \in Slots[c] /\ dir[c][o.s] = o.e /\ o.e # FreeSlot
    BY <1>1 DEF FoundOf
<1> QED BY <1>1, <1>2, <1>3, <1>4, <1>5 DEF IsEntry, Op

\* A directory that is being removed has no vnode.
LEMMA DeletedAlone ==
    ASSUME CtlInv, DataInv, FoundInv, NEW t \in Thread, NEW o, o = op[t],
           o.pc = "delete", o.e.isdir, NEW x, x = o.e.first
    PROVE  /\ x \in Cluster /\ use[x] = "dir" /\ dir[x] = EmptyDir(x)
           /\ \A v \in Vnode : vn[v].used => vn[v].first # x
<1>1. PICK c, s : c = vn[o.v].first /\ s = o.s
    OBVIOUS
<1>2. c \in Cluster /\ s \in Slots[c] /\ dir[c][s] = o.e /\ IsEntry(use, dir, c, s)
    BY <1>1, FoundEntry
<1>3. PICK g : DiskGood(use, dir, dotdot, g) /\ VnodesGood(use, dir, vn, g)
    BY Zenon DEF DataInv, Data
<1>4. g[c][s].first = x
    BY <1>2, <1>3, DirEntryRight
<1>5. x \in Cluster \ {Root} /\ use[x] = "dir"
    BY <1>2, <1>3, <1>4 DEF DiskGood, EntriesGood, TrueTo
<1>6. FoundOf(dir, vn, op, t, o)
    BY DEF FoundInv
<1>7. dir[x] = EmptyDir(x) /\ ~Taken(vn, op, c, s)
    BY <1>1, <1>6 DEF FoundOf
<1>8. ASSUME NEW v \in Vnode, vn[v].used, vn[v].first = x PROVE FALSE
  <2>1. CASE v = RootVnode
      BY <1>5, <1>8, <2>1, CtlTyped, RootUsed
  <2>2. CASE v # RootVnode
    <3>1. PICK b, r : b = vn[vn[v].parent].first /\ r = vn[v].s
        OBVIOUS
    <3>2. At(vn, v, b, r)
        BY <1>8, <2>2, <3>1 DEF At
    <3>3. b \in Cluster /\ r \in Slots[b] /\ IsEntry(use, dir, b, r) /\ Agrees(vn[v], dir[b][r], g[b][r])
        BY <1>3, <3>2, VnodePlace, Zenon
    <3>4. g[b][r].first = x
        BY <1>8, <3>3 DEF Agrees
    <3>5. x # NoCluster
        BY <1>5, TreeAssumption
    <3>6. b = c /\ r = s
        BY <1>2, <1>3, <1>4, <3>3, <3>4, <3>5 DEF DiskGood, OneOwner
    <3> QED BY <1>7, <3>2, <3>6 DEF Taken
  <2> QED BY <2>1, <2>2
<1> QED BY <1>5, <1>7, <1>8

\* The directories in C are free clusters, or t may work in them.
Reached(t, C) ==
    \A c \in C :
        \/ c \in Cluster /\ use[c] = "free"
        \/ \E x \in Vnode : /\ vn[x].used /\ vn[x].isdir /\ vn[x].first = c
                            /\ Allowed(vn, op, t, x) /\ lock[x] \in {t, NoThread}

\* Nobody else has the directory a call has reached.
LEMMA ReachedAlone ==
    ASSUME CtlInv, DataInv, NEW t \in Thread, NEW C, Reached(t, C), NEW c \in C,
           NEW u \in Thread \ {t}
    PROVE  ~Has(vn, lock, op, u, c)
<1>1. CASE c \in Cluster /\ use[c] = "free"
  <2> SUFFICES ASSUME NEW y \in UsesOf(vn, op[u]), vn[y].isdir, vn[y].first = c PROVE FALSE
      BY DEF Has
  <2>1. y \in Vnode /\ vn[y].used
      BY UsesUsed DEF CtlInv, Ctl
  <2>2. use[c] = "dir"
      BY <2>1, CtlTyped, DirVnodeUsed DEF DataInv, Data
  <2> QED BY <1>1, <2>2
<1>2. CASE \E x \in Vnode : /\ vn[x].used /\ vn[x].isdir /\ vn[x].first = c
                            /\ Allowed(vn, op, t, x) /\ lock[x] \in {t, NoThread}
    BY <1>2, HasAlone
<1> QED BY <1>1, <1>2 DEF Reached

OthersStay(fw, fx, ops, ox, t) ==
    \A u \in Thread \ {t} : ox[u] = ops[u] /\ \A x \in UsesOf(fw, ops[u]) : Stays(fw, fx, x)

\* The slots others claim are left as they are.
ClaimsKept(d, fw, ops, d1, fx, ox, t) ==
    \A u \in Thread \ {t} : \A c \in Cluster : \A s \in Slots[c] :
        Claims(fw, ops, u, c, s) /\ d[c][s] # FreeSlot =>
            /\ d1[c][s] = d[c][s]
            /\ ~d[c][s].isdir => /\ \A v \in Vnode : At(fx, v, c, s) => At(fw, v, c, s)
                                 /\ ~Claims(fx, ox, t, c, s)

\* A step that changes only directories it has to itself keeps what others found.
LEMMA FoundIn ==
    ASSUME CtlInv, DataInv, FoundInv, NEW t \in Thread, NEW C, Reached(t, C),
           OthersStay(vn, vn', op, op', t),
           \A c \in Cluster : c \notin C => dir'[c] = dir[c],
           \A c \in Cluster : \A s \in Slots[c] : \A v \in Vnode :
               At(vn', v, c, s) => c \in C \/ Taken(vn, op, c, s),
           \A c \in Cluster : \A s \in Slots[c] :
               Claims(vn', op', t, c, s) => c \in C \/ Taken(vn, op, c, s),
           ClaimsKept(dir, vn, op, dir', vn', op', t),
           FoundOf(dir', vn', op', t, op'[t])
    PROVE  FoundInv'
<1>1. PICK d1, fx, ox : d1 = dir' /\ fx = vn' /\ ox = op'
    OBVIOUS
<1>2. \A c \in C : \A u \in Thread \ {t} : ~Has(vn, lock, op, u, c)
    BY ReachedAlone
<1>3. ASSUME NEW u \in Thread \ {t}, op[u].pc = "delete", op[u].e.isdir
      PROVE  d1[op[u].e.first] = dir[op[u].e.first]
  <2>1. PICK x : x = op[u].e.first
      OBVIOUS
  <2>2. x \in Cluster /\ use[x] = "dir" /\ \A v \in Vnode : vn[v].used => vn[v].first # x
      BY <1>3, <2>1, DeletedAlone
  <2>3. x \notin C
      BY <2>2 DEF Reached
  <2> QED BY <1>1, <2>1, <2>2, <2>3
<1>4. Ctl(vn, lock, op)
    BY DEF CtlInv
<1>5. \A u \in Thread \ {t} : ox[u] = op[u] /\ \A x \in UsesOf(vn, op[u]) : Stays(vn, fx, x)
    BY <1>1 DEF OthersStay
<1>6. \A u \in Thread \ {t} : \A c \in Cluster : \A s \in Slots[c] :
               Claims(vn, op, u, c, s) /\ dir[c][s] # FreeSlot =>
                   /\ d1[c][s] = dir[c][s]
                   /\ ~dir[c][s].isdir => /\ \A v \in Vnode : At(fx, v, c, s) => At(vn, v, c, s)
                                          /\ ~Claims(fx, ox, t, c, s)
    BY <1>1 DEF ClaimsKept
<1>7. /\ \A c \in Cluster : c \notin C => d1[c] = dir[c]
      /\ \A c \in Cluster : \A s \in Slots[c] : \A v \in Vnode :
               At(fx, v, c, s) => c \in C \/ Taken(vn, op, c, s)
      /\ \A c \in Cluster : \A s \in Slots[c] :
               Claims(fx, ox, t, c, s) => c \in C \/ Taken(vn, op, c, s)
    BY <1>1
<1>8. FoundFrame(dir, vn, lock, op, d1, fx, ox, t)
    BY <1>2, <1>3, <1>4, <1>5, <1>6, <1>7, FrameIn, Zenon
<1>9. ASSUME NEW r \in Thread PROVE FoundOf(d1, fx, ox, r, ox[r])
  <2>1. CASE r = t
      BY <1>1, <2>1
  <2>2. CASE r # t
    <3>1. FoundOf(dir, vn, op, r, op[r]) /\ r \in Thread \ {t}
        BY <2>2 DEF FoundInv
    <3> QED BY <1>4, <1>8, <3>1, FoundStep, Zenon
  <2> QED BY <2>1, <2>2
<1> QED BY <1>1, <1>9 DEF FoundInv

\* A call that looks for nothing has found nothing.
LEMMA IdleFound ==
    ASSUME NEW d, NEW fw, NEW ops, NEW t, NEW o, o.pc \in {"idle", "sync_parent", "sync_self"}
    PROVE  FoundOf(d, fw, ops, t, o)
    BY DEF FoundOf, InRename

\* Nothing changes on the disk, and no vnode is made.
LEMMA QuietFound ==
    ASSUME CtlInv, DataInv, FoundInv, NEW t \in Thread, dir' = dir, OthersStay(vn, vn', op, op', t),
           \A v \in Vnode : \A b, r : At(vn', v, b, r) => At(vn, v, b, r),
           op'[t].pc # "make", FoundOf(dir', vn', op', t, op'[t])
    PROVE  FoundInv'
<1>1. PICK fx, ox : fx = vn' /\ ox = op'
    OBVIOUS
<1>2. \A b, r : ~Claims(fx, ox, t, b, r)
    BY <1>1 DEF Claims
<1>3. \A c \in Cluster : \A s \in Slots[c] : \A v \in Vnode : At(fx, v, c, s) => Taken(vn, op, c, s)
    BY <1>1 DEF Taken
<1>4. ClaimsKept(dir, vn, op, dir, fx, ox, t)
    BY <1>1, <1>2 DEF ClaimsKept
<1>5. Reached(t, {})
    BY DEF Reached
<1> QED BY <1>1, <1>2, <1>3, <1>4, <1>5, FoundIn

\* What the calls of others use stays when the vnodes stay in place,
LEMMA KeptStay ==
    ASSUME CtlInv, NEW fx, Kept(vn, fx), NEW ox, NEW t, \A u \in Thread \ {t} : ox[u] = op[u]
    PROVE  OthersStay(vn, fx, op, ox, t) /\ \A v \in Vnode : \A b, r : At(fx, v, b, r) <=> At(vn, v, b, r)
<1>1. ASSUME NEW u \in Thread \ {t}, NEW x \in UsesOf(vn, op[u]) PROVE Stays(vn, fx, x)
  <2>1. x \in Vnode
      BY UsesUsed DEF CtlInv, Ctl
  <2> QED BY <2>1 DEF Kept
<1> QED BY <1>1, KeptTree, CtlTyped DEF OthersStay

\* when one is made,
LEMMA GrowsStay ==
    ASSUME CtlInv, NEW fx, NEW p, NEW s, Grows(vn, fx, p, s), NEW ox, NEW t,
           \A u \in Thread \ {t} : ox[u] = op[u]
    PROVE  OthersStay(vn, fx, op, ox, t)
<1>1. ASSUME NEW u \in Thread \ {t}, NEW x \in UsesOf(vn, op[u]) PROVE Stays(vn, fx, x)
  <2>1. x \in Vnode /\ vn[x].used
      BY UsesUsed DEF CtlInv, Ctl
  <2> QED BY <2>1 DEF Grows
<1> QED BY <1>1 DEF OthersStay

\* and when one goes that they do not use.
LEMMA GoesStay ==
    ASSUME CtlInv, NEW fx, NEW n, Goes(vn, fx, n), NEW ox, NEW t,
           \A u \in Thread \ {t} : ox[u] = op[u] /\ n \notin UsesOf(vn, op[u])
    PROVE  OthersStay(vn, fx, op, ox, t)
<1>1. ASSUME NEW u \in Thread \ {t}, NEW x \in UsesOf(vn, op[u]) PROVE Stays(vn, fx, x)
  <2>1. x \in Vnode /\ x # n
      BY UsesUsed DEF CtlInv, Ctl
  <2> QED BY <2>1 DEF Goes, Stays
<1> QED BY <1>1 DEF OthersStay

----------------------------------------------------------------------------
(* The calls that look for entries *)

\* What may be taken is not in use.
LEMMA MayTakeFree ==
    ASSUME Practices = {}, NEW c, NEW s, MayTake(c, s)
    PROVE  ~Taken(vn, op, c, s)
<1>1. ~InUse(c, s)
    BY DEF MayTake
<1> QED BY <1>1, Zenon DEF InUse, Taken, At, Claims

\* Another thread's claim is not new.
LEMMA ClaimOld ==
    ASSUME CtlInv, NEW t \in Thread, NEW fx, NEW ox, OthersStay(vn, fx, op, ox, t),
           NEW u \in Thread \ {t}, NEW c, NEW s
    PROVE  Claims(fx, ox, u, c, s) <=> Claims(vn, op, u, c, s)
<1>1. CASE op[u].pc = "make"
  <2>1. ox[u] = op[u] /\ Shape(vn, op[u])
      BY DEF OthersStay, CtlInv, Ctl
  <2>2. op[u].v \in UsesOf(vn, op[u]) /\ vn[op[u].v].isdir
      BY <1>1, <2>1, TreeAssumption DEF Shape, UsesOf, InDir
  <2>3. Stays(vn, fx, op[u].v)
      BY <2>2 DEF OthersStay
  <2> QED BY <2>1, <2>2, <2>3 DEF Claims, Stays
<1>2. CASE op[u].pc # "make"
    BY <1>2 DEF Claims, OthersStay
<1> QED BY <1>1, <1>2

\* A slot that nobody used is still not used.
LEMMA StillFree ==
    ASSUME CtlInv, NEW t \in Thread, NEW fx, NEW ox, OthersStay(vn, fx, op, ox, t), NEW c, NEW s,
           \A v \in Vnode : At(fx, v, c, s) => At(vn, v, c, s), ox[t].pc # "make",
           ~Taken(vn, op, c, s)
    PROVE  ~Taken(fx, ox, c, s)
<1>1. \A v \in Vnode : ~At(fx, v, c, s)
    BY DEF Taken
<1>2. ASSUME NEW u \in Thread, Claims(fx, ox, u, c, s) PROVE FALSE
  <2>1. u # t
      BY <1>2 DEF Claims
  <2>2. Claims(vn, op, u, c, s)
      BY <1>2, <2>1, ClaimOld
  <2> QED BY <2>2 DEF Taken
<1> QED BY <1>1, <1>2 DEF Taken

\* fat32_remove and fat32_rmdir, up to the entry: nobody uses what they found.
LEMMA RemoveFindInv ==
    ASSUME CtlInv, DataInv, FoundInv, Practices = {}, NEW t \in Thread, NEW v \in Vnode, NEW n \in Name,
           RemoveFind(t, v, n), ~faults'.harm
    PROVE  DataInv' /\ FoundInv'
<1> USE TreeAssumption
<1>1. vn[v].used /\ vn[v].isdir
    BY MayCallAllowed DEF RemoveFind
<1>2. PICK c : c = vn[v].first
    OBVIOUS
<1>3. PICK s \in Find(c, n) :
          /\ MayTake(c, s)
          /\ IF dir[c][s].isdir THEN DirEmpty(dir[c][s].first) ELSE UNCHANGED faults
          /\ Go(t, [Idle EXCEPT !.pc = "delete", !.v = v, !.n = n, !.s = s, !.e = dir[c][s]])
    BY <1>2 DEF RemoveFind
<1>4. s \in Nat /\ s \in Slots[c] /\ dir[c][s] \in Entry /\ dir[c][s] # FreeSlot
    BY <1>1, <1>2, NamedEntry
<1>5. PICK o : o = [Idle EXCEPT !.pc = "delete", !.v = v, !.n = n, !.s = s, !.e = dir[c][s]]
    OBVIOUS
<1>6. o \in Op /\ o.pc = "delete" /\ o.v = v /\ o.s = s /\ o.e = dir[c][s]
    BY <1>4, <1>5 DEF Idle, Op, PC
<1>7. op'[t] = o /\ \A u \in Thread \ {t} : op'[u] = op[u]
    BY <1>3, <1>5, <1>6, CtlTyped, GoOthers
<1>8. use' = use /\ dir' = dir /\ dotdot' = dotdot /\ vn' = vn
    BY DEF RemoveFind
<1>9. OthersStay(vn, vn', op, op', t) /\ \A x \in Vnode : \A b, r : At(vn', x, b, r) => At(vn, x, b, r)
    BY <1>7, <1>8, CtlTyped, KeptSame, KeptStay
<1>10. ~Taken(vn, op, c, s)
    BY <1>3, MayTakeFree
<1>11. ~Taken(vn', op', c, s)
    BY <1>6, <1>7, <1>9, <1>10, StillFree
<1>12. dir[c][s].isdir => dir[dir[c][s].first] = EmptyDir(dir[c][s].first)
    BY <1>3, MishapType, CtlTyped DEF DirEmpty
<1>13. FoundOf(dir', vn', op', t, o)
    BY <1>2, <1>4, <1>6, <1>8, <1>11, <1>12 DEF FoundOf, InRename
<1>14. FoundInv'
    BY <1>6, <1>7, <1>8, <1>9, <1>13, QuietFound
<1> QED BY <1>8, <1>14 DEF DataInv

\* fat32_rename has found the source and the target, or not.
LEMMA RenameFindInv ==
    ASSUME CtlInv, DataInv, FoundInv, Practices = {}, NEW t \in Thread, NEW o \in Op, NEW ls,
           RenameFind(t, o, ls), UNCHANGED <<use, dir, dotdot, vn, faults>>,
           o.v \in Vnode, vn[o.v].used, vn[o.v].isdir, o.w \in Vnode, vn[o.w].used, vn[o.w].isdir,
           o.n \in Name, o.m \in Name, ~(vn[o.v].first = vn[o.w].first /\ o.n = o.m)
    PROVE  DataInv' /\ FoundInv'
<1> USE TreeAssumption
<1>1. DataInv'
    BY DEF DataInv
<1>2. CASE Return(t)
  <2>1. op'[t] = Idle /\ \A u \in Thread \ {t} : op'[u] = op[u]
      BY <1>2, CtlTyped, ReturnOthers DEF Others
  <2>2. OthersStay(vn, vn', op, op', t) /\ \A x \in Vnode : \A b, r : At(vn', x, b, r) => At(vn, x, b, r)
      BY <2>1, CtlTyped, KeptSame, KeptStay
  <2>3. op'[t].pc = "idle" /\ FoundOf(dir', vn', op', t, op'[t])
      BY <2>1, IdleFound DEF Idle
  <2> QED BY <1>1, <2>2, <2>3, QuietFound
<1>3. PICK c, d, targets : c = vn[o.v].first /\ d = vn[o.w].first /\ targets = Find(d, o.m)
    OBVIOUS
<1>4. ASSUME NEW s \in Find(c, o.n), MayTake(c, s), \A x \in targets : MayTake(d, x),
             dir[c][s].size = 0,
             Go(t, [o EXCEPT !.pc = IF targets = {} THEN "move" ELSE "replace",
                                      !.s = s, !.e = dir[c][s]])
      PROVE  FoundInv'
  <2>1. PICK pc \in {"move", "replace"} : pc = IF targets = {} THEN "move" ELSE "replace"
      OBVIOUS
  <2>2. s \in Nat /\ s \in Slots[c] /\ dir[c][s] \in Entry /\ dir[c][s] # FreeSlot /\ dir[c][s].name = o.n
      BY <1>3, NamedEntry
  <2>3. PICK p : p = [o EXCEPT !.pc = pc, !.s = s, !.e = dir[c][s]]
      OBVIOUS
  <2>4. /\ p \in Op /\ p.pc = pc /\ p.v = o.v /\ p.w = o.w /\ p.s = s /\ p.e = dir[c][s]
        /\ p.n = o.n /\ p.m = o.m
      BY <2>1, <2>2, <2>3 DEF Op, PC
  <2>5. op'[t] = p /\ \A u \in Thread \ {t} : op'[u] = op[u]
      BY <1>4, <2>1, <2>3, <2>4, CtlTyped, GoOthers
  <2>6. OthersStay(vn, vn', op, op', t) /\ \A x \in Vnode : \A b, r : At(vn', x, b, r) => At(vn, x, b, r)
      BY <2>5, CtlTyped, KeptSame, KeptStay
  <2>7. p.pc # "make" /\ op'[t].pc # "make"
      BY <2>1, <2>4, <2>5
  <2>8. ~Taken(vn', op', c, s)
    <3>1. ~Taken(vn, op, c, s)
        BY <1>4, MayTakeFree
    <3> QED BY <2>6, <2>7, <3>1, StillFree
  <2>9. \A x \in Slots[d] : dir[d][x].name = o.m => ~Taken(vn', op', d, x)
    <3> SUFFICES ASSUME NEW x \in Slots[d], dir[d][x].name = o.m PROVE ~Taken(vn', op', d, x)
        OBVIOUS
    <3>1. MayTake(d, x)
        BY <1>3, <1>4 DEF Find
    <3>2. ~Taken(vn, op, d, x)
        BY <3>1, MayTakeFree
    <3> QED BY <2>6, <2>7, <3>2, StillFree
  <2>10. PICK d1, fx, ox : d1 = dir' /\ fx = vn' /\ ox = op'
      OBVIOUS
  <2>11. d1 = dir /\ fx = vn
      BY <2>10
  <2>12. FoundOf(d1, fx, ox, t, p)
      BY <1>3, <1>4, <2>1, <2>2, <2>4, <2>8, <2>9, <2>10, <2>11 DEF FoundOf, InRename
  <2> QED BY <2>5, <2>6, <2>7, <2>10, <2>12, QuietFound
<1>5. Return(t) \/ \E s \in Find(c, o.n) :
          /\ MayTake(c, s) /\ (\A x \in targets : MayTake(d, x)) /\ dir[c][s].size = 0
          /\ Go(t, [o EXCEPT !.pc = IF targets = {} THEN "move" ELSE "replace",
                                      !.s = s, !.e = dir[c][s]])
    BY <1>3 DEF RenameFind
<1> QED BY <1>1, <1>2, <1>4, <1>5

\* fat32_rename, up to the source entry: nobody uses what it found.
LEMMA RenameCallInv ==
    ASSUME CtlInv, DataInv, FoundInv, Practices = {}, NEW t \in Thread, NEW v \in Vnode, NEW n \in Name,
           NEW w \in Vnode, NEW m \in Name, RenameCall(t, v, n, w, m)
    PROVE  DataInv' /\ FoundInv'
<1> USE TreeAssumption
<1>1. vn[v].used /\ vn[v].isdir /\ vn[w].used /\ vn[w].isdir
    BY MayCallAllowed DEF RenameCall
<1>2. PICK o : o = [Idle EXCEPT !.v = v, !.w = w, !.n = n, !.m = m]
    OBVIOUS
<1>3. o \in Op /\ o.v = v /\ o.w = w /\ o.n = n /\ o.m = m
    BY <1>2, FreeSlotEntry DEF Op, Idle, PC
<1>4. /\ ~(vn[v].first = vn[w].first /\ n = m) /\ UNCHANGED <<use, dir, dotdot, vn, faults>>
      /\ \/ SameDir(o) /\ RenameFind(t, o, {v})
         \/ Go(t, [o EXCEPT !.pc = "lock_target"])
    BY <1>2, <1>3 DEF RenameCall, SameDir
<1>5. CASE SameDir(o) /\ RenameFind(t, o, {v})
    BY <1>1, <1>3, <1>4, <1>5, RenameFindInv
<1>6. CASE Go(t, [o EXCEPT !.pc = "lock_target"])
  <2>1. PICK p : p = [o EXCEPT !.pc = "lock_target"]
      OBVIOUS
  <2>2. p \in Op /\ p.pc = "lock_target" /\ p.v = v /\ p.w = w /\ p.n = n /\ p.m = m
      BY <1>3, <2>1 DEF Op, PC
  <2>3. op'[t] = p /\ \A u \in Thread \ {t} : op'[u] = op[u]
      BY <1>6, <2>1, <2>2, CtlTyped, GoOthers
  <2>4. OthersStay(vn, vn', op, op', t) /\ \A x \in Vnode : \A b, r : At(vn', x, b, r) => At(vn, x, b, r)
      BY <1>4, <2>3, CtlTyped, KeptSame, KeptStay
  <2>5. FoundOf(dir', vn', op', t, p)
      BY <1>4, <2>2 DEF FoundOf, InRename
  <2>6. FoundInv'
      BY <1>4, <2>2, <2>3, <2>4, <2>5, QuietFound
  <2> QED BY <1>4, <2>6 DEF DataInv
<1> QED BY <1>4, <1>5, <1>6

\* fat32_rename, with both directories locked.
LEMMA RenameLockTargetInv ==
    ASSUME CtlInv, DataInv, FoundInv, Practices = {}, NEW t \in Thread, RenameLockTarget(t)
    PROVE  DataInv' /\ FoundInv'
<1>1. PICK o : o = op[t]
    OBVIOUS
<1>2. /\ o.pc \in InRename /\ RenameFind(t, o, {o.v, o.w})
      /\ UNCHANGED <<use, dir, dotdot, vn, faults>>
    BY <1>1 DEF RenameLockTarget, InRename
<1>3. /\ o \in Op /\ o.v \in Vnode /\ vn[o.v].used /\ vn[o.v].isdir
      /\ o.w \in Vnode /\ vn[o.w].used /\ vn[o.w].isdir
    BY <1>1, <1>2, RenameVnodes
<1>4. FoundOf(dir, vn, op, t, o)
    BY <1>1 DEF FoundInv
<1>5. o.n \in Name /\ o.m \in Name /\ ~(vn[o.v].first = vn[o.w].first /\ o.n = o.m)
    BY <1>2, <1>4 DEF FoundOf
<1> QED BY <1>2, <1>3, <1>5, RenameFindInv

----------------------------------------------------------------------------
(* The calls that change vnodes *)

\* fat32_sync_metadata locks the parent; the entry is still the one of the vnode.
LEMMA SyncLockParentInv ==
    ASSUME CtlInv, DataInv, FoundInv, NEW t \in Thread, SyncLockParent(t)
    PROVE  DataInv' /\ FoundInv'
<1>1. PICK p : p = [op[t] EXCEPT !.pc = "sync_self"]
    OBVIOUS
<1>2. p \in Op /\ p.pc = "sync_self"
    BY <1>1, CtlTyped DEF Op, PC, TypeOK
<1>3. op'[t] = p /\ \A u \in Thread \ {t} : op'[u] = op[u]
    BY <1>1, <1>2, CtlTyped, GoOthers DEF SyncLockParent
<1>4. use' = use /\ dir' = dir /\ dotdot' = dotdot /\ vn' = vn
    BY DEF SyncLockParent
<1>5. OthersStay(vn, vn', op, op', t) /\ \A x \in Vnode : \A b, r : At(vn', x, b, r) => At(vn, x, b, r)
    BY <1>3, <1>4, CtlTyped, KeptSame, KeptStay
<1>6. FoundOf(dir', vn', op', t, op'[t])
    BY <1>2, <1>3, IdleFound
<1>7. FoundInv'
    BY <1>2, <1>3, <1>4, <1>5, <1>6, QuietFound
<1> QED BY <1>4, <1>7 DEF DataInv

\* A write-back begins; the disk and the vnodes stay.
LEMMA SyncInv ==
    ASSUME CtlInv, DataInv, FoundInv, NEW t \in Thread, NEW v \in Vnode, NEW last \in BOOLEAN,
           Sync(t, v, last)
    PROVE  DataInv' /\ FoundInv'
<1>1. PICK p : p = [Idle EXCEPT !.pc = "sync_parent", !.v = v, !.last = last]
    OBVIOUS
<1>2. p \in Op /\ p.pc = "sync_parent"
    BY <1>1, FreeSlotEntry, TreeAssumption DEF Op, PC, Idle
<1>3. op'[t] = p /\ \A u \in Thread \ {t} : op'[u] = op[u]
    BY <1>1, <1>2, CtlTyped, GoOthers DEF Sync
<1>4. use' = use /\ dir' = dir /\ dotdot' = dotdot /\ vn' = vn
    BY DEF Sync
<1>5. OthersStay(vn, vn', op, op', t) /\ \A x \in Vnode : \A b, r : At(vn', x, b, r) => At(vn, x, b, r)
    BY <1>3, <1>4, CtlTyped, KeptSame, KeptStay
<1>6. FoundOf(dir', vn', op', t, op'[t])
    BY <1>2, <1>3, IdleFound
<1>7. FoundInv'
    BY <1>2, <1>3, <1>4, <1>5, <1>6, QuietFound
<1> QED BY <1>4, <1>7 DEF DataInv

\* fat32_inactive loses nothing of a vnode that is clean.
LEMMA InactiveInv ==
    ASSUME CtlInv, DataInv, FoundInv, Practices = {}, NEW t \in Thread, NEW v \in Vnode, Inactive(t, v)
    PROVE  DataInv' /\ FoundInv'
<1>1. op[t] = Idle /\ vn[v].used
    BY MayCallAllowed DEF Inactive
<1>2. /\ v # RootVnode /\ vn[v].dirty = {} /\ \A w \in Vnode : vn[w].parent # v
      /\ \A u \in Thread : v \notin UsesOf(vn, op[u])
      /\ vn' = [vn EXCEPT ![v] = NoFatVnode] /\ use' = use /\ dir' = dir /\ dotdot' = dotdot /\ op' = op
    BY DEF Inactive, Uses, UsesOf
<1>3. Goes(vn, vn', v)
    BY <1>2, CtlTyped, GoneGoes
<1>4. OthersStay(vn, vn', op, op', t)
    BY <1>2, <1>3, GoesStay
<1>5. op'[t].pc = "idle" /\ FoundOf(dir', vn', op', t, op'[t])
    BY <1>1, <1>2, IdleFound DEF Idle
<1>6. FoundInv'
    BY <1>2, <1>3, <1>4, <1>5, QuietFound DEF Goes
<1>7. Data(use, dir, dotdot, vn')
    BY <1>1, <1>2, CtlTyped, GoneData DEF DataInv
<1> QED BY <1>2, <1>6, <1>7 DEF DataInv

\* A file has a cluster of its own, or no data.
LEMMA SizeOrNone ==
    ASSUME CtlInv, DataInv, NEW v \in Vnode, vn[v].used, ~vn[v].isdir
    PROVE  /\ vn[v].first = NoCluster => vn[v].size = 0
           /\ vn[v].first # NoCluster => /\ vn[v].first \in Cluster
                                      /\ use[vn[v].first] = IF vn[v].size = 0 THEN "file" ELSE "data"
<1>1. PICK g : DiskGood(use, dir, dotdot, g) /\ VnodesGood(use, dir, vn, g)
    BY Zenon DEF DataInv, Data
<1>2. PICK c, s : FileAt(use, dir, vn, g, v, c, s)
    BY <1>1, CtlTyped, FilePlace
<1>3. TrueTo(use, FALSE, g[c][s])
    BY <1>1, <1>2 DEF FileAt, DiskGood, EntriesGood
<1>4. vn[v] \in FatVnode
    BY CtlTyped DEF VnodeType
<1> QED BY <1>2, <1>3, <1>4, TreeAssumption DEF TrueTo, FileAt, FatVnode

\* fat32_write: the vnode has what the entry lacks, and its flags say so.
LEMMA WriteInv ==
    ASSUME CtlInv, DataInv, FoundInv, Practices = {}, NEW t \in Thread, NEW v \in Vnode, Write(t, v),
           ~faults'.harm
    PROVE  DataInv' /\ FoundInv'
<1> USE TreeAssumption
<1>1. op[t] = Idle /\ vn[v].used /\ ~vn[v].isdir
    BY MayCallAllowed DEF Write
<1>2. PICK x : x = vn[v]
    OBVIOUS
<1>3. ~Mishap
    BY CtlTyped, MishapType DEF TypeOK
<1>4. /\ \/ \E c \in IF x.first = NoCluster THEN Unallocated ELSE {x.first} :
              \/ /\ vn' = [vn EXCEPT ![v] = Written(x, c, 1, Fresh(x) \cup Grown(x))]
                 /\ use' = [use EXCEPT ![c] = "data"]
              \/ /\ vn' = [vn EXCEPT ![v] = Written(x, c, x.size, Fresh(x))]
                 /\ use' = [use EXCEPT ![c] = IF x.first = NoCluster THEN "file" ELSE @]
         \/ vn' = Touched(vn, v) /\ use' = use
      /\ dir' = dir /\ dotdot' = dotdot /\ op' = op
    BY <1>2, <1>3, WriteCases
<1>5. /\ x \in FatVnode /\ x.size \in 0 .. 1 /\ 1 \in 0 .. 1
      /\ Fresh(x) \in SUBSET Flag /\ Fresh(x) \cup Grown(x) \in SUBSET Flag
      /\ x.first # NoCluster => x.first \in Cluster
    BY <1>1, <1>2, CtlTyped DEF VnodeType, FatVnode, Flag, Fresh, Grown
<1>6. op'[t].pc = "idle" /\ FoundOf(dir', vn', op', t, op'[t])
    BY <1>1, <1>4, IdleFound DEF Idle
<1>7. ASSUME Kept(vn, vn'), Data(use', dir, dotdot, vn') PROVE DataInv' /\ FoundInv'
  <2>1. OthersStay(vn, vn', op, op', t) /\ \A y \in Vnode : \A b, r : At(vn', y, b, r) => At(vn, y, b, r)
      BY <1>4, <1>7, KeptStay
  <2>2. FoundInv'
      BY <1>4, <1>6, <2>1, QuietFound
  <2> QED BY <1>4, <1>7, <2>2 DEF DataInv
<1>8. Data(use, dir, dotdot, vn) /\ Typed(use, dir, dotdot, vn)
    BY CtlTyped DEF DataInv
<1>9. ASSUME vn' = Touched(vn, v), use' = use PROVE DataInv' /\ FoundInv'
  <2>1. Kept(vn, vn')
      BY <1>1, <1>9, CtlTyped, KeptTouched
  <2>2. Data(use, dir, dotdot, Touched(vn, v))
      BY <1>1, <1>8, TouchData
  <2> QED BY <1>7, <1>9, <2>1, <2>2
<1>10. ASSUME NEW c \in IF x.first = NoCluster THEN Unallocated ELSE {x.first},
              NEW z \in 0 .. 1, NEW new \in SUBSET Flag, Fresh(x) \subseteq new,
              z # x.size => "size" \in new,
              vn' = [vn EXCEPT ![v] = Written(x, c, z, new)],
              NEW k, k = IF z = 0 THEN "file" ELSE "data", use' = [use EXCEPT ![c] = k]
       PROVE  DataInv' /\ FoundInv'
  <2>1. c \in Cluster /\ (x.first = c \/ (x.first = NoCluster /\ use[c] = "free"))
      BY <1>5, <1>10 DEF Unallocated
  <2>2. PICK y : y = Written(x, c, z, new)
      OBVIOUS
  <2>3. /\ y \in FatVnode /\ y.used = x.used /\ y.isdir = x.isdir /\ y.parent = x.parent /\ y.s = x.s
        /\ y.first = c /\ y.size = z /\ y.dirty = x.dirty \cup {"time"} \cup new
        /\ Kept(vn, [vn EXCEPT ![v] = y])
    <3>1. c \in Cluster /\ z \in 0 .. 1 /\ new \in SUBSET Flag
        BY <1>10, <2>1
    <3> QED BY ONLY CtlInv, v \in Vnode, <1>1, <1>2, <2>2, <3>1, WriteVnode
  <2>4. Marks(vn[v], y)
      BY <1>2, <1>10, <2>1, <2>3 DEF Marks, Fresh
  <2>5. Data([use EXCEPT ![c] = k], dir, dotdot, [vn EXCEPT ![v] = y])
      BY <1>1, <1>2, <1>8, <1>10, <2>1, <2>3, <2>4, WriteData
  <2> QED BY <1>7, <1>10, <2>2, <2>3, <2>5
<1>11. /\ Fresh(x) \subseteq Fresh(x) \cup Grown(x) /\ Fresh(x) \subseteq Fresh(x)
       /\ 1 # x.size => "size" \in Fresh(x) \cup Grown(x)
    BY <1>5 DEF Grown
<1>12. ASSUME NEW c \in IF x.first = NoCluster THEN Unallocated ELSE {x.first}
       PROVE  [use EXCEPT ![c] = IF x.first = NoCluster THEN "file" ELSE @]
                = [use EXCEPT ![c] = IF x.size = 0 THEN "file" ELSE "data"]
    BY <1>1, <1>2, <1>12, SizeOrNone
<1>13. "data" = IF 1 = 0 THEN "file" ELSE "data"
    OBVIOUS
<1> QED BY <1>4, <1>5, <1>9, <1>10, <1>11, <1>12, <1>13

\* fat32_setattr: the vnode has what the entry lacks, and its flags say so.
LEMMA SetattrInv ==
    ASSUME CtlInv, DataInv, FoundInv, Practices = {}, NEW t \in Thread, NEW v \in Vnode,
           NEW truncate \in BOOLEAN, Setattr(t, v, truncate), ~faults'.harm
    PROVE  DataInv' /\ FoundInv'
<1> USE TreeAssumption
<1>1. vn[v].used /\ v # RootVnode /\ (truncate => ~vn[v].isdir)
    BY MayCallAllowed DEF Setattr
<1>2. PICK x : x = vn[v]
    OBVIOUS
<1>3. PICK y : y = Attributed(x, truncate)
    OBVIOUS
<1>4. /\ vn' = [vn EXCEPT ![v] = y]
      /\ use' = IF truncate /\ x.first # NoCluster THEN [use EXCEPT ![x.first] = "free"] ELSE use
      /\ Go(t, [Idle EXCEPT !.pc = "sync_parent", !.v = v])
      /\ dir' = dir /\ dotdot' = dotdot
  <2>1. ~Mishap
      BY CtlTyped, MishapType DEF TypeOK
  <2> QED BY <1>2, <1>3, <2>1 DEF Setattr, Attributed
<1>5. /\ y \in FatVnode /\ y.used = x.used /\ y.isdir = x.isdir /\ y.parent = x.parent /\ y.s = x.s
      /\ truncate => /\ y.first = NoCluster /\ y.size = 0
                     /\ y.dirty = x.dirty \cup {"size", "cluster"}
  <2>1. x \in FatVnode
      BY <1>2, CtlTyped DEF VnodeType
  <2>2. CASE truncate
    <3>1. PICK D \in SUBSET Flag : D = x.dirty \cup {"size", "cluster"}
        BY <2>1 DEF FatVnode, Flag
    <3>2. y = SetVnode(x, NoCluster, 0, D)
        BY <1>3, <2>2, <3>1 DEF Attributed, Truncated, SetVnode
    <3> QED BY <2>1, <2>2, <3>1, <3>2, VnodeSet
  <2>3. CASE ~truncate
    <3>1. PICK D \in SUBSET Flag : D = x.dirty \cup {"time"}
        BY <2>1 DEF FatVnode, Flag
    <3>2. y = SetFlags(x, D)
        BY <1>3, <2>3, <3>1 DEF Attributed, SetFlags
    <3> QED BY <2>1, <2>3, <3>2, VnodeFlags
  <2> QED BY <2>2, <2>3
<1>15. Kept(vn, vn')
    BY <1>1, <1>2, <1>3, <1>4, SetattrVnode
<1>6. PICK p : p = [Idle EXCEPT !.pc = "sync_parent", !.v = v]
    OBVIOUS
<1>7. p \in Op /\ p.pc = "sync_parent"
    BY <1>6, FreeSlotEntry DEF Op, PC, Idle
<1>8. op'[t] = p /\ \A u \in Thread \ {t} : op'[u] = op[u]
    BY <1>4, <1>6, <1>7, CtlTyped, GoOthers
<1>9. OthersStay(vn, vn', op, op', t) /\ \A z \in Vnode : \A b, r : At(vn', z, b, r) => At(vn, z, b, r)
    BY <1>8, <1>15, KeptStay
<1>10. FoundOf(dir', vn', op', t, op'[t])
    BY <1>7, <1>8, IdleFound
<1>11. FoundInv'
    BY <1>4, <1>7, <1>8, <1>9, <1>10, QuietFound
<1>12. Data(use, dir, dotdot, vn) /\ Typed(use, dir, dotdot, vn)
    BY CtlTyped DEF DataInv
<1>13. CASE truncate
  <2>1. PICK u1 : u1 = IF vn[v].first = NoCluster THEN use ELSE [use EXCEPT ![vn[v].first] = "free"]
      OBVIOUS
  <2>2. Marks(vn[v], y)
      BY <1>2, <1>5, <1>13 DEF Marks
  <2>3. Data(u1, dir, dotdot, [vn EXCEPT ![v] = y])
      BY <1>1, <1>2, <1>5, <1>12, <1>13, <2>1, <2>2, TruncateData
  <2>4. use' = u1
      BY <1>2, <1>4, <1>13, <2>1
  <2> QED BY <1>4, <1>11, <2>3, <2>4 DEF DataInv
<1>14. CASE ~truncate
  <2>1. vn' = Touched(vn, v)
      BY <1>1, <1>2, <1>3, <1>4, <1>14, CtlTyped DEF Touched, VnodeType, Attributed
  <2>2. Data(use, dir, dotdot, Touched(vn, v))
      BY <1>1, <1>12, TouchData
  <2>3. use' = use
      BY <1>4, <1>14
  <2> QED BY <1>4, <1>11, <2>1, <2>2, <2>3 DEF DataInv
<1> QED BY <1>13, <1>14

\* fat32_lookup makes the vnode of an entry that nobody else took meanwhile.
LEMMA LookupMakeInv ==
    ASSUME CtlInv, DataInv, FoundInv, NEW t \in Thread, LookupMake(t)
    PROVE  DataInv' /\ FoundInv'
<1> USE TreeAssumption
<1>1. PICK o, c, s : o = op[t] /\ c = vn[o.v].first /\ s = o.s
    OBVIOUS
<1>2. /\ o.pc = "make" /\ MakeVnode(vn, o.e, o.v, s, {}) /\ Go(t, Idle)
      /\ use' = use /\ dir' = dir /\ dotdot' = dotdot
    BY <1>1 DEF LookupMake
<1>3. /\ c \in Cluster /\ s \in Slots[c] /\ dir[c][s] = o.e /\ IsEntry(use, dir, c, s)
      /\ o \in Op /\ o.e \in Entry /\ o.v \in Vnode /\ vn[o.v].used /\ vn[o.v].isdir
    BY <1>1, <1>2, FoundEntry
<1>4. FoundOf(dir, vn, op, t, o) /\ Shape(vn, o)
    BY <1>1 DEF FoundInv, CtlInv, Ctl
<1>5. ~o.e.isdir => /\ \A v \in Vnode : ~At(vn, v, c, s)
                    /\ \A u \in Thread \ {t} : ~Claims(vn, op, u, c, s)
    BY <1>1, <1>2, <1>4 DEF FoundOf
<1>6. Grows(vn, vn', o.v, s)
  <2>1. s \in Nat /\ (o.e.isdir => o.e.first \in Cluster) /\ {} \in SUBSET Flag /\ Kept(vn, vn)
      BY <1>2, <1>3, <1>4, CtlTyped, KeptSame DEF Shape
  <2> QED BY <1>2, <1>3, <2>1, CtlTyped, MakeVnodeGrows
<1>7. Data(use, dir, dotdot, vn')
  <2>1. Data(use, dir, dotdot, vn) /\ Typed(use, dir, dotdot, vn)
      BY CtlTyped DEF DataInv
  <2>2. CASE vn' = vn
      BY <2>1, <2>2
  <2>3. ASSUME NEW n \in SpareVnodes, vn' = [vn EXCEPT ![n] = VnodeOf(o.e, o.v, s, {})]
        PROVE  Data(use, dir, dotdot, vn')
    <3>1. n \in Vnode /\ ~vn[n].used /\ {} \in SUBSET {"time"}
        BY DEF SpareVnodes
    <3>2. PICK e, p : e = o.e /\ p = o.v
        OBVIOUS
    <3>3. p \in Vnode /\ vn[p].used /\ vn[p].isdir /\ c = vn[p].first /\ e = dir[c][s]
        BY <1>1, <1>3, <3>2
    <3>4. ~dir[c][s].isdir => \A v \in Vnode : ~At(vn, v, c, s)
        BY <1>3, <1>5
    <3>5. Data(use, dir, dotdot, [vn EXCEPT ![n] = VnodeOf(e, p, s, {})])
        BY <1>3, <2>1, <3>1, <3>3, <3>4, MakeData
    <3> QED BY <2>3, <3>2, <3>5
  <2> QED BY <1>2, <2>2, <2>3 DEF MakeVnode
<1>8. Idle \in Op
    BY FreeSlotEntry DEF Idle, Op, PC
<1>9. op'[t] = Idle /\ \A u \in Thread \ {t} : op'[u] = op[u]
    BY <1>2, <1>8, CtlTyped, GoOthers
<1>10. OthersStay(vn, vn', op, op', t)
    BY <1>6, <1>9, GrowsStay
<1>11. PICK fx, ox : fx = vn' /\ ox = op'
    OBVIOUS
<1>12. ox[t].pc = "idle" /\ FoundOf(dir', fx, ox, t, ox[t])
    BY <1>9, <1>11, IdleFound DEF Idle
<1>13. \A b, r : ~Claims(fx, ox, t, b, r)
    BY <1>12 DEF Claims
<1>14. \A v \in Vnode : \A b, r : At(fx, v, b, r) => At(vn, v, b, r) \/ (b = c /\ r = s)
    BY <1>1, <1>6, <1>11 DEF Grows
<1>15. Taken(vn, op, c, s)
    BY <1>1, <1>2 DEF Taken, Claims
<1>16. \A b \in Cluster : \A r \in Slots[b] : \A v \in Vnode : At(fx, v, b, r) => Taken(vn, op, b, r)
    BY <1>14, <1>15 DEF Taken
<1>17. ClaimsKept(dir, vn, op, dir, fx, ox, t)
    BY <1>3, <1>5, <1>13, <1>14 DEF ClaimsKept
<1>18. Reached(t, {})
    BY DEF Reached
<1>19. FoundInv'
    BY <1>2, <1>10, <1>11, <1>12, <1>13, <1>16, <1>17, <1>18, FoundIn
<1> QED BY <1>2, <1>7, <1>19 DEF DataInv

----------------------------------------------------------------------------
(* The calls that make entries and vnodes *)

\* Only slots that are free or that no other thread claims change.
Changes(t) ==
    \A c \in Cluster : \A r \in Slots[c] :
        \/ dir'[c][r] = dir[c][r] \/ dir[c][r] = FreeSlot
        \/ \A u \in Thread \ {t} : ~Claims(vn, op, u, c, r)

\* A slot that is not taken is one no other lookup claims.
LEMMA NotClaimed ==
    ASSUME NEW c, NEW s, ~Taken(vn, op, c, s), NEW t
    PROVE  \A u \in Thread \ {t} : ~Claims(vn, op, u, c, s)
    BY DEF Taken

\* A step that makes a vnode keeps what others found.
LEMMA GrowFound ==
    ASSUME CtlInv, DataInv, FoundInv, NEW t \in Thread, NEW C, Reached(t, C),
           NEW p, NEW c, c = vn[p].first, c \in C, NEW s, Grows(vn, vn', p, s),
           \A u \in Thread \ {t} : op'[u] = op[u], op'[t].pc # "make",
           \A b \in Cluster : b \notin C => dir'[b] = dir[b], Changes(t),
           \/ dir[c][s] = FreeSlot \/ dir[c][s].isdir
           \/ \A u \in Thread \ {t} : ~Claims(vn, op, u, c, s),
           FoundOf(dir', vn', op', t, op'[t])
    PROVE  FoundInv'
<1>1. PICK d1, fx, ox : d1 = dir' /\ fx = vn' /\ ox = op'
    OBVIOUS
<1>2. \A b, r : ~Claims(fx, ox, t, b, r)
    BY <1>1 DEF Claims
<1>3. \A v \in Vnode : \A b, r : At(fx, v, b, r) => At(vn, v, b, r) \/ (b = c /\ r = s)
    BY <1>1 DEF Grows
<1>4. \A b \in Cluster : \A r \in Slots[b] : \A v \in Vnode : At(fx, v, b, r) => b \in C \/ Taken(vn, op, b, r)
    BY <1>3 DEF Taken
<1>5. ClaimsKept(dir, vn, op, d1, fx, ox, t)
    BY <1>1, <1>2, <1>3 DEF ClaimsKept, Changes
<1>6. OthersStay(vn, vn', op, op', t)
    BY GrowsStay
<1> QED BY <1>1, <1>2, <1>4, <1>5, <1>6, FoundIn

\* A step that makes no vnode keeps what others found.
LEMMA KeptFound ==
    ASSUME CtlInv, DataInv, FoundInv, NEW t \in Thread, NEW C, Reached(t, C),
           OthersStay(vn, vn', op, op', t), op'[t].pc # "make",
           \A v \in Vnode : \A b, r : At(vn', v, b, r) => At(vn, v, b, r),
           \A b \in Cluster : b \notin C => dir'[b] = dir[b], Changes(t),
           FoundOf(dir', vn', op', t, op'[t])
    PROVE  FoundInv'
<1>1. PICK d1, fx, ox : d1 = dir' /\ fx = vn' /\ ox = op'
    OBVIOUS
<1>2. \A b, r : ~Claims(fx, ox, t, b, r)
    BY <1>1 DEF Claims
<1>3. \A b \in Cluster : \A r \in Slots[b] : \A v \in Vnode : At(fx, v, b, r) => b \in C \/ Taken(vn, op, b, r)
    BY <1>1 DEF Taken
<1>4. ClaimsKept(dir, vn, op, d1, fx, ox, t)
    BY <1>1, <1>2 DEF ClaimsKept, Changes
<1> QED BY <1>1, <1>2, <1>3, <1>4, FoundIn

\* fat32_make_vnode, as the actions have it
LEMMA MakeVnodeData ==
    ASSUME NEW u, NEW d, NEW dd, Typed(u, d, dd, vn), Data(u, d, dd, vn),
           NEW p \in Vnode, vn[p].used, vn[p].isdir, NEW c, c = vn[p].first,
           NEW s, IsEntry(u, d, c, s), NEW e, e = d[c][s],
           ~e.isdir => \A v \in Vnode : ~At(vn, v, c, s), NEW flags \in SUBSET {"time"},
           NEW f1, f1 = vn \/ f1 = Touched(vn, p), MakeVnode(f1, e, p, s, flags)
    PROVE  Data(u, d, dd, vn')
<1>1. VnodeType(vn) /\ VnodeInv(vn)
    BY DEF Typed
<1>2. Typed(u, d, dd, f1) /\ Data(u, d, dd, f1)
    BY TouchData
<1>3. Kept(vn, f1)
    BY <1>1, KeptSame, KeptTouched
<1>4. /\ f1[p].used /\ f1[p].isdir /\ c = f1[p].first
      /\ \A n \in SpareVnodes : n \in Vnode /\ ~f1[n].used
    BY <1>3 DEF Kept, Stays, SpareVnodes
<1>5. ~d[c][s].isdir => \A v \in Vnode : ~At(f1, v, c, s)
    BY <1>1, <1>3, KeptTree
<1>6. CASE vn' = f1
    BY <1>2, <1>6
<1>7. ASSUME NEW n \in SpareVnodes, vn' = [f1 EXCEPT ![n] = VnodeOf(e, p, s, flags)]
      PROVE  Data(u, d, dd, vn')
    BY <1>2, <1>4, <1>5, <1>7, MakeData
<1> QED BY <1>6, <1>7 DEF MakeVnode

\* fat32_lookup, up to the entry.
LEMMA LookupInv ==
    ASSUME CtlInv, DataInv, FoundInv, Practices = {}, NEW t \in Thread, NEW v \in Vnode, NEW n \in Name,
           Lookup(t, v, n)
    PROVE  DataInv' /\ FoundInv'
<1> USE TreeAssumption
<1>1. Allowed(vn, op, t, v) /\ vn[v].used /\ vn[v].isdir /\ lock[v] = NoThread
    BY MayCallAllowed DEF Lookup
<1>2. PICK c : c = vn[v].first
    OBVIOUS
<1>3. PICK s \in Find(c, n) :
          /\ MayOpen(c, s)
          /\ Go(t, [Idle EXCEPT !.pc = "make", !.v = v, !.n = n, !.s = s, !.e = dir[c][s]])
    BY <1>2 DEF Lookup
<1>4. c \in Cluster /\ s \in Slots[c] /\ s \in Nat /\ dir[c][s] \in Entry /\ dir[c][s] # FreeSlot
    BY <1>1, <1>2, NamedEntry
<1>5. PICK o : o = [Idle EXCEPT !.pc = "make", !.v = v, !.n = n, !.s = s, !.e = dir[c][s]]
    OBVIOUS
<1>6. o \in Op /\ o.pc = "make" /\ o.v = v /\ o.s = s /\ o.e = dir[c][s]
    BY <1>4, <1>5 DEF Idle, Op, PC
<1>7. op'[t] = o /\ \A u \in Thread \ {t} : op'[u] = op[u]
    BY <1>3, <1>5, <1>6, CtlTyped, GoOthers
<1>8. use' = use /\ dir' = dir /\ dotdot' = dotdot /\ vn' = vn
    BY DEF Lookup
<1>9. PICK ox : ox = op'
    OBVIOUS
<1>10. OthersStay(vn, vn, op, ox, t)
    BY <1>7, <1>9, CtlTyped, KeptSame, KeptStay
<1>11. dir[c][s].isdir \/ ~Taken(vn, op, c, s)
    BY <1>3, MayTakeFree DEF MayOpen
<1>12. \A b, r : Claims(vn, ox, t, b, r) <=> b = c /\ r = s
    BY <1>2, <1>6, <1>7, <1>9 DEF Claims
<1>13. ClaimsKept(dir, vn, op, dir, vn, ox, t)
  <2>1. dir[c][s].isdir \/ \A u \in Thread \ {t} : ~Claims(vn, op, u, c, s)
      BY <1>11, NotClaimed
  <2>2. ASSUME NEW u \in Thread \ {t}, NEW b, NEW r, Claims(vn, op, u, b, r), ~dir[b][r].isdir
        PROVE  ~Claims(vn, ox, t, b, r)
      BY <1>12, <2>1, <2>2
  <2> QED BY <2>2, Zenon DEF ClaimsKept
<1>14. Reached(t, {c})
    BY <1>1, <1>2 DEF Reached
<1>15. \A u \in Thread \ {t} : Claims(vn, ox, u, c, s) <=> Claims(vn, op, u, c, s)
    BY <1>10, ClaimOld
<1>16. FoundOf(dir, vn, ox, t, o)
    BY <1>2, <1>4, <1>6, <1>11, <1>15 DEF FoundOf, InRename, Taken
<1>17. \A b \in Cluster : \A r \in Slots[b] : \A x \in Vnode : At(vn, x, b, r) => Taken(vn, op, b, r)
    BY DEF Taken
<1>18. FoundInv'
    BY <1>7, <1>8, <1>9, <1>10, <1>12, <1>13, <1>14, <1>16, <1>17, FoundIn
<1> QED BY <1>8, <1>18 DEF DataInv

\* Room for a new entry
LEMMA RoomFree ==
    ASSUME CtlInv, DataInv, NEW v \in Vnode, vn[v].used, vn[v].isdir, NEW c, c = vn[v].first,
           NEW s \in Room(c)
    PROVE  /\ c \in Cluster /\ use[c] = "dir" /\ s \in Slots[c] /\ dir[c][s] = FreeSlot
           /\ \A x \in Vnode : ~At(vn, x, c, s)
<1>1. PICK g : DiskGood(use, dir, dotdot, g) /\ VnodesGood(use, dir, vn, g)
    BY Zenon DEF DataInv, Data
<1>2. c \in Cluster /\ use[c] = "dir"
    BY <1>1, CtlTyped, DirVnodeUsed
<1>3. s \in Slots[c] /\ dir[c][s].name = NoName
    BY DEF Room, First, Find
<1>4. dir[c][s] = FreeSlot
    BY <1>1, <1>2, <1>3 DEF DiskGood, NoNameFree
<1>5. ASSUME NEW x \in Vnode, At(vn, x, c, s) PROVE FALSE
  <2>1. IsEntry(use, dir, c, s)
      BY <1>1, <1>5, VnodePlace, Zenon
  <2> QED BY <1>4, <2>1 DEF IsEntry
<1> QED BY <1>2, <1>3, <1>4, <1>5

\* fat32_create of a name that is not there, in a slot that is free.
LEMMA CreateInv ==
    ASSUME CtlInv, DataInv, FoundInv, Practices = {}, NEW t \in Thread, NEW v \in Vnode, NEW n \in Name,
           Create(t, v, n)
    PROVE  DataInv' /\ FoundInv'
<1> USE TreeAssumption
<1>1. Allowed(vn, op, t, v) /\ op[t] = Idle /\ vn[v].used /\ vn[v].isdir /\ lock[v] = NoThread
    BY MayCallAllowed DEF Create
<1>2. PICK c : c = vn[v].first
    OBVIOUS
<1>3. PICK e : e = [name |-> n, first |-> NoCluster, size |-> 0, isdir |-> FALSE]
    OBVIOUS
<1>4. /\ e \in Entry /\ e.name \in Name /\ e.isdir = FALSE /\ e.first = NoCluster /\ e.size = 0
      /\ e # FreeSlot
    BY <1>3 DEF Entry, FreeSlot
<1>5. PICK s \in Room(c) : EnterNew(v, s, e)
    BY <1>2, <1>3 DEF Create
<1>6. /\ c \in Cluster /\ use[c] = "dir" /\ s \in Slots[c] /\ dir[c][s] = FreeSlot
      /\ \A x \in Vnode : ~At(vn, x, c, s)
    BY <1>1, <1>2, RoomFree
<1>7. use' = use /\ dotdot' = dotdot /\ op' = op
    BY DEF Create
<1>8. PICK d1 : d1 = Put(dir, c, s, e)
    OBVIOUS
<1>9. dir' = d1
    BY <1>2, <1>4, <1>5, <1>8 DEF EnterNew, Put
<1>10. DirType(d1) /\ d1[c][s] = e /\ Same(dir, d1, c, s) /\ \A b \in Cluster : b # c => d1[b] = dir[b]
    BY <1>4, <1>6, <1>8, CtlTyped, PutEntry
<1>11. Data(use, d1, dotdot, vn)
    BY <1>4, <1>6, <1>8, CtlTyped, NewFileData DEF DataInv
<1>12. Typed(use, d1, dotdot, vn)
    BY <1>10, CtlTyped DEF Typed
<1>13. IsEntry(use, d1, c, s)
    BY <1>4, <1>6, <1>10 DEF IsEntry
<1>14. Data(use, d1, dotdot, vn')
  <2>1. PICK f1, flags : /\ f1 = vn \/ f1 = Touched(vn, v)
                         /\ flags = {"time"} /\ MakeVnode(f1, e, v, s, flags)
      BY <1>5 DEF EnterNew
  <2>2. flags \in SUBSET {"time"} /\ e = d1[c][s]
      BY <1>10, <2>1
  <2> QED BY <1>1, <1>2, <1>6, <1>11, <1>12, <1>13, <2>1, <2>2, MakeVnodeData
<1>15. Grows(vn, vn', v, s)
    BY <1>1, <1>2, <1>4, <1>5, <1>6, EnterNewVnodes
<1>16. Changes(t)
    BY <1>6, <1>9, <1>10 DEF Changes, Same
<1>17. Reached(t, {c})
    BY <1>1, <1>2 DEF Reached
<1>18. op'[t].pc = "idle" /\ FoundOf(dir', vn', op', t, op'[t])
    BY <1>1, <1>7, IdleFound DEF Idle
<1>19. FoundInv'
    BY <1>2, <1>6, <1>7, <1>9, <1>10, <1>15, <1>16, <1>17, <1>18, GrowFound
<1> QED BY <1>7, <1>9, <1>14, <1>19 DEF DataInv

\* fat32_create of a name that is there, which it may truncate.
LEMMA CreateExistingInv ==
    ASSUME CtlInv, DataInv, FoundInv, Practices = {}, NEW t \in Thread, NEW v \in Vnode, NEW n \in Name,
           NEW truncate \in BOOLEAN, CreateExisting(t, v, n, truncate)
    PROVE  DataInv' /\ FoundInv'
<1> USE TreeAssumption
<1>1. Allowed(vn, op, t, v) /\ op[t] = Idle /\ vn[v].used /\ vn[v].isdir /\ lock[v] = NoThread
    BY MayCallAllowed DEF CreateExisting
<1>2. PICK c : c = vn[v].first
    OBVIOUS
<1>3. PICK s \in Find(c, n) :
          /\ MayOpen(c, s)
          /\ truncate /\ ~dir[c][s].isdir => dir[c][s].first = NoCluster
          /\ use' = IF (truncate /\ ~dir[c][s].isdir) /\ dir[c][s].first # NoCluster
                    THEN [use EXCEPT ![dir[c][s].first] = "free"] ELSE use
          /\ MakeVnode(IF dir[c][s].isdir THEN vn ELSE Touched(vn, v),
                       IF truncate /\ ~dir[c][s].isdir
                       THEN [dir[c][s] EXCEPT !.first = NoCluster, !.size = 0] ELSE dir[c][s],
                       v, s, {})
    BY <1>2 DEF CreateExisting
<1>4. PICK e : e = dir[c][s]
    OBVIOUS
<1>5. /\ c \in Cluster /\ s \in Slots[c] /\ s \in Nat /\ e \in Entry /\ e # FreeSlot
      /\ IsEntry(use, dir, c, s) /\ (e.isdir => e.first \in Cluster)
    BY <1>1, <1>2, <1>4, NamedEntry
<1>6. use' = use
    BY <1>3
<1>7. dir' = dir /\ dotdot' = dotdot /\ op' = op
    BY DEF CreateExisting
<1>8. e.isdir \/ ~Taken(vn, op, c, s)
    BY <1>3, <1>4, MayTakeFree DEF MayOpen
<1>9. truncate /\ ~e.isdir => e.first = NoCluster /\ e.size = 0
  <2> SUFFICES ASSUME truncate, ~e.isdir PROVE e.size = 0 /\ e.first = NoCluster
      OBVIOUS
  <2>1. PICK g : DiskGood(use, dir, dotdot, g) /\ VnodesGood(use, dir, vn, g)
      BY Zenon DEF DataInv, Data
  <2>2. \A x \in Vnode : ~At(vn, x, c, s)
      BY <1>8 DEF Taken
  <2>3. e.first = g[c][s].first /\ e.size = g[c][s].size
      BY <1>4, <1>5, <2>1, <2>2, EntryRight
  <2>5. dir[c][s].isdir = FALSE
      BY <1>4, <1>5 DEF Entry
  <2>6. TrueTo(use, dir[c][s].isdir, g[c][s])
      BY <1>5, <2>1 DEF DiskGood, EntriesGood
  <2>4. TrueTo(use, FALSE, g[c][s])
      BY <2>5, <2>6
  <2> QED BY <1>3, <1>4, <2>3, <2>4 DEF TrueTo
<1>10. truncate /\ ~e.isdir => [e EXCEPT !.first = NoCluster, !.size = 0] = e
    BY <1>5, <1>9 DEF Entry
<1>11. PICK f1 : (f1 = vn \/ f1 = Touched(vn, v)) /\ MakeVnode(f1, e, v, s, {})
    BY <1>3, <1>4, <1>10
<1>12. Data(use, dir, dotdot, vn')
  <2>1. PICK flags : flags = {}
      OBVIOUS
  <2>2. flags \in SUBSET {"time"} /\ MakeVnode(f1, e, v, s, flags)
      BY <1>11, <2>1
  <2>3. ~e.isdir => \A x \in Vnode : ~At(vn, x, c, s)
      BY <1>8 DEF Taken
  <2>4. Data(use, dir, dotdot, vn) /\ Typed(use, dir, dotdot, vn)
      BY CtlTyped DEF DataInv
  <2> QED BY <1>1, <1>2, <1>4, <1>5, <1>11, <2>2, <2>3, <2>4, MakeVnodeData
<1>13. Grows(vn, vn', v, s)
  <2>1. Kept(vn, f1)
      BY <1>1, <1>11, CtlTyped, KeptSame, KeptTouched
  <2>2. {} \in SUBSET Flag
      OBVIOUS
  <2> QED BY <1>1, <1>5, <1>11, <2>1, <2>2, CtlTyped, MakeVnodeGrows
<1>14. Changes(t)
    BY <1>7 DEF Changes
<1>15. dir[c][s].isdir \/ \A u \in Thread \ {t} : ~Claims(vn, op, u, c, s)
    BY <1>4, <1>8, NotClaimed
<1>16. Reached(t, {c})
    BY <1>1, <1>2 DEF Reached
<1>17. op'[t].pc = "idle" /\ FoundOf(dir', vn', op', t, op'[t])
    BY <1>1, <1>7, IdleFound DEF Idle
<1>18. FoundInv'
    BY <1>2, <1>7, <1>13, <1>14, <1>15, <1>16, <1>17, GrowFound
<1> QED BY <1>6, <1>7, <1>12, <1>18 DEF DataInv

\* Nothing is in use in a cluster that is free.
LEMMA FreeNotTaken ==
    ASSUME CtlInv, DataInv, NEW c \in Cluster, use[c] = "free", NEW s
    PROVE  ~Taken(vn, op, c, s)
<1>1. PICK g : DiskGood(use, dir, dotdot, g) /\ VnodesGood(use, dir, vn, g)
    BY Zenon DEF DataInv, Data
<1>2. ASSUME NEW x \in Vnode, At(vn, x, c, s) PROVE FALSE
  <2>1. IsEntry(use, dir, c, s)
      BY <1>1, <1>2, VnodePlace, Zenon
  <2> QED BY <2>1 DEF IsEntry
<1>3. ASSUME NEW u \in Thread, Claims(vn, op, u, c, s) PROVE FALSE
  <2>1. op[u].pc = "make" /\ Shape(vn, op[u]) /\ vn[op[u].v].first = c
      BY <1>3 DEF Claims, CtlInv, Ctl
  <2>2. op[u].v \in Vnode /\ vn[op[u].v].used /\ vn[op[u].v].isdir
      BY <2>1 DEF Shape, InDir
  <2>3. use[vn[op[u].v].first] = "dir"
      BY <1>1, <2>2, CtlTyped, DirVnodeUsed
  <2> QED BY <2>1, <2>3
<1> QED BY <1>2, <1>3 DEF Taken

\* fat32_mkdir, in a free slot and a free cluster.
LEMMA MkdirInv ==
    ASSUME CtlInv, DataInv, FoundInv, Practices = {}, NEW t \in Thread, NEW v \in Vnode, NEW n \in Name,
           Mkdir(t, v, n), ~faults'.harm
    PROVE  DataInv' /\ FoundInv'
<1> USE TreeAssumption
<1>1. Allowed(vn, op, t, v) /\ op[t] = Idle /\ vn[v].used /\ vn[v].isdir /\ lock[v] = NoThread
    BY MayCallAllowed DEF Mkdir
<1>2. PICK c : c = vn[v].first
    OBVIOUS
<1>3. PICK new \in Unallocated :
          /\ use' = [use EXCEPT ![new] = "dir"] /\ InitDir(new, c)
          /\ \E s \in Room(c) : EnterNew(v, s, [name |-> n, first |-> new, size |-> 0, isdir |-> TRUE])
    BY <1>2, MishapType, CtlTyped DEF Mkdir
<1>4. PICK e : e = [name |-> n, first |-> new, size |-> 0, isdir |-> TRUE]
    OBVIOUS
<1>5. new \in Cluster /\ use[new] = "free"
    BY DEF Unallocated
<1>6. /\ e \in Entry /\ e.name \in Name /\ e.isdir = TRUE /\ e.first = new /\ e.size = 0
      /\ e # FreeSlot
    BY <1>4, <1>5 DEF Entry, FreeSlot
<1>7. PICK s \in Room(c) : EnterNew(v, s, e)
    BY <1>3, <1>4
<1>8. /\ c \in Cluster /\ use[c] = "dir" /\ s \in Slots[c] /\ dir[c][s] = FreeSlot
      /\ \A x \in Vnode : ~At(vn, x, c, s)
    BY <1>1, <1>2, RoomFree
<1>9. op' = op
    BY DEF Mkdir
<1>10. PICK u1, d1, dd1 : u1 = use' /\ d1 = dir' /\ dd1 = dotdot'
    OBVIOUS
<1>11. DirType(d1) /\ NewDir(dir, d1, c, s, e, new)
  <2>1. d1 = [dir EXCEPT ![c][s] = e, ![new] = EmptyDir(new)]
      BY <1>2, <1>6, <1>7, <1>10 DEF EnterNew
  <2>2. new # c
      BY <1>5, <1>8
  <2> QED BY <1>5, <1>6, <1>8, <2>1, <2>2, CtlTyped, NewDirPut
<1>12. UseType(u1) /\ Sets(use, u1, new, "dir")
    BY <1>3, <1>5, <1>10, CtlTyped DEF UseType, Sets
<1>13. dd1 \in [Cluster -> Cluster] /\ Sets(dotdot, dd1, new, c)
    BY <1>3, <1>5, <1>8, <1>10, CtlTyped DEF InitDir, Sets
<1>14. Data(u1, d1, dd1, vn)
    BY <1>5, <1>6, <1>8, <1>11, <1>12, <1>13, CtlTyped, NewDirData DEF DataInv
<1>15. Typed(u1, d1, dd1, vn)
    BY <1>11, <1>12, <1>13, CtlTyped DEF Typed
<1>16. e = d1[c][s] /\ IsEntry(u1, d1, c, s)
    BY <1>5, <1>6, <1>8, <1>11, <1>12 DEF IsEntry, NewDir, Sets
<1>17. Data(u1, d1, dd1, vn')
  <2>1. PICK f1, flags : /\ f1 = vn \/ f1 = Touched(vn, v)
                         /\ flags = {"time"} /\ MakeVnode(f1, e, v, s, flags)
      BY <1>7 DEF EnterNew
  <2>2. flags \in SUBSET {"time"}
      BY <2>1
  <2> QED BY <1>1, <1>2, <1>6, <1>14, <1>15, <1>16, <2>1, <2>2, MakeVnodeData
<1>18. Grows(vn, vn', v, s)
    BY <1>1, <1>2, <1>5, <1>6, <1>7, <1>8, EnterNewVnodes
<1>19. Changes(t)
  <2>1. \A r : \A u \in Thread \ {t} : ~Claims(vn, op, u, new, r)
      BY <1>5, FreeNotTaken, NotClaimed
  <2> QED BY <1>8, <1>10, <1>11, <2>1 DEF Changes, NewDir
<1>20. Reached(t, {c, new})
    BY <1>1, <1>2, <1>5 DEF Reached
<1>21. op'[t].pc = "idle" /\ FoundOf(dir', vn', op', t, op'[t])
    BY <1>1, <1>9, IdleFound DEF Idle
<1>22. \A b \in Cluster : b \notin {c, new} => dir'[b] = dir[b]
    BY <1>2, <1>6, <1>7, CtlTyped DEF EnterNew, DirType
<1>23. FoundInv'
    BY <1>2, <1>8, <1>9, <1>18, <1>19, <1>20, <1>21, <1>22, GrowFound
<1> QED BY <1>10, <1>17, <1>23 DEF DataInv

----------------------------------------------------------------------------
(* The calls that change entries *)

\* The directory of a call that has its lock
LEMMA LockedReached ==
    ASSUME NEW t \in Thread, NEW x \in Vnode, vn[x].used, vn[x].isdir, Allowed(vn, op, t, x),
           lock[x] \in {t, NoThread}, NEW c, c = vn[x].first
    PROVE  Reached(t, {c})
    BY DEF Reached

\* What a thread has found in the slot that it changes
LEMMA PutChanges ==
    ASSUME NEW t, NEW c, NEW s, ~Taken(vn, op, c, s), Same(dir, dir', c, s)
    PROVE  Changes(t)
<1>1. \A u \in Thread \ {t} : ~Claims(vn, op, u, c, s)
    BY NotClaimed
<1> QED BY <1>1 DEF Changes, Same

\* An entry without a vnode is removed: fat32_remove_common
LEMMA DeleteInv ==
    ASSUME CtlInv, DataInv, NEW c, NEW s, IsEntry(use, dir, c, s), ~Taken(vn, op, c, s),
           NEW first, first = dir[c][s].first,
           dir[c][s].isdir => dir[first] = EmptyDir(first),
           DeleteAndFree(c, s, first), ~faults'.harm, dotdot' = dotdot,
           NEW p \in Vnode, vn[p].used, vn' = Touched(vn, p)
    PROVE  /\ DataInv' /\ Kept(vn, vn') /\ Same(dir, dir', c, s)
           /\ \A b \in Cluster : b # c => dir'[b] = dir[b]
<1>1. c \in Cluster /\ s \in Slots[c] /\ dir[c][s] \in Entry
    BY CtlTyped DEF IsEntry, DirType
<1>2. PICK d1, u1 : /\ d1 = Put(dir, c, s, FreeSlot)
                    /\ u1 = IF dir[c][s].first = NoCluster THEN use
                            ELSE [use EXCEPT ![dir[c][s].first] = "free"]
    OBVIOUS
<1>3. dir' = d1 /\ use' = u1
    BY <1>2, MishapType, CtlTyped DEF DeleteAndFree, Put
<1>4. \A v \in Vnode : ~At(vn, v, c, s)
    BY DEF Taken
<1>5. Data(u1, d1, dotdot, vn)
    BY <1>1, <1>2, <1>4, CtlTyped, DeleteData DEF DataInv
<1>6. DirType(d1) /\ Same(dir, d1, c, s) /\ \A b \in Cluster : b # c => d1[b] = dir[b]
    BY <1>1, <1>2, CtlTyped, PutEntry, FreeSlotEntry
<1>7. UseType(u1)
    BY <1>2, CtlTyped DEF UseType
<1>8. Typed(u1, d1, dotdot, vn)
    BY <1>6, <1>7, CtlTyped DEF Typed
<1>9. Data(u1, d1, dotdot, Touched(vn, p))
    BY <1>5, <1>8, TouchData
<1>10. Kept(vn, vn')
    BY CtlTyped, KeptTouched
<1> QED BY <1>3, <1>6, <1>9, <1>10 DEF DataInv

\* fat32_remove and fat32_rmdir delete the entry that they found.
LEMMA RemoveDeleteInv ==
    ASSUME CtlInv, DataInv, FoundInv, NEW t \in Thread, RemoveDelete(t), ~faults'.harm
    PROVE  DataInv' /\ FoundInv'
<1>1. PICK o, c, s : o = op[t] /\ c = vn[o.v].first /\ s = o.s
    OBVIOUS
<1>2. /\ o.pc = "delete" /\ DeleteAndFree(c, s, o.e.first) /\ vn' = Touched(vn, o.v) /\ Return(t)
      /\ dotdot' = dotdot
    BY <1>1 DEF RemoveDelete
<1>3. /\ c \in Cluster /\ s \in Slots[c] /\ dir[c][s] = o.e /\ IsEntry(use, dir, c, s)
      /\ o.v \in Vnode /\ vn[o.v].used /\ vn[o.v].isdir
    BY <1>1, <1>2, FoundEntry
<1>4. FoundOf(dir, vn, op, t, o) /\ Locks(vn, lock, t, o)
    BY <1>1 DEF FoundInv, CtlInv, Ctl
<1>5. ~Taken(vn, op, c, s) /\ (o.e.isdir => dir[o.e.first] = EmptyDir(o.e.first)) /\ lock[o.v] = t
    BY <1>1, <1>2, <1>4 DEF FoundOf, Locks
<1>6. Allowed(vn, op, t, o.v)
  <2>1. o.v \in UsesOf(vn, op[t])
      BY <1>1, <1>3, TreeAssumption DEF UsesOf
  <2> QED BY <2>1, UsesAllowed DEF CtlInv
<1>7. /\ DataInv' /\ Kept(vn, vn') /\ Same(dir, dir', c, s)
      /\ \A b \in Cluster : b # c => dir'[b] = dir[b]
  <2>1. PICK first, p : first = o.e.first /\ p = o.v
      OBVIOUS
  <2>2. /\ first = dir[c][s].first /\ (dir[c][s].isdir => dir[first] = EmptyDir(first))
        /\ DeleteAndFree(c, s, first) /\ p \in Vnode /\ vn[p].used /\ vn' = Touched(vn, p)
      BY <1>2, <1>3, <1>5, <2>1
  <2> QED BY <1>2, <1>3, <1>5, <2>2, DeleteInv
<1>8. op'[t] = Idle /\ \A u \in Thread \ {t} : op'[u] = op[u]
    BY <1>2, CtlTyped, ReturnOthers DEF Others
<1>9. OthersStay(vn, vn', op, op', t) /\ \A x \in Vnode : \A b, r : At(vn', x, b, r) => At(vn, x, b, r)
    BY <1>7, <1>8, KeptStay
<1>10. op'[t].pc = "idle" /\ FoundOf(dir', vn', op', t, op'[t])
    BY <1>8, IdleFound DEF Idle
<1>11. Reached(t, {c})
    BY <1>1, <1>3, <1>5, <1>6, LockedReached
<1>12. Changes(t)
    BY <1>5, <1>7, PutChanges
<1>13. FoundInv'
    BY <1>7, <1>9, <1>10, <1>11, <1>12, KeptFound
<1> QED BY <1>7, <1>13

\* fat32_rename deletes an entry that has no vnode.
LEMMA RenameReplaceInv ==
    ASSUME CtlInv, DataInv, FoundInv, NEW t \in Thread, RenameReplace(t), ~faults'.harm
    PROVE  DataInv' /\ FoundInv'
<1> USE TreeAssumption
<1>1. PICK o, c, d : o = op[t] /\ c = vn[o.v].first /\ d = vn[o.w].first
    OBVIOUS
<1>2. o.pc = "replace" /\ o.pc \in InRename /\ dotdot' = dotdot /\ lock[o.w] = NoThread
    BY <1>1 DEF RenameReplace, InRename
<1>3. /\ o \in Op /\ o.w \in Vnode /\ vn[o.w].used /\ vn[o.w].isdir /\ Allowed(vn, op, t, o.w)
    BY <1>1, <1>2, RenameVnodes
<1>4. PICK x \in Find(d, o.m) :
          \/ Return(t) /\ UNCHANGED <<use, dir, vn, faults>>
          \/ /\ ~dir[d][x].isdir /\ DeleteAndFree(d, x, dir[d][x].first) /\ vn' = Touched(vn, o.w)
             /\ Go(t, [o EXCEPT !.pc = "move"])
    BY <1>1 DEF RenameReplace
<1>5. CASE Return(t) /\ UNCHANGED <<use, dir, vn, faults>>
  <2>1. op'[t] = Idle /\ \A u \in Thread \ {t} : op'[u] = op[u]
      BY <1>5, CtlTyped, ReturnOthers DEF Others
  <2>2. OthersStay(vn, vn', op, op', t) /\ \A y \in Vnode : \A b, r : At(vn', y, b, r) => At(vn, y, b, r)
      BY <1>5, <2>1, CtlTyped, KeptSame, KeptStay
  <2>3. op'[t].pc = "idle" /\ FoundOf(dir', vn', op', t, op'[t])
      BY <2>1, IdleFound DEF Idle
  <2>4. FoundInv'
      BY <1>5, <2>2, <2>3, QuietFound
  <2> QED BY <1>2, <1>5, <2>4 DEF DataInv
<1>6. CASE /\ ~dir[d][x].isdir /\ DeleteAndFree(d, x, dir[d][x].first) /\ vn' = Touched(vn, o.w)
           /\ Go(t, [o EXCEPT !.pc = "move"])
  <2>1. FoundOf(dir, vn, op, t, o)
      BY <1>1 DEF FoundInv
  <2>2. /\ o.m \in Name /\ o.n \in Name /\ ~(c = d /\ o.n = o.m) /\ o.e.name = o.n /\ o.e.size = 0
        /\ ~Taken(vn, op, c, o.s)
        /\ \A y \in Slots[d] : dir[d][y].name = o.m => ~Taken(vn, op, d, y)
      BY <1>1, <1>2, <2>1 DEF FoundOf
  <2>3. /\ c \in Cluster /\ o.s \in Slots[c] /\ dir[c][o.s] = o.e /\ IsEntry(use, dir, c, o.s)
      BY <1>1, <1>2, FoundEntry
  <2>4. d \in Cluster /\ x \in Slots[d] /\ dir[d][x].name = o.m /\ IsEntry(use, dir, d, x)
      BY <1>1, <1>3, <2>2, NamedEntry
  <2>5. ~Taken(vn, op, d, x)
      BY <2>2, <2>4
  <2>6. /\ DataInv' /\ Kept(vn, vn') /\ Same(dir, dir', d, x)
        /\ \A b \in Cluster : b # d => dir'[b] = dir[b]
    <3>1. PICK first, p : first = dir[d][x].first /\ p = o.w
        OBVIOUS
    <3>2. /\ (dir[d][x].isdir => dir[first] = EmptyDir(first))
          /\ DeleteAndFree(d, x, first) /\ p \in Vnode /\ vn[p].used /\ vn' = Touched(vn, p)
        BY <1>3, <1>6, <3>1
    <3> QED BY <1>2, <2>4, <2>5, <3>1, <3>2, DeleteInv
  <2>7. PICK p : p = [o EXCEPT !.pc = "move"]
      OBVIOUS
  <2>8. /\ p \in Op /\ p.pc = "move" /\ p.v = o.v /\ p.w = o.w /\ p.s = o.s /\ p.e = o.e
        /\ p.n = o.n /\ p.m = o.m
      BY <1>3, <2>7 DEF Op, PC
  <2>9. op'[t] = p /\ \A u \in Thread \ {t} : op'[u] = op[u]
      BY <1>6, <2>7, <2>8, CtlTyped, GoOthers
  <2>10. OthersStay(vn, vn', op, op', t) /\ \A y \in Vnode : \A b, r : At(vn', y, b, r) => At(vn, y, b, r)
      BY <2>6, <2>9, KeptStay
  <2>11. ~Taken(vn', op', c, o.s)
      BY <2>2, <2>8, <2>9, <2>10, StillFree
  <2>12. dir'[c][o.s] = o.e /\ o.e # FreeSlot
      BY <2>2, <2>3, <2>4, <2>6 DEF Same, IsEntry
  <2>13. vn'[o.v].first = c /\ vn'[o.w].first = d
    <3>1. o.v \in Vnode /\ o.w \in Vnode /\ vn[o.v].isdir /\ vn[o.w].isdir
        BY <1>1, <1>2, RenameVnodes
    <3> QED BY <1>1, <2>6, <3>1 DEF Kept, Stays
  <2>14. FoundOf(dir', vn', op', t, p)
    <3>1. PICK d1, fx, ox : d1 = dir' /\ fx = vn' /\ ox = op'
        OBVIOUS
    <3>2. FoundOf(d1, fx, ox, t, p)
        BY <2>2, <2>3, <2>8, <2>11, <2>12, <2>13, <3>1 DEF FoundOf, InRename
    <3> QED BY <3>1, <3>2
  <2>15. Reached(t, {d})
      BY <1>1, <1>2, <1>3, LockedReached
  <2>16. Changes(t)
      BY <2>5, <2>6, PutChanges
  <2>17. FoundInv'
      BY <2>6, <2>8, <2>9, <2>10, <2>14, <2>15, <2>16, KeptFound
  <2> QED BY <2>6, <2>17
<1> QED BY <1>4, <1>5, <1>6

\* What fat32_rename moves, from slot s of c and to an entry e: a file without
\* data, or a directory
Movable(o, c, s, e) ==
    /\ c \in Cluster /\ s \in Slots[c] /\ dir[c][s] = o.e /\ IsEntry(use, dir, c, s)
    /\ ~Taken(vn, op, c, s) /\ (\A v \in Vnode : ~At(vn, v, c, s)) /\ o.e.size = 0
    /\ e \in Entry /\ e.name \in Name /\ e.first = o.e.first /\ e.size = 0 /\ e.isdir = o.e.isdir
    /\ o.e.isdir => o.e.first \in Cluster /\ dotdot[o.e.first] = c

\* What fat32_rename moves is the entry it found, and nobody uses it.
LEMMA MovedEntry ==
    ASSUME CtlInv, DataInv, FoundInv, NEW t \in Thread, NEW o, o = op[t], o.pc = "move",
           NEW c, c = vn[o.v].first, NEW s, s = o.s, NEW e, e = Renamed(o.e, o.m)
    PROVE  Movable(o, c, s, e)
<1>1. /\ c \in Cluster /\ o.s \in Slots[c] /\ dir[c][o.s] = o.e /\ IsEntry(use, dir, c, o.s)
      /\ o \in Op /\ o.e \in Entry
    BY FoundEntry
<1>2. FoundOf(dir, vn, op, t, o)
    BY DEF FoundInv
<1>3. ~Taken(vn, op, c, o.s) /\ o.e.size = 0 /\ o.m \in Name
    BY <1>2 DEF FoundOf, InRename
<1>4. /\ e \in Entry /\ e.isdir = o.e.isdir /\ e.name = o.m /\ e.first = o.e.first /\ e.size = 0
    BY <1>1, <1>3, RenamedEntry
<1>5. ASSUME o.e.isdir PROVE o.e.first \in Cluster /\ dotdot[o.e.first] = c
  <2>1. PICK g : DiskGood(use, dir, dotdot, g) /\ VnodesGood(use, dir, vn, g)
      BY Zenon DEF DataInv, Data
  <2>2. dir[c][o.s].first = g[c][o.s].first /\ dir[c][o.s].isdir
      BY <1>1, <1>5, <2>1, DirEntryRight
  <2>3. g[c][o.s].first \in Cluster /\ dotdot[g[c][o.s].first] = c
      BY <1>1, <2>1, <2>2 DEF DiskGood, EntriesGood, TrueTo
  <2> QED BY <1>1, <2>2, <2>3
<1> QED BY <1>1, <1>3, <1>4, <1>5 DEF Taken, Movable

\* fat32_rename within one directory.
LEMMA RenameInPlaceInv ==
    ASSUME CtlInv, DataInv, FoundInv, NEW t \in Thread, RenameInPlace(t)
    PROVE  DataInv' /\ FoundInv'
<1> USE TreeAssumption
<1>1. PICK o, c, s, e : o = op[t] /\ c = vn[o.v].first /\ s = o.s /\ e = Renamed(o.e, o.m)
    OBVIOUS
<1>2. /\ o.pc = "move" /\ o.pc \in InRename /\ c = vn[o.w].first
      /\ dir' = [dir EXCEPT ![c][s] = e] /\ vn' = Touched(vn, o.v) /\ Return(t)
      /\ use' = use /\ dotdot' = dotdot
    BY <1>1 DEF RenameInPlace, InRename, SameDir
<1>3. /\ o.v \in Vnode /\ vn[o.v].used /\ vn[o.v].isdir /\ Allowed(vn, op, t, o.v) /\ lock[o.v] = t
      /\ o.w \in Vnode /\ vn[o.w].used /\ vn[o.w].isdir
    BY <1>1, <1>2, RenameVnodes
<1>4. /\ c \in Cluster /\ s \in Slots[c] /\ dir[c][s] = o.e /\ IsEntry(use, dir, c, s)
      /\ ~Taken(vn, op, c, s) /\ (\A v \in Vnode : ~At(vn, v, c, s)) /\ o.e.size = 0
      /\ e \in Entry /\ e.name \in Name /\ e.first = o.e.first /\ e.size = 0 /\ e.isdir = o.e.isdir
      /\ o.e.isdir => o.e.first \in Cluster /\ dotdot[o.e.first] = c
  <2>1. Movable(o, c, s, e)
      BY <1>1, <1>2, MovedEntry
  <2> QED BY <2>1 DEF Movable
<1>5. PICK d1 : d1 = Put(dir, c, s, e)
    OBVIOUS
<1>6. dir' = d1
    BY <1>2, <1>5 DEF Put
<1>7. DirType(d1) /\ d1[c][s] = e /\ Same(dir, d1, c, s) /\ \A b \in Cluster : b # c => d1[b] = dir[b]
    BY <1>4, <1>5, CtlTyped, PutEntry
<1>8. Moves(dir, d1, c, s, c, s, e)
    BY <1>7 DEF Moves, Same
<1>9. IF dir[c][s].isdir THEN Relinks(dotdot, dotdot, dir[c][s].first, c) ELSE dotdot = dotdot
    BY <1>4 DEF Relinks
<1>10. Data(use, d1, dotdot, vn)
  <2>1. PICK w : w = o.w
      OBVIOUS
  <2>2. w \in Vnode /\ vn[w].used /\ vn[w].isdir /\ c = vn[w].first /\ Data(use, dir, dotdot, vn)
      BY <1>2, <1>3, <2>1 DEF DataInv
  <2>3. e.first = dir[c][s].first /\ e.isdir = dir[c][s].isdir /\ dir[c][s].size = 0
      BY <1>4
  <2> QED BY <1>4, <1>8, <1>9, <2>2, <2>3, CtlTyped, MoveData
<1>11. Typed(use, d1, dotdot, vn)
    BY <1>7, CtlTyped DEF Typed
<1>12. Data(use, d1, dotdot, Touched(vn, o.v))
    BY <1>3, <1>10, <1>11, TouchData
<1>13. Kept(vn, vn')
    BY <1>2, <1>3, CtlTyped, KeptTouched
<1>14. op'[t] = Idle /\ \A u \in Thread \ {t} : op'[u] = op[u]
    BY <1>2, CtlTyped, ReturnOthers DEF Others
<1>15. OthersStay(vn, vn', op, op', t) /\ \A x \in Vnode : \A b, r : At(vn', x, b, r) => At(vn, x, b, r)
    BY <1>13, <1>14, KeptStay
<1>16. op'[t].pc = "idle" /\ FoundOf(dir', vn', op', t, op'[t])
    BY <1>14, IdleFound DEF Idle
<1>17. Reached(t, {c})
    BY <1>1, <1>3, LockedReached
<1>18. Changes(t)
    BY <1>4, <1>6, <1>7, PutChanges
<1>19. FoundInv'
    BY <1>6, <1>7, <1>15, <1>16, <1>17, <1>18, KeptFound
<1> QED BY <1>2, <1>6, <1>12, <1>19 DEF DataInv

\* fat32_rename touches both directories.
LEMMA TouchTwice ==
    ASSUME NEW u, NEW d, NEW dd, NEW fw, Typed(u, d, dd, fw), Data(u, d, dd, fw),
           NEW v \in Vnode, fw[v].used, NEW w \in Vnode, fw[w].used, NEW fx,
           fx = fw \/ fx = Touched(fw, v) \/ fx = Touched(Touched(fw, v), w)
    PROVE  Data(u, d, dd, fx)
<1>1. PICK f1 : f1 = Touched(fw, v)
    OBVIOUS
<1>2. Typed(u, d, dd, f1) /\ Data(u, d, dd, f1)
    BY <1>1, TouchData
<1>3. f1[w].used
    BY <1>1, KeptTouched DEF Kept, Stays, Typed
<1>4. Data(u, d, dd, Touched(f1, w))
    BY <1>2, <1>3, TouchData
<1> QED BY <1>1, <1>2, <1>4

\* fat32_rename to another directory: a directory that moved has ".." set.
LEMMA RenameMoveInv ==
    ASSUME CtlInv, DataInv, FoundInv, NEW t \in Thread, RenameMove(t), ~faults'.harm
    PROVE  DataInv' /\ FoundInv'
<1> USE TreeAssumption
<1>1. PICK o, c, s, e, b, gone :
          /\ o = op[t] /\ c = vn[o.v].first /\ s = o.s /\ e = Renamed(o.e, o.m) /\ b = vn[o.w].first
          /\ gone = [dir EXCEPT ![c][s] = FreeSlot]
    OBVIOUS
<1>2. /\ o.pc = "move" /\ o.pc \in InRename /\ Return(t) /\ use' = use
      /\ \/ /\ \E r \in Slots[b] : gone[b][r] = FreeSlot /\ dir' = [gone EXCEPT ![b][r] = e]
            /\ IF c = b THEN UNCHANGED <<dotdot, faults>> ELSE DotDotMoved(o.e, b)
            /\ vn' = IF c = b THEN Touched(vn, o.v) ELSE Touched(Touched(vn, o.v), o.w)
         \/ dir' = dir /\ UNCHANGED <<dotdot, vn>>
  <2>1. ~Mishap /\ ~Loss
      BY MishapType, LossType, CtlTyped
  <2>2. SameDir(o) <=> c = b
      BY <1>1 DEF SameDir
  <2>3. \/ /\ \E r \in Slots[b] : gone[b][r] = FreeSlot /\ dir' = [gone EXCEPT ![b][r] = e]
           /\ IF SameDir(o) THEN UNCHANGED <<dotdot, faults>> ELSE DotDotMoved(o.e, b)
           /\ vn' = IF SameDir(o) THEN Touched(vn, o.v) ELSE Touched(Touched(vn, o.v), o.w)
        \/ dir' = dir /\ UNCHANGED <<dotdot, vn>>
      BY <1>1, <2>1 DEF RenameMove, First
  <2>4. o.pc = "move" /\ o.pc \in InRename /\ Return(t) /\ use' = use
      BY <1>1 DEF RenameMove, InRename
  <2> QED BY <2>2, <2>3, <2>4
<1>3. /\ o.v \in Vnode /\ vn[o.v].used /\ vn[o.v].isdir /\ Allowed(vn, op, t, o.v) /\ lock[o.v] = t
      /\ o.w \in Vnode /\ vn[o.w].used /\ vn[o.w].isdir /\ Allowed(vn, op, t, o.w) /\ b \in Cluster
    BY <1>1, <1>2, RenameVnodes
<1>4. op'[t] = Idle /\ \A u \in Thread \ {t} : op'[u] = op[u]
    BY <1>2, CtlTyped, ReturnOthers DEF Others
<1>5. op'[t].pc = "idle" /\ FoundOf(dir', vn', op', t, op'[t])
    BY <1>4, IdleFound DEF Idle
<1>6. Kept(vn, vn')
  <2>1. vn' = vn \/ vn' = Touched(vn, o.v) \/ vn' = Touched(Touched(vn, o.v), o.w)
      BY <1>2
  <2> QED BY <1>3, <2>1, CtlTyped, MoveTouches
<1>7. OthersStay(vn, vn', op, op', t) /\ \A x \in Vnode : \A a, r : At(vn', x, a, r) => At(vn, x, a, r)
    BY <1>4, <1>6, KeptStay
<1>8. CASE dir' = dir /\ UNCHANGED <<dotdot, vn>>
  <2>1. FoundInv'
      BY <1>5, <1>7, <1>8, QuietFound
  <2> QED BY <1>2, <1>8, <2>1 DEF DataInv
<1>9. ASSUME NEW r \in Slots[b], gone[b][r] = FreeSlot, dir' = [gone EXCEPT ![b][r] = e],
             IF c = b THEN UNCHANGED <<dotdot, faults>> ELSE DotDotMoved(o.e, b),
             vn' = IF c = b THEN Touched(vn, o.v) ELSE Touched(Touched(vn, o.v), o.w)
      PROVE  DataInv' /\ FoundInv'
  <2>1. /\ c \in Cluster /\ s \in Slots[c] /\ dir[c][s] = o.e /\ IsEntry(use, dir, c, s)
        /\ ~Taken(vn, op, c, s) /\ (\A v \in Vnode : ~At(vn, v, c, s)) /\ o.e.size = 0
        /\ e \in Entry /\ e.name \in Name /\ e.first = o.e.first /\ e.size = 0 /\ e.isdir = o.e.isdir
        /\ o.e.isdir => o.e.first \in Cluster /\ dotdot[o.e.first] = c
    <3>1. Movable(o, c, s, e)
        BY <1>1, <1>2, MovedEntry
    <3> QED BY <3>1 DEF Movable
  <2>2. r \in Slots[b] /\ gone[b][r] = FreeSlot
      BY <1>9
  <2>3. dir[b][r] = FreeSlot \/ (b = c /\ r = s)
      BY <1>1, <1>3, <2>1, <2>2, CtlTyped DEF DirType
  <2>4. PICK d1, dd1 : d1 = dir' /\ dd1 = dotdot'
      OBVIOUS
  <2>5. DirType(d1) /\ Moves(dir, d1, c, s, b, r, e)
    <3>1. d1 = [[dir EXCEPT ![c][s] = FreeSlot] EXCEPT ![b][r] = e]
        BY <1>1, <1>9, <2>4
    <3> QED BY <1>3, <2>1, <2>2, <3>1, CtlTyped, MovePut
  <2>6. (IF dir[c][s].isdir THEN Relinks(dotdot, dd1, dir[c][s].first, b) ELSE dd1 = dotdot)
            /\ dd1 \in [Cluster -> Cluster]
    <3>1. dotdot \in [Cluster -> Cluster]
        BY CtlTyped
    <3>2. CASE c = b
      <4>1. dd1 = dotdot
          BY <1>9, <2>4, <3>2
      <4> QED BY <2>1, <3>1, <3>2, <4>1 DEF Relinks
    <3>3. CASE c # b
      <4>1. IF o.e.isdir THEN dd1 = [dotdot EXCEPT ![o.e.first] = b] ELSE dd1 = dotdot
          BY <1>9, <2>4, <3>3, MishapType, CtlTyped DEF DotDotMoved
      <4> QED BY <1>3, <2>1, <3>1, <4>1 DEF Relinks
    <3> QED BY <3>2, <3>3
  <2>7. Data(use, d1, dd1, vn)
    <3>1. PICK w : w = o.w
        OBVIOUS
    <3>2. w \in Vnode /\ vn[w].used /\ vn[w].isdir /\ b = vn[w].first /\ Data(use, dir, dotdot, vn)
        BY <1>1, <1>3, <3>1 DEF DataInv
    <3>3. e.first = dir[c][s].first /\ e.isdir = dir[c][s].isdir /\ dir[c][s].size = 0
        BY <2>1
    <3>4. IF dir[c][s].isdir THEN Relinks(dotdot, dd1, dir[c][s].first, b) ELSE dd1 = dotdot
        BY <2>6
    <3>5. /\ c \in Cluster /\ s \in Slots[c] /\ IsEntry(use, dir, c, s)
          /\ (\A v \in Vnode : ~At(vn, v, c, s)) /\ e \in Entry /\ e.name \in Name /\ e.size = 0
        BY <2>1
    <3>6. Moves(dir, d1, c, s, b, r, e) /\ Typed(use, dir, dotdot, vn)
        BY <2>5, CtlTyped
    <3> QED BY <2>2, <2>3, <3>2, <3>3, <3>4, <3>5, <3>6, MoveData
  <2>8. Typed(use, d1, dd1, vn)
      BY <2>5, <2>6, CtlTyped DEF Typed
  <2>9. Data(use, d1, dd1, vn')
    <3>1. PICK v, w, fx : v = o.v /\ w = o.w /\ fx = vn'
        OBVIOUS
    <3>2. fx = vn \/ fx = Touched(vn, v) \/ fx = Touched(Touched(vn, v), w)
        BY <1>9, <3>1
    <3>3. v \in Vnode /\ vn[v].used /\ w \in Vnode /\ vn[w].used
        BY <1>3, <3>1
    <3> QED BY <2>7, <2>8, <3>1, <3>2, <3>3, TouchTwice
  <2>10. Reached(t, {c, b})
    <3>1. c = b \/ lock[o.w] = t
        BY <1>1, <1>2 DEF CtlInv, Ctl, Locks
    <3> QED BY <1>1, <1>3, <3>1 DEF Reached
  <2>11. \A a \in Cluster : a \notin {c, b} => dir'[a] = dir[a]
      BY <1>1, <1>9, CtlTyped DEF DirType
  <2>12. Changes(t)
    <3>1. \A u \in Thread \ {t} : ~Claims(vn, op, u, c, s)
        BY <2>1, NotClaimed
    <3> QED BY <2>3, <2>4, <2>5, <3>1 DEF Changes, Moves
  <2>13. FoundInv'
      BY <1>5, <1>7, <2>10, <2>11, <2>12, KeptFound
  <2> QED BY <1>2, <2>4, <2>9, <2>13 DEF DataInv
<1> QED BY <1>2, <1>8, <1>9

\* fat32_sync_metadata writes the entry of its own vnode.
LEMMA SyncSelfInv ==
    ASSUME CtlInv, DataInv, FoundInv, NEW t \in Thread, SyncSelf(t), ~faults'.harm
    PROVE  DataInv' /\ FoundInv'
<1> USE TreeAssumption
<1>1. PICK o, v, x, c, s : o = op[t] /\ v = o.v /\ x = vn[v] /\ c = vn[x.parent].first /\ s = x.s
    OBVIOUS
<1>2. /\ o.pc = "sync_self" /\ o.pc \in InSync /\ Return(t) /\ use' = use /\ dotdot' = dotdot
      /\ \/ /\ dir' = [dir EXCEPT ![c][s] = WriteBack(@, x)]
            /\ vn' = [vn EXCEPT ![v] = IF o.last THEN NoFatVnode ELSE [x EXCEPT !.dirty = {}]]
         \/ /\ ~o.last \/ x.dirty = {"time"}
            /\ vn' = IF o.last THEN [vn EXCEPT ![v] = NoFatVnode] ELSE vn
            /\ dir' = dir
  <2>1. ~Mishap
      BY MishapType, CtlTyped
  <2> QED BY <1>1, <2>1 DEF SyncSelf, InSync
<1>3. /\ v \in Vnode /\ v # RootVnode /\ vn[v].used /\ x.parent \in Vnode
      /\ vn[x.parent].used /\ vn[x.parent].isdir /\ Allowed(vn, op, t, x.parent) /\ c \in Cluster
      /\ o.last => /\ \A y \in Vnode : vn[y].parent # v
                   /\ \A u \in Thread \ {t} : v \notin UsesOf(vn, op[u])
    BY <1>1, <1>2, SyncVnodes
<1>4. lock[x.parent] = t
    BY <1>1, <1>2 DEF CtlInv, Ctl, Locks
<1>5. op'[t] = Idle /\ \A u \in Thread \ {t} : op'[u] = op[u]
    BY <1>2, CtlTyped, ReturnOthers DEF Others
<1>6. op'[t].pc = "idle" /\ FoundOf(dir', vn', op', t, op'[t])
    BY <1>5, IdleFound DEF Idle
<1>7. x \in FatVnode /\ At(vn, v, c, s)
    BY <1>1, <1>3, CtlTyped DEF VnodeType, At
<1>8. ASSUME o.last, vn' = [vn EXCEPT ![v] = NoFatVnode]
      PROVE  OthersStay(vn, vn', op, op', t) /\ \A y \in Vnode : \A b, r : At(vn', y, b, r) => At(vn, y, b, r)
  <2>1. Goes(vn, vn', v)
      BY <1>3, <1>8, CtlTyped, GoneGoes
  <2>2. OthersStay(vn, vn', op, op', t)
      BY <1>3, <1>5, <1>8, <2>1, GoesStay
  <2> QED BY <2>1, <2>2 DEF Goes
<1>9. CASE /\ ~o.last \/ x.dirty = {"time"}
           /\ vn' = IF o.last THEN [vn EXCEPT ![v] = NoFatVnode] ELSE vn
           /\ dir' = dir
  <2>1. CASE o.last
    <3>1. FoundInv'
        BY <1>6, <1>8, <1>9, <2>1, QuietFound
    <3>2. Data(use, dir, dotdot, vn) /\ Typed(use, dir, dotdot, vn)
        BY CtlTyped DEF DataInv
    <3>3. vn[v].dirty \subseteq {"time"}
        BY <1>1, <1>9, <2>1
    <3>4. Data(use, dir, dotdot, [vn EXCEPT ![v] = NoFatVnode])
        BY <1>3, <2>1, <3>2, <3>3, GoneData
    <3> QED BY <1>2, <1>9, <2>1, <3>1, <3>4 DEF DataInv
  <2>2. CASE ~o.last
    <3>1. OthersStay(vn, vn', op, op', t) /\ \A y \in Vnode : \A b, r : At(vn', y, b, r) => At(vn, y, b, r)
        BY <1>5, <1>9, <2>2, CtlTyped, KeptSame, KeptStay
    <3>2. FoundInv'
        BY <1>6, <1>9, <3>1, QuietFound
    <3> QED BY <1>2, <1>9, <2>2, <3>2 DEF DataInv
  <2> QED BY <2>1, <2>2
<1>10. CASE /\ dir' = [dir EXCEPT ![c][s] = WriteBack(@, x)]
            /\ vn' = [vn EXCEPT ![v] = IF o.last THEN NoFatVnode ELSE [x EXCEPT !.dirty = {}]]
  <2>1. PICK d1, fx : /\ d1 = [dir EXCEPT ![c][s] = WriteBack(@, vn[v])]
                      /\ fx = [vn EXCEPT ![v] = [vn[v] EXCEPT !.dirty = {}]]
      OBVIOUS
  <2>2. Typed(use, d1, dotdot, fx) /\ Data(use, d1, dotdot, fx)
      BY <1>3, <1>7, <2>1, CtlTyped, SyncData DEF DataInv
  <2>3. dir' = d1
      BY <1>1, <1>10, <2>1
  <2>4. PICK g : DiskGood(use, dir, dotdot, g) /\ VnodesGood(use, dir, vn, g)
      BY Zenon DEF DataInv, Data
  <2>5. s \in Slots[c] /\ IsEntry(use, dir, c, s) /\ Agrees(vn[v], dir[c][s], g[c][s])
      BY <1>3, <1>7, <2>4, VnodePlace, Zenon
  <2>6. Same(dir, d1, c, s) /\ d1[c][s] = WriteBack(dir[c][s], x) /\ \A b \in Cluster : b # c => d1[b] = dir[b]
      BY <1>1, <1>3, <2>1, <2>5, CtlTyped DEF Same, DirType
  <2>7. d1[c][s] = dir[c][s] \/ \A u \in Thread \ {t} : ~Claims(vn, op, u, c, s)
    <3>1. CASE dir[c][s].isdir
      <4>1. x.dirty \subseteq {"time"}
          BY <1>1, <2>5, <3>1 DEF Agrees
      <4>2. dir[c][s] \in Entry /\ dir[c][s] # FreeSlot
          BY <1>3, <2>5, CtlTyped DEF DirType, IsEntry
      <4> QED BY <1>7, <2>6, <4>1, <4>2, WriteBackIs
    <3>2. CASE ~dir[c][s].isdir
      <4>1. ASSUME NEW u \in Thread \ {t}, Claims(vn, op, u, c, s) PROVE FALSE
        <5>1. FoundOf(dir, vn, op, u, op[u]) /\ op[u].pc = "make" /\ vn[op[u].v].first = c /\ op[u].s = s
            BY <4>1 DEF FoundInv, Claims
        <5>2. op[u].e = dir[c][s]
            BY <5>1 DEF FoundOf
        <5>3. \A y \in Vnode : ~At(vn, y, c, s)
            BY <3>2, <5>1, <5>2 DEF FoundOf
        <5> QED BY <1>3, <1>7, <5>3
      <4> QED BY <4>1
    <3> QED BY <3>1, <3>2
  <2>8. Changes(t)
      BY <2>3, <2>6, <2>7 DEF Changes, Same
  <2>9. Reached(t, {c})
      BY <1>1, <1>3, <1>4, LockedReached
  <2>10. ASSUME OthersStay(vn, vn', op, op', t),
                \A y \in Vnode : \A b, r : At(vn', y, b, r) => At(vn, y, b, r)
         PROVE  FoundInv'
      BY <1>6, <2>3, <2>6, <2>8, <2>9, <2>10, KeptFound
  <2>11. fx[v].dirty = {} /\ fx[v].used = vn[v].used /\ \A y \in Vnode : fx[y].parent = vn[y].parent
      BY <1>3, <2>1, CtlTyped DEF VnodeType, FatVnode
  <2>12. CASE o.last
    <3>1. vn' = [vn EXCEPT ![v] = NoFatVnode]
        BY <1>10, <2>12
    <3>2. [fx EXCEPT ![v] = NoFatVnode] = [vn EXCEPT ![v] = NoFatVnode]
        BY <2>1, CtlTyped DEF VnodeType
    <3>3. Data(use, d1, dotdot, [fx EXCEPT ![v] = NoFatVnode])
        BY <1>3, <2>2, <2>11, <2>12, GoneData
    <3>4. FoundInv'
        BY <1>8, <2>10, <2>12, <3>1
    <3> QED BY <1>2, <2>3, <3>1, <3>2, <3>3, <3>4 DEF DataInv
  <2>13. CASE ~o.last
    <3>1. vn' = fx
        BY <1>1, <1>10, <2>1, <2>13
    <3>2. Kept(vn, fx)
      <4>1. PICK y : y = SetFlags(x, {}) /\ y = [x EXCEPT !.dirty = {}]
          BY DEF SetFlags
      <4>2. /\ y \in FatVnode /\ y.used = x.used /\ y.isdir = x.isdir /\ y.parent = x.parent /\ y.s = x.s
            /\ y.first = x.first
          BY <1>7, <4>1, VnodeFlags
      <4> QED BY <1>1, <1>3, <2>1, <4>1, <4>2, CtlTyped, KeptSet
    <3>3. FoundInv'
        BY <1>5, <2>10, <3>1, <3>2, KeptStay
    <3> QED BY <1>2, <2>2, <2>3, <3>1, <3>3 DEF DataInv
  <2> QED BY <2>12, <2>13
<1> QED BY <1>2, <1>9, <1>10

----------------------------------------------------------------------------
(* The invariant *)

\* What holds as long as no harm was done
GoodInv == CtlInv /\ DataInv /\ FoundInv

\* The types and the vnodes at the start.
LEMMA InitTypes ==
    ASSUME Init PROVE TypeOK /\ VnodeInv(vn)
<1> USE TreeAssumption
<1>1. NoFatVnode \in FatVnode /\ RootFatVnode \in FatVnode /\ Idle \in Op
  <2>1. NoFatVnode \in FatVnode
      BY DEF NoFatVnode, FatVnode
  <2>2. RootFatVnode \in FatVnode
    <3>1. PICK x : x = [NoFatVnode EXCEPT !.used = TRUE]
        OBVIOUS
    <3>2. PICK y : y = [x EXCEPT !.first = Root]
        OBVIOUS
    <3>3. x \in FatVnode
        BY <2>1, <3>1 DEF FatVnode
    <3>4. y \in FatVnode
        BY <3>2, <3>3 DEF FatVnode
    <3>5. RootFatVnode = [y EXCEPT !.isdir = TRUE]
        BY <3>1, <3>2 DEF RootFatVnode
    <3> QED BY <3>4, <3>5 DEF FatVnode
  <2>3. Idle \in Op
      BY FreeSlotEntry DEF Idle, Op, PC
  <2> QED BY <2>1, <2>2, <2>3
<1>2. use \in [Cluster -> {"free", "dir", "file", "data"}] /\ dotdot \in [Cluster -> Cluster]
    BY DEF Init
<1>3. DOMAIN dir = Cluster /\ \A c \in Cluster : dir[c] \in [Slots[c] -> Entry]
    BY FreeSlotEntry DEF Init, EmptyDir
<1>4. vn \in [Vnode -> FatVnode]
    BY <1>1 DEF Init
<1>5. lock \in [Vnode -> Thread \cup {NoThread}] /\ op \in [Thread -> Op]
    BY <1>1 DEF Init
<1>6. faults \in [met : 0 .. MaxFaults, harm : BOOLEAN]
    BY DEF Init
<1>7. vn[RootVnode] = RootFatVnode /\ \A v \in Vnode : v # RootVnode => vn[v] = NoFatVnode
    BY DEF Init
<1>8. /\ NoFatVnode.used = FALSE
      /\ RootFatVnode.used = TRUE /\ RootFatVnode.first = Root
    BY DEF NoFatVnode, RootFatVnode
<1>9. VnodeInv(vn)
    BY <1>7, <1>8 DEF VnodeInv
<1> QED BY <1>2, <1>3, <1>4, <1>5, <1>6, <1>9 DEF TypeOK

\* The volume that is mounted satisfies the invariant.
LEMMA InitGood ==
    ASSUME Init PROVE GoodInv
<1> USE TreeAssumption
<1>1. TypeOK /\ VnodeInv(vn)
    BY InitTypes
<1>2. \A t \in Thread : op[t] = Idle /\ op[t].pc = "idle" /\ op[t].last = FALSE /\ UsesOf(vn, op[t]) = {}
    BY DEF Init, Idle, UsesOf
<1>3. CtlInv
  <2>1. \A t \in Thread : Shape(vn, op[t]) /\ Locks(vn, lock, t, op[t])
    <3>1. Idle.pc = "idle" /\ Idle.w = NoVnode
        BY DEF Idle
    <3>2. ASSUME NEW t \in Thread, NEW o, o = op[t] PROVE Shape(vn, o) /\ Locks(vn, lock, t, o)
        BY <1>2, <3>1, <3>2 DEF Shape, Locks, InDir, InRename, InSync
    <3> QED BY <3>2
  <2>2. LastAlone(vn, op) /\ Exclusion(vn, op)
      BY <1>2 DEF LastAlone, Exclusion
  <2> QED BY <1>1, <2>1, <2>2 DEF CtlInv, Ctl
<1>4. FoundInv
    BY <1>2, IdleFound DEF FoundInv
<1>5. DataInv
  <2>1. PICK g : g = [c \in Cluster |-> [s \in Slots[c] |-> [first |-> NoCluster, size |-> 0]]]
      OBVIOUS
  <2>2. IsGood(g)
      BY <2>1 DEF IsGood
  <2>3. \A c \in Cluster : \A s \in Slots[c] : dir[c][s] = FreeSlot
      BY DEF Init, EmptyDir
  <2>4. \A c, s : ~IsEntry(use, dir, c, s)
      BY <2>3 DEF IsEntry
  <2>5. \A c \in Cluster : use[c] = IF c = Root THEN "dir" ELSE "free"
      BY DEF Init
  <2>6. NoNameFree(use, dir) /\ EntriesGood(use, dir, dotdot, g) /\ OneOwner(use, dir, g)
      BY <2>3, <2>4 DEF NoNameFree, EntriesGood, OneOwner
  <2>7. NoneLost(use, dir, g) /\ NoCircle(use, dotdot)
      BY <2>5 DEF NoneLost, NoCircle
  <2>8. DiskGood(use, dir, dotdot, g)
      BY <2>5, <2>6, <2>7 DEF DiskGood
  <2>9. \A v \in Vnode : \A c, s : ~At(vn, v, c, s)
    <3>1. \A v \in Vnode : v # RootVnode => ~vn[v].used
        BY DEF Init, NoFatVnode
    <3> QED BY <3>1 DEF At
  <2>10. VnodesGood(use, dir, vn, g)
      BY <2>4, <2>9, PlacesGood
  <2> QED BY <2>2, <2>8, <2>10, Zenon DEF DataInv, Data
<1> QED BY <1>3, <1>4, <1>5 DEF GoodInv

\* Nothing changes when nothing happens.
LEMMA StutterGood ==
    ASSUME GoodInv, UNCHANGED vars PROVE GoodInv'
    BY DEF GoodInv, CtlInv, TypeOK, DataInv, FoundInv, vars

\* A call goes on.
LEMMA StepCtl ==
    ASSUME CtlInv, NEW t \in Thread, Step(t)
    PROVE  CtlInv'
    BY LookupMakeCtl, RemoveDeleteCtl, RenameLockTargetCtl, RenameReplaceCtl, RenameInPlaceCtl,
       RenameMoveCtl, SyncLockParentCtl, SyncSelfCtl DEF Step

\* Every later step of a call keeps the invariant.
LEMMA StepGood ==
    ASSUME GoodInv, Practices = {}, NEW t \in Thread, Step(t), ~faults'.harm
    PROVE  GoodInv'
<1>1. CtlInv /\ DataInv /\ FoundInv
    BY DEF GoodInv
<1>2. CtlInv'
    BY <1>1, StepCtl
<1>3. DataInv' /\ FoundInv'
    BY <1>1, LookupMakeInv, RemoveDeleteInv, RenameLockTargetInv, RenameReplaceInv, RenameInPlaceInv,
       RenameMoveInv, SyncLockParentInv, SyncSelfInv DEF Step
<1> QED BY <1>2, <1>3 DEF GoodInv

\* A call begins.
LEMMA BeginCtl ==
    ASSUME GoodInv, Practices = {}, NEW t \in Thread, Begin(t)
    PROVE  CtlInv'
<1>1. CtlInv /\ DataInv
    BY DEF GoodInv
<1>2. PICK v \in Vnode :
        \/ \E n \in Name :
             \/ Lookup(t, v, n) \/ Create(t, v, n) \/ Mkdir(t, v, n) \/ RemoveFind(t, v, n)
             \/ \E truncate \in BOOLEAN : CreateExisting(t, v, n, truncate)
             \/ \E w \in Vnode, m \in Name : RenameCall(t, v, n, w, m)
        \/ \E b \in BOOLEAN : Setattr(t, v, b) \/ Sync(t, v, b)
        \/ Write(t, v) \/ Inactive(t, v)
    BY DEF Begin
<1>3. ASSUME NEW n \in Name,
             \/ Lookup(t, v, n) \/ Create(t, v, n) \/ Mkdir(t, v, n) \/ RemoveFind(t, v, n)
             \/ \E truncate \in BOOLEAN : CreateExisting(t, v, n, truncate)
             \/ \E w \in Vnode, m \in Name : RenameCall(t, v, n, w, m)
      PROVE  CtlInv'
    BY <1>1, <1>3, LookupCtl, CreateCtl, MkdirCtl, RemoveFindCtl, CreateExistingCtl, RenameCallCtl
<1>4. ASSUME NEW b \in BOOLEAN, Setattr(t, v, b) \/ Sync(t, v, b) PROVE CtlInv'
    BY <1>1, <1>4, SetattrCtl, SyncCtl
<1>5. CASE Write(t, v) \/ Inactive(t, v)
    BY <1>1, <1>5, WriteCtl, InactiveCtl
<1> QED BY <1>2, <1>3, <1>4, <1>5

\* Every first step of a call keeps the invariant.
LEMMA BeginGood ==
    ASSUME GoodInv, Practices = {}, NEW t \in Thread, Begin(t), ~faults'.harm
    PROVE  GoodInv'
<1>1. CtlInv /\ DataInv /\ FoundInv
    BY DEF GoodInv
<1>2. CtlInv'
    BY BeginCtl
<1>3. PICK v \in Vnode :
        \/ \E n \in Name :
             \/ Lookup(t, v, n) \/ Create(t, v, n) \/ Mkdir(t, v, n) \/ RemoveFind(t, v, n)
             \/ \E truncate \in BOOLEAN : CreateExisting(t, v, n, truncate)
             \/ \E w \in Vnode, m \in Name : RenameCall(t, v, n, w, m)
        \/ \E b \in BOOLEAN : Setattr(t, v, b) \/ Sync(t, v, b)
        \/ Write(t, v) \/ Inactive(t, v)
    BY DEF Begin
<1>4. ASSUME NEW n \in Name,
             \/ Lookup(t, v, n) \/ Create(t, v, n) \/ Mkdir(t, v, n) \/ RemoveFind(t, v, n)
             \/ \E truncate \in BOOLEAN : CreateExisting(t, v, n, truncate)
             \/ \E w \in Vnode, m \in Name : RenameCall(t, v, n, w, m)
      PROVE  DataInv' /\ FoundInv'
    BY <1>1, <1>4, LookupInv, CreateInv, MkdirInv, RemoveFindInv, CreateExistingInv, RenameCallInv
<1>5. ASSUME NEW b \in BOOLEAN, Setattr(t, v, b) \/ Sync(t, v, b) PROVE DataInv' /\ FoundInv'
    BY <1>1, <1>5, SetattrInv, SyncInv
<1>6. ASSUME Write(t, v) \/ Inactive(t, v) PROVE DataInv' /\ FoundInv'
    BY <1>1, <1>6, WriteInv, InactiveInv
<1>7. DataInv' /\ FoundInv'
    BY <1>3, <1>4, <1>5, <1>6
<1> QED BY <1>2, <1>7 DEF GoodInv

\* Harm is not undone.
FaultType == faults \in [met : 0 .. MaxFaults, harm : BOOLEAN]

\* Failures are counted up to the bound, and harm is not undone.
LEMMA FaultStep ==
    ASSUME FaultType, NEW t, Step(t) \/ Begin(t)
    PROVE  FaultType' /\ (faults.harm => faults'.harm)
<1> USE TreeAssumption
<1>1. faults' = faults \/ Mishap \/ Survived \/ Loss
  <2>1. LookupMake(t) \/ RenameLockTarget(t) \/ RenameInPlace(t) \/ SyncLockParent(t) => faults' = faults
      BY DEF LookupMake, RenameLockTarget, RenameInPlace, SyncLockParent
  <2>2. ASSUME NEW c, NEW s, NEW first, DeleteAndFree(c, s, first) PROVE faults' = faults \/ Mishap
      BY <2>2 DEF DeleteAndFree
  <2>3. RemoveDelete(t) => faults' = faults \/ Mishap
      BY <2>2 DEF RemoveDelete
  <2>4. RenameReplace(t) => faults' = faults \/ Mishap
      BY <2>2 DEF RenameReplace
  <2>5. RenameMove(t) => faults' = faults \/ Mishap \/ Survived \/ Loss
      BY DEF RenameMove, DotDotMoved
  <2>6. SyncSelf(t) => faults' = faults \/ Mishap \/ Survived
      BY DEF SyncSelf
  <2>7. ASSUME NEW v, NEW n
        PROVE  /\ Lookup(t, v, n) \/ Create(t, v, n) => faults' = faults
               /\ Mkdir(t, v, n) \/ RemoveFind(t, v, n) => faults' = faults \/ Mishap
               /\ \A b : CreateExisting(t, v, n, b) => faults' = faults \/ Mishap
               /\ \A w, m : RenameCall(t, v, n, w, m) => faults' = faults
      BY DEF Lookup, Create, Mkdir, RemoveFind, DirEmpty, CreateExisting, RenameCall
  <2>8. ASSUME NEW v
        PROVE  /\ Write(t, v) \/ Inactive(t, v) => faults' = faults \/ Mishap
               /\ \A b : Setattr(t, v, b) \/ Sync(t, v, b) => faults' = faults \/ Mishap
      BY DEF Write, Survived, Inactive, Setattr, Sync
  <2>9. Begin(t) => faults' = faults \/ Mishap
      BY <2>7, <2>8 DEF Begin
  <2> QED BY <2>1, <2>3, <2>4, <2>5, <2>6, <2>9 DEF Step
<1>2. CASE faults' = faults
    BY <1>2 DEF FaultType
<1>3. CASE Mishap
    BY <1>3 DEF FaultType, Mishap
<1>4. CASE Survived
    BY <1>4 DEF FaultType, Survived
<1>5. CASE Loss
    BY <1>5 DEF FaultType, Loss
<1> QED BY <1>1, <1>2, <1>3, <1>4, <1>5

\* As long as no harm was done the invariant holds.
TreeInv == FaultType /\ (Undamaged => GoodInv)

\* Every step keeps the invariant.
LEMMA TreeInvStep ==
    ASSUME Practices = {}, TreeInv, [Next]_vars
    PROVE  TreeInv'
<1>1. CASE UNCHANGED vars
  <2>1. faults' = faults
      BY <1>1 DEF vars
  <2>2. ASSUME Undamaged' PROVE GoodInv'
      BY <1>1, <2>1, <2>2, StutterGood DEF TreeInv, Undamaged
  <2> QED BY <2>1, <2>2 DEF TreeInv, FaultType
<1>2. ASSUME NEW t \in Thread, Step(t) \/ Begin(t) PROVE TreeInv'
  <2>1. FaultType' /\ (faults.harm => faults'.harm)
      BY <1>2, FaultStep DEF TreeInv
  <2>2. ASSUME Undamaged' PROVE GoodInv'
    <3>1. ~faults'.harm /\ GoodInv
        BY <2>1, <2>2 DEF TreeInv, Undamaged
    <3> QED BY <1>2, <3>1, StepGood, BeginGood
  <2> QED BY <2>1, <2>2 DEF TreeInv
<1> QED BY <1>1, <1>2 DEF Next

\* The vnodes, the disk and the calls agree, in every state in which no harm
\* was done by device errors or full directories: by then every directory
\* entry, vnode and lock is as the driver's calls left it.
THEOREM TreeSound ==
    ASSUME Practices = {}
    PROVE  Spec => []TreeInv
<1>1. Init => TreeInv
    BY InitGood DEF TreeInv, FaultType, GoodInv, CtlInv, TypeOK
<1>2. TreeInv /\ [Next]_vars => TreeInv'
    BY TreeInvStep
<1> QED BY <1>1, <1>2, PTL DEF Spec

\* While processes begin no calls once harm was done, the state keeps its type
\* and the locks their order also after a device error.
TypeInv == CtlInv /\ TreeInv

\* Every step keeps the types, if processes stop at the first harm.
LEMMA TypeInvStep ==
    ASSUME Practices = {}, ~CallsAfterHarm, TypeInv, [Next]_vars
    PROVE  TypeInv'
<1>1. TreeInv'
    BY TreeInvStep DEF TypeInv
<1>2. CASE UNCHANGED vars
    BY <1>1, <1>2 DEF TypeInv, CtlInv, TypeOK, vars
<1>3. ASSUME NEW t \in Thread, Step(t) PROVE TypeInv'
    BY <1>1, <1>3, StepCtl DEF TypeInv
<1>4. ASSUME NEW t \in Thread, Begin(t) PROVE TypeInv'
  <2>1. Undamaged
    <3>1. ASSUME NEW v, NEW n
          PROVE  /\ Lookup(t, v, n) \/ Create(t, v, n) => MayCall(t, v)
                 /\ Mkdir(t, v, n) \/ RemoveFind(t, v, n) => MayCall(t, v)
                 /\ \A b : CreateExisting(t, v, n, b) => MayCall(t, v)
                 /\ \A w, m : RenameCall(t, v, n, w, m) => MayCall(t, v)
        BY DEF Lookup, Create, Mkdir, RemoveFind, CreateExisting, RenameCall
    <3>2. ASSUME NEW v
          PROVE  /\ Write(t, v) \/ Inactive(t, v) => MayCall(t, v)
                 /\ \A b : Setattr(t, v, b) \/ Sync(t, v, b) => MayCall(t, v)
        BY DEF Write, Inactive, Setattr, Sync
    <3>3. \E v : MayCall(t, v)
        BY <1>4, <3>1, <3>2 DEF Begin
    <3> QED BY <3>3 DEF MayCall, Undamaged
  <2>2. GoodInv
      BY <2>1 DEF TypeInv, TreeInv
  <2> QED BY <1>1, <1>4, <2>2, BeginCtl DEF TypeInv
<1> QED BY <1>2, <1>3, <1>4 DEF Next

\* Every piece of the state keeps its type, also after device errors.
THEOREM TreeTypes ==
    ASSUME Practices = {}, ~CallsAfterHarm
    PROVE  Spec => []TypeOK
<1>1. Init => TypeInv
    BY InitGood DEF TypeInv, TreeInv, FaultType, GoodInv, CtlInv, TypeOK
<1>2. TypeInv /\ [Next]_vars => TypeInv'
    BY TypeInvStep
<1>3. TypeInv => TypeOK
    BY DEF TypeInv, CtlInv
<1> QED BY <1>1, <1>2, <1>3, PTL DEF Spec

----------------------------------------------------------------------------
(* What follows for files and directories *)

\* Places as pairs
LEMMA EntryPair ==
    ASSUME NEW p
    PROVE  p \in Entries <=> \E c, s : p = <<c, s>> /\ IsEntry(use, dir, c, s)
<1>1. ASSUME p \in Entries PROVE \E c, s : p = <<c, s>> /\ IsEntry(use, dir, c, s)
  <2>1. PICK c \in Cluster : use[c] = "dir" /\ p \in {c} \X Slots[c]
      BY <1>1 DEF Entries, Places
  <2>2. PICK s \in Slots[c] : p = <<c, s>>
      BY <2>1
  <2> QED BY <1>1, <2>1, <2>2 DEF Entries, IsEntry
<1>2. ASSUME NEW c, NEW s, p = <<c, s>>, IsEntry(use, dir, c, s) PROVE p \in Entries
  <2>1. c \in Cluster /\ s \in Slots[c] /\ use[c] = "dir" /\ dir[c][s] # FreeSlot
      BY <1>2 DEF IsEntry
  <2>2. p \in {c} \X Slots[c]
      BY <1>2, <2>1
  <2>3. p \in Places
      BY <2>1, <2>2 DEF Places
  <2> QED BY <1>2, <2>1, <2>3 DEF Entries
<1> QED BY <1>1, <1>2

\* The vnodes of an entry are the ones at its slot.
LEMMA VnodesPair ==
    ASSUME NEW c, NEW s
    PROVE  \A v : v \in VnodesAt(<<c, s>>) <=> v \in Vnode /\ At(vn, v, c, s)
    BY DEF VnodesAt, At

\* What a place refers to
LEMMA ReferredIs ==
    ASSUME GoodInv, NEW g, DiskGood(use, dir, dotdot, g), VnodesGood(use, dir, vn, g),
           NEW c, NEW s, IsEntry(use, dir, c, s)
    PROVE  Referred(<<c, s>>) = g[c][s].first
<1>1. c \in Cluster /\ s \in Slots[c]
    BY DEF IsEntry
<1>2. CASE VnodesAt(<<c, s>>) = {}
  <2>1. \A v \in Vnode : ~At(vn, v, c, s)
      BY <1>2, VnodesPair
  <2>2. dir[c][s].first = g[c][s].first
      BY <1>1, <2>1, EntryRight
  <2> QED BY <1>2, <2>2 DEF Referred
<1>3. CASE VnodesAt(<<c, s>>) # {}
  <2>1. PICK v : v = CHOOSE x \in VnodesAt(<<c, s>>) : TRUE
      OBVIOUS
  <2>2. v \in VnodesAt(<<c, s>>)
      BY <1>3, <2>1
  <2>3. v \in Vnode /\ At(vn, v, c, s)
      BY <2>2, VnodesPair
  <2>4. Agrees(vn[v], dir[c][s], g[c][s])
      BY <2>3, VnodePlace, Zenon
  <2> QED BY <1>3, <2>1, <2>4 DEF Referred, Agrees
<1> QED BY <1>2, <1>3

\* What is true of a first cluster and size, as EntriesTrue says it
LEMMA TrueIs ==
    ASSUME NEW isdir \in BOOLEAN, NEW x, TrueTo(use, isdir, x)
    PROVE  IF isdir THEN x.first # NoCluster /\ use[x.first] = "dir"
           ELSE IF x.first = NoCluster THEN x.size = 0
           ELSE use[x.first] = IF x.size = 0 THEN "file" ELSE "data"
    BY TreeAssumption DEF TrueTo

\* What a process wrote, truncated or renamed is in the entry, or in the vnode
\* and marked dirty: fat32_write, fat32_setattr, fat32_create, fat32_rename,
\* and the write-back by fat32_sync_metadata lose nothing to one another.
THEOREM WritesKept ==
    ASSUME Practices = {}
    PROVE  Spec => []EntriesTrue
<1>1. ASSUME TreeInv PROVE EntriesTrue
  <2> SUFFICES ASSUME Undamaged PROVE EntriesTrue
      BY DEF EntriesTrue
  <2>1. GoodInv /\ CtlInv
      BY <1>1 DEF TreeInv, GoodInv
  <2>2. PICK g : DiskGood(use, dir, dotdot, g) /\ VnodesGood(use, dir, vn, g)
      BY <2>1, Zenon DEF GoodInv, DataInv, Data
  <2>3. ASSUME NEW v \in Vnode \ {RootVnode}, vn[v].used
        PROVE  <<vn[vn[v].parent].first, vn[v].s>> \in Entries
    <3>1. PICK c, s : c = vn[vn[v].parent].first /\ s = vn[v].s
        OBVIOUS
    <3>2. At(vn, v, c, s) /\ v \in Vnode
        BY <2>3, <3>1 DEF At
    <3>3. IsEntry(use, dir, c, s)
        BY <2>2, <3>2, VnodePlace, Zenon
    <3> QED BY <3>1, <3>3, EntryPair
  <2>4. ASSUME NEW p \in Entries
        PROVE  LET e == dir[p[1]][p[2]]
                   True(first, size) ==
                       IF e.isdir THEN first # NoCluster /\ use[first] = "dir"
                       ELSE IF first = NoCluster THEN size = 0
                       ELSE use[first] = IF size = 0 THEN "file" ELSE "data"
               IN /\ VnodesAt(p) = {} => True(e.first, e.size)
                  /\ \A v \in VnodesAt(p) :
                       /\ vn[v].isdir = e.isdir /\ True(vn[v].first, vn[v].size)
                       /\ vn[v].first # e.first => "cluster" \in vn[v].dirty
                       /\ vn[v].size # e.size => "size" \in vn[v].dirty
    <3>1. PICK c, s : p = <<c, s>> /\ IsEntry(use, dir, c, s)
        BY <2>4, EntryPair
    <3>2. PICK e, x : e = dir[c][s] /\ x = g[c][s]
        OBVIOUS
    <3>3. c \in Cluster /\ s \in Slots[c] /\ p[1] = c /\ p[2] = s /\ e \in Entry
        BY <2>1, <3>1, <3>2, CtlTyped DEF IsEntry, DirType
    <3>4. e.isdir \in BOOLEAN /\ TrueTo(use, e.isdir, x)
        BY <2>2, <3>1, <3>2, <3>3 DEF DiskGood, EntriesGood, Entry
    <3>5. IF e.isdir THEN x.first # NoCluster /\ use[x.first] = "dir"
          ELSE IF x.first = NoCluster THEN x.size = 0
          ELSE use[x.first] = IF x.size = 0 THEN "file" ELSE "data"
        BY <3>4, TrueIs
    <3>6. ASSUME VnodesAt(p) = {} PROVE e.first = x.first /\ e.size = x.size
      <4>1. \A v \in Vnode : ~At(vn, v, c, s)
          BY <3>1, <3>6, VnodesPair
      <4> QED BY <2>2, <3>1, <3>2, <3>3, <4>1, EntryRight
    <3>7. ASSUME NEW v \in VnodesAt(p)
          PROVE  /\ vn[v].isdir = e.isdir /\ vn[v].first = x.first /\ vn[v].size = x.size
                 /\ vn[v].first # e.first => "cluster" \in vn[v].dirty
                 /\ vn[v].size # e.size => "size" \in vn[v].dirty
      <4>1. v \in Vnode /\ At(vn, v, c, s)
          BY <3>1, <3>7, VnodesPair
      <4>2. Agrees(vn[v], dir[c][s], g[c][s])
          BY <2>2, <4>1, VnodePlace, Zenon
      <4> QED BY <3>2, <4>2 DEF Agrees
    <3> QED BY <3>2, <3>3, <3>5, <3>6, <3>7
  <2> QED BY <2>3, <2>4 DEF EntriesTrue
<1> QED BY <1>1, TreeSound, PTL

\* No cluster is lost and none is shared: every allocated cluster belongs to
\* one file or directory, whatever calls run side by side.
THEOREM ClustersOwnedOnce ==
    ASSUME Practices = {}
    PROVE  Spec => []EachClusterOnce
<1>1. ASSUME TreeInv PROVE EachClusterOnce
  <2> SUFFICES ASSUME Undamaged, NEW c \in Cluster \ {Root}
               PROVE  use[c] # "free" <=> Cardinality({p \in Entries : Referred(p) = c}) = 1
      BY DEF EachClusterOnce
  <2>1. GoodInv
      BY <1>1 DEF TreeInv
  <2>2. PICK g : DiskGood(use, dir, dotdot, g) /\ VnodesGood(use, dir, vn, g)
      BY <2>1, Zenon DEF GoodInv, DataInv, Data
  <2>3. PICK P : P = {p \in Entries : Referred(p) = c}
      OBVIOUS
  <2>4. c # NoCluster
      BY TreeAssumption
  <2>5. ASSUME NEW p
        PROVE  p \in P <=> \E b, s : p = <<b, s>> /\ IsEntry(use, dir, b, s) /\ g[b][s].first = c
      BY <2>1, <2>2, <2>3, EntryPair, ReferredIs
  <2>6. CASE use[c] = "free"
    <3>1. P = {}
      <4>1. ASSUME NEW b, NEW s, IsEntry(use, dir, b, s), g[b][s].first = c PROVE FALSE
        <5>1. b \in Cluster /\ s \in Slots[b] /\ EntriesGood(use, dir, dotdot, g)
            BY <2>2, <4>1 DEF IsEntry, DiskGood
        <5>2. use[g[b][s].first] \in {"dir", "file", "data"}
            BY <4>1, <5>1, OwnedUsed
        <5> QED BY <2>6, <4>1, <5>2
      <4> QED BY <2>5, <4>1
    <3>2. Cardinality(P) = 0
        BY <3>1, FS_EmptySet
    <3> QED BY <2>3, <2>6, <3>2
  <2>7. CASE use[c] # "free"
    <3>0. \E b \in Cluster : \E s \in Slots[b] : IsEntry(use, dir, b, s) /\ g[b][s].first = c
        BY <2>2, <2>7 DEF DiskGood, NoneLost
    <3>1. PICK b, s : b \in Cluster /\ s \in Slots[b] /\ IsEntry(use, dir, b, s) /\ g[b][s].first = c
        BY <3>0
    <3>2. ASSUME NEW a, NEW r, IsEntry(use, dir, a, r), g[a][r].first = c PROVE a = b /\ r = s
      <4>1. a \in Cluster /\ r \in Slots[a]
          BY <3>2 DEF IsEntry
      <4> QED BY <2>2, <2>4, <3>1, <3>2, <4>1 DEF DiskGood, OneOwner
    <3>3. P = {<<b, s>>}
        BY <2>5, <3>1, <3>2
    <3>4. Cardinality(P) = 1
        BY <3>3, FS_Singleton
    <3> QED BY <2>3, <2>7, <3>4
  <2> QED BY <2>6, <2>7
<1> QED BY <1>1, TreeSound, PTL

\* The directories stay a tree: fat32_rename sets ".." of a directory that
\* moved, and no directory is moved below itself.
THEOREM AlwaysTree ==
    ASSUME Practices = {}
    PROVE  Spec => []Tree
<1>1. ASSUME TreeInv PROVE Tree
  <2> SUFFICES ASSUME Undamaged PROVE Tree
      BY DEF Tree
  <2>1. GoodInv
      BY <1>1 DEF TreeInv
  <2>2. PICK g : DiskGood(use, dir, dotdot, g) /\ VnodesGood(use, dir, vn, g)
      BY <2>1, Zenon DEF GoodInv, DataInv, Data
  <2>3. ASSUME NEW p \in Entries, dir[p[1]][p[2]].isdir
        PROVE  dotdot[dir[p[1]][p[2]].first] = p[1]
    <3>1. PICK c, s : p = <<c, s>> /\ IsEntry(use, dir, c, s)
        BY <2>3, EntryPair
    <3>2. c \in Cluster /\ s \in Slots[c] /\ p[1] = c /\ p[2] = s
        BY <3>1 DEF IsEntry
    <3>3. dir[c][s].first = g[c][s].first
        BY <2>2, <2>3, <3>1, <3>2, DirEntryRight
    <3>4. dotdot[g[c][s].first] = c
        BY <2>2, <2>3, <3>1, <3>2 DEF DiskGood, EntriesGood
    <3> QED BY <3>2, <3>3, <3>4
  <2>4. NoCircle(use, dotdot)
      BY <2>2 DEF DiskGood
  <2> QED BY <2>3, <2>4 DEF Tree, NoCircle
<1> QED BY <1>1, TreeSound, PTL

\* What fat32_remove_common and fat32_rename free of a file is no directory.
LEMMA FileNoDir ==
    ASSUME CtlInv, DataInv, NEW c, NEW s, IsEntry(use, dir, c, s), ~Taken(vn, op, c, s),
           ~dir[c][s].isdir, NEW x \in Cluster, use[x] = "dir"
    PROVE  dir[c][s].first # x
<1>1. PICK g : DiskGood(use, dir, dotdot, g) /\ VnodesGood(use, dir, vn, g)
    BY Zenon DEF DataInv, Data
<1>2. c \in Cluster /\ s \in Slots[c] /\ \A v \in Vnode : ~At(vn, v, c, s)
    BY DEF IsEntry, Taken
<1>3. dir[c][s].first = g[c][s].first
    BY <1>1, <1>2, EntryRight
<1>4. dir[c][s].isdir = FALSE
    BY <1>2, CtlTyped DEF DirType, Entry
<1>5. TrueTo(use, dir[c][s].isdir, g[c][s])
    BY <1>1, <1>2 DEF DiskGood, EntriesGood
<1> QED BY <1>3, <1>4, <1>5, TreeAssumption DEF TrueTo

\* fat32_remove_common frees a cluster, and that only.
LEMMA DeleteFrees ==
    ASSUME UseType(use), NEW c, NEW s, NEW first, DeleteAndFree(c, s, first), NEW x \in Cluster,
           use[x] = "dir", use'[x] = "free"
    PROVE  first = x
    BY DEF DeleteAndFree, UseType

\* A directory that a call frees is one that fat32_rmdir has found empty.
LEMMA FreedByRmdir ==
    ASSUME GoodInv, Practices = {}, NEW t \in Thread, Step(t) \/ Begin(t), ~faults'.harm,
           NEW x \in Cluster, use[x] = "dir", use'[x] = "free"
    PROVE  op[t].pc = "delete" /\ op[t].e.isdir /\ op[t].e.first = x
<1> USE TreeAssumption
<1>1. CtlInv /\ DataInv /\ FoundInv /\ UseType(use)
    BY CtlTyped DEF GoodInv
<1>2. use' # use
    OBVIOUS
<1>3. CASE RemoveDelete(t)
  <2>1. PICK o, c, s, first : o = op[t] /\ c = vn[o.v].first /\ s = o.s /\ first = o.e.first
      OBVIOUS
  <2>2. o.pc = "delete" /\ DeleteAndFree(c, s, first)
      BY <1>3, <2>1 DEF RemoveDelete
  <2>3. first = x
      BY <1>1, <2>2, DeleteFrees
  <2>4. IsEntry(use, dir, c, s) /\ dir[c][s] = o.e
      BY <1>1, <2>1, <2>2, FoundEntry
  <2>5. FoundOf(dir, vn, op, t, o)
      BY <1>1, <2>1 DEF FoundInv
  <2>6. ~Taken(vn, op, c, s)
      BY <2>1, <2>2, <2>5 DEF FoundOf
  <2>7. ASSUME ~o.e.isdir PROVE FALSE
    <3>1. ~dir[c][s].isdir
        BY <2>4, <2>7
    <3>2. dir[c][s].first # x
        BY <1>1, <2>4, <2>6, <3>1, FileNoDir
    <3> QED BY <2>1, <2>3, <2>4, <3>2
  <2> QED BY <2>1, <2>2, <2>3, <2>7
<1>4. CASE RenameReplace(t)
  <2>1. PICK o, d : o = op[t] /\ d = vn[o.w].first
      OBVIOUS
  <2>2. o.pc = "replace" /\ o.pc \in InRename
      BY <1>4, <2>1 DEF RenameReplace, InRename
  <2>3. PICK y \in Find(d, o.m) : ~dir[d][y].isdir /\ DeleteAndFree(d, y, dir[d][y].first)
      BY <1>2, <1>4, <2>1 DEF RenameReplace
  <2>4. FoundOf(dir, vn, op, t, o)
      BY <1>1, <2>1 DEF FoundInv
  <2>5. o.m \in Name /\ \A q \in Slots[d] : dir[d][q].name = o.m => ~Taken(vn, op, d, q)
      BY <2>1, <2>2, <2>4 DEF FoundOf
  <2>6. o.w \in Vnode /\ vn[o.w].used /\ vn[o.w].isdir
      BY <1>1, <2>1, <2>2, RenameVnodes
  <2>7. y \in Slots[d] /\ dir[d][y].name = o.m /\ IsEntry(use, dir, d, y)
      BY <1>1, <2>1, <2>5, <2>6, NamedEntry
  <2>8. PICK first : first = dir[d][y].first
      OBVIOUS
  <2>9. first = x
      BY <1>1, <2>3, <2>8, DeleteFrees
  <2> QED BY <1>1, <2>3, <2>5, <2>7, <2>8, <2>9, FileNoDir
<1>5. CASE Step(t) /\ ~RemoveDelete(t) /\ ~RenameReplace(t)
  <2>1. use' = use
      BY <1>5 DEF Step, LookupMake, RenameLockTarget, RenameInPlace, RenameMove, SyncLockParent, SyncSelf
  <2> QED BY <1>2, <2>1
<1>6. CASE Begin(t)
  <2>1. ASSUME NEW v, NEW n
        PROVE  /\ ~Lookup(t, v, n) /\ ~Create(t, v, n) /\ ~RemoveFind(t, v, n)
               /\ \A w, m : ~RenameCall(t, v, n, w, m)
      BY <1>2 DEF Lookup, Create, RemoveFind, RenameCall
  <2>2. ASSUME NEW v, NEW n, Mkdir(t, v, n) PROVE FALSE
      BY <1>1, <2>2 DEF Mkdir, UseType
  <2>3. ASSUME NEW v, NEW n, NEW b, CreateExisting(t, v, n, b) PROVE FALSE
      BY <1>2, <2>3 DEF CreateExisting
  <2>4. ASSUME NEW v, NEW b, Sync(t, v, b) \/ Inactive(t, v) PROVE FALSE
      BY <1>2, <2>4 DEF Sync, Inactive
  <2>5. ASSUME NEW v, Write(t, v) PROVE FALSE
      BY <1>1, <1>2, <2>5 DEF Write, UseType
  <2>6. ASSUME NEW v \in Vnode, NEW b, Setattr(t, v, b) PROVE FALSE
    <3>1. b /\ ~vn[v].isdir /\ use' = [use EXCEPT ![vn[v].first] = "free"] /\ vn[v].first # NoCluster
        BY <1>2, <2>6 DEF Setattr
    <3>2. vn[v].used
        BY <2>6 DEF Setattr, MayCall
    <3>3. use[vn[v].first] \in {"file", "data"}
        BY <1>1, <3>1, <3>2, SizeOrNone
    <3> QED BY <1>1, <3>1, <3>3 DEF UseType
  <2>7. PICK v \in Vnode :
        \/ \E n \in Name :
             \/ Lookup(t, v, n) \/ Create(t, v, n) \/ Mkdir(t, v, n) \/ RemoveFind(t, v, n)
             \/ \E truncate \in BOOLEAN : CreateExisting(t, v, n, truncate)
             \/ \E w \in Vnode, m \in Name : RenameCall(t, v, n, w, m)
        \/ \E b \in BOOLEAN : Setattr(t, v, b) \/ Sync(t, v, b)
        \/ Write(t, v) \/ Inactive(t, v)
      BY <1>6 DEF Begin
  <2> QED BY <2>1, <2>2, <2>3, <2>4, <2>5, <2>6, <2>7
<1> QED BY <1>3, <1>4, <1>5, <1>6

\* fat32_rmdir frees no directory that has entries when it frees it, though
\* it does not lock the directory it removes.  Practices = {} is what this
\* rests on: nobody removes a directory while a process has a vnode of it, or
\* is about to get one, so that no entry is made in it after fat32_dirempty.
THEOREM RemovesOnlyEmpty ==
    ASSUME Practices = {}
    PROVE  Spec => OnlyEmptyRemoved
<1>1. ASSUME TreeInv, [Next]_vars
      PROVE  [Undamaged' => \A c \in Cluster :
                use[c] = "dir" /\ use'[c] = "free" => dir[c] = EmptyDir(c)]_vars
  <2> SUFFICES ASSUME Undamaged', Next, NEW c \in Cluster, use[c] = "dir", use'[c] = "free"
               PROVE  dir[c] = EmptyDir(c)
      BY <1>1
  <2>1. PICK t \in Thread : Step(t) \/ Begin(t)
      BY DEF Next
  <2>2. ~faults'.harm /\ GoodInv
      BY <1>1, <2>1, FaultStep DEF TreeInv, Undamaged
  <2>3. op[t].pc = "delete" /\ op[t].e.isdir /\ op[t].e.first = c
      BY <2>1, <2>2, FreedByRmdir
  <2> QED BY <2>2, <2>3, DeletedAlone DEF GoodInv
<1> QED BY <1>1, TreeSound, PTL DEF Spec, OnlyEmptyRemoved
=============================================================================
