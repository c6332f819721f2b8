----------------------------- MODULE MCDirSlots -----------------------------
(* Small directories for DirSlots. *)
EXTENDS DirSlots, TLC

CONSTANTS t1, t2, dira, dirb, a1, a2, b1, f1, f2, README, readme, novel

Threads == {t1, t2}
OneDir  == {dira}
TwoDirs == {dira, dirb}

\* Two lookups of one directory, and one of each of two directories
AVnodes  == {a1, a2}
HomeA    == (a1 :> dira) @@ (a2 :> dira)
ABVnodes == {a1, b1}
HomeAB   == (a1 :> dira) @@ (b1 :> dirb)

\* A name in 8.3 form, the same name in lower case, and a longer one
TwoNames   == {readme, novel}
ThreeNames == {README, readme, novel}
Widths == [n \in Name |-> CASE n = README -> 1 [] n = readme -> 2 [] n = novel -> 3]
Folds  == [n \in Name |-> IF n = novel THEN novel ELSE readme]

\* A directory of k clusters with one file, of name n, and a deleted slot
\* before it; the clusters that are not in use hold old entries.
Holding(n, f, k) ==
    [i \in Position |-> IF i = 0 THEN DeletedSlot
                        ELSE IF i <= Width[n] THEN EntrySlot(n, f, i - 1)
                        ELSE IF i < k * PerCluster \/ i % 2 = 0 THEN EndSlot
                        ELSE ShortSlot(n, NoFile)]

OneDirSlots     == (dira :> Holding(readme, f1, 1))
OneDirClusters  == (dira :> 1)
FullDirSlots    == (dira :> Holding(novel, f1, 2))
FullDirClusters == (dira :> 2)
TwoDirsSlots    == FullDirSlots @@ (dirb :> [i \in Position |-> EndSlot])
TwoDirsClusters == FullDirClusters @@ (dirb :> 1)

\* These volumes are sound: their one file is the entry at 1.
Mounted0 ==
    [d \in Directory |-> [a \in Position |->
        IF a = 1 /\ Slots0[d][a].kind = "lfn" THEN [name |-> Slots0[d][a].name, file |-> f1] ELSE NoEntry]]

ASSUME SoundAtMount == EndsLast /\ Mounted0 \in Entries /\ MountedWith(Mounted0)

ThreadSymmetry == Permutations(Threads)
=============================================================================
