----------------------------- MODULE MCFileTree -----------------------------
(* A small disk for FileTree. *)
EXTENDS FileTree, TLC

CONSTANTS t1, t2, root, c1, c2, c3, rootvp, v1, v2, n1, n2

\* The directory in c1 has room for two entries, the others for one.
SmallSlots == [c \in Cluster |-> IF c = c1 THEN {1, 2} ELSE {1}]

Symmetry ==
    Permutations({t1, t2}) \cup Permutations({c2, c3}) \cup Permutations({v1, v2})
        \cup Permutations({n1, n2})

\* What clusters that are not directories held before is never read.
View ==
    <<use, [c \in Cluster |-> IF use[c] = "dir" THEN <<dir[c], dotdot[c]>> ELSE <<>>],
      vn, lock, op, faults>>
=============================================================================
