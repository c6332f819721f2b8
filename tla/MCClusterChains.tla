-------------------------- MODULE MCClusterChains --------------------------
(* Small volumes for ClusterChains. *)
EXTENDS ClusterChains, TLC

CONSTANTS t1, t2, f, g, d

Threads  == {t1, t2}
OneFile  == {f}
TwoFiles == {f, g}
OneDir   == {d}

\* A file of two clusters, in descending order, and a directory of one
MixedLayout == (f :> <<4, 2>>) @@ (d :> <<3>>)

\* Two vnodes of one file, as two lookups of its name make them
AliasLayout == (f :> <<2>>) @@ (g :> <<2>>)

ThreadSymmetry == Permutations(Threads)
============================================================================
