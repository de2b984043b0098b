------------------------------- MODULE MCDsc -------------------------------
(***************************************************************************)
(* Instances of Dsc for TLC: model values for the tree and the threads.    *)
(***************************************************************************)
EXTENDS Dsc, TLC

CONSTANTS p1, p2, v1, v2, t1, t2, t3

\* Both vdevs belong to the first psoc, or there is a single one.
OnePsocOf == (v1 :> p1) @@ (v2 :> p1)
OneVdevOf == v1 :> p1

Normal == {{}}
AnyCdsState == SUBSET {"recovering", "unloading"}

ThreadSymmetry == Permutations(Threads)
VdevSymmetry == Permutations({v1, v2}) \cup Permutations(Threads)

=============================================================================
