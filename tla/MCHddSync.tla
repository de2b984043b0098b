----------------------------- MODULE MCHddSync -----------------------------
(***************************************************************************)
(* Instances of HddSync for TLC.                                           *)
(***************************************************************************)
EXTENDS HddSync, TLC

CONSTANT p1

OnePsocOf == [v \in Vdevs |-> p1]
AnyCdsState == SUBSET {"recovering", "unloading"}
ThreadSymmetry == Permutations(Threads)
IntfSymmetry == Permutations(Threads) \cup Permutations(Vdevs) \cup Permutations(NetDevs)

=============================================================================
