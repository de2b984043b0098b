----------------------------- MODULE MCServices -----------------------------
(***************************************************************************)
(* Instances of P2p, RxThreads, Blm, WmaReq and PmoSuspend for TLC.  The   *)
(* components share no state: a behaviour is one of the chosen component,  *)
(* the others rest in their initial state.                                 *)
(***************************************************************************)
EXTENDS P2p, RxThreads, Blm, WmaReq, PmoSuspend, TLC

CONSTANTS v1, c1, c2, b1, b2, b3

VARIABLE part

OneRocReq == {[link |-> v1, chan |-> c1]}
TwoFrames == {[link |-> v1, chan |-> c2, noAck |-> n] : n \in BOOLEAN}

TooWeak(delay) == [type |-> "RSSI", delay |-> delay]
Reasons == (b1 :> {[type |-> "D_AVOID"]}) @@ (b2 :> {TooWeak(RetryDelay)}) @@ (b3 :> {})
UserAps == {<<>>, <<b3, b1>>}

RocSymmetry == Permutations(Rocs)

ServicesInit ==
  /\ P2pInit /\ RxInit /\ BlmInit /\ WmaInit /\ PmoInit
  /\ part \in {"p2p", "rx", "blm", "wma", "pmo"}
  /\ part = "pmo" \/ plat.bus = "ipci"

P2pPart == part = "p2p" /\ UNCHANGED <<rxVars, blmVars, wmaVars, pmoVars, part>> /\ P2pNext
RxPart == part = "rx" /\ UNCHANGED <<p2pVars, blmVars, wmaVars, pmoVars, part>> /\ RxNext
BlmPart == part = "blm" /\ UNCHANGED <<p2pVars, rxVars, wmaVars, pmoVars, part>> /\ BlmNext
WmaPart == part = "wma" /\ UNCHANGED <<p2pVars, rxVars, blmVars, pmoVars, part>> /\ WmaNext
PmoPart == part = "pmo" /\ UNCHANGED <<p2pVars, rxVars, blmVars, wmaVars, part>> /\ PmoNext

ServicesNext == P2pPart \/ RxPart \/ BlmPart \/ WmaPart \/ PmoPart

ServicesSpec ==
  ServicesInit /\ [][ServicesNext]_<<p2pVars, rxVars, blmVars, wmaVars, pmoVars, part>>

=============================================================================
