------------------------------ MODULE MCHddMix ------------------------------
(***************************************************************************)
(* HddSync with a choice of flow sets: in a behaviour only flows of the    *)
(* mix it began with are started.  The mix is kept with the callbacks in   *)
(* hooks, where no flow changes it.  A mix that loads the driver begins    *)
(* before the load, another one with a loaded driver and a probed SoC.     *)
(***************************************************************************)
EXTENDS MCHddSync

CONSTANT Mixes

ASSUME MixAssumption == Mixes \subseteq SUBSET Flows

mix == hooks \cap Flows

\* The net_devices that contexts or running flows are about.
DevsInUse == NetDevs \cap
  ({key[v] : v \in Vdevs} \cup UNION {{prog[t][i].key : i \in DOMAIN prog[t]} : t \in Threads})

\* Among load and unload, one net_device at a time.
MixStart(t) ==
  /\ Start(t) /\ \E f \in mix : prog'[t] \in Programs[f]
  /\ "load" \in mix => Cardinality(DevsInUse') <= 1

\* Before the load, and with the vdevs alone Hotplug; HddInit but for the mix.
UnloadedInit == attached = {} /\ \E m \in Mixes : "load" \in m /\ hooks = m
LoadedInit ==
  attached = {Driver} \cup Psocs /\ \E m \in Mixes : "load" \notin m /\ hooks = Hooks \cup m

MixInit ==
  /\ UnloadedInit \/ LoadedInit
  /\ active = [n \in Node |-> None] /\ queue = [n \in Node |-> <<>>]
  /\ ops = [n \in Node |-> 0] /\ opsEvent = [n \in Node |-> FALSE]
  /\ tran = [t \in Threads |-> "none"] /\ cds = {}
  /\ pc = [t \in Threads |-> "idle"] /\ todo = [t \in Threads |-> {}]
  /\ at = [t \in Threads |-> None] /\ cur = [t \in Threads |-> None]
  /\ SyncInit
  /\ prog = [t \in Threads |-> <<>>] /\ ctx = [t \in Threads |-> [k \in Keys |-> None]]
  /\ lock = [l \in Locks |-> None]

MixNext == \E t \in Threads : MixStart(t) \/ Step(t)

MixSpec == MixInit /\ [][MixNext]_hddVars

=============================================================================
