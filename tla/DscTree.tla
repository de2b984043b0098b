------------------------------ MODULE DscTree ------------------------------
(***************************************************************************)
(* The data structure of the Driver Synchronization Core                   *)
(* (components/dsc): a tree of one driver, its psocs and their vdevs.      *)
(* Every node tracks one active transition, a FIFO queue of transitions    *)
(* that wait, and a count of operations in flight.  Every operator below   *)
(* that is primed is one critical section of driver->lock; the modules     *)
(* that extend this one say which thread runs it and when.                 *)
(***************************************************************************)
EXTENDS Integers, Sequences, FiniteSets

CONSTANTS
  Driver,    \* the dsc_driver
  Psocs,     \* every dsc_psoc that may be created
  Vdevs,     \* every dsc_vdev that may be created
  PsocOf,    \* vdev->psoc
  Hotplug,   \* the nodes created and destroyed meanwhile; the others exist throughout
  Threads,   \* the callers; a caller stands for the desc it passes
  CdsStates, \* the global driver states considered, sets of the two flags below
  None       \* NULL: no active_desc, no node

Node == {Driver} \cup Psocs \cup Vdevs

ASSUME TreeAssumption ==
  /\ Driver \notin Psocs \cup Vdevs
  /\ Psocs \cap Vdevs = {}
  /\ PsocOf \in [Vdevs -> Psocs]
  /\ None \notin Threads \cup Node
  /\ IsFiniteSet(Threads)
  /\ Hotplug \subseteq Node
  /\ Driver \in Hotplug => Psocs \subseteq Hotplug
  /\ \A v \in Vdevs : PsocOf[v] \in Hotplug => v \in Hotplug
  /\ {} \in CdsStates
  /\ CdsStates \subseteq SUBSET {"recovering", "unloading"}

VARIABLES
  attached,    \* nodes linked into the tree (driver->psocs, psoc->vdevs)
  active,      \* trans.active_desc of each node
  queue,       \* trans.queue of each node
  tran,        \* the on-stack dsc_tran of each thread: its event and abort
  ops,         \* ops.count of each node
  opsEvent,    \* ops.event of each node: set or not
  cds          \* which of qdf_is_recovering() and qdf_is_driver_unloading() hold

treeVars == <<attached, active, queue, tran, ops, opsEvent, cds>>

-----------------------------------------------------------------------------
(* The shape of the tree. *)

Ancestors(n) ==
  IF n = Driver THEN {} ELSE IF n \in Psocs THEN {Driver} ELSE {Driver, PsocOf[n]}

Parent(n) == IF n \in Vdevs THEN PsocOf[n] ELSE Driver

Descendants(n) == {m \in Node : n \in Ancestors(m)}

Subtree(n) == {n} \cup Descendants(n)

Related(m, n) == m \in Ancestors(n) \/ n \in Ancestors(m)

PsocsIn(A) == A \cap Psocs

VdevsIn(A, p) == {v \in A \cap Vdevs : PsocOf[v] = p}

-----------------------------------------------------------------------------
(* Predicates on one transition container, over an explicit "active" so    *)
(* that they can be evaluated after the running handler cleared one.       *)

TransActive(act, n) == act[n] # None

TransQueued(n) == queue[n] # <<>>

TransActiveOrQueued(n) == TransActive(active, n) \/ TransQueued(n)

TransActiveDownTree(act, n) == \E m \in attached \cap Descendants(n) : TransActive(act, m)

-----------------------------------------------------------------------------
(* May a transition, or an operation, start on n right now?                *)

DriverCanTrans ==
  IF TransActiveOrQueued(Driver) \/ TransActiveDownTree(active, Driver)
  THEN "E_AGAIN" ELSE "SUCCESS"

\* Mutant: the transitions of the vdevs are forgotten.
PsocCanTransAlone(p) ==
  IF TransActiveOrQueued(Driver) THEN "E_INVAL"
  ELSE IF TransActiveOrQueued(p) THEN "E_AGAIN" ELSE "SUCCESS"

PsocCanTrans(p) ==
  IF TransActiveOrQueued(Driver) THEN "E_INVAL"
  ELSE IF TransActiveOrQueued(p) \/ TransActiveDownTree(active, p)
       THEN "E_AGAIN" ELSE "SUCCESS"

\* Mutant: a psoc transition that is only queued does not hold vdevs back.
VdevCanTransBarging(v) ==
  IF TransActiveOrQueued(Driver) \/ "recovering" \in cds THEN "E_INVAL"
  ELSE IF TransActive(active, PsocOf[v])
       THEN IF "unloading" \in cds THEN "E_INVAL" ELSE "E_AGAIN"
       ELSE IF TransActiveOrQueued(v) THEN "E_AGAIN" ELSE "SUCCESS"

VdevCanTrans(v) ==
  IF TransActiveOrQueued(Driver) \/ "recovering" \in cds THEN "E_INVAL"
  ELSE IF TransActiveOrQueued(PsocOf[v])
       THEN IF "unloading" \in cds THEN "E_INVAL" ELSE "E_AGAIN"
       ELSE IF TransActiveOrQueued(v) THEN "E_AGAIN" ELSE "SUCCESS"

CanTrans(n) ==
  IF n = Driver THEN DriverCanTrans
  ELSE IF n \in Psocs THEN PsocCanTrans(n) ELSE VdevCanTrans(n)

\* Operations are admitted by the very same check (the can_op macros).
CanOp(n) == CanTrans(n)

-----------------------------------------------------------------------------
(* Which queued transitions does the end of one transition start?  "act"   *)
(* is the active map after the ended one was cleared.                      *)

DriverCanTrigger(act) == ~TransActive(act, Driver) /\ ~TransActiveDownTree(act, Driver)

\* Mutant: the psoc does not wait for its other vdevs.
PsocCanTriggerEarly(act, p) ==
  ~TransActive(act, Driver) /\ ~TransQueued(Driver) /\ ~TransActive(act, p)

PsocCanTrigger(act, p) ==
  /\ ~TransActive(act, Driver) /\ ~TransQueued(Driver)
  /\ ~TransActive(act, p)
  /\ ~TransActiveDownTree(act, p)

TriggerIn(S) == {n \in S : TransQueued(n)}

\* A psoc's next transition, or if it has none those of its vdevs.
TriggerPsocOrVdevs(p) ==
  IF TransQueued(p) THEN {p} ELSE TriggerIn(VdevsIn(attached, p))

\* Mutant: the vdevs are triggered only below the psocs that have work too.
TriggerByDriverShallow ==
  IF TransQueued(Driver) THEN {Driver} ELSE TriggerIn(PsocsIn(attached))

TriggerByDriver ==
  IF TransQueued(Driver) THEN {Driver}
  ELSE UNION {TriggerPsocOrVdevs(p) : p \in PsocsIn(attached)}

\* With a driver transition queued, a down-tree stop starts that one or nothing.
TriggerByPsoc(act, p) ==
  IF TransQueued(Driver)
  THEN IF DriverCanTrigger(act) THEN {Driver} ELSE {}
  ELSE TriggerPsocOrVdevs(p)

TriggerByVdev(act, v) ==
  IF TransQueued(Driver)
  THEN IF DriverCanTrigger(act) THEN {Driver} ELSE {}
  ELSE IF TransQueued(PsocOf[v])
       THEN IF PsocCanTrigger(act, PsocOf[v]) THEN {PsocOf[v]} ELSE {}
       ELSE TriggerIn({v})

Triggered(act, n) ==
  IF n = Driver THEN TriggerByDriver
  ELSE IF n \in Psocs THEN TriggerByPsoc(act, n) ELSE TriggerByVdev(act, n)

-----------------------------------------------------------------------------
(* The critical sections. *)

TreeInit ==
  /\ attached = Node \ Hotplug
  /\ active = [n \in Node |-> None]
  /\ queue = [n \in Node |-> <<>>]
  /\ tran = [t \in Threads |-> "none"]
  /\ ops = [n \in Node |-> 0]
  /\ opsEvent = [n \in Node |-> FALSE]
  /\ cds = {}

\* dsc_*_create: a fresh node is initialised, then linked under its parent.
CreateNode(n) ==
  /\ n \in Hotplug \ attached
  /\ Ancestors(n) \subseteq attached
  /\ attached' = attached \cup {n}
  /\ active' = [active EXCEPT ![n] = None]
  /\ queue' = [queue EXCEPT ![n] = <<>>]
  /\ ops' = [ops EXCEPT ![n] = 0]
  /\ opsEvent' = [opsEvent EXCEPT ![n] = FALSE]
  /\ UNCHANGED <<tran, cds>>

\* Mutant: the queue is dropped without waking its sleepers.
DestroyNodeNoFlush(n) ==
  /\ n \in attached \cap Hotplug
  /\ attached' = attached \ {n}
  /\ queue' = [queue EXCEPT ![n] = <<>>]
  /\ active' = [active EXCEPT ![n] = None]
  /\ UNCHANGED <<tran, ops, opsEvent, cds>>

\* dsc_*_destroy: every queued transition is aborted, the node unlinked.
DestroyNode(n) ==
  /\ n \in attached \cap Hotplug
  /\ attached' = attached \ {n}
  /\ tran' = [t \in Threads |->
                IF \E i \in DOMAIN queue[n] : queue[n][i] = t THEN "aborted" ELSE tran[t]]
  /\ queue' = [queue EXCEPT ![n] = <<>>]
  /\ active' = [active EXCEPT ![n] = None]
  /\ UNCHANGED <<ops, opsEvent, cds>>

\* The transition of t becomes n's active one without waiting.
BeginTrans(t, n) ==
  /\ CanTrans(n) = "SUCCESS"
  /\ active' = [active EXCEPT ![n] = t]
  /\ UNCHANGED <<attached, queue, tran, ops, opsEvent, cds>>

\* It has to wait: a dsc_tran with a cleared event goes to the queue's back.
QueueTrans(t, n) ==
  /\ CanTrans(n) = "E_AGAIN"
  /\ queue' = [queue EXCEPT ![n] = Append(@, t)]
  /\ tran' = [tran EXCEPT ![t] = "queued"]
  /\ UNCHANGED <<attached, active, ops, opsEvent, cds>>

\* The active map with the transition of n stopped.
Stopped(n) == [active EXCEPT ![n] = None]

\* Mutant: a triggered transition is woken but not recorded as active.
EndTransUnrecorded(n) ==
  LET act == Stopped(n)
      S   == Triggered(act, n)
  IN  /\ active' = act
      /\ queue' = [m \in Node |-> IF m \in S THEN Tail(queue[m]) ELSE queue[m]]
      /\ tran' = [t \in Threads |->
                    IF \E m \in S : Head(queue[m]) = t THEN "granted" ELSE tran[t]]
      /\ UNCHANGED <<attached, ops, opsEvent, cds>>

\* The transition on n ends and starts the queued ones it held up.
EndTrans(n) ==
  LET act == Stopped(n)
      S   == Triggered(act, n)
  IN  /\ active' = [m \in Node |-> IF m \in S THEN Head(queue[m]) ELSE act[m]]
      /\ queue' = [m \in Node |-> IF m \in S THEN Tail(queue[m]) ELSE queue[m]]
      /\ tran' = [t \in Threads |->
                    IF \E m \in S : Head(queue[m]) = t THEN "granted" ELSE tran[t]]
      /\ UNCHANGED <<attached, ops, opsEvent, cds>>

\* Mutant: the operation is admitted but not counted.
BeginOpUncounted(n) ==
  /\ CanOp(n) = "SUCCESS"
  /\ UNCHANGED treeVars

BeginOp(n) ==
  /\ CanOp(n) = "SUCCESS"
  /\ ops' = [ops EXCEPT ![n] = @ + 1]
  /\ UNCHANGED <<attached, active, queue, tran, opsEvent, cds>>

\* Mutant: the count is tested before it is decremented.
EndOpLate(n) ==
  /\ ops' = [ops EXCEPT ![n] = @ - 1]
  /\ opsEvent' = [opsEvent EXCEPT ![n] = @ \/ ops[n] = 0]
  /\ UNCHANGED <<attached, active, queue, tran, cds>>

\* The last operation to leave a node sets its event.
EndOp(n) ==
  /\ ops' = [ops EXCEPT ![n] = @ - 1]
  /\ opsEvent' = [opsEvent EXCEPT ![n] = @ \/ ops[n] = 1]
  /\ UNCHANGED <<attached, active, queue, tran, cds>>

\* The two global flags that the vdev check reads change under it.
SetCdsState ==
  /\ cds' \in CdsStates \ {cds}
  /\ UNCHANGED <<attached, active, queue, tran, ops, opsEvent>>

-----------------------------------------------------------------------------
TreeTypeOK ==
  /\ attached \subseteq Node
  /\ active \in [Node -> Threads \cup {None}]
  /\ queue \in [Node -> Seq(Threads)]
  /\ tran \in [Threads -> {"none", "queued", "granted", "aborted"}]
  /\ ops \in [Node -> Nat]
  /\ opsEvent \in [Node -> BOOLEAN]
  /\ cds \in CdsStates

=============================================================================
