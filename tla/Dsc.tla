-------------------------------- MODULE Dsc --------------------------------
(***************************************************************************)
(* The Driver Synchronization Core and the threads that call it.  A thread *)
(* runs one protected section at a time: a transition (with or without     *)
(* waiting for it to be granted, with or without draining the operations   *)
(* of the subtree), or an operation.  Nodes come and go meanwhile.         *)
(***************************************************************************)
EXTENDS DscTree

VARIABLES
  pc,     \* where each thread is in its section
  at,     \* the node of that section, None outside one
  cur,    \* the node on whose ops.event it sleeps, None when it does not
  todo    \* the nodes its *_wait_for_ops walk has not passed yet

vars == <<treeVars, pc, at, cur, todo>>

\* "tranWait" sleeps in __dsc_tran_wait, "opsWait" on the ops.event of cur;
\* "quiet" is the part of a transition after *_wait_for_ops returned.
Pcs == {"idle", "tranWait", "trans", "walk", "opsWait", "quiet", "op"}

InTrans == {"trans", "walk", "opsWait", "quiet"}

Waiting(t) == pc[t] = "tranWait"

-----------------------------------------------------------------------------
Init ==
  /\ TreeInit
  /\ pc = [t \in Threads |-> "idle"]
  /\ at = [t \in Threads |-> None]
  /\ cur = [t \in Threads |-> None]
  /\ todo = [t \in Threads |-> {}]

\* The thread enters a section on n.
Enter(t, n, where) ==
  /\ pc' = [pc EXCEPT ![t] = where]
  /\ at' = [at EXCEPT ![t] = n]
  /\ UNCHANGED <<cur, todo>>

\* ... and leaves it.
Leave(t) ==
  /\ pc' = [pc EXCEPT ![t] = "idle"]
  /\ at' = [at EXCEPT ![t] = None]
  /\ UNCHANGED <<cur, todo>>

\* dsc_*_trans_start: an error returns and leaves everything as it was.
TransStart(t, n) ==
  /\ pc[t] = "idle"
  /\ n \in attached
  /\ BeginTrans(t, n)
  /\ Enter(t, n, "trans")

\* dsc_*_trans_start_wait, when the transition cannot start at once.  (When
\* it can, it is TransStart; E_INVAL returns.)
TransStartWait(t, n) ==
  /\ pc[t] = "idle"
  /\ n \in attached
  /\ QueueTrans(t, n)
  /\ Enter(t, n, "tranWait")

\* __dsc_tran_wait returns: the event was set by a trigger or by an abort.
TranWake(t) ==
  /\ pc[t] = "tranWait"
  /\ tran[t] \in {"granted", "aborted"}
  /\ IF tran[t] = "granted" THEN Enter(t, at[t], "trans") ELSE Leave(t)
  /\ tran' = [tran EXCEPT ![t] = "none"]
  /\ UNCHANGED <<attached, active, queue, ops, opsEvent, cds>>

TransStop(t) ==
  /\ pc[t] \in {"trans", "quiet"}
  /\ EndTrans(at[t])
  /\ Leave(t)

\* dsc_*_wait_for_ops walks the node and everything linked below it.
WaitForOps(t) ==
  /\ pc[t] = "trans"
  /\ pc' = [pc EXCEPT ![t] = "walk"]
  /\ todo' = [todo EXCEPT ![t] = attached \cap Subtree(at[t])]
  /\ UNCHANGED <<treeVars, at, cur>>

\* k is done; the last node ends the walk.
Passed(t, k) ==
  /\ todo' = [todo EXCEPT ![t] = @ \ {k}]
  /\ pc' = [pc EXCEPT ![t] = IF todo[t] \ {k} = {} THEN "quiet" ELSE "walk"]

\* Mutant: the event is not reset, an earlier operation may have left it set.
DrainNodeNoReset(t, k) ==
  /\ pc[t] = "walk"
  /\ k \in todo[t]
  /\ todo[t] \cap Ancestors(k) = {}
  /\ IF ops[k] > 0
     THEN /\ pc' = [pc EXCEPT ![t] = "opsWait"]
          /\ cur' = [cur EXCEPT ![t] = k]
          /\ UNCHANGED todo
     ELSE /\ Passed(t, k)
          /\ UNCHANGED cur
  /\ UNCHANGED <<treeVars, at>>

\* One node of the walk, parents first: with operations in flight its event
\* is reset under the lock and the thread goes to sleep on it.
DrainNode(t, k) ==
  /\ pc[t] = "walk"
  /\ k \in todo[t]
  /\ todo[t] \cap Ancestors(k) = {}
  /\ IF ops[k] > 0
     THEN /\ opsEvent' = [opsEvent EXCEPT ![k] = FALSE]
          /\ pc' = [pc EXCEPT ![t] = "opsWait"]
          /\ cur' = [cur EXCEPT ![t] = k]
          /\ UNCHANGED todo
     ELSE /\ Passed(t, k)
          /\ UNCHANGED <<opsEvent, cur>>
  /\ UNCHANGED <<attached, active, queue, tran, ops, cds, at>>

\* The sleep ends with the event, which it consumes.
OpsWake(t) ==
  /\ pc[t] = "opsWait"
  /\ opsEvent[cur[t]]
  /\ opsEvent' = [opsEvent EXCEPT ![cur[t]] = FALSE]
  /\ Passed(t, cur[t])
  /\ cur' = [cur EXCEPT ![t] = None]
  /\ UNCHANGED <<attached, active, queue, tran, ops, cds, at>>

OpStart(t, n) ==
  /\ pc[t] = "idle"
  /\ n \in attached
  /\ BeginOp(n)
  /\ Enter(t, n, "op")

OpStop(t) ==
  /\ pc[t] = "op"
  /\ EndOp(at[t])
  /\ Leave(t)

\* A walk follows the lists as they are: it will come to a new node unless
\* it has passed the list the node is put on.
Create(n) ==
  /\ CreateNode(n)
  /\ todo' = [t \in Threads |->
                IF at[t] \in Ancestors(n) /\ todo[t] \cap Subtree(Parent(n)) # {}
                THEN todo[t] \cup {n} ELSE todo[t]]
  /\ UNCHANGED <<pc, at, cur>>

\* n is flushed and unlinked; the walks do not come to it any more.
Detach(n) ==
  /\ DestroyNode(n)
  /\ todo' = [t \in Threads |-> todo[t] \ {n}]
  /\ pc' = [t \in Threads |-> IF pc[t] = "walk" /\ todo[t] = {n} THEN "quiet" ELSE pc[t]]
  /\ UNCHANGED <<at, cur>>

\* What DSC demands of the caller of dsc_*_destroy(n): n has no child, no
\* operation and no transition, and nobody sleeps on its event.
MayDestroy(n) ==
  /\ attached \cap Descendants(n) = {}
  /\ ops[n] = 0
  /\ active[n] = None
  /\ \A t \in Threads : cur[t] # n

Destroy(n) == MayDestroy(n) /\ Detach(n)

CdsState ==
  /\ SetCdsState
  /\ UNCHANGED <<pc, at, cur, todo>>

-----------------------------------------------------------------------------
(* The API as the three node types offer it. *)

DriverCreate == Create(Driver)
PsocCreate == \E p \in Psocs : Create(p)
VdevCreate == \E v \in Vdevs : Create(v)

DriverDestroy == Destroy(Driver)
PsocDestroy == \E p \in Psocs : Destroy(p)
VdevDestroy == \E v \in Vdevs : Destroy(v)

DriverTransStart(t) == TransStart(t, Driver)
PsocTransStart(t) == \E p \in Psocs : TransStart(t, p)
VdevTransStart(t) == \E v \in Vdevs : TransStart(t, v)

DriverTransStartWait(t) == TransStartWait(t, Driver)
PsocTransStartWait(t) == \E p \in Psocs : TransStartWait(t, p)
VdevTransStartWait(t) == \E v \in Vdevs : TransStartWait(t, v)

DriverTransStop(t) == at[t] = Driver /\ TransStop(t)
PsocTransStop(t) == at[t] \in Psocs /\ TransStop(t)
VdevTransStop(t) == at[t] \in Vdevs /\ TransStop(t)

DriverOpStart(t) == OpStart(t, Driver)
PsocOpStart(t) == \E p \in Psocs : OpStart(t, p)
VdevOpStart(t) == \E v \in Vdevs : OpStart(t, v)

DriverOpStop(t) == at[t] = Driver /\ OpStop(t)
PsocOpStop(t) == at[t] \in Psocs /\ OpStop(t)
VdevOpStop(t) == at[t] \in Vdevs /\ OpStop(t)

\* The walk of a wait_for_ops, level by level.
DriverWaitForOps(t) == DrainNode(t, Driver)
PsocWaitForOps(t) == \E p \in Psocs : DrainNode(t, p)
VdevWaitForOps(t) == \E v \in Vdevs : DrainNode(t, v)

Next ==
  \/ DriverCreate \/ PsocCreate \/ VdevCreate \/ CdsState
  \/ DriverDestroy \/ PsocDestroy \/ VdevDestroy
  \/ \E t \in Threads :
       \/ DriverTransStart(t) \/ PsocTransStart(t) \/ VdevTransStart(t)
       \/ DriverTransStartWait(t) \/ PsocTransStartWait(t) \/ VdevTransStartWait(t)
       \/ TranWake(t)
       \/ DriverTransStop(t) \/ PsocTransStop(t) \/ VdevTransStop(t)
       \/ DriverOpStart(t) \/ PsocOpStart(t) \/ VdevOpStart(t)
       \/ DriverOpStop(t) \/ PsocOpStop(t) \/ VdevOpStop(t)
       \/ WaitForOps(t) \/ OpsWake(t)
       \/ DriverWaitForOps(t) \/ PsocWaitForOps(t) \/ VdevWaitForOps(t)

Spec == Init /\ [][Next]_vars

\* Whoever is in a section leaves it: sleepers wake when their event is set,
\* transitions and operations end (a debug build panics after a minute if
\* one does not).  Nobody is obliged to enter one.
Fairness ==
  \A t \in Threads :
    /\ WF_vars(TranWake(t))
    /\ WF_vars(TransStop(t))
    /\ WF_vars(\E k \in Node : DrainNode(t, k))
    /\ WF_vars(OpsWake(t))
    /\ WF_vars(OpStop(t))

FairSpec == Spec /\ Fairness

-----------------------------------------------------------------------------
\* Every variable holds values of its type; threads sleep only on tree nodes.
TypeOK ==
  /\ TreeTypeOK
  /\ pc \in [Threads -> Pcs]
  /\ at \in [Threads -> Node \cup {None}]
  /\ cur \in [Threads -> Node \cup {None}]
  /\ todo \in [Threads -> SUBSET Node]

\* Transitions of a node and of a node above or below it never run at the
\* same time, however they came to start: at once, or from a queue when
\* another one stopped (__dsc_*_can_trans, __dsc_*_trigger_trans).
TransExclusion ==
  \A m, n \in Node : Related(m, n) => active[m] = None \/ active[n] = None

\* A node's active transition belongs to exactly one thread, and that thread
\* knows or is about to wake up and learn it: a grant is neither lost, nor
\* given twice, nor given to a thread that left (__dsc_trans_trigger).
GrantsHaveOwner ==
  \A n \in Node, t \in Threads :
    active[n] = t <=> /\ at[t] = n
                      /\ pc[t] \in InTrans \/ (Waiting(t) /\ tran[t] = "granted")

\* Between the return of dsc_*_wait_for_ops and the end of the transition no
\* operation is in flight on the node or anywhere below it.
Quiescence ==
  \A t \in Threads : pc[t] = "quiet" =>
    \A u \in Threads : pc[u] = "op" => at[u] \notin Subtree(at[t])

\* A thread asleep on ops.event has operations left that will set it, or
\* finds it set: the reset under the lock loses no wake-up.
OpsWakeupPending ==
  \A t \in Threads : pc[t] = "opsWait" => ops[cur[t]] > 0 \/ opsEvent[cur[t]]

\* A queued transition has someone who will start it: a transition runs on
\* the node, above it or below it, or one is queued above it.
QueueHasBlocker ==
  \A n \in Node : queue[n] # <<>> =>
    \/ \E m \in attached : (m = n \/ Related(m, n)) /\ active[m] # None
    \/ \E a \in Ancestors(n) : queue[a] # <<>>

\* Order of service, whichever way a transition starts: it was first in the
\* queue of its node if there was one, and nothing above the node is active
\* or waits; down-tree work never overtakes a psoc or driver transition.
ServiceOrder ==
  [][\A n \in Node : active'[n] # active[n] /\ active'[n] # None =>
       /\ queue[n] # <<>> => active'[n] = Head(queue[n])
       /\ \A a \in Ancestors(n) : queue'[a] = <<>> /\ active'[a] = None]_vars

\* A thread that waits for a transition gets it, or is aborted, or keeps
\* seeing transitions run above its node.  The driver has nothing above it.
WaiterServed ==
  \A t \in Threads :
    []<>(~Waiting(t) \/ \E a \in Ancestors(at[t]) : active[a] # None)

\* A walk over the operations comes to its end.
DrainEnds ==
  \A t \in Threads : pc[t] \in {"walk", "opsWait"} ~> pc[t] = "quiet"

-----------------------------------------------------------------------------
(* The transitions of the tree are a lock on its nodes. *)

Waiters == [n \in Node |-> {queue[n][i] : i \in DOMAIN queue[n]}]

Lock == INSTANCE TreeLock WITH
  Nodes <- Node, Above <- [n \in Node |-> Ancestors(n)], Clients <- Threads,
  holder <- active, waiting <- Waiters

\* Whatever the threads, the queues and the life cycle of the nodes do, the
\* active transitions change as the tree lock allows.
LockSpec == Lock!Spec

-----------------------------------------------------------------------------
(* The inductive invariant behind the safety properties above. *)

OpsAt(k) == {t \in Threads : pc[t] = "op" /\ at[t] = k}

\* Nodes hang from attached nodes, and only attached ones are in use.
TreeShape ==
  /\ \A n \in attached : Ancestors(n) \subseteq attached
  /\ \A n \in Node \ attached : active[n] = None /\ queue[n] = <<>>
  /\ \A t \in Threads :
       /\ pc[t] = "idle" <=> at[t] = None
       /\ pc[t] # "idle" => at[t] \in attached \/ (Waiting(t) /\ tran[t] = "aborted")

\* The members of a queue are the sleepers at its node, each once.
QueueShape ==
  /\ \A n \in Node : \A i \in DOMAIN queue[n] :
       LET t == queue[n][i] IN Waiting(t) /\ at[t] = n /\ tran[t] = "queued"
  /\ \A n \in Node : \A i, j \in DOMAIN queue[n] : queue[n][i] = queue[n][j] => i = j
  /\ \A t \in Threads :
       /\ Waiting(t) <=> tran[t] # "none"
       /\ tran[t] = "queued" => at[t] \in Node /\ \E i \in DOMAIN queue[at[t]] : queue[at[t]][i] = t

\* ops.count counts the operations in flight.
OpsCounted == \A n \in Node : ops[n] = Cardinality(OpsAt(n))

\* What a walk has left behind stays free of operations, and the node it
\* sleeps on is free of them once the event is set.
WalkSound ==
  \A t \in Threads :
    /\ pc[t] \in InTrans \ {"trans"} =>
         \A k \in Subtree(at[t]) : OpsAt(k) # {} => k \in todo[t]
    /\ IF pc[t] \in {"walk", "opsWait"} THEN todo[t] \subseteq attached \cap Subtree(at[t])
                                       ELSE todo[t] = {}
    /\ pc[t] = "opsWait" <=> cur[t] # None
    /\ pc[t] = "opsWait" =>
         /\ cur[t] \in todo[t]
         /\ ops[cur[t]] = 0 <=> opsEvent[cur[t]]

IInv ==
  /\ TypeOK
  /\ TransExclusion
  /\ GrantsHaveOwner
  /\ TreeShape
  /\ QueueShape
  /\ OpsCounted
  /\ WalkSound

=============================================================================
