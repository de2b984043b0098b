----------------------------- MODULE DscProofs -----------------------------
(***************************************************************************)
(* The safety properties of Dsc, for every tree and every finite set of    *)
(* threads.                                                                *)
(***************************************************************************)
EXTENDS Dsc, FiniteSetTheorems, TLAPS

-----------------------------------------------------------------------------
(* The tree. *)

\* The tree is a forest of depth three: ancestry is irreflexive, transitive
\* and linear above any node (dsc_driver, dsc_psoc and dsc_vdev back links).
LEMMA TreeFacts ==
  /\ Driver \in Node /\ None \notin Node /\ None \notin Threads
  /\ \A n \in Node : Ancestors(n) \subseteq Node /\ n \notin Ancestors(n)
  /\ \A m, n \in Node : m \in Ancestors(n) => Ancestors(m) \subseteq Ancestors(n)
  /\ \A n \in Node : \A a, b \in Ancestors(n) : a = b \/ Related(a, b)
  /\ \A m, n \in Node : Related(m, n) => Related(n, m) /\ m # n
BY TreeAssumption DEF TreeAssumption, Node, Ancestors, Related

\* Membership in a subtree, spelled out.
LEMMA SubtreeFacts ==
  \A m, n \in Node :
    /\ m \in Subtree(n) <=> m = n \/ n \in Ancestors(m)
    /\ m \in Descendants(n) <=> n \in Ancestors(m)
BY TreeFacts DEF Subtree, Descendants

\* Two nodes whose subtrees meet are related or equal.
LEMMA SubtreesMeet ==
  ASSUME NEW a \in Node, NEW b \in Node, NEW k \in Node,
         k \in Subtree(a), k \in Subtree(b)
  PROVE  a = b \/ Related(a, b)
BY TreeFacts, SubtreeFacts DEF Related

\* The two ends of a queue (qdf_list_insert_back, qdf_list_remove_front).
LEMMA QueueFacts ==
  ASSUME NEW q \in Seq(Threads), NEW u \in Threads
  PROVE  /\ Append(q, u) \in Seq(Threads)
         /\ DOMAIN Append(q, u) = DOMAIN q \cup {Len(q) + 1}
         /\ Len(q) + 1 \notin DOMAIN q
         /\ Append(q, u)[Len(q) + 1] = u
         /\ \A i \in DOMAIN q : Append(q, u)[i] = q[i] /\ q[i] \in Threads
         /\ q # <<>> =>
              /\ 1 \in DOMAIN q
              /\ Head(q) = q[1]
              /\ Head(q) \in Threads
              /\ Tail(q) \in Seq(Threads)
              /\ \A i \in DOMAIN Tail(q) : i + 1 \in DOMAIN q /\ Tail(q)[i] = q[i + 1] /\ i + 1 # 1
              /\ \A i \in DOMAIN q : i # 1 => i - 1 \in DOMAIN Tail(q) /\ Tail(q)[i - 1] = q[i]
OBVIOUS

-----------------------------------------------------------------------------
(* When a transition or an operation is admitted, and which queued ones a  *)
(* stop starts.                                                            *)

\* An admitted transition or operation has nothing active at, above or, for
\* a driver or psoc, below its node, and nothing waits there or above.
LEMMA Admitted ==
  ASSUME TypeOK, TreeShape, NEW n \in attached, CanTrans(n) = "SUCCESS"
  PROVE  /\ active[n] = None /\ queue[n] = <<>>
         /\ \A m \in Node : Related(m, n) => active[m] = None
         /\ \A a \in Ancestors(n) : active[a] = None /\ queue[a] = <<>>
<1>0. n \in Node
  BY DEF TypeOK, TreeTypeOK
<1>1. CASE n = Driver
  BY <1>0, <1>1, TreeFacts, SubtreeFacts
     DEF CanTrans, DriverCanTrans, TransActiveOrQueued, TransActive, TransQueued,
         TransActiveDownTree, TreeShape, Related, Ancestors
<1>2. CASE n \in Psocs
  <2>1. n # Driver
    BY <1>2, TreeAssumption DEF TreeAssumption
  <2>2. /\ active[Driver] = None /\ queue[Driver] = <<>>
        /\ active[n] = None /\ queue[n] = <<>>
        /\ ~TransActiveDownTree(active, n)
    BY <1>2, <2>1
       DEF CanTrans, PsocCanTrans, TransActiveOrQueued, TransActive, TransQueued
  <2>3. \A m \in Node : n \in Ancestors(m) => active[m] = None
    BY <1>0, <2>2, SubtreeFacts DEF TransActiveDownTree, TransActive, TreeShape
  <2> QED
    BY <1>2, <2>1, <2>2, <2>3 DEF Related, Ancestors
<1>3. CASE n \in Vdevs
  <2>1. n # Driver /\ n \notin Psocs /\ PsocOf[n] \in Psocs
    BY <1>3, TreeAssumption DEF TreeAssumption
  <2>2. /\ active[Driver] = None /\ queue[Driver] = <<>>
        /\ active[n] = None /\ queue[n] = <<>>
        /\ active[PsocOf[n]] = None /\ queue[PsocOf[n]] = <<>>
    BY <2>1 DEF CanTrans, VdevCanTrans, TransActiveOrQueued, TransActive, TransQueued
  <2>3. Ancestors(n) = {Driver, PsocOf[n]}
    BY <2>1 DEF Ancestors
  <2>4. \A m \in Node : n \notin Ancestors(m)
    BY <1>3, <2>1, TreeAssumption DEF TreeAssumption, Ancestors, Node
  <2> QED
    BY <2>2, <2>3, <2>4 DEF Related
<1> QED
  BY <1>0, <1>1, <1>2, <1>3 DEF Node

\* The transitions a stop on n starts: each waits, on a node that is free,
\* with nothing active or waiting above it, nothing active below it and no
\* other one started above or below it.
LEMMA TriggerSound ==
  ASSUME TypeOK, TransExclusion, TreeShape, NEW n \in Node, active[n] # None
  PROVE  LET act == Stopped(n)
             S == Triggered(act, n)
         IN  /\ S \subseteq Node
             /\ \A m \in S : queue[m] # <<>> /\ act[m] = None
             /\ \A m \in S : \A k \in Node : Related(m, k) => act[k] = None /\ k \notin S
             /\ \A m \in S : \A a \in Ancestors(m) : queue[a] = <<>>
<1> DEFINE act == Stopped(n)
           S == Triggered(act, n)
           Sound(T) ==
             /\ T \subseteq Node
             /\ \A m \in T : queue[m] # <<>> /\ act[m] = None
             /\ \A m \in T : \A k \in Node : Related(m, k) => act[k] = None /\ k \notin T
             /\ \A m \in T : \A a \in Ancestors(m) : queue[a] = <<>>
<1> SUFFICES Sound(S)
  OBVIOUS
<1> HIDE DEF act, S
<1> USE DEF TransActive, TransQueued, TriggerIn
<1>0. /\ active \in [Node -> Threads \cup {None}] /\ queue \in [Node -> Seq(Threads)]
      /\ attached \subseteq Node
  BY DEF TypeOK, TreeTypeOK
<1>a. \A m \in Node : act[m] = IF m = n THEN None ELSE active[m]
  BY <1>0 DEF act, Stopped
<1>b. \A k \in Node : Related(n, k) => act[k] = None
  BY <1>a, TreeFacts DEF TransExclusion, Related
<1>c. \A k \in Node : k \notin attached => act[k] = None
  BY <1>a DEF TreeShape
<1>d. \A p \in Psocs : p \in Node /\ p # Driver /\ p \notin Vdevs /\ Ancestors(p) = {Driver}
  BY TreeAssumption DEF TreeAssumption, Node, Ancestors
<1>e. \A v \in Vdevs : /\ v \in Node /\ v # Driver /\ v \notin Psocs
                       /\ PsocOf[v] \in Psocs /\ Ancestors(v) = {Driver, PsocOf[v]}
                       /\ \A m \in Node : v \notin Ancestors(m)
  BY TreeAssumption DEF TreeAssumption, Node, Ancestors
<1>f. \A k \in Node : Related(Driver, k) <=> k # Driver
  BY TreeFacts, <1>d, <1>e DEF Related, Node, Ancestors
\* The driver's own transition starts only when the whole tree is free.
<1>1. ASSUME S = {Driver}, queue[Driver] # <<>>, \A k \in Node : act[k] = None
      PROVE  Sound(S)
  <2>1. Ancestors(Driver) = {}
    BY DEF Ancestors
  <2> QED
    BY <1>1, <1>f, <2>1, TreeFacts
\* A psoc's transitions, or its vdevs', start when they are free.
<1>2. ASSUME NEW p \in Psocs, queue[Driver] = <<>>, act[Driver] = None, act[p] = None,
             \A v \in Vdevs : PsocOf[v] = p => act[v] = None,
             NEW T, T = TriggerPsocOrVdevs(p)
      PROVE  Sound(T) /\ \A m \in T : m = p \/ (m \in Vdevs /\ PsocOf[m] = p)
  <2>1. CASE queue[p] # <<>>
    <3>1. T = {p}
      BY <1>2, <2>1 DEF TriggerPsocOrVdevs
    <3>2. \A k \in Node : Related(p, k) <=> k = Driver \/ (k \in Vdevs /\ PsocOf[k] = p)
      BY <1>d, <1>e, TreeFacts DEF Related, Node, Ancestors
    <3> QED
      BY <1>2, <2>1, <3>1, <3>2, <1>d
  <2>2. CASE queue[p] = <<>>
    <3>1. T = {v \in attached \cap Vdevs : PsocOf[v] = p /\ queue[v] # <<>>}
      BY <1>2, <2>2 DEF TriggerPsocOrVdevs, VdevsIn
    <3>2. \A v \in Vdevs : \A k \in Node : Related(v, k) <=> k = Driver \/ k = PsocOf[v]
      BY <1>d, <1>e, TreeFacts DEF Related
    <3> QED
      BY <1>2, <2>2, <3>1, <3>2, <1>d, <1>e
  <2> QED
    BY <2>1, <2>2
<1>3. CASE n = Driver
  <2>1. S = TriggerByDriver
    BY <1>3 DEF S, Triggered
  <2>2. \A k \in Node : act[k] = None
    BY <1>3, <1>a, <1>b, <1>f
  <2>3. CASE queue[Driver] # <<>>
    BY <1>1, <2>1, <2>2, <2>3 DEF TriggerByDriver
  <2>4. CASE queue[Driver] = <<>>
    <3>1. S = UNION {TriggerPsocOrVdevs(p) : p \in PsocsIn(attached)}
      BY <2>1, <2>4 DEF TriggerByDriver
    <3>2. \A m \in S : \E p \in Psocs : m \in TriggerPsocOrVdevs(p)
      BY <3>1 DEF PsocsIn
    <3>3. \A p \in Psocs : \A m \in TriggerPsocOrVdevs(p) :
            /\ m \in Node /\ queue[m] # <<>>
            /\ m = p \/ (m \in Vdevs /\ PsocOf[m] = p)
            /\ \A a \in Ancestors(m) : queue[a] = <<>>
            /\ \A k \in Node : Related(m, k) => k \notin TriggerPsocOrVdevs(p)
      BY <1>2, <2>2, <2>4, <1>d, <1>e, TreeFacts
    <3>4. ASSUME NEW m \in S, NEW k \in S, Related(m, k)
          PROVE  FALSE
      <4>1. PICK p \in Psocs : m \in TriggerPsocOrVdevs(p)
        BY <3>2
      <4>2. PICK q \in Psocs : k \in TriggerPsocOrVdevs(q)
        BY <3>2
      <4>3. /\ m = p \/ (m \in Vdevs /\ PsocOf[m] = p)
            /\ k = q \/ (k \in Vdevs /\ PsocOf[k] = q)
        BY <4>1, <4>2, <3>3
      <4>4. p = q
        BY <3>4, <4>3, <1>d, <1>e DEF Related
      <4> QED
        BY <3>3, <3>4, <4>1, <4>2, <4>4
    <3> QED
      BY <2>2, <3>2, <3>3, <3>4
  <2> QED
    BY <2>3, <2>4
\* A psoc's or a vdev's stop with a driver transition in the queue.
<1>4. ASSUME queue[Driver] # <<>>, S = IF DriverCanTrigger(act) THEN {Driver} ELSE {}
      PROVE  Sound(S)
  <2>1. CASE DriverCanTrigger(act)
    <3>1. \A k \in Node : k # Driver => k \in Descendants(Driver)
      BY <1>d, <1>e, SubtreeFacts, TreeFacts DEF Node
    <3>2. \A k \in Node : act[k] = None
      BY <2>1, <3>1, <1>c DEF DriverCanTrigger, TransActiveDownTree
    <3> QED
      BY <1>1, <1>4, <2>1, <3>2
  <2>2. CASE ~DriverCanTrigger(act)
    BY <1>4, <2>2
  <2> QED
    BY <2>1, <2>2
<1>5. CASE n \in Psocs
  <2>1. S = TriggerByPsoc(act, n)
    BY <1>5, <1>d DEF S, Triggered
  <2>2. CASE queue[Driver] # <<>>
    BY <1>4, <2>1, <2>2 DEF TriggerByPsoc
  <2>3. CASE queue[Driver] = <<>>
    <3>1. S = TriggerPsocOrVdevs(n)
      BY <2>1, <2>3 DEF TriggerByPsoc
    <3>2. act[Driver] = None /\ act[n] = None /\ \A v \in Vdevs : PsocOf[v] = n => act[v] = None
      BY <1>5, <1>a, <1>b, <1>d, <1>e, TreeFacts DEF Related
    <3> QED
      BY <1>2, <1>5, <2>3, <3>1, <3>2
  <2> QED
    BY <2>2, <2>3
<1>6. CASE n \in Vdevs
  <2>1. S = TriggerByVdev(act, n) /\ PsocOf[n] \in Psocs /\ PsocOf[n] \in Node
    BY <1>6, <1>d, <1>e DEF S, Triggered
  <2>2. CASE queue[Driver] # <<>>
    BY <1>4, <2>1, <2>2 DEF TriggerByVdev
  <2>3. CASE queue[Driver] = <<>> /\ queue[PsocOf[n]] # <<>>
    <3>1. CASE PsocCanTrigger(act, PsocOf[n])
      <4>1. S = {PsocOf[n]} /\ TriggerPsocOrVdevs(PsocOf[n]) = {PsocOf[n]}
        BY <2>1, <2>3, <3>1 DEF TriggerByVdev, TriggerPsocOrVdevs
      <4>2. act[Driver] = None /\ act[PsocOf[n]] = None
        BY <3>1 DEF PsocCanTrigger
      <4>3. \A v \in Vdevs : PsocOf[v] = PsocOf[n] => act[v] = None
        BY <3>1, <1>c, <1>e, <2>1, SubtreeFacts DEF PsocCanTrigger, TransActiveDownTree
      <4> QED
        BY <1>2, <2>1, <2>3, <4>1, <4>2, <4>3
    <3>2. CASE ~PsocCanTrigger(act, PsocOf[n])
      <4>1. S = {}
        BY <2>1, <2>3, <3>2 DEF TriggerByVdev
      <4> QED
        BY <4>1
    <3> QED
      BY <3>1, <3>2
  <2>4. CASE queue[Driver] = <<>> /\ queue[PsocOf[n]] = <<>>
    <3>1. S = {m \in {n} : queue[m] # <<>>}
      BY <2>1, <2>4 DEF TriggerByVdev
    <3>2. \A k \in Node : Related(n, k) <=> k = Driver \/ k = PsocOf[n]
      BY <1>6, <1>d, <1>e, TreeFacts DEF Related
    <3> QED
      BY <1>6, <2>1, <2>4, <3>1, <3>2, <1>a, <1>b, <1>e, TreeFacts
  <2> QED
    BY <2>2, <2>3, <2>4
<1> QED
  BY <1>3, <1>5, <1>6 DEF Node

-----------------------------------------------------------------------------
(* The invariant is inductive: one lemma per action. *)

\* A step that starts and ends no operation keeps every operation in place.
LEMMA OpsKept ==
  ASSUME IInv, ops' = ops,
         \A u \in Threads : /\ pc'[u] = "op" <=> pc[u] = "op"
                            /\ pc[u] = "op" => at'[u] = at[u]
  PROVE  OpsCounted' /\ \A k : OpsAt(k)' = OpsAt(k)
<1>1. \A k : OpsAt(k)' = OpsAt(k)
  BY DEF OpsAt
<1> QED
  BY <1>1 DEF IInv, OpsCounted

\* The initial states satisfy the invariant.
LEMMA InitIInv == Init => IInv
<1> SUFFICES ASSUME Init PROVE IInv
  OBVIOUS
<1> USE DEF Init, TreeInit
<1>1. TypeOK
  BY TreeFacts, TreeAssumption DEF TreeAssumption, TypeOK, TreeTypeOK, Pcs
<1>2. TransExclusion
  BY DEF TransExclusion
<1>3. GrantsHaveOwner
  BY TreeFacts DEF GrantsHaveOwner, InTrans, Waiting
<1>4. TreeShape
  BY TreeAssumption DEF TreeAssumption, TreeShape, Ancestors, Node, Waiting
<1>5. QueueShape
  BY DEF QueueShape, Waiting
<1>6. OpsCounted
  BY FS_EmptySet DEF OpsCounted, OpsAt
<1>7. WalkSound
  BY DEF WalkSound, InTrans
<1> QED
  BY <1>1, <1>2, <1>3, <1>4, <1>5, <1>6, <1>7 DEF IInv

\* dsc_*_trans_start.
LEMMA TransStartIInv ==
  ASSUME IInv, NEW t \in Threads, NEW n \in Node, TransStart(t, n)
  PROVE  IInv'
<1> USE DEF IInv
<1>0. /\ pc[t] = "idle" /\ n \in attached /\ CanTrans(n) = "SUCCESS"
      /\ active' = [active EXCEPT ![n] = t]
      /\ pc' = [pc EXCEPT ![t] = "trans"]
      /\ at' = [at EXCEPT ![t] = n]
      /\ UNCHANGED <<attached, queue, tran, ops, opsEvent, cds, cur, todo>>
  BY DEF TransStart, BeginTrans, Enter
<1>a. /\ active[n] = None /\ \A m \in Node : Related(m, n) => active[m] = None
  BY <1>0, Admitted
<1>b. /\ active \in [Node -> Threads \cup {None}] /\ pc \in [Threads -> Pcs]
      /\ at \in [Threads -> Node \cup {None}]
  BY DEF TypeOK, TreeTypeOK
<1>c. at[t] = None
  BY <1>0 DEF TreeShape
<1>1. TypeOK'
  BY <1>0, <1>b DEF TypeOK, TreeTypeOK, Pcs
<1>2. TransExclusion'
  BY <1>0, <1>a, <1>b, TreeFacts DEF TransExclusion
<1>3. GrantsHaveOwner'
  BY <1>0, <1>a, <1>b, <1>c, TreeFacts DEF GrantsHaveOwner, InTrans, Waiting
<1>4. TreeShape'
  BY <1>0, <1>b, TreeFacts DEF TreeShape, Waiting
<1>5. QueueShape'
  BY <1>0, <1>b, <1>c DEF QueueShape, Waiting
<1>6. OpsCounted' /\ \A k : OpsAt(k)' = OpsAt(k)
  BY <1>0, <1>b, <1>c, OpsKept
<1>7. WalkSound'
  BY <1>0, <1>b, <1>6 DEF WalkSound, InTrans
<1> QED
  BY <1>1, <1>2, <1>3, <1>4, <1>5, <1>6, <1>7

\* dsc_*_trans_start_wait.
LEMMA TransStartWaitIInv ==
  ASSUME IInv, NEW t \in Threads, NEW n \in Node, TransStartWait(t, n)
  PROVE  IInv'
<1> USE DEF IInv
<1>0. /\ pc[t] = "idle" /\ n \in attached
      /\ queue' = [queue EXCEPT ![n] = Append(@, t)]
      /\ tran' = [tran EXCEPT ![t] = "queued"]
      /\ pc' = [pc EXCEPT ![t] = "tranWait"]
      /\ at' = [at EXCEPT ![t] = n]
      /\ UNCHANGED <<attached, active, ops, opsEvent, cds, cur, todo>>
  BY DEF TransStartWait, QueueTrans, Enter
<1>b. /\ queue \in [Node -> Seq(Threads)] /\ pc \in [Threads -> Pcs]
      /\ at \in [Threads -> Node \cup {None}]
      /\ tran \in [Threads -> {"none", "queued", "granted", "aborted"}]
  BY DEF TypeOK, TreeTypeOK
<1>c. at[t] = None
  BY <1>0 DEF TreeShape
<1>1. TypeOK'
  BY <1>0, <1>b, QueueFacts DEF TypeOK, TreeTypeOK, Pcs
<1>2. TransExclusion'
  BY <1>0 DEF TransExclusion
<1>3. GrantsHaveOwner'
  BY <1>0, <1>b, <1>c, TreeFacts DEF GrantsHaveOwner, InTrans, Waiting
<1>4. TreeShape'
  BY <1>0, <1>b, TreeFacts, QueueFacts DEF TreeShape, Waiting
<1>5. QueueShape'
  <2>1. \A m \in Node : m # n => queue'[m] = queue[m]
    BY <1>0, <1>b
  <2>2. \A m \in Node : \A i \in DOMAIN queue[m] : queue[m][i] \in Threads /\ queue[m][i] # t
    BY <1>0, <1>b, QueueFacts DEF QueueShape, Waiting
  <2>3. /\ DOMAIN queue'[n] = DOMAIN queue[n] \cup {Len(queue[n]) + 1}
        /\ Len(queue[n]) + 1 \notin DOMAIN queue[n]
        /\ queue'[n][Len(queue[n]) + 1] = t
        /\ \A i \in DOMAIN queue[n] : queue'[n][i] = queue[n][i]
    BY <1>0, <1>b, QueueFacts
  <2> QED
    BY <1>0, <1>b, <2>1, <2>2, <2>3 DEF QueueShape, Waiting
<1>6. OpsCounted' /\ \A k : OpsAt(k)' = OpsAt(k)
  BY <1>0, <1>b, <1>c, OpsKept
<1>7. WalkSound'
  BY <1>0, <1>b, <1>6 DEF WalkSound, InTrans
<1> QED
  BY <1>1, <1>2, <1>3, <1>4, <1>5, <1>6, <1>7

\* The return of __dsc_tran_wait.
LEMMA TranWakeIInv ==
  ASSUME IInv, NEW t \in Threads, TranWake(t)
  PROVE  IInv'
<1> USE DEF IInv
<1>0. /\ pc[t] = "tranWait" /\ tran[t] \in {"granted", "aborted"}
      /\ tran' = [tran EXCEPT ![t] = "none"]
      /\ UNCHANGED <<attached, active, queue, ops, opsEvent, cds, cur, todo>>
      /\ \/ /\ tran[t] = "granted"
            /\ pc' = [pc EXCEPT ![t] = "trans"]
            /\ at' = [at EXCEPT ![t] = at[t]]
         \/ /\ tran[t] = "aborted"
            /\ pc' = [pc EXCEPT ![t] = "idle"]
            /\ at' = [at EXCEPT ![t] = None]
  BY DEF TranWake, Enter, Leave
<1>b. /\ queue \in [Node -> Seq(Threads)] /\ pc \in [Threads -> Pcs]
      /\ at \in [Threads -> Node \cup {None}]
      /\ tran \in [Threads -> {"none", "queued", "granted", "aborted"}]
  BY DEF TypeOK, TreeTypeOK
<1>c. at[t] \in Node
  BY <1>0, <1>b DEF TreeShape
<1>1. TypeOK'
  BY <1>0, <1>b DEF TypeOK, TreeTypeOK, Pcs
<1>2. TransExclusion'
  BY <1>0 DEF TransExclusion
<1>3. GrantsHaveOwner'
  BY <1>0, <1>b, <1>c, TreeFacts DEF GrantsHaveOwner, InTrans, Waiting
<1>4. TreeShape'
  BY <1>0, <1>b, <1>c, TreeFacts DEF TreeShape, Waiting
<1>5. QueueShape'
  BY <1>0, <1>b, QueueFacts DEF QueueShape, Waiting
<1>6. OpsCounted' /\ \A k : OpsAt(k)' = OpsAt(k)
  BY <1>0, <1>b, <1>c, OpsKept
<1>7. WalkSound'
  BY <1>0, <1>b, <1>6 DEF WalkSound, InTrans
<1> QED
  BY <1>1, <1>2, <1>3, <1>4, <1>5, <1>6, <1>7

\* dsc_*_trans_stop.
LEMMA TransStopIInv ==
  ASSUME IInv, NEW t \in Threads, TransStop(t)
  PROVE  IInv'
<1> USE DEF IInv
<1> DEFINE n == at[t]
           act == Stopped(n)
           S == Triggered(act, n)
<1>0. /\ pc[t] \in {"trans", "quiet"}
      /\ active' = [m \in Node |-> IF m \in S THEN Head(queue[m]) ELSE act[m]]
      /\ queue' = [m \in Node |-> IF m \in S THEN Tail(queue[m]) ELSE queue[m]]
      /\ tran' = [u \in Threads |->
                    IF \E m \in S : Head(queue[m]) = u THEN "granted" ELSE tran[u]]
      /\ pc' = [pc EXCEPT ![t] = "idle"]
      /\ at' = [at EXCEPT ![t] = None]
      /\ UNCHANGED <<attached, ops, opsEvent, cds, cur, todo>>
  BY DEF TransStop, EndTrans, Leave
<1>b. /\ queue \in [Node -> Seq(Threads)] /\ pc \in [Threads -> Pcs]
      /\ at \in [Threads -> Node \cup {None}]
      /\ active \in [Node -> Threads \cup {None}]
      /\ tran \in [Threads -> {"none", "queued", "granted", "aborted"}]
  BY DEF TypeOK, TreeTypeOK
<1>c. n \in Node /\ active[n] = t /\ active[n] # None
  BY <1>0, <1>b, TreeFacts DEF TreeShape, GrantsHaveOwner, InTrans
<1>d. /\ S \subseteq Node
      /\ \A m \in S : queue[m] # <<>> /\ act[m] = None
      /\ \A m \in S : \A k \in Node : Related(m, k) => act[k] = None /\ k \notin S
  BY <1>c, TriggerSound
<1>e. \A m \in Node : act[m] = IF m = n THEN None ELSE active[m]
  BY <1>b, <1>c DEF Stopped
<1> HIDE DEF n, act, S
\* The first of each queue in S: a sleeper at that node, and nowhere else.
<1>f. \A m \in S : /\ Head(queue[m]) \in Threads /\ Head(queue[m]) # t /\ Head(queue[m]) # None
                   /\ pc[Head(queue[m])] = "tranWait" /\ at[Head(queue[m])] = m
                   /\ tran[Head(queue[m])] = "queued"
                   /\ Tail(queue[m]) \in Seq(Threads)
  BY <1>0, <1>b, <1>d, QueueFacts, TreeFacts DEF QueueShape, Waiting
<1>1. TypeOK'
  <2>1. active' \in [Node -> Threads \cup {None}]
    BY <1>0, <1>b, <1>e, <1>f
  <2>2. queue' \in [Node -> Seq(Threads)]
    BY <1>0, <1>b, <1>f
  <2>3. tran' \in [Threads -> {"none", "queued", "granted", "aborted"}]
    BY <1>0, <1>b
  <2> QED
    BY <1>0, <2>1, <2>2, <2>3 DEF TypeOK, TreeTypeOK, Pcs
<1>2. TransExclusion'
  BY <1>0, <1>d, <1>e, TreeFacts DEF TransExclusion
<1>3. GrantsHaveOwner'
  <2> SUFFICES ASSUME NEW m \in Node, NEW u \in Threads
               PROVE  active'[m] = u <=>
                        /\ at'[u] = m
                        /\ pc'[u] \in InTrans \/ (pc'[u] = "tranWait" /\ tran'[u] = "granted")
    BY DEF GrantsHaveOwner, Waiting
  <2>1. CASE m \in S
    <3>1. active'[m] = Head(queue[m])
      BY <1>0, <2>1
    <3>2. \A w \in Threads : active[m] # w \/ w = t
      BY <1>c, <1>d, <1>e, <2>1, TreeFacts
    <3>3. ASSUME u # Head(queue[m]), at'[u] = m,
                 pc'[u] \in InTrans \/ (pc'[u] = "tranWait" /\ tran'[u] = "granted")
          PROVE  FALSE
      <4>1. u # t /\ at[u] = m /\ pc'[u] = pc[u]
        BY <1>0, <1>b, <3>3, TreeFacts
      <4>2. ~ \E k \in S : Head(queue[k]) = u
        BY <1>f, <3>3, <4>1
      <4>3. tran'[u] = tran[u]
        BY <1>0, <4>2
      <4>4. active[m] = u
        BY <3>3, <4>1, <4>3 DEF GrantsHaveOwner, Waiting
      <4> QED
        BY <3>2, <4>1, <4>4
    <3>4. u = Head(queue[m]) => /\ at'[u] = m /\ pc'[u] = "tranWait" /\ tran'[u] = "granted"
      BY <1>0, <1>b, <1>f, <2>1
    <3> QED
      BY <3>1, <3>3, <3>4
  <2>2. CASE m \notin S
    <3>1. active'[m] = IF m = n THEN None ELSE active[m]
      BY <1>0, <1>e, <2>2
    <3>2. CASE u = t
      BY <1>0, <1>b, <1>c, <3>1, <3>2, TreeFacts DEF GrantsHaveOwner, InTrans, n
    <3>3. CASE u # t
      <4>1. at'[u] = at[u] /\ pc'[u] = pc[u]
        BY <1>0, <1>b, <3>3
      <4>2. (\E k \in S : Head(queue[k]) = u) => at[u] # m /\ pc[u] \notin InTrans
        BY <1>f, <2>2 DEF InTrans
      <4>3. ~(\E k \in S : Head(queue[k]) = u) => tran'[u] = tran[u]
        BY <1>0
      <4>4. active'[m] = u <=> active[m] = u
        BY <1>c, <3>1, <3>3, TreeFacts
      <4>5. active[m] = u <=> /\ at[u] = m
                              /\ pc[u] \in InTrans \/ (pc[u] = "tranWait" /\ tran[u] = "granted")
        BY DEF GrantsHaveOwner, Waiting
      <4>6. at[u] = m => tran'[u] = tran[u]
        BY <4>2, <4>3
      <4> QED
        BY <4>1, <4>4, <4>5, <4>6
    <3> QED
      BY <3>2, <3>3
  <2> QED
    BY <2>1, <2>2
<1>4. TreeShape'
  <2>1. \A m \in Node \ attached : m \notin S /\ active'[m] = None /\ queue'[m] = <<>>
    BY <1>0, <1>d, <1>e DEF TreeShape
  <2>2. \A u \in Threads : tran[u] = "aborted" => tran'[u] = "aborted"
    BY <1>0, <1>f
  <2> QED
    BY <1>0, <1>b, <2>1, <2>2, TreeFacts DEF TreeShape, Waiting
<1>5. QueueShape'
  <2>1. \A m \in Node : \A i \in DOMAIN queue'[m] :
          \E j \in DOMAIN queue[m] : /\ queue'[m][i] = queue[m][j]
                                     /\ m \in S => j = i + 1 /\ queue[m][j] # Head(queue[m])
                                     /\ m \notin S => j = i
    <3> SUFFICES ASSUME NEW m \in Node, NEW i \in DOMAIN queue'[m]
                 PROVE  \E j \in DOMAIN queue[m] :
                          /\ queue'[m][i] = queue[m][j]
                          /\ m \in S => j = i + 1 /\ queue[m][j] # Head(queue[m])
                          /\ m \notin S => j = i
      OBVIOUS
    <3>1. CASE m \in S
      <4>1. queue'[m] = Tail(queue[m]) /\ queue[m] \in Seq(Threads) /\ queue[m] # <<>>
        BY <1>0, <1>b, <1>d, <3>1
      <4>2. /\ i + 1 \in DOMAIN queue[m] /\ queue'[m][i] = queue[m][i + 1] /\ i + 1 # 1
            /\ 1 \in DOMAIN queue[m] /\ Head(queue[m]) = queue[m][1]
        BY <4>1, QueueFacts
      <4>3. queue[m][i + 1] # Head(queue[m])
        BY <4>2 DEF QueueShape
      <4> QED
        BY <3>1, <4>2, <4>3
    <3>2. CASE m \notin S
      BY <1>0, <3>2
    <3> QED
      BY <3>1, <3>2
  <2>2. ASSUME NEW m \in Node, NEW i \in DOMAIN queue'[m]
        PROVE  LET u == queue'[m][i]
               IN  pc'[u] = "tranWait" /\ at'[u] = m /\ tran'[u] = "queued"
    <3>1. PICK j \in DOMAIN queue[m] : /\ queue'[m][i] = queue[m][j]
                                       /\ m \in S => queue[m][j] # Head(queue[m])
      BY <2>1, <2>2
    <3> DEFINE u == queue[m][j]
    <3>2. u \in Threads /\ pc[u] = "tranWait" /\ at[u] = m /\ tran[u] = "queued"
      BY <1>b, QueueFacts DEF QueueShape, Waiting
    <3>3. ~ \E k \in S : Head(queue[k]) = u
      BY <3>1, <3>2, <1>f
    <3>4. pc'[u] = "tranWait" /\ at'[u] = m /\ tran'[u] = "queued"
      BY <1>0, <1>b, <3>2, <3>3
    <3> QED
      BY <3>1, <3>4
  <2>3. ASSUME NEW m \in Node, NEW i \in DOMAIN queue'[m], NEW j \in DOMAIN queue'[m],
               queue'[m][i] = queue'[m][j]
        PROVE  i = j
    <3>1. queue' \in [Node -> Seq(Threads)]
      BY <1>1 DEF TypeOK, TreeTypeOK
    <3>2. i \in Int /\ j \in Int
      BY <3>1, <2>3
    <3>3. CASE m \in S
      <4>1. /\ i + 1 \in DOMAIN queue[m] /\ queue'[m][i] = queue[m][i + 1]
            /\ j + 1 \in DOMAIN queue[m] /\ queue'[m][j] = queue[m][j + 1]
        BY <2>1, <2>3, <3>3
      <4>2. \A x, y \in DOMAIN queue[m] : queue[m][x] = queue[m][y] => x = y
        BY DEF QueueShape
      <4>3. i + 1 = j + 1
        BY <2>3, <4>1, <4>2
      <4> QED
        BY <3>2, <4>3
    <3>4. CASE m \notin S
      BY <1>0, <2>3, <3>4 DEF QueueShape
    <3> QED
      BY <3>3, <3>4
  <2>4. \A u \in Threads : pc'[u] = "tranWait" <=> tran'[u] # "none"
    <3> SUFFICES ASSUME NEW u \in Threads PROVE pc'[u] = "tranWait" <=> tran'[u] # "none"
      OBVIOUS
    <3>1. pc[u] = "tranWait" <=> tran[u] # "none"
      BY DEF QueueShape, Waiting
    <3>2. pc'[u] = "tranWait" <=> pc[u] = "tranWait"
      BY <1>0, <1>b
    <3>3. tran'[u] # "none" <=> tran[u] # "none"
      BY <1>0, <1>f
    <3> QED
      BY <3>1, <3>2, <3>3
  <2>5. ASSUME NEW u \in Threads, tran'[u] = "queued"
        PROVE  at'[u] \in Node /\ \E i \in DOMAIN queue'[at'[u]] : queue'[at'[u]][i] = u
    <3> DEFINE m == at[u]
    <3>1. /\ tran[u] = "queued" /\ ~ \E k \in S : Head(queue[k]) = u
          /\ pc[u] = "tranWait" /\ u # t
      BY <1>0, <2>5 DEF QueueShape, Waiting
    <3>2. at'[u] = m /\ m \in Node
      BY <1>0, <1>b, <3>1 DEF QueueShape
    <3>3. PICK i \in DOMAIN queue[m] : queue[m][i] = u
      BY <3>1 DEF QueueShape
    <3>4. CASE m \in S
      <4>1. queue'[m] = Tail(queue[m]) /\ queue[m] \in Seq(Threads) /\ queue[m] # <<>>
        BY <1>0, <1>b, <1>d, <3>2, <3>4
      <4>2. i # 1
        BY <3>1, <3>3, <3>4, <4>1, QueueFacts
      <4>3. i - 1 \in DOMAIN queue'[m] /\ queue'[m][i - 1] = u
        <5>1. \A q \in Seq(Threads) : q # <<>> =>
                \A x \in DOMAIN q : x # 1 => x - 1 \in DOMAIN Tail(q) /\ Tail(q)[x - 1] = q[x]
          BY QueueFacts
        <5> QED
          BY <3>3, <4>1, <4>2, <5>1
      <4> QED
        BY <3>2, <4>3
    <3>5. CASE m \notin S
      BY <1>0, <3>2, <3>3, <3>5
    <3> QED
      BY <3>4, <3>5
  <2> QED
    BY <2>2, <2>3, <2>4, <2>5 DEF QueueShape, Waiting
<1>6. OpsCounted' /\ \A k : OpsAt(k)' = OpsAt(k)
  BY <1>0, <1>b, OpsKept
<1>7. WalkSound'
  BY <1>0, <1>b, <1>6 DEF WalkSound, InTrans
<1> QED
  BY <1>1, <1>2, <1>3, <1>4, <1>5, <1>6, <1>7

\* Two threads inside a transition never have subtrees that meet.
LEMMA TransApart ==
  ASSUME IInv, NEW t \in Threads, NEW u \in Threads, NEW k \in Node,
         pc[t] \in InTrans, pc[u] \in InTrans,
         k \in Subtree(at[t]), k \in Subtree(at[u])
  PROVE  t = u
<1> USE DEF IInv
<1>1. at[t] \in Node /\ at[u] \in Node
  BY DEF TypeOK, TreeTypeOK, TreeShape, InTrans
<1>2. active[at[t]] = t /\ active[at[u]] = u
  BY <1>1 DEF GrantsHaveOwner
<1>3. at[t] = at[u] \/ Related(at[t], at[u])
  BY <1>1, SubtreesMeet
<1> QED
  BY <1>1, <1>2, <1>3, TreeFacts DEF TransExclusion

\* The start of dsc_*_wait_for_ops.
LEMMA WaitForOpsIInv ==
  ASSUME IInv, NEW t \in Threads, WaitForOps(t)
  PROVE  IInv'
<1> USE DEF IInv
<1>0. /\ pc[t] = "trans"
      /\ pc' = [pc EXCEPT ![t] = "walk"]
      /\ todo' = [todo EXCEPT ![t] = attached \cap Subtree(at[t])]
      /\ UNCHANGED <<attached, active, queue, tran, ops, opsEvent, cds, at, cur>>
  BY DEF WaitForOps, treeVars
<1>b. /\ pc \in [Threads -> Pcs] /\ todo \in [Threads -> SUBSET Node] /\ attached \subseteq Node
      /\ at \in [Threads -> Node \cup {None}]
  BY DEF TypeOK, TreeTypeOK
<1>1. TypeOK'
  BY <1>0, <1>b DEF TypeOK, TreeTypeOK, Pcs
<1>2. TransExclusion'
  BY <1>0 DEF TransExclusion
<1>3. GrantsHaveOwner'
  BY <1>0, <1>b DEF GrantsHaveOwner, InTrans, Waiting
<1>4. TreeShape'
  BY <1>0, <1>b DEF TreeShape, Waiting
<1>5. QueueShape'
  BY <1>0, <1>b DEF QueueShape, Waiting
<1>6. OpsCounted' /\ \A k : OpsAt(k)' = OpsAt(k)
  BY <1>0, <1>b, OpsKept
<1>7. WalkSound'
  <2>1. \A k \in Node : OpsAt(k) # {} => k \in attached
    BY DEF OpsAt, TreeShape, Waiting
  <2>2. Subtree(at[t]) \subseteq Node
    BY <1>0, <1>b DEF Subtree, Descendants, TreeShape
  <2>3. \A k \in Subtree(at[t]) : OpsAt(k) # {} => k \in todo'[t]
    BY <1>0, <1>b, <2>1, <2>2
  <2> QED
    BY <1>0, <1>b, <1>6, <2>3 DEF WalkSound, InTrans
<1> QED
  BY <1>1, <1>2, <1>3, <1>4, <1>5, <1>6, <1>7

\* One node of the walk of dsc_*_wait_for_ops.
LEMMA DrainNodeIInv ==
  ASSUME IInv, NEW t \in Threads, NEW n \in Node, DrainNode(t, n)
  PROVE  IInv'
<1> USE DEF IInv
<1>0. /\ pc[t] = "walk" /\ n \in todo[t]
      /\ UNCHANGED <<attached, active, queue, tran, ops, cds, at>>
      /\ \/ /\ ops[n] > 0
            /\ opsEvent' = [opsEvent EXCEPT ![n] = FALSE]
            /\ pc' = [pc EXCEPT ![t] = "opsWait"]
            /\ cur' = [cur EXCEPT ![t] = n]
            /\ todo' = todo
         \/ /\ ~(ops[n] > 0)
            /\ todo' = [todo EXCEPT ![t] = @ \ {n}]
            /\ pc' = [pc EXCEPT ![t] = IF todo[t] \ {n} = {} THEN "quiet" ELSE "walk"]
            /\ opsEvent' = opsEvent /\ cur' = cur
  BY DEF DrainNode, Passed
<1>b. /\ pc \in [Threads -> Pcs] /\ todo \in [Threads -> SUBSET Node] /\ attached \subseteq Node
      /\ at \in [Threads -> Node \cup {None}] /\ cur \in [Threads -> Node \cup {None}]
      /\ opsEvent \in [Node -> BOOLEAN] /\ ops \in [Node -> Nat]
  BY DEF TypeOK, TreeTypeOK
<1>c. pc'[t] \in InTrans /\ pc'[t] \in Pcs
  BY <1>0, <1>b DEF Pcs, InTrans
<1>d. \A u \in Threads : u # t => pc'[u] = pc[u] /\ todo'[u] = todo[u] /\ cur'[u] = cur[u]
  BY <1>0, <1>b
<1>1. TypeOK'
  <2>1. pc' \in [Threads -> Pcs] /\ todo' \in [Threads -> SUBSET Node]
    BY <1>0, <1>b DEF Pcs
  <2>2. cur' \in [Threads -> Node \cup {None}] /\ opsEvent' \in [Node -> BOOLEAN]
    BY <1>0, <1>b
  <2> QED
    BY <1>0, <2>1, <2>2 DEF TypeOK, TreeTypeOK
<1>2. TransExclusion'
  BY <1>0 DEF TransExclusion
<1>3. GrantsHaveOwner'
  BY <1>0, <1>b, <1>c, <1>d DEF GrantsHaveOwner, InTrans, Waiting
<1>4. TreeShape'
  BY <1>0, <1>b, <1>c, <1>d DEF TreeShape, Waiting, InTrans
<1>5. QueueShape'
  <2>1. \A m \in Node : \A i \in DOMAIN queue[m] : queue[m][i] \in Threads
    BY QueueFacts DEF TypeOK, TreeTypeOK
  <2>2. \A u \in Threads : pc'[u] = "tranWait" <=> pc[u] = "tranWait"
    BY <1>0, <1>c, <1>d DEF InTrans
  <2> QED
    BY <1>0, <2>1, <2>2 DEF QueueShape, Waiting
<1>6. OpsCounted' /\ \A k : OpsAt(k)' = OpsAt(k)
  BY <1>0, <1>b, <1>c, <1>d, OpsKept DEF InTrans
<1>e. OpsAt(n) # {} <=> ops[n] > 0
  <2>1. IsFiniteSet(OpsAt(n)) /\ OpsAt(n) \subseteq Threads
    BY FS_Subset, TreeAssumption DEF OpsAt, TreeAssumption
  <2> QED
    BY <1>b, <2>1, FS_EmptySet DEF OpsCounted
<1>7. WalkSound'
  <2> SUFFICES ASSUME NEW u \in Threads
               PROVE  /\ pc'[u] \in InTrans \ {"trans"} =>
                           \A k \in Subtree(at[u]) : OpsAt(k) # {} => k \in todo'[u]
                      /\ IF pc'[u] \in {"walk", "opsWait"}
                         THEN todo'[u] \subseteq attached \cap Subtree(at[u])
                         ELSE todo'[u] = {}
                      /\ pc'[u] = "opsWait" <=> cur'[u] # None
                      /\ pc'[u] = "opsWait" =>
                           /\ cur'[u] \in todo'[u]
                           /\ ops[cur'[u]] = 0 <=> opsEvent'[cur'[u]]
    BY <1>0, <1>6 DEF WalkSound
  <2>1. CASE u # t
    <3>1. ASSUME pc[u] = "opsWait" PROVE cur[u] # n
      <4>1. n \in Subtree(at[t])
        BY <1>0 DEF WalkSound
      <4> QED
        BY <4>1, <3>1, <2>1, <1>0, TransApart DEF WalkSound, InTrans
    <3> QED
      BY <1>0, <1>b, <1>d, <2>1, <3>1 DEF WalkSound
  <2>2. CASE u = t /\ ops[n] > 0
    <3>1. /\ pc'[t] = "opsWait" /\ cur'[t] = n /\ todo'[t] = todo[t] /\ ~opsEvent'[n]
      BY <1>0, <1>b, <2>2
    <3> QED
      BY <1>0, <1>b, <2>2, <3>1, TreeFacts DEF WalkSound, InTrans
  <2>3. CASE u = t /\ ~(ops[n] > 0)
    <3>1. /\ pc'[t] = IF todo[t] \ {n} = {} THEN "quiet" ELSE "walk"
          /\ cur'[t] = cur[t] /\ todo'[t] = todo[t] \ {n}
      BY <1>0, <1>b, <2>3
    <3>2. cur[t] = None
      BY <1>0 DEF WalkSound
    <3>3. \A k \in Subtree(at[t]) : OpsAt(k) # {} => k \in todo'[t]
      BY <1>0, <1>e, <2>3, <3>1 DEF WalkSound, InTrans
    <3>4. todo[t] \subseteq attached \cap Subtree(at[t])
      BY <1>0 DEF WalkSound
    <3> QED
      BY <2>3, <3>1, <3>2, <3>3, <3>4
  <2> QED
    BY <2>1, <2>2, <2>3
<1> QED
  BY <1>1, <1>2, <1>3, <1>4, <1>5, <1>6, <1>7

\* A sleeper of dsc_*_wait_for_ops wakes up.
LEMMA OpsWakeIInv ==
  ASSUME IInv, NEW t \in Threads, OpsWake(t)
  PROVE  IInv'
<1> USE DEF IInv
<1> DEFINE n == cur[t]
<1>0. /\ pc[t] = "opsWait" /\ opsEvent[n]
      /\ UNCHANGED <<attached, active, queue, tran, ops, cds, at>>
      /\ opsEvent' = [opsEvent EXCEPT ![n] = FALSE]
      /\ todo' = [todo EXCEPT ![t] = @ \ {n}]
      /\ pc' = [pc EXCEPT ![t] = IF todo[t] \ {n} = {} THEN "quiet" ELSE "walk"]
      /\ cur' = [cur EXCEPT ![t] = None]
  BY DEF OpsWake, Passed
<1>b. /\ pc \in [Threads -> Pcs] /\ todo \in [Threads -> SUBSET Node] /\ attached \subseteq Node
      /\ at \in [Threads -> Node \cup {None}] /\ cur \in [Threads -> Node \cup {None}]
      /\ opsEvent \in [Node -> BOOLEAN] /\ ops \in [Node -> Nat]
  BY DEF TypeOK, TreeTypeOK
<1>c. pc'[t] \in {"quiet", "walk"}
  BY <1>0, <1>b
<1>d. \A u \in Threads : u # t => pc'[u] = pc[u] /\ todo'[u] = todo[u] /\ cur'[u] = cur[u]
  BY <1>0, <1>b
<1>e. n \in attached /\ n \in Subtree(at[t]) /\ n \in todo[t] /\ ops[n] = 0
  BY <1>0 DEF WalkSound
<1>1. TypeOK'
  BY <1>0, <1>b DEF TypeOK, TreeTypeOK, Pcs
<1>2. TransExclusion'
  BY <1>0 DEF TransExclusion
<1>3. GrantsHaveOwner'
  BY <1>0, <1>b, <1>c, <1>d DEF GrantsHaveOwner, InTrans, Waiting
<1>4. TreeShape'
  BY <1>0, <1>b, <1>c, <1>d DEF TreeShape, Waiting
<1>5. QueueShape'
  BY <1>0, <1>b, <1>c, <1>d, QueueFacts DEF QueueShape, Waiting
<1>6. OpsCounted' /\ \A k : OpsAt(k)' = OpsAt(k)
  BY <1>0, <1>b, <1>c, <1>d, OpsKept
<1>f. OpsAt(n) = {}
  <2>1. IsFiniteSet(OpsAt(n))
    BY FS_Subset, TreeAssumption DEF OpsAt, TreeAssumption
  <2> QED
    BY <1>b, <1>e, <2>1, FS_EmptySet DEF OpsCounted
<1>7. WalkSound'
  <2> SUFFICES ASSUME NEW u \in Threads
               PROVE  /\ pc'[u] \in InTrans \ {"trans"} =>
                           \A k \in Subtree(at[u]) : OpsAt(k) # {} => k \in todo'[u]
                      /\ IF pc'[u] \in {"walk", "opsWait"}
                         THEN todo'[u] \subseteq attached \cap Subtree(at[u])
                         ELSE todo'[u] = {}
                      /\ pc'[u] = "opsWait" <=> cur'[u] # None
                      /\ pc'[u] = "opsWait" =>
                           /\ cur'[u] \in todo'[u]
                           /\ ops[cur'[u]] = 0 <=> opsEvent'[cur'[u]]
    BY <1>0, <1>6 DEF WalkSound
  <2>1. CASE u # t
    <3>1. ASSUME pc[u] = "opsWait" PROVE cur[u] # n
      BY <1>b, <1>e, <3>1, <2>1, <1>0, TransApart DEF WalkSound, InTrans
    <3> QED
      BY <1>0, <1>b, <1>d, <2>1, <3>1 DEF WalkSound
  <2>2. CASE u = t
    BY <1>0, <1>b, <1>c, <1>f, <2>2 DEF WalkSound, InTrans
  <2> QED
    BY <2>1, <2>2
<1> QED
  BY <1>1, <1>2, <1>3, <1>4, <1>5, <1>6, <1>7

\* dsc_*_op_start.
LEMMA OpStartIInv ==
  ASSUME IInv, NEW t \in Threads, NEW n \in Node, OpStart(t, n)
  PROVE  IInv'
<1> USE DEF IInv
<1>0. /\ pc[t] = "idle" /\ n \in attached /\ CanTrans(n) = "SUCCESS"
      /\ ops' = [ops EXCEPT ![n] = @ + 1]
      /\ pc' = [pc EXCEPT ![t] = "op"]
      /\ at' = [at EXCEPT ![t] = n]
      /\ UNCHANGED <<attached, active, queue, tran, opsEvent, cds, cur, todo>>
  BY DEF OpStart, BeginOp, CanOp, Enter
<1>a. active[n] = None /\ \A a \in Ancestors(n) : active[a] = None
  BY <1>0, Admitted
<1>b. /\ pc \in [Threads -> Pcs] /\ ops \in [Node -> Nat]
      /\ at \in [Threads -> Node \cup {None}]
  BY DEF TypeOK, TreeTypeOK
<1>c. at[t] = None
  BY <1>0 DEF TreeShape
<1>1. TypeOK'
  BY <1>0, <1>b DEF TypeOK, TreeTypeOK, Pcs
<1>2. TransExclusion'
  BY <1>0 DEF TransExclusion
<1>3. GrantsHaveOwner'
  BY <1>0, <1>b, <1>c, TreeFacts DEF GrantsHaveOwner, InTrans, Waiting
<1>4. TreeShape'
  BY <1>0, <1>b, TreeFacts DEF TreeShape, Waiting
<1>5. QueueShape'
  BY <1>0, <1>b, <1>c DEF QueueShape, Waiting
<1>6. OpsCounted'
  <2>1. \A k \in Node : OpsAt(k)' = IF k = n THEN OpsAt(k) \cup {t} ELSE OpsAt(k)
    BY <1>0, <1>b DEF OpsAt
  <2>2. t \notin OpsAt(n) /\ IsFiniteSet(OpsAt(n))
    BY <1>0, FS_Subset, TreeAssumption DEF OpsAt, TreeAssumption
  <2>3. Cardinality(OpsAt(n) \cup {t}) = Cardinality(OpsAt(n)) + 1
    BY <2>2, FS_AddElement
  <2> QED
    BY <1>0, <1>b, <2>1, <2>3 DEF OpsCounted
\* No walk or quiet subtree contains n: it would make n's ancestors active.
<1>e. \A u \in Threads : pc[u] \in InTrans => n \notin Subtree(at[u])
  <2> SUFFICES ASSUME NEW u \in Threads, pc[u] \in InTrans PROVE n \notin Subtree(at[u])
    OBVIOUS
  <2>1. at[u] \in Node /\ active[at[u]] = u
    BY <1>b DEF TreeShape, GrantsHaveOwner, InTrans
  <2> QED
    BY <1>a, <2>1, SubtreeFacts, TreeFacts
<1>7. WalkSound'
  <2>1. \A k : k # n => OpsAt(k)' = OpsAt(k)
    BY <1>0, <1>b, <1>c DEF OpsAt
  <2>2. \A u \in Threads : /\ u # t => pc'[u] = pc[u] /\ at'[u] = at[u]
                           /\ pc[u] = "opsWait" => cur[u] # n
    BY <1>0, <1>b, <1>e DEF WalkSound, InTrans
  <2>3. \A k \in Node : k # n => ops'[k] = ops[k]
    BY <1>0, <1>b
  <2>4. \A u \in Threads : cur[u] \in Node \cup {None}
    BY DEF TypeOK
  <2>5. pc'[t] = "op" /\ todo'[t] = {} /\ cur'[t] = None
    BY <1>0, <1>b DEF WalkSound
  <2> QED
    BY <1>0, <1>e, <2>1, <2>2, <2>3, <2>4, <2>5 DEF WalkSound, InTrans
<1> QED
  BY <1>1, <1>2, <1>3, <1>4, <1>5, <1>6, <1>7

\* dsc_*_op_stop.
LEMMA OpStopIInv ==
  ASSUME IInv, NEW t \in Threads, OpStop(t)
  PROVE  IInv'
<1> USE DEF IInv
<1> DEFINE n == at[t]
<1>0. /\ pc[t] = "op"
      /\ ops' = [ops EXCEPT ![n] = @ - 1]
      /\ opsEvent' = [opsEvent EXCEPT ![n] = @ \/ ops[n] = 1]
      /\ pc' = [pc EXCEPT ![t] = "idle"]
      /\ at' = [at EXCEPT ![t] = None]
      /\ UNCHANGED <<attached, active, queue, tran, cds, cur, todo>>
  BY DEF OpStop, EndOp, Leave
<1>b. /\ pc \in [Threads -> Pcs] /\ ops \in [Node -> Nat]
      /\ at \in [Threads -> Node \cup {None}] /\ opsEvent \in [Node -> BOOLEAN]
      /\ cur \in [Threads -> Node \cup {None}]
  BY DEF TypeOK, TreeTypeOK
<1>c. n \in attached /\ n \in Node
  BY <1>0, <1>b DEF TreeShape, Waiting, TypeOK, TreeTypeOK
<1> HIDE DEF n
<1>d. \A k \in Node : OpsAt(k)' = OpsAt(k) \ {t} /\ (k # n => t \notin OpsAt(k))
  BY <1>0, <1>b, TreeFacts DEF OpsAt, n
<1>e. /\ t \in OpsAt(n) /\ IsFiniteSet(OpsAt(n))
      /\ Cardinality(OpsAt(n) \ {t}) = Cardinality(OpsAt(n)) - 1
      /\ Cardinality(OpsAt(n) \ {t}) \in Nat
  <2>1. t \in OpsAt(n) /\ IsFiniteSet(OpsAt(n))
    BY <1>0, FS_Subset, TreeAssumption DEF OpsAt, TreeAssumption, n
  <2>2. IsFiniteSet(OpsAt(n) \ {t}) /\ Cardinality(OpsAt(n) \ {t}) = Cardinality(OpsAt(n)) - 1
    BY <2>1, FS_RemoveElement
  <2> QED
    BY <2>1, <2>2, FS_CardinalityType
<1>6. OpsCounted'
  <2>1. \A k \in Node : k # n => OpsAt(k)' = OpsAt(k)
    BY <1>d
  <2> QED
    BY <1>0, <1>b, <1>c, <1>d, <1>e, <2>1 DEF OpsCounted
<1>f. ops'[n] \in Nat /\ ops'[n] = ops[n] - 1 /\ ops[n] > 0
  BY <1>0, <1>b, <1>c, <1>d, <1>e DEF OpsCounted
<1>1. TypeOK'
  <2>1. ops' \in [Node -> Nat]
    BY <1>0, <1>b, <1>f
  <2>2. opsEvent' \in [Node -> BOOLEAN]
    BY <1>0, <1>b
  <2> QED
    BY <1>0, <1>b, <2>1, <2>2 DEF TypeOK, TreeTypeOK, Pcs
<1>2. TransExclusion'
  BY <1>0 DEF TransExclusion
<1>3. GrantsHaveOwner'
  BY <1>0, <1>b, TreeFacts DEF GrantsHaveOwner, InTrans, Waiting
<1>4. TreeShape'
  BY <1>0, <1>b, TreeFacts DEF TreeShape, Waiting
<1>5. QueueShape'
  BY <1>0, <1>b DEF QueueShape, Waiting
<1>7. WalkSound'
  <2> SUFFICES ASSUME NEW u \in Threads
               PROVE  /\ pc'[u] \in InTrans \ {"trans"} =>
                           \A k \in Subtree(at'[u]) : OpsAt(k)' # {} => k \in todo[u]
                      /\ IF pc'[u] \in {"walk", "opsWait"}
                         THEN todo[u] \subseteq attached \cap Subtree(at'[u])
                         ELSE todo[u] = {}
                      /\ pc'[u] = "opsWait" <=> cur[u] # None
                      /\ pc'[u] = "opsWait" =>
                           /\ cur[u] \in todo[u]
                           /\ ops'[cur[u]] = 0 <=> opsEvent'[cur[u]]
    BY <1>0 DEF WalkSound
  <2>1. CASE u = t
    BY <1>0, <1>b, <2>1 DEF WalkSound, InTrans
  <2>2. CASE u # t
    <3>1. pc'[u] = pc[u] /\ at'[u] = at[u]
      BY <1>0, <1>b, <2>2
    <3>2. pc[u] \in InTrans => at[u] \in Node
      BY <1>b DEF TreeShape, InTrans
    <3>3. pc[u] \in InTrans => Subtree(at[u]) \subseteq Node
      BY <3>2 DEF Subtree, Descendants
    <3>4. pc[u] \in InTrans \ {"trans"} =>
            \A k \in Subtree(at[u]) : OpsAt(k)' # {} => k \in todo[u]
      BY <1>d, <3>3 DEF WalkSound
    <3>5. ASSUME pc[u] = "opsWait"
          PROVE  ops'[cur[u]] = 0 <=> opsEvent'[cur[u]]
      <4>1. cur[u] \in Node /\ (ops[cur[u]] = 0 <=> opsEvent[cur[u]])
        BY <1>b, <3>5 DEF WalkSound
      <4>2. CASE cur[u] = n
        <5>1. opsEvent'[n] = (opsEvent[n] \/ ops[n] = 1)
          BY <1>0, <1>b, <1>c
        <5>2. ~opsEvent[n]
          BY <1>f, <4>1, <4>2
        <5>3. ops'[n] = 0 <=> ops[n] = 1
          BY <1>b, <1>c, <1>f
        <5> QED
          BY <4>2, <5>1, <5>2, <5>3
      <4>3. CASE cur[u] # n
        <5>1. ops'[cur[u]] = ops[cur[u]] /\ opsEvent'[cur[u]] = opsEvent[cur[u]]
          BY <1>0, <1>b, <4>1, <4>3
        <5> QED
          BY <4>1, <5>1
      <4> QED
        BY <4>2, <4>3
    <3> QED
      BY <3>1, <3>4, <3>5 DEF WalkSound
  <2> QED
    BY <2>1, <2>2
<1> QED
  BY <1>1, <1>2, <1>3, <1>4, <1>5, <1>6, <1>7

\* dsc_*_create.
LEMMA CreateIInv ==
  ASSUME IInv, NEW n \in Node, Create(n)
  PROVE  IInv'
<1> USE DEF IInv
<1>0. /\ n \notin attached /\ Ancestors(n) \subseteq attached
      /\ attached' = attached \cup {n}
      /\ active' = [active EXCEPT ![n] = None]
      /\ queue' = [queue EXCEPT ![n] = <<>>]
      /\ ops' = [ops EXCEPT ![n] = 0]
      /\ opsEvent' = [opsEvent EXCEPT ![n] = FALSE]
      /\ todo' = [t \in Threads |->
                    IF at[t] \in Ancestors(n) /\ todo[t] \cap Subtree(Parent(n)) # {}
                    THEN todo[t] \cup {n} ELSE todo[t]]
      /\ UNCHANGED <<tran, cds, pc, at, cur>>
  BY DEF Create, CreateNode
<1>b. /\ attached \subseteq Node /\ active \in [Node -> Threads \cup {None}]
      /\ queue \in [Node -> Seq(Threads)] /\ ops \in [Node -> Nat]
      /\ opsEvent \in [Node -> BOOLEAN] /\ todo \in [Threads -> SUBSET Node]
      /\ pc \in [Threads -> Pcs]
      /\ at \in [Threads -> Node \cup {None}] /\ cur \in [Threads -> Node \cup {None}]
  BY DEF TypeOK, TreeTypeOK
<1>c. /\ active[n] = None /\ queue[n] = <<>>
      /\ \A t \in Threads : at[t] = n => Waiting(t)
  BY <1>0, TreeFacts DEF TreeShape, Waiting
<1>d. active' = active /\ queue' = queue
  BY <1>0, <1>b, <1>c
<1>e. OpsAt(n) = {} /\ \A k : OpsAt(k)' = OpsAt(k)
  BY <1>0, <1>c DEF OpsAt, Waiting
<1>f. ops[n] = 0
  BY <1>e, FS_EmptySet DEF OpsCounted
<1>g. ops' = ops
  BY <1>0, <1>b, <1>f
<1>1. TypeOK'
  <2>1. todo' \in [Threads -> SUBSET Node]
    BY <1>0, <1>b
  <2> QED
    BY <1>0, <1>b, <1>d, <1>g, <2>1 DEF TypeOK, TreeTypeOK
<1>2. TransExclusion'
  BY <1>d DEF TransExclusion
<1>3. GrantsHaveOwner'
  BY <1>0, <1>d DEF GrantsHaveOwner, Waiting
<1>4. TreeShape'
  BY <1>0, <1>d, TreeFacts DEF TreeShape, Waiting
<1>5. QueueShape'
  BY <1>0, <1>d DEF QueueShape, Waiting
<1>6. OpsCounted'
  BY <1>e, <1>g DEF OpsCounted
<1>7. WalkSound'
  <2> SUFFICES ASSUME NEW u \in Threads
               PROVE  /\ pc[u] \in InTrans \ {"trans"} =>
                           \A k \in Subtree(at[u]) : OpsAt(k) # {} => k \in todo'[u]
                      /\ IF pc[u] \in {"walk", "opsWait"}
                         THEN todo'[u] \subseteq attached' \cap Subtree(at[u])
                         ELSE todo'[u] = {}
                      /\ pc[u] = "opsWait" <=> cur[u] # None
                      /\ pc[u] = "opsWait" =>
                           /\ cur[u] \in todo'[u]
                           /\ ops[cur[u]] = 0 <=> opsEvent'[cur[u]]
    BY <1>0, <1>e, <1>g DEF WalkSound
  <2>1. todo[u] \subseteq todo'[u] /\ todo'[u] \subseteq todo[u] \cup {n}
    BY <1>0
  <2>2. n \in todo'[u] => at[u] \in Ancestors(n) /\ todo[u] # {}
    BY <1>0 DEF WalkSound
  <2>3. at[u] \in Ancestors(n) => n \in Subtree(at[u])
    BY SubtreeFacts, TreeFacts
  <2>4. pc[u] = "opsWait" => cur[u] # n /\ opsEvent'[cur[u]] = opsEvent[cur[u]]
    BY <1>0, <1>b DEF WalkSound
  <2>5. pc[u] \notin {"walk", "opsWait"} => todo'[u] = {}
    BY <2>1, <2>2 DEF WalkSound
  <2>6. pc[u] \in {"walk", "opsWait"} => todo'[u] \subseteq attached' \cap Subtree(at[u])
    BY <1>0, <2>1, <2>2, <2>3 DEF WalkSound
  <2> QED
    BY <2>1, <2>4, <2>5, <2>6 DEF WalkSound
<1> QED
  BY <1>1, <1>2, <1>3, <1>4, <1>5, <1>6, <1>7

\* dsc_*_destroy, called within its contract.
LEMMA DestroyIInv ==
  ASSUME IInv, NEW n \in Node, Destroy(n)
  PROVE  IInv'
<1> USE DEF IInv
<1> DEFINE Aborted(u) == \E i \in DOMAIN queue[n] : queue[n][i] = u
<1>0. /\ n \in attached
      /\ attached' = attached \ {n}
      /\ tran' = [u \in Threads |-> IF Aborted(u) THEN "aborted" ELSE tran[u]]
      /\ queue' = [queue EXCEPT ![n] = <<>>]
      /\ active' = [active EXCEPT ![n] = None]
      /\ UNCHANGED <<ops, opsEvent, cds, at, cur>>
      /\ todo' = [u \in Threads |-> todo[u] \ {n}]
      /\ pc' = [u \in Threads |-> IF pc[u] = "walk" /\ todo[u] = {n} THEN "quiet" ELSE pc[u]]
  BY DEF Destroy, Detach, DestroyNode
<1>a. /\ attached \cap Descendants(n) = {} /\ ops[n] = 0 /\ active[n] = None
      /\ \A u \in Threads : cur[u] # n
  BY DEF Destroy, MayDestroy
<1>b. /\ attached \subseteq Node /\ active \in [Node -> Threads \cup {None}]
      /\ queue \in [Node -> Seq(Threads)] /\ ops \in [Node -> Nat]
      /\ tran \in [Threads -> {"none", "queued", "granted", "aborted"}]
      /\ pc \in [Threads -> Pcs]
      /\ at \in [Threads -> Node \cup {None}] /\ cur \in [Threads -> Node \cup {None}]
      /\ todo \in [Threads -> SUBSET Node]
  BY DEF TypeOK, TreeTypeOK
\* A walk that had only n left has ended; nothing else moves.
<1>c. \A u \in Threads : \/ pc'[u] = pc[u]
                         \/ pc[u] = "walk" /\ pc'[u] = "quiet" /\ todo'[u] = {}
  BY <1>0, <1>b
<1>d. active' = active
  BY <1>0, <1>a, <1>b
<1>e. OpsAt(n) = {} /\ \A k : OpsAt(k)' = OpsAt(k)
  <2>1. IsFiniteSet(OpsAt(n))
    BY FS_Subset, TreeAssumption DEF OpsAt, TreeAssumption
  <2> QED
    BY <1>0, <1>a, <1>c, <2>1, FS_EmptySet DEF OpsCounted, OpsAt
<1>f. \A u \in Threads : Aborted(u) => Waiting(u) /\ at[u] = n /\ tran[u] = "queued"
  BY <1>b, QueueFacts DEF QueueShape
<1> HIDE DEF Aborted
<1>1. TypeOK'
  <2>1. pc' \in [Threads -> Pcs] /\ todo' \in [Threads -> SUBSET Node]
    BY <1>0, <1>b DEF Pcs
  <2> QED
    BY <1>0, <1>b, <1>d, <2>1 DEF TypeOK, TreeTypeOK
<1>2. TransExclusion'
  BY <1>d DEF TransExclusion
<1>3. GrantsHaveOwner'
  <2>1. \A u \in Threads : tran'[u] = "granted" <=> tran[u] = "granted"
    BY <1>0, <1>f
  <2>2. \A u \in Threads : /\ pc'[u] \in InTrans <=> pc[u] \in InTrans
                           /\ pc'[u] = "tranWait" <=> pc[u] = "tranWait"
    BY <1>c DEF InTrans
  <2> QED
    BY <1>0, <1>d, <2>1, <2>2 DEF GrantsHaveOwner, Waiting
<1>4. TreeShape'
  <2>1. \A m \in attached' : Ancestors(m) \subseteq attached'
    BY <1>0, <1>a, <1>b, SubtreeFacts DEF TreeShape
  <2>2. \A m \in Node \ attached' : active'[m] = None /\ queue'[m] = <<>>
    BY <1>0, <1>a, <1>b, <1>d DEF TreeShape
  <2>3. ASSUME NEW u \in Threads, pc[u] # "idle", at[u] = n
        PROVE  Waiting(u) /\ tran'[u] = "aborted"
    <3>1. pc[u] \notin InTrans /\ ~(Waiting(u) /\ tran[u] = "granted")
      BY <1>a, <2>3, TreeFacts DEF GrantsHaveOwner
    <3>2. pc[u] # "op"
      BY <1>e, <2>3 DEF OpsAt
    <3>3. Waiting(u)
      BY <1>b, <2>3, <3>1, <3>2 DEF Pcs, InTrans, Waiting
    <3>4. tran[u] = "queued" => Aborted(u)
      BY <2>3, <3>3 DEF QueueShape, Aborted
    <3>5. tran[u] \in {"queued", "aborted"}
      BY <1>b, <3>1, <3>3 DEF QueueShape
    <3> QED
      BY <1>0, <3>3, <3>4, <3>5
  <2>4. ASSUME NEW u \in Threads, tran[u] = "aborted"
        PROVE  tran'[u] = "aborted"
    BY <1>0, <2>4
  <2>5. \A u \in Threads : /\ pc'[u] = "idle" <=> pc[u] = "idle"
                           /\ pc'[u] = "tranWait" <=> pc[u] = "tranWait"
    BY <1>c
  <2> QED
    BY <1>0, <2>1, <2>2, <2>3, <2>4, <2>5 DEF TreeShape, Waiting
<1>5. QueueShape'
  <2>1. \A m \in Node : queue'[m] = IF m = n THEN <<>> ELSE queue[m]
    BY <1>0, <1>b
  <2>2. \A m \in Node : \A i \in DOMAIN queue[m] :
          queue[m][i] \in Threads /\ (m # n => tran'[queue[m][i]] = "queued")
    BY <1>0, <1>b, <1>f, QueueFacts DEF QueueShape
  <2>3. \A u \in Threads : tran'[u] # "none" <=> tran[u] # "none"
    BY <1>0, <1>f
  <2>4. ASSUME NEW u \in Threads, tran'[u] = "queued"
        PROVE  at[u] \in Node /\ \E i \in DOMAIN queue'[at[u]] : queue'[at[u]][i] = u
    <3>1. tran[u] = "queued" /\ ~Aborted(u)
      BY <1>0, <2>4
    <3>2. at[u] \in Node /\ \E i \in DOMAIN queue[at[u]] : queue[at[u]][i] = u
      BY <3>1 DEF QueueShape
    <3>3. at[u] # n
      BY <3>1, <3>2 DEF Aborted
    <3> QED
      BY <2>1, <3>2, <3>3
  <2>5. \A m \in Node : \A i, j \in DOMAIN queue'[m] : queue'[m][i] = queue'[m][j] => i = j
    BY <2>1 DEF QueueShape
  <2>6. \A m \in Node : \A i \in DOMAIN queue'[m] :
          LET u == queue'[m][i] IN pc[u] = "tranWait" /\ at[u] = m /\ tran'[u] = "queued"
    BY <2>1, <2>2 DEF QueueShape, Waiting
  <2>7. \A u \in Threads : pc[u] = "tranWait" <=> tran'[u] # "none"
    BY <2>3 DEF QueueShape, Waiting
  <2>8. at' = at /\ \A u \in Threads : pc'[u] = "tranWait" <=> pc[u] = "tranWait"
    BY <1>0, <1>c
  <2>9. \A u \in Threads : tran'[u] = "queued" =>
          at'[u] \in Node /\ \E i \in DOMAIN queue'[at'[u]] : queue'[at'[u]][i] = u
    BY <2>4, <2>8
  <2> QED
    BY <2>1, <2>2, <2>5, <2>6, <2>7, <2>8, <2>9 DEF QueueShape, Waiting
<1>6. OpsCounted'
  BY <1>0, <1>e DEF OpsCounted
\* The node leaves every walk, and no operation was left on it.
<1>7. WalkSound'
  <2> SUFFICES ASSUME NEW u \in Threads
               PROVE  /\ pc'[u] \in InTrans \ {"trans"} =>
                           \A k \in Subtree(at[u]) : OpsAt(k) # {} => k \in todo'[u]
                      /\ IF pc'[u] \in {"walk", "opsWait"}
                         THEN todo'[u] \subseteq attached' \cap Subtree(at[u])
                         ELSE todo'[u] = {}
                      /\ pc'[u] = "opsWait" <=> cur[u] # None
                      /\ pc'[u] = "opsWait" =>
                           cur[u] \in todo'[u] /\ (ops[cur[u]] = 0 <=> opsEvent[cur[u]])
    BY <1>0, <1>e DEF WalkSound
  <2>1. todo'[u] = todo[u] \ {n}
    BY <1>0
  <2>2. ASSUME pc'[u] \in InTrans \ {"trans"}, NEW k \in Subtree(at[u]), OpsAt(k) # {}
        PROVE  k \in todo'[u]
    <3>1. pc[u] \in InTrans \ {"trans"}
      BY <1>c, <2>2 DEF InTrans
    <3> QED
      BY <1>e, <2>1, <2>2, <3>1 DEF WalkSound
  <2>3. IF pc'[u] \in {"walk", "opsWait"}
        THEN todo'[u] \subseteq attached' \cap Subtree(at[u])
        ELSE todo'[u] = {}
    BY <1>0, <1>c, <2>1 DEF WalkSound
  <2>4. pc'[u] = "opsWait" <=> pc[u] = "opsWait"
    BY <1>c
  <2> QED
    BY <1>a, <2>1, <2>2, <2>3, <2>4 DEF WalkSound
<1> QED
  BY <1>1, <1>2, <1>3, <1>4, <1>5, <1>6, <1>7

\* A change of the global driver state, and a step that changes nothing.
LEMMA OtherIInv ==
  ASSUME IInv, CdsState \/ UNCHANGED vars
  PROVE  IInv'
<1> USE DEF IInv
<1>0. /\ cds' \in CdsStates
      /\ UNCHANGED <<attached, active, queue, tran, ops, opsEvent, pc, at, cur, todo>>
  BY DEF CdsState, SetCdsState, vars, treeVars, TypeOK, TreeTypeOK
<1>1. TypeOK'
  BY <1>0 DEF TypeOK, TreeTypeOK
<1>2. TransExclusion' /\ GrantsHaveOwner' /\ TreeShape' /\ QueueShape'
  BY <1>0 DEF TransExclusion, GrantsHaveOwner, TreeShape, QueueShape, Waiting
<1>3. OpsCounted' /\ \A k : OpsAt(k)' = OpsAt(k)
  BY <1>0, OpsKept
<1>4. WalkSound'
  BY <1>0, <1>3 DEF WalkSound
<1> QED
  BY <1>1, <1>2, <1>3, <1>4

\* The steps of the API are steps of its generic form.
LEMMA ApiSteps ==
  ASSUME Next
  PROVE  \/ CdsState
         \/ \E n \in Node : Create(n) \/ Destroy(n)
         \/ \E t \in Threads, n \in Node :
              TransStart(t, n) \/ TransStartWait(t, n) \/ OpStart(t, n) \/ DrainNode(t, n)
         \/ \E t \in Threads :
              TranWake(t) \/ TransStop(t) \/ OpStop(t) \/ WaitForOps(t) \/ OpsWake(t)
<1>1. Driver \in Node /\ Psocs \subseteq Node /\ Vdevs \subseteq Node
  BY DEF Node
<1> QED
  BY <1>1
     DEF Next, DriverCreate, PsocCreate, VdevCreate, DriverDestroy, PsocDestroy, VdevDestroy,
         DriverTransStart, PsocTransStart, VdevTransStart, DriverTransStartWait,
         PsocTransStartWait, VdevTransStartWait, DriverTransStop, PsocTransStop, VdevTransStop,
         DriverOpStart, PsocOpStart, VdevOpStart, DriverOpStop, PsocOpStop, VdevOpStop,
         DriverWaitForOps, PsocWaitForOps, VdevWaitForOps

\* Every step preserves the invariant.
LEMMA NextIInv == IInv /\ [Next]_vars => IInv'
<1> SUFFICES ASSUME IInv, [Next]_vars PROVE IInv'
  OBVIOUS
<1> QED
  BY TransStartIInv, TransStartWaitIInv, TranWakeIInv, TransStopIInv, WaitForOpsIInv,
     DrainNodeIInv, OpsWakeIInv, OpStartIInv, OpStopIInv, CreateIInv, DestroyIInv, OtherIInv,
     ApiSteps

\* The invariant holds throughout.
THEOREM Invariance == Spec => []IInv
BY InitIInv, NextIInv, PTL DEF Spec

-----------------------------------------------------------------------------
(* What follows from the invariant. *)

\* Every variable keeps its type; in particular no ops.count underflows.
THEOREM TypeCorrect == Spec => []TypeOK
<1>1. IInv => TypeOK
  BY DEF IInv
<1> QED
  BY <1>1, Invariance, PTL

\* Transitions of related nodes never overlap (__dsc_*_can_trans and
\* __dsc_*_trigger_trans together).
THEOREM Exclusion == Spec => []TransExclusion
<1>1. IInv => TransExclusion
  BY DEF IInv
<1> QED
  BY <1>1, Invariance, PTL

\* No grant of __dsc_trans_trigger is lost, doubled or given to a thread that left.
THEOREM GrantOwnership == Spec => []GrantsHaveOwner
<1>1. IInv => GrantsHaveOwner
  BY DEF IInv
<1> QED
  BY <1>1, Invariance, PTL

\* After dsc_*_wait_for_ops the subtree stays free of operations.
THEOREM Quiet == Spec => []Quiescence
<1>1. IInv => Quiescence
  <2> SUFFICES ASSUME IInv, NEW t \in Threads, NEW u \in Threads, pc[t] = "quiet",
                      pc[u] = "op", at[u] \in Subtree(at[t])
               PROVE  FALSE
    BY DEF Quiescence
  <2>1. OpsAt(at[u]) # {}
    BY DEF OpsAt
  <2>2. at[u] \in todo[t]
    BY <2>1 DEF IInv, WalkSound, InTrans
  <2> QED
    BY <2>2 DEF IInv, WalkSound
<1> QED
  BY <1>1, Invariance, PTL

\* A thread asleep in dsc_*_wait_for_ops will find its event set.
THEOREM NoLostWakeup == Spec => []OpsWakeupPending
<1>1. IInv => OpsWakeupPending
  <2> SUFFICES ASSUME IInv, NEW t \in Threads, pc[t] = "opsWait", ~opsEvent[cur[t]]
               PROVE  ops[cur[t]] > 0
    BY DEF OpsWakeupPending
  <2>1. cur[t] \in Node /\ ops[cur[t]] \in Nat
    BY DEF IInv, WalkSound, TypeOK, TreeTypeOK
  <2> QED
    BY <2>1 DEF IInv, WalkSound
<1> QED
  BY <1>1, Invariance, PTL

\* A transition starts in the order of its queue and never below one that
\* waits or runs.
THEOREM Order == Spec => ServiceOrder
<1> DEFINE Ordered == \A n \in Node : active'[n] # active[n] /\ active'[n] # None =>
                        /\ queue[n] # <<>> => active'[n] = Head(queue[n])
                        /\ \A a \in Ancestors(n) : queue'[a] = <<>> /\ active'[a] = None
<1>1. IInv /\ [Next]_vars => [Ordered]_vars
  <2> SUFFICES ASSUME IInv, Next, NEW n \in Node, active'[n] # active[n], active'[n] # None
               PROVE  /\ queue[n] # <<>> => active'[n] = Head(queue[n])
                      /\ \A a \in Ancestors(n) : queue'[a] = <<>> /\ active'[a] = None
    OBVIOUS
  <2>0. active \in [Node -> Threads \cup {None}] /\ queue \in [Node -> Seq(Threads)]
    BY DEF IInv, TypeOK, TreeTypeOK
  <2>1. ASSUME NEW t \in Threads, NEW m \in Node, TransStart(t, m)
        PROVE  /\ queue[n] # <<>> => active'[n] = Head(queue[n])
               /\ \A a \in Ancestors(n) : queue'[a] = <<>> /\ active'[a] = None
    <3>1. active' = [active EXCEPT ![m] = t] /\ queue' = queue /\ m \in attached
      BY <2>1 DEF TransStart, BeginTrans
    <3>2. m = n
      BY <2>0, <3>1
    <3>3. queue[n] = <<>> /\ \A a \in Ancestors(n) : active[a] = None /\ queue[a] = <<>>
      BY <2>1, <3>1, <3>2, Admitted DEF IInv, TransStart, BeginTrans
    <3>4. n \notin Ancestors(n) /\ Ancestors(n) \subseteq Node
      BY TreeFacts
    <3> QED
      BY <2>0, <3>1, <3>2, <3>3, <3>4
  <2>2. ASSUME NEW t \in Threads, TransStop(t)
        PROVE  /\ queue[n] # <<>> => active'[n] = Head(queue[n])
               /\ \A a \in Ancestors(n) : queue'[a] = <<>> /\ active'[a] = None
    <3> DEFINE s == at[t]
               act == Stopped(s)
               S == Triggered(act, s)
    <3>1. /\ pc[t] \in InTrans
          /\ active' = [m \in Node |-> IF m \in S THEN Head(queue[m]) ELSE act[m]]
          /\ queue' = [m \in Node |-> IF m \in S THEN Tail(queue[m]) ELSE queue[m]]
      BY <2>2 DEF TransStop, EndTrans, InTrans
    <3>2. s \in Node /\ active[s] # None
      BY <3>1, TreeFacts DEF IInv, TypeOK, TreeShape, GrantsHaveOwner, InTrans
    <3>3. /\ \A m \in S : \A k \in Node : Related(m, k) => act[k] = None /\ k \notin S
          /\ \A m \in S : \A a \in Ancestors(m) : queue[a] = <<>>
      BY <3>2, TriggerSound DEF IInv
    <3>4. \A m \in Node : act[m] = IF m = s THEN None ELSE active[m]
      BY <2>0 DEF Stopped
    <3> HIDE DEF s, act, S
    <3>5. n \in S
      BY <3>1, <3>4
    <3>6. \A a \in Ancestors(n) : a \in Node /\ Related(n, a)
      BY TreeFacts DEF Related
    <3> QED
      BY <3>1, <3>3, <3>5, <3>6
  <2>3. ASSUME NEW m \in Node, Destroy(m)
        PROVE  FALSE
    BY <2>0, <2>3 DEF Destroy, Detach, DestroyNode
  <2>4. ASSUME NEW m \in Node, Create(m)
        PROVE  FALSE
    BY <2>0, <2>4 DEF Create, CreateNode
  <2> QED
    BY <2>1, <2>2, <2>3, <2>4, ApiSteps
       DEF TransStartWait, QueueTrans, OpStart, BeginOp, DrainNode, TranWake, WaitForOps,
           OpsWake, OpStop, EndOp, CdsState, SetCdsState, treeVars
<1> QED
  BY <1>1, Invariance, PTL DEF Spec, ServiceOrder

-----------------------------------------------------------------------------
(* Every waiting transition has somebody who will start it. *)

\* A node that waits with no blocker of its own, and none above, is triggered.
LEMMA TriggerComplete ==
  ASSUME IInv, QueueHasBlocker, NEW n \in Node, active[n] # None, NEW m \in Node,
         queue[m] # <<>>
  PROVE  LET act == Stopped(n)
             S == Triggered(act, n)
         IN  \/ m \in S
             \/ \E k \in attached : (k = m \/ Related(k, m)) /\ (k \in S \/ act[k] # None)
             \/ \E a \in Ancestors(m) : queue[a] # <<>> /\ a \notin S
<1> DEFINE act == Stopped(n)
           S == Triggered(act, n)
           Held(j) == \/ j \in S
                      \/ \E k \in attached : (k = j \/ Related(k, j)) /\ (k \in S \/ act[k] # None)
                      \/ \E a \in Ancestors(j) : queue[a] # <<>> /\ a \notin S
<1> SUFFICES Held(m)
  OBVIOUS
<1> USE DEF TransActive, TransQueued, TriggerIn
<1>0. /\ active \in [Node -> Threads \cup {None}] /\ queue \in [Node -> Seq(Threads)]
      /\ attached \subseteq Node
  BY DEF IInv, TypeOK, TreeTypeOK
<1>a. \A k \in Node : act[k] = IF k = n THEN None ELSE active[k]
  BY <1>0 DEF Stopped
<1>c. /\ \A k \in Node : k \notin attached => active[k] = None /\ queue[k] = <<>>
      /\ \A k \in attached : Ancestors(k) \subseteq attached
  BY DEF IInv, TreeShape
<1>d. \A p \in Psocs : p \in Node /\ p # Driver /\ p \notin Vdevs /\ Ancestors(p) = {Driver}
  BY TreeAssumption DEF TreeAssumption, Node, Ancestors
<1>e. \A v \in Vdevs : /\ v \in Node /\ v # Driver /\ v \notin Psocs
                       /\ PsocOf[v] \in Psocs /\ Ancestors(v) = {Driver, PsocOf[v]}
                       /\ \A k \in Node : v \notin Ancestors(k)
  BY TreeAssumption DEF TreeAssumption, Node, Ancestors
<1>f. \A k \in Node : (Related(Driver, k) <=> k # Driver) /\ (Driver \in Ancestors(k) <=> k # Driver)
  BY TreeFacts, <1>d, <1>e DEF Related, Node, Ancestors
<1>g. m \in attached /\ n \in attached /\ Driver \in attached
  BY <1>c, <1>d, <1>e DEF Node
<1> HIDE DEF act, S
\* What held m up before the stop, unless it was the transition on n.
<1>h. \/ m = n \/ Related(n, m)
      \/ \E k \in attached : (k = m \/ Related(k, m)) /\ act[k] # None
      \/ \E a \in Ancestors(m) : queue[a] # <<>>
  BY <1>0, <1>a DEF QueueHasBlocker
\* A driver transition that starts holds everything up.
<1>1. ASSUME Driver \in S PROVE Held(m)
  BY <1>1, <1>f, <1>g, TreeFacts
\* A driver transition that has to go on waiting does so too.
<1>2. ASSUME queue[Driver] # <<>>, S = IF DriverCanTrigger(act) THEN {Driver} ELSE {}
      PROVE  Held(m)
  <2>1. CASE DriverCanTrigger(act)
    BY <1>1, <1>2, <2>1
  <2>2. CASE ~DriverCanTrigger(act)
    <3>1. S = {}
      BY <1>2, <2>2
    <3>2. PICK k \in attached : act[k] # None /\ (k = Driver \/ k \in Descendants(Driver))
      BY <2>2, <1>g DEF DriverCanTrigger, TransActiveDownTree
    <3>3. k = Driver \/ Related(k, Driver)
      BY <3>2, <1>0, <1>f, <1>g, TreeFacts
    <3>4. CASE m = Driver
      BY <3>2, <3>3, <3>4
    <3>5. CASE m # Driver
      BY <1>2, <1>f, <3>1, <3>5
    <3> QED
      BY <3>4, <3>5
  <2> QED
    BY <2>1, <2>2
\* The nodes of a psoc whose turn it is.
<1>3. ASSUME NEW p \in Psocs, TriggerPsocOrVdevs(p) \subseteq S, p \in attached,
             m = p \/ (m \in Vdevs /\ PsocOf[m] = p)
      PROVE  Held(m)
  <2>1. CASE queue[p] # <<>>
    <3>1. p \in S
      BY <1>3, <2>1 DEF TriggerPsocOrVdevs
    <3>2. m = p \/ Related(p, m)
      BY <1>3, <1>e DEF Related
    <3> QED
      BY <1>3, <3>1, <3>2
  <2>2. CASE queue[p] = <<>>
    <3>1. m \in Vdevs /\ PsocOf[m] = p
      BY <1>3, <2>2
    <3>2. m \in TriggerPsocOrVdevs(p)
      BY <1>g, <2>2, <3>1 DEF TriggerPsocOrVdevs, VdevsIn
    <3> QED
      BY <1>3, <3>2
  <2> QED
    BY <2>1, <2>2
<1>4. CASE n = Driver
  <2>1. S = TriggerByDriver
    BY <1>4 DEF S, Triggered
  <2>2. CASE queue[Driver] # <<>>
    BY <1>1, <2>1, <2>2 DEF TriggerByDriver
  <2>3. CASE queue[Driver] = <<>>
    <3>1. m # Driver
      BY <2>3
    <3>2. \A p \in Psocs \cap attached : TriggerPsocOrVdevs(p) \subseteq S
      BY <2>1, <2>3 DEF TriggerByDriver, PsocsIn
    <3>3. PICK p \in Psocs : p \in attached /\ (m = p \/ (m \in Vdevs /\ PsocOf[m] = p))
      BY <1>c, <1>e, <1>g, <3>1 DEF Node
    <3> QED
      BY <1>3, <3>2, <3>3
  <2> QED
    BY <2>2, <2>3
<1>5. CASE n \in Psocs
  <2>1. S = TriggerByPsoc(act, n)
    BY <1>5, <1>d DEF S, Triggered
  <2>2. CASE queue[Driver] # <<>>
    BY <1>2, <2>1, <2>2 DEF TriggerByPsoc
  <2>3. CASE queue[Driver] = <<>>
    <3>1. S = TriggerPsocOrVdevs(n) /\ m # Driver
      BY <2>1, <2>3 DEF TriggerByPsoc
    <3>2. CASE m = n \/ (m \in Vdevs /\ PsocOf[m] = n)
      BY <1>3, <1>5, <1>g, <3>1, <3>2
    <3>3. CASE ~(m = n \/ (m \in Vdevs /\ PsocOf[m] = n))
      <4>1. ~Related(n, m)
        BY <1>5, <1>d, <1>e, <3>1, <3>3 DEF Related, Node
      <4>2. \A a \in Ancestors(m) : queue[a] # <<>> => a \notin S
        <5>1. \A a \in S : a = n \/ a \in Vdevs
          BY <3>1 DEF TriggerPsocOrVdevs, VdevsIn
        <5>2. n \notin Ancestors(m)
          BY <4>1 DEF Related
        <5> QED
          BY <5>1, <5>2, <1>e
      <4> QED
        BY <1>h, <3>3, <4>1, <4>2
    <3> QED
      BY <3>2, <3>3
  <2> QED
    BY <2>2, <2>3
<1>6. CASE n \in Vdevs
  <2> DEFINE p == PsocOf[n]
  <2>1. S = TriggerByVdev(act, n) /\ p \in Psocs /\ p \in Node /\ p \in attached
    BY <1>6, <1>c, <1>d, <1>e, <1>g DEF S, Triggered
  <2>2. CASE queue[Driver] # <<>>
    BY <1>2, <2>1, <2>2 DEF TriggerByVdev
  <2>3. CASE queue[Driver] = <<>> /\ queue[p] # <<>>
    <3>1. S = IF PsocCanTrigger(act, p) THEN {p} ELSE {}
      BY <2>1, <2>3 DEF TriggerByVdev
    <3>2. CASE m = p \/ (m \in Vdevs /\ PsocOf[m] = p)
      <4>1. CASE PsocCanTrigger(act, p)
        BY <1>e, <2>1, <3>1, <3>2, <4>1 DEF Related
      <4>2. CASE ~PsocCanTrigger(act, p)
        <5>1. act[Driver] = None /\ act[p] = None
          BY <1>6, <1>a, <1>e, <1>d, <2>1, TreeFacts DEF IInv, TransExclusion, Related
        <5>2. PICK k \in attached : act[k] # None /\ k \in Descendants(p)
          BY <2>3, <4>2, <5>1 DEF PsocCanTrigger, TransActiveDownTree
        <5>3. Related(k, p)
          BY <1>0, <2>1, <5>2, SubtreeFacts DEF Related
        <5>4. CASE m = p
          BY <5>2, <5>3, <5>4
        <5>5. CASE m \in Vdevs /\ PsocOf[m] = p
          BY <1>e, <2>3, <3>1, <4>2, <5>5
        <5> QED
          BY <3>2, <5>4, <5>5
      <4> QED
        BY <4>1, <4>2
    <3>3. CASE ~(m = p \/ (m \in Vdevs /\ PsocOf[m] = p))
      <4>1. m # Driver /\ p \notin Ancestors(m)
        BY <2>3, <3>3, <2>1, <1>d, <1>e DEF Node
      <4>2. m # n /\ ~Related(n, m)
        BY <1>6, <1>e, <3>3, <4>1, <2>1 DEF Related
      <4> QED
        BY <1>h, <3>1, <4>1, <4>2
    <3> QED
      BY <3>2, <3>3
  <2>4. CASE queue[Driver] = <<>> /\ queue[p] = <<>>
    <3>1. S = {k \in {n} : queue[k] # <<>>}
      BY <2>1, <2>4 DEF TriggerByVdev
    <3>2. CASE m = n
      BY <3>1, <3>2
    <3>3. CASE m # n
      <4>1. m # Driver /\ m # p
        BY <2>4
      <4>2. ~Related(n, m) /\ n \notin Ancestors(m)
        BY <1>6, <1>e, <4>1 DEF Related
      <4> QED
        BY <1>h, <3>1, <3>3, <4>2
    <3> QED
      BY <3>2, <3>3
  <2> QED
    BY <2>2, <2>3, <2>4
<1> QED
  BY <1>4, <1>5, <1>6 DEF Node

\* Every step keeps a blocker for whoever waits.
LEMMA NextBlocker == IInv /\ QueueHasBlocker /\ [Next]_vars => QueueHasBlocker'
<1> SUFFICES ASSUME IInv, QueueHasBlocker, [Next]_vars PROVE QueueHasBlocker'
  OBVIOUS
<1>0. /\ active \in [Node -> Threads \cup {None}] /\ queue \in [Node -> Seq(Threads)]
      /\ attached \subseteq Node
  BY DEF IInv, TypeOK, TreeTypeOK
<1>1. ASSUME NEW t \in Threads, NEW n \in Node, TransStart(t, n)
      PROVE  QueueHasBlocker'
  <2>1. active' = [active EXCEPT ![n] = t] /\ UNCHANGED <<attached, queue>>
    BY <1>1 DEF TransStart, BeginTrans
  <2>2. \A k \in Node : active[k] # None => active'[k] # None
    BY <1>0, <2>1, TreeFacts
  <2> QED
    BY <1>0, <2>1, <2>2 DEF QueueHasBlocker
<1>2. ASSUME NEW t \in Threads, NEW n \in Node, TransStartWait(t, n)
      PROVE  QueueHasBlocker'
  <2>1. /\ n \in attached /\ CanTrans(n) = "E_AGAIN" /\ UNCHANGED <<attached, active>>
        /\ queue' = [queue EXCEPT ![n] = Append(@, t)]
    BY <1>2 DEF TransStartWait, QueueTrans
  <2>2. \A m \in Node : /\ queue[m] # <<>> => queue'[m] # <<>>
                        /\ m # n => queue'[m] = queue[m]
    BY <1>0, <2>1, QueueFacts
  <2>3. \/ queue[n] # <<>>
        \/ \E k \in attached : (k = n \/ Related(k, n)) /\ active[k] # None
        \/ \E a \in Ancestors(n) : queue[a] # <<>>
    <3> USE DEF TransActiveOrQueued, TransActive, TransQueued, TransActiveDownTree
    <3>0. Ancestors(n) \subseteq attached
      BY <2>1 DEF IInv, TreeShape
    <3>1. CASE n = Driver
      BY <1>0, <2>1, <3>1, SubtreeFacts DEF CanTrans, DriverCanTrans, Related
    <3>2. CASE n \in Psocs
      <4>1. n # Driver
        BY <3>2, TreeAssumption DEF TreeAssumption
      <4> QED
        BY <1>0, <2>1, <3>2, <4>1, SubtreeFacts DEF CanTrans, PsocCanTrans, Related
    <3>3. CASE n \in Vdevs
      <4>1. n # Driver /\ n \notin Psocs /\ PsocOf[n] \in Ancestors(n)
        BY <3>3, TreeAssumption DEF TreeAssumption, Ancestors
      <4> QED
        BY <1>0, <2>1, <3>0, <4>1 DEF CanTrans, VdevCanTrans, Related
    <3> QED
      BY <3>1, <3>2, <3>3 DEF Node
  <2>4. ASSUME NEW m \in Node, queue'[m] # <<>>
        PROVE  \/ \E k \in attached : (k = m \/ Related(k, m)) /\ active[k] # None
               \/ \E a \in Ancestors(m) : queue[a] # <<>>
    BY <2>2, <2>3, <2>4 DEF QueueHasBlocker
  <2>5. \A m \in Node : Ancestors(m) \subseteq Node
    BY TreeFacts
  <2> QED
    BY <2>1, <2>2, <2>4, <2>5 DEF QueueHasBlocker
<1>3. ASSUME NEW t \in Threads, TransStop(t)
      PROVE  QueueHasBlocker'
  <2> DEFINE s == at[t]
             act == Stopped(s)
             S == Triggered(act, s)
  <2>1. /\ pc[t] \in InTrans /\ attached' = attached
        /\ active' = [m \in Node |-> IF m \in S THEN Head(queue[m]) ELSE act[m]]
        /\ queue' = [m \in Node |-> IF m \in S THEN Tail(queue[m]) ELSE queue[m]]
    BY <1>3 DEF TransStop, EndTrans, InTrans
  <2>2. s \in Node /\ active[s] # None
    BY <2>1, TreeFacts DEF IInv, TypeOK, TreeShape, GrantsHaveOwner, InTrans
  <2>3. S \subseteq Node /\ \A m \in S : queue[m] # <<>>
    BY <2>2, TriggerSound DEF IInv
  <2>4. \A m \in Node : queue[m] # <<>> =>
          \/ m \in S
          \/ \E k \in attached : (k = m \/ Related(k, m)) /\ (k \in S \/ act[k] # None)
          \/ \E a \in Ancestors(m) : queue[a] # <<>> /\ a \notin S
    BY <2>2, TriggerComplete
  <2> HIDE DEF s, act, S
  <2>5. \A m \in Node : (m \in S \/ act[m] # None) => active'[m] # None
    BY <1>0, <2>1, <2>3, QueueFacts, TreeFacts
  <2>6. \A m \in Node : /\ m \notin S => queue'[m] = queue[m]
                        /\ queue'[m] # <<>> => queue[m] # <<>>
    BY <2>1, <2>3
  <2>7. \A m \in Node : Ancestors(m) \subseteq Node
    BY TreeFacts
  <2>8. \A m \in S : m \in attached
    BY <2>3 DEF IInv, TreeShape
  <2> SUFFICES ASSUME NEW m \in Node, queue'[m] # <<>>
               PROVE  \/ \E k \in attached' : (k = m \/ Related(k, m)) /\ active'[k] # None
                      \/ \E a \in Ancestors(m) : queue'[a] # <<>>
    BY DEF QueueHasBlocker
  <2> QED
    BY <1>0, <2>1, <2>4, <2>5, <2>6, <2>7, <2>8
<1>4. ASSUME NEW n \in Node, Create(n)
      PROVE  QueueHasBlocker'
  <2>1. n \notin attached /\ attached' = attached \cup {n}
        /\ active' = [active EXCEPT ![n] = None] /\ queue' = [queue EXCEPT ![n] = <<>>]
    BY <1>4 DEF Create, CreateNode
  <2>2. active[n] = None /\ queue[n] = <<>>
    BY <2>1 DEF IInv, TreeShape
  <2>3. active' = active /\ queue' = queue
    BY <1>0, <2>1, <2>2
  <2> QED
    BY <2>1, <2>3 DEF QueueHasBlocker
<1>5. ASSUME NEW n \in Node, Destroy(n)
      PROVE  QueueHasBlocker'
  <2>1. /\ attached' = attached \ {n} /\ active[n] = None /\ attached \cap Descendants(n) = {}
        /\ active' = [active EXCEPT ![n] = None] /\ queue' = [queue EXCEPT ![n] = <<>>]
    BY <1>5 DEF Destroy, MayDestroy, Detach, DestroyNode
  <2>2. active' = active /\ \A m \in Node : queue'[m] = IF m = n THEN <<>> ELSE queue[m]
    BY <1>0, <2>1
  <2>3. \A m \in Node : queue[m] # <<>> => n \notin Ancestors(m)
    BY <2>1, SubtreeFacts DEF IInv, TreeShape
  <2>4. \A m \in Node : Ancestors(m) \subseteq Node
    BY TreeFacts
  <2> SUFFICES ASSUME NEW m \in Node, queue'[m] # <<>>
               PROVE  \/ \E k \in attached' : (k = m \/ Related(k, m)) /\ active'[k] # None
                      \/ \E a \in Ancestors(m) : queue'[a] # <<>>
    BY DEF QueueHasBlocker
  <2>5. queue[m] # <<>> /\ n \notin Ancestors(m)
    BY <2>2, <2>3
  <2> QED
    BY <2>1, <2>2, <2>4, <2>5 DEF QueueHasBlocker
<1>6. ASSUME UNCHANGED <<attached, active, queue>>
      PROVE  QueueHasBlocker'
  BY <1>6 DEF QueueHasBlocker
<1> QED
  BY <1>1, <1>2, <1>3, <1>4, <1>5, <1>6, ApiSteps
     DEF OpStart, BeginOp, DrainNode, TranWake, WaitForOps, OpsWake, OpStop, EndOp,
         CdsState, SetCdsState, treeVars, vars

\* No queued transition is forgotten by the stop that should have started it
\* (__dsc_driver_trans_trigger_checked, __dsc_psoc_trans_trigger_checked).
THEOREM NoForgottenWaiter == Spec => []QueueHasBlocker
<1>1. Init => QueueHasBlocker
  BY DEF Init, TreeInit, QueueHasBlocker
<1> QED
  BY <1>1, NextBlocker, Invariance, PTL DEF Spec

=============================================================================
