--------------------------- MODULE DscRefinement ---------------------------
(***************************************************************************)
(* The transitions of Dsc implement the lock of TreeLock: the holders are  *)
(* the active transitions, the waiting clients are the members of the      *)
(* queues.                                                                 *)
(***************************************************************************)
EXTENDS DscProofs

\* An empty queue has no members.
LEMMA EmptyMembers == \A q \in Seq(Threads) : {q[i] : i \in DOMAIN q} = {} <=> q = <<>>
<1> SUFFICES ASSUME NEW q \in Seq(Threads) PROVE {q[i] : i \in DOMAIN q} = {} <=> q = <<>>
  OBVIOUS
<1>1. q # <<>> => 1 \in DOMAIN q
  OBVIOUS
<1>2. DOMAIN <<>> = {}
  OBVIOUS
<1> QED
  BY <1>1, <1>2

\* The members of a queue, and of the queue after either end changed.
LEMMA MembersFacts ==
  ASSUME NEW q \in Seq(Threads), NEW u \in Threads
  PROVE  LET M(s) == {s[i] : i \in DOMAIN s}
         IN  /\ M(Append(q, u)) = M(q) \cup {u}
             /\ /\ q # <<>>
                /\ \A i, j \in DOMAIN q : q[i] = q[j] => i = j
                => Head(q) \in M(q) /\ M(Tail(q)) = M(q) \ {Head(q)}
<1> DEFINE M(s) == {s[i] : i \in DOMAIN s}
<1>2. M(Append(q, u)) = M(q) \cup {u}
  <2>1. /\ DOMAIN Append(q, u) = DOMAIN q \cup {Len(q) + 1}
        /\ Append(q, u)[Len(q) + 1] = u
        /\ \A i \in DOMAIN q : Append(q, u)[i] = q[i]
    BY QueueFacts
  <2> QED
    BY <2>1
<1>3. ASSUME q # <<>>, \A i, j \in DOMAIN q : q[i] = q[j] => i = j
      PROVE  Head(q) \in M(q) /\ M(Tail(q)) = M(q) \ {Head(q)}
  <2>1. /\ 1 \in DOMAIN q /\ Head(q) = q[1]
        /\ \A i \in DOMAIN Tail(q) : i + 1 \in DOMAIN q /\ Tail(q)[i] = q[i + 1] /\ i + 1 # 1
        /\ \A i \in DOMAIN q : i # 1 => i - 1 \in DOMAIN Tail(q) /\ Tail(q)[i - 1] = q[i]
    BY <1>3, QueueFacts
  <2>2. \A x \in M(Tail(q)) : x \in M(q) /\ x # Head(q)
    BY <1>3, <2>1
  <2>3. ASSUME NEW x \in M(q), x # Head(q) PROVE x \in M(Tail(q))
    <3>1. PICK i \in DOMAIN q : x = q[i]
      OBVIOUS
    <3>2. i - 1 \in DOMAIN Tail(q) /\ Tail(q)[i - 1] = x
      BY <2>1, <2>3, <3>1
    <3> QED
      BY <3>2
  <2> QED
    BY <2>1, <2>2, <2>3
<1> QED
  BY <1>2, <1>3

\* The mapped variable is a function on the nodes, before and after a step.
LEMMA WaitersFunction ==
  /\ Waiters = [n \in Node |-> Waiters[n]]
  /\ Waiters' = [n \in Node |-> Waiters'[n]]
BY DEF Waiters

\* A conflict of the lock is a relation in the tree.
LEMMA ConflictIsRelated == \A m, n \in Node : Lock!Conflict(m, n) <=> Related(m, n)
BY DEF Lock!Conflict, Related

\* In a state of Dsc, a node is held up in the sense of the lock exactly when
\* a related transition is active or one is queued above.
LEMMA HeldUpTerms ==
  ASSUME TypeOK, NEW n \in Node
  PROVE  /\ Waiters[n] = {} <=> queue[n] = <<>>
         /\ Lock!HeldUp(n) <=>
              \/ \E m \in Node : (m = n \/ Related(m, n)) /\ active[m] # None
              \/ \E a \in Ancestors(n) : queue[a] # <<>>
<1>1. \A m \in Node : Waiters[m] = {} <=> queue[m] = <<>>
  BY EmptyMembers DEF TypeOK, TreeTypeOK, Waiters
<1>2. Ancestors(n) \subseteq Node
  BY TreeFacts
<1> QED
  BY <1>1, <1>2, ConflictIsRelated DEF Lock!HeldUp

\* An idle thread neither holds nor waits.
LEMMA IdleNotBusy ==
  ASSUME IInv, NEW t \in Threads, pc[t] = "idle"
  PROVE  ~Lock!Busy(t)
<1>1. at[t] = None
  BY DEF IInv, TreeShape
<1>2. \A n \in Node : active[n] # t
  BY <1>1, TreeFacts DEF IInv, GrantsHaveOwner
<1>3. \A n \in Node : t \notin Waiters[n]
  BY DEF IInv, QueueShape, Waiting, Waiters
<1> QED
  BY <1>2, <1>3 DEF Lock!Busy

\* Each step of Dsc is a step of the lock, or leaves it alone.
LEMMA LockStep ==
  ASSUME IInv, IInv', QueueHasBlocker, QueueHasBlocker', Next
  PROVE  [Lock!Next]_(Lock!lockVars)
<1>0. /\ active \in [Node -> Threads \cup {None}] /\ queue \in [Node -> Seq(Threads)]
      /\ queue' \in [Node -> Seq(Threads)] /\ active' \in [Node -> Threads \cup {None}]
      /\ TypeOK
  BY DEF IInv, TypeOK, TreeTypeOK
<1>1. ASSUME NEW t \in Threads, NEW n \in Node, TransStart(t, n)
      PROVE  Lock!Acquire(t, n)
  <2>1. /\ pc[t] = "idle" /\ n \in attached /\ CanTrans(n) = "SUCCESS"
        /\ active' = [active EXCEPT ![n] = t] /\ queue' = queue
    BY <1>1 DEF TransStart, BeginTrans
  <2>2. /\ active[n] = None /\ queue[n] = <<>>
        /\ \A m \in Node : Related(m, n) => active[m] = None
        /\ \A a \in Ancestors(n) : queue[a] = <<>>
    BY <2>1, Admitted DEF IInv
  <2>3. Waiters[n] = {} /\ ~Lock!HeldUp(n)
    BY <1>0, <2>2, HeldUpTerms
  <2>4. Waiters' = Waiters
    BY <2>1 DEF Waiters
  <2> QED
    BY <2>1, <2>3, <2>4, IdleNotBusy DEF Lock!Acquire
<1>2. ASSUME NEW t \in Threads, NEW n \in Node, TransStartWait(t, n)
      PROVE  Lock!Wait(t, n)
  <2>1. /\ pc[t] = "idle" /\ active' = active
        /\ queue' = [queue EXCEPT ![n] = Append(@, t)]
    BY <1>2 DEF TransStartWait, QueueTrans
  <2>2. queue'[n] # <<>>
    BY <1>0, <2>1, QueueFacts
  <2>3. \/ \E m \in Node : (m = n \/ Related(m, n)) /\ active[m] # None
        \/ \E a \in Ancestors(n) : queue[a] # <<>>
    <3>1. \/ \E m \in Node : (m = n \/ Related(m, n)) /\ active'[m] # None
          \/ \E a \in Ancestors(n) : queue'[a] # <<>>
      <4>1. attached' \subseteq Node
        BY DEF IInv, TypeOK, TreeTypeOK
      <4> QED
        BY <2>2, <4>1 DEF QueueHasBlocker
    <3>2. \A a \in Ancestors(n) : queue'[a] = queue[a]
      BY <1>0, <2>1, TreeFacts
    <3> QED
      BY <2>1, <3>1, <3>2
  <2>4. Lock!HeldUp(n)
    BY <1>0, <2>3, HeldUpTerms
  <2>5. Waiters' = [Waiters EXCEPT ![n] = @ \cup {t}]
    <3>1. \A m \in Node : m # n => queue'[m] = queue[m]
      BY <1>0, <2>1
    <3>2. Waiters'[n] = Waiters[n] \cup {t}
      <4>1. /\ Waiters[n] = {queue[n][i] : i \in DOMAIN queue[n]}
            /\ Waiters'[n] = {queue'[n][i] : i \in DOMAIN queue'[n]}
        BY DEF Waiters
      <4>2. queue[n] \in Seq(Threads) /\ queue'[n] = Append(queue[n], t)
        BY <1>0, <2>1
      <4>3. \A q \in Seq(Threads) :
              {Append(q, t)[i] : i \in DOMAIN Append(q, t)} = {q[i] : i \in DOMAIN q} \cup {t}
        BY MembersFacts
      <4> QED
        BY <4>1, <4>2, <4>3
    <3>3. \A m \in Node : m # n => Waiters'[m] = Waiters[m]
      BY <3>1 DEF Waiters
    <3> QED
      BY <3>2, <3>3, WaitersFunction
  <2> QED
    BY <2>1, <2>4, <2>5, IdleNotBusy DEF Lock!Wait
<1>3. ASSUME NEW t \in Threads, TransStop(t)
      PROVE  at[t] \in Node /\ Lock!Release(at[t])
  <2> DEFINE s == at[t]
             act == Stopped(s)
             S == Triggered(act, s)
  <2>1. /\ pc[t] \in InTrans
        /\ active' = [m \in Node |-> IF m \in S THEN Head(queue[m]) ELSE act[m]]
        /\ queue' = [m \in Node |-> IF m \in S THEN Tail(queue[m]) ELSE queue[m]]
    BY <1>3 DEF TransStop, EndTrans, InTrans
  <2>2. s \in Node /\ active[s] # None
    BY <2>1, TreeFacts DEF IInv, TypeOK, TreeShape, GrantsHaveOwner, InTrans
  <2>3. S \subseteq Node /\ \A m \in S : queue[m] # <<>> /\ act[m] = None
    BY <2>2, TriggerSound DEF IInv
  <2>4. \A m \in Node : act[m] = IF m = s THEN None ELSE active[m]
    BY <1>0 DEF Stopped
  <2> HIDE DEF act, S
  <2>5. \A m \in S : Head(queue[m]) \in Waiters[m] /\ Waiters'[m] = Waiters[m] \ {Head(queue[m])}
    <3>1. ASSUME NEW m \in S
          PROVE  Head(queue[m]) \in Waiters[m] /\ Waiters'[m] = Waiters[m] \ {Head(queue[m])}
      <4>1. /\ queue[m] \in Seq(Threads) /\ queue[m] # <<>> /\ queue'[m] = Tail(queue[m])
            /\ m \in Node
        BY <1>0, <2>1, <2>3
      <4>2. \A i, j \in DOMAIN queue[m] : queue[m][i] = queue[m][j] => i = j
        BY <4>1 DEF IInv, QueueShape
      <4>3. /\ Waiters[m] = {queue[m][i] : i \in DOMAIN queue[m]}
            /\ Waiters'[m] = {queue'[m][i] : i \in DOMAIN queue'[m]}
        BY <4>1 DEF Waiters
      <4>4. /\ Head(queue[m]) \in {queue[m][i] : i \in DOMAIN queue[m]}
            /\ {Tail(queue[m])[i] : i \in DOMAIN Tail(queue[m])}
                 = {queue[m][i] : i \in DOMAIN queue[m]} \ {Head(queue[m])}
        BY <4>1, <4>2, MembersFacts
      <4> QED
        BY <4>1, <4>3, <4>4
    <3> QED
      BY <3>1
  <2>6. \A m \in Node : Waiters'[m] = Waiters[m] \ {active'[m]}
    <3>1. ASSUME NEW m \in Node, m \notin S
          PROVE  Waiters'[m] = Waiters[m] /\ active'[m] \notin Waiters[m]
      <4>1. queue'[m] = queue[m] /\ active'[m] = act[m]
        BY <2>1, <3>1
      <4>2. \A u \in Waiters[m] : u \in Threads /\ pc[u] = "tranWait" /\ tran[u] = "queued"
        BY <1>0, QueueFacts DEF IInv, QueueShape, Waiting, Waiters
      <4>3. \A u \in Waiters[m] : u # active[m] /\ u # None
        BY <4>2, TreeFacts DEF IInv, GrantsHaveOwner, InTrans, Waiting
      <4> QED
        BY <2>4, <4>1, <4>3 DEF Waiters
    <3>2. \A m \in S : active'[m] = Head(queue[m])
      BY <2>1, <2>3
    <3> QED
      BY <2>5, <3>1, <3>2
  <2>7. \A m \in Node : \/ active'[m] = IF m = s THEN None ELSE active[m]
                        \/ (m = s \/ active[m] = None) /\ active'[m] \in Waiters[m]
    BY <2>1, <2>3, <2>4, <2>5
  <2>8. Waiters' = [m \in Node |-> Waiters[m] \ {active'[m]}]
    BY <2>6 DEF Waiters
  <2>9. Lock!Exclusive'
    BY DEF IInv, TransExclusion, Lock!Exclusive, Lock!Conflict, Related
  <2>10. Lock!Served'
    <3>1. \A m \in Node : Waiters'[m] # {} => queue'[m] # <<>>
      BY <1>0, EmptyMembers DEF Waiters
    <3>2. \A m \in Node : queue'[m] # <<>> => Waiters'[m] # {}
      BY <1>0, EmptyMembers DEF Waiters
    <3>3. attached' \subseteq Node
      BY DEF IInv, TypeOK, TreeTypeOK
    <3>4. \A m \in Node : Ancestors(m) \subseteq Node
      BY TreeFacts
    <3>5. ASSUME NEW m \in Node, Waiters'[m] # {}
          PROVE  \/ \E k \in Node : (k = m \/ Related(k, m)) /\ active'[k] # None
                 \/ \E a \in Ancestors(m) : Waiters'[a] # {}
      BY <3>1, <3>2, <3>3, <3>4, <3>5 DEF QueueHasBlocker
    <3> QED
      BY <3>5, <3>4 DEF Lock!Served, Lock!HeldUp, Lock!Conflict, Related
  <2> QED
    BY <1>0, <2>2, <2>7, <2>8, <2>9, <2>10 DEF Lock!Release
<1>4. ASSUME NEW n \in Node, Destroy(n)
      PROVE  Lock!Cancel(n)
  <2>1. /\ active[n] = None /\ active' = [active EXCEPT ![n] = None]
        /\ queue' = [queue EXCEPT ![n] = <<>>]
    BY <1>4 DEF Destroy, MayDestroy, Detach, DestroyNode
  <2>2. active' = active /\ \A m \in Node : queue'[m] = IF m = n THEN <<>> ELSE queue[m]
    BY <1>0, <2>1
  <2>3. \A m \in Node : Waiters'[m] = IF m = n THEN {} ELSE Waiters[m]
    BY <2>2 DEF Waiters
  <2>4. Waiters' = [Waiters EXCEPT ![n] = {}]
    BY <2>3, WaitersFunction
  <2> QED
    BY <2>2, <2>4 DEF Lock!Cancel
<1>5. ASSUME NEW n \in Node, Create(n)
      PROVE  active' = active /\ queue' = queue
  <2>1. /\ n \notin attached /\ active' = [active EXCEPT ![n] = None]
        /\ queue' = [queue EXCEPT ![n] = <<>>]
    BY <1>5 DEF Create, CreateNode
  <2> QED
    BY <1>0, <2>1 DEF IInv, TreeShape
<1>6. ASSUME active' = active, queue' = queue
      PROVE  UNCHANGED Lock!lockVars
  BY <1>6 DEF Lock!lockVars, Waiters
<1> QED
  BY <1>1, <1>2, <1>3, <1>4, <1>5, <1>6, ApiSteps
     DEF Lock!Next, OpStart, BeginOp, DrainNode, TranWake, WaitForOps, OpsWake, OpStop, EndOp,
         CdsState, SetCdsState, treeVars

\* The driver synchronization core implements the tree lock.
THEOREM Refinement == Spec => LockSpec
<1>1. Init => Lock!Init
  BY DEF Init, TreeInit, Lock!Init, Waiters
<1>2. IInv /\ IInv' /\ QueueHasBlocker /\ QueueHasBlocker' /\ [Next]_vars
        => [Lock!Next]_(Lock!lockVars)
  <2>1. UNCHANGED vars => UNCHANGED Lock!lockVars
    BY DEF vars, treeVars, Lock!lockVars, Waiters
  <2> QED
    BY <2>1, LockStep
<1> QED
  BY <1>1, <1>2, Invariance, NoForgottenWaiter, PTL DEF Spec, LockSpec, Lock!Spec

=============================================================================
