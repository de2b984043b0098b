------------------------------ MODULE HddProofs ------------------------------
(*****************************************************************************)
(* Proofs about HddSync, for the flows that bring interfaces up and down,    *)
(* run operations on them, shut the idle SoC down and recover the firmware:  *)
(* they keep what DSC demands of its callers, so they implement Dsc's        *)
(* specification, and they lose and destroy no table entry somebody uses.    *)
(*                                                                           *)
(* The inductive invariant HddInv says where each thread is in its program   *)
(* (Code), in which of a few situations it is there (Standing), and how the  *)
(* tables look meanwhile.  A step of one thread is shown to take it from one *)
(* program point to the next, and to leave every other thread standing.      *)
(*****************************************************************************)
EXTENDS HddSync, DscProofs, SequenceTheorems

\* What the theorems assume: which flows run, that there is one psoc at most
\* (WLAN_MAX_PSOCS), that vdevs are not there from the beginning, and that
\* the flags may be set and cleared.
InterfaceFlows == {"add", "del", "ndiDel", "up", "down", "op", "globalOp", "idle", "ssr"}
OnlyInterfaces ==
  /\ Flows \subseteq InterfaceFlows
  /\ \A p, q \in Psocs : p = q
  /\ Vdevs \subseteq Hotplug
  /\ CdsStates = SUBSET {"recovering", "unloading"}

-----------------------------------------------------------------------------
(* Where a thread can be in its program. *)

\* What a flow has left to do, from the end to the beginning: the two ends
\* that error paths share,
Put(k) == On(<<"put">>, k, <<>>)
StopFree(k) == Stop(k) \o Free(k)

\* bringing an interface up (AddIntf),
AddRegister(k) == On(<<"register">>, k, <<>>) \o Stop(k)
AddBody(k) == On(<<"body">>, k, StopFree(k)) \o AddRegister(k)
AddBegin(k) == On(<<"begin">>, k, Free(k)) \o AddBody(k)
AddCreate(k) == On(<<"create">>, k, Put(k)) \o AddBegin(k)
AddGet(k) == On(<<"get">>, k, <<>>) \o AddCreate(k)

\* taking it down (DelIntf),
DelDrain(k) == On(<<"drain">>, k, <<>>) \o StopFree(k)
DelUnregister(k) == On(<<"unregister">>, k, <<>>) \o DelDrain(k)
DelWait(k) == On(<<"wait">>, k, <<>>) \o DelUnregister(k)
DelFind(k) == On(<<"find">>, k, <<>>) \o DelWait(k)

\* replacing an NDI (NdiDelete),
NdiBody(k) == On(<<"body">>, k, AddRegister(k)) \o StopFree(k)
NdiDrain(k) == On(<<"drain">>, k, <<>>) \o NdiBody(k)
NdiUnregister(k) == On(<<"unregister">>, k, <<>>) \o NdiDrain(k)
NdiWait(k) == On(<<"wait">>, k, <<>>) \o NdiUnregister(k)
NdiFind(k) == On(<<"find">>, k, <<>>) \o NdiWait(k)

\* the interface up and down,
UpOpened(k) == On(<<"opened">>, k, <<>>) \o Stop(k)
UpEnter(k) == On(<<"enter">>, k, <<>>) \o UpOpened(k)
DownRefused(k) == On(<<"remember">>, k, <<>>)
DownEnter(k) == On(<<"enter">>, k, DownRefused(k)) \o Stop(k)

\* an operation on it, or on the driver,
OpLeave(k) == On(<<"leaveOp">>, k, <<>>)
OpEnter(k) == On(<<"enterOp">>, k, <<>>) \o OpLeave(k)

\* the shutdown of the idle SoC,
IdleDrain == On(<<"drain">>, Dev, <<>>) \o Stop(Dev)
IdleEnter == On(<<"enter">>, Dev, <<>>) \o IdleDrain

\* and the recovery of the firmware;
SsrReplay == On(<<"replay">>, Dev, <<>>) \o Stop(Dev)
SsrRecovered == On(<<"recovered">>, Dev, Stop(Dev)) \o SsrReplay
SsrResume == On(<<"resume">>, Dev, <<>>) \o SsrRecovered
SsrDrain == On(<<"drain">>, Dev, <<>>) \o SsrResume
SsrWait == On(<<"wait">>, Dev, SsrResume) \o SsrDrain
SsrFind == On(<<"find">>, Dev, SsrResume) \o SsrWait
SsrShutdown == On(<<"shutdown">>, Dev, SsrResume) \o SsrFind
SsrSet == On(<<"set">>, "recovering", <<>>) \o SsrShutdown

\* after the lock, the hook: has it been taken away?
CfgCalled(p) == On(<<"called">>, "cfg80211", <<>>) \o p
SsrCalled == On(<<"called">>, "platform", <<>>) \o SsrSet

\* The programs a thread can have left in a situation, for a key.
Code(s, k) ==
  CASE s = "idle" -> {<<>>, OpEnter(k), IdleEnter, Acquire("platform") \o SsrCalled,
                      SsrCalled, SsrSet, SsrShutdown, SsrFind}
    [] s = "start" -> {Acquire("rtnl") \o CfgCalled(AddGet(k)), Acquire("rtnl") \o CfgCalled(DelFind(k)),
                       Acquire("rtnl") \o CfgCalled(NdiFind(k)), Acquire("rtnl") \o UpEnter(k),
                       Acquire("rtnl") \o DownEnter(k)}
    [] s = "locked" -> {CfgCalled(AddGet(k)), CfgCalled(DelFind(k)), CfgCalled(NdiFind(k)),
                        AddGet(k), DelFind(k), NdiFind(k), UpEnter(k), DownEnter(k)}
    [] s = "refused" -> {DownRefused(k)}
    [] s = "bare" -> {AddCreate(k), Put(k)}
    [] s = "made" -> {AddBegin(k), Free(k)}
    [] s = "found" -> {DelWait(k), NdiWait(k)}
    [] s = "inside" -> {DelUnregister(k), NdiUnregister(k), UpOpened(k), Stop(k)}
    [] s = "unlisted" -> {DelDrain(k), NdiDrain(k)}
    [] s = "closed" -> {AddBody(k), AddRegister(k), NdiBody(k), StopFree(k)}
    [] s = "inOp" -> {OpLeave(k)}
    [] s = "devFound" -> {SsrWait}
    [] s = "devIn" -> {SsrDrain, SsrResume, SsrRecovered, SsrReplay, IdleDrain, Stop(Dev)}

\* The situations, named for how far the flow has come with its interface.
Situations == {"idle", "start", "locked", "refused", "bare", "made", "found", "inside", "unlisted",
               "closed", "inOp", "devFound", "devIn"}

\* A flow that has come upon no entry yet.
NoContext == [k \in Keys |-> None]

\* The thread holds the rtnl lock and deals with the interface of k.
HasRtnl(t, k) ==
  /\ k \in NetDevs
  /\ lock["rtnl"] = t
  /\ \A j \in Keys : j # k => ctx[t][j] = None

\* n is held by its flow: no key leads to it, nor is k in use.
Hidden(t, k) ==
  /\ HasRtnl(t, k)
  /\ ctx[t][k] \in inUse
  /\ key[ctx[t][k]] = None
  /\ Lookup(k) = {}

\* No other thread is at n; no thread is there, nor drains it.
Alone(t, n) == \A u \in Threads : u # t => at[u] # n
Nobody(n) == \A u \in Threads : at[u] # n /\ cur[u] # n

\* What holds of a thread in a situation: whether it has the rtnl lock, where
\* it is in DSC, and what the tables say of the entry it deals with.
Standing(t, s, k) ==
  LET n == ctx[t][k]
      Without == lock["rtnl"] # t
      Within == pc[t] \in InTrans /\ at[t] = n
      Before == pc[t] = "idle" \/ (pc[t] = "tranWait" /\ at[t] = n)
  IN  CASE s = "idle" -> pc[t] = "idle" /\ ctx[t] = NoContext /\ Without
        [] s = "start" -> pc[t] = "idle" /\ ctx[t] = NoContext /\ Without /\ k \in NetDevs
        [] s = "locked" -> pc[t] = "idle" /\ ctx[t] = NoContext /\ HasRtnl(t, k)
        [] s = "refused" -> pc[t] = "idle" /\ HasRtnl(t, k) /\ (n = None \/ n \in Lookup(k))
        [] s = "bare" -> pc[t] = "idle" /\ Hidden(t, k) /\ n \notin attached
        [] s = "made" -> pc[t] = "idle" /\ Hidden(t, k) /\ n \in attached /\ Nobody(n)
        [] s = "found" -> Before /\ HasRtnl(t, k) /\ n \in Lookup(k)
        [] s = "inside" -> Within /\ HasRtnl(t, k) /\ n \in Lookup(k)
        [] s = "unlisted" -> Within /\ Hidden(t, k)
        [] s = "closed" -> Within /\ Hidden(t, k) /\ (pc[t] = "trans" => Alone(t, n))
        [] s = "inOp" -> pc[t] = "op" /\ Without
        [] s = "devFound" -> Before /\ Without /\ k = Dev /\ n \in Lookup(Dev)
        [] s = "devIn" -> Without /\ k = Dev /\ (pc[t] = "idle" \/ (pc[t] \in InTrans /\ at[t] \in Psocs))

\* The thread is in the situation, with a program of it left.
Place(t, s, k) == prog[t] \in Code(s, k) /\ Standing(t, s, k)

\* The tables.
EntryShape ==
  /\ attached \subseteq inUse
  /\ \A n \in Node \ inUse : key[n] = None
  /\ \A n \in Node : key[n] # None => n \in attached
  /\ \A n \in inUse \ Vdevs : key[n] = IF n = Driver THEN Driver ELSE Dev
  /\ \A n \in Vdevs : key[n] \in NetDevs \cup {None}
  /\ \A m, n \in Vdevs : key[m] = key[n] /\ key[m] # None => m = n

\* An entry in use that is not registered is in the hands of the flow that
\* has the rtnl lock.
Held ==
  \A n \in inUse : key[n] = None => \E t \in Threads, k \in NetDevs : lock["rtnl"] = t /\ ctx[t][k] = n

\* The inductive invariant.
HddInv ==
  /\ IInv
  /\ HddTypeOK
  /\ DOMAIN prog = Threads
  /\ "unloading" \notin cds
  /\ \A t \in Threads : tran[t] # "aborted"
  /\ \A t \in Threads, k \in Keys : ctx[t][k] \in Table(k) \cup {None}
  /\ EntryShape
  /\ Held
  /\ \A t \in Threads : \E s \in Situations, k \in Keys : Place(t, s, k)

-----------------------------------------------------------------------------
(* Programs as sequences of calls. *)

\* A finite sequence, of whatever.
Program(p) == \E S : p \in Seq(S)

\* p is the call [op |-> o, key |-> k, err |-> e] followed by q.
Is(p, o, k, e, q) ==
  Program(p) /\ p # <<>> /\ Head(p) = [op |-> o, key |-> k, err |-> e] /\ Tail(p) = q

\* One call,
LEMMA OnOne ==
  ASSUME NEW o, NEW k, NEW e
  PROVE  On(<<o>>, k, e) = <<[op |-> o, key |-> k, err |-> e]>>
BY DEF On

\* and two.
LEMMA OnTwo ==
  ASSUME NEW o, NEW q, NEW k, NEW e
  PROVE  On(<<o, q>>, k, e) = On(<<o>>, k, e) \o On(<<q>>, k, e)
BY DEF On

\* A call before a program is the first of it.
LEMMA FirstCall ==
  ASSUME NEW o, NEW k, NEW e, NEW p, Program(p)
  PROVE  Is(On(<<o>>, k, e) \o p, o, k, e, p)
<1> DEFINE c == [op |-> o, key |-> k, err |-> e]
<1>1. PICK S : p \in Seq(S)
  BY DEF Program
<1>2. p \in Seq(S \cup {c}) /\ <<c>> \in Seq(S \cup {c})
  BY <1>1
<1> HIDE DEF c
<1>3. /\ <<c>> \o p \in Seq(S \cup {c}) /\ <<c>> \o p # <<>>
      /\ Head(<<c>> \o p) = c /\ Tail(<<c>> \o p) = p
  <2>1. <<c>> \o p \in Seq(S \cup {c}) /\ Len(<<c>> \o p) = 1 + Len(p)
    BY <1>2
  <2>2. (<<c>> \o p)[1] = c /\ \A i \in 1 .. Len(p) : (<<c>> \o p)[i + 1] = p[i]
    BY <1>2
  <2>3. <<c>> \o p # <<>> /\ Head(<<c>> \o p) = c
    BY <1>2, <2>1, <2>2
  <2>4. Tail(<<c>> \o p) \in Seq(S \cup {c}) /\ Len(Tail(<<c>> \o p)) = Len(p)
    BY <1>2, <2>1, <2>3
  <2>5. \A i \in 1 .. Len(p) : Tail(<<c>> \o p)[i] = p[i]
    BY <1>2, <2>1, <2>2, <2>3
  <2>6. QED
    BY <1>2, <2>1, <2>3, <2>4, <2>5, SeqEqual
<1>4. QED
  BY <1>3, OnOne DEF Program, Is, c

\* A call by itself is a program that ends with it.
LEMMA OneCall ==
  ASSUME NEW o, NEW k, NEW e
  PROVE  Is(On(<<o>>, k, e), o, k, e, <<>>)
<1> DEFINE c == [op |-> o, key |-> k, err |-> e]
<1>1. <<c>> \in Seq({c})
  OBVIOUS
<1> HIDE DEF c
<1>2. <<c>> # <<>> /\ Head(<<c>>) = c /\ Tail(<<c>>) = <<>>
  BY <1>1
<1>3. QED
  BY <1>1, <1>2, OnOne DEF Program, Is, c

\* Programs join to programs, in whatever order.
LEMMA Joined ==
  ASSUME NEW p, NEW q, NEW r, Program(p), Program(q), Program(r)
  PROVE  Program(p \o q) /\ (p \o q) \o r = p \o (q \o r)
<1>1. PICK S1 : p \in Seq(S1)
  BY DEF Program
<1>2. PICK S2 : q \in Seq(S2)
  BY DEF Program
<1>3. PICK S3 : r \in Seq(S3)
  BY DEF Program
<1> DEFINE S == S1 \cup S2 \cup S3
<1>4. p \in Seq(S) /\ q \in Seq(S) /\ r \in Seq(S)
  BY <1>1, <1>2, <1>3
<1>5. QED
  BY <1>4, ConcatAssociative, ConcatProperties DEF Program

\* The ends of the flows.
LEMMA EndCode ==
  ASSUME NEW k
  PROVE  /\ Is(Put(k), "put", k, <<>>, <<>>)
         /\ Is(Free(k), "destroy", k, <<>>, Put(k))
         /\ Is(Stop(k), "stop", k, <<>>, <<>>)
         /\ Is(StopFree(k), "stop", k, <<>>, Free(k))
<1>1. Is(Put(k), "put", k, <<>>, <<>>)
  BY OneCall DEF Put
<1>2. Is(Free(k), "destroy", k, <<>>, Put(k))
  <2>1. Program(Put(k))
    BY <1>1 DEF Is
  <2>2. Is(On(<<"destroy">>, k, <<>>) \o Put(k), "destroy", k, <<>>, Put(k))
    BY <2>1, FirstCall
  <2>3. QED
    BY <2>2, OnTwo DEF Free, Put
<1>3. Is(Stop(k), "stop", k, <<>>, <<>>)
  BY OneCall DEF Stop
<1>4. Is(StopFree(k), "stop", k, <<>>, Free(k))
  <2>1. Program(Free(k))
    BY <1>2 DEF Is
  <2>2. Is(On(<<"stop">>, k, <<>>) \o Free(k), "stop", k, <<>>, Free(k))
    BY <2>1, FirstCall
  <2>3. QED
    BY <2>2 DEF StopFree, Stop
<1>5. QED
  BY <1>1, <1>2, <1>3, <1>4

\* An interface is added (__wlan_hdd_add_virtual_intf).
LEMMA AddCode ==
  ASSUME NEW k
  PROVE  /\ Is(AddRegister(k), "register", k, <<>>, Stop(k))
         /\ Is(AddBody(k), "body", k, StopFree(k), AddRegister(k))
         /\ Is(AddBegin(k), "begin", k, Free(k), AddBody(k))
         /\ Is(AddCreate(k), "create", k, Put(k), AddBegin(k))
         /\ Is(AddGet(k), "get", k, <<>>, AddCreate(k))
<1>1. Is(AddRegister(k), "register", k, <<>>, Stop(k))
  <2>1. Program(Stop(k))
    BY EndCode DEF Is
  <2>2. Is(On(<<"register">>, k, <<>>) \o Stop(k), "register", k, <<>>, Stop(k))
    BY <2>1, FirstCall
  <2>3. QED
    BY <2>2 DEF AddRegister
<1>2. Is(AddBody(k), "body", k, StopFree(k), AddRegister(k))
  <2>1. Program(AddRegister(k))
    BY <1>1 DEF Is
  <2>2. Is(On(<<"body">>, k, StopFree(k)) \o AddRegister(k), "body", k, StopFree(k), AddRegister(k))
    BY <2>1, FirstCall
  <2>3. QED
    BY <2>2 DEF AddBody
<1>3. Is(AddBegin(k), "begin", k, Free(k), AddBody(k))
  <2>1. Program(AddBody(k))
    BY <1>2 DEF Is
  <2>2. Is(On(<<"begin">>, k, Free(k)) \o AddBody(k), "begin", k, Free(k), AddBody(k))
    BY <2>1, FirstCall
  <2>3. QED
    BY <2>2 DEF AddBegin
<1>4. Is(AddCreate(k), "create", k, Put(k), AddBegin(k))
  <2>1. Program(AddBegin(k))
    BY <1>3 DEF Is
  <2>2. Is(On(<<"create">>, k, Put(k)) \o AddBegin(k), "create", k, Put(k), AddBegin(k))
    BY <2>1, FirstCall
  <2>3. QED
    BY <2>2 DEF AddCreate
<1>5. Is(AddGet(k), "get", k, <<>>, AddCreate(k))
  <2>1. Program(AddCreate(k))
    BY <1>4 DEF Is
  <2>2. Is(On(<<"get">>, k, <<>>) \o AddCreate(k), "get", k, <<>>, AddCreate(k))
    BY <2>1, FirstCall
  <2>3. QED
    BY <2>2 DEF AddGet
<1>6. QED
  BY <1>1, <1>2, <1>3, <1>4, <1>5

\* It is deleted.
LEMMA DelCode ==
  ASSUME NEW k
  PROVE  /\ Is(DelDrain(k), "drain", k, <<>>, StopFree(k))
         /\ Is(DelUnregister(k), "unregister", k, <<>>, DelDrain(k))
         /\ Is(DelWait(k), "wait", k, <<>>, DelUnregister(k))
         /\ Is(DelFind(k), "find", k, <<>>, DelWait(k))
<1>1. Is(DelDrain(k), "drain", k, <<>>, StopFree(k))
  <2>1. Program(StopFree(k))
    BY EndCode DEF Is
  <2>2. Is(On(<<"drain">>, k, <<>>) \o StopFree(k), "drain", k, <<>>, StopFree(k))
    BY <2>1, FirstCall
  <2>3. QED
    BY <2>2 DEF DelDrain
<1>2. Is(DelUnregister(k), "unregister", k, <<>>, DelDrain(k))
  <2>1. Program(DelDrain(k))
    BY <1>1 DEF Is
  <2>2. Is(On(<<"unregister">>, k, <<>>) \o DelDrain(k), "unregister", k, <<>>, DelDrain(k))
    BY <2>1, FirstCall
  <2>3. QED
    BY <2>2 DEF DelUnregister
<1>3. Is(DelWait(k), "wait", k, <<>>, DelUnregister(k))
  <2>1. Program(DelUnregister(k))
    BY <1>2 DEF Is
  <2>2. Is(On(<<"wait">>, k, <<>>) \o DelUnregister(k), "wait", k, <<>>, DelUnregister(k))
    BY <2>1, FirstCall
  <2>3. QED
    BY <2>2 DEF DelWait
<1>4. Is(DelFind(k), "find", k, <<>>, DelWait(k))
  <2>1. Program(DelWait(k))
    BY <1>3 DEF Is
  <2>2. Is(On(<<"find">>, k, <<>>) \o DelWait(k), "find", k, <<>>, DelWait(k))
    BY <2>1, FirstCall
  <2>3. QED
    BY <2>2 DEF DelFind
<1>5. QED
  BY <1>1, <1>2, <1>3, <1>4

\* A NAN data interface is deleted.
LEMMA NdiCode ==
  ASSUME NEW k
  PROVE  /\ Is(NdiBody(k), "body", k, AddRegister(k), StopFree(k))
         /\ Is(NdiDrain(k), "drain", k, <<>>, NdiBody(k))
         /\ Is(NdiUnregister(k), "unregister", k, <<>>, NdiDrain(k))
         /\ Is(NdiWait(k), "wait", k, <<>>, NdiUnregister(k))
         /\ Is(NdiFind(k), "find", k, <<>>, NdiWait(k))
<1>1. Is(NdiBody(k), "body", k, AddRegister(k), StopFree(k))
  <2>1. Program(StopFree(k))
    BY EndCode DEF Is
  <2>2. Is(On(<<"body">>, k, AddRegister(k)) \o StopFree(k), "body", k, AddRegister(k), StopFree(k))
    BY <2>1, FirstCall
  <2>3. QED
    BY <2>2 DEF NdiBody
<1>2. Is(NdiDrain(k), "drain", k, <<>>, NdiBody(k))
  <2>1. Program(NdiBody(k))
    BY <1>1 DEF Is
  <2>2. Is(On(<<"drain">>, k, <<>>) \o NdiBody(k), "drain", k, <<>>, NdiBody(k))
    BY <2>1, FirstCall
  <2>3. QED
    BY <2>2 DEF NdiDrain
<1>3. Is(NdiUnregister(k), "unregister", k, <<>>, NdiDrain(k))
  <2>1. Program(NdiDrain(k))
    BY <1>2 DEF Is
  <2>2. Is(On(<<"unregister">>, k, <<>>) \o NdiDrain(k), "unregister", k, <<>>, NdiDrain(k))
    BY <2>1, FirstCall
  <2>3. QED
    BY <2>2 DEF NdiUnregister
<1>4. Is(NdiWait(k), "wait", k, <<>>, NdiUnregister(k))
  <2>1. Program(NdiUnregister(k))
    BY <1>3 DEF Is
  <2>2. Is(On(<<"wait">>, k, <<>>) \o NdiUnregister(k), "wait", k, <<>>, NdiUnregister(k))
    BY <2>1, FirstCall
  <2>3. QED
    BY <2>2 DEF NdiWait
<1>5. Is(NdiFind(k), "find", k, <<>>, NdiWait(k))
  <2>1. Program(NdiWait(k))
    BY <1>4 DEF Is
  <2>2. Is(On(<<"find">>, k, <<>>) \o NdiWait(k), "find", k, <<>>, NdiWait(k))
    BY <2>1, FirstCall
  <2>3. QED
    BY <2>2 DEF NdiFind
<1>6. QED
  BY <1>1, <1>2, <1>3, <1>4, <1>5

\* It is opened, closed and used.
LEMMA UseCode ==
  ASSUME NEW k
  PROVE  /\ Is(UpOpened(k), "opened", k, <<>>, Stop(k))
         /\ Is(UpEnter(k), "enter", k, <<>>, UpOpened(k))
         /\ Is(DownRefused(k), "remember", k, <<>>, <<>>)
         /\ Is(DownEnter(k), "enter", k, DownRefused(k), Stop(k))
         /\ Is(OpLeave(k), "leaveOp", k, <<>>, <<>>)
         /\ Is(OpEnter(k), "enterOp", k, <<>>, OpLeave(k))
<1>1. Is(UpOpened(k), "opened", k, <<>>, Stop(k))
  <2>1. Program(Stop(k))
    BY EndCode DEF Is
  <2>2. Is(On(<<"opened">>, k, <<>>) \o Stop(k), "opened", k, <<>>, Stop(k))
    BY <2>1, FirstCall
  <2>3. QED
    BY <2>2 DEF UpOpened
<1>2. Is(UpEnter(k), "enter", k, <<>>, UpOpened(k))
  <2>1. Program(UpOpened(k))
    BY <1>1 DEF Is
  <2>2. Is(On(<<"enter">>, k, <<>>) \o UpOpened(k), "enter", k, <<>>, UpOpened(k))
    BY <2>1, FirstCall
  <2>3. QED
    BY <2>2 DEF UpEnter
<1>3. Is(DownRefused(k), "remember", k, <<>>, <<>>)
  BY OneCall DEF DownRefused
<1>4. Is(DownEnter(k), "enter", k, DownRefused(k), Stop(k))
  <2>1. Program(Stop(k))
    BY EndCode DEF Is
  <2>2. Is(On(<<"enter">>, k, DownRefused(k)) \o Stop(k), "enter", k, DownRefused(k), Stop(k))
    BY <2>1, FirstCall
  <2>3. QED
    BY <2>2 DEF DownEnter
<1>5. Is(OpLeave(k), "leaveOp", k, <<>>, <<>>)
  BY OneCall DEF OpLeave
<1>6. Is(OpEnter(k), "enterOp", k, <<>>, OpLeave(k))
  <2>1. Program(OpLeave(k))
    BY <1>5 DEF Is
  <2>2. Is(On(<<"enterOp">>, k, <<>>) \o OpLeave(k), "enterOp", k, <<>>, OpLeave(k))
    BY <2>1, FirstCall
  <2>3. QED
    BY <2>2 DEF OpEnter
<1>7. QED
  BY <1>1, <1>2, <1>3, <1>4, <1>5, <1>6

\* The idle SoC, and recovery.
LEMMA DevCode ==
  /\ Is(IdleDrain, "drain", Dev, <<>>, Stop(Dev))
  /\ Is(IdleEnter, "enter", Dev, <<>>, IdleDrain)
  /\ Is(SsrReplay, "replay", Dev, <<>>, Stop(Dev))
  /\ Is(SsrRecovered, "recovered", Dev, Stop(Dev), SsrReplay)
  /\ Is(SsrResume, "resume", Dev, <<>>, SsrRecovered)
  /\ Is(SsrDrain, "drain", Dev, <<>>, SsrResume)
  /\ Is(SsrWait, "wait", Dev, SsrResume, SsrDrain)
  /\ Is(SsrFind, "find", Dev, SsrResume, SsrWait)
  /\ Is(SsrShutdown, "shutdown", Dev, SsrResume, SsrFind)
  /\ Is(SsrSet, "set", "recovering", <<>>, SsrShutdown)
  /\ Is(SsrCalled, "called", "platform", <<>>, SsrSet)
<1>1. Is(IdleDrain, "drain", Dev, <<>>, Stop(Dev))
  <2>1. Program(Stop(Dev))
    BY EndCode DEF Is
  <2>2. Is(On(<<"drain">>, Dev, <<>>) \o Stop(Dev), "drain", Dev, <<>>, Stop(Dev))
    BY <2>1, FirstCall
  <2>3. QED
    BY <2>2 DEF IdleDrain
<1>2. Is(IdleEnter, "enter", Dev, <<>>, IdleDrain)
  <2>1. Program(IdleDrain)
    BY <1>1 DEF Is
  <2>2. Is(On(<<"enter">>, Dev, <<>>) \o IdleDrain, "enter", Dev, <<>>, IdleDrain)
    BY <2>1, FirstCall
  <2>3. QED
    BY <2>2 DEF IdleEnter
<1>3. Is(SsrReplay, "replay", Dev, <<>>, Stop(Dev))
  <2>1. Program(Stop(Dev))
    BY EndCode DEF Is
  <2>2. Is(On(<<"replay">>, Dev, <<>>) \o Stop(Dev), "replay", Dev, <<>>, Stop(Dev))
    BY <2>1, FirstCall
  <2>3. QED
    BY <2>2 DEF SsrReplay
<1>4. Is(SsrRecovered, "recovered", Dev, Stop(Dev), SsrReplay)
  <2>1. Program(SsrReplay)
    BY <1>3 DEF Is
  <2>2. Is(On(<<"recovered">>, Dev, Stop(Dev)) \o SsrReplay, "recovered", Dev, Stop(Dev), SsrReplay)
    BY <2>1, FirstCall
  <2>3. QED
    BY <2>2 DEF SsrRecovered
<1>5. Is(SsrResume, "resume", Dev, <<>>, SsrRecovered)
  <2>1. Program(SsrRecovered)
    BY <1>4 DEF Is
  <2>2. Is(On(<<"resume">>, Dev, <<>>) \o SsrRecovered, "resume", Dev, <<>>, SsrRecovered)
    BY <2>1, FirstCall
  <2>3. QED
    BY <2>2 DEF SsrResume
<1>6. Is(SsrDrain, "drain", Dev, <<>>, SsrResume)
  <2>1. Program(SsrResume)
    BY <1>5 DEF Is
  <2>2. Is(On(<<"drain">>, Dev, <<>>) \o SsrResume, "drain", Dev, <<>>, SsrResume)
    BY <2>1, FirstCall
  <2>3. QED
    BY <2>2 DEF SsrDrain
<1>7. Is(SsrWait, "wait", Dev, SsrResume, SsrDrain)
  <2>1. Program(SsrDrain)
    BY <1>6 DEF Is
  <2>2. Is(On(<<"wait">>, Dev, SsrResume) \o SsrDrain, "wait", Dev, SsrResume, SsrDrain)
    BY <2>1, FirstCall
  <2>3. QED
    BY <2>2 DEF SsrWait
<1>8. Is(SsrFind, "find", Dev, SsrResume, SsrWait)
  <2>1. Program(SsrWait)
    BY <1>7 DEF Is
  <2>2. Is(On(<<"find">>, Dev, SsrResume) \o SsrWait, "find", Dev, SsrResume, SsrWait)
    BY <2>1, FirstCall
  <2>3. QED
    BY <2>2 DEF SsrFind
<1>9. Is(SsrShutdown, "shutdown", Dev, SsrResume, SsrFind)
  <2>1. Program(SsrFind)
    BY <1>8 DEF Is
  <2>2. Is(On(<<"shutdown">>, Dev, SsrResume) \o SsrFind, "shutdown", Dev, SsrResume, SsrFind)
    BY <2>1, FirstCall
  <2>3. QED
    BY <2>2 DEF SsrShutdown
<1>10. Is(SsrSet, "set", "recovering", <<>>, SsrShutdown)
  <2>1. Program(SsrShutdown)
    BY <1>9 DEF Is
  <2>2. Is(On(<<"set">>, "recovering", <<>>) \o SsrShutdown, "set", "recovering", <<>>, SsrShutdown)
    BY <2>1, FirstCall
  <2>3. QED
    BY <2>2 DEF SsrSet
<1>11. Is(SsrCalled, "called", "platform", <<>>, SsrSet)
  <2>1. Program(SsrSet)
    BY <1>10 DEF Is
  <2>2. Is(On(<<"called">>, "platform", <<>>) \o SsrSet, "called", "platform", <<>>, SsrSet)
    BY <2>1, FirstCall
  <2>3. QED
    BY <2>2 DEF SsrCalled
<1>12. QED
  BY <1>1, <1>2, <1>3, <1>4, <1>5, <1>6, <1>7, <1>8, <1>9, <1>10, <1>11

\* The thread goes on with p in situation u.
Goes(p, u, k) == p \in Code(u, k) /\ p # <<>>

\* A call in a situation, and the situations that the flow passes to when it
\* succeeds and when it fails: r is the rest of the program, e the program
\* that replaces it.
Typing(s, k, call, j, e, r) ==
  \/ call = "acquire" /\ j = "platform" /\ s = "idle" /\ Goes(r, "idle", k)
  \/ call = "acquire" /\ j = "rtnl" /\ s = "start" /\ Goes(r, "locked", k)
  \/ call = "called" /\ j = "platform" /\ s = "idle" /\ Goes(r, "idle", k) /\ e = <<>>
  \/ call = "called" /\ j = "cfg80211" /\ s = "locked" /\ Goes(r, "locked", k) /\ e = <<>>
  \/ call = "get" /\ j = k /\ s = "locked" /\ Goes(r, "bare", k) /\ e = <<>>
  \/ call = "create" /\ j = k /\ s = "bare" /\ Goes(r, "made", k) /\ Goes(e, "bare", k)
  \/ call = "begin" /\ j = k /\ s = "made" /\ Goes(r, "closed", k) /\ Goes(e, "made", k)
  \/ call = "body" /\ j = k /\ s = "closed" /\ Goes(r, "closed", k) /\ Goes(e, "closed", k)
  \/ call = "register" /\ j = k /\ s = "closed" /\ Goes(r, "inside", k)
  \/ call = "stop" /\ j = k /\ s = "inside" /\ r = <<>>
  \/ call = "stop" /\ j = k /\ s = "closed" /\ Goes(r, "made", k)
  \/ call = "stop" /\ j = Dev /\ s = "devIn" /\ r = <<>>
  \/ call = "destroy" /\ j = k /\ s = "made" /\ Goes(r, "bare", k)
  \/ call = "put" /\ j = k /\ s = "bare" /\ r = <<>>
  \/ call = "find" /\ j = k /\ s = "locked" /\ Goes(r, "found", k) /\ e = <<>>
  \/ call = "find" /\ j = Dev /\ s = "idle" /\ Goes(r, "devFound", Dev) /\ Goes(e, "devIn", Dev)
  \/ call = "wait" /\ j = k /\ s = "found" /\ Goes(r, "inside", k) /\ e = <<>>
  \/ call = "wait" /\ j = Dev /\ s = "devFound" /\ Goes(r, "devIn", Dev) /\ Goes(e, "devIn", Dev)
  \/ call = "unregister" /\ j = k /\ s = "inside" /\ Goes(r, "unlisted", k)
  \/ call = "drain" /\ j = k /\ s = "unlisted" /\ Goes(r, "closed", k)
  \/ call = "drain" /\ j = Dev /\ s = "devIn" /\ Goes(r, "devIn", Dev)
  \/ call = "enter" /\ j = k /\ s = "locked" /\ Goes(r, "inside", k) /\ (e = <<>> \/ Goes(e, "refused", k))
  \/ call = "enter" /\ j = Dev /\ s = "idle" /\ Goes(r, "devIn", Dev) /\ e = <<>>
  \/ call = "opened" /\ j = k /\ s = "inside" /\ Goes(r, "inside", k)
  \/ call = "remember" /\ j = k /\ s = "refused" /\ r = <<>>
  \/ call = "enterOp" /\ j = k /\ s = "idle" /\ Goes(r, "inOp", k) /\ e = <<>>
  \/ call = "leaveOp" /\ j = k /\ s = "inOp" /\ r = <<>>
  \/ call = "set" /\ j = "recovering" /\ s = "idle" /\ Goes(r, "idle", k)
  \/ call = "shutdown" /\ j = Dev /\ s = "idle" /\ Goes(r, "idle", k) /\ Goes(e, "devIn", Dev)
  \/ call = "resume" /\ j = Dev /\ s = "devIn" /\ Goes(r, "devIn", Dev) /\ e = <<>>
  \/ call = "recovered" /\ j = Dev /\ s = "devIn" /\ Goes(r, "devIn", Dev) /\ Goes(e, "devIn", Dev)
  \/ call = "replay" /\ j = Dev /\ s = "devIn" /\ Goes(r, "devIn", Dev)

\* The calls before a flow that need a lock of the kernel or a callback.
LEMMA CallerCode ==
  ASSUME NEW k
  PROVE  /\ Is(CfgCalled(AddGet(k)), "called", "cfg80211", <<>>, AddGet(k))
         /\ Is(CfgCalled(DelFind(k)), "called", "cfg80211", <<>>, DelFind(k))
         /\ Is(CfgCalled(NdiFind(k)), "called", "cfg80211", <<>>, NdiFind(k))
         /\ Is(Acquire("rtnl") \o CfgCalled(AddGet(k)), "acquire", "rtnl", <<>>, CfgCalled(AddGet(k)))
         /\ Is(Acquire("rtnl") \o CfgCalled(DelFind(k)), "acquire", "rtnl", <<>>, CfgCalled(DelFind(k)))
         /\ Is(Acquire("rtnl") \o CfgCalled(NdiFind(k)), "acquire", "rtnl", <<>>, CfgCalled(NdiFind(k)))
         /\ Is(Acquire("rtnl") \o UpEnter(k), "acquire", "rtnl", <<>>, UpEnter(k))
         /\ Is(Acquire("rtnl") \o DownEnter(k), "acquire", "rtnl", <<>>, DownEnter(k))
         /\ Is(Acquire("platform") \o SsrCalled, "acquire", "platform", <<>>, SsrCalled)
<1>1. /\ Program(AddGet(k)) /\ Program(DelFind(k)) /\ Program(NdiFind(k)) /\ Program(UpEnter(k))
      /\ Program(DownEnter(k)) /\ Program(SsrCalled)
  BY AddCode, DelCode, NdiCode, UseCode, DevCode DEF Is
<1>2. \A q : Program(q) => Is(CfgCalled(q), "called", "cfg80211", <<>>, q)
  BY FirstCall DEF CfgCalled
<1>3. Program(CfgCalled(AddGet(k))) /\ Program(CfgCalled(DelFind(k))) /\ Program(CfgCalled(NdiFind(k)))
  BY <1>1, <1>2 DEF Is
<1>4. \A q, l : Program(q) => Is(Acquire(l) \o q, "acquire", l, <<>>, q)
  BY FirstCall DEF Acquire
<1>5. QED
  BY <1>1, <1>2, <1>3, <1>4

\* Which programs belong to which situation.
LEMMA Members ==
  ASSUME NEW k
  PROVE  /\ \A p : Goes(p, "idle", k) <=>
              p \in {OpEnter(k), IdleEnter, Acquire("platform") \o SsrCalled, SsrCalled, SsrSet,
                     SsrShutdown, SsrFind}
         /\ \A p : Goes(p, "start", k) <=>
              p \in {Acquire("rtnl") \o CfgCalled(AddGet(k)),
                     Acquire("rtnl") \o CfgCalled(DelFind(k)),
                     Acquire("rtnl") \o CfgCalled(NdiFind(k)), Acquire("rtnl") \o UpEnter(k),
                     Acquire("rtnl") \o DownEnter(k)}
         /\ \A p : Goes(p, "locked", k) <=>
              p \in {CfgCalled(AddGet(k)), CfgCalled(DelFind(k)), CfgCalled(NdiFind(k)), AddGet(k),
                     DelFind(k), NdiFind(k), UpEnter(k), DownEnter(k)}
         /\ \A p : Goes(p, "refused", k) <=>
              p \in {DownRefused(k)}
         /\ \A p : Goes(p, "bare", k) <=>
              p \in {AddCreate(k), Put(k)}
         /\ \A p : Goes(p, "made", k) <=>
              p \in {AddBegin(k), Free(k)}
         /\ \A p : Goes(p, "found", k) <=>
              p \in {DelWait(k), NdiWait(k)}
         /\ \A p : Goes(p, "inside", k) <=>
              p \in {DelUnregister(k), NdiUnregister(k), UpOpened(k), Stop(k)}
         /\ \A p : Goes(p, "unlisted", k) <=>
              p \in {DelDrain(k), NdiDrain(k)}
         /\ \A p : Goes(p, "closed", k) <=>
              p \in {AddBody(k), AddRegister(k), NdiBody(k), StopFree(k)}
         /\ \A p : Goes(p, "inOp", k) <=>
              p \in {OpLeave(k)}
         /\ \A p : Goes(p, "devFound", k) <=>
              p \in {SsrWait}
         /\ \A p : Goes(p, "devIn", k) <=>
              p \in {SsrDrain, SsrResume, SsrRecovered, SsrReplay, IdleDrain, Stop(Dev)}
<1>1. \A p : Goes(p, "idle", k) <=>
        p \in {OpEnter(k), IdleEnter, Acquire("platform") \o SsrCalled, SsrCalled, SsrSet,
               SsrShutdown, SsrFind}
  <2>1. \A p \in {OpEnter(k), IdleEnter, Acquire("platform") \o SsrCalled, SsrCalled, SsrSet,
                SsrShutdown, SsrFind} : p # <<>>
    BY CallerCode, DevCode, UseCode DEF Is
  <2>2. QED
    BY <2>1 DEF Goes, Code
<1>2. \A p : Goes(p, "start", k) <=>
        p \in {Acquire("rtnl") \o CfgCalled(AddGet(k)),
               Acquire("rtnl") \o CfgCalled(DelFind(k)),
               Acquire("rtnl") \o CfgCalled(NdiFind(k)), Acquire("rtnl") \o UpEnter(k),
               Acquire("rtnl") \o DownEnter(k)}
  <2>1. \A p \in {Acquire("rtnl") \o CfgCalled(AddGet(k)),
                Acquire("rtnl") \o CfgCalled(DelFind(k)),
                Acquire("rtnl") \o CfgCalled(NdiFind(k)), Acquire("rtnl") \o UpEnter(k),
                Acquire("rtnl") \o DownEnter(k)} : p # <<>>
    BY CallerCode DEF Is
  <2>2. QED
    BY <2>1 DEF Goes, Code
<1>3. \A p : Goes(p, "locked", k) <=>
        p \in {CfgCalled(AddGet(k)), CfgCalled(DelFind(k)), CfgCalled(NdiFind(k)), AddGet(k),
               DelFind(k), NdiFind(k), UpEnter(k), DownEnter(k)}
  <2>1. \A p \in {CfgCalled(AddGet(k)), CfgCalled(DelFind(k)), CfgCalled(NdiFind(k)), AddGet(k),
                DelFind(k), NdiFind(k), UpEnter(k), DownEnter(k)} : p # <<>>
    BY AddCode, CallerCode, DelCode, NdiCode, UseCode DEF Is
  <2>2. QED
    BY <2>1 DEF Goes, Code
<1>4. \A p : Goes(p, "refused", k) <=>
        p \in {DownRefused(k)}
  <2>1. \A p \in {DownRefused(k)} : p # <<>>
    BY UseCode DEF Is
  <2>2. QED
    BY <2>1 DEF Goes, Code
<1>5. \A p : Goes(p, "bare", k) <=>
        p \in {AddCreate(k), Put(k)}
  <2>1. \A p \in {AddCreate(k), Put(k)} : p # <<>>
    BY AddCode, EndCode DEF Is
  <2>2. QED
    BY <2>1 DEF Goes, Code
<1>6. \A p : Goes(p, "made", k) <=>
        p \in {AddBegin(k), Free(k)}
  <2>1. \A p \in {AddBegin(k), Free(k)} : p # <<>>
    BY AddCode, EndCode DEF Is
  <2>2. QED
    BY <2>1 DEF Goes, Code
<1>7. \A p : Goes(p, "found", k) <=>
        p \in {DelWait(k), NdiWait(k)}
  <2>1. \A p \in {DelWait(k), NdiWait(k)} : p # <<>>
    BY DelCode, NdiCode DEF Is
  <2>2. QED
    BY <2>1 DEF Goes, Code
<1>8. \A p : Goes(p, "inside", k) <=>
        p \in {DelUnregister(k), NdiUnregister(k), UpOpened(k), Stop(k)}
  <2>1. \A p \in {DelUnregister(k), NdiUnregister(k), UpOpened(k), Stop(k)} : p # <<>>
    BY DelCode, EndCode, NdiCode, UseCode DEF Is
  <2>2. QED
    BY <2>1 DEF Goes, Code
<1>9. \A p : Goes(p, "unlisted", k) <=>
        p \in {DelDrain(k), NdiDrain(k)}
  <2>1. \A p \in {DelDrain(k), NdiDrain(k)} : p # <<>>
    BY DelCode, NdiCode DEF Is
  <2>2. QED
    BY <2>1 DEF Goes, Code
<1>10. \A p : Goes(p, "closed", k) <=>
        p \in {AddBody(k), AddRegister(k), NdiBody(k), StopFree(k)}
  <2>1. \A p \in {AddBody(k), AddRegister(k), NdiBody(k), StopFree(k)} : p # <<>>
    BY AddCode, EndCode, NdiCode DEF Is
  <2>2. QED
    BY <2>1 DEF Goes, Code
<1>11. \A p : Goes(p, "inOp", k) <=>
        p \in {OpLeave(k)}
  <2>1. \A p \in {OpLeave(k)} : p # <<>>
    BY UseCode DEF Is
  <2>2. QED
    BY <2>1 DEF Goes, Code
<1>12. \A p : Goes(p, "devFound", k) <=>
        p \in {SsrWait}
  <2>1. \A p \in {SsrWait} : p # <<>>
    BY DevCode DEF Is
  <2>2. QED
    BY <2>1 DEF Goes, Code
<1>13. \A p : Goes(p, "devIn", k) <=>
        p \in {SsrDrain, SsrResume, SsrRecovered, SsrReplay, IdleDrain, Stop(Dev)}
  <2>1. \A p \in {SsrDrain, SsrResume, SsrRecovered, SsrReplay, IdleDrain, Stop(Dev)} : p # <<>>
    BY DevCode, EndCode DEF Is
  <2>2. QED
    BY <2>1 DEF Goes, Code
<1>14. QED
  BY <1>1, <1>2, <1>3, <1>4, <1>5, <1>6, <1>7, <1>8, <1>9, <1>10, <1>11, <1>12, <1>13

\* The fields of a call.
LEMMA Fields ==
  ASSUME NEW p, NEW o, NEW k, NEW e, NEW q, Is(p, o, k, e, q)
  PROVE  Head(p).op = o /\ Head(p).key = k /\ Head(p).err = e /\ Tail(p) = q
BY DEF Is

\* Every program is typed.
LEMMA CodeAt ==
  ASSUME NEW s \in Situations, NEW k, NEW p \in Code(s, k), p # <<>>
  PROVE  Typing(s, k, Head(p).op, Head(p).key, Head(p).err, Tail(p))
<1>1. Goes(p, s, k)
  BY DEF Goes
<1>2. CASE s = "idle"
  <2>1. p \in {OpEnter(k), IdleEnter, Acquire("platform") \o SsrCalled, SsrCalled, SsrSet,
              SsrShutdown, SsrFind}
    BY <1>1, <1>2, Members
  <2>2. CASE p = OpEnter(k)
    <3>1. Is(p, "enterOp", k, <<>>, OpLeave(k))
      BY <2>2, UseCode
    <3>2. Goes(OpLeave(k), "inOp", k)
      BY Members
    <3>3. Typing(s, k, "enterOp", k, <<>>, OpLeave(k))
      BY <1>2, <3>2 DEF Typing
    <3>4. QED
      BY <3>1, <3>3, Fields, Zenon
  <2>3. CASE p = IdleEnter
    <3>1. Is(p, "enter", Dev, <<>>, IdleDrain)
      BY <2>3, DevCode
    <3>2. Goes(IdleDrain, "devIn", Dev)
      BY Members
    <3>3. Typing(s, k, "enter", Dev, <<>>, IdleDrain)
      BY <1>2, <3>2 DEF Typing
    <3>4. QED
      BY <3>1, <3>3, Fields, Zenon
  <2>4. CASE p = Acquire("platform") \o SsrCalled
    <3>1. Is(p, "acquire", "platform", <<>>, SsrCalled)
      BY <2>4, CallerCode
    <3>2. Goes(SsrCalled, "idle", k)
      BY Members
    <3>3. Typing(s, k, "acquire", "platform", <<>>, SsrCalled)
      BY <1>2, <3>2 DEF Typing
    <3>4. QED
      BY <3>1, <3>3, Fields, Zenon
  <2>5. CASE p = SsrCalled
    <3>1. Is(p, "called", "platform", <<>>, SsrSet)
      BY <2>5, DevCode
    <3>2. Goes(SsrSet, "idle", k)
      BY Members
    <3>3. Typing(s, k, "called", "platform", <<>>, SsrSet)
      BY <1>2, <3>2 DEF Typing
    <3>4. QED
      BY <3>1, <3>3, Fields, Zenon
  <2>6. CASE p = SsrSet
    <3>1. Is(p, "set", "recovering", <<>>, SsrShutdown)
      BY <2>6, DevCode
    <3>2. Goes(SsrShutdown, "idle", k)
      BY Members
    <3>3. Typing(s, k, "set", "recovering", <<>>, SsrShutdown)
      BY <1>2, <3>2 DEF Typing
    <3>4. QED
      BY <3>1, <3>3, Fields, Zenon
  <2>7. CASE p = SsrShutdown
    <3>1. Is(p, "shutdown", Dev, SsrResume, SsrFind)
      BY <2>7, DevCode
    <3>2. Goes(SsrFind, "idle", k) /\ Goes(SsrResume, "devIn", Dev)
      BY Members
    <3>3. Typing(s, k, "shutdown", Dev, SsrResume, SsrFind)
      BY <1>2, <3>2 DEF Typing
    <3>4. QED
      BY <3>1, <3>3, Fields, Zenon
  <2>8. CASE p = SsrFind
    <3>1. Is(p, "find", Dev, SsrResume, SsrWait)
      BY <2>8, DevCode
    <3>2. Goes(SsrWait, "devFound", Dev) /\ Goes(SsrResume, "devIn", Dev)
      BY Members
    <3>3. Typing(s, k, "find", Dev, SsrResume, SsrWait)
      BY <1>2, <3>2 DEF Typing
    <3>4. QED
      BY <3>1, <3>3, Fields, Zenon
  <2>9. QED
    BY <2>1, <2>2, <2>3, <2>4, <2>5, <2>6, <2>7, <2>8
<1>3. CASE s = "start"
  <2>1. p \in {Acquire("rtnl") \o CfgCalled(AddGet(k)),
              Acquire("rtnl") \o CfgCalled(DelFind(k)),
              Acquire("rtnl") \o CfgCalled(NdiFind(k)), Acquire("rtnl") \o UpEnter(k),
              Acquire("rtnl") \o DownEnter(k)}
    BY <1>1, <1>3, Members
  <2>2. CASE p = Acquire("rtnl") \o CfgCalled(AddGet(k))
    <3>1. Is(p, "acquire", "rtnl", <<>>, CfgCalled(AddGet(k)))
      BY <2>2, CallerCode
    <3>2. Goes(CfgCalled(AddGet(k)), "locked", k)
      BY Members
    <3>3. Typing(s, k, "acquire", "rtnl", <<>>, CfgCalled(AddGet(k)))
      BY <1>3, <3>2 DEF Typing
    <3>4. QED
      BY <3>1, <3>3, Fields, Zenon
  <2>3. CASE p = Acquire("rtnl") \o CfgCalled(DelFind(k))
    <3>1. Is(p, "acquire", "rtnl", <<>>, CfgCalled(DelFind(k)))
      BY <2>3, CallerCode
    <3>2. Goes(CfgCalled(DelFind(k)), "locked", k)
      BY Members
    <3>3. Typing(s, k, "acquire", "rtnl", <<>>, CfgCalled(DelFind(k)))
      BY <1>3, <3>2 DEF Typing
    <3>4. QED
      BY <3>1, <3>3, Fields, Zenon
  <2>4. CASE p = Acquire("rtnl") \o CfgCalled(NdiFind(k))
    <3>1. Is(p, "acquire", "rtnl", <<>>, CfgCalled(NdiFind(k)))
      BY <2>4, CallerCode
    <3>2. Goes(CfgCalled(NdiFind(k)), "locked", k)
      BY Members
    <3>3. Typing(s, k, "acquire", "rtnl", <<>>, CfgCalled(NdiFind(k)))
      BY <1>3, <3>2 DEF Typing
    <3>4. QED
      BY <3>1, <3>3, Fields, Zenon
  <2>5. CASE p = Acquire("rtnl") \o UpEnter(k)
    <3>1. Is(p, "acquire", "rtnl", <<>>, UpEnter(k))
      BY <2>5, CallerCode
    <3>2. Goes(UpEnter(k), "locked", k)
      BY Members
    <3>3. Typing(s, k, "acquire", "rtnl", <<>>, UpEnter(k))
      BY <1>3, <3>2 DEF Typing
    <3>4. QED
      BY <3>1, <3>3, Fields, Zenon
  <2>6. CASE p = Acquire("rtnl") \o DownEnter(k)
    <3>1. Is(p, "acquire", "rtnl", <<>>, DownEnter(k))
      BY <2>6, CallerCode
    <3>2. Goes(DownEnter(k), "locked", k)
      BY Members
    <3>3. Typing(s, k, "acquire", "rtnl", <<>>, DownEnter(k))
      BY <1>3, <3>2 DEF Typing
    <3>4. QED
      BY <3>1, <3>3, Fields, Zenon
  <2>7. QED
    BY <2>1, <2>2, <2>3, <2>4, <2>5, <2>6
<1>4. CASE s = "locked"
  <2>1. p \in {CfgCalled(AddGet(k)), CfgCalled(DelFind(k)), CfgCalled(NdiFind(k)), AddGet(k),
              DelFind(k), NdiFind(k), UpEnter(k), DownEnter(k)}
    BY <1>1, <1>4, Members
  <2>2. CASE p = CfgCalled(AddGet(k))
    <3>1. Is(p, "called", "cfg80211", <<>>, AddGet(k))
      BY <2>2, CallerCode
    <3>2. Goes(AddGet(k), "locked", k)
      BY Members
    <3>3. Typing(s, k, "called", "cfg80211", <<>>, AddGet(k))
      BY <1>4, <3>2 DEF Typing
    <3>4. QED
      BY <3>1, <3>3, Fields, Zenon
  <2>3. CASE p = CfgCalled(DelFind(k))
    <3>1. Is(p, "called", "cfg80211", <<>>, DelFind(k))
      BY <2>3, CallerCode
    <3>2. Goes(DelFind(k), "locked", k)
      BY Members
    <3>3. Typing(s, k, "called", "cfg80211", <<>>, DelFind(k))
      BY <1>4, <3>2 DEF Typing
    <3>4. QED
      BY <3>1, <3>3, Fields, Zenon
  <2>4. CASE p = CfgCalled(NdiFind(k))
    <3>1. Is(p, "called", "cfg80211", <<>>, NdiFind(k))
      BY <2>4, CallerCode
    <3>2. Goes(NdiFind(k), "locked", k)
      BY Members
    <3>3. Typing(s, k, "called", "cfg80211", <<>>, NdiFind(k))
      BY <1>4, <3>2 DEF Typing
    <3>4. QED
      BY <3>1, <3>3, Fields, Zenon
  <2>5. CASE p = AddGet(k)
    <3>1. Is(p, "get", k, <<>>, AddCreate(k))
      BY <2>5, AddCode
    <3>2. Goes(AddCreate(k), "bare", k)
      BY Members
    <3>3. Typing(s, k, "get", k, <<>>, AddCreate(k))
      BY <1>4, <3>2 DEF Typing
    <3>4. QED
      BY <3>1, <3>3, Fields, Zenon
  <2>6. CASE p = DelFind(k)
    <3>1. Is(p, "find", k, <<>>, DelWait(k))
      BY <2>6, DelCode
    <3>2. Goes(DelWait(k), "found", k)
      BY Members
    <3>3. Typing(s, k, "find", k, <<>>, DelWait(k))
      BY <1>4, <3>2 DEF Typing
    <3>4. QED
      BY <3>1, <3>3, Fields, Zenon
  <2>7. CASE p = NdiFind(k)
    <3>1. Is(p, "find", k, <<>>, NdiWait(k))
      BY <2>7, NdiCode
    <3>2. Goes(NdiWait(k), "found", k)
      BY Members
    <3>3. Typing(s, k, "find", k, <<>>, NdiWait(k))
      BY <1>4, <3>2 DEF Typing
    <3>4. QED
      BY <3>1, <3>3, Fields, Zenon
  <2>8. CASE p = UpEnter(k)
    <3>1. Is(p, "enter", k, <<>>, UpOpened(k))
      BY <2>8, UseCode
    <3>2. Goes(UpOpened(k), "inside", k)
      BY Members
    <3>3. Typing(s, k, "enter", k, <<>>, UpOpened(k))
      BY <1>4, <3>2 DEF Typing
    <3>4. QED
      BY <3>1, <3>3, Fields, Zenon
  <2>9. CASE p = DownEnter(k)
    <3>1. Is(p, "enter", k, DownRefused(k), Stop(k))
      BY <2>9, UseCode
    <3>2. Goes(Stop(k), "inside", k) /\ Goes(DownRefused(k), "refused", k)
      BY Members
    <3>3. Typing(s, k, "enter", k, DownRefused(k), Stop(k))
      BY <1>4, <3>2 DEF Typing
    <3>4. QED
      BY <3>1, <3>3, Fields, Zenon
  <2>10. QED
    BY <2>1, <2>2, <2>3, <2>4, <2>5, <2>6, <2>7, <2>8, <2>9
<1>5. CASE s = "refused"
  <2>1. p \in {DownRefused(k)}
    BY <1>1, <1>5, Members
  <2>2. CASE p = DownRefused(k)
    <3>1. Is(p, "remember", k, <<>>, <<>>)
      BY <2>2, UseCode
    <3>2. Typing(s, k, "remember", k, <<>>, <<>>)
      BY <1>5 DEF Typing
    <3>3. QED
      BY <3>1, <3>2, Fields, Zenon
  <2>3. QED
    BY <2>1, <2>2
<1>6. CASE s = "bare"
  <2>1. p \in {AddCreate(k), Put(k)}
    BY <1>1, <1>6, Members
  <2>2. CASE p = AddCreate(k)
    <3>1. Is(p, "create", k, Put(k), AddBegin(k))
      BY <2>2, AddCode
    <3>2. Goes(AddBegin(k), "made", k) /\ Goes(Put(k), "bare", k)
      BY Members
    <3>3. Typing(s, k, "create", k, Put(k), AddBegin(k))
      BY <1>6, <3>2 DEF Typing
    <3>4. QED
      BY <3>1, <3>3, Fields, Zenon
  <2>3. CASE p = Put(k)
    <3>1. Is(p, "put", k, <<>>, <<>>)
      BY <2>3, EndCode
    <3>2. Typing(s, k, "put", k, <<>>, <<>>)
      BY <1>6 DEF Typing
    <3>3. QED
      BY <3>1, <3>2, Fields, Zenon
  <2>4. QED
    BY <2>1, <2>2, <2>3
<1>7. CASE s = "made"
  <2>1. p \in {AddBegin(k), Free(k)}
    BY <1>1, <1>7, Members
  <2>2. CASE p = AddBegin(k)
    <3>1. Is(p, "begin", k, Free(k), AddBody(k))
      BY <2>2, AddCode
    <3>2. Goes(AddBody(k), "closed", k) /\ Goes(Free(k), "made", k)
      BY Members
    <3>3. Typing(s, k, "begin", k, Free(k), AddBody(k))
      BY <1>7, <3>2 DEF Typing
    <3>4. QED
      BY <3>1, <3>3, Fields, Zenon
  <2>3. CASE p = Free(k)
    <3>1. Is(p, "destroy", k, <<>>, Put(k))
      BY <2>3, EndCode
    <3>2. Goes(Put(k), "bare", k)
      BY Members
    <3>3. Typing(s, k, "destroy", k, <<>>, Put(k))
      BY <1>7, <3>2 DEF Typing
    <3>4. QED
      BY <3>1, <3>3, Fields, Zenon
  <2>4. QED
    BY <2>1, <2>2, <2>3
<1>8. CASE s = "found"
  <2>1. p \in {DelWait(k), NdiWait(k)}
    BY <1>1, <1>8, Members
  <2>2. CASE p = DelWait(k)
    <3>1. Is(p, "wait", k, <<>>, DelUnregister(k))
      BY <2>2, DelCode
    <3>2. Goes(DelUnregister(k), "inside", k)
      BY Members
    <3>3. Typing(s, k, "wait", k, <<>>, DelUnregister(k))
      BY <1>8, <3>2 DEF Typing
    <3>4. QED
      BY <3>1, <3>3, Fields, Zenon
  <2>3. CASE p = NdiWait(k)
    <3>1. Is(p, "wait", k, <<>>, NdiUnregister(k))
      BY <2>3, NdiCode
    <3>2. Goes(NdiUnregister(k), "inside", k)
      BY Members
    <3>3. Typing(s, k, "wait", k, <<>>, NdiUnregister(k))
      BY <1>8, <3>2 DEF Typing
    <3>4. QED
      BY <3>1, <3>3, Fields, Zenon
  <2>4. QED
    BY <2>1, <2>2, <2>3
<1>9. CASE s = "inside"
  <2>1. p \in {DelUnregister(k), NdiUnregister(k), UpOpened(k), Stop(k)}
    BY <1>1, <1>9, Members
  <2>2. CASE p = DelUnregister(k)
    <3>1. Is(p, "unregister", k, <<>>, DelDrain(k))
      BY <2>2, DelCode
    <3>2. Goes(DelDrain(k), "unlisted", k)
      BY Members
    <3>3. Typing(s, k, "unregister", k, <<>>, DelDrain(k))
      BY <1>9, <3>2 DEF Typing
    <3>4. QED
      BY <3>1, <3>3, Fields, Zenon
  <2>3. CASE p = NdiUnregister(k)
    <3>1. Is(p, "unregister", k, <<>>, NdiDrain(k))
      BY <2>3, NdiCode
    <3>2. Goes(NdiDrain(k), "unlisted", k)
      BY Members
    <3>3. Typing(s, k, "unregister", k, <<>>, NdiDrain(k))
      BY <1>9, <3>2 DEF Typing
    <3>4. QED
      BY <3>1, <3>3, Fields, Zenon
  <2>4. CASE p = UpOpened(k)
    <3>1. Is(p, "opened", k, <<>>, Stop(k))
      BY <2>4, UseCode
    <3>2. Goes(Stop(k), "inside", k)
      BY Members
    <3>3. Typing(s, k, "opened", k, <<>>, Stop(k))
      BY <1>9, <3>2 DEF Typing
    <3>4. QED
      BY <3>1, <3>3, Fields, Zenon
  <2>5. CASE p = Stop(k)
    <3>1. Is(p, "stop", k, <<>>, <<>>)
      BY <2>5, EndCode
    <3>2. Typing(s, k, "stop", k, <<>>, <<>>)
      BY <1>9 DEF Typing
    <3>3. QED
      BY <3>1, <3>2, Fields, Zenon
  <2>6. QED
    BY <2>1, <2>2, <2>3, <2>4, <2>5
<1>10. CASE s = "unlisted"
  <2>1. p \in {DelDrain(k), NdiDrain(k)}
    BY <1>1, <1>10, Members
  <2>2. CASE p = DelDrain(k)
    <3>1. Is(p, "drain", k, <<>>, StopFree(k))
      BY <2>2, DelCode
    <3>2. Goes(StopFree(k), "closed", k)
      BY Members
    <3>3. Typing(s, k, "drain", k, <<>>, StopFree(k))
      BY <1>10, <3>2 DEF Typing
    <3>4. QED
      BY <3>1, <3>3, Fields, Zenon
  <2>3. CASE p = NdiDrain(k)
    <3>1. Is(p, "drain", k, <<>>, NdiBody(k))
      BY <2>3, NdiCode
    <3>2. Goes(NdiBody(k), "closed", k)
      BY Members
    <3>3. Typing(s, k, "drain", k, <<>>, NdiBody(k))
      BY <1>10, <3>2 DEF Typing
    <3>4. QED
      BY <3>1, <3>3, Fields, Zenon
  <2>4. QED
    BY <2>1, <2>2, <2>3
<1>11. CASE s = "closed"
  <2>1. p \in {AddBody(k), AddRegister(k), NdiBody(k), StopFree(k)}
    BY <1>1, <1>11, Members
  <2>2. CASE p = AddBody(k)
    <3>1. Is(p, "body", k, StopFree(k), AddRegister(k))
      BY <2>2, AddCode
    <3>2. Goes(AddRegister(k), "closed", k) /\ Goes(StopFree(k), "closed", k)
      BY Members
    <3>3. Typing(s, k, "body", k, StopFree(k), AddRegister(k))
      BY <1>11, <3>2 DEF Typing
    <3>4. QED
      BY <3>1, <3>3, Fields, Zenon
  <2>3. CASE p = AddRegister(k)
    <3>1. Is(p, "register", k, <<>>, Stop(k))
      BY <2>3, AddCode
    <3>2. Goes(Stop(k), "inside", k)
      BY Members
    <3>3. Typing(s, k, "register", k, <<>>, Stop(k))
      BY <1>11, <3>2 DEF Typing
    <3>4. QED
      BY <3>1, <3>3, Fields, Zenon
  <2>4. CASE p = NdiBody(k)
    <3>1. Is(p, "body", k, AddRegister(k), StopFree(k))
      BY <2>4, NdiCode
    <3>2. Goes(StopFree(k), "closed", k) /\ Goes(AddRegister(k), "closed", k)
      BY Members
    <3>3. Typing(s, k, "body", k, AddRegister(k), StopFree(k))
      BY <1>11, <3>2 DEF Typing
    <3>4. QED
      BY <3>1, <3>3, Fields, Zenon
  <2>5. CASE p = StopFree(k)
    <3>1. Is(p, "stop", k, <<>>, Free(k))
      BY <2>5, EndCode
    <3>2. Goes(Free(k), "made", k)
      BY Members
    <3>3. Typing(s, k, "stop", k, <<>>, Free(k))
      BY <1>11, <3>2 DEF Typing
    <3>4. QED
      BY <3>1, <3>3, Fields, Zenon
  <2>6. QED
    BY <2>1, <2>2, <2>3, <2>4, <2>5
<1>12. CASE s = "inOp"
  <2>1. p \in {OpLeave(k)}
    BY <1>1, <1>12, Members
  <2>2. CASE p = OpLeave(k)
    <3>1. Is(p, "leaveOp", k, <<>>, <<>>)
      BY <2>2, UseCode
    <3>2. Typing(s, k, "leaveOp", k, <<>>, <<>>)
      BY <1>12 DEF Typing
    <3>3. QED
      BY <3>1, <3>2, Fields, Zenon
  <2>3. QED
    BY <2>1, <2>2
<1>13. CASE s = "devFound"
  <2>1. p \in {SsrWait}
    BY <1>1, <1>13, Members
  <2>2. CASE p = SsrWait
    <3>1. Is(p, "wait", Dev, SsrResume, SsrDrain)
      BY <2>2, DevCode
    <3>2. Goes(SsrDrain, "devIn", Dev) /\ Goes(SsrResume, "devIn", Dev)
      BY Members
    <3>3. Typing(s, k, "wait", Dev, SsrResume, SsrDrain)
      BY <1>13, <3>2 DEF Typing
    <3>4. QED
      BY <3>1, <3>3, Fields, Zenon
  <2>3. QED
    BY <2>1, <2>2
<1>14. CASE s = "devIn"
  <2>1. p \in {SsrDrain, SsrResume, SsrRecovered, SsrReplay, IdleDrain, Stop(Dev)}
    BY <1>1, <1>14, Members
  <2>2. CASE p = SsrDrain
    <3>1. Is(p, "drain", Dev, <<>>, SsrResume)
      BY <2>2, DevCode
    <3>2. Goes(SsrResume, "devIn", Dev)
      BY Members
    <3>3. Typing(s, k, "drain", Dev, <<>>, SsrResume)
      BY <1>14, <3>2 DEF Typing
    <3>4. QED
      BY <3>1, <3>3, Fields, Zenon
  <2>3. CASE p = SsrResume
    <3>1. Is(p, "resume", Dev, <<>>, SsrRecovered)
      BY <2>3, DevCode
    <3>2. Goes(SsrRecovered, "devIn", Dev)
      BY Members
    <3>3. Typing(s, k, "resume", Dev, <<>>, SsrRecovered)
      BY <1>14, <3>2 DEF Typing
    <3>4. QED
      BY <3>1, <3>3, Fields, Zenon
  <2>4. CASE p = SsrRecovered
    <3>1. Is(p, "recovered", Dev, Stop(Dev), SsrReplay)
      BY <2>4, DevCode
    <3>2. Goes(SsrReplay, "devIn", Dev) /\ Goes(Stop(Dev), "devIn", Dev)
      BY Members
    <3>3. Typing(s, k, "recovered", Dev, Stop(Dev), SsrReplay)
      BY <1>14, <3>2 DEF Typing
    <3>4. QED
      BY <3>1, <3>3, Fields, Zenon
  <2>5. CASE p = SsrReplay
    <3>1. Is(p, "replay", Dev, <<>>, Stop(Dev))
      BY <2>5, DevCode
    <3>2. Goes(Stop(Dev), "devIn", Dev)
      BY Members
    <3>3. Typing(s, k, "replay", Dev, <<>>, Stop(Dev))
      BY <1>14, <3>2 DEF Typing
    <3>4. QED
      BY <3>1, <3>3, Fields, Zenon
  <2>6. CASE p = IdleDrain
    <3>1. Is(p, "drain", Dev, <<>>, Stop(Dev))
      BY <2>6, DevCode
    <3>2. Goes(Stop(Dev), "devIn", Dev)
      BY Members
    <3>3. Typing(s, k, "drain", Dev, <<>>, Stop(Dev))
      BY <1>14, <3>2 DEF Typing
    <3>4. QED
      BY <3>1, <3>3, Fields, Zenon
  <2>7. CASE p = Stop(Dev)
    <3>1. Is(p, "stop", Dev, <<>>, <<>>)
      BY <2>7, EndCode
    <3>2. Typing(s, k, "stop", Dev, <<>>, <<>>)
      BY <1>14 DEF Typing
    <3>3. QED
      BY <3>1, <3>2, Fields, Zenon
  <2>8. QED
    BY <2>1, <2>2, <2>3, <2>4, <2>5, <2>6, <2>7
<1>15. QED
  BY <1>2, <1>3, <1>4, <1>5, <1>6, <1>7, <1>8, <1>9, <1>10, <1>11, <1>12, <1>13, <1>14 DEF Situations

-----------------------------------------------------------------------------
(* The flows begin with the code above. *)

\* Chains of calls, nested to the left and to the right.
LEMMA Joined4 ==
  ASSUME NEW a, NEW b, NEW c, NEW d, Program(a), Program(b), Program(c), Program(d)
  PROVE  Program(((a \o b) \o c) \o d) /\ ((a \o b) \o c) \o d = a \o (b \o (c \o d))
<1>1. Program(a \o b) /\ Program(c \o d) /\ Program((a \o b) \o c)
  BY Joined
<1>2. ((a \o b) \o c) \o d = (a \o b) \o (c \o d)
  BY <1>1, Joined
<1>3. (a \o b) \o (c \o d) = a \o (b \o (c \o d))
  BY <1>1, Joined
<1>4. QED
  BY <1>1, <1>2, <1>3, Joined

\* Six programs.
Six(a, b, c, d, e, f) ==
  Program(a) /\ Program(b) /\ Program(c) /\ Program(d) /\ Program(e) /\ Program(f)

\* p and q are the same program.
Same(p, q) == p = q

\* The longest chain of calls in a flow.
LEMMA Joined6 ==
  ASSUME NEW a, NEW b, NEW c, NEW d, NEW e, NEW f, Six(a, b, c, d, e, f)
  PROVE  Same(((((a \o b) \o c) \o d) \o e) \o f, a \o (b \o (c \o (d \o (e \o f)))))
<1> DEFINE x == ((a \o b) \o c) \o d
           y == e \o f
           z == d \o y
<1>0. Program(a) /\ Program(b) /\ Program(c) /\ Program(d) /\ Program(e) /\ Program(f)
  BY DEF Six
<1>1. Program(x) /\ Program((a \o b) \o c)
  BY <1>0, Joined4, Joined
<1>2. Program(y)
  BY <1>0, Joined
<1>3. (x \o e) \o f = x \o y
  <2> HIDE DEF x
  <2> QED
    BY <1>0, <1>1, Joined
<1> HIDE DEF y
<1>4. Program(z)
  BY <1>0, <1>2, Joined
<1>5. x \o y = ((a \o b) \o c) \o z
  BY <1>0, <1>1, <1>2, Joined
<1> HIDE DEF z
<1>6. ((a \o b) \o c) \o z = a \o (b \o (c \o z))
  BY <1>0, <1>4, Joined4
<1>7. QED
  BY <1>3, <1>5, <1>6, Zenon DEF x, y, z, Same

\* Every call is a program.
LEMMA Calls == \A o, k, e : Program(On(<<o>>, k, e))
BY OneCall DEF Is

\* cfg80211 calls.
LEMMA CfgProgram ==
  ASSUME NEW p, Program(p)
  PROVE  Cfg80211(p) = Acquire("rtnl") \o CfgCalled(p)
<1> DEFINE a == Acquire("rtnl")
           c == On(<<"called">>, "cfg80211", <<>>)
<1>1. Program(a) /\ Program(c)
  BY Calls DEF Acquire
<1>2. Cfg80211(p) = (a \o c) \o p
  BY DEF Cfg80211
<1>3. a \o (c \o p) = a \o CfgCalled(p)
  BY DEF CfgCalled
<1> HIDE DEF a, c
<1>4. (a \o c) \o p = a \o (c \o p)
  BY <1>1, Joined
<1>5. QED
  BY <1>2, <1>3, <1>4 DEF a

\* An interface is added ...
LEMMA AddProgram ==
  ASSUME NEW k
  PROVE  Cfg80211(AddIntf(k)) = Acquire("rtnl") \o CfgCalled(AddGet(k))
<1> DEFINE a == On(<<"get">>, k, <<>>)
           b == On(<<"create">>, k, Put(k))
           c == On(<<"begin">>, k, Free(k))
           d == On(<<"body">>, k, StopFree(k))
           e == On(<<"register">>, k, <<>>)
           f == Stop(k)
<1>1. /\ Program(a) /\ Program(b) /\ Program(c) /\ Program(d) /\ Program(e) /\ Program(f)
      /\ Program(AddGet(k))
  BY EndCode, AddCode, Calls DEF Is
<1>2. On(<<"put">>, k, <<>>) \o <<>> = Put(k)
  <2>1. PICK S : Put(k) \in Seq(S)
    BY EndCode DEF Is, Program
  <2>2. QED
    BY <2>1, ConcatEmptySeq DEF Put
<1>3. AddIntf(k) = ((((a \o b) \o c) \o d) \o e) \o f
  BY <1>2, Zenon DEF AddIntf, CreateAndTrans, CreateSync, StopFree
<1>4. AddGet(k) = a \o (b \o (c \o (d \o (e \o f))))
  BY Zenon DEF AddGet, AddCreate, AddBegin, AddBody, AddRegister
<1> HIDE DEF a, b, c, d, e, f
<1>5. Six(a, b, c, d, e, f)
  BY <1>1 DEF Six
<1>6. AddIntf(k) = AddGet(k)
  <2>1. Same(((((a \o b) \o c) \o d) \o e) \o f, a \o (b \o (c \o (d \o (e \o f)))))
    BY <1>5, Joined6
  <2>2. QED
    BY <1>3, <1>4, <2>1, Zenon DEF Same
<1>7. Cfg80211(AddIntf(k)) = Cfg80211(AddGet(k))
  BY <1>6, Zenon
<1>8. QED
  BY <1>1, <1>7, CfgProgram

\* ... and deleted.
LEMMA DelProgram ==
  ASSUME NEW k
  PROVE  Cfg80211(DelIntf(k)) = Acquire("rtnl") \o CfgCalled(DelFind(k))
<1> DEFINE a == On(<<"find">>, k, <<>>)
           b == On(<<"wait">>, k, <<>>)
           c == On(<<"unregister">>, k, <<>>)
           d == On(<<"drain">>, k, <<>>)
           e == Stop(k)
           f == Free(k)
<1>1. /\ Program(a) /\ Program(b) /\ Program(c) /\ Program(d) /\ Program(e) /\ Program(f)
      /\ Program(DelFind(k))
  BY EndCode, DelCode, Calls DEF Is
<1>2. On(<<"find", "wait">>, k, <<>>) = a \o b /\ On(<<"unregister", "drain">>, k, <<>>) = c \o d
  BY OnTwo
<1>3. DelIntf(k) = (((a \o b) \o (c \o d)) \o e) \o f
  BY <1>2, Zenon DEF DelIntf, StartWait, CloseDown
<1>4. DelFind(k) = a \o (b \o (c \o (d \o (e \o f))))
  BY Zenon DEF DelFind, DelWait, DelUnregister, DelDrain, StopFree
<1> HIDE DEF a, b, c, d, e, f
<1>5. Program(a \o b) /\ (a \o b) \o (c \o d) = ((a \o b) \o c) \o d
  BY <1>1, Joined
<1>6. Same(((((a \o b) \o c) \o d) \o e) \o f, a \o (b \o (c \o (d \o (e \o f)))))
  <2>1. Six(a, b, c, d, e, f)
    BY <1>1 DEF Six
  <2>2. QED
    BY <2>1, Joined6
<1>7. DelIntf(k) = DelFind(k)
  BY <1>3, <1>4, <1>5, <1>6, Zenon DEF Same
<1>8. Cfg80211(DelIntf(k)) = Cfg80211(DelFind(k))
  BY <1>7, Zenon
<1>9. QED
  BY <1>1, <1>8, CfgProgram

\* So is a NAN data interface.
LEMMA NdiProgram ==
  ASSUME NEW k
  PROVE  Cfg80211(NdiDelete(k)) = Acquire("rtnl") \o CfgCalled(NdiFind(k))
<1> DEFINE a == On(<<"find">>, k, <<>>)
           b == On(<<"wait">>, k, <<>>)
           c == On(<<"unregister">>, k, <<>>)
           d == On(<<"drain">>, k, <<>>)
           g == On(<<"body">>, k, AddRegister(k))
           e == Stop(k)
           f == Free(k)
<1>1. /\ Program(a) /\ Program(b) /\ Program(c) /\ Program(d) /\ Program(e) /\ Program(f)
      /\ Program(g) /\ Program(NdiFind(k)) /\ Program(StopFree(k))
  BY EndCode, NdiCode, Calls DEF Is
<1>2. On(<<"find", "wait">>, k, <<>>) = a \o b /\ On(<<"unregister", "drain">>, k, <<>>) = c \o d
  BY OnTwo
<1>3. NdiDelete(k) = ((((a \o b) \o (c \o d)) \o g) \o e) \o f
  BY <1>2, Zenon DEF NdiDelete, StartWait, CloseDown, AddRegister
<1>4. NdiFind(k) = a \o (b \o (c \o (d \o (g \o (e \o f)))))
  BY Zenon DEF NdiFind, NdiWait, NdiUnregister, NdiDrain, NdiBody, StopFree
<1>5. StopFree(k) = e \o f
  BY DEF StopFree
<1> HIDE DEF a, b, c, d, e, f, g
<1> DEFINE h == e \o f
           x == ((a \o b) \o c) \o d
<1>6. Program(a \o b) /\ (a \o b) \o (c \o d) = ((a \o b) \o c) \o d
  BY <1>1, Joined
<1>7. Program(x)
  BY <1>1, Joined4
<1> HIDE DEF x
<1>8. Program(x \o g) /\ Program(h)
  BY <1>1, <1>7, Joined
<1>9. ((x \o g) \o e) \o f = (x \o g) \o h
  BY <1>1, <1>8, Joined
<1> HIDE DEF h
<1>10. Same(((((a \o b) \o c) \o d) \o g) \o h, a \o (b \o (c \o (d \o (g \o h)))))
  <2>1. Six(a, b, c, d, g, h)
    BY <1>1, <1>8 DEF Six
  <2>2. QED
    BY <2>1, Joined6
<1>11. NdiDelete(k) = NdiFind(k)
  BY <1>3, <1>4, <1>6, <1>9, <1>10, Zenon DEF x, h, Same
<1>12. Cfg80211(NdiDelete(k)) = Cfg80211(NdiFind(k))
  BY <1>11, Zenon
<1>13. QED
  BY <1>1, <1>12, CfgProgram

\* Interfaces go up and down, and are used.
LEMMA UseProgram ==
  ASSUME NEW k
  PROVE  /\ IfUp(k) = UpEnter(k)
         /\ IfDown(k) = DownEnter(k)
         /\ Operation(k) = OpEnter(k)
<1> DEFINE a == On(<<"enter">>, k, <<>>)
           b == On(<<"opened">>, k, <<>>)
           c == Stop(k)
<1>1. Program(a) /\ Program(b) /\ Program(c)
  BY EndCode, Calls DEF Is
<1>2. On(<<"enter", "opened">>, k, <<>>) = a \o b
  BY OnTwo
<1>3. IfUp(k) = (a \o b) \o c
  BY <1>2, Zenon DEF IfUp
<1>4. UpEnter(k) = a \o (b \o c)
  BY DEF UpEnter, UpOpened
<1> HIDE DEF a, b, c
<1>5. (a \o b) \o c = a \o (b \o c)
  BY <1>1, Joined
<1>6. IfDown(k) = DownEnter(k)
  BY DEF IfDown, DownEnter, DownRefused
<1>7. Operation(k) = OpEnter(k)
  BY OnTwo DEF Operation, OpEnter, OpLeave
<1>8. QED
  BY <1>3, <1>4, <1>5, <1>6, <1>7

\* The SoC is shut down when idle, and recovered.
LEMMA DevProgram ==
  /\ IdleShutdown = IdleEnter
  /\ Platform(Recovery) = Acquire("platform") \o SsrCalled
<1> DEFINE a == On(<<"enter">>, Dev, <<>>)
           b == On(<<"drain">>, Dev, <<>>)
           c == Stop(Dev)
<1>1. Program(a) /\ Program(b) /\ Program(c)
  BY EndCode, Calls DEF Is
<1>2. IdleShutdown = (a \o b) \o c /\ IdleEnter = a \o (b \o c)
  BY OnTwo, Zenon DEF IdleShutdown, IdleEnter, IdleDrain
<1> HIDE DEF a, c
<1>3. IdleShutdown = IdleEnter
  <2> HIDE DEF b
  <2> QED
    BY <1>1, <1>2, Joined
<1> DEFINE r == On(<<"resume">>, Dev, <<>>)
           v == On(<<"recovered">>, Dev, Stop(Dev))
           p == On(<<"replay">>, Dev, <<>>)
<1>4. Program(r) /\ Program(v) /\ Program(p)
  BY Calls
<1>5. Reinit = ((r \o v) \o p) \o c /\ SsrResume = r \o (v \o (p \o c))
  BY Zenon DEF Reinit, SsrResume, SsrRecovered, SsrReplay, c
<1>6. Reinit = SsrResume
  <2> HIDE DEF r, v, p
  <2> QED
    BY <1>1, <1>4, <1>5, Joined4
<1> HIDE DEF r, v, p
<1> DEFINE s == On(<<"set">>, "recovering", <<>>)
           h == On(<<"shutdown">>, Dev, SsrResume)
           f == On(<<"find">>, Dev, SsrResume)
           w == On(<<"wait">>, Dev, SsrResume)
           z == SsrResume
<1>7. Program(s) /\ Program(h) /\ Program(f) /\ Program(w) /\ Program(z)
  BY Calls, DevCode DEF Is
<1>8. On(<<"find", "wait">>, Dev, SsrResume) = f \o w
  BY OnTwo
<1>9. Recovery = (((s \o h) \o (f \o w)) \o b) \o z
  BY <1>6, <1>8, Zenon DEF Recovery, StartWait
<1>10. SsrSet = s \o (h \o (f \o (w \o (b \o z))))
  BY Zenon DEF SsrSet, SsrShutdown, SsrFind, SsrWait, SsrDrain
<1> HIDE DEF b, s, h, f, w, z
<1>11. Program(s \o h) /\ (s \o h) \o (f \o w) = ((s \o h) \o f) \o w
  BY <1>7, Joined
<1>12. Same(((((s \o h) \o f) \o w) \o b) \o z, s \o (h \o (f \o (w \o (b \o z)))))
  <2>1. Six(s, h, f, w, b, z)
    BY <1>1, <1>7 DEF Six
  <2>2. QED
    BY <2>1, Joined6
<1>13. Recovery = SsrSet
  BY <1>9, <1>10, <1>11, <1>12, Zenon DEF Same
<1> DEFINE l == Acquire("platform")
           d == On(<<"called">>, "platform", <<>>)
           m == SsrSet
<1>14. Platform(Recovery) = (l \o d) \o m /\ l \o (d \o m) = Acquire("platform") \o SsrCalled
  BY <1>13, Zenon DEF Platform, SsrCalled
<1>15. Program(l) /\ Program(d) /\ Program(m)
  BY Calls, DevCode DEF Is, Acquire
<1> HIDE DEF l, d, m
<1>16. (l \o d) \o m = l \o (d \o m)
  BY <1>15, Joined
<1>17. QED
  BY <1>3, <1>14, <1>16

\* A flow begins idle, or about to take the rtnl lock.
LEMMA ProgramsTyped ==
  ASSUME OnlyInterfaces, NEW f \in Flows, NEW p \in Programs[f]
  PROVE  \/ \E k \in Keys : Goes(p, "idle", k)
         \/ \E k \in NetDevs : Goes(p, "start", k)
<1>1. f \in InterfaceFlows
  BY DEF OnlyInterfaces
<1>2. CASE f = "add"
  <2>1. PICK k \in NetDevs : p = Cfg80211(AddIntf(k))
    BY <1>2 DEF Programs
  <2>2. QED
    BY <2>1, AddProgram, Members
<1>3. CASE f = "del"
  <2>1. PICK k \in NetDevs : p = Cfg80211(DelIntf(k))
    BY <1>3 DEF Programs
  <2>2. QED
    BY <2>1, DelProgram, Members
<1>4. CASE f = "ndiDel"
  <2>1. PICK k \in NetDevs : p = Cfg80211(NdiDelete(k))
    BY <1>4 DEF Programs
  <2>2. QED
    BY <2>1, NdiProgram, Members
<1>5. CASE f = "up"
  <2>1. PICK k \in NetDevs : p = Acquire("rtnl") \o IfUp(k)
    BY <1>5 DEF Programs
  <2>2. p = Acquire("rtnl") \o UpEnter(k)
    BY <2>1, UseProgram, Zenon
  <2>3. QED
    BY <2>2, Members
<1>6. CASE f = "down"
  <2>1. PICK k \in NetDevs : p = Acquire("rtnl") \o IfDown(k)
    BY <1>6 DEF Programs
  <2>2. p = Acquire("rtnl") \o DownEnter(k)
    BY <2>1, UseProgram, Zenon
  <2>3. QED
    BY <2>2, Members
<1>7. CASE f \in {"op", "globalOp"}
  <2>1. PICK k \in Keys : p = Operation(k)
    BY <1>7 DEF Programs, Keys
  <2>2. QED
    BY <2>1, UseProgram, Members
<1>8. CASE f = "idle"
  <2>1. p = IdleEnter
    BY <1>8, DevProgram DEF Programs
  <2>2. QED
    BY <2>1, Members DEF Keys
<1>9. CASE f = "ssr"
  <2>1. p = Acquire("platform") \o SsrCalled
    BY <1>9, DevProgram DEF Programs
  <2>2. QED
    BY <2>1, Members DEF Keys
<1>10. QED
  BY <1>1, <1>2, <1>3, <1>4, <1>5, <1>6, <1>7, <1>8, <1>9 DEF InterfaceFlows

-----------------------------------------------------------------------------
(* Keys, entries and contexts. *)

\* The keys of the three tables, and what the tables hold.
LEMMA KeyFacts ==
  /\ None \notin Keys /\ None \notin Node
  /\ Dev \in Keys /\ Dev \notin NetDevs /\ Dev \notin Node
  /\ Driver \in Node /\ Driver \notin NetDevs /\ Driver # Dev
  /\ Vdevs \subseteq Node /\ Psocs \subseteq Node /\ Driver \notin Vdevs /\ Psocs \cap Vdevs = {}
  /\ NetDevs \subseteq Keys
  /\ Table(Dev) = Psocs /\ \A k \in NetDevs : Table(k) = Vdevs
BY TreeAssumption, KeyAssumption DEF Keys, Node, Table

\* What a key leads to.
LEMMA Leads ==
  ASSUME HddInv, OnlyInterfaces, NEW k \in Keys, NEW n \in Lookup(k)
  PROVE  /\ n \in inUse /\ n \in Node /\ n \in attached /\ key[n] = k /\ k # None
         /\ n \in Table(k)
         /\ \A m \in Lookup(k) : m = n
<1>1. \A m \in Lookup(k) : m \in inUse /\ m \in Node /\ key[m] = k
  BY DEF Lookup, HddInv, HddTypeOK, SyncTypeOK
<1>2. k # None
  BY KeyFacts
<1>3. n \in attached
  BY <1>1, <1>2 DEF HddInv, EntryShape
<1>4. \A m \in Lookup(k) : m \in Table(k)
  <2> SUFFICES ASSUME NEW m \in Lookup(k) PROVE m \in Table(k)
    OBVIOUS
  <2>1. CASE m \in Vdevs
    <3>1. k \in NetDevs
      BY <1>1, <1>2, <2>1 DEF HddInv, EntryShape
    <3>2. QED
      BY <2>1, <3>1, KeyFacts
  <2>2. CASE m \notin Vdevs
    <3>1. k = IF m = Driver THEN Driver ELSE Dev
      BY <1>1, <2>2 DEF HddInv, EntryShape
    <3>2. QED
      BY <1>1, <2>2, <3>1, KeyFacts DEF Node, Table
  <2>3. QED
    BY <2>1, <2>2
<1>5. \A m \in Lookup(k) : m = n
  <2> SUFFICES ASSUME NEW m \in Lookup(k) PROVE m = n
    OBVIOUS
  <2>1. CASE k = Driver \/ k = Dev
    BY <1>4, <2>1 DEF Table, OnlyInterfaces
  <2>2. CASE k \in NetDevs
    BY <1>1, <1>2, <1>4, <2>2, KeyFacts DEF HddInv, EntryShape
  <2>3. QED
    BY <2>1, <2>2 DEF Keys
<1>6. QED
  BY <1>1, <1>2, <1>3, <1>4, <1>5

\* Only an idle thread has no program.
LEMMA Ended ==
  ASSUME NEW s \in Situations, NEW k, <<>> \in Code(s, k)
  PROVE  s = "idle"
<1> SUFFICES ASSUME s # "idle" PROVE FALSE
  OBVIOUS
<1>1. Goes(<<>>, s, k)
  BY Members DEF Situations, Code
<1>2. QED
  BY <1>1 DEF Goes

\* Where a thread that makes a call stands, and where the call leads.
LEMMA Calling ==
  ASSUME HddInv, NEW t \in Threads, prog[t] # <<>>
  PROVE  \E s \in Situations, k \in Keys :
           /\ Place(t, s, k) /\ Standing(t, s, k)
           /\ Typing(s, k, Head(prog[t]).op, Key(t), Err(t), Rest(t))
<1>1. PICK s \in Situations, k \in Keys : Place(t, s, k)
  BY DEF HddInv
<1>2. prog[t] \in Code(s, k) /\ Standing(t, s, k)
  BY <1>1 DEF Place
<1>3. Typing(s, k, Head(prog[t]).op, Head(prog[t]).key, Head(prog[t]).err, Tail(prog[t]))
  BY <1>2, CodeAt
<1>4. QED
  BY <1>1, <1>2, <1>3 DEF Key, Err, Rest

\* A thread at a call stands where that call is made.
LEMMA CallingAt ==
  ASSUME HddInv, NEW t \in Threads, NEW call, At(t, call)
  PROVE  /\ pc[t] \notin {"tranWait", "walk", "opsWait"}
         /\ \E s \in Situations, k \in Keys :
              /\ Place(t, s, k) /\ Standing(t, s, k)
              /\ Typing(s, k, call, Key(t), Err(t), Rest(t))
<1>1. prog[t] # <<>> /\ Head(prog[t]).op = call /\ pc[t] \notin {"tranWait", "walk", "opsWait"}
  BY DEF At
<1>2. PICK s \in Situations, k \in Keys :
        /\ Place(t, s, k) /\ Standing(t, s, k)
        /\ Typing(s, k, Head(prog[t]).op, Key(t), Err(t), Rest(t))
  BY <1>1, Calling
<1>3. Typing(s, k, call, Key(t), Err(t), Rest(t))
  BY <1>1, <1>2, Zenon
<1>4. QED
  BY <1>1, <1>2, <1>3

-----------------------------------------------------------------------------
(* What a step of one thread leaves alone. *)

\* Program, contexts and locks change for t alone, and keep their types.
Flow(t) ==
  /\ DOMAIN prog' = Threads
  /\ ctx' \in [Threads -> [Keys -> Node \cup {None}]]
  /\ \A k \in Keys : ctx'[t][k] \in Table(k) \cup {None}
  /\ lock' \in [Locks -> Threads \cup {None}]
  /\ hooks' = hooks
  /\ \A u \in Threads \ {t} :
       prog'[u] = prog[u] /\ ctx'[u] = ctx[u] /\ (lock'["rtnl"] = u <=> lock["rtnl"] = u)

\* Sections, tables and the tree: without the rtnl lock t does not touch the
\* entries, and comes to registered nodes and nodes in use only.
Data(t) ==
  /\ \A u \in Threads \ {t} :
       /\ at'[u] = at[u] /\ cur'[u] = cur[u]
       /\ pc'[u] = pc[u] \/ (pc[u] = "walk" /\ pc'[u] = "quiet")
  /\ \A n \in Node \ Vdevs : (n \in inUse' <=> n \in inUse) /\ key'[n] = key[n]
  /\ lock["rtnl"] # t =>
       /\ UNCHANGED <<inUse, key, attached>>
       /\ at'[t] \in {at[t], None} \/ key[at'[t]] # None
       /\ cur'[t] \in {cur[t], None} \/ ops[cur'[t]] > 0

\* A flow goes on with p ...
LEMMA FlowOn ==
  ASSUME HddInv, NEW t \in Threads, NEW p, NEW c \in [Keys -> Node \cup {None}],
         \A k \in Keys : c[k] \in Table(k) \cup {None}, p # <<>>, Continue(t, p, c)
  PROVE  Flow(t) /\ prog'[t] = p /\ ctx'[t] = c /\ lock' = lock
<1>1. /\ DOMAIN prog = Threads /\ prog' = [prog EXCEPT ![t] = p]
      /\ ctx \in [Threads -> [Keys -> Node \cup {None}]] /\ ctx' = [ctx EXCEPT ![t] = c]
      /\ lock \in [Locks -> Threads \cup {None}] /\ lock' = lock /\ hooks' = hooks
  BY DEF Continue, Proceed, HddInv, HddTypeOK
<1>2. QED
  BY <1>1 DEF Flow

\* ... or comes to its end.
LEMMA FlowEnd ==
  ASSUME HddInv, NEW t \in Threads, NEW p, NEW c, p = <<>>, Continue(t, p, c)
  PROVE  Flow(t) /\ prog'[t] = <<>> /\ ctx'[t] = NoContext /\ lock'["rtnl"] # t
<1>1. /\ DOMAIN prog = Threads /\ prog' = [prog EXCEPT ![t] = <<>>]
      /\ ctx \in [Threads -> [Keys -> Node \cup {None}]] /\ ctx' = [ctx EXCEPT ![t] = NoContext]
      /\ lock \in [Locks -> Threads \cup {None}] /\ hooks' = hooks
      /\ lock' = [l \in Locks |-> IF lock[l] = t THEN None ELSE lock[l]]
  BY DEF Continue, Proceed, HddInv, HddTypeOK, NoContext
<1>2. NoContext \in [Keys -> Node \cup {None}] /\ \A k \in Keys : NoContext[k] = None
  BY DEF NoContext
<1>3. /\ ctx' \in [Threads -> [Keys -> Node \cup {None}]] /\ ctx'[t] = NoContext
      /\ \A u \in Threads \ {t} : ctx'[u] = ctx[u]
  BY <1>1, <1>2
<1>4. "rtnl" \in Locks /\ None \notin Threads
  BY TreeAssumption DEF Locks
<1>5. /\ lock' \in [Locks -> Threads \cup {None}] /\ lock'["rtnl"] # t
      /\ \A u \in Threads \ {t} : lock'["rtnl"] = u <=> lock["rtnl"] = u
  BY <1>1, <1>4
<1>6. /\ DOMAIN prog' = Threads /\ prog'[t] = <<>>
      /\ \A u \in Threads \ {t} : prog'[u] = prog[u]
  BY <1>1
<1>7. \A k \in Keys : ctx'[t][k] \in Table(k) \cup {None}
  BY <1>2, <1>3
<1>8. QED
  BY <1>1, <1>3, <1>5, <1>6, <1>7 DEF Flow

\* The contexts of a thread have the types that the lemmas above ask for.
LEMMA OwnContexts ==
  ASSUME HddInv, NEW t \in Threads
  PROVE  /\ ctx[t] \in [Keys -> Node \cup {None}]
         /\ \A k \in Keys : ctx[t][k] \in Table(k) \cup {None}
         /\ \A n \in Node : Key(t) \in Keys /\ n \in Table(Key(t)) =>
              /\ With(t, n) \in [Keys -> Node \cup {None}]
              /\ With(t, n)[Key(t)] = n
              /\ \A k \in Keys : /\ With(t, n)[k] \in Table(k) \cup {None}
                                 /\ k # Key(t) => With(t, n)[k] = ctx[t][k]
<1>1. ctx[t] \in [Keys -> Node \cup {None}] /\ \A k \in Keys : ctx[t][k] \in Table(k) \cup {None}
  BY DEF HddInv, HddTypeOK
<1>2. QED
  BY <1>1 DEF With

\* A flow that goes on with the contexts it has.
LEMMA FlowRest ==
  ASSUME HddInv, NEW t \in Threads, NEW p, p # <<>>, Continue(t, p, ctx[t])
  PROVE  Flow(t) /\ prog'[t] = p /\ ctx'[t] = ctx[t] /\ lock' = lock
BY OwnContexts, FlowOn

\* A step that is no step of the flow.
LEMMA FlowStay ==
  ASSUME HddInv, NEW t \in Threads, UNCHANGED flowVars
  PROVE  Flow(t)
BY OwnContexts DEF Flow, flowVars, HddInv, HddTypeOK

\* No operation is in flight on a node that nobody is at.
LEMMA NobodyOps ==
  ASSUME HddInv, NEW n \in Node, \A u \in Threads : at[u] # n
  PROVE  ops[n] = 0
<1>1. OpsAt(n) = {}
  BY DEF OpsAt
<1>2. ops[n] = Cardinality(OpsAt(n))
  BY DEF HddInv, IInv, OpsCounted
<1>3. QED
  BY <1>1, <1>2, FS_EmptySet

\* Nobody comes to an entry that a flow has hidden.
LEMMA StaysAway ==
  ASSUME HddInv, NEW t \in Threads, Flow(t), Data(t), lock["rtnl"] # t,
         NEW n \in Node, key[n] = None, NEW u \in Threads
  PROVE  /\ at'[u] = n => at[u] = n
         /\ (\A w \in Threads : at[w] # n) => (cur'[u] = n => cur[u] = n)
<1>1. CASE u # t
  BY <1>1 DEF Data
<1>2. CASE u = t
  <2>1. n # None
    BY KeyFacts
  <2>2. at'[u] = n => at[u] = n
    BY <1>2, <2>1 DEF Data
  <2>3. ASSUME \A w \in Threads : at[w] # n, cur'[u] = n, cur[u] # n
        PROVE  FALSE
    <3>1. ops[n] > 0
      BY <1>2, <2>1, <2>3 DEF Data
    <3>2. ops[n] = 0
      BY <2>3, NobodyOps
    <3>3. QED
      BY <3>1, <3>2
  <2>4. QED
    BY <2>2, <2>3
<1>3. QED
  BY <1>1, <1>2

\* The other threads stay where they are.
LEMMA Others ==
  ASSUME HddInv, OnlyInterfaces, NEW t \in Threads, Flow(t), Data(t), NEW u \in Threads, u # t,
         NEW s \in Situations, NEW k \in Keys, Place(u, s, k)
  PROVE  Place(u, s, k)'
<1>1. prog[u] \in Code(s, k) /\ Standing(u, s, k)
  BY DEF Place
<1>2. prog'[u] = prog[u] /\ ctx'[u] = ctx[u] /\ (lock'["rtnl"] = u <=> lock["rtnl"] = u)
  BY DEF Flow
<1>3. at'[u] = at[u] /\ (pc'[u] = pc[u] \/ (pc[u] = "walk" /\ pc'[u] = "quiet"))
  BY DEF Data
<1>4. pc[u] \in InTrans => pc'[u] \in InTrans
  BY <1>3 DEF InTrans
<1>5. pc[u] \in {"idle", "tranWait", "op"} => pc'[u] = pc[u]
  BY <1>3
<1>a. pc'[u] = "trans" => pc[u] = "trans"
  BY <1>3
<1>6. ASSUME lock["rtnl"] = u
      PROVE  /\ lock["rtnl"] # t /\ UNCHANGED <<inUse, key, attached>>
             /\ \A j : Lookup(j)' = Lookup(j)
  <2>1. lock["rtnl"] # t
    BY <1>6
  <2>2. UNCHANGED <<inUse, key, attached>>
    BY <2>1 DEF Data
  <2>3. QED
    BY <2>1, <2>2 DEF Lookup
<1>7. ASSUME HasRtnl(u, k)
      PROVE  HasRtnl(u, k)'
  BY <1>2, <1>7 DEF HasRtnl
<1>8. ASSUME Hidden(u, k)
      PROVE  Hidden(u, k)' /\ lock["rtnl"] = u /\ key[ctx[u][k]] = None /\ ctx[u][k] \in Node
  <2>1. HasRtnl(u, k) /\ ctx[u][k] \in inUse /\ key[ctx[u][k]] = None /\ Lookup(k) = {}
    BY <1>8 DEF Hidden
  <2>2. lock["rtnl"] = u
    BY <2>1 DEF HasRtnl
  <2>3. inUse' = inUse /\ key' = key /\ Lookup(k)' = Lookup(k)
    BY <2>2, <1>6
  <2>4. HasRtnl(u, k)'
    BY <2>1, <1>7
  <2>5. Hidden(u, k)'
    BY <2>1, <2>3, <2>4, <1>2 DEF Hidden
  <2>6. ctx[u][k] \in Node
    BY <2>1 DEF HddInv, HddTypeOK, SyncTypeOK
  <2>7. QED
    BY <2>1, <2>2, <2>5, <2>6
<1>9. ASSUME HasRtnl(u, k), NEW n \in Lookup(k)
      PROVE  n \in Lookup(k)'
  <2>1. lock["rtnl"] = u
    BY <1>9 DEF HasRtnl
  <2>2. QED
    BY <2>1, <1>6, <1>9
<1>10. Standing(u, s, k)'
  <2>1. CASE s = "idle"
    BY <2>1, <1>1, <1>2, <1>5 DEF Standing
  <2>2. CASE s = "start"
    BY <2>2, <1>1, <1>2, <1>5 DEF Standing
  <2>3. CASE s = "locked"
    BY <2>3, <1>1, <1>2, <1>5, <1>7 DEF Standing
  <2>4. CASE s = "refused"
    BY <2>4, <1>1, <1>2, <1>5, <1>7, <1>9 DEF Standing
  <2>5. CASE s = "bare"
    <3>1. pc[u] = "idle" /\ Hidden(u, k) /\ ctx[u][k] \notin attached
      BY <2>5, <1>1 DEF Standing
    <3>2. Hidden(u, k)' /\ attached' = attached
      BY <3>1, <1>6, <1>8
    <3>3. QED
      BY <2>5, <3>1, <3>2, <1>2, <1>5 DEF Standing
  <2>6. CASE s = "made"
    <3> DEFINE n == ctx[u][k]
    <3>1. pc[u] = "idle" /\ Hidden(u, k) /\ n \in attached /\ Nobody(n)
      BY <2>6, <1>1 DEF Standing
    <3>2. Hidden(u, k)' /\ attached' = attached /\ lock["rtnl"] # t /\ key[n] = None /\ n \in Node
      BY <3>1, <1>6, <1>8
    <3>3. \A w \in Threads : at'[w] # n /\ cur'[w] # n
      BY <3>1, <3>2, StaysAway DEF Nobody
    <3>4. ctx'[u][k] = n
      BY <1>2
    <3>5. QED
      BY <2>6, <3>1, <3>2, <3>3, <3>4, <1>5 DEF Standing, Nobody
  <2>7. CASE s = "found"
    BY <2>7, <1>1, <1>2, <1>3, <1>5, <1>7, <1>9 DEF Standing
  <2>8. CASE s = "inside"
    BY <2>8, <1>1, <1>2, <1>3, <1>4, <1>7, <1>9 DEF Standing
  <2>9. CASE s = "unlisted"
    BY <2>9, <1>1, <1>2, <1>3, <1>4, <1>8 DEF Standing
  <2>10. CASE s = "closed"
    <3> DEFINE n == ctx[u][k]
    <3>1. pc[u] \in InTrans /\ at[u] = n /\ Hidden(u, k) /\ (pc[u] = "trans" => Alone(u, n))
      BY <2>10, <1>1 DEF Standing
    <3>2. Hidden(u, k)' /\ lock["rtnl"] # t /\ key[n] = None /\ n \in Node
      BY <3>1, <1>6, <1>8
    <3>3. ctx'[u][k] = n
      BY <1>2
    <3>4. pc'[u] = "trans" => \A w \in Threads : w # u => at'[w] # n
      BY <3>1, <3>2, <1>a, StaysAway DEF Alone
    <3>5. QED
      BY <2>10, <3>1, <3>2, <3>3, <3>4, <1>3, <1>4 DEF Standing, Alone
  <2>11. CASE s = "inOp"
    BY <2>11, <1>1, <1>2, <1>5 DEF Standing
  <2>12. CASE s = "devFound"
    <3> DEFINE n == ctx[u][k]
    <3>1. k = Dev /\ n \in Lookup(Dev)
      BY <2>12, <1>1 DEF Standing
    <3>2. n \in inUse /\ key[n] = Dev /\ n \in Node \ Vdevs
      BY <3>1, Leads, KeyFacts
    <3>3. n \in inUse' /\ key'[n] = Dev
      BY <3>2 DEF Data
    <3>4. n \in Lookup(Dev)'
      BY <3>3 DEF Lookup
    <3>5. QED
      BY <2>12, <3>4, <1>1, <1>2, <1>3, <1>5 DEF Standing
  <2>13. CASE s = "devIn"
    BY <2>13, <1>1, <1>2, <1>3, <1>4, <1>5 DEF Standing
  <2>14. QED
    BY <2>1, <2>2, <2>3, <2>4, <2>5, <2>6, <2>7, <2>8, <2>9, <2>10, <2>11, <2>12, <2>13 DEF Situations
<1>11. QED
  BY <1>1, <1>2, <1>10 DEF Place

\* Entries that stay hidden stay held.
LEMMA HeldKept ==
  ASSUME HddInv, NEW t \in Threads, Flow(t), UNCHANGED <<inUse, key>>,
         \/ lock["rtnl"] # t
         \/ lock'["rtnl"] = t /\ ctx'[t] = ctx[t]
         \/ \A k \in NetDevs : ctx[t][k] \in inUse => key[ctx[t][k]] # None
  PROVE  Held'
<1> SUFFICES ASSUME NEW n \in inUse, key[n] = None
             PROVE  \E u \in Threads, k \in NetDevs : lock'["rtnl"] = u /\ ctx'[u][k] = n
  BY DEF Held
<1>1. PICK u \in Threads, k \in NetDevs : lock["rtnl"] = u /\ ctx[u][k] = n
  BY DEF HddInv, Held
<1>2. CASE u # t
  BY <1>1, <1>2 DEF Flow
<1>3. CASE u = t
  BY <1>1, <1>3
<1>4. QED
  BY <1>2, <1>3

\* The tables are as before.
LEMMA ShapeKept ==
  ASSUME HddInv, UNCHANGED <<inUse, key, attached>>, cached' \in [Vdevs -> Commands]
  PROVE  EntryShape' /\ SyncTypeOK'
BY DEF HddInv, HddTypeOK, SyncTypeOK, EntryShape

\* What a step must show.
LEMMA Conclude ==
  ASSUME HddInv, OnlyInterfaces, [Next]_vars, NEW t \in Threads, Flow(t), Data(t),
         SyncTypeOK', EntryShape', Held', "unloading" \notin cds',
         \A u \in Threads : tran'[u] # "aborted",
         NEW s \in Situations, NEW k \in Keys, Place(t, s, k)'
  PROVE  HddInv'
<1>1. IInv'
  BY NextIInv DEF HddInv
<1>2. HddTypeOK'
  BY <1>1 DEF HddTypeOK, IInv, Flow, HddInv
<1>3. \A u \in Threads, j \in Keys : ctx'[u][j] \in Table(j) \cup {None}
  BY DEF Flow, HddInv
<1>4. \A u \in Threads : \E r \in Situations, j \in Keys : Place(u, r, j)'
  <2> SUFFICES ASSUME NEW u \in Threads PROVE \E r \in Situations, j \in Keys : Place(u, r, j)'
    OBVIOUS
  <2>1. CASE u = t
    BY <2>1
  <2>2. CASE u # t
    <3>1. PICK r \in Situations, j \in Keys : Place(u, r, j)
      BY DEF HddInv
    <3>2. Place(u, r, j)'
      BY <2>2, <3>1, Others
    <3>3. QED
      BY <3>2
  <2>3. QED
    BY <2>1, <2>2
<1>5. DOMAIN prog' = Threads
  BY DEF Flow
<1>6. QED
  BY <1>1, <1>2, <1>3, <1>4, <1>5 DEF HddInv

\* The end of a flow.
LEMMA Over ==
  ASSUME NEW t \in Threads, NEW k, prog'[t] = <<>>, ctx'[t] = NoContext, lock'["rtnl"] # t,
         pc'[t] = "idle"
  PROVE  Place(t, "idle", k)'
BY DEF Place, Code, Standing

-----------------------------------------------------------------------------
(* The steps that leave DSC alone. *)

\* The thread stands where it stood.
LEMMA Stays ==
  ASSUME NEW t \in Threads, NEW s, NEW k, s \in Situations, Standing(t, s, k),
         UNCHANGED <<pc, at, cur, attached, inUse, key>>,
         ctx'[t] = ctx[t], lock'["rtnl"] = lock["rtnl"]
  PROVE  Standing(t, s, k)'
<1>1. Lookup(k)' = Lookup(k) /\ Lookup(Dev)' = Lookup(Dev)
  BY DEF Lookup
<1>2. (HasRtnl(t, k) <=> HasRtnl(t, k)') /\ (Hidden(t, k) <=> Hidden(t, k)')
  BY <1>1 DEF HasRtnl, Hidden
<1>3. \A n : (Alone(t, n) <=> Alone(t, n)') /\ (Nobody(n) <=> Nobody(n)')
  BY DEF Alone, Nobody
<1>4. QED
  BY <1>1, <1>2, <1>3 DEF Standing, Situations

\* It goes on with p.
LEMMA GoesOn ==
  ASSUME NEW t \in Threads, NEW s, NEW k, NEW p, Goes(p, s, k), prog'[t] = p, Standing(t, s, k)'
  PROVE  Place(t, s, k)'
BY DEF Goes, Place

\* Nothing changes but what a flow has left to do and what it knows.
LEMMA FlowOnly ==
  ASSUME HddInv, OnlyInterfaces, NEW t \in Threads, Flow(t), UNCHANGED vars,
         UNCHANGED <<inUse, key>>, cached' \in [Vdevs -> Commands],
         \/ lock["rtnl"] # t
         \/ lock'["rtnl"] = t /\ ctx'[t] = ctx[t]
         \/ \A k \in NetDevs : ctx[t][k] \in inUse => key[ctx[t][k]] # None,
         NEW s \in Situations, NEW k \in Keys, Place(t, s, k)'
  PROVE  [Next]_vars /\ HddInv'
<1>1. UNCHANGED <<attached, active, queue, tran, ops, opsEvent, cds, pc, at, cur, todo>>
  BY DEF vars, treeVars
<1>2. Data(t)
  BY <1>1 DEF Data
<1>3. EntryShape' /\ SyncTypeOK'
  BY <1>1, ShapeKept
<1>4. Held'
  BY HeldKept
<1>5. "unloading" \notin cds' /\ \A u \in Threads : tran'[u] # "aborted"
  BY <1>1 DEF HddInv
<1>6. HddInv'
  BY <1>2, <1>3, <1>4, <1>5, Conclude
<1>7. QED
  BY <1>6

\* Nothing hidden is left behind by a thread that knows of no entry, or of a
\* registered one.
LEMMA NoneHidden ==
  ASSUME HddInv, OnlyInterfaces, NEW t \in Threads, NEW k \in Keys,
         \/ ctx[t] = NoContext
         \/ HasRtnl(t, k) /\ (ctx[t][k] = None \/ ctx[t][k] \in Lookup(k))
  PROVE  \A j \in NetDevs : ctx[t][j] \in inUse => key[ctx[t][j]] # None
<1> SUFFICES ASSUME NEW j \in NetDevs, ctx[t][j] \in inUse
             PROVE  key[ctx[t][j]] # None
  OBVIOUS
<1>1. ctx[t][j] # None /\ j \in Keys
  BY KeyFacts DEF HddInv, HddTypeOK, SyncTypeOK
<1>2. ctx[t] # NoContext
  BY <1>1 DEF NoContext
<1>3. HasRtnl(t, k) /\ (ctx[t][k] = None \/ ctx[t][k] \in Lookup(k))
  BY <1>2
<1>4. j = k
  BY <1>1, <1>3 DEF HasRtnl
<1>5. ctx[t][k] \in Lookup(k)
  BY <1>1, <1>3, <1>4
<1>6. QED
  BY <1>4, <1>5, Leads

\* A flow ends and nothing else happens.
LEMMA EndOnly ==
  ASSUME HddInv, OnlyInterfaces, NEW t \in Threads, NEW p, NEW c, p = <<>>, Continue(t, p, c),
         UNCHANGED vars, UNCHANGED <<inUse, key>>, cached' \in [Vdevs -> Commands], pc[t] = "idle",
         NEW k \in Keys,
         \/ lock["rtnl"] # t
         \/ ctx[t] = NoContext
         \/ HasRtnl(t, k) /\ (ctx[t][k] = None \/ ctx[t][k] \in Lookup(k))
  PROVE  [Next]_vars /\ HddInv'
<1>1. Flow(t) /\ prog'[t] = <<>> /\ ctx'[t] = NoContext /\ lock'["rtnl"] # t
  BY FlowEnd
<1>2. pc'[t] = "idle"
  BY DEF vars
<1>3. Place(t, "idle", k)'
  BY <1>1, <1>2, Over
<1>4. \/ lock["rtnl"] # t
      \/ \A j \in NetDevs : ctx[t][j] \in inUse => key[ctx[t][j]] # None
  BY NoneHidden
<1>5. QED
  BY <1>1, <1>3, <1>4, FlowOnly DEF Situations

\* A flow begins.
LEMMA StartInv ==
  ASSUME HddInv, OnlyInterfaces, NEW t \in Threads, Start(t)
  PROVE  [Next]_vars /\ HddInv'
<1>1. PICK f \in Flows : \E p \in Programs[f] : prog' = [prog EXCEPT ![t] = p]
  BY DEF Start
<1>2. PICK p \in Programs[f] : prog' = [prog EXCEPT ![t] = p]
  BY <1>1
<1>3. prog[t] = <<>> /\ UNCHANGED <<vars, syncVars, ctx, lock, hooks>>
  BY DEF Start
<1>4. DOMAIN prog = Threads
  BY DEF HddInv
<1>5. prog'[t] = p /\ DOMAIN prog' = Threads /\ \A u \in Threads \ {t} : prog'[u] = prog[u]
  BY <1>2, <1>4
<1>6. Flow(t)
  BY <1>3, <1>5, OwnContexts DEF Flow, HddInv, HddTypeOK
<1>7. PICK r \in Situations, j \in Keys : Place(t, r, j)
  BY DEF HddInv
<1>8. <<>> \in Code(r, j) /\ Standing(t, r, j)
  BY <1>3, <1>7 DEF Place
<1>9. pc[t] = "idle" /\ ctx[t] = NoContext /\ lock["rtnl"] # t
  BY <1>8, Ended DEF Standing
<1>10. pc'[t] = "idle" /\ ctx'[t] = NoContext /\ lock'["rtnl"] # t
  BY <1>3, <1>9 DEF vars
<1>11. \E s \in Situations, k \in Keys : Place(t, s, k)'
  <2>1. CASE \E k \in Keys : Goes(p, "idle", k)
    <3>1. PICK k \in Keys : Goes(p, "idle", k)
      BY <2>1
    <3>2. Standing(t, "idle", k)'
      BY <1>10 DEF Standing
    <3>3. Place(t, "idle", k)'
      BY <3>1, <3>2, <1>5, GoesOn
    <3>4. QED
      BY <3>3 DEF Situations
  <2>2. CASE \E k \in NetDevs : Goes(p, "start", k)
    <3>1. PICK k \in NetDevs : Goes(p, "start", k)
      BY <2>2
    <3>2. Standing(t, "start", k)'
      BY <1>10 DEF Standing
    <3>3. Place(t, "start", k)'
      BY <3>1, <3>2, <1>5, GoesOn
    <3>4. QED
      BY <3>3, KeyFacts DEF Situations
  <2>3. QED
    BY <2>1, <2>2, ProgramsTyped
<1>12. PICK s \in Situations, k \in Keys : Place(t, s, k)'
  BY <1>11
<1>13. UNCHANGED <<inUse, key>> /\ UNCHANGED vars /\ cached' \in [Vdevs -> Commands]
  BY <1>3 DEF syncVars, HddInv, HddTypeOK, SyncTypeOK
<1>14. QED
  BY <1>6, <1>9, <1>12, <1>13, FlowOnly

\* A lock of the kernel is taken.
LEMMA AcquireInv ==
  ASSUME HddInv, OnlyInterfaces, NEW t \in Threads, AcquireLock(t)
  PROVE  [Next]_vars /\ HddInv'
<1>0. At(t, "acquire") /\ lock[Key(t)] = None /\ prog' = [prog EXCEPT ![t] = Rest(t)]
      /\ lock' = [lock EXCEPT ![Key(t)] = t] /\ UNCHANGED <<vars, syncVars, ctx, hooks>>
  BY DEF AcquireLock
<1>1. PICK s \in Situations, k \in Keys :
        Standing(t, s, k) /\ Typing(s, k, "acquire", Key(t), Err(t), Rest(t))
  BY <1>0, CallingAt
<1>2. \/ Key(t) = "platform" /\ s = "idle" /\ Goes(Rest(t), "idle", k)
      \/ Key(t) = "rtnl" /\ s = "start" /\ Goes(Rest(t), "locked", k)
  BY <1>1 DEF Typing
<1>3. DOMAIN prog = Threads /\ lock \in [Locks -> Threads \cup {None}]
      /\ ctx \in [Threads -> [Keys -> Node \cup {None}]]
  BY DEF HddInv, HddTypeOK
<1>4. prog'[t] = Rest(t) /\ DOMAIN prog' = Threads /\ \A u \in Threads \ {t} : prog'[u] = prog[u]
  BY <1>0, <1>3
<1>5. Key(t) \in Locks /\ "rtnl" \in Locks /\ None \notin Threads
  BY <1>2, TreeAssumption DEF Locks
<1>6. /\ lock' \in [Locks -> Threads \cup {None}]
      /\ \A u \in Threads \ {t} : lock'["rtnl"] = u <=> lock["rtnl"] = u
      /\ Key(t) = "rtnl" => lock'["rtnl"] = t
      /\ Key(t) # "rtnl" => lock'["rtnl"] = lock["rtnl"]
  BY <1>0, <1>3, <1>5
<1>7. Flow(t)
  BY <1>0, <1>3, <1>4, <1>6, OwnContexts DEF Flow
<1>8. UNCHANGED <<inUse, key>> /\ UNCHANGED vars /\ cached' \in [Vdevs -> Commands]
      /\ UNCHANGED <<pc, at, cur, attached>> /\ ctx'[t] = ctx[t]
  BY <1>0 DEF syncVars, vars, treeVars, HddInv, HddTypeOK, SyncTypeOK
<1>9. CASE Key(t) = "platform"
  <2>1. s = "idle" /\ Goes(Rest(t), "idle", k) /\ lock'["rtnl"] = lock["rtnl"]
    BY <1>2, <1>6, <1>9
  <2>2. Standing(t, "idle", k)'
    BY <2>1, <1>1, <1>8, Stays
  <2>3. Place(t, "idle", k)'
    BY <2>1, <2>2, <1>4, GoesOn
  <2>4. lock["rtnl"] # t
    BY <2>1, <1>1 DEF Standing
  <2>5. QED
    BY <2>3, <2>4, <1>7, <1>8, FlowOnly DEF Situations
<1>10. CASE Key(t) = "rtnl"
  <2>1. s = "start" /\ Goes(Rest(t), "locked", k) /\ lock'["rtnl"] = t
    BY <1>2, <1>6, <1>10
  <2>2. pc[t] = "idle" /\ ctx[t] = NoContext /\ k \in NetDevs /\ lock["rtnl"] # t
    BY <2>1, <1>1 DEF Standing
  <2>3. HasRtnl(t, k)'
    BY <2>1, <2>2, <1>8 DEF HasRtnl, NoContext
  <2>4. Standing(t, "locked", k)'
    BY <2>2, <2>3, <1>8 DEF Standing
  <2>5. Place(t, "locked", k)'
    BY <2>1, <2>4, <1>4, GoesOn
  <2>6. QED
    BY <2>2, <2>5, <1>7, <1>8, FlowOnly DEF Situations
<1>11. QED
  BY <1>2, <1>9, <1>10

\* A call into the driver goes through, or the driver is not there.
LEMMA CalledInv ==
  ASSUME HddInv, OnlyInterfaces, NEW t \in Threads, Called(t)
  PROVE  [Next]_vars /\ HddInv'
<1>0. At(t, "called") /\ (GoOn(t) \/ Fail(t)) /\ UNCHANGED <<vars, syncVars>>
  BY DEF Called
<1>1. PICK s \in Situations, k \in Keys :
        Standing(t, s, k) /\ Typing(s, k, "called", Key(t), Err(t), Rest(t))
  BY <1>0, CallingAt
<1>2. s \in {"idle", "locked"} /\ Goes(Rest(t), s, k) /\ Err(t) = <<>>
  BY <1>1 DEF Typing
<1>3. pc[t] = "idle" /\ ctx[t] = NoContext
  BY <1>1, <1>2 DEF Standing
<1>4. UNCHANGED <<inUse, key>> /\ UNCHANGED vars /\ cached' \in [Vdevs -> Commands]
      /\ UNCHANGED <<pc, at, cur, attached>>
  BY <1>0 DEF syncVars, vars, treeVars, HddInv, HddTypeOK, SyncTypeOK
<1>5. CASE GoOn(t)
  <2>1. Rest(t) # <<>> /\ Continue(t, Rest(t), ctx[t])
    BY <1>2, <1>5 DEF Goes, GoOn
  <2>2. Flow(t) /\ prog'[t] = Rest(t) /\ ctx'[t] = ctx[t] /\ lock' = lock
    BY <2>1, FlowRest
  <2>3. Standing(t, s, k)'
    BY <2>2, <1>1, <1>4, Stays
  <2>4. Place(t, s, k)'
    BY <2>2, <2>3, <1>2, GoesOn
  <2>5. QED
    BY <2>2, <2>4, <1>4, FlowOnly
<1>6. CASE Fail(t)
  <2>1. Continue(t, Err(t), ctx[t])
    BY <1>6 DEF Fail
  <2>2. QED
    BY <2>1, <1>2, <1>3, <1>4, EndOnly
<1>7. QED
  BY <1>0, <1>5, <1>6

\* What the flow protects succeeds or fails.
LEMMA BodyInv ==
  ASSUME HddInv, OnlyInterfaces, NEW t \in Threads, Body(t)
  PROVE  [Next]_vars /\ HddInv'
<1>0. At(t, "body") /\ (GoOn(t) \/ Fail(t)) /\ UNCHANGED <<vars, syncVars>>
  BY DEF Body
<1>1. PICK s \in Situations, k \in Keys :
        Standing(t, s, k) /\ Typing(s, k, "body", Key(t), Err(t), Rest(t))
  BY <1>0, CallingAt
<1>2. Goes(Rest(t), s, k) /\ Goes(Err(t), s, k)
  BY <1>1 DEF Typing
<1>3. PICK p \in {Rest(t), Err(t)} : Continue(t, p, ctx[t])
  BY <1>0 DEF GoOn, Fail
<1>4. Goes(p, s, k)
  BY <1>2
<1>5. UNCHANGED <<inUse, key>> /\ UNCHANGED vars /\ cached' \in [Vdevs -> Commands]
      /\ UNCHANGED <<pc, at, cur, attached>>
  BY <1>0 DEF syncVars, vars, treeVars, HddInv, HddTypeOK, SyncTypeOK
<1>6. Flow(t) /\ prog'[t] = p /\ ctx'[t] = ctx[t] /\ lock' = lock
  BY <1>3, <1>4, FlowRest DEF Goes
<1>7. Standing(t, s, k)'
  BY <1>1, <1>5, <1>6, Stays
<1>8. Place(t, s, k)'
  BY <1>4, <1>6, <1>7, GoesOn
<1>9. QED
  BY <1>5, <1>6, <1>8, FlowOnly

\* An interface, or the SoC, is looked up.
LEMMA FindInv ==
  ASSUME HddInv, OnlyInterfaces, NEW t \in Threads, Find(t)
  PROVE  [Next]_vars /\ HddInv'
<1>0. /\ At(t, "find") /\ UNCHANGED <<vars, syncVars>>
      /\ \/ \E n \in Lookup(Key(t)) : Continue(t, Rest(t), With(t, n))
         \/ Fail(t)
  BY DEF Find
<1>1. PICK s \in Situations, k \in Keys :
        Standing(t, s, k) /\ Typing(s, k, "find", Key(t), Err(t), Rest(t))
  BY <1>0, CallingAt
<1>2. \/ Key(t) = k /\ s = "locked" /\ Goes(Rest(t), "found", k) /\ Err(t) = <<>>
      \/ Key(t) = Dev /\ s = "idle" /\ Goes(Rest(t), "devFound", Dev) /\ Goes(Err(t), "devIn", Dev)
  BY <1>1 DEF Typing
<1>3. pc[t] = "idle" /\ ctx[t] = NoContext /\ Key(t) \in Keys
  BY <1>1, <1>2, KeyFacts DEF Standing
<1>4. UNCHANGED <<inUse, key>> /\ UNCHANGED vars /\ cached' \in [Vdevs -> Commands]
      /\ UNCHANGED <<pc, at, cur, attached>>
  BY <1>0 DEF syncVars, vars, treeVars, HddInv, HddTypeOK, SyncTypeOK
<1>5. \A j : Lookup(j)' = Lookup(j)
  BY <1>4 DEF Lookup
<1>6. ASSUME NEW n \in Lookup(Key(t)), Continue(t, Rest(t), With(t, n))
      PROVE  [Next]_vars /\ HddInv'
  <2>1. n \in Node /\ n \in Table(Key(t))
    BY <1>3, <1>6, Leads
  <2>2. /\ With(t, n) \in [Keys -> Node \cup {None}] /\ With(t, n)[Key(t)] = n
        /\ \A j \in Keys : /\ With(t, n)[j] \in Table(j) \cup {None}
                           /\ j # Key(t) => With(t, n)[j] = None
    BY <2>1, <1>3, OwnContexts DEF NoContext
  <2>3. Rest(t) # <<>>
    BY <1>2 DEF Goes
  <2>4. Flow(t) /\ prog'[t] = Rest(t) /\ ctx'[t] = With(t, n) /\ lock' = lock
    BY <2>2, <2>3, <1>6, FlowOn
  <2>5. CASE Key(t) = k /\ s = "locked"
    <3>1. HasRtnl(t, k) /\ Goes(Rest(t), "found", k)
      BY <2>5, <1>1, <1>2, KeyFacts DEF Standing
    <3>2. HasRtnl(t, k)' /\ ctx'[t][k] = n
      BY <3>1, <2>2, <2>4, <2>5 DEF HasRtnl
    <3>3. Standing(t, "found", k)'
      BY <3>2, <2>5, <1>3, <1>4, <1>5, <1>6 DEF Standing
    <3>4. Place(t, "found", k)'
      BY <3>1, <3>3, <2>4, GoesOn
    <3>5. \A j \in NetDevs : ctx[t][j] \in inUse => key[ctx[t][j]] # None
      BY <1>3, NoneHidden
    <3>6. QED
      BY <3>4, <3>5, <2>4, <1>4, FlowOnly DEF Situations
  <2>6. CASE Key(t) = Dev /\ s = "idle" /\ Goes(Rest(t), "devFound", Dev)
    <3>1. lock["rtnl"] # t
      BY <2>6, <1>1 DEF Standing
    <3>2. Standing(t, "devFound", Dev)'
      BY <3>1, <2>2, <2>4, <2>6, <1>3, <1>4, <1>5, <1>6 DEF Standing
    <3>3. Place(t, "devFound", Dev)'
      BY <3>2, <2>4, <2>6, GoesOn
    <3>4. QED
      BY <3>1, <3>3, <2>4, <1>4, FlowOnly, KeyFacts DEF Situations
  <2>7. QED
    BY <2>5, <2>6, <1>2
<1>7. ASSUME Fail(t)
      PROVE  [Next]_vars /\ HddInv'
  <2>1. Continue(t, Err(t), ctx[t])
    BY <1>7 DEF Fail
  <2>2. CASE Err(t) = <<>>
    BY <2>1, <2>2, <1>3, <1>4, EndOnly
  <2>3. CASE s = "idle" /\ Goes(Err(t), "devIn", Dev)
    <3>1. lock["rtnl"] # t /\ Err(t) # <<>>
      BY <2>3, <1>1 DEF Standing, Goes
    <3>2. Flow(t) /\ prog'[t] = Err(t) /\ ctx'[t] = ctx[t] /\ lock' = lock
      BY <2>1, <3>1, FlowRest
    <3>3. Standing(t, "devIn", Dev)'
      BY <3>1, <3>2, <1>3, <1>4 DEF Standing
    <3>4. Place(t, "devIn", Dev)'
      BY <3>2, <3>3, <2>3, GoesOn
    <3>5. QED
      BY <3>1, <3>2, <3>4, <1>4, FlowOnly, KeyFacts DEF Situations
  <2>4. QED
    BY <2>2, <2>3, <1>2
<1>8. QED
  BY <1>0, <1>6, <1>7

\* The platform driver's shutdown comes: the driver is not unloading.
LEMMA ShutdownInv ==
  ASSUME HddInv, OnlyInterfaces, NEW t \in Threads, Shutdown(t)
  PROVE  [Next]_vars /\ HddInv'
<1>0. At(t, "shutdown") /\ GoOn(t) /\ UNCHANGED <<vars, syncVars>>
  BY DEF Shutdown, HddInv
<1>1. PICK s \in Situations, k \in Keys :
        Standing(t, s, k) /\ Typing(s, k, "shutdown", Key(t), Err(t), Rest(t))
  BY <1>0, CallingAt
<1>2. s = "idle" /\ Goes(Rest(t), s, k)
  BY <1>1 DEF Typing
<1>3. UNCHANGED <<inUse, key>> /\ UNCHANGED vars /\ cached' \in [Vdevs -> Commands]
      /\ UNCHANGED <<pc, at, cur, attached>>
  BY <1>0 DEF syncVars, vars, treeVars, HddInv, HddTypeOK, SyncTypeOK
<1>4. Flow(t) /\ prog'[t] = Rest(t) /\ ctx'[t] = ctx[t] /\ lock' = lock
  BY <1>0, <1>2, FlowRest DEF Goes, GoOn
<1>5. Standing(t, s, k)'
  BY <1>1, <1>3, <1>4, Stays
<1>6. Place(t, s, k)'
  BY <1>2, <1>4, <1>5, GoesOn
<1>7. QED
  BY <1>3, <1>4, <1>6, FlowOnly

\* Where a psoc is attached, the device leads to it.
LEMMA PsocListed ==
  ASSUME HddInv, NEW n \in Psocs, n \in attached
  PROVE  n \in Lookup(Dev)
BY KeyFacts, TreeAssumption DEF HddInv, EntryShape, Lookup

\* Recovery goes on without waiting for its turn.
LEMMA ResumeInv ==
  ASSUME HddInv, OnlyInterfaces, NEW t \in Threads, Resume(t)
  PROVE  [Next]_vars /\ HddInv'
<1>0. /\ At(t, "resume") /\ UNCHANGED <<vars, syncVars>>
      /\ \/ Lookup(Dev) = {} /\ Fail(t)
         \/ \E n \in Lookup(Dev) : Continue(t, Rest(t), With(t, n))
  BY DEF Resume, HddInv
<1>1. PICK s \in Situations, k \in Keys :
        Standing(t, s, k) /\ Typing(s, k, "resume", Key(t), Err(t), Rest(t))
  BY <1>0, CallingAt
<1>2. Key(t) = Dev /\ s = "devIn" /\ Goes(Rest(t), "devIn", Dev) /\ Err(t) = <<>>
  BY <1>1 DEF Typing
<1>3. k = Dev /\ lock["rtnl"] # t /\ (pc[t] = "idle" \/ (pc[t] \in InTrans /\ at[t] \in Psocs))
  BY <1>1, <1>2 DEF Standing
<1>4. UNCHANGED <<inUse, key>> /\ UNCHANGED vars /\ cached' \in [Vdevs -> Commands]
      /\ UNCHANGED <<pc, at, cur, attached>>
  BY <1>0 DEF syncVars, vars, treeVars, HddInv, HddTypeOK, SyncTypeOK
<1>5. ASSUME Lookup(Dev) = {}, Fail(t)
      PROVE  [Next]_vars /\ HddInv'
  <2>1. pc[t] = "idle"
    <3> SUFFICES ASSUME pc[t] # "idle" PROVE FALSE
      OBVIOUS
    <3>1. at[t] \in Psocs
      BY <1>3
    <3>2. at[t] \in attached
      BY DEF HddInv, IInv, TreeShape
    <3>3. QED
      BY <3>1, <3>2, <1>5, PsocListed
  <2>2. Continue(t, Err(t), ctx[t])
    BY <1>5 DEF Fail
  <2>3. QED
    BY <2>1, <2>2, <1>2, <1>3, <1>4, EndOnly
<1>6. ASSUME NEW n \in Lookup(Dev), Continue(t, Rest(t), With(t, n))
      PROVE  [Next]_vars /\ HddInv'
  <2>1. n \in Node /\ n \in Table(Key(t)) /\ Key(t) \in Keys
    BY <1>2, <1>6, Leads, KeyFacts
  <2>2. /\ With(t, n) \in [Keys -> Node \cup {None}]
        /\ \A j \in Keys : With(t, n)[j] \in Table(j) \cup {None}
    BY <2>1, OwnContexts
  <2>3. Flow(t) /\ prog'[t] = Rest(t) /\ ctx'[t] = With(t, n) /\ lock' = lock
    BY <2>2, <1>2, <1>6, FlowOn DEF Goes
  <2>4. Standing(t, "devIn", Dev)'
    BY <2>3, <1>3, <1>4 DEF Standing
  <2>5. Place(t, "devIn", Dev)'
    BY <2>3, <2>4, <1>2, GoesOn
  <2>6. QED
    BY <2>3, <2>5, <1>3, <1>4, FlowOnly, KeyFacts DEF Situations
<1>7. QED
  BY <1>0, <1>5, <1>6

\* What was cached is replayed.
LEMMA ReplayInv ==
  ASSUME HddInv, OnlyInterfaces, NEW t \in Threads, Replay(t)
  PROVE  [Next]_vars /\ HddInv'
<1>0. /\ At(t, "replay") /\ GoOn(t) /\ UNCHANGED <<vars, inUse, key>>
      /\ cached' \in [Vdevs -> Commands]
  BY DEF Replay, HddInv, HddTypeOK, SyncTypeOK, Commands
<1>1. PICK s \in Situations, k \in Keys :
        Standing(t, s, k) /\ Typing(s, k, "replay", Key(t), Err(t), Rest(t))
  BY <1>0, CallingAt
<1>2. s = "devIn" /\ Goes(Rest(t), "devIn", Dev)
  BY <1>1 DEF Typing
<1>3. k = Dev
  BY <1>1, <1>2 DEF Standing
<1>4. UNCHANGED <<inUse, key>> /\ UNCHANGED vars /\ UNCHANGED <<pc, at, cur, attached>>
  BY <1>0 DEF vars, treeVars
<1>5. Flow(t) /\ prog'[t] = Rest(t) /\ ctx'[t] = ctx[t] /\ lock' = lock
  BY <1>0, <1>2, FlowRest DEF Goes, GoOn
<1>6. Standing(t, s, k)'
  BY <1>1, <1>4, <1>5, Stays
<1>7. Place(t, s, k)'
  BY <1>2, <1>3, <1>5, <1>6, GoesOn
<1>8. QED
  BY <1>0, <1>4, <1>5, <1>7, FlowOnly

\* The cache of commands keeps its type.
LEMMA CacheTyped ==
  ASSUME HddInv, NEW n, NEW c \in Commands, CacheCommand(n, c) \/ UNCHANGED syncVars
  PROVE  cached' \in [Vdevs -> Commands] /\ UNCHANGED <<inUse, key>>
BY DEF CacheCommand, syncVars, HddInv, HddTypeOK, SyncTypeOK

\* The interface is up.
LEMMA OpenedInv ==
  ASSUME HddInv, OnlyInterfaces, NEW t \in Threads, Opened(t)
  PROVE  [Next]_vars /\ HddInv'
<1>0. /\ At(t, "opened") /\ GoOn(t) /\ UNCHANGED vars
      /\ CacheCommand(Context(t), "NO_COMMAND") \/ UNCHANGED syncVars
  BY DEF Opened
<1>1. PICK s \in Situations, k \in Keys :
        Standing(t, s, k) /\ Typing(s, k, "opened", Key(t), Err(t), Rest(t))
  BY <1>0, CallingAt
<1>2. s = "inside" /\ Goes(Rest(t), s, k)
  BY <1>1 DEF Typing
<1>3. cached' \in [Vdevs -> Commands] /\ UNCHANGED <<inUse, key>>
  BY <1>0, CacheTyped DEF Commands
<1>4. UNCHANGED <<pc, at, cur, attached>>
  BY <1>0 DEF vars, treeVars
<1>5. Flow(t) /\ prog'[t] = Rest(t) /\ ctx'[t] = ctx[t] /\ lock' = lock
  BY <1>0, <1>2, FlowRest DEF Goes, GoOn
<1>6. Standing(t, s, k)'
  BY <1>1, <1>3, <1>4, <1>5, Stays
<1>7. Place(t, s, k)'
  BY <1>2, <1>5, <1>6, GoesOn
<1>8. QED
  BY <1>0, <1>3, <1>5, <1>7, FlowOnly

\* A refused hdd_stop is remembered, where there is an interface.
LEMMA RememberInv ==
  ASSUME HddInv, OnlyInterfaces, NEW t \in Threads, Remember(t)
  PROVE  [Next]_vars /\ HddInv'
<1>0. /\ At(t, "remember") /\ GoOn(t) /\ UNCHANGED vars
      /\ CacheCommand(Context(t), "INTERFACE_DOWN") \/ UNCHANGED syncVars
  BY DEF Remember
<1>1. PICK s \in Situations, k \in Keys :
        Standing(t, s, k) /\ Typing(s, k, "remember", Key(t), Err(t), Rest(t))
  BY <1>0, CallingAt
<1>2. s = "refused" /\ Rest(t) = <<>>
  BY <1>1 DEF Typing
<1>3. cached' \in [Vdevs -> Commands] /\ UNCHANGED <<inUse, key>>
  BY <1>0, CacheTyped DEF Commands
<1>4. pc[t] = "idle" /\ HasRtnl(t, k) /\ (ctx[t][k] = None \/ ctx[t][k] \in Lookup(k))
  BY <1>1, <1>2 DEF Standing
<1>5. Continue(t, Rest(t), ctx[t])
  BY <1>0 DEF GoOn
<1>6. QED
  BY <1>0, <1>2, <1>3, <1>4, <1>5, EndOnly

-----------------------------------------------------------------------------
(* The steps that change the tables. *)

\* The one entry that is hidden is that of the thread with the rtnl lock.
LEMMA OwnHidden ==
  ASSUME HddInv, NEW t \in Threads, NEW k \in Keys, HasRtnl(t, k), NEW n \in inUse, key[n] = None
  PROVE  ctx[t][k] = n
<1>1. PICK u \in Threads, j \in NetDevs : lock["rtnl"] = u /\ ctx[u][j] = n
  BY DEF HddInv, Held
<1>2. u = t /\ n # None /\ j \in Keys
  BY <1>1, KeyFacts DEF HasRtnl, HddInv, HddTypeOK, SyncTypeOK
<1>3. QED
  BY <1>1, <1>2 DEF HasRtnl

\* An entry held for an interface.
LEMMA HeldEntry ==
  ASSUME HddInv, NEW t \in Threads, NEW k \in Keys, Hidden(t, k)
  PROVE  /\ k \in NetDevs /\ lock["rtnl"] = t /\ key[ctx[t][k]] = None /\ Lookup(k) = {}
         /\ ctx[t][k] \in Vdevs /\ ctx[t][k] \in Node /\ ctx[t][k] \in inUse /\ ctx[t][k] # None
         /\ \A n \in inUse : key[n] = None => n = ctx[t][k]
<1>1. /\ k \in NetDevs /\ lock["rtnl"] = t /\ key[ctx[t][k]] = None /\ Lookup(k) = {}
      /\ ctx[t][k] \in inUse
  BY DEF Hidden, HasRtnl
<1>2. ctx[t][k] \in Node /\ ctx[t][k] # None
  BY <1>1, KeyFacts DEF HddInv, HddTypeOK, SyncTypeOK
<1>3. ctx[t][k] \in Vdevs
  BY <1>1, <1>2, KeyFacts DEF HddInv
<1>4. \A n \in inUse : key[n] = None => n = ctx[t][k]
  BY OwnHidden DEF Hidden
<1>5. QED
  BY <1>1, <1>2, <1>3, <1>4

\* Only entries of interfaces change, and nothing of DSC.
LEMMA TableStep ==
  ASSUME HddInv, OnlyInterfaces, NEW t \in Threads, Flow(t), UNCHANGED vars, lock["rtnl"] = t,
         \A n \in Node \ Vdevs : (n \in inUse' <=> n \in inUse) /\ key'[n] = key[n],
         SyncTypeOK', EntryShape', Held',
         NEW s \in Situations, NEW k \in Keys, Place(t, s, k)'
  PROVE  [Next]_vars /\ HddInv'
<1>1. UNCHANGED <<attached, active, queue, tran, ops, opsEvent, cds, pc, at, cur, todo>>
  BY DEF vars, treeVars
<1>2. Data(t)
  BY <1>1 DEF Data
<1>3. "unloading" \notin cds' /\ \A u \in Threads : tran'[u] # "aborted"
  BY <1>1 DEF HddInv
<1>4. HddInv'
  BY <1>2, <1>3, Conclude
<1>5. QED
  BY <1>4

\* An entry is taken for a net_device that has none.
LEMMA GetInv ==
  ASSUME HddInv, OnlyInterfaces, NEW t \in Threads, Get(t)
  PROVE  [Next]_vars /\ HddInv'
<1>0. /\ At(t, "get") /\ UNCHANGED vars
      /\ \/ /\ ~(Key(t) \in NetDevs /\ Lookup(Key(t)) # {})
            /\ \E n \in Table(Key(t)) \ inUse : SyncGet(n) /\ Continue(t, Rest(t), With(t, n))
         \/ Fail(t) /\ UNCHANGED syncVars
  BY DEF Get
<1>1. PICK s \in Situations, k \in Keys :
        Standing(t, s, k) /\ Typing(s, k, "get", Key(t), Err(t), Rest(t))
  BY <1>0, CallingAt
<1>2. Key(t) = k /\ s = "locked" /\ Goes(Rest(t), "bare", k) /\ Err(t) = <<>>
  BY <1>1 DEF Typing
<1>3. pc[t] = "idle" /\ ctx[t] = NoContext /\ HasRtnl(t, k)
  BY <1>1, <1>2 DEF Standing
<1>4. k \in NetDevs /\ lock["rtnl"] = t /\ Table(k) = Vdevs /\ k # None
  BY <1>3, KeyFacts DEF HasRtnl
<1>5. UNCHANGED <<pc, at, cur, attached>>
  BY <1>0 DEF vars, treeVars
<1>6. ASSUME NEW n \in Table(k) \ inUse, Lookup(k) = {}, SyncGet(n), Continue(t, Rest(t), With(t, n))
      PROVE  [Next]_vars /\ HddInv'
  <2>1. n \in Vdevs /\ n \in Node /\ n \notin inUse /\ n # None
    BY <1>4, <1>6, KeyFacts
  <2>2. key[n] = None /\ n \notin attached
    BY <2>1 DEF HddInv, EntryShape
  <2>3. inUse' = inUse \cup {n} /\ key' = key /\ cached' = cached
    BY <1>6 DEF SyncGet
  <2>4. /\ With(t, n) \in [Keys -> Node \cup {None}] /\ With(t, n)[k] = n
        /\ \A j \in Keys : /\ With(t, n)[j] \in Table(j) \cup {None}
                           /\ j # k => With(t, n)[j] = None
    BY <2>1, <1>2, <1>3, <1>6, OwnContexts DEF NoContext
  <2>5. Flow(t) /\ prog'[t] = Rest(t) /\ ctx'[t] = With(t, n) /\ lock' = lock
    BY <2>4, <1>2, <1>6, FlowOn DEF Goes
  <2>6. HasRtnl(t, k)' /\ ctx'[t][k] = n
    BY <2>4, <2>5, <1>4 DEF HasRtnl
  <2>7. Lookup(k)' = {}
    BY <2>2, <2>3, <1>4, <1>6 DEF Lookup
  <2>8. Hidden(t, k)'
    BY <2>2, <2>3, <2>6, <2>7 DEF Hidden
  <2>9. Standing(t, "bare", k)'
    BY <2>2, <2>6, <2>8, <1>3, <1>5 DEF Standing
  <2>10. Place(t, "bare", k)'
    BY <2>5, <2>9, <1>2, GoesOn
  <2>11. SyncTypeOK'
    BY <2>1, <2>3 DEF SyncTypeOK, HddInv, HddTypeOK
  <2>12. EntryShape'
    BY <2>1, <2>3, <1>5 DEF EntryShape, HddInv
  <2>13. Held'
    <3> SUFFICES ASSUME NEW m \in inUse', key'[m] = None
                 PROVE  \E u \in Threads, j \in NetDevs : lock'["rtnl"] = u /\ ctx'[u][j] = m
      BY DEF Held
    <3>1. m = n
      <4> SUFFICES ASSUME m \in inUse PROVE FALSE
        BY <2>3
      <4>1. ctx[t][k] = m
        BY <2>3, <1>3, OwnHidden
      <4>2. m # None
        BY KeyFacts DEF HddInv, HddTypeOK, SyncTypeOK
      <4>3. QED
        BY <4>1, <4>2, <1>3 DEF NoContext
    <3>2. QED
      BY <3>1, <2>5, <2>6, <1>4
  <2>14. QED
    BY <2>1, <2>3, <2>5, <2>10, <2>11, <2>12, <2>13, <1>0, <1>4, TableStep DEF Situations
<1>7. ASSUME Fail(t), UNCHANGED syncVars
      PROVE  [Next]_vars /\ HddInv'
  <2>1. UNCHANGED <<inUse, key>> /\ cached' \in [Vdevs -> Commands]
    BY <1>7 DEF syncVars, HddInv, HddTypeOK, SyncTypeOK
  <2>2. Continue(t, Err(t), ctx[t])
    BY <1>7 DEF Fail
  <2>3. QED
    BY <2>1, <2>2, <1>0, <1>2, <1>3, EndOnly
<1>8. QED
  BY <1>0, <1>2, <1>4, <1>6, <1>7

\* The interface can be found from now on.
LEMMA RegisterInv ==
  ASSUME HddInv, OnlyInterfaces, NEW t \in Threads, Register(t)
  PROVE  [Next]_vars /\ HddInv'
<1>0. At(t, "register") /\ SyncRegister(Key(t), Context(t)) /\ GoOn(t) /\ UNCHANGED vars
  BY DEF Register
<1>1. PICK s \in Situations, k \in Keys :
        Standing(t, s, k) /\ Typing(s, k, "register", Key(t), Err(t), Rest(t))
  BY <1>0, CallingAt
<1>2. Key(t) = k /\ s = "closed" /\ Goes(Rest(t), "inside", k)
  BY <1>1 DEF Typing
<1> DEFINE n == ctx[t][k]
<1>3. pc[t] \in InTrans /\ at[t] = n /\ Hidden(t, k)
  BY <1>1, <1>2 DEF Standing
<1>4. /\ k \in NetDevs /\ lock["rtnl"] = t /\ key[n] = None /\ Lookup(k) = {} /\ k # None
      /\ n \in Vdevs /\ n \in Node /\ n \in inUse /\ n # None
      /\ \A m \in inUse : key[m] = None => m = n
  BY <1>3, HeldEntry, KeyFacts
<1>5. n \in attached
  <2>1. pc[t] # "idle"
    BY <1>3 DEF InTrans
  <2>2. QED
    BY <2>1, <1>3 DEF HddInv, IInv, TreeShape
<1>6. key' = [key EXCEPT ![n] = k] /\ inUse' = inUse /\ cached' = cached
  BY <1>0, <1>2 DEF SyncRegister, Context
<1>7. UNCHANGED <<pc, at, cur, attached>>
  BY <1>0 DEF vars, treeVars
<1>8. Flow(t) /\ prog'[t] = Rest(t) /\ ctx'[t] = ctx[t] /\ lock' = lock
  BY <1>0, <1>2, FlowRest DEF Goes, GoOn
<1>9. key \in [Node -> Keys \cup {None}]
  BY DEF HddInv, HddTypeOK, SyncTypeOK
<1>10. key'[n] = k /\ \A m \in Node : m # n => key'[m] = key[m]
  BY <1>4, <1>6, <1>9
<1>11. SyncTypeOK'
  BY <1>6, <1>9 DEF SyncTypeOK, HddInv, HddTypeOK
<1>12. \A m \in Node : key[m] = k => m \notin inUse
  BY <1>4 DEF Lookup
<1>13. EntryShape'
  <2>1. attached' \subseteq inUse' /\ \A m \in Node \ inUse' : key'[m] = None
    BY <1>4, <1>6, <1>7, <1>10 DEF EntryShape, HddInv
  <2>2. \A m \in Node : key'[m] # None => m \in attached'
    BY <1>5, <1>7, <1>10 DEF EntryShape, HddInv
  <2>3. \A m \in inUse' \ Vdevs : key'[m] = IF m = Driver THEN Driver ELSE Dev
    BY <1>4, <1>6, <1>10 DEF EntryShape, HddInv, HddTypeOK, SyncTypeOK
  <2>4. \A m \in Vdevs : key'[m] \in NetDevs \cup {None}
    BY <1>4, <1>10, KeyFacts DEF EntryShape, HddInv
  <2>5. \A m \in Vdevs : key[m] = k => m \notin inUse /\ key[m] = None
    BY <1>12, KeyFacts DEF EntryShape, HddInv
  <2>6. \A l, m \in Vdevs : key'[l] = key'[m] /\ key'[l] # None => l = m
    BY <2>5, <1>4, <1>10, KeyFacts DEF EntryShape, HddInv
  <2>7. QED
    BY <2>1, <2>2, <2>3, <2>4, <2>6 DEF EntryShape
<1>14. Held'
  BY <1>4, <1>6, <1>10 DEF Held, HddInv, HddTypeOK, SyncTypeOK
<1>15. n \in Lookup(k)'
  BY <1>4, <1>6, <1>10 DEF Lookup
<1>16. HasRtnl(t, k)'
  BY <1>3, <1>8 DEF Hidden, HasRtnl
<1>17. Standing(t, "inside", k)'
  BY <1>3, <1>7, <1>8, <1>15, <1>16 DEF Standing
<1>18. Place(t, "inside", k)'
  BY <1>2, <1>8, <1>17, GoesOn
<1>19. QED
  BY <1>0, <1>4, <1>6, <1>8, <1>10, <1>11, <1>13, <1>14, <1>18, TableStep DEF Situations

\* The interface cannot be found any more.
LEMMA UnregisterInv ==
  ASSUME HddInv, OnlyInterfaces, NEW t \in Threads, Unregister(t)
  PROVE  [Next]_vars /\ HddInv'
<1>0. /\ At(t, "unregister") /\ SyncUnregister(Key(t)) /\ UNCHANGED vars
      /\ Continue(t, Rest(t), IF Lookup(Key(t)) = {} THEN ctx[t]
                              ELSE With(t, CHOOSE n \in Lookup(Key(t)) : TRUE))
  BY DEF Unregister
<1>1. PICK s \in Situations, k \in Keys :
        Standing(t, s, k) /\ Typing(s, k, "unregister", Key(t), Err(t), Rest(t))
  BY <1>0, CallingAt
<1>2. Key(t) = k /\ s = "inside" /\ Goes(Rest(t), "unlisted", k)
  BY <1>1 DEF Typing
<1> DEFINE n == ctx[t][k]
<1>3. pc[t] \in InTrans /\ at[t] = n /\ HasRtnl(t, k) /\ n \in Lookup(k)
  BY <1>1, <1>2 DEF Standing
<1>4. /\ k \in NetDevs /\ lock["rtnl"] = t /\ k # None /\ n \in Vdevs /\ n \in Node /\ n \in inUse
      /\ \A m \in Lookup(k) : m = n
  BY <1>3, Leads, KeyFacts DEF HasRtnl
<1>5. With(t, n) = ctx[t]
  BY <1>2 DEF With, HddInv, HddTypeOK
<1>6. Continue(t, Rest(t), ctx[t])
  <2>1. (CHOOSE m \in Lookup(k) : TRUE) = n
    BY <1>3, <1>4
  <2>2. QED
    BY <2>1, <1>0, <1>2, <1>3, <1>5
<1>7. inUse' = inUse /\ cached' = cached /\ key' = [m \in Node |-> IF m \in Lookup(k) THEN None ELSE key[m]]
  BY <1>0, <1>2 DEF SyncUnregister
<1>8. UNCHANGED <<pc, at, cur, attached>>
  BY <1>0 DEF vars, treeVars
<1>9. Flow(t) /\ prog'[t] = Rest(t) /\ ctx'[t] = ctx[t] /\ lock' = lock
  BY <1>2, <1>6, FlowRest DEF Goes
<1>10. key'[n] = None /\ \A m \in Node : m # n => key'[m] = key[m]
  BY <1>3, <1>4, <1>7
<1>11. SyncTypeOK'
  BY <1>7 DEF SyncTypeOK, HddInv, HddTypeOK
<1>12. EntryShape'
  <2>1. attached' \subseteq inUse' /\ \A m \in Node \ inUse' : key'[m] = None
    BY <1>4, <1>7, <1>8, <1>10 DEF EntryShape, HddInv
  <2>2. \A m \in Node : key'[m] # None => m \in attached'
    BY <1>8, <1>10 DEF EntryShape, HddInv
  <2>3. \A m \in inUse' \ Vdevs : key'[m] = IF m = Driver THEN Driver ELSE Dev
    BY <1>4, <1>7, <1>10 DEF EntryShape, HddInv, HddTypeOK, SyncTypeOK
  <2>4. \A m \in Vdevs : key'[m] \in NetDevs \cup {None}
    BY <1>4, <1>10, KeyFacts DEF EntryShape, HddInv
  <2>5. \A l, m \in Vdevs : key'[l] = key'[m] /\ key'[l] # None => l = m
    BY <1>4, <1>10, KeyFacts DEF EntryShape, HddInv
  <2>6. QED
    BY <2>1, <2>2, <2>3, <2>4, <2>5 DEF EntryShape
<1>13. Held'
  <2> SUFFICES ASSUME NEW m \in inUse', key'[m] = None
               PROVE  \E u \in Threads, j \in NetDevs : lock'["rtnl"] = u /\ ctx'[u][j] = m
    BY DEF Held
  <2>1. m = n
    <3>1. m \in inUse /\ m \in Node
      BY <1>7 DEF HddInv, HddTypeOK, SyncTypeOK
    <3>2. CASE m # n
      BY <3>1, <3>2, <1>3, <1>10, OwnHidden
    <3>3. QED
      BY <3>2
  <2>2. QED
    BY <2>1, <1>4, <1>9
<1>14. Lookup(k)' = {}
  <2> SUFFICES ASSUME NEW m \in inUse', key'[m] = k PROVE FALSE
    BY DEF Lookup
  <2>1. m \in inUse /\ m \in Node
    BY <1>7 DEF HddInv, HddTypeOK, SyncTypeOK
  <2>2. m # n /\ key[m] = k
    BY <2>1, <1>4, <1>10
  <2>3. QED
    BY <2>1, <2>2, <1>4 DEF Lookup
<1>15. Hidden(t, k)'
  <2>1. HasRtnl(t, k)'
    BY <1>3, <1>9 DEF HasRtnl
  <2>2. QED
    BY <2>1, <1>4, <1>7, <1>9, <1>10, <1>14 DEF Hidden
<1>16. Standing(t, "unlisted", k)'
  BY <1>3, <1>8, <1>9, <1>15 DEF Standing
<1>17. Place(t, "unlisted", k)'
  BY <1>2, <1>9, <1>16, GoesOn
<1>18. QED
  BY <1>0, <1>4, <1>7, <1>9, <1>10, <1>11, <1>12, <1>13, <1>17, TableStep DEF Situations

\* The entry is given back.
LEMMA PutInv ==
  ASSUME HddInv, OnlyInterfaces, NEW t \in Threads, PutEntry(t)
  PROVE  [Next]_vars /\ HddInv'
<1>0. At(t, "put") /\ SyncPut(Context(t)) /\ GoOn(t) /\ UNCHANGED vars
  BY DEF PutEntry
<1>1. PICK s \in Situations, k \in Keys :
        Standing(t, s, k) /\ Typing(s, k, "put", Key(t), Err(t), Rest(t))
  BY <1>0, CallingAt
<1>2. Key(t) = k /\ s = "bare" /\ Rest(t) = <<>>
  BY <1>1 DEF Typing
<1> DEFINE n == ctx[t][k]
<1>3. pc[t] = "idle" /\ Hidden(t, k) /\ n \notin attached
  BY <1>1, <1>2 DEF Standing
<1>4. /\ k \in NetDevs /\ lock["rtnl"] = t /\ key[n] = None
      /\ n \in Vdevs /\ n \in Node /\ n \in inUse
      /\ \A m \in inUse : key[m] = None => m = n
  BY <1>3, HeldEntry
<1>5. inUse' = inUse \ {n} /\ cached' = cached /\ key' = [key EXCEPT ![n] = None]
  BY <1>0, <1>2 DEF SyncPut, Context
<1>6. key' = key
  BY <1>4, <1>5 DEF HddInv, HddTypeOK, SyncTypeOK
<1>7. UNCHANGED <<pc, at, cur, attached>>
  BY <1>0 DEF vars, treeVars
<1>8. Flow(t) /\ prog'[t] = <<>> /\ ctx'[t] = NoContext /\ lock'["rtnl"] # t
  <2>1. Continue(t, Rest(t), ctx[t])
    BY <1>0 DEF GoOn
  <2>2. QED
    BY <2>1, <1>2, FlowEnd
<1>9. Place(t, "idle", k)'
  BY <1>3, <1>7, <1>8, Over
<1>10. SyncTypeOK'
  BY <1>5, <1>6 DEF SyncTypeOK, HddInv, HddTypeOK
<1>11. EntryShape'
  BY <1>3, <1>4, <1>5, <1>6, <1>7 DEF EntryShape, HddInv
<1>12. Held'
  BY <1>4, <1>5, <1>6 DEF Held
<1>13. QED
  BY <1>0, <1>4, <1>5, <1>6, <1>8, <1>9, <1>10, <1>11, <1>12, TableStep DEF Situations

-----------------------------------------------------------------------------
(* The steps that use DSC. *)

\* The calls of any node are calls of the interface of DSC.
LEMMA Offered ==
  /\ \A t \in Threads, n \in Node : TransStart(t, n) => Next
  /\ \A t \in Threads, n \in Node : TransStartWait(t, n) => Next
  /\ \A t \in Threads, n \in Node : OpStart(t, n) => Next
  /\ \A t \in Threads, n \in Node : DrainNode(t, n) => Next
  /\ \A t \in Threads : at[t] \in Node /\ TransStop(t) => Next
  /\ \A t \in Threads : at[t] \in Node /\ OpStop(t) => Next
  /\ \A t \in Threads : TranWake(t) => Next
  /\ \A t \in Threads : WaitForOps(t) => Next
  /\ \A t \in Threads : OpsWake(t) => Next
  /\ \A n \in Vdevs : Create(n) => Next
  /\ \A n \in Vdevs : Destroy(n) => Next
  /\ CdsState => Next
<1>1. \A n \in Node : n = Driver \/ n \in Psocs \/ n \in Vdevs
  BY DEF Node
<1>2. \A t \in Threads, n \in Node : TransStart(t, n) => Next
  BY <1>1, Zenon DEF Next, DriverTransStart, PsocTransStart, VdevTransStart
<1>3. \A t \in Threads, n \in Node : TransStartWait(t, n) => Next
  BY <1>1, Zenon DEF Next, DriverTransStartWait, PsocTransStartWait, VdevTransStartWait
<1>4. \A t \in Threads, n \in Node : OpStart(t, n) => Next
  BY <1>1, Zenon DEF Next, DriverOpStart, PsocOpStart, VdevOpStart
<1>5. \A t \in Threads, n \in Node : DrainNode(t, n) => Next
  BY <1>1, Zenon DEF Next, DriverWaitForOps, PsocWaitForOps, VdevWaitForOps
<1>6. \A t \in Threads : at[t] \in Node /\ TransStop(t) => Next
  BY <1>1, Zenon DEF Next, DriverTransStop, PsocTransStop, VdevTransStop
<1>7. \A t \in Threads : at[t] \in Node /\ OpStop(t) => Next
  BY <1>1, Zenon DEF Next, DriverOpStop, PsocOpStop, VdevOpStop
<1>8. /\ \A t \in Threads : TranWake(t) => Next
      /\ \A t \in Threads : WaitForOps(t) => Next
      /\ \A t \in Threads : OpsWake(t) => Next
  BY Zenon DEF Next
<1>9. /\ \A n \in Vdevs : Create(n) => Next
      /\ \A n \in Vdevs : Destroy(n) => Next
      /\ CdsState => Next
  BY Zenon DEF Next, VdevCreate, VdevDestroy
<1>10. QED
  BY <1>2, <1>3, <1>4, <1>5, <1>6, <1>7, <1>8, <1>9

\* A thread that is in a section is at a node of the tree.
LEMMA Attached ==
  ASSUME HddInv, NEW t \in Threads, pc[t] # "idle"
  PROVE  at[t] \in attached /\ at[t] \in Node /\ at[t] \in inUse
BY DEF HddInv, IInv, TypeOK, TreeTypeOK, TreeShape, EntryShape

\* A section begins, goes on or ends, in the tree and the tables as they are.
LEMMA SectionStep ==
  ASSUME HddInv, OnlyInterfaces, Next, NEW t \in Threads, Flow(t), Data(t),
         UNCHANGED syncVars, UNCHANGED <<attached, cds>>,
         \A u \in Threads : tran'[u] # "aborted",
         \/ lock["rtnl"] # t
         \/ lock'["rtnl"] = t /\ ctx'[t] = ctx[t]
         \/ \A j \in NetDevs : ctx[t][j] \in inUse => key[ctx[t][j]] # None,
         NEW s \in Situations, NEW k \in Keys, Place(t, s, k)'
  PROVE  [Next]_vars /\ HddInv'
<1>1. UNCHANGED <<inUse, key>> /\ cached' \in [Vdevs -> Commands]
  BY DEF syncVars, HddInv, HddTypeOK, SyncTypeOK
<1>2. EntryShape' /\ SyncTypeOK'
  BY <1>1, ShapeKept
<1>3. Held'
  BY <1>1, HeldKept
<1>4. "unloading" \notin cds'
  BY DEF HddInv
<1>5. HddInv'
  BY <1>2, <1>3, <1>4, Conclude
<1>6. QED
  BY <1>5

\* A transition of a registered entry or of one of the thread's own.
LEMMA TransStartData ==
  ASSUME HddInv, NEW t \in Threads, NEW n \in Node, TransStart(t, n), UNCHANGED syncVars,
         lock["rtnl"] = t \/ key[n] # None
  PROVE  /\ Next /\ Data(t) /\ UNCHANGED <<attached, cds, tran, cur>>
         /\ pc'[t] = "trans" /\ at'[t] = n
         /\ \A u \in Threads \ {t} : at'[u] = at[u]
<1>1. /\ pc' = [pc EXCEPT ![t] = "trans"] /\ at' = [at EXCEPT ![t] = n]
      /\ UNCHANGED <<attached, cds, tran, cur>>
  BY DEF TransStart, BeginTrans, Enter
<1>2. pc \in [Threads -> Pcs] /\ at \in [Threads -> Node \cup {None}]
  BY DEF HddInv, IInv, TypeOK
<1>3. UNCHANGED <<inUse, key>>
  BY DEF syncVars
<1>4. Data(t)
  BY <1>1, <1>2, <1>3 DEF Data
<1>5. QED
  BY <1>1, <1>2, <1>4, Offered

\* The transition of the new interface.
LEMMA BeginOwnInv ==
  ASSUME HddInv, OnlyInterfaces, NEW t \in Threads, BeginOwn(t)
  PROVE  [Next]_vars /\ HddInv'
<1>0. /\ At(t, "begin") /\ UNCHANGED syncVars
      /\ \/ TransStart(t, Context(t)) /\ GoOn(t)
         \/ Fail(t) /\ UNCHANGED vars
  BY DEF BeginOwn
<1>1. PICK s \in Situations, k \in Keys :
        Standing(t, s, k) /\ Typing(s, k, "begin", Key(t), Err(t), Rest(t))
  BY <1>0, CallingAt
<1>2. Key(t) = k /\ s = "made" /\ Goes(Rest(t), "closed", k) /\ Goes(Err(t), "made", k)
  BY <1>1 DEF Typing
<1> DEFINE n == ctx[t][k]
<1>3. pc[t] = "idle" /\ Hidden(t, k) /\ n \in attached /\ Nobody(n)
  BY <1>1, <1>2 DEF Standing
<1>4. n \in Node /\ lock["rtnl"] = t
  BY <1>3, HeldEntry
<1>5. UNCHANGED <<inUse, key>> /\ cached' \in [Vdevs -> Commands]
  BY <1>0 DEF syncVars, HddInv, HddTypeOK, SyncTypeOK
<1>6. ASSUME TransStart(t, n), GoOn(t)
      PROVE  [Next]_vars /\ HddInv'
  <2>1. /\ Next /\ Data(t) /\ UNCHANGED <<attached, cds, tran, cur>> /\ pc'[t] = "trans" /\ at'[t] = n
        /\ \A u \in Threads \ {t} : at'[u] = at[u]
    BY <1>0, <1>4, <1>6, TransStartData
  <2>2. Flow(t) /\ prog'[t] = Rest(t) /\ ctx'[t] = ctx[t] /\ lock' = lock
    BY <1>2, <1>6, FlowRest DEF Goes, GoOn
  <2>3. Hidden(t, k)'
    BY <2>2, <1>3, <1>5 DEF Hidden, HasRtnl, Lookup
  <2>4. \A u \in Threads : u # t => at'[u] # n
    BY <2>1, <1>3 DEF Nobody
  <2>5. Standing(t, "closed", k)'
    BY <2>1, <2>2, <2>3, <2>4 DEF Standing, Alone, InTrans
  <2>6. Place(t, "closed", k)'
    BY <2>2, <2>5, <1>2, GoesOn
  <2>7. \A u \in Threads : tran'[u] # "aborted"
    BY <2>1 DEF HddInv
  <2>8. QED
    BY <2>1, <2>2, <2>6, <2>7, <1>0, <1>4, SectionStep DEF Situations
<1>7. ASSUME Fail(t), UNCHANGED vars
      PROVE  [Next]_vars /\ HddInv'
  <2>1. UNCHANGED <<pc, at, cur, attached>>
    BY <1>7 DEF vars, treeVars
  <2>2. Flow(t) /\ prog'[t] = Err(t) /\ ctx'[t] = ctx[t] /\ lock' = lock
    BY <1>2, <1>7, FlowRest DEF Goes, Fail
  <2>3. Standing(t, s, k)'
    BY <2>1, <2>2, <1>1, <1>5, Stays
  <2>4. Place(t, s, k)'
    BY <2>2, <2>3, <1>2, GoesOn
  <2>5. QED
    BY <2>2, <2>4, <1>4, <1>5, <1>7, FlowOnly
<1>8. QED
  BY <1>0, <1>2, <1>6, <1>7 DEF Context

\* A transition that is waited for.
LEMMA WaitInv ==
  ASSUME HddInv, OnlyInterfaces, NEW t \in Threads, Wait(t)
  PROVE  [Next]_vars /\ HddInv'
<1>0. /\ At(t, "wait") /\ UNCHANGED syncVars
      /\ \/ TransStart(t, Context(t)) /\ GoOn(t)
         \/ TransStartWait(t, Context(t)) /\ UNCHANGED flowVars
         \/ Fail(t) /\ UNCHANGED vars
  BY DEF Wait
<1>1. PICK s \in Situations, k \in Keys :
        /\ Place(t, s, k) /\ Standing(t, s, k)
        /\ Typing(s, k, "wait", Key(t), Err(t), Rest(t))
  BY <1>0, CallingAt
<1>2. \/ Key(t) = k /\ s = "found" /\ Goes(Rest(t), "inside", k) /\ Err(t) = <<>>
      \/ Key(t) = Dev /\ s = "devFound" /\ Goes(Rest(t), "devIn", Dev) /\ Goes(Err(t), "devIn", Dev)
  BY <1>1 DEF Typing
<1> DEFINE n == ctx[t][k]
<1>3. /\ pc[t] = "idle" /\ Key(t) = k /\ n \in Lookup(k)
      /\ \/ s = "found" /\ HasRtnl(t, k)
         \/ s = "devFound" /\ k = Dev /\ lock["rtnl"] # t
  <2>1. pc[t] # "tranWait"
    BY <1>0, CallingAt
  <2>2. QED
    BY <2>1, <1>1, <1>2 DEF Standing
<1>4. /\ n \in Node /\ n \in attached /\ key[n] = k /\ k # None
      /\ n \in Table(k)
  BY <1>3, Leads
<1>5. UNCHANGED <<inUse, key>> /\ cached' \in [Vdevs -> Commands] /\ Lookup(k)' = Lookup(k)
  BY <1>0 DEF syncVars, HddInv, HddTypeOK, SyncTypeOK, Lookup
<1>6. ASSUME TransStart(t, n), GoOn(t)
      PROVE  [Next]_vars /\ HddInv'
  <2>1. /\ Next /\ Data(t) /\ UNCHANGED <<attached, cds, tran, cur>> /\ pc'[t] = "trans" /\ at'[t] = n
    BY <1>0, <1>4, <1>6, TransStartData
  <2>2. Flow(t) /\ prog'[t] = Rest(t) /\ ctx'[t] = ctx[t] /\ lock' = lock
    BY <1>2, <1>6, FlowRest DEF Goes, GoOn
  <2>3. \A u \in Threads : tran'[u] # "aborted"
    BY <2>1 DEF HddInv
  <2>4. CASE s = "found"
    <3>1. HasRtnl(t, k)'
      BY <2>2, <2>4, <1>3 DEF HasRtnl
    <3>2. Standing(t, "inside", k)'
      BY <3>1, <2>1, <2>2, <1>3, <1>5 DEF Standing, InTrans
    <3>3. Place(t, "inside", k)'
      BY <3>2, <2>2, <2>4, <1>2, GoesOn
    <3>4. lock'["rtnl"] = t
      BY <3>1 DEF HasRtnl
    <3>5. QED
      BY <3>3, <3>4, <2>1, <2>2, <2>3, <1>0, SectionStep DEF Situations
  <2>5. CASE s = "devFound"
    <3>1. Standing(t, "devIn", Dev)'
      BY <2>1, <2>2, <2>5, <1>3, <1>4, KeyFacts DEF Standing, InTrans
    <3>2. Place(t, "devIn", Dev)'
      BY <3>1, <2>2, <2>5, <1>2, GoesOn
    <3>3. QED
      BY <3>2, <2>1, <2>2, <2>3, <2>5, <1>0, <1>3, SectionStep, KeyFacts DEF Situations
  <2>6. QED
    BY <2>4, <2>5, <1>3
<1>7. ASSUME TransStartWait(t, n), UNCHANGED flowVars
      PROVE  [Next]_vars /\ HddInv'
  <2>1. /\ pc' = [pc EXCEPT ![t] = "tranWait"] /\ at' = [at EXCEPT ![t] = n]
        /\ tran' = [tran EXCEPT ![t] = "queued"] /\ UNCHANGED <<attached, cds, cur>>
    BY <1>7 DEF TransStartWait, QueueTrans, Enter
  <2>2. pc \in [Threads -> Pcs] /\ at \in [Threads -> Node \cup {None}] /\ DOMAIN tran = Threads
    BY DEF HddInv, IInv, TypeOK, TreeTypeOK
  <2>3. Data(t) /\ pc'[t] = "tranWait" /\ at'[t] = n
    BY <2>1, <2>2, <1>4, <1>5 DEF Data
  <2>4. \A u \in Threads : tran'[u] # "aborted"
    BY <2>1, <2>2 DEF HddInv
  <2>5. Next
    BY <1>4, <1>7, Offered
  <2>6. Flow(t)
    BY <1>7, FlowStay
  <2>7. prog' = prog /\ ctx' = ctx /\ lock' = lock
    BY <1>7 DEF flowVars
  <2>8. Standing(t, s, k)'
    <3>1. CASE s = "found"
      <4>1. HasRtnl(t, k)'
        BY <3>1, <2>7, <1>3 DEF HasRtnl
      <4>2. QED
        BY <4>1, <3>1, <2>3, <2>7, <1>3, <1>5 DEF Standing
    <3>2. CASE s = "devFound"
      BY <3>2, <2>3, <2>7, <1>3, <1>5 DEF Standing
    <3>3. QED
      BY <3>1, <3>2, <1>3
  <2>9. Place(t, s, k)'
    BY <2>7, <2>8, <1>1 DEF Place
  <2>10. lock["rtnl"] # t \/ (lock'["rtnl"] = t /\ ctx'[t] = ctx[t])
    BY <2>7
  <2>11. QED
    BY <2>1, <2>3, <2>4, <2>5, <2>6, <2>9, <2>10, <1>0, SectionStep
<1>8. Context(t) = n
  BY <1>3 DEF Context
<1>9. \/ TransStart(t, n) /\ GoOn(t)
      \/ TransStartWait(t, n) /\ UNCHANGED flowVars
      \/ Fail(t) /\ UNCHANGED vars
  BY <1>0, <1>8, Zenon
<1>10. ASSUME Fail(t), UNCHANGED vars
      PROVE  [Next]_vars /\ HddInv'
  <2>1. Continue(t, Err(t), ctx[t])
    BY <1>10 DEF Fail
  <2>2. CASE s = "found"
    <3>1. Err(t) = <<>>
      BY <2>2, <1>2
    <3>2. QED
      BY <2>1, <2>2, <3>1, <1>3, <1>5, <1>10, EndOnly
  <2>3. CASE s = "devFound"
    <3>1. Goes(Err(t), "devIn", Dev) /\ lock["rtnl"] # t
      BY <2>3, <1>2, <1>3
    <3>2. Flow(t) /\ prog'[t] = Err(t) /\ ctx'[t] = ctx[t] /\ lock' = lock
      BY <2>1, <3>1, FlowRest DEF Goes
    <3>3. Standing(t, "devIn", Dev)'
      BY <3>1, <3>2, <1>3, <1>10 DEF Standing, vars
    <3>4. Place(t, "devIn", Dev)'
      BY <3>1, <3>2, <3>3, GoesOn
    <3>5. QED
      BY <3>1, <3>2, <3>4, <1>5, <1>10, FlowOnly, KeyFacts DEF Situations
  <2>4. QED
    BY <2>2, <2>3, <1>3
<1>11. QED
  BY <1>6, <1>7, <1>9, <1>10

\* The transition waited for is granted.
LEMMA WakeInv ==
  ASSUME HddInv, OnlyInterfaces, NEW t \in Threads, Wake(t)
  PROVE  [Next]_vars /\ HddInv'
<1>1. tran[t] = "granted"
  BY DEF Wake, TranWake, HddInv
<1>2. TranWake(t) /\ GoOn(t) /\ UNCHANGED syncVars
  BY <1>1 DEF Wake
<1>3. /\ pc[t] = "tranWait" /\ pc' = [pc EXCEPT ![t] = "trans"] /\ at' = [at EXCEPT ![t] = at[t]]
      /\ tran' = [tran EXCEPT ![t] = "none"] /\ UNCHANGED <<attached, cds, cur>>
  BY <1>1, <1>2 DEF TranWake, Enter
<1>4. pc \in [Threads -> Pcs] /\ at \in [Threads -> Node \cup {None}] /\ DOMAIN tran = Threads
  BY DEF HddInv, IInv, TypeOK, TreeTypeOK
<1>5. UNCHANGED <<inUse, key>> /\ \A j : Lookup(j)' = Lookup(j)
  BY <1>2 DEF syncVars, Lookup
<1>6. Data(t) /\ pc'[t] = "trans" /\ at'[t] = at[t]
  BY <1>3, <1>4, <1>5 DEF Data
<1>7. \A u \in Threads : tran'[u] # "aborted"
  BY <1>3, <1>4 DEF HddInv
<1>8. Next
  BY <1>2, Offered
<1>9. PICK s \in Situations, k \in Keys : Place(t, s, k)
  BY DEF HddInv
<1>10. prog[t] \in Code(s, k) /\ Standing(t, s, k)
  BY <1>9 DEF Place
<1>11. s \in {"found", "devFound"}
  BY <1>3, <1>10 DEF Standing, InTrans, Situations
<1>12. prog[t] # <<>>
  BY <1>10, <1>11, Ended
<1>13. Typing(s, k, Head(prog[t]).op, Head(prog[t]).key, Head(prog[t]).err, Tail(prog[t]))
  BY <1>10, <1>12, CodeAt
<1>14. \/ s = "found" /\ Goes(Rest(t), "inside", k)
       \/ s = "devFound" /\ Goes(Rest(t), "devIn", Dev)
  BY <1>11, <1>13 DEF Typing, Rest
<1>15. Flow(t) /\ prog'[t] = Rest(t) /\ ctx'[t] = ctx[t] /\ lock' = lock
  BY <1>2, <1>14, FlowRest DEF Goes, GoOn
<1>16. CASE s = "found"
  <2>1. HasRtnl(t, k) /\ ctx[t][k] \in Lookup(k) /\ at[t] = ctx[t][k]
    BY <1>3, <1>10, <1>16 DEF Standing
  <2>2. HasRtnl(t, k)' /\ lock'["rtnl"] = t
    BY <2>1, <1>15 DEF HasRtnl
  <2>3. Standing(t, "inside", k)'
    BY <2>1, <2>2, <1>5, <1>6, <1>15 DEF Standing, InTrans
  <2>4. Place(t, "inside", k)'
    BY <2>3, <1>14, <1>15, <1>16, GoesOn
  <2>5. QED
    BY <2>2, <2>4, <1>2, <1>3, <1>6, <1>7, <1>8, <1>15, SectionStep DEF Situations
<1>17. CASE s = "devFound"
  <2>1. lock["rtnl"] # t /\ k = Dev /\ ctx[t][k] \in Lookup(Dev) /\ at[t] = ctx[t][k]
    BY <1>3, <1>10, <1>17 DEF Standing
  <2>2. at[t] \in Psocs
    BY <2>1, Leads, KeyFacts
  <2>3. Standing(t, "devIn", Dev)'
    BY <2>1, <2>2, <1>6, <1>15 DEF Standing, InTrans
  <2>4. Place(t, "devIn", Dev)'
    BY <2>3, <1>14, <1>15, <1>17, GoesOn
  <2>5. QED
    BY <2>1, <2>4, <1>2, <1>3, <1>6, <1>7, <1>8, <1>15, SectionStep, KeyFacts DEF Situations
<1>18. QED
  BY <1>11, <1>16, <1>17

\* A start that is refused.
LEMMA RefusedStart ==
  ASSUME HddInv, OnlyInterfaces, NEW t \in Threads, Refused(t), Key(t) \in Keys,
         ctx[t] = NoContext, pc[t] = "idle", UNCHANGED syncVars
  PROVE  /\ UNCHANGED vars
         /\ \/ Lookup(Key(t)) = {} /\ Continue(t, Err(t), ctx[t])
            \/ \E n \in Lookup(Key(t)) : Continue(t, Err(t), With(t, n))
BY DEF Refused

\* A transition that is not waited for.
LEMMA EnterTransInv ==
  ASSUME HddInv, OnlyInterfaces, NEW t \in Threads, EnterTrans(t)
  PROVE  [Next]_vars /\ HddInv'
<1>0. /\ At(t, "enter") /\ UNCHANGED syncVars
      /\ \/ \E n \in Lookup(Key(t)) : TransStart(t, n) /\ Continue(t, Rest(t), With(t, n))
         \/ Refused(t)
  BY DEF EnterTrans
<1>1. PICK s \in Situations, k \in Keys :
        Standing(t, s, k) /\ Typing(s, k, "enter", Key(t), Err(t), Rest(t))
  BY <1>0, CallingAt
<1>2. \/ /\ Key(t) = k /\ s = "locked" /\ Goes(Rest(t), "inside", k)
         /\ Err(t) = <<>> \/ Goes(Err(t), "refused", k)
      \/ Key(t) = Dev /\ s = "idle" /\ Goes(Rest(t), "devIn", Dev) /\ Err(t) = <<>>
  BY <1>1 DEF Typing
<1>3. /\ pc[t] = "idle" /\ ctx[t] = NoContext /\ Key(t) \in Keys
      /\ s = "locked" => HasRtnl(t, k)
      /\ s = "idle" => lock["rtnl"] # t
  BY <1>1, <1>2, KeyFacts DEF Standing
<1>4. UNCHANGED <<inUse, key>> /\ cached' \in [Vdevs -> Commands] /\ \A j : Lookup(j)' = Lookup(j)
  BY <1>0 DEF syncVars, HddInv, HddTypeOK, SyncTypeOK, Lookup
<1>5. \A n \in Lookup(Key(t)) :
        /\ n \in Node /\ key[n] = Key(t) /\ key[n] # None /\ n \in Table(Key(t))
        /\ With(t, n) \in [Keys -> Node \cup {None}] /\ With(t, n)[Key(t)] = n
        /\ \A j \in Keys : /\ With(t, n)[j] \in Table(j) \cup {None}
                           /\ j # Key(t) => With(t, n)[j] = None
  <2> SUFFICES ASSUME NEW n \in Lookup(Key(t))
               PROVE  /\ n \in Node /\ key[n] = Key(t) /\ key[n] # None /\ n \in Table(Key(t))
                      /\ With(t, n) \in [Keys -> Node \cup {None}] /\ With(t, n)[Key(t)] = n
                      /\ \A j \in Keys : /\ With(t, n)[j] \in Table(j) \cup {None}
                                         /\ j # Key(t) => With(t, n)[j] = None
    OBVIOUS
  <2>1. n \in Node /\ key[n] = Key(t) /\ key[n] # None /\ n \in Table(Key(t))
    BY <1>3, Leads
  <2>2. QED
    BY <2>1, <1>3, OwnContexts DEF NoContext
<1>6. ASSUME NEW n \in Lookup(Key(t)), TransStart(t, n), Continue(t, Rest(t), With(t, n))
      PROVE  [Next]_vars /\ HddInv'
  <2>1. Next /\ Data(t) /\ UNCHANGED <<attached, cds, tran, cur>> /\ pc'[t] = "trans" /\ at'[t] = n
    BY <1>0, <1>5, <1>6, TransStartData
  <2>2. Rest(t) # <<>>
    BY <1>2 DEF Goes
  <2>3. Flow(t) /\ prog'[t] = Rest(t) /\ ctx'[t] = With(t, n) /\ lock' = lock
    BY <2>2, <1>5, <1>6, FlowOn
  <2>4. \A u \in Threads : tran'[u] # "aborted"
    BY <2>1 DEF HddInv
  <2>5. CASE s = "locked"
    <3>1. Key(t) = k /\ Goes(Rest(t), "inside", k)
      BY <2>5, <1>2
    <3>2. HasRtnl(t, k)' /\ ctx'[t][k] = n
      BY <3>1, <2>3, <2>5, <1>3, <1>5, <1>6 DEF HasRtnl
    <3>3. Standing(t, "inside", k)'
      BY <3>1, <3>2, <2>1, <1>4, <1>6 DEF Standing, InTrans
    <3>4. Place(t, "inside", k)'
      BY <3>1, <3>3, <2>3, GoesOn
    <3>5. \A j \in NetDevs : ctx[t][j] \in inUse => key[ctx[t][j]] # None
      BY <1>3, NoneHidden
    <3>6. QED
      BY <3>4, <3>5, <2>1, <2>3, <2>4, <1>0, SectionStep DEF Situations
  <2>6. CASE s = "idle"
    <3>1. Key(t) = Dev /\ Goes(Rest(t), "devIn", Dev) /\ lock["rtnl"] # t
      BY <2>6, <1>2, <1>3
    <3>2. n \in Psocs
      BY <3>1, <1>5, <1>6, KeyFacts
    <3>3. Standing(t, "devIn", Dev)'
      BY <3>1, <3>2, <2>1, <2>3 DEF Standing, InTrans
    <3>4. Place(t, "devIn", Dev)'
      BY <3>1, <3>3, <2>3, GoesOn
    <3>5. QED
      BY <3>1, <3>4, <2>1, <2>3, <2>4, <1>0, SectionStep, KeyFacts DEF Situations
  <2>7. QED
    BY <2>5, <2>6, <1>2
<1>7. ASSUME Refused(t)
      PROVE  [Next]_vars /\ HddInv'
  <2>1. /\ UNCHANGED vars
        /\ \/ Lookup(Key(t)) = {} /\ Continue(t, Err(t), ctx[t])
           \/ \E n \in Lookup(Key(t)) : Continue(t, Err(t), With(t, n))
    BY <1>0, <1>3, <1>7, RefusedStart
  <2>2. PICK c : /\ Continue(t, Err(t), c)
                 /\ c = ctx[t] \/ \E n \in Lookup(Key(t)) : c = With(t, n)
    BY <2>1
  <2>3. CASE Err(t) = <<>>
    BY <2>1, <2>2, <2>3, <1>3, <1>4, EndOnly
  <2>4. CASE s = "locked" /\ Key(t) = k /\ Goes(Err(t), "refused", k)
    <3>1. /\ c \in [Keys -> Node \cup {None}] /\ \A j \in Keys : c[j] \in Table(j) \cup {None}
          /\ \A j \in Keys : j # k => c[j] = None
          /\ c[k] = None \/ c[k] \in Lookup(k)
      BY <2>2, <2>4, <1>3, <1>5, OwnContexts DEF NoContext
    <3>2. Flow(t) /\ prog'[t] = Err(t) /\ ctx'[t] = c /\ lock' = lock
      BY <3>1, <2>2, <2>4, FlowOn DEF Goes
    <3>3. HasRtnl(t, k)'
      BY <3>1, <3>2, <2>4, <1>3 DEF HasRtnl
    <3>4. UNCHANGED pc
      BY <2>1 DEF vars
    <3>5. Standing(t, "refused", k)'
      BY <3>1, <3>2, <3>3, <3>4, <1>3, <1>4 DEF Standing
    <3>6. Place(t, "refused", k)'
      BY <3>2, <3>5, <2>4, GoesOn
    <3>7. \A j \in NetDevs : ctx[t][j] \in inUse => key[ctx[t][j]] # None
      BY <1>3, NoneHidden
    <3>8. QED
      BY <3>2, <3>6, <3>7, <2>1, <1>4, FlowOnly DEF Situations
  <2>5. QED
    BY <2>3, <2>4, <1>2
<1>8. QED
  BY <1>0, <1>6, <1>7

\* An operation begins.
LEMMA EnterOpInv ==
  ASSUME HddInv, OnlyInterfaces, NEW t \in Threads, EnterOp(t)
  PROVE  [Next]_vars /\ HddInv'
<1>0. /\ At(t, "enterOp") /\ UNCHANGED syncVars
      /\ \/ \E n \in Lookup(Key(t)) : OpStart(t, n) /\ Continue(t, Rest(t), With(t, n))
         \/ Refused(t)
  BY DEF EnterOp
<1>1. PICK s \in Situations, k \in Keys :
        Standing(t, s, k) /\ Typing(s, k, "enterOp", Key(t), Err(t), Rest(t))
  BY <1>0, CallingAt
<1>2. Key(t) = k /\ s = "idle" /\ Goes(Rest(t), "inOp", k) /\ Err(t) = <<>>
  BY <1>1 DEF Typing
<1>3. pc[t] = "idle" /\ ctx[t] = NoContext /\ lock["rtnl"] # t
  BY <1>1, <1>2 DEF Standing
<1>4. UNCHANGED <<inUse, key>> /\ cached' \in [Vdevs -> Commands]
  BY <1>0 DEF syncVars, HddInv, HddTypeOK, SyncTypeOK
<1>5. ASSUME NEW n \in Lookup(k), OpStart(t, n), Continue(t, Rest(t), With(t, n))
      PROVE  [Next]_vars /\ HddInv'
  <2>1. n \in Node /\ key[n] # None /\ n \in Table(k)
    BY <1>5, Leads
  <2>2. /\ pc' = [pc EXCEPT ![t] = "op"] /\ at' = [at EXCEPT ![t] = n]
        /\ UNCHANGED <<attached, cds, tran, cur>>
    BY <1>5 DEF OpStart, BeginOp, Enter
  <2>3. pc \in [Threads -> Pcs] /\ at \in [Threads -> Node \cup {None}]
    BY DEF HddInv, IInv, TypeOK
  <2>4. Data(t) /\ pc'[t] = "op"
    BY <2>1, <2>2, <2>3, <1>4 DEF Data
  <2>5. Next
    BY <2>1, <1>5, Offered
  <2>6. /\ With(t, n) \in [Keys -> Node \cup {None}]
        /\ \A j \in Keys : With(t, n)[j] \in Table(j) \cup {None}
    BY <2>1, <1>2, OwnContexts
  <2>7. Flow(t) /\ prog'[t] = Rest(t) /\ ctx'[t] = With(t, n) /\ lock' = lock
    BY <2>6, <1>2, <1>5, FlowOn DEF Goes
  <2>8. Standing(t, "inOp", k)'
    BY <2>4, <2>7, <1>3 DEF Standing
  <2>9. Place(t, "inOp", k)'
    BY <2>7, <2>8, <1>2, GoesOn
  <2>10. \A u \in Threads : tran'[u] # "aborted"
    BY <2>2 DEF HddInv
  <2>11. QED
    BY <2>2, <2>4, <2>5, <2>7, <2>9, <2>10, <1>0, <1>3, SectionStep DEF Situations
<1>6. ASSUME Refused(t)
      PROVE  [Next]_vars /\ HddInv'
  <2>1. /\ UNCHANGED vars
        /\ \/ Lookup(Key(t)) = {} /\ Continue(t, Err(t), ctx[t])
           \/ \E n \in Lookup(Key(t)) : Continue(t, Err(t), With(t, n))
    BY <1>0, <1>2, <1>3, <1>6, RefusedStart
  <2>2. PICK c : Continue(t, Err(t), c)
    BY <2>1
  <2>3. QED
    BY <2>1, <2>2, <1>2, <1>3, <1>4, EndOnly
<1>7. QED
  BY <1>0, <1>2, <1>5, <1>6

\* An operation ends.
LEMMA LeaveOpInv ==
  ASSUME HddInv, OnlyInterfaces, NEW t \in Threads, LeaveOp(t)
  PROVE  [Next]_vars /\ HddInv'
<1>0. At(t, "leaveOp") /\ OpStop(t) /\ GoOn(t) /\ UNCHANGED syncVars
  BY DEF LeaveOp
<1>1. PICK s \in Situations, k \in Keys :
        Standing(t, s, k) /\ Typing(s, k, "leaveOp", Key(t), Err(t), Rest(t))
  BY <1>0, CallingAt
<1>2. s = "inOp" /\ Rest(t) = <<>>
  BY <1>1 DEF Typing
<1>3. pc[t] = "op" /\ lock["rtnl"] # t
  BY <1>1, <1>2 DEF Standing
<1>4. /\ pc' = [pc EXCEPT ![t] = "idle"] /\ at' = [at EXCEPT ![t] = None]
      /\ UNCHANGED <<attached, cds, tran, cur>>
  BY <1>0 DEF OpStop, EndOp, Leave
<1>5. pc \in [Threads -> Pcs] /\ at \in [Threads -> Node \cup {None}]
  BY DEF HddInv, IInv, TypeOK
<1>6. Data(t) /\ pc'[t] = "idle"
  BY <1>0, <1>4, <1>5 DEF Data, syncVars
<1>7. Next
  BY <1>0, <1>3, Attached, Offered
<1>8. Continue(t, Rest(t), ctx[t])
  BY <1>0 DEF GoOn
<1>9. Flow(t) /\ prog'[t] = <<>> /\ ctx'[t] = NoContext /\ lock'["rtnl"] # t
  BY <1>2, <1>8, FlowEnd
<1>10. Place(t, "idle", k)'
  BY <1>6, <1>9, Over
<1>11. \A u \in Threads : tran'[u] # "aborted"
  BY <1>4 DEF HddInv
<1>12. QED
  BY <1>0, <1>3, <1>4, <1>6, <1>7, <1>9, <1>10, <1>11, SectionStep DEF Situations

\* The wait for the operations begins.
LEMMA DrainInv ==
  ASSUME HddInv, OnlyInterfaces, NEW t \in Threads, Drain(t)
  PROVE  [Next]_vars /\ HddInv'
<1>0. At(t, "drain") /\ WaitForOps(t) /\ GoOn(t) /\ UNCHANGED syncVars
  BY DEF Drain
<1>1. PICK s \in Situations, k \in Keys :
        Standing(t, s, k) /\ Typing(s, k, "drain", Key(t), Err(t), Rest(t))
  BY <1>0, CallingAt
<1>2. \/ s = "unlisted" /\ Goes(Rest(t), "closed", k)
      \/ s = "devIn" /\ Goes(Rest(t), "devIn", Dev)
  BY <1>1 DEF Typing
<1>3. /\ pc[t] = "trans" /\ pc' = [pc EXCEPT ![t] = "walk"]
      /\ UNCHANGED <<attached, cds, tran, at, cur>>
  BY <1>0 DEF WaitForOps, treeVars
<1>4. pc \in [Threads -> Pcs]
  BY DEF HddInv, IInv, TypeOK
<1>5. UNCHANGED <<inUse, key>>
  BY <1>0 DEF syncVars
<1>6. Data(t) /\ pc'[t] = "walk"
  BY <1>3, <1>4, <1>5 DEF Data
<1>7. Next
  BY <1>0, Offered
<1>8. Flow(t) /\ prog'[t] = Rest(t) /\ ctx'[t] = ctx[t] /\ lock' = lock
  BY <1>0, <1>2, FlowRest DEF Goes, GoOn
<1>9. \A u \in Threads : tran'[u] # "aborted"
  BY <1>3 DEF HddInv
<1>10. CASE s = "unlisted"
  <2>1. Hidden(t, k) /\ at[t] = ctx[t][k]
    BY <1>1, <1>10 DEF Standing
  <2>2. Hidden(t, k)'
    BY <2>1, <1>5, <1>8 DEF Hidden, HasRtnl, Lookup
  <2>3. lock["rtnl"] = t
    BY <2>1, HeldEntry
  <2>4. Standing(t, "closed", k)'
    BY <2>1, <2>2, <1>3, <1>6, <1>8 DEF Standing, InTrans
  <2>5. Place(t, "closed", k)'
    BY <2>4, <1>2, <1>8, <1>10, GoesOn
  <2>6. QED
    BY <2>3, <2>5, <1>0, <1>3, <1>6, <1>7, <1>8, <1>9, SectionStep DEF Situations
<1>11. CASE s = "devIn"
  <2>1. lock["rtnl"] # t /\ k = Dev /\ at[t] \in Psocs
    BY <1>1, <1>3, <1>11 DEF Standing
  <2>2. Standing(t, "devIn", Dev)'
    BY <2>1, <1>3, <1>6, <1>8 DEF Standing, InTrans
  <2>3. Place(t, "devIn", Dev)'
    BY <2>2, <1>2, <1>8, <1>11, GoesOn
  <2>4. QED
    BY <2>1, <2>3, <1>0, <1>3, <1>6, <1>7, <1>8, <1>9, SectionStep, KeyFacts DEF Situations
<1>12. QED
  BY <1>2, <1>10, <1>11

\* A step of a walk over the operations.
LEMMA WalkData ==
  ASSUME HddInv, NEW t \in Threads, UNCHANGED syncVars,
         OpsWake(t) \/ \E n \in Node : DrainNode(t, n)
  PROVE  /\ Data(t) /\ pc[t] \in {"walk", "opsWait"} /\ pc'[t] \in {"walk", "opsWait", "quiet"}
         /\ UNCHANGED <<attached, tran, cds, at>>
<1>1. /\ pc \in [Threads -> Pcs] /\ cur \in [Threads -> Node \cup {None}]
      /\ UNCHANGED <<inUse, key>>
  BY DEF HddInv, IInv, TypeOK, syncVars
<1>2. CASE OpsWake(t)
  <2>1. /\ pc[t] = "opsWait" /\ cur' = [cur EXCEPT ![t] = None] /\ UNCHANGED <<attached, tran, cds, at>>
        /\ pc' = [pc EXCEPT ![t] = IF todo[t] \ {cur[t]} = {} THEN "quiet" ELSE "walk"]
    BY <1>2 DEF OpsWake, Passed
  <2>2. /\ \A u \in Threads \ {t} : pc'[u] = pc[u] /\ cur'[u] = cur[u]
        /\ pc'[t] \in {"walk", "quiet"} /\ cur'[t] = None
    BY <2>1, <1>1
  <2>3. QED
    BY <2>1, <2>2, <1>1 DEF Data
<1>3. ASSUME NEW n \in Node, DrainNode(t, n)
      PROVE  /\ Data(t) /\ pc[t] \in {"walk", "opsWait"} /\ pc'[t] \in {"walk", "opsWait", "quiet"}
             /\ UNCHANGED <<attached, tran, cds, at>>
  <2>1. /\ pc[t] = "walk" /\ UNCHANGED <<attached, tran, cds, at>>
        /\ \/ ops[n] > 0 /\ pc' = [pc EXCEPT ![t] = "opsWait"] /\ cur' = [cur EXCEPT ![t] = n]
           \/ /\ pc' = [pc EXCEPT ![t] = IF todo[t] \ {n} = {} THEN "quiet" ELSE "walk"]
              /\ cur' = cur
    BY <1>3 DEF DrainNode, Passed
  <2>2. /\ \A u \in Threads \ {t} : pc'[u] = pc[u] /\ cur'[u] = cur[u]
        /\ pc'[t] \in {"walk", "opsWait", "quiet"} /\ (cur'[t] = cur[t] \/ ops[cur'[t]] > 0)
    BY <2>1, <1>1
  <2>3. QED
    BY <2>1, <2>2, <1>1 DEF Data
<1>4. QED
  BY <1>2, <1>3

\* The walk of dsc_*_wait_for_ops goes on, waits, or is through.
LEMMA DrainStepInv ==
  ASSUME HddInv, OnlyInterfaces, NEW t \in Threads, DrainStep(t)
  PROVE  [Next]_vars /\ HddInv'
<1>0. (OpsWake(t) \/ \E n \in Node : DrainNode(t, n)) /\ UNCHANGED syncVars /\ UNCHANGED flowVars
  BY DEF DrainStep
<1>1. /\ Data(t) /\ pc[t] \in {"walk", "opsWait"} /\ pc'[t] \in {"walk", "opsWait", "quiet"}
      /\ UNCHANGED <<attached, tran, cds, at>>
  BY <1>0, WalkData
<1>2. Next
  BY <1>0, Offered
<1>3. Flow(t) /\ prog' = prog /\ ctx' = ctx /\ lock' = lock
  BY <1>0, FlowStay DEF flowVars
<1>4. PICK s \in Situations, k \in Keys : Place(t, s, k)
  BY DEF HddInv
<1>5. prog[t] \in Code(s, k) /\ Standing(t, s, k)
  BY <1>4 DEF Place
<1>6. s \in {"inside", "unlisted", "closed", "devIn"}
  BY <1>1, <1>5 DEF Standing, Situations
<1>7. UNCHANGED <<inUse, key>> /\ Lookup(k)' = Lookup(k)
  BY <1>0 DEF syncVars, Lookup
<1>8. (HasRtnl(t, k) <=> HasRtnl(t, k)') /\ (Hidden(t, k) <=> Hidden(t, k)')
  BY <1>3, <1>7 DEF HasRtnl, Hidden
<1>9. pc'[t] \in InTrans /\ pc'[t] # "trans" /\ pc[t] # "idle"
  BY <1>1 DEF InTrans
<1>10. Standing(t, s, k)'
  <2>1. CASE s = "inside"
    BY <2>1, <1>1, <1>3, <1>5, <1>7, <1>8, <1>9 DEF Standing
  <2>2. CASE s = "unlisted"
    BY <2>2, <1>1, <1>3, <1>5, <1>7, <1>8, <1>9 DEF Standing
  <2>3. CASE s = "closed"
    BY <2>3, <1>1, <1>3, <1>5, <1>7, <1>8, <1>9 DEF Standing
  <2>4. CASE s = "devIn"
    BY <2>4, <1>1, <1>3, <1>5, <1>9 DEF Standing
  <2>5. QED
    BY <2>1, <2>2, <2>3, <2>4, <1>6
<1>11. Place(t, s, k)'
  BY <1>3, <1>5, <1>10 DEF Place
<1>12. \A u \in Threads : tran'[u] # "aborted"
  BY <1>1 DEF HddInv
<1>13. lock["rtnl"] # t \/ (lock'["rtnl"] = t /\ ctx'[t] = ctx[t])
  BY <1>3
<1>14. QED
  BY <1>0, <1>1, <1>2, <1>3, <1>11, <1>12, <1>13, SectionStep

\* Whoever has closed an interface down, or has just made it, is alone on it
\* when its transition ends.
LEMMA LastOne ==
  ASSUME HddInv, OnlyInterfaces, NEW t \in Threads, NEW k \in Keys, Standing(t, "closed", k),
         pc[t] \in {"trans", "quiet"}, NEW u \in Threads
  PROVE  /\ u # t => at[u] # ctx[t][k]
         /\ cur[u] # ctx[t][k]
<1> DEFINE n == ctx[t][k]
<1>1. pc[t] \in InTrans /\ at[t] = n /\ Hidden(t, k) /\ (pc[t] = "trans" => Alone(t, n))
  BY DEF Standing
<1>2. n \in Node /\ n # None /\ key[n] = None /\ lock["rtnl"] = t
  BY <1>1, HeldEntry
<1>3. n \in Subtree(n)
  BY <1>2, SubtreeFacts
<1>4. ASSUME u # t, at[u] = n
      PROVE  FALSE
  <2>1. pc[t] = "quiet"
    BY <1>1, <1>4 DEF Alone
  <2>2. pc[u] # "idle" /\ pc[u] \in Pcs
    BY <1>2, <1>4 DEF HddInv, IInv, TypeOK, TreeShape
  <2>3. CASE pc[u] \in InTrans
    BY <2>3, <1>1, <1>2, <1>3, <1>4, TransApart DEF HddInv
  <2>4. CASE pc[u] = "op"
    <3>1. OpsAt(n) # {}
      BY <2>4, <1>4 DEF OpsAt
    <3>2. n \in todo[t] /\ todo[t] = {}
      BY <3>1, <2>1, <1>1, <1>3 DEF HddInv, IInv, WalkSound, InTrans
    <3>3. QED
      BY <3>2
  <2>5. CASE pc[u] = "tranWait"
    <3>1. PICK r \in Situations, j \in Keys : Place(u, r, j)
      BY DEF HddInv
    <3>2. Standing(u, r, j)
      BY <3>1 DEF Place
    <3>3. r \in {"found", "devFound"}
      BY <2>5, <3>2 DEF Standing, InTrans, Situations
    <3>4. at[u] \in Lookup(j)
      BY <2>5, <3>2, <3>3 DEF Standing
    <3>5. QED
      BY <3>4, <1>2, <1>4, Leads
  <2>6. QED
    BY <2>2, <2>3, <2>4, <2>5 DEF Pcs, InTrans
<1>5. ASSUME cur[u] = n
      PROVE  FALSE
  <2>1. pc[u] = "opsWait"
    BY <1>2, <1>5 DEF HddInv, IInv, WalkSound
  <2>2. n \in Subtree(at[u])
    BY <2>1, <1>5 DEF HddInv, IInv, WalkSound
  <2>3. pc[u] \in InTrans
    BY <2>1 DEF InTrans
  <2>4. u = t
    BY <2>2, <2>3, <1>1, <1>2, <1>3, TransApart DEF HddInv
  <2>5. QED
    BY <2>1, <2>4
<1>6. QED
  BY <1>4, <1>5

\* A transition ends, and others may start.
LEMMA StopTransInv ==
  ASSUME HddInv, OnlyInterfaces, NEW t \in Threads, StopTrans(t)
  PROVE  [Next]_vars /\ HddInv'
<1>0. At(t, "stop") /\ TransStop(t) /\ GoOn(t) /\ UNCHANGED syncVars
  BY DEF StopTrans
<1>1. PICK s \in Situations, k \in Keys :
        Standing(t, s, k) /\ Typing(s, k, "stop", Key(t), Err(t), Rest(t))
  BY <1>0, CallingAt
<1>2. \/ s = "inside" /\ Rest(t) = <<>>
      \/ s = "closed" /\ Goes(Rest(t), "made", k)
      \/ s = "devIn" /\ Rest(t) = <<>>
  BY <1>1 DEF Typing
<1>3. /\ pc[t] \in {"trans", "quiet"}
      /\ pc' = [pc EXCEPT ![t] = "idle"] /\ at' = [at EXCEPT ![t] = None]
      /\ UNCHANGED <<attached, cds, cur>>
  BY <1>0 DEF TransStop, EndTrans, Leave
<1>4. \A u \in Threads : tran'[u] = "granted" \/ tran'[u] = tran[u]
  BY <1>0 DEF TransStop, EndTrans
<1>5. pc \in [Threads -> Pcs] /\ at \in [Threads -> Node \cup {None}]
  BY DEF HddInv, IInv, TypeOK
<1>6. UNCHANGED <<inUse, key>>
  BY <1>0 DEF syncVars
<1>7. Data(t) /\ pc'[t] = "idle" /\ at'[t] = None
  BY <1>3, <1>5, <1>6 DEF Data
<1>8. Next
  BY <1>0, <1>3, Attached, Offered
<1>9. \A u \in Threads : tran'[u] # "aborted"
  BY <1>4 DEF HddInv
<1>10. Continue(t, Rest(t), ctx[t])
  BY <1>0 DEF GoOn
<1>11. CASE s \in {"inside", "devIn"}
  <2>1. Flow(t) /\ prog'[t] = <<>> /\ ctx'[t] = NoContext /\ lock'["rtnl"] # t
    BY <1>2, <1>10, <1>11, FlowEnd
  <2>2. Place(t, "idle", k)'
    BY <2>1, <1>7, Over
  <2>3. \/ lock["rtnl"] # t
        \/ HasRtnl(t, k) /\ ctx[t][k] \in Lookup(k)
    BY <1>1, <1>11 DEF Standing
  <2>4. \/ lock["rtnl"] # t
        \/ \A j \in NetDevs : ctx[t][j] \in inUse => key[ctx[t][j]] # None
    BY <2>3, NoneHidden
  <2>5. QED
    BY <2>1, <2>2, <2>4, <1>0, <1>3, <1>7, <1>8, <1>9, SectionStep DEF Situations
<1>12. CASE s = "closed"
  <2> DEFINE n == ctx[t][k]
  <2>1. Standing(t, "closed", k)
    BY <1>1, <1>12
  <2>2. at[t] = n /\ Hidden(t, k)
    BY <2>1 DEF Standing
  <2>3. n # None /\ lock["rtnl"] = t
    BY <2>2, HeldEntry
  <2>4. n \in attached
    <3>1. pc[t] # "idle"
      BY <1>3
    <3>2. QED
      BY <3>1, <2>2, Attached
  <2>5. Flow(t) /\ prog'[t] = Rest(t) /\ ctx'[t] = ctx[t] /\ lock' = lock
    BY <1>2, <1>10, <1>12, FlowRest DEF Goes
  <2>6. Hidden(t, k)'
    BY <2>2, <2>5, <1>6 DEF Hidden, HasRtnl, Lookup
  <2>7. \A u \in Threads : at'[u] # n /\ cur'[u] # n
    BY <2>1, <2>3, <1>3, <1>5, LastOne
  <2>8. Standing(t, "made", k)'
    BY <2>4, <2>5, <2>6, <2>7, <1>3, <1>7 DEF Standing, Nobody
  <2>9. Place(t, "made", k)'
    BY <2>5, <2>8, <1>2, <1>12, GoesOn
  <2>10. QED
    BY <2>3, <2>5, <2>9, <1>0, <1>3, <1>7, <1>8, <1>9, SectionStep DEF Situations
<1>13. QED
  BY <1>2, <1>11, <1>12

\* The DSC context of a new interface.
LEMMA CreateContextInv ==
  ASSUME HddInv, OnlyInterfaces, NEW t \in Threads, CreateContext(t)
  PROVE  [Next]_vars /\ HddInv'
<1>0. /\ At(t, "create")
      /\ \/ SyncCreate(Key(t), Context(t)) /\ GoOn(t)
         \/ Fail(t) /\ UNCHANGED <<vars, syncVars>>
  BY DEF CreateContext
<1>1. PICK s \in Situations, k \in Keys :
        Standing(t, s, k) /\ Typing(s, k, "create", Key(t), Err(t), Rest(t))
  BY <1>0, CallingAt
<1>2. Key(t) = k /\ s = "bare" /\ Goes(Rest(t), "made", k) /\ Goes(Err(t), "bare", k)
  BY <1>1 DEF Typing
<1> DEFINE n == ctx[t][k]
<1>3. pc[t] = "idle" /\ Hidden(t, k) /\ n \notin attached
  BY <1>1, <1>2 DEF Standing
<1>4. /\ lock["rtnl"] = t /\ key[n] = None /\ n \in Vdevs /\ n \in Node /\ n \in inUse /\ n # None
      /\ \A m \in inUse : key[m] = None => m = n
  BY <1>3, HeldEntry
<1>5. Context(t) = n
  BY <1>2 DEF Context
<1>6. ASSUME SyncCreate(Key(t), n), GoOn(t)
      PROVE  [Next]_vars /\ HddInv'
  <2>1. /\ Create(n) /\ UNCHANGED <<inUse, key>> /\ cached' = [cached EXCEPT ![n] = "NO_COMMAND"]
    BY <1>4, <1>6 DEF SyncCreate
  <2>2. attached' = attached \cup {n} /\ UNCHANGED <<tran, cds, pc, at, cur>>
    BY <2>1 DEF Create, CreateNode
  <2>3. Next
    BY <2>1, <1>4, Offered
  <2>4. Data(t)
    BY <2>1, <2>2, <1>4 DEF Data
  <2>5. Flow(t) /\ prog'[t] = Rest(t) /\ ctx'[t] = ctx[t] /\ lock' = lock
    BY <1>2, <1>6, FlowRest DEF Goes, GoOn
  <2>6. cached' \in [Vdevs -> Commands]
    BY <2>1 DEF HddInv, HddTypeOK, SyncTypeOK, Commands
  <2>7. SyncTypeOK'
    BY <2>1, <2>6 DEF HddInv, HddTypeOK, SyncTypeOK
  <2>8. EntryShape'
    BY <2>1, <2>2, <1>4 DEF EntryShape, HddInv
  <2>9. Held'
    BY <2>1, <2>5, <1>4, HeldKept
  <2>10. \A u \in Threads : at[u] # n
    <3> SUFFICES ASSUME NEW u \in Threads, at[u] = n PROVE FALSE
      OBVIOUS
    <3>1. pc[u] # "idle"
      BY <1>4 DEF HddInv, IInv, TreeShape
    <3>2. QED
      BY <3>1, <1>3, Attached
  <2>11. \A u \in Threads : cur[u] # n
    <3> SUFFICES ASSUME NEW u \in Threads, cur[u] = n PROVE FALSE
      OBVIOUS
    <3>1. pc[u] = "opsWait"
      BY <1>4 DEF HddInv, IInv, WalkSound
    <3>2. cur[u] \in attached
      BY <3>1 DEF HddInv, IInv, WalkSound
    <3>3. QED
      BY <3>2, <1>3
  <2>12. Hidden(t, k)'
    BY <2>1, <2>5, <1>3 DEF Hidden, HasRtnl, Lookup
  <2>13. Standing(t, "made", k)'
    BY <2>2, <2>5, <2>10, <2>11, <2>12, <1>3 DEF Standing, Nobody
  <2>14. Place(t, "made", k)'
    BY <2>5, <2>13, <1>2, GoesOn
  <2>15. "unloading" \notin cds' /\ \A u \in Threads : tran'[u] # "aborted"
    BY <2>2 DEF HddInv
  <2>16. HddInv'
    BY <2>3, <2>4, <2>5, <2>7, <2>8, <2>9, <2>14, <2>15, Conclude DEF Situations
  <2>17. QED
    BY <2>3, <2>16
<1>7. ASSUME Fail(t), UNCHANGED <<vars, syncVars>>
      PROVE  [Next]_vars /\ HddInv'
  <2>1. UNCHANGED <<inUse, key>> /\ UNCHANGED vars /\ cached' \in [Vdevs -> Commands]
        /\ UNCHANGED <<pc, at, cur, attached>>
    BY <1>7 DEF syncVars, vars, treeVars, HddInv, HddTypeOK, SyncTypeOK
  <2>2. Flow(t) /\ prog'[t] = Err(t) /\ ctx'[t] = ctx[t] /\ lock' = lock
    BY <1>2, <1>7, FlowRest DEF Goes, Fail
  <2>3. Standing(t, s, k)'
    BY <2>1, <2>2, <1>1, Stays
  <2>4. Place(t, s, k)'
    BY <2>2, <2>3, <1>2, GoesOn
  <2>5. QED
    BY <2>1, <2>2, <2>4, <1>4, FlowOnly
<1>8. QED
  BY <1>0, <1>5, <1>6, <1>7, Zenon

\* The DSC context goes: nobody is at it or asleep on it, nothing hangs below.
LEMMA MayGo ==
  ASSUME HddInv, NEW n \in Vdevs, Nobody(n)
  PROVE  MayDestroy(n) /\ \A u \in Threads : ~\E i \in DOMAIN queue[n] : queue[n][i] = u
<1>0. n \in Node
  BY KeyFacts
<1>1. attached \cap Descendants(n) = {}
  BY <1>0, TreeAssumption DEF Descendants, Ancestors, Node
<1>2. ops[n] = 0
  BY <1>0, NobodyOps DEF Nobody
<1>3. active[n] = None
  <2>1. active[n] \in Threads \cup {None}
    BY <1>0 DEF HddInv, IInv, TypeOK, TreeTypeOK
  <2>2. \A u \in Threads : active[n] = u => at[u] = n
    BY <1>0 DEF HddInv, IInv, GrantsHaveOwner
  <2>3. QED
    BY <2>1, <2>2 DEF Nobody
<1>4. \A u \in Threads : ~\E i \in DOMAIN queue[n] : queue[n][i] = u
  BY <1>0 DEF HddInv, IInv, QueueShape, Nobody
<1>5. QED
  BY <1>1, <1>2, <1>3, <1>4 DEF MayDestroy, Nobody

\* The flow destroys the context of its hidden entry, where nobody is left.
LEMMA DestroyContextInv ==
  ASSUME HddInv, OnlyInterfaces, NEW t \in Threads, DestroyContext(t)
  PROVE  [Next]_vars /\ HddInv'
<1>0. At(t, "destroy") /\ Detach(Context(t)) /\ GoOn(t) /\ UNCHANGED syncVars
  BY DEF DestroyContext
<1>1. PICK s \in Situations, k \in Keys :
        Standing(t, s, k) /\ Typing(s, k, "destroy", Key(t), Err(t), Rest(t))
  BY <1>0, CallingAt
<1>2. Key(t) = k /\ s = "made" /\ Goes(Rest(t), "bare", k)
  BY <1>1 DEF Typing
<1> DEFINE n == ctx[t][k]
<1>3. pc[t] = "idle" /\ Hidden(t, k) /\ n \in attached /\ Nobody(n)
  BY <1>1, <1>2 DEF Standing
<1>4. /\ lock["rtnl"] = t /\ key[n] = None /\ n \in Vdevs /\ n \in Node /\ n \in inUse /\ n # None
  BY <1>3, HeldEntry
<1>5. Detach(n)
  <2>1. Context(t) = n
    BY <1>2 DEF Context
  <2>2. QED
    BY <2>1, <1>0, Zenon
<1>6. /\ MayDestroy(n) /\ \A u \in Threads : ~\E i \in DOMAIN queue[n] : queue[n][i] = u
  BY <1>3, <1>4, MayGo
<1>7. Next
  BY <1>4, <1>5, <1>6, Offered DEF Destroy
<1>8. /\ attached' = attached \ {n} /\ UNCHANGED <<cds, at, cur>>
      /\ tran' = [u \in Threads |-> IF \E i \in DOMAIN queue[n] : queue[n][i] = u THEN "aborted" ELSE tran[u]]
      /\ pc' = [u \in Threads |-> IF pc[u] = "walk" /\ todo[u] = {n} THEN "quiet" ELSE pc[u]]
  BY <1>5 DEF Detach, DestroyNode
<1>9. UNCHANGED <<inUse, key, cached>>
  BY <1>0 DEF syncVars
<1>10. \A u \in Threads : pc'[u] = pc[u] \/ (pc[u] = "walk" /\ pc'[u] = "quiet")
  BY <1>8
<1>11. Data(t) /\ pc'[t] = "idle"
  BY <1>3, <1>4, <1>8, <1>9, <1>10 DEF Data
<1>12. Flow(t) /\ prog'[t] = Rest(t) /\ ctx'[t] = ctx[t] /\ lock' = lock
  BY <1>0, <1>2, FlowRest DEF Goes, GoOn
<1>13. SyncTypeOK'
  BY <1>9 DEF HddInv, HddTypeOK, SyncTypeOK
<1>14. EntryShape'
  BY <1>4, <1>8, <1>9 DEF EntryShape, HddInv
<1>15. Held'
  BY <1>4, <1>9, <1>12, HeldKept
<1>16. Hidden(t, k)'
  BY <1>3, <1>9, <1>12 DEF Hidden, HasRtnl, Lookup
<1>17. Standing(t, "bare", k)'
  BY <1>8, <1>11, <1>12, <1>16 DEF Standing
<1>18. Place(t, "bare", k)'
  BY <1>2, <1>12, <1>17, GoesOn
<1>19. "unloading" \notin cds' /\ \A u \in Threads : tran'[u] # "aborted"
  BY <1>6, <1>8 DEF HddInv
<1>20. HddInv'
  BY <1>7, <1>11, <1>12, <1>13, <1>14, <1>15, <1>18, <1>19, Conclude DEF Situations
<1>21. QED
  BY <1>7, <1>20

\* The recovering flag changes, for the callers of DSC to see.
LEMMA FlagStep ==
  ASSUME HddInv, OnlyInterfaces, NEW c, c \subseteq {"recovering"}, SetFlags(c)
  PROVE  [Next]_vars
<1>1. /\ cds' = c
      /\ UNCHANGED <<attached, active, queue, tran, ops, opsEvent, pc, at, cur, todo>>
  BY DEF SetFlags
<1>2. CASE c = cds
  BY <1>1, <1>2 DEF vars, treeVars
<1>3. CASE c # cds
  <2>1. c \in CdsStates \ {cds}
    BY <1>3 DEF OnlyInterfaces
  <2>2. CdsState
    BY <2>1, <1>1 DEF CdsState, SetCdsState
  <2>3. QED
    BY <2>2, Offered
<1>4. QED
  BY <1>2, <1>3

\* A flow goes on, at most a flag has changed.
LEMMA FlagOnly ==
  ASSUME HddInv, OnlyInterfaces, NEW t \in Threads, NEW c, c \subseteq {"recovering"}, SetFlags(c),
         NEW p, NEW s \in Situations, NEW k \in Keys, Goes(p, s, k), Continue(t, p, ctx[t]),
         Standing(t, s, k)
  PROVE  [Next]_vars /\ HddInv'
<1>1. [Next]_vars
  BY FlagStep
<1>2. /\ cds' = c
      /\ UNCHANGED <<attached, active, queue, tran, ops, opsEvent, pc, at, cur, todo>>
      /\ UNCHANGED <<inUse, key, cached>>
  BY DEF SetFlags, syncVars
<1>3. Flow(t) /\ prog'[t] = p /\ ctx'[t] = ctx[t] /\ lock' = lock
  BY FlowRest DEF Goes
<1>4. Data(t)
  BY <1>2 DEF Data
<1>5. Standing(t, s, k)'
  BY <1>2, <1>3, Stays
<1>6. Place(t, s, k)'
  BY <1>3, <1>5, GoesOn
<1>7. EntryShape' /\ SyncTypeOK'
  BY <1>2, ShapeKept DEF HddInv, HddTypeOK, SyncTypeOK
<1>8. Held'
  BY <1>2, <1>3, HeldKept
<1>9. "unloading" \notin cds' /\ \A u \in Threads : tran'[u] # "aborted"
  BY <1>2 DEF HddInv
<1>10. HddInv'
  BY <1>1, <1>3, <1>4, <1>6, <1>7, <1>8, <1>9, Conclude
<1>11. QED
  BY <1>1, <1>10

\* The flags that may be set.
LEMMA Flags ==
  ASSUME HddInv
  PROVE  cds \subseteq {"recovering"}
BY TreeAssumption DEF HddInv, IInv, TypeOK, TreeTypeOK

\* The firmware is down.
LEMMA SetFlagInv ==
  ASSUME HddInv, OnlyInterfaces, NEW t \in Threads, SetFlag(t)
  PROVE  [Next]_vars /\ HddInv'
<1>0. At(t, "set") /\ SetFlags(cds \cup {Key(t)}) /\ GoOn(t)
  BY DEF SetFlag
<1>1. PICK s \in Situations, k \in Keys :
        Standing(t, s, k) /\ Typing(s, k, "set", Key(t), Err(t), Rest(t))
  BY <1>0, CallingAt
<1>2. Key(t) = "recovering" /\ s = "idle" /\ Goes(Rest(t), s, k)
  BY <1>1 DEF Typing
<1>3. cds \cup {Key(t)} \subseteq {"recovering"}
  BY <1>2, Flags
<1>4. QED
  BY <1>0, <1>1, <1>2, <1>3, FlagOnly DEF GoOn

\* It is up again, or has failed.
LEMMA RecoveredInv ==
  ASSUME HddInv, OnlyInterfaces, NEW t \in Threads, Recovered(t)
  PROVE  [Next]_vars /\ HddInv'
<1>0. /\ At(t, "recovered")
      /\ \/ SetFlags(cds \ {"recovering"}) /\ GoOn(t)
         \/ Fail(t) /\ UNCHANGED <<vars, syncVars>>
  BY DEF Recovered
<1>1. PICK s \in Situations, k \in Keys :
        Standing(t, s, k) /\ Typing(s, k, "recovered", Key(t), Err(t), Rest(t))
  BY <1>0, CallingAt
<1>2. s = "devIn" /\ Goes(Rest(t), s, Dev) /\ Goes(Err(t), s, Dev)
  BY <1>1 DEF Typing
<1>3. k = Dev
  BY <1>1, <1>2 DEF Standing
<1>4. cds \ {"recovering"} \subseteq {"recovering"} /\ cds \subseteq {"recovering"}
  BY Flags
<1>5. UNCHANGED <<vars, syncVars>> => SetFlags(cds)
  BY DEF SetFlags, vars, treeVars
<1>6. CASE SetFlags(cds \ {"recovering"}) /\ GoOn(t)
  BY <1>1, <1>2, <1>3, <1>4, <1>6, FlagOnly DEF GoOn
<1>7. CASE Fail(t) /\ UNCHANGED <<vars, syncVars>>
  BY <1>1, <1>2, <1>3, <1>4, <1>5, <1>7, FlagOnly DEF Fail
<1>8. QED
  BY <1>0, <1>6, <1>7

\* Calls that no flow of the interfaces makes.
LEMMA NotCalled ==
  ASSUME HddInv, NEW t \in Threads
  PROVE  ~(ReleaseLock(t) \/ SetHook(t) \/ Settle(t) \/ CloseAll(t) \/ ClearFlag(t))
<1>1. ASSUME NEW call \in {"release", "hook", "unhook", "settle", "closeAll", "clear"}, At(t, call)
      PROVE  FALSE
  <2>1. PICK s \in Situations, k \in Keys : Typing(s, k, call, Key(t), Err(t), Rest(t))
    BY <1>1, CallingAt
  <2>2. QED
    BY <2>1, <1>1 DEF Typing
<1>2. QED
  BY <1>1 DEF ReleaseLock, SetHook, Settle, CloseAll, ClearFlag

-----------------------------------------------------------------------------
(* The invariant. *)

\* In the beginning the entries of the driver and of the psocs are there.
LEMMA InitHddInv == OnlyInterfaces /\ HddInit => HddInv
<1> SUFFICES ASSUME OnlyInterfaces, HddInit PROVE HddInv
  OBVIOUS
<1>1. IInv
  BY InitIInv DEF HddInit
<1>2. /\ attached = Node \ Hotplug /\ inUse = attached /\ cds = {}
      /\ tran = [t \in Threads |-> "none"] /\ pc = [t \in Threads |-> "idle"]
      /\ key = [n \in Node |-> IF n = Driver /\ n \in attached THEN Driver
                               ELSE IF n \in Psocs \cap attached THEN Dev ELSE None]
      /\ cached = [n \in Vdevs |-> "NO_COMMAND"]
      /\ prog = [t \in Threads |-> <<>>]
      /\ ctx = [t \in Threads |-> NoContext]
      /\ lock = [l \in Locks |-> None]
      /\ hooks \subseteq Hooks
  BY DEF HddInit, Init, TreeInit, SyncInit, NoContext
<1>3. HddTypeOK
  BY <1>1, <1>2, KeyFacts DEF HddTypeOK, SyncTypeOK, IInv, Commands, NoContext, Keys
<1>4. \A n \in attached : n \in Node /\ n \notin Vdevs /\ (n # Driver => n \in Psocs)
  BY <1>2 DEF OnlyInterfaces, Node
<1>5. EntryShape
  BY <1>2, <1>4, KeyFacts, TreeAssumption DEF EntryShape
<1>6. Held
  <2>1. \A n \in inUse : key[n] # None
    BY <1>2, <1>4, KeyFacts DEF Keys
  <2>2. QED
    BY <2>1 DEF Held
<1>7. \A t \in Threads : Place(t, "idle", Dev)
  BY <1>2, TreeAssumption DEF Place, Standing, Code, Locks
<1>8. \A t \in Threads : \E s \in Situations, k \in Keys : Place(t, s, k)
  BY <1>7, KeyFacts DEF Situations
<1>9. QED
  BY <1>1, <1>2, <1>3, <1>5, <1>6, <1>8 DEF HddInv, NoContext

\* Every step of a flow keeps the invariant, and is a step of DSC.
LEMMA StepHddInv ==
  ASSUME HddInv, OnlyInterfaces, HddNext
  PROVE  [Next]_vars /\ HddInv'
<1>1. PICK t \in Threads : Start(t) \/ Step(t)
  BY DEF HddNext
<1>2. CASE Start(t)
  BY <1>2, StartInv
<1>3. CASE AcquireLock(t) \/ ReleaseLock(t) \/ Called(t) \/ SetHook(t) \/ Body(t)
  BY <1>3, AcquireInv, CalledInv, BodyInv, NotCalled
<1>4. CASE Get(t) \/ CreateContext(t) \/ BeginOwn(t) \/ Register(t) \/ Unregister(t)
  BY <1>4, GetInv, CreateContextInv, BeginOwnInv, RegisterInv, UnregisterInv
<1>5. CASE Find(t) \/ Wait(t) \/ Wake(t) \/ EnterTrans(t) \/ EnterOp(t) \/ LeaveOp(t)
  BY <1>5, FindInv, WaitInv, WakeInv, EnterTransInv, EnterOpInv, LeaveOpInv
<1>6. CASE Drain(t) \/ DrainStep(t) \/ Settle(t) \/ StopTrans(t)
  BY <1>6, DrainInv, DrainStepInv, NotCalled, StopTransInv
<1>7. CASE DestroyContext(t) \/ PutEntry(t) \/ CloseAll(t)
  BY <1>7, DestroyContextInv, PutInv, NotCalled
<1>8. CASE SetFlag(t) \/ ClearFlag(t) \/ Shutdown(t) \/ Resume(t) \/ Recovered(t) \/ Replay(t)
  BY <1>8, SetFlagInv, NotCalled, ShutdownInv, ResumeInv, RecoveredInv, ReplayInv
<1>9. CASE Opened(t) \/ Remember(t)
  BY <1>9, OpenedInv, RememberInv
<1>10. QED
  BY <1>1, <1>2, <1>3, <1>4, <1>5, <1>6, <1>7, <1>8, <1>9 DEF Step

\* A step that changes nothing.
LEMMA StutterHddInv ==
  ASSUME HddInv, UNCHANGED hddVars
  PROVE  [Next]_vars /\ HddInv'
<1>1. UNCHANGED vars /\ UNCHANGED <<attached, active, queue, tran, ops, opsEvent, cds, pc, at, cur, todo>>
      /\ UNCHANGED <<inUse, key, cached, prog, ctx, lock, hooks>>
  BY DEF hddVars, vars, treeVars, syncVars, flowVars
<1>2. IInv'
  BY <1>1, NextIInv DEF HddInv
<1>3. HddTypeOK'
  BY <1>1, <1>2 DEF HddInv, HddTypeOK, SyncTypeOK, IInv
<1>4. EntryShape' /\ Held'
  BY <1>1 DEF HddInv, EntryShape, Held
<1>5. \A t \in Threads : \E s \in Situations, k \in Keys : Place(t, s, k)'
  <2> SUFFICES ASSUME NEW t \in Threads PROVE \E s \in Situations, k \in Keys : Place(t, s, k)'
    OBVIOUS
  <2>1. PICK s \in Situations, k \in Keys : Place(t, s, k)
    BY DEF HddInv
  <2>2. prog[t] \in Code(s, k) /\ Standing(t, s, k)
    BY <2>1 DEF Place
  <2>3. Standing(t, s, k)'
    BY <2>2, <1>1, Stays
  <2>4. Place(t, s, k)'
    BY <2>2, <2>3, <1>1 DEF Place
  <2>5. QED
    BY <2>4
<1>6. QED
  BY <1>1, <1>2, <1>3, <1>4, <1>5 DEF HddInv

\* A granted transition shuts out every other on the path through its node,
\* and on the node itself.
LEMMA GrantedApart ==
  ASSUME HddInv, NEW t \in Threads, NEW u \in Threads, t # u,
         pc[t] \in InTrans,
         pc[u] \in InTrans \/ (pc[u] = "tranWait" /\ tran[u] = "granted"),
         at[u] \in Subtree(at[t])
  PROVE  FALSE
<1>1. at[t] \in Node /\ at[u] \in Node
  <2>1. pc[t] # "idle" /\ pc[u] # "idle"
    BY DEF InTrans
  <2>2. QED
    BY <2>1, Attached
<1>2. active[at[t]] = t /\ active[at[u]] = u
  BY <1>1 DEF HddInv, IInv, GrantsHaveOwner, Waiting
<1>3. at[u] # at[t]
  BY <1>2
<1>4. at[u] \in Descendants(at[t])
  BY <1>3 DEF Subtree
<1>5. Related(at[t], at[u])
  BY <1>4, <1>1 DEF Descendants, Related
<1>6. active[at[t]] = None \/ active[at[u]] = None
  BY <1>1, <1>5 DEF HddInv, IInv, TransExclusion
<1>7. QED
  BY <1>2, <1>6, TreeAssumption

-----------------------------------------------------------------------------
(* What follows from it. *)

\* The flows that bring interfaces up and down, run operations on them and
\* recover the firmware keep the inductive invariant.
THEOREM HddInvariance == OnlyInterfaces /\ HddSpec => []HddInv
<1> SUFFICES ASSUME OnlyInterfaces PROVE HddSpec => []HddInv
  OBVIOUS
<1>1. HddInit => HddInv
  BY InitHddInv
<1>2. HddInv /\ [HddNext]_hddVars => HddInv'
  BY StepHddInv, StutterHddInv
<1>3. QED
  BY <1>1, <1>2, PTL DEF HddSpec

\* The tables, the locks, the caches and what each flow keeps hold values of
\* their types.
THEOREM HddTypeCorrect == OnlyInterfaces /\ HddSpec => []HddTypeOK
<1>1. HddInv => HddTypeOK
  BY DEF HddInv
<1>2. QED
  BY <1>1, HddInvariance, PTL

\* Whoever is in a transition or an operation, or waits for one, has its DSC
\* node and its table entry: osif_vdev_sync_destroy and osif_vdev_sync_put
\* take neither from under it.
THEOREM SectionsLive == OnlyInterfaces /\ HddSpec => []SectionLive
<1>1. HddInv => SectionLive
  BY Attached DEF SectionLive
<1>2. QED
  BY <1>1, HddInvariance, PTL

\* osif_vdev_sync_find and osif_psoc_sync_find come upon one entry at most,
\* and its DSC context is there.
THEOREM KeysLeadThere == OnlyInterfaces /\ HddSpec => []KeysLead
<1> SUFFICES ASSUME OnlyInterfaces PROVE HddSpec => []KeysLead
  OBVIOUS
<1>1. HddInv => KeysLead
  BY Leads DEF KeysLead
<1>2. QED
  BY <1>1, HddInvariance, PTL

\* No path of wlan_hdd_add_virtual_intf and wlan_hdd_del_virtual_intf, the
\* error paths included, leaves an entry in use that is neither registered
\* nor held by a flow.
THEOREM NoEntryLost == OnlyInterfaces /\ HddSpec => []EntriesHeld
<1>1. HddInv => EntriesHeld
  BY KeyFacts DEF HddInv, Held, EntriesHeld
<1>2. QED
  BY <1>1, HddInvariance, PTL

\* After dsc_*_wait_for_ops a flow has the subtree to itself: no transition,
\* operation or granted waiter of another flow is left in it.
THEOREM ClosedQuiet == OnlyInterfaces /\ HddSpec => []ClosedIsQuiet
<1>1. HddInv => ClosedIsQuiet
  <2> SUFFICES ASSUME HddInv, NEW t \in Threads, NEW u \in Threads, pc[t] = "quiet", t # u,
                      pc[u] # "idle", tran[u] # "queued", at[u] \in Subtree(at[t])
               PROVE  FALSE
    BY DEF ClosedIsQuiet
  <2>1. pc[t] \in InTrans
    BY DEF InTrans
  <2>2. pc[u] = "op" \/ pc[u] = "tranWait" \/ pc[u] \in InTrans
    BY DEF HddInv, IInv, TypeOK, Pcs, InTrans
  <2>3. CASE pc[u] = "op"
    <3>1. u \in OpsAt(at[u])
      BY <2>3 DEF OpsAt
    <3>2. at[u] \in todo[t] /\ todo[t] = {}
      BY <3>1, <2>1 DEF HddInv, IInv, WalkSound
    <3>3. QED
      BY <3>2
  <2>4. CASE pc[u] = "tranWait"
    <3>1. tran[u] = "granted"
      BY <2>4 DEF HddInv, IInv, QueueShape, Waiting, TypeOK, TreeTypeOK
    <3>2. QED
      BY <2>1, <2>4, <3>1, GrantedApart
  <2>5. CASE pc[u] \in InTrans
    BY <2>1, <2>5, GrantedApart
  <2>6. QED
    BY <2>2, <2>3, <2>4, <2>5
<1>2. QED
  BY <1>1, HddInvariance, PTL

\* Every flow keeps what DSC demands of its callers: each of its calls is a
\* step of the DSC module, made where that module allows it.
THEOREM UsedRight == OnlyInterfaces /\ HddSpec => DscUsedRight
<1> SUFFICES ASSUME OnlyInterfaces PROVE HddSpec => DscUsedRight
  OBVIOUS
<1>1. HddInv /\ [HddNext]_hddVars => [Next]_vars
  BY StepHddInv, StutterHddInv
<1>2. QED
  BY <1>1, HddInvariance, PTL DEF HddSpec, DscUsedRight

\* So the flows implement the specification of DSC, and what is proved of it
\* holds in the driver as they use it.
THEOREM ImplementsDsc == OnlyInterfaces /\ HddSpec => Spec
<1>1. HddInit => Init
  BY DEF HddInit
<1>2. QED
  BY <1>1, UsedRight, PTL DEF HddSpec, Spec, DscUsedRight

\* For one: a transition that waits for its turn is never forgotten while
\* these flows run.
THEOREM NoFlowForgotten == OnlyInterfaces /\ HddSpec => []QueueHasBlocker
BY ImplementsDsc, NoForgottenWaiter, PTL

=============================================================================
