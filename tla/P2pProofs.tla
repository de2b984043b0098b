----------------------------- MODULE P2pProofs -----------------------------
(***************************************************************************)
(* P2p for any number of requests, frames, vdevs, commands under way and   *)
(* failures: its four invariants.                                          *)
(*                                                                         *)
(* The inductive invariant P2pInv is in two parts that share no state: the *)
(* requests (roc_q and the contexts in it, RocOK) and the frames (tx_q_roc *)
(* and tx_q_ack, TxOK).  A handler is a composition of calls that each     *)
(* touch one of them, so there is one lemma per call, of the part that it  *)
(* changes, and the handlers follow.                                       *)
(***************************************************************************)
EXTENDS P2p, QueueLemmas, SequenceTheorems, TLAPS

\* The channels and vdevs that users name.
Chans == {q.chan : q \in RocReqs} \cup {f.chan : f \in Frames} \cup {Nil}
Vifs == {q.link : q \in RocReqs} \cup {f.link : f \in Frames} \cup {Nil}

\* The states of a request from the start of its scan to its end.
AirStates == {"REQUESTED", "STARTED", "ON_CHAN", "CANCEL_IN_PROG"}

\* struct p2p_roc_context
RocCtx == [st : {"FREE", "POSTED", "IDLE"} \cup AirStates, id : Rocs \cup Txs \cup {Nil},
           link : Vifs, chan : Chans, tx : Txs \cup {Nil}, timer : {"none", "stopped", "running"}]

\* struct tx_action_context
TxCtx == [st : {"FREE", "USED"}, link : Vifs, chan : Chans, noAck : {f.noAck : f \in Frames} \cup {FALSE},
          roc : Rocs \cup {Nil}, timer : {"none", "stopped", "running"}]

\* struct p2p_soc_priv_obj, with any queues.
Soc == [rocQ : Seq(Rocs), txQRoc : Seq(Txs), txQAck : Seq(Txs), ids : SUBSET (Rocs \cup Txs),
        roc : [Rocs -> RocCtx], tx : [Txs -> TxCtx], awake : BOOLEAN, rx : {"off", "on", "refused"},
        cleaner : Links \cup {Nil}, cleanupDone : BOOLEAN]

\* The commands user threads post.
Commands ==
  [op : {"roc", "cancelRoc"}, arg : Rocs] \cup [op : {"tx", "cancelTx"}, arg : Txs]
    \cup [op : {"cleanupRoc", "cleanupTx"}, arg : Links]

\* Every variable holds values of its type.
P2pTypeOK ==
  /\ soc \in Soc
  /\ cmds \in Seq(Commands)
  /\ scans \in Seq({"queued", "started", "foreign"})
  /\ expired \in Nat /\ failed \in Nat

\* Nothing is in q twice.
Injective(q) == \A i, j \in DOMAIN q : q[i] = q[j] => i = j

\* The requests that were processed, those that are in a message, and those
\* in the queue that are on air.
Alloc(s) == {r \in Rocs : s.roc[r].st \notin {"FREE", "POSTED"}}
Posted(s) == {r \in Rocs : s.roc[r].st = "POSTED"}
Busy(s) == {r \in In(s.rocQ) : s.roc[r].st # "IDLE"}

\* The queue of requests: only its head may be on air, and what is in it is
\* what was processed.  Between two calls of a handler this is so before the
\* runtime lock is.
RocShape(s) ==
  /\ Injective(s.rocQ)
  /\ \A r \in Busy(s) : r = Head(s.rocQ)
  /\ Alloc(s) = In(s.rocQ)

\* The same between two handlers.
RocOK(s) == RocShape(s) /\ (Busy(s) # {} => s.awake /\ s.rx # "off")

\* The frames that are allocated are those in the messages C and in the two
\* queues, each in one of them.  tx_q_roc holds none twice: p2p_ready_to_tx_frame
\* would send and free it and then keep it in tx_q_ack.
Used(s) == {x \in Txs : s.tx[x].st = "USED"}
TxOK(s, C) ==
  /\ Injective(s.txQRoc)
  /\ Used(s) = C \cup In(s.txQRoc) \cup In(s.txQAck)
  /\ C \cap In(s.txQRoc) = {} /\ C \cap In(s.txQAck) = {} /\ In(s.txQRoc) \cap In(s.txQAck) = {}

\* What the commands cs of one kind carry, and that they carry it once.
Args(cs, op) == {cs[i].arg : i \in {j \in DOMAIN cs : cs[j].op = op}}
Once(cs) == \A i, j \in DOMAIN cs : cs[i] = cs[j] /\ cs[i].op \in {"roc", "tx"} => i = j

\* The queue moves.
Moving(s, sc) == s.rocQ # <<>> => Busy(s) # {} /\ sc # <<>>

\* The inductive invariant.
P2pInv ==
  /\ P2pTypeOK
  /\ RocOK(soc) /\ Posted(soc) = Args(cmds, "roc")
  /\ TxOK(soc, Args(cmds, "tx"))
  /\ Once(cmds)
  /\ failed = 0 => Moving(soc, scans)

-----------------------------------------------------------------------------
(* Queues. *)

\* A queue and the set of what is in it.
LEMMA InQueue ==
  ASSUME NEW T, NEW q \in Seq(T)
  PROVE  In(q) \subseteq T /\ (q = <<>> <=> In(q) = {}) /\ (q # <<>> => Head(q) \in In(q))
<1>1. DOMAIN q = 1 .. Len(q) /\ Len(q) \in Nat /\ \A i \in DOMAIN q : q[i] \in T
  OBVIOUS
<1>2. In(q) \subseteq T
  BY <1>1 DEF In
<1>3. ASSUME q # <<>> PROVE Head(q) \in In(q)
  <2>1. 1 \in DOMAIN q /\ Head(q) = q[1]
    BY <1>3
  <2>2. QED
    BY <2>1 DEF In
<1>4. q = <<>> => In(q) = {}
  BY DEF In
<1>5. QED
  BY <1>2, <1>3, <1>4

\* What qdf_list_remove_node leaves.
LEMMA InWithout ==
  ASSUME NEW T, NEW q \in Seq(T), NEW S
  PROVE  /\ Without(q, S) \in Seq(T)
         /\ In(Without(q, S)) = In(q) \ S
         /\ Injective(q) => Injective(Without(q, S))
         /\ q # <<>> /\ Head(q) \notin S => Head(Without(q, S)) = Head(q)
<1> DEFINE K == In(q) \ S
           w == Select(q, K)
<1>1. Without(q, S) = w
  BY DEF Without
<1> HIDE DEF K
<1>2. w \in Seq(T)
  BY SelectSeqOf
<1>3. /\ \A k \in DOMAIN w : w[k] \in K /\ \E i \in DOMAIN q : q[i] = w[k]
      /\ \A i \in DOMAIN q : q[i] \in K => \E k \in DOMAIN w : w[k] = q[i]
  BY SelectElements
<1>4. In(w) = In(q) \cap K
  <2> HIDE DEF w
  <2>1. QED
    BY <1>3 DEF In
<1>5. ASSUME Injective(q) PROVE Injective(w)
  BY <1>5, SelectInjective DEF Injective
<1>6. ASSUME q # <<>>, Head(q) \notin S PROVE Head(w) = Head(q)
  <2>1. Head(q) \in K /\ Head(q) \in T /\ Tail(q) \in Seq(T)
    BY <1>6, InQueue DEF K
  <2>2. w = <<Head(q)>> \o Select(Tail(q), K)
    BY <1>6, <2>1, SelectTail
  <2>3. Select(Tail(q), K) \in Seq(T)
    BY <2>1, SelectSeqOf
  <2>4. QED
    BY <2>1, <2>2, <2>3
<1> HIDE DEF w
<1>7. QED
  BY <1>1, <1>2, <1>4, <1>5, <1>6 DEF K

\* What qdf_list_insert_back leaves.
LEMMA InAppend ==
  ASSUME NEW T, NEW q \in Seq(T), NEW x \in T
  PROVE  /\ Append(q, x) \in Seq(T) /\ Append(q, x) # <<>>
         /\ In(Append(q, x)) = In(q) \cup {x}
         /\ Injective(q) /\ x \notin In(q) => Injective(Append(q, x))
         /\ Head(Append(q, x)) = IF q = <<>> THEN x ELSE Head(q)
         /\ Len(Append(q, x)) = 1 <=> q = <<>>
<1> DEFINE a == Append(q, x)
           n == Len(q)
<1>1. /\ a \in Seq(T) /\ a # <<>> /\ n \in Nat /\ DOMAIN q = 1 .. n /\ DOMAIN a = 1 .. n + 1 /\ a[n + 1] = x
      /\ Len(a) = n + 1 /\ (n = 0 <=> q = <<>>) /\ \A i \in 1 .. n : a[i] = q[i]
  OBVIOUS
<1>2. Head(a) = a[1] /\ (q # <<>> => Head(q) = q[1])
  BY <1>1
<1> HIDE DEF a, n
<1>3. In(a) = In(q) \cup {x}
  <2>1. In(a) \subseteq In(q) \cup {x}
    BY <1>1 DEF In
  <2>2. In(q) \subseteq In(a) /\ x \in In(a)
    BY <1>1 DEF In
  <2>3. QED
    BY <2>1, <2>2
<1>4. ASSUME Injective(q), x \notin In(q) PROVE Injective(a)
  BY <1>1, <1>4 DEF In, Injective
<1>5. Head(a) = IF q = <<>> THEN x ELSE Head(q)
  BY <1>1, <1>2
<1>6. QED
  BY <1>1, <1>3, <1>4, <1>5 DEF a

\* What two queues hold together.
LEMMA InConcat == ASSUME NEW T, NEW q \in Seq(T), NEW a \in Seq(T) PROVE In(q \o a) = In(q) \cup In(a)
<1> DEFINE c == q \o a
           m == Len(q)
           n == Len(a)
<1>1. /\ m \in Nat /\ n \in Nat /\ DOMAIN q = 1 .. m /\ DOMAIN a = 1 .. n /\ DOMAIN c = 1 .. m + n
      /\ (\A i \in 1 .. m : c[i] = q[i]) /\ (\A i \in m + 1 .. m + n : c[i] = a[i - m])
  OBVIOUS
<1> HIDE DEF c, m, n
<1>2. In(c) \subseteq In(q) \cup In(a)
  <2>1. \A i \in 1 .. m + n : i \in 1 .. m \/ (i \in m + 1 .. m + n /\ i - m \in 1 .. n)
    BY <1>1
  <2>2. QED
    BY <1>1, <2>1 DEF In
<1>3. In(q) \subseteq In(c)
  <2>1. \A i \in 1 .. m : i \in 1 .. m + n
    BY <1>1
  <2>2. QED
    BY <1>1, <2>1 DEF In
<1>4. In(a) \subseteq In(c)
  <2>1. \A i \in 1 .. n : i + m \in m + 1 .. m + n /\ i + m \in 1 .. m + n /\ (i + m) - m = i
    BY <1>1
  <2>2. \A i \in 1 .. n : c[i + m] = a[i]
    BY <1>1, <2>1
  <2>3. QED
    BY <1>1, <2>1, <2>2 DEF In
<1>5. QED
  BY <1>2, <1>3, <1>4 DEF c

-----------------------------------------------------------------------------
(* Calls that change the requests. *)

\* What a call leaves alone when it is about requests, and when it is about
\* frames.
TxSame(s, t) == t.tx = s.tx /\ t.txQRoc = s.txQRoc /\ t.txQAck = s.txQAck
RocSame(s, t) == t.roc = s.roc /\ t.rocQ = s.rocQ /\ t.awake = s.awake /\ t.rx = s.rx

\* Freed memory.
LEMMA FreeFields == /\ FreeRoc \in RocCtx /\ FreeRoc.st = "FREE"
                    /\ FreeTx \in TxCtx /\ FreeTx.st = "FREE"
BY DEF FreeRoc, FreeTx, RocCtx, TxCtx, Chans, Vifs

\* p2p_find_current_roc_ctx finds the head, if it is on air.
LEMMA CurrentIs ==
  ASSUME NEW s \in Soc, RocShape(s)
  PROVE  \/ Current(s) = Nil /\ Busy(s) = {}
         \/ /\ Current(s) \in Rocs /\ Current(s) # Nil /\ Busy(s) = {Current(s)}
            /\ s.rocQ # <<>> /\ Current(s) = Head(s.rocQ)
<1> DEFINE q == s.rocQ
           S == {r \in Rocs : s.roc[r].st # "IDLE"}
           hits == Select(q, S)
<1>1. q \in Seq(Rocs)
  BY DEF Soc
<1>2. Current(s) = IF hits = <<>> THEN Nil ELSE Head(hits)
  BY DEF Current, First
<1>3. Busy(s) = In(q) \cap S
  BY <1>1, InQueue DEF Busy
<1> HIDE DEF S, q
<1>4. hits = <<>> <=> \A i \in DOMAIN q : q[i] \notin S
  BY <1>1, SelectEmpty
<1>5. CASE hits = <<>>
  BY <1>2, <1>3, <1>4, <1>5 DEF In
<1>6. CASE hits # <<>>
  <2>1. PICK i \in DOMAIN q : Head(hits) = q[i] /\ q[i] \in S
    BY <1>1, <1>6, SelectHead
  <2> HIDE DEF hits
  <2>2. Current(s) \in Busy(s) /\ Current(s) \in Rocs
    BY <1>1, <1>2, <1>3, <1>6, <2>1 DEF In
  <2>3. \A r \in Busy(s) : r = Head(q)
    BY DEF RocShape, q
  <2>4. q # <<>>
    BY <1>1, <1>3, <2>2, InQueue
  <2>5. QED
    BY <2>2, <2>3, <2>4, P2pAssumption DEF q
<1>7. QED
  BY <1>5, <1>6

\* p2p_destroy_roc_ctx, by its fields...
LEMMA DestroyFields ==
  ASSUME NEW s \in Soc, NEW r \in Rocs
  PROVE  LET t == DestroyRoc(s, r)
         IN  /\ t \in Soc /\ TxSame(s, t) /\ t.awake = s.awake /\ t.rx = s.rx
             /\ t.rocQ = Without(s.rocQ, {r}) /\ t.roc = [s.roc EXCEPT ![r] = FreeRoc]
<1> DEFINE t == DestroyRoc(s, r)
           q == Without(s.rocQ, {r})
           i == s.ids \ {s.roc[r].id}
           f == [s.roc EXCEPT ![r] = FreeRoc]
<1>1. t = [s EXCEPT !.rocQ = q, !.ids = i, !.roc = f]
  BY Zenon DEF DestroyRoc
<1>2. q \in Seq(Rocs)
  BY InWithout DEF Soc
<1>3. i \in SUBSET (Rocs \cup Txs)
  BY DEF Soc
<1>4. f \in [Rocs -> RocCtx]
  BY FreeFields DEF Soc
<1> HIDE DEF t, q, i, f
<1>5. t \in Soc /\ TxSame(s, t) /\ t.awake = s.awake /\ t.rx = s.rx /\ t.rocQ = q /\ t.roc = f
  BY <1>1, <1>2, <1>3, <1>4 DEF Soc, TxSame
<1>6. QED
  BY <1>5 DEF t, q, f

\* ...and what it leaves of a well-formed queue.
LEMMA Destroyed ==
  ASSUME NEW s \in Soc, RocShape(s), NEW r \in In(s.rocQ), NEW t,
         t.rocQ = Without(s.rocQ, {r}), t.roc = [s.roc EXCEPT ![r] = FreeRoc]
  PROVE  /\ RocShape(t) /\ Posted(t) = Posted(s) /\ Busy(t) = Busy(s) \ {r} /\ In(t.rocQ) = In(s.rocQ) \ {r}
<1> DEFINE q == s.rocQ
           z == {r}
           w == Without(q, z)
<1>1. q \in Seq(Rocs) /\ s.roc \in [Rocs -> RocCtx]
  BY DEF Soc
<1>2. r \in Rocs /\ q # <<>>
  BY <1>1, InQueue
<1>3. t.roc[r].st = "FREE" /\ \A p \in Rocs : p # r => t.roc[p] = s.roc[p]
  BY <1>1, <1>2, FreeFields
<1>4. Injective(q) /\ (\A p \in Busy(s) : p = Head(q)) /\ Alloc(s) = In(q)
  BY DEF RocShape
<1>5. In(w) = In(q) \ z /\ Injective(w) /\ (Head(q) \notin z => Head(w) = Head(q)) /\ t.rocQ = w
  <2> HIDE DEF q, z
  <2>1. QED
    BY <1>1, <1>2, <1>4, InWithout DEF q, z
<1> HIDE DEF w, q
<1>6. Posted(t) = Posted(s)
  BY <1>2, <1>3, <1>4 DEF Posted, Alloc, q
<1>7. Alloc(t) = Alloc(s) \ {r}
  BY <1>2, <1>3 DEF Alloc
<1>8. In(q) \subseteq Rocs
  BY <1>1, InQueue
<1>9. Busy(t) = Busy(s) \ {r}
  BY <1>3, <1>5, <1>8 DEF Busy, q
<1>10. RocShape(t)
  BY <1>4, <1>5, <1>7, <1>9 DEF RocShape
<1>11. QED
  BY <1>5, <1>6, <1>9, <1>10 DEF q

\* A step that changes one context and no queue: its state stays as it was or
\* is another one on air.
LEMMA Retouched ==
  ASSUME NEW s \in Soc, RocShape(s), NEW r \in Rocs, NEW c, NEW t, t.rocQ = s.rocQ,
         t.roc = [s.roc EXCEPT ![r] = c], c.st = s.roc[r].st \/ (r \in Busy(s) /\ c.st \in AirStates)
  PROVE  RocShape(t) /\ Posted(t) = Posted(s) /\ Busy(t) = Busy(s)
<1>1. s.rocQ \in Seq(Rocs) /\ s.roc \in [Rocs -> RocCtx]
  BY DEF Soc
<1>2. t.roc[r] = c /\ \A p \in Rocs : p # r => t.roc[p] = s.roc[p]
  BY <1>1
<1>3. In(s.rocQ) \subseteq Rocs
  BY <1>1, InQueue
<1>4. Busy(t) = Busy(s)
  BY <1>2, <1>3 DEF Busy, AirStates
<1>5. r \in Busy(s) => s.roc[r].st \notin {"FREE", "POSTED"}
  BY DEF Busy, RocShape, Alloc
<1>6. Posted(t) = Posted(s) /\ Alloc(t) = Alloc(s)
  BY <1>2, <1>5 DEF Posted, Alloc, AirStates
<1>7. QED
  BY <1>4, <1>6 DEF RocShape

\* What a call on the requests may do: it keeps the queue well-formed, adds
\* nothing to it, and unless it fails the head stays on air.
RocStep(s, t, res) ==
  /\ t \in Soc /\ TxSame(s, t) /\ RocOK(t) /\ Posted(t) = Posted(s)
  /\ In(t.rocQ) \subseteq In(s.rocQ) /\ (res = "ok" /\ Busy(s) # {} => Busy(t) # {})

\* p2p_execute_roc_req, by the fields it changes...
Starts(s, t, r, res) ==
  /\ t \in Soc /\ TxSame(s, t)
  /\ res # "start" => /\ t.rocQ = s.rocQ /\ t.awake /\ t.rx # "off" /\ t.roc[r].st = "REQUESTED"
                      /\ \A p \in Rocs : p # r => t.roc[p] = s.roc[p]
  /\ res = "start" => t.rocQ = Without(s.rocQ, {r}) /\ t.roc = [s.roc EXCEPT ![r] = FreeRoc]

\* ...whether the scan can be started or not...
LEMMA ExecuteFields ==
  ASSUME NEW s \in Soc, NEW r \in Rocs, NEW res
  PROVE  Starts(s, ExecuteRoc(s, r, res), r, res)
<1> DEFINE t == ExecuteRoc(s, r, res)
<1>1. s.roc \in [Rocs -> RocCtx]
  BY DEF Soc
<1>2. CASE res # "start"
  <2> DEFINE c == [s.roc[r] EXCEPT !.st = "REQUESTED", !.timer = "stopped"]
             f == [s.roc EXCEPT ![r] = c]
             reg == IF res = "rx" THEN "refused" ELSE "on"
  <2>1. t = [s EXCEPT !.awake = TRUE, !.roc = f, !.rx = reg]
    <3> DEFINE u == [s EXCEPT !.awake = TRUE]
               v == [u EXCEPT !.roc[r].st = "REQUESTED", !.roc[r].timer = "stopped"]
    <3>1. t = [v EXCEPT !.rx = reg]
      BY <1>2, Zenon DEF ExecuteRoc
    <3>2. u.roc = s.roc /\ u \in Soc
      BY DEF Soc
    <3> HIDE DEF u
    <3>3. [u.roc EXCEPT ![r].st = "REQUESTED", ![r].timer = "stopped"] = f
      BY <1>1, <3>2
    <3>4. v = [u EXCEPT !.roc = f]
      BY <3>3
    <3> HIDE DEF v, f, reg
    <3>5. QED
      BY <3>1, <3>4 DEF u, Soc
  <2>2. c \in RocCtx /\ c.st = "REQUESTED"
    BY <1>1 DEF RocCtx, AirStates
  <2> HIDE DEF c
  <2>3. f \in [Rocs -> RocCtx] /\ f[r] = c /\ \A p \in Rocs : p # r => f[p] = s.roc[p]
    BY <1>1, <2>2
  <2> HIDE DEF f, t
  <2>4. reg \in {"off", "on", "refused"} /\ reg # "off"
    OBVIOUS
  <2> HIDE DEF reg
  <2>5. t \in Soc /\ TxSame(s, t) /\ t.awake /\ t.rx # "off" /\ t.rocQ = s.rocQ /\ t.roc = f
    BY <2>1, <2>3, <2>4 DEF Soc, TxSame
  <2>6. QED
    BY <1>2, <2>2, <2>3, <2>5 DEF t, Starts
<1>3. CASE res = "start"
  <2> DEFINE d == DestroyRoc(s, r)
             no == FALSE
  <2>1. t = [d EXCEPT !.awake = no]
    BY <1>3 DEF ExecuteRoc
  <2>2. d \in Soc /\ TxSame(s, d) /\ d.rocQ = Without(s.rocQ, {r}) /\ d.roc = [s.roc EXCEPT ![r] = FreeRoc]
    BY DestroyFields
  <2> HIDE DEF d, t
  <2>3. t \in Soc /\ TxSame(s, t) /\ t.rocQ = Without(s.rocQ, {r}) /\ t.roc = [s.roc EXCEPT ![r] = FreeRoc]
    BY <2>1, <2>2 DEF Soc, TxSame
  <2>4. QED
    BY <1>3, <2>3 DEF t, Starts
<1>4. QED
  BY <1>2, <1>3

\* ...and what it does for the first of a queue where none is on air.
LEMMA Executed ==
  ASSUME NEW s \in Soc, RocShape(s), s.rocQ # <<>>, NEW r, r = Head(s.rocQ), s.roc[r].st = "IDLE",
         NEW t, t.rocQ = s.rocQ, t.awake, t.rx # "off", t.roc[r].st = "REQUESTED",
         \A p \in Rocs : p # r => t.roc[p] = s.roc[p]
  PROVE  RocOK(t) /\ Posted(t) = Posted(s) /\ Busy(t) = {r}
<1>1. s.rocQ \in Seq(Rocs)
  BY DEF Soc
<1>2. r \in In(s.rocQ) /\ r \in Rocs /\ In(s.rocQ) \subseteq Rocs
  BY <1>1, InQueue
<1>3. \A p \in In(s.rocQ) : p # r => s.roc[p].st = "IDLE"
  BY DEF RocShape, Busy
<1>4. Busy(t) = {r}
  BY <1>2, <1>3 DEF Busy
<1>5. Posted(t) = Posted(s) /\ Alloc(t) = Alloc(s)
  BY <1>2 DEF Posted, Alloc
<1>6. QED
  BY <1>4, <1>5 DEF RocOK, RocShape

\* The head gets the air, or is gone when the scan cannot be started.
Passed(s, t, r, res) ==
  /\ t \in Soc /\ TxSame(s, t) /\ RocOK(t) /\ Posted(t) = Posted(s)
  /\ res # "start" => Busy(t) = {r} /\ t.roc[r].st = "REQUESTED"

\* p2p_execute_roc_req, of the head.
LEMMA PassedOn ==
  ASSUME NEW s \in Soc, RocShape(s), s.rocQ # <<>>, NEW r, r = Head(s.rocQ), s.roc[r].st = "IDLE", NEW res
  PROVE  Passed(s, ExecuteRoc(s, r, res), r, res)
<1> DEFINE t == ExecuteRoc(s, r, res)
<1>1. s.rocQ \in Seq(Rocs)
  BY DEF Soc
<1>2. r \in In(s.rocQ) /\ r \in Rocs
  BY <1>1, InQueue
<1>3. Starts(s, t, r, res)
  BY <1>2, ExecuteFields
<1> HIDE DEF t
<1>4. CASE res # "start"
  <2>1. RocOK(t) /\ Posted(t) = Posted(s) /\ Busy(t) = {r}
    BY <1>3, <1>4, Executed DEF Starts
  <2>2. QED
    BY <1>3, <1>4, <2>1 DEF Passed, Starts, t
<1>5. CASE res = "start"
  <2>1. t.rocQ = Without(s.rocQ, {r}) /\ t.roc = [s.roc EXCEPT ![r] = FreeRoc]
    BY <1>3, <1>5 DEF Starts
  <2>2. RocShape(t) /\ Posted(t) = Posted(s) /\ Busy(t) = Busy(s) \ {r}
    BY <1>2, <2>1, Destroyed
  <2>3. Busy(t) = {}
    BY <2>2 DEF RocShape
  <2>4. QED
    BY <1>3, <1>5, <2>2, <2>3 DEF Passed, RocOK, Starts, t
<1>6. QED
  BY <1>4, <1>5

\* p2p_execute_cancel_roc_req, of the request on air.
LEMMA ExecuteCancelRocOK ==
  ASSUME NEW s \in Soc, RocOK(s), NEW r \in Busy(s), NEW res
  PROVE  RocStep(s, ExecuteCancelRoc(s, r, res), res)
<1> DEFINE t == ExecuteCancelRoc(s, r, res)
<1>1. s.rocQ \in Seq(Rocs) /\ s.roc \in [Rocs -> RocCtx] /\ RocShape(s)
  BY DEF Soc, RocOK
<1>2. r \in In(s.rocQ) /\ r \in Rocs
  BY <1>1, InQueue DEF Busy
<1>3. CASE res # "abort"
  <2> DEFINE c == [s.roc[r] EXCEPT !.st = "CANCEL_IN_PROG", !.timer = "stopped"]
             f == [s.roc EXCEPT ![r] = c]
  <2>1. t = [s EXCEPT !.roc = f]
    <3>1. t = [s EXCEPT !.roc[r].st = "CANCEL_IN_PROG", !.roc[r].timer = "stopped"]
      BY <1>3 DEF ExecuteCancelRoc
    <3>2. [s.roc EXCEPT ![r].st = "CANCEL_IN_PROG", ![r].timer = "stopped"] = f
      BY <1>1, <1>2
    <3>3. QED
      BY <3>1, <3>2
  <2>2. c \in RocCtx /\ c.st \in AirStates
    BY <1>1, <1>2 DEF RocCtx, AirStates
  <2> HIDE DEF c
  <2>3. f \in [Rocs -> RocCtx]
    BY <1>1, <1>2, <2>2
  <2>4. t \in Soc /\ TxSame(s, t) /\ t.awake = s.awake /\ t.rx = s.rx /\ t.rocQ = s.rocQ /\ t.roc = f
    <3> HIDE DEF f, t
    <3>1. QED
      BY <2>1, <2>3 DEF Soc, TxSame
  <2> HIDE DEF t
  <2>5. RocShape(t) /\ Posted(t) = Posted(s) /\ Busy(t) = Busy(s)
    BY <1>1, <1>2, <2>2, <2>4, Retouched
  <2>6. QED
    BY <2>4, <2>5 DEF RocStep, RocOK, t
<1>4. CASE res = "abort"
  <2> DEFINE d == DestroyRoc(s, r)
             no == "off"
  <2>1. t = [d EXCEPT !.rx = no]
    BY <1>4 DEF ExecuteCancelRoc
  <2>2. d \in Soc /\ TxSame(s, d) /\ d.rocQ = Without(s.rocQ, {r}) /\ d.roc = [s.roc EXCEPT ![r] = FreeRoc]
    BY <1>2, DestroyFields
  <2> HIDE DEF d, t
  <2>3. t \in Soc /\ TxSame(s, t) /\ t.rocQ = Without(s.rocQ, {r}) /\ t.roc = [s.roc EXCEPT ![r] = FreeRoc]
    BY <2>1, <2>2 DEF Soc, TxSame
  <2>4. /\ RocShape(t) /\ Posted(t) = Posted(s) /\ Busy(t) = Busy(s) \ {r} /\ In(t.rocQ) = In(s.rocQ) \ {r}
    BY <1>1, <1>2, <2>3, Destroyed
  <2>5. Busy(t) = {}
    BY <1>1, <2>4 DEF RocShape
  <2>6. QED
    BY <1>4, <2>3, <2>4, <2>5 DEF RocOK, RocStep, t
<1>5. QED
  BY <1>3, <1>4

\* p2p_process_cancel_roc_req: a pointer that is stale finds nothing, or the
\* request that has the memory now.
LEMMA ProcessCancelRocOK ==
  ASSUME NEW s \in Soc, RocOK(s), NEW p, NEW res
  PROVE  RocStep(s, ProcessCancelRoc(s, p, res), res)
<1> DEFINE t == ProcessCancelRoc(s, p, res)
<1>1. s.rocQ \in Seq(Rocs) /\ RocShape(s)
  BY DEF Soc, RocOK
<1>2. CASE p \notin In(s.rocQ) \/ s.roc[p].st = "CANCEL_IN_PROG"
  <2>1. t = s
    BY <1>2 DEF ProcessCancelRoc
  <2>2. QED
    BY <2>1 DEF RocStep, TxSame
<1>3. CASE p \in In(s.rocQ) /\ s.roc[p].st = "IDLE"
  <2>1. t = DestroyRoc(s, p) /\ p \in Rocs
    BY <1>1, <1>3, InQueue DEF ProcessCancelRoc
  <2>2. /\ t \in Soc /\ TxSame(s, t) /\ t.awake = s.awake /\ t.rx = s.rx
        /\ t.rocQ = Without(s.rocQ, {p}) /\ t.roc = [s.roc EXCEPT ![p] = FreeRoc]
    BY <2>1, DestroyFields
  <2> HIDE DEF t
  <2>3. /\ RocShape(t) /\ Posted(t) = Posted(s) /\ Busy(t) = Busy(s) \ {p} /\ In(t.rocQ) = In(s.rocQ) \ {p}
    BY <1>1, <1>3, <2>2, Destroyed
  <2>4. p \notin Busy(s)
    BY <1>3 DEF Busy
  <2>5. QED
    BY <2>2, <2>3, <2>4 DEF RocStep, RocOK, t
<1>4. CASE p \in In(s.rocQ) /\ s.roc[p].st \notin {"IDLE", "CANCEL_IN_PROG"}
  <2>1. p \in Busy(s) /\ t = ExecuteCancelRoc(s, p, res)
    BY <1>4 DEF Busy, ProcessCancelRoc
  <2>2. QED
    BY <2>1, ExecuteCancelRocOK
<1>5. QED
  BY <1>2, <1>3, <1>4

\* The queue keeps moving: without a failure the head stays on air, and a
\* queue that was empty has its first request on air.
Moves(s, t, res) ==
  res = "ok" => /\ Busy(s) # {} => Busy(t) # {}
                /\ s.rocQ = <<>> /\ t.rocQ # <<>> => \E r \in Rocs : t.roc[r].st = "REQUESTED"

\* A call that adds no request keeps it moving.
LEMMA RocStepMoves ==
  ASSUME NEW s \in Soc, NEW t, NEW res, RocStep(s, t, res) PROVE Moves(s, t, res)
<1>1. s.rocQ \in Seq(Rocs) /\ t.rocQ \in Seq(Rocs)
  BY DEF Soc, RocStep
<1>2. s.rocQ = <<>> => t.rocQ = <<>>
  BY <1>1, InQueue DEF RocStep
<1>3. QED
  BY <1>2 DEF RocStep, Moves

\* p2p_process_roc_req: r is the context of the message, or a new one.
LEMMA ProcessRocReqOK ==
  ASSUME NEW s \in Soc, NEW r \in Rocs, r \notin In(s.rocQ), Injective(s.rocQ),
         \A p \in Busy(s) : p = Head(s.rocQ), Alloc(s) \ {r} = In(s.rocQ),
         Busy(s) # {} => s.awake /\ s.rx # "off", NEW res
  PROVE  LET t == ProcessRocReq(s, r, res)
         IN  /\ t \in Soc /\ TxSame(s, t) /\ RocOK(t) /\ Posted(t) = Posted(s) \ {r} /\ Moves(s, t, res)
<1> DEFINE t == ProcessRocReq(s, r, res)
           c == [s.roc[r] EXCEPT !.st = "IDLE"]
           f == [s.roc EXCEPT ![r] = c]
           a == Append(s.rocQ, r)
           w == [s EXCEPT !.rocQ = Append(@, r), !.roc[r].st = "IDLE"]
<1>1. s.rocQ \in Seq(Rocs) /\ s.roc \in [Rocs -> RocCtx]
  BY DEF Soc
<1>2. w = [s EXCEPT !.rocQ = a, !.roc = f]
  BY Zenon
<1>3. t = IF Len(w.rocQ) = 1 THEN ExecuteRoc(w, r, res) ELSE w
  BY Zenon DEF ProcessRocReq
<1> HIDE DEF w
<1>4. c \in RocCtx /\ c.st = "IDLE"
  BY <1>1 DEF RocCtx, AirStates
<1> HIDE DEF c
<1>5. f \in [Rocs -> RocCtx] /\ f[r] = c /\ \A p \in Rocs : p # r => f[p] = s.roc[p]
  BY <1>1, <1>4
<1>6. /\ a \in Seq(Rocs) /\ a # <<>> /\ In(a) = In(s.rocQ) \cup {r} /\ Injective(a)
      /\ Head(a) = (IF s.rocQ = <<>> THEN r ELSE Head(s.rocQ)) /\ (Len(a) = 1 <=> s.rocQ = <<>>)
  BY <1>1, InAppend
<1>7. In(s.rocQ) \subseteq Rocs /\ (s.rocQ = <<>> => In(s.rocQ) = {})
  BY <1>1, InQueue
<1> HIDE DEF f, a
<1>8. w \in Soc /\ TxSame(s, w) /\ w.awake = s.awake /\ w.rx = s.rx /\ w.rocQ = a /\ w.roc = f
  BY <1>2, <1>5, <1>6 DEF Soc, TxSame
<1>9. Busy(w) = Busy(s)
  BY <1>4, <1>5, <1>6, <1>7, <1>8 DEF Busy
<1>10. Alloc(w) = Alloc(s) \cup {r} /\ Posted(w) = Posted(s) \ {r}
  BY <1>4, <1>5, <1>8 DEF Alloc, Posted
<1>11. s.rocQ = <<>> => Busy(s) = {}
  BY <1>7 DEF Busy
<1>12. RocShape(w)
  BY <1>6, <1>8, <1>9, <1>10, <1>11 DEF RocShape
<1>13. CASE s.rocQ = <<>>
  <2>1. w.rocQ # <<>> /\ r = Head(w.rocQ) /\ r \in In(w.rocQ) /\ w.roc[r].st = "IDLE" /\ t = ExecuteRoc(w, r, res)
    BY <1>3, <1>4, <1>5, <1>6, <1>8, <1>13
  <2> HIDE DEF t
  <2>2. Passed(w, t, r, res)
    BY <1>8, <1>12, <2>1, PassedOn
  <2>3. QED
    BY <1>8, <1>10, <1>11, <1>13, <2>2 DEF Passed, TxSame, Moves, t
<1>14. CASE s.rocQ # <<>>
  <2>1. t = w
    BY <1>3, <1>6, <1>8, <1>14
  <2> HIDE DEF t
  <2>2. RocOK(w)
    BY <1>8, <1>9, <1>12 DEF RocOK
  <2>3. QED
    BY <1>8, <1>9, <1>10, <1>14, <2>1, <2>2 DEF Moves, t
<1>15. QED
  BY <1>13, <1>14

\* p2p_process_scan_complete_evt passes the air on.
LEMMA ScanCompleteOK ==
  ASSUME NEW s \in Soc, RocOK(s), NEW r \in Busy(s), NEW res
  PROVE  LET t == ScanComplete(s, r, res)
         IN  /\ t \in Soc /\ TxSame(s, t) /\ RocOK(t) /\ Posted(t) = Posted(s)
             /\ res = "ok" /\ t.rocQ # <<>> => Busy(t) # {}
<1> DEFINE t == ScanComplete(s, r, res)
           d == DestroyRoc(s, r)
           done == (s.cleaner # Nil)
           e == [d EXCEPT !.awake = FALSE, !.rx = "off", !.cleanupDone = done]
<1>1. s.rocQ \in Seq(Rocs) /\ RocShape(s)
  BY DEF Soc, RocOK
<1>2. r \in In(s.rocQ) /\ r \in Rocs
  BY <1>1, InQueue DEF Busy
<1>3. t = IF e.rocQ = <<>> THEN e ELSE ExecuteRoc(e, Head(e.rocQ), res)
  BY Zenon DEF ScanComplete
<1>4. d \in Soc /\ TxSame(s, d) /\ d.rocQ = Without(s.rocQ, {r}) /\ d.roc = [s.roc EXCEPT ![r] = FreeRoc]
  BY <1>2, DestroyFields
<1>5. done \in BOOLEAN
  OBVIOUS
<1> HIDE DEF d, t, done
<1>6. e \in Soc /\ TxSame(s, e) /\ e.rocQ = Without(s.rocQ, {r}) /\ e.roc = [s.roc EXCEPT ![r] = FreeRoc]
  BY <1>4, <1>5 DEF Soc, TxSame
<1> HIDE DEF e
<1>7. RocShape(e) /\ Posted(e) = Posted(s) /\ Busy(e) = Busy(s) \ {r}
  BY <1>1, <1>2, <1>6, Destroyed
<1>8. Busy(e) = {}
  BY <1>1, <1>7 DEF RocShape
<1>9. CASE e.rocQ = <<>>
  BY <1>3, <1>6, <1>7, <1>8, <1>9 DEF RocOK, t
<1>10. CASE e.rocQ # <<>>
  <2> DEFINE h == Head(e.rocQ)
  <2>1. t = ExecuteRoc(e, h, res) /\ h = Head(e.rocQ)
    BY <1>3, <1>10
  <2>2. e.roc[h].st = "IDLE"
    <3>1. e.rocQ \in Seq(Rocs)
      BY <1>6 DEF Soc
    <3>2. h \in In(e.rocQ)
      BY <1>10, <3>1, InQueue
    <3>3. QED
      BY <1>8, <3>2 DEF Busy
  <2> HIDE DEF h
  <2>3. Passed(e, t, h, res)
    BY <1>6, <1>7, <1>10, <2>1, <2>2, PassedOn
  <2>4. QED
    BY <1>6, <1>7, <2>3 DEF Passed, TxSame, t
<1>11. QED
  BY <1>9, <1>10

\* p2p_process_cleanup_roc_queue, for one vdev.
LEMMA CleanupRocQueueOK ==
  ASSUME NEW s \in Soc, RocOK(s), NEW v, NEW res
  PROVE  RocStep(s, CleanupRocQueue(s, v, res), res)
<1> DEFINE t == CleanupRocQueue(s, v, res)
           idle == {r \in In(s.rocQ) : s.roc[r].st = "IDLE" /\ s.roc[r].link = v}
           q == Without(s.rocQ, idle)
           f == [r \in Rocs |-> IF r \in idle THEN FreeRoc ELSE s.roc[r]]
           w == [s EXCEPT !.rocQ = q, !.roc = f]
           cur == Current(w)
           done == (s.cleaner # Nil)
           e == [w EXCEPT !.cleanupDone = done]
<1>1. s.rocQ \in Seq(Rocs) /\ RocShape(s) /\ s.roc \in [Rocs -> RocCtx]
  BY DEF Soc, RocOK
<1>2. t = IF cur = Nil \/ w.roc[cur].link # v THEN e
          ELSE IF w.roc[cur].st = "CANCEL_IN_PROG" THEN w ELSE ExecuteCancelRoc(w, cur, res)
  BY Zenon DEF CleanupRocQueue
<1>3. /\ q \in Seq(Rocs) /\ In(q) = In(s.rocQ) \ idle /\ (Injective(s.rocQ) => Injective(q))
      /\ (s.rocQ # <<>> /\ Head(s.rocQ) \notin idle => Head(q) = Head(s.rocQ))
  <2> HIDE DEF idle
  <2>1. QED
    BY <1>1, InWithout
<1>4. In(s.rocQ) \subseteq Rocs /\ (s.rocQ = <<>> => In(s.rocQ) = {})
  BY <1>1, InQueue
<1>5. \A r \in idle : r \in In(s.rocQ) /\ s.roc[r].st = "IDLE"
  OBVIOUS
<1> HIDE DEF idle, q
<1>6. /\ f \in [Rocs -> RocCtx] /\ \A r \in Rocs : r \notin idle => f[r] = s.roc[r]
      /\ \A r \in Rocs : r \in idle => f[r].st = "FREE"
  BY <1>1, FreeFields
<1>7. done \in BOOLEAN
  OBVIOUS
<1> HIDE DEF t, f, done
<1>8. /\ w \in Soc /\ TxSame(s, w) /\ w.rocQ = q /\ w.roc = f /\ w.awake = s.awake /\ w.rx = s.rx
  BY <1>3, <1>6 DEF Soc, TxSame
<1>9. e \in Soc /\ TxSame(s, e) /\ e.rocQ = q /\ e.roc = f /\ e.awake = s.awake /\ e.rx = s.rx
  <2> HIDE DEF w
  <2>1. QED
    BY <1>7, <1>8 DEF Soc, TxSame
<1> HIDE DEF w, e
<1>10. ASSUME NEW x, x \in Soc, TxSame(s, x), x.rocQ = q, x.roc = f, x.awake = s.awake, x.rx = s.rx
       PROVE  RocStep(s, x, res) /\ Busy(x) = Busy(s)
  <2>1. Busy(x) = Busy(s)
    BY <1>3, <1>4, <1>5, <1>6, <1>10 DEF Busy
  <2>2. Posted(x) = Posted(s) /\ Alloc(x) = Alloc(s) \ idle
    BY <1>4, <1>5, <1>6, <1>10 DEF Posted, Alloc
  <2>3. \A r \in Busy(s) : r \notin idle /\ s.rocQ # <<>> /\ r = Head(s.rocQ)
    BY <1>1, <1>4, <1>5 DEF Busy, RocShape
  <2>4. RocShape(x)
    BY <1>1, <1>3, <1>10, <2>1, <2>2, <2>3 DEF RocShape
  <2>5. QED
    BY <1>3, <1>10, <2>1, <2>2, <2>4 DEF RocStep, RocOK
<1>11. CASE t = e \/ t = w
  BY <1>8, <1>9, <1>10, <1>11 DEF t
<1>12. CASE cur # Nil /\ t = ExecuteCancelRoc(w, cur, res)
  <2>1. RocStep(s, w, res) /\ RocOK(w) /\ RocShape(w)
    BY <1>8, <1>10 DEF RocStep, RocOK
  <2>2. cur \in Busy(w)
    BY <1>8, <1>12, <2>1, CurrentIs
  <2> HIDE DEF cur
  <2>3. RocStep(w, t, res)
    BY <1>8, <1>12, <2>1, <2>2, ExecuteCancelRocOK
  <2>4. QED
    BY <1>8, <2>1, <2>3 DEF RocStep, TxSame, t
<1>13. QED
  BY <1>2, <1>11, <1>12
-----------------------------------------------------------------------------
(* Calls that change the frames. *)

\* A call on the frames that leaves x out of the message and of tx_q_roc.
Sent(s, t, x, C) ==
  /\ t \in Soc /\ RocSame(s, t) /\ TxOK(t, C \ {x}) /\ In(t.txQRoc) = In(s.txQRoc) \ {x}

\* Frames that are freed and in no queue.
LEMMA TxFreed ==
  ASSUME NEW s, NEW C, TxOK(s, C), NEW S, NEW t, Injective(t.txQRoc),
         In(t.txQRoc) = In(s.txQRoc) \ S, In(t.txQAck) = In(s.txQAck) \ S,
         \A x \in Txs : x \notin S => t.tx[x] = s.tx[x], \A x \in Txs : x \in S => t.tx[x].st = "FREE"
  PROVE  TxOK(t, C \ S)
<1>1. Used(t) = Used(s) \ S
  BY DEF Used
<1>2. QED
  BY <1>1 DEF TxOK

\* p2p_remove_tx_context
LEMMA RemoveTxOK ==
  ASSUME NEW s \in Soc, NEW C, TxOK(s, C), NEW x \in Txs
  PROVE  Sent(s, RemoveTx(s, x), x, C)
<1> DEFINE t == RemoveTx(s, x)
           z == {x}
           q == Without(s.txQRoc, z)
           a == Without(s.txQAck, z)
           i == IF s.tx[x].roc = Nil THEN s.ids \ {x} ELSE s.ids
           f == [s.tx EXCEPT ![x] = FreeTx]
<1>1. t = [s EXCEPT !.txQRoc = q, !.txQAck = a, !.ids = i, !.tx = f]
  BY Zenon DEF RemoveTx
<1>2. /\ s.txQRoc \in Seq(Txs) /\ s.txQAck \in Seq(Txs) /\ s.tx \in [Txs -> TxCtx]
      /\ i \in SUBSET (Rocs \cup Txs)
  BY DEF Soc
<1>3. f \in [Txs -> TxCtx] /\ f[x].st = "FREE" /\ \A y \in Txs : y # x => f[y] = s.tx[y]
  BY <1>2, FreeFields
<1>4. Injective(s.txQRoc)
  BY DEF TxOK
<1> HIDE DEF z
<1>5. q \in Seq(Txs) /\ In(q) = In(s.txQRoc) \ z /\ Injective(q)
  BY <1>2, <1>4, InWithout
<1>6. a \in Seq(Txs) /\ In(a) = In(s.txQAck) \ z
  BY <1>2, InWithout
<1> HIDE DEF t, q, a, i, f
<1>7. t \in Soc /\ RocSame(s, t) /\ t.txQRoc = q /\ t.txQAck = a /\ t.tx = f
  BY <1>1, <1>2, <1>3, <1>5, <1>6 DEF Soc, RocSame
<1>8. \A y \in Txs : (y \notin z => t.tx[y] = s.tx[y]) /\ (y \in z => t.tx[y].st = "FREE")
  BY <1>3, <1>7 DEF z
<1>9. TxOK(t, C \ z)
  BY <1>5, <1>6, <1>7, <1>8, TxFreed
<1>10. QED
  BY <1>5, <1>7, <1>9 DEF Sent, t, z

\* The failure of p2p_process_mgmt_tx: the frame of the message, in no queue.
LEMMA FailTxOK ==
  ASSUME NEW s \in Soc, NEW C, TxOK(s, C), NEW x \in Txs, x \in C
  PROVE  Sent(s, FailTx(s, x), x, C)
<1> DEFINE t == FailTx(s, x)
           z == {x}
           i == s.ids \ {x}
           f == [s.tx EXCEPT ![x] = FreeTx]
<1>1. t = [s EXCEPT !.ids = i, !.tx = f]
  BY Zenon DEF FailTx
<1>2. s.tx \in [Txs -> TxCtx] /\ i \in SUBSET (Rocs \cup Txs)
  BY DEF Soc
<1>3. f \in [Txs -> TxCtx] /\ f[x].st = "FREE" /\ \A y \in Txs : y # x => f[y] = s.tx[y]
  BY <1>2, FreeFields
<1>4. Injective(s.txQRoc) /\ In(s.txQRoc) = In(s.txQRoc) \ z /\ In(s.txQAck) = In(s.txQAck) \ z
  BY DEF TxOK
<1> HIDE DEF t, i, f, z
<1>5. t \in Soc /\ RocSame(s, t) /\ t.txQRoc = s.txQRoc /\ t.txQAck = s.txQAck /\ t.tx = f
  BY <1>1, <1>2, <1>3 DEF Soc, RocSame
<1>6. \A y \in Txs : (y \notin z => t.tx[y] = s.tx[y]) /\ (y \in z => t.tx[y].st = "FREE")
  BY <1>3, <1>5 DEF z
<1>7. TxOK(t, C \ z)
  BY <1>4, <1>5, <1>6, TxFreed
<1>8. QED
  BY <1>4, <1>5, <1>7 DEF Sent, t, z

\* p2p_execute_tx_action_frame, of a frame of the message or of tx_q_roc.
LEMMA FrameSentOK ==
  ASSUME NEW s \in Soc, NEW C, TxOK(s, C), NEW x \in Txs, x \in C \cup In(s.txQRoc)
  PROVE  Sent(s, FrameSent(s, x), x, C)
<1> DEFINE t == FrameSent(s, x)
           z == {x}
           q == Without(s.txQRoc, z)
           a == Append(s.txQAck, x)
           c == [s.tx[x] EXCEPT !.timer = "running"]
           f == [s.tx EXCEPT ![x] = c]
<1>1. CASE s.tx[x].noAck
  <2>1. t = RemoveTx(s, x)
    BY <1>1 DEF FrameSent
  <2>2. QED
    BY <2>1, RemoveTxOK
<1>2. CASE ~ s.tx[x].noAck
  <2>1. t = [s EXCEPT !.txQRoc = q, !.txQAck = a, !.tx = f]
    BY <1>2, Zenon DEF FrameSent
  <2>2. /\ s.txQRoc \in Seq(Txs) /\ s.txQAck \in Seq(Txs) /\ s.tx \in [Txs -> TxCtx]
        /\ Injective(s.txQRoc)
    BY DEF Soc, TxOK
  <2>3. c \in TxCtx /\ c.st = s.tx[x].st
    BY <2>2 DEF TxCtx
  <2> HIDE DEF c, z
  <2>4. f \in [Txs -> TxCtx] /\ \A y \in Txs : f[y].st = s.tx[y].st
    BY <2>2, <2>3
  <2>5. q \in Seq(Txs) /\ In(q) = In(s.txQRoc) \ z /\ Injective(q)
    BY <2>2, InWithout
  <2>6. a \in Seq(Txs) /\ In(a) = In(s.txQAck) \cup {x}
    BY <2>2, InAppend
  <2> HIDE DEF t, q, a, f
  <2>7. t \in Soc /\ RocSame(s, t) /\ t.txQRoc = q /\ t.txQAck = a /\ t.tx = f
    BY <2>1, <2>4, <2>5, <2>6 DEF Soc, RocSame
  <2>8. Used(t) = Used(s)
    BY <2>4, <2>7 DEF Used
  <2>9. TxOK(t, C \ {x})
    BY <2>5, <2>6, <2>7, <2>8 DEF TxOK, z
  <2>10. QED
    BY <2>5, <2>7, <2>9 DEF Sent, t, z
<1>3. QED
  BY <1>1, <1>2

\* p2p_execute_tx_action_frame, of the frame of the message.
LEMMA ExecuteTxOK ==
  ASSUME NEW s \in Soc, NEW C, TxOK(s, C), NEW x \in Txs, x \in C, NEW res
  PROVE  Sent(s, ExecuteTx(s, x, res), x, C)
<1>1. Sent(s, FrameSent(s, x), x, C)
  BY FrameSentOK
<1>2. Sent(s, FailTx(s, x), x, C)
  BY FailTxOK
<1>3. QED
  BY <1>1, <1>2 DEF ExecuteTx

\* A frame of the message that waits for the request r.
LEMMA WaitForRocOK ==
  ASSUME NEW s \in Soc, NEW C, TxOK(s, C), NEW x \in Txs, x \in C, NEW r \in Rocs
  PROVE  LET t == WaitForRoc(s, x, r) IN t \in Soc /\ RocSame(s, t) /\ TxOK(t, C \ {x})
<1> DEFINE t == WaitForRoc(s, x, r)
           q == Append(s.txQRoc, x)
           c == [s.tx[x] EXCEPT !.roc = r]
           f == [s.tx EXCEPT ![x] = c]
<1>1. t = [s EXCEPT !.txQRoc = q, !.tx = f]
  BY Zenon DEF WaitForRoc
<1>2. s.txQRoc \in Seq(Txs) /\ s.tx \in [Txs -> TxCtx] /\ Injective(s.txQRoc) /\ x \notin In(s.txQRoc)
  BY DEF Soc, TxOK
<1>3. c \in TxCtx /\ c.st = s.tx[x].st
  BY <1>2 DEF TxCtx
<1> HIDE DEF c
<1>4. f \in [Txs -> TxCtx] /\ \A y \in Txs : f[y].st = s.tx[y].st
  BY <1>2, <1>3
<1>5. q \in Seq(Txs) /\ In(q) = In(s.txQRoc) \cup {x} /\ Injective(q)
  BY <1>2, InAppend
<1> HIDE DEF t, q, f
<1>6. t \in Soc /\ RocSame(s, t) /\ t.txQRoc = q /\ t.txQAck = s.txQAck /\ t.tx = f
  BY <1>1, <1>4, <1>5 DEF Soc, RocSame
<1>7. Used(t) = Used(s)
  BY <1>4, <1>6 DEF Used
<1>8. TxOK(t, C \ {x})
  BY <1>5, <1>6, <1>7 DEF TxOK
<1>9. QED
  BY <1>6, <1>8 DEF t

\* p2p_process_cleanup_tx_queue and p2p_tx_timeout, of frames that are queued.
LEMMA DropTxOK ==
  ASSUME NEW s \in Soc, NEW C, TxOK(s, C), NEW S, S \subseteq In(s.txQRoc) \cup In(s.txQAck)
  PROVE  LET t == DropTx(s, S) IN t \in Soc /\ RocSame(s, t) /\ TxOK(t, C)
<1> DEFINE t == DropTx(s, S)
           q == Without(s.txQRoc, S)
           a == Without(s.txQAck, S)
           f == [x \in Txs |-> IF x \in S THEN FreeTx ELSE s.tx[x]]
<1>1. t = [s EXCEPT !.txQRoc = q, !.txQAck = a, !.tx = f]
  BY Zenon DEF DropTx
<1>2. s.txQRoc \in Seq(Txs) /\ s.txQAck \in Seq(Txs) /\ s.tx \in [Txs -> TxCtx] /\ Injective(s.txQRoc)
  BY DEF Soc, TxOK
<1>3. /\ f \in [Txs -> TxCtx] /\ \A y \in Txs : y \notin S => f[y] = s.tx[y]
      /\ \A y \in Txs : y \in S => f[y].st = "FREE"
  BY <1>2, FreeFields
<1>4. q \in Seq(Txs) /\ In(q) = In(s.txQRoc) \ S /\ Injective(q)
  BY <1>2, InWithout
<1>5. a \in Seq(Txs) /\ In(a) = In(s.txQAck) \ S
  BY <1>2, InWithout
<1> HIDE DEF t, q, a, f
<1>6. t \in Soc /\ RocSame(s, t) /\ t.txQRoc = q /\ t.txQAck = a /\ t.tx = f
  BY <1>1, <1>3, <1>4, <1>5 DEF Soc, RocSame
<1>7. TxOK(t, C \ S)
  BY <1>3, <1>4, <1>5, <1>6, TxFreed
<1>8. C \ S = C
  BY DEF TxOK
<1>9. QED
  BY <1>6, <1>7, <1>8 DEF t
\* One round of the loop of p2p_ready_to_tx_frame, and f the function sent of
\* ReadyToTx for the first n of the frames m.
Round(p, x, res) == IF res = "tx" THEN RemoveTx(p, x) ELSE FrameSent(p, x)
IsSent(s, m, res, n, f) == f = [i \in 0 .. n |-> IF i = 0 THEN s ELSE Round(f[i - 1], m[i], res)]

\* Its recursion.
LEMMA SentAt == ASSUME NEW s, NEW m, NEW res, NEW n \in Nat, NEW f, IsSent(s, m, res, n, f), NEW i \in 1 .. n
                PROVE  f[i] = Round(f[i - 1], m[i], res)
<1> DEFINE e(j) == IF j = 0 THEN s ELSE Round(f[j - 1], m[j], res)
<1>1. f = [j \in 0 .. n |-> e(j)]
  BY DEF IsSent
<1>2. i \in 0 .. n /\ i # 0
  OBVIOUS
<1> HIDE DEF e
<1>3. f[i] = e(i)
  BY <1>1, <1>2
<1>4. QED
  BY <1>2, <1>3 DEF e

\* There is such a function.
LEMMA SentExists == ASSUME NEW s, NEW m, NEW res, NEW n \in Nat PROVE \E f : IsSent(s, m, res, n, f)
<1> DEFINE N == {k \in Nat : \E f : IsSent(s, m, res, k, f)}
<1>1. 0 \in N
  <2>1. IsSent(s, m, res, 0, [i \in 0 .. 0 |-> s])
    BY DEF IsSent
  <2>2. QED
    BY <2>1
<1>2. ASSUME NEW k \in Nat, k \in N PROVE k + 1 \in N
  <2>1. PICK f : IsSent(s, m, res, k, f)
    BY <1>2
  <2> DEFINE x == Round(f[k], m[k + 1], res)
             g == [i \in 0 .. k + 1 |-> IF i = k + 1 THEN x ELSE f[i]]
             e(j) == IF j = 0 THEN s ELSE Round(g[j - 1], m[j], res)
  <2>2. ASSUME NEW i \in 0 .. k + 1 PROVE g[i] = e(i)
    <3>1. CASE i = 0
      <4>1. g[0] = f[0] /\ f[0] = s
        BY <2>1 DEF IsSent
      <4>2. QED
        BY <3>1, <4>1
    <3>2. CASE i \in 1 .. k
      <4>1. g[i] = f[i] /\ g[i - 1] = f[i - 1]
        BY <3>2
      <4>2. f[i] = Round(f[i - 1], m[i], res)
        BY <2>1, <3>2, SentAt
      <4>3. i # 0
        BY <3>2
      <4>4. QED
        BY <4>1, <4>2, <4>3
    <3>3. CASE i = k + 1
      <4>1. g[i] = x /\ g[i - 1] = f[k] /\ i # 0
        BY <3>3
      <4>2. QED
        BY <3>3, <4>1
    <3>4. QED
      BY <3>1, <3>2, <3>3
  <2>3. g = [i \in 0 .. k + 1 |-> e(i)]
    <3> HIDE DEF e, x
    <3>1. QED
      BY <2>2
  <2>4. IsSent(s, m, res, k + 1, g)
    BY <2>3, Zenon DEF IsSent
  <2>5. QED
    BY <2>4
<1> HIDE DEF N
<1>3. \A n_1 \in Nat : n_1 \in N
  BY <1>1, <1>2, InductionOnSet
<1>4. QED
  BY <1>3 DEF N

\* p2p_ready_to_tx_frame: no frame is sent twice, so every round finds its
\* frame still in tx_q_roc.
LEMMA ReadyToTxOK ==
  ASSUME NEW s \in Soc, NEW C, TxOK(s, C), NEW r, NEW res
  PROVE  LET t == ReadyToTx(s, r, res) IN t \in Soc /\ RocSame(s, t) /\ TxOK(t, C)
<1> DEFINE q == s.txQRoc
           S == {x \in Txs : s.tx[x].roc = r}
           m == Select(q, S)
           n == Len(m)
           f == CHOOSE f : IsSent(s, m, res, n, f)
<1>1. q \in Seq(Txs) /\ Injective(q)
  BY DEF Soc, TxOK
<1>2. ReadyToTx(s, r, res) = f[n]
  BY Zenon DEF ReadyToTx, IsSent, Round
<1> HIDE DEF S, q
<1>3. m \in Seq(Txs)
  BY <1>1, SelectSeqOf
<1>4. \A i, j \in DOMAIN m : m[i] = m[j] => i = j
  BY <1>1, SelectInjective DEF Injective
<1>5. \A i \in DOMAIN m : m[i] \in In(q)
  BY <1>1, SelectElements DEF In
<1> HIDE DEF m
<1>6. n \in Nat /\ DOMAIN m = 1 .. n /\ \A i \in 1 .. n : m[i] \in Txs
  BY <1>3
<1> HIDE DEF n
<1>7. IsSent(s, m, res, n, f)
  BY <1>6, SentExists
<1> HIDE DEF f
<1>8. f[0] = s
  BY <1>6, <1>7 DEF IsSent
<1>9. \A i \in 1 .. n : f[i] = Round(f[i - 1], m[i], res)
  BY <1>6, <1>7, SentAt
<1> DEFINE G(p, k) == p \in Soc /\ RocSame(s, p) /\ TxOK(p, C) /\ \A j \in k + 1 .. n : m[j] \in In(p.txQRoc)
           N == {k \in Nat : G(f[k], k)}
<1>10. 0 \in N
  BY <1>5, <1>6, <1>8 DEF RocSame, q
<1>11. ASSUME NEW k \in 0 .. n - 1, k \in N PROVE k + 1 \in N
  <2> DEFINE p == f[k]
             x == m[k + 1]
             t == f[k + 1]
  <2>1. k \in Nat /\ k + 1 \in 1 .. n /\ k + 1 - 1 = k
    BY <1>6
  <2>2. p \in Soc /\ RocSame(s, p) /\ TxOK(p, C) /\ \A j \in k + 1 .. n : m[j] \in In(p.txQRoc)
    BY <1>11
  <2>3. t = Round(p, x, res)
    BY <1>9, <2>1
  <2>4. x \in Txs /\ x \in In(p.txQRoc)
    BY <1>6, <2>1, <2>2
  <2>5. \A j \in k + 2 .. n : m[j] # x
    BY <1>4, <1>6, <2>1
  <2> HIDE DEF p, x, t
  <2>6. Sent(p, FrameSent(p, x), x, C)
    BY <2>2, <2>4, FrameSentOK
  <2>7. Sent(p, RemoveTx(p, x), x, C)
    BY <2>2, <2>4, RemoveTxOK
  <2>8. Sent(p, t, x, C)
    BY <2>3, <2>6, <2>7 DEF Round
  <2>9. C \ {x} = C
    BY <2>2, <2>4 DEF TxOK
  <2>10. t \in Soc /\ RocSame(s, t) /\ TxOK(t, C) /\ In(t.txQRoc) = In(p.txQRoc) \ {x}
    BY <2>2, <2>8, <2>9 DEF Sent, RocSame
  <2>11. \A j \in (k + 1) + 1 .. n : m[j] \in In(t.txQRoc)
    BY <1>6, <2>1, <2>2, <2>5, <2>10
  <2>12. G(t, k + 1)
    BY <2>10, <2>11
  <2>13. QED
    BY <2>1, <2>12 DEF t
<1> HIDE DEF N
<1>12. \A k \in 0 .. n : k \in N
  BY <1>6, <1>10, <1>11, InductionUpTo
<1>13. n \in N
  BY <1>6, <1>12
<1>14. G(f[n], n)
  BY <1>13 DEF N
<1>15. QED
  BY <1>2, <1>14
-----------------------------------------------------------------------------
(* Handlers. *)

\* What a handler owes: the requests P and the frames C are in messages after
\* it, the rest is in the queues, and the queue keeps moving.
Handles(s, t, P, C, res) ==
  t \in Soc /\ RocOK(t) /\ Posted(t) = P /\ TxOK(t, C) /\ Moves(s, t, res)

\* A handler that only touches requests.
LEMMA OnlyRoc ==
  ASSUME NEW s \in Soc, NEW C, TxOK(s, C), NEW t, NEW res, RocStep(s, t, res)
  PROVE  Handles(s, t, Posted(s), C, res)
<1>1. Moves(s, t, res)
  BY RocStepMoves, t \in Soc DEF RocStep
<1>2. TxOK(t, C)
  BY DEF RocStep, TxSame, TxOK, Used
<1>3. QED
  BY <1>1, <1>2 DEF RocStep, Handles

\* One that goes on with frames.
LEMMA ThenTx ==
  ASSUME NEW s, NEW t, NEW P, NEW C, NEW res, Handles(s, t, P, C, res),
         NEW u, u \in Soc, RocSame(t, u), NEW D, TxOK(u, D)
  PROVE  Handles(s, u, P, D, res)
<1>1. Posted(u) = Posted(t) /\ Alloc(u) = Alloc(t) /\ Busy(u) = Busy(t)
  BY DEF RocSame, Posted, Alloc, Busy
<1>2. RocOK(u)
  BY <1>1 DEF RocSame, Handles, RocOK, RocShape
<1>3. Moves(s, u, res)
  BY <1>1 DEF RocSame, Handles, Moves
<1>4. QED
  BY <1>1, <1>2, <1>3 DEF Handles

\* One that only touches frames.
LEMMA OnlyTx ==
  ASSUME NEW s \in Soc, RocOK(s), NEW C, TxOK(s, C), NEW t, t \in Soc, RocSame(s, t), NEW D, TxOK(t, D), NEW res
  PROVE  Handles(s, t, Posted(s), D, res)
<1>1. Handles(s, s, Posted(s), C, res)
  BY DEF Handles, Moves
<1>2. QED
  BY <1>1, ThenTx

\* A step of a handler that changes one context and no queue.
LEMMA TouchedOK ==
  ASSUME NEW s \in Soc, RocOK(s), NEW r \in Rocs, NEW c \in RocCtx,
         c.st = s.roc[r].st \/ (r \in Busy(s) /\ c.st \in AirStates)
  PROVE  LET t == [s EXCEPT !.roc = [s.roc EXCEPT ![r] = c]]
         IN  /\ t \in Soc /\ TxSame(s, t) /\ RocOK(t) /\ Posted(t) = Posted(s)
             /\ Busy(t) = Busy(s) /\ t.rocQ = s.rocQ
<1> DEFINE f == [s.roc EXCEPT ![r] = c]
           t == [s EXCEPT !.roc = f]
<1>1. f \in [Rocs -> RocCtx]
  BY DEF Soc
<1> HIDE DEF f
<1>2. t \in Soc /\ TxSame(s, t) /\ t.rocQ = s.rocQ /\ t.roc = f /\ t.awake = s.awake /\ t.rx = s.rx
  BY <1>1 DEF Soc, TxSame
<1> HIDE DEF t
<1>3. RocShape(s)
  BY DEF RocOK
<1>4. t.rocQ = s.rocQ /\ t.roc = [s.roc EXCEPT ![r] = c]
  BY <1>2 DEF f
<1>5. RocShape(t) /\ Posted(t) = Posted(s) /\ Busy(t) = Busy(s)
  BY <1>3, <1>4, Retouched
<1>6. t \in Soc /\ TxSame(s, t) /\ RocOK(t) /\ Posted(t) = Posted(s) /\ Busy(t) = Busy(s) /\ t.rocQ = s.rocQ
  BY <1>2, <1>5 DEF RocOK
<1>7. QED
  BY <1>6 DEF t, f

\* p2p_process_ready_on_channel_evt
LEMMA ReadyOnChannelOK ==
  ASSUME NEW s \in Soc, RocOK(s), NEW C, TxOK(s, C), NEW r \in Busy(s), NEW res
  PROVE  LET t == ReadyOnChannel(s, r, res)
         IN  /\ t \in Soc /\ RocOK(t) /\ Posted(t) = Posted(s) /\ TxOK(t, C)
             /\ Busy(t) = Busy(s) /\ t.rocQ = s.rocQ
<1> DEFINE w == [s EXCEPT !.roc[r].st = "ON_CHAN", !.roc[r].timer = "running"]
           c == [s.roc[r] EXCEPT !.st = "ON_CHAN", !.timer = "running"]
           t == ReadyToTx(w, r, res)
<1>1. s.rocQ \in Seq(Rocs) /\ s.roc \in [Rocs -> RocCtx]
  BY DEF Soc
<1>2. r \in Rocs
  BY <1>1, InQueue DEF Busy
<1>3. w = [s EXCEPT !.roc = [s.roc EXCEPT ![r] = c]]
  <2>1. [s.roc EXCEPT ![r].st = "ON_CHAN", ![r].timer = "running"] = [s.roc EXCEPT ![r] = c]
    BY <1>1, <1>2
  <2>2. QED
    BY <2>1
<1>4. c \in RocCtx /\ c.st \in AirStates
  BY <1>1, <1>2 DEF RocCtx, AirStates
<1>5. ReadyOnChannel(s, r, res) = t
  BY DEF ReadyOnChannel
<1> HIDE DEF w, c
<1>6. /\ w \in Soc /\ TxSame(s, w) /\ RocOK(w) /\ Posted(w) = Posted(s)
      /\ Busy(w) = Busy(s) /\ w.rocQ = s.rocQ
  BY <1>2, <1>3, <1>4, TouchedOK
<1>7. TxOK(w, C)
  BY <1>6 DEF TxSame, TxOK, Used
<1>8. t \in Soc /\ RocSame(w, t) /\ TxOK(t, C)
  BY <1>6, <1>7, ReadyToTxOK
<1> HIDE DEF t
<1>9. RocOK(t) /\ Posted(t) = Posted(w) /\ Busy(t) = Busy(w) /\ t.rocQ = w.rocQ
  BY <1>6, <1>8 DEF RocSame, RocOK, RocShape, Posted, Alloc, Busy
<1>10. QED
  BY <1>5, <1>6, <1>8, <1>9

\* p2p_roc_req_for_tx_action
LEMMA RocForTxOK ==
  ASSUME NEW s \in Soc, RocOK(s), NEW C, TxOK(s, C), NEW x \in Txs, x \in C,
         NEW r \in Rocs, s.roc[r].st = "FREE", NEW res
  PROVE  Handles(s, RocForTx(s, x, r, res), Posted(s), C \ {x}, res)
<1> DEFINE ctx == [FreeRoc EXCEPT !.st = "IDLE", !.id = x,
                                  !.link = s.tx[x].link, !.chan = s.tx[x].chan, !.tx = x]
           f == [s.roc EXCEPT ![r] = ctx]
           w == [s EXCEPT !.roc = f]
           u == ProcessRocReq(w, r, res)
           t == IF Refused(u, r, res) THEN FailTx(u, x) ELSE WaitForRoc(u, x, r)
<1>1. RocForTx(s, x, r, res) = t
  BY Zenon DEF RocForTx
<1>2. s.rocQ \in Seq(Rocs) /\ s.roc \in [Rocs -> RocCtx] /\ s.tx \in [Txs -> TxCtx] /\ RocShape(s)
  BY DEF Soc, RocOK
<1>3. ctx \in RocCtx /\ ctx.st = "IDLE"
  BY <1>2 DEF FreeRoc, RocCtx, TxCtx
<1> HIDE DEF ctx
<1>4. f \in [Rocs -> RocCtx] /\ f[r] = ctx /\ \A p \in Rocs : p # r => f[p] = s.roc[p]
  BY <1>2, <1>3
<1> HIDE DEF f
<1>5. w \in Soc /\ TxSame(s, w) /\ w.rocQ = s.rocQ /\ w.roc = f /\ w.awake = s.awake /\ w.rx = s.rx
  BY <1>4 DEF Soc, TxSame
<1> HIDE DEF w
<1>6. r \notin In(s.rocQ) /\ In(s.rocQ) \subseteq Rocs
  BY <1>2, InQueue DEF RocShape, Alloc
<1>7. Busy(w) = Busy(s)
  BY <1>4, <1>5, <1>6 DEF Busy
<1>8. Alloc(w) \ {r} = Alloc(s) /\ Posted(w) = Posted(s) /\ r \notin Posted(s)
  BY <1>3, <1>4, <1>5 DEF Alloc, Posted
<1>9. /\ r \notin In(w.rocQ) /\ Injective(w.rocQ) /\ (\A p \in Busy(w) : p = Head(w.rocQ))
      /\ Alloc(w) \ {r} = In(w.rocQ) /\ (Busy(w) # {} => w.awake /\ w.rx # "off")
  BY <1>2, <1>5, <1>6, <1>7, <1>8 DEF RocOK, RocShape
<1>10. u \in Soc /\ TxSame(w, u) /\ RocOK(u) /\ Posted(u) = Posted(w) \ {r} /\ Moves(w, u, res)
  BY <1>5, <1>9, ProcessRocReqOK
<1> HIDE DEF u
<1>11. Handles(s, u, Posted(s), C, res)
  <2>1. TxOK(u, C)
    BY <1>5, <1>10 DEF TxSame, TxOK, Used
  <2>2. Moves(s, u, res)
    BY <1>5, <1>7, <1>10 DEF Moves
  <2>3. QED
    BY <1>8, <1>10, <2>1, <2>2 DEF Handles
<1>12. TxOK(u, C)
  BY <1>11 DEF Handles
<1>13. t \in Soc /\ RocSame(u, t) /\ TxOK(t, C \ {x})
  <2>1. LET v == WaitForRoc(u, x, r) IN v \in Soc /\ RocSame(u, v) /\ TxOK(v, C \ {x})
    BY <1>10, <1>12, WaitForRocOK
  <2>2. Sent(u, FailTx(u, x), x, C)
    BY <1>10, <1>12, FailTxOK
  <2>3. QED
    BY <2>1, <2>2 DEF Sent
<1> HIDE DEF t
<1>14. Handles(s, t, Posted(s), C \ {x}, res)
  BY <1>11, <1>13, ThenTx
<1>15. QED
  BY <1>1, <1>14
\* p2p_find_roc_by_chan and the others find a request of the queue, or none.
LEMMA FirstIs == ASSUME NEW s \in Soc, NEW S PROVE First(s, S) \in Rocs \cup {Nil}
<1> DEFINE q == s.rocQ
           hits == Select(q, S)
<1>1. q \in Seq(Rocs)
  BY DEF Soc
<1>2. First(s, S) = IF hits = <<>> THEN Nil ELSE Head(hits)
  BY DEF First
<1> HIDE DEF q
<1>3. hits \in Seq(Rocs)
  BY <1>1, SelectSeqOf
<1> HIDE DEF hits
<1>4. QED
  BY <1>2, <1>3

\* p2p_process_mgmt_tx: the frame of the message waits, is sent or is freed.
LEMMA ProcessMgmtTxOK ==
  ASSUME NEW s \in Soc, RocOK(s), NEW C, TxOK(s, C), NEW x \in Txs, x \in C, NEW r \in Spare(s), NEW res
  PROVE  Handles(s, ProcessMgmtTx(s, x, r, res), Posted(s), C \ {x}, res)
<1> DEFINE t == ProcessMgmtTx(s, x, r, res)
           cur == Current(s)
           next == ByChan(s, s.tx[x].chan)
           Good(u) == u \in Soc /\ RocSame(s, u) /\ TxOK(u, C \ {x})
           w == [s EXCEPT !.roc[cur].tx = x]
<1>1. RocShape(s) /\ s.roc \in [Rocs -> RocCtx]
  BY DEF RocOK, Soc
<1>2. next \in Rocs \cup {Nil}
  BY FirstIs DEF ByChan
<1>3. cur \in Rocs \cup {Nil} /\ (cur # Nil => cur \in Busy(s))
  BY <1>1, CurrentIs
<1>4. r = Nil \/ (r \in Rocs /\ s.roc[r].st = "FREE")
  BY DEF Spare
<1>5. \/ t = ExecuteTx(s, x, res)
      \/ cur # Nil /\ t = WaitForRoc(s, x, cur)
      \/ cur # Nil /\ (t = ExecuteTx(w, x, res) \/ t = FailTx(w, x))
      \/ next # Nil /\ t = WaitForRoc(s, x, next)
      \/ t = FailTx(s, x)
      \/ r # Nil /\ t = RocForTx(s, x, r, res)
  BY DEF ProcessMgmtTx
<1> HIDE DEF t, cur, next
<1>6. CASE t = ExecuteTx(s, x, res)
  <2>1. Sent(s, t, x, C)
    BY <1>6, ExecuteTxOK
  <2>2. QED
    BY <2>1, OnlyTx DEF Sent, t
<1>7. ASSUME NEW p \in Rocs, t = WaitForRoc(s, x, p) PROVE Handles(s, t, Posted(s), C \ {x}, res)
  <2>1. t \in Soc /\ RocSame(s, t) /\ TxOK(t, C \ {x})
    BY <1>7, WaitForRocOK
  <2>2. QED
    BY <2>1, OnlyTx
<1>8. CASE cur # Nil /\ (t = ExecuteTx(w, x, res) \/ t = FailTx(w, x))
  <2> DEFINE c == [s.roc[cur] EXCEPT !.tx = x]
  <2>1. cur \in Rocs
    BY <1>3, <1>8
  <2>2. w = [s EXCEPT !.roc = [s.roc EXCEPT ![cur] = c]]
    <3>1. [s.roc EXCEPT ![cur].tx = x] = [s.roc EXCEPT ![cur] = c]
      BY <1>1, <2>1
    <3>2. QED
      BY <3>1
  <2>3. c \in RocCtx /\ c.st = s.roc[cur].st
    BY <1>1, <2>1 DEF RocCtx
  <2> HIDE DEF c, w
  <2>4. /\ w \in Soc /\ TxSame(s, w) /\ RocOK(w) /\ Posted(w) = Posted(s)
        /\ Busy(w) = Busy(s) /\ w.rocQ = s.rocQ
    BY <2>1, <2>2, <2>3, TouchedOK
  <2>5. Moves(s, w, res)
    BY <2>4 DEF Moves
  <2>6. TxOK(w, C)
    BY <2>4 DEF TxSame, TxOK, Used
  <2>7. Handles(s, w, Posted(s), C, res)
    BY <2>4, <2>5, <2>6 DEF Handles
  <2>8. Sent(w, ExecuteTx(w, x, res), x, C) /\ Sent(w, FailTx(w, x), x, C)
    BY <2>4, <2>6, ExecuteTxOK, FailTxOK
  <2>9. t \in Soc /\ RocSame(w, t) /\ TxOK(t, C \ {x})
    BY <1>8, <2>8 DEF Sent
  <2>10. QED
    BY <2>7, <2>9, ThenTx DEF t
<1>9. CASE t = FailTx(s, x)
  <2>1. Sent(s, t, x, C)
    BY <1>9, FailTxOK
  <2>2. QED
    BY <2>1, OnlyTx DEF Sent, t
<1>10. CASE r # Nil /\ t = RocForTx(s, x, r, res)
  BY <1>4, <1>10, RocForTxOK DEF t
<1>11. QED
  BY <1>2, <1>3, <1>5, <1>6, <1>7, <1>8, <1>9, <1>10 DEF t

\* p2p_process_mgmt_tx_cancel: of a frame that waits the request may be gone,
\* or its memory may be another's.
LEMMA ProcessTxCancelOK ==
  ASSUME NEW s \in Soc, RocOK(s), NEW C, TxOK(s, C), NEW x \in Txs, NEW res
  PROVE  Handles(s, ProcessTxCancel(s, x, res), Posted(s), C, res)
<1> DEFINE t == ProcessTxCancel(s, x, res)
<1>1. CASE x \in In(s.txQRoc)
  <2> DEFINE w == RemoveTx(s, x)
             p == s.tx[x].roc
  <2>1. t = ProcessCancelRoc(w, p, res)
    BY <1>1 DEF ProcessTxCancel, TxOK
  <2>2. Sent(s, w, x, C)
    BY RemoveTxOK
  <2> HIDE DEF w, p, t
  <2>3. C \ {x} = C
    BY <1>1 DEF TxOK
  <2>4. w \in Soc /\ RocSame(s, w) /\ TxOK(w, C)
    BY <2>2, <2>3 DEF Sent
  <2>5. Handles(s, w, Posted(s), C, res)
    BY <2>4, OnlyTx
  <2>6. RocOK(w) /\ Posted(w) = Posted(s)
    BY <2>5 DEF Handles
  <2>7. RocStep(w, t, res)
    BY <2>1, <2>4, <2>6, ProcessCancelRocOK
  <2>8. Handles(w, t, Posted(s), C, res)
    BY <2>4, <2>6, <2>7, OnlyRoc
  <2>9. Moves(s, t, res)
    <3>1. Busy(w) = Busy(s) /\ w.rocQ = s.rocQ
      BY <2>4 DEF RocSame, Busy
    <3>2. QED
      BY <2>8, <3>1 DEF Handles, Moves
  <2>10. QED
    BY <2>8, <2>9 DEF Handles, t
<1>2. CASE x \notin In(s.txQRoc)
  <2> DEFINE p == ByTx(s, x)
  <2>1. t = s \/ t = ProcessCancelRoc(s, p, res)
    BY <1>2 DEF ProcessTxCancel
  <2> HIDE DEF t, p
  <2>2. RocStep(s, ProcessCancelRoc(s, p, res), res)
    BY ProcessCancelRocOK
  <2>3. RocStep(s, s, res)
    BY DEF RocStep, TxSame
  <2>4. RocStep(s, t, res)
    BY <2>1, <2>2, <2>3
  <2>5. t \in Soc
    BY <2>4 DEF RocStep
  <2>6. QED
    BY <2>4, <2>5, OnlyRoc DEF t
<1>3. QED
  BY <1>1, <1>2

\* What the handler of cmd takes out of the messages.
TakenRoc(cmd) == IF cmd.op = "roc" THEN {cmd.arg} ELSE {}
TakenTx(cmd) == IF cmd.op = "tx" THEN {cmd.arg} ELSE {}

\* Every handler, with the command it is for.
LEMMA HandledOK ==
  ASSUME NEW s \in Soc, RocOK(s), NEW C, TxOK(s, C), NEW cmd \in Commands,
         cmd.op = "roc" => cmd.arg \in Posted(s), cmd.op = "tx" => cmd.arg \in C, NEW h \in Handled(s, cmd)
  PROVE  Handles(s, h[1], Posted(s) \ TakenRoc(cmd), C \ TakenTx(cmd), h[2])
<1> DEFINE a == cmd.arg
<1>1. CASE cmd.op = "roc"
  <2>1. PICK res : h = <<ProcessRocReq(s, a, res), res>>
    BY <1>1 DEF Handled
  <2> DEFINE t == ProcessRocReq(s, a, res)
  <2>2. a \in Rocs /\ a \in Posted(s)
    BY <1>1 DEF Posted
  <2>3. /\ a \notin In(s.rocQ) /\ Injective(s.rocQ) /\ (\A p \in Busy(s) : p = Head(s.rocQ))
        /\ Alloc(s) \ {a} = In(s.rocQ) /\ (Busy(s) # {} => s.awake /\ s.rx # "off")
    BY <2>2 DEF RocOK, RocShape, Alloc, Posted
  <2>4. t \in Soc /\ TxSame(s, t) /\ RocOK(t) /\ Posted(t) = Posted(s) \ {a} /\ Moves(s, t, res)
    BY <2>2, <2>3, ProcessRocReqOK
  <2> HIDE DEF t
  <2>5. TxOK(t, C)
    BY <2>4 DEF TxSame, TxOK, Used
  <2>6. h[1] = t /\ h[2] = res
    BY <2>1 DEF t
  <2>7. QED
    BY <1>1, <2>4, <2>5, <2>6 DEF Handles, TakenRoc, TakenTx
<1>2. CASE cmd.op = "cancelRoc"
  <2>1. PICK res : h = <<ProcessCancelRoc(s, a, res), res>>
    BY <1>2 DEF Handled
  <2> DEFINE t == ProcessCancelRoc(s, a, res)
  <2>2. RocStep(s, t, res)
    BY ProcessCancelRocOK
  <2> HIDE DEF t
  <2>3. Handles(s, t, Posted(s), C, res)
    BY <2>2, OnlyRoc DEF RocStep
  <2>4. h[1] = t /\ h[2] = res
    BY <2>1 DEF t
  <2>5. QED
    BY <1>2, <2>3, <2>4 DEF TakenRoc, TakenTx
<1>3. CASE cmd.op = "cancelTx"
  <2>1. PICK res : h = <<ProcessTxCancel(s, a, res), res>>
    BY <1>3 DEF Handled
  <2>2. a \in Txs
    BY <1>3 DEF Commands
  <2>3. Handles(s, ProcessTxCancel(s, a, res), Posted(s), C, res)
    BY <2>2, ProcessTxCancelOK
  <2>4. QED
    BY <1>3, <2>1, <2>3 DEF TakenRoc, TakenTx
<1>4. CASE cmd.op = "cleanupRoc"
  <2>1. PICK res : h = <<CleanupRocQueue(s, a, res), res>>
    BY <1>4 DEF Handled
  <2> DEFINE t == CleanupRocQueue(s, a, res)
  <2>2. RocStep(s, t, res)
    BY CleanupRocQueueOK
  <2> HIDE DEF t
  <2>3. Handles(s, t, Posted(s), C, res)
    BY <2>2, OnlyRoc DEF RocStep
  <2>4. h[1] = t /\ h[2] = res
    BY <2>1 DEF t
  <2>5. QED
    BY <1>4, <2>3, <2>4 DEF TakenRoc, TakenTx
<1>5. CASE cmd.op = "cleanupTx"
  <2> DEFINE S == {x \in In(s.txQRoc \o s.txQAck) : s.tx[x].link = a}
             t == DropTx(s, S)
  <2>1. h = <<t, "ok">>
    BY <1>5 DEF Handled
  <2>2. S \subseteq In(s.txQRoc) \cup In(s.txQAck)
    <3>1. s.txQRoc \in Seq(Txs) /\ s.txQAck \in Seq(Txs)
      BY DEF Soc
    <3>2. QED
      BY <3>1, InConcat
  <2> HIDE DEF S
  <2>3. t \in Soc /\ RocSame(s, t) /\ TxOK(t, C)
    BY <2>2, DropTxOK
  <2> HIDE DEF t
  <2>4. Handles(s, t, Posted(s), C, "ok")
    BY <2>3, OnlyTx
  <2>5. QED
    BY <1>5, <2>1, <2>4 DEF TakenRoc, TakenTx
<1>6. CASE cmd.op = "tx"
  <2>1. PICK r \in Spare(s), res \in Outcomes({"tx", "start", "rx"}) : h = <<ProcessMgmtTx(s, a, r, res), res>>
    BY <1>6 DEF Handled
  <2>2. a \in Txs /\ a \in C
    BY <1>6 DEF Commands
  <2>3. Handles(s, ProcessMgmtTx(s, a, r, res), Posted(s), C \ {a}, res)
    BY <2>2, ProcessMgmtTxOK
  <2>4. QED
    BY <1>6, <2>1, <2>3 DEF TakenRoc, TakenTx
<1>7. QED
  BY <1>1, <1>2, <1>3, <1>4, <1>5, <1>6 DEF Commands
-----------------------------------------------------------------------------
(* Commands. *)

\* A user thread posts one...
LEMMA Posting ==
  ASSUME NEW cs \in Seq(Commands), Once(cs), NEW c \in Commands,
         c.op \in {"roc", "tx"} => c.arg \notin Args(cs, c.op)
  PROVE  /\ Append(cs, c) \in Seq(Commands) /\ Once(Append(cs, c))
         /\ \A op : Args(Append(cs, c), op) = Args(cs, op) \cup {x \in {c.arg} : c.op = op}
<1> DEFINE a == Append(cs, c)
           n == Len(cs)
<1>1. /\ a \in Seq(Commands) /\ n \in Nat /\ DOMAIN cs = 1 .. n /\ DOMAIN a = 1 .. n + 1 /\ a[n + 1] = c
      /\ \A i \in 1 .. n : a[i] = cs[i]
  OBVIOUS
<1> HIDE DEF a, n
<1>2. Once(a)
  <2>1. \A i \in 1 .. n : cs[i] = c /\ c.op \in {"roc", "tx"} => FALSE
    BY <1>1 DEF Args
  <2>2. QED
    BY <1>1, <2>1 DEF Once
<1>3. ASSUME NEW op PROVE Args(a, op) = Args(cs, op) \cup {x \in {c.arg} : c.op = op}
  <2>1. Args(a, op) \subseteq Args(cs, op) \cup {x \in {c.arg} : c.op = op}
    BY <1>1 DEF Args
  <2>2. Args(cs, op) \subseteq Args(a, op)
    BY <1>1 DEF Args
  <2>3. c.op = op => c.arg \in Args(a, op)
    BY <1>1 DEF Args
  <2>4. QED
    BY <2>1, <2>2, <2>3
<1>4. QED
  BY <1>1, <1>2, <1>3 DEF a

\* ...and the scheduler thread takes the first.
LEMMA Taking ==
  ASSUME NEW cs \in Seq(Commands), Once(cs), cs # <<>>
  PROVE  /\ Head(cs) \in Commands /\ Tail(cs) \in Seq(Commands) /\ Once(Tail(cs))
         /\ Args(Tail(cs), "roc") = Args(cs, "roc") \ TakenRoc(Head(cs))
         /\ Args(Tail(cs), "tx") = Args(cs, "tx") \ TakenTx(Head(cs))
         /\ TakenRoc(Head(cs)) \subseteq Args(cs, "roc") /\ TakenTx(Head(cs)) \subseteq Args(cs, "tx")
<1> DEFINE c == Head(cs)
           a == Tail(cs)
           n == Len(cs)
<1>1. /\ n \in Nat /\ n > 0 /\ DOMAIN cs = 1 .. n /\ c = cs[1] /\ c \in Commands /\ a \in Seq(Commands)
      /\ DOMAIN a = 1 .. n - 1 /\ (\A i \in 1 .. n - 1 : a[i] = cs[i + 1]) /\ \A i \in 1 .. n : cs[i] \in Commands
  OBVIOUS
<1> HIDE DEF a, n, c
<1>2. Once(a)
  <2>1. ASSUME NEW i \in DOMAIN a, NEW j \in DOMAIN a, a[i] = a[j], a[i].op \in {"roc", "tx"} PROVE i = j
    <3>1. i \in Nat /\ j \in Nat /\ i + 1 \in DOMAIN cs /\ j + 1 \in DOMAIN cs /\ cs[i + 1] = cs[j + 1] 
          /\ cs[i + 1] = a[i]
      BY <1>1, <2>1
    <3>2. i + 1 = j + 1
      BY <2>1, <3>1 DEF Once
    <3>3. QED
      BY <3>1, <3>2
  <2>2. QED
    BY <2>1 DEF Once
<1>3. \A i \in 1 .. n : i = 1 \/ (i - 1 \in 1 .. n - 1 /\ a[i - 1] = cs[i])
  BY <1>1
<1>4. ASSUME NEW op \in {"roc", "tx"}
      PROVE  /\ Args(a, op) = Args(cs, op) \ {x \in {c.arg} : c.op = op}
             /\ {x \in {c.arg} : c.op = op} \subseteq Args(cs, op)
  <2>1. \A i \in 1 .. n - 1 : i + 1 \in 1 .. n /\ i + 1 # 1
    BY <1>1
  <2>2. Args(a, op) \subseteq Args(cs, op)
    BY <1>1, <2>1 DEF Args
  <2>3. c.op = op => c.arg \notin Args(a, op)
    <3>1. SUFFICES ASSUME c.op = op, NEW i \in 1 .. n - 1, a[i].op = op, a[i].arg = c.arg PROVE FALSE
      BY <1>1 DEF Args
    <3>2. cs[i + 1] \in Commands /\ cs[i + 1].op = c.op /\ cs[i + 1].arg = c.arg
      BY <1>1, <2>1, <3>1
    <3>3. cs[i + 1] = cs[1]
      <4>1. \A d \in Commands : d = [op |-> d.op, arg |-> d.arg]
        BY DEF Commands
      <4>2. cs[i + 1] = [op |-> cs[i + 1].op, arg |-> cs[i + 1].arg] /\ c = [op |-> c.op, arg |-> c.arg]
        BY <1>1, <3>2, <4>1
      <4>3. QED
        BY <1>1, <3>2, <4>2
    <3>4. 1 \in DOMAIN cs /\ i + 1 \in DOMAIN cs /\ cs[1].op \in {"roc", "tx"}
      BY <1>1, <2>1, <3>1
    <3>5. i + 1 = 1
      BY <3>3, <3>4 DEF Once
    <3>6. QED
      BY <2>1, <3>5
  <2>4. Args(cs, op) \subseteq Args(a, op) \cup {x \in {c.arg} : c.op = op}
    BY <1>1, <1>3 DEF Args
  <2>5. c.op = op => c.arg \in Args(cs, op)
    BY <1>1 DEF Args
  <2>6. QED
    BY <2>2, <2>3, <2>4, <2>5
<1>5. QED
  BY <1>1, <1>2, <1>4 DEF a, c, TakenRoc, TakenTx
-----------------------------------------------------------------------------
(* Steps of user threads. *)

\* What a step owes that changes the soc only in what no invariant reads.
LEMMA Untouched ==
  ASSUME NEW s, NEW t, RocSame(s, t), TxSame(s, t)
  PROVE  /\ RocOK(s) => RocOK(t)
         /\ Posted(t) = Posted(s) /\ Busy(t) = Busy(s) /\ \A C : TxOK(s, C) => TxOK(t, C)
<1>1. Posted(t) = Posted(s) /\ Alloc(t) = Alloc(s) /\ Busy(t) = Busy(s)
  BY DEF RocSame, Posted, Alloc, Busy
<1>2. Used(t) = Used(s)
  BY DEF TxSame, Used
<1>3. RocOK(s) => RocOK(t)
  BY <1>1 DEF RocSame, RocOK, RocShape
<1>4. \A C : TxOK(s, C) => TxOK(t, C)
  BY <1>2 DEF TxSame, TxOK
<1>5. QED
  BY <1>1, <1>3, <1>4

\* ucfg_p2p_roc_req
LEMMA UcfgRocReqKeeps == ASSUME P2pInv, NEW r \in Rocs, NEW req \in RocReqs, UcfgRocReq(r, req) PROVE P2pInv'
<1> DEFINE c == [op |-> "roc", arg |-> r]
           d == [FreeRoc EXCEPT !.st = "POSTED", !.id = r, !.link = req.link, !.chan = req.chan]
           f == [soc.roc EXCEPT ![r] = d]
           i == soc.ids \cup {r}
<1>1. soc.roc[r].st = "FREE" /\ cmds' = Append(cmds, c) /\ UNCHANGED <<scans, expired, failed>>
  BY DEF UcfgRocReq, Post
<1>2. soc' = [soc EXCEPT !.ids = i, !.roc = f]
  BY Zenon DEF UcfgRocReq
<1>3. /\ soc \in Soc /\ cmds \in Seq(Commands) /\ RocOK(soc) /\ Posted(soc) = Args(cmds, "roc")
      /\ TxOK(soc, Args(cmds, "tx")) /\ Once(cmds) /\ (failed = 0 => Moving(soc, scans))
      /\ scans \in Seq({"queued", "started", "foreign"}) /\ expired \in Nat /\ failed \in Nat
  BY DEF P2pInv, P2pTypeOK
<1>4. c \in Commands /\ c.op = "roc" /\ c.arg = r
  BY DEF Commands
<1>5. d \in RocCtx /\ d.st = "POSTED"
  BY DEF FreeRoc, RocCtx, Chans, Vifs
<1>6. soc.roc \in [Rocs -> RocCtx] /\ soc.rocQ \in Seq(Rocs) /\ i \in SUBSET (Rocs \cup Txs)
  BY <1>3 DEF Soc
<1> HIDE DEF c, d
<1>7. f \in [Rocs -> RocCtx] /\ f[r] = d /\ \A p \in Rocs : p # r => f[p] = soc.roc[p]
  BY <1>5, <1>6
<1> HIDE DEF f, i
<1>8. /\ soc' \in Soc /\ TxSame(soc, soc') /\ soc'.rocQ = soc.rocQ /\ soc'.roc = f
      /\ soc'.awake = soc.awake /\ soc'.rx = soc.rx
  BY <1>2, <1>3, <1>6, <1>7 DEF Soc, TxSame
<1>9. In(soc.rocQ) \subseteq Rocs /\ r \notin In(soc.rocQ) /\ r \notin Posted(soc)
  BY <1>1, <1>3, <1>6, InQueue DEF RocOK, RocShape, Alloc, Posted
<1>10. Busy(soc') = Busy(soc) /\ Alloc(soc') = Alloc(soc) /\ Posted(soc') = Posted(soc) \cup {r}
  BY <1>1, <1>5, <1>7, <1>8, <1>9 DEF Busy, Alloc, Posted
<1>11. RocOK(soc')
  BY <1>3, <1>8, <1>10 DEF RocOK, RocShape
<1>12. /\ cmds' \in Seq(Commands) /\ Once(cmds')
       /\ Args(cmds', "roc") = Args(cmds, "roc") \cup {r} /\ Args(cmds', "tx") = Args(cmds, "tx")
  <2>1. c.op \in {"roc", "tx"} => c.arg \notin Args(cmds, c.op)
    BY <1>3, <1>4, <1>9
  <2>2. /\ Append(cmds, c) \in Seq(Commands) /\ Once(Append(cmds, c))
        /\ \A op : Args(Append(cmds, c), op) = Args(cmds, op) \cup {x \in {c.arg} : c.op = op}
    BY <1>3, <1>4, <2>1, Posting
  <2>3. /\ {x \in {c.arg} : c.op = "roc"} = {r} /\ {x \in {c.arg} : c.op = "tx"} = {}
    BY <1>4
  <2>4. QED
    BY <1>1, <2>2, <2>3, Zenon
<1>13. TxOK(soc', Args(cmds', "tx"))
  BY <1>3, <1>8, <1>12 DEF TxSame, TxOK, Used
<1>14. failed' = 0 => Moving(soc', scans')
  BY <1>1, <1>3, <1>8, <1>10 DEF Moving
<1>15. P2pTypeOK'
  BY <1>1, <1>3, <1>8, <1>12 DEF P2pTypeOK
<1>16. QED
  BY <1>3, <1>10, <1>11, <1>12, <1>13, <1>14, <1>15 DEF P2pInv

\* ucfg_p2p_mgmt_tx
LEMMA UcfgMgmtTxKeeps == ASSUME P2pInv, NEW x \in Txs, NEW g \in Frames, UcfgMgmtTx(x, g) PROVE P2pInv'
<1> DEFINE c == [op |-> "tx", arg |-> x]
           d == [FreeTx EXCEPT !.st = "USED", !.link = g.link, !.chan = g.chan, !.noAck = g.noAck]
           f == [soc.tx EXCEPT ![x] = d]
           i == IF g.noAck THEN soc.ids ELSE soc.ids \cup {x}
<1>1. soc.tx[x].st = "FREE" /\ cmds' = Append(cmds, c) /\ UNCHANGED <<scans, expired, failed>>
  BY DEF UcfgMgmtTx, Post
<1>2. soc' = [soc EXCEPT !.ids = i, !.tx = f]
  BY Zenon DEF UcfgMgmtTx
<1>3. /\ soc \in Soc /\ cmds \in Seq(Commands) /\ RocOK(soc) /\ Posted(soc) = Args(cmds, "roc")
      /\ TxOK(soc, Args(cmds, "tx")) /\ Once(cmds) /\ (failed = 0 => Moving(soc, scans))
      /\ scans \in Seq({"queued", "started", "foreign"}) /\ expired \in Nat /\ failed \in Nat
  BY DEF P2pInv, P2pTypeOK
<1>4. c \in Commands /\ c.op = "tx" /\ c.arg = x
  BY DEF Commands
<1>5. d \in TxCtx /\ d.st = "USED"
  BY DEF FreeTx, TxCtx, Chans, Vifs
<1>6. soc.tx \in [Txs -> TxCtx] /\ i \in SUBSET (Rocs \cup Txs)
  BY <1>3 DEF Soc
<1> HIDE DEF c, d
<1>7. f \in [Txs -> TxCtx] /\ f[x] = d /\ \A y \in Txs : y # x => f[y] = soc.tx[y]
  BY <1>5, <1>6
<1> HIDE DEF f, i
<1>8. /\ soc' \in Soc /\ RocSame(soc, soc') /\ soc'.tx = f /\ soc'.txQRoc = soc.txQRoc /\ soc'.txQAck = soc.txQAck
  BY <1>2, <1>3, <1>6, <1>7 DEF Soc, RocSame
<1>9. x \notin Used(soc) /\ Used(soc') = Used(soc) \cup {x}
  BY <1>1, <1>5, <1>7, <1>8 DEF Used
<1>10. /\ cmds' \in Seq(Commands) /\ Once(cmds')
       /\ Args(cmds', "roc") = Args(cmds, "roc") /\ Args(cmds', "tx") = Args(cmds, "tx") \cup {x}
  <2>1. c.op \in {"roc", "tx"} => c.arg \notin Args(cmds, c.op)
    BY <1>3, <1>4, <1>9 DEF TxOK
  <2>2. /\ Append(cmds, c) \in Seq(Commands) /\ Once(Append(cmds, c))
        /\ \A op : Args(Append(cmds, c), op) = Args(cmds, op) \cup {y \in {c.arg} : c.op = op}
    BY <1>3, <1>4, <2>1, Posting
  <2>3. /\ {y \in {c.arg} : c.op = "roc"} = {} /\ {y \in {c.arg} : c.op = "tx"} = {x}
    BY <1>4
  <2>4. QED
    BY <1>1, <2>2, <2>3, Zenon
<1>11. TxOK(soc', Args(cmds', "tx"))
  BY <1>3, <1>8, <1>9, <1>10 DEF TxOK
<1>12. Posted(soc') = Posted(soc) /\ Alloc(soc') = Alloc(soc) /\ Busy(soc') = Busy(soc)
  BY <1>8 DEF RocSame, Posted, Alloc, Busy
<1>13. RocOK(soc')
  BY <1>3, <1>8, <1>12 DEF RocSame, RocOK, RocShape
<1>14. failed' = 0 => Moving(soc', scans')
  BY <1>1, <1>3, <1>8, <1>12 DEF RocSame, Moving
<1>15. P2pTypeOK'
  BY <1>1, <1>3, <1>8, <1>10 DEF P2pTypeOK
<1>16. QED
  BY <1>3, <1>10, <1>11, <1>12, <1>13, <1>14, <1>15 DEF P2pInv

\* A command that carries no context, with what the user sets for it.
LEMMA OtherCommandKeeps ==
  ASSUME P2pInv, NEW c \in Commands, c.op \notin {"roc", "tx"}, cmds' = Append(cmds, c) \/ cmds' = cmds,
         soc' \in Soc, RocSame(soc, soc'), TxSame(soc, soc'), UNCHANGED <<scans, expired, failed>>
  PROVE  P2pInv'
<1>1. /\ soc \in Soc /\ cmds \in Seq(Commands) /\ RocOK(soc) /\ Posted(soc) = Args(cmds, "roc")
      /\ TxOK(soc, Args(cmds, "tx")) /\ Once(cmds) /\ (failed = 0 => Moving(soc, scans))
      /\ scans \in Seq({"queued", "started", "foreign"}) /\ expired \in Nat /\ failed \in Nat
  BY DEF P2pInv, P2pTypeOK
<1>2. /\ cmds' \in Seq(Commands) /\ Once(cmds')
      /\ Args(cmds', "roc") = Args(cmds, "roc") /\ Args(cmds', "tx") = Args(cmds, "tx")
  <2>1. c.op \in {"roc", "tx"} => c.arg \notin Args(cmds, c.op)
    OBVIOUS
  <2>2. /\ Append(cmds, c) \in Seq(Commands) /\ Once(Append(cmds, c))
        /\ \A op : Args(Append(cmds, c), op) = Args(cmds, op) \cup {y \in {c.arg} : c.op = op}
    BY <1>1, <2>1, Posting
  <2>3. QED
    BY <1>1, <2>2
<1>3. /\ RocOK(soc') /\ Posted(soc') = Posted(soc) /\ Busy(soc') = Busy(soc) /\ TxOK(soc', Args(cmds, "tx"))
  BY <1>1, Untouched
<1>4. failed' = 0 => Moving(soc', scans')
  BY <1>1, <1>3 DEF RocSame, Moving
<1>5. P2pTypeOK'
  BY <1>1, <1>2 DEF P2pTypeOK
<1>6. QED
  BY <1>1, <1>2, <1>3, <1>4, <1>5 DEF P2pInv

\* ucfg_p2p_roc_cancel_req and ucfg_p2p_mgmt_tx_cancel
LEMMA UcfgCancelKeeps == ASSUME P2pInv, NEW p \in Rocs \cup Txs, UcfgCancel(p) PROVE P2pInv'
<1> DEFINE c == [op |-> IF p \in Rocs THEN "cancelRoc" ELSE "cancelTx", arg |-> p]
<1>1. cmds' = Append(cmds, c) /\ UNCHANGED <<soc, scans, expired, failed>>
  BY DEF UcfgCancel, Post
<1>2. c \in Commands /\ c.op \notin {"roc", "tx"}
  BY DEF Commands
<1>3. soc' \in Soc /\ RocSame(soc, soc') /\ TxSame(soc, soc')
  BY <1>1 DEF P2pInv, P2pTypeOK, RocSame, TxSame
<1> HIDE DEF c
<1>4. QED
  BY <1>1, <1>2, <1>3, OtherCommandKeeps

\* p2p_cleanup_roc_sync, until it sleeps.
LEMMA CleanupRocSyncKeeps == ASSUME P2pInv, NEW v \in Links, CleanupRocSync(v) PROVE P2pInv'
<1> DEFINE c == [op |-> "cleanupRoc", arg |-> v]
<1>1. cmds' = Append(cmds, c) /\ UNCHANGED <<scans, expired, failed>>
  BY DEF CleanupRocSync, Post
<1>2. c \in Commands /\ c.op \notin {"roc", "tx"}
  BY DEF Commands
<1>3. soc' \in Soc /\ RocSame(soc, soc') /\ TxSame(soc, soc')
  <2>1. soc' = [soc EXCEPT !.cleaner = v, !.cleanupDone = FALSE] /\ soc \in Soc
    BY DEF CleanupRocSync, P2pInv, P2pTypeOK
  <2>2. QED
    BY <2>1 DEF Soc, RocSame, TxSame
<1> HIDE DEF c
<1>4. QED
  BY <1>1, <1>2, <1>3, OtherCommandKeeps

\* p2p_cleanup_tx_sync
LEMMA CleanupTxKeeps == ASSUME P2pInv, NEW v \in Links, CleanupTx(v) PROVE P2pInv'
<1> DEFINE c == [op |-> "cleanupTx", arg |-> v]
<1>1. cmds' = Append(cmds, c) /\ UNCHANGED <<soc, scans, expired, failed>>
  BY DEF CleanupTx, Post
<1>2. c \in Commands /\ c.op \notin {"roc", "tx"}
  BY DEF Commands
<1>3. soc' \in Soc /\ RocSame(soc, soc') /\ TxSame(soc, soc')
  BY <1>1 DEF P2pInv, P2pTypeOK, RocSame, TxSame
<1> HIDE DEF c
<1>4. QED
  BY <1>1, <1>2, <1>3, OtherCommandKeeps
\* The end of the sleep of p2p_cleanup_roc_sync.
LEMMA CleanupRocEndKeeps == ASSUME P2pInv, CleanupRocEnd PROVE P2pInv'
<1> DEFINE c == [op |-> "cleanupRoc", arg |-> soc.cleaner]
<1>1. soc.cleaner # Nil /\ soc' = [soc EXCEPT !.cleaner = Nil, !.cleanupDone = FALSE] /\ soc \in Soc
  BY DEF CleanupRocEnd, P2pInv, P2pTypeOK
<1>2. cmds' = cmds /\ UNCHANGED <<scans, expired, failed>>
  BY DEF CleanupRocEnd
<1>3. c \in Commands /\ c.op \notin {"roc", "tx"}
  BY <1>1 DEF Commands, Soc
<1>4. soc' \in Soc /\ RocSame(soc, soc') /\ TxSame(soc, soc')
  BY <1>1 DEF Soc, RocSame, TxSame
<1> HIDE DEF c
<1>5. QED
  BY <1>2, <1>3, <1>4, OtherCommandKeeps

-----------------------------------------------------------------------------
(* Steps of the scheduler thread. *)

\* The progress of a scan.
Progress == {"queued", "started", "foreign"}

\* Only a call that fails is counted.
LEMMA CountFailIs == ASSUME P2pTypeOK, NEW res
                     PROVE  CountFail(res) \in Nat /\ (CountFail(res) = 0 => failed = 0 /\ res = "ok")
BY DEF CountFail, P2pTypeOK

\* A queue of which a request is on air.
LEMMA OnAirQueued == ASSUME NEW s \in Soc, RocOK(s), NEW r \in Rocs, s.roc[r].st = "REQUESTED" PROVE r \in Busy(s)
BY DEF RocOK, RocShape, Alloc, Busy

\* p2p_process_cmd
LEMMA ProcessCmdKeeps == ASSUME P2pInv, ProcessCmd PROVE P2pInv'
<1> DEFINE c == Head(cmds)
           C == Args(cmds, "tx")
<1>1. /\ soc \in Soc /\ cmds \in Seq(Commands) /\ RocOK(soc) /\ Posted(soc) = Args(cmds, "roc")
      /\ TxOK(soc, C) /\ Once(cmds) /\ (failed = 0 => Moving(soc, scans))
      /\ scans \in Seq(Progress) /\ expired \in Nat /\ failed \in Nat
  BY DEF P2pInv, P2pTypeOK, Progress
<1>2. PICK h \in Handled(soc, c) : soc' = h[1] /\ scans' = Scanning(soc, soc') /\ failed' = CountFail(h[2])
  BY DEF ProcessCmd
<1>3. cmds # <<>> /\ cmds' = Tail(cmds) /\ expired' = expired
  BY DEF ProcessCmd
<1>4. /\ c \in Commands /\ cmds' \in Seq(Commands) /\ Once(cmds')
      /\ Args(cmds', "roc") = Args(cmds, "roc") \ TakenRoc(c) /\ Args(cmds', "tx") = C \ TakenTx(c)
      /\ TakenRoc(c) \subseteq Args(cmds, "roc") /\ TakenTx(c) \subseteq C
  <2>1. cmds \in Seq(Commands) /\ Once(cmds) /\ cmds # <<>>
    BY <1>1, <1>3
  <2>2. QED
    BY <1>3, <2>1, Taking
<1> HIDE DEF c, C
<1>5. (c.op = "roc" => c.arg \in Posted(soc)) /\ (c.op = "tx" => c.arg \in C)
  BY <1>1, <1>4 DEF TakenRoc, TakenTx
<1>6. Handles(soc, soc', Posted(soc) \ TakenRoc(c), C \ TakenTx(c), h[2])
  BY <1>1, <1>2, <1>4, <1>5, HandledOK
<1>8. failed' \in Nat /\ (failed' = 0 => failed = 0 /\ h[2] = "ok")
  BY <1>2, CountFailIs DEF P2pInv
<1>9. soc' \in Soc /\ RocOK(soc')
  BY <1>6 DEF Handles
<1>10. scans' \in Seq(Progress) /\ (scans # <<>> => scans' # <<>>)
  BY <1>1, <1>2 DEF Scanning, Progress
<1>11. ASSUME failed' = 0 PROVE Moving(soc', scans')
  <2>1. Moving(soc, scans) /\ Moves(soc, soc', "ok")
    BY <1>1, <1>6, <1>8, <1>11 DEF Handles
  <2>2. CASE soc.rocQ # <<>>
    BY <1>10, <2>1, <2>2 DEF Moving, Moves
  <2>3. CASE soc.rocQ = <<>> /\ soc'.rocQ # <<>>
    <3>1. PICK r \in Rocs : soc'.roc[r].st = "REQUESTED"
      BY <2>1, <2>3 DEF Moves
    <3>2. r \in Busy(soc')
      BY <1>9, <3>1, OnAirQueued
    <3>3. soc.roc[r].st # "REQUESTED"
      <4>1. soc.rocQ \in Seq(Rocs)
        BY <1>1 DEF Soc
      <4>2. In(soc.rocQ) = {}
        BY <2>3, <4>1, InQueue
      <4>3. QED
        BY <1>1, <4>2, OnAirQueued DEF Busy
    <3>4. scans' = Append(scans, "queued")
      BY <1>2, <3>1, <3>3 DEF Scanning
    <3>5. scans' # <<>>
      BY <1>1, <3>4 DEF Progress
    <3>6. QED
      BY <3>2, <3>5 DEF Moving
  <2>4. QED
    BY <2>2, <2>3 DEF Moving
<1>12. P2pTypeOK'
  BY <1>1, <1>3, <1>4, <1>8, <1>9, <1>10 DEF P2pTypeOK, Progress
<1>13. QED
  BY <1>1, <1>4, <1>6, <1>11, <1>12 DEF P2pInv, Handles, C

\* A step that leaves the messages alone.
LEMMA SchedulerStep ==
  ASSUME P2pInv, soc' \in Soc, RocOK(soc'), Posted(soc') = Posted(soc), TxOK(soc', Args(cmds, "tx")), cmds' = cmds,
         scans' \in Seq(Progress), expired' \in Nat, failed' \in Nat, failed' = 0 => Moving(soc', scans')
  PROVE  P2pInv'
<1>1. P2pTypeOK'
  BY DEF P2pInv, P2pTypeOK, Progress
<1>2. QED
  BY <1>1 DEF P2pInv

\* p2p_scan_start_evt
LEMMA ScanStartedKeeps == ASSUME P2pInv, NEW i, ScanStarted(i) PROVE P2pInv'
<1> DEFINE cur == Current(soc)
           c == [soc.roc[cur] EXCEPT !.st = "STARTED"]
<1>1. /\ soc \in Soc /\ RocOK(soc) /\ RocShape(soc) /\ TxOK(soc, Args(cmds, "tx"))
      /\ (failed = 0 => Moving(soc, scans)) /\ scans \in Seq(Progress) /\ expired \in Nat /\ failed \in Nat
  BY DEF P2pInv, P2pTypeOK, Progress, RocOK
<1>2. /\ i \in DOMAIN scans /\ scans' = [scans EXCEPT ![i] = "started"] /\ UNCHANGED <<cmds, expired, failed>>
      /\ soc' = IF cur = Nil THEN soc ELSE [soc EXCEPT !.roc[cur].st = "STARTED"]
  BY DEF ScanStarted
<1>3. scans' \in Seq(Progress) /\ (scans # <<>> => scans' # <<>>)
  <2>1. Len(scans') = Len(scans) /\ Len(scans) \in Nat /\ scans' \in Seq(Progress)
    BY <1>1, <1>2 DEF Progress
  <2>2. (scans # <<>> => Len(scans) # 0) /\ (Len(scans') # 0 => scans' # <<>>)
    BY <1>1, <2>1
  <2>3. QED
    BY <2>1, <2>2
<1>4. /\ soc' \in Soc /\ RocOK(soc') /\ Posted(soc') = Posted(soc) /\ TxOK(soc', Args(cmds, "tx"))
      /\ Busy(soc') = Busy(soc) /\ soc'.rocQ = soc.rocQ
  <2>1. CASE cur = Nil
    BY <1>1, <1>2, <2>1
  <2>2. CASE cur # Nil
    <3>1. cur \in Rocs /\ cur \in Busy(soc)
      BY <1>1, <2>2, CurrentIs
    <3>2. soc.roc \in [Rocs -> RocCtx]
      BY <1>1 DEF Soc
    <3> HIDE DEF cur
    <3>3. soc' = [soc EXCEPT !.roc = [soc.roc EXCEPT ![cur] = c]]
      <4>1. [soc.roc EXCEPT ![cur].st = "STARTED"] = [soc.roc EXCEPT ![cur] = c]
        BY <3>1, <3>2
      <4>2. soc' = [soc EXCEPT !.roc[cur].st = "STARTED"]
        BY <1>2, <2>2
      <4>3. QED
        BY <4>1, <4>2
    <3>4. c \in RocCtx /\ c.st \in AirStates
      BY <3>1, <3>2 DEF RocCtx, AirStates
    <3> HIDE DEF c
    <3>5. /\ soc' \in Soc /\ TxSame(soc, soc') /\ RocOK(soc') /\ Posted(soc') = Posted(soc)
          /\ Busy(soc') = Busy(soc) /\ soc'.rocQ = soc.rocQ
      BY <1>1, <3>1, <3>3, <3>4, TouchedOK
    <3>6. TxOK(soc', Args(cmds, "tx"))
      BY <1>1, <3>5 DEF TxSame, TxOK, Used
    <3>7. QED
      BY <3>5, <3>6
  <2>3. QED
    BY <2>1, <2>2
<1>5. failed' = 0 => Moving(soc', scans')
  BY <1>1, <1>2, <1>3, <1>4 DEF Moving
<1>6. expired' \in Nat /\ failed' \in Nat /\ cmds' = cmds
  BY <1>1, <1>2
<1>7. QED
  BY <1>3, <1>4, <1>5, <1>6, SchedulerStep
\* p2p_scan_event_cb, on a foreign channel.
LEMMA ScanForeignChannelKeeps == ASSUME P2pInv, NEW i, ScanForeignChannel(i) PROVE P2pInv'
<1> DEFINE cur == Current(soc)
<1>1. /\ soc \in Soc /\ RocOK(soc) /\ RocShape(soc) /\ TxOK(soc, Args(cmds, "tx")) /\ P2pTypeOK
      /\ (failed = 0 => Moving(soc, scans)) /\ scans \in Seq(Progress) /\ expired \in Nat /\ failed \in Nat
  BY DEF P2pInv, P2pTypeOK, Progress, RocOK
<1>2. PICK res :
        soc' = (IF cur = Nil THEN soc ELSE ReadyOnChannel(soc, cur, res)) /\ failed' = CountFail(res)
  BY DEF ScanForeignChannel
<1>3. i \in DOMAIN scans /\ scans' = [scans EXCEPT ![i] = "foreign"] /\ cmds' = cmds /\ expired' = expired
  BY DEF ScanForeignChannel
<1>4. failed' \in Nat /\ (failed' = 0 => failed = 0)
  BY <1>1, <1>2, CountFailIs
<1>5. scans' \in Seq(Progress) /\ (scans # <<>> => scans' # <<>>)
  <2>1. Len(scans') = Len(scans) /\ Len(scans) \in Nat /\ scans' \in Seq(Progress)
    BY <1>1, <1>3 DEF Progress
  <2>2. (scans # <<>> => Len(scans) # 0) /\ (Len(scans') # 0 => scans' # <<>>)
    BY <1>1, <2>1
  <2>3. QED
    BY <2>1, <2>2
<1>6. /\ soc' \in Soc /\ RocOK(soc') /\ Posted(soc') = Posted(soc) /\ TxOK(soc', Args(cmds, "tx"))
      /\ Busy(soc') = Busy(soc) /\ soc'.rocQ = soc.rocQ
  <2>1. CASE cur = Nil
    BY <1>1, <1>2, <2>1
  <2>2. CASE cur # Nil
    <3>1. cur \in Busy(soc)
      BY <1>1, <2>2, CurrentIs
    <3> HIDE DEF cur
    <3> DEFINE t == ReadyOnChannel(soc, cur, res)
    <3>2. /\ t \in Soc /\ RocOK(t) /\ Posted(t) = Posted(soc) /\ TxOK(t, Args(cmds, "tx"))
          /\ Busy(t) = Busy(soc) /\ t.rocQ = soc.rocQ
      BY <1>1, <3>1, ReadyOnChannelOK
    <3>3. soc' = t
      BY <1>2, <2>2
    <3> HIDE DEF t
    <3>4. QED
      BY <3>2, <3>3
  <2>3. QED
    BY <2>1, <2>2
<1>7. failed' = 0 => Moving(soc', scans')
  BY <1>1, <1>4, <1>5, <1>6 DEF Moving
<1>8. expired' \in Nat
  BY <1>1, <1>3
<1>9. QED
  BY <1>3, <1>4, <1>5, <1>6, <1>7, <1>8, SchedulerStep

\* What remains of the scans without one.
LEMMA ScansLeft ==
  ASSUME NEW sc \in Seq(Progress), NEW i \in DOMAIN sc
  PROVE  SubSeq(sc, 1, i - 1) \o SubSeq(sc, i + 1, Len(sc)) \in Seq(Progress)
<1> DEFINE n == Len(sc)
<1>1. n \in Nat /\ i \in 1 .. n /\ \A j \in 1 .. n : sc[j] \in Progress
  OBVIOUS
<1> HIDE DEF n
<1>2. SubSeq(sc, 1, i - 1) \in Seq(Progress)
  <2>1. 1 \in Int /\ i - 1 \in Int /\ \A j \in 1 .. i - 1 : sc[j] \in Progress
    BY <1>1
  <2>2. QED
    BY <2>1, SubSeqProperties
<1>3. SubSeq(sc, i + 1, n) \in Seq(Progress)
  <2>1. i + 1 \in Int /\ n \in Int /\ \A j \in i + 1 .. n : sc[j] \in Progress
    BY <1>1
  <2>2. QED
    BY <2>1, SubSeqProperties
<1>4. QED
  BY <1>2, <1>3, ConcatProperties DEF n

\* p2p_process_scan_complete_evt: the air goes to the next of the queue.
LEMMA ScanEndsKeeps == ASSUME P2pInv, NEW i, ScanEnds(i) PROVE P2pInv'
<1> DEFINE cur == Current(soc)
           left == SubSeq(scans, 1, i - 1) \o SubSeq(scans, i + 1, Len(scans))
<1>1. /\ soc \in Soc /\ RocOK(soc) /\ RocShape(soc) /\ TxOK(soc, Args(cmds, "tx")) /\ P2pTypeOK
      /\ (failed = 0 => Moving(soc, scans)) /\ scans \in Seq(Progress) /\ expired \in Nat /\ failed \in Nat
  BY DEF P2pInv, P2pTypeOK, Progress, RocOK
<1>2. PICK res :
        IF cur = Nil THEN soc' = soc /\ scans' = left /\ failed' = failed
        ELSE /\ soc' = ScanComplete(soc, cur, res)
             /\ scans' = IF Current(soc') = Nil THEN left ELSE Append(left, "queued")
             /\ failed' = CountFail(res)
  BY DEF ScanEnds
<1>3. i \in DOMAIN scans /\ cmds' = cmds /\ expired' = expired
  BY DEF ScanEnds
<1>4. left \in Seq(Progress)
  BY <1>1, <1>3, ScansLeft
<1> HIDE DEF left
<1>5. CASE cur = Nil
  <2>1. soc' = soc /\ scans' = left /\ failed' = failed
    BY <1>2, <1>5
  <2>2. Busy(soc) = {}
    BY <1>1, <1>5, CurrentIs
  <2>3. failed' = 0 => Moving(soc', scans')
    BY <1>1, <2>1, <2>2 DEF Moving
  <2>4. QED
    BY <1>1, <1>3, <1>4, <2>1, <2>3, SchedulerStep
<1>6. CASE cur # Nil
  <2>1. cur \in Busy(soc)
    BY <1>1, <1>6, CurrentIs
  <2>2. /\ soc' = ScanComplete(soc, cur, res) /\ failed' = CountFail(res)
        /\ scans' = IF Current(soc') = Nil THEN left ELSE Append(left, "queued")
    BY <1>2, <1>6
  <2> HIDE DEF cur
  <2>3. /\ soc' \in Soc /\ TxSame(soc, soc') /\ RocOK(soc') /\ Posted(soc') = Posted(soc)
        /\ res = "ok" /\ soc'.rocQ # <<>> => Busy(soc') # {}
    <3> DEFINE t == ScanComplete(soc, cur, res)
    <3>1. /\ t \in Soc /\ TxSame(soc, t) /\ RocOK(t) /\ Posted(t) = Posted(soc)
          /\ res = "ok" /\ t.rocQ # <<>> => Busy(t) # {}
      BY <1>1, <2>1, ScanCompleteOK
    <3>2. soc' = t
      BY <2>2
    <3> HIDE DEF t
    <3>3. QED
      BY <3>1, <3>2
  <2>4. failed' \in Nat /\ (failed' = 0 => res = "ok")
    BY <1>1, <2>2, CountFailIs
  <2>5. scans' \in Seq(Progress)
    BY <1>4, <2>2 DEF Progress
  <2>6. Busy(soc') # {} => scans' # <<>>
    <3>1. RocShape(soc')
      BY <2>3 DEF RocOK
    <3>2. Busy(soc') # {} => Current(soc') # Nil
      BY <2>3, <3>1, CurrentIs
    <3>3. Append(left, "queued") # <<>>
      BY <1>4 DEF Progress
    <3>4. QED
      BY <2>2, <3>2, <3>3
  <2>7. failed' = 0 => Moving(soc', scans')
    BY <2>3, <2>4, <2>6 DEF Moving
  <2>8. TxOK(soc', Args(cmds, "tx"))
    BY <1>1, <2>3 DEF TxSame, TxOK, Used
  <2>9. QED
    BY <1>1, <1>3, <2>3, <2>4, <2>5, <2>7, <2>8, SchedulerStep
<1>7. QED
  BY <1>5, <1>6

\* The timer of a request fires...
LEMMA RocTimerFiresKeeps == ASSUME P2pInv, NEW r \in Rocs, RocTimerFires(r) PROVE P2pInv'
<1> DEFINE c == [soc.roc[r] EXCEPT !.timer = "stopped"]
<1>1. /\ soc \in Soc /\ RocOK(soc) /\ TxOK(soc, Args(cmds, "tx"))
      /\ (failed = 0 => Moving(soc, scans)) /\ scans \in Seq(Progress) /\ expired \in Nat /\ failed \in Nat
  BY DEF P2pInv, P2pTypeOK, Progress
<1>2. /\ soc' = [soc EXCEPT !.roc[r].timer = "stopped"] /\ expired' = expired + 1
      /\ UNCHANGED <<cmds, scans, failed>>
  BY DEF RocTimerFires
<1>3. soc.roc \in [Rocs -> RocCtx]
  BY <1>1 DEF Soc
<1>4. soc' = [soc EXCEPT !.roc = [soc.roc EXCEPT ![r] = c]]
  <2>1. [soc.roc EXCEPT ![r].timer = "stopped"] = [soc.roc EXCEPT ![r] = c]
    BY <1>3
  <2>2. QED
    BY <1>2, <2>1
<1>5. c \in RocCtx /\ c.st = soc.roc[r].st
  BY <1>3 DEF RocCtx
<1> HIDE DEF c
<1>6. /\ soc' \in Soc /\ TxSame(soc, soc') /\ RocOK(soc') /\ Posted(soc') = Posted(soc)
      /\ Busy(soc') = Busy(soc) /\ soc'.rocQ = soc.rocQ
  BY <1>1, <1>4, <1>5, TouchedOK
<1>7. TxOK(soc', Args(cmds, "tx"))
  BY <1>1, <1>6 DEF TxSame, TxOK, Used
<1>8. failed' = 0 => Moving(soc', scans')
  BY <1>1, <1>2, <1>6 DEF Moving
<1>9. expired' \in Nat /\ failed' \in Nat /\ cmds' = cmds /\ scans' = scans
  BY <1>1, <1>2
<1>10. QED
  BY <1>1, <1>6, <1>7, <1>8, <1>9, SchedulerStep

\* ...and p2p_roc_timeout cancels whatever is on air then.
LEMMA RocTimeoutKeeps == ASSUME P2pInv, RocTimeout PROVE P2pInv'
<1> DEFINE cur == Current(soc)
<1>1. /\ soc \in Soc /\ RocOK(soc) /\ RocShape(soc) /\ TxOK(soc, Args(cmds, "tx")) /\ P2pTypeOK
      /\ (failed = 0 => Moving(soc, scans)) /\ scans \in Seq(Progress) /\ expired \in Nat /\ failed \in Nat
  BY DEF P2pInv, P2pTypeOK, Progress, RocOK
<1>2. PICK res :
        \/ UNCHANGED <<soc, failed>>
        \/ cur # Nil /\ soc' = ExecuteCancelRoc(soc, cur, res) /\ failed' = CountFail(res)
  BY DEF RocTimeout
<1>3. expired > 0 /\ expired' = expired - 1 /\ UNCHANGED <<cmds, scans>>
  BY DEF RocTimeout
<1>4. expired' \in Nat /\ cmds' = cmds /\ scans' = scans
  BY <1>1, <1>3
<1>5. CASE UNCHANGED <<soc, failed>>
  <2>1. soc' = soc /\ failed' = failed /\ Posted(soc) = Posted(soc)
    BY <1>5
  <2>2. failed' = 0 => Moving(soc', scans')
    BY <1>1, <1>4, <2>1
  <2>3. QED
    BY <1>1, <1>4, <2>1, <2>2, SchedulerStep
<1>6. CASE cur # Nil /\ soc' = ExecuteCancelRoc(soc, cur, res) /\ failed' = CountFail(res)
  <2>1. cur \in Busy(soc)
    BY <1>1, <1>6, CurrentIs
  <2> HIDE DEF cur
  <2>2. RocStep(soc, soc', res)
    BY <1>1, <1>6, <2>1, ExecuteCancelRocOK
  <2>3. Handles(soc, soc', Posted(soc), Args(cmds, "tx"), res)
    BY <1>1, <2>2, OnlyRoc DEF RocStep
  <2>4. failed' \in Nat /\ (failed' = 0 => failed = 0 /\ res = "ok")
    BY <1>1, <1>6, CountFailIs
  <2>5. soc'.rocQ # <<>> => soc.rocQ # <<>>
    <3>1. soc.rocQ \in Seq(Rocs) /\ soc'.rocQ \in Seq(Rocs)
      BY <1>1, <2>2 DEF Soc, RocStep
    <3>2. QED
      BY <2>2, <3>1, InQueue DEF RocStep
  <2>6. failed' = 0 => Moving(soc', scans')
    BY <1>1, <1>4, <2>2, <2>4, <2>5 DEF Moving, RocStep
  <2>7. QED
    BY <1>1, <1>4, <2>3, <2>4, <2>6, SchedulerStep DEF Handles
<1>7. QED
  BY <1>2, <1>5, <1>6

\* A step that only touches frames.
LEMMA FrameStep ==
  ASSUME P2pInv, soc' \in Soc, RocSame(soc, soc'), TxOK(soc', Args(cmds, "tx")),
         UNCHANGED <<cmds, scans, expired, failed>>
  PROVE  P2pInv'
<1>1. /\ RocOK(soc) /\ (failed = 0 => Moving(soc, scans)) /\ scans \in Seq(Progress)
      /\ expired \in Nat /\ failed \in Nat
  BY DEF P2pInv, P2pTypeOK, Progress
<1>2. Posted(soc') = Posted(soc) /\ Alloc(soc') = Alloc(soc) /\ Busy(soc') = Busy(soc)
  BY DEF RocSame, Posted, Alloc, Busy
<1>3. RocOK(soc')
  BY <1>1, <1>2 DEF RocSame, RocOK, RocShape
<1>4. failed' = 0 => Moving(soc', scans')
  BY <1>1, <1>2 DEF RocSame, Moving
<1>5. cmds' = cmds /\ scans' \in Seq(Progress) /\ expired' \in Nat /\ failed' \in Nat
  BY <1>1
<1>6. QED
  BY <1>2, <1>3, <1>4, <1>5, SchedulerStep

\* p2p_process_mgmt_tx_ack_cnf
LEMMA TxAckKeeps == ASSUME P2pInv, NEW x \in Txs, TxAck(x) PROVE P2pInv'
<1> DEFINE C == Args(cmds, "tx")
<1>1. x \in In(soc.txQAck) /\ soc' = RemoveTx(soc, x) /\ UNCHANGED <<cmds, scans, expired, failed>>
  BY DEF TxAck
<1>2. soc \in Soc /\ TxOK(soc, C)
  BY DEF P2pInv, P2pTypeOK
<1> HIDE DEF C
<1>3. Sent(soc, soc', x, C)
  BY <1>1, <1>2, RemoveTxOK
<1>4. C \ {x} = C
  BY <1>1, <1>2 DEF TxOK
<1>5. soc' \in Soc /\ RocSame(soc, soc') /\ TxOK(soc', C)
  BY <1>3, <1>4 DEF Sent
<1>6. QED
  BY <1>1, <1>5, FrameStep DEF C

\* The timer of a frame fires...
LEMMA TxTimerFiresKeeps == ASSUME P2pInv, NEW x \in Txs, TxTimerFires(x) PROVE P2pInv'
<1> DEFINE c == [soc.tx[x] EXCEPT !.timer = "stopped"]
           f == [soc.tx EXCEPT ![x] = c]
<1>1. soc' = [soc EXCEPT !.tx[x].timer = "stopped"] /\ UNCHANGED <<cmds, scans, expired, failed>>
  BY DEF TxTimerFires
<1>2. soc \in Soc /\ TxOK(soc, Args(cmds, "tx")) /\ soc.tx \in [Txs -> TxCtx]
  BY DEF P2pInv, P2pTypeOK, Soc
<1>3. soc' = [soc EXCEPT !.tx = f]
  <2>1. [soc.tx EXCEPT ![x].timer = "stopped"] = f
    BY <1>2
  <2>2. QED
    BY <1>1, <2>1
<1>4. c \in TxCtx /\ c.st = soc.tx[x].st
  BY <1>2 DEF TxCtx
<1> HIDE DEF c
<1>5. f \in [Txs -> TxCtx] /\ \A y \in Txs : f[y].st = soc.tx[y].st
  BY <1>2, <1>4
<1> HIDE DEF f
<1>6. /\ soc' \in Soc /\ RocSame(soc, soc') /\ soc'.tx = f /\ soc'.txQRoc = soc.txQRoc /\ soc'.txQAck = soc.txQAck
  BY <1>2, <1>3, <1>5 DEF Soc, RocSame
<1>7. TxOK(soc', Args(cmds, "tx"))
  BY <1>2, <1>5, <1>6 DEF TxOK, Used
<1>8. QED
  BY <1>1, <1>6, <1>7, FrameStep

\* ...and p2p_tx_timeout frees what waits.
LEMMA TxTimeoutKeeps == ASSUME P2pInv, TxTimeout PROVE P2pInv'
<1> DEFINE S == TxTimedOut(soc)
           t == DropTx(soc, S)
<1>1. soc' = t /\ UNCHANGED <<cmds, scans, expired, failed>>
  BY DEF TxTimeout
<1>2. S \subseteq In(soc.txQRoc) \cup In(soc.txQAck)
  BY DEF TxTimedOut
<1>3. soc \in Soc /\ TxOK(soc, Args(cmds, "tx"))
  BY DEF P2pInv, P2pTypeOK
<1> HIDE DEF S
<1>4. t \in Soc /\ RocSame(soc, t) /\ TxOK(t, Args(cmds, "tx"))
  BY <1>2, <1>3, DropTxOK
<1> HIDE DEF t
<1>5. QED
  BY <1>1, <1>4, FrameStep

-----------------------------------------------------------------------------
(* The theorems. *)

\* No context, no command, no scan.
LEMMA P2pInitOK == P2pInit => P2pInv
<1> SUFFICES ASSUME P2pInit PROVE P2pInv
  OBVIOUS
<1>1. soc \in Soc /\ cmds = <<>> /\ scans = <<>> /\ expired = 0 /\ failed = 0
  BY FreeFields DEF P2pInit, Soc
<1>2. /\ soc.rocQ = <<>> /\ soc.txQRoc = <<>> /\ soc.txQAck = <<>>
      /\ (\A r \in Rocs : soc.roc[r].st = "FREE") /\ (\A x \in Txs : soc.tx[x].st = "FREE")
  BY FreeFields DEF P2pInit
<1>3. In(soc.rocQ) = {} /\ In(soc.txQRoc) = {} /\ In(soc.txQAck) = {}
  BY <1>2 DEF In
<1>4. RocOK(soc) /\ Posted(soc) = {} /\ Used(soc) = {} /\ Moving(soc, scans)
  BY <1>2, <1>3 DEF RocOK, RocShape, Busy, Alloc, Injective, Posted, Used, Moving
<1>5. Args(cmds, "roc") = {} /\ Args(cmds, "tx") = {} /\ Once(cmds)
  BY <1>1 DEF Args, Once
<1>6. TxOK(soc, {})
  BY <1>2, <1>3, <1>4 DEF TxOK, Injective
<1>7. P2pTypeOK
  BY <1>1 DEF P2pTypeOK
<1>8. QED
  BY <1>4, <1>5, <1>6, <1>7 DEF P2pInv

\* The invariant is inductive: whatever order commands, scan events, timers
\* and failures come in, the queues and the contexts agree.
THEOREM P2pInvariance == P2pSpec => []P2pInv
<1>1. P2pInit => P2pInv
  BY P2pInitOK
<1>2. P2pInv /\ [P2pNext]_p2pVars => P2pInv'
  <2> SUFFICES ASSUME P2pInv, [P2pNext]_p2pVars PROVE P2pInv'
    OBVIOUS
  <2>1. ASSUME NEW r \in Rocs, NEW req \in RocReqs, UcfgRocReq(r, req) PROVE P2pInv'
    BY <2>1, UcfgRocReqKeeps
  <2>2. ASSUME NEW x \in Txs, NEW f \in Frames, UcfgMgmtTx(x, f) PROVE P2pInv'
    BY <2>2, UcfgMgmtTxKeeps
  <2>3. ASSUME NEW p \in Rocs \cup Txs, UcfgCancel(p) PROVE P2pInv'
    BY <2>3, UcfgCancelKeeps
  <2>4. ASSUME NEW v \in Links, CleanupRocSync(v) PROVE P2pInv'
    BY <2>4, CleanupRocSyncKeeps
  <2>5. ASSUME NEW v \in Links, CleanupTx(v) PROVE P2pInv'
    BY <2>5, CleanupTxKeeps
  <2>6. CASE CleanupRocEnd
    BY <2>6, CleanupRocEndKeeps
  <2>7. CASE ProcessCmd
    BY <2>7, ProcessCmdKeeps
  <2>8. ASSUME NEW i \in DOMAIN scans, ScanStarted(i) PROVE P2pInv'
    BY <2>8, ScanStartedKeeps
  <2>9. ASSUME NEW i \in DOMAIN scans, ScanForeignChannel(i) PROVE P2pInv'
    BY <2>9, ScanForeignChannelKeeps
  <2>10. ASSUME NEW i \in DOMAIN scans, ScanEnds(i) PROVE P2pInv'
    BY <2>10, ScanEndsKeeps
  <2>11. ASSUME NEW r \in Rocs, RocTimerFires(r) PROVE P2pInv'
    BY <2>11, RocTimerFiresKeeps
  <2>12. CASE RocTimeout
    BY <2>12, RocTimeoutKeeps
  <2>13. ASSUME NEW x \in Txs, TxAck(x) PROVE P2pInv'
    BY <2>13, TxAckKeeps
  <2>14. ASSUME NEW x \in Txs, TxTimerFires(x) PROVE P2pInv'
    BY <2>14, TxTimerFiresKeeps
  <2>15. CASE TxTimeout
    BY <2>15, TxTimeoutKeeps
  <2>16. CASE UNCHANGED p2pVars
    BY <2>16 DEF p2pVars, P2pInv, P2pTypeOK
  <2>17. QED
    BY <2>1, <2>2, <2>3, <2>4, <2>5, <2>6, <2>7, <2>8, <2>9, <2>10, <2>11, <2>12, <2>13, <2>14, <2>15, <2>16
    DEF P2pNext
<1>3. QED
  BY <1>1, <1>2, PTL DEF P2pSpec

\* The head of the queue alone is on air and no request is queued twice, for
\* any number of users and any failures (p2p_process_roc_req,
\* p2p_process_scan_complete_evt).
THEOREM HeadOnAir == P2pSpec => []OneOnAir
<1>1. P2pInv => OneOnAir
  <2> SUFFICES ASSUME P2pInv, NEW i \in DOMAIN soc.rocQ, NEW j \in DOMAIN soc.rocQ
               PROVE  /\ i > 1 => soc.roc[soc.rocQ[i]].st = "IDLE"
                      /\ soc.rocQ[i] = soc.rocQ[j] => i = j
    BY DEF OneOnAir
  <2> DEFINE q == soc.rocQ
  <2>1. q \in Seq(Rocs) /\ Injective(q) /\ \A r \in Busy(soc) : r = Head(q)
    BY DEF P2pInv, P2pTypeOK, Soc, RocOK, RocShape
  <2>2. soc.roc[q[i]].st # "IDLE" => q[i] = Head(q)
    BY <2>1 DEF Busy, In
  <2> HIDE DEF q
  <2>3. 1 \in DOMAIN q /\ Head(q) = q[1] /\ i \in DOMAIN q /\ i \in Nat
    BY <2>1 DEF q
  <2>4. i > 1 => q[i] # Head(q)
    BY <2>1, <2>3 DEF Injective
  <2>5. QED
    BY <2>1, <2>2, <2>4 DEF Injective, q
<1>2. QED
  BY <1>1, P2pInvariance, PTL

\* Contexts are neither leaked nor used after they are freed: each is free,
\* in one message or in one queue (p2p_destroy_roc_ctx, p2p_remove_tx_context).
THEOREM NoLeak == P2pSpec => []ContextsQueued
<1>1. P2pInv => ContextsQueued
  <2> SUFFICES ASSUME P2pInv PROVE ContextsQueued
    OBVIOUS
  <2> DEFINE C == Args(cmds, "tx")
             both == soc.txQRoc \o soc.txQAck
  <2>1. RocOK(soc) /\ Posted(soc) = Args(cmds, "roc") /\ TxOK(soc, C) /\ soc \in Soc
    BY DEF P2pInv, P2pTypeOK
  <2>2. Carried("roc") = Args(cmds, "roc") /\ Carried("tx") = C
    BY DEF Carried, Args
  <2>3. In(both) = In(soc.txQRoc) \cup In(soc.txQAck)
    <3>1. soc.txQRoc \in Seq(Txs) /\ soc.txQAck \in Seq(Txs)
      BY <2>1 DEF Soc
    <3>2. QED
      BY <3>1, InConcat
  <2> HIDE DEF C
  <2>4. In(soc.rocQ) = {r \in Rocs : soc.roc[r].st \notin {"FREE", "POSTED"}}
    BY <2>1 DEF RocOK, RocShape, Alloc
  <2>5. Carried("roc") = {r \in Rocs : soc.roc[r].st = "POSTED"}
    BY <2>1, <2>2 DEF Posted
  <2>6. {x \in Txs : soc.tx[x].st = "USED"} = Carried("tx") \cup In(soc.txQRoc) \cup In(soc.txQAck)
    BY <2>1, <2>2 DEF TxOK, Used
  <2>7. Carried("tx") \cap In(both) = {} /\ In(soc.txQRoc) \cap In(soc.txQAck) = {}
    <3> HIDE DEF both
    <3>1. QED
      BY <2>1, <2>2, <2>3 DEF TxOK
  <2>8. QED
    BY <2>4, <2>5, <2>6, <2>7 DEF ContextsQueued
<1>2. QED
  BY <1>1, P2pInvariance, PTL

\* While a request is on air the runtime lock is held and probe requests are
\* received, unless the registration for it was refused (p2p_execute_roc_req,
\* p2p_destroy_roc_ctx).
THEOREM AwakeWhileOnAir == P2pSpec => []AwakeOnAir
<1>1. P2pInv => AwakeOnAir
  <2> SUFFICES ASSUME P2pInv PROVE AwakeOnAir
    OBVIOUS
  <2>1. soc \in Soc /\ RocOK(soc) /\ RocShape(soc)
    BY DEF P2pInv, P2pTypeOK, RocOK
  <2>2. Current(soc) # Nil => Busy(soc) # {}
    BY <2>1, CurrentIs
  <2>3. QED
    BY <2>1, <2>2 DEF RocOK, AwakeOnAir
<1>2. QED
  BY <1>1, P2pInvariance, PTL

\* As long as no call has failed the head of the queue is on air and a scan
\* is under way that will pass the air on.
THEOREM QueueMoves == P2pSpec => []HeadMoves
<1>1. P2pInv => HeadMoves
  <2> SUFFICES ASSUME P2pInv, soc.rocQ # <<>>, failed = 0
               PROVE  Current(soc) = Head(soc.rocQ) /\ scans # <<>>
    BY DEF HeadMoves
  <2>1. soc \in Soc /\ RocShape(soc) /\ Busy(soc) # {} /\ scans # <<>>
    BY DEF P2pInv, P2pTypeOK, RocOK, Moving
  <2>2. QED
    BY <2>1, CurrentIs
<1>2. QED
  BY <1>1, P2pInvariance, PTL

=============================================================================
