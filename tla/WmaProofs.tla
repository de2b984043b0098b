----------------------------- MODULE WmaProofs -----------------------------
(***************************************************************************)
(* WmaReq for any number of stations, held requests and failures: its      *)
(* three invariants.                                                       *)
(*                                                                         *)
(* The first half is about who waits for what.  Its inductive invariant    *)
(* WmaInv relates the set of held requests, their contents and UMAC's      *)
(* waits; the order of the queue does not matter to it, so that it         *)
(* survives answers to the wrong station, time-outs that come late and     *)
(* the firmware's crash.                                                   *)
(*                                                                         *)
(* The second half is about that order.  wma_find_req matches an answer    *)
(* with the first request of its kind; that this is the right one, as long *)
(* as nothing has failed, is the invariant Calm: the queue is the events   *)
(* and the commands under way, one behind the other, and each station's    *)
(* last command says how the firmware will leave it.                       *)
(***************************************************************************)
EXTENDS WmaReq, QueueLemmas, TLAPS

\* The kinds of request: WMA_PEER_ASSOC_CNF_START and WMA_DELETE_STA_REQ.
Kinds == {"assoc", "delete"}
\* The commands to the firmware.
Commands == {"create", "assoc", "delete"}
\* A command names its station.
Cmd == Commands \X Stas
\* struct wma_target_req, in use or freed.
Req == [kind : {"none"} \cup Kinds, sta : Stas \cup {NoReq}, resp : BOOLEAN, timer : BOOLEAN]
\* What wma_fill_hold_req writes into it.
NewReq(k, p, b) == [kind |-> k, sta |-> p, resp |-> b, timer |-> TRUE]
\* WMA's state: any queue, not only a well-formed one.
Wma == [hold : Seq(Mem), req : [Mem -> Req], peers : SUBSET Stas, cmds : Seq(Cmd)]
\* What UMAC may wait for.
Waits == [Stas -> {"out", "adding", "in", "deleting"}]
\* What odd counts.
Oddities == {"create", "alloc", "assoc", "uapsd", "late", "down"}

\* Every variable holds values of its type.
WmaTypeOK ==
  /\ wma \in Wma
  /\ umac \in Waits
  /\ late \in SUBSET Mem
  /\ target \in [peer : [Stas -> {"none", "created", "assoc"}], evts : Seq(Kinds)]
  /\ link \in {"up", "stopped", "clean"}
  /\ odd \in Seq(Oddities)

\* No memory is in wma_hold_req_queue twice, and what is there is a request.
QueueOK(w) ==
  /\ \A i, j \in DOMAIN w.hold : w.hold[i] = w.hold[j] => i = j
  /\ \A m \in Held(w) : w.req[m].kind \in Kinds /\ w.req[m].sta \in Stas

\* An ADD_STA that is held is awaited, and is the only one of its station. As
\* a formula on the set H of held requests, their contents r and the waits u:
\* the steps change each of these by itself.
Awaited(H, r, u) ==
  \A m \in H : r[m].kind = "assoc" =>
    /\ u[r[m].sta] = "adding"
    /\ \A n \in H : r[n].kind = "assoc" /\ r[n].sta = r[m].sta => n = m

\* A request of this kind is held for p that will end by a timer at the
\* latest; a DEL_STA only counts when its answer is asked for.
Armed(H, r, l, p, kind) ==
  \E m \in H : /\ r[m].kind = kind /\ r[m].sta = p /\ (r[m].timer \/ m \in l)
               /\ kind = "delete" => r[m].resp

\* Who waits for an answer has a request of the right kind.
Kept(H, r, u, l) ==
  \A p \in Stas : /\ u[p] = "adding" => Armed(H, r, l, p, "assoc")
                  /\ u[p] = "deleting" => Armed(H, r, l, p, "delete")

\* No request found the memory exhausted.
NoAlloc == \A i \in DOMAIN odd : odd[i] # "alloc"

\* The inductive invariant. Kept says more than NobodyForgotten: the kind of
\* the request and its respReqd, without which the step that answers another
\* request of the same station could not be told from the one that ends the
\* wait.
WmaInv ==
  /\ WmaTypeOK
  /\ QueueOK(wma)
  /\ Awaited(Held(wma), wma.req, umac)
  /\ NoAlloc => Kept(Held(wma), wma.req, umac, late)
  /\ link = "clean" => wma.hold = <<>>

-----------------------------------------------------------------------------

\* What is held is memory.
LEMMA HeldMem == ASSUME NEW w \in Wma PROVE Held(w) \subseteq Mem
BY DEF Held, Wma

\* The fields of a new request.
LEMMA ReqFields ==
  ASSUME NEW k \in Kinds, NEW p \in Stas, NEW b \in BOOLEAN
  PROVE  /\ NewReq(k, p, b) \in Req /\ NewReq(k, p, b).kind = k /\ NewReq(k, p, b).sta = p
         /\ NewReq(k, p, b).resp = b /\ NewReq(k, p, b).timer
BY DEF Req, Kinds, NewReq

\* Freed memory is of no kind.
LEMMA FreedFields == Freed \in Req /\ Freed.kind = "none"
BY DEF Freed, Req

\* Replacing one field of WMA's state keeps the others: the commands...
LEMMA SetCmds ==
  ASSUME NEW w \in Wma, NEW s \in Seq(Cmd), NEW n, n = [w EXCEPT !.cmds = s]
  PROVE  n \in Wma /\ n.hold = w.hold /\ n.req = w.req /\ n.peers = w.peers /\ n.cmds = s
BY DEF Wma

\* ...and the peers.
LEMMA SetPeers ==
  ASSUME NEW w \in Wma, NEW s \in SUBSET Stas, NEW n, n = [w EXCEPT !.peers = s]
  PROVE  n \in Wma /\ n.hold = w.hold /\ n.req = w.req /\ n.peers = s /\ n.cmds = w.cmds
BY DEF Wma

\* A command is sent behind the others while the link is up, and lost
\* otherwise.
LEMMA SendFields ==
  ASSUME NEW w \in Wma, NEW c \in Commands, NEW p \in Stas
  PROVE  /\ Send(w, c, p) \in Wma
         /\ Send(w, c, p).hold = w.hold /\ Send(w, c, p).req = w.req /\ Send(w, c, p).peers = w.peers
         /\ Send(w, c, p).cmds = IF link = "up" THEN Append(w.cmds, <<c, p>>) ELSE w.cmds
<1>1. <<c, p>> \in Cmd
  BY DEF Cmd
<1>2. Append(w.cmds, <<c, p>>) \in Seq(Cmd)
  <2>1. w.cmds \in Seq(Cmd)
    BY DEF Wma
  <2>2. QED
    BY <1>1, <2>1
<1>3. CASE link = "up"
  <2>1. Send(w, c, p) = [w EXCEPT !.cmds = Append(w.cmds, <<c, p>>)]
    BY <1>3 DEF Send
  <2> DEFINE s == Append(w.cmds, <<c, p>>)
  <2> HIDE DEF s
  <2>2. Send(w, c, p) = [w EXCEPT !.cmds = s] /\ s \in Seq(Cmd)
    BY <1>2, <2>1 DEF s
  <2> DEFINE n == Send(w, c, p)
  <2> HIDE DEF n
  <2>3. n = [w EXCEPT !.cmds = s]
    BY <2>2 DEF n
  <2>4. n \in Wma /\ n.hold = w.hold /\ n.req = w.req /\ n.peers = w.peers /\ n.cmds = s
    BY <2>2, <2>3, SetCmds
  <2>5. QED
    BY <1>3, <2>4 DEF s, n
<1>4. CASE link # "up"
  BY <1>4 DEF Send
<1>5. QED
  BY <1>3, <1>4

\* wma_remove_peer leaves the requests alone.
LEMMA RemovePeerFields ==
  ASSUME NEW w \in Wma, NEW p \in Stas
  PROVE  /\ RemovePeer(w, p) \in Wma
         /\ RemovePeer(w, p).hold = w.hold /\ RemovePeer(w, p).req = w.req
         /\ RemovePeer(w, p).peers = w.peers \ {p}
         /\ RemovePeer(w, p).cmds = IF p \in w.peers THEN Send(w, "delete", p).cmds ELSE w.cmds
<1> DEFINE s == Send(w, "delete", p)
<1>1. s \in Wma /\ s.hold = w.hold /\ s.req = w.req /\ s.peers = w.peers
  BY SendFields DEF Commands
<1>2. RemovePeer(w, p) = IF p \notin w.peers THEN w ELSE [s EXCEPT !.peers = w.peers \ {p}]
  BY <1>1 DEF RemovePeer
<1>3. w.peers \ {p} \in SUBSET Stas
  BY DEF Wma
<1>4. CASE p \notin w.peers
  BY <1>2, <1>4
<1>5. CASE p \in w.peers
  <2> HIDE DEF s
  <2>1. QED
    BY <1>1, <1>2, <1>3, <1>5, SetPeers DEF s
<1>6. QED
  BY <1>4, <1>5

\* So does wma_create_peer.
LEMMA CreatePeerFields ==
  ASSUME NEW w \in Wma, NEW p \in Stas
  PROVE  /\ CreatePeer(w, p) \in Wma
         /\ CreatePeer(w, p).hold = w.hold /\ CreatePeer(w, p).req = w.req
         /\ CreatePeer(w, p).peers = w.peers \cup {p}
         /\ CreatePeer(w, p).cmds = Send(w, "create", p).cmds
<1> DEFINE s == Send(w, "create", p)
<1>1. s \in Wma /\ s.hold = w.hold /\ s.req = w.req /\ s.peers = w.peers
  BY SendFields DEF Commands
<1>2. CreatePeer(w, p) = [s EXCEPT !.peers = w.peers \cup {p}]
  BY <1>1 DEF CreatePeer
<1>3. w.peers \cup {p} \in SUBSET Stas
  BY DEF Wma
<1>4. QED
  BY <1>1, <1>2, <1>3, SetPeers

\* wma_fill_hold_req puts a request at the end of the queue.
LEMMA FillFields ==
  ASSUME NEW w \in Wma, NEW m \in Mem, NEW k \in Kinds, NEW p \in Stas, NEW b \in BOOLEAN
  PROVE  LET f == FillHoldReq(w, m, k, p, b)
         IN  /\ f \in Wma /\ f.hold = Append(w.hold, m) /\ f.peers = w.peers /\ f.cmds = w.cmds
             /\ f.req = [w.req EXCEPT ![m] = NewReq(k, p, b)]
<1> DEFINE r == NewReq(k, p, b)
           f == FillHoldReq(w, m, k, p, b)
<1>1. r \in Req
  BY ReqFields
<1>2. f = [w EXCEPT !.hold = Append(@, m), !.req = [w.req EXCEPT ![m] = r]]
  BY Zenon DEF FillHoldReq, NewReq
<1> HIDE DEF r, f
<1>3. [w.req EXCEPT ![m] = r] \in [Mem -> Req] /\ Append(w.hold, m) \in Seq(Mem)
  BY <1>1 DEF Wma
<1>4. f \in Wma /\ f.hold = Append(w.hold, m) /\ f.peers = w.peers /\ f.cmds = w.cmds
      /\ f.req = [w.req EXCEPT ![m] = r]
  BY <1>2, <1>3 DEF Wma
<1>5. QED
  BY <1>4 DEF r, f

\* A request that is removed is taken off the queue wherever it is, and its
\* memory is freed.
LEMMA ReleaseFields ==
  ASSUME NEW w \in Wma, NEW m \in Mem
  PROVE  LET f == Release(w, m)
         IN  /\ f \in Wma /\ f.hold = Select(w.hold, Mem \ {m}) /\ f.peers = w.peers /\ f.cmds = w.cmds
             /\ f.req = [w.req EXCEPT ![m] = Freed]
<1> DEFINE f == Release(w, m)
           h == Select(w.hold, Mem \ {m})
<1>1. h \in Seq(Mem)
  BY SelectSeqOf DEF Wma
<1>2. f = [w EXCEPT !.hold = h, !.req = [w.req EXCEPT ![m] = Freed]]
  BY Zenon, WmaAssumption DEF Release
<1> HIDE DEF h, f
<1>3. [w.req EXCEPT ![m] = Freed] \in [Mem -> Req]
  BY FreedFields DEF Wma
<1>4. f \in Wma /\ f.hold = h /\ f.peers = w.peers /\ f.cmds = w.cmds
      /\ f.req = [w.req EXCEPT ![m] = Freed]
  BY <1>1, <1>2, <1>3 DEF Wma
<1>5. QED
  BY <1>4 DEF h, f

\* What is held after wma_fill_hold_req...
LEMMA FillHeld ==
  ASSUME NEW w \in Wma, NEW m \in Mem, NEW f \in Wma, f.hold = Append(w.hold, m)
  PROVE  Held(f) = Held(w) \cup {m}
<1>1. w.hold \in Seq(Mem)
  BY DEF Wma
<1>2. DOMAIN f.hold = 1 .. Len(w.hold) + 1 /\ DOMAIN w.hold = 1 .. Len(w.hold)
  BY <1>1
<1>3. f.hold[Len(w.hold) + 1] = m /\ \A i \in 1 .. Len(w.hold) : f.hold[i] = w.hold[i]
  BY <1>1
<1>4. Len(w.hold) \in Nat
  BY <1>1
<1>5. Held(f) \subseteq Held(w) \cup {m}
  BY <1>2, <1>3, <1>4 DEF Held
<1>6. Held(w) \subseteq Held(f) /\ m \in Held(f)
  BY <1>2, <1>3, <1>4 DEF Held
<1>7. QED
  BY <1>5, <1>6

\* ...and after a request is removed.
LEMMA ReleaseHeld ==
  ASSUME NEW w \in Wma, NEW m \in Mem
  PROVE  Held(Release(w, m)) = Held(w) \ {m}
<1>1. w.hold \in Seq(Mem)
  BY DEF Wma
<1>2. Release(w, m).hold = Select(w.hold, Mem \ {m})
  BY ReleaseFields
<1> DEFINE S == Mem \ {m}
           h == Select(w.hold, S)
<1> HIDE DEF S
<1>3. /\ \A k \in DOMAIN h : h[k] \in S /\ \E i \in DOMAIN w.hold : w.hold[i] = h[k]
      /\ \A i \in DOMAIN w.hold : w.hold[i] \in S => \E k \in DOMAIN h : h[k] = w.hold[i]
  BY <1>1, SelectElements
<1> HIDE DEF h
<1>4. Held(Release(w, m)) = Held(w) \cap S
  BY <1>2, <1>3 DEF Held, h, S
<1>5. QED
  BY <1>4, HeldMem DEF S

\* wma_find_req returns a held request of the kind, if there is one.
LEMMA FindsReq ==
  ASSUME NEW w \in Wma, NEW k \in Kinds
  PROVE  \/ FindReq(w, k) = NoReq /\ \A m \in Held(w) : w.req[m].kind # k
         \/ /\ FindReq(w, k) \in Held(w) /\ FindReq(w, k) \in Mem /\ FindReq(w, k) # NoReq
            /\ w.req[FindReq(w, k)].kind = k
<1> DEFINE S == {m \in Mem : w.req[m].kind = k}
           hits == Select(w.hold, S)
<1>1. FindReq(w, k) = IF hits = <<>> THEN NoReq ELSE Head(hits)
  BY DEF FindReq
<1>2. w.hold \in Seq(Mem)
  BY DEF Wma
<1> HIDE DEF hits
<1>3. CASE hits = <<>>
  <2>1. \A i \in DOMAIN w.hold : w.hold[i] \notin S
    BY <1>2, <1>3, SelectEmpty DEF hits
  <2>2. QED
    BY <1>1, <1>2, <1>3, <2>1 DEF Held
<1>4. CASE hits # <<>>
  <2>1. \E i \in DOMAIN w.hold : Head(hits) = w.hold[i] /\ w.hold[i] \in S
    BY <1>2, <1>4, SelectHead DEF hits
  <2>2. QED
    BY <1>1, <1>2, <1>4, <2>1, WmaAssumption DEF Held
<1>5. QED
  BY <1>3, <1>4

-----------------------------------------------------------------------------

\* New memory makes no duplicate.
LEMMA FillKeepsQueue ==
  ASSUME NEW w \in Wma, QueueOK(w), NEW m \in Mem, m \notin Held(w),
         NEW k \in Kinds, NEW p \in Stas, NEW b \in BOOLEAN,
         NEW f \in Wma, f.hold = Append(w.hold, m),
         f.req = [w.req EXCEPT ![m] = NewReq(k, p, b)]
  PROVE  QueueOK(f)
<1> DEFINE r == NewReq(k, p, b)
<1>1. r.kind = k /\ r.sta = p
  BY ReqFields
<1>2. f.req[m] = r /\ \A n \in Mem : n # m => f.req[n] = w.req[n]
  BY DEF Wma
<1> HIDE DEF r
<1>3. \A n \in Held(f) : f.req[n].kind \in Kinds /\ f.req[n].sta \in Stas
  BY <1>1, <1>2, FillHeld, HeldMem DEF QueueOK
<1>4. \A i, j \in DOMAIN f.hold : f.hold[i] = f.hold[j] => i = j
  BY DEF QueueOK, Held, Wma
<1>5. QED
  BY <1>3, <1>4 DEF QueueOK

\* Neither does taking a request away.
LEMMA ReleaseKeepsQueue ==
  ASSUME NEW w \in Wma, QueueOK(w), NEW m \in Mem PROVE QueueOK(Release(w, m))
<1> DEFINE f == Release(w, m)
<1>1. f.hold = Select(w.hold, Mem \ {m}) /\ f.req = [w.req EXCEPT ![m] = Freed]
  BY ReleaseFields
<1>2. Held(f) = Held(w) \ {m}
  BY ReleaseHeld
<1>3. w.hold \in Seq(Mem) /\ w.req \in [Mem -> Req]
  BY DEF Wma
<1> HIDE DEF f
<1>4. \A n \in Mem : n # m => f.req[n] = w.req[n]
  BY <1>1, <1>3
<1>5. \A i, j \in DOMAIN f.hold : f.hold[i] = f.hold[j] => i = j
  BY <1>1, <1>3, SelectInjective DEF QueueOK
<1>6. QED
  BY <1>2, <1>4, <1>5, HeldMem DEF QueueOK, f

\* A released request leaves the others as they were.
LEMMA ReleaseKeepsAwaited ==
  ASSUME NEW w \in Wma, NEW m \in Mem, NEW u, Awaited(Held(w), w.req, u)
  PROVE  Awaited(Held(Release(w, m)), Release(w, m).req, u)
<1>1. Held(Release(w, m)) = Held(w) \ {m} /\ Release(w, m).req = [w.req EXCEPT ![m] = Freed]
  BY ReleaseHeld, ReleaseFields
<1>2. \A n \in Held(w) \ {m} : Release(w, m).req[n] = w.req[n]
  BY <1>1, HeldMem DEF Wma
<1>3. QED
  BY <1>1, <1>2 DEF Awaited

-----------------------------------------------------------------------------

\* An ADD_STA that is held before UMAC's wait begins: station p had none,
\* because nobody waited for one.
LEMMA FillAdds ==
  ASSUME NEW H \in SUBSET Mem, NEW r \in [Mem -> Req], NEW m \in Mem, m \notin H,
         NEW q \in Req, NEW p \in Stas, q.kind = "assoc", q.sta = p, q.timer, NEW r2, r2 = [r EXCEPT ![m] = q],
         NEW u \in Waits, u[p] = "out", NEW u2, u2 = [u EXCEPT ![p] = "adding"],
         NEW l, Awaited(H, r, u), \A n \in H : r[n].sta \in Stas
  PROVE  /\ Awaited(H \cup {m}, r2, u2)
         /\ Kept(H, r, u, l) => Kept(H \cup {m}, r2, u2, l)
<1>1. r2[m] = q /\ \A n \in H : r2[n] = r[n]
  OBVIOUS
<1>2. u2[p] = "adding" /\ \A s \in Stas : s # p => u2[s] = u[s]
  BY DEF Waits
<1>3. \A n \in H : r[n].kind = "assoc" => r[n].sta # p
  BY DEF Awaited
<1>4. \A n \in H : r[n].kind = "assoc" => u2[r[n].sta] = "adding"
  BY <1>2, <1>3 DEF Awaited, Waits
<1>5. Awaited(H \cup {m}, r2, u2)
  BY <1>1, <1>2, <1>3, <1>4 DEF Awaited
<1>6. ASSUME Kept(H, r, u, l), NEW s \in Stas
      PROVE  /\ u2[s] = "adding" => Armed(H \cup {m}, r2, l, s, "assoc")
             /\ u2[s] = "deleting" => Armed(H \cup {m}, r2, l, s, "delete")
  <2>1. CASE s = p
    BY <1>1, <1>2, <2>1 DEF Armed
  <2>2. CASE s # p
    BY <1>1, <1>2, <1>6, <2>2 DEF Kept, Armed
  <2>3. QED
    BY <2>1, <2>2
<1>7. QED
  BY <1>5, <1>6 DEF Kept

\* The same for a DEL_STA, whether or not its answer is asked for.
LEMMA FillDeletes ==
  ASSUME NEW H \in SUBSET Mem, NEW r \in [Mem -> Req], NEW m \in Mem, m \notin H,
         NEW q \in Req, NEW p \in Stas, q.kind = "delete", q.sta = p, q.timer, NEW r2, r2 = [r EXCEPT ![m] = q],
         NEW u \in Waits, u[p] = "in", NEW u2, u2 = [u EXCEPT ![p] = IF q.resp THEN "deleting" ELSE "out"],
         NEW l, Awaited(H, r, u), \A n \in H : r[n].sta \in Stas
  PROVE  /\ Awaited(H \cup {m}, r2, u2)
         /\ Kept(H, r, u, l) => Kept(H \cup {m}, r2, u2, l)
<1>1. r2[m] = q /\ \A n \in H : r2[n] = r[n]
  OBVIOUS
<1>2. u2[p] = (IF q.resp THEN "deleting" ELSE "out") /\ \A s \in Stas : s # p => u2[s] = u[s]
  BY DEF Waits
<1>3. \A n \in H : r[n].kind = "assoc" => r[n].sta # p
  BY DEF Awaited
<1>4. \A n \in H : r[n].kind = "assoc" => u2[r[n].sta] = "adding"
  BY <1>2, <1>3 DEF Awaited, Waits
<1>5. Awaited(H \cup {m}, r2, u2)
  BY <1>1, <1>2, <1>3, <1>4 DEF Awaited
<1>6. ASSUME Kept(H, r, u, l), NEW s \in Stas
      PROVE  /\ u2[s] = "adding" => Armed(H \cup {m}, r2, l, s, "assoc")
             /\ u2[s] = "deleting" => Armed(H \cup {m}, r2, l, s, "delete")
  <2>1. CASE s = p
    BY <1>1, <1>2, <2>1 DEF Armed
  <2>2. CASE s # p
    BY <1>1, <1>2, <1>6, <2>2 DEF Kept, Armed
  <2>3. QED
    BY <2>1, <2>2
<1>7. QED
  BY <1>5, <1>6 DEF Kept

\* m leaves, and its wait, if there is one, is over.
LEMMA Answered ==
  ASSUME NEW H \in SUBSET Mem, NEW r \in [Mem -> Req], NEW m \in H, NEW p \in Stas,
         r[m].sta = p, r[m].kind \in Kinds, \A n \in H : r[n].sta \in Stas,
         NEW r2, r2 = [r EXCEPT ![m] = Freed],
         NEW u \in Waits, NEW u2 \in Waits, \A s \in Stas : s # p => u2[s] = u[s],
         NEW l, NEW l2, l \ {m} \subseteq l2, Awaited(H, r, u),
         \/ r[m].kind = "assoc" /\ u2[p] \in {"in", "out"}
         \/ r[m].kind = "delete" /\ u2[p] = IF u[p] = "deleting" THEN "out" ELSE u[p]
         \/ r[m].kind = "delete" /\ u2[p] = u[p] /\ ~ r[m].resp
  PROVE  /\ Awaited(H \ {m}, r2, u2)
         /\ Kept(H, r, u, l) => Kept(H \ {m}, r2, u2, l2)
<1>1. \A n \in H \ {m} : r2[n] = r[n]
  OBVIOUS
<1>2. ASSUME NEW n \in H \ {m}, r[n].kind = "assoc" PROVE u2[r[n].sta] = "adding"
  <2>1. CASE r[m].kind = "assoc"
    BY <1>2, <2>1 DEF Awaited, Waits
  <2>2. CASE r[m].kind = "delete"
    BY <1>2, <2>2 DEF Awaited, Waits
  <2>3. QED
    BY <2>1, <2>2 DEF Kinds
<1>3. Awaited(H \ {m}, r2, u2)
  BY <1>1, <1>2 DEF Awaited
<1>4. ASSUME Kept(H, r, u, l), NEW s \in Stas, NEW k \in Kinds, Armed(H, r, l, s, k),
             s # p \/ k # r[m].kind \/ (k = "delete" /\ ~ r[m].resp)
      PROVE  Armed(H \ {m}, r2, l2, s, k)
  BY <1>1, <1>4 DEF Armed
<1>5. ASSUME Kept(H, r, u, l), NEW s \in Stas
      PROVE  /\ u2[s] = "adding" => Armed(H \ {m}, r2, l2, s, "assoc")
             /\ u2[s] = "deleting" => Armed(H \ {m}, r2, l2, s, "delete")
  <2>1. u[s] = "adding" => Armed(H, r, l, s, "assoc")
    BY <1>5 DEF Kept
  <2>2. u[s] = "deleting" => Armed(H, r, l, s, "delete")
    BY <1>5 DEF Kept
  <2>3. CASE s # p
    BY <1>4, <1>5, <2>1, <2>2, <2>3 DEF Kinds
  <2>4. CASE s = p /\ r[m].kind = "assoc"
    BY <2>4
  <2>5. CASE s = p /\ r[m].kind = "delete"
    BY <1>4, <1>5, <2>1, <2>2, <2>5 DEF Kinds
  <2>6. QED
    BY <2>3, <2>4, <2>5 DEF Kinds
<1>6. QED
  BY <1>3, <1>5 DEF Kept

\* A time-out answers as the firmware would.
LEMMA TimedOutAnswers ==
  ASSUME NEW u \in Waits, NEW r \in Req, r.kind \in Kinds, r.sta \in Stas
  PROVE  /\ TimedOut(u, r) \in Waits
         /\ \A s \in Stas : s # r.sta => TimedOut(u, r)[s] = u[s]
         /\ r.kind = "assoc" => TimedOut(u, r)[r.sta] = IF u[r.sta] = "adding" THEN "out" ELSE u[r.sta]
         /\ r.kind = "delete" => TimedOut(u, r)[r.sta] = IF u[r.sta] = "deleting" THEN "out" ELSE u[r.sta]
BY DEF TimedOut, AddStaRsp, DelStaRsp, Waits, Kinds

\* odd only grows: a state where nothing failed had none before it where
\* something did.
LEMMA CountedKeeps ==
  ASSUME odd \in Seq(Oddities), NEW what \in Oddities \cup {"ok"}, Counted(what)
  PROVE  /\ odd' \in Seq(Oddities)
         /\ NoAlloc' => NoAlloc
         /\ what = "alloc" /\ Len(odd) < MaxOdd => ~ NoAlloc'
         /\ odd' = <<>> => odd = <<>> /\ (what = "ok" \/ ~ Len(odd) < MaxOdd)
<1>1. CASE what # "ok" /\ Len(odd) < MaxOdd
  <2>1. odd' = Append(odd, what) /\ what \in Oddities
    BY <1>1 DEF Counted
  <2>2. odd' \in Seq(Oddities) /\ Len(odd') = Len(odd) + 1 /\ odd'[Len(odd) + 1] = what
        /\ \A i \in DOMAIN odd : i \in DOMAIN odd' /\ odd'[i] = odd[i]
    BY <2>1
  <2>3. Len(odd) + 1 \in DOMAIN odd' /\ odd' # <<>>
    BY <2>2
  <2>4. NoAlloc' => NoAlloc
    BY <2>2 DEF NoAlloc
  <2>5. what = "alloc" => ~ NoAlloc'
    BY <2>2, <2>3 DEF NoAlloc
  <2>6. QED
    BY <2>2, <2>3, <2>4, <2>5
<1>2. CASE ~ (what # "ok" /\ Len(odd) < MaxOdd)
  <2>1. odd' = odd
    BY <1>2 DEF Counted
  <2>2. QED
    BY <1>2, <2>1 DEF NoAlloc
<1>3. QED
  BY <1>1, <1>2

-----------------------------------------------------------------------------
(* wma_cleanup_hold_req. *)

\* f is the function answered of Cleaned, for the first n of the queue.
IsAnswered(w, u, n, f) ==
  f = [i \in 0 .. n |-> IF i = 0 THEN u ELSE TimedOut(f[i - 1], w.req[w.hold[i]])]

\* Its recursion.
LEMMA AnsweredAt == ASSUME NEW w, NEW u, NEW n \in Nat, NEW f, IsAnswered(w, u, n, f), NEW i \in 1 .. n
                    PROVE  f[i] = TimedOut(f[i - 1], w.req[w.hold[i]])
<1> DEFINE e(j) == IF j = 0 THEN u ELSE TimedOut(f[j - 1], w.req[w.hold[j]])
<1>1. f = [j \in 0 .. n |-> e(j)]
  BY DEF IsAnswered
<1>2. i \in 0 .. n /\ i # 0
  OBVIOUS
<1> HIDE DEF e
<1>3. f[i] = e(i)
  BY <1>1, <1>2
<1>4. QED
  BY <1>2, <1>3 DEF e

\* There is such a function.
LEMMA AnsweredExists == ASSUME NEW w, NEW u, NEW n \in Nat PROVE \E f : IsAnswered(w, u, n, f)
<1> DEFINE N == {k \in Nat : \E f : IsAnswered(w, u, k, f)}
<1>1. 0 \in N
  <2>1. IsAnswered(w, u, 0, [i \in 0 .. 0 |-> u])
    BY DEF IsAnswered
  <2>2. QED
    BY <2>1
<1>2. ASSUME NEW k \in Nat, k \in N PROVE k + 1 \in N
  <2>1. PICK f : IsAnswered(w, u, k, f)
    BY <1>2
  <2> DEFINE x == TimedOut(f[k], w.req[w.hold[k + 1]])
             g == [i \in 0 .. k + 1 |-> IF i = k + 1 THEN x ELSE f[i]]
             e(j) == IF j = 0 THEN u ELSE TimedOut(g[j - 1], w.req[w.hold[j]])
  <2>2. ASSUME NEW i \in 0 .. k + 1 PROVE g[i] = e(i)
    <3>1. CASE i = 0
      <4>1. g[0] = f[0] /\ f[0] = u
        BY <2>1 DEF IsAnswered
      <4>2. QED
        BY <3>1, <4>1
    <3>2. CASE i \in 1 .. k
      <4>1. g[i] = f[i] /\ g[i - 1] = f[i - 1]
        BY <3>2
      <4>2. f[i] = TimedOut(f[i - 1], w.req[w.hold[i]])
        BY <2>1, <3>2, AnsweredAt
      <4>3. i # 0
        BY <3>2
      <4>4. QED
        BY <4>1, <4>2, <4>3
    <3>3. CASE i = k + 1
      <4>1. g[i] = x /\ g[i - 1] = f[k] /\ i # 0
        BY <3>3
      <4>2. QED
        BY <3>3, <4>1
    <3>4. QED
      BY <3>1, <3>2, <3>3
  <2>3. g = [i \in 0 .. k + 1 |-> e(i)]
    <3> HIDE DEF e, x
    <3>1. QED
      BY <2>2
  <2>4. IsAnswered(w, u, k + 1, g)
    BY <2>3, Zenon DEF IsAnswered
  <2>5. QED
    BY <2>4
<1> HIDE DEF N
<1>3. \A n_1 \in Nat : n_1 \in N
  BY <1>1, <1>2, InductionOnSet
<1>4. QED
  BY <1>3 DEF N

\* Every wait that a held request would have ended is over.
LEMMA CleanedWaits ==
  ASSUME NEW w \in Wma, QueueOK(w), NEW u \in Waits
  PROVE  /\ Cleaned(w, u)[2] \in Waits
         /\ \A p \in Stas : Cleaned(w, u)[2][p] \in {u[p], "out"}
         /\ \A m \in Held(w) :
              /\ w.req[m].kind = "assoc" => Cleaned(w, u)[2][w.req[m].sta] # "adding"
              /\ w.req[m].kind = "delete" => Cleaned(w, u)[2][w.req[m].sta] # "deleting"
<1> DEFINE n == Len(w.hold)
           r(i) == w.req[w.hold[i]]
           f == CHOOSE f : IsAnswered(w, u, n, f)
           Over(x, i) == /\ r(i).kind = "assoc" => x[r(i).sta] # "adding"
                         /\ r(i).kind = "delete" => x[r(i).sta] # "deleting"
           N == {k \in Nat : /\ f[k] \in Waits
                             /\ \A p \in Stas : f[k][p] \in {u[p], "out"}
                             /\ \A i \in 1 .. k : Over(f[k], i)}
<1>1. n \in Nat /\ w.hold \in Seq(Mem) /\ w.req \in [Mem -> Req]
  BY DEF Wma
<1>2. IsAnswered(w, u, n, f)
  BY <1>1, AnsweredExists
<1>3. Cleaned(w, u)[2] = f[n]
  <2>1. Cleaned(w, u) = <<[w EXCEPT !.hold = <<>>, !.req = [m \in Mem |-> Freed]], f[n]>>
    BY Zenon DEF Cleaned, IsAnswered
  <2>2. QED
    BY <2>1
<1> HIDE DEF f
<1>4. f[0] = u
  BY <1>1, <1>2 DEF IsAnswered
<1>5. \A i \in 1 .. n : f[i] = TimedOut(f[i - 1], r(i))
  <2> HIDE DEF n
  <2>1. n \in Nat
    BY <1>1
  <2>2. \A i \in 1 .. n : f[i] = TimedOut(f[i - 1], w.req[w.hold[i]])
    BY <1>2, <2>1, AnsweredAt
  <2>3. QED
    BY <2>2
<1>6. 0 \in N
  BY <1>4
<1>7. ASSUME NEW k \in 0 .. n - 1, k \in N PROVE k + 1 \in N
  <2>1. k + 1 \in 1 .. n /\ (k + 1) - 1 = k /\ k \in Nat
    BY <1>1, <1>7
  <2>2. f[k + 1] = TimedOut(f[k], r(k + 1))
    <3> DEFINE j == k + 1
    <3> HIDE DEF j, n, N
    <3>1. j \in 1 .. n /\ j - 1 = k
      BY <2>1 DEF j
    <3>2. f[j] = TimedOut(f[j - 1], r(j))
      BY <3>1, <1>5
    <3>3. QED
      BY <3>1, <3>2 DEF j
  <2>3. w.hold[k + 1] \in Held(w) /\ r(k + 1) \in Req
    BY <1>1, <2>1 DEF Held
  <2>4. r(k + 1).kind \in Kinds /\ r(k + 1).sta \in Stas
    BY <2>3 DEF QueueOK
  <2> DEFINE x == f[k]
             y == f[k + 1]
             q == r(k + 1)
  <2>5. x \in Waits /\ (\A p \in Stas : x[p] \in {u[p], "out"}) /\ \A i \in 1 .. k : Over(x, i)
    BY <1>7
  <2>6. y = TimedOut(x, q) /\ q \in Req /\ q.kind \in Kinds /\ q.sta \in Stas
    BY <2>2, <2>3, <2>4
  <2>7. \A i \in 1 .. k : r(i).sta \in Stas
    BY <1>1, <2>1 DEF QueueOK, Held
  <2>8. Over(y, k + 1)
    <3>1. Over(y, k + 1) <=> /\ q.kind = "assoc" => y[q.sta] # "adding"
                             /\ q.kind = "delete" => y[q.sta] # "deleting"
      OBVIOUS
    <3> HIDE DEF x, y, q, Over
    <3>2. QED
      BY <2>5, <2>6, <3>1, TimedOutAnswers
  <2>9. \A p \in Stas : y[p] \in {x[p], "out"}
    <3> HIDE DEF x, y, q, Over
    <3>1. QED
      BY <2>5, <2>6, TimedOutAnswers DEF Kinds
  <2>10. y \in Waits
    <3> HIDE DEF x, y, q, Over
    <3>1. QED
      BY <2>5, <2>6, TimedOutAnswers
  <2>11. \A i \in 1 .. k : Over(y, i)
    <3> HIDE DEF x, y, q
    <3>1. QED
      BY <2>5, <2>7, <2>9
  <2>12. \A i \in 1 .. k + 1 : Over(y, i)
    <3> HIDE DEF Over
    <3>1. QED
      BY <2>1, <2>8, <2>11
  <2>13. \A p \in Stas : y[p] \in {u[p], "out"}
    BY <2>5, <2>9
  <2> HIDE DEF Over
  <2>14. QED
    BY <2>1, <2>10, <2>12, <2>13
<1>8. n \in N
  <2> HIDE DEF N
  <2>1. \A k \in 0 .. n : k \in N
    BY <1>1, <1>6, <1>7, InductionUpTo
  <2>2. QED
    BY <1>1, <2>1
<1>9. \A m \in Held(w) : \E i \in 1 .. n : w.hold[i] = m
  BY <1>1 DEF Held
<1>10. f[n] \in Waits /\ (\A p \in Stas : f[n][p] \in {u[p], "out"}) /\ \A i \in 1 .. n : Over(f[n], i)
  BY <1>8
<1>11. QED
  BY <1>3, <1>9, <1>10

-----------------------------------------------------------------------------
(* The steps. *)

\* A state with the same queue.
LEMMA SameQueue ==
  ASSUME NEW w \in Wma, NEW f, f.hold = w.hold, f.req = w.req
  PROVE  Held(f) = Held(w) /\ (QueueOK(w) => QueueOK(f))
BY DEF Held, QueueOK

\* wma_remove_req as the callers that found no memory use it.
LEMMA RemoveReqKeeps ==
  ASSUME NEW w \in Wma, NEW k \in Kinds, QueueOK(w), NEW u, Awaited(Held(w), w.req, u)
  PROVE  LET f == RemoveReq(w, k) IN f \in Wma /\ QueueOK(f) /\ Awaited(Held(f), f.req, u)
<1> DEFINE m == FindReq(w, k)
<1>1. RemoveReq(w, k) = Release(w, m)
  BY DEF RemoveReq
<1>2. CASE m = NoReq
  <2>1. RemoveReq(w, k) = w
    BY <1>1, <1>2 DEF Release
  <2>2. QED
    BY <2>1
<1>3. CASE m # NoReq
  <2>1. m \in Mem
    BY <1>3, FindsReq
  <2> HIDE DEF m
  <2>2. QED
    BY <1>1, <2>1, ReleaseFields, ReleaseKeepsQueue, ReleaseKeepsAwaited
<1>4. QED
  BY <1>2, <1>3

\* wma_open's state satisfies the invariant.
LEMMA WmaInitInv == ASSUME WmaInit PROVE WmaInv
<1>1. wma \in Wma /\ wma.hold = <<>> /\ Held(wma) = {}
  BY FreedFields DEF WmaInit, Wma, Held
<1>2. WmaTypeOK
  BY <1>1 DEF WmaInit, WmaTypeOK, Waits
<1>3. \A p \in Stas : umac[p] = "out"
  BY DEF WmaInit
<1>4. QueueOK(wma) /\ Awaited(Held(wma), wma.req, umac)
  BY <1>1 DEF QueueOK, Awaited
<1>5. Kept(Held(wma), wma.req, umac, late)
  BY <1>3 DEF Kept
<1>6. QED
  BY <1>1, <1>2, <1>4, <1>5 DEF WmaInv

\* wma_add_sta_req_ap_mode, on each of its paths.
LEMMA AddStaInv == ASSUME WmaInv, NEW p \in Stas, AddSta(p) PROVE WmaInv'
<1>1. wma \in Wma /\ QueueOK(wma) /\ Awaited(Held(wma), wma.req, umac) /\ umac \in Waits /\ umac[p] = "out"
  BY DEF WmaInv, WmaTypeOK, AddSta
<1>2. PICK res \in AddResults, m \in Mem \ Held(wma) :
        AddStaReqApMode(p, m, res) /\ Counted(IF link = "up" THEN res ELSE "ok")
  BY DEF AddSta
<1> DEFINE w0 == RemovePeer(wma, p)
           w1 == CreatePeer(w0, p)
           yes == TRUE
           w2 == FillHoldReq(w1, m, "assoc", p, yes)
           w3 == Send(w2, "assoc", p)
           q == NewReq("assoc", p, yes)
           what == IF link = "up" THEN res ELSE "ok"
<1>3. /\ res \in {"ok", "create", "alloc", "assoc", "uapsd"}
      /\ link # "up" => res = "create"
      /\ res = "alloc" => what = "alloc" /\ Len(odd) < MaxOdd
  BY WmaAssumption DEF AddResults, Faulty
<1>4. late' = late /\ target' = target /\ link' = link
  BY DEF AddSta
<1>5. odd' \in Seq(Oddities) /\ (NoAlloc' => NoAlloc) /\ (res = "alloc" => ~ NoAlloc')
  <2>1. what \in Oddities \cup {"ok"} /\ odd \in Seq(Oddities) /\ Counted(what)
    BY <1>2, <1>3 DEF WmaInv, WmaTypeOK, Oddities
  <2> HIDE DEF what
  <2>2. QED
    BY <1>3, <2>1, CountedKeeps
<1>6. w0 \in Wma /\ w0.hold = wma.hold /\ w0.req = wma.req
  BY <1>1, RemovePeerFields
<1>7. w1 \in Wma /\ w1.hold = wma.hold /\ w1.req = wma.req
  <2> HIDE DEF w0
  <2>1. QED
    BY <1>6, CreatePeerFields
<1>8. w2 \in Wma /\ w2.hold = Append(wma.hold, m) /\ w2.req = [wma.req EXCEPT ![m] = q]
  <2>1. m \in Mem /\ "assoc" \in Kinds /\ yes \in BOOLEAN
    BY DEF Kinds
  <2> HIDE DEF w1, q, yes
  <2>2. w2 \in Wma /\ w2.hold = Append(w1.hold, m) /\ w2.req = [w1.req EXCEPT ![m] = NewReq("assoc", p, yes)]
    BY <1>7, <2>1, FillFields
  <2>3. QED
    BY <1>7, <2>2 DEF q
<1>9. w3 \in Wma /\ w3.hold = w2.hold /\ w3.req = w2.req
  <2> HIDE DEF w2
  <2>1. QED
    BY <1>8, SendFields DEF Commands
<1>10. wma' = CASE res = "create" -> w0
                [] res = "alloc" -> RemovePeer(RemoveReq(w1, "assoc"), p)
                [] res = "assoc" -> RemovePeer(w2, p)
                [] res = "uapsd" -> RemovePeer(w3, p)
                [] res = "ok" -> w3
  BY <1>2, Zenon DEF AddStaReqApMode
<1>11. umac' = IF res \in {"create", "alloc"} THEN umac ELSE [umac EXCEPT ![p] = "adding"]
  BY <1>2, Zenon DEF AddStaReqApMode
<1> HIDE DEF w0, w1, w2, w3, what
<1>12. SUFFICES /\ wma' \in Wma /\ umac' \in Waits /\ QueueOK(wma') /\ Awaited(Held(wma'), wma'.req, umac')
                /\ NoAlloc' => Kept(Held(wma'), wma'.req, umac', late)
                /\ link = "clean" => wma'.hold = <<>>
  BY <1>4, <1>5 DEF WmaInv, WmaTypeOK
<1>13. CASE res = "create"
  <2>1. wma' = w0 /\ umac' = umac
    BY <1>10, <1>11, <1>13
  <2>2. Held(wma') = Held(wma) /\ QueueOK(wma') /\ wma'.req = wma.req
    BY <1>1, <1>6, <2>1, SameQueue
  <2>3. QED
    BY <1>1, <1>5, <1>6, <2>1, <2>2 DEF WmaInv
<1>14. CASE res = "alloc"
  <2> DEFINE f == RemoveReq(w1, "assoc")
  <2>1. wma' = RemovePeer(f, p) /\ umac' = umac
    BY <1>10, <1>11, <1>14
  <2>2. QueueOK(w1) /\ Held(w1) = Held(wma)
    BY <1>1, <1>7, SameQueue
  <2>3. f \in Wma /\ QueueOK(f) /\ Awaited(Held(f), f.req, umac)
    BY <1>1, <1>7, <2>2, RemoveReqKeeps DEF Kinds
  <2> HIDE DEF f
  <2>4. wma' \in Wma /\ wma'.hold = f.hold /\ wma'.req = f.req
    BY <2>1, <2>3, RemovePeerFields
  <2>5. Held(wma') = Held(f) /\ QueueOK(wma')
    BY <2>3, <2>4, SameQueue
  <2>6. QED
    BY <1>1, <1>3, <1>5, <1>14, <2>1, <2>3, <2>4, <2>5
<1>15. CASE res \in {"assoc", "uapsd", "ok"}
  <2>1. wma' \in Wma /\ wma'.hold = Append(wma.hold, m) /\ wma'.req = [wma.req EXCEPT ![m] = q]
    <3>1. \/ wma' = RemovePeer(w2, p)
          \/ wma' = RemovePeer(w3, p)
          \/ wma' = w3
      BY <1>10, <1>15
    <3> HIDE DEF q
    <3>2. QED
      BY <1>8, <1>9, <3>1, RemovePeerFields
  <2>2. umac' = [umac EXCEPT ![p] = "adding"]
    BY <1>11, <1>15
  <2>3. Held(wma') = Held(wma) \cup {m}
    BY <1>1, <1>2, <2>1, FillHeld
  <2>4. QueueOK(wma')
    BY <1>1, <1>2, <2>1, FillKeepsQueue DEF Kinds
  <2>5. q \in Req /\ q.kind = "assoc" /\ q.sta = p /\ q.timer
    BY ReqFields DEF Kinds
  <2>6. /\ Held(wma) \in SUBSET Mem /\ wma.req \in [Mem -> Req]
        /\ \A n \in Held(wma) : wma.req[n].sta \in Stas
    BY <1>1, HeldMem DEF Wma, QueueOK
  <2> HIDE DEF q
  <2>7. /\ Awaited(Held(wma'), wma'.req, umac')
        /\ Kept(Held(wma), wma.req, umac, late) => Kept(Held(wma'), wma'.req, umac', late)
    <3> DEFINE H == Held(wma)
               H2 == Held(wma')
               r == wma.req
               r2 == wma'.req
    <3>1. /\ H2 = H \cup {m} /\ H \in SUBSET Mem /\ r \in [Mem -> Req] /\ m \in Mem /\ m \notin H
          /\ r2 = [r EXCEPT ![m] = q] /\ Awaited(H, r, umac) /\ \A n \in H : r[n].sta \in Stas
      BY <1>1, <1>2, <2>1, <2>3, <2>6
    <3> HIDE DEF H, H2, r, r2
    <3>2. /\ Awaited(H2, r2, umac')
          /\ Kept(H, r, umac, late) => Kept(H2, r2, umac', late)
      BY <1>1, <2>2, <2>5, <3>1, FillAdds
    <3>3. QED
      BY <3>2 DEF H, H2, r, r2
  <2>8. umac' \in Waits
    BY <1>1, <2>2 DEF Waits
  <2>9. link = "up"
    BY <1>3, <1>15
  <2>10. QED
    BY <1>5, <2>1, <2>4, <2>7, <2>8, <2>9 DEF WmaInv
<1>16. QED
  BY <1>3, <1>13, <1>14, <1>15

\* wma_delete_sta_req_ap_mode, on each of its paths.
LEMMA DeleteStaInv == ASSUME WmaInv, NEW p \in Stas, DeleteSta(p) PROVE WmaInv'
<1>1. wma \in Wma /\ QueueOK(wma) /\ Awaited(Held(wma), wma.req, umac) /\ umac \in Waits /\ umac[p] = "in"
  BY DEF WmaInv, WmaTypeOK, DeleteSta
<1>2. PICK resp \in BOOLEAN, res \in DelResults, m \in Mem \ Held(wma) :
        DeleteStaReqApMode(p, m, resp, res) /\ Counted(res)
  BY DEF DeleteSta
<1> DEFINE w1 == RemovePeer(wma, p)
           fails == RemovePeerFails(wma, p)
           q == NewReq("delete", p, resp)
<1>3. res \in {"ok", "alloc"} /\ (res = "alloc" => Len(odd) < MaxOdd)
  BY WmaAssumption DEF DelResults, Faulty
<1>4. late' = late /\ target' = target /\ link' = link
  BY DEF DeleteSta
<1>5. odd' \in Seq(Oddities) /\ (NoAlloc' => NoAlloc) /\ (res = "alloc" => ~ NoAlloc')
  <2>1. res \in Oddities \cup {"ok"} /\ odd \in Seq(Oddities) /\ Counted(res)
    BY <1>2, <1>3 DEF WmaInv, WmaTypeOK, Oddities
  <2>2. QED
    BY <1>3, <2>1, CountedKeeps
<1>6. w1 \in Wma /\ w1.hold = wma.hold /\ w1.req = wma.req
  BY <1>1, RemovePeerFields
<1>7. QueueOK(w1) /\ Held(w1) = Held(wma)
  BY <1>1, <1>6, SameQueue
<1>8. wma' = IF fails THEN w1 ELSE IF res = "alloc" THEN RemoveReq(w1, "delete")
             ELSE FillHoldReq(w1, m, "delete", p, resp)
  BY <1>2, Zenon DEF DeleteStaReqApMode
<1>9. umac' = [umac EXCEPT ![p] = IF resp /\ ~ (fails \/ res = "alloc") THEN "deleting" ELSE "out"]
  BY <1>2, Zenon DEF DeleteStaReqApMode
<1>10. ~ fails => link = "up"
  BY DEF RemovePeerFails
<1> HIDE DEF w1, fails
<1>11. SUFFICES /\ wma' \in Wma /\ umac' \in Waits /\ QueueOK(wma') /\ Awaited(Held(wma'), wma'.req, umac')
                /\ NoAlloc' => Kept(Held(wma'), wma'.req, umac', late)
                /\ link = "clean" => wma'.hold = <<>>
  BY <1>4, <1>5 DEF WmaInv, WmaTypeOK
<1>12. ASSUME NEW H, NEW r, \A n \in H : r[n].sta \in Stas, Awaited(H, r, umac), umac' = [umac EXCEPT ![p] = "out"]
       PROVE  umac' \in Waits /\ Awaited(H, r, umac') /\ (Kept(H, r, umac, late) => Kept(H, r, umac', late))
  <2>1. umac'[p] = "out" /\ \A s \in Stas : s # p => umac'[s] = umac[s]
    BY <1>1, <1>12 DEF Waits
  <2>2. umac' \in Waits
    BY <1>1, <1>12 DEF Waits
  <2>3. Awaited(H, r, umac')
    BY <1>1, <1>12, <2>1 DEF Awaited
  <2>4. Kept(H, r, umac, late) => Kept(H, r, umac', late)
    BY <2>1 DEF Kept
  <2>5. QED
    BY <2>2, <2>3, <2>4
<1>13. CASE fails
  <2>1. wma' = w1 /\ umac' = [umac EXCEPT ![p] = "out"]
    BY <1>8, <1>9, <1>13
  <2>2. \A n \in Held(wma) : wma.req[n].sta \in Stas
    BY <1>1 DEF QueueOK
  <2>3. umac' \in Waits /\ Awaited(Held(wma), wma.req, umac')
        /\ (Kept(Held(wma), wma.req, umac, late) => Kept(Held(wma), wma.req, umac', late))
    BY <1>1, <1>12, <2>1, <2>2
  <2>4. QED
    BY <1>5, <1>6, <1>7, <2>1, <2>3 DEF WmaInv
<1>14. CASE ~ fails /\ res = "alloc"
  <2> DEFINE f == RemoveReq(w1, "delete")
  <2>1. wma' = f /\ umac' = [umac EXCEPT ![p] = "out"]
    BY <1>8, <1>9, <1>14
  <2>2. f \in Wma /\ QueueOK(f) /\ Awaited(Held(f), f.req, umac)
    BY <1>1, <1>6, <1>7, RemoveReqKeeps DEF Kinds
  <2>3. \A n \in Held(f) : f.req[n].sta \in Stas
    BY <2>2 DEF QueueOK
  <2> HIDE DEF f
  <2>4. umac' \in Waits /\ Awaited(Held(f), f.req, umac')
    BY <1>12, <2>1, <2>2, <2>3
  <2>5. QED
    BY <1>5, <1>10, <1>14, <2>1, <2>2, <2>4
<1>15. CASE ~ fails /\ res = "ok"
  <2>1. m \in Mem /\ m \notin Held(wma) /\ "delete" \in Kinds /\ w1 \in Wma
    BY <1>2, <1>6 DEF Kinds
  <2>2. wma' = FillHoldReq(w1, m, "delete", p, resp)
    BY <1>8, <1>15
  <2>3. wma' \in Wma /\ wma'.hold = Append(w1.hold, m) /\ wma'.req = [w1.req EXCEPT ![m] = q]
    BY <2>1, <2>2, FillFields
  <2>4. wma' \in Wma /\ wma'.hold = Append(wma.hold, m) /\ wma'.req = [wma.req EXCEPT ![m] = q]
    BY <1>6, <2>3
  <2>5. q \in Req /\ q.kind = "delete" /\ q.sta = p /\ q.timer /\ q.resp = resp
    BY <2>1, ReqFields
  <2>6. umac' = [umac EXCEPT ![p] = IF resp THEN "deleting" ELSE "out"]
    BY <1>9, <1>15
  <2>7. Held(wma') = Held(wma) \cup {m}
    BY <1>1, <2>1, <2>4, FillHeld
  <2>8. QueueOK(wma')
    BY <1>1, <2>1, <2>4, FillKeepsQueue
  <2>9. /\ Held(wma) \in SUBSET Mem /\ wma.req \in [Mem -> Req]
        /\ \A n \in Held(wma) : wma.req[n].sta \in Stas
    BY <1>1, HeldMem DEF Wma, QueueOK
  <2> HIDE DEF q
  <2>10. umac' = [umac EXCEPT ![p] = IF q.resp THEN "deleting" ELSE "out"]
    BY <2>5, <2>6
  <2>11. /\ Awaited(Held(wma'), wma'.req, umac')
         /\ Kept(Held(wma), wma.req, umac, late) => Kept(Held(wma'), wma'.req, umac', late)
    <3> DEFINE H == Held(wma)
               H2 == Held(wma')
               r == wma.req
               r2 == wma'.req
    <3>1. /\ H2 = H \cup {m} /\ H \in SUBSET Mem /\ r \in [Mem -> Req] /\ m \in Mem /\ m \notin H
          /\ r2 = [r EXCEPT ![m] = q] /\ Awaited(H, r, umac) /\ \A n \in H : r[n].sta \in Stas
      BY <1>1, <2>1, <2>4, <2>7, <2>9
    <3>2. q \in Req /\ q.kind = "delete" /\ q.sta = p /\ q.timer /\ umac \in Waits /\ umac[p] = "in"
      BY <1>1, <2>5
    <3> HIDE DEF H, H2, r, r2
    <3>3. /\ Awaited(H2, r2, umac')
          /\ Kept(H, r, umac, late) => Kept(H2, r2, umac', late)
      BY <2>10, <3>1, <3>2, FillDeletes
    <3>4. QED
      BY <3>3 DEF H, H2, r, r2
  <2>12. umac' \in Waits
    BY <1>1, <2>6 DEF Waits
  <2>13. QED
    BY <1>5, <1>10, <1>15, <2>4, <2>8, <2>11, <2>12 DEF WmaInv
<1>16. QED
  BY <1>3, <1>13, <1>14, <1>15

\* A request leaves the queue with its answer.
LEMMA ReleaseInv ==
  ASSUME WmaInv, NEW m \in Held(wma), NEW p, p = wma.req[m].sta, wma' = Release(wma, m),
         umac' \in Waits, \A s \in Stas : s # p => umac'[s] = umac[s],
         late' \in SUBSET Mem, late \ {m} \subseteq late', link' = link, odd' = odd,
         target' \in [peer : [Stas -> {"none", "created", "assoc"}], evts : Seq(Kinds)],
         \/ wma.req[m].kind = "assoc" /\ umac'[p] \in {"in", "out"}
         \/ wma.req[m].kind = "delete" /\ umac'[p] = IF umac[p] = "deleting" THEN "out" ELSE umac[p]
         \/ wma.req[m].kind = "delete" /\ umac'[p] = umac[p] /\ ~ wma.req[m].resp
  PROVE  WmaInv'
<1>1. wma \in Wma /\ QueueOK(wma) /\ Awaited(Held(wma), wma.req, umac) /\ umac \in Waits
  BY DEF WmaInv, WmaTypeOK
<1>2. /\ m \in Mem /\ Held(wma) \in SUBSET Mem /\ wma.req \in [Mem -> Req]
      /\ p \in Stas /\ wma.req[m].kind \in Kinds /\ \A n \in Held(wma) : wma.req[n].sta \in Stas
  BY <1>1, HeldMem DEF Wma, QueueOK
<1>3. wma' \in Wma /\ wma'.req = [wma.req EXCEPT ![m] = Freed]
  BY <1>1, <1>2, ReleaseFields
<1>4. Held(wma') = Held(wma) \ {m}
  BY <1>1, <1>2, ReleaseHeld
<1>5. QueueOK(wma')
  BY <1>1, <1>2, ReleaseKeepsQueue
<1>6. /\ Awaited(Held(wma'), wma'.req, umac')
      /\ Kept(Held(wma), wma.req, umac, late) => Kept(Held(wma'), wma'.req, umac', late')
  <2> DEFINE H == Held(wma)
             H2 == Held(wma')
             r == wma.req
             r2 == wma'.req
  <2>1. /\ H2 = H \ {m} /\ H \in SUBSET Mem /\ r \in [Mem -> Req] /\ m \in H /\ p \in Stas
        /\ r[m].sta = p /\ r[m].kind \in Kinds /\ \A n \in H : r[n].sta \in Stas
        /\ r2 = [r EXCEPT ![m] = Freed] /\ Awaited(H, r, umac) /\ umac \in Waits
    BY <1>1, <1>2, <1>3, <1>4
  <2>2. \/ r[m].kind = "assoc" /\ umac'[p] \in {"in", "out"}
        \/ r[m].kind = "delete" /\ umac'[p] = IF umac[p] = "deleting" THEN "out" ELSE umac[p]
        \/ r[m].kind = "delete" /\ umac'[p] = umac[p] /\ ~ r[m].resp
    OBVIOUS
  <2> HIDE DEF H, H2, r, r2
  <2>3. /\ Awaited(H2, r2, umac')
        /\ Kept(H, r, umac, late) => Kept(H2, r2, umac', late')
    BY <2>1, <2>2, Answered
  <2>4. QED
    BY <2>3 DEF H, H2, r, r2
<1>7. link # "clean"
  BY DEF WmaInv, Held
<1>8. NoAlloc' <=> NoAlloc
  BY DEF NoAlloc
<1>9. QED
  BY <1>3, <1>5, <1>6, <1>7, <1>8 DEF WmaInv, WmaTypeOK

\* Only the firmware's side of a step changed.
LEMMA SameInv ==
  ASSUME WmaInv, wma' \in Wma, wma'.hold = wma.hold, wma'.req = wma.req, umac' = umac, late' = late,
         target' \in [peer : [Stas -> {"none", "created", "assoc"}], evts : Seq(Kinds)],
         link' \in {"up", "stopped", link}, odd' \in Seq(Oddities), NoAlloc' => NoAlloc
  PROVE  WmaInv'
<1>1. Held(wma') = Held(wma) /\ QueueOK(wma')
  BY SameQueue DEF WmaInv, WmaTypeOK
<1>2. QED
  BY <1>1 DEF WmaInv, WmaTypeOK

\* An event that was delivered is off the firmware's queue.
LEMMA EventTypes ==
  ASSUME WmaTypeOK, NEW k, Event(k)
  PROVE  /\ target' \in [peer : [Stas -> {"none", "created", "assoc"}], evts : Seq(Kinds)]
         /\ target'.peer = target.peer /\ target'.evts = Tail(target.evts)
         /\ target.evts # <<>> /\ Head(target.evts) = k
<1>1. target.evts \in Seq(Kinds) /\ target.evts # <<>>
  BY DEF WmaTypeOK, Event
<1>2. Tail(target.evts) \in Seq(Kinds)
  BY <1>1
<1>3. target' = [target EXCEPT !.evts = Tail(target.evts)]
  BY Zenon DEF Event
<1>4. QED
  BY <1>1, <1>2, <1>3 DEF WmaTypeOK, Event

\* wma_peer_assoc_conf_handler, with and without a request.
LEMMA PeerAssocConfInv == ASSUME WmaInv, PeerAssocConf PROVE WmaInv'
<1> DEFINE m == FindReq(wma, "assoc")
           p == wma.req[m].sta
<1>1. wma \in Wma /\ umac \in Waits /\ WmaTypeOK /\ QueueOK(wma) /\ Awaited(Held(wma), wma.req, umac)
  BY DEF WmaInv, WmaTypeOK
<1>2. target' \in [peer : [Stas -> {"none", "created", "assoc"}], evts : Seq(Kinds)]
  BY <1>1, EventTypes DEF PeerAssocConf
<1>3. /\ wma' = Release(wma, m) /\ late' = late /\ link' = link /\ odd' = odd
      /\ umac' = IF m = NoReq THEN umac ELSE AddStaRsp(umac, p, TRUE)
  BY Zenon DEF PeerAssocConf
<1>4. m = NoReq \/ (m \in Held(wma) /\ m # NoReq /\ wma.req[m].kind = "assoc")
  BY <1>1, FindsReq DEF Kinds
<1> HIDE DEF m
<1>5. CASE m = NoReq
  <2>1. wma' = wma /\ umac' = umac
    BY <1>3, <1>5 DEF Release
  <2>2. NoAlloc' <=> NoAlloc
    BY <1>3 DEF NoAlloc
  <2>3. QED
    BY <1>1, <1>2, <1>3, <2>1, <2>2, SameInv DEF WmaTypeOK
<1>6. CASE m # NoReq
  <2>1. m \in Held(wma) /\ wma.req[m].kind = "assoc" /\ umac[p] = "adding" /\ p \in Stas
    BY <1>1, <1>4, <1>6 DEF Awaited, QueueOK
  <2> HIDE DEF p
  <2>2. umac' = [umac EXCEPT ![p] = "in"]
    BY <1>3, <1>6, <2>1 DEF AddStaRsp
  <2>3. umac' \in Waits /\ umac'[p] = "in" /\ \A s \in Stas : s # p => umac'[s] = umac[s]
    BY <1>1, <2>1, <2>2 DEF Waits
  <2>4. p = wma.req[m].sta /\ late' \in SUBSET Mem /\ late \ {m} \subseteq late'
    BY <1>1, <1>3 DEF p, WmaTypeOK
  <2>5. QED
    BY <1>2, <1>3, <2>1, <2>3, <2>4, ReleaseInv
<1>7. QED
  BY <1>5, <1>6

\* wma_peer_delete_handler, with and without a request, which need not be the
\* one that was answered.
LEMMA PeerDeleteInv == ASSUME WmaInv, PeerDelete PROVE WmaInv'
<1> DEFINE m == FindReq(wma, "delete")
           p == wma.req[m].sta
<1>1. wma \in Wma /\ umac \in Waits /\ WmaTypeOK /\ QueueOK(wma)
  BY DEF WmaInv, WmaTypeOK
<1>2. target' \in [peer : [Stas -> {"none", "created", "assoc"}], evts : Seq(Kinds)]
  BY <1>1, EventTypes DEF PeerDelete
<1>3. /\ wma' = Release(wma, m) /\ late' = late /\ link' = link /\ odd' = odd
      /\ umac' = IF m # NoReq /\ wma.req[m].resp THEN DelStaRsp(umac, p) ELSE umac
  BY Zenon DEF PeerDelete
<1>4. m = NoReq \/ (m \in Held(wma) /\ m # NoReq /\ wma.req[m].kind = "delete")
  BY <1>1, FindsReq DEF Kinds
<1> HIDE DEF m
<1>5. CASE m = NoReq
  <2>1. wma' = wma /\ umac' = umac
    BY <1>3, <1>5 DEF Release
  <2>2. NoAlloc' <=> NoAlloc
    BY <1>3 DEF NoAlloc
  <2>3. QED
    BY <1>1, <1>2, <1>3, <2>1, <2>2, SameInv DEF WmaTypeOK
<1>6. CASE m # NoReq
  <2>1. m \in Held(wma) /\ wma.req[m].kind = "delete" /\ p \in Stas
    BY <1>1, <1>4, <1>6 DEF QueueOK
  <2>2. p = wma.req[m].sta /\ late' \in SUBSET Mem /\ late \ {m} \subseteq late'
    BY <1>1, <1>3 DEF WmaTypeOK
  <2>3. umac' = IF wma.req[m].resp THEN DelStaRsp(umac, p) ELSE umac
    BY <1>3, <1>6
  <2> HIDE DEF p
  <2>4. CASE wma.req[m].resp
    <3>1. umac' = IF umac[p] = "deleting" THEN [umac EXCEPT ![p] = "out"] ELSE umac
      BY <2>3, <2>4 DEF DelStaRsp
    <3>2. /\ umac' \in Waits /\ \A s \in Stas : s # p => umac'[s] = umac[s]
          /\ umac'[p] = IF umac[p] = "deleting" THEN "out" ELSE umac[p]
      BY <1>1, <2>1, <3>1 DEF Waits
    <3>3. QED
      BY <1>2, <1>3, <2>1, <2>2, <3>2, ReleaseInv
  <2>5. CASE ~ wma.req[m].resp
    <3>1. umac' = umac
      BY <2>3, <2>5
    <3>2. QED
      BY <1>1, <1>2, <1>3, <2>1, <2>2, <2>5, <3>1, ReleaseInv
  <2>6. QED
    BY <2>4, <2>5
<1>7. QED
  BY <1>5, <1>6

\* wma_hold_req_timer: the callback's request may be gone, or its memory be
\* another request's; that one then gets the time-out as its answer.
LEMMA HoldReqTimerInv == ASSUME WmaInv, NEW m \in Mem, HoldReqTimer(m) PROVE WmaInv'
<1> DEFINE p == wma.req[m].sta
           q == wma.req[m]
<1>1. wma \in Wma /\ umac \in Waits /\ WmaTypeOK /\ QueueOK(wma) /\ Awaited(Held(wma), wma.req, umac)
  BY DEF WmaInv, WmaTypeOK
<1>2. /\ wma' = Release(wma, ExpiredReq(wma, m)) /\ late' = late \ {m}
      /\ target' = target /\ link' = link /\ odd' = odd
      /\ umac' = IF ExpiredReq(wma, m) = NoReq THEN umac ELSE TimedOut(umac, wma.req[ExpiredReq(wma, m)])
  BY Zenon DEF HoldReqTimer
<1>3. NoAlloc' <=> NoAlloc
  BY <1>2 DEF NoAlloc
<1>4. target' \in [peer : [Stas -> {"none", "created", "assoc"}], evts : Seq(Kinds)]
  BY <1>1, <1>2 DEF WmaTypeOK
<1>5. CASE m \notin Held(wma)
  <2>1. wma' = wma /\ umac' = umac
    BY <1>2, <1>5 DEF ExpiredReq, Release
  <2>2. Kept(Held(wma), wma.req, umac, late) => Kept(Held(wma), wma.req, umac, late')
    BY <1>2, <1>5 DEF Kept, Armed
  <2>3. QED
    BY <1>2, <1>3, <2>1, <2>2 DEF WmaInv, WmaTypeOK
<1>6. CASE m \in Held(wma)
  <2>1. ExpiredReq(wma, m) = m /\ m # NoReq
    BY <1>6, WmaAssumption DEF ExpiredReq
  <2>2. wma' = Release(wma, m) /\ umac' = TimedOut(umac, q)
    BY <1>2, <2>1
  <2>3. q \in Req /\ q.kind \in Kinds /\ q.sta \in Stas
    BY <1>1, <1>6 DEF Wma, QueueOK
  <2>4. q.kind = "assoc" => umac[q.sta] = "adding"
    BY <1>1, <1>6 DEF Awaited
  <2> HIDE DEF q
  <2>5. /\ umac' \in Waits /\ \A s \in Stas : s # q.sta => umac'[s] = umac[s]
        /\ \/ q.kind = "assoc" /\ umac'[q.sta] \in {"in", "out"}
           \/ q.kind = "delete" /\ umac'[q.sta] = IF umac[q.sta] = "deleting" THEN "out" ELSE umac[q.sta]
    BY <1>1, <2>2, <2>3, <2>4, TimedOutAnswers DEF Kinds
  <2>6. late' \in SUBSET Mem /\ late \ {m} \subseteq late'
    BY <1>1, <1>2 DEF WmaTypeOK
  <2>7. QED
    BY <1>2, <1>4, <1>6, <2>2, <2>5, <2>6, ReleaseInv DEF q
<1>7. QED
  BY <1>5, <1>6

\* A timer that expires leaves its time-out in the mailbox.
LEMMA TimerExpiresInv == ASSUME WmaInv, NEW m \in Mem, TimerExpires(m) PROVE WmaInv'
<1> DEFINE q == [wma.req[m] EXCEPT !.timer = FALSE]
           r2 == [wma.req EXCEPT ![m] = q]
<1>1. wma \in Wma /\ WmaTypeOK /\ QueueOK(wma) /\ Awaited(Held(wma), wma.req, umac) /\ m \in Held(wma)
  BY DEF WmaInv, WmaTypeOK, TimerExpires
<1>2. /\ wma' = [wma EXCEPT !.req = r2] /\ late' = late \cup {m} /\ Counted("late")
      /\ umac' = umac /\ target' = target /\ link' = link
  BY Zenon DEF TimerExpires
<1>3. wma.req[m] \in Req /\ wma.req \in [Mem -> Req]
  BY <1>1 DEF Wma
<1>4. q \in Req /\ q.kind = wma.req[m].kind /\ q.sta = wma.req[m].sta /\ q.resp = wma.req[m].resp
  BY <1>3 DEF Req
<1> HIDE DEF q
<1>5. r2 \in [Mem -> Req] /\ r2[m] = q /\ \A n \in Mem : n # m => r2[n] = wma.req[n]
  BY <1>3, <1>4
<1> HIDE DEF r2
<1>6. wma' \in Wma /\ wma'.hold = wma.hold /\ wma'.req = r2
  BY <1>1, <1>2, <1>5 DEF Wma
<1>7. Held(wma') = Held(wma) /\ Held(wma) \subseteq Mem
  BY <1>1, <1>6, HeldMem DEF Held
<1>8. QueueOK(wma')
  BY <1>1, <1>4, <1>5, <1>6, <1>7 DEF QueueOK
<1>9. Awaited(Held(wma'), wma'.req, umac')
  BY <1>1, <1>2, <1>4, <1>5, <1>6, <1>7 DEF Awaited
<1>10. \A n \in Held(wma) : r2[n].kind = wma.req[n].kind /\ r2[n].sta = wma.req[n].sta
                            /\ (wma.req[n].resp => r2[n].resp) /\ (wma.req[n].timer => r2[n].timer \/ n = m)
  BY <1>4, <1>5, <1>7
<1>11. Kept(Held(wma), wma.req, umac, late) => Kept(Held(wma'), wma'.req, umac', late')
  BY <1>2, <1>6, <1>7, <1>10 DEF Kept, Armed
<1>12. odd' \in Seq(Oddities) /\ (NoAlloc' => NoAlloc)
  BY <1>1, <1>2, CountedKeeps DEF WmaTypeOK, Oddities
<1>13. QED
  BY <1>2, <1>6, <1>8, <1>9, <1>11, <1>12 DEF WmaInv, WmaTypeOK

\* What the firmware's step changes.
LEMMA FwStepFields ==
  ASSUME WmaTypeOK, FwStep
  PROVE  /\ wma.cmds # <<>> /\ wma' \in Wma /\ wma'.hold = wma.hold /\ wma'.req = wma.req
         /\ wma'.peers = wma.peers /\ wma'.cmds = Tail(wma.cmds)
         /\ Head(wma.cmds)[1] \in Commands /\ Head(wma.cmds)[2] \in Stas
         /\ target' \in [peer : [Stas -> {"none", "created", "assoc"}], evts : Seq(Kinds)]
         /\ target'.evts = IF Head(wma.cmds)[1] = "create" THEN target.evts
                           ELSE Append(target.evts, Head(wma.cmds)[1])
         /\ target'.peer = [target.peer EXCEPT ![Head(wma.cmds)[2]] =
                              CASE Head(wma.cmds)[1] = "create" -> "created"
                                [] Head(wma.cmds)[1] = "assoc" -> "assoc"
                                [] Head(wma.cmds)[1] = "delete" -> "none"]
<1> DEFINE c == Head(wma.cmds)[1]
           p == Head(wma.cmds)[2]
           s == Tail(wma.cmds)
           x == CASE c = "create" -> "created" [] c = "assoc" -> "assoc" [] c = "delete" -> "none"
           e == IF c = "create" THEN target.evts ELSE Append(target.evts, c)
           t == [target.peer EXCEPT ![p] = x]
<1>1. wma \in Wma /\ wma.cmds \in Seq(Cmd) /\ wma.cmds # <<>>
  BY DEF WmaTypeOK, Wma, FwStep
<1>2. Head(wma.cmds) \in Cmd /\ s \in Seq(Cmd)
  BY <1>1
<1>3. c \in Commands /\ p \in Stas
  BY <1>2 DEF Cmd
<1>4. wma' = [wma EXCEPT !.cmds = s]
  BY Zenon DEF FwStep
<1>5. target' = [target EXCEPT !.peer = t, !.evts = e]
  BY Zenon DEF FwStep
<1>6. target.evts \in Seq(Kinds) /\ target.peer \in [Stas -> {"none", "created", "assoc"}]
  BY DEF WmaTypeOK
<1> HIDE DEF c, p, s
<1>7. x \in {"none", "created", "assoc"}
  BY <1>3 DEF Commands
<1>8. e \in Seq(Kinds)
  BY <1>3, <1>6 DEF Commands, Kinds
<1> HIDE DEF x, e
<1>9. t \in [Stas -> {"none", "created", "assoc"}]
  BY <1>3, <1>6, <1>7
<1> HIDE DEF t
<1>10. /\ target'.peer = t /\ target'.evts = e
       /\ target' \in [peer : [Stas -> {"none", "created", "assoc"}], evts : Seq(Kinds)]
  BY <1>5, <1>8, <1>9 DEF WmaTypeOK
<1>11. wma' \in Wma /\ wma'.hold = wma.hold /\ wma'.req = wma.req /\ wma'.peers = wma.peers /\ wma'.cmds = s
  BY <1>1, <1>2, <1>4, SetCmds
<1>12. QED
  BY <1>1, <1>3, <1>10, <1>11 DEF c, p, s, x, e, t

\* The firmware's own step changes no request.
LEMMA FwStepInv == ASSUME WmaInv, FwStep PROVE WmaInv'
<1>1. WmaTypeOK
  BY DEF WmaInv
<1>2. /\ wma' \in Wma /\ wma'.hold = wma.hold /\ wma'.req = wma.req
      /\ target' \in [peer : [Stas -> {"none", "created", "assoc"}], evts : Seq(Kinds)]
  BY <1>1, FwStepFields
<1>3. umac' = umac /\ late' = late /\ link' = link /\ odd' = odd
  BY DEF FwStep
<1>4. odd' \in Seq(Oddities) /\ (NoAlloc' => NoAlloc)
  BY <1>1, <1>3 DEF WmaTypeOK, NoAlloc
<1>5. QED
  BY <1>2, <1>3, <1>4, SameInv

\* Neither does its crash.
LEMMA FwDownInv == ASSUME WmaInv, FwDown PROVE WmaInv'
<1>1. WmaTypeOK /\ wma \in Wma /\ odd \in Seq(Oddities)
  BY DEF WmaInv, WmaTypeOK
<1>2. /\ wma' = [wma EXCEPT !.cmds = <<>>] /\ link' = "stopped" /\ Counted("down")
      /\ umac' = umac /\ late' = late /\ target' = target
  BY DEF FwDown
<1>3. wma' \in Wma /\ wma'.hold = wma.hold /\ wma'.req = wma.req
  <2> DEFINE s == <<>>
  <2>1. wma' = [wma EXCEPT !.cmds = s] /\ s \in Seq(Cmd)
    BY <1>2
  <2> HIDE DEF s
  <2>2. QED
    BY <1>1, <2>1, SetCmds
<1>4. odd' \in Seq(Oddities) /\ (NoAlloc' => NoAlloc)
  BY <1>1, <1>2, CountedKeeps DEF Oddities
<1>5. target' \in [peer : [Stas -> {"none", "created", "assoc"}], evts : Seq(Kinds)]
  BY <1>1, <1>2 DEF WmaTypeOK
<1>6. QED
  BY <1>2, <1>3, <1>4, <1>5, SameInv

\* wma_cleanup_hold_req: the empty queue keeps nobody, and nobody waits.
LEMMA CleanupInv == ASSUME WmaInv, CleanupHoldReq PROVE WmaInv'
<1> DEFINE u == Cleaned(wma, umac)[2]
           none == [m \in Mem |-> Freed]
<1>1. /\ wma \in Wma /\ umac \in Waits /\ WmaTypeOK /\ QueueOK(wma)
  BY DEF WmaInv, WmaTypeOK
<1>2. /\ wma' = Cleaned(wma, umac)[1] /\ umac' = u /\ link' = "clean"
      /\ late' = late /\ target' = target /\ odd' = odd
  BY Zenon DEF CleanupHoldReq
<1>3. Cleaned(wma, umac)[1] = [wma EXCEPT !.hold = <<>>, !.req = none]
  BY DEF Cleaned
<1>4. none \in [Mem -> Req] /\ <<>> \in Seq(Mem)
  BY FreedFields
<1> HIDE DEF none
<1>5. wma' \in Wma /\ wma'.hold = <<>>
  BY <1>1, <1>2, <1>3, <1>4 DEF Wma
<1>6. Held(wma') = {} /\ QueueOK(wma')
  <2>1. DOMAIN wma'.hold = {}
    BY <1>5
  <2>2. Held(wma') = {}
    BY <2>1 DEF Held
  <2>3. QED
    BY <2>1, <2>2 DEF QueueOK
<1>7. Awaited(Held(wma'), wma'.req, umac')
  BY <1>6 DEF Awaited
<1>8. /\ u \in Waits
      /\ \A p \in Stas : u[p] \in {umac[p], "out"}
      /\ \A m \in Held(wma) :
           /\ wma.req[m].kind = "assoc" => u[wma.req[m].sta] # "adding"
           /\ wma.req[m].kind = "delete" => u[wma.req[m].sta] # "deleting"
  BY <1>1, CleanedWaits
<1> HIDE DEF u
<1>9. Kept(Held(wma), wma.req, umac, late) => \A p \in Stas : u[p] # "adding" /\ u[p] # "deleting"
  BY <1>8 DEF Kept, Armed
<1>10. Kept(Held(wma), wma.req, umac, late) => Kept(Held(wma'), wma'.req, umac', late')
  BY <1>2, <1>9 DEF Kept
<1>11. NoAlloc' <=> NoAlloc
  BY <1>2 DEF NoAlloc
<1>12. QED
  BY <1>1, <1>2, <1>5, <1>6, <1>7, <1>8, <1>10, <1>11 DEF WmaInv, WmaTypeOK

\* The modules start again with nobody waiting.
LEMMA ReinitInv == ASSUME WmaInv, Reinit PROVE WmaInv'
<1>1. wma \in Wma /\ wma.hold = <<>> /\ WmaTypeOK /\ QueueOK(wma)
  BY DEF WmaInv, WmaTypeOK, Reinit
<1>2. /\ wma' = [wma EXCEPT !.peers = {}] /\ umac' = [p \in Stas |-> "out"] /\ late' = {}
      /\ target' = [peer |-> [p \in Stas |-> "none"], evts |-> <<>>] /\ link' = "up" /\ odd' = odd
  BY Zenon DEF Reinit
<1>3. wma' \in Wma /\ wma'.hold = wma.hold /\ wma'.req = wma.req
  <2> DEFINE s == {}
  <2>1. wma' = [wma EXCEPT !.peers = s] /\ s \in SUBSET Stas
    BY <1>2
  <2>2. wma \in Wma
    BY <1>1
  <2> HIDE DEF s
  <2>3. QED
    BY <2>1, <2>2, SetPeers
<1>4. Held(wma') = {} /\ QueueOK(wma')
  BY <1>1, <1>3, SameQueue DEF Held
<1>5. umac' \in Waits /\ \A p \in Stas : umac'[p] = "out"
  BY <1>2 DEF Waits
<1>6. Awaited(Held(wma'), wma'.req, umac') /\ Kept(Held(wma'), wma'.req, umac', late')
  BY <1>4, <1>5 DEF Awaited, Kept
<1>7. target' \in [peer : [Stas -> {"none", "created", "assoc"}], evts : Seq(Kinds)]
  BY <1>2
<1>8. QED
  BY <1>1, <1>2, <1>3, <1>4, <1>5, <1>6, <1>7 DEF WmaInv, WmaTypeOK

-----------------------------------------------------------------------------

\* The strengthened invariant holds in every reachable state, for any number
\* of stations, requests and failures, whichever of them may happen.
THEOREM WmaInvariance == WmaSpec => []WmaInv
<1>1. WmaInit => WmaInv
  BY WmaInitInv
<1>2. WmaInv /\ [WmaNext]_wmaVars => WmaInv'
  <2> SUFFICES ASSUME WmaInv, [WmaNext]_wmaVars PROVE WmaInv'
    OBVIOUS
  <2>1. CASE WmaNext
    BY <2>1, AddStaInv, DeleteStaInv, FwStepInv, PeerAssocConfInv, PeerDeleteInv, TimerExpiresInv,
       HoldReqTimerInv, FwDownInv, CleanupInv, ReinitInv DEF WmaNext
  <2>2. CASE UNCHANGED wmaVars
    BY <2>2 DEF wmaVars, WmaInv, WmaTypeOK, QueueOK, Held, Awaited, Kept, Armed, NoAlloc
  <2>3. QED
    BY <2>1, <2>2
<1>3. QED
  BY <1>1, <1>2, PTL DEF WmaSpec

\* wma_find_req, wma_hold_req_timer: an ADD_STA that is held is awaited, and
\* a station has one at most, whatever time-outs come late for memory that is
\* in use again.
THEOREM AnswersAreAwaited == WmaSpec => []HeldIsAwaited
<1>1. WmaInv => HeldIsAwaited
  <2> SUFFICES ASSUME WmaInv, NEW i \in DOMAIN wma.hold, wma.req[wma.hold[i]].kind # "delete"
               PROVE  /\ umac[wma.req[wma.hold[i]].sta] = "adding"
                      /\ \A j \in DOMAIN wma.hold :
                           wma.req[wma.hold[j]].kind # "delete" /\ wma.req[wma.hold[j]].sta = wma.req[wma.hold[i]].sta
                           => i = j
    BY DEF HeldIsAwaited
  <2>1. \A j \in DOMAIN wma.hold : /\ wma.hold[j] \in Held(wma)
                                   /\ wma.req[wma.hold[j]].kind # "delete" => wma.req[wma.hold[j]].kind = "assoc"
    BY DEF WmaInv, QueueOK, Held, Kinds
  <2>2. QED
    BY <2>1 DEF WmaInv, QueueOK, Awaited
<1>2. QED
  BY <1>1, WmaInvariance, PTL

\* wma_hold_req_timer, wma_cleanup_hold_req: as long as there was memory for
\* each request, who waits for an answer has a request whose timer runs or
\* whose time-out is in the mailbox.
THEOREM WaitsEnd == WmaSpec => []NobodyForgotten
<1>1. WmaInv => NobodyForgotten
  <2> SUFFICES ASSUME WmaInv, NoAlloc, NEW p \in Stas, umac[p] \in {"adding", "deleting"}
               PROVE  \E m \in Held(wma) : wma.req[m].sta = p /\ (wma.req[m].timer \/ m \in late)
    BY DEF NobodyForgotten, NoAlloc
  <2>1. Kept(Held(wma), wma.req, umac, late)
    BY DEF WmaInv
  <2>2. QED
    BY <2>1 DEF Kept, Armed
<1>2. QED
  BY <1>1, WmaInvariance, PTL

-----------------------------------------------------------------------------
(* As long as nothing failed. *)

\* The commands the firmware answers with an event.
Asked == {c \in Cmd : c[1] # "create"}
\* Those of them that are under way, in their order.
Pend(w) == Select(w.cmds, Asked)

\* The kind of the i-th request of the queue...
KindAt(w, i) == w.req[w.hold[i]].kind
\* ...and its station.
StaAt(w, i) == w.req[w.hold[i]].sta

\* wma_hold_req_queue is what the firmware still has to answer: first a
\* request for each event that waits, by its kind, then one for each command
\* under way, by kind and station.
Fifo(w, e) ==
  /\ Len(w.hold) = Len(e) + Len(Pend(w))
  /\ \A i \in 1 .. Len(e) : e[i] = KindAt(w, i)
  /\ \A i \in 1 .. Len(Pend(w)) : /\ Pend(w)[i][1] = KindAt(w, Len(e) + i)
                                  /\ Pend(w)[i][2] = StaAt(w, Len(e) + i)

\* No command for p is under way.
Idle(cs, p) == \A i \in DOMAIN cs : cs[i][2] # p

\* When its commands are carried out the firmware will have left p at x: it
\* is there if none is under way, and otherwise the last of them is c.
Settles(cs, peer, p, c, x) ==
  /\ Idle(cs, p) => peer[p] = x
  /\ \A i \in DOMAIN cs : cs[i][2] = p => \E j \in DOMAIN cs : j >= i /\ cs[j] = <<c, p>>

\* UMAC, the host's peers and the firmware about the station p: a member is
\* known to all and nothing is under way for it; one that is being added will
\* be associated, and nothing of it is held behind its ADD_STA; one that is
\* out, or on its way out, will be gone.
StaOK(w, peer, u, p) ==
  /\ u[p] = "in" => /\ p \in w.peers /\ peer[p] = "assoc" /\ Idle(w.cmds, p)
                    /\ \A i \in DOMAIN w.hold : StaAt(w, i) # p
  /\ u[p] = "adding" => /\ p \in w.peers /\ Settles(w.cmds, peer, p, "assoc", "assoc")
                        /\ \A i, j \in DOMAIN w.hold :
                             KindAt(w, i) = "assoc" /\ StaAt(w, i) = p /\ StaAt(w, j) = p => j <= i
  /\ u[p] \in {"out", "deleting"} => p \notin w.peers /\ Settles(w.cmds, peer, p, "delete", "none")

\* The second inductive invariant: the queue and the stations as long as
\* nothing failed. WmaInv alone says nothing of the order of the queue.
Calm ==
  odd = <<>> => /\ link = "up" /\ late = {}
                /\ Fifo(wma, target.evts)
                /\ \A p \in Stas : StaOK(wma, target.peer, umac, p)

\* The commands under way are commands.
LEMMA PendType == ASSUME NEW w \in Wma PROVE w.cmds \in Seq(Cmd) /\ Pend(w) \in Seq(Cmd) /\ Len(Pend(w)) \in Nat
<1>1. w.cmds \in Seq(Cmd)
  BY DEF Wma
<1>2. Pend(w) \in Seq(Cmd)
  BY <1>1, SelectSeqOf DEF Pend
<1>3. QED
  BY <1>1, <1>2

\* A command that is sent is under way behind the others.
LEMMA PendSend ==
  ASSUME NEW w \in Wma, NEW f \in Wma, NEW c \in Cmd, f.cmds = Append(w.cmds, c)
  PROVE  Pend(f) = IF c[1] # "create" THEN Append(Pend(w), c) ELSE Pend(w)
<1>1. w.cmds \in Seq(Cmd) /\ (c \in Asked <=> c[1] # "create")
  BY PendType DEF Asked
<1> HIDE DEF Asked
<1>2. Select(Append(w.cmds, c), Asked) =
        IF c \in Asked THEN Append(Select(w.cmds, Asked), c) ELSE Select(w.cmds, Asked)
  BY <1>1, SelectAppend
<1>3. QED
  BY <1>1, <1>2 DEF Pend

\* The one the firmware takes was the first of them.
LEMMA PendTail ==
  ASSUME NEW w \in Wma, NEW f \in Wma, w.cmds # <<>>, f.cmds = Tail(w.cmds)
  PROVE  Pend(w) = IF Head(w.cmds)[1] # "create" THEN <<Head(w.cmds)>> \o Pend(f) ELSE Pend(f)
<1>1. w.cmds \in Seq(Cmd)
  BY PendType
<1>2. Head(w.cmds) \in Cmd
  BY <1>1
<1>3. Head(w.cmds) \in Asked <=> Head(w.cmds)[1] # "create"
  BY <1>2 DEF Asked
<1> HIDE DEF Asked
<1>4. Select(w.cmds, Asked) = IF Head(w.cmds) \in Asked THEN <<Head(w.cmds)>> \o Select(Tail(w.cmds), Asked)
                              ELSE Select(Tail(w.cmds), Asked)
  BY <1>1, SelectTail
<1>5. QED
  BY <1>3, <1>4 DEF Pend

\* A command that has an answer is among them.
LEMMA PendHas ==
  ASSUME NEW w \in Wma
  PROVE  \A i \in DOMAIN w.cmds : w.cmds[i][1] # "create" =>
           \E k \in 1 .. Len(Pend(w)) : Pend(w)[k] = w.cmds[i]
<1>1. w.cmds \in Seq(Cmd)
  BY PendType
<1>2. \A x \in DOMAIN w.cmds : w.cmds[x] \in Asked =>
        \E k \in DOMAIN Select(w.cmds, Asked) : Select(w.cmds, Asked)[k] = w.cmds[x]
  <2> DEFINE q == w.cmds
             S == Asked
  <2>1. q \in Seq(Cmd)
    BY <1>1
  <2> HIDE DEF q, S
  <2>2. /\ \A k \in DOMAIN Select(q, S) : Select(q, S)[k] \in S /\ \E i \in DOMAIN q : q[i] = Select(q, S)[k]
        /\ \A i \in DOMAIN q : q[i] \in S => \E k \in DOMAIN Select(q, S) : Select(q, S)[k] = q[i]
    BY <2>1, SelectElements
  <2>3. QED
    BY <2>2 DEF q, S
<1>3. \A x \in DOMAIN w.cmds : w.cmds[x][1] # "create" => w.cmds[x] \in Asked
  BY <1>1 DEF Asked
<1>4. DOMAIN Pend(w) = 1 .. Len(Pend(w))
  BY PendType
<1>5. QED
  BY <1>2, <1>3, <1>4 DEF Pend

\* A request joins the end of the queue: the others keep their places.
Pushed(w, f, kind, sta) ==
  /\ Len(f.hold) = Len(w.hold) + 1
  /\ \A i \in 1 .. Len(w.hold) : KindAt(f, i) = KindAt(w, i) /\ StaAt(f, i) = StaAt(w, i)
  /\ KindAt(f, Len(w.hold) + 1) = kind /\ StaAt(f, Len(w.hold) + 1) = sta

\* So does wma_fill_hold_req.
LEMMA PushAt ==
  ASSUME NEW w \in Wma, NEW f \in Wma, NEW m \in Mem, m \notin Held(w),
         f.hold = Append(w.hold, m), NEW q \in Req, f.req = [w.req EXCEPT ![m] = q]
  PROVE  Pushed(w, f, q.kind, q.sta)
<1> DEFINE l == Len(w.hold)
<1>1. w.hold \in Seq(Mem) /\ l \in Nat
  BY DEF Wma
<1>2. /\ Len(f.hold) = l + 1 /\ f.hold[l + 1] = m /\ \A i \in 1 .. l : f.hold[i] = w.hold[i]
  BY <1>1
<1>3. f.req[m] = q /\ \A x \in Mem : x # m => f.req[x] = w.req[x]
  BY DEF Wma
<1>4. \A i \in 1 .. l : w.hold[i] \in Mem /\ w.hold[i] # m
  BY <1>1 DEF Held
<1>5. \A i \in 1 .. l : KindAt(f, i) = KindAt(w, i) /\ StaAt(f, i) = StaAt(w, i)
  BY <1>2, <1>3, <1>4 DEF KindAt, StaAt
<1>6. KindAt(f, l + 1) = q.kind /\ StaAt(f, l + 1) = q.sta
  BY <1>2, <1>3 DEF KindAt, StaAt
<1>7. QED
  BY <1>2, <1>5, <1>6 DEF Pushed

\* A request that joins together with its command keeps the two in step.
LEMMA PushFifo ==
  ASSUME NEW w \in Wma, NEW f \in Wma, NEW e \in Seq(Kinds), Fifo(w, e),
         NEW c \in Cmd, Pushed(w, f, c[1], c[2]), Pend(f) = Append(Pend(w), c)
  PROVE  Fifo(f, e)
<1> DEFINE n == Len(e)
           l == Len(w.hold)
           k == Len(Pend(w))
<1>1. w.hold \in Seq(Mem) /\ Pend(w) \in Seq(Cmd) /\ n \in Nat /\ l \in Nat /\ k \in Nat /\ l = n + k
  <2>1. w.hold \in Seq(Mem)
    BY DEF Wma
  <2>2. Pend(w) \in Seq(Cmd)
    BY PendType
  <2>3. l = n + k
    BY DEF Fifo
  <2>4. QED
    BY <2>1, <2>2, <2>3
<1>2. /\ Len(f.hold) = l + 1
      /\ \A i \in 1 .. l : KindAt(f, i) = KindAt(w, i) /\ StaAt(f, i) = StaAt(w, i)
      /\ KindAt(f, l + 1) = c[1] /\ StaAt(f, l + 1) = c[2]
  BY DEF Pushed
<1>3. Len(Pend(f)) = k + 1 /\ Pend(f)[k + 1] = c /\ \A i \in 1 .. k : Pend(f)[i] = Pend(w)[i]
  <2> DEFINE q == Pend(w)
  <2>1. q \in Seq(Cmd) /\ Pend(f) = Append(q, c) /\ k = Len(q)
    BY <1>1
  <2> HIDE DEF q
  <2>2. QED
    BY <2>1 DEF q
<1>4. /\ \A i \in 1 .. n : e[i] = KindAt(w, i)
      /\ \A i \in 1 .. k : Pend(w)[i][1] = KindAt(w, n + i) /\ Pend(w)[i][2] = StaAt(w, n + i)
  BY DEF Fifo
<1> HIDE DEF n, l, k
<1>5. n \in Nat /\ l \in Nat /\ k \in Nat /\ l = n + k
  BY <1>1
<1>6. \A i \in 1 .. n : e[i] = KindAt(f, i)
  BY <1>2, <1>4, <1>5
<1>7. ASSUME NEW i \in 1 .. k + 1 PROVE Pend(f)[i][1] = KindAt(f, n + i) /\ Pend(f)[i][2] = StaAt(f, n + i)
  <2>1. (i \in 1 .. k /\ n + i \in 1 .. l) \/ (i = k + 1 /\ n + i = l + 1)
    BY <1>5
  <2>2. CASE i \in 1 .. k /\ n + i \in 1 .. l
    BY <1>2, <1>3, <1>4, <2>2
  <2>3. CASE i = k + 1 /\ n + i = l + 1
    BY <1>2, <1>3, <2>3
  <2>4. QED
    BY <2>1, <2>2, <2>3
<1>8. l + 1 = n + (k + 1)
  BY <1>5
<1>9. QED
  BY <1>2, <1>3, <1>6, <1>7, <1>8 DEF Fifo, n, l, k

\* A command without an answer does not matter to the queue.
LEMMA FwFifoCreate ==
  ASSUME NEW w \in Wma, NEW f, NEW e \in Seq(Kinds), Fifo(w, e), f.hold = w.hold, f.req = w.req, Pend(w) = Pend(f)
  PROVE  Fifo(f, e)
<1>1. \A i : KindAt(f, i) = KindAt(w, i) /\ StaAt(f, i) = StaAt(w, i)
  BY DEF KindAt, StaAt
<1>2. QED
  BY <1>1 DEF Fifo

\* A command that was carried out is one event more and one command less.
LEMMA FwFifo ==
  ASSUME NEW w \in Wma, NEW f \in Wma, NEW e \in Seq(Kinds), Fifo(w, e), f.hold = w.hold, f.req = w.req,
         NEW c \in Cmd, Pend(w) = <<c>> \o Pend(f), NEW b \in Kinds, b = c[1]
  PROVE  Fifo(f, Append(e, b))
<1> DEFINE n == Len(e)
           k == Len(Pend(f))
           g == Append(e, b)
<1>1. Pend(w) \in Seq(Cmd) /\ Pend(f) \in Seq(Cmd) /\ n \in Nat /\ k \in Nat
  BY PendType
<1>2. \A i : KindAt(f, i) = KindAt(w, i) /\ StaAt(f, i) = StaAt(w, i)
  BY DEF KindAt, StaAt
<1>3. Len(Pend(w)) = k + 1 /\ Pend(w)[1] = c /\ \A i \in 1 .. k : Pend(w)[i + 1] = Pend(f)[i]
  BY <1>1
<1>4. Len(g) = n + 1 /\ g[n + 1] = b /\ \A i \in 1 .. n : g[i] = e[i]
  OBVIOUS
<1>5. /\ Len(w.hold) = n + (k + 1) /\ \A i \in 1 .. n : e[i] = KindAt(w, i)
      /\ \A i \in 1 .. k + 1 : Pend(w)[i][1] = KindAt(w, n + i) /\ Pend(w)[i][2] = StaAt(w, n + i)
  BY <1>3 DEF Fifo
<1> HIDE DEF n, k, g
<1>6. n \in Nat /\ k \in Nat
  BY <1>1
<1>7. 1 \in 1 .. k + 1 /\ n + (k + 1) = (n + 1) + k
  BY <1>6
<1>8. b = KindAt(w, n + 1)
  BY <1>3, <1>5, <1>7
<1>9. ASSUME NEW i \in 1 .. n + 1 PROVE g[i] = KindAt(f, i)
  <2>1. i \in 1 .. n \/ i = n + 1
    BY <1>6
  <2>2. QED
    BY <1>2, <1>4, <1>5, <1>8, <2>1
<1>10. ASSUME NEW i \in 1 .. k PROVE Pend(f)[i][1] = KindAt(f, (n + 1) + i) /\ Pend(f)[i][2] = StaAt(f, (n + 1) + i)
  <2>1. i + 1 \in 1 .. k + 1 /\ n + (i + 1) = (n + 1) + i
    BY <1>6
  <2> DEFINE j == i + 1
  <2> HIDE DEF j
  <2>2. Pend(w)[j][1] = KindAt(w, n + j) /\ Pend(w)[j][2] = StaAt(w, n + j) /\ Pend(w)[j] = Pend(f)[i]
    BY <1>3, <1>5, <2>1 DEF j
  <2>3. n + j = (n + 1) + i
    BY <2>1 DEF j
  <2>4. QED
    BY <1>2, <2>2, <2>3
<1>11. QED
  BY <1>4, <1>5, <1>7, <1>9, <1>10 DEF Fifo, k, g

\* When the first request is gone the others move up.
LEMMA ShiftAt ==
  ASSUME NEW w \in Wma, NEW f \in Wma, QueueOK(w), w.hold # <<>>,
         f.hold = Tail(w.hold), f.req = [w.req EXCEPT ![w.hold[1]] = Freed]
  PROVE  /\ Len(f.hold) \in Nat /\ Len(w.hold) = Len(f.hold) + 1 /\ DOMAIN f.hold = 1 .. Len(f.hold)
         /\ DOMAIN w.hold = 1 .. Len(w.hold)
         /\ \A i \in 1 .. Len(f.hold) : KindAt(f, i) = KindAt(w, i + 1) /\ StaAt(f, i) = StaAt(w, i + 1)
<1> DEFINE k == Len(f.hold)
<1>1. w.hold \in Seq(Mem) /\ w.hold # <<>> /\ f.hold = Tail(w.hold)
  BY DEF Wma
<1>2. /\ k \in Nat /\ Len(w.hold) = k + 1 /\ DOMAIN f.hold = 1 .. k /\ DOMAIN w.hold = 1 .. Len(w.hold)
      /\ \A i \in 1 .. k : f.hold[i] = w.hold[i + 1]
      /\ \A i \in 1 .. Len(w.hold) : w.hold[i] \in Mem
  BY <1>1
<1>3. \A x \in Mem : x # w.hold[1] => f.req[x] = w.req[x]
  BY DEF Wma
<1>4. \A i, j \in 1 .. Len(w.hold) : w.hold[i] = w.hold[j] => i = j
  BY <1>2 DEF QueueOK
<1> HIDE DEF k
<1>5. ASSUME NEW i \in 1 .. k PROVE f.req[f.hold[i]] = w.req[w.hold[i + 1]]
  <2>1. i + 1 \in 1 .. Len(w.hold) /\ 1 \in 1 .. Len(w.hold) /\ i + 1 # 1
    BY <1>2
  <2>2. w.hold[i + 1] # w.hold[1] /\ w.hold[i + 1] \in Mem /\ f.hold[i] = w.hold[i + 1]
    BY <1>2, <1>4, <2>1
  <2>3. QED
    BY <1>3, <2>2
<1>6. \A i \in 1 .. k : KindAt(f, i) = KindAt(w, i + 1) /\ StaAt(f, i) = StaAt(w, i + 1)
  BY <1>5 DEF KindAt, StaAt
<1>7. QED
  BY <1>2, <1>6 DEF k

\* The first request and the first event go together.
LEMMA PopFifo ==
  ASSUME NEW w \in Wma, NEW f \in Wma, QueueOK(w), w.hold # <<>>,
         f.hold = Tail(w.hold), f.req = [w.req EXCEPT ![w.hold[1]] = Freed],
         NEW e \in Seq(Kinds), e # <<>>, Fifo(w, e), Pend(f) = Pend(w)
  PROVE  Fifo(f, Tail(e))
<1> DEFINE n == Len(Tail(e))
           k == Len(Pend(f))
           l == Len(f.hold)
           g == Tail(e)
<1>1. n \in Nat /\ Len(e) = n + 1 /\ \A i \in 1 .. n : g[i] = e[i + 1]
  OBVIOUS
<1>2. k \in Nat
  BY PendType
<1>3. /\ l \in Nat /\ Len(w.hold) = l + 1
      /\ \A i \in 1 .. l : KindAt(f, i) = KindAt(w, i + 1) /\ StaAt(f, i) = StaAt(w, i + 1)
  BY ShiftAt
<1>4. /\ l + 1 = (n + 1) + k /\ \A i \in 1 .. n + 1 : e[i] = KindAt(w, i)
      /\ \A i \in 1 .. k : Pend(f)[i][1] = KindAt(w, (n + 1) + i) /\ Pend(f)[i][2] = StaAt(w, (n + 1) + i)
  BY <1>1, <1>3 DEF Fifo
<1> HIDE DEF n, k, l, g
<1>5. l = n + k /\ n \in Nat /\ k \in Nat /\ l \in Nat
  BY <1>1, <1>2, <1>3, <1>4
<1>6. ASSUME NEW i \in 1 .. n PROVE g[i] = KindAt(f, i)
  <2>1. i \in 1 .. l /\ i + 1 \in 1 .. n + 1
    BY <1>5
  <2>2. QED
    BY <1>1, <1>3, <1>4, <2>1
<1>7. ASSUME NEW i \in 1 .. k PROVE Pend(f)[i][1] = KindAt(f, n + i) /\ Pend(f)[i][2] = StaAt(f, n + i)
  <2>1. n + i \in 1 .. l /\ (n + 1) + i = (n + i) + 1
    BY <1>5
  <2> DEFINE j == n + i
  <2> HIDE DEF j
  <2>2. KindAt(f, j) = KindAt(w, j + 1) /\ StaAt(f, j) = StaAt(w, j + 1)
    BY <1>3, <2>1 DEF j
  <2>3. (n + 1) + i = j + 1
    BY <2>1 DEF j
  <2>4. Pend(f)[i][1] = KindAt(w, j + 1) /\ Pend(f)[i][2] = StaAt(w, j + 1)
    BY <1>4, <2>3
  <2>5. QED
    BY <2>2, <2>4 DEF j
<1>8. QED
  BY <1>5, <1>6, <1>7 DEF Fifo, n, k, l, g

\* The first request goes when the first event comes.
LEMMA ReleaseFirst ==
  ASSUME NEW w \in Wma, QueueOK(w), w.hold # <<>>, NEW k \in Kinds, KindAt(w, 1) = k
  PROVE  /\ FindReq(w, k) = w.hold[1] /\ w.hold[1] \in Held(w)
         /\ Release(w, w.hold[1]).hold = Tail(w.hold)
<1> DEFINE m == w.hold[1]
           S == {x \in Mem : w.req[x].kind = k}
           R == Mem \ {m}
           q == w.hold
<1>1. q \in Seq(Mem) /\ q # <<>>
  BY DEF Wma
<1>2. m = Head(q) /\ m \in Mem /\ m \in Held(w) /\ Tail(q) \in Seq(Mem)
  BY <1>1 DEF Held
<1>3. m \in S
  BY <1>2 DEF KindAt
<1>4. FindReq(w, k) = IF Select(q, S) = <<>> THEN NoReq ELSE Head(Select(q, S))
  BY DEF FindReq
<1>5. \A i \in DOMAIN Tail(q) : Tail(q)[i] \in R
  <2>1. Len(q) \in Nat /\ Len(q) >= 1 /\ DOMAIN q = 1 .. Len(q) /\ DOMAIN Tail(q) = 1 .. Len(q) - 1
        /\ \A i \in 1 .. Len(q) - 1 : Tail(q)[i] = q[i + 1] /\ q[i + 1] \in Mem
    BY <1>1
  <2>2. \A i, j \in DOMAIN q : q[i] = q[j] => i = j
    BY DEF QueueOK
  <2> SUFFICES ASSUME NEW i \in 1 .. Len(q) - 1 PROVE q[i + 1] \in Mem /\ q[i + 1] # q[1]
    BY <2>1
  <2>3. i + 1 \in DOMAIN q /\ 1 \in DOMAIN q /\ i + 1 # 1
    BY <2>1
  <2>4. QED
    BY <2>1, <2>2, <2>3
<1>6. m \notin R
  OBVIOUS
<1>7. Release(w, m).hold = Select(q, R)
  BY <1>2, ReleaseFields
<1> HIDE DEF S, R, q
<1>8. Select(q, S) = <<Head(q)>> \o Select(Tail(q), S)
  BY <1>1, <1>2, <1>3, SelectTail
<1>9. Select(Tail(q), S) \in Seq(Mem)
  BY <1>2, SelectSeqOf
<1>10. Select(q, S) # <<>> /\ Head(Select(q, S)) = Head(q)
  BY <1>2, <1>8, <1>9
<1>11. Select(q, R) = Select(Tail(q), R)
  BY <1>1, <1>2, <1>6, SelectTail
<1>12. Select(Tail(q), R) = Tail(q)
  BY <1>2, <1>5, SelectAll
<1>13. QED
  BY <1>2, <1>4, <1>7, <1>10, <1>11, <1>12 DEF q

\* What a command does to its station...
LEMMA SendSettles ==
  ASSUME NEW cs \in Seq(Cmd), NEW c \in Commands, NEW p \in Stas, NEW peer, NEW x
  PROVE  Settles(Append(cs, <<c, p>>), peer, p, c, x)
<1> DEFINE d == <<c, p>>
           g == Append(cs, d)
           n == Len(cs) + 1
<1>1. d \in Cmd /\ d[2] = p
  BY DEF Cmd
<1> HIDE DEF d
<1>2. n \in Nat /\ DOMAIN g = 1 .. n /\ g[n] = d /\ n \in DOMAIN g
  BY <1>1
<1> HIDE DEF g, n
<1>3. ~ Idle(g, p)
  BY <1>1, <1>2 DEF Idle
<1>4. \A i \in DOMAIN g : n >= i /\ n \in DOMAIN g /\ g[n] = d
  BY <1>2
<1>5. QED
  BY <1>3, <1>4 DEF Settles, g, d

\* ...and to the others.
LEMMA SendOther ==
  ASSUME NEW cs \in Seq(Cmd), NEW c \in Commands, NEW p \in Stas, NEW s \in Stas, s # p
  PROVE  /\ Idle(Append(cs, <<c, p>>), s) <=> Idle(cs, s)
         /\ \A peer, b, x : Settles(cs, peer, s, b, x) => Settles(Append(cs, <<c, p>>), peer, s, b, x)
<1> DEFINE d == <<c, p>>
           g == Append(cs, d)
           n == Len(cs)
<1>1. d \in Cmd /\ d[2] = p
  BY DEF Cmd
<1> HIDE DEF d
<1>2. /\ n \in Nat /\ DOMAIN g = 1 .. n + 1 /\ DOMAIN cs = 1 .. n /\ g[n + 1] = d
      /\ \A i \in 1 .. n : g[i] = cs[i]
  BY <1>1
<1> HIDE DEF g, n
<1>3. \A i \in DOMAIN g : (i \in DOMAIN cs /\ g[i] = cs[i]) \/ g[i][2] # s
  BY <1>1, <1>2
<1>4. \A i \in DOMAIN cs : i \in DOMAIN g /\ g[i] = cs[i]
  BY <1>2
<1>5. Idle(g, s) <=> Idle(cs, s)
  BY <1>3, <1>4 DEF Idle
<1>6. ASSUME NEW peer, NEW b, NEW x, Settles(cs, peer, s, b, x) PROVE Settles(g, peer, s, b, x)
  BY <1>3, <1>4, <1>5, <1>6 DEF Settles
<1>7. QED
  BY <1>5, <1>6 DEF g, d

\* The firmware's next step brings its station nearer to what it settles at.
LEMMA FwSettles ==
  ASSUME NEW cs \in Seq(Cmd), cs # <<>>, NEW h, h = Head(cs), NEW peer \in [Stas -> {"none", "created", "assoc"}],
         NEW y, NEW s \in Stas
  PROVE  /\ Idle(cs, s) => Idle(Tail(cs), s) /\ h[2] # s
         /\ \A b, x : Settles(cs, peer, s, b, x) /\ (h = <<b, s>> => y = x) =>
                      Settles(Tail(cs), [peer EXCEPT ![h[2]] = y], s, b, x)
<1> DEFINE g == Tail(cs)
           n == Len(Tail(cs))
           new == [peer EXCEPT ![h[2]] = y]
<1>1. /\ n \in Nat /\ DOMAIN g = 1 .. n /\ DOMAIN cs = 1 .. n + 1 /\ cs[1] = h /\ 1 \in 1 .. n + 1
      /\ \A i \in 1 .. n : g[i] = cs[i + 1]
  OBVIOUS
<1>2. h \in Cmd
  OBVIOUS
<1>3. h[2] \in Stas
  BY <1>2 DEF Cmd
<1>4. new[s] = IF h[2] = s THEN y ELSE peer[s]
  BY <1>3
<1> HIDE DEF g, n, new
<1>5. \A i \in DOMAIN g : i + 1 \in DOMAIN cs /\ g[i] = cs[i + 1]
  BY <1>1
<1>6. \A j \in DOMAIN cs : j = 1 \/ (j - 1 \in DOMAIN g /\ g[j - 1] = cs[j])
  <2> TAKE j \in DOMAIN cs
  <2>1. j = 1 \/ (j - 1 \in 1 .. n /\ (j - 1) + 1 = j)
    BY <1>1
  <2>2. QED
    BY <1>1, <2>1
<1>7. Idle(cs, s) <=> Idle(g, s) /\ h[2] # s
  <2>1. ASSUME Idle(cs, s) PROVE Idle(g, s) /\ h[2] # s
    BY <1>1, <1>5, <2>1 DEF Idle
  <2>2. ASSUME Idle(g, s), h[2] # s PROVE Idle(cs, s)
    BY <1>1, <1>6, <2>2 DEF Idle
  <2>3. QED
    BY <2>1, <2>2
<1>8. ASSUME NEW b, NEW x, Settles(cs, peer, s, b, x), h = <<b, s>> => y = x
      PROVE  Settles(g, new, s, b, x)
  <2>1. ASSUME NEW i \in DOMAIN g, g[i][2] = s PROVE \E j \in DOMAIN g : j >= i /\ g[j] = <<b, s>>
    <3>1. i + 1 \in DOMAIN cs /\ cs[i + 1][2] = s /\ i \in Nat /\ i >= 1
      BY <1>1, <1>5, <2>1
    <3>2. PICK j \in DOMAIN cs : j >= i + 1 /\ cs[j] = <<b, s>>
      BY <1>8, <3>1 DEF Settles
    <3>3. j \in Nat /\ j # 1 /\ j - 1 >= i
      BY <1>1, <3>1, <3>2
    <3>4. j - 1 \in DOMAIN g /\ g[j - 1] = cs[j]
      BY <1>6, <3>3
    <3>5. QED
      BY <3>2, <3>3, <3>4
  <2>2. ASSUME Idle(g, s) PROVE new[s] = x
    <3>1. CASE h[2] # s
      BY <1>4, <1>7, <1>8, <2>2, <3>1 DEF Settles
    <3>2. CASE h[2] = s
      <4>1. 1 \in DOMAIN cs /\ cs[1][2] = s
        BY <1>1, <3>2
      <4>2. PICK j \in DOMAIN cs : cs[j] = <<b, s>>
        BY <1>8, <4>1 DEF Settles
      <4>3. j = 1
        <5>1. cs[j][2] = s
          BY <4>2
        <5>2. j - 1 \in DOMAIN g => g[j - 1][2] # s
          BY <2>2 DEF Idle
        <5>3. QED
          BY <1>6, <5>1, <5>2
      <4>4. h = <<b, s>>
        BY <1>1, <4>2, <4>3
      <4>5. QED
        BY <1>4, <1>8, <3>2, <4>4
    <3>3. QED
      BY <3>1, <3>2
  <2>3. QED
    BY <2>1, <2>2 DEF Settles
<1>9. QED
  BY <1>7, <1>8 DEF g, new

\* When its request is first and the firmware has answered, all of a
\* station's commands have been carried out.
LEMMA AnsweredIsIdle ==
  ASSUME NEW w \in Wma, QueueOK(w), NEW u, Awaited(Held(w), w.req, u), w.hold # <<>>,
         NEW e \in Seq(Kinds), e # <<>>, Fifo(w, e), KindAt(w, 1) = "assoc", NEW p \in Stas, p = StaAt(w, 1),
         NEW peer, Settles(w.cmds, peer, p, "assoc", "assoc")
  PROVE  Idle(w.cmds, p)
<1> SUFFICES ASSUME NEW i \in DOMAIN w.cmds, w.cmds[i][2] = p PROVE FALSE
  BY DEF Idle
<1>1. PICK j \in DOMAIN w.cmds : w.cmds[j] = <<"assoc", p>>
  BY DEF Settles
<1>2. w.cmds[j][1] # "create"
  BY <1>1
<1>3. PICK k \in 1 .. Len(Pend(w)) : Pend(w)[k] = w.cmds[j]
  BY <1>2, PendHas
<1> DEFINE n == Len(e)
           l == n + k
<1>4. n \in Nat /\ n >= 1 /\ k \in Nat /\ k >= 1 /\ Len(Pend(w)) \in Nat
  BY PendType
<1>5. Len(w.hold) = n + Len(Pend(w)) /\ KindAt(w, l) = "assoc" /\ StaAt(w, l) = p
  <2>1. Pend(w)[k][1] = "assoc" /\ Pend(w)[k][2] = p
    BY <1>1, <1>3
  <2>2. QED
    BY <2>1 DEF Fifo
<1> HIDE DEF n
<1>6. l \in 1 .. Len(w.hold) /\ 1 \in 1 .. Len(w.hold) /\ l # 1
  BY <1>4, <1>5
<1> HIDE DEF l
<1>7. w.hold[l] \in Held(w) /\ w.hold[1] \in Held(w) /\ (w.hold[l] = w.hold[1] => l = 1)
  <2>1. DOMAIN w.hold = 1 .. Len(w.hold)
    BY DEF Wma
  <2>2. QED
    BY <1>6, <2>1 DEF Held, QueueOK
<1>8. w.hold[l] = w.hold[1]
  BY <1>5, <1>7 DEF Awaited, KindAt, StaAt
<1>9. QED
  BY <1>6, <1>7, <1>8

\* A station that is not the one of the request or the command.
LEMMA PushOther ==
  ASSUME NEW w \in Wma, NEW f \in Wma, NEW s \in Stas, NEW kind, NEW p, Pushed(w, f, kind, p), p # s,
         NEW u, NEW v, v[s] = u[s], NEW peer, s \in f.peers <=> s \in w.peers,
         Idle(f.cmds, s) <=> Idle(w.cmds, s),
         \A b, x : Settles(w.cmds, peer, s, b, x) => Settles(f.cmds, peer, s, b, x),
         StaOK(w, peer, u, s)
  PROVE  StaOK(f, peer, v, s)
<1> DEFINE l == Len(w.hold)
<1>1. l \in Nat /\ DOMAIN w.hold = 1 .. l /\ DOMAIN f.hold = 1 .. Len(f.hold)
  BY DEF Wma
<1>2. Len(f.hold) = l + 1 /\ StaAt(f, l + 1) # s
      /\ \A i \in 1 .. l : KindAt(f, i) = KindAt(w, i) /\ StaAt(f, i) = StaAt(w, i)
  BY DEF Pushed
<1> HIDE DEF l
<1>3. \A i \in DOMAIN f.hold : StaAt(f, i) # s \/
        (i \in DOMAIN w.hold /\ KindAt(f, i) = KindAt(w, i) /\ StaAt(f, i) = StaAt(w, i))
  BY <1>1, <1>2
<1>4. QED
  BY <1>3 DEF StaOK

\* A request leaves the front of the queue.
LEMMA PopOther ==
  ASSUME NEW w \in Wma, NEW f \in Wma, QueueOK(w), w.hold # <<>>,
         f.hold = Tail(w.hold), f.req = [w.req EXCEPT ![w.hold[1]] = Freed],
         f.cmds = w.cmds, f.peers = w.peers, NEW s \in Stas, NEW u, NEW v, NEW peer,
         v[s] = u[s] \/ (u[s] = "deleting" /\ v[s] = "out"), StaOK(w, peer, u, s)
  PROVE  StaOK(f, peer, v, s)
<1> DEFINE l == Len(f.hold)
<1>1. /\ l \in Nat /\ DOMAIN w.hold = 1 .. l + 1 /\ DOMAIN f.hold = 1 .. l
      /\ \A i \in 1 .. l : KindAt(f, i) = KindAt(w, i + 1) /\ StaAt(f, i) = StaAt(w, i + 1)
  BY ShiftAt
<1> HIDE DEF l
<1>2. \A i \in DOMAIN f.hold : /\ i + 1 \in DOMAIN w.hold /\ i \in Nat
                               /\ KindAt(f, i) = KindAt(w, i + 1) /\ StaAt(f, i) = StaAt(w, i + 1)
  BY <1>1
<1>3. v[s] = "in" => /\ s \in f.peers /\ peer[s] = "assoc" /\ Idle(f.cmds, s)
                     /\ \A i \in DOMAIN f.hold : StaAt(f, i) # s
  BY <1>2 DEF StaOK
<1>4. v[s] = "adding" => s \in f.peers /\ Settles(f.cmds, peer, s, "assoc", "assoc")
  BY DEF StaOK
<1>5. ASSUME v[s] = "adding", NEW i \in DOMAIN f.hold, NEW j \in DOMAIN f.hold,
             KindAt(f, i) = "assoc", StaAt(f, i) = s, StaAt(f, j) = s
      PROVE  j <= i
  <2>1. j + 1 <= i + 1
    BY <1>2, <1>5 DEF StaOK
  <2>2. QED
    BY <1>2, <2>1
<1>6. v[s] \in {"out", "deleting"} => s \notin f.peers /\ Settles(f.cmds, peer, s, "delete", "none")
  BY DEF StaOK
<1>7. QED
  BY <1>3, <1>4, <1>5, <1>6 DEF StaOK

\* Its answer makes the station a member.
LEMMA PopAdded ==
  ASSUME NEW w \in Wma, NEW f \in Wma, QueueOK(w), w.hold # <<>>,
         f.hold = Tail(w.hold), f.req = [w.req EXCEPT ![w.hold[1]] = Freed],
         f.cmds = w.cmds, f.peers = w.peers, NEW u, Awaited(Held(w), w.req, u),
         NEW e \in Seq(Kinds), e # <<>>, Fifo(w, e), KindAt(w, 1) = "assoc", NEW p \in Stas, p = StaAt(w, 1),
         NEW peer, StaOK(w, peer, u, p), u[p] = "adding", NEW v, v[p] = "in"
  PROVE  StaOK(f, peer, v, p)
<1> DEFINE l == Len(f.hold)
<1>1. /\ l \in Nat /\ DOMAIN w.hold = 1 .. l + 1 /\ DOMAIN f.hold = 1 .. l
      /\ \A i \in 1 .. l : StaAt(f, i) = StaAt(w, i + 1)
  BY ShiftAt
<1> HIDE DEF l
<1>2. Settles(w.cmds, peer, p, "assoc", "assoc") /\ p \in w.peers
  BY DEF StaOK
<1>3. Idle(w.cmds, p)
  BY <1>2, AnsweredIsIdle
<1>4. peer[p] = "assoc"
  BY <1>2, <1>3 DEF Settles
<1>5. ASSUME NEW i \in DOMAIN f.hold, StaAt(f, i) = p PROVE FALSE
  <2>1. i + 1 \in DOMAIN w.hold /\ 1 \in DOMAIN w.hold /\ StaAt(w, i + 1) = p /\ ~ (i + 1 <= 1)
    BY <1>1, <1>5
  <2>2. QED
    BY <2>1 DEF StaOK
<1>6. QED
  BY <1>2, <1>3, <1>4, <1>5 DEF StaOK

-----------------------------------------------------------------------------

\* At first nothing is held or under way.
LEMMA CalmInit == ASSUME WmaInit PROVE Calm
<1>1. /\ wma.hold = <<>> /\ wma.cmds = <<>> /\ wma.peers = {} /\ target.evts = <<>> /\ wma \in Wma
      /\ link = "up" /\ late = {}
  BY FreedFields DEF WmaInit, Wma
<1>2. \A p \in Stas : umac[p] = "out" /\ target.peer[p] = "none"
  BY DEF WmaInit
<1>3. Pend(wma) \in Seq(Cmd) /\ Len(Pend(wma)) = 0
  <2>1. Pend(wma) \in Seq(Cmd) /\ Len(Pend(wma)) \in Nat
    BY <1>1, PendType
  <2>2. Len(Pend(wma)) <= Len(wma.cmds)
    BY <1>1, PendType, SelectSeqOf DEF Pend
  <2>3. Len(wma.cmds) = 0
    BY <1>1
  <2>4. QED
    BY <2>1, <2>2, <2>3
<1>4. Fifo(wma, target.evts)
  BY <1>1, <1>3 DEF Fifo
<1>5. ASSUME NEW p \in Stas PROVE StaOK(wma, target.peer, umac, p)
  <2>1. Settles(wma.cmds, target.peer, p, "delete", "none")
    BY <1>1, <1>2 DEF Settles
  <2>2. QED
    BY <1>1, <1>2, <2>1 DEF StaOK
<1>6. QED
  BY <1>1, <1>4, <1>5 DEF Calm

\* wma_add_sta_req_ap_mode: without a failure the peer is new, and both
\* commands go.
LEMMA CalmAddSta == ASSUME WmaInv, Calm, NEW p \in Stas, AddSta(p) PROVE Calm'
<1> SUFFICES ASSUME odd' = <<>>
             PROVE  /\ link' = "up" /\ late' = {} /\ Fifo(wma', target'.evts)
                    /\ \A s \in Stas : StaOK(wma', target'.peer, umac', s)
  BY DEF Calm
<1>1. wma \in Wma /\ umac \in Waits /\ umac[p] = "out" /\ target.evts \in Seq(Kinds)
  BY DEF WmaInv, WmaTypeOK, AddSta
<1>2. PICK res \in AddResults, m \in Mem \ Held(wma) :
        AddStaReqApMode(p, m, res) /\ Counted(IF link = "up" THEN res ELSE "ok")
  BY DEF AddSta
<1> DEFINE what == IF link = "up" THEN res ELSE "ok"
<1>3. odd = <<>> /\ (what = "ok" \/ ~ Len(odd) < MaxOdd)
  <2>1. what \in Oddities \cup {"ok"} /\ odd \in Seq(Oddities) /\ Counted(what)
    BY <1>2, WmaAssumption DEF WmaInv, WmaTypeOK, Oddities, AddResults, Faulty
  <2> HIDE DEF what
  <2>2. QED
    BY <2>1, CountedKeeps
<1>4. link = "up" /\ late = {} /\ Fifo(wma, target.evts) /\ \A s \in Stas : StaOK(wma, target.peer, umac, s)
  BY <1>3 DEF Calm
<1>5. res = "ok"
  BY <1>3, <1>4 DEF AddResults, Faulty
<1>6. late' = late /\ target' = target /\ link' = link
  BY DEF AddSta
<1>7. p \notin wma.peers
  BY <1>1, <1>4 DEF StaOK
<1> DEFINE yes == TRUE
           w1 == CreatePeer(wma, p)
           w2 == FillHoldReq(w1, m, "assoc", p, yes)
           q == NewReq("assoc", p, yes)
           c1 == <<"create", p>>
           c2 == <<"assoc", p>>
<1>8. RemovePeer(wma, p) = wma
  BY <1>7 DEF RemovePeer
<1>9. wma' = Send(w2, "assoc", p) /\ umac' = [umac EXCEPT ![p] = "adding"]
  BY <1>2, <1>5, <1>8 DEF AddStaReqApMode
<1>10. w1 \in Wma /\ w1.hold = wma.hold /\ w1.req = wma.req /\ w1.peers = wma.peers \cup {p}
       /\ w1.cmds = Append(wma.cmds, c1)
  <2>1. Send(wma, "create", p).cmds = Append(wma.cmds, c1)
    BY <1>1, <1>4, SendFields DEF Commands
  <2>2. QED
    BY <1>1, <2>1, CreatePeerFields
<1> HIDE DEF w1
<1>11. /\ w2 \in Wma /\ w2.hold = Append(wma.hold, m) /\ w2.req = [wma.req EXCEPT ![m] = q]
       /\ w2.peers = w1.peers /\ w2.cmds = w1.cmds
  <2>1. m \in Mem /\ "assoc" \in Kinds /\ yes \in BOOLEAN
    BY DEF Kinds
  <2> HIDE DEF q, yes
  <2>2. /\ w2 \in Wma /\ w2.hold = Append(w1.hold, m) /\ w2.req = [w1.req EXCEPT ![m] = NewReq("assoc", p, yes)]
        /\ w2.peers = w1.peers /\ w2.cmds = w1.cmds
    BY <1>10, <2>1, FillFields
  <2>3. QED
    BY <1>10, <2>2 DEF q
<1> HIDE DEF w2
<1>12. /\ wma' \in Wma /\ wma'.hold = Append(wma.hold, m) /\ wma'.req = [wma.req EXCEPT ![m] = q]
       /\ wma'.peers = wma.peers \cup {p} /\ wma'.cmds = Append(w1.cmds, c2)
  <2> HIDE DEF q
  <2>1. w2 \in Wma /\ "assoc" \in Commands
    BY <1>11 DEF Commands
  <2>2. /\ wma' \in Wma /\ wma'.hold = w2.hold /\ wma'.req = w2.req /\ wma'.peers = w2.peers
        /\ wma'.cmds = Append(w2.cmds, c2)
    BY <1>4, <1>9, <2>1, SendFields
  <2>3. QED
    BY <1>10, <1>11, <2>2
<1>13. c1 \in Cmd /\ c2 \in Cmd /\ c1[1] = "create" /\ c2[1] = "assoc" /\ c2[2] = p
  BY DEF Cmd, Commands
<1>14. q \in Req /\ q.kind = "assoc" /\ q.sta = p
  BY ReqFields DEF Kinds
<1> HIDE DEF q, c1, c2
<1>15. Pend(wma') = Append(Pend(wma), c2)
  <2>1. Pend(w1) = Pend(wma)
    BY <1>1, <1>10, <1>13, PendSend
  <2>2. Pend(wma') = Append(Pend(w1), c2)
    BY <1>10, <1>12, <1>13, PendSend
  <2>3. QED
    BY <2>1, <2>2
<1>16. Pushed(wma, wma', "assoc", p)
  <2>1. Pushed(wma, wma', q.kind, q.sta)
    BY <1>1, <1>2, <1>12, <1>14, PushAt
  <2>2. QED
    BY <1>14, <2>1
<1>17. Fifo(wma', target.evts)
  <2> DEFINE e == target.evts
             f == wma'
  <2>1. e \in Seq(Kinds) /\ Fifo(wma, e) /\ wma \in Wma
    BY <1>1, <1>4
  <2>2. f \in Wma /\ c2 \in Cmd /\ Pushed(wma, f, c2[1], c2[2]) /\ Pend(f) = Append(Pend(wma), c2)
    BY <1>12, <1>13, <1>15, <1>16
  <2> HIDE DEF e, f
  <2>3. Fifo(f, e)
    BY <2>1, <2>2, PushFifo
  <2>4. QED
    BY <2>3 DEF e, f
<1>18. umac'[p] = "adding" /\ \A s \in Stas : s # p => umac'[s] = umac[s]
  BY <1>1, <1>9 DEF Waits
<1>19. StaOK(wma', target.peer, umac', p)
  <2>1. Settles(wma'.cmds, target.peer, p, "assoc", "assoc")
    <3> DEFINE cs == w1.cmds
    <3>1. cs \in Seq(Cmd) /\ "assoc" \in Commands /\ wma'.cmds = Append(cs, <<"assoc", p>>)
      BY <1>10, <1>12, PendType DEF Commands, c2
    <3> HIDE DEF cs
    <3>2. Settles(Append(cs, <<"assoc", p>>), target.peer, p, "assoc", "assoc")
      BY <3>1, SendSettles
    <3>3. QED
      BY <3>1, <3>2
  <2>2. ASSUME NEW i \in DOMAIN wma'.hold, NEW j \in DOMAIN wma'.hold, KindAt(wma', i) = "assoc", StaAt(wma', i) = p
        PROVE  j <= i
    <3> DEFINE l == Len(wma.hold)
    <3>1. /\ wma.hold \in Seq(Mem) /\ l \in Nat /\ DOMAIN wma'.hold = 1 .. l + 1
          /\ \A k \in 1 .. l : wma'.hold[k] = wma.hold[k] /\ wma.hold[k] \in Held(wma) /\ wma.hold[k] \in Mem
      BY <1>1, <1>12 DEF Wma, Held
    <3>2. \A x \in Mem : x # m => wma'.req[x] = wma.req[x]
      BY <1>1, <1>12 DEF Wma
    <3> HIDE DEF l
    <3>3. i \notin 1 .. l
      <4> SUFFICES ASSUME i \in 1 .. l PROVE FALSE
        OBVIOUS
      <4>1. wma.hold[i] \in Held(wma) /\ wma.req[wma.hold[i]].kind = "assoc" /\ wma.req[wma.hold[i]].sta = p
        BY <1>2, <2>2, <3>1, <3>2 DEF KindAt, StaAt
      <4>2. QED
        BY <1>1, <4>1 DEF WmaInv, Awaited
    <3>4. QED
      BY <3>1, <3>3
  <2>3. QED
    BY <1>12, <1>18, <2>1, <2>2 DEF StaOK
<1>20. ASSUME NEW s \in Stas, s # p PROVE StaOK(wma', target.peer, umac', s)
  <2>1. /\ Idle(w1.cmds, s) <=> Idle(wma.cmds, s)
        /\ \A peer, b, x : Settles(wma.cmds, peer, s, b, x) => Settles(w1.cmds, peer, s, b, x)
    <3> DEFINE cs == wma.cmds
    <3>1. cs \in Seq(Cmd) /\ "create" \in Commands /\ w1.cmds = Append(cs, <<"create", p>>) /\ s # p
      BY <1>1, <1>10, <1>20, PendType DEF Commands, c1
    <3> HIDE DEF cs
    <3>2. /\ Idle(Append(cs, <<"create", p>>), s) <=> Idle(cs, s)
          /\ \A peer, b, x : Settles(cs, peer, s, b, x) => Settles(Append(cs, <<"create", p>>), peer, s, b, x)
      BY <3>1, SendOther
    <3>3. QED
      BY <3>1, <3>2 DEF cs
  <2>2. /\ Idle(wma'.cmds, s) <=> Idle(w1.cmds, s)
        /\ \A peer, b, x : Settles(w1.cmds, peer, s, b, x) => Settles(wma'.cmds, peer, s, b, x)
    <3> DEFINE cs == w1.cmds
    <3>1. cs \in Seq(Cmd) /\ "assoc" \in Commands /\ wma'.cmds = Append(cs, <<"assoc", p>>) /\ s # p
      BY <1>10, <1>12, <1>20, PendType DEF Commands, c2
    <3> HIDE DEF cs
    <3>2. /\ Idle(Append(cs, <<"assoc", p>>), s) <=> Idle(cs, s)
          /\ \A peer, b, x : Settles(cs, peer, s, b, x) => Settles(Append(cs, <<"assoc", p>>), peer, s, b, x)
      BY <3>1, SendOther
    <3>3. QED
      BY <3>1, <3>2 DEF cs
  <2>3. /\ Idle(wma'.cmds, s) <=> Idle(wma.cmds, s)
        /\ \A b, x : Settles(wma.cmds, target.peer, s, b, x) => Settles(wma'.cmds, target.peer, s, b, x)
    BY <2>1, <2>2
  <2>4. umac'[s] = umac[s] /\ (s \in wma'.peers <=> s \in wma.peers) /\ p # s
    BY <1>12, <1>18, <1>20
  <2>5. StaOK(wma, target.peer, umac, s) /\ wma \in Wma /\ wma' \in Wma
    BY <1>1, <1>4, <1>12
  <2>6. QED
    BY <1>16, <2>3, <2>4, <2>5, PushOther
<1>21. QED
  BY <1>4, <1>6, <1>17, <1>19, <1>20

\* wma_delete_sta_req_ap_mode: a member's peer is there to be removed.
LEMMA CalmDeleteSta == ASSUME WmaInv, Calm, NEW p \in Stas, DeleteSta(p) PROVE Calm'
<1> SUFFICES ASSUME odd' = <<>>
             PROVE  /\ link' = "up" /\ late' = {} /\ Fifo(wma', target'.evts)
                    /\ \A s \in Stas : StaOK(wma', target'.peer, umac', s)
  BY DEF Calm
<1>1. wma \in Wma /\ umac \in Waits /\ umac[p] = "in" /\ target.evts \in Seq(Kinds)
  BY DEF WmaInv, WmaTypeOK, DeleteSta
<1>2. PICK resp \in BOOLEAN, res \in DelResults, m \in Mem \ Held(wma) :
        DeleteStaReqApMode(p, m, resp, res) /\ Counted(res)
  BY DEF DeleteSta
<1>3. odd = <<>> /\ (res = "ok" \/ ~ Len(odd) < MaxOdd)
  <2>1. res \in Oddities \cup {"ok"} /\ odd \in Seq(Oddities) /\ Counted(res)
    BY <1>2, WmaAssumption DEF WmaInv, WmaTypeOK, Oddities, DelResults, Faulty
  <2>2. QED
    BY <2>1, CountedKeeps
<1>4. link = "up" /\ late = {} /\ Fifo(wma, target.evts) /\ \A s \in Stas : StaOK(wma, target.peer, umac, s)
  BY <1>3 DEF Calm
<1>5. res = "ok"
  BY <1>3 DEF DelResults, Faulty
<1>6. late' = late /\ target' = target /\ link' = link
  BY DEF DeleteSta
<1>7. p \in wma.peers
  BY <1>1, <1>4 DEF StaOK
<1> DEFINE w1 == RemovePeer(wma, p)
           q == NewReq("delete", p, resp)
           c == <<"delete", p>>
<1>8. ~ RemovePeerFails(wma, p)
  BY <1>4, <1>7 DEF RemovePeerFails
<1>9. wma' = FillHoldReq(w1, m, "delete", p, resp) /\ umac' = [umac EXCEPT ![p] = IF resp THEN "deleting" ELSE "out"]
  BY <1>2, <1>5, <1>8 DEF DeleteStaReqApMode
<1>10. /\ w1 \in Wma /\ w1.hold = wma.hold /\ w1.req = wma.req /\ w1.peers = wma.peers \ {p}
       /\ w1.cmds = Append(wma.cmds, c)
  <2>1. Send(wma, "delete", p).cmds = Append(wma.cmds, c)
    BY <1>1, <1>4, SendFields DEF Commands
  <2>2. QED
    BY <1>1, <1>7, <2>1, RemovePeerFields
<1> HIDE DEF w1
<1>11. /\ wma' \in Wma /\ wma'.hold = Append(wma.hold, m) /\ wma'.req = [wma.req EXCEPT ![m] = q]
       /\ wma'.peers = wma.peers \ {p} /\ wma'.cmds = Append(wma.cmds, c)
  <2>1. m \in Mem /\ "delete" \in Kinds /\ w1 \in Wma
    BY <1>10 DEF Kinds
  <2>2. /\ wma' \in Wma /\ wma'.hold = Append(w1.hold, m) /\ wma'.req = [w1.req EXCEPT ![m] = q]
        /\ wma'.peers = w1.peers /\ wma'.cmds = w1.cmds
    BY <1>9, <2>1, FillFields
  <2> HIDE DEF q, c
  <2>3. QED
    BY <1>10, <2>2
<1>12. c \in Cmd /\ c[1] = "delete" /\ c[2] = p
  BY DEF Cmd, Commands
<1>13. q \in Req /\ q.kind = "delete" /\ q.sta = p
  BY ReqFields DEF Kinds
<1> HIDE DEF q, c
<1>14. Pend(wma') = Append(Pend(wma), c)
  BY <1>1, <1>11, <1>12, PendSend
<1>15. Pushed(wma, wma', "delete", p)
  <2>1. Pushed(wma, wma', q.kind, q.sta)
    BY <1>1, <1>2, <1>11, <1>13, PushAt
  <2>2. QED
    BY <1>13, <2>1
<1>16. Fifo(wma', target.evts)
  <2> DEFINE e == target.evts
             f == wma'
  <2>1. e \in Seq(Kinds) /\ Fifo(wma, e) /\ wma \in Wma
    BY <1>1, <1>4
  <2>2. f \in Wma /\ c \in Cmd /\ Pushed(wma, f, c[1], c[2]) /\ Pend(f) = Append(Pend(wma), c)
    BY <1>11, <1>12, <1>14, <1>15
  <2> HIDE DEF e, f
  <2>3. Fifo(f, e)
    BY <2>1, <2>2, PushFifo
  <2>4. QED
    BY <2>3 DEF e, f
<1>17. umac'[p] \in {"out", "deleting"} /\ \A s \in Stas : s # p => umac'[s] = umac[s]
  BY <1>1, <1>9 DEF Waits
<1> DEFINE cs == wma.cmds
<1>18. cs \in Seq(Cmd) /\ "delete" \in Commands /\ wma'.cmds = Append(cs, <<"delete", p>>)
  BY <1>1, <1>11, PendType DEF Commands, c
<1> HIDE DEF cs
<1>19. StaOK(wma', target.peer, umac', p)
  <2>1. Settles(Append(cs, <<"delete", p>>), target.peer, p, "delete", "none")
    BY <1>18, SendSettles
  <2>2. Settles(wma'.cmds, target.peer, p, "delete", "none") /\ p \notin wma'.peers
    BY <1>11, <1>18, <2>1
  <2>3. QED
    BY <1>17, <2>2 DEF StaOK
<1>20. ASSUME NEW s \in Stas, s # p PROVE StaOK(wma', target.peer, umac', s)
  <2>1. /\ Idle(Append(cs, <<"delete", p>>), s) <=> Idle(cs, s)
        /\ \A peer, b, x : Settles(cs, peer, s, b, x) => Settles(Append(cs, <<"delete", p>>), peer, s, b, x)
    BY <1>18, <1>20, SendOther
  <2>2. /\ Idle(wma'.cmds, s) <=> Idle(wma.cmds, s)
        /\ \A b, x : Settles(wma.cmds, target.peer, s, b, x) => Settles(wma'.cmds, target.peer, s, b, x)
    BY <1>18, <2>1 DEF cs
  <2>3. umac'[s] = umac[s] /\ (s \in wma'.peers <=> s \in wma.peers) /\ p # s
    BY <1>11, <1>17, <1>20
  <2>4. StaOK(wma, target.peer, umac, s) /\ wma \in Wma /\ wma' \in Wma
    BY <1>1, <1>4, <1>11
  <2>5. QED
    BY <1>15, <2>2, <2>3, <2>4, PushOther
<1>21. QED
  BY <1>4, <1>6, <1>16, <1>19, <1>20

\* The firmware carries out a command.
LEMMA CalmFwStep == ASSUME WmaInv, Calm, FwStep PROVE Calm'
<1> SUFFICES ASSUME odd' = <<>>
             PROVE  /\ link' = "up" /\ late' = {} /\ Fifo(wma', target'.evts)
                    /\ \A s \in Stas : StaOK(wma', target'.peer, umac', s)
  BY DEF Calm
<1>1. /\ wma \in Wma /\ WmaTypeOK /\ target.evts \in Seq(Kinds)
      /\ target.peer \in [Stas -> {"none", "created", "assoc"}]
  BY DEF WmaInv, WmaTypeOK
<1>2. umac' = umac /\ late' = late /\ link' = link /\ odd = <<>>
  BY DEF FwStep
<1>3. link = "up" /\ late = {} /\ Fifo(wma, target.evts) /\ \A s \in Stas : StaOK(wma, target.peer, umac, s)
  BY <1>2 DEF Calm
<1> DEFINE h == Head(wma.cmds)
           y == CASE h[1] = "create" -> "created" [] h[1] = "assoc" -> "assoc" [] h[1] = "delete" -> "none"
           cs == wma.cmds
           e == target.evts
           peer == target.peer
           new == [peer EXCEPT ![h[2]] = y]
<1>4. /\ cs # <<>> /\ wma' \in Wma /\ wma'.hold = wma.hold /\ wma'.req = wma.req
      /\ wma'.peers = wma.peers /\ wma'.cmds = Tail(cs) /\ h[1] \in Commands /\ h[2] \in Stas
      /\ target'.evts = (IF h[1] = "create" THEN e ELSE Append(e, h[1])) /\ target'.peer = new
  BY <1>1, FwStepFields
<1>5. cs \in Seq(Cmd)
  BY <1>1, PendType
<1>6. h \in Cmd /\ h = Head(cs)
  BY <1>4, <1>5
<1>7. Pend(wma) = IF h[1] # "create" THEN <<h>> \o Pend(wma') ELSE Pend(wma')
  BY <1>1, <1>4, PendTail
<1>8. \A b, s : h = <<b, s>> => h[1] = b
  OBVIOUS
<1> HIDE DEF h
<1>9. ("assoc" = h[1] => y = "assoc") /\ ("delete" = h[1] => y = "none")
  BY <1>4
<1> HIDE DEF y
<1>10. Fifo(wma', target'.evts)
  <2>1. CASE h[1] = "create"
    <3>1. Pend(wma) = Pend(wma') /\ target'.evts = target.evts
      BY <1>4, <1>7, <2>1
    <3>2. QED
      BY <1>1, <1>3, <1>4, <3>1, FwFifoCreate
  <2>2. CASE h[1] # "create"
    <3> DEFINE b == h[1]
    <3>1. Pend(wma) = <<h>> \o Pend(wma') /\ target'.evts = Append(e, b) /\ b \in Kinds
      BY <1>4, <1>7, <2>2 DEF Commands, Kinds
    <3>2. e \in Seq(Kinds) /\ Fifo(wma, e) /\ h \in Cmd /\ b = h[1]
      BY <1>1, <1>3, <1>6
    <3> HIDE DEF b, e
    <3>3. Fifo(wma', Append(e, b))
      BY <1>1, <1>4, <3>1, <3>2, FwFifo
    <3>4. QED
      BY <3>1, <3>3
  <2>3. QED
    BY <2>1, <2>2
<1>11. peer \in [Stas -> {"none", "created", "assoc"}] /\ target'.peer = new /\ wma'.cmds = Tail(cs)
  BY <1>1, <1>4
<1>12. ASSUME NEW s \in Stas PROVE StaOK(wma', target'.peer, umac', s)
  <2> HIDE DEF cs, peer
  <2>1. /\ Idle(cs, s) => Idle(Tail(cs), s) /\ h[2] # s
        /\ \A b, x : Settles(cs, peer, s, b, x) /\ (h = <<b, s>> => y = x) => Settles(Tail(cs), new, s, b, x)
    BY <1>4, <1>5, <1>6, <1>11, FwSettles
  <2>2. h = <<"assoc", s>> => y = "assoc"
    BY <1>8, <1>9
  <2>3. h = <<"delete", s>> => y = "none"
    BY <1>8, <1>9
  <2>4. Settles(cs, peer, s, "assoc", "assoc") => Settles(Tail(cs), new, s, "assoc", "assoc")
    BY <2>1, <2>2
  <2>5. Settles(cs, peer, s, "delete", "none") => Settles(Tail(cs), new, s, "delete", "none")
    BY <2>1, <2>3
  <2>6. h[2] # s => new[s] = peer[s]
    BY <1>4, <1>11
  <2> HIDE DEF new
  <2>7. \A i : KindAt(wma', i) = KindAt(wma, i) /\ StaAt(wma', i) = StaAt(wma, i)
    BY <1>4 DEF KindAt, StaAt
  <2>8. StaOK(wma, peer, umac, s)
    BY <1>3 DEF peer
  <2>9. QED
    BY <1>2, <1>4, <1>11, <2>1, <2>4, <2>5, <2>6, <2>7, <2>8 DEF StaOK, cs
<1>13. QED
  BY <1>2, <1>3, <1>10, <1>12

\* As long as nothing failed, an event of the firmware is the answer to the
\* first request of the queue (wma_find_req by kind alone finds the right
\* one), and the queue is in step with the firmware when that one is gone.
LEMMA CalmEvent ==
  ASSUME WmaInv, Calm, odd = <<>>, NEW k \in Kinds, Event(k), wma' = Release(wma, FindReq(wma, k))
  PROVE  /\ wma.hold # <<>> /\ KindAt(wma, 1) = k /\ FindReq(wma, k) = wma.hold[1]
         /\ wma.hold[1] \in Held(wma) /\ FindReq(wma, k) # NoReq
         /\ wma' \in Wma /\ wma'.hold = Tail(wma.hold) /\ wma'.req = [wma.req EXCEPT ![wma.hold[1]] = Freed]
         /\ wma'.peers = wma.peers /\ wma'.cmds = wma.cmds
         /\ target'.peer = target.peer /\ target.evts # <<>> /\ Fifo(wma', target'.evts)
<1>1. wma \in Wma /\ WmaTypeOK /\ QueueOK(wma) /\ target.evts \in Seq(Kinds) /\ Fifo(wma, target.evts)
  BY DEF WmaInv, WmaTypeOK, Calm
<1>2. /\ target'.peer = target.peer /\ target'.evts = Tail(target.evts)
      /\ target.evts # <<>> /\ Head(target.evts) = k
  BY <1>1, EventTypes
<1> DEFINE e == target.evts
           n == Len(target.evts)
<1>3. n \in Nat /\ n >= 1 /\ e[1] = k
  BY <1>1, <1>2
<1>4. Len(wma.hold) = n + Len(Pend(wma)) /\ Len(Pend(wma)) \in Nat /\ \A i \in 1 .. n : e[i] = KindAt(wma, i)
  BY <1>1, PendType DEF Fifo
<1> HIDE DEF n
<1>5. wma.hold # <<>> /\ KindAt(wma, 1) = k
  <2>1. Len(wma.hold) >= 1 /\ 1 \in 1 .. n
    BY <1>3, <1>4
  <2>2. QED
    BY <1>3, <1>4, <2>1
<1> DEFINE m == wma.hold[1]
<1>6. FindReq(wma, k) = m /\ m \in Held(wma) /\ Release(wma, m).hold = Tail(wma.hold)
  BY <1>1, <1>5, ReleaseFirst
<1>7. m \in Mem /\ m # NoReq
  BY <1>1, <1>6, HeldMem, WmaAssumption
<1> HIDE DEF m
<1>8. /\ wma' \in Wma /\ wma'.peers = wma.peers /\ wma'.cmds = wma.cmds
      /\ wma'.req = [wma.req EXCEPT ![m] = Freed] /\ wma'.hold = Tail(wma.hold)
  BY <1>1, <1>6, <1>7, ReleaseFields
<1>9. Pend(wma') = Pend(wma)
  BY <1>8 DEF Pend
<1>10. Fifo(wma', Tail(e))
  <2> DEFINE f == wma'
  <2>1. /\ f \in Wma /\ f.hold = Tail(wma.hold) /\ f.req = [wma.req EXCEPT ![wma.hold[1]] = Freed]
        /\ Pend(f) = Pend(wma)
    BY <1>8, <1>9 DEF m
  <2>2. e \in Seq(Kinds) /\ e # <<>> /\ Fifo(wma, e)
    BY <1>1, <1>2
  <2> HIDE DEF f, e
  <2>3. Fifo(f, Tail(e))
    BY <1>1, <1>5, <2>1, <2>2, PopFifo
  <2>4. QED
    BY <2>3 DEF f
<1>11. QED
  BY <1>2, <1>5, <1>6, <1>7, <1>8, <1>10 DEF m

\* wma_peer_assoc_conf_handler: the station that UMAC is told of is the one
\* the firmware answered about.
LEMMA CalmPeerAssocConf == ASSUME WmaInv, Calm, PeerAssocConf PROVE Calm'
<1> SUFFICES ASSUME odd' = <<>>
             PROVE  /\ link' = "up" /\ late' = {} /\ Fifo(wma', target'.evts)
                    /\ \A s \in Stas : StaOK(wma', target'.peer, umac', s)
  BY DEF Calm
<1> DEFINE m == wma.hold[1]
           p == StaAt(wma, 1)
<1>1. wma \in Wma /\ umac \in Waits /\ QueueOK(wma) /\ Awaited(Held(wma), wma.req, umac) /\ target.evts \in Seq(Kinds)
  BY DEF WmaInv, WmaTypeOK
<1>2. late' = late /\ link' = link /\ odd = <<>> /\ Event("assoc") /\ wma' = Release(wma, FindReq(wma, "assoc"))
  BY Zenon DEF PeerAssocConf
<1>3. link = "up" /\ late = {} /\ Fifo(wma, target.evts) /\ \A s \in Stas : StaOK(wma, target.peer, umac, s)
  BY <1>2 DEF Calm
<1>4. /\ wma.hold # <<>> /\ KindAt(wma, 1) = "assoc" /\ FindReq(wma, "assoc") = m
      /\ m \in Held(wma) /\ FindReq(wma, "assoc") # NoReq
      /\ wma' \in Wma /\ wma'.hold = Tail(wma.hold) /\ wma'.req = [wma.req EXCEPT ![m] = Freed]
      /\ wma'.peers = wma.peers /\ wma'.cmds = wma.cmds
      /\ target'.peer = target.peer /\ target.evts # <<>> /\ Fifo(wma', target'.evts)
  <2>1. "assoc" \in Kinds
    BY DEF Kinds
  <2>2. QED
    BY <1>2, <2>1, CalmEvent
<1>5. umac' = AddStaRsp(umac, p, TRUE)
  <2>1. umac' = IF FindReq(wma, "assoc") = NoReq THEN umac
                ELSE AddStaRsp(umac, wma.req[FindReq(wma, "assoc")].sta, TRUE)
    BY Zenon DEF PeerAssocConf
  <2>2. QED
    BY <1>4, <2>1 DEF StaAt
<1>6. p \in Stas /\ umac[p] = "adding"
  BY <1>1, <1>4 DEF QueueOK, Awaited, KindAt, StaAt
<1>7. umac' = [umac EXCEPT ![p] = "in"]
  BY <1>5, <1>6 DEF AddStaRsp
<1>8. umac'[p] = "in" /\ \A s \in Stas : s # p => umac'[s] = umac[s]
  BY <1>1, <1>6, <1>7 DEF Waits
<1> DEFINE f == wma'
           e == target.evts
           peer == target.peer
           v == umac'
<1>9. /\ f \in Wma /\ f.hold = Tail(wma.hold) /\ f.req = [wma.req EXCEPT ![wma.hold[1]] = Freed]
      /\ f.peers = wma.peers /\ f.cmds = wma.cmds /\ e \in Seq(Kinds) /\ e # <<>> /\ Fifo(wma, e)
      /\ v[p] = "in" /\ (\A s \in Stas : s # p => v[s] = umac[s]) /\ \A s \in Stas : StaOK(wma, peer, umac, s)
  BY <1>1, <1>3, <1>4, <1>8
<1>10. p = StaAt(wma, 1)
  OBVIOUS
<1> HIDE DEF f, e, peer, v, p, m
<1>11. StaOK(f, peer, v, p)
  BY <1>1, <1>4, <1>6, <1>9, <1>10, PopAdded
<1>12. ASSUME NEW s \in Stas, s # p PROVE StaOK(f, peer, v, s)
  <2>1. v[s] = umac[s] /\ StaOK(wma, peer, umac, s)
    BY <1>9, <1>12
  <2>2. QED
    BY <1>1, <1>4, <1>9, <2>1, PopOther
<1>13. QED
  BY <1>2, <1>3, <1>4, <1>11, <1>12 DEF f, peer, v

\* wma_peer_delete_handler: the request that goes is the first, whether or
\* not UMAC is told.
LEMMA CalmPeerDelete == ASSUME WmaInv, Calm, PeerDelete PROVE Calm'
<1> SUFFICES ASSUME odd' = <<>>
             PROVE  /\ link' = "up" /\ late' = {} /\ Fifo(wma', target'.evts)
                    /\ \A s \in Stas : StaOK(wma', target'.peer, umac', s)
  BY DEF Calm
<1>1. wma \in Wma /\ umac \in Waits /\ QueueOK(wma)
  BY DEF WmaInv, WmaTypeOK
<1>2. late' = late /\ link' = link /\ odd = <<>> /\ Event("delete") /\ wma' = Release(wma, FindReq(wma, "delete"))
  BY Zenon DEF PeerDelete
<1>3. link = "up" /\ late = {} /\ \A s \in Stas : StaOK(wma, target.peer, umac, s)
  BY <1>2 DEF Calm
<1>4. /\ wma.hold # <<>> /\ FindReq(wma, "delete") = wma.hold[1] /\ wma.hold[1] \in Held(wma)
      /\ wma' \in Wma /\ wma'.hold = Tail(wma.hold) /\ wma'.req = [wma.req EXCEPT ![wma.hold[1]] = Freed]
      /\ wma'.peers = wma.peers /\ wma'.cmds = wma.cmds
      /\ target'.peer = target.peer /\ Fifo(wma', target'.evts)
  <2>1. "delete" \in Kinds
    BY DEF Kinds
  <2>2. QED
    BY <1>2, <2>1, CalmEvent
<1>5. \A s \in Stas : umac'[s] = umac[s] \/ (umac[s] = "deleting" /\ umac'[s] = "out")
  <2> DEFINE p == wma.req[wma.hold[1]].sta
  <2>1. umac' = umac \/ umac' = DelStaRsp(umac, wma.req[FindReq(wma, "delete")].sta)
    BY Zenon DEF PeerDelete
  <2>2. p \in Stas
    BY <1>1, <1>4 DEF QueueOK
  <2>3. umac' = umac \/ umac' = DelStaRsp(umac, p)
    BY <1>4, <2>1
  <2> HIDE DEF p
  <2>4. QED
    BY <1>1, <2>2, <2>3 DEF DelStaRsp, Waits
<1> DEFINE f == wma'
           peer == target.peer
           v == umac'
<1>6. /\ f \in Wma /\ f.hold = Tail(wma.hold) /\ f.req = [wma.req EXCEPT ![wma.hold[1]] = Freed]
      /\ f.peers = wma.peers /\ f.cmds = wma.cmds /\ wma.hold # <<>>
  BY <1>4
<1>7. ASSUME NEW s \in Stas PROVE StaOK(f, peer, v, s)
  <2>1. (v[s] = umac[s] \/ (umac[s] = "deleting" /\ v[s] = "out")) /\ StaOK(wma, peer, umac, s)
    BY <1>3, <1>5
  <2> HIDE DEF f, peer, v
  <2>2. QED
    BY <1>1, <1>6, <2>1, PopOther
<1>8. QED
  BY <1>2, <1>3, <1>4, <1>7

\* A timer cannot expire before the firmware has answered, unless that counts
\* as a failure: when all is answered nothing is held.
LEMMA CalmTimerExpires == ASSUME WmaInv, Calm, NEW m \in Mem, TimerExpires(m) PROVE Calm'
<1> SUFFICES ASSUME odd' = <<>> PROVE FALSE
  BY DEF Calm
<1>1. wma \in Wma /\ target.evts \in Seq(Kinds) /\ m \in Held(wma)
  BY DEF WmaInv, WmaTypeOK, TimerExpires
<1>2. odd = <<>> /\ ~ Len(odd) < MaxOdd
  <2>1. "late" \in Oddities \cup {"ok"} /\ odd \in Seq(Oddities) /\ Counted("late")
    BY DEF WmaInv, WmaTypeOK, Oddities, TimerExpires
  <2> DEFINE what == "late"
  <2>2. what # "ok"
    OBVIOUS
  <2>3. what \in Oddities \cup {"ok"} /\ Counted(what)
    BY <2>1
  <2> HIDE DEF what
  <2>4. QED
    BY <2>1, <2>2, <2>3, CountedKeeps
<1>3. Fifo(wma, target.evts)
  BY <1>2 DEF Calm
<1> DEFINE q == wma.cmds
           e == target.evts
<1>4. q \o e = <<>>
  BY <1>2 DEF TimerExpires
<1>5. q \in Seq(Cmd) /\ e \in Seq(Kinds)
  BY <1>1, PendType
<1>6. Pend(wma) \in Seq(Cmd) /\ Len(Pend(wma)) \in Nat /\ Len(Pend(wma)) <= Len(q)
  BY <1>1, <1>5, PendType, SelectSeqOf DEF Pend
<1> HIDE DEF q, e
<1>7. Len(q) = 0 /\ Len(e) = 0
  <2>1. Len(q \o e) = Len(q) + Len(e) /\ Len(q) \in Nat /\ Len(e) \in Nat
    BY <1>5
  <2>2. QED
    BY <1>4, <2>1
<1>8. Len(wma.hold) = 0
  BY <1>3, <1>6, <1>7 DEF Fifo, e
<1>9. QED
  BY <1>1, <1>8 DEF Held, Wma

\* What needs a failure before: a time-out, a crash and what follows it.
LEMMA CalmOthers ==
  ASSUME WmaInv, Calm, FwDown \/ CleanupHoldReq \/ Reinit \/ \E m \in Mem : HoldReqTimer(m)
  PROVE  Calm'
<1>1. odd \in Seq(Oddities)
  BY DEF WmaInv, WmaTypeOK
<1>2. CASE FwDown
  <2>1. odd' = Append(odd, "down")
    BY <1>2 DEF FwDown, Counted
  <2>2. "down" \in Oddities
    BY DEF Oddities
  <2>3. odd' # <<>>
    BY <1>1, <2>1, <2>2
  <2>4. QED
    BY <2>3 DEF Calm
<1>3. CASE CleanupHoldReq \/ Reinit \/ \E m \in Mem : HoldReqTimer(m)
  BY <1>3 DEF Calm, CleanupHoldReq, Reinit, HoldReqTimer
<1>4. QED
  BY <1>2, <1>3

\* The queue stays in step with the firmware as long as nothing fails.
THEOREM CalmInvariance == WmaSpec => []Calm
<1>1. WmaInit => Calm
  BY CalmInit
<1>2. WmaInv /\ Calm /\ [WmaNext]_wmaVars => Calm'
  <2> SUFFICES ASSUME WmaInv, Calm, [WmaNext]_wmaVars PROVE Calm'
    OBVIOUS
  <2>1. CASE WmaNext
    BY <2>1, CalmAddSta, CalmDeleteSta, CalmFwStep, CalmPeerAssocConf, CalmPeerDelete, CalmTimerExpires,
       CalmOthers DEF WmaNext
  <2>2. CASE UNCHANGED wmaVars
    BY <2>2 DEF wmaVars, Calm
  <2>3. QED
    BY <2>1, <2>2
<1>3. QED
  BY <1>1, <1>2, WmaInvariance, PTL DEF WmaSpec

\* wma_find_req, wma_peer_assoc_conf_handler, wma_peer_delete_handler: as
\* long as nothing failed or timed out, answers matched by their kind and
\* order alone leave UMAC, the host's peers and the firmware agreed on each
\* station.
THEOREM TargetAgrees == WmaSpec => []AgreesWithTarget
<1>1. WmaInv /\ Calm => AgreesWithTarget
  <2> SUFFICES ASSUME WmaInv, Calm, odd = <<>>, NEW p \in Stas
               PROVE  /\ umac[p] = "in" => p \in wma.peers /\ target.peer[p] = "assoc"
                      /\ umac[p] = "out" /\ wma.hold = <<>> => p \notin wma.peers /\ target.peer[p] = "none"
    BY DEF AgreesWithTarget
  <2>1. Fifo(wma, target.evts) /\ StaOK(wma, target.peer, umac, p) /\ wma \in Wma /\ target.evts \in Seq(Kinds)
    BY DEF Calm, WmaInv, WmaTypeOK
  <2>2. ASSUME umac[p] = "out", wma.hold = <<>> PROVE p \notin wma.peers /\ target.peer[p] = "none"
    <3>1. Settles(wma.cmds, target.peer, p, "delete", "none") /\ p \notin wma.peers
      BY <2>1, <2>2 DEF StaOK
    <3>2. Len(Pend(wma)) = 0
      <4>1. Len(target.evts) \in Nat /\ Len(Pend(wma)) \in Nat
        BY <2>1, PendType
      <4>2. Len(wma.hold) = 0
        BY <2>2
      <4>3. Len(wma.hold) = Len(target.evts) + Len(Pend(wma))
        BY <2>1 DEF Fifo
      <4>4. QED
        BY <4>1, <4>2, <4>3
    <3>3. \A j \in DOMAIN wma.cmds : wma.cmds[j] # <<"delete", p>>
      BY <2>1, <3>2, PendHas
    <3>4. Idle(wma.cmds, p)
      BY <3>1, <3>3 DEF Settles, Idle
    <3>5. QED
      BY <3>1, <3>4 DEF Settles
  <2>3. QED
    BY <2>1, <2>2 DEF StaOK
<1>2. QED
  BY <1>1, WmaInvariance, CalmInvariance, PTL
=============================================================================
