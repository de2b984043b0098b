------------------------------- MODULE WmaReq -------------------------------
(***************************************************************************)
(* core/wma/src/wma_dev_if.c: the stations of an access point, as UMAC     *)
(* asks WMA to add and delete them.  WMA sends the commands to the         *)
(* firmware and holds each request in wma_hold_req_queue until the         *)
(* firmware's answer or the request's timer ends it; an answer is matched  *)
(* with the first request of its kind, not by station.                     *)
(*                                                                         *)
(* Requests, events and timer callbacks all run in the scheduler thread,   *)
(* so each is one step.  A timer that has expired is only a message in     *)
(* that thread's mailbox: it cannot be taken back, and the request it      *)
(* points to may be gone, and its memory in use again, when it is handled. *)
(*                                                                         *)
(* UMAC may ask for several stations at once.  LIM defers most messages    *)
(* while it waits for one answer, but the flag is one for the whole MAC    *)
(* and any other answer (of a key, a channel switch, another vdev) ends    *)
(* the deferral, so that nothing here relies on it.                        *)
(***************************************************************************)
EXTENDS Naturals, Sequences, Queues

CONSTANTS
  Stas,        \* the stations of one access point
  Mem,         \* memory for struct wma_target_req
  WmaFaults,   \* what may fail: "create", "alloc", "assoc", "uapsd"
  MaxOdd,      \* bound: failures, crashes, and time-outs while the firmware works
  NoReq

ASSUME WmaAssumption ==
  /\ WmaFaults \subseteq {"create", "alloc", "assoc", "uapsd"}
  /\ MaxOdd \in Nat /\ NoReq \notin Mem

VARIABLES
  wma,    \* hold: the queue; req: its members; peers: the host's peers
  umac,   \* what UMAC waits for, by station
  late,   \* timer callbacks in the mailbox
  target,     \* the firmware: its peers, the commands and events under way
  link,   \* "up", "stopped" after a crash, "clean" when the queue was emptied
  odd     \* the failures, crashes and time-outs there were

wmaVars == <<wma, umac, late, target, link, odd>>

Freed == [kind |-> "none", sta |-> NoReq, resp |-> FALSE, timer |-> FALSE]

WmaInit ==
  /\ wma = [hold |-> <<>>, req |-> [m \in Mem |-> Freed], peers |-> {}, cmds |-> <<>>]
  /\ umac = [p \in Stas |-> "out"]
  /\ late = {}
  /\ target = [peer |-> [p \in Stas |-> "none"], evts |-> <<>>]
  /\ link = "up"
  /\ odd = <<>>

-----------------------------------------------------------------------------
(* The queue of held requests. *)

Held(w) == {w.hold[i] : i \in DOMAIN w.hold}

\* Mutant: new requests go to the front of the queue.
FillHoldReqInFront(w, m, kind, p, resp) ==
  [w EXCEPT !.hold = <<m>> \o @,
            !.req[m] = [kind |-> kind, sta |-> p, resp |-> resp, timer |-> TRUE]]

\* wma_fill_hold_req; m is what malloc returned.
FillHoldReq(w, m, kind, p, resp) ==
  [w EXCEPT !.hold = Append(@, m),
            !.req[m] = [kind |-> kind, sta |-> p, resp |-> resp, timer |-> TRUE]]

\* wma_find_req, wma_find_remove_req_msgtype: the first of its kind.
FindReq(w, kind) ==
  LET hits == Select(w.hold, {m \in Mem : w.req[m].kind = kind})
  IN  IF hits = <<>> THEN NoReq ELSE Head(hits)

\* Off the queue, timer stopped and destroyed, memory freed.
Release(w, m) ==
  IF m = NoReq THEN w
  ELSE [w EXCEPT !.hold = Select(@, Mem \ {m}), !.req[m] = Freed]

\* wma_remove_req
RemoveReq(w, kind) == Release(w, FindReq(w, kind))

\* The answer UMAC gets, if it waits for one.
AddStaRsp(u, p, ok) == IF u[p] = "adding" THEN [u EXCEPT ![p] = IF ok THEN "in" ELSE "out"] ELSE u
DelStaRsp(u, p) == IF u[p] = "deleting" THEN [u EXCEPT ![p] = "out"] ELSE u

-----------------------------------------------------------------------------
(* Peers. *)

Send(w, cmd, p) == IF link = "up" THEN [w EXCEPT !.cmds = Append(@, <<cmd, p>>)] ELSE w

\* wma_remove_peer: the host's peer goes whether or not the command could be
\* sent.
RemovePeer(w, p) ==
  IF p \notin w.peers THEN w ELSE [Send(w, "delete", p) EXCEPT !.peers = @ \ {p}]
RemovePeerFails(w, p) == p \notin w.peers \/ link # "up"

CreatePeer(w, p) == [Send(w, "create", p) EXCEPT !.peers = @ \cup {p}]

\* What may go wrong in a call; without a link nothing can be created.
Faulty == IF Len(odd) < MaxOdd THEN WmaFaults ELSE {}
AddResults == IF link = "up" THEN {"ok"} \cup Faulty ELSE {"create"}
DelResults == {"ok"} \cup (Faulty \cap {"alloc"})
Counted(what) == odd' = IF what # "ok" /\ Len(odd) < MaxOdd THEN Append(odd, what) ELSE odd

\* Mutant: a command that cannot be sent takes the first held request back.
AddStaReqApModeBacksOut(p, m, res) ==
  LET w1 == CreatePeer(RemovePeer(wma, p), p)
      w2 == FillHoldReq(w1, m, "assoc", p, TRUE)
  IN  /\ wma' = IF res = "ok" THEN Send(w2, "assoc", p) ELSE RemovePeer(RemoveReq(w2, "assoc"), p)
      /\ umac' = IF res = "ok" THEN [umac EXCEPT ![p] = "adding"] ELSE umac

\* wma_add_sta_req_ap_mode.  After the request is held the answer is left to
\* the firmware or the timer, also when the command could not be sent.
AddStaReqApMode(p, m, res) ==
  LET w0 == RemovePeer(wma, p)
      w1 == CreatePeer(w0, p)
      w2 == FillHoldReq(w1, m, "assoc", p, TRUE)
  IN  /\ wma' = CASE res = "create" -> w0
                  [] res = "alloc" -> RemovePeer(RemoveReq(w1, "assoc"), p)
                  [] res = "assoc" -> RemovePeer(w2, p)
                  [] res = "uapsd" -> RemovePeer(Send(w2, "assoc", p), p)
                  [] res = "ok" -> Send(w2, "assoc", p)
      /\ umac' = IF res \in {"create", "alloc"} THEN umac ELSE [umac EXCEPT ![p] = "adding"]

AddSta(p) ==
  /\ umac[p] = "out"
  /\ \E res \in AddResults, m \in Mem \ Held(wma) :
       AddStaReqApMode(p, m, res) /\ Counted(IF link = "up" THEN res ELSE "ok")
  /\ UNCHANGED <<late, target, link>>

\* wma_delete_sta_req_ap_mode.  A request without an answer (respReqd) is
\* held as well.
DeleteStaReqApMode(p, m, resp, res) ==
  LET w1   == RemovePeer(wma, p)
      over == RemovePeerFails(wma, p) \/ res = "alloc"
  IN  /\ wma' = IF RemovePeerFails(wma, p) THEN w1
                ELSE IF res = "alloc" THEN RemoveReq(w1, "delete")
                ELSE FillHoldReq(w1, m, "delete", p, resp)
      /\ umac' = [umac EXCEPT ![p] = IF resp /\ ~over THEN "deleting" ELSE "out"]

DeleteSta(p) ==
  /\ umac[p] = "in"
  /\ \E resp \in BOOLEAN, res \in DelResults, m \in Mem \ Held(wma) :
       DeleteStaReqApMode(p, m, resp, res) /\ Counted(res)
  /\ UNCHANGED <<late, target, link>>

-----------------------------------------------------------------------------
(* The firmware answers in the order of the commands. *)

FwStep ==
  /\ wma.cmds # <<>>
  /\ LET c == Head(wma.cmds)[1]
         p == Head(wma.cmds)[2]
     IN  target' = [target EXCEPT
           !.peer[p] = CASE c = "create" -> "created" [] c = "assoc" -> "assoc" [] c = "delete" -> "none",
           !.evts = IF c = "create" THEN @ ELSE Append(@, c)]
  /\ wma' = [wma EXCEPT !.cmds = Tail(@)]
  /\ UNCHANGED <<umac, late, link, odd>>

Event(kind) == target.evts # <<>> /\ Head(target.evts) = kind /\ target' = [target EXCEPT !.evts = Tail(@)]

\* wma_peer_assoc_conf_handler
PeerAssocConf ==
  /\ Event("assoc")
  /\ LET m == FindReq(wma, "assoc")
     IN  /\ wma' = Release(wma, m)
         /\ umac' = IF m = NoReq THEN umac ELSE AddStaRsp(umac, wma.req[m].sta, TRUE)
  /\ UNCHANGED <<late, link, odd>>

\* wma_peer_delete_handler
PeerDelete ==
  /\ Event("delete")
  /\ LET m == FindReq(wma, "delete")
     IN  /\ wma' = Release(wma, m)
         /\ umac' = IF m # NoReq /\ wma.req[m].resp THEN DelStaRsp(umac, wma.req[m].sta) ELSE umac
  /\ UNCHANGED <<late, link, odd>>

-----------------------------------------------------------------------------
(* Time-outs. *)

TimerExpires(m) ==
  /\ m \in Held(wma) /\ wma.req[m].timer /\ m \notin late
  /\ Len(odd) < MaxOdd \/ wma.cmds \o target.evts = <<>>
  /\ wma' = [wma EXCEPT !.req[m].timer = FALSE]
  /\ late' = late \cup {m}
  /\ Counted("late")
  /\ UNCHANGED <<umac, target, link>>

\* UMAC's answer is sent from the timer whether or not it was asked for.
TimedOut(u, r) == IF r.kind = "assoc" THEN AddStaRsp(u, r.sta, FALSE) ELSE DelStaRsp(u, r.sta)

\* wma_find_req_on_timer_expiry: only the address is compared.
ExpiredReq(w, m) == IF m \in Held(w) THEN m ELSE NoReq

\* Mutant: the request is found but stays in the queue.
HoldReqTimerKeeps(m) ==
  /\ m \in late
  /\ umac' = IF ExpiredReq(wma, m) = NoReq THEN umac ELSE TimedOut(umac, wma.req[m])
  /\ late' = late \ {m}
  /\ UNCHANGED <<wma, target, link, odd>>

\* wma_hold_req_timer; the recovery it may trigger (fw_timeout_crash) is a
\* FwDown that follows.
HoldReqTimer(m) ==
  /\ m \in late
  /\ LET r == ExpiredReq(wma, m)
     IN  /\ wma' = Release(wma, r)
         /\ umac' = IF r = NoReq THEN umac ELSE TimedOut(umac, wma.req[r])
  /\ late' = late \ {m}
  /\ UNCHANGED <<target, link, odd>>

\* wma_shutdown_notifier_cb: the commands under way are lost.
FwDown ==
  /\ link = "up" /\ Len(odd) < MaxOdd
  /\ link' = "stopped"
  /\ wma' = [wma EXCEPT !.cmds = <<>>]
  /\ Counted("down")
  /\ UNCHANGED <<umac, late, target>>

\* wma_cleanup_hold_req: every request times out, from the front.
Cleaned(w, u) ==
  LET answered[i \in 0 .. Len(w.hold)] ==
        IF i = 0 THEN u ELSE TimedOut(answered[i - 1], w.req[w.hold[i]])
  IN  <<[w EXCEPT !.hold = <<>>, !.req = [m \in Mem |-> Freed]], answered[Len(w.hold)]>>

CleanupHoldReq ==
  /\ link = "stopped"
  /\ LET c == Cleaned(wma, umac) IN wma' = c[1] /\ umac' = c[2]
  /\ link' = "clean"
  /\ UNCHANGED <<late, target, odd>>

\* The modules are closed and opened again with a new firmware.
Reinit ==
  /\ link = "clean"
  /\ wma' = [wma EXCEPT !.peers = {}]
  /\ umac' = [p \in Stas |-> "out"]
  /\ late' = {}
  /\ target' = [peer |-> [p \in Stas |-> "none"], evts |-> <<>>]
  /\ link' = "up"
  /\ UNCHANGED odd

WmaNext ==
  \/ \E p \in Stas : AddSta(p) \/ DeleteSta(p)
  \/ FwStep \/ PeerAssocConf \/ PeerDelete
  \/ \E m \in Mem : TimerExpires(m) \/ HoldReqTimer(m)
  \/ FwDown \/ CleanupHoldReq \/ Reinit

WmaSpec == WmaInit /\ [][WmaNext]_wmaVars

-----------------------------------------------------------------------------
\* A station's ADD_STA that is held is awaited by UMAC, which has not freed
\* its buffer, and a station has one at most: no answer is given twice and no
\* time-out ends a request without answering it, whatever callbacks come late
\* for memory that is in use again (wma_hold_req_timer: "firmware rsp should
\* have consumed the buffer").  A DEL_STA nobody awaits is answered by its
\* timer all the same and may end the wait for a later one: not claimed here.
HeldIsAwaited ==
  LET r(i) == wma.req[wma.hold[i]]
  IN  \A i \in DOMAIN wma.hold : r(i).kind # "delete" =>
        /\ umac[r(i).sta] = "adding"
        /\ \A j \in DOMAIN wma.hold : r(j).kind # "delete" /\ r(j).sta = r(i).sta => i = j

\* UMAC does not wait for ever: as long as memory lasts a request it awaits
\* is held, with its timer running or its time-out in the mailbox.  (One that
\* finds no memory makes wma_remove_req drop the request of another station.)
NobodyForgotten ==
  (\A i \in DOMAIN odd : odd[i] # "alloc") => \A p \in Stas : umac[p] \in {"adding", "deleting"} =>
    \E m \in Held(wma) : wma.req[m].sta = p /\ (wma.req[m].timer \/ m \in late)

\* As long as nothing has failed or timed out, UMAC, the host's peers and the
\* firmware agree: matching answers by their order is as good as by station.
AgreesWithTarget ==
  odd = <<>> => \A p \in Stas :
    /\ umac[p] = "in" => p \in wma.peers /\ target.peer[p] = "assoc"
    /\ umac[p] = "out" /\ wma.hold = <<>> => p \notin wma.peers /\ target.peer[p] = "none"

\* wma_peer_assoc_conf_handler: "peer assoc conf event means the cmd
\* succeeds": a station that UMAC was told is added has its peer.
AddedHasPeer == \A p \in Stas : umac[p] = "in" => p \in wma.peers

=============================================================================
