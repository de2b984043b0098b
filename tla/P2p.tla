-------------------------------- MODULE P2p --------------------------------
(***************************************************************************)
(* components/p2p: remain-on-channel requests (ROC) and off-channel        *)
(* transmission.                                                           *)
(*                                                                         *)
(* User threads post commands; one scheduler thread handles commands, scan *)
(* events, timeouts and transmit completions one at a time.  A ROC is a    *)
(* scan of one channel: requests wait in roc_q and the head is on air.  A  *)
(* frame for another channel waits in tx_q_roc for a ROC on it, and in     *)
(* tx_q_ack for its acknowledgment.  Contexts are memory: a freed one may  *)
(* be allocated again, and pointers kept elsewhere then lead to the new    *)
(* one.                                                                    *)
(***************************************************************************)
EXTENDS Naturals, Sequences, Queues

CONSTANTS
  Rocs,     \* memory for struct p2p_roc_context
  Txs,      \* memory for struct tx_action_context
  Links,    \* the vdevs
  RocReqs,  \* the requests users make: [link, chan]
  Frames,   \* the frames users send: [link, chan, noAck]
  Faults,   \* calls that may fail: "start" and "abort" of a scan, "tx" of a frame,
            \* "rx" (p2p_mgmt_rx_ops) that registers for probe requests
  MaxCmds,  \* bound: commands waiting in the scheduler's queue
  MaxLate,  \* bound: ROC timer callbacks that wait to run
  MaxFails, \* bound: calls that fail
  Nil

ASSUME P2pAssumption ==
  /\ Faults \subseteq {"start", "abort", "tx", "rx"}
  /\ MaxCmds \in Nat \ {0} /\ MaxLate \in Nat \ {0} /\ MaxFails \in Nat
  /\ Nil \notin Rocs \cup Txs \cup Links

VARIABLES
  soc,      \* struct p2p_soc_priv_obj with the contexts it leads to
  cmds,     \* commands posted by user threads, in order
  scans,    \* the scans the scan component runs for us, by progress
  expired,  \* ROC timers that fired and whose callback is still to run
  failed    \* how many calls have failed

p2pVars == <<soc, cmds, scans, expired, failed>>

FreeRoc == [st |-> "FREE", id |-> Nil, link |-> Nil, chan |-> Nil, tx |-> Nil, timer |-> "none"]
FreeTx == [st |-> "FREE", link |-> Nil, chan |-> Nil, noAck |-> FALSE, roc |-> Nil, timer |-> "none"]

P2pInit ==
  /\ soc = [rocQ |-> <<>>, txQRoc |-> <<>>, txQAck |-> <<>>, ids |-> {},
            roc |-> [r \in Rocs |-> FreeRoc], tx |-> [x \in Txs |-> FreeTx],
            awake |-> FALSE, rx |-> "off", cleaner |-> Nil, cleanupDone |-> FALSE]
  /\ cmds = <<>>
  /\ scans = <<>>
  /\ expired = 0
  /\ failed = 0

-----------------------------------------------------------------------------
(* The queues. *)

In(q) == {q[i] : i \in DOMAIN q}
Without(q, S) == Select(q, In(q) \ S)

\* p2p_find_current_roc_ctx, p2p_find_roc_by_chan, p2p_find_roc_by_tx_ctx:
\* the first request in the queue that is in S, if any.
First(s, S) ==
  LET hits == Select(s.rocQ, S) IN IF hits = <<>> THEN Nil ELSE Head(hits)

Current(s) == First(s, {r \in Rocs : s.roc[r].st # "IDLE"})
ByChan(s, c) == First(s, {r \in Rocs : s.roc[r].chan = c})
ByTx(s, x) == First(s, {r \in Rocs : s.roc[r].tx = x})

-----------------------------------------------------------------------------
(* Remain on channel.  An operator gives the states a call may end in.     *)

DestroyRoc(s, r) ==
  [s EXCEPT !.rocQ = Without(@, {r}), !.ids = @ \ {s.roc[r].id}, !.roc[r] = FreeRoc]

\* All goes well, or one of the calls a handler makes fails.
Outcomes(calls) == {"ok"} \cup {call \in Faults \cap calls : failed < MaxFails}

\* Mutant: the runtime lock is not taken.
ExecuteRocSleepy(s, r, res) ==
  IF res = "start" THEN [DestroyRoc(s, r) EXCEPT !.awake = FALSE]
  ELSE [s EXCEPT !.roc[r].st = "REQUESTED", !.roc[r].timer = "stopped",
                 !.rx = IF res = "rx" THEN "refused" ELSE "on"]

\* Without the registration for probe requests the request stays on air.
ExecuteRoc(s, r, res) ==
  IF res = "start" THEN [DestroyRoc(s, r) EXCEPT !.awake = FALSE]
  ELSE [s EXCEPT !.awake = TRUE, !.roc[r].st = "REQUESTED", !.roc[r].timer = "stopped",
                 !.rx = IF res = "rx" THEN "refused" ELSE "on"]

ExecuteCancelRoc(s, r, res) ==
  IF res = "abort" THEN [DestroyRoc(s, r) EXCEPT !.rx = "off"]
  ELSE [s EXCEPT !.roc[r].st = "CANCEL_IN_PROG", !.roc[r].timer = "stopped"]

\* Mutant: every request is executed as it comes.
ProcessRocReqEager(s, r, res) ==
  ExecuteRoc([s EXCEPT !.rocQ = Append(@, r), !.roc[r].st = "IDLE"], r, res)

\* p2p_process_roc_req: only a request that is alone in the queue is executed.
ProcessRocReq(s, r, res) ==
  LET queued == [s EXCEPT !.rocQ = Append(@, r), !.roc[r].st = "IDLE"]
  IN  IF Len(queued.rocQ) = 1 THEN ExecuteRoc(queued, r, res) ELSE queued

\* Mutant: the request that ends does not pass the air on.
ScanCompleteForgets(s, r, res) ==
  [DestroyRoc(s, r) EXCEPT !.awake = FALSE, !.rx = "off", !.cleanupDone = (s.cleaner # Nil)]

ScanComplete(s, r, res) ==
  LET ended == [DestroyRoc(s, r) EXCEPT !.awake = FALSE, !.rx = "off", !.cleanupDone = (s.cleaner # Nil)]
  IN  IF ended.rocQ = <<>> THEN ended ELSE ExecuteRoc(ended, Head(ended.rocQ), res)

\* p2p_process_cancel_roc_req: "pointer" is compared with what is queued.
ProcessCancelRoc(s, pointer, res) ==
  IF pointer \notin In(s.rocQ) THEN s
  ELSE CASE s.roc[pointer].st = "IDLE" -> DestroyRoc(s, pointer)
         [] s.roc[pointer].st = "CANCEL_IN_PROG" -> s
         [] OTHER -> ExecuteCancelRoc(s, pointer, res)

\* p2p_process_cleanup_roc_queue: idle requests are freed (their identifiers
\* stay), the one on air is cancelled.
CleanupRocQueue(s, v, res) ==
  LET idle == {r \in In(s.rocQ) : s.roc[r].st = "IDLE" /\ s.roc[r].link = v}
      s1   == [s EXCEPT !.rocQ = Without(@, idle),
                        !.roc = [r \in Rocs |-> IF r \in idle THEN FreeRoc ELSE @[r]]]
      cur  == Current(s1)
  IN  IF cur = Nil \/ s1.roc[cur].link # v THEN [s1 EXCEPT !.cleanupDone = (s.cleaner # Nil)]
      ELSE IF s1.roc[cur].st = "CANCEL_IN_PROG" THEN s1 ELSE ExecuteCancelRoc(s1, cur, res)

-----------------------------------------------------------------------------
(* Off-channel transmission. *)

\* p2p_remove_tx_context: the identifier of a frame that waited for a ROC
\* goes with the ROC.
RemoveTx(s, x) ==
  [s EXCEPT !.txQRoc = Without(@, {x}), !.txQAck = Without(@, {x}),
            !.ids = IF s.tx[x].roc = Nil THEN @ \ {x} ELSE @,
            !.tx[x] = FreeTx]

\* Mutant: the identifier goes, the context stays.
FailTxLeaks(s, x) == [s EXCEPT !.ids = @ \ {x}]

FailTx(s, x) == [s EXCEPT !.ids = @ \ {x}, !.tx[x] = FreeTx]

\* p2p_execute_tx_action_frame when the frame is handed over.
FrameSent(s, x) ==
  IF s.tx[x].noAck THEN RemoveTx(s, x)
  ELSE [s EXCEPT !.txQRoc = Without(@, {x}), !.txQAck = Append(@, x), !.tx[x].timer = "running"]

ExecuteTx(s, x, res) == IF res = "tx" THEN FailTx(s, x) ELSE FrameSent(s, x)

\* p2p_ready_to_tx_frame: every frame that waits for r, in order.
ReadyToTx(s, r, res) ==
  LET mine == Select(s.txQRoc, {x \in Txs : s.tx[x].roc = r})
      sent[i \in 0 .. Len(mine)] ==
        IF i = 0 THEN s
        ELSE IF res = "tx" THEN RemoveTx(sent[i - 1], mine[i]) ELSE FrameSent(sent[i - 1], mine[i])
  IN  sent[Len(mine)]

ReadyOnChannel(s, r, res) ==
  ReadyToTx([s EXCEPT !.roc[r].st = "ON_CHAN", !.roc[r].timer = "running"], r, res)

WaitForRoc(s, x, r) == [s EXCEPT !.txQRoc = Append(@, x), !.tx[x].roc = r]

\* What p2p_process_roc_req told its caller: also a request that is on air
\* without the registration counts as refused.
Refused(s, r, res) == s.roc[r].st = "FREE" \/ (s.roc[r].st = "REQUESTED" /\ res = "rx")

\* p2p_roc_req_for_tx_action: a ROC of its own, in memory r, with the
\* identifier of the frame.  A frame whose ROC was refused is freed, while a
\* ROC that is on air all the same keeps its pointer to it.
RocForTx(s, x, r, res) ==
  LET ctx == [FreeRoc EXCEPT !.st = "IDLE", !.id = x,
                             !.link = s.tx[x].link, !.chan = s.tx[x].chan, !.tx = x]
      s1  == ProcessRocReq([s EXCEPT !.roc[r] = ctx], r, res)
  IN  IF Refused(s1, r, res) THEN FailTx(s1, x) ELSE WaitForRoc(s1, x, r)

\* p2p_process_mgmt_tx.  A frame with no channel of its own is sent at once.
ProcessMgmtTx(s, x, r, res) ==
  LET c    == s.tx[x].chan
      cur  == Current(s)
      here == cur # Nil /\ s.roc[cur].chan = c
      next == ByChan(s, c)
  IN  CASE c = Nil -> ExecuteTx(s, x, res)
        [] here /\ s.roc[cur].st \in {"REQUESTED", "STARTED"} -> WaitForRoc(s, x, cur)
        [] here /\ s.roc[cur].st = "ON_CHAN" ->
             IF s.roc[cur].timer = "running" THEN ExecuteTx([s EXCEPT !.roc[cur].tx = x], x, res)
             ELSE FailTx([s EXCEPT !.roc[cur].tx = x], x)
        [] OTHER ->
             IF next # Nil /\ s.roc[next].st = "IDLE" THEN WaitForRoc(s, x, next)
             ELSE IF r = Nil THEN FailTx(s, x) ELSE RocForTx(s, x, r, res)

\* p2p_process_mgmt_tx_cancel
ProcessTxCancel(s, x, res) ==
  CASE x \in In(s.txQRoc) -> ProcessCancelRoc(RemoveTx(s, x), s.tx[x].roc, res)
    [] x \in In(s.txQAck) -> s
    [] OTHER -> IF ByTx(s, x) = Nil THEN s ELSE ProcessCancelRoc(s, ByTx(s, x), res)

\* p2p_process_cleanup_tx_queue and p2p_tx_timeout free without the identifier.
DropTx(s, S) ==
  [s EXCEPT !.txQRoc = Without(@, S), !.txQAck = Without(@, S),
            !.tx = [x \in Txs |-> IF x \in S THEN FreeTx ELSE @[x]]]

-----------------------------------------------------------------------------
(* User threads. *)

Post(cmd) == Len(cmds) < MaxCmds /\ cmds' = Append(cmds, cmd)

UcfgRocReq(r, req) ==
  /\ soc.roc[r].st = "FREE"
  /\ Post([op |-> "roc", arg |-> r])
  /\ soc' = [soc EXCEPT !.ids = @ \cup {r},
                        !.roc[r] = [FreeRoc EXCEPT !.st = "POSTED", !.id = r,
                                                   !.link = req.link, !.chan = req.chan]]
  /\ UNCHANGED <<scans, expired, failed>>

UcfgMgmtTx(x, f) ==
  /\ soc.tx[x].st = "FREE"
  /\ Post([op |-> "tx", arg |-> x])
  /\ soc' = [soc EXCEPT !.ids = IF f.noAck THEN @ ELSE @ \cup {x},
                        !.tx[x] = [FreeTx EXCEPT !.st = "USED", !.link = f.link, !.chan = f.chan, !.noAck = f.noAck]]
  /\ UNCHANGED <<scans, expired, failed>>

\* The user names a request by its identifier; the pointer behind it is posted.
UcfgCancel(p) ==
  /\ p \in soc.ids
  /\ Post([op |-> IF p \in Rocs THEN "cancelRoc" ELSE "cancelTx", arg |-> p])
  /\ UNCHANGED <<soc, scans, expired, failed>>

CleanupRocSync(v) ==
  /\ soc.cleaner = Nil
  /\ Post([op |-> "cleanupRoc", arg |-> v])
  /\ soc' = [soc EXCEPT !.cleaner = v, !.cleanupDone = FALSE]
  /\ UNCHANGED <<scans, expired, failed>>

\* The sleep ends with the event, or after P2P_WAIT_CLEANUP_ROC.
CleanupRocEnd ==
  /\ soc.cleaner # Nil
  /\ soc' = [soc EXCEPT !.cleaner = Nil, !.cleanupDone = FALSE]
  /\ UNCHANGED <<cmds, scans, expired, failed>>

CleanupTx(v) ==
  /\ Post([op |-> "cleanupTx", arg |-> v])
  /\ UNCHANGED <<soc, scans, expired, failed>>

-----------------------------------------------------------------------------
(* The scheduler thread. *)

Spare(s) == LET free == {r \in Rocs : s.roc[r].st = "FREE"} IN IF free = {} THEN {Nil} ELSE free

\* What a command may lead to, as pairs of a state and the result of the one
\* call that may fail.
Handled(s, cmd) ==
  CASE cmd.op = "roc" -> {<<ProcessRocReq(s, cmd.arg, res), res>> : res \in Outcomes({"start", "rx"})}
    [] cmd.op = "cancelRoc" -> {<<ProcessCancelRoc(s, cmd.arg, res), res>> : res \in Outcomes({"abort"})}
    [] cmd.op = "cancelTx" -> {<<ProcessTxCancel(s, cmd.arg, res), res>> : res \in Outcomes({"abort"})}
    [] cmd.op = "cleanupRoc" -> {<<CleanupRocQueue(s, cmd.arg, res), res>> : res \in Outcomes({"abort"})}
    [] cmd.op = "cleanupTx" -> {<<DropTx(s, {x \in In(s.txQRoc \o s.txQAck) : s.tx[x].link = cmd.arg}), "ok">>}
    [] cmd.op = "tx" ->
         {<<ProcessMgmtTx(s, cmd.arg, r, res), res>> : r \in Spare(s), res \in Outcomes({"tx", "start", "rx"})}

CountFail(res) == failed + (IF res = "ok" THEN 0 ELSE 1)

\* The scan component starts a scan for every request that begins.
Scanning(s, t) ==
  IF \E r \in Rocs : t.roc[r].st = "REQUESTED" /\ s.roc[r].st # "REQUESTED"
  THEN Append(scans, "queued") ELSE scans

ProcessCmd ==
  /\ cmds # <<>>
  /\ \E h \in Handled(soc, Head(cmds)) :
       /\ soc' = h[1]
       /\ scans' = Scanning(soc, soc')
       /\ failed' = CountFail(h[2])
  /\ cmds' = Tail(cmds)
  /\ UNCHANGED <<expired>>

\* p2p_scan_event_cb: an event goes to the current request, whichever scan
\* it comes from.
ScanStarted(i) ==
  /\ i \in DOMAIN scans /\ scans[i] = "queued"
  /\ scans' = [scans EXCEPT ![i] = "started"]
  /\ soc' = IF Current(soc) = Nil THEN soc ELSE [soc EXCEPT !.roc[Current(soc)].st = "STARTED"]
  /\ UNCHANGED <<cmds, expired, failed>>

ScanForeignChannel(i) ==
  /\ i \in DOMAIN scans /\ scans[i] = "started"
  /\ scans' = [scans EXCEPT ![i] = "foreign"]
  /\ \E res \in Outcomes({"tx"}) :
       /\ soc' = IF Current(soc) = Nil THEN soc ELSE ReadyOnChannel(soc, Current(soc), res)
       /\ failed' = CountFail(res)
  /\ UNCHANGED <<cmds, expired>>

\* Completed, dequeued or failed to start.
ScanEnds(i) ==
  /\ i \in DOMAIN scans
  /\ LET left == SubSeq(scans, 1, i - 1) \o SubSeq(scans, i + 1, Len(scans))
     IN  \E res \in Outcomes({"start", "rx"}) :
           IF Current(soc) = Nil THEN soc' = soc /\ scans' = left /\ failed' = failed
           ELSE /\ soc' = ScanComplete(soc, Current(soc), res)
                /\ scans' = IF Current(soc') = Nil THEN left ELSE Append(left, "queued")
                /\ failed' = CountFail(res)
  /\ UNCHANGED <<cmds, expired>>

RocTimerFires(r) ==
  /\ soc.roc[r].timer = "running" /\ expired < MaxLate
  /\ soc' = [soc EXCEPT !.roc[r].timer = "stopped"]
  /\ expired' = expired + 1
  /\ UNCHANGED <<cmds, scans, failed>>

\* p2p_roc_timeout is told the soc, not the request.
RocTimeout ==
  /\ expired > 0
  /\ expired' = expired - 1
  /\ \E res \in Outcomes({"abort"}) :
       LET r == Current(soc)
       IN  IF r = Nil THEN UNCHANGED <<soc, failed>>
           ELSE IF soc.roc[r].st = "CANCEL_IN_PROG" THEN UNCHANGED <<soc, failed>>
           ELSE soc' = ExecuteCancelRoc(soc, r, res) /\ failed' = CountFail(res)
  /\ UNCHANGED <<cmds, scans>>

TxAck(x) ==
  /\ x \in In(soc.txQAck)
  /\ soc' = RemoveTx(soc, x)
  /\ UNCHANGED <<cmds, scans, expired, failed>>

TxTimerFires(x) ==
  /\ x \in In(soc.txQAck) /\ soc.tx[x].timer = "running"
  /\ soc' = [soc EXCEPT !.tx[x].timer = "stopped"]
  /\ UNCHANGED <<cmds, scans, expired, failed>>

\* p2p_tx_timeout: whatever waits with its timer stopped.
TxTimedOut(s) == {x \in In(s.txQAck) : s.tx[x].timer = "stopped"}

TxTimeout ==
  /\ TxTimedOut(soc) # {}
  /\ soc' = DropTx(soc, TxTimedOut(soc))
  /\ UNCHANGED <<cmds, scans, expired, failed>>

P2pNext ==
  \/ \E r \in Rocs, req \in RocReqs : UcfgRocReq(r, req)
  \/ \E x \in Txs, f \in Frames : UcfgMgmtTx(x, f)
  \/ \E p \in Rocs \cup Txs : UcfgCancel(p)
  \/ \E v \in Links : CleanupRocSync(v) \/ CleanupTx(v)
  \/ CleanupRocEnd
  \/ ProcessCmd
  \/ \E i \in DOMAIN scans : ScanStarted(i) \/ ScanForeignChannel(i) \/ ScanEnds(i)
  \/ \E r \in Rocs : RocTimerFires(r)
  \/ RocTimeout
  \/ \E x \in Txs : TxAck(x) \/ TxTimerFires(x)
  \/ TxTimeout

P2pSpec == P2pInit /\ [][P2pNext]_p2pVars

-----------------------------------------------------------------------------
\* Only the head of the queue is on air and no request is queued twice,
\* whatever order cancels, cleanups, timeouts, scan events and failures come
\* in (p2p_process_roc_req, p2p_process_scan_complete_evt).
OneOnAir ==
  \A i, j \in DOMAIN soc.rocQ :
    /\ i > 1 => soc.roc[soc.rocQ[i]].st = "IDLE"
    /\ soc.rocQ[i] = soc.rocQ[j] => i = j

\* Contexts are neither leaked nor used after they are freed: one that is
\* allocated is in the message that carries it or in a queue, and what is in
\* a queue is allocated.
Carried(op) == {cmds[i].arg : i \in {j \in DOMAIN cmds : cmds[j].op = op}}
ContextsQueued ==
  /\ In(soc.rocQ) = {r \in Rocs : soc.roc[r].st \notin {"FREE", "POSTED"}}
  /\ Carried("roc") = {r \in Rocs : soc.roc[r].st = "POSTED"}
  /\ {x \in Txs : soc.tx[x].st = "USED"} = Carried("tx") \cup In(soc.txQRoc) \cup In(soc.txQAck)
  /\ Carried("tx") \cap In(soc.txQRoc \o soc.txQAck) = {}
  /\ In(soc.txQRoc) \cap In(soc.txQAck) = {}

\* While a request is on air the SoC may not sleep (roc_runtime_lock) and
\* probe requests are received, unless the registration made for this very
\* request was refused; the end of an earlier request takes neither away.
AwakeOnAir == Current(soc) # Nil => soc.awake /\ soc.rx # "off"

\* The queue moves: as long as no call has failed the head is on air and a
\* scan is under way whose end will pass the air on.  After a refused start
\* or abort the requests behind it are not executed by anyone.
HeadMoves == soc.rocQ # <<>> /\ failed = 0 => Current(soc) = Head(soc.rocQ) /\ scans # <<>>

=============================================================================
