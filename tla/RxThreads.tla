----------------------------- MODULE RxThreads -----------------------------
(***************************************************************************)
(* core/dp/txrx3.0: the receive threads and the buffer refill thread, and  *)
(* those who talk to them through event bits and completions: the softirq  *)
(* that queues packets, the deletion of a vdev, and HDD's suspend, resume  *)
(* and tear-down (dp_txrx_suspend, _resume, _deinit), which handles the    *)
(* refill thread first and the receive threads next.                       *)
(*                                                                         *)
(* A thread's step is one access to what it shares with the others.        *)
(***************************************************************************)
EXTENDS Naturals, Sequences, Queues

CONSTANTS
  RxThr,       \* struct dp_rx_thread
  RefillThr,   \* struct dp_rx_refill_thread
  Vdevs,
  Timeouts,    \* whether a wait may time out although the thread it waits for runs
  MaxNbufs     \* bound: packets in a thread's nbuf_queue

ASSUME RxAssumption == RxThr \cap RefillThr = {} /\ Timeouts \in BOOLEAN /\ MaxNbufs \in Nat \ {0}

VARIABLES
  thr,     \* the threads
  grp,     \* state of the receive threads together, and of the refill thread
  ctl,     \* HDD's power and life-cycle thread
  vdev,    \* "up", "flushing" or "gone"
  del      \* the threads the vdev being deleted is still to be flushed from

rxVars == <<thr, grp, ctl, vdev, del>>

Threads == RxThr \cup RefillThr
Groups == {"refill", "rx"}
Members(g) == IF g = "rx" THEN RxThr ELSE RefillThr

\* dp_rx_tm_thread_init, dp_rx_refill_thread_init
NewThread == [pc |-> "sleep", bits |-> {}, events |-> {}, nbufq |-> <<>>, held |-> {},
              gro |-> {}, flushInd |-> FALSE, flush |-> FALSE]

RxInit ==
  /\ thr = [t \in Threads |-> NewThread]
  /\ grp = [g \in Groups |-> "RUNNING"]
  /\ ctl = [op |-> "none", g |-> "refill", suspended |-> FALSE]
  /\ vdev = [v \in Vdevs |-> "up"]
  /\ del = {}

-----------------------------------------------------------------------------
(* The threads. *)

At(t, pc) == thr[t].pc = pc
Go(t, pc) == [thr EXCEPT ![t].pc = pc]
HasBit(t, b) == b \in thr[t].bits
HasEvent(t, e) == e \in thr[t].events
SetBits(t, B) == [thr EXCEPT ![t].bits = @ \cup B]

\* Takes the bit and sets the event in two steps.
TakeBit(t, b, pc) == [thr EXCEPT ![t].bits = @ \ {b}, ![t].pc = pc]
SetEvent(t, e, pc) == [thr EXCEPT ![t].events = @ \cup {e}, ![t].pc = pc]

\* A wait for t that ends without its event.
MayTimeOut(t) == Timeouts \/ At(t, "parked")

OthersSame == UNCHANGED <<grp, ctl, vdev, del>>

\* dp_rx_thread_loop clears POST before it works, dp_rx_refill_thread_loop
\* after (RefillClear).
Wake(t) ==
  /\ At(t, "sleep")
  /\ \/ t \in RxThr /\ thr[t].bits \cap {"POST", "SUSPEND", "VDEV_DEL"} # {} /\ thr' = TakeBit(t, "POST", "woken")
     \/ t \in RefillThr /\ thr[t].bits \cap {"POST", "SUSPEND"} # {} /\ thr' = Go(t, "woken")

CheckShutdown(t) ==
  /\ At(t, "woken")
  /\ thr' = IF ~HasBit(t, "SHUTDOWN") THEN Go(t, "work")
            ELSE [thr EXCEPT ![t].pc = "exit", ![t].bits = @ \ {"SHUTDOWN", "SUSPEND"},
                             ![t].events = IF HasBit(t, "SUSPEND") THEN @ \cup {"suspend"} ELSE @]

Exit(t) == At(t, "exit") /\ thr' = SetEvent(t, "shutdown", "dead")

\* dp_rx_thread_process_nbufq takes a packet...
Dequeue(t) ==
  /\ At(t, "work") /\ t \in RxThr /\ thr[t].held = {}
  /\ thr' = IF thr[t].nbufq = <<>> THEN Go(t, "check")
            ELSE [thr EXCEPT ![t].nbufq = Tail(@), ![t].held = {Head(thr[t].nbufq)}]

\* ...and hands it to the stack, which may keep it in the thread's GRO list.
Deliver(t, keep) ==
  /\ At(t, "work") /\ thr[t].held # {}
  /\ thr' = [thr EXCEPT ![t].held = {},
                        ![t].gro = IF keep THEN @ \cup {v \in thr[t].held : vdev[v] # "gone"} ELSE @]

RefillWork(t) == At(t, "work") /\ t \in RefillThr /\ thr' = Go(t, "suspend?")

\* dp_rx_should_flush
ShouldFlush(t) ==
  /\ At(t, "check")
  /\ thr' = [thr EXCEPT ![t].pc = "flush", ![t].flush = thr[t].flushInd \/ HasBit(t, "VDEV_DEL")]

\* dp_rx_thread_gro_flush and the reset of gro_flush_ind, in one step: only
\* this thread adds to its GRO list, so that an indication between the two
\* asks for nothing the flush has not done.
GroFlush(t) ==
  /\ At(t, "flush")
  /\ thr' = IF thr[t].flush
            THEN [thr EXCEPT ![t].pc = "del?", ![t].gro = {}, ![t].flushInd = FALSE, ![t].flush = FALSE]
            ELSE Go(t, "del?")

CheckVdevDel(t) ==
  /\ At(t, "del?")
  /\ thr' = IF HasBit(t, "VDEV_DEL") THEN TakeBit(t, "VDEV_DEL", "signal") ELSE Go(t, "suspend?")

SignalVdevDel(t) == At(t, "signal") /\ thr' = SetEvent(t, "vdevDel", "suspend?")

\* Mutant: the receive threads, too, clear POST after they have worked.
AgainClears(t) == "clear"

\* The end of a round.
Again(t) == IF t \in RxThr THEN "sleep" ELSE "clear"

CheckSuspend(t) ==
  /\ At(t, "suspend?")
  /\ thr' = IF HasBit(t, "SUSPEND") THEN TakeBit(t, "SUSPEND", "announce") ELSE Go(t, Again(t))

Announce(t) == At(t, "announce") /\ thr' = SetEvent(t, "suspend", "parked")

Unpark(t) ==
  /\ At(t, "parked") /\ HasEvent(t, "resume")
  /\ thr' = [thr EXCEPT ![t].pc = Again(t), ![t].events = @ \ {"resume"}]

RefillClear(t) == At(t, "clear") /\ thr' = TakeBit(t, "POST", "sleep")

ThreadStep(t) ==
  /\ \/ Wake(t) \/ CheckShutdown(t) \/ Exit(t)
     \/ Dequeue(t) \/ Deliver(t, TRUE) \/ Deliver(t, FALSE) \/ RefillWork(t)
     \/ ShouldFlush(t) \/ GroFlush(t) \/ CheckVdevDel(t) \/ SignalVdevDel(t)
     \/ CheckSuspend(t) \/ Announce(t) \/ Unpark(t) \/ RefillClear(t)
  /\ OthersSame

-----------------------------------------------------------------------------
(* Softirqs. *)

Alive(t) == grp[IF t \in RxThr THEN "rx" ELSE "refill"] # "INVALID"

\* dp_rx_tm_enqueue_pkt: the queue, then POST.
Enqueue(t, v) ==
  /\ t \in RxThr /\ Alive(t) /\ vdev[v] = "up" /\ Len(thr[t].nbufq) < MaxNbufs
  /\ thr' = [thr EXCEPT ![t].nbufq = Append(@, v), ![t].bits = @ \cup {"POST"}]
  /\ OthersSame

\* dp_rx_tm_gro_flush_ind
GroFlushInd(t) ==
  /\ t \in RxThr /\ Alive(t)
  /\ thr' = [SetBits(t, {"POST"}) EXCEPT ![t].flushInd = TRUE]
  /\ OthersSame

\* dp_rx_refill_thread_schedule
RefillSchedule(t) ==
  /\ t \in RefillThr /\ Alive(t)
  /\ thr' = SetBits(t, {"POST"})
  /\ OthersSame

-----------------------------------------------------------------------------
(* A vdev is deleted: dp_rx_tm_flush_by_vdev_id, thread by thread. *)

DelBegin(v) ==
  /\ vdev[v] = "up" /\ del = {} /\ grp["rx"] # "INVALID"
  /\ \A u \in Vdevs : vdev[u] # "flushing"
  /\ vdev' = [vdev EXCEPT ![v] = "flushing"]
  /\ del' = RxThr \X {"todo"}
  /\ UNCHANGED <<thr, grp, ctl>>

NotOf(v, q) == Select(q, Vdevs \ {v})

DelPurge(v, t) ==
  /\ vdev[v] = "flushing" /\ <<t, "todo">> \in del
  /\ \A d \in del : d[2] # "wait"
  /\ thr' = [thr EXCEPT ![t].nbufq = NotOf(v, @), ![t].events = @ \ {"vdevDel"},
                        ![t].bits = @ \cup {"VDEV_DEL"}]
  /\ del' = (del \ {<<t, "todo">>}) \cup {<<t, "wait">>}
  /\ UNCHANGED <<grp, ctl, vdev>>

\* The wait ends with the event, or after DP_RX_THREAD_WAIT_TIMEOUT with a
\* flush of the thread's GRO list from here.
DelFlushed(t) ==
  /\ <<t, "wait">> \in del /\ (HasEvent(t, "vdevDel") \/ MayTimeOut(t))
  /\ thr' = [thr EXCEPT ![t].gro = IF HasEvent(t, "vdevDel") THEN @ ELSE {},
                        ![t].events = @ \ {"vdevDel"}]
  /\ del' = del \ {<<t, "wait">>}
  /\ UNCHANGED <<grp, ctl, vdev>>

\* The vdev and its net_device are freed, and come again (not during a
\* tear-down, which HDD makes under a transition of its own).
DelEnd(v) ==
  /\ vdev[v] = "flushing" /\ del = {}
  /\ vdev' = [vdev EXCEPT ![v] = "gone"]
  /\ UNCHANGED <<thr, grp, ctl, del>>

VdevCreate(v) ==
  /\ vdev[v] = "gone" /\ grp["rx"] # "INVALID" /\ ctl.op \notin {"shutdown", "post", "gone?"}
  /\ vdev' = [vdev EXCEPT ![v] = "up"]
  /\ UNCHANGED <<thr, grp, ctl, del>>

-----------------------------------------------------------------------------
(* HDD: __wlan_hdd_cfg80211_suspend_wlan, _resume_wlan, cds_dp_close. *)

Ctl(op, g) == ctl' = [ctl EXCEPT !.op = op, !.g = g]
Finish(suspended) == ctl' = [op |-> "none", g |-> "refill", suspended |-> suspended]
VdevsSame == UNCHANGED <<vdev, del>>

Suspend ==
  /\ ctl.op = "none" /\ ~ctl.suspended /\ grp["rx"] # "INVALID"
  /\ Ctl("suspend", "refill")
  /\ UNCHANGED <<thr, grp>> /\ VdevsSame

\* Mutant: an old resume_event is not reset.
ArmedStale(r) == [r EXCEPT !.events = @ \ {"suspend"}, !.bits = @ \cup {"SUSPEND"}]

Armed(r) == [r EXCEPT !.events = @ \ {"resume", "suspend"}, !.bits = @ \cup {"SUSPEND"}]

\* dp_rx_refill_thread_suspend, dp_rx_tm_suspend.  Who is suspended already
\* refuses, and HDD goes on without a resume.
SuspendArm ==
  /\ ctl.op = "suspend"
  /\ IF grp[ctl.g] = "SUSPENDED"
     THEN Finish(FALSE) /\ UNCHANGED <<thr, grp>>
     ELSE /\ grp' = [grp EXCEPT ![ctl.g] = "SUSPENDING"]
          /\ thr' = [t \in Threads |-> IF t \in Members(ctl.g) THEN Armed(thr[t]) ELSE thr[t]]
          /\ Ctl("wait", ctl.g)
  /\ VdevsSame

SuspendDone ==
  /\ ctl.op = "wait" /\ \A t \in Members(ctl.g) : HasEvent(t, "suspend")
  /\ grp' = [grp EXCEPT ![ctl.g] = "SUSPENDED"]
  /\ IF ctl.g = "refill" THEN Ctl("suspend", "rx") ELSE Finish(TRUE)
  /\ UNCHANGED thr /\ VdevsSame

\* Mutant: the bit is taken back, the event is not set.
ResumedSilently(g) ==
  [t \in Threads |-> IF t \notin Members(g) THEN thr[t] ELSE [thr[t] EXCEPT !.bits = @ \ {"SUSPEND"}]]

\* dp_rx_tm_resume, dp_rx_refill_thread_resume
Resumed(g) ==
  [t \in Threads |-> IF t \notin Members(g) THEN thr[t]
                     ELSE [thr[t] EXCEPT !.bits = @ \ {"SUSPEND"}, !.events = @ \cup {"resume"}]]

\* DP_RX_THREAD_WAIT_TIMEOUT: the threads of this call are resumed, and
\* resume_ol_rx does not resume those of the call before.
SuspendTimeout ==
  /\ ctl.op = "wait" /\ \E t \in Members(ctl.g) : ~HasEvent(t, "suspend") /\ MayTimeOut(t)
  /\ thr' = Resumed(ctl.g)
  /\ grp' = [grp EXCEPT ![ctl.g] = "RUNNING"]
  /\ Finish(FALSE)
  /\ VdevsSame

\* dp_txrx_resume, on resume and when the firmware has crashed.
Resume ==
  /\ ctl.op = "none" /\ grp["refill"] \in {"SUSPENDED", "SUSPENDING"}
  /\ thr' = Resumed("refill")
  /\ grp' = [grp EXCEPT !["refill"] = "RUNNING"]
  /\ Ctl("resume", "rx")
  /\ VdevsSame

ResumeRx ==
  /\ ctl.op = "resume"
  /\ IF grp["rx"] = "SUSPENDED"
     THEN thr' = Resumed("rx") /\ grp' = [grp EXCEPT !["rx"] = "RUNNING"]
     ELSE UNCHANGED <<thr, grp>>
  /\ Finish(FALSE)
  /\ VdevsSame

\* dp_rx_refill_thread_deinit, dp_rx_tm_shutdown: SHUTDOWN, then POST.
Deinit ==
  /\ ctl.op = "none" /\ ~ctl.suspended /\ grp["rx"] # "INVALID"
  /\ del = {} /\ \A v \in Vdevs : vdev[v] = "gone"
  /\ Ctl("shutdown", "refill")
  /\ UNCHANGED <<thr, grp>> /\ VdevsSame

ToMembers(bit) == [t \in Threads |-> IF t \in Members(ctl.g) THEN [thr[t] EXCEPT !.bits = @ \cup {bit}] ELSE thr[t]]

Shutdown ==
  /\ ctl.op = "shutdown"
  /\ thr' = ToMembers("SHUTDOWN")
  /\ Ctl("post", ctl.g)
  /\ UNCHANGED grp /\ VdevsSame

ShutdownPost ==
  /\ ctl.op = "post"
  /\ thr' = ToMembers("POST")
  /\ Ctl("gone?", ctl.g)
  /\ UNCHANGED grp /\ VdevsSame

ShutdownDone ==
  /\ ctl.op = "gone?" /\ \A t \in Members(ctl.g) : HasEvent(t, "shutdown")
  /\ grp' = [grp EXCEPT ![ctl.g] = "INVALID"]
  /\ IF ctl.g = "refill" THEN Ctl("shutdown", "rx") ELSE Finish(FALSE)
  /\ UNCHANGED thr /\ VdevsSame

\* dp_txrx_init
TxrxInit ==
  /\ ctl.op = "none" /\ grp["rx"] = "INVALID"
  /\ thr' = [t \in Threads |-> NewThread]
  /\ grp' = [g \in Groups |-> "RUNNING"]
  /\ UNCHANGED ctl /\ VdevsSame

CtlStep ==
  \/ Suspend \/ SuspendArm \/ SuspendDone \/ SuspendTimeout \/ Resume \/ ResumeRx
  \/ Deinit \/ Shutdown \/ ShutdownPost \/ ShutdownDone \/ TxrxInit

RxNext ==
  \/ \E t \in Threads :
       \/ ThreadStep(t) \/ GroFlushInd(t) \/ RefillSchedule(t) \/ DelFlushed(t)
       \/ \E v \in Vdevs : Enqueue(t, v) \/ DelPurge(v, t)
  \/ \E v \in Vdevs : DelBegin(v) \/ DelEnd(v) \/ VdevCreate(v)
  \/ CtlStep

\* Threads run, and HDD's thread goes on with what it has begun.
RxFairness ==
  /\ \A t \in Threads : WF_rxVars(ThreadStep(t))
  /\ WF_rxVars(SuspendArm \/ SuspendDone \/ SuspendTimeout \/ ResumeRx)
  /\ WF_rxVars(Shutdown \/ ShutdownPost \/ ShutdownDone)

RxSpec == RxInit /\ [][RxNext]_rxVars
RxFairSpec == RxSpec /\ RxFairness

-----------------------------------------------------------------------------
\* While HDD believes the threads to be suspended each of them is parked and
\* stays so until the resume, whatever suspensions timed out before and
\* however late the threads answered them (dp_rx_tm_suspend).
SuspendedIsParked ==
  \A g \in Groups, t \in Threads :
    grp[g] = "SUSPENDED" /\ t \in Members(g) => At(t, "parked") /\ ~HasEvent(t, "resume")

\* Nothing is left undone by a receive thread that sleeps: packets in its
\* queue, a flush it was asked for, a vdev that waits for it or a shutdown
\* have their wake-up set (dp_rx_thread_loop).
WakeupPending ==
  \A t \in RxThr :
    At(t, "sleep") =>
      /\ thr[t].nbufq # <<>> \/ thr[t].flushInd => HasBit(t, "POST")
      /\ <<t, "wait">> \in del => HasBit(t, "VDEV_DEL") \/ HasEvent(t, "vdevDel")
      /\ HasBit(t, "SHUTDOWN") => HasBit(t, "POST") \/ ctl.op = "post"

\* Nobody is parked for ever while HDD is awake: a receive thread that is
\* parked has its resume coming, or the suspension is still under way.
ParkedIsResumed ==
  \A t \in RxThr :
    At(t, "parked") /\ ctl.op = "none" /\ ~ctl.suspended => HasEvent(t, "resume")

\* dp_rx_thread.c: the function "will notify and wait the TX thread to flush
\* the packets in the NAPI RX GRO hash list": no packet of a vdev that is gone
\* is left in a thread's GRO list.
GoneIsFlushed ==
  \A v \in Vdevs, t \in RxThr :
    vdev[v] = "gone" => v \notin thr[t].gro

\* dp_rx_refill_thread_deinit waits, without a time limit, for the
\* "shutdown_event: handle of Event for DP Rx refill thread to signal
\* shutdown": a tear-down ends.
DeinitEnds == ctl.op = "gone?" ~> ctl.op # "gone?"

=============================================================================
