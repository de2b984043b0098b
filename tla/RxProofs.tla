------------------------------ MODULE RxProofs ------------------------------
(***************************************************************************)
(* RxThreads for any number of receive and refill threads, vdevs and       *)
(* queue lengths, with and without time-outs: what it says of suspensions, *)
(* wake-ups and resumes is an invariant.                                   *)
(*                                                                         *)
(* The inductive invariant RxInv says of each thread by itself what it may *)
(* rely on while HDD's thread is where it is (ThreadOK), and of HDD's      *)
(* thread in which order it takes the groups (CtlOK).  A thread's step     *)
(* changes one thread record and nothing else, so each of those is one     *)
(* lemma about that record; a step of HDD's thread changes all members of  *)
(* a group alike.                                                          *)
(***************************************************************************)
EXTENDS RxThreads, QueueLemmas, TLAPS

\* Where a thread may be in its loop.
PCs == {"sleep", "woken", "work", "check", "flush", "del?", "signal", "suspend?", "announce",
        "parked", "clear", "exit", "dead"}
\* struct dp_rx_thread or dp_rx_refill_thread.
Thread == [pc : PCs, bits : SUBSET {"POST", "SUSPEND", "VDEV_DEL", "SHUTDOWN"},
           events : SUBSET {"suspend", "resume", "vdevDel", "shutdown"},
           nbufq : Seq(Vdevs), held : SUBSET Vdevs, gro : SUBSET Vdevs,
           flushInd : BOOLEAN, flush : BOOLEAN]

\* What HDD's thread is doing, and to which group.
Control == [op : {"none", "suspend", "wait", "resume", "shutdown", "post", "gone?"},
            g : Groups, suspended : BOOLEAN]

\* Every variable holds values of its type.
RxTypeOK ==
  /\ thr \in [Threads -> Thread]
  /\ grp \in [Groups -> {"RUNNING", "SUSPENDING", "SUSPENDED", "INVALID"}]
  /\ ctl \in Control
  /\ vdev \in [Vdevs -> {"up", "flushing", "gone"}]
  /\ del \subseteq RxThr \X {"todo", "wait"}

\* The thread's group.
GroupOf(t) == IF t \in RxThr THEN "rx" ELSE "refill"
\* dp_rx_tm_deinit is under way...
TearingDown == ctl.op \in {"shutdown", "post", "gone?"}
\* ...and has set SHUTDOWN in the threads of g.
Ordered(g) == ctl.op \in {"post", "gone?"} /\ ctl.g = g
\* A suspension of g is under way, or complete.
InSuspension(g) == (ctl.op = "wait" /\ ctl.g = g) \/ grp[g] = "SUSPENDED"

\* HDD's thread: a tear-down is not begun while suspended, takes the refill
\* thread first and the receive threads next, and finds no vdev; the receive
\* threads are suspended just when HDD believes them to be.
CtlOK ==
  /\ TearingDown => grp[ctl.g] # "INVALID" /\ ~ctl.suspended
  /\ grp["refill"] = "INVALID" => grp["rx"] = "INVALID" \/ (TearingDown /\ ctl.g = "rx")
  /\ grp["rx"] = "INVALID" \/ (TearingDown /\ ctl.g = "rx") => grp["refill"] = "INVALID"
  /\ grp["rx"] = "INVALID" => ctl.op = "none" /\ ~ctl.suspended
  /\ TearingDown \/ grp["rx"] = "INVALID" => del = {} /\ \A v \in Vdevs : vdev[v] = "gone"
  /\ grp["rx"] = "SUSPENDED" <=> ctl.suspended
  /\ ctl.suspended => ctl.op \in {"none", "resume"}

\* A thread that was told to shut down belongs to the group HDD is taking
\* down, and only such a thread has left its loop.
ShutsDown(t) ==
  /\ HasBit(t, "SHUTDOWN") => Ordered(GroupOf(t))
  /\ thr[t].pc \in {"exit", "dead"} =>
       ~HasBit(t, "SHUTDOWN") /\ (Ordered(GroupOf(t)) \/ grp[GroupOf(t)] = "INVALID")
  /\ HasEvent(t, "shutdown") => At(t, "dead")

\* SuspendedIsParked, and what leads to it: while HDD waits for the thread
\* there is no stale resume_event, and the event it waits for comes from one
\* that is parked.
Suspends(t) ==
  /\ grp[GroupOf(t)] = "SUSPENDED" => At(t, "parked") /\ ~HasEvent(t, "resume")
  /\ ctl.op = "wait" /\ ctl.g = GroupOf(t) =>
       ~HasEvent(t, "resume") /\ (HasEvent(t, "suspend") => At(t, "parked"))

\* A receive thread that is parked, or on its way there, without its resume
\* is in a suspension that HDD knows of.
Resumes(t) ==
  /\ HasBit(t, "SUSPEND") => InSuspension("rx")
  /\ thr[t].pc \in {"announce", "parked"} /\ ~HasEvent(t, "resume") => InSuspension("rx")

\* WakeupPending, and where in the loop a thread is that has taken the
\* wake-up and not yet done the work.
SeesWork(t) ==
  /\ thr[t].nbufq # <<>> => HasBit(t, "POST") \/ thr[t].pc \in {"woken", "work", "exit", "dead"}
  /\ thr[t].flushInd => \/ HasBit(t, "POST") \/ thr[t].pc \in {"woken", "work", "check", "exit", "dead"}
                        \/ At(t, "flush") /\ thr[t].flush
  /\ <<t, "wait">> \in del => HasBit(t, "VDEV_DEL") \/ HasEvent(t, "vdevDel") \/ At(t, "signal")
  /\ HasBit(t, "SHUTDOWN") => HasBit(t, "POST") \/ ctl.op = "post" \/ At(t, "woken")
  /\ ~At(t, "clear")

\* The inductive invariant.
ThreadOK(t) == ShutsDown(t) /\ Suspends(t) /\ (t \in RxThr => Resumes(t) /\ SeesWork(t))

\* The inductive invariant.
RxInv == RxTypeOK /\ CtlOK /\ \A t \in Threads : ThreadOK(t)

-----------------------------------------------------------------------------
\* A thread is in one group.
LEMMA MembersOf == \A t \in Threads, g \in Groups : t \in Members(g) <=> GroupOf(t) = g
BY RxAssumption DEF Threads, Groups, Members, GroupOf

\* dp_rx_tm_thread_init leaves threads that satisfy the invariant.
LEMMA InitOK == RxInit => RxInv
BY DEF Control, RxInit, RxInv, RxTypeOK, CtlOK, ThreadOK, ShutsDown, Suspends, Resumes, SeesWork, Thread, PCs,
       NewThread, At, HasBit, HasEvent, GroupOf, Groups, TearingDown, Ordered, InSuspension, Threads

\* A step that changed the thread t keeps the invariant as far as it is about t.
StepOK(t) == thr' \in [Threads -> Thread] /\ ThreadOK(t)' /\ \A u \in Threads \ {t} : thr'[u] = thr[u]

\* Replacing the record of one thread.
LEMMA Update == ASSUME RxTypeOK, NEW t \in Threads, NEW r \in Thread, thr' = [thr EXCEPT ![t] = r]
                PROVE  thr' \in [Threads -> Thread] /\ thr'[t] = r /\ \A u \in Threads \ {t} : thr'[u] = thr[u]
BY DEF RxTypeOK

-----------------------------------------------------------------------------
(* One lemma for each step of a thread, and for the softirqs: n is the     *)
(* record the step leaves.                                                 *)

\* The wake-up of dp_rx_thread_loop, dp_rx_refill_thread_loop.
LEMMA WakeOK == ASSUME RxTypeOK, CtlOK, NEW t \in Threads, ThreadOK(t), Wake(t), OthersSame
                PROVE  StepOK(t)
<1> DEFINE r == thr[t]
           n == IF t \in RxThr THEN [r EXCEPT !.bits = @ \ {"POST"}, !.pc = "woken"]
                ELSE [r EXCEPT !.pc = "woken"]
<1>1. r \in Thread
  BY DEF RxTypeOK
<1>2. RxThr \cap RefillThr = {}
  BY RxAssumption
<1>3. thr' = [thr EXCEPT ![t] = n]
  BY <1>2, Zenon DEF Wake, TakeBit, Go, RxTypeOK
<1>4. n \in Thread
  <2> HIDE DEF r
  <2> QED BY <1>1 DEF Thread, PCs
<1>5. /\ n.pc = "woken" /\ n.bits = (IF t \in RxThr THEN r.bits \ {"POST"} ELSE r.bits) /\ n.events = r.events
      /\ n.nbufq = r.nbufq /\ n.flushInd = r.flushInd /\ n.flush = r.flush
  <2> HIDE DEF r
  <2> QED BY <1>1 DEF Thread
<1> HIDE DEF n
<1>6. thr' \in [Threads -> Thread] /\ thr'[t] = n /\ \A u \in Threads \ {t} : thr'[u] = thr[u]
  BY <1>3, <1>4, Update
<1>7. ThreadOK(t)'
  BY <1>1, <1>5, <1>6, RxAssumption DEF Wake, OthersSame, ThreadOK, ShutsDown, Suspends, Resumes, SeesWork,
     At, HasBit, HasEvent, GroupOf, Ordered, InSuspension, Threads, Again
<1>8. QED
  BY <1>6, <1>7 DEF StepOK

\* A thread that finds SHUTDOWN set leaves its loop.
LEMMA CheckShutdownOK == ASSUME RxTypeOK, CtlOK, NEW t \in Threads, ThreadOK(t), CheckShutdown(t), OthersSame
                         PROVE  StepOK(t)
<1> DEFINE r == thr[t]
           n == IF "SHUTDOWN" \notin r.bits THEN [r EXCEPT !.pc = "work"]
                ELSE [r EXCEPT !.pc = "exit", !.bits = @ \ {"SHUTDOWN", "SUSPEND"},
                               !.events = IF "SUSPEND" \in r.bits THEN @ \cup {"suspend"} ELSE @]
<1>1. r \in Thread
  BY DEF RxTypeOK
<1>2. thr' = [thr EXCEPT ![t] = n]
  BY Zenon DEF CheckShutdown, Go, HasBit, RxTypeOK
<1>3. n \in Thread
  <2> HIDE DEF r
  <2> QED BY <1>1 DEF Thread, PCs
<1>4. /\ n.pc = (IF "SHUTDOWN" \notin r.bits THEN "work" ELSE "exit")
      /\ n.bits = (IF "SHUTDOWN" \notin r.bits THEN r.bits ELSE r.bits \ {"SHUTDOWN", "SUSPEND"})
      /\ n.events = (IF {"SHUTDOWN", "SUSPEND"} \subseteq r.bits THEN r.events \cup {"suspend"} ELSE r.events)
      /\ n.nbufq = r.nbufq /\ n.flushInd = r.flushInd /\ n.flush = r.flush
  <2> HIDE DEF r
  <2> QED BY <1>1 DEF Thread
<1> HIDE DEF n
<1>5. thr' \in [Threads -> Thread] /\ thr'[t] = n /\ \A u \in Threads \ {t} : thr'[u] = thr[u]
  BY <1>2, <1>3, Update
<1>6. ThreadOK(t)'
  BY <1>1, <1>4, <1>5, RxAssumption
     DEF CheckShutdown, OthersSame, ThreadOK, ShutsDown, Suspends, Resumes, SeesWork,
     At, HasBit, HasEvent, GroupOf, Ordered, InSuspension, Threads, Again
<1>7. QED
  BY <1>5, <1>6 DEF StepOK

\* It announces its end and is gone.
LEMMA ExitOK == ASSUME RxTypeOK, CtlOK, NEW t \in Threads, ThreadOK(t), Exit(t), OthersSame
                PROVE  StepOK(t)
<1> DEFINE r == thr[t]
           n == [r EXCEPT !.events = @ \cup {"shutdown"}, !.pc = "dead"]
<1>1. r \in Thread
  BY DEF RxTypeOK
<1>2. thr' = [thr EXCEPT ![t] = n]
  BY Zenon DEF Exit, SetEvent, RxTypeOK
<1>3. n \in Thread
  <2> HIDE DEF r
  <2> QED BY <1>1 DEF Thread, PCs
<1>4. /\ n.pc = "dead" /\ n.bits = r.bits /\ n.events = r.events \cup {"shutdown"}
      /\ n.nbufq = r.nbufq /\ n.flushInd = r.flushInd /\ n.flush = r.flush
  <2> HIDE DEF r
  <2> QED BY <1>1 DEF Thread
<1> HIDE DEF n
<1>5. thr' \in [Threads -> Thread] /\ thr'[t] = n /\ \A u \in Threads \ {t} : thr'[u] = thr[u]
  BY <1>2, <1>3, Update
<1>6. ThreadOK(t)'
  BY <1>1, <1>4, <1>5, RxAssumption DEF Exit, OthersSame, ThreadOK, ShutsDown, Suspends, Resumes, SeesWork,
     At, HasBit, HasEvent, GroupOf, Ordered, InSuspension, Threads, Again
<1>7. QED
  BY <1>5, <1>6 DEF StepOK

\* dp_rx_thread_process_nbufq takes a packet: what is left in the queue is
\* still this round's work.
LEMMA DequeueOK == ASSUME RxTypeOK, CtlOK, NEW t \in Threads, ThreadOK(t), Dequeue(t), OthersSame
                   PROVE  StepOK(t)
<1> DEFINE r == thr[t]
           n == IF r.nbufq = <<>> THEN [r EXCEPT !.pc = "check"]
                ELSE [r EXCEPT !.nbufq = Tail(@), !.held = {Head(r.nbufq)}]
<1>1. r \in Thread
  BY DEF RxTypeOK
<1>2. thr' = [thr EXCEPT ![t] = n]
  BY Zenon DEF Dequeue, Go, RxTypeOK
<1>3. n \in Thread
  <2> HIDE DEF r
  <2>1. r.nbufq # <<>> => Tail(r.nbufq) \in Seq(Vdevs) /\ {Head(r.nbufq)} \subseteq Vdevs
    BY <1>1 DEF Thread
  <2> QED BY <1>1, <2>1 DEF Thread, PCs
<1>4. /\ n.pc = (IF r.nbufq = <<>> THEN "check" ELSE r.pc) /\ n.bits = r.bits /\ n.events = r.events
      /\ n.nbufq = (IF r.nbufq = <<>> THEN <<>> ELSE Tail(r.nbufq))
      /\ n.flushInd = r.flushInd
      /\ n.flush = r.flush
  <2> HIDE DEF r
  <2> QED BY <1>1 DEF Thread
<1> HIDE DEF n
<1>5. thr' \in [Threads -> Thread] /\ thr'[t] = n /\ \A u \in Threads \ {t} : thr'[u] = thr[u]
  BY <1>2, <1>3, Update
<1>6. ThreadOK(t)'
  BY <1>1, <1>4, <1>5, RxAssumption DEF Dequeue, OthersSame, ThreadOK, ShutsDown, Suspends, Resumes, SeesWork,
     At, HasBit, HasEvent, GroupOf, Ordered, InSuspension, Threads, Again
<1>7. QED
  BY <1>5, <1>6 DEF StepOK

\* The packet is handed to the stack.
LEMMA DeliverOK ==
  ASSUME RxTypeOK, CtlOK, NEW t \in Threads, NEW keep \in BOOLEAN, ThreadOK(t), Deliver(t, keep), OthersSame
                   PROVE  StepOK(t)
<1> DEFINE r == thr[t]
           n == [r EXCEPT !.held = {}, !.gro = IF keep THEN @ \cup {v \in r.held : vdev[v] # "gone"} ELSE @]
<1>1. r \in Thread
  BY DEF RxTypeOK
<1>2. thr' = [thr EXCEPT ![t] = n]
  BY Zenon DEF Deliver, RxTypeOK
<1>3. n \in Thread
  <2> HIDE DEF r
  <2> QED BY <1>1 DEF Thread, PCs
<1>4. /\ n.pc = r.pc /\ n.bits = r.bits /\ n.events = r.events
      /\ n.nbufq = r.nbufq /\ n.flushInd = r.flushInd /\ n.flush = r.flush
  <2> HIDE DEF r
  <2> QED BY <1>1 DEF Thread
<1> HIDE DEF n
<1>5. thr' \in [Threads -> Thread] /\ thr'[t] = n /\ \A u \in Threads \ {t} : thr'[u] = thr[u]
  BY <1>2, <1>3, Update
<1>6. ThreadOK(t)'
  BY <1>1, <1>4, <1>5, RxAssumption DEF Deliver, OthersSame, ThreadOK, ShutsDown, Suspends, Resumes, SeesWork,
     At, HasBit, HasEvent, GroupOf, Ordered, InSuspension, Threads, Again
<1>7. QED
  BY <1>5, <1>6 DEF StepOK

\* The refill thread's work.
LEMMA RefillWorkOK == ASSUME RxTypeOK, CtlOK, NEW t \in Threads, ThreadOK(t), RefillWork(t), OthersSame
                      PROVE  StepOK(t)
<1> DEFINE r == thr[t]
           n == [r EXCEPT !.pc = "suspend?"]
<1>1. r \in Thread
  BY DEF RxTypeOK
<1>2. thr' = [thr EXCEPT ![t] = n]
  BY Zenon DEF RefillWork, Go, RxTypeOK
<1>3. n \in Thread
  <2> HIDE DEF r
  <2> QED BY <1>1 DEF Thread, PCs
<1>4. /\ n.pc = "suspend?" /\ n.bits = r.bits /\ n.events = r.events
      /\ n.nbufq = r.nbufq /\ n.flushInd = r.flushInd /\ n.flush = r.flush
  <2> HIDE DEF r
  <2> QED BY <1>1 DEF Thread
<1> HIDE DEF n
<1>5. thr' \in [Threads -> Thread] /\ thr'[t] = n /\ \A u \in Threads \ {t} : thr'[u] = thr[u]
  BY <1>2, <1>3, Update
<1>6. ThreadOK(t)'
  BY <1>1, <1>4, <1>5, RxAssumption
     DEF RefillWork, OthersSame, ThreadOK, ShutsDown, Suspends, Resumes, SeesWork,
     At, HasBit, HasEvent, GroupOf, Ordered, InSuspension, Threads, Again
<1>7. QED
  BY <1>5, <1>6 DEF StepOK

\* dp_rx_should_flush takes the indication with it into the flush.
LEMMA ShouldFlushOK == ASSUME RxTypeOK, CtlOK, NEW t \in Threads, ThreadOK(t), ShouldFlush(t), OthersSame
                       PROVE  StepOK(t)
<1> DEFINE r == thr[t]
           n == [r EXCEPT !.pc = "flush", !.flush = r.flushInd \/ "VDEV_DEL" \in r.bits]
<1>1. r \in Thread
  BY DEF RxTypeOK
<1>2. thr' = [thr EXCEPT ![t] = n]
  BY Zenon DEF ShouldFlush, HasBit, RxTypeOK
<1>3. n \in Thread
  <2> HIDE DEF r
  <2> QED BY <1>1 DEF Thread, PCs
<1>4. /\ n.pc = "flush" /\ n.bits = r.bits /\ n.events = r.events
      /\ n.nbufq = r.nbufq /\ n.flushInd = r.flushInd /\ n.flush = (r.flushInd \/ "VDEV_DEL" \in r.bits)
  <2> HIDE DEF r
  <2> QED BY <1>1 DEF Thread
<1> HIDE DEF n
<1>5. thr' \in [Threads -> Thread] /\ thr'[t] = n /\ \A u \in Threads \ {t} : thr'[u] = thr[u]
  BY <1>2, <1>3, Update
<1>6. ThreadOK(t)'
  BY <1>1, <1>4, <1>5, RxAssumption
     DEF ShouldFlush, OthersSame, ThreadOK, ShutsDown, Suspends, Resumes, SeesWork,
     At, HasBit, HasEvent, GroupOf, Ordered, InSuspension, Threads, Again
<1>7. QED
  BY <1>5, <1>6 DEF StepOK

\* The flush.
LEMMA GroFlushOK == ASSUME RxTypeOK, CtlOK, NEW t \in Threads, ThreadOK(t), GroFlush(t), OthersSame
                    PROVE  StepOK(t)
<1> DEFINE r == thr[t]
           n == IF r.flush THEN [r EXCEPT !.pc = "del?", !.gro = {}, !.flushInd = FALSE, !.flush = FALSE]
                ELSE [r EXCEPT !.pc = "del?"]
<1>1. r \in Thread
  BY DEF RxTypeOK
<1>2. thr' = [thr EXCEPT ![t] = n]
  BY Zenon DEF GroFlush, Go, RxTypeOK
<1>3. n \in Thread
  <2> HIDE DEF r
  <2> QED BY <1>1 DEF Thread, PCs
<1>4. /\ n.pc = "del?" /\ n.bits = r.bits /\ n.events = r.events
      /\ n.nbufq = r.nbufq /\ n.flushInd = (IF r.flush THEN FALSE ELSE r.flushInd) /\ n.flush = FALSE
  <2> HIDE DEF r
  <2> QED BY <1>1 DEF Thread
<1> HIDE DEF n
<1>5. thr' \in [Threads -> Thread] /\ thr'[t] = n /\ \A u \in Threads \ {t} : thr'[u] = thr[u]
  BY <1>2, <1>3, Update
<1>6. ThreadOK(t)'
  BY <1>1, <1>4, <1>5, RxAssumption DEF GroFlush, OthersSame, ThreadOK, ShutsDown, Suspends, Resumes, SeesWork,
     At, HasBit, HasEvent, GroupOf, Ordered, InSuspension, Threads, Again
<1>7. QED
  BY <1>5, <1>6 DEF StepOK

\* VDEV_DEL is taken, and the signal is next.
LEMMA CheckVdevDelOK == ASSUME RxTypeOK, CtlOK, NEW t \in Threads, ThreadOK(t), CheckVdevDel(t), OthersSame
                        PROVE  StepOK(t)
<1> DEFINE r == thr[t]
           n == IF "VDEV_DEL" \in r.bits THEN [r EXCEPT !.bits = @ \ {"VDEV_DEL"}, !.pc = "signal"]
                ELSE [r EXCEPT !.pc = "suspend?"]
<1>1. r \in Thread
  BY DEF RxTypeOK
<1>2. thr' = [thr EXCEPT ![t] = n]
  BY Zenon DEF CheckVdevDel, HasBit, TakeBit, Go, RxTypeOK
<1>3. n \in Thread
  <2> HIDE DEF r
  <2> QED BY <1>1 DEF Thread, PCs
<1>4. /\ n.pc = (IF "VDEV_DEL" \in r.bits THEN "signal" ELSE "suspend?")
      /\ n.bits = r.bits \ {"VDEV_DEL"}
      /\ n.events = r.events
      /\ n.nbufq = r.nbufq /\ n.flushInd = r.flushInd /\ n.flush = r.flush
  <2> HIDE DEF r
  <2> QED BY <1>1 DEF Thread
<1> HIDE DEF n
<1>5. thr' \in [Threads -> Thread] /\ thr'[t] = n /\ \A u \in Threads \ {t} : thr'[u] = thr[u]
  BY <1>2, <1>3, Update
<1>6. ThreadOK(t)'
  BY <1>1, <1>4, <1>5, RxAssumption
     DEF CheckVdevDel, OthersSame, ThreadOK, ShutsDown, Suspends, Resumes, SeesWork,
     At, HasBit, HasEvent, GroupOf, Ordered, InSuspension, Threads, Again
<1>7. QED
  BY <1>5, <1>6 DEF StepOK

\* The event dp_rx_tm_flush_by_vdev_id waits for.
LEMMA SignalVdevDelOK == ASSUME RxTypeOK, CtlOK, NEW t \in Threads, ThreadOK(t), SignalVdevDel(t), OthersSame
                         PROVE  StepOK(t)
<1> DEFINE r == thr[t]
           n == [r EXCEPT !.events = @ \cup {"vdevDel"}, !.pc = "suspend?"]
<1>1. r \in Thread
  BY DEF RxTypeOK
<1>2. thr' = [thr EXCEPT ![t] = n]
  BY Zenon DEF SignalVdevDel, SetEvent, RxTypeOK
<1>3. n \in Thread
  <2> HIDE DEF r
  <2> QED BY <1>1 DEF Thread, PCs
<1>4. /\ n.pc = "suspend?" /\ n.bits = r.bits /\ n.events = r.events \cup {"vdevDel"}
      /\ n.nbufq = r.nbufq /\ n.flushInd = r.flushInd /\ n.flush = r.flush
  <2> HIDE DEF r
  <2> QED BY <1>1 DEF Thread
<1> HIDE DEF n
<1>5. thr' \in [Threads -> Thread] /\ thr'[t] = n /\ \A u \in Threads \ {t} : thr'[u] = thr[u]
  BY <1>2, <1>3, Update
<1>6. ThreadOK(t)'
  BY <1>1, <1>4, <1>5, RxAssumption
     DEF SignalVdevDel, OthersSame, ThreadOK, ShutsDown, Suspends, Resumes, SeesWork,
     At, HasBit, HasEvent, GroupOf, Ordered, InSuspension, Threads, Again
<1>7. QED
  BY <1>5, <1>6 DEF StepOK

\* SUSPEND is taken, and the announcement is next.
LEMMA CheckSuspendOK == ASSUME RxTypeOK, CtlOK, NEW t \in Threads, ThreadOK(t), CheckSuspend(t), OthersSame
                        PROVE  StepOK(t)
<1> DEFINE r == thr[t]
           n == IF "SUSPEND" \in r.bits THEN [r EXCEPT !.bits = @ \ {"SUSPEND"}, !.pc = "announce"]
                ELSE [r EXCEPT !.pc = Again(t)]
<1>1. r \in Thread
  BY DEF RxTypeOK
<1>2. thr' = [thr EXCEPT ![t] = n]
  BY Zenon DEF CheckSuspend, HasBit, TakeBit, Go, RxTypeOK
<1>3. n \in Thread
  <2> HIDE DEF r
  <2> QED BY <1>1 DEF Thread, PCs, Again
<1>4. /\ n.pc = (IF "SUSPEND" \in r.bits THEN "announce" ELSE Again(t))
      /\ n.bits = r.bits \ {"SUSPEND"}
      /\ n.events = r.events
      /\ n.nbufq = r.nbufq /\ n.flushInd = r.flushInd /\ n.flush = r.flush
  <2> HIDE DEF r
  <2> QED BY <1>1 DEF Thread
<1> HIDE DEF n
<1>5. thr' \in [Threads -> Thread] /\ thr'[t] = n /\ \A u \in Threads \ {t} : thr'[u] = thr[u]
  BY <1>2, <1>3, Update
<1>6. ThreadOK(t)'
  BY <1>1, <1>4, <1>5, RxAssumption
     DEF CheckSuspend, OthersSame, ThreadOK, ShutsDown, Suspends, Resumes, SeesWork,
     At, HasBit, HasEvent, GroupOf, Ordered, InSuspension, Threads, Again
<1>7. QED
  BY <1>5, <1>6 DEF StepOK

\* The thread announces that it is parked.
LEMMA AnnounceOK == ASSUME RxTypeOK, CtlOK, NEW t \in Threads, ThreadOK(t), Announce(t), OthersSame
                    PROVE  StepOK(t)
<1> DEFINE r == thr[t]
           n == [r EXCEPT !.events = @ \cup {"suspend"}, !.pc = "parked"]
<1>1. r \in Thread
  BY DEF RxTypeOK
<1>2. thr' = [thr EXCEPT ![t] = n]
  BY Zenon DEF Announce, SetEvent, RxTypeOK
<1>3. n \in Thread
  <2> HIDE DEF r
  <2> QED BY <1>1 DEF Thread, PCs
<1>4. /\ n.pc = "parked" /\ n.bits = r.bits /\ n.events = r.events \cup {"suspend"}
      /\ n.nbufq = r.nbufq /\ n.flushInd = r.flushInd /\ n.flush = r.flush
  <2> HIDE DEF r
  <2> QED BY <1>1 DEF Thread
<1> HIDE DEF n
<1>5. thr' \in [Threads -> Thread] /\ thr'[t] = n /\ \A u \in Threads \ {t} : thr'[u] = thr[u]
  BY <1>2, <1>3, Update
<1>6. ThreadOK(t)'
  BY <1>1, <1>4, <1>5, RxAssumption DEF Announce, OthersSame, ThreadOK, ShutsDown, Suspends, Resumes, SeesWork,
     At, HasBit, HasEvent, GroupOf, Ordered, InSuspension, Threads, Again
<1>7. QED
  BY <1>5, <1>6 DEF StepOK

\* A parked thread takes its resume_event and goes on.
LEMMA UnparkOK == ASSUME RxTypeOK, CtlOK, NEW t \in Threads, ThreadOK(t), Unpark(t), OthersSame
                  PROVE  StepOK(t)
<1> DEFINE r == thr[t]
           n == [r EXCEPT !.pc = Again(t), !.events = @ \ {"resume"}]
<1>1. r \in Thread
  BY DEF RxTypeOK
<1>2. thr' = [thr EXCEPT ![t] = n]
  BY Zenon DEF Unpark, RxTypeOK
<1>3. n \in Thread
  <2> HIDE DEF r
  <2> QED BY <1>1 DEF Thread, PCs, Again
<1>4. /\ n.pc = Again(t) /\ n.bits = r.bits /\ n.events = r.events \ {"resume"}
      /\ n.nbufq = r.nbufq /\ n.flushInd = r.flushInd /\ n.flush = r.flush
  <2> HIDE DEF r
  <2> QED BY <1>1 DEF Thread
<1> HIDE DEF n
<1>5. thr' \in [Threads -> Thread] /\ thr'[t] = n /\ \A u \in Threads \ {t} : thr'[u] = thr[u]
  BY <1>2, <1>3, Update
<1>6. ThreadOK(t)'
  BY <1>1, <1>4, <1>5, RxAssumption DEF Unpark, OthersSame, ThreadOK, ShutsDown, Suspends, Resumes, SeesWork,
     At, HasBit, HasEvent, GroupOf, Ordered, InSuspension, Threads, Again
<1>7. QED
  BY <1>5, <1>6 DEF StepOK

\* The refill thread clears POST at the end of its round.
LEMMA RefillClearOK == ASSUME RxTypeOK, CtlOK, NEW t \in Threads, ThreadOK(t), RefillClear(t), OthersSame
                       PROVE  StepOK(t)
<1> DEFINE r == thr[t]
           n == [r EXCEPT !.bits = @ \ {"POST"}, !.pc = "sleep"]
<1>1. r \in Thread
  BY DEF RxTypeOK
<1>2. thr' = [thr EXCEPT ![t] = n]
  BY Zenon DEF RefillClear, TakeBit, RxTypeOK
<1>3. n \in Thread
  <2> HIDE DEF r
  <2> QED BY <1>1 DEF Thread, PCs
<1>4. /\ n.pc = "sleep" /\ n.bits = r.bits \ {"POST"} /\ n.events = r.events
      /\ n.nbufq = r.nbufq /\ n.flushInd = r.flushInd /\ n.flush = r.flush
  <2> HIDE DEF r
  <2> QED BY <1>1 DEF Thread
<1> HIDE DEF n
<1>5. thr' \in [Threads -> Thread] /\ thr'[t] = n /\ \A u \in Threads \ {t} : thr'[u] = thr[u]
  BY <1>2, <1>3, Update
<1>6. ThreadOK(t)'
  BY <1>1, <1>4, <1>5, RxAssumption
     DEF RefillClear, OthersSame, ThreadOK, ShutsDown, Suspends, Resumes, SeesWork,
     At, HasBit, HasEvent, GroupOf, Ordered, InSuspension, Threads, Again
<1>7. QED
  BY <1>5, <1>6 DEF StepOK

\* dp_rx_tm_gro_flush_ind: the indication comes with POST.
LEMMA GroFlushIndOK == ASSUME RxTypeOK, CtlOK, NEW t \in Threads, ThreadOK(t), GroFlushInd(t), OthersSame
                       PROVE  StepOK(t)
<1> DEFINE r == thr[t]
           n == [r EXCEPT !.bits = @ \cup {"POST"}, !.flushInd = TRUE]
<1>1. r \in Thread
  BY DEF RxTypeOK
<1>2. thr' = [thr EXCEPT ![t] = n]
  BY Zenon DEF GroFlushInd, SetBits, RxTypeOK
<1>3. n \in Thread
  <2> HIDE DEF r
  <2> QED BY <1>1 DEF Thread, PCs
<1>4. /\ n.pc = r.pc /\ n.bits = r.bits \cup {"POST"} /\ n.events = r.events
      /\ n.nbufq = r.nbufq /\ n.flushInd = TRUE /\ n.flush = r.flush
  <2> HIDE DEF r
  <2> QED BY <1>1 DEF Thread
<1> HIDE DEF n
<1>5. thr' \in [Threads -> Thread] /\ thr'[t] = n /\ \A u \in Threads \ {t} : thr'[u] = thr[u]
  BY <1>2, <1>3, Update
<1>6. ThreadOK(t)'
  BY <1>1, <1>4, <1>5, RxAssumption
     DEF GroFlushInd, OthersSame, ThreadOK, ShutsDown, Suspends, Resumes, SeesWork,
     At, HasBit, HasEvent, GroupOf, Ordered, InSuspension, Threads, Again
<1>7. QED
  BY <1>5, <1>6 DEF StepOK

\* dp_rx_refill_thread_schedule.
LEMMA RefillScheduleOK == ASSUME RxTypeOK, CtlOK, NEW t \in Threads, ThreadOK(t), RefillSchedule(t), OthersSame
                          PROVE  StepOK(t)
<1> DEFINE r == thr[t]
           n == [r EXCEPT !.bits = @ \cup {"POST"}]
<1>1. r \in Thread
  BY DEF RxTypeOK
<1>2. thr' = [thr EXCEPT ![t] = n]
  BY Zenon DEF RefillSchedule, SetBits, RxTypeOK
<1>3. n \in Thread
  <2> HIDE DEF r
  <2> QED BY <1>1 DEF Thread, PCs
<1>4. /\ n.pc = r.pc /\ n.bits = r.bits \cup {"POST"} /\ n.events = r.events
      /\ n.nbufq = r.nbufq /\ n.flushInd = r.flushInd /\ n.flush = r.flush
  <2> HIDE DEF r
  <2> QED BY <1>1 DEF Thread
<1> HIDE DEF n
<1>5. thr' \in [Threads -> Thread] /\ thr'[t] = n /\ \A u \in Threads \ {t} : thr'[u] = thr[u]
  BY <1>2, <1>3, Update
<1>6. ThreadOK(t)'
  BY <1>1, <1>4, <1>5, RxAssumption
     DEF RefillSchedule, OthersSame, ThreadOK, ShutsDown, Suspends, Resumes, SeesWork,
     At, HasBit, HasEvent, GroupOf, Ordered, InSuspension, Threads, Again
<1>7. QED
  BY <1>5, <1>6 DEF StepOK
\* dp_rx_tm_enqueue_pkt: the packet comes with POST.
LEMMA EnqueueOK ==
  ASSUME RxTypeOK, CtlOK, NEW t \in Threads, NEW v \in Vdevs, ThreadOK(t), Enqueue(t, v)
  PROVE  StepOK(t)
<1> DEFINE r == thr[t]
           n == [r EXCEPT !.nbufq = Append(@, v), !.bits = @ \cup {"POST"}]
<1>1. r \in Thread
  BY DEF RxTypeOK
<1>2. thr' = [thr EXCEPT ![t] = n]
  BY Zenon DEF Enqueue, RxTypeOK
<1>3. n \in Thread
  <2> HIDE DEF r
  <2>1. Append(r.nbufq, v) \in Seq(Vdevs)
    BY <1>1 DEF Thread
  <2>2. QED
    BY <1>1, <2>1 DEF Thread, PCs
<1>4. /\ n.pc = r.pc /\ n.bits = r.bits \cup {"POST"} /\ n.events = r.events
      /\ n.flushInd = r.flushInd /\ n.flush = r.flush
  <2> HIDE DEF r
  <2> QED BY <1>1 DEF Thread
<1> HIDE DEF n
<1>5. thr' \in [Threads -> Thread] /\ thr'[t] = n /\ \A u \in Threads \ {t} : thr'[u] = thr[u]
  BY <1>2, <1>3, Update
<1>6. ThreadOK(t)'
  BY <1>4, <1>5 DEF Enqueue, OthersSame, ThreadOK, ShutsDown, Suspends, Resumes, SeesWork,
     At, HasBit, HasEvent, GroupOf, Ordered, InSuspension
<1>7. QED
  BY <1>5, <1>6 DEF StepOK

\* A step of one thread leaves what is said of the others alone.
LEMMA OthersOK ==
  ASSUME RxInv, OthersSame, NEW t \in Threads, StepOK(t)
  PROVE  RxInv'
<1>1. RxTypeOK'
  BY DEF RxInv, RxTypeOK, StepOK, OthersSame
<1>2. CtlOK'
  BY DEF RxInv, CtlOK, OthersSame, TearingDown
<1>3. ASSUME NEW u \in Threads \ {t} PROVE ThreadOK(u)'
  <2>1. ThreadOK(u) /\ thr'[u] = thr[u]
    BY DEF RxInv, StepOK
  <2>2. QED
    BY <2>1 DEF OthersSame, ThreadOK, ShutsDown, Suspends, Resumes, SeesWork,
       At, HasBit, HasEvent, GroupOf, Ordered, InSuspension
<1>4. QED
  BY <1>1, <1>2, <1>3 DEF RxInv, StepOK

\* All steps that change one thread and nothing else.
LEMMA ThreadsOK ==
  ASSUME RxInv, NEW t \in Threads,
         \/ ThreadStep(t) \/ GroFlushInd(t) \/ RefillSchedule(t)
         \/ \E v \in Vdevs : Enqueue(t, v)
  PROVE  RxInv'
<1> USE DEF RxInv
<1>1. OthersSame
  BY DEF ThreadStep, GroFlushInd, RefillSchedule, Enqueue
<1>2. CASE ThreadStep(t)
  <2>1. StepOK(t)
    BY <1>1, <1>2, WakeOK, CheckShutdownOK, ExitOK, DequeueOK, DeliverOK, RefillWorkOK, ShouldFlushOK,
       GroFlushOK, CheckVdevDelOK, SignalVdevDelOK, CheckSuspendOK, AnnounceOK, UnparkOK, RefillClearOK
       DEF ThreadStep
  <2>2. QED
    BY <1>1, <2>1, OthersOK
<1>3. CASE GroFlushInd(t) \/ RefillSchedule(t) \/ \E v \in Vdevs : Enqueue(t, v)
  <2>1. StepOK(t)
    BY <1>1, <1>3, GroFlushIndOK, RefillScheduleOK, EnqueueOK
  <2>2. QED
    BY <1>1, <2>1, OthersOK
<1>4. QED
  BY <1>2, <1>3

-----------------------------------------------------------------------------
(* The deletion of a vdev. *)

\* dp_rx_tm_flush_by_vdev_id drops a vdev's packets from the queue, resets
\* the event and sets VDEV_DEL.
LEMMA DelPurgeOK ==
  ASSUME RxInv, NEW t \in Threads, NEW v \in Vdevs, DelPurge(v, t)
  PROVE  RxInv'
<1> DEFINE r == thr[t]
           n == [r EXCEPT !.nbufq = NotOf(v, @), !.events = @ \ {"vdevDel"}, !.bits = @ \cup {"VDEV_DEL"}]
<1>1. RxTypeOK /\ CtlOK /\ ThreadOK(t) /\ r \in Thread
  BY DEF RxInv, RxTypeOK
<1>2. thr' = [thr EXCEPT ![t] = n]
  BY <1>1, Zenon DEF DelPurge, RxTypeOK
<1>3. r.nbufq \in Seq(Vdevs) /\ NotOf(v, r.nbufq) \in Seq(Vdevs) /\ (r.nbufq = <<>> => NotOf(v, r.nbufq) = <<>>)
  <2> HIDE DEF r
  <2>1. r.nbufq \in Seq(Vdevs)
    BY <1>1 DEF Thread
  <2>2. QED
    BY <2>1, SelectSeqOf, SelectEmpty DEF NotOf
<1>4. n \in Thread
  <2> HIDE DEF r
  <2> QED BY <1>1, <1>3 DEF Thread, PCs
<1>5. /\ n.pc = r.pc /\ n.bits = r.bits \cup {"VDEV_DEL"} /\ n.events = r.events \ {"vdevDel"}
      /\ n.nbufq = NotOf(v, r.nbufq) /\ n.flushInd = r.flushInd /\ n.flush = r.flush
  <2> HIDE DEF r
  <2> QED BY <1>1 DEF Thread
<1> HIDE DEF n
<1>6. thr' \in [Threads -> Thread] /\ thr'[t] = n /\ \A u \in Threads \ {t} : thr'[u] = thr[u]
  BY <1>1, <1>2, <1>4, Update
<1>7. /\ UNCHANGED <<grp, ctl, vdev>> /\ <<t, "todo">> \in del
      /\ del' = (del \ {<<t, "todo">>}) \cup {<<t, "wait">>}
  BY DEF DelPurge
<1>8. RxTypeOK'
  BY <1>1, <1>6, <1>7 DEF RxTypeOK
<1>9. CtlOK'
  BY <1>1, <1>7 DEF CtlOK, TearingDown
<1>10. ThreadOK(t)'
  BY <1>1, <1>3, <1>5, <1>6, <1>7 DEF ThreadOK, ShutsDown, Suspends, Resumes, SeesWork,
     At, HasBit, HasEvent, GroupOf, Ordered, InSuspension
<1>11. ASSUME NEW u \in Threads \ {t} PROVE ThreadOK(u)'
  <2>1. ThreadOK(u) /\ (<<u, "wait">> \in del' => <<u, "wait">> \in del)
    BY <1>7 DEF RxInv
  <2>2. QED
    BY <1>6, <1>7, <2>1 DEF ThreadOK, ShutsDown, Suspends, Resumes, SeesWork,
       At, HasBit, HasEvent, GroupOf, Ordered, InSuspension
<1>12. QED
  BY <1>8, <1>9, <1>10, <1>11 DEF RxInv

\* Its wait ends, by the event or the time-out.
LEMMA DelFlushedOK ==
  ASSUME RxInv, NEW t \in Threads, DelFlushed(t)
  PROVE  RxInv'
<1> DEFINE r == thr[t]
           n == [r EXCEPT !.gro = IF "vdevDel" \in r.events THEN @ ELSE {}, !.events = @ \ {"vdevDel"}]
<1>1. RxTypeOK /\ CtlOK /\ ThreadOK(t) /\ r \in Thread
  BY DEF RxInv, RxTypeOK
<1>2. thr' = [thr EXCEPT ![t] = n]
  BY <1>1, Zenon DEF DelFlushed, HasEvent, RxTypeOK
<1>3. n \in Thread
  <2> HIDE DEF r
  <2> QED BY <1>1 DEF Thread, PCs
<1>4. /\ n.pc = r.pc /\ n.bits = r.bits /\ n.events = r.events \ {"vdevDel"}
      /\ n.nbufq = r.nbufq /\ n.flushInd = r.flushInd /\ n.flush = r.flush
  <2> HIDE DEF r
  <2> QED BY <1>1 DEF Thread
<1> HIDE DEF n
<1>5. thr' \in [Threads -> Thread] /\ thr'[t] = n /\ \A u \in Threads \ {t} : thr'[u] = thr[u]
  BY <1>1, <1>2, <1>3, Update
<1>6. UNCHANGED <<grp, ctl, vdev>> /\ del' = del \ {<<t, "wait">>}
  BY DEF DelFlushed
<1>7. RxTypeOK'
  BY <1>1, <1>5, <1>6 DEF RxTypeOK
<1>8. CtlOK'
  BY <1>1, <1>6 DEF CtlOK, TearingDown
<1>9. ThreadOK(t)'
  BY <1>1, <1>4, <1>5, <1>6 DEF ThreadOK, ShutsDown, Suspends, Resumes, SeesWork,
     At, HasBit, HasEvent, GroupOf, Ordered, InSuspension
<1>10. ASSUME NEW u \in Threads \ {t} PROVE ThreadOK(u)'
  <2>1. ThreadOK(u) /\ (<<u, "wait">> \in del' => <<u, "wait">> \in del)
    BY <1>6 DEF RxInv
  <2>2. QED
    BY <1>5, <1>6, <2>1 DEF ThreadOK, ShutsDown, Suspends, Resumes, SeesWork,
       At, HasBit, HasEvent, GroupOf, Ordered, InSuspension
<1>11. QED
  BY <1>7, <1>8, <1>9, <1>10 DEF RxInv

\* The steps of the vdevs change no thread.
LEMMA VdevsOK ==
  ASSUME RxInv, NEW v \in Vdevs, DelBegin(v) \/ DelEnd(v) \/ VdevCreate(v)
  PROVE  RxInv'
<1>1. UNCHANGED <<thr, grp, ctl>> /\ \A t \in Threads : <<t, "wait">> \in del' => <<t, "wait">> \in del
  BY DEF DelBegin, DelEnd, VdevCreate
<1>2. RxTypeOK'
  BY DEF RxInv, RxTypeOK, DelBegin, DelEnd, VdevCreate
<1>3. CtlOK'
  <2>1. CASE DelBegin(v)
    BY <2>1 DEF RxInv, RxTypeOK, CtlOK, TearingDown, DelBegin
  <2>2. CASE DelEnd(v)
    BY <2>2 DEF RxInv, RxTypeOK, CtlOK, TearingDown, DelEnd
  <2>3. CASE VdevCreate(v)
    BY <2>3 DEF RxInv, RxTypeOK, CtlOK, TearingDown, VdevCreate
  <2>4. QED
    BY <2>1, <2>2, <2>3
<1>4. ASSUME NEW t \in Threads PROVE ThreadOK(t)'
  BY <1>1 DEF RxInv, ThreadOK, ShutsDown, Suspends, Resumes, SeesWork,
     At, HasBit, HasEvent, GroupOf, Ordered, InSuspension
<1>5. QED
  BY <1>2, <1>3, <1>4 DEF RxInv

-----------------------------------------------------------------------------
(* HDD's thread. *)

\* HDD's thread goes on with a group...
LEMMA CtlFields ==
  ASSUME RxTypeOK, NEW op, op \in {"none", "suspend", "wait", "resume", "shutdown", "post", "gone?"},
         NEW g \in Groups, Ctl(op, g)
  PROVE  ctl' \in Control /\ ctl'.op = op /\ ctl'.g = g /\ ctl'.suspended = ctl.suspended
BY DEF RxTypeOK, Ctl, Control

\* ...or is done.
LEMMA FinishFields ==
  ASSUME NEW s \in BOOLEAN, Finish(s)
  PROVE  ctl' \in Control /\ ctl'.op = "none" /\ ctl'.g = "refill" /\ ctl'.suspended = s
BY DEF Finish, Control, Groups

\* What a step does to the members of g it does to each of them alike.
LEMMA ArmedFields ==
  ASSUME NEW r \in Thread
  PROVE  /\ Armed(r) \in Thread /\ Armed(r).pc = r.pc /\ Armed(r).bits = r.bits \cup {"SUSPEND"}
         /\ Armed(r).events = r.events \ {"resume", "suspend"}
         /\ Armed(r).nbufq = r.nbufq /\ Armed(r).flushInd = r.flushInd /\ Armed(r).flush = r.flush
BY DEF Armed, Thread

\* A resume clears SUSPEND and sets resume_event, in each thread of the
\* group.
LEMMA ResumedFields ==
  ASSUME RxTypeOK, NEW g \in Groups
  PROVE  /\ Resumed(g) \in [Threads -> Thread]
         /\ \A t \in Threads : GroupOf(t) # g => Resumed(g)[t] = thr[t]
         /\ \A t \in Threads : GroupOf(t) = g =>
              /\ Resumed(g)[t].pc = thr[t].pc
              /\ Resumed(g)[t].bits = thr[t].bits \ {"SUSPEND"}
              /\ Resumed(g)[t].events = thr[t].events \cup {"resume"}
              /\ Resumed(g)[t].nbufq = thr[t].nbufq
              /\ Resumed(g)[t].flushInd = thr[t].flushInd /\ Resumed(g)[t].flush = thr[t].flush
<1> DEFINE n(r) == [r EXCEPT !.bits = @ \ {"SUSPEND"}, !.events = @ \cup {"resume"}]
<1>1. \A t \in Threads : t \in Members(g) <=> GroupOf(t) = g
  BY MembersOf
<1>2. ASSUME NEW r \in Thread
      PROVE  /\ n(r) \in Thread /\ n(r).pc = r.pc /\ n(r).bits = r.bits \ {"SUSPEND"}
             /\ n(r).events = r.events \cup {"resume"} /\ n(r).nbufq = r.nbufq
             /\ n(r).flushInd = r.flushInd /\ n(r).flush = r.flush
  BY DEF Thread
<1>3. Resumed(g) = [t \in Threads |-> IF t \notin Members(g) THEN thr[t] ELSE n(thr[t])]
  BY Zenon DEF Resumed
<1> HIDE DEF n
<1>4. \A t \in Threads : thr[t] \in Thread
  BY DEF RxTypeOK
<1>5. QED
  BY <1>1, <1>2, <1>3, <1>4

\* A bit is set in each thread of the group.
LEMMA ToMembersFields ==
  ASSUME RxTypeOK, NEW b \in {"SHUTDOWN", "POST"}
  PROVE  /\ ToMembers(b) \in [Threads -> Thread]
         /\ \A t \in Threads : GroupOf(t) # ctl.g => ToMembers(b)[t] = thr[t]
         /\ \A t \in Threads : GroupOf(t) = ctl.g =>
              /\ ToMembers(b)[t].pc = thr[t].pc
              /\ ToMembers(b)[t].bits = thr[t].bits \cup {b}
              /\ ToMembers(b)[t].events = thr[t].events
              /\ ToMembers(b)[t].nbufq = thr[t].nbufq
              /\ ToMembers(b)[t].flushInd = thr[t].flushInd /\ ToMembers(b)[t].flush = thr[t].flush
<1> DEFINE n(r) == [r EXCEPT !.bits = @ \cup {b}]
<1>1. \A t \in Threads : t \in Members(ctl.g) <=> GroupOf(t) = ctl.g
  BY MembersOf DEF RxTypeOK, Control
<1>2. ASSUME NEW r \in Thread
      PROVE  /\ n(r) \in Thread /\ n(r).pc = r.pc /\ n(r).bits = r.bits \cup {b}
             /\ n(r).events = r.events /\ n(r).nbufq = r.nbufq
             /\ n(r).flushInd = r.flushInd /\ n(r).flush = r.flush
  BY DEF Thread
<1>3. ToMembers(b) = [t \in Threads |-> IF t \in Members(ctl.g) THEN n(thr[t]) ELSE thr[t]]
  BY Zenon DEF ToMembers
<1> HIDE DEF n
<1>4. \A t \in Threads : thr[t] \in Thread
  BY DEF RxTypeOK
<1>5. QED
  BY <1>1, <1>2, <1>3, <1>4

\* dp_txrx_suspend begins with the refill thread.
LEMMA SuspendOK == ASSUME RxInv, Suspend PROVE RxInv'
<1>1. /\ ctl' \in Control /\ ctl'.op = "suspend" /\ ctl'.g = "refill" /\ ctl'.suspended = ctl.suspended
      /\ UNCHANGED <<thr, grp, vdev, del>>
      /\ ctl.op = "none" /\ ~ctl.suspended /\ grp["rx"] # "INVALID"
  BY CtlFields DEF RxInv, Suspend, VdevsSame, Groups
<1>2. RxTypeOK' /\ CtlOK'
  BY <1>1 DEF RxInv, RxTypeOK, CtlOK, TearingDown
<1>3. ASSUME NEW t \in Threads PROVE ThreadOK(t)'
  BY <1>1 DEF RxInv, ThreadOK, ShutsDown, Suspends, Resumes, SeesWork,
     At, HasBit, HasEvent, GroupOf, Ordered, InSuspension
<1>4. QED
  BY <1>2, <1>3 DEF RxInv

\* dp_rx_tm_suspend resets the events and sets SUSPEND.
LEMMA SuspendArmOK == ASSUME RxInv, SuspendArm PROVE RxInv'
<1> DEFINE g == ctl.g
<1>1. RxTypeOK /\ CtlOK /\ ctl \in Control /\ g \in Groups /\ ctl.op = "suspend" /\ UNCHANGED <<vdev, del>>
  BY DEF RxInv, RxTypeOK, Control, SuspendArm, VdevsSame
<1>2. CASE grp[g] = "SUSPENDED"
  <2>1. ctl' \in Control /\ ctl'.op = "none" /\ ctl'.suspended = FALSE /\ UNCHANGED <<thr, grp>>
    BY <1>2, FinishFields DEF SuspendArm
  <2>2. g = "refill" /\ ~ctl.suspended
    BY <1>1, <1>2 DEF CtlOK, Groups
  <2>3. RxTypeOK' /\ CtlOK'
    BY <1>1, <2>1, <2>2 DEF RxTypeOK, CtlOK, TearingDown
  <2>4. ASSUME NEW t \in Threads PROVE ThreadOK(t)'
    BY <1>1, <2>1 DEF RxInv, ThreadOK, ShutsDown, Suspends, Resumes, SeesWork,
       At, HasBit, HasEvent, GroupOf, Ordered, InSuspension
  <2>5. QED
    BY <2>3, <2>4 DEF RxInv
<1>3. CASE grp[g] # "SUSPENDED"
  <2>1. /\ ctl' \in Control /\ ctl'.op = "wait" /\ ctl'.g = g /\ ctl'.suspended = ctl.suspended
        /\ grp' = [grp EXCEPT ![g] = "SUSPENDING"]
        /\ thr' = [t \in Threads |-> IF t \in Members(g) THEN Armed(thr[t]) ELSE thr[t]]
    BY <1>1, <1>3, CtlFields DEF SuspendArm
  <2>2. \A t \in Threads : thr[t] \in Thread /\ (t \in Members(g) <=> GroupOf(t) = g)
    BY <1>1, MembersOf DEF RxTypeOK
  <2>3. thr' \in [Threads -> Thread]
    BY <2>1, <2>2, ArmedFields
  <2>4. RxTypeOK' /\ CtlOK'
    BY <1>1, <1>3, <2>1, <2>3 DEF RxTypeOK, CtlOK, TearingDown, Groups
  <2>5. ASSUME NEW t \in Threads PROVE ThreadOK(t)'
    <3>1. ThreadOK(t)
      BY DEF RxInv
    <3>2. CASE GroupOf(t) = g
      <4>1. thr'[t] = Armed(thr[t]) /\ grp'[g] = "SUSPENDING"
        BY <1>1, <2>1, <2>2, <3>2 DEF RxTypeOK
      <4>2. QED
        BY <1>1, <2>1, <2>2, <3>1, <3>2, <4>1, ArmedFields DEF ThreadOK, ShutsDown, Suspends, Resumes, SeesWork,
           CtlOK, TearingDown, At, HasBit, HasEvent, GroupOf, Ordered, InSuspension
    <3>3. CASE GroupOf(t) # g
      <4>1. thr'[t] = thr[t] /\ grp'[GroupOf(t)] = grp[GroupOf(t)]
        BY <1>1, <2>1, <2>2, <3>3 DEF RxTypeOK, GroupOf, Groups
      <4>2. QED
        BY <1>1, <2>1, <3>1, <3>3, <4>1 DEF ThreadOK, ShutsDown, Suspends, Resumes, SeesWork,
           At, HasBit, HasEvent, GroupOf, Ordered, InSuspension
    <3>4. QED
      BY <3>2, <3>3
  <2>6. QED
    BY <2>4, <2>5 DEF RxInv
<1>4. QED
  BY <1>2, <1>3

\* Each thread has announced itself: it is parked, because the events were
\* reset first.
LEMMA SuspendDoneOK == ASSUME RxInv, SuspendDone PROVE RxInv'
<1> DEFINE g == ctl.g
<1>1. RxTypeOK /\ CtlOK /\ ctl \in Control /\ g \in Groups /\ ctl.op = "wait" /\ UNCHANGED <<thr, vdev, del>>
  BY DEF RxInv, RxTypeOK, Control, SuspendDone, VdevsSame
<1>2. /\ ctl' \in Control /\ grp' = [grp EXCEPT ![g] = "SUSPENDED"]
      /\ IF g = "refill" THEN ctl'.op = "suspend" /\ ctl'.g = "rx" /\ ctl'.suspended = ctl.suspended
         ELSE ctl'.op = "none" /\ ctl'.suspended = TRUE
  BY <1>1, CtlFields, FinishFields DEF SuspendDone, Groups
<1>3. \A t \in Threads : GroupOf(t) = g => HasEvent(t, "suspend")
  BY <1>1, MembersOf DEF SuspendDone
<1>4. RxTypeOK' /\ CtlOK'
  BY <1>1, <1>2 DEF RxTypeOK, CtlOK, TearingDown, Groups
<1>5. ASSUME NEW t \in Threads PROVE ThreadOK(t)'
  BY <1>1, <1>2, <1>3 DEF RxInv, RxTypeOK, ThreadOK, ShutsDown, Suspends, Resumes, SeesWork,
     At, HasBit, HasEvent, GroupOf, Ordered, InSuspension, Groups
<1>6. QED
  BY <1>4, <1>5 DEF RxInv

\* A wait that timed out resumes the group.
LEMMA SuspendTimeoutOK == ASSUME RxInv, SuspendTimeout PROVE RxInv'
<1> DEFINE g == ctl.g
<1>1. RxTypeOK /\ CtlOK /\ ctl \in Control /\ g \in Groups /\ ctl.op = "wait" /\ UNCHANGED <<vdev, del>>
  BY DEF RxInv, RxTypeOK, Control, SuspendTimeout, VdevsSame
<1>2. /\ ctl' \in Control /\ ctl'.op = "none" /\ ctl'.suspended = FALSE
      /\ grp' = [grp EXCEPT ![g] = "RUNNING"] /\ thr' = Resumed(g)
  BY FinishFields DEF SuspendTimeout
<1>3. RxTypeOK' /\ CtlOK'
  BY <1>1, <1>2, ResumedFields DEF RxTypeOK, CtlOK, TearingDown, Groups
<1>4. ASSUME NEW t \in Threads PROVE ThreadOK(t)'
  BY <1>1, <1>2, ResumedFields DEF RxInv, RxTypeOK, CtlOK, ThreadOK, ShutsDown, Suspends, Resumes, SeesWork,
     At, HasBit, HasEvent, GroupOf, Ordered, InSuspension, Groups
<1>5. QED
  BY <1>3, <1>4 DEF RxInv

\* dp_txrx_resume begins with the refill thread.
LEMMA ResumeOK == ASSUME RxInv, Resume PROVE RxInv'
<1>1. RxTypeOK /\ CtlOK /\ ctl \in Control /\ ctl.op = "none" /\ UNCHANGED <<vdev, del>>
  BY DEF RxInv, RxTypeOK, Resume, VdevsSame
<1>2. /\ ctl' \in Control /\ ctl'.op = "resume" /\ ctl'.suspended = ctl.suspended
      /\ grp' = [grp EXCEPT !["refill"] = "RUNNING"] /\ thr' = Resumed("refill")
      /\ grp["refill"] \in {"SUSPENDED", "SUSPENDING"}
  BY <1>1, CtlFields DEF Resume, Groups
<1>3. grp["rx"] # "INVALID"
  BY <1>1, <1>2 DEF CtlOK
<1>4. RxTypeOK' /\ CtlOK'
  BY <1>1, <1>2, <1>3, ResumedFields DEF RxTypeOK, CtlOK, TearingDown, Groups
<1>5. ASSUME NEW t \in Threads PROVE ThreadOK(t)'
  BY <1>1, <1>2, ResumedFields DEF RxInv, RxTypeOK, ThreadOK, ShutsDown, Suspends, Resumes, SeesWork,
     At, HasBit, HasEvent, GroupOf, Ordered, InSuspension, Groups
<1>6. QED
  BY <1>4, <1>5 DEF RxInv

\* dp_rx_tm_resume.
LEMMA ResumeRxOK == ASSUME RxInv, ResumeRx PROVE RxInv'
<1>1. /\ RxTypeOK /\ CtlOK /\ ctl.op = "resume" /\ UNCHANGED <<vdev, del>>
      /\ ctl' \in Control /\ ctl'.op = "none" /\ ctl'.suspended = FALSE
  BY FinishFields DEF RxInv, ResumeRx, VdevsSame
<1>2. CASE grp["rx"] = "SUSPENDED"
  <2>1. thr' = Resumed("rx") /\ grp' = [grp EXCEPT !["rx"] = "RUNNING"]
    BY <1>2 DEF ResumeRx
  <2>2. thr' \in [Threads -> Thread]
    BY <1>1, <2>1, ResumedFields DEF Groups
  <2>3. RxTypeOK'
    BY <1>1, <2>1, <2>2 DEF RxTypeOK
  <2>4. CtlOK'
    BY <1>1, <1>2, <2>1 DEF RxTypeOK, CtlOK, TearingDown, Groups
  <2>5. ASSUME NEW t \in Threads PROVE ThreadOK(t)'
    BY <1>1, <1>2, <2>1, ResumedFields DEF RxInv, RxTypeOK, ThreadOK, ShutsDown, Suspends, Resumes, SeesWork,
       At, HasBit, HasEvent, GroupOf, Ordered, InSuspension, Groups
  <2>6. QED
    BY <2>4, <2>5, <2>3 DEF RxInv
<1>3. CASE grp["rx"] # "SUSPENDED"
  <2>1. UNCHANGED <<thr, grp>>
    BY <1>3 DEF ResumeRx
  <2>2. RxTypeOK' /\ CtlOK'
    BY <1>1, <1>3, <2>1 DEF RxTypeOK, CtlOK, TearingDown
  <2>3. ASSUME NEW t \in Threads PROVE ThreadOK(t)'
    BY <1>1, <2>1 DEF RxInv, ThreadOK, ShutsDown, Suspends, Resumes, SeesWork,
       At, HasBit, HasEvent, GroupOf, Ordered, InSuspension
  <2>4. QED
    BY <2>2, <2>3 DEF RxInv
<1>4. QED
  BY <1>2, <1>3

\* dp_txrx_deinit begins.
LEMMA DeinitOK == ASSUME RxInv, Deinit PROVE RxInv'
<1>1. /\ RxTypeOK /\ CtlOK /\ ctl.op = "none" /\ ~ctl.suspended /\ grp["rx"] # "INVALID"
      /\ del = {} /\ (\A v \in Vdevs : vdev[v] = "gone") /\ UNCHANGED <<thr, grp, vdev, del>>
      /\ ctl' \in Control /\ ctl'.op = "shutdown" /\ ctl'.g = "refill" /\ ctl'.suspended = ctl.suspended
  BY CtlFields DEF RxInv, Deinit, VdevsSame, Groups
<1>2. RxTypeOK' /\ CtlOK'
  BY <1>1 DEF RxTypeOK, CtlOK, TearingDown
<1>3. ASSUME NEW t \in Threads PROVE ThreadOK(t)'
  BY <1>1 DEF RxInv, ThreadOK, ShutsDown, Suspends, Resumes, SeesWork,
     At, HasBit, HasEvent, GroupOf, Ordered, InSuspension
<1>4. QED
  BY <1>2, <1>3 DEF RxInv

\* SHUTDOWN is set in each thread...
LEMMA ShutdownOK == ASSUME RxInv, Shutdown PROVE RxInv'
<1>1. /\ RxTypeOK /\ CtlOK /\ ctl.op = "shutdown" /\ ctl.g \in Groups /\ UNCHANGED <<grp, vdev, del>>
      /\ thr' = ToMembers("SHUTDOWN")
      /\ ctl' \in Control /\ ctl'.op = "post" /\ ctl'.g = ctl.g /\ ctl'.suspended = ctl.suspended
  BY CtlFields DEF RxInv, RxTypeOK, Control, Shutdown, VdevsSame
<1>2. RxTypeOK' /\ CtlOK'
  BY <1>1, ToMembersFields DEF RxTypeOK, CtlOK, TearingDown
<1>3. ASSUME NEW t \in Threads PROVE ThreadOK(t)'
  BY <1>1, ToMembersFields DEF RxInv, CtlOK, TearingDown, ThreadOK, ShutsDown, Suspends, Resumes, SeesWork,
     At, HasBit, HasEvent, GroupOf, Ordered, InSuspension
<1>4. QED
  BY <1>2, <1>3 DEF RxInv

\* ...then POST, in a second step.
LEMMA ShutdownPostOK == ASSUME RxInv, ShutdownPost PROVE RxInv'
<1>1. /\ RxTypeOK /\ CtlOK /\ ctl.op = "post" /\ ctl.g \in Groups /\ UNCHANGED <<grp, vdev, del>>
      /\ thr' = ToMembers("POST")
      /\ ctl' \in Control /\ ctl'.op = "gone?" /\ ctl'.g = ctl.g /\ ctl'.suspended = ctl.suspended
  BY CtlFields DEF RxInv, RxTypeOK, Control, ShutdownPost, VdevsSame
<1>2. RxTypeOK' /\ CtlOK'
  BY <1>1, ToMembersFields DEF RxTypeOK, CtlOK, TearingDown
<1>3. ASSUME NEW t \in Threads PROVE ThreadOK(t)'
  BY <1>1, ToMembersFields DEF RxInv, ThreadOK, ShutsDown, Suspends, Resumes, SeesWork,
     At, HasBit, HasEvent, GroupOf, Ordered, InSuspension
<1>4. QED
  BY <1>2, <1>3 DEF RxInv

\* Each thread has announced its end.
LEMMA ShutdownDoneOK == ASSUME RxInv, ShutdownDone PROVE RxInv'
<1> DEFINE g == ctl.g
<1>1. /\ RxTypeOK /\ CtlOK /\ ctl.op = "gone?" /\ g \in Groups /\ UNCHANGED <<thr, vdev, del>>
      /\ grp' = [grp EXCEPT ![g] = "INVALID"]
  BY DEF RxInv, RxTypeOK, Control, ShutdownDone, VdevsSame
<1>2. /\ ctl' \in Control
      /\ IF g = "refill" THEN ctl'.op = "shutdown" /\ ctl'.g = "rx" /\ ctl'.suspended = ctl.suspended
         ELSE ctl'.op = "none" /\ ctl'.suspended = FALSE
  BY <1>1, CtlFields, FinishFields DEF ShutdownDone, Groups
<1>3. \A t \in Threads : GroupOf(t) = g => HasEvent(t, "shutdown")
  BY <1>1, MembersOf DEF ShutdownDone
<1>4. RxTypeOK' /\ CtlOK'
  BY <1>1, <1>2 DEF RxTypeOK, CtlOK, TearingDown, Groups
<1>5. ASSUME NEW t \in Threads PROVE ThreadOK(t)'
  BY <1>1, <1>2, <1>3 DEF RxInv, RxTypeOK, CtlOK, TearingDown, ThreadOK, ShutsDown, Suspends, Resumes, SeesWork,
     At, HasBit, HasEvent, GroupOf, Ordered, InSuspension, Groups
<1>6. QED
  BY <1>4, <1>5 DEF RxInv

\* dp_txrx_init: new threads.
LEMMA TxrxInitOK == ASSUME RxInv, TxrxInit PROVE RxInv'
<1>1. /\ RxTypeOK /\ CtlOK /\ ctl.op = "none" /\ ~ctl.suspended /\ del = {} /\ UNCHANGED <<ctl, vdev, del>>
      /\ thr' = [t \in Threads |-> NewThread] /\ grp' = [g \in Groups |-> "RUNNING"]
  BY DEF RxInv, CtlOK, TxrxInit, VdevsSame
<1>2. /\ NewThread \in Thread /\ NewThread.pc = "sleep" /\ NewThread.bits = {} /\ NewThread.events = {}
      /\ NewThread.nbufq = <<>> /\ NewThread.flushInd = FALSE
  BY DEF NewThread, Thread, PCs
<1>3. RxTypeOK' /\ CtlOK'
  BY <1>1, <1>2 DEF RxTypeOK, CtlOK, TearingDown, Groups
<1>4. ASSUME NEW t \in Threads PROVE ThreadOK(t)'
  BY <1>1, <1>2 DEF ThreadOK, ShutsDown, Suspends, Resumes, SeesWork,
     At, HasBit, HasEvent, GroupOf, Ordered, InSuspension, Groups
<1>5. QED
  BY <1>3, <1>4 DEF RxInv

-----------------------------------------------------------------------------
\* The strengthened invariant holds in every reachable state of the threads,
\* softirqs, deletions and HDD's suspend, resume and tear-down.
THEOREM RxInvariance == RxSpec => []RxInv
<1>1. RxInit => RxInv
  BY InitOK
<1>2. RxInv /\ [RxNext]_rxVars => RxInv'
  <2>1. SUFFICES ASSUME RxInv, [RxNext]_rxVars PROVE RxInv'
    OBVIOUS
  <2>2. CASE UNCHANGED rxVars
    BY <2>1, <2>2 DEF rxVars, RxInv, RxTypeOK, CtlOK, TearingDown, ThreadOK, ShutsDown, Suspends, Resumes,
       SeesWork, At, HasBit, HasEvent, Ordered, InSuspension
  <2>3. ASSUME NEW t \in Threads,
               \/ ThreadStep(t) \/ GroFlushInd(t) \/ RefillSchedule(t) \/ DelFlushed(t)
               \/ \E v \in Vdevs : Enqueue(t, v) \/ DelPurge(v, t)
        PROVE  RxInv'
    BY <2>1, <2>3, ThreadsOK, DelFlushedOK, DelPurgeOK
  <2>4. ASSUME NEW v \in Vdevs, DelBegin(v) \/ DelEnd(v) \/ VdevCreate(v) PROVE RxInv'
    BY <2>1, <2>4, VdevsOK
  <2>5. CASE CtlStep
    BY <2>1, <2>5, SuspendOK, SuspendArmOK, SuspendDoneOK, SuspendTimeoutOK, ResumeOK, ResumeRxOK,
       DeinitOK, ShutdownOK, ShutdownPostOK, ShutdownDoneOK, TxrxInitOK DEF CtlStep
  <2>6. QED
    BY <2>1, <2>2, <2>3, <2>4, <2>5 DEF RxNext
<1>3. QED
  BY <1>1, <1>2, PTL DEF RxSpec

\* Thread records, group states and the deletion's worklist keep their types.
THEOREM RxTypeCorrect == RxSpec => []RxTypeOK
<1>1. RxInv => RxTypeOK
  BY DEF RxInv
<1>2. QED
  BY <1>1, RxInvariance, PTL

\* dp_rx_tm_suspend, dp_rx_refill_thread_suspend: when HDD takes the threads to
\* be suspended each is parked until the resume, however many suspensions
\* timed out before and however late they were answered.
THEOREM Parked == RxSpec => []SuspendedIsParked
<1>1. RxInv => SuspendedIsParked
  BY MembersOf DEF RxInv, ThreadOK, Suspends, SuspendedIsParked
<1>2. QED
  BY <1>1, RxInvariance, PTL

\* dp_rx_thread_loop: a receive thread does not sleep over a packet, a flush
\* indication, a vdev deletion or a shutdown.
THEOREM NoSleepOverWork == RxSpec => []WakeupPending
<1>1. RxInv => WakeupPending
  BY DEF RxInv, ThreadOK, SeesWork, WakeupPending, At, Threads
<1>2. QED
  BY <1>1, RxInvariance, PTL

\* dp_rx_tm_resume and the time-out path of dp_rx_tm_suspend: a receive thread
\* that is parked while HDD is awake has its resume_event set.
THEOREM NobodyStaysParked == RxSpec => []ParkedIsResumed
<1>1. RxInv => ParkedIsResumed
  BY DEF RxInv, CtlOK, ThreadOK, Resumes, InSuspension, ParkedIsResumed, At, Threads
<1>2. QED
  BY <1>1, RxInvariance, PTL

=============================================================================
