----------------------------- MODULE PmoSuspend -----------------------------
(***************************************************************************)
(* components/pmo with the callbacks of core/hdd around it: the SoC is     *)
(* suspended and resumed, by runtime PM or with the system.  The caller    *)
(* makes one call after the other, each into a layer that may refuse; the  *)
(* target answers, wakes up on its own account, or crashes.                *)
(*                                                                         *)
(* HIF, HTC, CDP, WMI, the kernel and the target are external.  A call     *)
(* that undoes a suspension does not fail while the firmware is up: the    *)
(* code asserts so (QDF_BUG).                                              *)
(***************************************************************************)
EXTENDS Naturals, Sequences, SequencesExt

VARIABLES
  host,   \* the PM core's thread: what it does, the calls still to make, what it has stopped
  pmo,    \* struct pmo_wow, WMI's target_suspended flag (wmi), hdd_wlan_suspended (hdd)
  dev,    \* the target: its state, whether it wants to wake up, command and answer under way
  plat    \* the bus, and whether the driver is recovering

pmoVars == <<host, pmo, dev, plat>>

Buses == {"pcie", "ipci"}

PmoInit ==
  /\ host = [path |-> "runtime", op |-> "none", todo |-> <<>>, stopped |-> {}, wait |-> "none",
             asked |-> FALSE]
  /\ pmo = [wow |-> FALSE, state |-> "none", nack |-> FALSE, wake |-> FALSE, ack |-> "clear",
            resume |-> "clear", txrx |-> FALSE, wmi |-> FALSE, bus |-> FALSE, hdd |-> FALSE]
  /\ dev = [state |-> "awake", waking |-> FALSE, cmd |-> "none", answer |-> "none"]
  /\ plat \in [bus : Buses, recovering : {FALSE}]

-----------------------------------------------------------------------------
(* What is called, in which order, and where a failure goes.               *)

\* pmo_core_psoc_bus_runtime_suspend; "wake" is the check for a wake-up that
\* came too early and the change of HIF's state under one lock.
RuntimeSuspend ==
  <<"pm", "dp", "htc", "inprogress", "configure", "link", "target", "hif", "txrx", "rx", "pld",
    "wake", "ep">>

\* Mutant: the progress flag stays set.
RuntimeUndoForgets == <<"txrx", "hif", "target", "configure", "link", "dp", "pm", "htc">>

\* Mutant: the target is woken before the bus.
RuntimeUndoHasty ==
  <<"txrx", "target", "hif", "configure", "link", "inprogress", "dp", "pm", "htc">>

RuntimeUndo ==
  <<"txrx", "hif", "target", "configure", "link", "inprogress", "dp", "pm", "htc">>

RuntimeGoto ==
  [pm |-> "pm", dp |-> "pm", htc |-> "dp", target |-> "configure", hif |-> "target", txrx |-> "hif",
   rx |-> "txrx", pld |-> "txrx", wake |-> "txrx", ep |-> "txrx"]

RuntimeResume ==
  <<"pld", "hif", "target", "txrx", "link", "configure", "inprogress", "pm", "htc", "dp">>

\* The callbacks of cfg80211 ("configure"), bus suspend (to "ep") and
\* suspend_noirq.
SystemSuspend ==
  <<"configure", "dp", "ipa", "early", "target", "hif", "txrx", "rx", "ep", "noirq", "wake", "events">>

SystemUndo == <<"txrx", "hif", "target", "early", "dp", "configure">>

SystemGoto ==
  [dp |-> "configure", ipa |-> "dp", early |-> "dp", target |-> "early", hif |-> "target",
   txrx |-> "hif", rx |-> "txrx", ep |-> "txrx"]

SystemResume == <<"noirq", "hif", "target", "txrx", "early", "dp", "configure">>

From(calls, c) == SubSeq(calls, SelectInSeq(calls, LAMBDA d : d = c), Len(calls))

\* Where a failed call goes.
AfterFailure(c) ==
  IF host.path = "runtime" THEN From(RuntimeUndo, RuntimeGoto[c]) ELSE From(SystemUndo, SystemGoto[c])

\* Layers that have nothing to stop are only asked.  The link of an
\* integrated bus is not pld's to suspend, and only there may HIF still be
\* at work ("ep") or share the wake-up interrupt.
Stops(c) ==
  IF c \in {"rx", "ipa", "ep", "events", "wake"} \/ (c = "pld" /\ plat.bus = "ipci") THEN {} ELSE {c}
MayFail(c) ==
  c \notin {"inprogress", "configure", "link", "target", "txrx", "wake"} /\ (c = "ep" => plat.bus = "ipci")

-----------------------------------------------------------------------------
(* Suspend. *)

Doing(op, c) == host.op = op /\ host.wait = "none" /\ host.todo # <<>> /\ Head(host.todo) = c

\* h after its first call.
Advance(h) ==
  LET end == Len(h.todo) = 1 IN
  [h EXCEPT !.todo = Tail(@), !.wait = "none",
            !.op = IF ~end THEN @ ELSE IF @ = "suspend" THEN "asleep" ELSE "none"]

\* When suspend_noirq fails it is the PM core that resumes the device.
Unwind(c) ==
  IF c \in {"noirq", "events"} \/ (c = "wake" /\ host.path = "system")
  THEN [host EXCEPT !.op = "resume", !.todo = From(SystemResume, "hif"), !.stopped = @ \ {"noirq"}]
  ELSE [host EXCEPT !.op = "undo", !.todo = AfterFailure(c), !.wait = "none"]

\* The PM core suspends; a recovering driver refuses.
PmBegin(path) ==
  /\ host.op = "none" /\ ~plat.recovering
  /\ host' = [host EXCEPT !.path = path, !.op = "suspend", !.asked = FALSE,
                !.todo = IF path = "runtime" THEN RuntimeSuspend ELSE SystemSuspend]
  /\ UNCHANGED <<pmo, dev, plat>>

\* A call into another layer.  The bus callbacks of a system suspend refuse
\* when the driver recovers.
StopLayer(c) ==
  /\ Doing("suspend", c)
  /\ c \notin {"configure", "target", "txrx", "wake"}
  /\ \/ /\ plat.recovering /\ host.path = "system" => c \notin {"dp", "noirq"}
        /\ host' = Advance([host EXCEPT !.stopped = @ \cup Stops(c)])
     \/ MayFail(c) /\ host' = Unwind(c)
  /\ UNCHANGED <<pmo, dev, plat>>

\* pmo_core_psoc_configure_suspend, and hdd_suspend_wlan around it.
ConfigureSuspend ==
  /\ Doing("suspend", "configure")
  /\ \E applicable \in BOOLEAN :
       pmo' = [pmo EXCEPT !.wow = applicable, !.bus = TRUE, !.hdd = @ \/ host.path = "system"]
  /\ host' = Advance([host EXCEPT !.stopped = @ \cup {"configure"}])
  /\ UNCHANGED <<dev, plat>>

\* pmo_core_psoc_bus_suspend_req: WoW (pmo_core_enable_wow_in_fw) or a pdev
\* suspend (pmo_core_psoc_suspend_target), up to the wait for the answer.
BusSuspendReq ==
  /\ Doing("suspend", "target")
  /\ \E d3 \in IF host.path = "runtime" THEN {"d3"} ELSE {"d0", "d3"}, sent \in BOOLEAN :
       LET p == [pmo EXCEPT !.ack = "clear", !.nack = IF pmo.wow THEN FALSE ELSE @,
                            !.state = IF pmo.wow THEN d3 ELSE @] IN
       IF sent
       THEN /\ pmo' = [p EXCEPT !.wmi = TRUE]
            /\ dev' = [dev EXCEPT !.cmd = IF dev.state = "dead" THEN @
                                          ELSE IF pmo.wow THEN "wow_enable" ELSE "pdev_suspend"]
            /\ host' = [host EXCEPT !.wait = "ack"]
       ELSE pmo' = p /\ host' = Unwind("target") /\ UNCHANGED dev
  /\ UNCHANGED plat

\* Mutant: a refusal of the target is taken for its consent.
TargetAnsweredDeaf ==
  /\ host.wait = "ack" /\ pmo.ack = "set"
  /\ host' = Advance(host)
  /\ UNCHANGED <<pmo, dev, plat>>

\* The wait is over; the target may have said no.  A host without the credits
\* to wake a target in WoW recovers, but goes on.
TargetAnswered ==
  /\ host.wait = "ack" /\ pmo.ack = "set"
  /\ \/ /\ pmo.wow /\ pmo.nack
        /\ host' = Unwind("target")
        /\ pmo' = [pmo EXCEPT !.wmi = FALSE]
        /\ UNCHANGED plat
     \/ /\ ~(pmo.wow /\ pmo.nack)
        /\ host' = Advance(host)
        /\ \/ UNCHANGED plat
           \/ pmo.wow /\ plat' = [plat EXCEPT !.recovering = TRUE]
        /\ UNCHANGED pmo
  /\ UNCHANGED dev

\* ... or it ends without an answer: time is up, which starts a recovery, or
\* the firmware is down and all waits were ended by force.
TargetSilent ==
  /\ host.wait = "ack" /\ pmo.ack # "set"
  /\ host' = Unwind("target")
  /\ pmo' = [pmo EXCEPT !.wmi = FALSE]
  /\ plat' = [plat EXCEPT !.recovering = TRUE]
  /\ UNCHANGED dev

\* pmo_core_txrx_suspend: interrupts are disabled for D3, on a bus that can.
TxrxSuspend ==
  /\ Doing("suspend", "txrx")
  /\ \/ host' = Advance(host) /\ UNCHANGED pmo
     \/ /\ pmo.state = "d3"
        /\ \/ /\ host' = Advance([host EXCEPT !.stopped = @ \cup {"txrx"}])
              /\ pmo' = [pmo EXCEPT !.txrx = TRUE]
           \/ host' = Unwind("txrx") /\ UNCHANGED pmo
  /\ UNCHANGED <<dev, plat>>

\* Mutant: the check for an early wake-up is gone.
WakeCheckGone ==
  /\ Doing("suspend", "wake")
  /\ host' = Advance(host)
  /\ UNCHANGED <<pmo, dev, plat>>

\* The check for an early wake-up.
WakeCheck ==
  /\ Doing("suspend", "wake")
  /\ host' = IF pmo.wake /\ (host.path = "runtime" => plat.bus = "ipci") THEN Unwind("wake")
             ELSE Advance(host)
  /\ UNCHANGED <<pmo, dev, plat>>

-----------------------------------------------------------------------------
(* Resume, and the unwinding of a suspension that failed. *)

Restarting(c) == Doing("undo", c) \/ Doing("resume", c)

\* The PM core resumes: the target asked for it, or the host has work.
PmResume ==
  /\ host.op = "asleep"
  /\ host' = [host EXCEPT !.op = "resume", !.asked = FALSE,
                !.todo = IF host.path = "runtime" THEN RuntimeResume ELSE SystemResume]
  /\ UNCHANGED <<pmo, dev, plat>>

\* A recovering driver leaves each callback at once: runtime resume (which
\* begins with "pld"), and resume_noirq, bus resume ("hif" to "dp") and the
\* cfg80211 resume of the system.
Skips(c) ==
  /\ plat.recovering /\ (host.op = "resume" \/ c = "configure")
  /\ c \in IF host.path = "system" THEN {"noirq", "hif", "configure"} ELSE {"pld"}
SkipCallback(c) ==
  /\ Restarting(c) /\ Skips(c)
  /\ host' = CASE c = "pld" -> [host EXCEPT !.op = "none", !.todo = <<>>]
               [] c = "hif" -> [host EXCEPT !.todo = <<"configure">>]
               [] OTHER -> Advance(host)
  /\ UNCHANGED <<pmo, dev, plat>>

\* A resume is given up and the driver recovers.
GiveUp ==
  IF host.path = "system" THEN [host EXCEPT !.todo = <<"configure">>, !.wait = "none"]
  ELSE [host EXCEPT !.op = "none", !.todo = <<>>, !.wait = "none"]

\* A call into another layer, which may fail in a runtime resume.
RestartLayer(c) ==
  /\ Restarting(c) /\ ~Skips(c) /\ c \notin {"configure", "target", "txrx"}
  /\ \/ /\ host' = Advance([host EXCEPT !.stopped = @ \ {c}])
        /\ pmo' = [pmo EXCEPT !.wake = @ /\ c # "noirq"]
        /\ UNCHANGED plat
     \/ /\ host.op = "resume" /\ host.path = "runtime" /\ c \in {"pld", "hif", "htc", "dp"}
        /\ host' = GiveUp
        /\ plat' = [plat EXCEPT !.recovering = TRUE]
        /\ UNCHANGED pmo
  /\ UNCHANGED dev

\* pmo_core_psoc_configure_resume, and hdd_resume_wlan around it.
ConfigureResume ==
  /\ Restarting("configure") /\ ~Skips("configure")
  /\ host' = Advance([host EXCEPT !.stopped = @ \ {"configure"}])
  /\ pmo' = [pmo EXCEPT !.bus = FALSE, !.hdd = @ /\ host.path = "runtime"]
  /\ UNCHANGED <<dev, plat>>

\* pmo_core_txrx_resume
TxrxResume ==
  /\ Restarting("txrx")
  /\ host' = Advance(IF pmo.txrx THEN [host EXCEPT !.stopped = @ \ {"txrx"}] ELSE host)
  /\ pmo' = [pmo EXCEPT !.txrx = FALSE]
  /\ UNCHANGED <<dev, plat>>

\* pmo_core_psoc_bus_resume_req returns an error.  The unwinding goes on
\* regardless.
ResumeFailed ==
  /\ host' = IF host.op = "undo" THEN Advance(host) ELSE GiveUp
  /\ plat' = [plat EXCEPT !.recovering = TRUE]

\* pmo_core_psoc_bus_resume_req up to the wait: the target is told to leave
\* WoW (pmo_core_psoc_disable_wow_in_fw) or to resume (..._resume_target),
\* unless it was not suspended or is gone.
BusResumeReq ==
  /\ Restarting("target")
  /\ \/ /\ ~pmo.wmi \/ plat.recovering
        /\ ResumeFailed
        /\ pmo' = [pmo EXCEPT !.wake = FALSE]
        /\ UNCHANGED dev
     \/ /\ pmo.wmi /\ ~plat.recovering
        /\ pmo' = [pmo EXCEPT !.wake = FALSE, !.resume = "clear"]
        /\ dev' = [dev EXCEPT !.cmd = IF pmo.wow THEN "host_wakeup" ELSE "pdev_resume"]
        /\ host' = [host EXCEPT !.wait = "resume"]
        /\ UNCHANGED plat

\* The wait is over.
TargetResumed ==
  /\ host.wait = "resume" /\ pmo.resume = "set"
  /\ host' = Advance(host)
  /\ pmo' = [pmo EXCEPT !.wmi = FALSE, !.bus = @ /\ ~pmo.wow]
  /\ UNCHANGED <<dev, plat>>

\* ... or it ends without an answer.
TargetGone ==
  /\ host.wait = "resume" /\ pmo.resume # "set"
  /\ ResumeFailed
  /\ UNCHANGED <<pmo, dev>>

-----------------------------------------------------------------------------
(* The target, and what it calls. *)

\* It carries out a command; WoW it may refuse.
DevStep ==
  /\ dev.cmd # "none"
  /\ \/ /\ dev.cmd \in {"wow_enable", "pdev_suspend"}
        /\ dev' = [dev EXCEPT !.cmd = "none", !.answer = "ack",
                     !.state = IF dev.cmd = "wow_enable" THEN "wow" ELSE "pdev"]
     \/ dev.cmd = "wow_enable" /\ dev' = [dev EXCEPT !.cmd = "none", !.answer = "nack"]
     \/ /\ <<dev.cmd, dev.state>> \in {<<"host_wakeup", "wow">>, <<"pdev_resume", "pdev">>}
        /\ dev' = [dev EXCEPT !.cmd = "none", !.answer = "resumed", !.state = "awake", !.waking = FALSE]
  /\ UNCHANGED <<host, pmo, plat>>

\* pmo_core_psoc_target_suspend_acknowledge
SuspendAcknowledge ==
  /\ dev.answer \in {"ack", "nack"}
  /\ pmo' = [pmo EXCEPT !.nack = dev.answer = "nack", !.ack = "set"]
  /\ dev' = [dev EXCEPT !.answer = "none"]
  /\ UNCHANGED <<host, plat>>

\* pmo_core_psoc_wakeup_host_event_received
WakeupHostEvent ==
  /\ dev.answer = "resumed"
  /\ pmo' = [pmo EXCEPT !.state = "none", !.resume = "set"]
  /\ dev' = [dev EXCEPT !.answer = "none"]
  /\ UNCHANGED <<host, plat>>

\* The target wants to wake up.  An early wake-up is recorded
\* (pmo_core_psoc_handle_initial_wake_up), later HIF or the wake-up interrupt
\* asks the PM core for a resume; an interrupt line of its own always does.
InitialWakeUp ==
  LET early == IF host.path = "system" THEN "noirq" \notin host.stopped
               ELSE plat.bus = "ipci" /\ host.op # "asleep" /\ ~Doing("suspend", "ep") IN
  /\ dev.state = "wow" /\ ~dev.waking /\ dev.answer = "none"
  /\ dev' = [dev EXCEPT !.waking = TRUE]
  /\ IF early THEN pmo' = [pmo EXCEPT !.wake = TRUE] /\ UNCHANGED host
     ELSE host' = [host EXCEPT !.asked = TRUE] /\ UNCHANGED pmo
  /\ UNCHANGED plat

\* wlan_hdd_pld_uevent(PLD_FW_DOWN): whoever waits for the target is told by
\* force.
DevCrash ==
  /\ dev.state # "dead"
  /\ dev' = [state |-> "dead", waking |-> FALSE, cmd |-> "none", answer |-> "none"]
  /\ plat' = [plat EXCEPT !.recovering = TRUE]
  /\ UNCHANGED <<host, pmo>>

\* wma_shutdown_notifier_cb, so that a resume does not wait in vain.
ShutdownNotifier ==
  /\ plat.recovering /\ pmo.resume # "set"
  /\ pmo' = [pmo EXCEPT !.state = "none", !.resume = "set"]
  /\ UNCHANGED <<host, dev, plat>>

\* hdd_wlan_shutdown and hdd_wlan_re_init: the modules below are closed and
\* opened anew; the psoc object and HDD's context stay.
Recover ==
  /\ plat.recovering
  /\ host.op = "none" \/ (host.op = "asleep" /\ host.path = "runtime")
  /\ plat' = [plat EXCEPT !.recovering = FALSE]
  /\ dev' = [state |-> "awake", waking |-> FALSE, cmd |-> "none", answer |-> "none"]
  /\ host' = [host EXCEPT !.op = "none", !.stopped = {}]
  /\ pmo' = [pmo EXCEPT !.wmi = FALSE]

Calls == Range(RuntimeSuspend) \cup Range(SystemSuspend)

PmoNext ==
  \/ \E path \in {"runtime", "system"} : PmBegin(path)
  \/ \E c \in Calls : StopLayer(c) \/ SkipCallback(c) \/ RestartLayer(c)
  \/ ConfigureSuspend \/ BusSuspendReq \/ TargetAnswered \/ TargetSilent \/ TxrxSuspend \/ WakeCheck
  \/ PmResume \/ ConfigureResume \/ TxrxResume
  \/ BusResumeReq \/ TargetResumed \/ TargetGone
  \/ DevStep \/ SuspendAcknowledge \/ WakeupHostEvent \/ InitialWakeUp
  \/ DevCrash \/ ShutdownNotifier \/ Recover

PmoSpec == PmoInit /\ [][PmoNext]_pmoVars

-----------------------------------------------------------------------------
\* A suspension that failed, wherever it did, and a resume leave nothing
\* stopped: every layer works again and WMI takes commands.
NothingLeftStopped ==
  host.op = "none" /\ ~plat.recovering => host.stopped = {} /\ ~pmo.wmi

\* The host and the target agree: the one sleeps when the other does, in the
\* mode from which the host will wake it, and is awake with no command or
\* answer under way when the host is.
TargetFollows ==
  ~plat.recovering =>
    /\ host.op = "none" => dev.state = "awake" /\ dev.cmd = "none" /\ dev.answer = "none"
    /\ host.op = "asleep" => dev.state = IF pmo.wow THEN "wow" ELSE "pdev"

\* The SoC does not stay asleep when the target wants to wake up: the PM core
\* was asked for a resume.
WakeNotLost == host.op = "asleep" /\ dev.waking => host.asked

\* The target is spoken to over a bus that works.
BusUpToTalk == dev.cmd # "none" /\ host.wait # "none" => host.stopped \cap {"hif", "pld", "noirq"} = {}

\* A flag that says that the SoC is suspended says so truly: with it set, tx
\* pause events are ignored (bus) and packets dropped (hdd).
SuspendFlagsTrue == ~plat.recovering /\ (pmo.bus \/ pmo.hdd) => host.op # "none"
=============================================================================
