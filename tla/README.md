# qcacld-3.0: a TLA+ verification project

qcacld-3.0 is the Qualcomm WLAN host driver for Linux. This directory models the part
of it that everything else relies on for mutual exclusion (the Driver Synchronization
Core, the lookup tables in front of it, and the driver flows that use them) and five of
the services above it (P2P remain-on-channel, the receive threads, the blacklist of access
points, WMA's held requests, suspend and resume of the SoC), checks the models with TLC and
proves the safety of all but the last with TLAPS. Source paths below are relative to `src/`.

Contents: 1 inventory, 2 modules, 3 runs, 4 findings, 5 proofs, 6 limits, 7 plan.

## 1. Inventory

### 1.1 The synchronization stack

| Part | State | Operations | Used by |
|---|---|---|---|
| `components/dsc` | a tree driver / psocs / vdevs; per node one active transition, a FIFO of waiting ones, a count of operations in flight and an event; one spinlock | create, destroy, trans_start, trans_start_wait, trans_stop, op_start, op_stop, wait_for_ops | `os_if/sync` |
| `os_if/sync` | three fixed tables (driver, psoc, vdev) from a key (none, `struct device`, `net_device`) to a DSC node; one spinlock per table; a cached command per vdev | get/put, create, create_and_trans, destroy, register, unregister, start and start_wait callbacks, op_start/stop, cache_command | HDD, PLD, os_if/nan |
| HDD, PLD and NAN flows | the kernel objects they own (wiphy, net_devices), two global flags (recovering, unloading) | module load and unload, SoC probe, remove, recovery shutdown and reinit, idle shutdown, mode change, interface add, delete, open, stop, any ioctl or cfg80211 operation | the kernel: rtnl lock, platform driver callbacks, module loader |

A *transition* is exclusive with transitions up and down its branch of the tree; an
*operation* is shared and refused while a transition is active or queued around it.
`wait_for_ops` lets a transition wait for the operations admitted before it. All calls of
DSC run under `driver->lock` except the sleeps and the walk over the child lists.

What is hard here: a transition may start on two paths (at once, or triggered by someone
else's stop); sleeps happen outside the lock that guards the condition slept on; nodes
are freed while others still look for them; a recovery's transition spans two callbacks;
the flows also take the rtnl lock, in both orders. What makes it correct: exclusion, no
lost or double grant, no lost wake-up, no forgotten waiter, nobody inside a context that
is destroyed, no lost table entry, and every flow ends. `PROJECT.json` lists the hazards
line by line with the properties that cover them.

### 1.2 Services

| Part | State | Operations | What is hard |
|---|---|---|---|
| `components/p2p` (remain on channel, off-channel frames) | `roc_q`, `tx_q_roc`, `tx_q_ack`, identifiers, the runtime lock, a cleanup event | ROC request and cancel, frame and cancel, cleanup of either, scan events, two timers, transmit completion | everything is matched by pointer or by "the current request"; cancels, time-outs and scan events cross |
| `core/dp/txrx3.0` | per thread: event bits, completions, the packet queue, the GRO list; a state for all receive threads and one for the refill thread | enqueue, flush indication, refill, vdev flush, suspend, resume, shutdown | bits tested and cleared in separate steps, waits that time out while the other side goes on |
| `components/blacklist_mgr` | a bounded list of APs, each on up to six lists with a time; what the firmware was told; the suspend flag | reject, judge a candidate, connect, disconnect, replace userspace's list, wifi off, suspend, resume | expiry at every walk, eviction, sending deferred by a suspension |
| `core/wma` (stations of an access point) | `wma_hold_req_queue` with a timer per request, the peers | ADD_STA, DELETE_STA, confirmation events, time-out, crash | answers matched by type and order, time-outs already in the mailbox, failures after the request is held |
| `components/pmo` with HDD's PM callbacks | `struct pmo_wow`, WMI's suspend flag, `hdd_wlan_suspended`; the layers stopped so far | runtime suspend and resume; cfg80211, bus and noirq suspend and resume; the target's acknowledgement, wake-up and resume events | ten layers that may refuse, each with its own way back; a target that wakes up during the suspension or crashes during the sleep |

What makes them correct: a queue moves on and its contexts are neither leaked nor used
after they are freed; a suspended thread is parked and a resumed one is not; the firmware
and userspace see the lists that the host keeps; UMAC is answered once, for the right
station; a suspension that fails and a resume leave nothing stopped, and no wake-up is lost.

### 1.3 The rest of the driver

| Component | State and behaviour | Hard part | Status |
|---|---|---|---|
| `components/tdls` | peer link states, connection tracker timers, one command at a time | timers racing commands | candidate |
| `components/nan` | NAN discovery and NDI states | disable racing enable, NDP peers at the limit | candidate |
| `components/cmn_services/policy_mgr` | table of concurrent connections | table updates racing mode decisions | candidate in part |
| `core/cds` | driver state, message scheduler | suspend/resume handshake of threads | candidate in part |
| `core/dp` (htt, ol, txrx) | tx descriptors, pause and flow control, rx reorder | descriptor pools at their limits | candidate |
| `core/sme`, `core/sap`, `core/mac` | command queues, AP and station state machines | late responses, timers | candidates |
| `components/{ipa, pkt_capture, ftm_time_sync, umac/mlme}` | offload set-up, capture thread, periodic work, roam offload | | candidates |
| `components/{interop_issues_ap, mlme, action_oui, cp_stats, coex, disa, fw_offload, ocb, cfg, target_if, wmi}`, `components/cmn_services/interface_mgr`, `core/bmi`, `core/pld`, `os_if` handlers | configuration, parsing, encoding, pass-through | | not modelled |

The common submodule `cmn` (qdf, hif, object manager, scheduler) is not part of the
repository; its primitives are modelled by how the code here uses them.

## 2. Modules

    TreeLock            abstract: a lock on the nodes of a forest
       ^ (refinement, proved and checked)
    DscTree  <-  Dsc    the DSC data structure; the threads that call it
                  ^
               OsifSync the lookup tables
                  ^
               HddSync  the driver's flows; refines Dsc (DscUsedRight: checked, and
                        proved for the flows of HddProofs)

    DscProofs           safety of Dsc         DscRefinement    Dsc implements TreeLock
    HddProofs           safety of HddSync's flows, which implement Dsc
    MCDsc, MCHddSync, MCHddMix    instances for TLC

    P2p, RxThreads, Blm, WmaReq, PmoSuspend    the services, independent of each other
    Queues                                     what of a queue is in a set, in order
    MCServices                                 their instances for TLC

    QueueLemmas                                Queues, and induction on numbers
    P2pProofs, RxProofs, BlmProofs, WmaProofs  safety of the services

**DscTree** is the tree and its critical sections. `active`, `queue`, `ops`, `opsEvent`
are `trans.active_desc`, `trans.queue`, `ops.count` and `ops.event` of every node; `tran`
is the on-stack `struct dsc_tran` of each waiting thread; `attached` says which nodes are
linked; `cds` is the pair of global flags the vdev check reads. `CanTrans` is the three
`__dsc_*_can_trans`, `Triggered` the three `__dsc_*_trigger_trans` with the `_checked`
helpers, `BeginTrans`, `QueueTrans`, `EndTrans`, `BeginOp`, `EndOp`, `CreateNode` and
`DestroyNode` the sections under `driver->lock`.

**Dsc** adds the threads: `pc` and `at` are where a thread is, `cur` and `todo` describe a
`wait_for_ops` walk (it resets the event under the lock, sleeps outside it, and follows
the child lists as they change). A thread runs one section at a time. `MayDestroy` is
what DSC asserts or assumes when a node is destroyed (no child, no operation, no
transition, no sleeper on its event). Errors that return without effect are not steps.

**TreeLock** says what DSC promises in terms of holders and waiters only: who may
become a holder, that a waiter is overtaken by nothing below it, and that waiters leave
by being served or dropped.

**OsifSync** has `inUse`, `key` (`net_dev`, `dev`, `is_registered`) and `cached`
(`nb_cmd_during_ssr`). Table entry *n* is identified with the DSC node it owns.

**HddSync** writes a flow as a program: the sequence of its calls, each with the program
that replaces the rest when the call fails (the `goto` of the error path). `AddIntf` is
`wlan_hdd_add_virtual_intf` (and `os_if_nan` NDI create, which makes the same calls),
`NdiDelete` is `os_if_nan_process_ndi_delete`, and so on by name. `prog` is what each
thread has left, `ctx` the contexts its flow got hold of, `lock` the kernel's locks,
`hooks` who can call the driver (cfg80211 while the wiphy is registered, the platform
driver while registered). What a protected body does is abstracted to whether it fails.
`start_wait` is two steps, the lookup under the table lock (`Find`) and the DSC call
without it (`Wait`); `start` and `op_start` are one.

**P2p.** `soc` is `struct p2p_soc_priv_obj` with the contexts its queues lead to; `cmds` are
the messages to the scheduler thread, `scans` what the scan component has under way,
`expired` the timer callbacks that wait. User threads (`Ucfg...`, `Cleanup...Sync`) only post;
the scheduler thread handles a command (`ProcessCmd`), a scan event (`Scan...`), a time-out or a
completion in one step. An operator such as `ProcessRocReq` maps the state before a call to
the state after it, for a given result of the call that may fail. Contexts are memory that
is allocated again: `UcfgCancel` posts a pointer, and what it leads to is decided when it is
handled; `id` is the identifier a request keeps, its own or that of the frame it was made for.
`Faults` are the calls that may fail: starting and aborting a scan, sending a frame, and the
registration for probe requests (`rx`), whose failure is only logged while the request stays on
air and its frame is freed. Scan events are not matched with the request they belong to, as in the code.

**RxThreads.** `thr` has for every thread its place in the loop, its event bits, the
completions set, its packet queue and its GRO list (which vdevs have packets there). A step
is one access to shared state: testing and clearing a bit is one, setting the completion
the next. `ctl` is HDD's thread in `dp_txrx_suspend`, `_resume` and `_deinit`, `del` the
progress of `dp_rx_tm_flush_by_vdev_id`. With `Timeouts` a wait may end without its event at any
time; otherwise only when the thread waited for is parked.

**Blm.** `list` is `reject_ap_list` in order; an entry has the lists it is on with the time of
each. `UpdateApInfo`, `Add`, `MakeRoom`, `FillAll` follow the functions of those names step by step,
including that a walk stops at the entry it looks for and that 0 stands for "none" in
`blm_is_oldest_entry`. Any send may fail (no memory before the lists are walked, or the command
after it); `lastSend` remembers whether the last one did. An AP for which there is no memory is not
added, also when another one was evicted for it. Everything runs under one lock and is one step, except
`blm_add_userspace_black_list` (`todo`) and the two halves of the resume handler.

**WmaReq.** `wma` is the queue with its requests, the host's peers and the commands on their
way; `umac` what UMAC waits for; `late` the timer callbacks in the scheduler's mailbox; `target`
the firmware. A request is memory: a late callback compares only the address. The firmware
answers in the order of the commands, and its status is success. UMAC may ask for several
stations at once: LIM does defer most messages while it waits for an answer (`gLimProcessDefdMsgs`),
but the flag is one for the whole MAC: the answers to key requests, which do not wait for it, end the deferral
(`lim_process_mlm_rsp_messages.c:2431`), and so do a channel switch (2900) and the deletion of another
BSS (`lim_process_sme_req_messages.c:6040`). The model does not rely on it, which makes the properties
stronger; finding 6 needs one station only.

**PmoSuspend.** `host` is the PM core's thread: the calls it has still to make (`todo`), on the way
down, back up after a failure (`undo`) or in a resume, and the layers it has stopped. The
sequences and the targets of every `goto` are tables (`RuntimeSuspend`, `RuntimeUndo`,
`RuntimeGoto`, ...); a system suspend joins the callbacks of cfg80211, the bus and `noirq`, as the
kernel calls them. `pmo` has the fields of `struct pmo_wow` by short names (`wow` is `wow_enable`,
`bus` is `is_wow_bus_suspended`, `txrx` is `txrx_suspended`, `ack` and `resume` the two events, `wake`
is `wow_initial_wake_up`). The waits for the target's answer are steps of their own: it may refuse,
stay silent or crash. `plat.bus` tells PCIe, where pld suspends the link and wake-ups have an
interrupt line of their own, from an integrated bus, where they share one with the data.

External, modelled from use: cfg80211 and the network stack call with the rtnl lock held;
the platform driver delivers probe, remove, shutdown and reinit one at a time; the module
loader serializes load and unload.

## 3. Runs

| Run | Checks | Instance |
|---|---|---|
| `dsc_lifecycle` | `IInv`, `TypeOK`, `GrantsHaveOwner`, `Quiescence`, `OpsWakeupPending`, `TransExclusion`, `QueueHasBlocker`, `ServiceOrder` | every node comes and goes, operations and walks, any flags; 1 psoc, 2 vdevs, 3 threads |
| `dsc_live` | `WaiterServed`, `DrainEnds`, `LockSpec` | fair, no symmetry; 1 psoc, 1 vdev, 3 threads |
| `hdd_intf` | `HddTypeOK`, `SectionLive`, `KeysLead`, `EntriesHeld`, `ClosedIsQuiet`, `DscUsedRight` | 2 net_devices, 2 table entries, 3 threads; five mixes: add, delete, NDI delete, operation, idle shutdown, recovery; mode change, add, operation, idle shutdown; mode change, up, down, idle shutdown; load and probe with their failures, unload and remove, with add and operations on one net_device; load, probe and unload (which removes the SoC) with operations on the SoC and the driver |
| `hdd_live` | `FlowsEnd` | fair; add, delete, up, down, recovery; 3 threads, no symmetry |
| `services` | P2p: `OneOnAir`, `ContextsQueued`, `AwakeOnAir`, `HeadMoves`; RxThreads: `SuspendedIsParked`, `WakeupPending`, `ParkedIsResumed`; Blm: `OneEntryPerAp`, `FirmwareKnows`, `UserListReplaced`; WmaReq: `HeldIsAwaited`, `NobodyForgotten`, `AgreesWithTarget`; PmoSuspend: `NothingLeftStopped`, `TargetFollows`, `WakeNotLost`, `BusUpToTalk` | one service at a time: 2 ROC contexts and a frame on another channel; 1 receive and 1 refill thread with time-outs; 3 APs and a list of 2; 2 stations; suspensions on either bus without a bound |
| `hdd_rtnl`, `hdd_reinit`, `hdd_cached`, `rx_gro`, `rx_refill`, `wma_conf`, `pmo_ssr` | one property each, violated | the findings of section 4 |

**Bounds.** The state spaces are finite: the only unbounded number, `ops`, counts threads.
One psoc is what the hardware has (`WLAN_MAX_PSOCS` is 1). Three threads suffice for the cases at stake: one in a transition, one queued or
in an operation, one that destroys, unloads or triggers. The theorems of section 5 remove
these bounds for DSC and for four of the services. Thread, vdev and net_device symmetry is used in safety runs only; the
properties treat them alike.

Flow sets are chosen per question and leave out the pairs that the findings show to
misbehave: no passing run has both an interface delete and a SoC remove or a failing probe
(`hdd_rtnl`), or a mode change beside these, a recovery, a failing load or an unload (`hdd_rtnl`,
`hdd_reinit`, and the remarks in section 4). `hdd_intf` runs five mixes of flows (`MCHddMix`): one
behaviour has the flows of one mix; a mix with load begins with the module not loaded, the
others with a SoC probed. What the passing runs show therefore holds for the flows named in
them, not for every combination.

In `services`, `MaxCmds`, `MaxLate` and `MaxFails` bound the posted commands, the late timers and the
failures: with one of each, two requests and a frame still meet every pair of cancel, cleanup,
time-out, scan event and failing call. One receive thread and one refill thread are enough
because the threads do not talk to each other; a suspension passes over both. The blacklist
has room for two of three APs, so that eviction and the firmware's limit are reached, and a
threshold of two, so that an AP moves from the avoid list to the blacklist; times are one
tick, so that the clock's bound of one lets each list expire, a rejection for the signal after the
retry delay it comes with; userspace sends an empty list
and one of two APs, one of which the driver rejects as well. `MaxOdd` allows two of: a failing
call, a time-out while the firmware still works, a crash. Memory is as many blocks as there
are contexts in use at once, so that freed blocks come back under old pointers. `PmoSuspend` has
no bound: its states are finite, with any number of suspensions, failures and crashes.

**Fairness.** `Dsc!Fairness` (weak): whoever is in a section leaves it, and a sleeper whose
event is set wakes; a debug build panics if a transition or operation lasts too long. No
thread is obliged to start anything. `HddFairness`: a flow that has begun goes on (weak),
and a waiter for a kernel mutex that is released again and again gets it (strong; these
mutexes hand over to their waiters). `WaiterServed` needs its escape clause: a vdev waiter
can be held up for as long as psoc transitions keep coming. `RxFairness` (weak), used by
`rx_refill` only: a kernel thread that can run does, and HDD's thread goes on with the call it
is in.

**Mutants.** Each property of a passing run has a mutant, an operator next to the one it
replaces (`...Early`, `...Undrained`, `...Leaks`), which TLC must refute.

## 4. Findings

1. `hdd_rtnl`: an interface delete sleeps in DSC with the rtnl lock held, behind a SoC
   remove, a failing probe or a mode change that needs that lock inside its transition. The
   unloading flag, which would turn the delete away, is set after the transition has begun.
2. `hdd_reinit`: shutdown is refused while a mode change holds the driver transition, and
   reinit resumes a transition that does not exist.
3. `hdd_cached`: an interface-down refused after the replay loop and before the end of the
   recovery's transition is cached and never handled.
4. `rx_gro`: a receive thread decides whether to flush its GRO list, then takes the request of
   a vdev's deletion and answers it. A request that comes between the two is answered
   without a flush, and the vdev is freed with packets in that list.
5. `rx_refill`: the refill thread clears its wake-up bit after its work. A tear-down that posts
   during the work is forgotten and waits without a limit.
6. `wma_conf`: adding a station fails after the peer-assoc command was sent (`uAPSD` parameters, line
   4173 of `wma_dev_if.c`). The peer is removed, but the request stays held and nothing is answered;
   the confirmation of the command overwrites the failure (line 3010), and UMAC is told that a station
   was added which has no peer. One station is enough.
7. `pmo_ssr`: when the firmware crashes while the system is suspended, the resume callbacks
   return at once, and nothing else clears `hdd_wlan_suspended` and `is_wow_bus_suspended`: after
   the recovery packets are dropped and tx pause events ignored until the next suspend and
   resume.

Findings 1 to 3 rest on the model of the kernel's callers in section 2; in particular 1
assumes that cfg80211 calls `del_virtual_intf` with the rtnl lock. All seven are behaviours of
the models, not reproduced on a device.

Also noted, without a run of its own:

- During recovery `__dsc_vdev_can_trans` answers `E_INVAL` (`wlan_dsc_vdev.c:141`); its
  comment (line 119) says the request is queued with `E_AGAIN`. The model follows the code.
- `osif_driver_sync_trans_start_wait` waits after it has dropped the table lock. A mode change
  that looked the driver up before `hdd_driver_unload` unregistered it starts its transition
  when the unload's last one stops, and is in it when the driver context is freed. It takes
  a write to the module parameter `con_mode` during module exit, so no run mixes the two. A load
  that fails after it has registered the driver (`wlan_hdd_main.c:17541`) meets the same mode change
  with `osif_driver_sync_trans_start`, which does not wait, and an assertion that it succeeds.
- `__dsc_psoc_wait_for_ops` walks `psoc->vdevs` after it has released the lock under which "all dsc
  APIs execute" (`__wlan_dsc.h:141`), while an interface add that is refused because of the
  walking transition unlinks and frees its vdev.
- P2P: a request whose registration for probe requests failed stays on air deaf to them
  (`AwakeOnAir` says so), and keeps a pointer to the frame it was made for, which is freed. After a
  scan that cannot be started or aborted, nobody executes the requests behind it
  (`HeadMoves` is claimed only while no call failed), and a failed abort leaves the runtime lock
  taken. A started or foreign-channel event overwrites `ROC_STATE_CANCEL_IN_PROG`, so that the
  next cancel aborts again. A frame that waits for a ROC that went another way stays in
  `tx_q_roc`. `p2p_process_cleanup_roc_queue`, `p2p_process_cleanup_tx_queue` and `p2p_tx_timeout` free
  contexts without their identifiers, which then lead to freed memory.
- Receive threads: when `dp_rx_tm_suspend` times out, the refill thread suspended just before
  stays suspended, and later suspends are refused. `dp_txrx_resume` returns early when the refill
  thread is not suspended.
- Blacklist: a send to the firmware that fails is not repeated; the firmware is behind until
  some other operation sends (`FirmwareKnows` and `UserListReplaced` are claimed of it unless the last send
  failed). An entry that moved to the monitor list in the same millisecond has age 0, and
  `0 > 0` keeps it from being evicted first (`wlan_blm_core.c:581`); a remaining time of 0 also
  counts as "none found". Entries on several lists are never evicted.
- WMA: an ADD_STA whose command could not be sent stays held like that of finding 6, and the next
  confirmation of that vdev answers it. An ADD_STA or DELETE_STA for which there is no memory removes the first held request of
  that type, another station's (`NobodyForgotten` is claimed only while memory lasts). A late
  answer after a time-out ends the next request of its type. A DELETE_STA for which no answer is
  wanted is answered by its timer. A late time-out whose memory is in use again ends the new
  request early.
- Suspend: `txrx_suspended` survives a crash like the flags of finding 7, so that a later resume
  enables interrupts that are enabled. A suspension that fails after pld suspended the bus does
  not resume it; only an integrated bus gets there, where pld has nothing to suspend.
  `__wlan_hdd_bus_suspend` returns the positive `QDF_STATUS_E_BUSY` as an errno when HIF has work left.
- The DSC headers document `QDF_STATUS_E_ALREADY` (`wlan_dsc_vdev.h:71`), which no code
  returns.

## 5. Proofs

Every theorem is about the specification the runs check, for all values of its constants.
The assumptions are the ASSUMEs of the modules, which TLC evaluates on every run:

| Module | Assumption |
|---|---|
| Dsc | `TreeAssumption`: the tree is a tree, threads are finite in number, a parent that can go implies children that can go |
| RxThreads | `RxAssumption`: no thread is both a receive and a refill thread, a queue takes one packet at least |
| P2p | `P2pAssumption`: the faults are calls that can fail, `Nil` is nobody's name, one command and one late callback at least |
| Blm | `BlmAssumption`: limits and times are numbers; the driver rejects an AP for misbehaving or for its signal, and only userspace's list puts it on userspace's blacklist (the one caller with that type is `wlan_blm_core.c:1203`) |
| WmaReq | `WmaAssumption`: the faults are calls that can fail, `NoReq` is not memory |

The theorems of `HddProofs` have one hypothesis more, `OnlyInterfaces`, about the constants of HddSync:
the flows are those of interfaces (`add`, `del`, `ndiDel`, `up`, `down`), operations (`op`, `globalOp`), idle
shutdown (`idle`) and recovery (`ssr`); there is one psoc at most, as the driver is built
(`WLAN_MAX_PSOCS`, used at `os_if/sync/src/osif_psoc_sync.c:41`); vdevs are not there from the beginning;
`cds` may hold any of the two flags. The flows of the first mix of `hdd_intf` are such a set.

The bounds on time, late callbacks, commands and failures are constants as well, so a
theorem holds for each of them, however large.

**DSC.** `DscProofs` shows `Spec => []IInv`. None of the safety properties is inductive by itself.
`TransExclusion` needs to know that a thread found in a queue is asleep at that node and in
no other queue (`QueueShape`), or a grant could go to a thread that is active elsewhere.
`Quiescence` needs the count to equal the number of threads in operations (`OpsCounted`)
and the walk to leave only empty nodes behind (`WalkSound`, which also ties the event to the
count while someone sleeps on it). All of them need detached nodes to be empty and occupied
nodes to be attached (`TreeShape`). The step case has one lemma per action.
Two lemmas carry the argument about starting transitions: `Admitted` (what `can_trans`
guarantees) and `TriggerSound` (the set started by a stop is pairwise unrelated, non-empty
queues only, with nothing active around it).

From it follow `TypeCorrect`, `Exclusion`, `GrantOwnership`, `Quiet`, `NoLostWakeup`, the
action property `Order`, and `NoForgottenWaiter`, which has an induction of its own on top
of `IInv`: `TriggerComplete` says that after a stop whatever is still queued has a blocker.
`DscRefinement` proves `Spec => LockSpec`.

**Driver flows.** A flow is a program, a sequence of calls, and threads interleave them; what a call
may rely on is what the calls before it in the same flow have left. `HddProofs` names the program
points of the nine flows (`Code`) and sorts them into thirteen situations (`Standing`): before the rtnl lock,
with it, with a bare entry, an entry with its context, one that a key leads to, inside a transition, with the
entry taken out of the table, closed down, and so on. `HddInv` says that every thread is in one of
them, carries `IInv` of Dsc along, and says how the tables look meanwhile (`EntryShape`, `Held`). The
properties are not inductive without this: that a destroy meets nobody (`DscUsedRight`, `SectionLive`) rests
on a chain over the whole flow. A flow that deletes an interface takes its entry out of the table, so that
nobody new comes upon it (`Hidden`); it drains it, so that the operations that came before are
gone; a thread that came upon the entry before and has not entered must hold the rtnl lock, and
there is one holder (`HasRtnl`); so after the drain it is alone (`Alone`), and after the stop nobody
is at the node or walks it (`Nobody`). `Held` is stronger than `EntriesHeld`: the holder of an unregistered
entry has the rtnl lock, which is why two flows never hold one each.

The proof has a half about sequences (the lemmas up to `ProgramsTyped`): the programs of
HddSync unfold into the program points, and what each point's call does to the program leads to
another one (`Typing`). The other half is about states: `Flow` and `Data` say what a step of a
thread may change of the flows and of DSC's variables, `Others` that everybody else then stands as before,
`Conclude` puts an invariant together again. With them there is one lemma per action.
That every step is a step of Dsc comes out of the same lemmas, so `ImplementsDsc` shows
`HddSpec => Spec`, and each theorem about DSC holds of the driver's flows
(`NoFlowForgotten` is an example). An early form of the invariant was too weak in two places, which the
proof brought up: a thread in an operation, or with no interface in hand, must be known not to
have the rtnl lock, and `prog` to be defined for the threads and for nobody else.

**Receive threads.** `RxProofs`: `RxInv` says of each thread by itself what it may rely on while HDD's
thread is where it is (`ThreadOK`), and in which order HDD takes the groups (`CtlOK`).
`SuspendedIsParked` is not inductive: it needs to know that while HDD waits for a thread there is
no stale `resume_event`, and that the event it waits for comes from a thread that is parked.
`WakeupPending` needs to know where in its loop a thread is that took the wake-up and has not
done the work yet (`SeesWork`), `ParkedIsResumed` that a pending `SUSPEND` bit belongs to a suspension
that HDD knows of (`Resumes`), and both that only a tear-down makes a thread leave its loop.

**WMA.** `WmaProofs`: `WmaInv` relates the set of held requests, their contents and UMAC's waits; it
does not depend on the order of the queue, so that it survives answers to the wrong
station, late time-outs and a crash. `Kept` says more than `NobodyForgotten`, namely the kind of the
request and that its answer is wanted; otherwise a step that ends another request of the
same station could not be told from the one that ends the wait. `AgreesWithTarget` needs the
order, and a second invariant, `Calm`: while nothing has failed, the queue is the events and
the commands under way, one behind the other (`Fifo`), and each station's last command says how
the firmware will leave it (`StaOK`).

**P2P.** `P2pProofs`: `P2pInv` has a part for the requests (`RocOK`: none queued twice, only the head
past idle, what is processed is what is queued, and the lock and the filter, or its refusal, while
something is on air) and one for the frames (`TxOK`: allocated is what is in a message or in one of the two
queues, and `tx_q_roc` has none twice, or `p2p_ready_to_tx_frame` would free a frame and keep it). That
a posted context is in one command (`Once`) is what makes the first step of it safe. A handler
composes calls that each touch one part, so there is one lemma per call; the frames that
are sent when a ROC is ready are an induction over that queue. `HeadMoves` needs `Moving` as part of
the invariant: a scan is under way and the head is past idle.

**Blacklist.** `BlmProofs`: most operations only take from the list. `Weaker(l, m)` says so (no new
entry, none on more lists than it was save the monitor list); expiry, eviction, clearing and
forgiving are each shown to be `Weaker`, and whatever the firmware was told stays sufficient
(`WeakerKeeps`). What is left is sending, where `Filled` is carried from one list to the next in
the order of their importance, so that the part that is cut off at the limit is the least
important, and adding. `BlmInv` also says what is still to do for userspace: APs of the list it
sent last, after the list without them was sent; otherwise `UserListReplaced` is not inductive. Sends
fail at any time: what is claimed of the firmware is claimed unless the last one did, and the proof
shows that one success makes up for any number of failures, since every send is of the whole list.

**Technique.** The library's induction theorems take an operator as a parameter, which the
provers cannot instantiate; `QueueLemmas` has induction over a *set* of numbers instead
(`InductionOnSet`, from the well-foundedness of `<`), with which recursive functions are shown to exist
and their values reasoned about: `Select`, the scan for an entry to evict, the frames sent in
turn. `Queues!Select` is `SelectSeq` with a set in place of the test for the same reason.

**Only model-checked.** `WaiterServed`, `DrainEnds`, `FlowsEnd`, `DeinitEnds`: liveness under fairness is
out of the prover's reach. HddSync's properties where `OnlyInterfaces` does not hold, that is when the
driver is loaded and unloaded, a SoC probed and removed or the mode changed (the other mixes of
`hdd_intf`): there the driver's and the psoc's entries come and go as well, under other locks, and
`Settle` and `CloseAll` have a thread deal with more than one entry. PmoSuspend has no constants and
finitely many states, all of which the run visits: what TLC checks there holds without a bound.

## 6. Limits

- `dsc_*_destroy` aborts the queue and unlinks the node in one step; in the code the abort
  loop runs outside the lock.
- The debug build's timers and its list of operation names are abstracted; a failed timer
  allocation when a queued transition is triggered is not modelled.
- A thread is in one DSC section at a time. Closing an adapter below a transition of the
  same thread therefore waits for its operations without a walk (`Settle`).
- Reinit after a shutdown that was refused stops in the model where the code would stop a
  transition it does not own.
- `Get` takes no second entry for a net_device that has one. The table itself does not look:
  the kernel makes a new net_device for each interface it adds. That a key leads to one entry
  (`KeysLead`) rests on this in part.
- `StopTrans` and `Drain` are steps of the thread that has the transition, where the code does not ask
  who calls. That a stop ends a transition of the caller (`DscUsedRight`) holds by that; what the runs
  show of it is that flows do not get stuck there (`FlowsEnd`) and, for reinit, finding 2.
- Buses other than PCIe take the same transitions around probe and remove and are not
  modelled separately. The pre-CAC interface's flows are left out.
- P2p leaves out random MAC filters, NoA, listen offload, the reception of frames, connection
  status and the start and stop of the component. Giving the registration for probe requests back
  (`wlan_p2p_roc.c:309`, 533) is taken to succeed. Identifiers are the names of the contexts' memory, so
  that those of successive owners of one block are not told apart. RxThreads leaves out the dropping of
  packets under memory pressure. WmaReq leaves out the other users of the queue (STA, TDLS and
  NDI peers, ADD_BSS, peer create confirmation, hardware mode, vdev stop) and takes the
  firmware's status as success.
- PmoSuspend leaves out what is configured in the firmware before it sleeps, the pausing of
  the vdevs and the components' own suspend handlers. As the code asserts (`QDF_BUG`), a call that
  starts a layer again does not fail while the firmware is up, except in a runtime resume, where
  a failure starts a recovery.

**Not modelled.** Most of the driver's 746,000 lines are data: generated frame packing
(`dot11f`), message translation (WMA, WMI), configuration items, vendor command parsing. Its
large handlers (cfg80211, SME, LIM) are sequences of calls on state kept elsewhere. A
faithful model of a sizeable share of those lines is out of reach; the components whose
behaviour depends on interleaving, time or failure are taken one by one, and the table of
1.3 names the candidates that are left.

## 7. Plan

1. Done: DscTree, Dsc, TreeLock, OsifSync, HddSync; proofs of DSC's safety and refinement;
   P2p, RxThreads, Blm, WmaReq, PmoSuspend; proofs of the safety of the first four of these;
   proofs of HddSync's safety for the flows of interfaces, operations, idle shutdown and recovery.
2. Theorems next: HddSync without `OnlyInterfaces`. Load, unload, probe and remove need the situations of
   an interface once more for the entries of the driver and the psoc, held under the platform
   driver's and the module loader's lock; the mode change needs a thread that has two entries.
3. Modules next: `TdlsPeer` with its connection tracker, `NanDisc`,
   `PolicyMgrTable`, `CdsSched`; for each an inventory of its hazards first.
