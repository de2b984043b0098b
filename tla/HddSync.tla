------------------------------ MODULE HddSync ------------------------------
(***************************************************************************)
(* The flows of the host driver (core/hdd, core/pld, os_if/nan) that run   *)
(* on the synchronization contexts: interfaces are added, deleted, brought *)
(* up and down, operations run on them, the idle SoC is shut down, the     *)
(* firmware is recovered (SSR), the SoC is probed and removed, the driver  *)
(* mode changes and the driver is unloaded.                                *)
(*                                                                         *)
(* A flow is a program: a sequence of steps, each one call of the osif or  *)
(* DSC interface on the context of a key, with the program that replaces   *)
(* the rest of the flow when the call fails (the goto of the error path).  *)
(***************************************************************************)
EXTENDS OsifSync

CONSTANT Flows   \* which flows may begin

VARIABLES
  prog,    \* what each thread has left to run
  ctx,     \* the contexts its flow has got hold of, by key
  lock,    \* who holds the locks of the kernel that serialize the flows
  hooks    \* who has the driver's callbacks: cfg80211, the platform driver (MCHddMix: and the mix)

flowVars == <<prog, ctx, lock, hooks>>

hddVars == <<vars, syncVars, flowVars>>

-----------------------------------------------------------------------------
(* The programs. *)

On(calls, k, err) == [i \in DOMAIN calls |-> [op |-> calls[i], key |-> k, err |-> err]]

Acquire(l) == On(<<"acquire">>, l, <<>>)
Release(l) == On(<<"release">>, l, <<>>)

Stop(k) == On(<<"stop">>, k, <<>>)
Free(k) == On(<<"destroy", "put">>, k, <<>>)

\* osif_*_sync_create and create_and_trans, with their error paths.
CreateSync(k, err) ==
  On(<<"get">>, k, err) \o On(<<"create">>, k, On(<<"put">>, k, <<>>) \o err)

CreateAndTrans(k) == CreateSync(k, <<>>) \o On(<<"begin">>, k, Free(k))

\* osif_*_sync_trans_start_wait
StartWait(k, err) == On(<<"find", "wait">>, k, err)

\* The end of a context: nobody finds it, nobody is left in it.
CloseDown(k) == On(<<"unregister", "drain">>, k, <<>>)

\* Mutant: the transition of a new interface is not stopped.
AddIntfNoStop(k) ==
  CreateAndTrans(k) \o On(<<"body">>, k, Stop(k) \o Free(k)) \o On(<<"register">>, k, <<>>)

AddIntf(k) ==
  CreateAndTrans(k) \o On(<<"body">>, k, Stop(k) \o Free(k)) \o On(<<"register">>, k, <<>>) \o Stop(k)

\* Mutant: the interface is destroyed without waiting for its operations.
DelIntfUndrained(k) ==
  StartWait(k, <<>>) \o On(<<"unregister">>, k, <<>>) \o Stop(k) \o Free(k)

DelIntf(k) == StartWait(k, <<>>) \o CloseDown(k) \o Stop(k) \o Free(k)

\* Mutant: the failed delete does not register the context again.
NdiDeleteForgets(k) ==
  StartWait(k, <<>>) \o CloseDown(k) \o On(<<"body">>, k, Stop(k)) \o Stop(k) \o Free(k)

\* A NAN data interface stays when its delete fails.
NdiDelete(k) ==
  StartWait(k, <<>>) \o CloseDown(k)
    \o On(<<"body">>, k, On(<<"register">>, k, <<>>) \o Stop(k)) \o Stop(k) \o Free(k)

\* hdd_open, and hdd_stop, which remembers what it may not do now.
IfUp(k) == On(<<"enter", "opened">>, k, <<>>) \o Stop(k)
IfDown(k) == On(<<"enter">>, k, On(<<"remember">>, k, <<>>)) \o Stop(k)

\* A protected operation (osif_*_sync_op_start ... op_stop).
Operation(k) == On(<<"enterOp", "leaveOp">>, k, <<>>)

IdleShutdown == On(<<"enter", "drain">>, Dev, <<>>) \o Stop(Dev)

\* The firmware is down, the platform calls shutdown, and reinit whatever
\* became of shutdown.
Reinit ==
  On(<<"resume">>, Dev, <<>>) \o On(<<"recovered">>, Dev, Stop(Dev)) \o On(<<"replay">>, Dev, <<>>)
    \o Stop(Dev)
Recovery ==
  On(<<"set">>, "recovering", <<>>) \o On(<<"shutdown">>, Dev, Reinit) \o StartWait(Dev, Reinit)
    \o On(<<"drain">>, Dev, <<>>) \o Reinit

\* hdd_close_all_adapters for one adapter, whose net_device is unregistered
\* with the kernel under the rtnl lock.
CloseAdapter(k) ==
  On(<<"unregister", "settle">>, k, <<>>) \o Acquire("rtnl") \o Release("rtnl") \o Free(k)

WiphyUnregister == Acquire("rtnl") \o On(<<"unhook">>, "cfg80211", <<>>) \o Release("rtnl")

\* hdd_wlan_exit: the net device notifier goes, then the adapters, then the wiphy.
WlanExit ==
  Acquire("rtnl") \o Release("rtnl") \o On(<<"closeAll">>, Dev, <<>>) \o WiphyUnregister

\* pld_*_remove around hdd_soc_remove, then what the caller does next.
Remove(then) ==
  StartWait(Dev, then) \o CloseDown(Dev) \o On(<<"set">>, "unloading", <<>>) \o WlanExit
    \o On(<<"clear">>, "unloading", <<>>) \o Stop(Dev) \o Free(Dev) \o then

\* hdd_open_adapter_no_trans
OpenAdapter(k, err) ==
  Acquire("rtnl") \o CreateSync(k, Release("rtnl") \o err)
    \o On(<<"body">>, k, Free(k) \o Release("rtnl") \o err)
    \o On(<<"register">>, k, <<>>) \o Release("rtnl")

\* hdd_soc_probe: a failure before the wiphy is registered, after it, and
\* with adapters open.
DestroySync == CloseDown(Dev) \o Stop(Dev) \o Free(Dev)
StartupFailed == WiphyUnregister \o DestroySync
ProbeFailed == WlanExit \o DestroySync
Probe(k) ==
  CreateAndTrans(Dev) \o On(<<"register">>, Dev, <<>>) \o On(<<"clear">>, "recovering", <<>>)
    \o On(<<"body">>, Dev, DestroySync) \o Acquire("rtnl") \o On(<<"hook">>, "cfg80211", <<>>) \o Release("rtnl")
    \o On(<<"body">>, Dev, StartupFailed) \o OpenAdapter(k, ProbeFailed)
    \o On(<<"body">>, Dev, ProbeFailed) \o Stop(Dev)

\* hdd_driver_mode_change: the adapters of one mode give way to the other's.
ModeChange(k) ==
  StartWait(Driver, <<>>) \o On(<<"drain">>, Driver, <<>>) \o On(<<"body">>, Driver, Stop(Driver))
    \o On(<<"closeAll">>, Dev, <<>>) \o On(<<"body">>, Driver, Stop(Driver))
    \o OpenAdapter(k, Stop(Driver)) \o Stop(Driver)

\* hdd_driver_load: the platform driver is told when the transition is over.
LoadFailed == On(<<"enter">>, Driver, <<>>) \o CloseDown(Driver) \o Stop(Driver) \o Free(Driver)
Load ==
  CreateAndTrans(Driver) \o On(<<"body">>, Driver, Stop(Driver) \o Free(Driver))
    \o On(<<"register">>, Driver, <<>>) \o Stop(Driver)
    \o On(<<"body">>, Driver, LoadFailed) \o On(<<"hook">>, "platform", <<>>)

\* Mutant: the operations of the driver are not waited for.
UnloadEndUndrained ==
  StartWait(Driver, <<>>) \o On(<<"unregister">>, Driver, <<>>) \o Stop(Driver) \o Free(Driver)

\* hdd_driver_unload: SoC remove is a transition of its own between the two
\* of the driver.
UnloadEnd == StartWait(Driver, <<>>) \o CloseDown(Driver) \o Stop(Driver) \o Free(Driver)
Unload ==
  StartWait(Driver, <<>>) \o On(<<"set">>, "unloading", <<>>) \o Stop(Driver) \o Acquire("platform")
    \o Remove(On(<<"unhook">>, "platform", <<>>) \o Release("platform") \o UnloadEnd)

\* cfg80211 calls with the rtnl lock held, while the wiphy is registered; the
\* platform driver makes one callback at a time.
Cfg80211(p) == Acquire("rtnl") \o On(<<"called">>, "cfg80211", <<>>) \o p
Platform(p) == Acquire("platform") \o On(<<"called">>, "platform", <<>>) \o p

\* What a thread may be asked to do.  The network stack calls with the rtnl
\* lock held, and the module is loaded and unloaded by one caller.
Programs == [
  add    |-> {Cfg80211(AddIntf(k)) : k \in NetDevs},
  del    |-> {Cfg80211(DelIntf(k)) : k \in NetDevs},
  ndiDel |-> {Cfg80211(NdiDelete(k)) : k \in NetDevs},
  up     |-> {Acquire("rtnl") \o IfUp(k) : k \in NetDevs},
  down   |-> {Acquire("rtnl") \o IfDown(k) : k \in NetDevs},
  op     |-> {Operation(k) : k \in NetDevs},
  globalOp |-> {Operation(Dev), Operation(Driver)},
  idle   |-> {IdleShutdown},
  ssr    |-> {Platform(Recovery)},
  probe  |-> {Platform(Probe(k)) : k \in NetDevs},
  remove |-> {Platform(Remove(<<>>))},
  mode   |-> {ModeChange(k) : k \in NetDevs},
  load   |-> {Acquire("module") \o Load},
  unload |-> {Acquire("module") \o Unload}]

ASSUME FlowAssumption == Flows \subseteq DOMAIN Programs

-----------------------------------------------------------------------------
(* The steps. *)

Locks == {"rtnl", "platform", "module"}
Hooks == {"cfg80211", "platform"}

HddInit ==
  /\ Init
  /\ SyncInit
  /\ prog = [t \in Threads |-> <<>>]
  /\ ctx = [t \in Threads |-> [k \in Keys |-> None]]
  /\ lock = [l \in Locks |-> None]
  /\ hooks = {h \in Hooks : attached \cap (IF h = "platform" THEN {Driver} ELSE Psocs) # {}}

\* The thread is not asleep in DSC and its next call is "call".
At(t, call) ==
  /\ pc[t] \notin {"tranWait", "walk", "opsWait"}
  /\ prog[t] # <<>>
  /\ Head(prog[t]).op = call

Key(t) == Head(prog[t]).key
Context(t) == ctx[t][Key(t)]
Rest(t) == Tail(prog[t])
Err(t) == Head(prog[t]).err

\* The thread goes on with p and the contexts c; at its end it has let go of
\* everything.
Proceed(t, p, c) ==
  /\ prog' = [prog EXCEPT ![t] = p]
  /\ ctx' = [ctx EXCEPT ![t] = IF p = <<>> THEN [k \in Keys |-> None] ELSE c]
  /\ lock' = IF p = <<>> THEN [l \in Locks |-> IF lock[l] = t THEN None ELSE lock[l]] ELSE lock

Continue(t, p, c) == Proceed(t, p, c) /\ UNCHANGED hooks

GoOn(t) == Continue(t, Rest(t), ctx[t])
Fail(t) == Continue(t, Err(t), ctx[t])
With(t, n) == [ctx[t] EXCEPT ![Key(t)] = n]

Start(t) ==
  /\ prog[t] = <<>>
  /\ \E f \in Flows : \E p \in Programs[f] : prog' = [prog EXCEPT ![t] = p]
  /\ UNCHANGED <<vars, syncVars, ctx, lock, hooks>>

AcquireLock(t) ==
  /\ At(t, "acquire")
  /\ lock[Key(t)] = None
  /\ prog' = [prog EXCEPT ![t] = Rest(t)]
  /\ lock' = [lock EXCEPT ![Key(t)] = t]
  /\ UNCHANGED <<vars, syncVars, ctx, hooks>>

ReleaseLock(t) ==
  /\ At(t, "release")
  /\ prog' = [prog EXCEPT ![t] = Rest(t)]
  /\ lock' = [lock EXCEPT ![Key(t)] = None]
  /\ UNCHANGED <<vars, syncVars, ctx, hooks>>

\* Whoever has no callback of the driver does not call.
Called(t) ==
  /\ At(t, "called")
  /\ IF Key(t) \in hooks THEN GoOn(t) ELSE Fail(t)
  /\ UNCHANGED <<vars, syncVars>>

SetHook(t) ==
  /\ \/ At(t, "hook") /\ hooks' = hooks \cup {Key(t)}
     \/ At(t, "unhook") /\ hooks' = hooks \ {Key(t)}
  /\ Proceed(t, Rest(t), ctx[t])
  /\ UNCHANGED <<vars, syncVars>>

\* What the flow protects, which may fail.
Body(t) ==
  /\ At(t, "body")
  /\ GoOn(t) \/ Fail(t)
  /\ UNCHANGED <<vars, syncVars>>

\* A full table is -ENOMEM. The table itself takes a second entry for one
\* net_device: that a net_device has one interface is the kernel's doing,
\* which makes a new net_device for every interface it adds.
Get(t) ==
  /\ At(t, "get")
  /\ LET k    == Key(t)
         free == IF k \in NetDevs /\ Lookup(k) # {} THEN {} ELSE Table(k) \ inUse
     IN  \/ \E n \in free : SyncGet(n) /\ Continue(t, Rest(t), With(t, n))
         \/ free = {} /\ Fail(t) /\ UNCHANGED syncVars
  /\ UNCHANGED vars

\* Fails without a parent in the table, or without memory.
CreateContext(t) ==
  /\ At(t, "create")
  /\ \/ SyncCreate(Key(t), Context(t)) /\ GoOn(t)
     \/ Fail(t) /\ UNCHANGED <<vars, syncVars>>

\* dsc_*_trans_start on a context of its own.
BeginOwn(t) ==
  /\ At(t, "begin")
  /\ \/ TransStart(t, Context(t)) /\ GoOn(t)
     \/ CanTrans(Context(t)) # "SUCCESS" /\ Fail(t) /\ UNCHANGED vars
  /\ UNCHANGED syncVars

Register(t) ==
  /\ At(t, "register")
  /\ SyncRegister(Key(t), Context(t))
  /\ GoOn(t)
  /\ UNCHANGED vars

Unregister(t) ==
  /\ At(t, "unregister")
  /\ SyncUnregister(Key(t))
  /\ Continue(t, Rest(t), IF Lookup(Key(t)) = {} THEN ctx[t]
                          ELSE With(t, CHOOSE n \in Lookup(Key(t)) : TRUE))
  /\ UNCHANGED vars

\* The lookup of *_trans_start_wait, under the table's lock.
Find(t) ==
  /\ At(t, "find")
  /\ \/ \E n \in Lookup(Key(t)) : Continue(t, Rest(t), With(t, n))
     \/ Lookup(Key(t)) = {} /\ Fail(t)
  /\ UNCHANGED <<vars, syncVars>>

\* Its wait, without that lock.
Wait(t) ==
  /\ At(t, "wait")
  /\ \/ TransStart(t, Context(t)) /\ GoOn(t)
     \/ TransStartWait(t, Context(t)) /\ UNCHANGED flowVars
     \/ /\ Context(t) \notin attached \/ CanTrans(Context(t)) = "E_INVAL"
        /\ Fail(t)
        /\ UNCHANGED vars
  /\ UNCHANGED syncVars

Wake(t) ==
  /\ TranWake(t)
  /\ IF tran[t] = "granted" THEN GoOn(t) ELSE Fail(t)
  /\ UNCHANGED syncVars

\* *_trans_start and *_op_start: lookup and start under the table's lock.
\* (The vdev table hands out the entry even when the start is rejected.)
Refused(t) ==
  /\ \A n \in Lookup(Key(t)) : CanTrans(n) # "SUCCESS"
  /\ Continue(t, Err(t), IF Lookup(Key(t)) = {} THEN ctx[t]
                         ELSE With(t, CHOOSE n \in Lookup(Key(t)) : TRUE))
  /\ UNCHANGED vars

EnterTrans(t) ==
  /\ At(t, "enter")
  /\ \/ \E n \in Lookup(Key(t)) : TransStart(t, n) /\ Continue(t, Rest(t), With(t, n))
     \/ Refused(t)
  /\ UNCHANGED syncVars

EnterOp(t) ==
  /\ At(t, "enterOp")
  /\ \/ \E n \in Lookup(Key(t)) : OpStart(t, n) /\ Continue(t, Rest(t), With(t, n))
     \/ Refused(t)
  /\ UNCHANGED syncVars

LeaveOp(t) ==
  /\ At(t, "leaveOp")
  /\ OpStop(t)
  /\ GoOn(t)
  /\ UNCHANGED syncVars

Drain(t) ==
  /\ At(t, "drain")
  /\ WaitForOps(t)
  /\ GoOn(t)
  /\ UNCHANGED syncVars

DrainStep(t) ==
  /\ OpsWake(t) \/ \E n \in Node : DrainNode(t, n)
  /\ UNCHANGED <<syncVars, flowVars>>

\* wait_for_ops on an interface below a transition of the caller.
Settle(t) ==
  /\ At(t, "settle")
  /\ ops[Context(t)] = 0
  /\ GoOn(t)
  /\ UNCHANGED <<vars, syncVars>>

StopTrans(t) ==
  /\ At(t, "stop")
  /\ TransStop(t)
  /\ GoOn(t)
  /\ UNCHANGED syncVars

\* osif_*_sync_destroy: the DSC context goes, then the entry is given back.
DestroyContext(t) ==
  /\ At(t, "destroy")
  /\ Detach(Context(t))
  /\ GoOn(t)
  /\ UNCHANGED syncVars

PutEntry(t) ==
  /\ At(t, "put")
  /\ SyncPut(Context(t))
  /\ GoOn(t)
  /\ UNCHANGED vars

\* The next adapter, until there is none.
CloseAll(t) ==
  /\ At(t, "closeAll")
  /\ LET adapters == {k \in NetDevs : Lookup(k) # {}}
     IN  \/ \E k \in adapters : Continue(t, CloseAdapter(k) \o prog[t], ctx[t])
         \/ adapters = {} /\ GoOn(t)
  /\ UNCHANGED <<vars, syncVars>>

SetFlags(flags) ==
  /\ cds' = flags
  /\ UNCHANGED <<attached, active, queue, tran, ops, opsEvent, pc, at, cur, todo, syncVars>>

SetFlag(t) == At(t, "set") /\ SetFlags(cds \cup {Key(t)}) /\ GoOn(t)
ClearFlag(t) == At(t, "clear") /\ SetFlags(cds \ {Key(t)}) /\ GoOn(t)

\* "if driver is unloading, there is no need to do SSR"
Shutdown(t) ==
  /\ At(t, "shutdown")
  /\ IF "unloading" \in cds THEN Fail(t) ELSE GoOn(t)
  /\ UNCHANGED <<vars, syncVars>>

\* osif_psoc_sync_trans_resume
Resume(t) ==
  /\ At(t, "resume")
  /\ IF "unloading" \in cds \/ Lookup(Dev) = {} THEN Fail(t)
     ELSE \E n \in Lookup(Dev) : Continue(t, Rest(t), With(t, n))
  /\ UNCHANGED <<vars, syncVars>>

\* __hdd_soc_recovery_reinit clears the flag, then replays what was cached;
\* neither when it fails or the firmware is down again.
Recovered(t) ==
  /\ At(t, "recovered")
  /\ \/ SetFlags(cds \ {"recovering"}) /\ GoOn(t)
     \/ Fail(t) /\ UNCHANGED <<vars, syncVars>>

Replay(t) ==
  /\ At(t, "replay")
  /\ cached' = [n \in Vdevs |-> IF n \in inUse /\ key[n] # None THEN "NO_COMMAND" ELSE cached[n]]
  /\ GoOn(t)
  /\ UNCHANGED <<vars, inUse, key>>

\* __hdd_open, which may fail.
Opened(t) ==
  /\ At(t, "opened")
  /\ CacheCommand(Context(t), "NO_COMMAND") \/ UNCHANGED syncVars
  /\ GoOn(t)
  /\ UNCHANGED vars

Remember(t) ==
  /\ At(t, "remember")
  /\ IF Context(t) = None THEN UNCHANGED syncVars ELSE CacheCommand(Context(t), "INTERFACE_DOWN")
  /\ GoOn(t)
  /\ UNCHANGED vars

Step(t) ==
  \/ AcquireLock(t) \/ ReleaseLock(t) \/ Called(t) \/ SetHook(t) \/ Body(t)
  \/ Get(t) \/ CreateContext(t) \/ BeginOwn(t) \/ Register(t) \/ Unregister(t)
  \/ Find(t) \/ Wait(t) \/ Wake(t) \/ EnterTrans(t) \/ EnterOp(t) \/ LeaveOp(t)
  \/ Drain(t) \/ DrainStep(t) \/ Settle(t) \/ StopTrans(t)
  \/ DestroyContext(t) \/ PutEntry(t) \/ CloseAll(t)
  \/ SetFlag(t) \/ ClearFlag(t) \/ Shutdown(t) \/ Resume(t) \/ Recovered(t) \/ Replay(t)
  \/ Opened(t) \/ Remember(t)

HddNext == \E t \in Threads : Start(t) \/ Step(t)

HddSpec == HddInit /\ [][HddNext]_hddVars

\* A flow that has begun goes on; the kernel's mutexes are handed to their
\* waiters in turn.  Nobody is obliged to begin one.
HddFairness ==
  \A t \in Threads : WF_hddVars(Step(t)) /\ SF_hddVars(AcquireLock(t))

HddFairSpec == HddSpec /\ HddFairness

-----------------------------------------------------------------------------
\* Every variable holds values of its type.
HddTypeOK ==
  /\ TypeOK
  /\ SyncTypeOK
  /\ ctx \in [Threads -> [Keys -> Node \cup {None}]]
  /\ lock \in [Locks -> Threads \cup {None}]
  /\ hooks \subseteq Hooks \cup Flows

\* Nobody's context is destroyed under them: a thread inside a transition or
\* an operation, or granted one it does not know of yet, finds its DSC node
\* and its table entry in place.
SectionLive ==
  \A t \in Threads :
    pc[t] # "idle" /\ tran[t] # "aborted" => at[t] \in attached \cap inUse

\* The flows keep what DSC demands of its callers: every destroy meets no
\* child, operation, transition or sleeper, every stop ends a transition of
\* the caller, and so on.
DscUsedRight == [][Next]_vars

\* What a key leads to is one entry, with a DSC context.
KeysLead ==
  \A k \in Keys : \A m, n \in Lookup(k) : m = n /\ n \in attached

\* No table entry is lost: it is registered, or a flow still holds it.
EntriesHeld ==
  \A n \in inUse : key[n] # None \/ \E t \in Threads, k \in Keys : ctx[t][k] = n

\* A flow that has closed its interface down has it to itself.
ClosedIsQuiet ==
  \A t, u \in Threads :
    pc[t] = "quiet" /\ t # u => ~(pc[u] # "idle" /\ tran[u] # "queued" /\ at[u] \in Subtree(at[t]))

\* Every flow comes to its end, whatever it has to wait for: a lock, its turn
\* in a DSC queue, the operations in flight.
FlowsEnd == \A t \in Threads : prog[t] # <<>> ~> prog[t] = <<>>

-----------------------------------------------------------------------------
(* What the repository's comments and assertions say, and the flows break. *)

\* A thread that sleeps in a DSC queue with the rtnl lock held does not wait
\* for a transition whose owner in turn needs the rtnl lock: the wait of
\* wlan_hdd_del_virtual_intf ends before the "waited more than" panic.
NoLockCycle ==
  \A t, u \in Threads :
    lock["rtnl"] = t /\ tran[t] = "queued" /\ pc[u] \in InTrans /\ at[u] \in Ancestors(at[t])
      => ~(At(u, "acquire") /\ Key(u) = "rtnl")

\* hdd_soc_recovery_reinit runs in the transition that
\* hdd_soc_recovery_shutdown started.
ReinitProtected ==
  \A t \in Threads : At(t, "recovered") => active[Context(t)] = t

\* A command cached during recovery is handled after it: once re-initialized,
\* with every flow at its end, none is left on a registered interface.
CachedHandled ==
  "recovering" \notin cds /\ (\A t \in Threads : prog[t] = <<>>) =>
    \A n \in inUse \cap Vdevs : key[n] # None => cached[n] = "NO_COMMAND"

=============================================================================
