------------------------------ MODULE OsifSync ------------------------------
(***************************************************************************)
(* os_if/sync: the tables that lead from what the kernel hands to the      *)
(* driver (a net_device, a device, or nothing) to the DSC context that     *)
(* protects it.  The three tables have the same operations; a table entry  *)
(* stands for the DSC node it owns, so entry n of the vdev table is the    *)
(* osif_vdev_sync whose dsc_vdev is n when n is attached.                  *)
(***************************************************************************)
EXTENDS Dsc

CONSTANTS
  NetDevs,   \* the net_devices
  Dev        \* the parent device, key of the psoc table

Keys == NetDevs \cup {Dev, Driver}

ASSUME KeyAssumption == Dev \notin NetDevs \cup Node /\ None \notin Keys /\ NetDevs \cap Node = {}

VARIABLES
  inUse,    \* the entries with in_use set
  key,      \* net_dev, dev or is_registered of each entry
  cached    \* nb_cmd_during_ssr of each dsc_vdev

syncVars == <<inUse, key, cached>>

Commands == {"NO_COMMAND", "INTERFACE_DOWN"}

\* The table a key is looked up in, and the key its parent is registered by.
Table(k) == IF k = Driver THEN {Driver} ELSE IF k = Dev THEN Psocs ELSE Vdevs
ParentKey(k) == IF k = Dev THEN Driver ELSE Dev

-----------------------------------------------------------------------------
\* osif_*_sync_lookup
Lookup(k) == {n \in inUse : key[n] = k}

SyncInit ==
  /\ inUse = attached
  /\ key = [n \in Node |-> IF n = Driver /\ n \in attached THEN Driver
                           ELSE IF n \in Psocs \cap attached THEN Dev ELSE None]
  /\ cached = [n \in Vdevs |-> "NO_COMMAND"]

\* osif_*_sync_get: the entry is taken, nothing leads to it yet.
SyncGet(n) ==
  /\ inUse' = inUse \cup {n}
  /\ UNCHANGED <<key, cached>>

\* osif_*_sync_put zeroes the entry.
SyncPut(n) ==
  /\ inUse' = inUse \ {n}
  /\ key' = [key EXCEPT ![n] = None]
  /\ UNCHANGED cached

\* The DSC context of entry n is created under the parent found in its table.
SyncCreate(k, n) ==
  /\ k # Driver => Ancestors(n) \cap Lookup(ParentKey(k)) # {}
  /\ Create(n)
  /\ cached' = IF n \in Vdevs THEN [cached EXCEPT ![n] = "NO_COMMAND"] ELSE cached
  /\ UNCHANGED <<inUse, key>>

SyncRegister(k, n) ==
  /\ key' = [key EXCEPT ![n] = k]
  /\ UNCHANGED <<inUse, cached>>

\* Mutant: the entry stays registered.
SyncUnregisterNot(k) == UNCHANGED syncVars

SyncUnregister(k) ==
  /\ key' = [n \in Node |-> IF n \in Lookup(k) THEN None ELSE key[n]]
  /\ UNCHANGED <<inUse, cached>>

\* dsc_vdev_cache_command
CacheCommand(n, cmd) ==
  /\ cached' = [cached EXCEPT ![n] = cmd]
  /\ UNCHANGED <<inUse, key>>

SyncTypeOK ==
  /\ inUse \subseteq Node
  /\ key \in [Node -> Keys \cup {None}]
  /\ cached \in [Vdevs -> Commands]

=============================================================================
