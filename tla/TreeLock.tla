------------------------------ MODULE TreeLock ------------------------------
(***************************************************************************)
(* What the Driver Synchronization Core promises of its transitions: an    *)
(* exclusive lock on every node of a tree.  Holding a node excludes the    *)
(* nodes above and below it; a release passes locks on to waiting clients  *)
(* and leaves nobody waiting without a reason; new clients do not overtake *)
(* the ones that wait for the node or for one above it.                    *)
(***************************************************************************)

CONSTANTS
  Nodes,    \* the nodes of the tree
  Above,    \* for each node, the set of nodes above it
  Clients,  \* the threads
  None      \* nobody

VARIABLES
  holder,   \* who holds each node
  waiting   \* the clients that wait for each node

lockVars == <<holder, waiting>>

Conflict(m, n) == m \in Above[n] \/ n \in Above[m]

Exclusive == \A m, n \in Nodes : Conflict(m, n) => holder[m] = None \/ holder[n] = None

\* n is held, or something above or below it, or clients wait above it.
HeldUp(n) ==
  \/ \E m \in Nodes : (m = n \/ Conflict(m, n)) /\ holder[m] # None
  \/ \E a \in Above[n] : waiting[a] # {}

Served == \A n \in Nodes : waiting[n] # {} => HeldUp(n)

Busy(c) == \E n \in Nodes : holder[n] = c \/ c \in waiting[n]

Init ==
  /\ holder = [n \in Nodes |-> None]
  /\ waiting = [n \in Nodes |-> {}]

Acquire(c, n) ==
  /\ ~Busy(c)
  /\ waiting[n] = {} /\ ~HeldUp(n)
  /\ holder' = [holder EXCEPT ![n] = c]
  /\ UNCHANGED waiting

Wait(c, n) ==
  /\ ~Busy(c)
  /\ waiting[n] # {} \/ HeldUp(n)
  /\ waiting' = [waiting EXCEPT ![n] = @ \cup {c}]
  /\ UNCHANGED holder

Release(n) ==
  /\ holder[n] # None
  /\ holder' \in [Nodes -> Clients \cup {None}]
  /\ \A m \in Nodes :
       \/ holder'[m] = IF m = n THEN None ELSE holder[m]
       \/ (m = n \/ holder[m] = None) /\ holder'[m] \in waiting[m]
  /\ waiting' = [m \in Nodes |-> waiting[m] \ {holder'[m]}]
  /\ Exclusive' /\ Served'

\* The node goes away, and so do the clients that wait for it.
Cancel(n) ==
  /\ waiting' = [waiting EXCEPT ![n] = {}]
  /\ UNCHANGED holder

Next ==
  \/ \E c \in Clients, n \in Nodes : Acquire(c, n) \/ Wait(c, n)
  \/ \E n \in Nodes : Release(n) \/ Cancel(n)

Spec == Init /\ [][Next]_lockVars

=============================================================================
