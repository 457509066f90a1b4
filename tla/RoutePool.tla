------------------------------ MODULE RoutePool ------------------------------
(***************************************************************************)
(* internal/routepool/store.go: the life cycle of the nodes, saved before  *)
(* it is published.  What is saved and what is published differ only under *)
(* the store's mutex, so one variable stands for both, and it survives a   *)
(* crash.  A change that cannot be saved is not published, and the store   *)
(* refuses claims until some later change is saved.                        *)
(***************************************************************************)
CONSTANTS Nodes

VARIABLES
  node,      \* entries: the state of each node
  unsaved    \* err: the last change could not be saved

poolVars == <<node, unsaved>>

NodeStates == {"available", "used", "failed", "disabled"}

PoolTypeOK == node \in [Nodes -> NodeStates] /\ unsaved \in BOOLEAN

\* Open: what an earlier process left behind.
PoolInit == node \in [Nodes -> {"available", "disabled"}] /\ unsaved = FALSE
Reopen == unsaved' = FALSE /\ UNCHANGED node

\* changeLocked, when the file is written ...
Saved(ns, s) ==
  /\ node' = [n \in Nodes |-> IF n \in ns THEN s ELSE node[n]]
  /\ unsaved' = FALSE
\* ... and when it is not.
NotSaved == unsaved' = TRUE /\ UNCHANGED node

Change(ns, s) == Saved(ns, s) \/ NotSaved

\* What Claim and ClaimProbe find under the mutex they write under.
Claimable(n, allowUsed) ==
  /\ ~unsaved
  /\ node[n] \in IF allowUsed THEN {"available", "used"} ELSE {"available"}
ProbeableStates(manual) == IF manual THEN NodeStates \ {"disabled"} ELSE {"available"}
Probeable(n, manual) == ~unsaved /\ node[n] \in ProbeableStates(manual)
=============================================================================
