------------------------------- MODULE Gateway -------------------------------
(***************************************************************************)
(* The collecting gateway: internal/gateway on top of RoutePool, under the *)
(* management lock of internal/service/control.go, with the node pool on.  *)
(*                                                                         *)
(* Three kinds of process borrow sessions: requests (readers of the        *)
(* management lock), the background worker, and the panel (its writer).    *)
(* Each may run a probe round.  A session belongs to one account and one   *)
(* model, the rejections of an account are shared by its sessions, and a   *)
(* session is in use as long as somebody pins it.                          *)
(*                                                                         *)
(* Left out: the order in which a round tries the nodes (its cursor), the  *)
(* age of a state (TurnState), and what a body says beyond its outcome.    *)
(***************************************************************************)
EXTENDS RoutePool, Integers, FiniteSets

CONSTANTS
  Clients,       \* requests in flight
  Run, Panel,    \* the background worker and the management panel
  Keys,          \* sessions: an account and a model
  Accounts,
  Account,       \* [Keys -> Accounts]
  None,
  Egress,        \* EgressMode: "random", "fixed" or "state"
  FixedNode,     \* EgressRoute
  First,         \* the first of the routes
  Asks,          \* what requests ask for, of {"turn", "compact", "plain"}
  Passthrough,   \* StateFallback = "passthrough"
  OnDemand,      \* StateRefreshMode = "on_demand"
  MaxProbes, MaxSessions, MaxLimits,
  MaxEpoch       \* bound: switches of the injection

Actors == Clients \cup {Run, Panel}

ASSUME GatewayAssumption ==
  /\ Run \notin Clients /\ Panel \notin Clients /\ Run # Panel
  /\ Account \in [Keys -> Accounts]
  /\ Egress = "state" => First \in Nodes
  /\ Egress = "fixed" => FixedNode \in Nodes
  /\ None \notin Nodes \cup Keys \cup Actors
  /\ Asks \subseteq {"turn", "compact", "plain"}
  /\ Passthrough \in BOOLEAN /\ OnDemand \in BOOLEAN
  /\ Egress \in {"random", "fixed", "state"}
  /\ MaxProbes \in Nat /\ MaxSessions \in Nat /\ MaxLimits \in Nat /\ MaxEpoch \in Nat

ASSUME ClientsAssumption == IsFiniteSet(Clients)

VARIABLES
  up,                       \* the process runs
  off, epoch,               \* disabled, injectionEpoch
  sessions,                 \* the sessions that exist
  busy, probing, cooling,   \* of each session: pins, a round is on, the cooldown is on
  activated, active, ready, \* a turn asked for injection; the nodes its states came from
  limit,                    \* of each account: "absent", "free", "paused" or "auth"
  slot,                     \* probeSlot: who is in it
  stopping,                 \* the worker's context is cancelled
  pc, key, carry,           \* of each actor: where it is, its session, its node
  kind,                     \* of each request
  work,                     \* sessions the worker has pinned and not dealt with
  since, tried, attempts, wins, outcome, \* of each round: its epoch, nodes, ...
  only,                     \* the one node the panel asks a round to try
  trips                     \* history: one-time trips over each node since it was put back

sessionVars == <<sessions, busy, probing, cooling, activated, active, ready, limit>>
roundVars == <<since, tried, attempts, wins, outcome, only>>
switchVars == <<up, off, epoch, stopping>>
vars == <<poolVars, switchVars, sessionVars, slot, pc, key, carry, kind, work,
          roundVars, trips>>

\* "inject" is a turn that is sent with a state of the gateway, if there is one.
Kinds == {"none", "inject", "turn", "compact", "plain"}
Limits == {"absent", "free", "paused", "auth"}
Outcomes == {"none", "accepted", "missed", "streamed", "rejected", "bad", "ok"}
RoundLabels == {"slot", "loop", "claimProbe", "probing", "offer", "record"}
Labels == {"idle", "refresh", "waiting", "after", "decide", "select", "claim", "sent",
           "answered", "work", "changing"} \cup RoundLabels

VolatileInit ==
  /\ off \in BOOLEAN /\ epoch = 0
  /\ sessions = {}
  /\ busy = [k \in Keys |-> 0]
  /\ probing = [k \in Keys |-> FALSE] /\ cooling = [k \in Keys |-> FALSE]
  /\ activated = [k \in Keys |-> FALSE]
  /\ active = [k \in Keys |-> None] /\ ready = [k \in Keys |-> None]
  /\ limit = [a \in Accounts |-> "absent"]
  /\ slot = None /\ stopping = FALSE
  /\ pc = [x \in Actors |-> "idle"]
  /\ key = [x \in Actors |-> None] /\ carry = [x \in Actors |-> None]
  /\ kind = [x \in Actors |-> "none"]
  /\ work = {}
  /\ since = [x \in Actors |-> 0] /\ tried = [x \in Actors |-> {}]
  /\ attempts = [x \in Actors |-> 0] /\ wins = [x \in Actors |-> 0]
  /\ outcome = [x \in Actors |-> "none"] /\ only = None

Init ==
  /\ PoolInit
  /\ up = TRUE
  /\ VolatileInit
  /\ trips = [n \in Nodes |-> 0]

-----------------------------------------------------------------------------
(* Helpers *)

Goto(x, label) == pc' = [pc EXCEPT ![x] = label]
Restricted(k) == limit[Account[k]] \in {"paused", "auth"}
Usable(k) == active[k] # None

\* The management lock: requests read under it, the panel writes.
Readable == up /\ pc[Panel] = "idle"
Writable == Readable /\ \A c \in Clients : pc[c] = "idle"

\* A one-time trip over n starts.
Trip(n) == trips' = [trips EXCEPT ![n] = @ + 1]

\* Sessions nobody pins.
Unpinned == {k \in sessions : busy[k] = 0 /\ ~probing[k]}

\* Sessions that are gone leave nothing behind.
Forget(gone) ==
  /\ cooling' = [k \in Keys |-> cooling[k] /\ k \notin gone]
  /\ active' = [k \in Keys |-> IF k \in gone THEN None ELSE active[k]]
  /\ ready' = [k \in Keys |-> IF k \in gone THEN None ELSE ready[k]]

\* reject: 401 and 403 are for good, a 429 leaves them alone.
Reject(k, status) ==
  limit' = [limit EXCEPT ![Account[k]] = IF @ = "auth" THEN @ ELSE status]

\* release, at the end of a request or of a retry.
Release(x) == busy' = [busy EXCEPT ![key[x]] = @ - 1]
Leave(x) ==
  /\ Release(x)
  /\ Goto(x, "idle")
  /\ key' = [key EXCEPT ![x] = None]
  /\ kind' = [kind EXCEPT ![x] = "none"]
  /\ carry' = [carry EXCEPT ![x] = None]

-----------------------------------------------------------------------------
(* Requests: ServeHTTP *)

\* Mutant: an account without sessions is forgotten, rejected or not.
LimitsWithoutMemory(gone) ==
  [a \in Accounts |->
     IF \A k \in sessions \ gone : Account[k] # a THEN "absent" ELSE limit[a]]

\* The limits left when the sessions in gone are forgotten.
LimitsWithout(gone) ==
  [a \in Accounts |->
     IF limit[a] = "free" /\ \A k \in sessions \ gone : Account[k] # a
     THEN "absent" ELSE limit[a]]

Room(k, left, limits) ==
  \/ k \in left
  \/ /\ Cardinality(left) < MaxSessions
     /\ \/ limits[Account[k]] # "absent"
        \/ Cardinality({a \in Accounts : limits[a] # "absent"}) < MaxLimits

\* The state a request of this kind is sent with, or is to leave the node of.
Snapshot(asked, state) == IF asked \in {"inject", "compact"} THEN state ELSE None

\* borrow, which first forgets the sessions that were idle for too long, the check
\* of the account, the decision to inject, and the snapshot of the state.  A session
\* without a state gets a probe round.
Arrive(c, k, asked) ==
  /\ Readable /\ pc[c] = "idle"
  /\ \E gone \in SUBSET Unpinned :
       LET left == sessions \ gone
           limits == LimitsWithout(gone)
           injects == asked = "turn" /\ ~off
           served == Room(k, left, limits) /\ ~Restricted(k)
       IN
       /\ Forget(gone)
       /\ sessions' = IF Room(k, left, limits) THEN left \cup {k} ELSE left
       /\ limit' = IF Room(k, left, limits) /\ limits[Account[k]] = "absent"
                   THEN [limits EXCEPT ![Account[k]] = "free"] ELSE limits
       /\ activated' = [j \in Keys |-> (activated[j] /\ j \in left)
                                       \/ (j = k /\ served /\ injects)]
       /\ IF served
          THEN /\ busy' = [busy EXCEPT ![k] = @ + 1]
               /\ key' = [key EXCEPT ![c] = k]
               /\ kind' = [kind EXCEPT ![c] = IF injects THEN "inject" ELSE asked]
               /\ carry' = [carry EXCEPT ![c] = Snapshot(kind'[c], active'[k])]
               /\ Goto(c, IF injects /\ active'[k] = None THEN "refresh" ELSE "decide")
          ELSE UNCHANGED <<busy, key, kind, carry, pc>>
  /\ UNCHANGED <<poolVars, switchVars, probing, slot, work, roundVars, trips>>

\* After the round, whatever came of it, the snapshot again.
Acquire(c) ==
  /\ pc[c] = "after" /\ c \in Clients
  /\ carry' = [carry EXCEPT ![c] = Snapshot(kind[c], active[key[c]])]
  /\ Goto(c, "decide")
  /\ UNCHANGED <<poolVars, switchVars, sessionVars, slot, key, kind, work, roundVars, trips>>

\* The account again, and the fallback for a turn that got no state.
Decide(c) ==
  /\ pc[c] = "decide"
  /\ LET stateless == kind[c] = "inject" /\ carry[c] = None
         refused == Restricted(key[c]) \/ (stateless /\ ~Passthrough)
     IN
     \/ refused /\ Leave(c)
     \/ /\ ~refused
        /\ kind' = [kind EXCEPT ![c] = IF stateless THEN "turn" ELSE @]
        /\ Goto(c, "select")
        /\ UNCHANGED <<busy, key, carry>>
  /\ UNCHANGED <<poolVars, switchVars, sessions, probing, cooling, activated, active, ready,
                 limit, slot, work, roundVars, trips>>

\* selectEgress for a request whose state came from harvest, or from nowhere.
Eligible(harvest) ==
  CASE Egress = "random" -> {n \in Nodes : node[n] = "available" /\ n # harvest}
    [] Egress = "fixed"  -> {n \in {FixedNode} : node[n] \in {"available", "used"}}
    [] Egress = "state"  -> {n \in {IF harvest = None THEN First ELSE harvest} : node[n] # "disabled"}

SelectEgress(c) ==
  /\ pc[c] = "select"
  /\ \/ \E n \in Eligible(carry[c]) :
          /\ carry' = [carry EXCEPT ![c] = n]
          /\ Goto(c, IF kind[c] = "plain" THEN "sent" ELSE "claim")
          /\ UNCHANGED <<busy, key, kind>>
     \/ Eligible(carry[c]) = {} /\ Leave(c)
  /\ UNCHANGED <<poolVars, switchVars, sessions, probing, cooling, activated, active, ready,
                 limit, slot, work, roundVars, trips>>

\* Mutant: the choice made a moment ago is not checked again.
ClaimUnchecked(c) ==
  /\ pc[c] = "claim"
  /\ Saved({carry[c]}, "used")
  /\ Goto(c, "sent")
  /\ Trip(carry[c])
  /\ UNCHANGED <<switchVars, sessionVars, slot, key, carry, kind, work, roundVars>>

\* Claim: the node is reserved, on disk, before the request is dispatched.
Claim(c) ==
  /\ pc[c] = "claim"
  /\ LET ok == Claimable(carry[c], Egress # "random") IN
     \/ /\ ok /\ Saved({carry[c]}, "used") /\ Goto(c, "sent")
        /\ IF Egress = "random" THEN Trip(carry[c]) ELSE UNCHANGED trips
        /\ UNCHANGED <<busy, key, carry, kind>>
     \/ ok /\ NotSaved /\ Leave(c) /\ UNCHANGED trips
     \/ ~ok /\ Leave(c) /\ UNCHANGED <<poolVars, trips>>
  /\ UNCHANGED <<switchVars, sessions, probing, cooling, activated, active, ready, limit,
                 slot, work, roundVars>>

Answered(c, o) ==
  /\ pc[c] = "sent"
  /\ outcome' = [outcome EXCEPT ![c] = o]
  /\ Goto(c, "answered")
  /\ UNCHANGED <<poolVars, switchVars, sessions, busy, probing, cooling, activated, slot, key,
                 carry, kind, work, since, tried, attempts, wins, only, trips>>

\* The response, or the failure to get one.
Respond(c) ==
  \E o \in {"ok", "bad"} : Answered(c, o) /\ UNCHANGED <<active, ready, limit>>
RespondRejected(c) ==
  /\ Answered(c, "bad")
  /\ \E status \in {"paused", "auth"} : Reject(key[c], status)
  /\ UNCHANGED <<active, ready>>
\* An answer of the wrong shape; RejectAndPromote drops the state it was injected
\* with, if that is still the active one.
RespondSuspect(c) ==
  /\ kind[c] = "inject"
  /\ Answered(c, "bad")
  /\ \/ /\ active' = [active EXCEPT ![key[c]] = ready[key[c]]]
        /\ ready' = [ready EXCEPT ![key[c]] = None]
     \/ UNCHANGED <<active, ready>>
  /\ UNCHANGED limit

\* The body is through: the node goes to its list, and the session is released.
End(c) ==
  /\ pc[c] = "answered"
  /\ IF kind[c] = "plain" THEN UNCHANGED poolVars
     ELSE Change({carry[c]}, IF outcome[c] = "ok" THEN "used" ELSE "failed")
  /\ outcome' = [outcome EXCEPT ![c] = "none"]
  /\ Leave(c)
  /\ UNCHANGED <<switchVars, sessions, probing, cooling, activated, active, ready, limit,
                 slot, work, since, tried, attempts, wins, only, trips>>

-----------------------------------------------------------------------------
(* Probe rounds: refresh, run by whoever holds the session *)

\* The panel asked for one node.
Manual(x) == x = Panel /\ only # None

\* A client may be gone at any time, the panel's browser too.
MayBeCancelled(x) == x # Run \/ stopping
Bootstrap(x) == x # Run /\ ~Manual(x)
Limit(x) == IF Manual(x) THEN 1 ELSE MaxProbes

\* One round of a session at a time; the others wait for it and do not try again.
Refresh(x) ==
  /\ pc[x] = "refresh"
  /\ LET k == key[x] IN
     \/ /\ off \/ unsaved \/ (~probing[k] /\ (Restricted(k) \/ cooling[k]))
        /\ Goto(x, "after")
        /\ UNCHANGED <<probing, since>>
     \/ /\ ~off /\ ~unsaved /\ probing[k]
        /\ Goto(x, "waiting")
        /\ UNCHANGED <<probing, since>>
     \/ /\ ~off /\ ~unsaved /\ ~probing[k] /\ ~Restricted(k) /\ ~cooling[k]
        /\ probing' = [probing EXCEPT ![k] = TRUE]
        /\ since' = [since EXCEPT ![x] = epoch]
        /\ Goto(x, "slot")
  /\ UNCHANGED <<poolVars, switchVars, sessions, busy, cooling, activated, active, ready, limit,
                 slot, key, carry, kind, work, tried, attempts, wins, outcome, only, trips>>

StopWaiting(x) ==
  /\ pc[x] = "waiting" /\ MayBeCancelled(x)
  /\ Goto(x, "after")
  /\ UNCHANGED <<poolVars, switchVars, sessionVars, slot, key, carry, kind, work, roundVars, trips>>

\* Mutant: the slot is given back by rounds that got to probe only.
EndRoundLate(x) ==
  /\ slot' = IF slot = x /\ attempts[x] > 0 THEN None ELSE slot
  /\ probing' = [probing EXCEPT ![key[x]] = FALSE]
  /\ cooling' = [cooling EXCEPT ![key[x]] = TRUE]
  /\ pc' = [y \in Actors |-> IF y = x \/ (pc[y] = "waiting" /\ key[y] = key[x])
                             THEN "after" ELSE pc[y]]
  /\ carry' = [carry EXCEPT ![x] = None]
  /\ since' = [since EXCEPT ![x] = 0] /\ tried' = [tried EXCEPT ![x] = {}]
  /\ attempts' = [attempts EXCEPT ![x] = 0] /\ wins' = [wins EXCEPT ![x] = 0]
  /\ outcome' = [outcome EXCEPT ![x] = "none"]
  /\ only' = IF x = Panel THEN None ELSE only

\* The deferred calls of refresh: the slot, the cooldown (attempts or not), and
\* whoever waits for the round.
EndRound(x) ==
  /\ slot' = IF slot = x THEN None ELSE slot
  /\ probing' = [probing EXCEPT ![key[x]] = FALSE]
  /\ cooling' = [cooling EXCEPT ![key[x]] = TRUE]
  /\ pc' = [y \in Actors |-> IF y = x \/ (pc[y] = "waiting" /\ key[y] = key[x])
                             THEN "after" ELSE pc[y]]
  /\ carry' = [carry EXCEPT ![x] = None]
  /\ since' = [since EXCEPT ![x] = 0] /\ tried' = [tried EXCEPT ![x] = {}]
  /\ attempts' = [attempts EXCEPT ![x] = 0] /\ wins' = [wins EXCEPT ![x] = 0]
  /\ outcome' = [outcome EXCEPT ![x] = "none"]
  /\ only' = IF x = Panel THEN None ELSE only

\* What no step of a round touches.
RoundFrame == UNCHANGED <<switchVars, sessions, busy, activated, key, kind, work>>

TakeSlot(x) ==
  /\ pc[x] = "slot"
  /\ \/ /\ slot = None /\ slot' = x
        /\ Goto(x, "loop")
        /\ UNCHANGED <<probing, cooling, carry, roundVars>>
     \/ MayBeCancelled(x) /\ EndRound(x)
  /\ RoundFrame
  /\ UNCHANGED <<poolVars, active, ready, limit, trips>>

\* The conditions a round checks before each node.
Stale(x) == off \/ epoch # since[x] \/ Restricted(key[x])
Candidates(x) == (IF Manual(x) THEN {only} ELSE Nodes) \ tried[x]

LoopEnds(x) ==
  /\ pc[x] = "loop"
  /\ MayBeCancelled(x) \/ Stale(x) \/ attempts[x] >= Limit(x) \/ Candidates(x) = {}
  /\ EndRound(x)
  /\ RoundFrame
  /\ UNCHANGED <<poolVars, active, ready, limit, trips>>

\* The next node, unless its list says already that it is not to be probed.
NextNode(x) ==
  /\ pc[x] = "loop" /\ ~Stale(x) /\ attempts[x] < Limit(x)
  /\ x = Run => ~stopping
  /\ \E n \in Candidates(x) :
       /\ tried' = [tried EXCEPT ![x] = @ \cup {n}]
       /\ IF node[n] \in ProbeableStates(Manual(x))
          THEN carry' = [carry EXCEPT ![x] = n] /\ Goto(x, "claimProbe")
          ELSE UNCHANGED <<carry, pc>>
  /\ RoundFrame
  /\ UNCHANGED <<poolVars, probing, cooling, active, ready, limit, slot,
                 since, attempts, wins, outcome, only, trips>>

\* ClaimProbe: a node that is not free is passed over, a claim that is not saved ends
\* the round.
ClaimProbe(x) ==
  /\ pc[x] = "claimProbe"
  /\ LET ok == Probeable(carry[x], Manual(x)) IN
     \/ /\ ok /\ Saved({carry[x]}, "used")
        /\ attempts' = [attempts EXCEPT ![x] = @ + 1]
        /\ IF Manual(x) THEN UNCHANGED trips ELSE Trip(carry[x])
        /\ Goto(x, "probing")
        /\ UNCHANGED <<probing, cooling, slot, carry, since, tried, wins, outcome, only>>
     \/ ok /\ NotSaved /\ EndRound(x) /\ UNCHANGED trips
     \/ ~ok /\ unsaved /\ EndRound(x) /\ UNCHANGED <<poolVars, trips>>
     \/ /\ ~ok /\ ~unsaved
        /\ Goto(x, "loop") /\ carry' = [carry EXCEPT ![x] = None]
        /\ UNCHANGED <<poolVars, probing, cooling, slot, roundVars, trips>>
  /\ RoundFrame
  /\ UNCHANGED <<active, ready, limit>>

ProbeAnswered(x, o) ==
  /\ pc[x] = "probing"
  /\ outcome' = [outcome EXCEPT ![x] = o]
  /\ RoundFrame
  /\ UNCHANGED <<poolVars, probing, cooling, active, ready, slot, carry,
                 since, tried, attempts, wins, only, trips>>

\* A complete answer with a state that fits: offered, unless the injection has been
\* switched meanwhile.
ProbeFits(x) ==
  /\ ProbeAnswered(x, "missed")
  /\ Goto(x, IF off \/ epoch # since[x] THEN "record" ELSE "offer")
  /\ UNCHANGED limit
ProbeFails(x) ==
  /\ \E o \in {"missed", "streamed"} : ProbeAnswered(x, o)
  /\ Goto(x, "record")
  /\ UNCHANGED limit
ProbeRejected(x) ==
  /\ ProbeAnswered(x, "rejected")
  /\ \E status \in {"paused", "auth"} : Reject(key[x], status)
  /\ Goto(x, "record")

\* Offer, on its own after the check.  Whether it replaces a spare is up to its age.
Offer(x) ==
  /\ pc[x] = "offer"
  /\ LET k == key[x] IN
     \/ /\ ~Usable(k) /\ active' = [active EXCEPT ![k] = carry[x]]
        /\ UNCHANGED ready
     \/ /\ Usable(k) /\ \E n \in {carry[x], ready[k]} : ready' = [ready EXCEPT ![k] = n]
        /\ UNCHANGED active
  /\ outcome' = [outcome EXCEPT ![x] = "accepted"]
  /\ Goto(x, "record")
  /\ RoundFrame
  /\ UNCHANGED <<poolVars, probing, cooling, limit, slot, carry, since, tried, attempts, wins,
                 only, trips>>

\* The node goes to its list; then the round ends or tries another one.
Satisfied(x) ==
  \/ outcome[x] \in {"rejected", "streamed"}
  \/ outcome[x] = "accepted" /\ (Bootstrap(x) \/ OnDemand \/ wins[x] >= 1 \/ ready[key[x]] # None)

Record(x) ==
  /\ pc[x] = "record"
  /\ \/ NotSaved /\ EndRound(x)
     \/ /\ Saved({carry[x]}, IF outcome[x] = "accepted" THEN "used" ELSE "failed")
        /\ IF Satisfied(x) THEN EndRound(x)
           ELSE /\ wins' = [wins EXCEPT ![x] = @ + IF outcome[x] = "accepted" THEN 1 ELSE 0]
                /\ outcome' = [outcome EXCEPT ![x] = "none"]
                /\ carry' = [carry EXCEPT ![x] = None]
                /\ Goto(x, "loop")
                /\ UNCHANGED <<probing, cooling, slot, since, tried, attempts, only>>
  /\ RoundFrame
  /\ UNCHANGED <<active, ready, limit, trips>>

-----------------------------------------------------------------------------
(* The background worker: Run *)

\* Mutant: sessions are chosen without being pinned.
BackgroundWorkUnpinned ==
  /\ up /\ ~off /\ pc[Run] = "idle"
  /\ work' = {k \in Unpinned : activated[k]}
  /\ Goto(Run, "work")
  /\ UNCHANGED <<poolVars, switchVars, sessionVars, slot, key, carry, kind, roundVars, trips>>

\* backgroundWork: forget what was idle for too long, pin what asked for injection.
BackgroundWork ==
  /\ up /\ ~off /\ pc[Run] = "idle"
  /\ \E gone \in SUBSET Unpinned :
       LET chosen == {k \in Unpinned \ gone : activated[k]} IN
       /\ Forget(gone)
       /\ sessions' = sessions \ gone
       /\ activated' = [k \in Keys |-> activated[k] /\ k \notin gone]
       /\ work' = chosen
       /\ busy' = [k \in Keys |-> IF k \in chosen THEN busy[k] + 1 ELSE busy[k]]
  /\ Goto(Run, "work")
  /\ UNCHANGED <<poolVars, switchVars, probing, limit, slot, key, carry, kind, roundVars, trips>>

\* One session after the other; a spare may always be too old.
RunRefresh ==
  /\ pc[Run] = "work"
  /\ \E k \in work :
       /\ OnDemand => ~Usable(k)
       /\ key' = [key EXCEPT ![Run] = k]
  /\ Goto(Run, "refresh")
  /\ UNCHANGED <<poolVars, switchVars, sessionVars, slot, carry, kind, work, roundVars, trips>>

\* Mutant: the session stays on the worker's list.
RunDoneKeeping(k) ==
  /\ busy' = [busy EXCEPT ![k] = @ - 1]
  /\ key' = [key EXCEPT ![Run] = None]
  /\ Goto(Run, "work")
  /\ UNCHANGED <<poolVars, switchVars, sessions, probing, cooling, activated, active, ready,
                 limit, slot, carry, kind, work, roundVars, trips>>

RunDone(k) ==
  /\ busy' = [busy EXCEPT ![k] = @ - 1]
  /\ work' = work \ {k}
  /\ key' = [key EXCEPT ![Run] = None]
  /\ Goto(Run, "work")
  /\ UNCHANGED <<poolVars, switchVars, sessions, probing, cooling, activated, active, ready,
                 limit, slot, carry, kind, roundVars, trips>>
RunSkips == pc[Run] = "work" /\ \E k \in work : Usable(k) /\ (OnDemand \/ ready[k] # None) /\ RunDone(k)
RunRefreshed == pc[Run] = "after" /\ RunDone(key[Run])

RunRests ==
  /\ pc[Run] = "work" /\ work = {}
  /\ Goto(Run, "idle")
  /\ UNCHANGED <<poolVars, switchVars, sessionVars, slot, key, carry, kind, work, roundVars, trips>>

-----------------------------------------------------------------------------
(* The panel *)

\* RetryState, on any node or on one.
RetryState(k, n) ==
  /\ Writable /\ ~off
  /\ k \in Unpinned /\ activated[k] /\ ~Restricted(k) /\ ~cooling[k]
  /\ IF n = None THEN ~Usable(k) ELSE node[n] # "disabled"
  /\ busy' = [busy EXCEPT ![k] = @ + 1]
  /\ key' = [key EXCEPT ![Panel] = k]
  /\ only' = n
  /\ Goto(Panel, "refresh")
  /\ UNCHANGED <<poolVars, switchVars, sessions, probing, cooling, activated, active, ready, limit,
                 slot, carry, kind, work, since, tried, attempts, wins, outcome, trips>>
Retried ==
  /\ pc[Panel] = "after"
  /\ Leave(Panel)
  /\ only' = None
  /\ UNCHANGED <<poolVars, switchVars, sessions, probing, cooling, activated, active, ready, limit,
                 slot, work, since, tried, attempts, wins, outcome, trips>>

SetInjection ==
  /\ Writable /\ epoch < MaxEpoch
  /\ off' = ~off /\ epoch' = epoch + 1
  /\ UNCHANGED <<poolVars, up, stopping, sessionVars, slot, pc, key, carry, kind, work, roundVars,
                 trips>>

\* pause: the worker is told to stop, and waited for.
Pause ==
  /\ Writable
  /\ stopping' = TRUE
  /\ Goto(Panel, "changing")
  /\ UNCHANGED <<poolVars, up, off, epoch, sessionVars, slot, key, carry, kind, work, roundVars, trips>>

Resume == stopping' = FALSE /\ Goto(Panel, "idle")
AnyRestricted == \E a \in Accounts : limit[a] \in {"paused", "auth"}

\* Mutant: the panel does not wait for the worker.
PoolChangeAtOnce ==
  /\ pc[Panel] = "changing"
  /\ \E ns \in SUBSET Nodes \ {{}}, s \in {"available", "disabled"} :
       /\ Saved(ns, s)
       /\ trips' = [n \in Nodes |-> IF n \in ns /\ s = "available" THEN 0 ELSE trips[n]]
  /\ Resume
  /\ UNCHANGED <<up, off, epoch, sessionVars, slot, key, carry, kind, work, roundVars>>

\* /admin/api/pool/change
PoolChange ==
  /\ pc[Panel] = "changing" /\ pc[Run] = "idle"
  /\ \/ AnyRestricted /\ UNCHANGED <<poolVars, trips>>
     \/ ~AnyRestricted /\ NotSaved /\ UNCHANGED trips
     \/ /\ ~AnyRestricted
        /\ \E ns \in SUBSET Nodes \ {{}}, s \in {"available", "disabled"} :
             /\ Saved(ns, s)
             /\ trips' = [n \in Nodes |-> IF n \in ns /\ s = "available" THEN 0 ELSE trips[n]]
  /\ Resume
  /\ UNCHANGED <<up, off, epoch, sessionVars, slot, key, carry, kind, work, roundVars>>

\* Nothing is left of the engine but the pool.
NewEngine ==
  /\ epoch' = 0
  /\ sessions' = {}
  /\ busy' = [k \in Keys |-> 0]
  /\ probing' = [k \in Keys |-> FALSE] /\ cooling' = [k \in Keys |-> FALSE]
  /\ activated' = [k \in Keys |-> FALSE]
  /\ active' = [k \in Keys |-> None] /\ ready' = [k \in Keys |-> None]
  /\ limit' = [a \in Accounts |-> "absent"]
  /\ slot' = None /\ stopping' = FALSE
  /\ pc' = [x \in Actors |-> "idle"]
  /\ key' = [x \in Actors |-> None] /\ carry' = [x \in Actors |-> None]
  /\ kind' = [x \in Actors |-> "none"]
  /\ work' = {}
  /\ since' = [x \in Actors |-> 0] /\ tried' = [x \in Actors |-> {}]
  /\ attempts' = [x \in Actors |-> 0] /\ wins' = [x \in Actors |-> 0]
  /\ outcome' = [x \in Actors |-> "none"] /\ only' = None

\* Mutant: a new engine whatever the accounts.
ApplyConfigFreely ==
  /\ pc[Panel] = "changing" /\ pc[Run] = "idle"
  /\ NewEngine
  /\ UNCHANGED <<poolVars, up, off, trips>>

\* applyConfig and the other operations that replace the engine.
ApplyConfig ==
  /\ pc[Panel] = "changing" /\ pc[Run] = "idle" /\ ~AnyRestricted
  /\ NewEngine
  /\ UNCHANGED <<poolVars, up, off, trips>>

-----------------------------------------------------------------------------
(* Time and crashes *)

StateExpires(k) ==
  /\ Usable(k)
  /\ active' = [active EXCEPT ![k] = ready[k]]
  /\ ready' = [ready EXCEPT ![k] = None]
  /\ UNCHANGED <<poolVars, switchVars, sessions, busy, probing, cooling, activated, limit,
                 slot, pc, key, carry, kind, work, roundVars, trips>>

CooldownOver(k) ==
  /\ cooling[k] /\ cooling' = [cooling EXCEPT ![k] = FALSE]
  /\ UNCHANGED <<poolVars, switchVars, sessions, busy, probing, activated, active, ready, limit,
                 slot, pc, key, carry, kind, work, roundVars, trips>>

PauseOver(a) ==
  /\ limit[a] = "paused" /\ limit' = [limit EXCEPT ![a] = "free"]
  /\ UNCHANGED <<poolVars, switchVars, sessions, busy, probing, cooling, activated, active, ready,
                 slot, pc, key, carry, kind, work, roundVars, trips>>

Crash ==
  /\ up /\ up' = FALSE
  /\ NewEngine
  /\ Reopen
  /\ UNCHANGED <<off, trips>>
Start == ~up /\ up' = TRUE /\ UNCHANGED <<poolVars, off, epoch, stopping, sessionVars, slot, pc, key,
                                          carry, kind, work, roundVars, trips>>

-----------------------------------------------------------------------------
Request(c) ==
  \/ \E k \in Keys, asked \in Asks : Arrive(c, k, asked)
  \/ Acquire(c) \/ Decide(c) \/ SelectEgress(c) \/ Claim(c)
  \/ Respond(c) \/ RespondRejected(c) \/ RespondSuspect(c) \/ End(c)

Round(x) ==
  \/ Refresh(x) \/ StopWaiting(x) \/ TakeSlot(x) \/ LoopEnds(x) \/ NextNode(x) \/ ClaimProbe(x)
  \/ ProbeFits(x) \/ ProbeFails(x) \/ ProbeRejected(x) \/ Offer(x) \/ Record(x)

Worker == BackgroundWork \/ RunRefresh \/ RunSkips \/ RunRefreshed \/ RunRests

Management ==
  \/ \E k \in Keys, n \in Nodes \cup {None} : RetryState(k, n)
  \/ Retried \/ SetInjection \/ Pause \/ PoolChange \/ ApplyConfig

Time ==
  \/ \E k \in Keys : StateExpires(k) \/ CooldownOver(k)
  \/ \E a \in Accounts : PauseOver(a)

Next ==
  \/ \E c \in Clients : Request(c)
  \/ \E x \in Actors : Round(x)
  \/ Worker \/ Management \/ Time \/ Crash \/ Start

Spec == Init /\ [][Next]_vars

\* A round goes on: its probes have a deadline, and the slot is a channel that serves
\* those who wait in turn, whence SF.  Nothing else is asked of anybody.
Fairness == \A x \in Actors : SF_vars(Round(x))

FairSpec == Spec /\ Fairness

-----------------------------------------------------------------------------
(* Properties *)

TypeOK ==
  /\ PoolTypeOK
  /\ up \in BOOLEAN /\ off \in BOOLEAN /\ epoch \in Nat /\ stopping \in BOOLEAN
  /\ sessions \subseteq Keys
  /\ busy \in [Keys -> Nat]
  /\ probing \in [Keys -> BOOLEAN] /\ cooling \in [Keys -> BOOLEAN] /\ activated \in [Keys -> BOOLEAN]
  /\ active \in [Keys -> Nodes \cup {None}] /\ ready \in [Keys -> Nodes \cup {None}]
  /\ limit \in [Accounts -> Limits]
  /\ slot \in Actors \cup {None}
  /\ pc \in [Actors -> Labels]
  /\ key \in [Actors -> Keys \cup {None}] /\ carry \in [Actors -> Nodes \cup {None}]
  /\ kind \in [Actors -> Kinds]
  /\ work \subseteq Keys
  /\ since \in [Actors -> Nat] /\ tried \in [Actors -> SUBSET Nodes]
  /\ attempts \in [Actors -> Nat] /\ wins \in [Actors -> Nat]
  /\ outcome \in [Actors -> Outcomes] /\ only \in Nodes \cup {None}
  /\ trips \in [Nodes -> Nat]

\* Whoever works on session k: it is busy with it, or has it queued.
Holders(k) == {x \in Actors : key[x] = k \/ (x = Run /\ k \in work)}

\* A session in use is not forgotten, and neither is what its account was told: the
\* pins of requests, worker and panel count exactly those that hold it.
PinsHeld ==
  \A k \in Keys :
    /\ busy[k] = Cardinality(Holders(k))
    /\ Holders(k) # {} => k \in sessions
    /\ k \in sessions => limit[Account[k]] # "absent"

\* One round per session and one probing round in all, and nobody waits for a round
\* that is over.
RoundsExclusive ==
  /\ \A k \in Keys :
       Cardinality({x \in Actors : key[x] = k /\ pc[x] \in RoundLabels}) = IF probing[k] THEN 1 ELSE 0
  /\ \A x \in Actors : slot = x <=> pc[x] \in RoundLabels \ {"slot"}
  /\ \A x \in Actors : pc[x] = "waiting" => probing[key[x]]

\* A node carries one automatic probe or one request at random, and then none until
\* the user puts it back: not after a crash, a failed write or a lost race either.
NodeOnce == \A n \in Nodes : trips[n] <= 1

\* The user's word on a node stands: nothing goes over a node that is disabled, and
\* the end of a request or of a probe does not bring it back.
Travelling(x) == pc[x] \in {"sent", "answered", "probing", "offer", "record"}
DisabledRests ==
  \A x \in Actors : Travelling(x) => node[carry[x]] # "disabled"

\* A rejection is forgotten by time alone, and a 401 or 403 not even then: not by
\* idle sessions, other models, the switches of the panel or a new engine.
RejectionsKept ==
  [][\A a \in Accounts :
       /\ limit[a] = "auth" => limit'[a] = "auth" \/ ~up'
       /\ limit[a] = "paused" /\ limit'[a] \notin {"paused", "auth"} =>
            \/ ~up'
            \/ limit'[a] = "free" /\ UNCHANGED <<sessions, pc>>]_vars

\* Whoever asks for a state gets an answer: every announced round ends, although it may
\* have to wait for the slot behind a round of another session, and with it the wait of
\* all who wait for it, requests, worker or panel.
RefreshesReturn == \A k \in Keys : probing[k] ~> ~probing[k]

\* While the injection is off no session gets a state: a probe that was under way
\* when it was switched off is not published.
OffPublishesNothing ==
  [][off => \A k \in Keys : active[k] = None => active'[k] = None]_vars
=============================================================================
