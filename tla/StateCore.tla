------------------------------ MODULE StateCore ------------------------------
(***************************************************************************)
(* internal/requestrecorder/state_core.go and state_core_stream.go: the    *)
(* request-driven collector.  A request borrows a session (a credential    *)
(* and a model), obtains a candidate for it (ensure), possibly by probing  *)
(* the upstream, and is sent with that candidate (prepare, roundTrip).     *)
(* Requests, manual refreshes, reconfiguration and timers interleave at    *)
(* every point where StateCore.mu is released.                             *)
(*                                                                         *)
(* Clocks are abstracted to what is compared with them: a cooldown or a    *)
(* pause is running or over, and a timer may end it at any moment.         *)
(* Whether a candidate may still be used (its deadline, cookies, strikes   *)
(* and route health) is an input of every step that looks at it.           *)
(* Route health is the gate that RouteHealth is shown to implement.        *)
(***************************************************************************)
EXTENDS Integers, FiniteSets

CONSTANTS
  Clients,      \* goroutines that serve a request or a manual refresh
  Scopes,       \* credential scopes, the keys of StateCore.guards
  Models,
  Copies,       \* tells the session objects of one scope and model apart
  Routes,       \* the route ids of StateCore.routes
  None,
  MaxProbes,    \* CorePolicy.MaxProbes
  HourlyBudget, \* CorePolicy.HourlyBudget
  MaxGuards,    \* capacity of StateCore.guards (128)
  MaxSessions,  \* capacity of StateCore.sessions (64)
  MaxEpoch      \* bound: configurations

ASSUME PolicyAssumption ==
  MaxProbes \in Nat \ {0} /\ HourlyBudget \in Nat \ {0}
ASSUME BoundAssumption ==
  /\ MaxGuards \in Nat /\ MaxSessions \in Nat
  /\ MaxEpoch \in Nat

Keys == Scopes \X Models
Sessions == Scopes \X Models \X Copies   \* the objects; those of a key come after each other
Scope(s) == s[1]
Key(s) == <<s[1], s[2]>>

\* Two candidates of a session that agree on these are not told apart.
Candidate == [epoch : Nat, route : Routes]

ASSUME NoneAssumption ==
  None \notin Clients \cup Routes \cup Keys \cup Sessions \cup Candidate

VARIABLES
  enabled, epoch,   \* policy.Enabled and StateCore.epoch
  guards,           \* the scopes that have a coreGuard
  stop,             \* coreGuard.status and until: "none", "auth" (401 or 403), or
                    \* "pause" while now is before until and status is not "auth"
  cooling,          \* now is before coreGuard.nextProbe
  probes,           \* coreGuard.probes of the current hour
  table,            \* the objects in StateCore.sessions
  active, ready,    \* coreSession.active and ready
  probing,          \* the client whose round coreSession.probing announces
  slot,             \* the client whose token is in probeSlot
  phase, live,      \* route health: the gate
  cooled,           \* open routes whose back-off has passed
  pc,               \* where each client is
  at,               \* the key of a request, then ensure's s
  manual,           \* ensure was called by refresh, with force
  seen,             \* ensure's epoch
  tried, attempts,  \* the routes and attempts of the round
  via,              \* the route of the permit in hand; of the candidate to send
  result,           \* coreProbeResult, then what ensure is about to return
  cand              \* the candidate ensure returned

policyVars == <<enabled, epoch>>
guardVars == <<guards, stop, cooling, probes>>
sessionVars == <<table, active, ready, probing>>
gateVars == <<phase, live, cooled>>
localVars == <<at, manual, seen, tried, attempts, via, result, cand>>
vars == <<policyVars, guardVars, sessionVars, slot, gateVars, pc, localVars>>

Gate == INSTANCE CircuitGate WITH Leases <- Clients

-----------------------------------------------------------------------------
(* Where a client is.  Each label ends a stretch of code that runs under one  *)
(* hold of a mutex, or waits.                                                 *)

Working == {"recheck", "route", "permit", "probe", "publish", "last"}
Round == {"slot", "end"} \cup Working
InEnsure == {"ensure", "wait", "release"} \cup Round
OnSession == InEnsure \cup {"chosen"}
Labels ==
  {"idle", "borrow", "send", "admit", "flight", "stream"} \cup OnSession

\* A core that New has configured from the configuration file.
Init ==
  /\ enabled \in BOOLEAN /\ epoch = 1
  /\ guards = {}
  /\ stop = [a \in Scopes |-> "none"]
  /\ cooling = [a \in Scopes |-> FALSE]
  /\ probes = [a \in Scopes |-> 0]
  /\ table = {}
  /\ active = [s \in Sessions |-> None]
  /\ ready = [s \in Sessions |-> None]
  /\ probing = [s \in Sessions |-> None]
  /\ slot = None
  /\ Gate!Init
  /\ cooled = {}
  /\ pc = [c \in Clients |-> "idle"]
  /\ at = [c \in Clients |-> None]
  /\ manual = [c \in Clients |-> FALSE]
  /\ seen = [c \in Clients |-> 0]
  /\ tried = [c \in Clients |-> {}]
  /\ attempts = [c \in Clients |-> 0]
  /\ via = [c \in Clients |-> None]
  /\ result = [c \in Clients |-> None]
  /\ cand = [c \in Clients |-> None]

-----------------------------------------------------------------------------
(* Account stops, route health and candidate selection *)

Rejected(a) == stop[a] # "none"

\* reject: a 429 takes the place of a 401 or 403.  guardLocked may have no room
\* for the scope of a passthrough request.
Reject(a, kind) ==
  IF kind = "none" \/ (a \notin guards /\ Cardinality(guards) >= MaxGuards)
  THEN UNCHANGED <<guards, stop>>
  ELSE /\ guards' = guards \cup {a}
       /\ stop' = [stop EXCEPT ![a] = kind]

\* Manager.Available: an open route takes one request once its back-off is over.
Available(r) == phase[r] # "trial" /\ (phase[r] = "open" => r \in cooled)

Begin(r, c) ==
  /\ Available(r)
  /\ Gate!Admit(r, c) \/ Gate!Probe(r, c)
  /\ UNCHANGED cooled

\* Lease.Finish.  Below the failure threshold a failure leaves a closed route
\* closed; a fenced permit says nothing.
Finish(c, o) ==
  LET r == via[c] IN
  \/ c \notin live[r] /\ UNCHANGED gateVars
  \/ /\ o = "success" \/ phase[r] = "closed"
     /\ Gate!Settle(r, c)
     /\ UNCHANGED cooled
  \/ /\ o = "failure" \/ (o = "neutral" /\ phase[r] = "trial")
     /\ Gate!Trip(r, c)
     /\ cooled' = cooled \ {r}

\* What usableLocked finds of a session's two candidates: unusable, usable, or
\* usable with more than 20 seconds left.
Life == {"unusable", "ending", "fresh"}
Judgement == [active : Life, ready : Life]

Promotes(s, j) ==
  /\ ready[s] # None /\ j.ready # "unusable"
  /\ active[s] = None \/ j.active # "fresh"

\* selectLocked: the candidate it returns, whether that one is fresh, and what
\* it does to the session.
Selected(s, j) ==
  IF Promotes(s, j) THEN ready[s]
  ELSE IF j.active = "unusable" THEN None ELSE active[s]

SelectedFresh(s, j) ==
  /\ Selected(s, j) # None
  /\ IF Promotes(s, j) THEN j.ready = "fresh" ELSE j.active = "fresh"

Select(s, j) ==
  IF Promotes(s, j)
  THEN /\ active' = [active EXCEPT ![s] = ready[s]]
       /\ ready' = [ready EXCEPT ![s] = None]
  ELSE UNCHANGED <<active, ready>>

-----------------------------------------------------------------------------
(* Control of a client *)

Goto(c, label) == pc' = [pc EXCEPT ![c] = label]

\* The request is answered: the goroutine forgets everything it held.
Leave(c) ==
  /\ Goto(c, "idle")
  /\ at' = [at EXCEPT ![c] = None]
  /\ manual' = [manual EXCEPT ![c] = FALSE]
  /\ seen' = [seen EXCEPT ![c] = 0]
  /\ tried' = [tried EXCEPT ![c] = {}]
  /\ attempts' = [attempts EXCEPT ![c] = 0]
  /\ via' = [via EXCEPT ![c] = None]
  /\ result' = [result EXCEPT ![c] = None]
  /\ cand' = [cand EXCEPT ![c] = None]

\* ensure returns candidate k of a round, or an error.
Return(c, k) ==
  /\ Goto(c, "end")
  /\ cand' = [cand EXCEPT ![c] = k]
  /\ seen' = [seen EXCEPT ![c] = 0]
  /\ tried' = [tried EXCEPT ![c] = {}]
  /\ via' = [via EXCEPT ![c] = None]
  /\ result' = [result EXCEPT ![c] = None]
  /\ UNCHANGED <<at, manual, attempts>>

\* A refresh, which forces a probe, is content with nothing else.
Fallback(c, j) == IF manual[c] THEN None ELSE Selected(at[c], j)

-----------------------------------------------------------------------------
(* prepare, before ensure *)

\* A POST to /responses with the collector enabled goes on to borrow; anything
\* else, and every request while it is disabled, passes through unchanged.
Request(c, key) ==
  /\ pc[c] = "idle"
  /\ ~Rejected(Scope(key))
  /\ at' = [at EXCEPT ![c] = key]
  /\ \/ enabled /\ Goto(c, "borrow")
     \/ Goto(c, "send")
  /\ UNCHANGED <<policyVars, guardVars, sessionVars, slot, gateVars,
                 manual, seen, tried, attempts, via, result, cand>>

\* refresh: the panel asks for a probe on a session that exists.
Refresh(c, s) ==
  /\ pc[c] = "idle"
  /\ s \in table
  /\ at' = [at EXCEPT ![c] = s]
  /\ manual' = [manual EXCEPT ![c] = TRUE]
  /\ Goto(c, "ensure")
  /\ UNCHANGED <<policyVars, guardVars, sessionVars, slot, gateVars,
                 seen, tried, attempts, via, result, cand>>

\* Who works on a session object, whether or not it is still in the table.
Holders(s) == {c \in Clients : at[c] = s /\ pc[c] \in OnSession}

\* Sessions that may have been unused for 30 minutes: no round on them, and no
\* request between borrow and its dispatch, which takes less.  A refresh does not
\* count as use: its session may be gone before it announces a round on it.
Expirable == {s \in table : probing[s] = None /\ \A c \in Holders(s) : manual[c]}

\* borrow drops expired sessions, whatever it then says to the request, and makes
\* a new one where the table has none.  What candidates a dropped session has or
\* gets is forgotten: only refreshes can still see them, and they return none.
Borrow(c) ==
  /\ pc[c] = "borrow"
  /\ \E gone \in SUBSET Expirable :
       LET a == Scope(at[c])
           kept == table \ gone
           own == {s \in kept : Key(s) = at[c]}
           room == a \in guards \/ Cardinality(guards) < MaxGuards
           seat == own # {} \/ Cardinality(kept) < MaxSessions
       IN /\ active' = [t \in Sessions |-> IF t \in kept THEN active[t] ELSE None]
          /\ ready' = [t \in Sessions |-> IF t \in kept THEN ready[t] ELSE None]
          /\ guards' = IF ~Rejected(a) /\ room THEN guards \cup {a} ELSE guards
          /\ \/ /\ Rejected(a) \/ ~room \/ ~seat
                /\ table' = kept
                /\ Leave(c)
             \/ /\ ~Rejected(a) /\ room /\ seat
                /\ \E s \in Sessions :
                     /\ Key(s) = at[c]
                     /\ IF own # {} THEN s \in own ELSE s \notin kept /\ Holders(s) = {}
                     /\ table' = kept \cup {s}
                     /\ at' = [at EXCEPT ![c] = s]
                /\ Goto(c, "ensure")
                /\ UNCHANGED <<manual, seen, tried, attempts, via, result, cand>>
  /\ UNCHANGED <<policyVars, stop, cooling, probes, probing,
                 slot, gateVars>>

-----------------------------------------------------------------------------
(* ensure *)

\* The first hold of the mutex: refuse (the account is stopped, the collector off,
\* or, an input, the upstream another one or the core closing), reuse, wait for the
\* round in progress, fall back while cooling down, or announce a round.
Ensure(c) ==
  /\ pc[c] = "ensure"
  /\ LET s == at[c] IN
     \/ /\ Leave(c)
        /\ UNCHANGED <<active, ready, probing>>
     \/ /\ ~Rejected(Scope(s)) /\ enabled
        /\ \E j \in Judgement :
           LET reuse == ~manual[c] /\ SelectedFresh(s, j) IN
           /\ Select(s, j)
           /\ \/ /\ \/ reuse
                    \/ /\ probing[s] = None /\ cooling[Scope(s)]
                       /\ Fallback(c, j) # None
                 /\ cand' = [cand EXCEPT ![c] = Selected(s, j)]
                 /\ Goto(c, "chosen")
                 /\ UNCHANGED <<probing, at, manual, seen, tried, attempts, via, result>>
              \/ /\ ~reuse /\ probing[s] # None
                 /\ Goto(c, "wait")
                 /\ UNCHANGED <<probing, localVars>>
              \/ /\ ~reuse /\ probing[s] = None /\ cooling[Scope(s)]
                 /\ Fallback(c, j) = None
                 /\ Leave(c)
                 /\ UNCHANGED probing
              \/ /\ ~reuse /\ probing[s] = None /\ ~cooling[Scope(s)]
                 /\ probing' = [probing EXCEPT ![s] = c]
                 /\ seen' = [seen EXCEPT ![c] = epoch]
                 /\ Goto(c, "slot")
                 /\ UNCHANGED <<at, manual, tried, attempts, via, result, cand>>
  /\ UNCHANGED <<policyVars, guardVars, table, slot, gateVars>>

\* The client disconnects, or the core closes, while ensure waits.
GiveUp(c) ==
  /\ \/ pc[c] = "wait" /\ Leave(c)
     \/ pc[c] = "slot" /\ Return(c, None)
  /\ UNCHANGED <<policyVars, guardVars, sessionVars, slot, gateVars>>

TakeSlot(c) ==
  /\ pc[c] = "slot"
  /\ slot = None
  /\ slot' = c
  /\ Goto(c, "recheck")
  /\ UNCHANGED <<policyVars, guardVars, sessionVars, gateVars, localVars>>

\* Mutant: the cooldown is not looked at again once the slot is free.
NoRecheck(c) ==
  /\ pc[c] = "recheck"
  /\ Goto(c, "route")
  /\ UNCHANGED <<policyVars, guardVars, sessionVars, slot, gateVars, localVars>>

\* Another model of the account may have probed while this one waited.
Recheck(c) ==
  /\ pc[c] = "recheck"
  /\ \/ /\ cooling[Scope(at[c])]
        /\ \E j \in Judgement : Select(at[c], j) /\ Return(c, Fallback(c, j))
     \/ /\ ~cooling[Scope(at[c])]
        /\ Goto(c, "route")
        /\ UNCHANGED <<active, ready, localVars>>
  /\ UNCHANGED <<policyVars, guardVars, table, probing, slot, gateVars>>

\* The next route of the round, in the order of the session's cursor; a route
\* whose circuit refuses is skipped.
TryRoute(c) ==
  /\ pc[c] = "route"
  /\ attempts[c] < MaxProbes
  /\ \E r \in Routes \ tried[c] :
       /\ tried' = [tried EXCEPT ![c] = @ \cup {r}]
       /\ \/ /\ ~Available(r)
             /\ UNCHANGED <<gateVars, pc, via>>
          \/ /\ Begin(r, c)
             /\ via' = [via EXCEPT ![c] = r]
             /\ Goto(c, "permit")
  /\ UNCHANGED <<policyVars, guardVars, sessionVars, slot,
                 at, manual, seen, attempts, result, cand>>

RoutesDone(c) ==
  /\ pc[c] = "route"
  /\ attempts[c] >= MaxProbes \/ tried[c] = Routes
  /\ Goto(c, "last")
  /\ UNCHANGED <<policyVars, guardVars, sessionVars, slot, gateVars, localVars>>

\* Mutant: the early returns forget the permit.
WithdrawNothing(c, k) == Return(c, k) /\ UNCHANGED gateVars

\* Every refusal after the permit gives the permit back unused.  That happens
\* just after the mutex is released; nothing reads the gate in between but the
\* gate itself.
Withdraw(c, k) == Finish(c, "neutral") /\ Return(c, k)

\* The hold of the mutex that spends the budget.
Charge(c) ==
  /\ pc[c] = "permit"
  /\ LET s == at[c]
         a == Scope(s)
         current == epoch = seen[c] /\ enabled
         spent == probes[a] >= HourlyBudget
     IN \/ /\ ~current \/ Rejected(a)
           /\ Withdraw(c, None)
           /\ UNCHANGED <<active, ready, probes, cooling>>
        \/ /\ current /\ ~Rejected(a) /\ spent
           /\ \E j \in Judgement : Select(s, j) /\ Withdraw(c, Fallback(c, j))
           /\ UNCHANGED <<probes, cooling>>
        \/ /\ current /\ ~Rejected(a) /\ ~spent
           /\ \/ /\ Withdraw(c, None)       \* the client has gone
                 /\ UNCHANGED <<probes, cooling>>
              \/ /\ probes' = [probes EXCEPT ![a] = @ + 1]
                 /\ cooling' = [cooling EXCEPT ![a] = TRUE]
                 /\ attempts' = [attempts EXCEPT ![c] = @ + 1]
                 /\ Goto(c, "probe")
                 /\ UNCHANGED <<gateVars, at, manual, seen, tried, via, result, cand>>
           /\ UNCHANGED <<active, ready>>
  /\ UNCHANGED <<policyVars, guards, stop, table, probing, slot>>

\* What probe may come back with: the result, the health of the route, and the
\* stop it puts on the account.
ProbeOutcomes ==
  {<<"accepted", "success", "none">>,
   <<"retry", "failure", "none">>,     \* no connection, or the body broke off
   <<"retry", "success", "none">>,     \* no state, wrong shape, too old, no cookie
   <<"terminal", "neutral", "none">>,  \* cancelled
   <<"terminal", "success", "none">>,  \* another HTTP status, or a failed stream
   <<"terminal", "success", "auth">>,
   <<"terminal", "success", "pause">>}

\* permit.Finish and reject, before the mutex is taken to publish.
ProbeEnds(c) ==
  /\ pc[c] = "probe"
  /\ \E o \in ProbeOutcomes :
       /\ Finish(c, o[2])
       /\ Reject(Scope(at[c]), o[3])
       /\ result' = [result EXCEPT ![c] = o[1]]
  /\ Goto(c, "publish")
  /\ UNCHANGED <<policyVars, cooling, probes, sessionVars, slot,
                 at, manual, seen, tried, attempts, via, cand>>

\* Mutant: a round that outlived a reconfiguration still stores its candidate.
PublishableAnyEpoch(c) == result[c] = "accepted" /\ enabled

\* The condition under which a candidate is stored.
Publishable(c) == result[c] = "accepted" /\ epoch = seen[c] /\ enabled

\* Mutant: a candidate does not say where it was collected.
CollectedNowhere(c) == [epoch |-> seen[c], route |-> None]

\* The candidate of an accepted probe.
Collected(c) == [epoch |-> seen[c], route |-> via[c]]

\* A second candidate becomes the spare of a fresh one, unless it is the same.
Publish(c) ==
  /\ pc[c] = "publish"
  /\ LET s == at[c]
         new == Collected(c)
     IN \/ /\ Publishable(c)
           /\ \/ /\ active[s] # None
                 /\ ready' = [ready EXCEPT ![s] = new]
                 /\ UNCHANGED active
                 /\ Return(c, active[s])
              \/ /\ active' = [active EXCEPT ![s] = new]
                 /\ ready' = [ready EXCEPT ![s] = None]
                 /\ \E k \in {new, None} : Return(c, k)
        \/ /\ ~Publishable(c) \/ result[c] = "accepted"   \* or the client has gone
           /\ \/ Rejected(Scope(s)) /\ Return(c, None)
              \/ /\ ~Rejected(Scope(s))
                 /\ Goto(c, IF result[c] = "terminal" THEN "last" ELSE "route")
                 /\ via' = [via EXCEPT ![c] = None]
                 /\ result' = [result EXCEPT ![c] = None]
                 /\ UNCHANGED <<at, manual, seen, tried, attempts, cand>>
           /\ UNCHANGED <<active, ready>>
  /\ UNCHANGED <<policyVars, guardVars, table, probing, slot, gateVars>>

\* No route accepted: fall back to whatever is still usable.
Last(c) ==
  /\ pc[c] = "last"
  /\ \E j \in Judgement : Select(at[c], j) /\ Return(c, Fallback(c, j))
  /\ UNCHANGED <<policyVars, guardVars, table, probing, slot, gateVars>>

\* Closing the round's channel wakes its waiters, who start over without force: a
\* refresh may then be content with a candidate, and return as it always may.
Wake(c, label) ==
  LET woken == {d \in Clients : pc[d] = "wait" /\ at[d] = at[c]} IN
  /\ pc' = [d \in Clients |->
              IF d = c THEN label ELSE IF d \in woken THEN "ensure" ELSE pc[d]]

\* Mutant: the end of a round leaves no cooldown behind it.
EndRoundWarm(c) ==
  /\ pc[c] = "end"
  /\ attempts' = [attempts EXCEPT ![c] = 0]
  /\ probing' = [probing EXCEPT ![at[c]] = None]
  /\ Wake(c, "release")
  /\ UNCHANGED <<policyVars, guardVars, table, active, ready, slot, gateVars,
                 at, manual, seen, tried, via, result, cand>>

\* The deferred function of ensure, under the mutex.
EndRound(c) ==
  /\ pc[c] = "end"
  /\ LET a == Scope(at[c]) IN
     cooling' = [cooling EXCEPT ![a] = @ \/ attempts[c] > 0]
  /\ attempts' = [attempts EXCEPT ![c] = 0]
  /\ probing' = [probing EXCEPT ![at[c]] = None]
  /\ Wake(c, "release")
  /\ UNCHANGED <<policyVars, guards, stop, probes, table, active, ready,
                 slot, gateVars, at, manual, seen, tried, via, result, cand>>

\* Mutant: a round that ends in an error keeps the slot.
ReleaseOnSuccess(c) ==
  /\ pc[c] = "release"
  /\ \/ /\ cand[c] # None /\ ~manual[c]
        /\ slot' = IF slot = c THEN None ELSE slot
        /\ Goto(c, "chosen")
        /\ UNCHANGED localVars
     \/ /\ cand[c] = None \/ manual[c]
        /\ UNCHANGED slot
        /\ Leave(c)
  /\ UNCHANGED <<policyVars, guardVars, sessionVars, gateVars>>

\* Then the slot is given back, and ensure returns; a refresh only reports.
Release(c) ==
  /\ pc[c] = "release"
  /\ slot' = IF slot = c THEN None ELSE slot
  /\ \/ /\ cand[c] # None /\ ~manual[c]
        /\ Goto(c, "chosen")
        /\ UNCHANGED localVars
     \/ /\ cand[c] = None \/ manual[c]
        /\ Leave(c)
  /\ UNCHANGED <<policyVars, guardVars, sessionVars, gateVars>>

-----------------------------------------------------------------------------
(* prepare after ensure, and roundTrip *)

\* The candidate's cookies must be complete, and the candidate must still be one
\* of the session's when the request lease is made.
Chosen(c) ==
  /\ pc[c] = "chosen"
  /\ \/ Leave(c)         \* a cookie has expired
     \/ /\ enabled /\ cand[c] \in {active[at[c]], ready[at[c]]}
        /\ via' = [via EXCEPT ![c] = cand[c].route]
        /\ cand' = [cand EXCEPT ![c] = None]
        /\ Goto(c, "send")
        /\ UNCHANGED <<at, manual, seen, tried, attempts, result>>
  /\ UNCHANGED <<policyVars, guardVars, sessionVars, slot, gateVars>>

\* roundTrip looks at the account once more, whatever the request.
Send(c) ==
  /\ pc[c] = "send"
  /\ \/ Rejected(Scope(at[c])) /\ Leave(c)
     \/ ~Rejected(Scope(at[c])) /\ Goto(c, "admit") /\ UNCHANGED localVars
  /\ UNCHANGED <<policyVars, guardVars, sessionVars, slot, gateVars>>

\* A request with a candidate needs a permit for the candidate's route.
Admit(c) ==
  /\ pc[c] = "admit"
  /\ \/ /\ IF via[c] = None THEN UNCHANGED gateVars ELSE Begin(via[c], c)
        /\ Goto(c, "flight")
        /\ UNCHANGED localVars
     \/ /\ via[c] # None /\ ~Available(via[c])
        /\ Leave(c)
        /\ UNCHANGED gateVars
  /\ UNCHANGED <<policyVars, guardVars, sessionVars, slot>>

\* The upstream fails to answer.
NoResponse(c) ==
  /\ pc[c] = "flight"
  /\ \/ via[c] = None /\ UNCHANGED gateVars
     \/ via[c] # None /\ \E o \in {"failure", "neutral"} : Finish(c, o)
  /\ Leave(c)
  /\ UNCHANGED <<policyVars, guardVars, sessionVars, slot>>

\* The status of the response is held against the account if anyone watches it.
Respond(c) ==
  /\ pc[c] = "flight"
  /\ \E kind \in {"none", "auth", "pause"} :
       IF enabled \/ Scope(at[c]) \in guards
       THEN Reject(Scope(at[c]), kind)
       ELSE UNCHANGED <<guards, stop>>
  /\ \/ via[c] = None /\ Leave(c)
     \/ via[c] # None /\ Goto(c, "stream") /\ UNCHANGED localVars
  /\ UNCHANGED <<policyVars, cooling, probes, sessionVars, slot, gateVars>>

\* A rate limit reported inside the stream.
StreamLimited(c) ==
  /\ pc[c] = "stream"
  /\ Reject(Scope(at[c]), "pause")
  /\ UNCHANGED <<policyVars, cooling, probes, sessionVars, slot, gateVars, pc, localVars>>

\* The body ends: at EOF, by an error or idle timeout, or closed by the client.
\* The strikes it may add to the candidate are part of the judgements.
StreamEnds(c) ==
  /\ pc[c] = "stream"
  /\ \E o \in {"success", "failure", "neutral"} : Finish(c, o)
  /\ Leave(c)
  /\ UNCHANGED <<policyVars, guardVars, sessionVars, slot>>

-----------------------------------------------------------------------------
(* The panel and the clock *)

\* configure, with on the new policy.Enabled.
Configure(on) ==
  /\ epoch < MaxEpoch
  /\ enabled' = on /\ epoch' = epoch + 1
  /\ active' = [s \in Sessions |-> IF s \in table THEN None ELSE active[s]]
  /\ ready' = [s \in Sessions |-> IF s \in table THEN None ELSE ready[s]]
  /\ UNCHANGED <<guardVars, table, probing, slot, gateVars, pc, localVars>>

\* disable, when the connection is being restored: candidates stay.
Disable ==
  /\ epoch < MaxEpoch
  /\ enabled' = FALSE /\ epoch' = epoch + 1
  /\ UNCHANGED <<guardVars, sessionVars, slot, gateVars, pc, localVars>>

\* status: merely looking at the panel promotes spares.
Status ==
  /\ \E promoted \in SUBSET {s \in table : ready[s] # None} :
       /\ active' = [s \in Sessions |-> IF s \in promoted THEN ready[s] ELSE active[s]]
       /\ ready' = [s \in Sessions |-> IF s \in promoted THEN None ELSE ready[s]]
  /\ UNCHANGED <<policyVars, guardVars, table, probing, slot, gateVars,
                 pc, localVars>>

PauseOver(a) ==
  /\ stop[a] = "pause"
  /\ stop' = [stop EXCEPT ![a] = "none"]
  /\ UNCHANGED <<policyVars, guards, cooling, probes, sessionVars, slot,
                 gateVars, pc, localVars>>

CooldownOver(a) ==
  /\ cooling[a]
  /\ cooling' = [cooling EXCEPT ![a] = FALSE]
  /\ UNCHANGED <<policyVars, guards, stop, probes, sessionVars, slot,
                 gateVars, pc, localVars>>

HourOver(a) ==
  /\ probes[a] > 0
  /\ probes' = [probes EXCEPT ![a] = 0]
  /\ UNCHANGED <<policyVars, guards, stop, cooling, sessionVars, slot,
                 gateVars, pc, localVars>>

BackoffOver(r) ==
  /\ phase[r] = "open" /\ r \notin cooled
  /\ cooled' = cooled \cup {r}
  /\ UNCHANGED <<policyVars, guardVars, sessionVars, slot, phase, live, pc, localVars>>

-----------------------------------------------------------------------------
\* What a client does once it has a request, apart from giving up.
Proceed(c) ==
  \/ Borrow(c) \/ Ensure(c) \/ Recheck(c) \/ TryRoute(c) \/ RoutesDone(c)
  \/ Charge(c) \/ ProbeEnds(c) \/ Publish(c) \/ Last(c) \/ EndRound(c)
  \/ Release(c) \/ Chosen(c) \/ Send(c) \/ Admit(c) \/ NoResponse(c)
  \/ Respond(c) \/ StreamEnds(c)

ClientStep(c) ==
  \/ \E key \in Keys : Request(c, key)
  \/ \E s \in Sessions : Refresh(c, s)
  \/ Proceed(c) \/ TakeSlot(c) \/ GiveUp(c) \/ StreamLimited(c)

Timer ==
  \/ \E a \in Scopes : PauseOver(a) \/ CooldownOver(a) \/ HourOver(a)
  \/ \E r \in Routes : BackoffOver(r)

Panel == (\E on \in BOOLEAN : Configure(on)) \/ Disable \/ Status

Next == (\E c \in Clients : ClientStep(c)) \/ Timer \/ Panel

Spec == Init /\ [][Next]_vars

\* A goroutine that can run does run, probes and bodies end by their timeouts,
\* and goroutines blocked on a channel send are served in order of arrival, so
\* none is overtaken for ever.  Nobody has to send, refresh or disconnect.
FairSpec ==
  /\ Spec
  /\ \A c \in Clients : WF_vars(Proceed(c)) /\ SF_vars(TakeSlot(c))

-----------------------------------------------------------------------------
(* Properties *)

TypeOK ==
  /\ enabled \in BOOLEAN /\ epoch \in Nat
  /\ guards \in SUBSET Scopes
  /\ stop \in [Scopes -> {"none", "auth", "pause"}]
  /\ cooling \in [Scopes -> BOOLEAN]
  /\ probes \in [Scopes -> Nat]
  /\ table \in SUBSET Sessions /\ \A s, t \in table : Key(s) = Key(t) => s = t
  /\ active \in [Sessions -> Candidate \cup {None}]
  /\ ready \in [Sessions -> Candidate \cup {None}]
  /\ probing \in [Sessions -> Clients \cup {None}]
  /\ slot \in Clients \cup {None}
  /\ phase \in [Routes -> {"closed", "open", "trial"}]
  /\ live \in [Routes -> SUBSET Clients]
  /\ cooled \in SUBSET Routes
  /\ pc \in [Clients -> Labels]
  /\ at \in [Clients -> Keys \cup Sessions \cup {None}]
  /\ manual \in [Clients -> BOOLEAN]
  /\ seen \in [Clients -> Nat]
  /\ tried \in [Clients -> SUBSET Routes]
  /\ attempts \in [Clients -> Nat]
  /\ via \in [Clients -> Routes \cup {None}]
  /\ result \in [Clients -> {"accepted", "retry", "terminal", None}]
  /\ cand \in [Clients -> Candidate \cup {None}]

\* Single flight: a session's round is run by one client and announced until it
\* ends, one client at a time works upstream, and no exit of ensure keeps either
\* the announcement or the slot.
RoundOwnership ==
  /\ \A c \in Clients :
       /\ pc[c] \in Round => probing[at[c]] = c
       /\ pc[c] \in Working => slot = c
  /\ \A s \in Sessions : probing[s] # None =>
       at[probing[s]] = s /\ pc[probing[s]] \in Round
  /\ slot # None => pc[slot] \in Working \cup {"end", "release"}

\* No path of ensure or roundTrip keeps a permit: who holds one is about to use
\* it, and a route on trial is always in someone's hands.
PermitsReturned ==
  \A r \in Routes :
    /\ \A c \in live[r] : pc[c] \in {"permit", "probe", "flight", "stream"} /\ via[c] = r
    /\ phase[r] = "trial" => live[r] # {}

\* While the collector is enabled every candidate a request could be given was
\* collected under the current configuration, whatever rounds were under way
\* when it changed.
CurrentCandidates ==
  enabled => \A s \in table :
    \A k \in {active[s], ready[s]} \ {None} : k.epoch = epoch

\* Two rounds on one account, by whatever models and refreshes, are a cooldown
\* apart: a round that probed starts one as it ends, and none begins within one.
RoundsSpaced ==
  [][\A c \in Clients :
       /\ attempts[c] = 0 /\ attempts'[c] = 1 => ~cooling[Scope(at[c])]
       /\ pc[c] = "end" /\ pc'[c] # "end" /\ attempts[c] > 0
            => cooling'[Scope(at[c])]]_vars

\* docs/state-cookie-core.md: 401 and 403 stop the account; no refresh, model or
\* setting brings it back.
AuthIsFinal == [][\A a \in Scopes : stop[a] = "auth" => stop'[a] = "auth"]_vars

\* A round that was announced ends: no one waits on it for ever.
RoundsEnd ==
  \A s \in Sessions, c \in Clients : probing[s] = c ~> probing[s] # c
=============================================================================
