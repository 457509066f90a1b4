---------------------------- MODULE ReliableProxy ----------------------------
(***************************************************************************)
(* internal/reliableproxy/engine.go: a proxy that keeps every turn on the  *)
(* route it started on.  The client carries the turn's state in a header;  *)
(* the engine remembers, per credential scope, the route each state was    *)
(* seen on, and forgets what nobody has used for a while.  A refusal of    *)
(* the account by the upstream stops later requests of that scope.         *)
(*                                                                         *)
(* Requests interleave wherever Engine.mu is released.  Retention times    *)
(* are abstracted: what may be old enough to be forgotten is any subset of *)
(* what the code would forget once it is old.  The rotation of the cursor  *)
(* is abstracted to the choice of any available route.                     *)
(***************************************************************************)
EXTENDS Integers, FiniteSets

CONSTANTS
  Clients,      \* goroutines that serve a request
  Scopes,       \* credential scopes
  States,       \* values of the state header
  Routes,
  None,
  MaxRequests,  \* Config.MaxConcurrentRequests, the capacity of slots
  MaxAccounts,  \* capacity of accounts (128)
  MaxBindings   \* capacity of bindings (4096)

ASSUME CapacityAssumption ==
  MaxRequests \in Nat /\ MaxAccounts \in Nat /\ MaxBindings \in Nat
ASSUME ClientsAssumption == IsFiniteSet(Clients)
ASSUME NoneAssumption == None \notin Clients \cup Scopes \cup States \cup Routes

VARIABLES
  slots,          \* requests admitted, the length of the slots channel
  accounts,       \* the scopes that have an accountGuard
  auth, paused,   \* accountGuard.authStatus # 0, now is before pauseUntil
  busy,           \* accountGuard.busy
  bindings,       \* the route a state is bound to
  phase, live,    \* route health: the gate
  cooled,         \* open routes whose back-off has passed
  pc,             \* where each client is
  scope, state,   \* of its request
  route,          \* the route choose selected
  answered        \* responseState

accountVars == <<accounts, auth, paused, busy>>
gateVars == <<phase, live, cooled>>
requestVars == <<scope, state, route, answered>>
vars == <<slots, accountVars, bindings, gateVars, pc, requestVars>>

Gate == INSTANCE CircuitGate WITH Leases <- Clients

Keys == Scopes \X States
Admitted == {"choose", "dispatch", "flight", "stream", "done"}
Labels == {"idle", "account", "release"} \cup Admitted

Init ==
  /\ slots = 0
  /\ accounts = {}
  /\ auth = [a \in Scopes |-> FALSE]
  /\ paused = [a \in Scopes |-> FALSE]
  /\ busy = [a \in Scopes |-> 0]
  /\ bindings = [k \in Keys |-> None]
  /\ Gate!Init
  /\ cooled = {}
  /\ pc = [c \in Clients |-> "idle"]
  /\ scope = [c \in Clients |-> None]
  /\ state = [c \in Clients |-> None]
  /\ route = [c \in Clients |-> None]
  /\ answered = [c \in Clients |-> None]

-----------------------------------------------------------------------------
(* Accounts, bindings and route health *)

Goto(c, label) == pc' = [pc EXCEPT ![c] = label]

\* Mutant: a guard is forgotten although it still refuses its scope.
ForgettableRefused == {a \in accounts : busy[a] = 0 /\ ~paused[a]}

\* A guard that is in use, or that still stops its scope, is never forgotten.  One
\* that is forgotten has nothing in it, and so has the next one of the scope.
Forgettable == {a \in accounts : busy[a] = 0 /\ ~auth[a] /\ ~paused[a]}

\* pause: a 401 or 403 is kept apart from the pause of a 429.
Pause(a, kind) ==
  /\ auth' = [auth EXCEPT ![a] = @ \/ (kind = "auth" /\ a \in accounts)]
  /\ paused' = [paused EXCEPT ![a] = @ \/ (kind = "pause" /\ a \in accounts)]

\* Mutant: pruneBindings looks at nothing but the age.
PrunableAny == {k \in Keys : bindings[k] # None}

\* pruneBindings: a binding may go when no request of its scope is under way.
Prunable == {k \in Keys : bindings[k] # None /\ (k[1] \in accounts => busy[k[1]] = 0)}

Pruned(gone) == [k \in Keys |-> IF k \in gone THEN None ELSE bindings[k]]

Full(b) == Cardinality({k \in Keys : b[k] # None}) >= MaxBindings

\* Mutant: the last response decides where the turn goes.
BindLast(a, st, r) ==
  IF st = None THEN UNCHANGED bindings ELSE bindings' = [bindings EXCEPT ![<<a, st>>] = r]

\* bind: the first route a state was seen on keeps it; a full table is pruned and,
\* if that does not help, the state stays unbound.
Bind(a, st, r) ==
  IF st = None \/ bindings[<<a, st>>] # None
  THEN UNCHANGED bindings
  ELSE \E gone \in SUBSET Prunable :
         LET kept == Pruned(gone) IN
         bindings' = IF Full(kept) THEN kept ELSE [kept EXCEPT ![<<a, st>>] = r]

\* Manager.Available: an open route takes one request once its back-off is over.
Available(r) == phase[r] # "trial" /\ (phase[r] = "open" => r \in cooled)

Begin(r, c) ==
  /\ Available(r)
  /\ Gate!Admit(r, c) \/ Gate!Probe(r, c)
  /\ UNCHANGED cooled

\* Lease.Finish.  Below the failure threshold a failure leaves a closed route
\* closed; a fenced permit says nothing.
Finish(c, o) ==
  LET r == route[c] IN
  \/ c \notin live[r] /\ UNCHANGED gateVars
  \/ /\ o = "success" \/ phase[r] = "closed"
     /\ Gate!Settle(r, c)
     /\ UNCHANGED cooled
  \/ /\ o = "failure" \/ (o = "neutral" /\ phase[r] = "trial")
     /\ Gate!Trip(r, c)
     /\ cooled' = cooled \ {r}

-----------------------------------------------------------------------------
(* ServeHTTP *)

Arrive(c, a, st) ==
  /\ pc[c] = "idle"
  /\ slots < MaxRequests
  /\ slots' = slots + 1
  /\ scope' = [scope EXCEPT ![c] = a]
  /\ state' = [state EXCEPT ![c] = st]
  /\ Goto(c, "account")
  /\ UNCHANGED <<accountVars, bindings, gateVars, route, answered>>

\* Mutant: the account is let in while a guard of it is not yet counted.
BeginAccountUncounted(c) ==
  /\ pc[c] = "account"
  /\ LET a == scope[c] IN
     IF auth[a] \/ paused[a] THEN Goto(c, "release") ELSE Goto(c, "choose")
  /\ accounts' = accounts \cup {scope[c]}
  /\ UNCHANGED <<slots, auth, paused, busy, bindings, gateVars, requestVars>>

\* beginAccount forgets old guards first; the guard it creates stays even when
\* the request is refused.
BeginAccount(c) ==
  /\ pc[c] = "account"
  /\ \E gone \in SUBSET Forgettable :
       LET a == scope[c]
           kept == accounts \ gone
       IN \/ /\ a \notin kept /\ Cardinality(kept) >= MaxAccounts
             /\ accounts' = kept
             /\ Goto(c, "release")
             /\ UNCHANGED busy
          \/ /\ a \in kept \/ Cardinality(kept) < MaxAccounts
             /\ accounts' = kept \cup {a}
             /\ \/ /\ auth[a] \/ paused[a]
                   /\ Goto(c, "release")
                   /\ UNCHANGED busy
                \/ /\ ~auth[a] /\ ~paused[a]
                   /\ busy' = [busy EXCEPT ![a] = @ + 1]
                   /\ Goto(c, "choose")
  /\ UNCHANGED <<slots, auth, paused, bindings, gateVars, requestVars>>

\* choose: a state that is bound goes to its route or nowhere; any other request
\* goes to an available route, and its state is bound to it.
Choose(c) ==
  /\ pc[c] = "choose"
  /\ \E gone \in SUBSET Prunable :
       LET kept == Pruned(gone)
           key == <<scope[c], state[c]>>
           bound == IF state[c] = None THEN None ELSE kept[key]
           refused == \/ bound # None /\ ~Available(bound)
                      \/ state[c] # None /\ bound = None /\ Full(kept)
                      \/ bound = None /\ \A r \in Routes : ~Available(r)
       IN \/ /\ refused
             /\ bindings' = kept
             /\ Goto(c, "done")
             /\ UNCHANGED route
          \/ /\ ~refused
             /\ \E r \in Routes :
                  /\ Available(r)
                  /\ bound # None => r = bound
                  /\ route' = [route EXCEPT ![c] = r]
                  /\ bindings' = IF state[c] = None THEN kept ELSE [kept EXCEPT ![key] = r]
             /\ Goto(c, "dispatch")
  /\ UNCHANGED <<slots, accountVars, gateVars, scope, state, answered>>

-----------------------------------------------------------------------------
(* The transport, called by the reverse proxy once *)

\* The route may have been closed since choose looked at it.
Dispatch(c) ==
  /\ pc[c] = "dispatch"
  /\ \/ Begin(route[c], c) /\ Goto(c, "flight")
     \/ ~Available(route[c]) /\ Goto(c, "done") /\ UNCHANGED gateVars
  /\ UNCHANGED <<slots, accountVars, bindings, requestVars>>

\* Mutant: only a response gives the permit back.
NoResponseKeeping(c) ==
  /\ pc[c] = "flight"
  /\ Goto(c, "done")
  /\ UNCHANGED <<slots, accountVars, bindings, gateVars, requestVars>>

\* No response, or a redirect, which counts as a success of the route.
NoResponse(c) ==
  /\ pc[c] = "flight"
  /\ \E o \in {"failure", "neutral", "success"} : Finish(c, o)
  /\ Goto(c, "done")
  /\ UNCHANGED <<slots, accountVars, bindings, requestVars>>

\* pause, then bind; other requests see nothing of the order.
Respond(c) ==
  /\ pc[c] = "flight"
  /\ \E kind \in {"ok", "auth", "pause"} : Pause(scope[c], kind)
  /\ \E st \in States \cup {None} :
       /\ Bind(scope[c], st, route[c])
       /\ answered' = [answered EXCEPT ![c] = st]
  /\ Goto(c, "stream")
  /\ UNCHANGED <<slots, accounts, busy, gateVars, scope, state, route>>

\* An event of the stream names a state, or reports a rate limit.
StreamState(c, st) ==
  /\ pc[c] = "stream"
  /\ Bind(scope[c], st, route[c])
  /\ answered' = [answered EXCEPT ![c] = st]
  /\ UNCHANGED <<slots, accountVars, gateVars, pc, scope, state, route>>

StreamLimited(c) ==
  /\ pc[c] = "stream"
  /\ Pause(scope[c], "pause")
  /\ UNCHANGED <<slots, accounts, busy, bindings, gateVars, pc, requestVars>>

\* onFinish: at EOF, by an error or idle timeout, or closed by the client.
StreamEnds(c) ==
  /\ pc[c] = "stream"
  /\ Bind(scope[c], answered[c], route[c])
  /\ \E o \in {"success", "failure", "neutral"} : Finish(c, o)
  /\ Goto(c, "done")
  /\ UNCHANGED <<slots, accountVars, requestVars>>

\* Mutant: endAccount is called on two ways out.
EndAccountTwice(c) ==
  /\ pc[c] = "done"
  /\ LET a == scope[c] IN
     busy' = IF a \in accounts THEN [busy EXCEPT ![a] = @ - 2] ELSE busy
  /\ Goto(c, "release")
  /\ UNCHANGED <<slots, accounts, auth, paused, bindings, gateVars, requestVars>>

\* endAccount, deferred.
EndAccount(c) ==
  /\ pc[c] = "done"
  /\ LET a == scope[c] IN
     busy' = IF a \in accounts THEN [busy EXCEPT ![a] = @ - 1] ELSE busy
  /\ Goto(c, "release")
  /\ UNCHANGED <<slots, accounts, auth, paused, bindings, gateVars, requestVars>>

\* The slot is given back last, whatever became of the request.
Release(c) ==
  /\ pc[c] = "release"
  /\ slots' = slots - 1
  /\ Goto(c, "idle")
  /\ scope' = [scope EXCEPT ![c] = None]
  /\ state' = [state EXCEPT ![c] = None]
  /\ route' = [route EXCEPT ![c] = None]
  /\ answered' = [answered EXCEPT ![c] = None]
  /\ UNCHANGED <<accountVars, bindings, gateVars>>

-----------------------------------------------------------------------------
(* The clock *)

PauseOver(a) ==
  /\ paused[a]
  /\ paused' = [paused EXCEPT ![a] = FALSE]
  /\ UNCHANGED <<slots, accounts, auth, busy, bindings, gateVars, pc, requestVars>>

BackoffOver(r) ==
  /\ phase[r] = "open" /\ r \notin cooled
  /\ cooled' = cooled \cup {r}
  /\ UNCHANGED <<slots, accountVars, bindings, phase, live, pc, requestVars>>

Proceed(c) ==
  \/ BeginAccount(c) \/ Choose(c) \/ Dispatch(c) \/ NoResponse(c) \/ Respond(c)
  \/ StreamEnds(c) \/ EndAccount(c) \/ Release(c)

Next ==
  \/ \E c \in Clients :
       \/ \E a \in Scopes, st \in States \cup {None} : Arrive(c, a, st)
       \/ \E st \in States : StreamState(c, st)
       \/ StreamLimited(c) \/ Proceed(c)
  \/ \E a \in Scopes : PauseOver(a)
  \/ \E r \in Routes : BackoffOver(r)

Spec == Init /\ [][Next]_vars

-----------------------------------------------------------------------------
(* Properties *)

TypeOK ==
  /\ slots \in Nat
  /\ accounts \in SUBSET Scopes
  /\ auth \in [Scopes -> BOOLEAN]
  /\ paused \in [Scopes -> BOOLEAN]
  /\ busy \in [Scopes -> Nat]
  /\ bindings \in [Keys -> Routes \cup {None}]
  /\ phase \in [Routes -> {"closed", "open", "trial"}]
  /\ live \in [Routes -> SUBSET Clients]
  /\ cooled \in SUBSET Routes
  /\ pc \in [Clients -> Labels]
  /\ scope \in [Clients -> Scopes \cup {None}]
  /\ state \in [Clients -> States \cup {None}]
  /\ route \in [Clients -> Routes \cup {None}]
  /\ answered \in [Clients -> States \cup {None}]

\* The guard of a scope is there, and counts its requests, for as long as one is
\* under way; nothing that forgets guards or counts breaks that.
BusyCounts ==
  \A a \in Scopes :
    LET using == {c \in Clients : pc[c] \in Admitted /\ scope[c] = a} IN
    busy[a] = Cardinality(using) /\ (using # {} => a \in accounts)

\* A turn never moves behind its client's back: whatever is pruned or bound while
\* a request is under way, its state stays bound to the route it is sent on.
TurnsStay ==
  \A c \in Clients :
    pc[c] \in {"dispatch", "flight", "stream"} /\ state[c] # None
      => bindings[<<scope[c], state[c]>>] = route[c]

\* A binding is only ever forgotten, and then not under a request of its scope.
BindingsKept ==
  [][\A k \in Keys : bindings[k] # None /\ bindings'[k] # bindings[k]
       => bindings'[k] = None /\ busy[k[1]] = 0]_vars

\* A scope that was refused for good stays refused: its guard is not forgotten,
\* and no later pause, however late it arrives, replaces the refusal.
AuthIsFinal ==
  [][\A a \in Scopes : auth[a] => auth'[a] /\ a \in accounts']_vars

\* Whoever holds a permit is about to use it, and a route on trial is always in
\* someone's hands.
PermitsReturned ==
  \A r \in Routes :
    /\ \A c \in live[r] : pc[c] \in {"flight", "stream"} /\ route[c] = r
    /\ phase[r] = "trial" => live[r] # {}
=============================================================================
