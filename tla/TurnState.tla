------------------------------ MODULE TurnState ------------------------------
(***************************************************************************)
(* internal/turnstate/store.go: the turn states of one gateway session.    *)
(* Requests work on immutable snapshots of the active state; a spare waits *)
(* in ready.  Probes offer new states; a response of an unexpected shape   *)
(* counts as a strike and then, in a second step, rejects the snapshot it  *)
(* answered (gateway/handler.go), with other requests in between.          *)
(*                                                                         *)
(* A state is opaque: its value and the second it was issued in.  Shapes   *)
(* are abstracted to expected or suspect, and the route a state came from  *)
(* travels with it unchanged.                                              *)
(***************************************************************************)
EXTENDS Integers, FiniteSets

CONSTANTS
  Clients,     \* requests in flight
  Values,      \* what tells apart two states issued in the same second
  None,
  TTL,         \* Policy.TTL
  Refresh,     \* Policy.Refresh, how early a spare may take over
  Margin,      \* 30 seconds
  MaxTime,     \* bound: the clock
  MaxVersion   \* bound: states made active

ASSUME ClientsAssumption == IsFiniteSet(Clients)
ASSUME PolicyAssumption ==
  /\ TTL \in Nat /\ Refresh \in Nat /\ Margin \in Nat
  /\ MaxTime \in Nat /\ MaxVersion \in Nat

Token == [value : Values, issued : Nat]
ASSUME NoneAssumption == None \notin Token

VARIABLES
  now,
  hold,            \* holdActive: keep the active state until it is unusable
  active,          \* a Snapshot: token and version
  ready,           \* the token of the spare
  version,         \* the version of the state made active last
  strikes,
  pc, used         \* where each request is, and its snapshot

storeVars == <<active, ready, version, strikes>>
requestVars == <<pc, used>>
vars == <<now, hold, storeVars, requestVars>>

Snapshot == [token : Token \cup {None}, version : Nat]
Empty == [token |-> None, version |-> 0]

\* Policy.Accept, for a token of the expected shape.
Accept(t) ==
  /\ t # None
  /\ t.issued <= now + Margin
  /\ now + Margin < t.issued + TTL

Init ==
  /\ now = 0
  /\ hold \in BOOLEAN
  /\ active = Empty /\ ready = None
  /\ version = 0 /\ strikes = 0
  /\ pc = [c \in Clients |-> "idle"]
  /\ used = [c \in Clients |-> Empty]

-----------------------------------------------------------------------------
(* Promotion *)

\* Whether spare r takes over from a, against which n strikes are held.
Takes(r, a, n) ==
  /\ Accept(r) /\ r # a.token
  /\ \/ ~Accept(a.token)
     \/ n >= 2
     \/ ~hold /\ now + Refresh > a.token.issued + TTL /\ r.issued > a.token.issued

\* Mutant: a new active state inherits the strikes of the old one.
PromoteStruck(a, r, n) ==
  IF Takes(r, a, n)
  THEN /\ active' = [token |-> r, version |-> version + 1]
       /\ version' = version + 1
       /\ ready' = None
       /\ strikes' = n
  ELSE active' = a /\ ready' = r /\ strikes' = n /\ UNCHANGED version

\* promote, on the given active state, spare and strikes.
Promote(a, r, n) ==
  IF Takes(r, a, n)
  THEN /\ active' = [token |-> r, version |-> version + 1]
       /\ version' = version + 1
       /\ ready' = None
       /\ strikes' = 0
  ELSE active' = a /\ ready' = r /\ strikes' = n /\ UNCHANGED version

-----------------------------------------------------------------------------
(* Requests *)

\* A request that finds no usable state is not sent with one.
Acquire(c) ==
  /\ pc[c] = "idle"
  /\ Promote(active, ready, strikes)
  /\ Accept(active'.token)
  /\ pc' = [pc EXCEPT ![c] = "sent"]
  /\ used' = [used EXCEPT ![c] = active']
  /\ UNCHANGED <<now, hold>>

\* NeedsRefresh, and Acquire for a request that is sent without a state.
Poll ==
  /\ Promote(active, ready, strikes)
  /\ UNCHANGED <<now, hold, requestVars>>

Done(c) ==
  /\ pc' = [pc EXCEPT ![c] = "idle"]
  /\ used' = [used EXCEPT ![c] = Empty]

\* The response is an error, has no state, or never arrives.
NoObservation(c) ==
  /\ pc[c] = "sent"
  /\ Done(c)
  /\ UNCHANGED <<now, hold, storeVars>>

\* Mutant: a good response takes back one strike.
ObserveForgiving(c) ==
  /\ pc[c] = "sent"
  /\ strikes' = IF used[c] = active THEN strikes - 1 ELSE strikes
  /\ Done(c)
  /\ UNCHANGED <<now, hold, active, ready, version>>

\* Observe: a response speaks for the active state only if that is the one the
\* request was sent with.
ObserveExpected(c) ==
  /\ pc[c] = "sent"
  /\ strikes' = IF used[c] = active THEN 0 ELSE strikes
  /\ Done(c)
  /\ UNCHANGED <<now, hold, active, ready, version>>

ObserveSuspect(c) ==
  /\ pc[c] = "sent"
  /\ strikes' = IF used[c] = active THEN strikes + 1 ELSE strikes
  /\ pc' = [pc EXCEPT ![c] = "rejecting"]
  /\ UNCHANGED <<now, hold, active, ready, version, used>>

\* Mutant: whatever is active when the rejection arrives is dropped.
RejectCurrent(c) ==
  /\ pc[c] = "rejecting"
  /\ Promote(Empty, ready, 0)
  /\ Done(c)
  /\ UNCHANGED <<now, hold>>

\* RejectAndPromote
Reject(c) ==
  /\ pc[c] = "rejecting"
  /\ \/ used[c] # active /\ UNCHANGED storeVars
     \/ used[c] = active /\ Promote(Empty, ready, 0)
  /\ Done(c)
  /\ UNCHANGED <<now, hold>>

-----------------------------------------------------------------------------
(* Probes, the panel and the clock *)

Spare(t) == IF ready = None \/ t.issued >= ready.issued THEN t ELSE ready

\* Mutant: a state offered while none is usable is not given a version.
OfferUnversioned(t) ==
  /\ Accept(t)
  /\ version + (IF ready = None THEN 1 ELSE 2) <= MaxVersion
  /\ \/ /\ t # active.token /\ ~Accept(active.token)
        /\ active' = [token |-> t, version |-> version]
        /\ strikes' = 0
        /\ UNCHANGED <<ready, version>>
     \/ t # active.token /\ Accept(active.token) /\ Promote(active, Spare(t), strikes)
  /\ UNCHANGED <<now, hold, requestVars>>

\* Offer.  One that is refused, or active already, changes nothing.
Offer(t) ==
  /\ Accept(t)
  /\ t # active.token
  /\ version + (IF ready = None THEN 1 ELSE 2) <= MaxVersion
  /\ \/ /\ ~Accept(active.token)
        /\ active' = [token |-> t, version |-> version + 1]
        /\ version' = version + 1
        /\ strikes' = 0
        /\ UNCHANGED ready
     \/ Accept(active.token) /\ Promote(active, Spare(t), strikes)
  /\ UNCHANGED <<now, hold, requestVars>>

HoldActive(h) ==
  /\ hold' = h
  /\ UNCHANGED <<now, storeVars, requestVars>>

Tick ==
  /\ now < MaxTime
  /\ now' = now + 1
  /\ UNCHANGED <<hold, storeVars, requestVars>>

-----------------------------------------------------------------------------
Next ==
  \/ \E c \in Clients :
       \/ Acquire(c) \/ NoObservation(c) \/ ObserveExpected(c)
       \/ ObserveSuspect(c) \/ Reject(c)
  \/ \E v \in Values, n \in 0 .. MaxTime : Offer([value |-> v, issued |-> n])
  \/ \E h \in BOOLEAN : HoldActive(h)
  \/ Poll \/ Tick

Spec == Init /\ [][Next]_vars

-----------------------------------------------------------------------------
(* Properties *)

TypeOK ==
  /\ now \in Nat
  /\ hold \in BOOLEAN
  /\ active \in Snapshot
  /\ ready \in Token \cup {None}
  /\ version \in Nat
  /\ strikes \in Nat
  /\ pc \in [Clients -> {"idle", "sent", "rejecting"}]
  /\ used \in [Clients -> Snapshot]

\* A version names one state for good: a snapshot that carries the version of the
\* active state is a snapshot of the active state.
VersionsName ==
  /\ \A c \in Clients : pc[c] # "idle" =>
       /\ used[c].version \in 1 .. version
       /\ used[c].version = active.version => used[c] = active
  /\ \A c, d \in Clients :
       pc[c] # "idle" /\ pc[d] # "idle" /\ used[c].version = used[d].version
         => used[c] = used[d]

\* The requests whose suspect answer to the active state is not dealt with yet.
Accusers == {c \in Clients : pc[c] = "rejecting" /\ used[c] = active}

\* Strikes are never held against a state they were not observed for: behind every
\* strike there is a request that is about to reject the active state.
StrikesPending == strikes <= Cardinality(Accusers)

\* Under the hold strategy a usable state stays until a response to it was suspect;
\* what older requests observe does not move it.
HeldUntilSuspected ==
  [][hold /\ Accept(active.token) /\ active' # active => Accusers # {}]_vars
=============================================================================
