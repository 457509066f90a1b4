-------------------------- MODULE ReliableProxyProofs --------------------------
(***************************************************************************)
(* Proofs about the reliable proxy (ReliableProxy), for any number of      *)
(* clients, scopes, states and routes and any capacities: the counts of    *)
(* accounts, the turns that stay on their route, the permits of the        *)
(* breaker, the refusals that are final and the bindings that are kept.    *)
(***************************************************************************)
EXTENDS ReliableProxy, FiniteSetTheorems, TLAPS

\* A request under way has a scope, and one that was sent has a route.
RequestsNamed ==
  \A c \in Clients :
    /\ pc[c] # "idle" => scope[c] \in Scopes
    /\ pc[c] \in {"dispatch", "flight", "stream"} => route[c] \in Routes

\* Every request holds one slot, from its arrival to its release.
SlotsCounted == slots = Cardinality({c \in Clients : pc[c] # "idle"})

\* What refuses a scope is its guard.
RefusalsKept == \A a \in Scopes : auth[a] => a \in accounts

Using(a) == {c \in Clients : pc[c] \in Admitted /\ scope[c] = a}

IInv ==
  /\ TypeOK /\ RequestsNamed /\ SlotsCounted /\ RefusalsKept
  /\ BusyCounts /\ TurnsStay /\ PermitsReturned

-----------------------------------------------------------------------------
(* What the helpers do *)

\* Whatever choose and bind forget belongs to a scope without a request under way.
LEMMA PrunableUnused ==
  ASSUME IInv, NEW k \in Prunable
  PROVE  k \in Keys /\ bindings[k] # None /\ busy[k[1]] = 0 /\ Using(k[1]) = {}
  <1>1. k \in Keys /\ bindings[k] # None /\ (k[1] \in accounts => busy[k[1]] = 0)
    BY DEF Prunable
  <1>2. k[1] \in Scopes
    BY <1>1 DEF Keys
  <1>3. /\ busy[k[1]] = Cardinality(Using(k[1]))
        /\ Using(k[1]) # {} => k[1] \in accounts
    BY <1>2 DEF IInv, BusyCounts, Using
  <1>4. IsFiniteSet(Using(k[1]))
    BY ClientsAssumption, FS_Subset DEF Using
  <1> QED BY <1>1, <1>3, <1>4, FS_EmptySet

LEMMA PrunedEffect ==
  ASSUME IInv, NEW gone \in SUBSET Prunable
  PROVE  /\ Pruned(gone) \in [Keys -> Routes \cup {None}]
         /\ \A k \in Keys : \/ Pruned(gone)[k] = bindings[k]
                            \/ /\ Pruned(gone)[k] = None
                               /\ busy[k[1]] = 0 /\ Using(k[1]) = {}
  BY PrunableUnused DEF Pruned, IInv, TypeOK

\* bind forgets unused bindings, and may give the state a route if it has none.
LEMMA BindEffect ==
  ASSUME IInv, NEW a \in Scopes, NEW st \in States \cup {None}, NEW r \in Routes,
         Bind(a, st, r)
  PROVE  /\ bindings' \in [Keys -> Routes \cup {None}]
         /\ \A k \in Keys :
              \/ bindings'[k] = bindings[k]
              \/ bindings'[k] = None /\ busy[k[1]] = 0 /\ Using(k[1]) = {}
              \/ bindings[k] = None
  <1>1. CASE st = None \/ bindings[<<a, st>>] # None
    BY <1>1 DEF Bind, IInv, TypeOK
  <1>2. CASE ~(st = None \/ bindings[<<a, st>>] # None)
    <2>1. PICK gone \in SUBSET Prunable :
            bindings' = (IF Full(Pruned(gone)) THEN Pruned(gone)
                         ELSE [Pruned(gone) EXCEPT ![<<a, st>>] = r])
      BY <1>2 DEF Bind
    <2>2. <<a, st>> \in Keys
      BY <1>2 DEF Keys
    <2> DEFINE kept == Pruned(gone)
    <2>3. bindings' = kept \/ bindings' = [kept EXCEPT ![<<a, st>>] = r]
      BY <2>1
    <2>4. /\ kept \in [Keys -> Routes \cup {None}]
          /\ \A k \in Keys : \/ kept[k] = bindings[k]
                             \/ kept[k] = None /\ busy[k[1]] = 0 /\ Using(k[1]) = {}
      BY PrunedEffect
    <2> HIDE DEF kept
    <2> QED BY <1>2, <2>2, <2>3, <2>4
  <1> QED BY <1>1, <1>2

\* The permit of a request is taken where it is sent ...
LEMMA BeginEffect ==
  ASSUME IInv, NEW r \in Routes, NEW c \in Clients, Begin(r, c)
  PROVE  /\ phase' \in [Routes -> {"closed", "open", "trial"}]
         /\ live' \in [Routes -> SUBSET Clients]
         /\ UNCHANGED cooled
         /\ \A q \in Routes : q # r => live'[q] = live[q] /\ phase'[q] = phase[q]
         /\ c \in live'[r] /\ live'[r] \subseteq live[r] \cup {c}
  <1>1. CASE Gate!Admit(r, c)
    BY <1>1 DEF Begin, Gate!Admit, IInv, TypeOK
  <1>2. CASE Gate!Probe(r, c)
    BY <1>2 DEF Begin, Gate!Probe, IInv, TypeOK
  <1> QED BY <1>1, <1>2 DEF Begin

\* ... and gone when it has reported, along with the trial it may have been.
LEMMA FinishEffect ==
  ASSUME IInv, NEW c \in Clients, NEW o, route[c] \in Routes, Finish(c, o)
  PROVE  /\ phase' \in [Routes -> {"closed", "open", "trial"}]
         /\ live' \in [Routes -> SUBSET Clients]
         /\ cooled' \in SUBSET Routes
         /\ \A q \in Routes : q # route[c] => live'[q] = live[q] /\ phase'[q] = phase[q]
         /\ live'[route[c]] \subseteq live[route[c]] \ {c}
         /\ phase'[route[c]] = "trial" =>
              phase[route[c]] = "trial" /\ live'[route[c]] = live[route[c]]
  <1> DEFINE r == route[c]
  <1>1. CASE c \notin live[r] /\ UNCHANGED gateVars
    BY <1>1 DEF gateVars, IInv, TypeOK
  <1>2. CASE Gate!Settle(r, c) /\ UNCHANGED cooled
    BY <1>2 DEF Gate!Settle, IInv, TypeOK
  <1>3. CASE Gate!Trip(r, c) /\ cooled' = cooled \ {r}
    BY <1>3 DEF Gate!Trip, IInv, TypeOK
  <1> QED BY <1>1, <1>2, <1>3 DEF Finish

-----------------------------------------------------------------------------
(* Types *)

LEMMA InitIInv == Init => IInv
  <1> SUFFICES ASSUME Init PROVE IInv
    OBVIOUS
  <1> USE DEF Init
  <1>1. TypeOK
    BY NoneAssumption DEF TypeOK, Gate!Init, Labels, Admitted
  <1>2. RequestsNamed /\ RefusalsKept /\ TurnsStay
    BY DEF RequestsNamed, RefusalsKept, TurnsStay
  <1>3. SlotsCounted
    <2>1. {c \in Clients : pc[c] # "idle"} = {}
      OBVIOUS
    <2> QED BY <2>1, FS_EmptySet DEF SlotsCounted
  <1>4. BusyCounts
    <2> SUFFICES ASSUME NEW a \in Scopes
                 PROVE  Using(a) = {} /\ busy[a] = 0
      BY FS_EmptySet DEF BusyCounts, Using
    <2> QED BY DEF Using, Admitted
  <1>5. PermitsReturned
    BY DEF PermitsReturned, Gate!Init
  <1> QED BY <1>1, <1>2, <1>3, <1>4, <1>5 DEF IInv

\* Requests hold slots, so there is one to give back.
LEMMA SlotHeld ==
  ASSUME IInv, NEW c \in Clients, pc[c] # "idle"
  PROVE  slots \in Nat /\ slots >= 1
  <1> DEFINE S == {d \in Clients : pc[d] # "idle"}
  <1>1. IsFiniteSet(S) /\ S # {}
    BY ClientsAssumption, FS_Subset
  <1>2. Cardinality(S) \in Nat /\ Cardinality(S) # 0
    BY <1>1, FS_EmptySet, FS_CardinalityType
  <1> QED BY <1>2 DEF IInv, SlotsCounted

\* A request that is admitted is counted by its guard.
LEMMA BusyHeld ==
  ASSUME IInv, NEW c \in Clients, pc[c] \in Admitted
  PROVE  /\ scope[c] \in Scopes /\ scope[c] \in accounts
         /\ c \in Using(scope[c])
         /\ busy[scope[c]] \in Nat /\ busy[scope[c]] >= 1
  <1>1. scope[c] \in Scopes
    BY DEF IInv, RequestsNamed, Admitted
  <1>2. c \in Using(scope[c]) /\ IsFiniteSet(Using(scope[c]))
    BY ClientsAssumption, FS_Subset DEF Using
  <1>3. Cardinality(Using(scope[c])) \in Nat /\ Cardinality(Using(scope[c])) # 0
    BY <1>2, FS_EmptySet, FS_CardinalityType
  <1> QED BY <1>1, <1>2, <1>3 DEF IInv, BusyCounts, Using

\* The steps of a request that is admitted and stays so.
Goes(c) ==
  \/ Choose(c) \/ Dispatch(c) \/ NoResponse(c) \/ Respond(c) \/ StreamEnds(c)
  \/ StreamLimited(c) \/ \E st \in States : StreamState(c, st)

LEMMA GoesEffect ==
  ASSUME IInv, NEW c \in Clients, Goes(c)
  PROVE  /\ pc[c] \in Admitted
         /\ pc' \in [Clients -> Labels] /\ pc'[c] \in Admitted
         /\ \A d \in Clients : d # c => pc'[d] = pc[d]
         /\ UNCHANGED <<slots, accounts, busy, scope, state>>
  BY DEF Goes, Choose, Dispatch, NoResponse, Respond, StreamEnds, StreamLimited, StreamState,
         Goto, accountVars, requestVars, Pause, Admitted, Labels, IInv, TypeOK

\* What such a step does to bindings, accounts and permits.
LEMMA GoesTypes ==
  ASSUME IInv, NEW c \in Clients, Goes(c)
  PROVE  TypeOK'
  <1> DEFINE Rest == /\ slots' \in Nat /\ accounts' \in SUBSET Scopes
                     /\ busy' \in [Scopes -> Nat] /\ pc' \in [Clients -> Labels]
                     /\ scope' \in [Clients -> Scopes \cup {None}]
                     /\ state' \in [Clients -> States \cup {None}]
  <1>1. Rest
    BY GoesEffect DEF IInv, TypeOK
  <1>2. scope[c] \in Scopes
    BY BusyHeld, GoesEffect
  <1> HIDE DEF Rest
  <1>3. CASE Choose(c)
    <2>1. PICK gone \in SUBSET Prunable :
            \/ bindings' = Pruned(gone) /\ UNCHANGED route
            \/ \E r \in Routes :
                 /\ route' = [route EXCEPT ![c] = r]
                 /\ bindings' = (IF state[c] = None THEN Pruned(gone)
                                 ELSE [Pruned(gone) EXCEPT ![<<scope[c], state[c]>>] = r])
      BY <1>3 DEF Choose
    <2>2. Pruned(gone) \in [Keys -> Routes \cup {None}]
      BY PrunedEffect
    <2>3. bindings' \in [Keys -> Routes \cup {None}]
      BY <2>1, <2>2
    <2>4. route' \in [Clients -> Routes \cup {None}]
      BY <2>1 DEF IInv, TypeOK
    <2> QED BY <1>1, <1>3, <2>3, <2>4 DEF Choose, Rest, accountVars, gateVars, IInv, TypeOK
  <1>4. CASE Dispatch(c)
    <2>1. route[c] \in Routes
      BY <1>4 DEF Dispatch, IInv, RequestsNamed
    <2>2. /\ phase' \in [Routes -> {"closed", "open", "trial"}]
          /\ live' \in [Routes -> SUBSET Clients] /\ cooled' \in SUBSET Routes
      BY <1>4, <2>1, BeginEffect DEF Dispatch, gateVars, IInv, TypeOK
    <2> QED BY <1>1, <1>4, <2>2 DEF Dispatch, Rest, accountVars, requestVars, IInv, TypeOK
  <1>5. CASE NoResponse(c)
    <2>1. route[c] \in Routes
      BY <1>5 DEF NoResponse, IInv, RequestsNamed
    <2>2. /\ phase' \in [Routes -> {"closed", "open", "trial"}]
          /\ live' \in [Routes -> SUBSET Clients] /\ cooled' \in SUBSET Routes
      BY <1>5, <2>1, FinishEffect DEF NoResponse
    <2> QED BY <1>1, <1>5, <2>2 DEF NoResponse, Rest, accountVars, requestVars, IInv, TypeOK
  <1>6. CASE Respond(c)
    <2>1. route[c] \in Routes
      BY <1>6 DEF Respond, IInv, RequestsNamed
    <2>2. PICK st \in States \cup {None} :
            Bind(scope[c], st, route[c]) /\ answered' = [answered EXCEPT ![c] = st]
      BY <1>6 DEF Respond
    <2>3. bindings' \in [Keys -> Routes \cup {None}]
      BY <1>2, <2>1, <2>2, BindEffect
    <2>4. auth' \in [Scopes -> BOOLEAN] /\ paused' \in [Scopes -> BOOLEAN]
      BY <1>6 DEF Respond, Pause, IInv, TypeOK
    <2>5. answered' \in [Clients -> States \cup {None}]
      BY <2>2 DEF IInv, TypeOK
    <2> QED BY <1>1, <1>6, <2>3, <2>4, <2>5 DEF Respond, Rest, gateVars, IInv, TypeOK
  <1>7. CASE StreamEnds(c)
    <2>1. route[c] \in Routes /\ answered[c] \in States \cup {None}
      BY <1>7 DEF StreamEnds, IInv, RequestsNamed, TypeOK
    <2>2. bindings' \in [Keys -> Routes \cup {None}]
      BY <1>2, <1>7, <2>1, BindEffect DEF StreamEnds
    <2>3. /\ phase' \in [Routes -> {"closed", "open", "trial"}]
          /\ live' \in [Routes -> SUBSET Clients] /\ cooled' \in SUBSET Routes
      BY <1>7, <2>1, FinishEffect DEF StreamEnds
    <2> QED BY <1>1, <1>7, <2>2, <2>3
            DEF StreamEnds, Rest, accountVars, requestVars, IInv, TypeOK
  <1>8. CASE StreamLimited(c)
    <2>1. auth' \in [Scopes -> BOOLEAN] /\ paused' \in [Scopes -> BOOLEAN]
      BY <1>8 DEF StreamLimited, Pause, IInv, TypeOK
    <2> QED BY <1>1, <1>8, <2>1 DEF StreamLimited, Rest, gateVars, requestVars, IInv, TypeOK
  <1>9. ASSUME NEW st \in States, StreamState(c, st) PROVE TypeOK'
    <2>1. route[c] \in Routes
      BY <1>9 DEF StreamState, IInv, RequestsNamed
    <2>2. bindings' \in [Keys -> Routes \cup {None}]
      BY <1>2, <1>9, <2>1, BindEffect DEF StreamState
    <2>3. answered' \in [Clients -> States \cup {None}]
      BY <1>9 DEF StreamState, IInv, TypeOK
    <2> QED BY <1>1, <1>9, <2>2, <2>3
            DEF StreamState, Rest, accountVars, gateVars, IInv, TypeOK
  <1> QED BY <1>3, <1>4, <1>5, <1>6, <1>7, <1>8, <1>9 DEF Goes

\* The steps of a request that is not admitted, or ends.
Enters(c) ==
  BeginAccount(c) \/ \E a \in Scopes, st \in States \cup {None} : Arrive(c, a, st)

Leaves(c) == EndAccount(c) \/ Release(c)

Clock == (\E a \in Scopes : PauseOver(a)) \/ (\E r \in Routes : BackoffOver(r))

LEMMA StepCases ==
  ASSUME [Next]_vars
  PROVE  \/ \E c \in Clients : Goes(c) \/ Enters(c) \/ Leaves(c)
         \/ Clock
         \/ UNCHANGED vars
  BY DEF Next, Proceed, Goes, Enters, Leaves, Clock

LEMMA TypeStep ==
  ASSUME IInv, [Next]_vars
  PROVE  TypeOK'
  <1>1. ASSUME NEW c \in Clients, Goes(c) PROVE TypeOK'
    BY <1>1, GoesTypes
  <1>2. ASSUME NEW c \in Clients, Enters(c) PROVE TypeOK'
    <2>1. ASSUME NEW a \in Scopes, NEW st \in States \cup {None}, Arrive(c, a, st)
          PROVE  TypeOK'
      BY <2>1 DEF Arrive, Goto, Labels, accountVars, gateVars, IInv, TypeOK
    <2>2. CASE BeginAccount(c)
      <3>1. scope[c] \in Scopes
        BY <2>2 DEF BeginAccount, IInv, RequestsNamed
      <3>2. accounts' \in SUBSET Scopes
        BY <2>2, <3>1 DEF BeginAccount, IInv, TypeOK
      <3>3. busy' \in [Scopes -> Nat] /\ pc' \in [Clients -> Labels]
        BY <2>2, <3>1 DEF BeginAccount, Goto, Labels, Admitted, IInv, TypeOK
      <3> QED BY <2>2, <3>2, <3>3 DEF BeginAccount, gateVars, requestVars, IInv, TypeOK
    <2> QED BY <1>2, <2>1, <2>2 DEF Enters
  <1>3. ASSUME NEW c \in Clients, Leaves(c) PROVE TypeOK'
    <2>1. CASE EndAccount(c)
      <3>1. scope[c] \in Scopes /\ busy[scope[c]] \in Nat /\ busy[scope[c]] >= 1
        BY <2>1, BusyHeld DEF EndAccount, Admitted
      <3>2. busy' \in [Scopes -> Nat]
        BY <2>1, <3>1 DEF EndAccount, IInv, TypeOK
      <3> QED BY <2>1, <3>2 DEF EndAccount, Goto, Labels, gateVars, requestVars, IInv, TypeOK
    <2>2. CASE Release(c)
      <3>1. slots' \in Nat
        BY <2>2, SlotHeld DEF Release
      <3> QED BY <2>2, <3>1 DEF Release, Goto, Labels, accountVars, gateVars, IInv, TypeOK
    <2> QED BY <1>3, <2>1, <2>2 DEF Leaves
  <1>4. CASE Clock
    BY <1>4 DEF Clock, PauseOver, BackoffOver, requestVars, accountVars, gateVars, IInv, TypeOK
  <1>5. CASE UNCHANGED vars
    BY <1>5 DEF vars, requestVars, accountVars, gateVars, IInv, TypeOK
  <1> QED BY <1>1, <1>2, <1>3, <1>4, <1>5, StepCases

-----------------------------------------------------------------------------
(* Slots, guards and names *)

LEMMA NamesStep ==
  ASSUME IInv, [Next]_vars
  PROVE  RequestsNamed'
  <1>1. ASSUME NEW c \in Clients, Goes(c) PROVE RequestsNamed'
    <2>1. scope[c] \in Scopes
      BY <1>1, GoesEffect, BusyHeld
    <2>2. /\ pc'[c] \in {"dispatch", "flight", "stream"} => route'[c] \in Routes
          /\ \A d \in Clients : d # c => route'[d] = route[d]
      BY <1>1 DEF Goes, Choose, Dispatch, NoResponse, Respond, StreamEnds, StreamLimited,
                  StreamState, Goto, requestVars, IInv, TypeOK, RequestsNamed
    <2> QED BY <1>1, <2>1, <2>2, GoesEffect DEF IInv, RequestsNamed
  <1>2. ASSUME NEW c \in Clients, Enters(c) PROVE RequestsNamed'
    BY <1>2 DEF Enters, Arrive, BeginAccount, Goto, Labels, requestVars, IInv, TypeOK,
                RequestsNamed
  <1>3. ASSUME NEW c \in Clients, Leaves(c) PROVE RequestsNamed'
    BY <1>3 DEF Leaves, EndAccount, Release, Goto, Labels, requestVars, IInv, TypeOK,
                RequestsNamed
  <1>4. CASE Clock
    BY <1>4 DEF Clock, PauseOver, BackoffOver, requestVars, IInv, RequestsNamed
  <1>5. CASE UNCHANGED vars
    BY <1>5 DEF vars, requestVars, IInv, RequestsNamed
  <1> QED BY <1>1, <1>2, <1>3, <1>4, <1>5, StepCases

LEMMA SlotsStep ==
  ASSUME IInv, [Next]_vars
  PROVE  SlotsCounted'
  <1> DEFINE S == {d \in Clients : pc[d] # "idle"}
  <1>0. IsFiniteSet(S) /\ slots = Cardinality(S) /\ Cardinality(S) \in Nat
    BY ClientsAssumption, FS_Subset, FS_CardinalityType DEF IInv, SlotsCounted
  <1>1. ASSUME slots' = slots,
               \A d \in Clients : pc'[d] # "idle" <=> pc[d] # "idle"
        PROVE  SlotsCounted'
    BY <1>0, <1>1 DEF SlotsCounted
  <1>2. ASSUME NEW c \in Clients, Goes(c) PROVE SlotsCounted'
    BY <1>1, <1>2, GoesEffect DEF Admitted
  <1>3. ASSUME NEW c \in Clients, NEW a, NEW st, Arrive(c, a, st) PROVE SlotsCounted'
    <2>1. S' = S \cup {c} /\ c \notin S
      BY <1>3 DEF Arrive, Goto, IInv, TypeOK
    <2>2. Cardinality(S') = Cardinality(S) + 1
      BY <1>0, <2>1, FS_AddElement
    <2> QED BY <1>0, <1>3, <2>2 DEF Arrive, SlotsCounted
  <1>4. ASSUME NEW c \in Clients, BeginAccount(c) PROVE SlotsCounted'
    <2>1. pc[c] # "idle" /\ \A d \in Clients : pc'[d] # "idle" <=> pc[d] # "idle"
      BY <1>4 DEF BeginAccount, Goto, IInv, TypeOK
    <2> QED BY <1>1, <1>4, <2>1 DEF BeginAccount
  <1>5. ASSUME NEW c \in Clients, EndAccount(c) PROVE SlotsCounted'
    BY <1>1, <1>5 DEF EndAccount, Goto, IInv, TypeOK
  <1>6. ASSUME NEW c \in Clients, Release(c) PROVE SlotsCounted'
    <2>1. S' = S \ {c} /\ c \in S
      BY <1>6 DEF Release, Goto, IInv, TypeOK
    <2>2. Cardinality(S') = Cardinality(S) - 1
      BY <1>0, <2>1, FS_RemoveElement
    <2> QED BY <1>0, <1>6, <2>2 DEF Release, SlotsCounted
  <1>7. CASE Clock
    BY <1>1, <1>7 DEF Clock, PauseOver, BackoffOver
  <1>8. CASE UNCHANGED vars
    BY <1>1, <1>8 DEF vars
  <1> QED BY <1>2, <1>3, <1>4, <1>5, <1>6, <1>7, <1>8, StepCases DEF Enters, Leaves

\* A guard that refuses its scope is not forgotten, and none is made to refuse
\* without being there.
LEMMA RefusalsStep ==
  ASSUME IInv, [Next]_vars
  PROVE  \A a \in Scopes : /\ auth'[a] => a \in accounts'
                           /\ auth[a] => auth'[a]
  <1>1. ASSUME UNCHANGED <<auth, accounts>>
        PROVE  \A a \in Scopes : (auth'[a] => a \in accounts') /\ (auth[a] => auth'[a])
    BY <1>1 DEF IInv, RefusalsKept
  <1>2. ASSUME NEW b, NEW kind, Pause(b, kind), UNCHANGED accounts
        PROVE  \A a \in Scopes : (auth'[a] => a \in accounts') /\ (auth[a] => auth'[a])
    BY <1>2 DEF Pause, IInv, TypeOK, RefusalsKept
  <1>3. ASSUME NEW c \in Clients, Goes(c)
        PROVE  \A a \in Scopes : (auth'[a] => a \in accounts') /\ (auth[a] => auth'[a])
    <2>1. CASE Respond(c)
      <3>1. \E kind \in {"ok", "auth", "pause"} : Pause(scope[c], kind)
        BY <2>1 DEF Respond
      <3> QED BY <1>2, <1>3, <3>1, GoesEffect
    <2>2. CASE StreamLimited(c)
      <3>1. Pause(scope[c], "pause")
        BY <2>2 DEF StreamLimited
      <3> QED BY <1>2, <1>3, <3>1, GoesEffect
    <2>3. CASE \/ Choose(c) \/ Dispatch(c) \/ NoResponse(c) \/ StreamEnds(c)
               \/ \E st \in States : StreamState(c, st)
      BY <1>1, <2>3 DEF Choose, Dispatch, NoResponse, StreamEnds, StreamState, accountVars
    <2> QED BY <1>3, <2>1, <2>2, <2>3 DEF Goes
  <1>4. ASSUME NEW c \in Clients, BeginAccount(c)
        PROVE  \A a \in Scopes : (auth'[a] => a \in accounts') /\ (auth[a] => auth'[a])
    <2>1. PICK gone \in SUBSET Forgettable : accounts \ gone \subseteq accounts'
      BY <1>4 DEF BeginAccount
    <2> QED BY <1>4, <2>1 DEF BeginAccount, Forgettable, IInv, RefusalsKept
  <1>5. ASSUME NEW c \in Clients, Leaves(c) \/ \E a, st : Arrive(c, a, st)
        PROVE  UNCHANGED <<auth, accounts>>
    BY <1>5 DEF Leaves, EndAccount, Release, Arrive, accountVars
  <1>6. ASSUME Clock \/ UNCHANGED vars
        PROVE  UNCHANGED <<auth, accounts>>
    BY <1>6 DEF Clock, PauseOver, BackoffOver, vars, accountVars
  <1> QED BY <1>1, <1>2, <1>3, <1>4, <1>5, <1>6, StepCases DEF Enters

\* Only what is not in use is forgotten, and only a request's own steps count it.
LEMMA BusyStep ==
  ASSUME IInv, [Next]_vars
  PROVE  BusyCounts'
  <1> DEFINE Counted(a) == /\ busy'[a] = Cardinality(Using(a)')
                           /\ Using(a)' # {} => a \in accounts'
  <1>0. ASSUME NEW a \in Scopes
        PROVE  /\ IsFiniteSet(Using(a)) /\ Cardinality(Using(a)) \in Nat
               /\ busy[a] = Cardinality(Using(a)) /\ (Using(a) # {} => a \in accounts)
               /\ busy[a] = 0 <=> Using(a) = {}
    <2>1. IsFiniteSet(Using(a)) /\ Cardinality(Using(a)) \in Nat
      BY ClientsAssumption, FS_Subset, FS_CardinalityType DEF Using
    <2>2. Cardinality(Using(a)) = 0 <=> Using(a) = {}
      BY <2>1, FS_EmptySet
    <2>3. busy[a] = Cardinality(Using(a)) /\ (Using(a) # {} => a \in accounts)
      BY DEF IInv, BusyCounts, Using
    <2> QED BY <2>1, <2>2, <2>3
  <1> SUFFICES ASSUME NEW a \in Scopes PROVE Counted(a)
    BY DEF BusyCounts, Using
  <1>1. ASSUME UNCHANGED <<busy, accounts>>, Using(a)' = Using(a)
        PROVE  Counted(a)
    BY <1>0, <1>1
  <1>2. ASSUME NEW c \in Clients, Goes(c) PROVE Counted(a)
    <2>1. Using(a)' = Using(a)
      BY <1>2, GoesEffect DEF Using
    <2> QED BY <1>1, <1>2, <2>1, GoesEffect
  <1>3. ASSUME NEW c \in Clients, NEW b, NEW st, Arrive(c, b, st) PROVE Counted(a)
    <2>1. \A d \in Clients : pc[d] \in Admitted \/ pc'[d] \in Admitted =>
                               pc'[d] = pc[d] /\ scope'[d] = scope[d]
      BY <1>3 DEF Arrive, Goto, Admitted, IInv, TypeOK
    <2>2. Using(a)' = Using(a)
      BY <2>1 DEF Using
    <2> QED BY <1>1, <1>3, <2>2 DEF Arrive, accountVars
  <1>4. ASSUME NEW c \in Clients, BeginAccount(c) PROVE Counted(a)
    <2>1. PICK gone \in SUBSET Forgettable :
            \/ accounts' = accounts \ gone /\ Goto(c, "release") /\ UNCHANGED busy
            \/ /\ accounts' = (accounts \ gone) \cup {scope[c]}
               /\ \/ Goto(c, "release") /\ UNCHANGED busy
                  \/ /\ busy' = [busy EXCEPT ![scope[c]] = @ + 1]
                     /\ Goto(c, "choose")
      BY <1>4 DEF BeginAccount
    <2>2. pc[c] = "account" /\ UNCHANGED scope /\ scope[c] \in Scopes
      BY <1>4 DEF BeginAccount, requestVars, IInv, RequestsNamed
    <2>3. Using(a) # {} => a \in accounts'
      BY <1>0, <2>1 DEF Forgettable
    <2>4. CASE Goto(c, "release") /\ UNCHANGED busy
      <3>1. Using(a)' = Using(a)
        BY <2>2, <2>4 DEF Using, Goto, Admitted, IInv, TypeOK
      <3> QED BY <1>0, <2>3, <2>4, <3>1
    <2>5. CASE /\ accounts' = (accounts \ gone) \cup {scope[c]}
               /\ busy' = [busy EXCEPT ![scope[c]] = @ + 1]
               /\ Goto(c, "choose")
      <3>1. CASE a = scope[c]
        <4>1. Using(a)' = Using(a) \cup {c} /\ c \notin Using(a)
          BY <2>2, <2>5, <3>1 DEF Using, Goto, Admitted, IInv, TypeOK
        <4>2. Cardinality(Using(a)') = Cardinality(Using(a)) + 1
          BY <1>0, <4>1, FS_AddElement
        <4>3. busy'[a] = busy[a] + 1
          BY <2>5, <3>1 DEF IInv, TypeOK
        <4> QED BY <1>0, <2>5, <3>1, <4>2, <4>3
      <3>2. CASE a # scope[c]
        <4>1. Using(a)' = Using(a)
          BY <2>2, <2>5, <3>2 DEF Using, Goto, Admitted, IInv, TypeOK
        <4>2. busy'[a] = busy[a]
          BY <2>5, <3>2 DEF IInv, TypeOK
        <4> QED BY <1>0, <2>3, <4>1, <4>2
      <3> QED BY <3>1, <3>2
    <2> QED BY <2>1, <2>4, <2>5
  <1>5. ASSUME NEW c \in Clients, EndAccount(c) PROVE Counted(a)
    <2>1. /\ pc[c] = "done" /\ pc[c] \in Admitted /\ UNCHANGED <<scope, accounts>>
          /\ pc' = [pc EXCEPT ![c] = "release"]
      BY <1>5 DEF EndAccount, Goto, requestVars, Admitted
    <2>2. c \in Using(scope[c]) /\ scope[c] \in accounts /\ scope[c] \in Scopes
      BY <2>1, BusyHeld
    <2>3. busy' = [busy EXCEPT ![scope[c]] = @ - 1]
      BY <1>5, <2>2 DEF EndAccount
    <2>4. CASE a = scope[c]
      <3>1. Using(a)' = Using(a) \ {c}
        BY <2>1, <2>2, <2>4 DEF Using, Admitted, IInv, TypeOK
      <3>2. Cardinality(Using(a)') = Cardinality(Using(a)) - 1
        BY <1>0, <2>2, <2>4, <3>1, FS_RemoveElement
      <3>3. busy'[a] = busy[a] - 1
        BY <2>3, <2>4 DEF IInv, TypeOK
      <3> QED BY <1>0, <2>1, <2>2, <2>4, <3>2, <3>3
    <2>5. CASE a # scope[c]
      <3>1. Using(a)' = Using(a)
        BY <2>1, <2>5 DEF Using, Admitted, IInv, TypeOK
      <3>2. busy'[a] = busy[a]
        BY <2>3, <2>5 DEF IInv, TypeOK
      <3> QED BY <1>0, <2>1, <3>1, <3>2
    <2> QED BY <2>4, <2>5
  <1>6. ASSUME NEW c \in Clients, Release(c) PROVE Counted(a)
    <2>1. \A d \in Clients : pc[d] \in Admitted \/ pc'[d] \in Admitted =>
                               pc'[d] = pc[d] /\ scope'[d] = scope[d]
      BY <1>6 DEF Release, Goto, Admitted, IInv, TypeOK
    <2>2. Using(a)' = Using(a)
      BY <2>1 DEF Using
    <2> QED BY <1>1, <1>6, <2>2 DEF Release, accountVars
  <1>7. ASSUME Clock \/ UNCHANGED vars PROVE Counted(a)
    BY <1>1, <1>7 DEF Clock, PauseOver, BackoffOver, vars, accountVars, requestVars, Using
  <1> QED BY <1>2, <1>3, <1>4, <1>5, <1>6, <1>7, StepCases DEF Enters, Leaves

-----------------------------------------------------------------------------
(* Bindings and permits *)

\* A binding is kept, or forgotten where nobody uses its scope, or made.
LEMMA BindingsStep ==
  ASSUME IInv, [Next]_vars
  PROVE  \A k \in Keys :
           \/ bindings'[k] = bindings[k]
           \/ bindings'[k] = None /\ busy[k[1]] = 0 /\ Using(k[1]) = {}
           \/ bindings[k] = None
  <1> DEFINE Kept == \A k \in Keys :
               \/ bindings'[k] = bindings[k]
               \/ bindings'[k] = None /\ busy[k[1]] = 0 /\ Using(k[1]) = {}
               \/ bindings[k] = None
  <1>1. ASSUME NEW c \in Clients, Choose(c) PROVE Kept
    <2>1. pc[c] \in Admitted /\ state[c] \in States \cup {None}
      BY <1>1 DEF Choose, Admitted, IInv, TypeOK
    <2>2. scope[c] \in Scopes /\ Using(scope[c]) # {}
      BY <2>1, BusyHeld
    <2> DEFINE key == <<scope[c], state[c]>>
    <2>3. PICK gone \in SUBSET Prunable :
            \/ bindings' = Pruned(gone)
            \/ \E r \in Routes :
                 /\ state[c] # None /\ Pruned(gone)[key] # None => r = Pruned(gone)[key]
                 /\ bindings' = (IF state[c] = None THEN Pruned(gone)
                                 ELSE [Pruned(gone) EXCEPT ![key] = r])
      BY <1>1 DEF Choose
    <2>4. /\ Pruned(gone) \in [Keys -> Routes \cup {None}]
          /\ \A k \in Keys : \/ Pruned(gone)[k] = bindings[k]
                             \/ /\ Pruned(gone)[k] = None
                                /\ busy[k[1]] = 0 /\ Using(k[1]) = {}
      BY PrunedEffect
    <2>5. CASE bindings' = Pruned(gone)
      BY <2>4, <2>5
    <2>6. ASSUME NEW r \in Routes, state[c] # None,
                 Pruned(gone)[key] # None => r = Pruned(gone)[key],
                 bindings' = [Pruned(gone) EXCEPT ![key] = r]
          PROVE  Kept
      <3>1. key \in Keys /\ key[1] = scope[c]
        BY <2>1, <2>2, <2>6 DEF Keys
      <3>2. Pruned(gone)[key] = bindings[key]
        BY <2>2, <2>4, <3>1
      <3>3. bindings'[key] = r /\ (bindings[key] = None \/ bindings'[key] = bindings[key])
        BY <2>4, <2>6, <3>1, <3>2
      <3>4. \A k \in Keys : k # key => bindings'[k] = Pruned(gone)[k]
        BY <2>4, <2>6
      <3> QED BY <2>4, <3>3, <3>4
    <2> QED BY <2>3, <2>5, <2>6
  <1>2. ASSUME NEW c \in Clients, NEW st \in States \cup {None}, Bind(scope[c], st, route[c]),
               pc[c] \in {"flight", "stream"}
        PROVE  Kept
    <2>1. scope[c] \in Scopes /\ route[c] \in Routes
      BY <1>2 DEF IInv, RequestsNamed
    <2> QED BY <1>2, <2>1, BindEffect
  <1> HIDE DEF Kept
  <1>3. ASSUME NEW c \in Clients,
               Respond(c) \/ StreamEnds(c) \/ \E st \in States : StreamState(c, st)
        PROVE  Kept
    <2>1. answered[c] \in States \cup {None}
      BY DEF IInv, TypeOK
    <2> QED BY <1>2, <1>3, <2>1 DEF Respond, StreamEnds, StreamState
  <1>4. ASSUME UNCHANGED bindings PROVE Kept
    BY <1>4 DEF Kept
  <1>5. ASSUME NEW c \in Clients,
               \/ Dispatch(c) \/ NoResponse(c) \/ StreamLimited(c) \/ Enters(c) \/ Leaves(c)
        PROVE  UNCHANGED bindings
    BY <1>5 DEF Dispatch, NoResponse, StreamLimited, Enters, Arrive, BeginAccount, Leaves,
                EndAccount, Release
  <1>6. ASSUME Clock \/ UNCHANGED vars PROVE UNCHANGED bindings
    BY <1>6 DEF Clock, PauseOver, BackoffOver, vars
  <1>7. Kept
    BY <1>1, <1>3, <1>4, <1>5, <1>6, StepCases DEF Goes
  <1> QED BY <1>7 DEF Kept

\* The state of a request under way stays bound to its route: its scope is in use, so
\* the binding is not forgotten, and a binding there is is not replaced.
LEMMA TurnsStep ==
  ASSUME IInv, [Next]_vars
  PROVE  TurnsStay'
  <1> DEFINE Sent == {"dispatch", "flight", "stream"}
             Stays(d) == pc'[d] \in Sent /\ state'[d] # None =>
                           bindings'[<<scope'[d], state'[d]>>] = route'[d]
  <1>1. ASSUME NEW d \in Clients, pc[d] \in Sent,
               UNCHANGED <<scope[d], state[d], route[d]>>
        PROVE  Stays(d)
    <2> SUFFICES ASSUME state[d] # None
                 PROVE  bindings'[<<scope[d], state[d]>>] = route[d]
      BY <1>1
    <2> DEFINE k == <<scope[d], state[d]>>
    <2>1. /\ k \in Keys /\ k[1] = scope[d] /\ Using(k[1]) # {}
          /\ route[d] \in Routes /\ bindings[k] = route[d]
      BY <1>1, BusyHeld DEF Admitted, Keys, IInv, TypeOK, RequestsNamed, TurnsStay
    <2>2. bindings[k] # None
      BY <2>1, NoneAssumption
    <2> HIDE DEF k
    <2>3. bindings'[k] = bindings[k]
      BY <2>1, <2>2, BindingsStep
    <2> QED BY <2>1, <2>3 DEF k
  <1>2. ASSUME NEW c \in Clients, Goes(c), NEW d \in Clients PROVE Stays(d)
    <2>1. CASE Choose(c) /\ c = d
      <3>1. PICK gone \in SUBSET Prunable :
              \/ Goto(c, "done")
              \/ \E r \in Routes :
                   /\ route' = [route EXCEPT ![c] = r]
                   /\ bindings' = (IF state[c] = None THEN Pruned(gone)
                                   ELSE [Pruned(gone) EXCEPT ![<<scope[c], state[c]>>] = r])
        BY <2>1 DEF Choose
      <3>2. UNCHANGED <<scope, state>> /\ pc[c] \in Admitted
        BY <2>1 DEF Choose, Admitted
      <3>3. CASE Goto(c, "done")
        BY <2>1, <3>3 DEF Goto, IInv, TypeOK
      <3>4. ASSUME NEW r \in Routes, route' = [route EXCEPT ![c] = r], state[c] # None,
                   bindings' = [Pruned(gone) EXCEPT ![<<scope[c], state[c]>>] = r]
            PROVE  Stays(d)
        <4>1. <<scope[c], state[c]>> \in Keys
          BY <3>2, <3>4, BusyHeld DEF Keys, IInv, TypeOK
        <4>2. bindings'[<<scope[c], state[c]>>] = r /\ route'[c] = r
          BY <3>4, <4>1, PrunedEffect DEF IInv, TypeOK
        <4> QED BY <2>1, <3>2, <4>2
      <3> QED BY <2>1, <3>1, <3>2, <3>3, <3>4
    <2>2. CASE ~(Choose(c) /\ c = d)
      <3>1. UNCHANGED <<scope[d], state[d], route[d]>>
        BY <1>2, <2>2, GoesEffect
        DEF Goes, Choose, Dispatch, NoResponse, Respond, StreamEnds, StreamLimited,
            StreamState, requestVars, IInv, TypeOK
      <3>2. pc'[d] \in Sent => pc[d] \in Sent
        BY <1>2, <2>2, GoesEffect
        DEF Goes, Choose, Dispatch, NoResponse, Respond, StreamEnds, StreamLimited,
            StreamState, requestVars, Goto, IInv, TypeOK
      <3> QED BY <1>1, <3>1, <3>2
    <2> QED BY <2>1, <2>2
  <1>3. ASSUME NEW c \in Clients, Enters(c) \/ Leaves(c), NEW d \in Clients PROVE Stays(d)
    <2>1. PICK label \in {"account", "release", "choose", "idle"} : Goto(c, label)
      BY <1>3 DEF Enters, Arrive, BeginAccount, Leaves, EndAccount, Release
    <2>2. pc'[c] \notin Sent /\ (d # c => pc'[d] = pc[d])
      BY <2>1 DEF Goto, IInv, TypeOK
    <2>3. d # c => UNCHANGED <<scope[d], state[d], route[d]>>
      BY <1>3 DEF Enters, Arrive, BeginAccount, Leaves, EndAccount, Release, requestVars,
                  IInv, TypeOK
    <2> QED BY <1>1, <2>2, <2>3
  <1>4. ASSUME Clock \/ UNCHANGED vars, NEW d \in Clients PROVE Stays(d)
    <2>1. UNCHANGED <<pc, scope, state, route>>
      BY <1>4 DEF Clock, PauseOver, BackoffOver, vars, requestVars
    <2> QED BY <1>1, <2>1
  <1>5. \A d \in Clients : Stays(d)
    BY <1>2, <1>3, <1>4, StepCases
  <1> QED BY <1>5 DEF TurnsStay

\* A permit is in the hands of a request that is under way on that route, and the last
\* thing such a request does is to give it back.
LEMMA PermitsStep ==
  ASSUME IInv, [Next]_vars
  PROVE  PermitsReturned'
  <1> DEFINE Held(r) ==
               /\ \A d \in live'[r] : pc'[d] \in {"flight", "stream"} /\ route'[d] = r
               /\ phase'[r] = "trial" => live'[r] # {}
  <1>0. ASSUME NEW r \in Routes
        PROVE  /\ live[r] \subseteq Clients
               /\ \A d \in live[r] : pc[d] \in {"flight", "stream"} /\ route[d] = r
               /\ phase[r] = "trial" => live[r] # {}
    BY DEF IInv, TypeOK, PermitsReturned
  <1> SUFFICES ASSUME NEW r \in Routes PROVE Held(r)
    BY DEF PermitsReturned
  <1>1. ASSUME UNCHANGED <<live, phase>>,
               \A d \in live[r] : pc'[d] \in {"flight", "stream"} /\ route'[d] = route[d]
        PROVE  Held(r)
    BY <1>0, <1>1
  <1>2. ASSUME NEW c \in Clients, Dispatch(c) PROVE Held(r)
    <2>1. /\ pc[c] = "dispatch" /\ route[c] \in Routes /\ UNCHANGED route
          /\ c \notin live[r]
      BY <1>0, <1>2 DEF Dispatch, requestVars, IInv, RequestsNamed
    <2>2. CASE Begin(route[c], c) /\ Goto(c, "flight")
      <3>1. pc' = [pc EXCEPT ![c] = "flight"]
        BY <2>2 DEF Goto
      <3> QED BY <1>0, <2>1, <2>2, <3>1, BeginEffect DEF IInv, TypeOK
    <2>3. CASE Goto(c, "done") /\ UNCHANGED gateVars
      BY <1>0, <1>1, <2>1, <2>3 DEF Goto, gateVars, IInv, TypeOK
    <2> QED BY <1>2, <2>2, <2>3 DEF Dispatch
  <1>3. ASSUME NEW c \in Clients, NEW o, Finish(c, o), Goto(c, "done"), UNCHANGED route,
               pc[c] \in {"flight", "stream"}
        PROVE  Held(r)
    <2>1. route[c] \in Routes /\ pc' = [pc EXCEPT ![c] = "done"]
      BY <1>3 DEF Goto, IInv, RequestsNamed
    <2>2. CASE r = route[c]
      <3>1. /\ live'[r] \subseteq live[r] \ {c}
            /\ phase'[r] = "trial" => phase[r] = "trial" /\ live'[r] = live[r]
        BY <1>3, <2>1, <2>2, FinishEffect
      <3> QED BY <1>0, <1>3, <2>1, <3>1 DEF IInv, TypeOK
    <2>3. CASE r # route[c]
      <3>1. live'[r] = live[r] /\ phase'[r] = phase[r] /\ c \notin live[r]
        BY <1>0, <1>3, <2>1, <2>3, FinishEffect
      <3> QED BY <1>0, <1>3, <2>1, <3>1 DEF IInv, TypeOK
    <2> QED BY <2>2, <2>3
  <1>4. ASSUME NEW c \in Clients, NoResponse(c) \/ StreamEnds(c) PROVE Held(r)
    <2>1. pc[c] \in {"flight", "stream"} /\ Goto(c, "done") /\ UNCHANGED route
      BY <1>4 DEF NoResponse, StreamEnds, requestVars
    <2>2. \E o : Finish(c, o)
      BY <1>4 DEF NoResponse, StreamEnds
    <2> QED BY <1>3, <2>1, <2>2
  <1>5. ASSUME NEW c \in Clients, Choose(c) \/ Enters(c) \/ Leaves(c) PROVE Held(r)
    <2>1. /\ pc[c] \notin {"flight", "stream"} /\ UNCHANGED <<live, phase>>
          /\ \A d \in Clients : d # c => pc'[d] = pc[d] /\ route'[d] = route[d]
      BY <1>5 DEF Choose, Enters, Arrive, BeginAccount, Leaves, EndAccount, Release, Goto,
                  gateVars, requestVars, IInv, TypeOK
    <2> QED BY <1>0, <1>1, <2>1
  <1>6. ASSUME NEW c \in Clients,
               Respond(c) \/ StreamLimited(c) \/ \E st \in States : StreamState(c, st)
        PROVE  Held(r)
    <2>1. /\ UNCHANGED <<live, phase, route>> /\ pc'[c] = "stream"
          /\ \A d \in Clients : d # c => pc'[d] = pc[d]
      BY <1>6 DEF Respond, StreamLimited, StreamState, Goto, gateVars, requestVars, IInv, TypeOK
    <2> QED BY <1>0, <1>1, <2>1
  <1>7. ASSUME NEW q \in Routes, BackoffOver(q) PROVE Held(r)
    BY <1>0, <1>1, <1>7 DEF BackoffOver, requestVars
  <1>8. ASSUME (\E a \in Scopes : PauseOver(a)) \/ UNCHANGED vars PROVE Held(r)
    BY <1>0, <1>1, <1>8 DEF PauseOver, vars, gateVars, requestVars
  <1> QED BY <1>2, <1>4, <1>5, <1>6, <1>7, <1>8, StepCases DEF Goes, Clock

-----------------------------------------------------------------------------
(* The results *)

LEMMA IInvStep ==
  ASSUME IInv, [Next]_vars
  PROVE  IInv'
  BY TypeStep, NamesStep, SlotsStep, RefusalsStep, BusyStep, TurnsStep, PermitsStep
  DEF IInv, RefusalsKept

THEOREM IInvAlways == Spec => []IInv
  BY InitIInv, IInvStep, PTL DEF Spec

\* Every variable of Engine keeps its type; above all, no count becomes negative.
THEOREM TypeCorrect == Spec => []TypeOK
  BY IInvAlways, PTL DEF IInv

\* beginAccount and endAccount keep the count of each scope exact, and a guard in use
\* is never forgotten.
THEOREM BusyAlwaysCounts == Spec => []BusyCounts
  BY IInvAlways, PTL DEF IInv

\* Whatever choose, bind and pruneBindings do while a request is under way, its state
\* stays bound to the route it was sent on.
THEOREM TurnsAlwaysStay == Spec => []TurnsStay
  BY IInvAlways, PTL DEF IInv

\* However a request ends, its permit of the breaker is not left behind, and a trial is
\* always in somebody's hands.
THEOREM PermitsAlwaysReturned == Spec => []PermitsReturned
  BY IInvAlways, PTL DEF IInv

\* choose, bind and pruneBindings move no state to another route, and forget only those
\* of scopes without a request.
THEOREM BindingsAlwaysKept == Spec => BindingsKept
  <1>1. ASSUME IInv, [Next]_vars
        PROVE  [\A k \in Keys : bindings[k] # None /\ bindings'[k] # bindings[k]
                  => bindings'[k] = None /\ busy[k[1]] = 0]_vars
    BY <1>1, BindingsStep
  <1> QED BY <1>1, IInvAlways, PTL DEF Spec, BindingsKept

\* A scope that was refused for good stays refused, and its guard is never forgotten.
THEOREM AuthAlwaysFinal == Spec => AuthIsFinal
  <1>1. ASSUME IInv, [Next]_vars
        PROVE  [\A a \in Scopes : auth[a] => auth'[a] /\ a \in accounts']_vars
    BY <1>1, RefusalsStep
  <1> QED BY <1>1, IInvAlways, PTL DEF Spec, AuthIsFinal
=============================================================================
