--------------------------- MODULE TurnStateProofs ---------------------------
(***************************************************************************)
(* The store of TurnState, for any number of requests, any states and any  *)
(* policy: types, what a version names, where strikes come from, and the   *)
(* hold strategy.                                                          *)
(***************************************************************************)
EXTENDS TurnState, FiniteSetTheorems, TLAPS

\* Versions grow and are given to active states only.
VersionsGrow ==
  /\ active.version <= version
  /\ active.token # None => active.version >= 1

-----------------------------------------------------------------------------
(* Lemmas about the operators *)

\* An acceptable state is a state.
LEMMA AcceptedIsToken ==
  ASSUME NEW t, Accept(t) PROVE t # None
BY DEF Accept

LEMMA EmptyType == Empty \in Snapshot
BY DEF Empty, Snapshot

\* Promotion either leaves everything to its arguments or makes the spare active
\* under a version of its own, without strikes.
LEMMA PromoteEffect ==
  ASSUME TypeOK, NEW a \in Snapshot, NEW r \in Token \cup {None}, NEW n \in Nat,
         Promote(a, r, n)
  PROVE  /\ active' \in Snapshot /\ ready' \in Token \cup {None}
         /\ version' \in Nat /\ strikes' \in Nat
         /\ \/ /\ active' = a /\ version' = version /\ strikes' = n
               /\ ~Takes(r, a, n)
            \/ /\ active'.version = version + 1 /\ version' = version + 1
               /\ active'.token # None /\ strikes' = 0
               /\ active'.token # a.token
               /\ Takes(r, a, n)
<1>1. CASE Takes(r, a, n)
  <2>1. r # None /\ r # a.token
    BY <1>1, AcceptedIsToken DEF Takes
  <2>2. active' = [token |-> r, version |-> version + 1] /\ version' = version + 1
        /\ ready' = None /\ strikes' = 0
    BY <1>1 DEF Promote
  <2> QED BY <1>1, <2>1, <2>2 DEF Snapshot, TypeOK
<1>2. CASE ~Takes(r, a, n)
  <2>1. active' = a /\ ready' = r /\ strikes' = n /\ version' = version
    BY <1>2 DEF Promote
  <2> QED BY <1>2, <2>1 DEF TypeOK
<1> QED BY <1>1, <1>2

\* The same for Offer, which promotes on its own when there is nothing usable.
LEMMA OfferEffect ==
  ASSUME TypeOK, NEW t \in Token, Offer(t)
  PROVE  /\ active' \in Snapshot /\ ready' \in Token \cup {None}
         /\ version' \in Nat /\ strikes' \in Nat
         /\ \/ active' = active /\ version' = version /\ strikes' = strikes
            \/ /\ active'.version = version + 1 /\ version' = version + 1
               /\ active'.token # None /\ strikes' = 0
               /\ Accept(active.token) /\ hold => strikes >= 2
         /\ UNCHANGED <<now, hold, pc, used>>
<1>1. t # None
  BY AcceptedIsToken DEF Offer
<1>2. CASE ~Accept(active.token)
  <2>1. active' = [token |-> t, version |-> version + 1] /\ version' = version + 1
        /\ strikes' = 0 /\ ready' = ready /\ UNCHANGED <<now, hold, pc, used>>
    BY <1>2 DEF Offer, requestVars
  <2> QED BY <1>1, <1>2, <2>1 DEF Snapshot, TypeOK
<1>3. CASE Accept(active.token)
  <2>1. Promote(active, Spare(t), strikes) /\ UNCHANGED <<now, hold, pc, used>>
    BY <1>3 DEF Offer, requestVars
  <2>2. Spare(t) \in Token \cup {None} /\ active \in Snapshot /\ strikes \in Nat
    BY DEF Spare, TypeOK
  <2>3. Takes(Spare(t), active, strikes) /\ hold => strikes >= 2
    BY <1>3 DEF Takes
  <2> QED BY <2>1, <2>2, <2>3, PromoteEffect
<1> QED BY <1>2, <1>3

\* A request that ends forgets its snapshot; the others keep theirs.
LEMMA DoneEffect ==
  ASSUME TypeOK, NEW c \in Clients, Done(c)
  PROVE  /\ pc' \in [Clients -> {"idle", "sent", "rejecting"}]
         /\ used' \in [Clients -> Snapshot]
         /\ pc'[c] = "idle"
         /\ \A d \in Clients \ {c} : pc'[d] = pc[d] /\ used'[d] = used[d]
BY EmptyType DEF Done, TypeOK

\* A request is sent with the active state, after promotion.
LEMMA AcquireEffect ==
  ASSUME TypeOK, NEW c \in Clients, Acquire(c)
  PROVE  /\ Promote(active, ready, strikes)
         /\ active'.token # None
         /\ pc[c] = "idle" /\ pc'[c] = "sent" /\ used'[c] = active'
         /\ \A d \in Clients \ {c} : pc'[d] = pc[d] /\ used'[d] = used[d]
         /\ UNCHANGED <<now, hold>>
BY DEF Acquire, TypeOK, Accept

-----------------------------------------------------------------------------
(* Types *)

\* Every field of the store and of the requests keeps its type.
LEMMA TypeStep ==
  ASSUME TypeOK, [Next]_vars PROVE TypeOK'
<1>1. active \in Snapshot /\ ready \in Token \cup {None} /\ strikes \in Nat /\ version \in Nat
  BY DEF TypeOK
<1>2. ASSUME NEW c \in Clients, Acquire(c) PROVE TypeOK'
  <2>1. active' \in Snapshot /\ ready' \in Token \cup {None}
        /\ version' \in Nat /\ strikes' \in Nat
    BY <1>1, <1>2, PromoteEffect DEF Acquire
  <2> QED BY <1>2, <2>1 DEF Acquire, TypeOK
<1>3. ASSUME NEW c \in Clients, NoObservation(c) PROVE TypeOK'
  BY <1>3, DoneEffect DEF NoObservation, TypeOK, storeVars
<1>4. ASSUME NEW c \in Clients, ObserveExpected(c) PROVE TypeOK'
  BY <1>4, DoneEffect DEF ObserveExpected, TypeOK
<1>5. ASSUME NEW c \in Clients, ObserveSuspect(c) PROVE TypeOK'
  BY <1>5 DEF ObserveSuspect, TypeOK
<1>6. ASSUME NEW c \in Clients, Reject(c) PROVE TypeOK'
  <2>1. Done(c) /\ UNCHANGED <<now, hold>>
        /\ (UNCHANGED storeVars \/ Promote(Empty, ready, 0))
    BY <1>6 DEF Reject
  <2>2. active' \in Snapshot /\ ready' \in Token \cup {None}
        /\ version' \in Nat /\ strikes' \in Nat
    BY <1>1, <2>1, EmptyType, PromoteEffect DEF storeVars
  <2> QED BY <2>1, <2>2, DoneEffect DEF TypeOK
<1>7. ASSUME NEW t \in Token, Offer(t) PROVE TypeOK'
  BY <1>7, OfferEffect DEF TypeOK
<1>8. ASSUME NEW h \in BOOLEAN, HoldActive(h) PROVE TypeOK'
  BY <1>8 DEF HoldActive, TypeOK, storeVars, requestVars
<1>9. CASE Poll
  BY <1>1, <1>9, PromoteEffect DEF Poll, TypeOK, requestVars
<1>10. CASE Tick
  BY <1>10 DEF Tick, TypeOK, storeVars, requestVars
<1>11. CASE UNCHANGED vars
  BY <1>11 DEF vars, TypeOK, storeVars, requestVars
<1>12. ASSUME NEW v \in Values, NEW n \in 0 .. MaxTime
       PROVE  [value |-> v, issued |-> n] \in Token
  BY PolicyAssumption DEF Token
<1> QED
  BY <1>2, <1>3, <1>4, <1>5, <1>6, <1>7, <1>8, <1>9, <1>10, <1>11, <1>12 DEF Next

\* Every field of the store and of the requests keeps its type: the invariant
\* TypeOK of the store, for any number of requests.
THEOREM TypeCorrect == Spec => []TypeOK
<1>1. Init => TypeOK
  BY EmptyType DEF Init, TypeOK
<1> QED BY <1>1, TypeStep, PTL DEF Spec

-----------------------------------------------------------------------------
(* Versions *)

\* A step in which the store keeps its active state, or makes one of a new version
\* active, or has none, and in which no request takes an unknown snapshot.
LEMMA VersionsKept ==
  ASSUME TypeOK, TypeOK', VersionsName, VersionsGrow,
         \/ active' = active /\ version' = version
         \/ active' = Empty /\ version' = version
         \/ /\ active'.version = version + 1 /\ version' = version + 1
            /\ active'.token # None,
         \A c \in Clients : pc'[c] # "idle" =>
            \/ pc[c] # "idle" /\ used'[c] = used[c]
            \/ used'[c] = active' /\ active'.token # None
  PROVE  VersionsName' /\ VersionsGrow'
<1>1. VersionsGrow'
  BY DEF VersionsGrow, TypeOK, Snapshot, Empty
<1>2. ASSUME NEW c \in Clients, pc'[c] # "idle"
      PROVE  /\ used'[c].version \in 1 .. version'
             /\ used'[c].version = active'.version => used'[c] = active'
  <2>1. active'.version \in Nat /\ version \in Nat /\ version' \in Nat
    BY DEF TypeOK, Snapshot
  <2>2. CASE used'[c] = active' /\ active'.token # None
    BY <1>1, <2>1, <2>2 DEF VersionsGrow
  <2>3. CASE pc[c] # "idle" /\ used'[c] = used[c]
    <3>1. used[c].version \in 1 .. version /\ (used[c].version = active.version => used[c] = active)
      BY <2>3 DEF VersionsName
    <3>2. Empty.version = 0
      BY DEF Empty
    <3> QED BY <2>1, <2>3, <3>1, <3>2
  <2> QED BY <1>2, <2>2, <2>3
<1>3. ASSUME NEW c \in Clients, NEW d \in Clients, pc'[c] # "idle", pc'[d] # "idle",
             used'[c].version = used'[d].version
      PROVE  used'[c] = used'[d]
  <2>1. CASE used'[c] = active' \/ used'[d] = active'
    BY <1>2, <1>3, <2>1
  <2>2. CASE used'[c] = used[c] /\ used'[d] = used[d] /\ pc[c] # "idle" /\ pc[d] # "idle"
    BY <1>3, <2>2 DEF VersionsName
  <2> QED BY <1>3, <2>1, <2>2
<1> QED BY <1>1, <1>2, <1>3 DEF VersionsName

LEMMA VersionsStep ==
  ASSUME TypeOK, TypeOK', VersionsName, VersionsGrow, [Next]_vars
  PROVE  VersionsName' /\ VersionsGrow'
<1>1. active \in Snapshot /\ ready \in Token \cup {None} /\ strikes \in Nat
  BY DEF TypeOK
<1>2. ASSUME NEW c \in Clients, Acquire(c) PROVE VersionsName' /\ VersionsGrow'
  BY <1>1, <1>2, AcquireEffect, PromoteEffect, VersionsKept
<1>3. ASSUME NEW c \in Clients, NoObservation(c) PROVE VersionsName' /\ VersionsGrow'
  BY <1>3, DoneEffect, VersionsKept DEF NoObservation, storeVars
<1>4. ASSUME NEW c \in Clients, ObserveExpected(c) PROVE VersionsName' /\ VersionsGrow'
  BY <1>4, DoneEffect, VersionsKept DEF ObserveExpected
<1>5. ASSUME NEW c \in Clients, ObserveSuspect(c) PROVE VersionsName' /\ VersionsGrow'
  <2>1. \A d \in Clients : pc'[d] # "idle" => pc[d] # "idle"
    BY <1>5 DEF ObserveSuspect, TypeOK
  <2> QED BY <1>5, <2>1, VersionsKept DEF ObserveSuspect
<1>6. ASSUME NEW c \in Clients, Reject(c) PROVE VersionsName' /\ VersionsGrow'
  <2>1. Done(c) BY <1>6 DEF Reject
  <2>2. CASE UNCHANGED storeVars
    BY <2>1, <2>2, DoneEffect, VersionsKept DEF storeVars
  <2>3. CASE Promote(Empty, ready, 0)
    BY <1>1, <2>1, <2>3, DoneEffect, EmptyType, PromoteEffect, VersionsKept
  <2> QED BY <1>6, <2>2, <2>3 DEF Reject
<1>7. ASSUME NEW t \in Token, Offer(t) PROVE VersionsName' /\ VersionsGrow'
  BY <1>7, OfferEffect, VersionsKept
<1>8. ASSUME NEW h \in BOOLEAN, HoldActive(h) PROVE VersionsName' /\ VersionsGrow'
  BY <1>8, VersionsKept DEF HoldActive, storeVars, requestVars
<1>9. CASE Poll
  BY <1>1, <1>9, PromoteEffect, VersionsKept DEF Poll, requestVars
<1>10. CASE Tick
  BY <1>10, VersionsKept DEF Tick, storeVars, requestVars
<1>11. CASE UNCHANGED vars
  BY <1>11, VersionsKept DEF vars, storeVars, requestVars
<1>12. ASSUME NEW v \in Values, NEW n \in 0 .. MaxTime
       PROVE  [value |-> v, issued |-> n] \in Token
  BY PolicyAssumption DEF Token
<1> QED
  BY <1>2, <1>3, <1>4, <1>5, <1>6, <1>7, <1>8, <1>9, <1>10, <1>11, <1>12 DEF Next

\* A version identifies one state for good, so that comparing versions is enough to
\* tell whether a late response speaks for the active state (store.go:77, 114).
THEOREM VersionsAlwaysName == Spec => []VersionsName
<1>1. Init => TypeOK /\ VersionsName /\ VersionsGrow
  BY EmptyType DEF Init, TypeOK, VersionsName, VersionsGrow, Empty
<1>2. TypeOK /\ VersionsName /\ VersionsGrow /\ [Next]_vars
        => (TypeOK /\ VersionsName /\ VersionsGrow)'
  BY TypeStep, VersionsStep
<1> QED BY <1>1, <1>2, PTL DEF Spec

-----------------------------------------------------------------------------
(* Strikes *)

LEMMA AccusersFinite == IsFiniteSet(Accusers) /\ Cardinality(Accusers) \in Nat
<1>1. Accusers \subseteq Clients
  BY DEF Accusers
<1> QED BY <1>1, ClientsAssumption, FS_Subset, FS_CardinalityType

\* Without a new active state, accusers that stay answer for every strike.
LEMMA StrikesKept ==
  ASSUME TypeOK, TypeOK', StrikesPending,
         \/ strikes' = 0
         \/ active' = active /\ strikes' = strikes /\ Accusers' = Accusers
  PROVE  StrikesPending'
<1>1. Cardinality(Accusers)' \in Nat
  <2>1. Accusers' \subseteq Clients
    BY DEF Accusers
  <2>2. IsFiniteSet(Accusers') /\ Cardinality(Accusers') \in Nat
    BY <2>1, ClientsAssumption, FS_Subset, FS_CardinalityType
  <2> QED BY <2>2
<1> QED BY <1>1 DEF StrikesPending, TypeOK

\* Requests that were no accusers may come and go.
LEMMA AccusersKept ==
  ASSUME TypeOK, TypeOK', active' = active, NEW c \in Clients,
         c \notin Accusers, pc'[c] # "rejecting",
         \A d \in Clients \ {c} : pc'[d] = pc[d] /\ used'[d] = used[d]
  PROVE  Accusers' = Accusers
<1>1. ASSUME NEW d \in Clients PROVE d \in Accusers' <=> d \in Accusers
  <2>1. CASE d = c
    BY <2>1 DEF Accusers
  <2>2. CASE d # c
    BY <2>2 DEF Accusers
  <2> QED BY <2>1, <2>2
<1>2. Accusers' \subseteq Clients /\ Accusers \subseteq Clients
  BY DEF Accusers
<1> QED BY <1>1, <1>2

LEMMA StrikesStep ==
  ASSUME TypeOK, TypeOK', StrikesPending, [Next]_vars
  PROVE  StrikesPending'
<1>1. active \in Snapshot /\ ready \in Token \cup {None} /\ strikes \in Nat
  BY DEF TypeOK
<1>2. ASSUME NEW c \in Clients, Acquire(c) PROVE StrikesPending'
  <2>1. CASE strikes' = 0
    BY <2>1, StrikesKept
  <2>2. CASE active' = active /\ strikes' = strikes
    <3>1. c \notin Accusers /\ pc'[c] # "rejecting"
      BY <1>2, AcquireEffect DEF Accusers
    <3>2. Accusers' = Accusers
      BY <1>2, <2>2, <3>1, AcquireEffect, AccusersKept
    <3> QED BY <2>2, <3>2, StrikesKept
  <2> QED BY <1>1, <1>2, <2>1, <2>2, AcquireEffect, PromoteEffect
<1>3. ASSUME NEW c \in Clients, NoObservation(c) PROVE StrikesPending'
  <2>1. c \notin Accusers /\ pc'[c] # "rejecting" /\ Done(c) /\ active' = active /\ strikes' = strikes
    BY <1>3, DoneEffect DEF NoObservation, Accusers, storeVars
  <2> QED BY <2>1, DoneEffect, AccusersKept, StrikesKept
<1>4. ASSUME NEW c \in Clients, ObserveExpected(c) PROVE StrikesPending'
  <2>1. c \notin Accusers /\ pc'[c] # "rejecting" /\ Done(c) /\ active' = active
    BY <1>4, DoneEffect DEF ObserveExpected, Accusers
  <2>2. strikes' = 0 \/ strikes' = strikes
    BY <1>4 DEF ObserveExpected
  <2> QED BY <2>1, <2>2, DoneEffect, AccusersKept, StrikesKept
<1>5. ASSUME NEW c \in Clients, ObserveSuspect(c) PROVE StrikesPending'
  <2>1. /\ c \notin Accusers /\ active' = active /\ used' = used
        /\ pc'[c] = "rejecting" /\ \A d \in Clients \ {c} : pc'[d] = pc[d]
    BY <1>5 DEF ObserveSuspect, Accusers, TypeOK
  <2>2. CASE used[c] = active
    <3>1. Accusers' = Accusers \cup {c}
      <4>1. ASSUME NEW d \in Clients
            PROVE  d \in Accusers' <=> d \in Accusers \cup {c}
        BY <2>1, <2>2 DEF Accusers
      <4>2. Accusers' \subseteq Clients /\ Accusers \cup {c} \subseteq Clients
        BY DEF Accusers
      <4> QED BY <4>1, <4>2
    <3>2. Cardinality(Accusers') = Cardinality(Accusers) + 1
      BY <2>1, <3>1, AccusersFinite, FS_AddElement
    <3>3. strikes' = strikes + 1
      BY <1>5, <2>2 DEF ObserveSuspect
    <3> QED BY <1>1, <3>2, <3>3, AccusersFinite DEF StrikesPending
  <2>3. CASE used[c] # active
    <3>1. Accusers' = Accusers
      <4>1. ASSUME NEW d \in Clients PROVE d \in Accusers' <=> d \in Accusers
        BY <2>1, <2>3 DEF Accusers
      <4>2. Accusers' \subseteq Clients /\ Accusers \subseteq Clients
        BY DEF Accusers
      <4> QED BY <4>1, <4>2
    <3>2. strikes' = strikes
      BY <1>5, <2>3 DEF ObserveSuspect
    <3> QED BY <2>1, <3>1, <3>2, StrikesKept
  <2> QED BY <2>2, <2>3
<1>6. ASSUME NEW c \in Clients, Reject(c) PROVE StrikesPending'
  <2>1. CASE used[c] # active /\ UNCHANGED storeVars
    <3>1. c \notin Accusers /\ pc'[c] # "rejecting" /\ Done(c) /\ active' = active /\ strikes' = strikes
      BY <1>6, <2>1, DoneEffect DEF Reject, Accusers, storeVars
    <3> QED BY <3>1, DoneEffect, AccusersKept, StrikesKept
  <2>2. CASE Promote(Empty, ready, 0)
    <3>1. strikes' = 0
      BY <1>1, <2>2, EmptyType, PromoteEffect
    <3> QED BY <3>1, StrikesKept
  <2> QED BY <1>6, <2>1, <2>2 DEF Reject
<1>7. ASSUME NEW t \in Token, Offer(t) PROVE StrikesPending'
  <2>1. active' = active => Accusers' = Accusers
    BY <1>7, OfferEffect DEF Accusers
  <2> QED BY <1>7, <2>1, OfferEffect, StrikesKept
<1>8. ASSUME NEW h \in BOOLEAN, HoldActive(h) PROVE StrikesPending'
  BY <1>8, StrikesKept DEF HoldActive, storeVars, requestVars, Accusers
<1>9. CASE Poll
  <2>1. active' = active => Accusers' = Accusers
    BY <1>9 DEF Poll, requestVars, Accusers
  <2> QED BY <1>1, <1>9, <2>1, PromoteEffect, StrikesKept DEF Poll
<1>10. CASE Tick
  BY <1>10, StrikesKept DEF Tick, storeVars, requestVars, Accusers
<1>11. CASE UNCHANGED vars
  BY <1>11, StrikesKept DEF vars, storeVars, requestVars, Accusers
<1>12. ASSUME NEW v \in Values, NEW n \in 0 .. MaxTime
       PROVE  [value |-> v, issued |-> n] \in Token
  BY PolicyAssumption DEF Token
<1> QED
  BY <1>2, <1>3, <1>4, <1>5, <1>6, <1>7, <1>8, <1>9, <1>10, <1>11, <1>12 DEF Next

\* Observe and RejectAndPromote are two critical sections with other requests in
\* between; still every strike is an answer to the state that is active now.
THEOREM StrikesAlwaysPending == Spec => []StrikesPending
<1>1. Init => TypeOK /\ StrikesPending
  <2>1. Init => TypeOK
    BY EmptyType DEF Init, TypeOK
  <2>2. Init => strikes = 0
    BY DEF Init
  <2> QED BY <2>1, <2>2, AccusersFinite DEF StrikesPending
<1>2. TypeOK /\ StrikesPending /\ [Next]_vars => (TypeOK /\ StrikesPending)'
  BY TypeStep, StrikesStep
<1> QED BY <1>1, <1>2, PTL DEF Spec

-----------------------------------------------------------------------------
(* The hold strategy *)

LEMMA StrikesMeanAccusers ==
  ASSUME TypeOK, StrikesPending, strikes >= 2 PROVE Accusers # {}
<1>1. Cardinality({}) = 0
  BY FS_EmptySet
<1> QED BY <1>1, AccusersFinite DEF StrikesPending, TypeOK

\* holdActive keeps a usable state until some response to that very state was
\* suspect: promotion by age is off, and promotion by strikes has an accuser.
LEMMA HoldStep ==
  ASSUME TypeOK, StrikesPending, [Next]_vars,
         hold, Accept(active.token), active' # active
  PROVE  Accusers # {}
<1>1. active \in Snapshot /\ ready \in Token \cup {None} /\ strikes \in Nat
  BY DEF TypeOK
<1>2. CASE Promote(active, ready, strikes)
  <2>1. Takes(ready, active, strikes)
    BY <1>1, <1>2, PromoteEffect
  <2>2. strikes >= 2
    BY <2>1 DEF Takes
  <2> QED BY <2>2, StrikesMeanAccusers
<1>3. ASSUME NEW t \in Token, Offer(t) PROVE Accusers # {}
  BY <1>3, OfferEffect, StrikesMeanAccusers
<1>4. ASSUME NEW c \in Clients, Reject(c) PROVE Accusers # {}
  BY <1>4 DEF Reject, Accusers, storeVars
<1>5. ASSUME NEW v \in Values, NEW n \in 0 .. MaxTime
      PROVE  [value |-> v, issued |-> n] \in Token
  BY PolicyAssumption DEF Token
<1>6. CASE UNCHANGED vars \/ Tick \/ \E h \in BOOLEAN : HoldActive(h)
  BY <1>6 DEF vars, Tick, HoldActive, storeVars
<1>7. ASSUME NEW c \in Clients, NoObservation(c) \/ ObserveExpected(c) \/ ObserveSuspect(c)
      PROVE  Accusers # {}
  BY <1>7 DEF NoObservation, ObserveExpected, ObserveSuspect, storeVars
<1> QED BY <1>2, <1>3, <1>4, <1>5, <1>6, <1>7 DEF Next, Acquire, Poll

\* Under the hold strategy a usable state leaves only because of an answer to it.
THEOREM HeldAlways == Spec => HeldUntilSuspected
<1>1. TypeOK /\ StrikesPending /\ [Next]_vars
        => [hold /\ Accept(active.token) /\ active' # active => Accusers # {}]_vars
  BY HoldStep
<1> QED BY <1>1, TypeCorrect, StrikesAlwaysPending, PTL DEF Spec, HeldUntilSuspected
=============================================================================
