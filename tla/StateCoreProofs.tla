---------------------------- MODULE StateCoreProofs ----------------------------
(***************************************************************************)
(* Proofs about the State Core (StateCore), for any clients, accounts,     *)
(* models and routes and any capacities and budgets: who owns a round and  *)
(* the probe slot, the permits of the breaker, the epoch of the candidates *)
(* and the distance between rounds.                                        *)
(***************************************************************************)
EXTENDS StateCore, FiniteSetTheorems, TLAPS

\* A request under way has a key or a session; who probes or streams has a route, and who
\* is about to send with a candidate has the candidate.
Placed ==
  \A c \in Clients :
    /\ pc[c] # "idle" => at[c] \in Keys \cup Sessions
    /\ pc[c] \in {"permit", "probe", "publish", "stream"} => via[c] \in Routes
    /\ pc[c] = "chosen" => cand[c] # None

\* Who is in ensure has a session, which only a refresh may find gone from the table; and
\* no refresh goes on to send.
Seated ==
  \A c \in Clients :
    /\ pc[c] = "borrow" => at[c] \in Keys
    /\ pc[c] \in OnSession => at[c] \in Sessions
    /\ pc[c] \in OnSession /\ ~manual[c] => at[c] \in table
    /\ pc[c] = "chosen" => ~manual[c]

\* Only the holder of the slot probes, and until its first probe its account is not
\* cooling down.
Attempted ==
  \A c \in Clients :
    /\ attempts[c] > 0 => pc[c] \in Working \cup {"end"} /\ slot = c
    /\ pc[c] \in {"probe", "publish"} => attempts[c] > 0
    /\ pc[c] \in {"route", "permit"} /\ attempts[c] = 0 => ~cooling[Scope(at[c])]

IInv ==
  /\ TypeOK /\ Placed /\ Seated
  /\ RoundOwnership /\ PermitsReturned /\ CurrentCandidates /\ Attempted

\* The parts of TypeOK that different steps change.
GuardTypes ==
  /\ guards \in SUBSET Scopes
  /\ stop \in [Scopes -> {"none", "auth", "pause"}]
  /\ cooling \in [Scopes -> BOOLEAN]
  /\ probes \in [Scopes -> Nat]

SessionTypes ==
  /\ table \in SUBSET Sessions /\ \A s, t \in table : Key(s) = Key(t) => s = t
  /\ active \in [Sessions -> Candidate \cup {None}]
  /\ ready \in [Sessions -> Candidate \cup {None}]
  /\ probing \in [Sessions -> Clients \cup {None}]
  /\ slot \in Clients \cup {None}

GateTypes ==
  /\ phase \in [Routes -> {"closed", "open", "trial"}]
  /\ live \in [Routes -> SUBSET Clients]
  /\ cooled \in SUBSET Routes

LocalTypes ==
  /\ pc \in [Clients -> Labels]
  /\ at \in [Clients -> Keys \cup Sessions \cup {None}]
  /\ manual \in [Clients -> BOOLEAN]
  /\ seen \in [Clients -> Nat]
  /\ tried \in [Clients -> SUBSET Routes]
  /\ attempts \in [Clients -> Nat]
  /\ via \in [Clients -> Routes \cup {None}]
  /\ result \in [Clients -> {"accepted", "retry", "terminal", None}]
  /\ cand \in [Clients -> Candidate \cup {None}]

LEMMA InitIInv == Init => IInv
  <1> SUFFICES ASSUME Init PROVE IInv
    OBVIOUS
  <1> USE DEF Init
  <1>1. TypeOK
    BY NoneAssumption DEF TypeOK, Gate!Init, Labels, OnSession, InEnsure, Round, Working
  <1>2. Placed /\ Seated /\ Attempted
    BY DEF Placed, Seated, OnSession, InEnsure, Round, Working, Attempted
  <1>3. RoundOwnership
    BY NoneAssumption DEF RoundOwnership, Round, Working
  <1>4. PermitsReturned
    BY DEF PermitsReturned, Gate!Init
  <1>5. CurrentCandidates
    BY DEF CurrentCandidates
  <1> QED BY <1>1, <1>2, <1>3, <1>4, <1>5 DEF IInv

-----------------------------------------------------------------------------
(* What the helpers do *)

\* A request is let onto a route, and holds the only new permit ...
LEMMA BeginEffect ==
  ASSUME IInv, NEW r \in Routes, NEW c \in Clients, Begin(r, c)
  PROVE  /\ GateTypes'
         /\ \A q \in Routes : q # r => live'[q] = live[q] /\ phase'[q] = phase[q]
         /\ c \in live'[r] /\ live'[r] \subseteq live[r] \cup {c}
  <1>1. CASE Gate!Admit(r, c)
    BY <1>1 DEF Begin, Gate!Admit, IInv, TypeOK, GateTypes
  <1>2. CASE Gate!Probe(r, c)
    BY <1>2 DEF Begin, Gate!Probe, IInv, TypeOK, GateTypes
  <1> QED BY <1>1, <1>2 DEF Begin

\* ... and whoever reports holds none afterwards, nor is its trial left undecided.
LEMMA FinishEffect ==
  ASSUME IInv, NEW c \in Clients, NEW o, via[c] \in Routes, Finish(c, o)
  PROVE  /\ GateTypes'
         /\ \A q \in Routes : live'[q] \subseteq live[q] \ {c}
         /\ \A q \in Routes : phase'[q] = "trial" =>
              phase[q] = "trial" /\ live'[q] = live[q]
  <1> DEFINE r == via[c]
  <1>0. \A q \in Routes : q # r => c \notin live[q]
    BY DEF IInv, PermitsReturned
  <1>1. CASE c \notin live[r] /\ UNCHANGED gateVars
    BY <1>0, <1>1 DEF gateVars, IInv, TypeOK, GateTypes
  <1>2. CASE Gate!Settle(r, c) /\ UNCHANGED cooled
    BY <1>0, <1>2 DEF Gate!Settle, IInv, TypeOK, GateTypes
  <1>3. CASE Gate!Trip(r, c) /\ cooled' = cooled \ {r}
    BY <1>0, <1>3 DEF Gate!Trip, IInv, TypeOK, GateTypes
  <1> QED BY <1>1, <1>2, <1>3 DEF Finish

LEMMA SelectEffect ==
  ASSUME IInv, NEW s \in Sessions, NEW j \in Judgement
  PROVE  /\ Selected(s, j) \in Candidate \cup {None}
         /\ Select(s, j) =>
              /\ active' \in [Sessions -> Candidate \cup {None}]
              /\ ready' \in [Sessions -> Candidate \cup {None}]
              /\ \A t \in Sessions : active'[t] \in {active[t], ready[t]}
              /\ \A t \in Sessions : ready'[t] \in {ready[t], None}
  BY DEF Select, Selected, IInv, TypeOK

LEMMA RejectEffect ==
  ASSUME IInv, NEW a \in Scopes, NEW kind \in {"none", "auth", "pause"}, Reject(a, kind)
  PROVE  /\ guards' \in SUBSET Scopes
         /\ stop' \in [Scopes -> {"none", "auth", "pause"}]
  BY DEF Reject, IInv, TypeOK

LEMMA ScopeOfSession ==
  ASSUME NEW s \in Keys \cup Sessions
  PROVE  Scope(s) \in Scopes
  BY DEF Keys, Sessions, Scope

-----------------------------------------------------------------------------
(* What a step of one client does to the others *)

Start(c) == (\E key \in Keys : Request(c, key)) \/ \E s \in Sessions : Refresh(c, s)

Others(c) ==
  \A d \in Clients \ {c} :
    /\ pc'[d] = pc[d] \/ (pc[d] = "wait" /\ pc'[d] = "ensure")
    /\ at'[d] = at[d] /\ via'[d] = via[d]
    /\ attempts'[d] = attempts[d] /\ cand'[d] = cand[d] /\ manual'[d] = manual[d]

Local(c) == LocalTypes' /\ Others(c)

LEMMA GotoLocal ==
  ASSUME IInv, NEW c \in Clients, NEW label \in Labels, Goto(c, label), UNCHANGED localVars
  PROVE  Local(c) /\ pc'[c] = label
  BY DEF Goto, localVars, Local, LocalTypes, Others, IInv, TypeOK

LEMMA LeaveLocal ==
  ASSUME IInv, NEW c \in Clients, Leave(c)
  PROVE  Local(c) /\ pc'[c] = "idle" /\ attempts'[c] = 0
  BY DEF Leave, Goto, Local, LocalTypes, Others, Labels, IInv, TypeOK

LEMMA ReturnLocal ==
  ASSUME IInv, NEW c \in Clients, NEW k \in Candidate \cup {None}, Return(c, k)
  PROVE  Local(c) /\ pc'[c] = "end" /\ UNCHANGED <<at, attempts>>
  BY DEF Return, Goto, Local, LocalTypes, Others, Labels, OnSession, InEnsure, Round, IInv, TypeOK

LEMMA FallbackType ==
  ASSUME IInv, NEW c \in Clients, at[c] \in Sessions, NEW j \in Judgement
  PROVE  Fallback(c, j) \in Candidate \cup {None}
  BY SelectEffect DEF Fallback
LEMMA LocalStep ==
  ASSUME IInv, NEW c \in Clients, ClientStep(c)
  PROVE  Local(c)
  <1> DEFINE s == at[c]
  <1> USE DEF Labels, OnSession, InEnsure, Round, Working
  <1>1. CASE Start(c)
    <2>1. /\ \E label \in {"borrow", "send", "ensure"} : pc' = [pc EXCEPT ![c] = label]
          /\ \E t \in Keys \cup Sessions : at' = [at EXCEPT ![c] = t]
          /\ manual' = [manual EXCEPT ![c] = TRUE] \/ UNCHANGED manual
          /\ UNCHANGED <<seen, tried, attempts, via, result, cand>>
      BY <1>1 DEF Start, Request, Refresh, Goto
    <2>2. pc' \in [Clients -> Labels]
      BY <2>1 DEF IInv, TypeOK
    <2>3. at' \in [Clients -> Keys \cup Sessions \cup {None}]
      BY <2>1 DEF IInv, TypeOK
    <2>4. manual' \in [Clients -> BOOLEAN]
      BY <2>1 DEF IInv, TypeOK
    <2> QED BY <2>1, <2>2, <2>3, <2>4 DEF Local, LocalTypes, Others, IInv, TypeOK
  <1>2. CASE pc[c] = "idle" /\ ~Start(c)
    BY <1>2 DEF Start, ClientStep, Proceed, Borrow, Ensure, Recheck, TryRoute, RoutesDone, Charge,
       ProbeEnds, Publish, Last, EndRound, Release, Chosen, Send, Admit, NoResponse, Respond,
       StreamEnds, TakeSlot, GiveUp, StreamLimited
  <1>3. CASE pc[c] # "idle"
    <2>1. pc[c] \in OnSession => s \in Sessions
      BY DEF IInv, Seated
    <2>2. CASE Borrow(c)
      <3>1. CASE Leave(c)
        BY <3>1, LeaveLocal
      <3>2. CASE ~Leave(c)
        <4>1. /\ Goto(c, "ensure") /\ \E t \in Sessions : at' = [at EXCEPT ![c] = t]
              /\ UNCHANGED <<manual, seen, tried, attempts, via, result, cand>>
          BY <2>2, <3>2 DEF Borrow
        <4> QED BY <4>1 DEF Goto, Local, LocalTypes, Others, IInv, TypeOK
      <3> QED BY <3>1, <3>2
    <2>3. CASE Ensure(c)
      <3>1. CASE UNCHANGED localVars \/ Leave(c)
        BY <2>3, <3>1, LeaveLocal, GotoLocal DEF Ensure
      <3>2. CASE ~(UNCHANGED localVars \/ Leave(c))
        <4>1. PICK j \in Judgement :
                \/ cand' = [cand EXCEPT ![c] = Selected(s, j)] /\ Goto(c, "chosen")
                     /\ UNCHANGED <<at, manual, seen, tried, attempts, via, result>>
                \/ seen' = [seen EXCEPT ![c] = epoch] /\ Goto(c, "slot")
                     /\ UNCHANGED <<at, manual, tried, attempts, via, result, cand>>
          BY <2>3, <3>2 DEF Ensure
        <4>2. Selected(s, j) \in Candidate \cup {None}
          BY <2>1, <2>3, SelectEffect DEF Ensure
        <4> QED BY <4>1, <4>2 DEF Goto, Local, LocalTypes, Others, IInv, TypeOK
      <3> QED BY <3>1, <3>2
    <2>4. CASE GiveUp(c)
      BY <2>4, LeaveLocal, ReturnLocal DEF GiveUp
    <2>5. CASE TakeSlot(c) \/ RoutesDone(c) \/ StreamLimited(c)
      BY <2>5, GotoLocal DEF TakeSlot, RoutesDone, StreamLimited, Goto, IInv, TypeOK,
         localVars, Local, LocalTypes, Others
    <2>6. CASE Recheck(c) \/ Last(c)
      BY <2>1, <2>6, FallbackType, ReturnLocal, GotoLocal DEF Recheck, Last
    <2>7. CASE TryRoute(c)
      BY <2>7 DEF TryRoute, Goto, Local, LocalTypes, Others, IInv, TypeOK
    <2>8. CASE Charge(c)
      <3>1. CASE \E k \in Candidate \cup {None} : Return(c, k)
        BY <3>1, ReturnLocal
      <3>2. CASE ~\E k \in Candidate \cup {None} : Return(c, k)
        <4>1. /\ attempts' = [attempts EXCEPT ![c] = @ + 1] /\ Goto(c, "probe")
              /\ UNCHANGED <<at, manual, seen, tried, via, result, cand>>
          BY <2>1, <2>8, <3>2, FallbackType DEF Charge, Withdraw
        <4> QED BY <4>1 DEF Goto, Local, LocalTypes, Others, IInv, TypeOK
      <3> QED BY <3>1, <3>2
    <2>9. CASE ProbeEnds(c)
      BY <2>9 DEF ProbeEnds, ProbeOutcomes, Goto, Local, LocalTypes, Others, IInv, TypeOK
    <2>10. CASE Publish(c)
      <3>1. Collected(c) \in Candidate
        BY <2>10 DEF Publish, Collected, Candidate, IInv, TypeOK, Placed
      <3>2. active[s] \in Candidate \cup {None}
        BY <2>1, <2>10 DEF Publish, IInv, TypeOK
      <3>3. CASE \E k \in Candidate \cup {None} : Return(c, k)
        BY <3>3, ReturnLocal
      <3>4. CASE ~\E k \in Candidate \cup {None} : Return(c, k)
        <4>1. /\ Goto(c, "last") \/ Goto(c, "route")
              /\ via' = [via EXCEPT ![c] = None] /\ result' = [result EXCEPT ![c] = None]
              /\ UNCHANGED <<at, manual, seen, tried, attempts, cand>>
          BY <2>10, <3>1, <3>2, <3>4 DEF Publish
        <4> QED BY <4>1 DEF Goto, Local, LocalTypes, Others, IInv, TypeOK
      <3> QED BY <3>3, <3>4
    <2>11. CASE EndRound(c)
      BY <2>11 DEF EndRound, Wake, Local, LocalTypes, Others, IInv, TypeOK
    <2>12. CASE Release(c) \/ Send(c) \/ Admit(c) \/ NoResponse(c) \/ Respond(c) \/ StreamEnds(c)
      BY <2>12, LeaveLocal, GotoLocal DEF Release, Send, Admit, NoResponse, Respond, StreamEnds
    <2>13. CASE Chosen(c)
      <3>1. CASE Leave(c)
        BY <3>1, LeaveLocal
      <3>2. CASE ~Leave(c)
        <4>1. cand[c] \in Candidate
          BY <2>13 DEF Chosen, IInv, TypeOK, Placed
        <4>2. cand[c].route \in Routes
          BY <4>1 DEF Candidate
        <4> QED BY <2>13, <3>2, <4>2 DEF Chosen, Goto, Local, LocalTypes, Others, IInv, TypeOK
      <3> QED BY <3>1, <3>2
    <2> QED BY <1>3, <2>2, <2>3, <2>4, <2>5, <2>6, <2>7, <2>8, <2>9, <2>10, <2>11, <2>12, <2>13
        DEF ClientStep, Proceed, Request, Refresh
  <1> QED BY <1>1, <1>2, <1>3

-----------------------------------------------------------------------------
(* The step lemmas: one invariant at a time *)


LEMMA SessionsInUse ==
  ASSUME IInv, NEW c \in Clients, Proceed(c) \/ TakeSlot(c) \/ GiveUp(c) \/ StreamLimited(c)
  PROVE  /\ pc[c] # "idle" /\ Scope(at[c]) \in Scopes
         /\ pc[c] \in OnSession => at[c] \in Sessions
  <1>1. pc[c] # "idle"
    BY DEF Proceed, Borrow, Ensure, Recheck, TryRoute, RoutesDone, Charge,
       ProbeEnds, Publish, Last, EndRound, Release, Chosen, Send, Admit, NoResponse, Respond,
       StreamEnds, TakeSlot, GiveUp, StreamLimited
  <1> QED BY <1>1, ScopeOfSession DEF IInv, Placed, Seated

LEMMA ClientTouches ==
  ASSUME NEW c \in Clients, ClientStep(c)
  PROVE  /\ UNCHANGED policyVars
         /\ probing' # probing => Ensure(c) \/ EndRound(c)
         /\ slot' # slot => TakeSlot(c) \/ Release(c)
         /\ <<active, ready>>' # <<active, ready>> =>
              Borrow(c) \/ Ensure(c) \/ Recheck(c) \/ Charge(c) \/ Publish(c) \/ Last(c)
         /\ gateVars' # gateVars =>
              \/ TryRoute(c) \/ Charge(c) \/ ProbeEnds(c) \/ Admit(c) \/ NoResponse(c)
              \/ StreamEnds(c)
         /\ cooling' # cooling => Charge(c) \/ EndRound(c)
  <1> USE DEF policyVars, guardVars, sessionVars, gateVars
  <1>1. CASE Start(c)
    BY <1>1 DEF Start, Request, Refresh
  <1>2. CASE Borrow(c) \/ Ensure(c) \/ Recheck(c) \/ Last(c) \/ Publish(c)
    BY <1>2 DEF Borrow, Ensure, Recheck, Last, Publish
  <1>3. CASE TryRoute(c) \/ RoutesDone(c) \/ Charge(c) \/ ProbeEnds(c) \/ EndRound(c)
    BY <1>3 DEF TryRoute, RoutesDone, Charge, ProbeEnds, EndRound
  <1>4. CASE Release(c) \/ Chosen(c) \/ Send(c) \/ Admit(c) \/ NoResponse(c)
    BY <1>4 DEF Release, Chosen, Send, Admit, NoResponse
  <1>5. CASE Respond(c) \/ StreamEnds(c) \/ TakeSlot(c) \/ GiveUp(c) \/ StreamLimited(c)
    BY <1>5 DEF Respond, StreamEnds, TakeSlot, GiveUp, StreamLimited
  <1> QED BY <1>1, <1>2, <1>3, <1>4, <1>5 DEF ClientStep, Start, Proceed

LEMMA OthersTouch ==
  ASSUME Timer \/ Panel
  PROVE  /\ UNCHANGED <<pc, localVars, probing, slot, phase, live, table>>
         /\ policyVars' # policyVars => (\E on \in BOOLEAN : Configure(on)) \/ Disable
         /\ <<active, ready>>' # <<active, ready>> =>
              (\E on \in BOOLEAN : Configure(on)) \/ Status
  <1> USE DEF policyVars, guardVars, sessionVars, gateVars
  <1>1. CASE Timer
    BY <1>1 DEF Timer, PauseOver, CooldownOver, HourOver, BackoffOver
  <1>2. CASE Panel
    BY <1>2 DEF Panel, Configure, Disable, Status
  <1> QED BY <1>1, <1>2

-----------------------------------------------------------------------------
(* Types *)

\* The sessions' candidates are what they were, or the spare moved up, or a probe
\* found a new one, or they are forgotten.
LEMMA CandidatesEffect ==
  ASSUME IInv, NEW c \in Clients, ClientStep(c)
  PROVE  /\ active' \in [Sessions -> Candidate \cup {None}]
         /\ ready' \in [Sessions -> Candidate \cup {None}]
         /\ \A s \in Sessions :
              {active'[s], ready'[s]} \subseteq
                {active[s], ready[s], None} \cup
                (IF Publish(c) /\ Publishable(c) THEN {Collected(c)} ELSE {})
  <1>1. CASE UNCHANGED <<active, ready>>
    BY <1>1 DEF IInv, TypeOK
  <1>2. CASE Borrow(c)
    BY <1>2 DEF Borrow, IInv, TypeOK
  <1>3. CASE Ensure(c) \/ Recheck(c) \/ Charge(c) \/ Last(c)
    <2>1. at[c] \in Sessions
      BY <1>3 DEF Ensure, Recheck, Charge, Last, OnSession, InEnsure, Round, Working, IInv, Seated
    <2>2. UNCHANGED <<active, ready>> \/ \E j \in Judgement : Select(at[c], j)
      BY <1>3 DEF Ensure, Recheck, Charge, Last
    <2> QED BY <1>1, <2>1, <2>2, SelectEffect
  <1>4. CASE Publish(c) /\ ~UNCHANGED <<active, ready>>
    <2>1. at[c] \in Sessions
      BY <1>4 DEF Publish, OnSession, InEnsure, Round, Working, IInv, Seated
    <2>2. Collected(c) \in Candidate
      BY <1>4 DEF Publish, Collected, Candidate, IInv, TypeOK, Placed
    <2>3. /\ Publishable(c)
          /\ active' = active \/ active' = [active EXCEPT ![at[c]] = Collected(c)]
          /\ \/ ready' = [ready EXCEPT ![at[c]] = Collected(c)]
             \/ ready' = [ready EXCEPT ![at[c]] = None]
      BY <1>4 DEF Publish
    <2> QED BY <1>4, <2>1, <2>2, <2>3 DEF IInv, TypeOK
  <1> QED BY <1>1, <1>2, <1>3, <1>4, ClientTouches

\* Dropping sessions, then seating c on the one of its key: the kept one or a new one.
Seats(c, gone) ==
  LET kept == table \ gone IN
  \/ table' = kept
  \/ \E s \in Sessions :
       /\ table' = kept \cup {s}
       /\ s \in kept \/ Cardinality(kept) < MaxSessions
       /\ \A t \in kept : Key(t) = Key(s) => t = s

\* Only borrow changes the table.
LEMMA TableEffect ==
  ASSUME IInv, NEW c \in Clients, ClientStep(c)
  PROVE  UNCHANGED table \/ (Borrow(c) /\ \E gone \in SUBSET Expirable : Seats(c, gone))
  <1>1. CASE Borrow(c)
    <2>1. PICK gone \in SUBSET Expirable :
            LET kept == table \ gone
                own == {s \in kept : Key(s) = at[c]}
            IN \/ table' = kept
               \/ \E s \in Sessions :
                    /\ Key(s) = at[c]
                    /\ table' = kept \cup {s}
                    /\ own # {} \/ Cardinality(kept) < MaxSessions
                    /\ own # {} => s \in own
      BY <1>1, Zenon DEF Borrow
    <2> DEFINE kept == table \ gone
    <2>2. CASE table' = kept
      BY <1>1, <2>2 DEF Seats
    <2>3. CASE table' # kept
      <3>1. PICK s \in Sessions :
              /\ Key(s) = at[c]
              /\ table' = kept \cup {s}
              /\ {t \in kept : Key(t) = at[c]} # {} \/ Cardinality(kept) < MaxSessions
              /\ {t \in kept : Key(t) = at[c]} # {} => s \in {t \in kept : Key(t) = at[c]}
        BY <2>1, <2>3
      <3>2. \A t \in kept : Key(t) = Key(s) => t = s
        BY <3>1 DEF IInv, TypeOK
      <3>3. s \in kept \/ Cardinality(kept) < MaxSessions
        BY <3>1
      <3> QED BY <1>1, <3>1, <3>2, <3>3 DEF Seats
    <2> QED BY <2>2, <2>3
  <1>2. CASE ~Borrow(c)
    BY <1>2 DEF ClientStep, Proceed, Request, Refresh, Ensure, Recheck,
       TryRoute, RoutesDone, Charge, ProbeEnds, Publish, Last, EndRound, Release, Chosen,
       Send, Admit, NoResponse, Respond, StreamEnds, TakeSlot, GiveUp, StreamLimited,
       sessionVars
  <1> QED BY <1>1, <1>2

LEMMA TableType ==
  ASSUME IInv, NEW c \in Clients, ClientStep(c)
  PROVE  table' \in SUBSET Sessions /\ \A s, t \in table' : Key(s) = Key(t) => s = t
  <1>1. CASE UNCHANGED table
    BY <1>1 DEF IInv, TypeOK
  <1>2. ASSUME NEW gone \in SUBSET Expirable, Seats(c, gone)
        PROVE  table' \in SUBSET Sessions /\ \A s, t \in table' : Key(s) = Key(t) => s = t
    <2> DEFINE kept == table \ gone
    <2>1. kept \in SUBSET Sessions /\ \A s, t \in kept : Key(s) = Key(t) => s = t
      BY DEF IInv, TypeOK
    <2>2. CASE table' = kept
      BY <2>1, <2>2
    <2>3. ASSUME NEW s \in Sessions, table' = kept \cup {s},
                 \A t \in kept : Key(t) = Key(s) => t = s
          PROVE  table' \in SUBSET Sessions /\ \A u, t \in table' : Key(u) = Key(t) => u = t
      <3> HIDE DEF kept
      <3> QED BY <2>1, <2>3
    <2> QED BY <1>2, <2>2, <2>3 DEF Seats
  <1> QED BY <1>1, <1>2, TableEffect

LEMMA GuardStep ==
  ASSUME IInv, Next
  PROVE  GuardTypes'
  <1>1. ASSUME NEW c \in Clients, ClientStep(c)
        PROVE  GuardTypes'
    <2>1. CASE Start(c)
      BY <2>1 DEF Start, Request, Refresh, guardVars, GuardTypes, IInv, TypeOK
    <2>2. CASE Proceed(c) \/ TakeSlot(c) \/ GiveUp(c) \/ StreamLimited(c)
      <3>1. Scope(at[c]) \in Scopes
        BY <2>2, SessionsInUse
      <3>2. CASE Borrow(c)
        BY <3>1, <3>2 DEF Borrow, GuardTypes, IInv, TypeOK
      <3>6. CASE Charge(c)
        <4>1. probes' \in [Scopes -> Nat]
          BY <3>1, <3>6 DEF Charge, IInv, TypeOK
        <4>2. cooling' \in [Scopes -> BOOLEAN]
          BY <3>1, <3>6 DEF Charge, IInv, TypeOK
        <4> QED BY <3>6, <4>1, <4>2 DEF Charge, GuardTypes, IInv, TypeOK
      <3>5. CASE EndRound(c)
        <4>1. cooling' = [cooling EXCEPT ![Scope(at[c])] = TRUE] \/ cooling' = cooling
          BY <3>1, <3>5, Zenon DEF EndRound, IInv, TypeOK
        <4> QED BY <3>1, <3>5, <4>1 DEF EndRound, GuardTypes, IInv, TypeOK
      <3>3. CASE ProbeEnds(c) \/ Respond(c) \/ StreamLimited(c)
        <4>1. UNCHANGED <<cooling, probes>>
          BY <3>3 DEF ProbeEnds, Respond, StreamLimited
        <4>2. \/ UNCHANGED <<guards, stop>>
              \/ \E kind \in {"none", "auth", "pause"} : Reject(Scope(at[c]), kind)
          BY <3>3 DEF ProbeEnds, ProbeOutcomes, Respond, StreamLimited
        <4> QED BY <3>1, <4>1, <4>2, RejectEffect DEF GuardTypes, IInv, TypeOK
      <3>4. CASE UNCHANGED guardVars
        BY <3>4 DEF guardVars, GuardTypes, IInv, TypeOK
      <3> QED BY <2>2, <3>2, <3>3, <3>4, <3>5, <3>6 DEF Proceed, Ensure, Recheck, TryRoute, RoutesDone,
             Publish, Last, Release, Chosen, Send, Admit, NoResponse, StreamEnds, TakeSlot,
             GiveUp, guardVars
    <2> QED BY <1>1, <2>1, <2>2 DEF ClientStep, Start
  <1>2. CASE Timer
    <2>1. ASSUME NEW a \in Scopes, PauseOver(a) \/ CooldownOver(a) \/ HourOver(a)
          PROVE  GuardTypes'
      <3>1. CASE PauseOver(a)
        BY <3>1 DEF PauseOver, GuardTypes, IInv, TypeOK
      <3>2. CASE CooldownOver(a)
        BY <3>2 DEF CooldownOver, GuardTypes, IInv, TypeOK
      <3>3. CASE HourOver(a)
        BY <3>3 DEF HourOver, GuardTypes, IInv, TypeOK
      <3> QED BY <2>1, <3>1, <3>2, <3>3
    <2>2. ASSUME NEW r \in Routes, BackoffOver(r)
          PROVE  GuardTypes'
      BY <2>2 DEF BackoffOver, guardVars, GuardTypes, IInv, TypeOK
    <2> QED BY <1>2, <2>1, <2>2 DEF Timer
  <1>3. CASE Panel
    BY <1>3 DEF Panel, Configure, Disable, Status, guardVars, GuardTypes, IInv, TypeOK
  <1> QED BY <1>1, <1>2, <1>3 DEF Next

LEMMA SessionStep ==
  ASSUME IInv, Next
  PROVE  SessionTypes'
  <1>1. ASSUME NEW c \in Clients, ClientStep(c)
        PROVE  SessionTypes'
    <2>1. table' \in SUBSET Sessions /\ \A s, t \in table' : Key(s) = Key(t) => s = t
      BY <1>1, TableType
    <2>2. probing' \in [Sessions -> Clients \cup {None}]
      BY <1>1, ClientTouches DEF Ensure, EndRound, IInv, TypeOK
    <2>3. slot' \in Clients \cup {None}
      BY <1>1, ClientTouches DEF TakeSlot, Release, IInv, TypeOK
    <2> QED BY <1>1, <2>1, <2>2, <2>3, CandidatesEffect DEF SessionTypes
  <1>2. CASE Timer
    BY <1>2 DEF Timer, PauseOver, CooldownOver, HourOver, BackoffOver, sessionVars, SessionTypes,
       IInv, TypeOK
  <1>3. CASE Panel
    BY <1>3 DEF Panel, Configure, Disable, Status, sessionVars, SessionTypes, IInv, TypeOK
  <1> QED BY <1>1, <1>2, <1>3 DEF Next

\* Who reports has a route.
LEMMA Reporting ==
  ASSUME IInv, NEW c \in Clients, gateVars' # gateVars,
         ProbeEnds(c) \/ NoResponse(c) \/ StreamEnds(c) \/ (Charge(c) /\ pc'[c] = "end")
  PROVE  via[c] \in Routes /\ \E o \in {"success", "failure", "neutral"} : Finish(c, o)
  <1>1. CASE ProbeEnds(c)
    BY <1>1 DEF ProbeEnds, ProbeOutcomes, IInv, Placed
  <1>2. CASE NoResponse(c)
    BY <1>2 DEF NoResponse, IInv, TypeOK
  <1>3. CASE StreamEnds(c)
    BY <1>3 DEF StreamEnds, IInv, Placed
  <1>4. CASE Charge(c)
    BY <1>4 DEF Charge, Withdraw, IInv, Placed
  <1> QED BY <1>1, <1>2, <1>3, <1>4

LEMMA GateStep ==
  ASSUME IInv, Next
  PROVE  GateTypes'
  <1>1. ASSUME NEW c \in Clients, ClientStep(c)
        PROVE  GateTypes'
    <2>1. CASE UNCHANGED gateVars
      BY <2>1 DEF gateVars, GateTypes, IInv, TypeOK
    <2>2. CASE gateVars' # gateVars /\ (TryRoute(c) \/ Admit(c))
      <3>1. \E r \in Routes : Begin(r, c)
        BY <2>2 DEF TryRoute, Admit, IInv, TypeOK
      <3> QED BY <3>1, BeginEffect
    <2>3. CASE /\ gateVars' # gateVars
               /\ ProbeEnds(c) \/ NoResponse(c) \/ StreamEnds(c) \/ Charge(c)
      <3>1. Charge(c) => pc'[c] = "end"
        BY <2>3 DEF Charge, Withdraw, Return, Goto, IInv, TypeOK
      <3> QED BY <2>3, <3>1, Reporting, FinishEffect
    <2> QED BY <1>1, <2>1, <2>2, <2>3, ClientTouches
  <1>2. CASE Timer
    BY <1>2 DEF Timer, PauseOver, CooldownOver, HourOver, BackoffOver, gateVars, GateTypes,
       IInv, TypeOK
  <1>3. CASE Panel
    BY <1>3 DEF Panel, Configure, Disable, Status, gateVars, GateTypes, IInv, TypeOK
  <1> QED BY <1>1, <1>2, <1>3 DEF Next

LEMMA TypeStep ==
  ASSUME IInv, Next
  PROVE  TypeOK'
  <1>1. enabled' \in BOOLEAN /\ epoch' \in Nat
    <2>1. CASE UNCHANGED policyVars
      BY <2>1 DEF policyVars, IInv, TypeOK
    <2>2. CASE (\E on \in BOOLEAN : Configure(on)) \/ Disable
      <3>1. epoch' \in Nat
        BY <2>2 DEF Configure, Disable, IInv, TypeOK
      <3>2. enabled' \in BOOLEAN
        BY <2>2, Zenon DEF Configure, Disable
      <3> QED BY <3>1, <3>2
    <2> QED BY <2>1, <2>2, ClientTouches, OthersTouch DEF Next
  <1>2. LocalTypes'
    <2>1. CASE Timer \/ Panel
      BY <2>1, OthersTouch DEF localVars, LocalTypes, IInv, TypeOK
    <2> QED BY <2>1, LocalStep DEF Next, Local
  <1> QED BY <1>1, <1>2, GuardStep, SessionStep, GateStep
      DEF TypeOK, GuardTypes, SessionTypes, GateTypes, LocalTypes

-----------------------------------------------------------------------------
(* Placed *)

LEMMA PlacedStep ==
  ASSUME IInv, Next
  PROVE  Placed'
  <1> DEFINE Here(d) ==
        /\ pc[d] # "idle" => at[d] \in Keys \cup Sessions
        /\ pc[d] \in {"permit", "probe", "publish", "stream"} => via[d] \in Routes
        /\ pc[d] = "chosen" => cand[d] # None
  <1>1. ASSUME NEW c \in Clients, ClientStep(c)
        PROVE  Placed'
    <2>1. Others(c)
      BY <1>1, LocalStep DEF Local
    <2>2. \A d \in Clients \ {c} : Here(d)'
      BY <2>1 DEF Others, IInv, Placed
    <2>3. Here(c)'
      <3> USE DEF IInv, TypeOK, Placed, Goto
      <3>1. CASE Start(c)
        BY <3>1 DEF Start, Request, Refresh
      <3>2. CASE Leave(c)
        BY <3>2, LeaveLocal
      <3>3. CASE ~Leave(c) /\ (Borrow(c) \/ Recheck(c) \/ RoutesDone(c) \/ Last(c) \/ EndRound(c))
        BY <3>3 DEF Borrow, Recheck, RoutesDone, Last, EndRound, Return, Wake, localVars
      <3>4. CASE ~Leave(c) /\ (TryRoute(c) \/ Charge(c) \/ ProbeEnds(c))
        BY <3>4 DEF TryRoute, Charge, ProbeEnds, Withdraw, Return
      <3>5. CASE ~Leave(c) /\ (Publish(c) \/ TakeSlot(c) \/ GiveUp(c) \/ StreamLimited(c))
        BY <3>5 DEF Publish, TakeSlot, GiveUp, StreamLimited, Return, localVars
      <3>6. CASE ~Leave(c) /\ (Release(c) \/ Chosen(c) \/ Send(c) \/ Admit(c))
        BY <3>6 DEF Release, Chosen, Send, Admit, localVars
      <3>7. CASE ~Leave(c) /\ (NoResponse(c) \/ Respond(c) \/ StreamEnds(c))
        BY <3>7 DEF NoResponse, Respond, StreamEnds, localVars
      <3>8. CASE ~Leave(c) /\ Ensure(c)
        <4>1. at[c] \in Sessions /\ at' = at
          BY <3>8 DEF Ensure, Seated, OnSession, InEnsure, localVars
        <4>2. CASE pc'[c] # "chosen"
          BY <3>8, <4>1, <4>2 DEF Ensure, localVars
        <4>3. CASE pc'[c] = "chosen"
          <5>1. PICK j \in Judgement :
                  /\ SelectedFresh(at[c], j) \/ Fallback(c, j) # None
                  /\ cand' = [cand EXCEPT ![c] = Selected(at[c], j)]
            BY <3>8, <4>3 DEF Ensure, localVars
          <5> QED BY <4>1, <4>3, <5>1 DEF SelectedFresh, Fallback
        <4> QED BY <4>2, <4>3
      <3> QED BY <1>1, <3>1, <3>2, <3>3, <3>4, <3>5, <3>6, <3>7, <3>8 DEF ClientStep, Start, Proceed
    <2> QED BY <2>2, <2>3 DEF Placed
  <1>2. CASE Timer \/ Panel
    BY <1>2, OthersTouch DEF localVars, Placed, IInv
  <1> QED BY <1>1, <1>2 DEF Next

-----------------------------------------------------------------------------
(* Seated *)

LEMMA SeatedStep ==
  ASSUME IInv, Next
  PROVE  Seated'
  <1> DEFINE Here(d) ==
        /\ pc[d] = "borrow" => at[d] \in Keys
        /\ pc[d] \in OnSession => at[d] \in Sessions
        /\ pc[d] \in OnSession /\ ~manual[d] => at[d] \in table
        /\ pc[d] = "chosen" => ~manual[d]
  <1>1. ASSUME NEW c \in Clients, ClientStep(c)
        PROVE  Seated'
    <2> USE DEF OnSession, InEnsure, Round, Working, IInv, TypeOK, Seated
    <2>1. Others(c)
      BY <1>1, LocalStep DEF Local
    <2>2. \A d \in Clients : pc[d] \in OnSession /\ ~manual[d] => at[d] \in table'
      <3>1. \A gone \in SUBSET Expirable, d \in Clients :
              pc[d] \in OnSession /\ ~manual[d] => at[d] \notin gone
        BY DEF Expirable, Holders
      <3> QED BY <1>1, <3>1, TableEffect DEF Seats
    <2>3. \A d \in Clients \ {c} : Here(d)'
      BY <2>1, <2>2 DEF Others
    <2>4. Here(c)'
      <3> USE DEF Goto
      <3>1. CASE Start(c)
        BY <3>1 DEF Start, Request, Refresh, sessionVars
      <3>2. CASE Leave(c)
        BY <3>2, LeaveLocal
      <3>3. CASE ~Leave(c) /\ Borrow(c)
        <4>1. \E s \in Sessions : at' = [at EXCEPT ![c] = s] /\ s \in table'
          BY <3>3 DEF Borrow
        <4>2. pc'[c] = "ensure"
          BY <3>3 DEF Borrow
        <4> QED BY <4>1, <4>2
      <3>4. CASE ~Leave(c) /\ Ensure(c)
        <4>1. UNCHANGED <<at, manual>> /\ pc[c] = "ensure"
          BY <3>4 DEF Ensure, localVars
        <4>2. pc'[c] = "chosen" => ~manual[c]
          BY <3>4 DEF Ensure, Fallback
        <4>3. pc'[c] # "borrow"
          BY <3>4 DEF Ensure
        <4> QED BY <2>2, <4>1, <4>2, <4>3
      <3>5. CASE ~Leave(c) /\ ~Start(c) /\ ~Borrow(c) /\ ~Ensure(c)
        <4>1. UNCHANGED <<at, manual>>
          BY <1>1, <3>5 DEF ClientStep, Start, Proceed, Recheck, TryRoute, RoutesDone, Charge, ProbeEnds,
             Publish, Last, EndRound, Release, Chosen, Send, Admit, NoResponse, Respond,
             StreamEnds, TakeSlot, GiveUp, StreamLimited, Return, Withdraw, localVars
        <4>2. /\ pc'[c] \in OnSession => pc[c] \in OnSession
              /\ pc'[c] # "borrow"
              /\ pc'[c] = "chosen" => ~manual[c]
          <5>1. CASE Recheck(c) \/ TryRoute(c) \/ RoutesDone(c) \/ Charge(c) \/ ProbeEnds(c)
            BY <5>1 DEF Recheck, TryRoute, RoutesDone, Charge, ProbeEnds, Return, Withdraw
          <5>2. CASE Publish(c) \/ Last(c) \/ EndRound(c) \/ TakeSlot(c)
            BY <5>2 DEF Publish, Last, EndRound, Wake, TakeSlot, Return
          <5>3. CASE Release(c) \/ GiveUp(c)
            BY <3>5, <5>3 DEF Release, GiveUp, Return
          <5>4. CASE Chosen(c) \/ Send(c) \/ Admit(c) \/ NoResponse(c) \/ Respond(c)
            BY <3>5, <5>4 DEF Chosen, Send, Admit, NoResponse, Respond
          <5>5. CASE StreamEnds(c) \/ StreamLimited(c)
            BY <3>5, <5>5 DEF StreamEnds, StreamLimited
          <5> QED BY <1>1, <3>5, <5>1, <5>2, <5>3, <5>4, <5>5 DEF ClientStep, Start, Proceed
        <4> QED BY <2>2, <4>1, <4>2
      <3> QED BY <3>1, <3>2, <3>3, <3>4, <3>5
    <2> QED BY <2>3, <2>4
  <1>2. CASE Timer \/ Panel
    BY <1>2, OthersTouch DEF localVars, Seated, IInv
  <1> QED BY <1>1, <1>2 DEF Next

-----------------------------------------------------------------------------
(* Rounds and the slot *)

\* A step within a round, or outside of one, that leaves announcements and slot alone.
LEMMA OwnershipKept ==
  ASSUME IInv, NEW c \in Clients, Others(c), UNCHANGED <<probing, slot>>,
         pc[c] \in Round <=> pc'[c] \in Round,
         pc[c] \in Round => at'[c] = at[c],
         pc'[c] \in Working => pc[c] \in Working,
         slot = c => pc'[c] \in Working \cup {"end", "release"}
  PROVE  RoundOwnership'
  BY DEF Others, IInv, TypeOK, RoundOwnership, Round, Working

LEMMA OwnershipStep ==
  ASSUME IInv, Next
  PROVE  RoundOwnership'
  <1>1. ASSUME NEW c \in Clients, ClientStep(c)
        PROVE  RoundOwnership'
    <2>1. Others(c)
      BY <1>1, LocalStep DEF Local
    <2>2. slot = c => pc[c] \in Working \cup {"end", "release"}
      BY NoneAssumption DEF IInv, RoundOwnership
    <2> USE DEF Round, Working, Goto, IInv, TypeOK
    <2>3. CASE Start(c)
      BY <2>1, <2>2, <2>3, OwnershipKept DEF Start, Request, Refresh, sessionVars
    <2>4. CASE Borrow(c) \/ Chosen(c) \/ Send(c) \/ Admit(c)
      <3>1. /\ UNCHANGED <<probing, slot>> /\ pc[c] \in {"borrow", "chosen", "send", "admit"}
            /\ pc'[c] \in {"idle", "ensure", "send", "admit", "flight"}
        BY <2>4, LeaveLocal DEF Borrow, Chosen, Send, Admit, sessionVars
      <3> QED BY <2>1, <2>2, <3>1, OwnershipKept
    <2>5. CASE NoResponse(c) \/ Respond(c) \/ StreamLimited(c) \/ StreamEnds(c)
      BY <2>1, <2>2, <2>5, OwnershipKept, LeaveLocal
      DEF NoResponse, Respond, StreamLimited, StreamEnds, sessionVars
    <2>6. CASE GiveUp(c) \/ Recheck(c) \/ TryRoute(c) \/ RoutesDone(c) \/ Last(c)
      BY <2>1, <2>2, <2>6, OwnershipKept, LeaveLocal
      DEF GiveUp, Recheck, TryRoute, RoutesDone, Last, Return, localVars, sessionVars
    <2>7. CASE Charge(c) \/ ProbeEnds(c) \/ Publish(c)
      BY <2>1, <2>2, <2>7, OwnershipKept
      DEF Charge, ProbeEnds, Publish, Withdraw, Return, localVars, sessionVars
    <2>8. CASE Ensure(c)
      <3>1. at[c] \in Sessions
        BY <2>8 DEF Ensure, Seated, OnSession, InEnsure
      <3>2. CASE UNCHANGED probing
        <4>1. /\ UNCHANGED <<probing, slot>> /\ pc[c] = "ensure"
              /\ pc'[c] \in {"idle", "chosen", "wait"} \/ probing'[at[c]] = c
          BY <2>8, <3>1, <3>2, LeaveLocal DEF Ensure, localVars
        <4>2. probing[at[c]] # c
          BY <3>1, <4>1, NoneAssumption DEF RoundOwnership
        <4> QED BY <2>1, <2>2, <3>2, <4>1, <4>2, OwnershipKept
      <3>3. CASE probing' # probing
        <4>1. /\ probing[at[c]] = None /\ probing' = [probing EXCEPT ![at[c]] = c]
              /\ pc' = [pc EXCEPT ![c] = "slot"] /\ UNCHANGED <<at, slot>>
          BY <2>8, <3>3 DEF Ensure
        <4> QED BY <2>1, <2>2, <2>8, <3>1, <4>1, NoneAssumption DEF RoundOwnership, Ensure
      <3> QED BY <3>2, <3>3
    <2>9. CASE TakeSlot(c)
      BY <2>9, NoneAssumption DEF TakeSlot, RoundOwnership, localVars, sessionVars
    <2>10. CASE EndRound(c)
      <3>1. at[c] \in Sessions /\ probing[at[c]] = c
        BY <2>10 DEF EndRound, Seated, OnSession, InEnsure, RoundOwnership
      <3>2. /\ probing' = [probing EXCEPT ![at[c]] = None]
            /\ pc'[c] = "release" /\ UNCHANGED <<at, slot>>
        BY <2>10 DEF EndRound, Wake
      <3> QED BY <2>1, <2>2, <3>1, <3>2, NoneAssumption DEF RoundOwnership, Others
    <2>11. CASE Release(c)
      <3>1. /\ pc[c] = "release" /\ pc'[c] \in {"idle", "chosen"}
            /\ slot' = (IF slot = c THEN None ELSE slot) /\ UNCHANGED probing
        BY <2>11, LeaveLocal DEF Release, sessionVars
      <3> QED BY <2>1, <2>2, <3>1, NoneAssumption DEF RoundOwnership, Others
    <2> QED BY <1>1, <2>3, <2>4, <2>5, <2>6, <2>7, <2>8, <2>9, <2>10, <2>11 DEF ClientStep, Start, Proceed
  <1>2. CASE Timer \/ Panel
    BY <1>2, OthersTouch DEF localVars, RoundOwnership, IInv
  <1> QED BY <1>1, <1>2 DEF Next

-----------------------------------------------------------------------------
(* Permits *)

Holding == {"permit", "probe", "flight", "stream"}

\* A step that leaves the gate alone, of a client that keeps its route if it has a permit.
LEMMA PermitsKept ==
  ASSUME IInv, NEW c \in Clients, Others(c), UNCHANGED <<phase, live>>,
         pc[c] \in Holding /\ via[c] \in Routes => pc'[c] \in Holding /\ via'[c] = via[c]
  PROVE  PermitsReturned'
  BY DEF Others, IInv, TypeOK, PermitsReturned, Holding

\* The permit of c is gone.
LEMMA PermitGone ==
  ASSUME IInv, NEW c \in Clients, Others(c), LocalTypes', GateTypes',
         \A q \in Routes : live'[q] \subseteq live[q] \ {c},
         \A q \in Routes : phase'[q] = "trial" => phase[q] = "trial" /\ live'[q] = live[q]
  PROVE  PermitsReturned'
  BY DEF Others, IInv, TypeOK, PermitsReturned, LocalTypes, GateTypes

\* The permit of c is new.
LEMMA PermitTaken ==
  ASSUME IInv, NEW c \in Clients, Others(c), NEW r \in Routes, Begin(r, c),
         pc'[c] \in Holding, via'[c] = r, pc[c] \notin Holding
  PROVE  PermitsReturned'
  <1>1. /\ \A q \in Routes : q # r => live'[q] = live[q] /\ phase'[q] = phase[q]
        /\ c \in live'[r] /\ live'[r] \subseteq live[r] \cup {c}
    BY BeginEffect
  <1>2. \A q \in Routes : c \notin live[q]
    BY DEF IInv, PermitsReturned, Holding
  <1>3. \A q \in Routes : \A d \in live'[q] : (d = c /\ q = r) \/ d \in live[q]
    BY <1>1
  <1>4. \A q \in Routes : \A d \in live[q] :
          d \in Clients \ {c} /\ pc[d] \in Holding /\ via[d] = q
    BY <1>2 DEF IInv, TypeOK, PermitsReturned, Holding
  <1>5. \A q \in Routes : \A d \in live'[q] : pc'[d] \in Holding /\ via'[d] = q
    BY <1>3, <1>4 DEF Others, Holding
  <1>6. \A q \in Routes : phase'[q] = "trial" => live'[q] # {}
    BY <1>1 DEF IInv, PermitsReturned
  <1> QED BY <1>5, <1>6 DEF PermitsReturned, Holding

LEMMA PermitsStep ==
  ASSUME IInv, Next
  PROVE  PermitsReturned'
  <1>1. ASSUME NEW c \in Clients, ClientStep(c)
        PROVE  PermitsReturned'
    <2>1. Others(c) /\ LocalTypes'
      BY <1>1, LocalStep DEF Local
    <2>2. CASE gateVars' # gateVars /\ (TryRoute(c) \/ Admit(c))
      <3>1. PICK r \in Routes : Begin(r, c) /\ via'[c] = r /\ pc'[c] \in {"permit", "flight"}
        BY <2>2 DEF TryRoute, Admit, Goto, localVars, IInv, TypeOK
      <3> QED BY <2>1, <2>2, <3>1, PermitTaken DEF Holding, TryRoute, Admit
    <2>3. CASE /\ gateVars' # gateVars
               /\ ProbeEnds(c) \/ NoResponse(c) \/ StreamEnds(c) \/ Charge(c)
      <3>1. Charge(c) => pc'[c] = "end"
        BY <2>3 DEF Charge, Withdraw, Return, Goto, IInv, TypeOK
      <3> QED BY <2>1, <2>3, <3>1, Reporting, FinishEffect, PermitGone
    <2>4. CASE UNCHANGED gateVars
      <3>1. UNCHANGED <<phase, live>>
        BY <2>4 DEF gateVars
      <3>2. CASE pc[c] \notin Holding
        BY <2>1, <3>1, <3>2, PermitsKept
      <3>3. CASE StreamLimited(c) \/ Respond(c)
        BY <2>1, <3>1, <3>3, PermitsKept, NoneAssumption
        DEF StreamLimited, Respond, Goto, localVars, Holding, IInv, TypeOK
      <3>4. CASE Charge(c) \/ ProbeEnds(c) \/ NoResponse(c) \/ StreamEnds(c)
        <4>1. CASE Charge(c) /\ pc'[c] = "probe"
          BY <2>1, <3>1, <4>1, PermitsKept DEF Charge, Withdraw, Return, Goto, Holding, IInv, TypeOK
        <4>2. CASE via[c] \in Routes /\ \E o : Finish(c, o)
          BY <2>1, <4>2, FinishEffect, PermitGone
        <4>3. CASE via[c] \notin Routes
          BY <2>1, <3>1, <4>3, PermitsKept
        <4> QED BY <3>4, <4>1, <4>2, <4>3, NoneAssumption
            DEF Charge, Withdraw, ProbeEnds, NoResponse, StreamEnds, Goto, IInv, TypeOK
      <3> QED BY <1>1, <3>2, <3>3, <3>4 DEF ClientStep, Proceed, Request, Refresh, Borrow, Ensure,
             Recheck, TryRoute, RoutesDone, Publish, Last, EndRound, Release, Chosen, Send, Admit,
             TakeSlot, GiveUp, Holding
    <2> QED BY <1>1, <2>2, <2>3, <2>4, ClientTouches
  <1>2. CASE Timer \/ Panel
    BY <1>2, OthersTouch DEF localVars, PermitsReturned, IInv
  <1> QED BY <1>1, <1>2 DEF Next

-----------------------------------------------------------------------------
(* Candidates *)

LEMMA CurrentStep ==
  ASSUME IInv, Next
  PROVE  CurrentCandidates'
  <1>1. ASSUME NEW c \in Clients, ClientStep(c)
        PROVE  CurrentCandidates'
    <2>1. UNCHANGED <<enabled, epoch>>
      BY <1>1, ClientTouches DEF policyVars
    <2>2. Publishable(c) => Collected(c).epoch = epoch
      BY DEF Publishable, Collected
    <2>3. CASE Borrow(c)
      <3>1. \A s \in table' : \/ active'[s] = None /\ ready'[s] = None
                              \/ s \in table /\ active'[s] = active[s] /\ ready'[s] = ready[s]
        <4>1. table' \subseteq Sessions
          BY <1>1, TableType
        <4> QED BY <2>3, <4>1 DEF Borrow
      <3> QED BY <2>1, <3>1 DEF CurrentCandidates, IInv
    <2>4. CASE UNCHANGED table
      BY <1>1, <2>1, <2>2, <2>4, CandidatesEffect DEF CurrentCandidates, IInv, TypeOK
    <2> QED BY <1>1, <2>3, <2>4, TableEffect
  <1>2. CASE Timer
    BY <1>2, OthersTouch DEF Timer, PauseOver, CooldownOver, HourOver, BackoffOver,
       policyVars, sessionVars, CurrentCandidates, IInv
  <1>3. CASE Panel
    <2>1. ASSUME NEW on \in BOOLEAN, Configure(on)
          PROVE  CurrentCandidates'
      BY <2>1 DEF Configure, guardVars, CurrentCandidates, IInv, TypeOK
    <2>2. CASE Disable
      BY <2>2 DEF Disable, CurrentCandidates
    <2>3. CASE Status
      BY <2>3 DEF Status, policyVars, CurrentCandidates, IInv, TypeOK
    <2> QED BY <1>3, <2>1, <2>2, <2>3 DEF Panel
  <1> QED BY <1>1, <1>2, <1>3 DEF Next

-----------------------------------------------------------------------------
(* The distance between rounds *)

\* Somebody who works upstream is alone.
LEMMA OneWorks ==
  ASSUME IInv, NEW c \in Clients, NEW d \in Clients, pc[c] \in Working, pc[d] \in Working
  PROVE  c = d
  BY DEF IInv, RoundOwnership

LEMMA AttemptedStep ==
  ASSUME IInv, Next
  PROVE  Attempted'
  <1> DEFINE Here(d) ==
        /\ attempts[d] > 0 => pc[d] \in Working \cup {"end"} /\ slot = d
        /\ pc[d] \in {"probe", "publish"} => attempts[d] > 0
        /\ pc[d] \in {"route", "permit"} /\ attempts[d] = 0 => ~cooling[Scope(at[d])]
  <1>1. ASSUME NEW c \in Clients, ClientStep(c)
        PROVE  Attempted'
    <2>1. Others(c) /\ LocalTypes'
      BY <1>1, LocalStep DEF Local
    <2>2. CASE UNCHANGED <<slot, cooling>> /\ ~Charge(c) /\ ~EndRound(c)
      <3>1. \A d \in Clients \ {c} : Here(d)'
        BY <2>1, <2>2 DEF Others, Working, IInv, Attempted, TypeOK
      <3>2. Here(c)'
        <4> USE DEF IInv, TypeOK, Attempted, Goto, Working
        <4>1. CASE Start(c)
          BY <2>2, <4>1 DEF Start, Request, Refresh
        <4>2. CASE Leave(c)
          BY <4>2, LeaveLocal
        <4>3. CASE ~Leave(c) /\ (Borrow(c) \/ Ensure(c) \/ GiveUp(c) \/ Recheck(c))
          <5>1. attempts'[c] = attempts[c]
            BY <4>3 DEF Borrow, Ensure, GiveUp, Recheck, Return, localVars
          <5>2. CASE Borrow(c)
            BY <2>2, <4>3, <5>1, <5>2 DEF Borrow
          <5>3. CASE Ensure(c)
            <6>1. pc[c] = "ensure" /\ pc'[c] \in {"chosen", "wait", "slot"}
              BY <4>3, <5>3 DEF Ensure
            <6> QED BY <5>1, <6>1
          <5>4. CASE GiveUp(c) \/ Recheck(c)
            BY <2>2, <4>3, <5>1, <5>4 DEF GiveUp, Recheck, Return, localVars
          <5> QED BY <4>3, <5>2, <5>3, <5>4
        <4>4. CASE ~Leave(c) /\ (TryRoute(c) \/ RoutesDone(c) \/ ProbeEnds(c))
          BY <2>2, <4>4 DEF TryRoute, RoutesDone, ProbeEnds, localVars, guardVars
        <4>5. CASE ~Leave(c) /\ (Publish(c) \/ Last(c))
          BY <2>2, <4>5 DEF Publish, Last, Return, localVars, guardVars
        <4>6. CASE ~Leave(c) /\ (Release(c) \/ Chosen(c) \/ Send(c) \/ Admit(c))
          BY <2>2, <4>6 DEF Release, Chosen, Send, Admit, localVars
        <4>7. CASE ~Leave(c) /\ (NoResponse(c) \/ Respond(c) \/ StreamLimited(c) \/ StreamEnds(c))
          BY <2>2, <4>7 DEF NoResponse, Respond, StreamLimited, StreamEnds, localVars
        <4>8. CASE TakeSlot(c)
          BY <2>2, <4>8 DEF TakeSlot, localVars
        <4> QED BY <1>1, <2>2, <4>1, <4>2, <4>3, <4>4, <4>5, <4>6, <4>7, <4>8
            DEF ClientStep, Start, Proceed
      <3> QED BY <3>1, <3>2 DEF Attempted
    <2>3. CASE TakeSlot(c)
      BY <2>1, <2>3, NoneAssumption
      DEF TakeSlot, Goto, guardVars, localVars, Attempted, Working, IInv, TypeOK
    <2>4. CASE Release(c)
      <3>1. attempts[c] = 0 /\ attempts'[c] = 0 /\ pc'[c] \in {"idle", "chosen"}
        BY <2>4, LeaveLocal DEF Release, Goto, localVars, Attempted, Working, IInv, TypeOK
      <3>2. slot' = (IF slot = c THEN None ELSE slot) /\ UNCHANGED cooling
        BY <2>4 DEF Release, guardVars
      <3> QED BY <2>1, <3>1, <3>2 DEF Others, Working, Attempted, IInv, TypeOK
    <2>5. CASE Charge(c)
      <3>1. pc[c] = "permit" /\ slot = c /\ UNCHANGED <<slot, at>>
        BY <2>5 DEF Charge, Withdraw, Return, RoundOwnership, IInv, Working
      <3>2. \A d \in Clients \ {c} : pc[d] \notin {"route", "permit"}
        BY <3>1, OneWorks DEF Working
      <3>3. \A d \in Clients \ {c} : Here(d)'
        BY <2>1, <3>1, <3>2 DEF Others, IInv, Attempted, TypeOK
      <3>4. \/ pc'[c] = "end" /\ attempts'[c] = attempts[c]
            \/ pc'[c] = "probe" /\ attempts'[c] = attempts[c] + 1
        BY <2>5 DEF Charge, Withdraw, Return, Goto, IInv, TypeOK
      <3>5. Here(c)'
        BY <3>1, <3>4 DEF IInv, TypeOK, Working
      <3> QED BY <3>3, <3>5 DEF Attempted
    <2>6. CASE EndRound(c)
      <3>1. /\ pc[c] = "end" /\ pc'[c] = "release" /\ attempts'[c] = 0
            /\ UNCHANGED <<slot, at>> /\ Scope(at[c]) \in Scopes
        BY <2>6, SessionsInUse DEF EndRound, Wake, Proceed, IInv, TypeOK
      <3>2. CASE attempts[c] > 0
        <4>1. \A d \in Clients \ {c} : pc[d] \notin {"route", "permit"}
          BY <3>1, <3>2 DEF IInv, Attempted, RoundOwnership, Working
        <4> QED BY <2>1, <3>1, <4>1 DEF Others, Working, IInv, Attempted, TypeOK
      <3>3. CASE ~(attempts[c] > 0)
        <4>1. \A a \in Scopes : cooling'[a] = cooling[a]
          BY <2>6, <3>1, <3>3, Zenon DEF EndRound, IInv, TypeOK
        <4>2. \A d \in Clients : pc[d] # "idle" => Scope(at[d]) \in Scopes
          BY ScopeOfSession DEF IInv, Placed
        <4> QED BY <2>1, <3>1, <4>1, <4>2 DEF Others, Working, IInv, Attempted, TypeOK
      <3> QED BY <3>2, <3>3
    <2> QED BY <1>1, <2>2, <2>3, <2>4, <2>5, <2>6, ClientTouches
  <1>2. CASE Timer
    <2>1. UNCHANGED <<pc, at, attempts, slot>> /\ \A a \in Scopes : cooling'[a] => cooling[a]
      <3>1. ASSUME NEW a \in Scopes, CooldownOver(a)
            PROVE  \A b \in Scopes : cooling'[b] => cooling[b]
        BY <3>1 DEF CooldownOver, IInv, TypeOK
      <3> QED BY <1>2, <3>1, OthersTouch
          DEF Timer, PauseOver, HourOver, BackoffOver, guardVars, localVars
    <2>2. \A d \in Clients : pc[d] # "idle" => Scope(at[d]) \in Scopes
      BY ScopeOfSession DEF IInv, Placed
    <2> QED BY <2>1, <2>2 DEF Attempted, IInv
  <1>3. CASE Panel
    BY <1>3 DEF Panel, Configure, Disable, Status, guardVars, localVars, Attempted, IInv
  <1> QED BY <1>1, <1>2, <1>3 DEF Next

-----------------------------------------------------------------------------
(* Theorems *)

LEMMA IInvStep == IInv /\ [Next]_vars => IInv'
  <1>1. ASSUME IInv, Next
        PROVE  IInv'
    BY <1>1, TypeStep, PlacedStep, SeatedStep, OwnershipStep, PermitsStep, CurrentStep, AttemptedStep DEF IInv
  <1>2. ASSUME IInv, UNCHANGED vars
        PROVE  IInv'
    BY <1>2 DEF vars, policyVars, guardVars, sessionVars, gateVars, localVars, IInv, TypeOK,
       Placed, Seated, RoundOwnership, PermitsReturned, CurrentCandidates, Attempted
  <1> QED BY <1>1, <1>2

\* The inductive invariant.
THEOREM IInvAlways == Spec => []IInv
  BY InitIInv, IInvStep, PTL DEF Spec

\* Every variable keeps its type: no candidate without a route, no client without its place.
THEOREM TypeCorrect == Spec => []TypeOK
  <1>1. IInv => TypeOK
    BY DEF IInv
  <1> QED BY <1>1, IInvAlways, PTL

\* Rounds are single flight and alone upstream, and no exit of ensure keeps the
\* announcement or the slot.
THEOREM RoundsAlwaysOwned == Spec => []RoundOwnership
  <1>1. IInv => RoundOwnership
    BY DEF IInv
  <1> QED BY <1>1, IInvAlways, PTL

\* No path of ensure or roundTrip keeps a permit, and a trial is in someone's hands.
THEOREM PermitsAlwaysReturned == Spec => []PermitsReturned
  <1>1. IInv => PermitsReturned
    BY DEF IInv
  <1> QED BY <1>1, IInvAlways, PTL

\* While the collector is enabled, the candidates stored in its sessions are of the
\* configuration in force, whatever rounds were under way when it changed.
THEOREM CandidatesAlwaysCurrent == Spec => []CurrentCandidates
  <1>1. IInv => CurrentCandidates
    BY DEF IInv
  <1> QED BY <1>1, IInvAlways, PTL

\* A request is leased only a candidate of the configuration in force, whatever happened
\* between ensure and the lease (state_core.go:645-661); once leased, it is sent with it.
LeasesCurrent ==
  [][\A c \in Clients :
       pc[c] = "chosen" /\ pc'[c] = "send" => enabled /\ cand[c].epoch = epoch]_vars

\* The lease looks for the candidate in a session that a request still finds in the table.
LEMMA LeaseStep ==
  ASSUME IInv, Next, NEW c \in Clients, pc[c] = "chosen", pc'[c] = "send"
  PROVE  enabled /\ cand[c].epoch = epoch
  <1>1. CASE ClientStep(c)
    <2>1. Chosen(c)
      BY <1>1 DEF ClientStep, Proceed, Request, Refresh, Borrow, Ensure, Recheck, TryRoute,
         RoutesDone, Charge, ProbeEnds, Publish, Last, EndRound, Release, Send, Admit, NoResponse,
         Respond, StreamEnds, TakeSlot, GiveUp, StreamLimited
    <2>2. enabled /\ cand[c] \in {active[at[c]], ready[at[c]]}
      BY <2>1, LeaveLocal DEF Chosen
    <2>3. at[c] \in table /\ cand[c] # None
      BY DEF IInv, Seated, Placed, OnSession
    <2> QED BY <2>2, <2>3 DEF IInv, CurrentCandidates
  <1>2. ASSUME NEW d \in Clients, d # c, ClientStep(d)
        PROVE  FALSE
    BY <1>2, LocalStep DEF Local, Others
  <1>3. CASE Timer \/ Panel
    BY <1>3, OthersTouch
  <1> QED BY <1>1, <1>2, <1>3 DEF Next

\* No request is leased a candidate of an old configuration.
THEOREM LeasesAlwaysCurrent == Spec => LeasesCurrent
  <1>1. IInv /\ [Next]_vars =>
          [\A c \in Clients :
             pc[c] = "chosen" /\ pc'[c] = "send" => enabled /\ cand[c].epoch = epoch]_vars
    BY LeaseStep
  <1> QED BY <1>1, IInvAlways, PTL DEF Spec, LeasesCurrent

\* The first probe of a round spends the account's cooldown, whoever else was about to;
\* and the end of a round that probed starts one.
LEMMA SpacedStep ==
  ASSUME IInv, Next, NEW c \in Clients
  PROVE  /\ attempts[c] = 0 /\ attempts'[c] = 1 => ~cooling[Scope(at[c])]
         /\ pc[c] = "end" /\ pc'[c] # "end" /\ attempts[c] > 0 => cooling'[Scope(at[c])]
  <1>1. CASE ClientStep(c)
    <2>1. CASE Charge(c)
      BY <2>1 DEF Charge, Withdraw, Return, Goto, IInv, TypeOK, Attempted
    <2>2. CASE EndRound(c)
      <3>1. Scope(at[c]) \in Scopes
        BY <2>2, SessionsInUse DEF Proceed
      <3>2. attempts[c] > 0 => cooling'[Scope(at[c])]
        BY <2>2, <3>1, Zenon DEF EndRound, IInv, TypeOK
      <3> QED BY <2>2, <3>2 DEF EndRound
    <2>3. CASE ~Charge(c) /\ ~EndRound(c)
      <3>1. pc[c] # "end"
        BY <1>1, <2>3 DEF ClientStep, Proceed, Request, Refresh, Borrow, Ensure, Recheck, TryRoute,
           RoutesDone, ProbeEnds, Publish, Last, Release, Chosen, Send, Admit, NoResponse, Respond,
           StreamEnds, TakeSlot, GiveUp, StreamLimited
      <3>2. attempts'[c] \in {attempts[c], 0}
        BY <1>1, <2>3, LeaveLocal DEF ClientStep, Proceed, Request, Refresh, Borrow, Ensure, Recheck,
           TryRoute, RoutesDone, ProbeEnds, Publish, Last, Release, Chosen, Send, Admit, NoResponse,
           Respond, StreamEnds, TakeSlot, GiveUp, StreamLimited, Return, localVars
      <3> QED BY <3>1, <3>2
    <2> QED BY <2>1, <2>2, <2>3
  <1>2. ASSUME NEW d \in Clients, d # c, ClientStep(d)
        PROVE  attempts'[c] = attempts[c] /\ (pc[c] = "end" => pc'[c] = "end")
    BY <1>2, LocalStep DEF Local, Others
  <1>3. CASE Timer \/ Panel
    BY <1>3, OthersTouch DEF localVars
  <1> QED BY <1>1, <1>2, <1>3 DEF Next, IInv, TypeOK

\* Two rounds on one account are a cooldown apart.
THEOREM RoundsAlwaysSpaced == Spec => RoundsSpaced
  <1>1. IInv /\ [Next]_vars =>
          [\A c \in Clients :
             /\ attempts[c] = 0 /\ attempts'[c] = 1 => ~cooling[Scope(at[c])]
             /\ pc[c] = "end" /\ pc'[c] # "end" /\ attempts[c] > 0
                  => cooling'[Scope(at[c])]]_vars
    BY SpacedStep
  <1> QED BY <1>1, IInvAlways, PTL DEF Spec, RoundsSpaced

-----------------------------------------------------------------------------
(* Limits *)

\* However requests, refreshes and expiry interleave: no account is probed more often in
\* an hour than the budget, no round tries more than MaxProbes times, and the two tables
\* stay within their capacities.
WithinLimits ==
  /\ \A a \in Scopes : probes[a] <= HourlyBudget
  /\ \A c \in Clients : attempts[c] <= MaxProbes
  /\ Cardinality(guards) <= MaxGuards /\ Cardinality(table) <= MaxSessions

\* A permit is taken with an attempt to spare, and the tables are finite.
LimitsInv ==
  /\ WithinLimits
  /\ \A c \in Clients : pc[c] = "permit" => attempts[c] < MaxProbes
  /\ IsFiniteSet(guards) /\ IsFiniteSet(table)

\* A set has room for one more element, or has it already.
Fits(x, S, n) == x \in S \/ ~(Cardinality(S) >= n)

LEMMA RoomForOne ==
  ASSUME NEW S, IsFiniteSet(S), NEW x, NEW n \in Nat, Cardinality(S) <= n, Fits(x, S, n)
  PROVE  IsFiniteSet(S \cup {x}) /\ Cardinality(S \cup {x}) <= n
  <1>1. CASE x \in S
    <2>1. S \cup {x} = S
      BY <1>1
    <2> QED BY <2>1
  <1>2. CASE x \notin S
    <2>1. Cardinality(S) \in Nat /\ Cardinality(S) < n
      BY <1>2, FS_CardinalityType DEF Fits
    <2>2. IsFiniteSet(S \cup {x}) /\ Cardinality(S \cup {x}) = Cardinality(S) + 1
      BY <1>2, FS_AddElement
    <2> QED BY <2>1, <2>2
  <1> QED BY <1>1, <1>2

LEMMA GuardsWithin ==
  ASSUME IInv, LimitsInv, Next
  PROVE  IsFiniteSet(guards') /\ Cardinality(guards') <= MaxGuards
  <1>1. CASE UNCHANGED guards
    BY <1>1 DEF LimitsInv, WithinLimits
  <1>2. ASSUME NEW a, guards' = guards \cup {a}, Fits(a, guards, MaxGuards)
        PROVE  IsFiniteSet(guards') /\ Cardinality(guards') <= MaxGuards
    BY <1>2, RoomForOne, BoundAssumption DEF LimitsInv, WithinLimits
  <1>3. ASSUME NEW c \in Clients, ClientStep(c)
        PROVE  \/ UNCHANGED guards
               \/ \E a : guards' = guards \cup {a} /\ Fits(a, guards, MaxGuards)
    <2>1. CASE Borrow(c)
      <3>1. Cardinality(guards) \in Nat
        BY FS_CardinalityType DEF LimitsInv
      <3> QED BY <2>1, <3>1, BoundAssumption DEF Borrow, Fits
    <2>2. CASE ProbeEnds(c) \/ Respond(c) \/ StreamLimited(c)
      BY <2>2 DEF ProbeEnds, Respond, StreamLimited, Reject, Fits
    <2>3. CASE ~(Borrow(c) \/ ProbeEnds(c) \/ Respond(c) \/ StreamLimited(c))
      BY <1>3, <2>3 DEF ClientStep, Proceed, Request, Refresh, Ensure, Recheck, TryRoute,
         RoutesDone, Charge, Publish, Last, EndRound, Release, Chosen, Send, Admit, NoResponse,
         StreamEnds, TakeSlot, GiveUp, guardVars
    <2> QED BY <2>1, <2>2, <2>3
  <1>4. ASSUME Timer \/ Panel
        PROVE  UNCHANGED guards
    BY <1>4 DEF Timer, PauseOver, CooldownOver, HourOver, BackoffOver, Panel, Configure, Disable,
       Status, guardVars
  <1> QED BY <1>1, <1>2, <1>3, <1>4 DEF Next

LEMMA TableWithin ==
  ASSUME IInv, LimitsInv, Next
  PROVE  IsFiniteSet(table') /\ Cardinality(table') <= MaxSessions
  <1>1. CASE UNCHANGED table
    BY <1>1 DEF LimitsInv, WithinLimits
  <1>2. ASSUME NEW c \in Clients, NEW gone \in SUBSET Expirable, Seats(c, gone)
        PROVE  IsFiniteSet(table') /\ Cardinality(table') <= MaxSessions
    <2> DEFINE kept == table \ gone
    <2>1. /\ IsFiniteSet(kept) /\ Cardinality(kept) <= Cardinality(table)
          /\ Cardinality(kept) \in Nat /\ Cardinality(table) \in Nat
      BY FS_Subset, FS_CardinalityType DEF LimitsInv
    <2>2. Cardinality(kept) <= MaxSessions
      BY <2>1, BoundAssumption DEF LimitsInv, WithinLimits
    <2>3. \/ table' = kept
          \/ \E s \in Sessions : table' = kept \cup {s} /\ Fits(s, kept, MaxSessions)
      BY <1>2, <2>1, BoundAssumption DEF Seats, Fits
    <2> HIDE DEF kept
    <2> QED BY <2>1, <2>2, <2>3, RoomForOne, BoundAssumption
  <1>3. ASSUME NEW c \in Clients, ClientStep(c)
        PROVE  UNCHANGED table \/ \E gone \in SUBSET Expirable : Seats(c, gone)
    BY <1>3, TableEffect
  <1> QED BY <1>1, <1>2, <1>3, OthersTouch DEF Next

LEMMA ProbesWithin ==
  ASSUME IInv, LimitsInv, Next
  PROVE  \A a \in Scopes : probes'[a] <= HourlyBudget
  <1> USE PolicyAssumption DEF LimitsInv, WithinLimits, IInv, TypeOK
  <1>1. CASE UNCHANGED probes
    BY <1>1
  <1>2. ASSUME NEW c \in Clients, Charge(c)
        PROVE  \A a \in Scopes : probes'[a] <= HourlyBudget
    BY <1>2 DEF Charge
  <1>3. ASSUME NEW a \in Scopes, HourOver(a)
        PROVE  \A b \in Scopes : probes'[b] <= HourlyBudget
    BY <1>3 DEF HourOver
  <1>4. ASSUME NEW c \in Clients, ClientStep(c), ~Charge(c)
        PROVE  UNCHANGED probes
    BY <1>4 DEF ClientStep, Proceed, Request, Refresh, Borrow, Ensure, Recheck, TryRoute,
       RoutesDone, ProbeEnds, Publish, Last, EndRound, Release, Chosen, Send, Admit, NoResponse,
       Respond, StreamEnds, TakeSlot, GiveUp, StreamLimited, guardVars
  <1>5. CASE Timer \/ Panel
    BY <1>1, <1>3, <1>5 DEF Timer, PauseOver, CooldownOver, BackoffOver, Panel, Configure,
       Disable, Status, guardVars
  <1> QED BY <1>1, <1>2, <1>4, <1>5 DEF Next

LEMMA AttemptsWithin ==
  ASSUME IInv, LimitsInv, Next
  PROVE  /\ \A c \in Clients : attempts'[c] <= MaxProbes
         /\ \A c \in Clients : pc'[c] = "permit" => attempts'[c] < MaxProbes
  <1> USE PolicyAssumption DEF LimitsInv, WithinLimits, IInv, TypeOK
  <1> DEFINE Within(d) == attempts'[d] <= MaxProbes /\ (pc'[d] = "permit" => attempts'[d] < MaxProbes)
  <1>1. ASSUME NEW c \in Clients, ClientStep(c)
        PROVE  \A d \in Clients : Within(d)
    <2>1. \A d \in Clients \ {c} : Within(d)
      BY <1>1, LocalStep DEF Local, Others
    <2>2. Within(c)
      <3>1. CASE TryRoute(c)
        BY <3>1 DEF TryRoute, Goto
      <3>2. CASE Charge(c)
        <4>1. /\ pc[c] = "permit"
              /\ \/ pc'[c] = "end" /\ attempts'[c] = attempts[c]
                 \/ pc'[c] = "probe" /\ attempts'[c] = attempts[c] + 1
          BY <3>2 DEF Charge, Withdraw, Return, Goto
        <4> QED BY <4>1
      <3>3. CASE ~TryRoute(c) /\ ~Charge(c)
        <4>1. attempts'[c] \in {attempts[c], 0}
          BY <1>1, <3>3, LeaveLocal DEF ClientStep, Proceed, Request, Refresh, Borrow, Ensure,
             Recheck, RoutesDone, ProbeEnds, Publish, Last, EndRound, Release, Chosen, Send, Admit,
             NoResponse, Respond, StreamEnds, TakeSlot, GiveUp, StreamLimited, Return, localVars
        <4>2. pc'[c] # "permit"
          BY <1>1, <3>3, LeaveLocal DEF ClientStep, Proceed, Request, Refresh, Borrow, Ensure,
             Recheck, RoutesDone, ProbeEnds, Publish, Last, EndRound, Release, Chosen, Send, Admit,
             NoResponse, Respond, StreamEnds, TakeSlot, GiveUp, StreamLimited, Return, Wake, Goto
        <4> QED BY <4>1, <4>2
      <3> QED BY <3>1, <3>2, <3>3
    <2> QED BY <2>1, <2>2
  <1>2. CASE Timer \/ Panel
    BY <1>2, OthersTouch DEF localVars
  <1> QED BY <1>1, <1>2 DEF Next

\* Budgets and capacities are kept, whatever runs at the same time.
THEOREM LimitsAlwaysKept == Spec => []WithinLimits
  <1>1. Init => LimitsInv
    BY PolicyAssumption, BoundAssumption, FS_EmptySet DEF Init, LimitsInv, WithinLimits
  <1>2. IInv /\ LimitsInv /\ [Next]_vars => LimitsInv'
    <2>1. ASSUME IInv, LimitsInv, Next
          PROVE  LimitsInv'
      BY <2>1, GuardsWithin, TableWithin, ProbesWithin, AttemptsWithin DEF LimitsInv, WithinLimits
    <2>2. ASSUME LimitsInv, UNCHANGED vars
          PROVE  LimitsInv'
      BY <2>2 DEF vars, guardVars, sessionVars, localVars, LimitsInv, WithinLimits
    <2> QED BY <2>1, <2>2
  <1>3. LimitsInv => WithinLimits
    BY DEF LimitsInv
  <1> QED BY <1>1, <1>2, <1>3, IInvAlways, PTL DEF Spec
=============================================================================
