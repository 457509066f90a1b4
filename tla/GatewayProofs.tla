----------------------------- MODULE GatewayProofs -----------------------------
(***************************************************************************)
(* Proofs about the collecting gateway (Gateway), for any requests,        *)
(* sessions, accounts, nodes and capacities: the pins of the sessions, the *)
(* rounds and the probe slot, the trips over a node, the nodes that are    *)
(* disabled and the memory of rejections.                                  *)
(***************************************************************************)
EXTENDS Gateway, FiniteSetTheorems, TLAPS

Placeless == {"idle", "work", "changing"}
Carrying == {"claim", "sent", "answered", "claimProbe", "probing", "offer", "record"}
RequestOnly == {"decide", "select", "claim", "sent", "answered"}

\* Who has a session and who a node, where the three kinds of actor can be, and that
\* the panel holds the lock alone.
Posts ==
  /\ \A x \in Actors : key[x] = None <=> pc[x] \in Placeless
  /\ \A x \in Actors : pc[x] \in Carrying => carry[x] \in Nodes
  /\ pc[Run] = "idle" => work = {}
  /\ \A c \in Clients : pc[c] \notin {"work", "changing"}
  /\ pc[Run] # "changing" /\ pc[Panel] # "work"
  /\ pc[Run] \notin RequestOnly /\ pc[Panel] \notin RequestOnly
  /\ pc[Panel] # "idle" => \A c \in Clients : pc[c] = "idle"

\* RoundsExclusive, actor by actor.
InRound(x) == pc[x] \in RoundLabels
RoundOwned ==
  /\ \A x \in Actors : InRound(x) => probing[key[x]]
  /\ \A x, y \in Actors : InRound(x) /\ InRound(y) /\ key[x] = key[y] => x = y
  /\ \A k \in Keys : probing[k] => \E x \in Actors : InRound(x) /\ key[x] = k
  /\ \A x \in Actors : slot = x <=> pc[x] \in RoundLabels \ {"slot"}
  /\ \A x \in Actors : pc[x] = "waiting" => probing[key[x]]

\* A node that had its trip is not free.
NodesSpent == \A n \in Nodes : trips[n] = 0 \/ (trips[n] = 1 /\ node[n] # "available")

IInv == TypeOK /\ Posts /\ PinsHeld /\ RoundOwned /\ NodesSpent /\ DisabledRests

\* The parts of TypeOK that different steps change.
SwitchTypes == up \in BOOLEAN /\ off \in BOOLEAN /\ epoch \in Nat /\ stopping \in BOOLEAN

SessionTypes ==
  /\ sessions \subseteq Keys
  /\ busy \in [Keys -> Nat]
  /\ probing \in [Keys -> BOOLEAN] /\ cooling \in [Keys -> BOOLEAN]
  /\ activated \in [Keys -> BOOLEAN]
  /\ active \in [Keys -> Nodes \cup {None}] /\ ready \in [Keys -> Nodes \cup {None}]
  /\ limit \in [Accounts -> Limits]

ActorTypes ==
  /\ slot \in Actors \cup {None}
  /\ pc \in [Actors -> Labels]
  /\ key \in [Actors -> Keys \cup {None}] /\ carry \in [Actors -> Nodes \cup {None}]
  /\ kind \in [Actors -> Kinds]
  /\ work \subseteq Keys

RoundTypes ==
  /\ since \in [Actors -> Nat] /\ tried \in [Actors -> SUBSET Nodes]
  /\ attempts \in [Actors -> Nat] /\ wins \in [Actors -> Nat]
  /\ outcome \in [Actors -> Outcomes] /\ only \in Nodes \cup {None}

TripTypes == trips \in [Nodes -> Nat]

LEMMA TypeParts ==
  /\ TypeOK <=> PoolTypeOK /\ SwitchTypes /\ SessionTypes /\ ActorTypes /\ RoundTypes /\ TripTypes
  /\ TypeOK' <=> PoolTypeOK' /\ SwitchTypes' /\ SessionTypes' /\ ActorTypes' /\ RoundTypes'
                 /\ TripTypes'
  BY DEF TypeOK, SwitchTypes, SessionTypes, ActorTypes, RoundTypes, TripTypes

LEMMA ActorsFinite == IsFiniteSet(Actors)
  <1>1. IsFiniteSet(Clients \cup {Run}) /\ IsFiniteSet((Clients \cup {Run}) \cup {Panel})
    BY ClientsAssumption, FS_AddElement
  <1>2. Actors = (Clients \cup {Run}) \cup {Panel}
    BY DEF Actors
  <1> QED BY <1>1, <1>2

LEMMA HoldersFinite ==
  ASSUME NEW k
  PROVE  IsFiniteSet(Holders(k)) /\ Cardinality(Holders(k)) \in Nat
  <1>1. Holders(k) \in SUBSET Actors
    BY DEF Holders
  <1>2. IsFiniteSet(Holders(k))
    BY <1>1, ActorsFinite, FS_Subset
  <1> QED BY <1>2, FS_CardinalityType

\* Nobody holds a session that is not pinned.
LEMMA NotHeld ==
  ASSUME IInv, NEW k \in Unpinned
  PROVE  k \in Keys /\ k \in sessions /\ busy[k] = 0 /\ Holders(k) = {}
  <1>1. k \in Keys /\ k \in sessions /\ busy[k] = 0
    BY DEF Unpinned, IInv, TypeOK
  <1>2. Cardinality(Holders(k)) = 0
    BY <1>1 DEF IInv, PinsHeld
  <1> QED BY <1>1, <1>2, HoldersFinite, FS_EmptySet

-----------------------------------------------------------------------------
(* The beginning, and a new engine *)

LEMMA InitIInv == Init => IInv
  <1> SUFFICES ASSUME Init PROVE IInv
    OBVIOUS
  <1> USE GatewayAssumption DEF Init, VolatileInit
  <1>1. TypeOK
    BY DEF TypeOK, PoolTypeOK, PoolInit, NodeStates, Limits, Labels, Kinds, Outcomes
  <1>2. Posts
    BY DEF Posts, Placeless, Carrying, RequestOnly, Actors
  <1>3. PinsHeld
    <2>1. ASSUME NEW k \in Keys PROVE Holders(k) = {}
      BY DEF Holders
    <2> QED BY <2>1, FS_EmptySet DEF PinsHeld
  <1>4. RoundOwned
    BY DEF RoundOwned, InRound, RoundLabels
  <1>5. NodesSpent /\ DisabledRests
    BY DEF NodesSpent, DisabledRests, Travelling
  <1> QED BY <1>1, <1>2, <1>3, <1>4, <1>5 DEF IInv

LEMMA NewEngineIInv ==
  ASSUME IInv, NewEngine, PoolTypeOK', up' \in BOOLEAN, UNCHANGED <<node, off, trips>>
  PROVE  IInv'
  <1> USE GatewayAssumption DEF NewEngine
  <1>1. TypeOK'
    BY DEF IInv, TypeOK, Limits, Labels, Kinds, Outcomes
  <1>2. Posts'
    BY DEF Posts, Placeless, Carrying, RequestOnly, Actors
  <1>3. PinsHeld'
    <2>1. ASSUME NEW k \in Keys PROVE Holders(k)' = {}
      BY DEF Holders
    <2> QED BY <2>1, FS_EmptySet DEF PinsHeld
  <1>4. RoundOwned'
    BY DEF RoundOwned, InRound, RoundLabels
  <1>5. NodesSpent' /\ DisabledRests'
    BY DEF IInv, NodesSpent, DisabledRests, Travelling
  <1> QED BY <1>1, <1>2, <1>3, <1>4, <1>5 DEF IInv

LEMMA EngineReplaced ==
  ASSUME IInv, ApplyConfig \/ Crash
  PROVE  IInv'
  <1>1. NewEngine /\ UNCHANGED <<node, off, trips>> /\ up' \in BOOLEAN /\ PoolTypeOK'
    BY DEF ApplyConfig, Crash, Reopen, poolVars, PoolTypeOK, IInv, TypeOK
  <1> QED BY <1>1, NewEngineIInv

-----------------------------------------------------------------------------
(* Who touches what *)

LEMMA RequestTouches ==
  ASSUME NEW c \in Clients, Request(c)
  PROVE  /\ UNCHANGED <<switchVars, probing, slot, work, since, tried, attempts, wins, only>>
         /\ poolVars' # poolVars => Claim(c) \/ End(c)
         /\ trips' # trips => Claim(c)
         /\ <<sessions, cooling, activated>>' # <<sessions, cooling, activated>> =>
              \E k \in Keys, asked \in Asks : Arrive(c, k, asked)
         /\ limit' # limit =>
              (\E k \in Keys, asked \in Asks : Arrive(c, k, asked)) \/ RespondRejected(c)
         /\ <<busy, key>>' # <<busy, key>> =>
              (\E k \in Keys, asked \in Asks : Arrive(c, k, asked)) \/ Leave(c)
  <1> USE DEF poolVars, switchVars, sessionVars, roundVars
  <1>1. CASE \E k \in Keys, asked \in Asks : Arrive(c, k, asked)
    BY <1>1 DEF Arrive
  <1>2. CASE Acquire(c) \/ Decide(c) \/ SelectEgress(c)
    BY <1>2 DEF Acquire, Decide, SelectEgress
  <1>3. CASE Claim(c)
    BY <1>3 DEF Claim
  <1>4. CASE Respond(c) \/ RespondRejected(c) \/ RespondSuspect(c)
    BY <1>4 DEF Respond, RespondRejected, RespondSuspect, Answered
  <1>5. CASE End(c)
    BY <1>5 DEF End
  <1> QED BY <1>1, <1>2, <1>3, <1>4, <1>5 DEF Request

LEMMA RoundTouches ==
  ASSUME NEW x \in Actors, Round(x)
  PROVE  /\ RoundFrame
         /\ poolVars' # poolVars => ClaimProbe(x) \/ Record(x)
         /\ trips' # trips => ClaimProbe(x)
         /\ limit' # limit => ProbeRejected(x)
         /\ <<active, ready>>' # <<active, ready>> => Offer(x)
  <1> USE DEF poolVars, switchVars, sessionVars, roundVars, RoundFrame
  <1>1. CASE Refresh(x) \/ StopWaiting(x) \/ TakeSlot(x)
    BY <1>1 DEF Refresh, StopWaiting, TakeSlot
  <1>2. CASE LoopEnds(x) \/ NextNode(x)
    BY <1>2 DEF LoopEnds, NextNode
  <1>3. CASE ClaimProbe(x) \/ Record(x)
    BY <1>3 DEF ClaimProbe, Record
  <1>4. CASE ProbeFits(x) \/ ProbeFails(x) \/ ProbeRejected(x) \/ Offer(x)
    BY <1>4 DEF ProbeFits, ProbeFails, ProbeRejected, ProbeAnswered, Offer
  <1> QED BY <1>1, <1>2, <1>3, <1>4 DEF Round

\* What the panel does short of a new engine.
Panels ==
  \/ \E k \in Keys, n \in Nodes \cup {None} : RetryState(k, n)
  \/ Retried \/ SetInjection \/ Pause \/ PoolChange

LEMMA OthersTouch ==
  ASSUME Worker \/ Panels \/ Time \/ Start
  PROVE  /\ UNCHANGED <<probing, slot, since, tried, attempts, wins, outcome>>
         /\ <<poolVars, trips>>' # <<poolVars, trips>> => PoolChange
         /\ limit' # limit => \E a \in Accounts : PauseOver(a)
         /\ <<sessions, activated>>' # <<sessions, activated>> => BackgroundWork
         /\ cooling' # cooling => BackgroundWork \/ \E k \in Keys : CooldownOver(k)
         /\ <<busy, key, work>>' # <<busy, key, work>> =>
              \/ BackgroundWork \/ RunRefresh \/ RunSkips \/ RunRefreshed
              \/ (\E k \in Keys, n \in Nodes \cup {None} : RetryState(k, n))
              \/ Retried
         /\ <<carry, kind>>' # <<carry, kind>> => Retried
         /\ up' # up => Start
         /\ off' # off => SetInjection
  <1> USE DEF poolVars, switchVars, sessionVars, roundVars
  <1>1. CASE Worker
    BY <1>1 DEF Worker, BackgroundWork, RunRefresh, RunSkips, RunRefreshed, RunDone, RunRests
  <1>2. CASE Panels /\ ~PoolChange
    BY <1>2 DEF Panels, RetryState, Retried, SetInjection, Pause
  <1>3. CASE PoolChange
    BY <1>3 DEF PoolChange, Resume
  <1>4. CASE Time \/ Start
    BY <1>4 DEF Time, StateExpires, CooldownOver, PauseOver, Start
  <1> QED BY <1>1, <1>2, <1>3, <1>4

LEMMA NextCases ==
  ASSUME Next
  PROVE  \/ \E c \in Clients : Request(c)
         \/ \E x \in Actors : Round(x)
         \/ Worker \/ Panels \/ Time \/ Start
         \/ ApplyConfig \/ Crash
  BY DEF Next, Management, Panels

-----------------------------------------------------------------------------
(* What the helpers do *)

\* What a step of one actor does to the others.
Others(x) ==
  \A y \in Actors \ {x} :
    /\ pc'[y] = pc[y] \/ (pc[y] = "waiting" /\ pc'[y] = "after")
    /\ key'[y] = key[y] /\ carry'[y] = carry[y]

LEMMA GotoEffect ==
  ASSUME IInv, NEW x \in Actors, NEW label \in Labels, Goto(x, label)
  PROVE  /\ pc' \in [Actors -> Labels] /\ pc'[x] = label
         /\ \A y \in Actors \ {x} : pc'[y] = pc[y]
  BY DEF Goto, IInv, TypeOK

LEMMA LeaveEffect ==
  ASSUME IInv, NEW x \in Actors, key[x] \in Keys, Leave(x)
  PROVE  /\ busy' = [busy EXCEPT ![key[x]] = @ - 1] /\ busy' \in [Keys -> Nat]
         /\ pc' \in [Actors -> Labels] /\ pc'[x] = "idle"
         /\ key' \in [Actors -> Keys \cup {None}] /\ key'[x] = None
         /\ carry' \in [Actors -> Nodes \cup {None}]
         /\ kind' \in [Actors -> Kinds]
         /\ Others(x)
  <1>1. Cardinality(Holders(key[x])) # 0
    <2>1. x \in Holders(key[x])
      BY DEF Holders
    <2> QED BY <2>1, HoldersFinite, FS_EmptySet
  <1>2. busy[key[x]] \in Nat /\ busy[key[x]] # 0
    BY <1>1 DEF IInv, PinsHeld, TypeOK
  <1>3. busy' = [busy EXCEPT ![key[x]] = @ - 1] /\ busy' \in [Keys -> Nat]
    <2>1. busy[key[x]] - 1 \in Nat
      BY <1>2
    <2>2. busy' = [busy EXCEPT ![key[x]] = busy[key[x]] - 1]
      BY DEF Leave, Release
    <2> QED BY <2>1, <2>2 DEF IInv, TypeOK
  <1>4. pc' \in [Actors -> Labels] /\ pc'[x] = "idle"
    BY DEF Leave, Goto, Labels, IInv, TypeOK
  <1>5. /\ key' \in [Actors -> Keys \cup {None}] /\ key'[x] = None
        /\ carry' \in [Actors -> Nodes \cup {None}]
    BY DEF Leave, IInv, TypeOK
  <1>6. kind' \in [Actors -> Kinds]
    BY DEF Leave, Kinds, IInv, TypeOK
  <1>7. Others(x)
    BY DEF Leave, Goto, Others, IInv, TypeOK
  <1> QED BY <1>3, <1>4, <1>5, <1>6, <1>7

\* The end of a round: whoever waits for it goes on, and nobody else does.
LEMMA EndRoundEffect ==
  ASSUME IInv, NEW x \in Actors, key[x] \in Keys, key' = key, EndRound(x)
  PROVE  /\ slot' \in Actors \cup {None} /\ pc' \in [Actors -> Labels]
         /\ carry' \in [Actors -> Nodes \cup {None}] /\ RoundTypes'
         /\ probing' \in [Keys -> BOOLEAN] /\ cooling' \in [Keys -> BOOLEAN]
         /\ pc'[x] = "after" /\ ~probing'[key[x]]
         /\ \A k \in Keys : k # key[x] => probing'[k] = probing[k]
         /\ \A y \in Actors : slot' = y <=> slot = y /\ y # x
         /\ \A y \in Actors \ {x} :
              pc'[y] = IF pc[y] = "waiting" /\ key[y] = key[x] THEN "after" ELSE pc[y]
         /\ Others(x)
  <1>1. /\ slot' \in Actors \cup {None}
        /\ \A y \in Actors : slot' = y <=> slot = y /\ y # x
    BY GatewayAssumption DEF EndRound, IInv, TypeOK
  <1>2. probing' \in [Keys -> BOOLEAN] /\ cooling' \in [Keys -> BOOLEAN]
    BY Zenon DEF EndRound, IInv, TypeOK
  <1>3. ~probing'[key[x]] /\ \A k \in Keys : k # key[x] => probing'[k] = probing[k]
    BY Zenon DEF EndRound, IInv, TypeOK
  <1>4. /\ pc' \in [Actors -> Labels] /\ pc'[x] = "after"
        /\ \A y \in Actors \ {x} :
              pc'[y] = IF pc[y] = "waiting" /\ key[y] = key[x] THEN "after" ELSE pc[y]
    BY DEF EndRound, Labels, IInv, TypeOK
  <1>5. /\ carry' \in [Actors -> Nodes \cup {None}]
        /\ \A y \in Actors \ {x} : carry'[y] = carry[y]
    BY DEF EndRound, IInv, TypeOK
  <1>6. RoundTypes'
    BY DEF EndRound, RoundTypes, Outcomes, IInv, TypeOK
  <1>7. Others(x)
    BY <1>4, <1>5 DEF Others
  <1> QED BY <1>1, <1>2, <1>3, <1>4, <1>5, <1>6, <1>7

\* Sessions that nobody holds are forgotten, and with them accounts that were not
\* rejected and have no others.
LEMMA ForgetEffect ==
  ASSUME IInv, NEW gone, Forget(gone)
  PROVE  /\ cooling' \in [Keys -> BOOLEAN]
         /\ active' \in [Keys -> Nodes \cup {None}] /\ ready' \in [Keys -> Nodes \cup {None}]
         /\ \A k \in Keys : active'[k] \in {active[k], None}
  <1>1. cooling' \in [Keys -> BOOLEAN]
    BY Zenon DEF Forget
  <1> QED BY <1>1 DEF Forget, IInv, TypeOK

LEMMA LimitsWithoutEffect ==
  ASSUME IInv, NEW gone
  PROVE  /\ LimitsWithout(gone) \in [Accounts -> Limits]
         /\ \A a \in Accounts :
              /\ LimitsWithout(gone)[a] # limit[a] =>
                   limit[a] = "free" /\ LimitsWithout(gone)[a] = "absent"
              /\ (\E k \in sessions \ gone : Account[k] = a) =>
                   LimitsWithout(gone)[a] = limit[a]
  BY DEF LimitsWithout, Limits, IInv, TypeOK

LEMMA RejectEffect ==
  ASSUME IInv, NEW k \in Keys, NEW status \in {"paused", "auth"}, Reject(k, status)
  PROVE  /\ limit' \in [Accounts -> Limits]
         /\ \A a \in Accounts :
              /\ limit[a] # "absent" => limit'[a] # "absent"
              /\ limit[a] = "auth" => limit'[a] = "auth"
              /\ limit[a] = "paused" => limit'[a] \in {"paused", "auth"}
  BY GatewayAssumption DEF Reject, Limits, IInv, TypeOK

LEMMA HasSession ==
  ASSUME IInv, NEW x \in Actors, pc[x] \notin Placeless
  PROVE  key[x] \in Keys
  BY DEF IInv, TypeOK, Posts

\* borrow: what is forgotten was held by nobody, and what is kept has its account.
LEMMA ArriveEffect ==
  ASSUME IInv, NEW c \in Clients, NEW k \in Keys, NEW asked \in Asks, Arrive(c, k, asked)
  PROVE  /\ SessionTypes' /\ ActorTypes' /\ Others(c)
         /\ pc[c] = "idle" /\ pc[Panel] = "idle" /\ key[c] = None
         /\ \A j \in sessions \ Unpinned : j \in sessions'
         /\ \A j \in sessions' : limit'[Account[j]] # "absent"
         /\ \A a \in Accounts : limit[a] \in {"paused", "auth"} => limit'[a] = limit[a]
         /\ \A j \in Keys : active'[j] \in {active[j], None}
         /\ \/ UNCHANGED <<busy, key, pc, carry>>
            \/ /\ busy' = [busy EXCEPT ![k] = @ + 1] /\ key' = [key EXCEPT ![c] = k]
               /\ k \in sessions' /\ pc'[c] \in {"refresh", "decide"}
  <1> USE GatewayAssumption
  <1>1. PICK gone \in SUBSET Unpinned :
          LET left == sessions \ gone
              limits == LimitsWithout(gone)
              injects == asked = "turn" /\ ~off
              served == Room(k, left, limits) /\ ~Restricted(k)
          IN
          /\ Forget(gone)
          /\ sessions' = IF Room(k, left, limits) THEN left \cup {k} ELSE left
          /\ limit' = IF Room(k, left, limits) /\ limits[Account[k]] = "absent"
                      THEN [limits EXCEPT ![Account[k]] = "free"] ELSE limits
          /\ activated' = [j \in Keys |-> (activated[j] /\ j \in left)
                                          \/ (j = k /\ served /\ injects)]
          /\ IF served
             THEN /\ busy' = [busy EXCEPT ![k] = @ + 1]
                  /\ key' = [key EXCEPT ![c] = k]
                  /\ kind' = [kind EXCEPT ![c] = IF injects THEN "inject" ELSE asked]
                  /\ carry' = [carry EXCEPT ![c] = Snapshot(kind'[c], active'[k])]
                  /\ Goto(c, IF injects /\ active'[k] = None THEN "refresh" ELSE "decide")
             ELSE UNCHANGED <<busy, key, kind, carry, pc>>
    BY Zenon DEF Arrive
  <1> DEFINE left == sessions \ gone
             limits == LimitsWithout(gone)
             injects == asked = "turn" /\ ~off
             served == Room(k, left, limits) /\ ~Restricted(k)
  <1> HIDE DEF left, limits, injects, served
  <1>2. /\ Forget(gone)
        /\ sessions' = IF Room(k, left, limits) THEN left \cup {k} ELSE left
        /\ limit' = IF Room(k, left, limits) /\ limits[Account[k]] = "absent"
                    THEN [limits EXCEPT ![Account[k]] = "free"] ELSE limits
    BY <1>1 DEF left, limits
  <1>3. activated' \in [Keys -> BOOLEAN]
    BY <1>1, Zenon
  <1>4. \/ UNCHANGED <<busy, key, kind, carry, pc>>
        \/ /\ Room(k, left, limits)
           /\ busy' = [busy EXCEPT ![k] = @ + 1]
           /\ key' = [key EXCEPT ![c] = k]
           /\ kind' = [kind EXCEPT ![c] = IF injects THEN "inject" ELSE asked]
           /\ carry' = [carry EXCEPT ![c] = Snapshot(kind'[c], active'[k])]
           /\ Goto(c, IF injects /\ active'[k] = None THEN "refresh" ELSE "decide")
    BY <1>1 DEF left, limits, served, injects
  <1>5. /\ pc[c] = "idle" /\ pc[Panel] = "idle"
        /\ UNCHANGED <<probing, slot, work>>
    BY DEF Arrive, Readable
  <1>6. left \in SUBSET Keys /\ left \subseteq sessions /\ sessions \ Unpinned \subseteq left
    BY DEF left, IInv, TypeOK
  <1>7. /\ limits \in [Accounts -> Limits]
        /\ \A a \in Accounts : limits[a] # limit[a] => limit[a] = "free"
        /\ \A j \in left : limits[Account[j]] = limit[Account[j]]
    <2>1. \A j \in left : Account[j] \in Accounts
      BY <1>6
    <2> QED BY <2>1, LimitsWithoutEffect DEF limits, left
  <1>8. /\ cooling' \in [Keys -> BOOLEAN]
        /\ active' \in [Keys -> Nodes \cup {None}] /\ ready' \in [Keys -> Nodes \cup {None}]
        /\ \A j \in Keys : active'[j] \in {active[j], None}
    BY <1>2, ForgetEffect
  <1>9. /\ sessions' \subseteq Keys /\ limit' \in [Accounts -> Limits]
        /\ \A a \in Accounts : limit'[a] # limits[a] => limits[a] = "absent" /\ limit'[a] = "free"
    BY <1>2, <1>6, <1>7 DEF Limits
  <1>10. \A j \in sessions' : limit'[Account[j]] # "absent"
    <2>1. \A j \in left : limits[Account[j]] # "absent"
      BY <1>6, <1>7 DEF IInv, PinsHeld, TypeOK
    <2> QED BY <1>2, <1>6, <1>7, <2>1
  <1>11. busy' \in [Keys -> Nat]
    BY <1>4 DEF IInv, TypeOK
  <1>12. SessionTypes'
    <2>1. probing' \in [Keys -> BOOLEAN]
      BY <1>5 DEF IInv, TypeOK
    <2> QED BY <1>3, <1>8, <1>9, <1>11, <2>1 DEF SessionTypes
  <1>13. kind' \in [Actors -> Kinds]
    BY <1>4 DEF Kinds, IInv, TypeOK
  <1>14. carry' \in [Actors -> Nodes \cup {None}]
    <2>1. Snapshot(kind'[c], active'[k]) \in Nodes \cup {None}
      BY <1>8 DEF Snapshot
    <2> QED BY <1>4, <2>1 DEF IInv, TypeOK
  <1>15. key' \in [Actors -> Keys \cup {None}] /\ pc' \in [Actors -> Labels]
    BY <1>4 DEF Goto, Labels, IInv, TypeOK
  <1>16. ActorTypes'
    BY <1>5, <1>13, <1>14, <1>15 DEF ActorTypes, IInv, TypeOK
  <1>17. Others(c)
    BY <1>4 DEF Goto, Others, IInv, TypeOK
  <1>18. key[c] = None
    BY <1>5 DEF IInv, Posts, Placeless, Actors
  <1>19. \/ UNCHANGED <<busy, key, pc, carry>>
         \/ /\ busy' = [busy EXCEPT ![k] = @ + 1] /\ key' = [key EXCEPT ![c] = k]
            /\ k \in sessions' /\ pc'[c] \in {"refresh", "decide"}
    BY <1>2, <1>4 DEF Goto, Actors, IInv, TypeOK
  <1>20. \A a \in Accounts : limit[a] \in {"paused", "auth"} => limit'[a] = limit[a]
    BY <1>7, <1>9
  <1>21. \A j \in sessions \ Unpinned : j \in sessions'
    BY <1>2, <1>6
  <1> QED BY <1>5, <1>8, <1>10, <1>12, <1>16, <1>17, <1>18, <1>19, <1>20, <1>21

-----------------------------------------------------------------------------
(* Types, and what the others keep *)

LEMMA PoolEffect ==
  ASSUME IInv, NEW ns, NEW s \in NodeStates, Change(ns, s)
  PROVE  /\ PoolTypeOK'
         /\ \A n \in Nodes : node'[n] = node[n] \/ (n \in ns /\ node'[n] = s)
  BY DEF Change, Saved, NotSaved, PoolTypeOK, IInv, TypeOK

LEMMA TripEffect ==
  ASSUME IInv, NEW n \in Nodes, Trip(n)
  PROVE  TripTypes' /\ trips' = [trips EXCEPT ![n] = @ + 1]
  BY DEF Trip, TripTypes, IInv, TypeOK

LEMMA RequestStep ==
  ASSUME IInv, NEW c \in Clients, Request(c)
  PROVE  TypeOK' /\ Others(c)
  <1> c \in Actors
    BY DEF Actors
  <1>1. CASE \E k \in Keys, asked \in Asks : Arrive(c, k, asked)
    <2>1. SessionTypes' /\ ActorTypes' /\ Others(c)
      BY <1>1, ArriveEffect
    <2>2. PoolTypeOK' /\ SwitchTypes' /\ RoundTypes' /\ TripTypes'
      BY <1>1 DEF Arrive, poolVars, switchVars, roundVars, PoolTypeOK, SwitchTypes, RoundTypes,
         TripTypes, IInv, TypeOK
    <2> QED BY <2>1, <2>2, TypeParts
  <1>2. ASSUME ~\E k \in Keys, asked \in Asks : Arrive(c, k, asked)
        PROVE  TypeOK' /\ Others(c)
    <2>1. pc[c] \notin Placeless
      BY <1>2 DEF Request, Acquire, Decide, SelectEgress, Claim, Respond, RespondRejected,
         RespondSuspect, Answered, End, Placeless
    <2>2. key[c] \in Keys
      BY <2>1, HasSession
    <2>3. SwitchTypes'
      BY RequestTouches DEF switchVars, SwitchTypes, IInv, TypeOK
    <2>4. PoolTypeOK' /\ TripTypes'
      <3>1. CASE UNCHANGED poolVars /\ UNCHANGED trips
        BY <3>1 DEF poolVars, PoolTypeOK, TripTypes, IInv, TypeOK
      <3>2. CASE Claim(c)
        <4>1. carry[c] \in Nodes
          BY <3>2 DEF Claim, IInv, Posts, Carrying
        <4>2. TripTypes'
          BY <3>2, <4>1, TripEffect DEF Claim, TripTypes, IInv, TypeOK
        <4>3. PoolTypeOK'
          BY <3>2, PoolEffect DEF Claim, Change, NodeStates, poolVars, PoolTypeOK, IInv, TypeOK
        <4> QED BY <4>2, <4>3
      <3>3. CASE End(c)
        BY <3>3, PoolEffect DEF End, NodeStates, poolVars, PoolTypeOK, TripTypes, IInv, TypeOK
      <3> QED BY <3>1, <3>2, <3>3, RequestTouches
    <2>5. RoundTypes'
      <3>1. outcome' \in [Actors -> Outcomes]
        BY <1>2 DEF Request, Acquire, Decide, SelectEgress, Claim, Respond, RespondRejected,
           RespondSuspect, Answered, End, roundVars, Outcomes, IInv, TypeOK
      <3> QED BY <3>1, RequestTouches DEF RoundTypes, IInv, TypeOK
    <2>6. SessionTypes'
      <3>1. /\ sessions' \subseteq Keys
            /\ probing' \in [Keys -> BOOLEAN] /\ cooling' \in [Keys -> BOOLEAN]
            /\ activated' \in [Keys -> BOOLEAN]
        BY <1>2, RequestTouches DEF IInv, TypeOK
      <3>2. busy' \in [Keys -> Nat]
        BY <1>2, <2>2, RequestTouches, LeaveEffect DEF IInv, TypeOK
      <3>3. active' \in [Keys -> Nodes \cup {None}] /\ ready' \in [Keys -> Nodes \cup {None}]
        BY <1>2, <2>2 DEF Request, Acquire, Decide, SelectEgress, Claim, Respond, RespondRejected,
           RespondSuspect, Answered, End, sessionVars, IInv, TypeOK
      <3>4. limit' \in [Accounts -> Limits]
        <4>1. CASE UNCHANGED limit
          BY <4>1 DEF IInv, TypeOK
        <4>2. CASE RespondRejected(c)
          BY <2>2, <4>2, RejectEffect DEF RespondRejected
        <4> QED BY <1>2, <4>1, <4>2, RequestTouches
      <3> QED BY <3>1, <3>2, <3>3, <3>4 DEF SessionTypes
    <2>7. ActorTypes' /\ Others(c)
      <3>1. slot' \in Actors \cup {None} /\ work' \subseteq Keys
        BY RequestTouches DEF IInv, TypeOK
      <3>2. CASE Leave(c)
        BY <2>2, <3>1, <3>2, LeaveEffect DEF ActorTypes
      <3>3. CASE ~Leave(c)
        <4>1. /\ \E label \in Labels : Goto(c, label)
              /\ key' = key
              /\ \E v \in Nodes \cup {None} : carry' = [carry EXCEPT ![c] = v]
              /\ \E v \in Kinds : kind' = [kind EXCEPT ![c] = v]
          <5>1. carry = [carry EXCEPT ![c] = carry[c]] /\ carry[c] \in Nodes \cup {None}
            BY DEF IInv, TypeOK
          <5>2. kind = [kind EXCEPT ![c] = kind[c]] /\ kind[c] \in Kinds
            BY DEF IInv, TypeOK
          <5>3. CASE Acquire(c)
            <6>1. Snapshot(kind[c], active[key[c]]) \in Nodes \cup {None}
              BY <2>2 DEF Snapshot, IInv, TypeOK
            <6> QED BY <5>2, <5>3, <6>1 DEF Acquire, Labels
          <5>4. CASE Decide(c)
            BY <3>3, <5>1, <5>2, <5>4 DEF Decide, Labels, Kinds
          <5>5. CASE SelectEgress(c)
            <6>1. Eligible(carry[c]) \in SUBSET (Nodes \cup {None})
              BY <5>1, GatewayAssumption DEF Eligible
            <6>2. "sent" \in Labels /\ "claim" \in Labels
              BY DEF Labels
            <6>3. \E n \in Eligible(carry[c]) :
                    /\ carry' = [carry EXCEPT ![c] = n]
                    /\ Goto(c, IF kind[c] = "plain" THEN "sent" ELSE "claim")
                    /\ UNCHANGED <<key, kind>>
              BY <3>3, <5>5 DEF SelectEgress
            <6> QED BY <5>2, <6>1, <6>2, <6>3
          <5>6. CASE Claim(c)
            BY <3>3, <5>1, <5>2, <5>6 DEF Claim, Labels
          <5>7. CASE Respond(c) \/ RespondRejected(c) \/ RespondSuspect(c)
            BY <5>1, <5>2, <5>7 DEF Respond, RespondRejected, RespondSuspect, Answered, Labels
          <5>8. ~End(c)
            BY <3>3 DEF End
          <5> QED BY <1>2, <5>3, <5>4, <5>5, <5>6, <5>7, <5>8 DEF Request
        <4>2. pc' \in [Actors -> Labels] /\ key' \in [Actors -> Keys \cup {None}]
          BY <4>1, GotoEffect DEF IInv, TypeOK
        <4>3. carry' \in [Actors -> Nodes \cup {None}] /\ kind' \in [Actors -> Kinds]
          BY <4>1 DEF IInv, TypeOK
        <4>4. Others(c)
          BY <4>1, GotoEffect DEF Others, IInv, TypeOK
        <4> QED BY <3>1, <4>2, <4>3, <4>4 DEF ActorTypes
      <3> QED BY <3>2, <3>3
    <2> QED BY <2>3, <2>4, <2>5, <2>6, <2>7, TypeParts
  <1> QED BY <1>1, <1>2

\* Where a round is, and what it has.
LEMMA RoundPosts ==
  ASSUME IInv, NEW x \in Actors, Round(x)
  PROVE  /\ key[x] \in Keys /\ pc[x] \in {"refresh", "waiting"} \cup RoundLabels
         /\ ClaimProbe(x) \/ Record(x) \/ Offer(x) => carry[x] \in Nodes
  <1>1. pc[x] \in {"refresh", "waiting"} \cup RoundLabels
    BY DEF Round, Refresh, StopWaiting, TakeSlot, LoopEnds, NextNode, ClaimProbe, ProbeFits,
       ProbeFails, ProbeRejected, ProbeAnswered, Offer, Record, RoundLabels
  <1>2. key[x] \in Keys
    BY <1>1, HasSession DEF RoundLabels, Placeless
  <1>3. ClaimProbe(x) \/ Record(x) \/ Offer(x) => carry[x] \in Nodes
    BY DEF ClaimProbe, Record, Offer, IInv, Posts, Carrying
  <1> QED BY <1>1, <1>2, <1>3

\* The steps of a round that are not its end.
LEMMA RoundGoesOn ==
  ASSUME IInv, NEW x \in Actors, Round(x), ~EndRound(x)
  PROVE  /\ \/ pc' = pc
            \/ \E label \in {"after", "waiting"} \cup RoundLabels : Goto(x, label)
         /\ \/ carry' = carry
            \/ \E v \in Nodes \cup {None} : carry' = [carry EXCEPT ![x] = v]
         /\ UNCHANGED cooling
         /\ probing' # probing => Refresh(x)
         /\ slot' # slot => TakeSlot(x)
         /\ RoundTypes'
  <1> USE DEF RoundTypes, IInv, TypeOK
  <1>1. CASE Refresh(x) \/ StopWaiting(x)
    BY <1>1 DEF Refresh, StopWaiting, RoundLabels, sessionVars, roundVars
  <1>2. CASE TakeSlot(x)
    BY <1>2 DEF TakeSlot, RoundLabels, roundVars
  <1>3. CASE LoopEnds(x)
    BY <1>3 DEF LoopEnds
  <1>4. CASE NextNode(x)
    <2>1. PICK n \in Candidates(x) :
            /\ tried' = [tried EXCEPT ![x] = @ \cup {n}]
            /\ \/ carry' = [carry EXCEPT ![x] = n] /\ Goto(x, "claimProbe")
               \/ UNCHANGED <<carry, pc>>
      BY <1>4 DEF NextNode
    <2>2. n \in Nodes
      BY GatewayAssumption DEF Candidates, Manual
    <2> QED BY <1>4, <2>1, <2>2 DEF NextNode, RoundLabels
  <1>5. CASE ClaimProbe(x)
    BY <1>5 DEF ClaimProbe, RoundLabels, roundVars
  <1>6. CASE ProbeFits(x) \/ ProbeFails(x) \/ ProbeRejected(x)
    <2>1. /\ \E o \in Outcomes : outcome' = [outcome EXCEPT ![x] = o]
          /\ UNCHANGED <<probing, cooling, slot, carry, since, tried, attempts, wins, only>>
      BY <1>6 DEF ProbeFits, ProbeFails, ProbeRejected, ProbeAnswered, Outcomes
    <2>2. \E label \in RoundLabels : Goto(x, label)
      BY <1>6 DEF ProbeFits, ProbeFails, ProbeRejected, RoundLabels
    <2> QED BY <2>1, <2>2
  <1>7. CASE Offer(x)
    BY <1>7 DEF Offer, RoundLabels, Outcomes
  <1>8. CASE Record(x)
    <2>1. /\ wins' = [wins EXCEPT ![x] = @ + IF outcome[x] = "accepted" THEN 1 ELSE 0]
          /\ outcome' = [outcome EXCEPT ![x] = "none"]
          /\ carry' = [carry EXCEPT ![x] = None]
          /\ Goto(x, "loop")
          /\ UNCHANGED <<probing, cooling, slot, since, tried, attempts, only>>
      BY <1>8 DEF Record
    <2>2. wins' \in [Actors -> Nat] /\ outcome' \in [Actors -> Outcomes]
      BY <2>1 DEF Outcomes
    <2> QED BY <2>1, <2>2 DEF RoundLabels
  <1> QED BY <1>1, <1>2, <1>3, <1>4, <1>5, <1>6, <1>7, <1>8 DEF Round

LEMMA RoundStep ==
  ASSUME IInv, NEW x \in Actors, Round(x)
  PROVE  TypeOK' /\ Others(x)
  <1> DEFINE k == key[x]
  <1>0. k \in Keys /\ key' = key /\ UNCHANGED <<switchVars, sessions, busy, activated, kind, work>>
    BY RoundPosts, RoundTouches DEF RoundFrame
  <1>1. SwitchTypes'
    BY <1>0 DEF SwitchTypes, switchVars, IInv, TypeOK
  <1>2. PoolTypeOK' /\ TripTypes'
    <2>1. CASE UNCHANGED poolVars /\ UNCHANGED trips
      BY <2>1 DEF poolVars, PoolTypeOK, TripTypes, IInv, TypeOK
    <2>2. CASE ClaimProbe(x)
      <3>1. carry[x] \in Nodes
        BY <2>2, RoundPosts
      <3>2. TripTypes'
        BY <2>2, <3>1, TripEffect DEF ClaimProbe, TripTypes, IInv, TypeOK
      <3>3. PoolTypeOK'
        BY <2>2, PoolEffect DEF ClaimProbe, Change, NodeStates, poolVars, PoolTypeOK, IInv, TypeOK
      <3> QED BY <3>2, <3>3
    <2>3. CASE Record(x)
      <3>1. Change({carry[x]}, "used") \/ Change({carry[x]}, "failed")
        BY <2>3 DEF Record, Change
      <3> QED BY <2>3, <3>1, PoolEffect DEF Record, NodeStates, TripTypes, IInv, TypeOK
    <2> QED BY <2>1, <2>2, <2>3, RoundTouches
  <1>3. /\ active' \in [Keys -> Nodes \cup {None}] /\ ready' \in [Keys -> Nodes \cup {None}]
    <2>1. CASE UNCHANGED <<active, ready>>
      BY <2>1 DEF IInv, TypeOK
    <2>2. CASE Offer(x)
      BY <1>0, <2>2, RoundPosts DEF Offer, IInv, TypeOK
    <2> QED BY <2>1, <2>2, RoundTouches
  <1>4. limit' \in [Accounts -> Limits]
    <2>1. CASE UNCHANGED limit
      BY <2>1 DEF IInv, TypeOK
    <2>2. CASE ProbeRejected(x)
      BY <1>0, <2>2, RejectEffect DEF ProbeRejected
    <2> QED BY <2>1, <2>2, RoundTouches
  <1>5. /\ probing' \in [Keys -> BOOLEAN] /\ cooling' \in [Keys -> BOOLEAN]
        /\ slot' \in Actors \cup {None} /\ RoundTypes'
        /\ pc' \in [Actors -> Labels] /\ carry' \in [Actors -> Nodes \cup {None}]
        /\ Others(x)
    <2>1. CASE EndRound(x)
      BY <1>0, <2>1, EndRoundEffect
    <2>2. CASE ~EndRound(x)
      <3>1. probing' \in [Keys -> BOOLEAN]
        <4>1. CASE UNCHANGED probing
          BY <4>1 DEF IInv, TypeOK
        <4>2. CASE Refresh(x) /\ probing' # probing
          <5>1. probing' = [probing EXCEPT ![k] = TRUE]
            BY <4>2 DEF Refresh
          <5> QED BY <5>1, Zenon DEF IInv, TypeOK
        <4> QED BY <2>2, <4>1, <4>2, RoundGoesOn
      <3>2. slot' \in Actors \cup {None}
        <4>1. CASE UNCHANGED slot
          BY <4>1 DEF IInv, TypeOK
        <4>2. CASE TakeSlot(x)
          BY <2>2, <4>2 DEF TakeSlot
        <4> QED BY <2>2, <4>1, <4>2, RoundGoesOn
      <3>3. /\ pc' \in [Actors -> Labels]
            /\ \A y \in Actors \ {x} : pc'[y] = pc[y]
        <4>1. {"after", "waiting"} \cup RoundLabels \subseteq Labels
          BY DEF Labels
        <4> QED BY <2>2, <4>1, RoundGoesOn, GotoEffect DEF IInv, TypeOK
      <3>4. /\ carry' \in [Actors -> Nodes \cup {None}]
            /\ \A y \in Actors \ {x} : carry'[y] = carry[y]
        BY <2>2, RoundGoesOn DEF IInv, TypeOK
      <3>5. UNCHANGED cooling /\ RoundTypes'
        BY <2>2, RoundGoesOn
      <3> QED BY <1>0, <3>1, <3>2, <3>3, <3>4, <3>5 DEF Others, IInv, TypeOK
    <2> QED BY <2>1, <2>2
  <1>6. SessionTypes' /\ ActorTypes'
    BY <1>0, <1>3, <1>4, <1>5 DEF SessionTypes, ActorTypes, IInv, TypeOK
  <1> QED BY <1>1, <1>2, <1>5, <1>6, TypeParts

\* The worker releases a session.
LEMMA RunDoneEffect ==
  ASSUME IInv, NEW k \in Keys, Run \in Holders(k), RunDone(k)
  PROVE  /\ busy' = [busy EXCEPT ![k] = @ - 1] /\ busy' \in [Keys -> Nat]
         /\ key' \in [Actors -> Keys \cup {None}] /\ work' \subseteq Keys
         /\ key'[Run] = None /\ pc'[Run] = "work" /\ Others(Run)
  <1> Run \in Actors
    BY DEF Actors
  <1>1. busy[k] \in Nat /\ busy[k] # 0
    BY HoldersFinite, FS_EmptySet DEF IInv, PinsHeld, TypeOK
  <1>2. busy' = [busy EXCEPT ![k] = @ - 1] /\ busy' \in [Keys -> Nat]
    <2>1. busy[k] - 1 \in Nat
      BY <1>1
    <2>2. busy' = [busy EXCEPT ![k] = busy[k] - 1]
      BY DEF RunDone
    <2> QED BY <2>1, <2>2 DEF IInv, TypeOK
  <1>3. /\ key' \in [Actors -> Keys \cup {None}] /\ work' \subseteq Keys
        /\ key'[Run] = None /\ pc'[Run] = "work" /\ Others(Run)
    BY DEF RunDone, Goto, Others, IInv, TypeOK
  <1> QED BY <1>2, <1>3

LEMMA RunReleases ==
  ASSUME IInv, RunSkips \/ RunRefreshed
  PROVE  \E k \in Keys : Run \in Holders(k) /\ key[Run] \in {k, None} /\ RunDone(k)
  <1> Run \in Actors
    BY DEF Actors
  <1>1. CASE RunSkips
    BY <1>1 DEF RunSkips, Holders, IInv, TypeOK, Posts, Placeless
  <1>2. CASE RunRefreshed
    BY <1>2, HasSession DEF RunRefreshed, Holders, Placeless
  <1> QED BY <1>1, <1>2

\* backgroundWork: what is forgotten and what is chosen was held by nobody.
LEMMA BackgroundEffect ==
  ASSUME IInv, BackgroundWork
  PROVE  /\ SessionTypes' /\ pc[Run] = "idle" /\ UNCHANGED <<key, limit>>
         /\ sessions' \subseteq sessions /\ sessions \ Unpinned \subseteq sessions'
         /\ work' \subseteq Unpinned /\ work' \subseteq sessions'
         /\ busy' = [k \in Keys |-> IF k \in work' THEN busy[k] + 1 ELSE busy[k]]
         /\ \A k \in Keys : active'[k] \in {active[k], None}
  <1>1. PICK gone \in SUBSET Unpinned :
          /\ Forget(gone)
          /\ sessions' = sessions \ gone
          /\ activated' = [k \in Keys |-> activated[k] /\ k \notin gone]
          /\ work' = {k \in Unpinned \ gone : activated[k]}
          /\ busy' = [k \in Keys |-> IF k \in work' THEN busy[k] + 1 ELSE busy[k]]
    BY DEF BackgroundWork
  <1>2. activated' \in [Keys -> BOOLEAN]
    BY <1>1, Zenon
  <1>3. /\ work' \subseteq Unpinned /\ work' \subseteq sessions'
        /\ sessions' \subseteq sessions /\ sessions \ Unpinned \subseteq sessions'
    BY <1>1 DEF Unpinned
  <1>4. busy' \in [Keys -> Nat]
    BY <1>1 DEF IInv, TypeOK
  <1>5. pc[Run] = "idle" /\ UNCHANGED <<key, limit, probing>>
    BY DEF BackgroundWork
  <1>6. SessionTypes'
    BY <1>1, <1>2, <1>3, <1>4, <1>5, ForgetEffect DEF SessionTypes, IInv, TypeOK
  <1> QED BY <1>1, <1>3, <1>5, <1>6, ForgetEffect

LEMMA OthersStep ==
  ASSUME IInv, Worker \/ Panels \/ Time \/ Start
  PROVE  TypeOK'
  <1> Run \in Actors /\ Panel \in Actors
    BY DEF Actors
  <1>1. PoolTypeOK' /\ TripTypes'
    <2>1. CASE UNCHANGED <<poolVars, trips>>
      BY <2>1 DEF poolVars, PoolTypeOK, TripTypes, IInv, TypeOK
    <2>2. CASE PoolChange
      <3>1. PoolTypeOK'
        BY <2>2, PoolEffect DEF PoolChange, Change, NodeStates, poolVars, PoolTypeOK, IInv, TypeOK
      <3>2. TripTypes'
        BY <2>2 DEF PoolChange, TripTypes, IInv, TypeOK
      <3> QED BY <3>1, <3>2
    <2> QED BY <2>1, <2>2, OthersTouch
  <1>2. RoundTypes' /\ slot' \in Actors \cup {None}
    <2>1. only' \in Nodes \cup {None}
      BY DEF Worker, BackgroundWork, RunRefresh, RunSkips, RunRefreshed, RunDone, RunRests,
         Panels, RetryState, Retried, SetInjection, Pause, PoolChange, Resume,
         Time, StateExpires, CooldownOver, PauseOver, Start, roundVars, IInv, TypeOK
    <2> QED BY <2>1, OthersTouch DEF RoundTypes, IInv, TypeOK
  <1>3. SwitchTypes'
    <2>1. CASE Worker \/ Time
      BY <2>1 DEF Worker, BackgroundWork, RunRefresh, RunSkips, RunRefreshed, RunDone, RunRests,
         Time, StateExpires, CooldownOver, PauseOver, switchVars, SwitchTypes, IInv, TypeOK
    <2>2. CASE SetInjection
      <3>1. off' \in BOOLEAN /\ epoch' \in Nat
        BY <2>2 DEF SetInjection, IInv, TypeOK
      <3> QED BY <2>2, <3>1 DEF SetInjection, SwitchTypes, IInv, TypeOK
    <2>3. CASE Panels \/ Start
      BY <2>2, <2>3 DEF Panels, RetryState, Retried, Pause, PoolChange, Resume, Start,
         switchVars, SwitchTypes, IInv, TypeOK
    <2> QED BY <2>1, <2>2, <2>3
  <1>4. SessionTypes'
    <2>1. CASE BackgroundWork
      BY <2>1, BackgroundEffect
    <2>2. ASSUME ~BackgroundWork
          PROVE  /\ sessions' \subseteq Keys /\ activated' \in [Keys -> BOOLEAN]
                 /\ probing' \in [Keys -> BOOLEAN]
      BY <2>2, OthersTouch DEF IInv, TypeOK
    <2>3. ASSUME ~BackgroundWork PROVE cooling' \in [Keys -> BOOLEAN]
      <3>1. CASE UNCHANGED cooling
        BY <3>1 DEF IInv, TypeOK
      <3>2. CASE \E k \in Keys : CooldownOver(k)
        <4>1. PICK k \in Keys : cooling' = [cooling EXCEPT ![k] = FALSE]
          BY <3>2 DEF CooldownOver
        <4> QED BY <4>1, Zenon DEF IInv, TypeOK
      <3> QED BY <2>3, <3>1, <3>2, OthersTouch
    <2>4. ASSUME ~BackgroundWork
          PROVE  active' \in [Keys -> Nodes \cup {None}] /\ ready' \in [Keys -> Nodes \cup {None}]
      BY <2>4 DEF Worker, RunRefresh, RunSkips, RunRefreshed, RunDone, RunRests,
         Panels, RetryState, Retried, SetInjection, Pause, PoolChange, Resume,
         Time, StateExpires, CooldownOver, PauseOver, Start, sessionVars, IInv, TypeOK
    <2>5. limit' \in [Accounts -> Limits]
      BY OthersTouch DEF PauseOver, Limits, IInv, TypeOK
    <2>6. ASSUME ~BackgroundWork PROVE busy' \in [Keys -> Nat]
      <3>1. CASE UNCHANGED busy
        BY <3>1 DEF IInv, TypeOK
      <3>2. CASE RunSkips \/ RunRefreshed
        BY <3>2, RunReleases, RunDoneEffect
      <3>3. CASE \E k \in Keys, n \in Nodes \cup {None} : RetryState(k, n)
        BY <3>3 DEF RetryState, IInv, TypeOK
      <3>4. CASE Retried
        <4>1. key[Panel] \in Keys /\ Leave(Panel)
          BY <3>4, HasSession DEF Retried, Placeless
        <4> QED BY <4>1, LeaveEffect
      <3>5. CASE RunRefresh
        BY <3>5 DEF RunRefresh, sessionVars, IInv, TypeOK
      <3> QED BY <2>6, <3>1, <3>2, <3>3, <3>4, <3>5, OthersTouch
    <2> QED BY <2>1, <2>2, <2>3, <2>4, <2>5, <2>6 DEF SessionTypes
  <1>5. ActorTypes'
    <2>1. CASE Retried
      <3>1. key[Panel] \in Keys /\ Leave(Panel) /\ work' = work
        BY <2>1, HasSession DEF Retried, Placeless
      <3> QED BY <1>2, <3>1, LeaveEffect DEF ActorTypes, IInv, TypeOK
    <2>2. ASSUME ~Retried
          PROVE  carry' \in [Actors -> Nodes \cup {None}] /\ kind' \in [Actors -> Kinds]
      BY <2>2, OthersTouch DEF IInv, TypeOK
    <2>3. ASSUME ~Retried PROVE pc' \in [Actors -> Labels]
      BY <2>3 DEF Worker, BackgroundWork, RunRefresh, RunSkips, RunRefreshed, RunDone, RunRests,
         Panels, RetryState, SetInjection, Pause, PoolChange, Resume,
         Time, StateExpires, CooldownOver, PauseOver, Start, Goto, Labels, IInv, TypeOK
    <2>4. ASSUME ~Retried PROVE key' \in [Actors -> Keys \cup {None}] /\ work' \subseteq Keys
      <3>1. CASE UNCHANGED <<key, work>>
        BY <3>1 DEF IInv, TypeOK
      <3>2. CASE BackgroundWork
        BY <3>2, BackgroundEffect DEF SessionTypes, IInv, TypeOK
      <3>3. CASE RunSkips \/ RunRefreshed
        BY <3>3, RunReleases, RunDoneEffect
      <3>4. CASE RunRefresh
        BY <3>4 DEF RunRefresh, IInv, TypeOK
      <3>5. CASE \E k \in Keys, n \in Nodes \cup {None} : RetryState(k, n)
        BY <3>5 DEF RetryState, IInv, TypeOK
      <3> QED BY <2>4, <3>1, <3>2, <3>3, <3>4, <3>5, OthersTouch
    <2> QED BY <1>2, <2>1, <2>2, <2>3, <2>4 DEF ActorTypes
  <1> QED BY <1>1, <1>2, <1>3, <1>4, <1>5, TypeParts

LEMMA TypeStep ==
  ASSUME IInv, [Next]_vars
  PROVE  TypeOK'
  <1>1. CASE UNCHANGED vars
    BY <1>1 DEF vars, poolVars, switchVars, sessionVars, roundVars, IInv, TypeOK, PoolTypeOK
  <1>2. CASE ApplyConfig \/ Crash
    BY <1>2, EngineReplaced DEF IInv
  <1> QED BY <1>1, <1>2, NextCases, RequestStep, RoundStep, OthersStep

-----------------------------------------------------------------------------
(* Posts *)

\* Enough to look at the actor that moves.
LEMMA PostsKept ==
  ASSUME IInv, NEW x \in Actors, Others(x),
         key'[x] = None <=> pc'[x] \in Placeless,
         pc'[x] \in Carrying => carry'[x] \in Nodes,
         x \in Clients => pc'[x] \notin {"work", "changing"} /\ pc[Panel] = "idle",
         x = Run => pc'[x] \notin RequestOnly \cup {"changing"} /\ (pc'[x] = "idle" => work' = {}),
         x # Run => work' = work,
         x = Panel => /\ pc'[x] \notin RequestOnly \cup {"work"}
                      /\ pc'[x] # "idle" => \A c \in Clients : pc[c] = "idle"
  PROVE  Posts'
  <1> USE GatewayAssumption DEF Actors, Others, IInv, Posts
  <1>1. \A y \in Actors : key'[y] = None <=> pc'[y] \in Placeless
    BY DEF Placeless
  <1>2. \A y \in Actors : pc'[y] \in Carrying => carry'[y] \in Nodes
    BY DEF Carrying
  <1>3. pc'[Run] = "idle" => work' = {}
    OBVIOUS
  <1>4. \A c \in Clients : pc'[c] \notin {"work", "changing"}
    OBVIOUS
  <1>5. /\ pc'[Run] # "changing" /\ pc'[Panel] # "work"
        /\ pc'[Run] \notin RequestOnly /\ pc'[Panel] \notin RequestOnly
    BY DEF RequestOnly
  <1>6. pc'[Panel] # "idle" => \A c \in Clients : pc'[c] = "idle"
    OBVIOUS
  <1> QED BY <1>1, <1>2, <1>3, <1>4, <1>5, <1>6

\* A request is served under the management lock.
LEMMA RequestReads ==
  ASSUME IInv, NEW c \in Clients, Request(c)
  PROVE  /\ pc[Panel] = "idle" /\ c \in Actors /\ c # Run /\ c # Panel
         /\ \/ \E k \in Keys, asked \in Asks : Arrive(c, k, asked)
            \/ pc[c] \in RequestOnly \cup {"after"} /\ key[c] \in Keys
  <1> c \in Actors /\ c # Run /\ c # Panel
    BY GatewayAssumption DEF Actors
  <1>1. CASE \E k \in Keys, asked \in Asks : Arrive(c, k, asked)
    BY <1>1, ArriveEffect
  <1>2. CASE ~\E k \in Keys, asked \in Asks : Arrive(c, k, asked)
    <2>1. pc[c] \in RequestOnly \cup {"after"}
      BY <1>2 DEF Request, Acquire, Decide, SelectEgress, Claim, Respond, RespondRejected,
         RespondSuspect, Answered, End, RequestOnly
    <2>2. pc[c] # "idle" /\ pc[c] \notin Placeless
      BY <2>1 DEF RequestOnly, Placeless
    <2>3. key[c] \in Keys
      BY <2>2, HasSession
    <2>4. pc[Panel] = "idle"
      BY <2>2 DEF IInv, Posts
    <2> QED BY <2>1, <2>3, <2>4
  <1> QED BY <1>1, <1>2

\* A request that goes on keeps its session.
LEMMA RequestPosts ==
  ASSUME IInv, NEW c \in Clients, Request(c), pc[c] # "idle", ~Leave(c)
  PROVE  /\ key' = key /\ pc'[c] \in RequestOnly
         /\ pc'[c] \in Carrying => carry'[c] \in Nodes
  <1> c \in Actors
    BY DEF Actors
  <1> USE DEF Goto, RequestOnly, Carrying, IInv, TypeOK
  <1>1. CASE Acquire(c)
    BY <1>1 DEF Acquire
  <1>2. CASE Decide(c)
    BY <1>2 DEF Decide
  <1>3. CASE SelectEgress(c)
    <2>1. Eligible(carry[c]) \in SUBSET Nodes
      BY GatewayAssumption DEF Eligible
    <2> QED BY <1>3, <2>1 DEF SelectEgress
  <1>4. CASE Claim(c)
    BY <1>4 DEF Claim, Posts
  <1>5. CASE Respond(c) \/ RespondRejected(c) \/ RespondSuspect(c)
    BY <1>5 DEF Respond, RespondRejected, RespondSuspect, Answered, Posts
  <1> QED BY <1>1, <1>2, <1>3, <1>4, <1>5 DEF Request, Arrive, End

\* Where a step of a round leads, and the node it has then.
LEMMA RoundLeads ==
  ASSUME IInv, NEW x \in Actors, Round(x)
  PROVE  /\ pc'[x] \in {"after", "waiting"} \cup RoundLabels
         /\ pc'[x] \in Carrying => carry'[x] \in Nodes
  <1>1. CASE EndRound(x)
    BY <1>1, RoundPosts, RoundTouches, EndRoundEffect DEF RoundFrame, Carrying
  <1>2. CASE ~EndRound(x)
    <2> USE <1>2 DEF Goto, RoundLabels, Carrying, IInv, TypeOK
    <2>1. CASE Refresh(x) \/ StopWaiting(x)
      BY <2>1 DEF Refresh, StopWaiting
    <2>2. CASE TakeSlot(x) \/ LoopEnds(x)
      BY <2>2 DEF TakeSlot, LoopEnds
    <2>3. CASE NextNode(x)
      <3>1. Candidates(x) \in SUBSET Nodes
        BY GatewayAssumption DEF Candidates, Manual
      <3> QED BY <2>3, <3>1 DEF NextNode
    <2>4. CASE ClaimProbe(x)
      BY <2>4, RoundPosts DEF ClaimProbe
    <2>5. CASE ProbeFits(x) \/ ProbeFails(x) \/ ProbeRejected(x)
      BY <2>5 DEF ProbeFits, ProbeFails, ProbeRejected, ProbeAnswered, Posts
    <2>6. CASE Offer(x)
      BY <2>6 DEF Offer, Posts
    <2>7. CASE Record(x)
      BY <2>7 DEF Record
    <2> QED BY <2>1, <2>2, <2>3, <2>4, <2>5, <2>6, <2>7 DEF Round
  <1> QED BY <1>1, <1>2

LEMMA PostsStep ==
  ASSUME IInv, [Next]_vars
  PROVE  Posts'
  <1> Run \in Actors /\ Panel \in Actors /\ Run # Panel /\ Run \notin Clients /\ Panel \notin Clients
    BY GatewayAssumption DEF Actors
  <1>0. CASE UNCHANGED <<pc, key, carry, work>>
    BY <1>0 DEF IInv, Posts
  <1>1. ASSUME NEW c \in Clients, Request(c) PROVE Posts'
    <2>1. c \in Actors /\ c # Run /\ c # Panel /\ pc[Panel] = "idle" /\ Others(c) /\ work' = work
      BY <1>1, RequestReads, RequestStep, RequestTouches
    <2>2. CASE UNCHANGED <<pc, key, carry>>
      BY <1>0, <2>1, <2>2
    <2>3. CASE Leave(c) /\ pc[c] # "idle"
      <3>1. key[c] \in Keys
        BY <1>1, <2>3, RequestReads DEF Arrive
      <3>2. pc'[c] = "idle" /\ key'[c] = None
        BY <2>1, <2>3, <3>1, LeaveEffect
      <3> QED BY <2>1, <3>2, PostsKept DEF Placeless, Carrying
    <2>4. CASE ~Leave(c) /\ pc[c] # "idle"
      <3>1. /\ key' = key /\ pc'[c] \in RequestOnly
            /\ pc'[c] \in Carrying => carry'[c] \in Nodes
        BY <1>1, <2>4, RequestPosts
      <3>2. key[c] \in Keys
        BY <1>1, <2>4, RequestReads DEF Arrive
      <3> QED BY <2>1, <3>1, <3>2, PostsKept, GatewayAssumption DEF Placeless, RequestOnly
    <2>5. CASE \E k \in Keys, asked \in Asks : Arrive(c, k, asked) /\ ~UNCHANGED <<pc, key, carry>>
      <3>1. PICK k \in Keys : key' = [key EXCEPT ![c] = k] /\ pc'[c] \in {"refresh", "decide"}
        BY <2>5, ArriveEffect
      <3>2. key'[c] # None
        BY <2>1, <3>1, GatewayAssumption DEF IInv, TypeOK
      <3> QED BY <2>1, <3>1, <3>2, PostsKept DEF Placeless, Carrying
    <2>6. pc[c] = "idle" => \E k \in Keys, asked \in Asks : Arrive(c, k, asked)
      BY <1>1, RequestReads DEF RequestOnly
    <2> QED BY <2>2, <2>3, <2>4, <2>5, <2>6
  <1>2. ASSUME NEW x \in Actors, Round(x) PROVE Posts'
    <2>1. /\ key' = key /\ work' = work /\ key[x] \in Keys /\ Others(x)
          /\ pc[x] \in {"refresh", "waiting"} \cup RoundLabels
      BY <1>2, RoundTouches, RoundPosts, RoundStep DEF RoundFrame
    <2>2. /\ pc'[x] \in {"after", "waiting"} \cup RoundLabels
          /\ pc'[x] \in Carrying => carry'[x] \in Nodes
      BY <1>2, RoundLeads
    <2>3. pc'[x] \notin Placeless \cup RequestOnly /\ pc[x] # "idle"
      BY <2>1, <2>2 DEF RoundLabels, Placeless, RequestOnly
    <2>4. /\ x \in Clients => pc[Panel] = "idle"
          /\ x = Panel => \A c \in Clients : pc[c] = "idle"
      BY <2>3 DEF IInv, Posts
    <2>5. key'[x] # None
      BY <2>1, GatewayAssumption
    <2> QED BY <2>1, <2>2, <2>3, <2>4, <2>5, PostsKept DEF Placeless
  <1>3. CASE Worker
    <2>1. CASE BackgroundWork
      <3>1. pc'[Run] = "work" /\ Others(Run) /\ key' = key /\ pc[Run] = "idle"
        BY <2>1 DEF BackgroundWork, Goto, Others, IInv, TypeOK
      <3>2. key[Run] = None
        BY <3>1 DEF IInv, Posts, Placeless
      <3> QED BY <3>1, <3>2, PostsKept DEF Placeless, Carrying, RequestOnly
    <2>2. CASE RunRefresh
      <3>1. pc'[Run] = "refresh" /\ Others(Run) /\ key'[Run] \in Keys
        BY <2>2 DEF RunRefresh, Goto, Others, IInv, TypeOK
      <3> QED BY <3>1, PostsKept, GatewayAssumption DEF Placeless, Carrying, RequestOnly
    <2>3. CASE RunSkips \/ RunRefreshed
      <3>1. key'[Run] = None /\ pc'[Run] = "work" /\ Others(Run)
        BY <2>3, RunReleases, RunDoneEffect
      <3> QED BY <3>1, PostsKept DEF Placeless, Carrying, RequestOnly
    <2>4. CASE RunRests
      <3>1. /\ pc'[Run] = "idle" /\ Others(Run) /\ key' = key /\ pc[Run] = "work"
            /\ work' = {}
        BY <2>4 DEF RunRests, Goto, Others, IInv, TypeOK
      <3>2. key[Run] = None
        BY <3>1 DEF IInv, Posts, Placeless
      <3> QED BY <3>1, <3>2, PostsKept DEF Placeless, Carrying, RequestOnly
    <2> QED BY <1>3, <2>1, <2>2, <2>3, <2>4 DEF Worker
  <1>4. CASE Panels
    <2>0. work' = work
      BY <1>4 DEF Panels, RetryState, Retried, SetInjection, Pause, PoolChange
    <2>1. CASE \E k \in Keys, n \in Nodes \cup {None} : RetryState(k, n)
      <3>1. /\ pc'[Panel] = "refresh" /\ Others(Panel) /\ key'[Panel] \in Keys
            /\ \A c \in Clients : pc[c] = "idle"
        BY <2>1 DEF RetryState, Writable, Goto, Others, IInv, TypeOK
      <3> QED BY <2>0, <3>1, PostsKept, GatewayAssumption DEF Placeless, Carrying, RequestOnly
    <2>2. CASE Retried
      <3>1. key[Panel] \in Keys /\ Leave(Panel)
        BY <2>2, HasSession DEF Retried, Placeless
      <3>2. pc'[Panel] = "idle" /\ Others(Panel) /\ key'[Panel] = None
        BY <3>1, LeaveEffect
      <3> QED BY <2>0, <3>2, PostsKept DEF Placeless, Carrying, RequestOnly
    <2>3. CASE Pause
      <3>1. /\ pc'[Panel] = "changing" /\ Others(Panel) /\ key' = key /\ pc[Panel] = "idle"
            /\ \A c \in Clients : pc[c] = "idle"
        BY <2>3 DEF Pause, Writable, Readable, Goto, Others, IInv, TypeOK
      <3>2. key[Panel] = None
        BY <3>1 DEF IInv, Posts, Placeless
      <3> QED BY <2>0, <3>1, <3>2, PostsKept DEF Placeless, Carrying, RequestOnly
    <2>4. CASE PoolChange
      <3>1. /\ pc'[Panel] = "idle" /\ Others(Panel) /\ key' = key /\ pc[Panel] = "changing"
        BY <2>4 DEF PoolChange, Resume, Goto, Others, IInv, TypeOK
      <3>2. key[Panel] = None
        BY <3>1 DEF IInv, Posts, Placeless
      <3> QED BY <2>0, <3>1, <3>2, PostsKept DEF Placeless, Carrying, RequestOnly
    <2>5. CASE SetInjection
      BY <1>0, <2>5 DEF SetInjection
    <2> QED BY <1>4, <2>1, <2>2, <2>3, <2>4, <2>5 DEF Panels
  <1>5. CASE Time \/ Start
    BY <1>0, <1>5 DEF Time, StateExpires, CooldownOver, PauseOver, Start
  <1>6. CASE ApplyConfig \/ Crash
    BY <1>6, EngineReplaced DEF IInv
  <1> QED BY <1>0, <1>1, <1>2, <1>3, <1>4, <1>5, <1>6, NextCases DEF vars

-----------------------------------------------------------------------------
(* Pins *)

\* What is not pinned may go, an account stays with its sessions.
KeepsHeld ==
  /\ sessions \ Unpinned \subseteq sessions'
  /\ \A k \in sessions' : limit'[Account[k]] # "absent"

\* One pin is taken, one is given back, or the pins are what they were.
Pinned(x, k) == /\ Holders(k)' = Holders(k) \cup {x} /\ x \notin Holders(k)
                /\ busy'[k] = busy[k] + 1
                /\ k \in sessions'
Unpins(x, k) == /\ Holders(k)' = Holders(k) \ {x} /\ x \in Holders(k)
                /\ busy'[k] = busy[k] - 1
Same(k) == Holders(k)' = Holders(k) /\ busy'[k] = busy[k]

LEMMA PinsKept ==
  ASSUME IInv, KeepsHeld,
         \A k \in Keys : Same(k) \/ \E x \in Actors : Pinned(x, k) \/ Unpins(x, k)
  PROVE  PinsHeld'
  <1>1. ASSUME NEW k \in Keys
        PROVE  busy'[k] = Cardinality(Holders(k)') /\ (Holders(k)' # {} => k \in sessions')
    <2>1. busy[k] = Cardinality(Holders(k)) /\ IsFiniteSet(Holders(k))
      BY HoldersFinite DEF IInv, PinsHeld
    <2>2. Holders(k) # {} => k \in sessions'
      BY NotHeld DEF KeepsHeld, IInv, PinsHeld
    <2>3. CASE Same(k)
      BY <2>1, <2>2, <2>3 DEF Same
    <2>4. ASSUME NEW x \in Actors, Pinned(x, k)
          PROVE  busy'[k] = Cardinality(Holders(k)') /\ k \in sessions'
      BY <2>1, <2>4, FS_AddElement DEF Pinned
    <2>5. ASSUME NEW x \in Actors, Unpins(x, k)
          PROVE  busy'[k] = Cardinality(Holders(k)') /\ k \in sessions'
      BY <2>1, <2>2, <2>5, FS_RemoveElement DEF Unpins
    <2> QED BY <1>1, <2>3, <2>4, <2>5
  <1> QED BY <1>1 DEF PinsHeld, KeepsHeld

\* Sessions, keys and the worker's list as they were.
LEMMA PinsUntouched ==
  ASSUME IInv, UNCHANGED <<busy, sessions, key, work>>,
         \A a \in Accounts : limit[a] # "absent" => limit'[a] # "absent"
  PROVE  PinsHeld'
  <1>1. \A k \in Keys : Holders(k)' = Holders(k)
    BY DEF Holders
  <1>2. \A k \in sessions' : limit'[Account[k]] # "absent"
    BY GatewayAssumption DEF IInv, TypeOK, PinsHeld
  <1> QED BY <1>1, <1>2, PinsKept DEF KeepsHeld, Same

\* An actor that leaves gives its pin back, and so does the worker.
LEMMA PinReleased ==
  ASSUME IInv, NEW x \in Actors, NEW k \in Keys, x \in Holders(k), UNCHANGED <<sessions, limit>>,
         busy' = [busy EXCEPT ![k] = @ - 1],
         key' \in [Actors -> Keys \cup {None}], Others(x), key'[x] = None,
         x = Run => key[x] \in {k, None} /\ work' = work \ {k},
         x # Run => work' = work
  PROVE  PinsHeld'
  <1>1. Unpins(x, k)
    <2>1. Holders(k)' = Holders(k) \ {x}
      BY GatewayAssumption DEF Holders, Others
    <2> QED BY <2>1 DEF Unpins, IInv, TypeOK
  <1>2. ASSUME NEW j \in Keys, j # k PROVE Same(j)
    <2>1. Holders(j)' = Holders(j)
      BY <1>2, GatewayAssumption DEF Holders, Others
    <2> QED BY <1>2, <2>1 DEF Same, IInv, TypeOK
  <1>3. KeepsHeld
    BY DEF KeepsHeld, IInv, TypeOK, PinsHeld
  <1> QED BY <1>1, <1>2, <1>3, PinsKept

\* Who takes a session had none before.
LEMMA PinTaken ==
  ASSUME IInv, NEW x \in Actors \ {Run}, NEW k \in Keys, key[x] = None, KeepsHeld,
         busy' = [busy EXCEPT ![k] = @ + 1], k \in sessions',
         key' = [key EXCEPT ![x] = k], work' = work
  PROVE  PinsHeld'
  <1>1. Pinned(x, k)
    <2>1. Holders(k)' = Holders(k) \cup {x} /\ x \notin Holders(k)
      BY GatewayAssumption DEF Holders, IInv, TypeOK
    <2> QED BY <2>1 DEF Pinned, IInv, TypeOK
  <1>2. ASSUME NEW j \in Keys, j # k PROVE Same(j)
    <2>1. Holders(j)' = Holders(j)
      BY <1>2, GatewayAssumption DEF Holders, IInv, TypeOK
    <2> QED BY <1>2, <2>1 DEF Same, IInv, TypeOK
  <1> QED BY <1>1, <1>2, PinsKept

LEMMA PinsStep ==
  ASSUME IInv, [Next]_vars
  PROVE  PinsHeld'
  <1> Run \in Actors /\ Panel \in Actors /\ Run # Panel /\ Run \notin Clients /\ Panel \notin Clients
    BY GatewayAssumption DEF Actors
  <1>0. CASE UNCHANGED <<busy, sessions, key, work, limit>>
    BY <1>0, PinsUntouched
  <1>1. ASSUME NEW c \in Clients, Request(c) PROVE PinsHeld'
    <2>1. c \in Actors /\ c # Run /\ work' = work
      BY <1>1, RequestReads, RequestTouches
    <2>2. ASSUME NEW k \in Keys, NEW asked \in Asks, Arrive(c, k, asked) PROVE PinsHeld'
      <3>1. /\ KeepsHeld /\ key[c] = None
            /\ \/ UNCHANGED <<busy, key>>
               \/ /\ busy' = [busy EXCEPT ![k] = @ + 1] /\ key' = [key EXCEPT ![c] = k]
                  /\ k \in sessions'
        BY <2>2, ArriveEffect DEF KeepsHeld
      <3>2. CASE UNCHANGED <<busy, key>>
        <4>1. \A j \in Keys : Same(j)
          BY <2>1, <3>2 DEF Same, Holders
        <4> QED BY <3>1, <4>1, PinsKept
      <3> QED BY <2>1, <3>1, <3>2, PinTaken
    <2>3. ASSUME ~\E k \in Keys, asked \in Asks : Arrive(c, k, asked) PROVE PinsHeld'
      <3>1. key[c] \in Keys /\ UNCHANGED sessions
        BY <1>1, <2>3, RequestReads, RequestTouches
      <3>2. CASE Leave(c) /\ ~RespondRejected(c)
        <4>1. c \in Holders(key[c]) /\ UNCHANGED limit
          BY <1>1, <2>1, <2>3, <3>2, RequestTouches DEF Holders
        <4> QED BY <2>1, <3>1, <3>2, <4>1, LeaveEffect, PinReleased
      <3>3. CASE RespondRejected(c)
        <4>1. UNCHANGED <<busy, key>>
          BY <3>3 DEF RespondRejected, Answered
        <4>2. \A a \in Accounts : limit[a] # "absent" => limit'[a] # "absent"
          BY <3>1, <3>3, RejectEffect DEF RespondRejected
        <4> QED BY <2>1, <3>1, <4>1, <4>2, PinsUntouched
      <3>4. CASE ~Leave(c) /\ ~RespondRejected(c)
        BY <1>0, <1>1, <2>1, <2>3, <3>1, <3>4, RequestTouches
      <3> QED BY <3>2, <3>3, <3>4
    <2> QED BY <2>2, <2>3
  <1>2. ASSUME NEW x \in Actors, Round(x) PROVE PinsHeld'
    <2>1. UNCHANGED <<busy, sessions, key, work>> /\ key[x] \in Keys
      BY <1>2, RoundTouches, RoundPosts DEF RoundFrame
    <2>2. CASE ProbeRejected(x)
      <3>1. \A a \in Accounts : limit[a] # "absent" => limit'[a] # "absent"
        BY <2>1, <2>2, RejectEffect DEF ProbeRejected
      <3> QED BY <2>1, <3>1, PinsUntouched
    <2> QED BY <1>0, <1>2, <2>1, <2>2, RoundTouches
  <1>3. CASE BackgroundWork
    <2>1. /\ SessionTypes' /\ pc[Run] = "idle" /\ UNCHANGED <<key, limit>>
          /\ sessions' \subseteq sessions /\ sessions \ Unpinned \subseteq sessions'
          /\ work' \subseteq Unpinned /\ work' \subseteq sessions'
          /\ busy' = [k \in Keys |-> IF k \in work' THEN busy[k] + 1 ELSE busy[k]]
      BY <1>3, BackgroundEffect
    <2>2. work = {}
      BY <2>1 DEF IInv, Posts
    <2>3. KeepsHeld
      BY <2>1 DEF KeepsHeld, IInv, TypeOK, PinsHeld
    <2>4. ASSUME NEW k \in Keys, k \in work' PROVE Pinned(Run, k)
      <3>1. Holders(k) = {}
        BY <2>1, <2>4, NotHeld
      <3>2. Holders(k)' = {Run}
        BY <2>1, <2>2, <2>4, <3>1 DEF Holders
      <3> QED BY <2>1, <2>4, <3>1, <3>2 DEF Pinned
    <2>5. ASSUME NEW k \in Keys, k \notin work' PROVE Same(k)
      BY <2>1, <2>2, <2>5 DEF Same, Holders
    <2> QED BY <2>3, <2>4, <2>5, PinsKept
  <1>4. CASE RunRefresh
    <2>1. PICK k \in work : key' = [key EXCEPT ![Run] = k]
      BY <1>4 DEF RunRefresh
    <2>2. /\ key[Run] = None /\ k \in Keys
          /\ UNCHANGED <<busy, sessions, limit, work>>
      BY <1>4 DEF RunRefresh, sessionVars, IInv, TypeOK, Posts, Placeless
    <2>3. ASSUME NEW j \in Keys PROVE Holders(j)' = Holders(j)
      BY <2>1, <2>2, GatewayAssumption DEF Holders, IInv, TypeOK
    <2>4. KeepsHeld /\ \A j \in Keys : Same(j)
      BY <2>2, <2>3 DEF KeepsHeld, Same, IInv, TypeOK, PinsHeld
    <2> QED BY <2>4, PinsKept
  <1>5. CASE RunSkips \/ RunRefreshed
    <2>1. PICK k \in Keys : Run \in Holders(k) /\ key[Run] \in {k, None} /\ RunDone(k)
      BY <1>5, RunReleases
    <2>2. /\ UNCHANGED <<sessions, limit>> /\ work' = work \ {k}
          /\ busy' = [busy EXCEPT ![k] = @ - 1]
      BY <2>1 DEF RunDone
    <2> QED BY <2>1, <2>2, RunDoneEffect, PinReleased
  <1>6. CASE \E k \in Keys, n \in Nodes \cup {None} : RetryState(k, n)
    <2>1. PICK k \in Keys, n \in Nodes \cup {None} : RetryState(k, n)
      BY <1>6
    <2>2. /\ k \in sessions /\ key[Panel] = None
          /\ UNCHANGED <<sessions, limit, work>>
          /\ busy' = [busy EXCEPT ![k] = @ + 1] /\ key' = [key EXCEPT ![Panel] = k]
      BY <2>1 DEF RetryState, Writable, Readable, Unpinned, IInv, Posts, Placeless
    <2>3. KeepsHeld
      BY <2>2 DEF KeepsHeld, IInv, TypeOK, PinsHeld
    <2> QED BY <2>2, <2>3, PinTaken
  <1>7. CASE Retried
    <2>1. key[Panel] \in Keys /\ Leave(Panel) /\ UNCHANGED <<sessions, limit, work>>
      BY <1>7, HasSession DEF Retried, Placeless
    <2>2. Panel \in Holders(key[Panel])
      BY DEF Holders
    <2> QED BY <2>1, <2>2, LeaveEffect, PinReleased
  <1>8. CASE \E a \in Accounts : PauseOver(a)
    <2>1. UNCHANGED <<busy, sessions, key, work>>
      BY <1>8 DEF PauseOver
    <2>2. \A a \in Accounts : limit[a] # "absent" => limit'[a] # "absent"
      BY <1>8 DEF PauseOver, IInv, TypeOK
    <2> QED BY <2>1, <2>2, PinsUntouched
  <1>9. CASE ApplyConfig \/ Crash
    BY <1>9, EngineReplaced DEF IInv
  <1>10. CASE Worker \/ Panels \/ Time \/ Start
    BY <1>0, <1>3, <1>4, <1>5, <1>6, <1>7, <1>8, <1>10, OthersTouch
  <1>11. CASE UNCHANGED vars
    BY <1>0, <1>11 DEF vars, sessionVars
  <1> QED BY <1>1, <1>2, <1>9, <1>10, <1>11, NextCases

-----------------------------------------------------------------------------
(* Rounds *)

\* A step away from any round, and a step within one.
LEMMA RoundsAside ==
  ASSUME IInv, NEW x \in Actors, Others(x), UNCHANGED <<probing, slot>>,
         pc[x] \notin RoundLabels, pc'[x] \notin RoundLabels \cup {"waiting"}
  PROVE  RoundOwned'
  BY DEF Others, RoundOwned, InRound, RoundLabels, IInv

LEMMA RoundsAlong ==
  ASSUME IInv, NEW x \in Actors, Others(x), UNCHANGED <<probing, slot, key>>,
         pc[x] \in RoundLabels \ {"slot"}, pc'[x] \in RoundLabels \ {"slot"}
  PROVE  RoundOwned'
  BY DEF Others, RoundOwned, InRound, RoundLabels, IInv

\* The round announced by Refresh is the only one of its session.
LEMMA RefreshRounds ==
  ASSUME IInv, NEW x \in Actors, Refresh(x)
  PROVE  RoundOwned'
  <1> DEFINE k == key[x]
  <1>1. /\ k \in Keys /\ Others(x) /\ UNCHANGED <<key, slot>> /\ pc[x] = "refresh"
        /\ \A y \in Actors \ {x} : pc'[y] = pc[y]
    <2>1. Round(x)
      BY DEF Round
    <2> QED BY <2>1, RoundPosts, RoundStep DEF Refresh, Goto, IInv, TypeOK
  <1>2. CASE pc'[x] = "after" /\ UNCHANGED probing
    BY <1>1, <1>2, RoundsAside DEF RoundLabels
  <1>3. CASE pc'[x] = "waiting" /\ probing[k] /\ UNCHANGED probing
    BY <1>1, <1>3 DEF RoundOwned, InRound, RoundLabels, IInv
  <1>4. CASE pc'[x] = "slot" /\ ~probing[k] /\ probing' = [probing EXCEPT ![k] = TRUE]
    <2>1. probing'[k] /\ \A j \in Keys : j # k => probing'[j] = probing[j]
      BY <1>1, <1>4, Zenon DEF IInv, TypeOK
    <2>2. \A y \in Actors \ {x} : InRound(y) \/ pc[y] = "waiting" => key[y] \in Keys /\ key[y] # k
      <3>1. \A y \in Actors : InRound(y) \/ pc[y] = "waiting" => key[y] \in Keys
        BY HasSession DEF InRound, RoundLabels, Placeless
      <3> QED BY <1>4, <3>1 DEF RoundOwned, IInv
    <2>3. \A y \in Actors : InRound(y)' => probing'[key'[y]]
      BY <1>1, <1>4, <2>1, <2>2 DEF RoundOwned, InRound, IInv
    <2>4. \A y, z \in Actors : InRound(y)' /\ InRound(z)' /\ key'[y] = key'[z] => y = z
      BY <1>1, <1>4, <2>2 DEF RoundOwned, InRound, IInv
    <2>5. \A j \in Keys : probing'[j] => \E y \in Actors : InRound(y)' /\ key'[y] = j
      <3>1. InRound(x)' /\ key'[x] = k
        BY <1>1, <1>4 DEF InRound, RoundLabels
      <3> QED BY <1>1, <2>1, <3>1 DEF RoundOwned, InRound, RoundLabels, IInv
    <2>6. \A y \in Actors : slot' = y <=> pc'[y] \in RoundLabels \ {"slot"}
      BY <1>1, <1>4 DEF RoundOwned, RoundLabels, IInv
    <2>7. \A y \in Actors : pc'[y] = "waiting" => probing'[key'[y]]
      BY <1>1, <1>4, <2>1, <2>2 DEF RoundOwned, IInv
    <2> QED BY <2>3, <2>4, <2>5, <2>6, <2>7 DEF RoundOwned
  <1>5. \/ pc'[x] = "after" /\ UNCHANGED probing
        \/ pc'[x] = "waiting" /\ probing[k] /\ UNCHANGED probing
        \/ pc'[x] = "slot" /\ ~probing[k] /\ probing' = [probing EXCEPT ![k] = TRUE]
    BY DEF Refresh, Goto, IInv, TypeOK
  <1> QED BY <1>2, <1>3, <1>4, <1>5

\* Its end leaves nobody behind.
LEMMA EndRoundRounds ==
  ASSUME IInv, NEW x \in Actors, InRound(x), key' = key, EndRound(x)
  PROVE  RoundOwned'
  <1> DEFINE k == key[x]
  <1>1. k \in Keys
    BY HasSession DEF InRound, RoundLabels, Placeless
  <1>2. /\ pc'[x] = "after" /\ ~probing'[k]
        /\ \A j \in Keys : j # k => probing'[j] = probing[j]
        /\ \A y \in Actors : slot' = y <=> slot = y /\ y # x
        /\ \A y \in Actors \ {x} :
             pc'[y] = IF pc[y] = "waiting" /\ key[y] = k THEN "after" ELSE pc[y]
    BY <1>1, EndRoundEffect
  <1>3. \A y \in Actors : InRound(y)' => y # x /\ InRound(y) /\ key[y] \in Keys /\ key[y] # k
    <2>1. \A y \in Actors : InRound(y)' => y # x /\ InRound(y)
      BY <1>2 DEF InRound, RoundLabels
    <2>2. \A y \in Actors : InRound(y) => key[y] \in Keys
      BY HasSession DEF InRound, RoundLabels, Placeless
    <2> QED BY <2>1, <2>2 DEF RoundOwned, IInv
  <1>4. \A y \in Actors : InRound(y)' => probing'[key'[y]]
    BY <1>2, <1>3 DEF RoundOwned, IInv
  <1>5. \A y, z \in Actors : InRound(y)' /\ InRound(z)' /\ key'[y] = key'[z] => y = z
    BY <1>3 DEF RoundOwned, IInv
  <1>6. \A j \in Keys : probing'[j] => \E y \in Actors : InRound(y)' /\ key'[y] = j
    BY <1>2 DEF RoundOwned, InRound, RoundLabels, IInv
  <1>7. \A y \in Actors : slot' = y <=> pc'[y] \in RoundLabels \ {"slot"}
    BY <1>2 DEF RoundOwned, RoundLabels, IInv
  <1>8. \A y \in Actors : pc'[y] = "waiting" => probing'[key'[y]]
    <2>1. \A y \in Actors : pc'[y] = "waiting" => pc[y] = "waiting" /\ key[y] # k
      BY <1>2
    <2>2. \A y \in Actors : pc[y] = "waiting" => key[y] \in Keys
      BY HasSession DEF Placeless
    <2> QED BY <1>2, <2>1, <2>2 DEF RoundOwned, IInv
  <1> QED BY <1>4, <1>5, <1>6, <1>7, <1>8 DEF RoundOwned

LEMMA RoundsStep ==
  ASSUME IInv, [Next]_vars
  PROVE  RoundOwned'
  <1> Run \in Actors /\ Panel \in Actors
    BY DEF Actors
  <1>0. CASE UNCHANGED <<pc, key, probing, slot>>
    BY <1>0 DEF IInv, RoundOwned, InRound
  <1>1. ASSUME NEW c \in Clients, Request(c) PROVE RoundOwned'
    <2>1. c \in Actors /\ Others(c) /\ UNCHANGED <<probing, slot>>
      BY <1>1, RequestReads, RequestStep, RequestTouches
    <2>2. CASE \E k \in Keys, asked \in Asks : Arrive(c, k, asked)
      <3>1. pc[c] = "idle" /\ pc'[c] \in {"idle", "refresh", "decide"}
        BY <2>2, ArriveEffect
      <3> QED BY <2>1, <3>1, RoundsAside DEF RoundLabels
    <2>3. CASE ~\E k \in Keys, asked \in Asks : Arrive(c, k, asked)
      <3>1. pc[c] \in RequestOnly \cup {"after"} /\ key[c] \in Keys
        BY <1>1, <2>3, RequestReads
      <3>2. CASE Leave(c)
        BY <2>1, <3>1, <3>2, LeaveEffect, RoundsAside DEF RoundLabels, RequestOnly
      <3>3. CASE ~Leave(c)
        <4>1. pc'[c] \in RequestOnly /\ pc[c] # "idle"
          BY <1>1, <3>1, <3>3, RequestPosts DEF RequestOnly
        <4> QED BY <2>1, <3>1, <4>1, RoundsAside DEF RoundLabels, RequestOnly
      <3> QED BY <3>2, <3>3
    <2> QED BY <2>2, <2>3
  <1>2. ASSUME NEW x \in Actors, Round(x) PROVE RoundOwned'
    <2>1. /\ key' = key /\ key[x] \in Keys /\ Others(x)
          /\ pc[x] \in {"refresh", "waiting"} \cup RoundLabels
          /\ pc'[x] \in {"after", "waiting"} \cup RoundLabels
      BY <1>2, RoundTouches, RoundPosts, RoundStep, RoundLeads DEF RoundFrame
    <2>2. CASE Refresh(x)
      BY <2>2, RefreshRounds
    <2>3. CASE StopWaiting(x)
      <3>1. UNCHANGED <<probing, slot>> /\ pc[x] = "waiting" /\ pc'[x] = "after"
        BY <2>3 DEF StopWaiting, Goto, sessionVars, IInv, TypeOK
      <3> QED BY <2>1, <3>1, RoundsAside DEF RoundLabels
    <2>4. CASE EndRound(x) /\ ~Refresh(x) /\ ~StopWaiting(x)
      <3>1. InRound(x)
        BY <1>2, <2>4 DEF Round, TakeSlot, LoopEnds, NextNode, ClaimProbe, ProbeFits, ProbeFails,
           ProbeRejected, ProbeAnswered, Offer, Record, InRound, RoundLabels
      <3> QED BY <2>1, <2>4, <3>1, EndRoundRounds
    <2>5. CASE TakeSlot(x) /\ ~EndRound(x)
      <3>1. /\ pc[x] = "slot" /\ pc'[x] = "loop" /\ slot = None /\ slot' = x
            /\ UNCHANGED <<probing, key>> /\ \A y \in Actors \ {x} : pc'[y] = pc[y]
        BY <2>1, <2>5 DEF TakeSlot, Goto, IInv, TypeOK
      <3> QED BY <3>1, GatewayAssumption DEF RoundOwned, InRound, RoundLabels, IInv
    <2>6. CASE ~EndRound(x) /\ ~Refresh(x) /\ ~StopWaiting(x) /\ ~TakeSlot(x)
      <3>1. UNCHANGED <<probing, slot>>
        BY <1>2, <2>6, RoundGoesOn
      <3>2. pc[x] \in RoundLabels \ {"slot"} /\ pc'[x] \in RoundLabels \ {"slot"}
        BY <1>2, <2>6 DEF Round, LoopEnds, NextNode, ClaimProbe, ProbeFits, ProbeFails,
           ProbeRejected, ProbeAnswered, Offer, Record, Goto, RoundLabels, IInv, TypeOK
      <3> QED BY <2>1, <3>1, <3>2, RoundsAlong
    <2> QED BY <2>2, <2>3, <2>4, <2>5, <2>6
  <1>3. CASE Worker
    <2>1. UNCHANGED <<probing, slot>>
      BY <1>3, OthersTouch
    <2>2. CASE BackgroundWork \/ RunRefresh \/ RunRests
      <3>1. /\ pc[Run] \in {"idle", "work"} /\ pc'[Run] \in {"work", "refresh", "idle"}
            /\ Others(Run)
        BY <2>2 DEF BackgroundWork, RunRefresh, RunRests, Goto, Others, IInv, TypeOK
      <3> QED BY <2>1, <3>1, RoundsAside DEF RoundLabels
    <2>3. CASE RunSkips \/ RunRefreshed
      <3>1. pc[Run] \in {"work", "after"}
        BY <2>3 DEF RunSkips, RunRefreshed
      <3>2. pc'[Run] = "work" /\ Others(Run)
        BY <2>3, RunReleases, RunDoneEffect
      <3> QED BY <2>1, <3>1, <3>2, RoundsAside DEF RoundLabels
    <2> QED BY <1>3, <2>2, <2>3 DEF Worker
  <1>4. CASE Panels
    <2>1. UNCHANGED <<probing, slot>>
      BY <1>4, OthersTouch
    <2>2. CASE Panels /\ ~SetInjection /\ ~Retried
      <3>1. /\ pc[Panel] \in {"idle", "changing"} /\ pc'[Panel] \in {"refresh", "changing", "idle"}
            /\ Others(Panel)
        BY <2>2 DEF Panels, RetryState, Pause, PoolChange, Resume, Writable, Readable, Goto,
           Others, IInv, TypeOK
      <3> QED BY <2>1, <3>1, RoundsAside DEF RoundLabels
    <2>3. CASE Retried
      <3>1. key[Panel] \in Keys /\ Leave(Panel) /\ pc[Panel] = "after"
        BY <2>3, HasSession DEF Retried, Placeless
      <3> QED BY <2>1, <3>1, LeaveEffect, RoundsAside DEF RoundLabels
    <2>4. CASE SetInjection
      BY <1>0, <2>1, <2>4 DEF SetInjection
    <2> QED BY <1>4, <2>2, <2>3, <2>4
  <1>5. CASE Time \/ Start
    BY <1>0, <1>5 DEF Time, StateExpires, CooldownOver, PauseOver, Start, sessionVars
  <1>6. CASE ApplyConfig \/ Crash
    BY <1>6, EngineReplaced DEF IInv
  <1> QED BY <1>0, <1>1, <1>2, <1>3, <1>4, <1>5, <1>6, NextCases DEF vars, sessionVars

-----------------------------------------------------------------------------
(* Nodes *)

Listed(n, s) == node' = [m \in Nodes |-> IF m \in {n} THEN s ELSE node[m]]

\* A free node is claimed for a trip; a node that is none's trip goes to a list; the
\* panel does what it likes.
NodesMoved ==
  \/ UNCHANGED <<node, trips>>
  \/ \E n \in Nodes : /\ node[n] = "available" /\ Listed(n, "used")
                      /\ trips' = [trips EXCEPT ![n] = @ + 1]
  \/ \E n \in Nodes, s \in {"used", "failed"} : Listed(n, s) /\ trips' = trips
  \/ /\ PoolChange
     /\ \E ns \in SUBSET Nodes, s \in {"available", "disabled"} :
          /\ node' = [m \in Nodes |-> IF m \in ns THEN s ELSE node[m]]
          /\ trips' = [n \in Nodes |-> IF n \in ns /\ s = "available" THEN 0 ELSE trips[n]]

LEMMA NodesEffect ==
  ASSUME IInv, [Next]_vars
  PROVE  NodesMoved
  <1> USE DEF NodesMoved, Listed
  <1>0. CASE UNCHANGED <<poolVars, trips>>
    BY <1>0 DEF poolVars
  <1>1. ASSUME NEW c \in Clients, Claim(c) PROVE NodesMoved
    <2>1. carry[c] \in Nodes
      BY <1>1 DEF Claim, IInv, Posts, Carrying, Actors
    <2>2. CASE Saved({carry[c]}, "used")
      BY <1>1, <2>1, <2>2 DEF Claim, Claimable, Saved, Trip
    <2>3. CASE ~Saved({carry[c]}, "used")
      BY <1>1, <2>3 DEF Claim, NotSaved, poolVars
    <2> QED BY <2>2, <2>3
  <1>2. ASSUME NEW x \in Actors, ClaimProbe(x) PROVE NodesMoved
    <2>1. carry[x] \in Nodes
      BY <1>2 DEF ClaimProbe, IInv, Posts, Carrying
    <2>2. CASE Saved({carry[x]}, "used") /\ (Trip(carry[x]) \/ UNCHANGED trips)
      BY <1>2, <2>1, <2>2 DEF ClaimProbe, Probeable, ProbeableStates, Saved, Trip
    <2>3. CASE ~Saved({carry[x]}, "used")
      BY <1>2, <2>3 DEF ClaimProbe, NotSaved, poolVars
    <2> QED BY <1>2, <2>2, <2>3 DEF ClaimProbe
  <1>3. ASSUME NEW x \in Actors, Record(x) \/ End(x) PROVE NodesMoved
    <2>1. carry[x] \in Nodes
      BY <1>3 DEF Record, End, IInv, Posts, Carrying
    <2>2. trips' = trips
      BY <1>3 DEF Record, End
    <2>3. \/ UNCHANGED node
          \/ \E s \in {"used", "failed"} : Saved({carry[x]}, s)
      <3>1. CASE Record(x)
        BY <3>1 DEF Record, NotSaved
      <3>2. CASE End(x)
        BY <3>2 DEF End, Change, NotSaved, poolVars
      <3> QED BY <1>3, <3>1, <3>2
    <2> QED BY <2>1, <2>2, <2>3 DEF Saved
  <1>4. CASE PoolChange
    BY <1>4 DEF PoolChange, Saved, NotSaved, poolVars
  <1>5. CASE ApplyConfig \/ Crash
    BY <1>5 DEF ApplyConfig, Crash, Reopen, poolVars
  <1>6. CASE \E c \in Clients : Request(c)
    BY <1>0, <1>1, <1>3, <1>6, RequestTouches DEF Actors
  <1>7. CASE \E x \in Actors : Round(x)
    BY <1>0, <1>2, <1>3, <1>7, RoundTouches
  <1>8. CASE Worker \/ Panels \/ Time \/ Start
    BY <1>0, <1>4, <1>8, OthersTouch
  <1> QED BY <1>0, <1>5, <1>6, <1>7, <1>8, NextCases DEF vars

LEMMA NodesSpentStep ==
  ASSUME IInv, [Next]_vars
  PROVE  NodesSpent'
  BY NodesEffect DEF NodesMoved, Listed, IInv, TypeOK, PoolTypeOK, NodesSpent

\* Who is under way after a step was so before it, over the same node, or has just
\* chosen or claimed one that is not disabled.
LEMMA TravelEffect ==
  ASSUME IInv, [Next]_vars, NEW x \in Actors, Travelling(x)'
  PROVE  /\ ~PoolChange
         /\ (Travelling(x) /\ carry'[x] = carry[x]) \/ node[carry'[x]] # "disabled"
  <1> DEFINE Fair == (Travelling(x) /\ carry'[x] = carry[x]) \/ node[carry'[x]] # "disabled"
  <1> Run \in Actors /\ Panel \in Actors /\ Clients \subseteq Actors
    BY DEF Actors
  <1> USE DEF Travelling
  <1>1. ~PoolChange
    <2>1. SUFFICES ASSUME PoolChange PROVE FALSE
      OBVIOUS
    <2>2. pc'[x] = "idle" \/ (x \in Clients \cup {Run} /\ pc'[x] = pc[x] /\ pc[x] = "idle")
      BY <2>1 DEF PoolChange, Resume, Goto, IInv, Posts, TypeOK, Actors
    <2> QED BY <2>2
  <1> SUFFICES Fair
    BY <1>1
  <1>0. CASE UNCHANGED <<pc, carry>>
    BY <1>0
  <1>2. ASSUME NEW y \in Actors, y # x, Others(y) PROVE Fair
    BY <1>2 DEF Others
  <1>3. ASSUME NEW c \in Clients, Request(c) PROVE Fair
    <2>1. CASE c # x
      BY <1>2, <1>3, <2>1, RequestStep
    <2>2. ASSUME c = x, ~Leave(x), pc[x] # "idle" PROVE Fair
      <3> USE <2>2 DEF Goto, IInv, TypeOK
      <3>1. CASE Acquire(x) \/ Decide(x)
        BY <3>1 DEF Acquire, Decide
      <3>2. CASE SelectEgress(x)
        <4>1. \A n \in Eligible(carry[x]) : node[n] # "disabled"
          BY GatewayAssumption DEF Eligible
        <4> QED BY <3>2, <4>1 DEF SelectEgress
      <3>3. CASE Claim(x)
        BY <3>3 DEF Claim, Claimable
      <3>4. CASE Respond(x) \/ RespondRejected(x) \/ RespondSuspect(x)
        BY <3>4 DEF Respond, RespondRejected, RespondSuspect, Answered
      <3> QED BY <1>3, <3>1, <3>2, <3>3, <3>4 DEF Request, Arrive, End
    <2>3. CASE c = x /\ pc[x] = "idle"
      <3>1. pc'[x] \in {"idle", "refresh", "decide"}
        BY <1>3, <2>3, ArriveEffect, RequestReads DEF RequestOnly
      <3> QED BY <3>1
    <2>4. CASE c = x /\ Leave(x)
      BY <2>4 DEF Leave, Goto, IInv, TypeOK
    <2> QED BY <2>1, <2>2, <2>3, <2>4
  <1>4. ASSUME NEW y \in Actors, Round(y) PROVE Fair
    <2>1. CASE y # x
      BY <1>2, <1>4, <2>1, RoundStep
    <2>2. CASE y = x /\ EndRound(x)
      BY <2>2 DEF EndRound
    <2>3. ASSUME y = x, ~EndRound(x) PROVE Fair
      <3> USE <2>3 DEF Goto, IInv, TypeOK
      <3>1. CASE Refresh(x) \/ StopWaiting(x) \/ TakeSlot(x) \/ LoopEnds(x)
        BY <3>1 DEF Refresh, StopWaiting, TakeSlot, LoopEnds
      <3>2. CASE NextNode(x)
        BY <3>2 DEF NextNode
      <3>3. CASE ClaimProbe(x)
        BY <3>3 DEF ClaimProbe, Probeable, ProbeableStates
      <3>4. CASE ProbeFits(x) \/ ProbeFails(x) \/ ProbeRejected(x)
        BY <3>4 DEF ProbeFits, ProbeFails, ProbeRejected, ProbeAnswered
      <3>5. CASE Offer(x) \/ Record(x)
        BY <3>5 DEF Offer, Record
      <3> QED BY <1>4, <3>1, <3>2, <3>3, <3>4, <3>5 DEF Round
    <2> QED BY <2>1, <2>2, <2>3
  <1>5. CASE Worker
    BY <1>5 DEF Worker, BackgroundWork, RunRefresh, RunSkips, RunRefreshed, RunDone, RunRests,
       Goto, IInv, TypeOK
  <1>6. CASE Panels
    <2>1. CASE Retried
      BY <2>1 DEF Retried, Leave, Goto, IInv, TypeOK
    <2> QED BY <1>1, <1>6, <2>1 DEF Panels, RetryState, SetInjection, Pause, Goto, IInv, TypeOK
  <1>7. CASE Time \/ Start
    BY <1>0, <1>7 DEF Time, StateExpires, CooldownOver, PauseOver, Start
  <1>8. CASE ApplyConfig \/ Crash
    BY <1>8 DEF ApplyConfig, Crash, NewEngine
  <1> QED BY <1>0, <1>3, <1>4, <1>5, <1>6, <1>7, <1>8, NextCases DEF vars

LEMMA DisabledStep ==
  ASSUME IInv, [Next]_vars
  PROVE  DisabledRests'
  <1> SUFFICES ASSUME NEW x \in Actors, Travelling(x)'
               PROVE  node'[carry'[x]] # "disabled"
    BY DEF DisabledRests
  <1>1. carry'[x] \in Nodes
    BY PostsStep DEF Posts, Travelling, Carrying
  <1>2. ~PoolChange /\ node[carry'[x]] # "disabled"
    BY TravelEffect DEF IInv, DisabledRests
  <1> QED BY <1>1, <1>2, NodesEffect DEF NodesMoved, Listed, IInv, TypeOK, PoolTypeOK

-----------------------------------------------------------------------------
(* The theorems *)

\* The inductive invariant.
THEOREM IInvAlways == Spec => []IInv
  <1>1. IInv /\ [Next]_vars => IInv'
    BY TypeStep, PostsStep, PinsStep, RoundsStep, NodesSpentStep, DisabledStep DEF IInv
  <1> QED BY <1>1, InitIInv, PTL DEF Spec

\* Type correctness.
THEOREM TypeCorrect == Spec => []TypeOK
  BY IInvAlways, PTL DEF IInv

\* borrow and release: the pins of a session count exactly those that use it, and a
\* session in use, or its account, is never forgotten.
THEOREM PinsAlwaysHeld == Spec => []PinsHeld
  BY IInvAlways, PTL DEF IInv

\* refresh: one round per session and one probing round in all, and nobody waits for a
\* round that is over.
THEOREM RoundsAlwaysExclusive == Spec => []RoundsExclusive
  <1>1. IInv => RoundsExclusive
    <2> SUFFICES ASSUME IInv PROVE RoundsExclusive
      OBVIOUS
    <2>1. ASSUME NEW k \in Keys
          PROVE  Cardinality({x \in Actors : key[x] = k /\ pc[x] \in RoundLabels})
                   = IF probing[k] THEN 1 ELSE 0
      <3> DEFINE S == {x \in Actors : key[x] = k /\ pc[x] \in RoundLabels}
      <3>1. CASE probing[k]
        <4>1. PICK x \in Actors : InRound(x) /\ key[x] = k
          BY <3>1 DEF IInv, RoundOwned
        <4>2. S = {x}
          BY <4>1 DEF IInv, RoundOwned, InRound
        <4> QED BY <3>1, <4>2, FS_Singleton
      <3>2. CASE ~probing[k]
        <4>1. S = {}
          BY <3>2 DEF IInv, RoundOwned, InRound
        <4> QED BY <3>2, <4>1, FS_EmptySet
      <3> QED BY <3>1, <3>2
    <2> QED BY <2>1 DEF RoundsExclusive, IInv, RoundOwned
  <1> QED BY <1>1, IInvAlways, PTL

\* Claim and ClaimProbe: a node carries one automatic probe or one request at random,
\* until the user puts it back.
THEOREM NodesOnceAlways == Spec => []NodeOnce
  <1>1. IInv => NodeOnce
    <2> SUFFICES ASSUME IInv, NEW n \in Nodes PROVE trips[n] <= 1
      BY DEF NodeOnce
    <2>1. trips[n] = 0 \/ trips[n] = 1
      BY DEF IInv, NodesSpent
    <2> QED BY <2>1
  <1> QED BY <1>1, IInvAlways, PTL

\* Nothing goes over a node the user has disabled.
THEOREM DisabledAlwaysRest == Spec => []DisabledRests
  BY IInvAlways, PTL DEF IInv

\* reject, pruneLocked and the guard of applyConfig and pool/change: a rejection is
\* forgotten by time alone.
THEOREM RejectionsAlwaysKept == Spec => RejectionsKept
  <1> DEFINE Kept == \A a \in Accounts :
       /\ limit[a] = "auth" => limit'[a] = "auth" \/ ~up'
       /\ limit[a] = "paused" /\ limit'[a] \notin {"paused", "auth"} =>
            \/ ~up'
            \/ limit'[a] = "free" /\ UNCHANGED <<sessions, pc>>
  <1>1. IInv /\ [Next]_vars => [Kept]_vars
    <2> SUFFICES ASSUME IInv, Next PROVE Kept
      OBVIOUS
    <2>0. CASE UNCHANGED limit
      BY <2>0
    <2>1. CASE \E c \in Clients : Request(c)
      <3>1. PICK c \in Clients : Request(c)
        BY <2>1
      <3>2. CASE \E k \in Keys, asked \in Asks : Arrive(c, k, asked)
        BY <3>2, ArriveEffect
      <3>3. CASE RespondRejected(c)
        <4>1. key[c] \in Keys
          BY <3>1, <3>3, RequestReads DEF RespondRejected, Answered, Arrive
        <4> QED BY <3>3, <4>1, RejectEffect DEF RespondRejected
      <3> QED BY <2>0, <3>1, <3>2, <3>3, RequestTouches
    <2>2. CASE \E x \in Actors : Round(x)
      <3>1. PICK x \in Actors : Round(x)
        BY <2>2
      <3>2. CASE ProbeRejected(x)
        BY <3>1, <3>2, RoundPosts, RejectEffect DEF ProbeRejected
      <3> QED BY <2>0, <3>1, <3>2, RoundTouches
    <2>3. CASE \E a \in Accounts : PauseOver(a)
      BY <2>3 DEF PauseOver, IInv, TypeOK
    <2>4. CASE ApplyConfig
      BY <2>4 DEF ApplyConfig, AnyRestricted
    <2>5. CASE Crash
      BY <2>5 DEF Crash
    <2>6. CASE Worker \/ Panels \/ Time \/ Start
      BY <2>0, <2>3, <2>6, OthersTouch
    <2> QED BY <2>1, <2>2, <2>4, <2>5, <2>6, NextCases
  <1>2. RejectionsKept <=> [][Kept]_vars
    BY DEF RejectionsKept
  <1> QED BY <1>1, <1>2, IInvAlways, PTL DEF Spec
=============================================================================
