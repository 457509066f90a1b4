# Verification of ccodex-sleep-state

TLA+ models of the concurrent core of this repository (Go, three programs), the
TLC runs that check them, and TLAPS proofs of some of the results. Every
definition is translated from the code; `PROJECT.json` says from which lines.

## 1. The system

Three programs share one set of packages:

* `cmd/ccodex-sleep-state`: the **collecting gateway** (`internal/gateway`) behind a
  **management service** (`internal/service`), which also rewrites the Codex
  configuration (`internal/codexconfig`);
* `cmd/ccodex-request-recorder`: a recording proxy (`internal/requestrecorder`) with
  an optional collector, the **State Core**;
* `cmd/ccodex-reliable-proxy`: a proxy that keeps every turn on its exit
  (`internal/reliableproxy`).

All of them forward model requests through *routes* (exits), and obey the
upstream when it refuses an account (401 or 403: for good; 429: for a while).
The collectors also gather *states*, opaque tokens the upstream hands out, by
sending probes of their own, which must stay few.

| Component | State it keeps | Operations | What is hard | What makes it correct |
|---|---|---|---|---|
| `routehealth` | per route: health, failures, back-off, epoch, sequences; the leases out | Available, Begin, Finish | outcomes arrive in any order, long after the circuit opened and closed again | one trial; back-off never cut short; an old success does not erase a newer failure; a trial is always decided |
| `turnstate` | active and spare state, versions, strikes, hold flag | Offer, Acquire, Observe, RejectAndPromote, NeedsRefresh | observing and rejecting are two critical sections | strikes and rejections hit the state they are about |
| State Core | guards per account, sessions per account and model, rounds, the probe slot, budgets, candidates | prepare, ensure, probe, roundTrip, stream end, configure, disable, status | single-flight rounds whose locks are released around every wait | one round, one slot; no permit or budget lost; nothing collected under an old configuration is used; rounds spaced |
| `reliableproxy` engine | accounts with use counts and pauses, bindings of states to routes, permits | ServeHTTP, choose, bind, pause, stream end | pruning under load, tables at capacity, late refusals | a turn stays on its route; refusals are final; counts and permits come back |
| `routepool` | the list each node is on, the sticky error | Change, Claim, ClaimProbe | failed saves, crash between claim and end | a node carries one automatic trip |
| `gateway` engine | sessions with pins, account limits, rounds, the probe slot, the injection switch | ServeHTTP, refresh, Run, RetryState, SetInjection, Status | requests, worker and panel interleave; idle sessions are forgotten | sessions in use are kept; rounds exclusive; rejections kept; disabled nodes rest |
| `service` | the management lock, the running engine, settings in memory and in their file, the takeover | start, forwarding, quick setup, saving with rollback, repair, reset, shutdown; against requests (readers) and worker: pause, resume, applyConfig | a save that fails half-way, settings or login edited meanwhile, replacing an engine under use, shutdown | no rejection is lost with the engine; memory, file and Codex agree; a request goes where the user's file says; no login to a relay |
| `codexconfig`, `fsutil` | configuration of Codex, backup, journal, archive | Resolve, Install, Restore, repair, rebuild | crash between two accesses, an editor that writes meanwhile, a damaged backup | the user's part survives; whatever was put in can be taken out |
| `cookiebundle` | cookies per scope, sequence numbers | Begin, Commit | late and reordered responses, eviction | older responses never overwrite newer ones (not modelled) |
| recorder engine, setup, store | connection, requests under way, bounded queue, quota, index | admission, Connect, Restore, Submit, run, Close, shutdown | full queue and disk, an edit between read and installation, a request that outlives the shutdown | every record is counted once; the recorder forwards to the user's upstream; its end restores Codex |
| parsers, redaction, settings, panels, locks, logs | none of their own | | | not modelled: data, not control |

How they interact: `gateway` calls `turnstate`, `routepool` and is called by
`service` under its lock; State Core and `reliableproxy` call `routehealth` and
`cookiebundle`; the setups of service and recorder call `codexconfig`. There are no
messages between processes: the concurrency is that of goroutines that hold a
mutex for short stretches and release it around every wait.

`PROJECT.json` lists under `hazards` what in this code is hard to test, line by line,
and which property covers it.

## 2. Modules

| Module | Models | Composition |
|---|---|---|
| `CircuitGate` | what a circuit breaker promises its users: phase of each route and set of live requests | abstract |
| `RouteHealth` | `routehealth/health.go` with clock, back-off, epochs and sequences | implements `CircuitGate` (`ImplementsGate`) |
| `RouteHealthProofs` | proofs | |
| `TurnState` | `turnstate/store.go` and the two calls of `gateway/handler.go` that use it | |
| `TurnStateProofs` | proofs | |
| `StateCore`, `MCStateCore` | `requestrecorder/state_core.go`, `state_core_stream.go` | contains `CircuitGate` |
| `StateCoreProofs` | proofs | |
| `ReliableProxy`, `MCReliableProxy` | `reliableproxy/engine.go` | contains `CircuitGate` |
| `RoutePool` | `routepool/store.go` | |
| `ReliableProxyProofs` | proofs | |
| `Gateway`, `MCGateway` | `gateway/{engine,handler,pool}.go` under the lock and the operations of `service/` | extends `RoutePool` |
| `GatewayProofs` | proofs | |
| `CodexConfig` | what `codexconfig` computes: category of the login, `ResolveWithAuth`, `PatchWithOptions`, `checkOwnership`, `mergeRestore`, `PatchMissingEndpoint` | operators on documents, no state |
| `ConfigTransaction` | `transaction.go`, `recovery.go`, `clean.go`: one access to the disk at a time, with faults, crashes and the editor | extends `CodexConfig` |
| `ConfigTransactionProofs` | lemmas about documents and the transaction | |
| `Takeover` | what the configuration transaction promises: the user's part of the file, whether ours is in it, the receipt | abstract |
| `ServiceControl`, `MCServiceControl` | the service around it: start, forwarding, the operations of the panel, shutdown, restart | extends `ConfigTransaction`; implements `Takeover` (`KeepsPromise`) |
| `ServiceControlProofs` | proofs | |
| `RecorderStore` | `requestrecorder/store.go`: queue, worker, quota, restart | |
| `Recorder`, `MCRecorder` | `setup.go`, `engine.go` and the program of the recorder in setup mode | extends `ConfigTransaction` and `RecorderStore` |
| `RecorderProofs` | proofs | |

**One step is one critical section.** A mutex is held for a whole step; a step ends
where the code releases it, waits, or does I/O. Each goroutine that serves a
request has a program counter whose labels are those places (`Labels` in each module).
So every interleaving at an unlock, a channel operation or a round trip is
explored; inside a critical section there is nothing to explore.

**What users of the breaker see.** `StateCore` and `ReliableProxy` do not repeat the
breaker: they use the actions of `CircuitGate`, which `RouteHealth` is proved to
implement. That is sound for the properties checked, because the gate allows
every behaviour of the breaker and more (any failure may open).

**Time.** `RouteHealth` and `TurnState` have a clock, since their properties compare
times. Elsewhere a deadline is a flag ("cooling", "paused", "may be forgotten")
that a step of its own clears at any moment: more behaviours than the code
has, none fewer. Whether an idle session is old enough to be forgotten is a
choice of any subset of those the code would consider. (A request takes less than the 30
minutes after which `StateCore` forgets a session: from `borrow` to its dispatch a session
is kept. A refresh of the panel does not count as use, and its session may go.)

**Upstream and user** are the environment: any answer, any order, any moment.

**Crashes** occur where something survives them: in `Gateway` the pool, in
`ServiceControl` and `Recorder` the configuration of Codex, backup, journal, settings and
records. After a crash the program may be started again and finds what is on disk.
The other components keep everything in memory and start empty.

**Documents.** A Codex configuration is a record of what the code looks at: active profile,
the three owned keys at the root and in the one profile, the providers, a mark for the
form of the providers table, and one value for everything else. Parsing and text patches
are left out; what they decide (a table that cannot be cut out of the text, a file that is
not TOML) is in the record. The constant `Names` has the values a model, an address or a
name of a key may have. One edit replaces the file by another one that differs in
one of these respects (`Edited`), as a user, Codex or a manager of providers does.

Remarks on single modules:

* `TurnState`: a token is its value, its date, and whether the policy accepts it. `Poll`
  is `NeedsRefresh`, which promotes as a side effect, as `Acquire` does.
* `StateCore`: candidates are told apart by configuration epoch and route. Strikes of a
  candidate and its session deadline are inputs (`Judgement`). A session is an object: the
  one a refresh holds may be dropped from the table and replaced by a new one of the same
  key (`Copies`), so that two rounds of one key can be announced; they still share slot,
  cooldown and budget. What a dropped object holds is forgotten, because only
  refreshes can reach it and they return no candidate to anyone. For the same reason `manual`
  stays set when a refresh is woken and asks again without force: it may return sooner then, and
  in the model it may return whenever it is in `ensure`. That `ensure` refuses because upstream
  or context changed is an input.
* `ReliableProxy`: the cursor's choice among available routes is any of them.
* `RoutePool`: the file and the map in memory differ only under the store's mutex,
  so one variable, which survives a crash, stands for both. `unsaved` is the sticky
  `err`: claims fail until a later change is saved.
* `ConfigTransaction`: `fsutil.Write` replaces by rename, so a file has its old or its new
  content. `raced` marks an edit that was saved after the last comparison.
* `ServiceControl`: the panel's operations hold the management lock from start to end, so
  `at` says where the one that runs is. A request is admitted in one step (`Admit`, which
  reads what the service holds at that moment) and ends in another (`Replied`); at most one
  is followed at a time. The engine is reduced to the
  address and kind it forwards to; `Gateway` has the rest. Each access to the settings
  file is a step: `persist` reads it three times (`Persist`, `Inspect`, `Reread`) and then
  replaces it (`Save`), the repair of an unreadable one compares (`Reset`, `Recheck`) and
  replaces it (`Rewrite`); any of them may fail, and the file may be edited or
  removed in between. `unseen` marks an edit saved after the last comparison, as
  `raced` does for the configuration of Codex, and a file that was another one when it was copied
  aside than when it was first read. A missing file counts as no settings, is written if it is
  missing throughout, and is created by the launcher at a start.
* `RecorderStore`: records have one unit of size. `ended` counts what was handed over.
* `Recorder`: `active` are the readers of the setup lock. `abandoned` marks an end of the
  program whose `TryLock` failed. /setup/stop is `Restore` and then the signal
  `Stop`, two steps: a connection may be made in between.
* `Gateway`: `busy` counts pins, `work` the sessions the worker has pinned and not
  reached; the limit of an account exists while a session of it does, or while it
  is restricted. `trips` is a history variable: it counts, per node, dispatches of
  random egress and automatic probes since the user put the node back. Requests
  that do not generate (models, account data) and those with a fixed exit do not count:
  the code lets them reuse nodes. The two deferred calls at the end of a
  round (slot, then announcement) are one step. The node pool is on.

## 3. Runs

| Run | Question | Bounds |
|---|---|---|
| `route_health` | the breaker's five promises and the refinement | one route, three leases, threshold 2, back-off 1 to 3, five leases issued, clock to 4 |
| `route_health_late` | can an old result override newer health? **Yes**, a failure can | the same, smaller |
| `state_core` | rounds, permits, configurations, spacing | two requests or refreshes, two models of one account, one object each, one route, two epochs |
| `state_core_live` | does every announced round end? | two requests or refreshes, one session object, one route |
| `state_core_auth` | is a 401 or 403 final? **No**: a late 429 replaces it | the same |
| `reliable_proxy` | turns, counts, refusals, permits | two requests, three scopes for two guards, one binding, two routes |
| `turn_state` | versions, strikes, hold | three requests, states issued over four seconds |
| `gateway` | pins, rounds, nodes, rejections | two requests, worker, panel; two models with room for one session; two nodes, random egress, two probes a round; turns and compactions (with plain requests as well it passes too, in about twice the time: 2.9 million states) |
| `service` | do settings, Codex configuration and forwarding agree whatever is edited, fails or crashes? | four kinds of user files, three logins, two starts, one operation of the panel, one edit, one fault or crash |
| `recorder` | are records accounted for, does the recorder forward to the right server, does its end restore Codex? | two requests that may overlap, room for one record in queue and directory, two starts, two operations of the panel, one edit, one fault or crash |
| `gateway_sessions` | does everybody who asks for a state get an answer? | one request, worker, panel; two sessions that contend for the slot; injection switched once |
| `gateway_disable` | does a switched-off gateway publish? **Yes**, in one window | the smallest such gateway |

Why the bounds are enough. The hazards are races of two actors and the return of
a third: two requests suffice where each step looks at one other owner of a
session, slot, node or binding, and three where the order of three results
matters (breaker, strikes). Capacities are set so that they are reached: two guards
for three scopes, one binding, one session for two models, an hourly budget of one,
one place in the recorder's queue and directory. `service` and `recorder` have one edit and
one fault each, because the properties name the state between two accesses and a
second edit finds the same comparison again; the edit and the fault may fall
anywhere, and two starts let what the first left on disk be found by the second. The user's
files are chosen so that every case of `Resolve` that changes what is forwarded or written
occurs: a login of its own, a relay with a key, one that wants the login, one without
an address, a profile that inherits.
In `state_core` a session can be dropped under a refresh, whose round then contends with one of the
other model; a second object of the same key (`Copies`) makes the run too long for
every change (8 million states), so two objects of one key at once are in the proofs only.
The second route or node is what retries and random choice need. Counters that
only grow (epochs, versions, the clock) are cut off where two changes have
happened, since every comparison is with the value before or the current one. TLC
bounds are named `Max...` and occur in guards only.

Symmetry is used for clients, models, scopes and routes where no value is singled
out and no liveness is checked.

Deadlock is checked wherever it can be. `RouteHealth` really stops when its sequence and
clock are used up.

### Fairness

* `route_health` (`TrialResolves`): whoever holds the trial reports; every exchange has a
  timeout, and `Finish` is deferred.
* `state_core_live` (`RoundsEnd`): weak fairness of each goroutine's next step (probes and
  bodies have deadlines), strong fairness of taking the slot, because a Go channel
  serves blocked senders in order. No client has to send anything. In this run
  all rounds are of one session.
* `gateway_sessions` (`RefreshesReturn`): strong fairness of the steps of a round, for the
  same reason. Here rounds of different sessions do contend for the slot. Nothing is
  asked of panel, worker or requests outside their rounds. That every round ends
  also ends every wait for one, since nobody waits for a round that is over
  (`RoundsExclusive`) and the end of a round wakes all who wait (`EndRound`).
* `service` (`Stops`) and `recorder` (`EndsRestored`): weak fairness of whoever holds the management
  lock (each access to the disk and each request of a connectivity check returns), of the
  program's own steps at its end, and of the recorder's worker. In `service` a forwarded
  request ends too (`WF_vars(Replied)`: the shutdown cancels its context); in `recorder` a
  request may never end. Neither the panel nor the user has to do anything.
  `Stops` says that the program comes to rest again and again: each operation gives the lock
  back, and once the program is told to stop it ends, behind the request it forwards. That
  `Restore` succeeds is not part of it.

### Disagreements between code and text

1. `route_health_late`: README.hardened.md:14 says that an old result cannot override a
   newer health state. For successes the code has the comparison of
   health.go:112; for failures it has none, and a late failure of an older
   request turns a healthy route suspect.
2. `state_core_auth`: docs/state-cookie-core.md:29 makes 401 and 403 final; state_core.go:257
   stores a later 429 over them, and when its pause is over the account is used again.
   The gateway (engine.go:504) and the reliable proxy do it right, and
   `RejectionsKept` and `ReliableProxy`'s `AuthIsFinal` hold.
3. `gateway_disable`: compat_test.go:118 requires that a probe under way when the injection
   is switched off publishes nothing. engine.go:295 checks and then offers, without a
   lock in common with SetInjection; the panel's switch does not pause the worker.

Seen while modelling, and excused in a property instead of being a run of its own:

* An edit that is saved between the last comparison of Install, Restore or repair and the
  replacement of the file is overwritten (transaction.go:93, `raced` in `KeepsPromise`). The
  comment at transaction.go:88 speaks of edits made during the backup, which are detected.
* The same holds for the settings file between control.go:296 and its replacement in line 300, and
  for a settings file that is edited and put back between the reads of `persist` (`unseen` in
  `KnownSettings`).
* README.recorder.md:126 says that a normal end stops the service, finishes or breaks off the
  requests and then restores. The shutdown waits five seconds (main.go:189); a handler that is
  still recording after that holds the read lock, Restore's `TryLock` fails and the takeover
  stays in place, with an error and the journal (`abandoned` in `EndsRestored`).
* README.recorder.md:10 says that connecting recognises the default profile. Connect keeps the
  profile of an earlier connection (setup.go:220, not reset by Restore), so that after the
  user has chosen another one a second Connect of the same process takes over the first.
  `ForwardsToCurrent` of the recorder looks at requests Codex sends with that profile, and
  holds: with the other one Codex does not send to the recorder.

Seen while modelling, and no text promises otherwise: with exit mode "state" and the pool
on, one failed request lists the node of the active state as failed, and turns
with that state are refused until it expires (handler.go:258); a state the upstream hands
out twice can be active and spare at once (turnstate/store.go:57); while a refresh works on a
session that was forgotten meanwhile, a request may announce a second round for the same
account and model (state_core.go:360-364 and 664-679), which then waits for the slot and
finds the account cooling; a new state at a full table of bindings is dropped without
a word (reliableproxy/engine.go:235).

## 4. Proofs

Checked by `tlapm`, for all values of the constants that satisfy the assumptions of
the modules (finitely many clients in `TurnState`, `StateCore`, `ReliableProxy` and
`Gateway`, whose counts are cardinalities of sets of clients; any routes, leases, nodes,
models, accounts, capacities and bounds). For the configuration of Codex: any set `Names` that
contains the values the code writes or accepts, marks (`Absent`, `Missing`, `Garbage`, `Refused`)
that are none of the values and differ, any user files that hold nothing of a program
before the first start (`OriginalsAssumption`, `HomesAssumption`), any logins, and any number of edits,
faults, starts and operations.

**RouteHealthProofs.** `TypeCorrect`; then `SingleTrialAlways`. The invariant is not
inductive: that no lease of a former trial counts follows from the order of epochs and
sequences, so `IInv` adds `LeasesOrdered` (leases were issued in the past, no two
with one sequence) and `FailuresOrdered` (`lastFailure` is the newest failure of
the epoch). `IInvStep` has a lemma per action. `BackoffAlwaysHonoured` and
`NewerFailureAlwaysStands` are action properties that follow from `IInv`; the latter
needs `FailuresOrdered`. `GateImplemented` maps each step to a step or stutter of
`CircuitGate`.

**TurnStateProofs.** `TypeCorrect`; `VersionsAlwaysName` from `VersionsGrow` (no version is
above the counter); `StrikesAlwaysPending` by counting the requests that are about to
reject the active state; `HeldAlways` from it: a strike that moves the state has an
accuser.

**StateCoreProofs.** One invariant `IInv` for `TypeCorrect`, `RoundsAlwaysOwned`,
`PermitsAlwaysReturned` and `CandidatesAlwaysCurrent`. Three conjuncts are not properties of their own:
`Placed` says who has a route and candidate at which place of the code (so that a
permit belongs to a route), `Seated` who has a session, which is still in the table
unless a refresh holds it, and `Attempted` that only the holder
of the slot probes, and that until its first probe the account is not cooling. The latter is
what `RoundsAlwaysSpaced` needs: the cooldown is checked once, when the slot is taken, and the
first attempt comes several steps later. `CandidatesAlwaysCurrent` is about the candidates that
sessions store; `LeasesAlwaysCurrent` carries it to the requests: since a request's session is in
the table (`Seated`), the candidate it is leased is one of the current configuration. A
request that was leased one before a change is sent with it, as in the code. `LimitsAlwaysKept` bounds probes by the hourly budget,
attempts by the limit of a round, and guards and sessions by their tables.

**GatewayProofs.** One invariant for requests, worker and panel, proved conjunct by conjunct with
frame lemmas for the steps that do not touch it. `Posts` says who has which session and node
where, and that the panel works alone. `PinsAlwaysHeld`: a session without pins is held
by nobody (`Unpinned`), so forgetting idle sessions is harmless. `RoundsAlwaysExclusive` is proved
as `RoundOwned`, which says actor by actor what the property counts.
`NodesOnceAlways` needs `NodesSpent`: a node that had its automatic trip is on no list from which it
can be claimed, whatever was saved; `DisabledAlwaysRest` needs that the panel moves nodes only while
nobody travels. `RejectionsAlwaysKept` is an action property: the limit of an account is dropped
only with its last session, when it is not a rejection.

**ReliableProxyProofs.** For finitely many clients and any scopes, states, routes and capacities. The
properties need each other, so one invariant `IInv` holds all of them: types,
`RequestsNamed` (a request under way has a scope and, once sent, a route), `SlotsCounted`
(the slots are the requests that have arrived), `RefusalsKept`, `BusyCounts`, `TurnsStay` and
`PermitsReturned`. `BusyCounts` makes pruning harmless: what may be forgotten belongs to a
scope nobody uses (`PrunableUnused`), hence `BindingsStep`, hence `TurnsStay`. The steps of an admitted
request share one lemma (`GoesEffect`). `TypeCorrect` contains that no count becomes
negative, which needs `SlotHeld` and `BusyHeld`. `BindingsAlwaysKept` and `AuthAlwaysFinal` are action
properties from `IInv`.

**ConfigTransactionProofs.** What service and recorder both need; there is no `Spec` here, so its
results are lemmas. `TxInv` says that a receipt is on disk while something of a program may be in
the file (`Receipted`), and what each access has in memory (`UnderWay`): what is about to be
written was computed from what was read, and the receipt is removed only when nothing is left to
take out. `InstallDoes`, `RestoreDoes`, `RecoverDoes` and `ResetDoes` say what beginning an operation
means for the caller, `AccessDoes` what each access does. Lemmas about the operators come first:
restoring field by field gives the user's part, with nothing of a program in it (`MergeFacts`);
the user's part of an installed file is the file before (`UserPartOfInstalled`); as long as
`checkOwnership` is content, the user's part resolves to what the original did (`ResolvedAsBefore`).
For the refinement of `Takeover`, `Separate` adds that what was put in can be told
from what the user has or writes (`Distinct`), and that the content which replaces the file has the same
user's part as the one read. One lemma per access shows that it is a step or a stutter of `Takeover`.

**ServiceControlProofs.** `IInv` has `TxInv` and what the service adds: `Posts` (where each operation
can be, and what it has in memory there), `Offered` (an offer is what the document it was made
for resolves to), `Agreement` (while the configuration is managed, model and goal are what the receipt
says, except between the end of an undoing and the step that notes it), `Known` (nobody is served before a
setup has succeeded or its failure is known), `EngineFits` (the engine is for the provider in use, or for
the former one while settings change) and `SavedFits`. One lemma per action. `SettingsAlwaysAgree`
is `Agreement` and `SavedFits` at rest. `KnownAlways` needs `Compared`: between the last comparison and the
replacement, unless an edit came in (`unseen`), the file holds what the first read has found, and that
is what is in use, or nothing; in the repair, what the user was shown.
`ForwardsAlways` goes from the engine by `EngineFits` and `Agreement` to what was resolved at
installation, and by `ResolvedAsBefore` to what the user's file says now. `NoLoginAlways` uses the first half of that
chain: a provider that is no official one and wants a login is resolved only for a key (`ResolveType`). `ReversibleAlways` states `Receipted` for the whole program. `PromiseKept`, the refinement
of `Takeover`, has one hypothesis, `OwnModels`: no user file already names a model that the service may put
in. Otherwise the user's part of an edited file is not defined by its content, since
`mergeRestore` takes a value equal to the installed one for its own; TLC evaluates the hypothesis on
the instance of the run `service` (`OwnModelsHold`).

**RecorderProofs.** `RecordsAlwaysAccounted`, for any sizes of queue, directory and disk and any
number of requests, starts and crashes. `StoreInv` adds to the property what the worker
knows at each stage: it has one record (`OneAtATime`), the index names the files but for the
one linked last (`IndexNamesFiles`), and what has passed the quota fits (`WithinLimits`). One
lemma per operation of the store; the steps of the recorder then choose among them.
That the limits also hold after a crash between link and index is `FilesWithinLimits`.
`RInv` joins `TxInv`, `StoreInv` and what the recorder adds: no request is under way while a writer
has the setup lock (`Requests`), what Connect holds fits the document it has read (`Reading`), and
while Codex is connected the receipt says where requests go (`Connection`). From it
`TypeCorrect` and `ForwardsAlways`, whose hard case is a connection with a profile kept from an
earlier one (`SentByItsProfile`). `PromiseKept` is the refinement of `Takeover` once more, without a hypothesis: the
recorder leaves the model alone.

**Only model-checked**: liveness (`TrialResolves`, `RoundsEnd`, `RefreshesReturn`, `Stops`,
`EndsRestored`), since TLAPS has no rule for fairness and ENABLED. Every invariant, action property
and refinement of a passing run is a theorem. No module that is proved about uses a
RECURSIVE operator.

## 5. Not modelled, and why

* **Text**: parsers (SSE, TOML, subscriptions), redaction and analysis of bodies, quota headers,
  model audit, pages, log files, validation of settings: data, handled by one goroutine. What
  a parser decides about a stream is an input of the model that uses it.
* **Operating system**: permissions, path and link checks, the instance lock, browser and
  launcher. A program is assumed to be alone in its data directory, which the lock is for.
* **Cookie bundles**: two operations, each one critical section over one map; a model would
  consist of the comparison of two counters that its property would repeat.
* In `Gateway`: the cursor's order, a pinned route, the pool switched off, relays,
  `SetRefreshMode` at run time (it is the constant `OnDemand`), the bounded number of request bodies.
* In `StateCore`: strikes, cookies and session deadline of a candidate (`Judgement` is their verdict).
* In `ConfigTransaction`: receipts of version 0.1/0.2 without a snapshot, the clean-up of
  entries without a receipt, more than one profile.
* In `ServiceControl`: an upstream or a profile given as an option, the read-only mode,
  subscriptions and connectivity checks (any result), the second save a panel may
  ask for while another runs (refused by `TryLock`).
* In `Recorder`: the manual mode, a profile given at the start, the discovery of a local
  proxy, the override of the model, the proxying itself. A temporary file whose
  removal fails after the record was linked stays, and counts at the next start; the
  model has it only for a crash.

## 6. Plan

Done, in this order: `CircuitGate`, `RouteHealth`, its proofs; `StateCore`; `ReliableProxy`;
`TurnState`, its proofs; `RoutePool` and `Gateway`; `CodexConfig`, `ConfigTransaction`, `Takeover`,
`ServiceControl`; `RecorderStore`, `Recorder`; the proofs of `ReliableProxy`, `StateCore` and `Gateway`;
those of the configuration transaction, the service and the recorder, with the
refinement of `Takeover` by both programs.

To come:

1. Proofs: further lemmas about `Resolve` (what an edit elsewhere in the file cannot change), and
   that what `RecorderStore` has on disk suffices for its next start.
2. The observation of streams as a function from chunks to verdicts, against a reference.
