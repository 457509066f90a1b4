------------------------------ MODULE Recorder ------------------------------
(***************************************************************************)
(* internal/requestrecorder and its program, in setup mode: the panel      *)
(* connects Codex to the recorder and restores it, requests are forwarded  *)
(* and recorded meanwhile, and the end of the program restores once more.  *)
(* A request holds the read lock of the setup controller from admission    *)
(* until its record has been handed over; Connect and Restore run only     *)
(* when they get the write lock at once.  ConfigTransaction is what they   *)
(* do to the files, RecorderStore what happens to the records, StateCore   *)
(* what happens to a request in between.  Refusals that change nothing are *)
(* steps that are not taken.  Left out: the manual mode, which reads no    *)
(* file of Codex; a profile given at the start; the paths of addresses.    *)
(***************************************************************************)
EXTENDS ConfigTransaction, RecorderStore

CONSTANTS
  Homes,       \* <<config.toml, auth.json>> there may be before the first start
  MaxConcurrent,
  MaxRequests, \* bound: requests, in the order they arrive
  MaxStarts,   \* bound: starts of the program
  MaxOps       \* bound: operations of the panel

\* No program has put anything into a file before the first start.
ASSUME HomesAssumption ==
  \A home \in Homes : home[1] \in Contents /\ ~Ours(home[1])

ASSUME BoundsAssumption == {MaxConcurrent, MaxRequests, MaxStarts, MaxOps} \subseteq Nat

VARIABLES
  auth,        \* auth.json of Codex
  \* fields of SetupController
  managed, pending,
  wanted,      \* profile
  mode,        \* authMode
  \* fields of Engine
  upstream,    \* target and transport
  core,        \* the state core is enabled
  recording,   \* enabled
  active,      \* requests under way, which hold the read lock
  recorded,    \* those that were admitted while recording was on
  \* goroutines
  main,        \* the program
  at,          \* the operation of the panel that holds the write lock
  offer,       \* what Connect has read
  abandoned,   \* an end of the program could not restore: a request held the lock
  used, starts, ops   \* requests, starts and operations so far

setup == <<managed, pending, wanted, mode>>
engine == <<upstream, core, recording, active, recorded>>
panel == <<at, offer>>
bounds == <<used, starts, ops>>
vars == <<transaction, store, auth, setup, engine, main, panel, abandoned, bounds>>

Mains == {"down", "serving", "closing", "deferred", "restoring", "close", "drain"}
Holds == {"idle", "install", "installing", "restore"}
Accesses == {"done", "backup", "journal", "compare", "write", "recompare", "replace", "unjournal"}

\* No writer has the lock; nobody has it.
Readable == at = "idle" /\ main # "restoring"
Free == Readable /\ active = {}

Admitted == managed /\ StillInstalled /\ ReadAuthMode(auth) = mode

\* The host a request goes to by default; coreAllowed.
Default == Official
CoreAllowed(host) == host \in {Official, Local}

InitMemory ==
  /\ managed = FALSE /\ pending = FALSE /\ wanted = Absent /\ mode = Absent
  /\ upstream = Default /\ core = FALSE /\ recording = FALSE
  /\ active = {} /\ recorded = {}
  /\ at = "idle" /\ offer = Absent

RInit ==
  /\ Init
  /\ \E home \in Homes : target = home[1] /\ auth = home[2]
  /\ StoreInit
  /\ InitMemory
  /\ main = "down"
  /\ abandoned = FALSE
  /\ used = 0 /\ starts = 0 /\ ops = 0

-----------------------------------------------------------------------------
(* Requests *)

\* ServeHTTP, as far as the proxy: what it has read here holds for the whole request.
Admit(r) ==
  /\ main = "serving" /\ Readable
  /\ Admitted
  /\ r = used + 1
  /\ Cardinality(active) < MaxConcurrent
  /\ active' = active \cup {r}
  /\ recorded' = IF recording THEN recorded \cup {r} ELSE recorded
  /\ used' = r
  /\ UNCHANGED <<transaction, store, auth, setup, upstream, core, recording, main, panel,
                 abandoned, starts, ops>>

\* Its end, however it comes: refused by the core, answered, cancelled or broken off.
Ends(r) ==
  /\ r \in active
  /\ active' = active \ {r} /\ recorded' = recorded \ {r}
  /\ IF r \in recorded THEN Submit(r) ELSE UNCHANGED store
  /\ UNCHANGED <<transaction, auth, setup, upstream, core, recording, main, panel,
                 abandoned, bounds>>

-----------------------------------------------------------------------------
(* The panel *)

Operation ==
  /\ main = "serving"
  /\ ops < MaxOps
  /\ ops' = ops + 1

\* /capture: requests under way keep what they were admitted with.
Capture ==
  /\ Operation
  /\ recording' = ~recording
  /\ UNCHANGED <<transaction, store, auth, setup, upstream, core, active, recorded, main,
                 panel, abandoned, used, starts>>

\* ConfigureCore.
ConfigureCore ==
  /\ Operation /\ Readable
  /\ core' \in BOOLEAN
  /\ core' => Admitted /\ CoreAllowed(upstream)
  /\ UNCHANGED <<transaction, store, auth, setup, upstream, recording, active, recorded, main,
                 panel, abandoned, used, starts>>

\* Connect, up to the installation: it reads the configuration and the login.
Connect ==
  /\ Operation /\ Free
  /\ ~managed /\ ~pending
  /\ LET login == ReadAuthMode(auth)
         selection == Resolve(target, wanted, login)
     IN /\ login # "ambiguous" /\ selection # Refused
        /\ offer' = [doc |-> Bytes(target), mode |-> login,
                     profile |-> selection.profile, upstream |-> selection.upstream]
  /\ at' = "install"
  /\ UNCHANGED <<transaction, store, auth, setup, engine, main, abandoned, used, starts>>

\* The request of the panel was cancelled, or the address of the proxy is invalid.
ConnectCancelled ==
  /\ at = "install"
  /\ at' = "idle" /\ offer' = Absent
  /\ UNCHANGED <<transaction, store, auth, setup, engine, main, abandoned, bounds>>

\* Mutant: it installs for whatever the file holds by now.
InstallAnything ==
  /\ at = "install"
  /\ BeginInstall(offer.profile, offer.mode, Absent, Absent)
  /\ at' = "installing"
  /\ UNCHANGED <<store, auth, setup, engine, main, offer, abandoned, bounds>>

Install ==
  /\ at = "install"
  /\ BeginInstall(offer.profile, offer.mode, Absent, offer.doc)
  /\ at' = "installing"
  /\ UNCHANGED <<store, auth, setup, engine, main, offer, abandoned, bounds>>

\* Mutant: the result of the installation is not waited for.
ConnectedSoon ==
  /\ at = "installing"
  /\ upstream' = offer.upstream /\ core' = FALSE
  /\ managed' = TRUE /\ pending' = TRUE
  /\ mode' = offer.mode /\ wanted' = offer.profile
  /\ at' = "idle" /\ offer' = Absent
  /\ UNCHANGED <<transaction, store, auth, recording, active, recorded, main, abandoned, bounds>>

\* The new upstream replaces the old one; the profile stays for the next time.
Connected ==
  /\ at = "installing" /\ step = "done"
  /\ IF failed
     THEN pending' = (journal # Absent) /\ UNCHANGED <<upstream, core, managed, mode, wanted>>
     ELSE /\ upstream' = offer.upstream /\ core' = FALSE
          /\ managed' = TRUE /\ pending' = TRUE
          /\ mode' = offer.mode /\ wanted' = offer.profile
  /\ at' = "idle" /\ offer' = Absent
  /\ UNCHANGED <<transaction, store, auth, recording, active, recorded, main, abandoned, bounds>>

\* /setup/restore and /setup/stop.
Restore ==
  /\ Operation /\ Free
  /\ pending
  /\ BeginRestore
  /\ at' = "restore"
  /\ UNCHANGED <<store, auth, setup, engine, main, offer, abandoned, used, starts>>

\* What Restore does when the file is restored.
Forget ==
  IF failed THEN UNCHANGED <<managed, pending, core>>
  ELSE managed' = FALSE /\ pending' = FALSE /\ core' = FALSE

\* ... and gives the lock back; that /setup/stop then ends the program is a Stop, and
\* anything may come before it.
Restored ==
  /\ at = "restore" /\ step = "done"
  /\ Forget
  /\ at' = "idle"
  /\ UNCHANGED <<transaction, store, auth, wanted, mode, upstream, recording, active, recorded,
                 main, offer, abandoned, bounds>>

-----------------------------------------------------------------------------
(* The program *)

\* run and EnableSetup; the core may be enabled by the program's own configuration.
Launch ==
  /\ main = "down" /\ starts < MaxStarts
  /\ starts' = starts + 1
  /\ NewStore
  /\ core' \in BOOLEAN
  /\ core' => CoreAllowed(Default)
  /\ recording' = TRUE
  /\ pending' = (journal # Absent)
  /\ main' = "serving"
  /\ UNCHANGED <<transaction, auth, managed, wanted, mode, upstream, active, recorded, panel,
                 abandoned, used, ops>>

\* A signal, or the end of /setup/stop.
Stop ==
  /\ main = "serving"
  /\ main' = "closing"
  /\ UNCHANGED <<transaction, store, auth, setup, engine, panel, abandoned, bounds>>

\* server.Shutdown waits for the handlers, for five seconds; after that they go on
\* while the program does.
ServerClosed ==
  /\ main = "closing"
  /\ main' = "deferred"
  /\ UNCHANGED <<transaction, store, auth, setup, engine, panel, abandoned, bounds>>

\* Mutant: nothing is restored.
CloseOnly ==
  /\ main = "deferred" /\ at = "idle"
  /\ main' = "close"
  /\ UNCHANGED <<transaction, store, auth, setup, engine, panel, abandoned, bounds>>

\* The deferred function: Status waits for an operation of the panel, Restore does not
\* wait for requests.
Deferred ==
  /\ main = "deferred" /\ at = "idle"
  /\ IF managed /\ active = {}
     THEN BeginRestore /\ main' = "restoring" /\ UNCHANGED abandoned
     ELSE main' = "close" /\ abandoned' = (abandoned \/ managed) /\ UNCHANGED transaction
  /\ UNCHANGED <<store, auth, setup, engine, panel, bounds>>

DeferredRestored ==
  /\ main = "restoring" /\ step = "done"
  /\ Forget
  /\ main' = "close"
  /\ UNCHANGED <<transaction, store, auth, wanted, mode, upstream, recording, active, recorded,
                 panel, abandoned, bounds>>

\* Engine.Close.
CloseStore ==
  /\ main = "close"
  /\ Close
  /\ main' = "drain"
  /\ UNCHANGED <<transaction, auth, setup, engine, panel, abandoned, bounds>>

Gone ==
  /\ main' = "down"
  /\ managed' = FALSE /\ pending' = FALSE /\ wanted' = Absent /\ mode' = Absent
  /\ upstream' = Default /\ core' = FALSE /\ recording' = FALSE
  /\ active' = {} /\ recorded' = {}
  /\ at' = "idle" /\ offer' = Absent
  /\ UNCHANGED <<auth, abandoned, bounds>>

\* Mutant: the worker is not waited for.
ExitSoon ==
  /\ main = "drain"
  /\ Leave /\ Gone
  /\ UNCHANGED transaction

Exit ==
  /\ main = "drain" /\ Done
  /\ Leave /\ Gone
  /\ UNCHANGED transaction

Crashes ==
  /\ main # "down"
  /\ Crash
  /\ NewStore /\ Gone

-----------------------------------------------------------------------------
(* Files and the world outside *)

rest == <<auth, setup, engine, main, panel, abandoned, bounds>>

Files == (Access \/ DamageBackup) /\ UNCHANGED <<store, rest>>

Saving ==
  \/ Worker /\ UNCHANGED <<transaction, rest>>
  \/ /\ SaveFails
     /\ faults < MaxFaults
     /\ faults' = faults + 1
     /\ UNCHANGED <<files, run, raced, edits, rest>>

others == {home[1] : home \in Homes} \ {Missing, Garbage}

EditConfig == EditTarget(others) /\ UNCHANGED <<store, rest>>

EditLogin ==
  /\ edits < MaxEdits
  /\ edits' = edits + 1
  /\ auth' \in {home[2] : home \in Homes} \ {auth}
  /\ UNCHANGED <<files, run, raced, faults, store, setup, engine, main, panel, abandoned, bounds>>

\* Nobody starts the program again.
Over == main = "down" /\ starts = MaxStarts /\ UNCHANGED vars

RNext ==
  \/ \E r \in 1..MaxRequests : Admit(r) \/ Ends(r)
  \/ Capture \/ ConfigureCore \/ Connect \/ ConnectCancelled \/ Install \/ Connected
  \/ Restore \/ Restored
  \/ Launch \/ Stop \/ ServerClosed \/ Deferred \/ DeferredRestored \/ CloseStore \/ Exit
  \/ Crashes
  \/ Files \/ Saving
  \/ EditConfig \/ EditLogin
  \/ Over

\* Each goroutine but those of requests goes on when it can: the program, the one that
\* holds the write lock, and the worker of the store.
Ready ==
  \/ main \in {"closing", "close"}
  \/ main = "deferred" /\ at = "idle"
  \/ main = "restoring" /\ step = "done"
  \/ main = "drain" /\ Done
MainGoes == Ready /\ main' \in Mains
WriterGoes == ~Readable /\ at' \in Holds /\ step' \in Accesses
WorkerGoes == (stage # "idle" \/ queue # <<>>) /\ stage' \in Stages

RSpec ==
  /\ RInit /\ [][RNext]_vars
  /\ WF_main(MainGoes) /\ WF_<<at, step>>(WriterGoes) /\ WF_stage(WorkerGoes)

-----------------------------------------------------------------------------
(* Properties *)

TypeOK ==
  /\ main \in Mains /\ at \in Holds /\ step \in Accesses /\ stage \in Stages
  /\ {managed, pending, core, recording, abandoned, closed} \subseteq BOOLEAN
  /\ recorded \subseteq active /\ active \subseteq 1..used /\ used \in 0..MaxRequests
  /\ Cardinality(active) <= MaxConcurrent
  /\ Len(queue) <= QueueSize
  /\ at = "idle" /\ main # "restoring" => step = "done"
  /\ ~Readable => active = {}
  /\ starts \in 0..MaxStarts /\ ops \in 0..MaxOps

\* When Codex sends to the recorder, its request goes on to the server that the user's
\* part of the file names and its login is for, and only on the way to one it is made
\* for may the core put a state into it.
ForwardsToCurrent ==
  [][LET file == UserPart(target, journal)
         selected == Resolve(file, Absent, ReadAuthMode(auth))
         sends == /\ \E r \in active' : r \notin active
                  /\ Overlay(target, target.profile).model_provider = Managed
     IN sends => /\ selected # Refused /\ upstream = selected.upstream
                 /\ core => CoreAllowed(selected.upstream)]_vars

\* A program that is told to end does, and, unless somebody has edited the files, an
\* access has failed or a request still held the lock, leaves Codex as it found it.
EndsRestored ==
  main = "closing" ~>
    main = "down" /\ (edits = 0 /\ faults = 0 /\ ~abandoned => ~Ours(target))
=============================================================================
