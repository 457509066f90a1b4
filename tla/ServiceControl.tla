---------------------------- MODULE ServiceControl ----------------------------
(***************************************************************************)
(* internal/service: the process that owns the listener.  It takes over    *)
(* the configuration of Codex (ConfigTransaction), forwards requests while *)
(* the configuration is what it took over, serves the operations of the    *)
(* panel and undoes everything when it ends.  A forwarded request holds    *)
(* the read lock until its reply has ended; an operation runs only when it *)
(* gets the write lock at once.  What the engine does with a request is    *)
(* module Gateway.  Refusals that change nothing (an engine under a        *)
(* restriction, a lock that is taken, a form that does not decode) are     *)
(* steps that are not taken.  Left out: configurations with a fixed        *)
(* upstream (UpstreamMode "manual") or profile, and read-only programs     *)
(* other than the one that repairs its own settings.                       *)
(***************************************************************************)
EXTENDS ConfigTransaction

CONSTANTS
  Originals,   \* files Codex may have before the first start
  Logins,      \* contents auth.json may have
  MaxStarts,   \* bound: starts of the program
  MaxOps       \* bound: operations of the panel

VARIABLES
  \* files
  auth,        \* auth.json of Codex
  saved,       \* the settings file of the service
  \* fields of control
  managed, setupError, routeError, rescue,
  config,      \* the settings in use
  goal,        \* targetURL, targetKind and authMode
  engine,      \* upstream and kind it forwards to, or Absent
  \* the goroutine that holds the write lock
  at,          \* its next step; "idle": the lock is free, "down": no process
  flow,        \* the operation
  caller,      \* who connects: setup(), a change of settings, or its rollback
  next,        \* settings to be saved
  offer,       \* provider read for the installation; the file shown; settings read
  was,         \* goal before the change
  \* a request
  forwarding,  \* upstream and kind it was sent to, or Absent
  stopping,    \* the process was told to stop
  starts, ops,
  unseen       \* history: whoever saves settings has not compared what the file holds

memory == <<managed, setupError, routeError, rescue, config, goal, engine>>
thread == <<at, flow, caller, next, offer, was>>
process == <<forwarding, stopping, starts, ops, unseen>>
vars == <<transaction, auth, saved, memory, thread, process>>

Places == {"down", "idle", "exit", "restore", "provide", "install", "installing", "set",
           "recovering", "preview", "persist", "inspect", "reread", "save", "rollback", "rolled",
           "reset", "rewrite"}
Accesses == {"done", "backup", "journal", "compare", "write",
             "archive", "recompare", "replace", "unjournal"}

Modes == {"unknown", "chatgpt", "api_key", "ambiguous"}
Models == {"astra", "sol"}
Goals == [upstream : Acceptable, kind : {"official", "relay"}, mode : Modes]
Engines == [upstream : Acceptable, kind : {"official", "relay"}]
Settings == [model : Models, rest : 0..2]
Default == [model |-> "astra", rest |-> 0]

\* What somebody else leaves of the settings file.
Foreign == {Garbage, Missing, [Default EXCEPT !.rest = 2]}

\* No program has put anything into a file before the first start.
ASSUME OriginalsAssumption == \A file \in Originals : file \in Contents /\ ~Ours(file)
ASSUME ModelsAssumption == Models \cup {"KEY"} \subseteq Names
ASSUME GoalsAssumption == Absent \notin Goals /\ Absent \notin Engines /\ Absent \notin Settings
                          /\ Garbage \notin Settings
ASSUME StartsAssumption == {MaxStarts, MaxOps} \subseteq Nat

Selected(sel) ==
  [upstream |-> sel.upstream,
   kind |-> IF sel.official /\ sel.kind = "chatgpt" THEN "official" ELSE "relay"]

\* checkManaged: nothing has changed that decides where and as whom Codex sends.
CheckManaged == managed => StillInstalled /\ ReadAuthMode(auth) = goal.mode

Healthy == ~setupError /\ ~routeError /\ CheckManaged

\* effective: the resolved provider, else the default.
Effective == IF goal = Absent THEN [upstream |-> Official, kind |-> "official"]
             ELSE [upstream |-> goal.upstream, kind |-> goal.kind]

-----------------------------------------------------------------------------
InitMemory(settings, repair) ==
  /\ managed = FALSE /\ setupError = FALSE /\ routeError = FALSE /\ rescue = repair
  /\ config = settings
  /\ goal = Absent /\ engine = Absent

SInit ==
  /\ Init
  /\ target \in Originals
  /\ auth \in Logins
  /\ saved = Default
  /\ InitMemory(Default, FALSE)
  /\ at = "down" /\ flow = "none" /\ caller = "none"
  /\ next = Absent /\ offer = Absent /\ was = Absent
  /\ forwarding = Absent /\ stopping = FALSE
  /\ starts = 0 /\ ops = 0 /\ unseen = FALSE

\* The operation returns and the lock is free again.
Return ==
  /\ at' = "idle" /\ flow' = "none" /\ caller' = "none"
  /\ next' = Absent /\ offer' = Absent /\ was' = Absent

Proceed(to) == at' = to /\ UNCHANGED <<flow, caller, next, offer, was>>

\* restore, then installProvider: what setup(), applyConfig and its rollback share.
Connect(who) ==
  /\ BeginRestore
  /\ at' = "restore"
  /\ caller' = who

\* setup, from its first line to the call of Restore.
Setup ==
  /\ managed' = FALSE
  /\ Connect("setup")

\* stop, start: found is FALSE when the pinned route is gone or the pool unreadable.
StartEngine(found) ==
  /\ engine' = IF found THEN Effective ELSE Absent
  /\ routeError' = ~found

-----------------------------------------------------------------------------
(* The process *)

\* run, up to setup, with or without the browser.  The browser's program puts the
\* default where there are no settings (the other one refuses to start), and either
\* only repairs those it cannot read.
Launch ==
  /\ at = "down" /\ starts < MaxStarts
  /\ starts' = starts + 1
  /\ IF saved = Garbage
     THEN /\ rescue' = TRUE /\ routeError' = TRUE
          /\ Proceed("idle")
          /\ UNCHANGED <<saved, transaction, managed, setupError, config, goal, engine>>
     ELSE /\ saved' = IF saved = Missing THEN Default ELSE saved
          /\ config' = saved'
          /\ \/ /\ Setup
                /\ flow' \in {"launch"} \cup IF saved = Missing THEN {} ELSE {"start"}
                /\ next' = IF flow' = "launch" THEN saved' ELSE Absent
                /\ UNCHANGED <<setupError, offer, was>>
             \/ /\ setupError' = TRUE    \* quickSetup: no route
                /\ Proceed("idle")
                /\ UNCHANGED <<transaction, managed>>
          /\ UNCHANGED <<routeError, rescue, goal, engine>>
  /\ UNCHANGED <<auth, forwarding, stopping, ops, unseen>>

\* The process is told to stop and its context cancelled; an operation under way
\* ends first, so that the stop counts from then on.
Stop ==
  /\ at = "idle" /\ ~stopping
  /\ stopping' = TRUE
  /\ UNCHANGED <<transaction, auth, saved, memory, thread, forwarding, starts, ops, unseen>>

\* The deferred function of run waits for the lock, closes the engine and restores.
Shutdown ==
  /\ stopping
  /\ at = "idle" /\ forwarding = Absent
  /\ engine' = Absent
  /\ IF rescue THEN UNCHANGED transaction ELSE BeginRestore
  /\ Proceed("exit")
  /\ UNCHANGED <<auth, saved, managed, setupError, routeError, rescue, config, goal, process>>

Ended ==
  /\ at' = "down" /\ flow' = "none" /\ caller' = "none"
  /\ next' = Absent /\ offer' = Absent /\ was' = Absent
  /\ managed' = FALSE /\ setupError' = FALSE /\ routeError' = FALSE /\ rescue' = FALSE
  /\ config' = Default /\ goal' = Absent /\ engine' = Absent
  /\ forwarding' = Absent /\ stopping' = FALSE /\ unseen' = FALSE

Exit ==
  /\ at = "exit" /\ step = "done"
  /\ Ended
  /\ UNCHANGED <<transaction, auth, saved, starts, ops>>

Crashes ==
  /\ at # "down"
  /\ Crash
  /\ Ended
  /\ UNCHANGED <<auth, saved, starts, ops>>

-----------------------------------------------------------------------------
(* Requests *)

\* ServeHTTP, as far as the engine; it holds the read lock until the reply has ended.
Admit ==
  /\ at = "idle" /\ ~stopping
  /\ forwarding = Absent
  /\ CheckManaged
  /\ ~rescue /\ engine # Absent /\ ~setupError /\ ~routeError
  /\ forwarding' = engine
  /\ UNCHANGED <<transaction, auth, saved, memory, thread, stopping, starts, ops, unseen>>

\* Mutant: the replies' context is not the one that is cancelled.
RepliedOnly ==
  /\ forwarding # Absent
  /\ forwarding' = IF stopping THEN forwarding ELSE Absent
  /\ UNCHANGED <<transaction, auth, saved, memory, thread, stopping, starts, ops, unseen>>

Replied ==
  /\ forwarding # Absent
  /\ forwarding' = Absent
  /\ UNCHANGED <<transaction, auth, saved, memory, thread, stopping, starts, ops, unseen>>

-----------------------------------------------------------------------------
(* Operations of the panel *)

\* action.TryLock, mu.TryLock.
Locked ==
  /\ at = "idle" /\ ~stopping
  /\ forwarding = Absent
  /\ ops < MaxOps
  /\ ops' = ops + 1

rest == <<auth, saved, forwarding, stopping, starts, unseen>>

\* /recover: check the configuration and take it over again.
Recover ==
  /\ Locked /\ ~rescue
  /\ engine' = Absent
  /\ Setup
  /\ flow' = "recover"
  /\ UNCHANGED <<rest, setupError, routeError, rescue, config, goal, next, offer, was>>

\* /recovery/apply, for the file as the preview has shown it.
Recovery ==
  /\ Locked /\ ~rescue
  /\ \E mode \in {"keep_current", "restore_backup"} : BeginRecover(mode, target)
  /\ at' = "recovering" /\ flow' = "recover"
  /\ UNCHANGED <<rest, memory, caller, next, offer, was>>

\* What /codex-config/rebuild replaces the file by: the login's own service, or a
\* relay whose key is in the environment or in auth.json.
Rebuilt(kind, mode) ==
  LET official == [EmptyDoc EXCEPT !.root.model = config.model,
                                   !.root.model_provider = "openai"]
      relay == [[EmptyDoc EXCEPT !.root.model = config.model, !.root.model_provider = "relay"]
                  EXCEPT !.providers["relay"] =
                    [base_url |-> "relay.two", requires |-> kind = "relay_login",
                     env_key |-> IF kind = "relay_key" THEN "KEY" ELSE Absent]]
  IN CASE kind = "official" -> IF mode = "chatgpt" THEN official ELSE Refused
       [] kind = "relay_key" -> relay
       [] kind = "relay_login" -> IF mode = "api_key" THEN relay ELSE Refused

\* rebuildConfig.
Rebuild ==
  /\ Locked /\ ~rescue
  /\ \E kind \in {"official", "relay_key", "relay_login"} :
       LET mode == ReadAuthMode(auth)
       IN BeginReset(Rebuilt(kind, mode), IF kind = "relay_key" THEN "api_key" ELSE mode, target)
  /\ at' = "recovering" /\ flow' = "recover"
  /\ UNCHANGED <<rest, memory, caller, next, offer, was>>

\* repairEndpoint: the address a relay lacks.
Repair ==
  /\ Locked /\ ~rescue
  /\ ~managed
  /\ LET mode == ReadAuthMode(auth)
         repaired == PatchMissingEndpoint(target, Absent, "relay.two", mode)
         selection == IF repaired = Refused THEN Refused ELSE Resolve(repaired, Absent, mode)
     IN /\ selection # Refused
        /\ BeginReset(repaired, IF selection.env_key # Absent THEN "api_key" ELSE mode, target)
  /\ at' = "recovering" /\ flow' = "recover"
  /\ UNCHANGED <<rest, memory, caller, next, offer, was>>

\* The file was recovered, rebuilt or repaired: the old engine must not go on.
Recovered ==
  /\ at = "recovering" /\ step = "done" /\ flow = "recover"
  /\ IF failed
     THEN Return /\ UNCHANGED <<transaction, memory>>
     ELSE /\ engine' = Absent
          /\ Setup
          /\ UNCHANGED <<setupError, routeError, rescue, config, goal, flow, next, offer, was>>
  /\ UNCHANGED <<auth, saved, process>>

\* quickSetup, once the routes have loaded; an engine whose connection was not
\* healthy does not survive an earlier failure.
Quick ==
  /\ Locked /\ ~rescue
  /\ \/ /\ next' = [config EXCEPT !.rest = 1]
        /\ engine' = Absent
        /\ Setup
        /\ flow' = "quick"
        /\ UNCHANGED <<setupError, routeError, rescue, config, goal, offer, was>>
     \/ /\ ~Healthy
        /\ engine' = Absent
        /\ UNCHANGED <<transaction, managed, setupError, routeError, rescue, config, goal, thread>>
  /\ UNCHANGED rest

\* applyConfig, for the model or another preference, once the routes have loaded.
Apply ==
  /\ Locked /\ ~rescue
  /\ CheckManaged
  /\ next' \in {[config EXCEPT !.model = CHOOSE m \in Models : m # @],
                [config EXCEPT !.rest = 1]} \ {config}
  /\ was' = goal
  /\ flow' = "apply"
  /\ IF next'.model # config.model
     THEN Connect("change")
     ELSE at' = "persist" /\ UNCHANGED <<transaction, caller>>
  /\ UNCHANGED <<rest, memory, offer>>

\* What the operations that only save share: other settings, then persist.
SaveOther(operation) ==
  /\ Locked /\ ~rescue
  /\ flow' = operation
  /\ next' = [config EXCEPT !.rest = IF @ = 0 THEN 1 ELSE 0]
  /\ at' = "persist"
  /\ UNCHANGED <<transaction, rest, memory, caller, offer, was>>

\* /state-policy changes the engine in place, and so does /injection, which cannot
\* be switched on for a relay.
Policy == SaveOther("save")
Injection ==
  \E enabled \in BOOLEAN : (enabled => Effective.kind # "relay") /\ SaveOther("save")

\* /sources/apply and /routes/pin, once their routes have loaded: a new engine.
Sources == SaveOther("sources")
Pin == SaveOther("sources")

\* resetServiceConfig, for the content the panel has shown; that is archived.
Reset ==
  /\ Locked /\ rescue
  /\ saved # Missing
  /\ at' = "reset" /\ offer' = saved
  /\ unseen' = FALSE
  /\ UNCHANGED <<transaction, auth, saved, forwarding, stopping, starts, memory>>
  /\ UNCHANGED <<flow, caller, next, was>>

-----------------------------------------------------------------------------
(* restore, then installProvider *)

\* installProvider has failed.
ConnectFailed ==
  IF caller = "change"
  THEN at' = "rollback" /\ UNCHANGED <<managed, setupError>>
  ELSE /\ managed' = FALSE /\ setupError' = TRUE
       /\ at' = IF caller = "setup" THEN "set" ELSE "rolled"

\* Restore has returned.
Restored ==
  /\ at = "restore" /\ step = "done"
  /\ IF ~failed
     THEN /\ managed' = FALSE
          /\ Proceed("provide")
          /\ UNCHANGED setupError
     ELSE IF caller = "change"
     THEN Return /\ UNCHANGED <<managed, setupError>>
     ELSE ConnectFailed /\ UNCHANGED <<flow, caller, next, offer, was>>
  /\ UNCHANGED <<transaction, auth, saved, routeError, rescue, config, goal, engine, process>>

\* installProvider reads the configuration and the login and resolves the provider.
Provide ==
  /\ at = "provide"
  /\ LET mode == ReadAuthMode(auth)
         selected == Resolve(target, Absent, mode)
     IN IF selected = Refused
        THEN ConnectFailed /\ UNCHANGED offer
        ELSE /\ offer' = [doc |-> Bytes(target), mode |-> mode,
                          upstream |-> Selected(selected).upstream,
                          kind |-> Selected(selected).kind]
             /\ at' = "install"
             /\ UNCHANGED <<managed, setupError>>
  /\ UNCHANGED <<flow, caller, next, was>>
  /\ UNCHANGED <<transaction, auth, saved, routeError, rescue, config, goal, engine, process>>

\* Mutant: c.config is not switched for the time of the call.
InstallOld ==
  /\ at = "install"
  /\ BeginInstall(Absent, offer.mode, config.model, offer.doc)
  /\ Proceed("installing")
  /\ UNCHANGED <<auth, saved, memory, process>>

\* ... and installs for exactly the document it has resolved.
Install ==
  /\ at = "install"
  /\ LET model == (IF caller = "change" THEN next ELSE config).model
     IN BeginInstall(Absent, offer.mode, model, offer.doc)
  /\ Proceed("installing")
  /\ UNCHANGED <<auth, saved, memory, process>>

\* Mutant: the result of the write is not waited for.
InstalledSoon ==
  /\ at = "installing"
  /\ goal' = [upstream |-> offer.upstream, kind |-> offer.kind, mode |-> offer.mode]
  /\ managed' = TRUE /\ setupError' = FALSE
  /\ at' = "set"
  /\ offer' = Absent
  /\ UNCHANGED <<flow, caller, next, was>>
  /\ UNCHANGED <<transaction, auth, saved, routeError, rescue, config, engine, process>>

Installed ==
  /\ at = "installing" /\ step = "done"
  /\ IF failed
     THEN ConnectFailed /\ UNCHANGED goal
     ELSE /\ goal' = [upstream |-> offer.upstream, kind |-> offer.kind, mode |-> offer.mode]
          /\ IF caller = "change"
             THEN at' = "persist" /\ UNCHANGED <<managed, setupError>>
             ELSE /\ managed' = TRUE /\ setupError' = FALSE
                  /\ at' = IF caller = "setup" THEN "set" ELSE "rolled"
  /\ offer' = Absent
  /\ UNCHANGED <<flow, caller, next, was>>
  /\ UNCHANGED <<transaction, auth, saved, routeError, rescue, config, engine, process>>

-----------------------------------------------------------------------------
(* After setup *)

\* run and the operations that reconnect: load the routes and start.
Load ==
  /\ at = "set" /\ flow \in {"start", "recover"}
  /\ IF setupError /\ flow = "recover"
     THEN UNCHANGED <<engine, routeError>>
     ELSE \E found \in BOOLEAN : StartEngine(found)
  /\ Return
  /\ UNCHANGED <<transaction, auth, saved, managed, setupError, rescue, config, goal, process>>

\* quickSetup: setup has worked; unless the request is cancelled it saves.
QuickSet ==
  /\ at = "set" /\ flow \in {"quick", "launch"}
  /\ ~setupError
  /\ \/ Proceed("persist") /\ UNCHANGED setupError
     \/ Return /\ setupError' = TRUE
  /\ UNCHANGED <<transaction, auth, saved, managed, routeError, rescue, config, goal, engine, process>>

\* It has not: the old takeover is undone keeping the user's changes, once (was
\* marks that), if that is possible.
QuickRecovers ==
  /\ at = "set" /\ flow \in {"quick", "launch"}
  /\ setupError
  /\ IF was = Absent /\ CanKeepCurrent
     THEN at' = "preview" /\ offer' = target /\ was' = Refused /\ UNCHANGED <<flow, caller, next>>
     ELSE Return
  /\ UNCHANGED <<transaction, auth, saved, memory, process>>

QuickKeeps ==
  /\ at = "preview"
  /\ BeginRecover("keep_current", offer)
  /\ at' = "recovering" /\ offer' = Absent
  /\ UNCHANGED <<flow, caller, next, was, auth, saved, memory, process>>

QuickAgain ==
  /\ at = "recovering" /\ step = "done" /\ flow \in {"quick", "launch"}
  /\ IF failed
     THEN Return /\ UNCHANGED <<transaction, managed>>
     ELSE Setup /\ UNCHANGED <<flow, next, offer, was>>
  /\ UNCHANGED <<auth, saved, setupError, routeError, rescue, config, goal, engine, process>>

-----------------------------------------------------------------------------
(* Saving *)

\* persist has failed.
PersistFailed ==
  CASE flow = "apply" ->
         /\ at' = IF caller = "change" THEN "rollback" ELSE "rolled"
         /\ offer' = Absent
         /\ UNCHANGED <<setupError, flow, caller, next, was>>
    [] flow \in {"quick", "launch"} -> setupError' = TRUE /\ Return
    [] OTHER -> Return /\ UNCHANGED setupError

\* What the accesses to the settings file before its replacement leave alone.
unwritten == <<transaction, auth, saved, managed, routeError, rescue, config, goal, engine,
               forwarding, stopping, starts, ops>>

\* persist reads the file ...
Persist ==
  /\ at = "persist"
  /\ at' = "inspect" /\ offer' = saved
  /\ UNCHANGED <<unwritten, unseen, setupError, flow, caller, next, was>>

\* ... once more: it must be what was loaded, and is copied aside, or not be there ...
Inspect ==
  /\ at = "inspect"
  /\ unseen' = (saved # offer)
  /\ IF saved \in {config, Missing}
     THEN Proceed("reread") /\ UNCHANGED setupError
     ELSE PersistFailed
  /\ UNCHANGED unwritten

\* Mutant: an edit since the copy is overwritten.
RereadNothing ==
  /\ at = "reread"
  /\ Proceed("save")
  /\ UNCHANGED <<unwritten, unseen, setupError>>

\* ... and again: it must be what the first of these reads has found.
Reread ==
  /\ at = "reread"
  /\ IF saved = offer THEN Proceed("save") /\ UNCHANGED setupError ELSE PersistFailed
  /\ UNCHANGED <<unwritten, unseen>>

\* It is replaced, whatever it is by now; then the settings are in use.
Save ==
  /\ at = "save"
  /\ saved' = next
  /\ config' = next
  /\ managed' = (managed \/ caller = "change")
  /\ IF flow = "save"
     THEN UNCHANGED <<engine, routeError, setupError>>
     ELSE \E found \in BOOLEAN :
            /\ StartEngine(found)
            /\ setupError' = IF caller = "change" THEN FALSE
                             ELSE setupError \/ (flow = "launch" /\ ~found)
  /\ Return
  /\ UNCHANGED <<transaction, auth, rescue, goal, process>>

\* resetServiceConfig: the same comparison, and the replacement.
Recheck ==
  /\ at = "reset"
  /\ IF saved = offer THEN Proceed("rewrite") ELSE Return
  /\ UNCHANGED <<unwritten, unseen, setupError>>

Rewrite ==
  /\ at = "rewrite"
  /\ saved' = Default
  /\ Return
  /\ UNCHANGED <<transaction, auth, memory, process>>

\* One of these accesses fails; in the repair nothing else is lost.
SaveFails ==
  /\ at \in {"persist", "inspect", "reread", "save", "reset", "rewrite"}
  /\ faults < MaxFaults
  /\ faults' = faults + 1
  /\ PersistFailed
  /\ UNCHANGED <<files, run, raced, edits>>
  /\ UNCHANGED <<auth, saved, managed, routeError, rescue, config, goal, engine, process>>

\* rollback: the previous connection is made anew.
Rollback ==
  /\ at = "rollback"
  /\ Connect("undo")
  /\ UNCHANGED <<flow, next, offer, was, auth, saved, memory, process>>

\* Mutant: an engine for the old provider goes on.
RolledOn ==
  /\ at = "rolled"
  /\ Return
  /\ UNCHANGED <<transaction, auth, saved, memory, process>>

\* Its deferred half: no engine goes on for a provider that is no longer the user's.
Rolled ==
  /\ at = "rolled"
  /\ IF setupError \/ goal # was
     THEN engine' = Absent /\ setupError' = TRUE
     ELSE UNCHANGED <<engine, setupError>>
  /\ Return
  /\ UNCHANGED <<transaction, auth, saved, managed, routeError, rescue, config, goal, process>>

-----------------------------------------------------------------------------
(* The world outside *)

others == Originals \ {Missing, Garbage}

EditConfig ==
  /\ EditTarget(others)
  /\ UNCHANGED <<auth, saved, memory, thread, process>>

\* Codex logs in or out, a manager of providers puts in a key.
EditLogin ==
  /\ edits < MaxEdits
  /\ edits' = edits + 1
  /\ auth' \in Logins \ {auth}
  /\ UNCHANGED <<files, run, raced, faults, saved, memory, thread, process>>

\* After the last comparison nobody will see it.
EditSettings ==
  /\ edits < MaxEdits
  /\ edits' = edits + 1
  /\ saved' \in Foreign \ {saved}
  /\ unseen' = (unseen \/ at \in {"save", "rewrite"})
  /\ UNCHANGED <<files, run, raced, faults, auth, memory, thread>>
  /\ UNCHANGED <<forwarding, stopping, starts, ops>>

Damage == DamageBackup /\ UNCHANGED <<auth, saved, memory, thread, process>>

\* What the goroutine that holds the lock does next.
Work ==
  \/ Access /\ UNCHANGED <<auth, saved, memory, thread, process>>
  \/ Restored \/ Provide \/ Install \/ Installed
  \/ Load \/ QuickSet \/ QuickRecovers \/ QuickKeeps \/ QuickAgain \/ Recovered
  \/ Persist \/ Inspect \/ Reread \/ Save \/ SaveFails \/ Recheck \/ Rewrite
  \/ Rollback \/ Rolled
  \/ Shutdown \/ Exit

\* Nobody starts the program again.
Over == at = "down" /\ starts = MaxStarts /\ UNCHANGED vars

SNext ==
  \/ Work
  \/ Launch \/ Stop \/ Crashes
  \/ Admit \/ Replied
  \/ Recover \/ Recovery \/ Rebuild \/ Repair \/ Quick \/ Apply
  \/ Policy \/ Injection \/ Sources \/ Pin \/ Reset
  \/ EditConfig \/ EditLogin \/ EditSettings \/ Damage
  \/ Over

\* A goroutine that holds the lock, or waits for it to shut down, has a next step
\* (nothing is a deadlock) and takes it; a reply ends: shutdown cancels its context.
Busy == at \notin {"idle", "down"} \/ (at = "idle" /\ stopping /\ forwarding = Absent)
GoesOn == Busy /\ at' \in Places /\ step' \in Accesses

SSpec ==
  /\ SInit /\ [][SNext]_vars
  /\ WF_<<at, step>>(GoesOn) /\ WF_vars(Replied)

-----------------------------------------------------------------------------
(* Properties *)

TypeOK ==
  /\ at \in Places /\ step \in Accesses
  /\ flow \in {"none", "start", "launch", "recover", "quick", "apply", "save", "sources"}
  /\ caller \in {"none", "setup", "change", "undo"}
  /\ {managed, setupError, routeError, rescue, stopping, intact, failed, raced, unseen} \subseteq BOOLEAN
  /\ config \in Settings
  /\ saved \in Settings \cup {Garbage, Missing}
  /\ engine # Absent => engine.kind \in {"official", "relay"}
  /\ step # "done" => at \in {"restore", "installing", "recovering", "exit"}
  /\ starts \in 0..MaxStarts /\ ops \in 0..MaxOps
  /\ edits \in 0..MaxEdits /\ faults \in 0..MaxFaults

\* What the configuration transaction promises (Takeover): whatever a program put
\* into the file can be taken out, across crashes and failed writes, and no step of
\* it changes the user's part, unless the user saved after the last comparison or
\* gave up the archived file for the backup.
Promise == INSTANCE Takeover WITH
  user <- UserPart(target, journal),
  held <- Ours(target),
  receipt <- journal # Absent,
  excused <- raced \/ (op \in {"restore_backup", "rebuild"} /\ archive = target)
KeepsPromise == Promise!Spec

\* No file of the user's already has a model the service may put in: it could not be
\* told from what was installed (the hypothesis of the theorem PromiseKept).
OwnModels ==
  \A file \in others, profile \in Profiles : SelectedTable(file, profile).model \notin Models

\* A request goes where the user's part of the file says, as the login there is.
ForwardsToCurrent ==
  [][forwarding' # forwarding /\ forwarding' # Absent =>
       LET selected == Resolve(UserPart(target, journal), Absent, ReadAuthMode(auth))
       IN selected # Refused /\ forwarding' = Selected(selected)]_vars

\* What Codex sends to the service is never the login of an account for a relay.
NoLoginToRelay ==
  [][LET sent == /\ forwarding' # forwarding /\ forwarding' # Absent
                 /\ forwarding'.upstream # Official
         required == journal.installed.providers[Managed].requires
     IN sent /\ required => auth # Garbage /\ auth # Missing /\ auth.tokens # "set"]_vars

\* Whenever an operation has ended without an error, model and settings agree: in
\* memory, in the file (unless it was edited), and in what Codex was told.
SettingsAgree ==
  at = "idle" /\ managed /\ ~setupError =>
    /\ journal # Absent
    /\ SelectedTable(journal.installed, journal.profile).model = config.model
    /\ saved \notin Foreign => saved = config

\* What the service replaces are settings it has in use, none, or those its repair
\* has shown: an edit between any two of its reads of the file stops the save.  An
\* edit after the last of them does not, nor one that is undone between the first and
\* the last (unseen).
KnownSettings ==
  [][saved' # saved /\ edits' = edits =>
       saved \in {config, Missing} \/ (rescue /\ saved = offer) \/ unseen]_vars

\* Every operation gives the lock back, and a process that is told to stop ends, behind
\* the reply and the accesses it waits for: again and again nobody is at work.
Stops == []<>(at = "down" \/ (at = "idle" /\ ~stopping))
=============================================================================
