------------------------- MODULE ServiceControlProofs -------------------------
(***************************************************************************)
(* Proofs about the service (ServiceControl), for any files, logins and    *)
(* edits, and however often the program is started, stopped or killed:     *)
(* what was put into the configuration of Codex can be taken out, settings *)
(* agree, and a request goes where the user's part of the file says, and   *)
(* never to a relay with the login of an account.                          *)
(***************************************************************************)
EXTENDS ServiceControl, ConfigTransactionProofs

SetupFlows == {"start", "launch", "recover", "quick"}
Saving == {"persist", "inspect", "reread", "save"}

\* The engine for a provider.
EngineFor(g) == IF g = Absent THEN [upstream |-> Official, kind |-> "official"]
                ELSE [upstream |-> g.upstream, kind |-> g.kind]

\* Codex was told this model; it sends what it did for this goal to the service.
Agreed(r, model) == r # Absent /\ SelectedTable(r.installed, r.profile).model = model

Matches(g, r) ==
  LET selection == Resolve(r.before, Absent, g.mode)
  IN /\ r # Absent /\ g \in Goals
     /\ selection # Refused
     /\ r.profile = selection.profile
     /\ r.installed.providers[Managed].requires = selection.requires
     /\ EngineFor(g) = Selected(selection)

\* What is in use, and what is offered, has its type.
PlaceTypes ==
  /\ at \in Places
  /\ flow \in {"none", "start", "launch", "recover", "quick", "apply", "save", "sources"}
  /\ caller \in {"none", "setup", "change", "undo"}
FlagTypes ==
  /\ managed \in BOOLEAN /\ setupError \in BOOLEAN /\ routeError \in BOOLEAN
  /\ rescue \in BOOLEAN /\ stopping \in BOOLEAN /\ unseen \in BOOLEAN
ValueTypes ==
  /\ config \in Settings /\ saved \in Settings \cup {Garbage, Missing}
  /\ goal \in Goals \cup {Absent} /\ engine \in Engines \cup {Absent}
CounterTypes == starts \in 0..MaxStarts /\ ops \in 0..MaxOps
MemoryTypes == PlaceTypes /\ FlagTypes /\ ValueTypes /\ CounterTypes

\* Where each operation can be, and what it has in memory there.
Posts ==
  /\ at \in {"down", "idle", "exit", "reset", "rewrite"} => flow = "none" /\ caller = "none"
  /\ caller \in {"change", "undo"} => flow = "apply"
  /\ caller = "setup" => flow \in SetupFlows
  /\ at \in {"restore", "provide", "install", "installing"} => caller # "none"
  /\ at \in {"set", "preview"} => caller = "setup"
  /\ at = "rollback" => caller = "change"
  /\ at = "rolled" => flow = "apply"
  /\ at = "recovering" => flow \in SetupFlows
  /\ at \in Saving => next \in Settings /\ caller # "undo"
  /\ caller = "change" => next \in Settings
  /\ flow \in {"launch", "quick"} => next \in Settings /\ next.model = config.model
  /\ rescue => at \in {"idle", "exit", "reset", "rewrite"}
  /\ at \in {"reset", "rewrite"} => rescue
  /\ step \in Installing => at = "installing"
  /\ step \in Replacing \cup {"unjournal"} => at \in {"restore", "recovering", "exit"}

\* The model an installation under way tells Codex.
Told == (IF caller = "change" THEN next ELSE config).model

\* The offer is what the document it was made for resolves to.
OfferGoal == [upstream |-> offer.upstream, kind |-> offer.kind, mode |-> offer.mode]
Offered ==
  /\ at \in {"install", "installing"} => OfferGoal \in Goals
  /\ at = "install" =>
       /\ offer.doc \in Docs
       /\ Resolve(offer.doc, Absent, offer.mode) # Refused
       /\ EngineFor(OfferGoal) = Selected(Resolve(offer.doc, Absent, offer.mode))
  /\ at = "installing" /\ step # "done" =>
       Agreed(made, Told) /\ Matches(OfferGoal, made)
  /\ at = "installing" /\ step = "done" /\ ~failed =>
       Agreed(journal, Told) /\ Matches(OfferGoal, journal)

\* While the configuration is managed, model and goal are what the receipt says,
\* unless the takeover has just been undone.
Undone == at = "exit" \/ (at \in {"restore", "recovering"} /\ step = "done" /\ ~failed)
Agreement ==
  /\ managed /\ ~Undone => Agreed(journal, config.model) /\ Matches(goal, journal)
  /\ at \in Saving /\ caller = "change" =>
       Agreed(journal, next.model) /\ Matches(goal, journal)
  /\ at \in Saving /\ caller # "change" => next.model = config.model
  /\ \/ at \in {"down", "provide", "install", "installing", "rollback"} \/ rescue
     \/ at = "restore" /\ caller # "change"
     \/ at \in Saving /\ caller = "change"
     => ~managed

\* Nobody is served before a setup has succeeded or its failure is known.
Known ==
  \/ at \in {"idle", "set", "preview", "recovering", "rolled"}
  \/ at = "restore" /\ caller = "change"
  \/ at \in Saving /\ caller # "change"
  => rescue \/ managed \/ setupError

\* The engine is for the provider in use, or, while settings change, for the one
\* that was; none goes on while the provider is looked for.
EngineFits ==
  /\ at = "down" \/ rescue \/ flow \in {"start", "launch", "quick"}
       \/ (flow = "recover" /\ at # "recovering")
       => engine = Absent
  /\ flow # "apply" => engine \in {Absent, EngineFor(goal)}
  /\ flow = "apply" => engine \in {Absent, EngineFor(was)}
  /\ flow = "apply" /\ \/ at \in {"restore", "provide", "install", "installing"} /\ caller = "change"
                       \/ at \in Saving /\ caller # "change"
       => goal = was

\* The settings in use are those of the file, unless that was edited.
SavedFits ==
  at # "down" /\ ~rescue => saved \in Foreign \/ saved = config

\* What is about to be replaced is what was read first, and that was known.
Compared ==
  /\ at \in {"reread", "save"} => offer \in {config, Missing} \/ unseen
  /\ at \in {"save", "rewrite"} => saved = offer \/ unseen

IInv ==
  /\ TxInv /\ MemoryTypes /\ Posts
  /\ Offered /\ Agreement /\ Known /\ EngineFits /\ SavedFits /\ Compared
\* All of it that is not about the transaction alone.
Rest ==
  /\ MemoryTypes /\ Posts
  /\ Offered /\ Agreement /\ Known /\ EngineFits /\ SavedFits /\ Compared

-----------------------------------------------------------------------------
(* Values *)

LEMMA LoginMode == \A login : ReadAuthMode(login) \in Modes
  BY DEF ReadAuthMode, ClassifyAuth, Modes

LEMMA EffectiveEngine == Effective = EngineFor(goal)
  BY DEF Effective, EngineFor

LEMMA EngineType == \A g \in Goals \cup {Absent} : EngineFor(g) \in Engines
  BY DEF EngineFor, Goals, Engines, Acceptable, Official

LEMMA SettingsTypes ==
  /\ Default \in Settings
  /\ [Default EXCEPT !.rest = 2] \in Settings
  /\ \A c \in Settings, r \in 0..2 :
       [c EXCEPT !.rest = r] \in Settings /\ [c EXCEPT !.rest = r].model = c.model
  BY DEF Default, Settings, Models

LEMMA ModelType == \A c \in Settings : c.model \in Texts /\ c.model # Absent
  BY ModelsAssumption, MarkFacts DEF Settings, Texts

\* What a selection is used for.
LEMMA SelectedGoal ==
  ASSUME NEW selection \in Selections, NEW mode \in Modes
  PROVE  LET g == [upstream |-> Selected(selection).upstream, kind |-> Selected(selection).kind,
                   mode |-> mode]
         IN g \in Goals /\ EngineFor(g) = Selected(selection)
  <1> DEFINE g == [upstream |-> Selected(selection).upstream, kind |-> Selected(selection).kind,
                   mode |-> mode]
  <1>1. g \in Goals
    BY DEF Selected, Selections, Goals
  <1>2. g # Absent
    BY <1>1, GoalsAssumption DEF Goals
  <1> QED BY <1>1, <1>2 DEF EngineFor, Selected

\* What the panel rebuilds the configuration from.
LEMMA RebuiltType ==
  ASSUME config \in Settings, NEW kind \in {"official", "relay_key", "relay_login"}, NEW mode
  PROVE  /\ Rebuilt(kind, mode) \in Docs \cup {Refused}
         /\ Rebuilt(kind, mode) \in Docs =>
              Rebuilt(kind, mode).root.openai_base_url # Base /\ Rebuilt(kind, mode).work = Absent
  <1> DEFINE official == [EmptyDoc EXCEPT !.root.model = config.model,
                                          !.root.model_provider = "openai"]
             relay == [[EmptyDoc EXCEPT !.root.model = config.model, !.root.model_provider = "relay"]
                         EXCEPT !.providers["relay"] =
                           [base_url |-> "relay.two", requires |-> kind = "relay_login",
                            env_key |-> IF kind = "relay_key" THEN "KEY" ELSE Absent]]
  <1>1. config.model \in Texts /\ Base # Absent
    BY ModelType, WrittenAssumption, MarkFacts
  <1>2. /\ official \in Docs /\ official.root.openai_base_url = Absent /\ official.work = Absent
    BY <1>1, EmptyTypes DEF EmptyDoc, Docs, Tables, NoTable, Ids
  <1>3. /\ relay \in Docs /\ relay.root.openai_base_url = Absent /\ relay.work = Absent
    <2>1. [base_url |-> "relay.two", requires |-> kind = "relay_login",
           env_key |-> IF kind = "relay_key" THEN "KEY" ELSE Absent] \in Providers
      BY NamesAssumption, ModelsAssumption DEF Providers, Texts, Acceptable
    <2>2. [EmptyDoc EXCEPT !.root.model = config.model, !.root.model_provider = "relay"] \in Docs
      BY <1>1, EmptyTypes DEF EmptyDoc, Docs, Tables, NoTable, Ids
    <2> QED BY <2>1, <2>2 DEF EmptyDoc, NoTable, Docs, Ids
  <1>4. Rebuilt(kind, mode) \in {official, relay, Refused}
    BY DEF Rebuilt
  <1> HIDE DEF official, relay
  <1> QED BY <1>1, <1>2, <1>3, <1>4, MarkFacts

\* What is repaired has no address of the service unless the file has.
LEMMA RepairedType ==
  ASSUME target \in Contents, NEW mode,
         PatchMissingEndpoint(target, Absent, "relay.two", mode) # Refused
  PROVE  LET repaired == PatchMissingEndpoint(target, Absent, "relay.two", mode)
         IN /\ repaired \in Docs
            /\ repaired.root = Bytes(target).root /\ repaired.work = Bytes(target).work
            /\ target \in Docs \cup {Missing}
  <1> DEFINE doc == Bytes(target)
             id == OrElse(Overlay(doc, OrElse(Absent, doc.profile)).model_provider, "openai")
             fields == [doc.providers[id] EXCEPT !.base_url = "relay.two"]
             result == [doc EXCEPT !.providers[id].base_url = "relay.two"]
  <1>1. /\ target # Garbage /\ id \notin {"openai", Managed} /\ doc.providers[id] # Absent
        /\ PatchMissingEndpoint(target, Absent, "relay.two", mode) = result
    BY DEF PatchMissingEndpoint
  <1>2. doc \in Docs /\ target \in Docs \cup {Missing}
    BY <1>1, BytesType DEF Contents
  <1>3. id \in Ids
    BY <1>2, OverlayType DEF Tables, OrElse, Ids, Docs, Profiles
  <1>4. fields \in Providers
    BY <1>1, <1>2, <1>3, NamesAssumption DEF Docs, Providers, Texts, Acceptable
  <1>5. result = [doc EXCEPT !.providers[id] = fields]
    OBVIOUS
  <1> HIDE DEF doc, id, fields, result
  <1>6. result \in Docs /\ result.root = doc.root /\ result.work = doc.work
    BY <1>2, <1>3, <1>4, <1>5, WithProviderFacts
  <1> QED BY <1>1, <1>2, <1>6 DEF doc

-----------------------------------------------------------------------------
(* The beginning *)

LEMMA OthersFine == OthersOK(others)
  BY OriginalsAssumption DEF OthersOK, others, Contents

LEMMA InitIInv == SInit => IInv
  <1> SUFFICES ASSUME SInit PROVE IInv
    OBVIOUS
  <1>1. TxInv
    BY InitTx, OriginalsAssumption DEF SInit
  <1> USE DEF SInit, Init, InitMemory
  <1>2. MemoryTypes
    <2> USE DEF MemoryTypes, PlaceTypes, FlagTypes, ValueTypes, CounterTypes, Places
    <2>1. starts \in 0..MaxStarts /\ ops \in 0..MaxOps
      BY StartsAssumption
    <2>2. FlagTypes
      OBVIOUS
    <2>3. ValueTypes
      BY SettingsTypes
    <2> QED BY <2>1, <2>2, <2>3
  <1>3. Posts /\ Offered
    BY DEF Posts, Offered, Installing, Replacing, Saving
  <1>4. Agreement
    BY DEF Agreement, Undone, Saving
  <1>5. Known /\ EngineFits /\ SavedFits /\ Compared
    BY DEF Known, Saving, EngineFits, SavedFits, Compared
  <1> QED BY <1>1, <1>2, <1>3, <1>4, <1>5 DEF IInv

-----------------------------------------------------------------------------
(* The transaction, whoever runs it *)

LEMMA RebuildKeeps ==
  ASSUME IInv, Rebuild
  PROVE  TxInv'
  <1>1. TxInv /\ config \in Settings
    BY DEF IInv, MemoryTypes, ValueTypes
  <1>2. PICK kind \in {"official", "relay_key", "relay_login"} :
          BeginReset(Rebuilt(kind, ReadAuthMode(auth)),
                     IF kind = "relay_key" THEN "api_key" ELSE ReadAuthMode(auth), target)
    BY DEF Rebuild
  <1> QED BY <1>1, <1>2, RebuiltType, ResetKeeps

LEMMA RepairKeeps ==
  ASSUME IInv, Repair
  PROVE  TxInv'
  <1> DEFINE mode == ReadAuthMode(auth)
             repaired == PatchMissingEndpoint(target, Absent, "relay.two", mode)
             as == IF Resolve(repaired, Absent, mode).env_key # Absent THEN "api_key" ELSE mode
  <1>1. TxInv /\ target \in Contents
    BY DEF IInv, TxInv, TxTypes
  <1>2. repaired # Refused /\ BeginReset(repaired, as, target)
    BY DEF Repair
  <1>3. /\ repaired \in Docs /\ target \in Docs \cup {Missing}
        /\ repaired.root = Bytes(target).root /\ repaired.work = Bytes(target).work
    BY <1>1, <1>2, RepairedType
  <1>4. journal = Absent =>
          /\ repaired.root.openai_base_url # Base
          /\ repaired.work # Absent => repaired.work.openai_base_url # Base
    <2>1. journal = Absent => ~Ours(Bytes(target))
      BY <1>1, <1>3, OursBytes DEF TxInv, Receipted
    <2> QED BY <2>1, <1>3, BytesType, OursDoc
  <1> HIDE DEF repaired, as
  <1> QED BY <1>1, <1>2, <1>3, <1>4, ResetKeeps

LEMMA InstallsKeeps ==
  ASSUME IInv, Install
  PROVE  TxInv'
  <1> DEFINE model == (IF caller = "change" THEN next ELSE config).model
  <1>1. TxInv /\ config \in Settings /\ (caller = "change" => next \in Settings)
    BY DEF IInv, MemoryTypes, ValueTypes, Posts
  <1>2. model \in Texts
    BY <1>1, ModelType
  <1>3. BeginInstall(Absent, offer.mode, model, offer.doc)
    BY DEF Install
  <1>4. Absent \in Profiles
    BY DEF Profiles
  <1> HIDE DEF model
  <1> QED BY <1>1, <1>2, <1>3, <1>4, InstallKeeps

\* Steps that leave the transaction alone.
LEMMA QuietTransaction ==
  ASSUME \/ Restored \/ Provide \/ Installed \/ Load \/ QuickSet \/ QuickRecovers
         \/ Persist \/ Inspect \/ Reread \/ Save \/ Recheck \/ Rewrite \/ Rolled
         \/ Stop \/ Exit \/ Admit \/ Replied \/ Policy \/ Injection \/ Sources \/ Pin \/ Reset \/ Over
  PROVE  UNCHANGED transaction
  <1>1. CASE \/ Restored \/ Provide \/ Installed \/ Load \/ QuickSet \/ QuickRecovers
         \/ Persist \/ Inspect \/ Reread \/ Save \/ Recheck \/ Rewrite \/ Rolled
    BY <1>1 DEF Restored, Provide, Installed, Load, QuickSet, QuickRecovers,
             Persist, Inspect, Reread, Save, Recheck, Rewrite, unwritten, Rolled
  <1>2. CASE \/ Stop \/ Exit \/ Admit \/ Replied \/ Policy \/ Injection \/ Sources \/ Pin \/ Reset \/ Over
    BY <1>2 DEF Stop, Exit, Admit, Replied, Policy, Injection, Sources, Pin, SaveOther, Reset, Over, vars
  <1> QED BY <1>1, <1>2

\* Steps that begin by undoing a takeover.
LEMMA Reconnects ==
  ASSUME Launch \/ Recover \/ Recovered \/ Quick \/ QuickAgain \/ Apply \/ Rollback \/ Shutdown
  PROVE  UNCHANGED transaction \/ BeginRestore
  BY DEF Launch, Recover, Recovered, Quick, QuickAgain, Apply, Rollback, Shutdown, Setup, Connect

LEMMA TxStep ==
  ASSUME IInv, SNext
  PROVE  TxInv'
  <1> USE DEF transaction
  <1>1. /\ TxInv /\ edits \in 0..MaxEdits /\ faults \in 0..MaxFaults
        /\ MaxEdits \in Nat /\ MaxFaults \in Nat
    BY EditsAssumption DEF IInv, TxInv, TxTypes
  <1>2. CASE Access
    BY <1>1, <1>2, AccessKeeps
  <1>3. CASE \/ Restored \/ Provide \/ Installed \/ Load \/ QuickSet \/ QuickRecovers
             \/ Persist \/ Inspect \/ Reread \/ Save \/ Recheck \/ Rewrite
             \/ Rolled \/ Stop \/ Exit \/ Admit \/ Replied \/ Policy \/ Injection \/ Sources \/ Pin
             \/ Reset \/ Over
    BY <1>1, <1>3, AsideKeeps, QuietTransaction
  <1>4. CASE Launch \/ Recover \/ Recovered \/ Quick \/ QuickAgain \/ Apply \/ Rollback \/ Shutdown
    BY <1>1, <1>4, AsideKeeps, RestoreKeeps, Reconnects
  <1>5. CASE Install
    BY <1>5, InstallsKeeps
  <1>6. CASE QuickKeeps
    BY <1>1, <1>6, RecoverKeeps DEF QuickKeeps
  <1>7. CASE Recovery
    BY <1>1, <1>7, RecoverKeeps DEF Recovery
  <1>8. CASE Rebuild
    BY <1>8, RebuildKeeps
  <1>9. CASE Repair
    BY <1>9, RepairKeeps
  <1>10. CASE Crashes
    BY <1>1, <1>10, CrashKeeps DEF Crashes
  <1>11. CASE SaveFails
    BY <1>1, <1>11, CountKeeps DEF SaveFails
  <1>12. CASE EditConfig
    BY <1>1, <1>12, OthersFine, EditKeeps DEF EditConfig
  <1>13. CASE EditLogin \/ EditSettings
    BY <1>1, <1>13, CountKeeps DEF EditLogin, EditSettings
  <1>14. CASE Damage
    BY <1>1, <1>14, DamageKeeps DEF Damage
  <1> QED BY <1>2, <1>3, <1>4, <1>5, <1>6, <1>7, <1>8, <1>9, <1>10, <1>11, <1>12, <1>13, <1>14
          DEF SNext, Work

-----------------------------------------------------------------------------
(* The memory of the process, one lemma per action *)

LEMMA AccessRest ==
  ASSUME IInv, Access, UNCHANGED <<auth, saved, memory, thread, process>>
  PROVE  Rest'
  <1> USE DEF transaction, files, run, memory, thread, process, rest, Posts, MemoryTypes,
             PlaceTypes, ValueTypes, Installing, Replacing, SetupFlows, Saving
  <1>0. /\ TxInv /\ MemoryTypes /\ Posts /\ Offered /\ Agreement /\ Known /\ EngineFits /\ SavedFits /\ Compared
        /\ step \in {"done", "unjournal"} \cup Installing \cup Replacing
    BY DEF IInv, TxInv, TxTypes
  <1>e. /\ step # "done"
        /\ step \in Installing =>
              \/ step' \in Installing /\ made' = made
              \/ step' = "done" /\ failed'
              \/ step' = "done" /\ ~failed' /\ journal' = made
        /\ step \in Replacing \cup {"unjournal"} =>
              /\ step' \in Replacing \cup {"unjournal", "done"}
              /\ journal' # journal => step' = "done" /\ ~failed'
    BY <1>0, AccessDoes
  <1>1. MemoryTypes'
    <2>1. PlaceTypes'
      BY <1>0, <1>e DEF Places
    <2>2. FlagTypes'
      BY <1>0, <1>e DEF FlagTypes
    <2>3. ValueTypes'
      BY <1>0, <1>e, SettingsTypes, EffectiveEngine, EngineType
    <2>4. CounterTypes'
      BY <1>0, <1>e, StartsAssumption DEF CounterTypes
    <2> QED BY <2>1, <2>2, <2>3, <2>4
  <1>2. Posts'
    BY <1>0, <1>e, SettingsTypes
  <1>3. Offered'
    BY <1>0, <1>e DEF Offered, OfferGoal, Told
  <1>4. Agreement'
    BY <1>0, <1>e, SettingsTypes DEF Agreement, Undone, Offered, OfferGoal, Told
  <1>5. Known'
    BY <1>0, <1>e DEF Known
  <1>6. EngineFits'
    BY <1>0, <1>e, EffectiveEngine DEF EngineFits
  <1>7. SavedFits'
    BY <1>0, <1>e, SettingsTypes DEF SavedFits, Foreign
  <1>8. Compared'
    BY <1>0, <1>e DEF Compared
  <1> QED BY <1>1, <1>2, <1>3, <1>4, <1>5, <1>6, <1>7, <1>8 DEF Rest

LEMMA RestoredRest ==
  ASSUME IInv, Restored
  PROVE  Rest'
  <1> USE DEF transaction, files, run, memory, thread, process, rest, Proceed, Return, Restored,
             ConnectFailed, Posts, MemoryTypes, PlaceTypes, ValueTypes, Installing, Replacing,
             SetupFlows, Saving
  <1>0. /\ TxInv /\ MemoryTypes /\ Posts /\ Offered /\ Agreement /\ Known /\ EngineFits /\ SavedFits /\ Compared
        /\ step \in {"done", "unjournal"} \cup Installing \cup Replacing
    BY DEF IInv, TxInv, TxTypes
  <1>1. MemoryTypes'
    <2>1. PlaceTypes'
      BY <1>0 DEF Places
    <2>2. FlagTypes'
      BY <1>0 DEF FlagTypes
    <2>3. ValueTypes'
      BY <1>0, SettingsTypes, EffectiveEngine, EngineType
    <2>4. CounterTypes'
      BY <1>0, StartsAssumption DEF CounterTypes
    <2> QED BY <2>1, <2>2, <2>3, <2>4
  <1>2. Posts'
    BY <1>0, SettingsTypes
  <1>3. Offered'
    BY <1>0 DEF Offered, OfferGoal, Told
  <1>4. Agreement'
    BY <1>0, SettingsTypes DEF Agreement, Undone, Offered, OfferGoal, Told
  <1>5. Known'
    BY <1>0 DEF Known
  <1>6. EngineFits'
    BY <1>0, EffectiveEngine DEF EngineFits
  <1>7. SavedFits'
    BY <1>0, SettingsTypes DEF SavedFits, Foreign
  <1>8. Compared'
    BY <1>0 DEF Compared
  <1> QED BY <1>1, <1>2, <1>3, <1>4, <1>5, <1>6, <1>7, <1>8 DEF Rest

LEMMA ProvideRest ==
  ASSUME IInv, Provide
  PROVE  Rest'
  <1> USE DEF transaction, files, run, memory, thread, process, rest, Proceed, Provide,
             ConnectFailed, Posts, MemoryTypes, PlaceTypes, ValueTypes, Installing, Replacing,
             SetupFlows, Saving
  <1>0. /\ TxInv /\ MemoryTypes /\ Posts /\ Offered /\ Agreement /\ Known /\ EngineFits /\ SavedFits /\ Compared
        /\ step \in {"done", "unjournal"} \cup Installing \cup Replacing
    BY DEF IInv, TxInv, TxTypes
  <1>1. MemoryTypes'
    <2>1. PlaceTypes'
      BY <1>0 DEF Places
    <2>2. FlagTypes'
      BY <1>0 DEF FlagTypes
    <2>3. ValueTypes'
      BY <1>0, SettingsTypes, EffectiveEngine, EngineType
    <2>4. CounterTypes'
      BY <1>0, StartsAssumption DEF CounterTypes
    <2> QED BY <2>1, <2>2, <2>3, <2>4
  <1>2. Posts'
    BY <1>0, SettingsTypes
  <1>3. Offered'
    <2> DEFINE mode == ReadAuthMode(auth)
               selected == Resolve(target, Absent, mode)
    <2>1. CASE selected = Refused
      BY <1>0, <2>1 DEF Offered
    <2>2. CASE selected # Refused
      <3>1. /\ target \in Contents /\ mode \in Modes /\ Absent \in Profiles
        BY <1>0, LoginMode DEF TxInv, TxTypes, Profiles
      <3>2. selected \in Selections /\ target # Garbage
        BY <2>2, <3>1, ResolveType
      <3>3. /\ offer' = [doc |-> Bytes(target), mode |-> mode,
                         upstream |-> Selected(selected).upstream, kind |-> Selected(selected).kind]
            /\ at' = "install"
        BY <2>2
      <3>4. /\ Bytes(target) \in Docs /\ Bytes(Bytes(target)) = Bytes(target)
            /\ Bytes(target) # Garbage
        BY <3>1, <3>2, BytesType, MarkFacts DEF Contents
      <3>5. Resolve(Bytes(target), Absent, mode) = selected
        BY <3>2, <3>4, ResolveBytes
      <3>6. OfferGoal' = [upstream |-> Selected(selected).upstream,
                          kind |-> Selected(selected).kind, mode |-> mode]
        BY <3>3 DEF OfferGoal
      <3>7. OfferGoal' \in Goals /\ EngineFor(OfferGoal') = Selected(selected)
        BY <3>1, <3>2, <3>6, SelectedGoal
      <3>8. offer'.doc = Bytes(target) /\ offer'.mode = mode
        BY <3>3
      <3> HIDE DEF selected
      <3> QED BY <2>2, <3>3, <3>4, <3>5, <3>7, <3>8 DEF Offered
    <2> QED BY <2>1, <2>2
  <1>4. Agreement'
    BY <1>0, SettingsTypes DEF Agreement, Undone, Offered, OfferGoal, Told
  <1>5. Known'
    BY <1>0 DEF Known
  <1>6. EngineFits'
    BY <1>0, EffectiveEngine DEF EngineFits
  <1>7. SavedFits'
    BY <1>0, SettingsTypes DEF SavedFits, Foreign
  <1>8. Compared'
    BY <1>0 DEF Compared
  <1> QED BY <1>1, <1>2, <1>3, <1>4, <1>5, <1>6, <1>7, <1>8 DEF Rest

LEMMA InstallRest ==
  ASSUME IInv, Install
  PROVE  Rest'
  <1> USE DEF transaction, files, run, memory, thread, process, rest, Proceed, Install, Posts,
             MemoryTypes, PlaceTypes, ValueTypes, Installing, Replacing, SetupFlows, Saving
  <1>0. /\ TxInv /\ MemoryTypes /\ Posts /\ Offered /\ Agreement /\ Known /\ EngineFits /\ SavedFits /\ Compared
        /\ step \in {"done", "unjournal"} \cup Installing \cup Replacing
    BY DEF IInv, TxInv, TxTypes
  <1>e. LET model == (IF caller = "change" THEN next ELSE config).model
            updated == Patch(target, Base, Absent, offer.mode, model, offer.doc)
        IN /\ step = "done" /\ journal' = journal
           /\ \/ step' = "done" /\ failed'
              \/ /\ step' = "backup"
                 /\ updated # Refused
                 /\ made' = [before |-> target, installed |-> updated,
                             profile |-> Resolve(target, Absent, offer.mode).profile]
    BY <1>0, InstallDoes
  <1>1. MemoryTypes'
    <2>1. PlaceTypes'
      BY <1>0, <1>e DEF Places
    <2>2. FlagTypes'
      BY <1>0, <1>e DEF FlagTypes
    <2>3. ValueTypes'
      BY <1>0, <1>e, SettingsTypes, EffectiveEngine, EngineType
    <2>4. CounterTypes'
      BY <1>0, <1>e, StartsAssumption DEF CounterTypes
    <2> QED BY <2>1, <2>2, <2>3, <2>4
  <1>2. Posts'
    BY <1>0, <1>e, SettingsTypes
  <1>3. Offered'
    <2> DEFINE model == (IF caller = "change" THEN next ELSE config).model
               updated == Patch(target, Base, Absent, offer.mode, model, offer.doc)
               selection == Resolve(target, Absent, offer.mode)
    <2>0. /\ model \in Texts /\ model # Absent /\ target \in Contents /\ Absent \in Profiles
          /\ offer.doc \in Docs /\ offer.doc # Absent
      BY <1>0, ModelType, MarkFacts DEF Offered, TxInv, TxTypes, Profiles
    <2>1. CASE step' = "done"
      BY <1>0, <1>e, <2>1 DEF Offered, OfferGoal
    <2>2. CASE step' = "backup"
      <3>1. /\ updated # Refused
            /\ made' = [before |-> target, installed |-> updated, profile |-> selection.profile]
        BY <1>e, <2>2
      <3>2. /\ target # Garbage /\ Bytes(target) = offer.doc
            /\ updated.providers[Managed].requires = selection.requires
            /\ SelectedTable(updated, selection.profile).model = model
        BY <2>0, <3>1, PatchFacts, MarkFacts DEF OrElse
      <3>3. offer.doc # Garbage /\ Bytes(offer.doc) = offer.doc
        BY <2>0, BytesType, MarkFacts
      <3>4. Resolve(offer.doc, Absent, offer.mode) = selection
        BY <3>2, <3>3, ResolveBytes
      <3> HIDE DEF model, updated, selection
      <3>5. /\ made' # Absent /\ made'.before = target /\ made'.installed = updated
            /\ made'.profile = selection.profile
        BY <2>2, <3>1, InstallsKeeps, ReceiptFacts DEF TxInv, UnderWay
      <3>6. Agreed(made', Told')
        BY <3>2, <3>5 DEF Agreed, Told, model
      <3>7. OfferGoal \in Goals /\ EngineFor(OfferGoal) = Selected(selection) /\ selection # Refused
        BY <1>0, <3>4 DEF Offered
      <3>8. OfferGoal' = OfferGoal /\ OfferGoal.mode = offer.mode
        BY DEF OfferGoal
      <3>9. Matches(OfferGoal', made')
        BY <3>2, <3>5, <3>7, <3>8 DEF Matches, selection
      <3> QED BY <2>2, <3>6, <3>7, <3>8, <3>9 DEF Offered
    <2> QED BY <1>e, <2>1, <2>2
  <1>4. Agreement'
    BY <1>0, <1>e, SettingsTypes DEF Agreement, Undone, Offered, OfferGoal, Told
  <1>5. Known'
    BY <1>0, <1>e DEF Known
  <1>6. EngineFits'
    BY <1>0, <1>e, EffectiveEngine DEF EngineFits
  <1>7. SavedFits'
    BY <1>0, <1>e, SettingsTypes DEF SavedFits, Foreign
  <1>8. Compared'
    BY <1>0, <1>e DEF Compared
  <1> QED BY <1>1, <1>2, <1>3, <1>4, <1>5, <1>6, <1>7, <1>8 DEF Rest

LEMMA InstalledRest ==
  ASSUME IInv, Installed
  PROVE  Rest'
  <1> USE DEF transaction, files, run, memory, thread, process, rest, Installed, ConnectFailed,
             Posts, MemoryTypes, PlaceTypes, ValueTypes, Installing, Replacing, SetupFlows, Saving
  <1>0. /\ TxInv /\ MemoryTypes /\ Posts /\ Offered /\ Agreement /\ Known /\ EngineFits /\ SavedFits /\ Compared
        /\ step \in {"done", "unjournal"} \cup Installing \cup Replacing
    BY DEF IInv, TxInv, TxTypes
  <1>1. MemoryTypes'
    <2>1. PlaceTypes'
      BY <1>0 DEF Places
    <2>2. FlagTypes'
      BY <1>0 DEF FlagTypes
    <2>3. ValueTypes'
      BY <1>0, SettingsTypes, EffectiveEngine, EngineType DEF Offered, OfferGoal
    <2>4. CounterTypes'
      BY <1>0, StartsAssumption DEF CounterTypes
    <2> QED BY <2>1, <2>2, <2>3, <2>4
  <1>2. Posts'
    BY <1>0, SettingsTypes
  <1>3. Offered'
    BY <1>0 DEF Offered, OfferGoal, Told
  <1>4. Agreement'
    BY <1>0, SettingsTypes DEF Agreement, Undone, Offered, OfferGoal, Told
  <1>5. Known'
    BY <1>0 DEF Known
  <1>6. EngineFits'
    BY <1>0, EffectiveEngine DEF EngineFits
  <1>7. SavedFits'
    BY <1>0, SettingsTypes DEF SavedFits, Foreign
  <1>8. Compared'
    BY <1>0 DEF Compared
  <1> QED BY <1>1, <1>2, <1>3, <1>4, <1>5, <1>6, <1>7, <1>8 DEF Rest

LEMMA LoadRest ==
  ASSUME IInv, Load
  PROVE  Rest'
  <1> USE DEF transaction, files, run, memory, thread, process, rest, Return, Load, StartEngine,
             Posts, MemoryTypes, PlaceTypes, ValueTypes, Installing, Replacing, SetupFlows, Saving
  <1>0. /\ TxInv /\ MemoryTypes /\ Posts /\ Offered /\ Agreement /\ Known /\ EngineFits /\ SavedFits /\ Compared
        /\ step \in {"done", "unjournal"} \cup Installing \cup Replacing
    BY DEF IInv, TxInv, TxTypes
  <1>1. MemoryTypes'
    <2>1. PlaceTypes'
      BY <1>0 DEF Places
    <2>2. FlagTypes'
      BY <1>0 DEF FlagTypes
    <2>3. ValueTypes'
      BY <1>0, SettingsTypes, EffectiveEngine, EngineType
    <2>4. CounterTypes'
      BY <1>0, StartsAssumption DEF CounterTypes
    <2> QED BY <2>1, <2>2, <2>3, <2>4
  <1>2. Posts'
    BY <1>0, SettingsTypes
  <1>3. Offered'
    BY <1>0 DEF Offered, OfferGoal, Told
  <1>4. Agreement'
    BY <1>0, SettingsTypes DEF Agreement, Undone, Offered, OfferGoal, Told
  <1>5. Known'
    BY <1>0 DEF Known
  <1>6. EngineFits'
    BY <1>0, EffectiveEngine DEF EngineFits
  <1>7. SavedFits'
    BY <1>0, SettingsTypes DEF SavedFits, Foreign
  <1>8. Compared'
    BY <1>0 DEF Compared
  <1> QED BY <1>1, <1>2, <1>3, <1>4, <1>5, <1>6, <1>7, <1>8 DEF Rest

LEMMA QuickSetRest ==
  ASSUME IInv, QuickSet
  PROVE  Rest'
  <1> USE DEF transaction, files, run, memory, thread, process, rest, Proceed, Return, QuickSet,
             Posts, MemoryTypes, PlaceTypes, ValueTypes, Installing, Replacing, SetupFlows, Saving
  <1>0. /\ TxInv /\ MemoryTypes /\ Posts /\ Offered /\ Agreement /\ Known /\ EngineFits /\ SavedFits /\ Compared
        /\ step \in {"done", "unjournal"} \cup Installing \cup Replacing
    BY DEF IInv, TxInv, TxTypes
  <1>1. MemoryTypes'
    <2>1. PlaceTypes'
      BY <1>0 DEF Places
    <2>2. FlagTypes'
      BY <1>0 DEF FlagTypes
    <2>3. ValueTypes'
      BY <1>0, SettingsTypes, EffectiveEngine, EngineType
    <2>4. CounterTypes'
      BY <1>0, StartsAssumption DEF CounterTypes
    <2> QED BY <2>1, <2>2, <2>3, <2>4
  <1>2. Posts'
    BY <1>0, SettingsTypes
  <1>3. Offered'
    BY <1>0 DEF Offered, OfferGoal, Told
  <1>4. Agreement'
    BY <1>0, SettingsTypes DEF Agreement, Undone, Offered, OfferGoal, Told
  <1>5. Known'
    BY <1>0 DEF Known
  <1>6. EngineFits'
    BY <1>0, EffectiveEngine DEF EngineFits
  <1>7. SavedFits'
    BY <1>0, SettingsTypes DEF SavedFits, Foreign
  <1>8. Compared'
    BY <1>0 DEF Compared
  <1> QED BY <1>1, <1>2, <1>3, <1>4, <1>5, <1>6, <1>7, <1>8 DEF Rest

LEMMA QuickRecoversRest ==
  ASSUME IInv, QuickRecovers
  PROVE  Rest'
  <1> USE DEF transaction, files, run, memory, thread, process, rest, Return, QuickRecovers,
             Posts, MemoryTypes, PlaceTypes, ValueTypes, Installing, Replacing, SetupFlows, Saving
  <1>0. /\ TxInv /\ MemoryTypes /\ Posts /\ Offered /\ Agreement /\ Known /\ EngineFits /\ SavedFits /\ Compared
        /\ step \in {"done", "unjournal"} \cup Installing \cup Replacing
    BY DEF IInv, TxInv, TxTypes
  <1>1. MemoryTypes'
    <2>1. PlaceTypes'
      BY <1>0 DEF Places
    <2>2. FlagTypes'
      BY <1>0 DEF FlagTypes
    <2>3. ValueTypes'
      BY <1>0, SettingsTypes, EffectiveEngine, EngineType
    <2>4. CounterTypes'
      BY <1>0, StartsAssumption DEF CounterTypes
    <2> QED BY <2>1, <2>2, <2>3, <2>4
  <1>2. Posts'
    BY <1>0, SettingsTypes
  <1>3. Offered'
    BY <1>0 DEF Offered, OfferGoal, Told
  <1>4. Agreement'
    BY <1>0, SettingsTypes DEF Agreement, Undone, Offered, OfferGoal, Told
  <1>5. Known'
    BY <1>0 DEF Known
  <1>6. EngineFits'
    BY <1>0, EffectiveEngine DEF EngineFits
  <1>7. SavedFits'
    BY <1>0, SettingsTypes DEF SavedFits, Foreign
  <1>8. Compared'
    BY <1>0 DEF Compared
  <1> QED BY <1>1, <1>2, <1>3, <1>4, <1>5, <1>6, <1>7, <1>8 DEF Rest

LEMMA QuickKeepsRest ==
  ASSUME IInv, QuickKeeps
  PROVE  Rest'
  <1> USE DEF transaction, files, run, memory, thread, process, rest, QuickKeeps, Posts,
             MemoryTypes, PlaceTypes, ValueTypes, Installing, Replacing, SetupFlows, Saving
  <1>0. /\ TxInv /\ MemoryTypes /\ Posts /\ Offered /\ Agreement /\ Known /\ EngineFits /\ SavedFits /\ Compared
        /\ step \in {"done", "unjournal"} \cup Installing \cup Replacing
    BY DEF IInv, TxInv, TxTypes
  <1>e. /\ step = "done" /\ journal' = journal
        /\ step' \in {"done", "archive"}
    BY <1>0, RecoverDoes
  <1>1. MemoryTypes'
    <2>1. PlaceTypes'
      BY <1>0, <1>e DEF Places
    <2>2. FlagTypes'
      BY <1>0, <1>e DEF FlagTypes
    <2>3. ValueTypes'
      BY <1>0, <1>e, SettingsTypes, EffectiveEngine, EngineType
    <2>4. CounterTypes'
      BY <1>0, <1>e, StartsAssumption DEF CounterTypes
    <2> QED BY <2>1, <2>2, <2>3, <2>4
  <1>2. Posts'
    BY <1>0, <1>e, SettingsTypes
  <1>3. Offered'
    BY <1>0, <1>e DEF Offered, OfferGoal, Told
  <1>4. Agreement'
    BY <1>0, <1>e, SettingsTypes DEF Agreement, Undone, Offered, OfferGoal, Told
  <1>5. Known'
    BY <1>0, <1>e DEF Known
  <1>6. EngineFits'
    BY <1>0, <1>e, EffectiveEngine DEF EngineFits
  <1>7. SavedFits'
    BY <1>0, <1>e, SettingsTypes DEF SavedFits, Foreign
  <1>8. Compared'
    BY <1>0, <1>e DEF Compared
  <1> QED BY <1>1, <1>2, <1>3, <1>4, <1>5, <1>6, <1>7, <1>8 DEF Rest

LEMMA QuickAgainRest ==
  ASSUME IInv, QuickAgain
  PROVE  Rest'
  <1> USE DEF transaction, files, run, memory, thread, process, rest, Return, QuickAgain, Setup,
             Connect, Posts, MemoryTypes, PlaceTypes, ValueTypes, Installing, Replacing,
             SetupFlows, Saving
  <1>0. /\ TxInv /\ MemoryTypes /\ Posts /\ Offered /\ Agreement /\ Known /\ EngineFits /\ SavedFits /\ Compared
        /\ step \in {"done", "unjournal"} \cup Installing \cup Replacing
    BY DEF IInv, TxInv, TxTypes
  <1>e. BeginRestore => /\ step = "done" /\ journal' = journal
                          /\ step' \in {"done", "recompare", "unjournal"}
    BY <1>0, RestoreDoes
  <1>1. MemoryTypes'
    <2>1. PlaceTypes'
      BY <1>0, <1>e DEF Places
    <2>2. FlagTypes'
      BY <1>0, <1>e DEF FlagTypes
    <2>3. ValueTypes'
      BY <1>0, <1>e, SettingsTypes, EffectiveEngine, EngineType
    <2>4. CounterTypes'
      BY <1>0, <1>e, StartsAssumption DEF CounterTypes
    <2> QED BY <2>1, <2>2, <2>3, <2>4
  <1>2. Posts'
    BY <1>0, <1>e, SettingsTypes
  <1>3. Offered'
    BY <1>0, <1>e DEF Offered, OfferGoal, Told
  <1>4. Agreement'
    BY <1>0, <1>e, SettingsTypes DEF Agreement, Undone, Offered, OfferGoal, Told
  <1>5. Known'
    BY <1>0, <1>e DEF Known
  <1>6. EngineFits'
    BY <1>0, <1>e, EffectiveEngine DEF EngineFits
  <1>7. SavedFits'
    BY <1>0, <1>e, SettingsTypes DEF SavedFits, Foreign
  <1>8. Compared'
    BY <1>0, <1>e DEF Compared
  <1> QED BY <1>1, <1>2, <1>3, <1>4, <1>5, <1>6, <1>7, <1>8 DEF Rest

LEMMA RecoveredRest ==
  ASSUME IInv, Recovered
  PROVE  Rest'
  <1> USE DEF transaction, files, run, memory, thread, process, rest, Return, Recovered, Setup,
             Connect, Posts, MemoryTypes, PlaceTypes, ValueTypes, Installing, Replacing,
             SetupFlows, Saving
  <1>0. /\ TxInv /\ MemoryTypes /\ Posts /\ Offered /\ Agreement /\ Known /\ EngineFits /\ SavedFits /\ Compared
        /\ step \in {"done", "unjournal"} \cup Installing \cup Replacing
    BY DEF IInv, TxInv, TxTypes
  <1>e. BeginRestore => /\ step = "done" /\ journal' = journal
                          /\ step' \in {"done", "recompare", "unjournal"}
    BY <1>0, RestoreDoes
  <1>1. MemoryTypes'
    <2>1. PlaceTypes'
      BY <1>0, <1>e DEF Places
    <2>2. FlagTypes'
      BY <1>0, <1>e DEF FlagTypes
    <2>3. ValueTypes'
      BY <1>0, <1>e, SettingsTypes, EffectiveEngine, EngineType
    <2>4. CounterTypes'
      BY <1>0, <1>e, StartsAssumption DEF CounterTypes
    <2> QED BY <2>1, <2>2, <2>3, <2>4
  <1>2. Posts'
    BY <1>0, <1>e, SettingsTypes
  <1>3. Offered'
    BY <1>0, <1>e DEF Offered, OfferGoal, Told
  <1>4. Agreement'
    BY <1>0, <1>e, SettingsTypes DEF Agreement, Undone, Offered, OfferGoal, Told
  <1>5. Known'
    BY <1>0, <1>e DEF Known
  <1>6. EngineFits'
    BY <1>0, <1>e, EffectiveEngine DEF EngineFits
  <1>7. SavedFits'
    BY <1>0, <1>e, SettingsTypes DEF SavedFits, Foreign
  <1>8. Compared'
    BY <1>0, <1>e DEF Compared
  <1> QED BY <1>1, <1>2, <1>3, <1>4, <1>5, <1>6, <1>7, <1>8 DEF Rest

LEMMA ReadsRest ==
  ASSUME IInv, Persist \/ Inspect \/ Reread
  PROVE  Rest'
  <1> USE DEF transaction, files, run, memory, thread, process, rest, Proceed, Return, Persist,
             Inspect, Reread, unwritten, PersistFailed, Posts, MemoryTypes, PlaceTypes, ValueTypes, Installing, Replacing,
             SetupFlows, Saving
  <1>0. /\ TxInv /\ MemoryTypes /\ Posts /\ Offered /\ Agreement /\ Known /\ EngineFits /\ SavedFits /\ Compared
        /\ step \in {"done", "unjournal"} \cup Installing \cup Replacing
    BY DEF IInv, TxInv, TxTypes
  <1>1. MemoryTypes'
    <2>1. PlaceTypes'
      BY <1>0 DEF Places
    <2>2. FlagTypes'
      BY <1>0 DEF FlagTypes
    <2>3. ValueTypes'
      BY <1>0, SettingsTypes, EffectiveEngine, EngineType
    <2>4. CounterTypes'
      BY <1>0, StartsAssumption DEF CounterTypes
    <2> QED BY <2>1, <2>2, <2>3, <2>4
  <1>2. Posts'
    BY <1>0, SettingsTypes
  <1>3. Offered'
    BY <1>0 DEF Offered, OfferGoal, Told
  <1>4. Agreement'
    BY <1>0, SettingsTypes DEF Agreement, Undone, Offered, OfferGoal, Told
  <1>5. Known'
    BY <1>0 DEF Known
  <1>6. EngineFits'
    BY <1>0, EffectiveEngine DEF EngineFits
  <1>7. SavedFits'
    BY <1>0, SettingsTypes DEF SavedFits, Foreign
  <1>8. Compared'
    BY <1>0 DEF Compared
  <1> QED BY <1>1, <1>2, <1>3, <1>4, <1>5, <1>6, <1>7, <1>8 DEF Rest

LEMMA SaveRest ==
  ASSUME IInv, Save
  PROVE  Rest'
  <1> USE DEF transaction, files, run, memory, thread, process, rest, Proceed, Return, Save,
             StartEngine, Posts, MemoryTypes, PlaceTypes, ValueTypes, Installing, Replacing,
             SetupFlows, Saving
  <1>0. /\ TxInv /\ MemoryTypes /\ Posts /\ Offered /\ Agreement /\ Known /\ EngineFits /\ SavedFits /\ Compared
        /\ step \in {"done", "unjournal"} \cup Installing \cup Replacing
    BY DEF IInv, TxInv, TxTypes
  <1>1. MemoryTypes'
    <2>1. PlaceTypes'
      BY <1>0 DEF Places
    <2>2. FlagTypes'
      BY <1>0 DEF FlagTypes
    <2>3. ValueTypes'
      BY <1>0, SettingsTypes, EffectiveEngine, EngineType
    <2>4. CounterTypes'
      BY <1>0, StartsAssumption DEF CounterTypes
    <2> QED BY <2>1, <2>2, <2>3, <2>4
  <1>2. Posts'
    BY <1>0, SettingsTypes
  <1>3. Offered'
    BY <1>0 DEF Offered, OfferGoal, Told
  <1>4. Agreement'
    BY <1>0, SettingsTypes DEF Agreement, Undone, Offered, OfferGoal, Told
  <1>5. Known'
    BY <1>0 DEF Known
  <1>6. EngineFits'
    BY <1>0, EffectiveEngine DEF EngineFits
  <1>7. SavedFits'
    BY <1>0, SettingsTypes DEF SavedFits, Foreign
  <1>8. Compared'
    BY <1>0 DEF Compared
  <1> QED BY <1>1, <1>2, <1>3, <1>4, <1>5, <1>6, <1>7, <1>8 DEF Rest

LEMMA ResetRest ==
  ASSUME IInv, Recheck \/ Rewrite
  PROVE  Rest'
  <1> USE DEF transaction, files, run, memory, thread, process, rest, Proceed, Return, Recheck,
             Rewrite, unwritten, Posts, MemoryTypes, PlaceTypes, ValueTypes, Installing, Replacing,
             SetupFlows, Saving
  <1>0. /\ TxInv /\ MemoryTypes /\ Posts /\ Offered /\ Agreement /\ Known /\ EngineFits /\ SavedFits /\ Compared
        /\ step \in {"done", "unjournal"} \cup Installing \cup Replacing
    BY DEF IInv, TxInv, TxTypes
  <1>1. MemoryTypes'
    <2>1. PlaceTypes'
      BY <1>0 DEF Places
    <2>2. FlagTypes'
      BY <1>0 DEF FlagTypes
    <2>3. ValueTypes'
      BY <1>0, SettingsTypes, EffectiveEngine, EngineType
    <2>4. CounterTypes'
      BY <1>0, StartsAssumption DEF CounterTypes
    <2> QED BY <2>1, <2>2, <2>3, <2>4
  <1>2. Posts'
    BY <1>0, SettingsTypes
  <1>3. Offered'
    BY <1>0 DEF Offered, OfferGoal, Told
  <1>4. Agreement'
    BY <1>0, SettingsTypes DEF Agreement, Undone, Offered, OfferGoal, Told
  <1>5. Known'
    BY <1>0 DEF Known
  <1>6. EngineFits'
    BY <1>0, EffectiveEngine DEF EngineFits
  <1>7. SavedFits'
    BY <1>0, SettingsTypes DEF SavedFits, Foreign
  <1>8. Compared'
    BY <1>0 DEF Compared
  <1> QED BY <1>1, <1>2, <1>3, <1>4, <1>5, <1>6, <1>7, <1>8 DEF Rest

LEMMA FailsRest ==
  ASSUME IInv, SaveFails
  PROVE  Rest'
  <1> USE DEF transaction, files, run, memory, thread, process, rest, Proceed, Return, SaveFails,
             PersistFailed, Posts, MemoryTypes, PlaceTypes, ValueTypes, Installing, Replacing,
             SetupFlows, Saving
  <1>0. /\ TxInv /\ MemoryTypes /\ Posts /\ Offered /\ Agreement /\ Known /\ EngineFits /\ SavedFits /\ Compared
        /\ step \in {"done", "unjournal"} \cup Installing \cup Replacing
    BY DEF IInv, TxInv, TxTypes
  <1>1. MemoryTypes'
    <2>1. PlaceTypes'
      BY <1>0 DEF Places
    <2>2. FlagTypes'
      BY <1>0 DEF FlagTypes
    <2>3. ValueTypes'
      BY <1>0, SettingsTypes, EffectiveEngine, EngineType
    <2>4. CounterTypes'
      BY <1>0, StartsAssumption DEF CounterTypes
    <2> QED BY <2>1, <2>2, <2>3, <2>4
  <1>2. Posts'
    BY <1>0, SettingsTypes
  <1>3. Offered'
    BY <1>0 DEF Offered, OfferGoal, Told
  <1>4. Agreement'
    BY <1>0, SettingsTypes DEF Agreement, Undone, Offered, OfferGoal, Told
  <1>5. Known'
    BY <1>0 DEF Known
  <1>6. EngineFits'
    BY <1>0, EffectiveEngine DEF EngineFits
  <1>7. SavedFits'
    BY <1>0, SettingsTypes DEF SavedFits, Foreign
  <1>8. Compared'
    BY <1>0 DEF Compared
  <1> QED BY <1>1, <1>2, <1>3, <1>4, <1>5, <1>6, <1>7, <1>8 DEF Rest

LEMMA RollbackRest ==
  ASSUME IInv, Rollback
  PROVE  Rest'
  <1> USE DEF transaction, files, run, memory, thread, process, rest, Rollback, Connect, Posts,
             MemoryTypes, PlaceTypes, ValueTypes, Installing, Replacing, SetupFlows, Saving
  <1>0. /\ TxInv /\ MemoryTypes /\ Posts /\ Offered /\ Agreement /\ Known /\ EngineFits /\ SavedFits /\ Compared
        /\ step \in {"done", "unjournal"} \cup Installing \cup Replacing
    BY DEF IInv, TxInv, TxTypes
  <1>e. BeginRestore => /\ step = "done" /\ journal' = journal
                          /\ step' \in {"done", "recompare", "unjournal"}
    BY <1>0, RestoreDoes
  <1>1. MemoryTypes'
    <2>1. PlaceTypes'
      BY <1>0, <1>e DEF Places
    <2>2. FlagTypes'
      BY <1>0, <1>e DEF FlagTypes
    <2>3. ValueTypes'
      BY <1>0, <1>e, SettingsTypes, EffectiveEngine, EngineType
    <2>4. CounterTypes'
      BY <1>0, <1>e, StartsAssumption DEF CounterTypes
    <2> QED BY <2>1, <2>2, <2>3, <2>4
  <1>2. Posts'
    BY <1>0, <1>e, SettingsTypes
  <1>3. Offered'
    BY <1>0, <1>e DEF Offered, OfferGoal, Told
  <1>4. Agreement'
    BY <1>0, <1>e, SettingsTypes DEF Agreement, Undone, Offered, OfferGoal, Told
  <1>5. Known'
    BY <1>0, <1>e DEF Known
  <1>6. EngineFits'
    BY <1>0, <1>e, EffectiveEngine DEF EngineFits
  <1>7. SavedFits'
    BY <1>0, <1>e, SettingsTypes DEF SavedFits, Foreign
  <1>8. Compared'
    BY <1>0, <1>e DEF Compared
  <1> QED BY <1>1, <1>2, <1>3, <1>4, <1>5, <1>6, <1>7, <1>8 DEF Rest

LEMMA RolledRest ==
  ASSUME IInv, Rolled
  PROVE  Rest'
  <1> USE DEF transaction, files, run, memory, thread, process, rest, Return, Rolled, Posts,
             MemoryTypes, PlaceTypes, ValueTypes, Installing, Replacing, SetupFlows, Saving
  <1>0. /\ TxInv /\ MemoryTypes /\ Posts /\ Offered /\ Agreement /\ Known /\ EngineFits /\ SavedFits /\ Compared
        /\ step \in {"done", "unjournal"} \cup Installing \cup Replacing
    BY DEF IInv, TxInv, TxTypes
  <1>1. MemoryTypes'
    <2>1. PlaceTypes'
      BY <1>0 DEF Places
    <2>2. FlagTypes'
      BY <1>0 DEF FlagTypes
    <2>3. ValueTypes'
      BY <1>0, SettingsTypes, EffectiveEngine, EngineType
    <2>4. CounterTypes'
      BY <1>0, StartsAssumption DEF CounterTypes
    <2> QED BY <2>1, <2>2, <2>3, <2>4
  <1>2. Posts'
    BY <1>0, SettingsTypes
  <1>3. Offered'
    BY <1>0 DEF Offered, OfferGoal, Told
  <1>4. Agreement'
    BY <1>0, SettingsTypes DEF Agreement, Undone, Offered, OfferGoal, Told
  <1>5. Known'
    BY <1>0 DEF Known
  <1>6. EngineFits'
    BY <1>0, EffectiveEngine DEF EngineFits
  <1>7. SavedFits'
    BY <1>0, SettingsTypes DEF SavedFits, Foreign
  <1>8. Compared'
    BY <1>0 DEF Compared
  <1> QED BY <1>1, <1>2, <1>3, <1>4, <1>5, <1>6, <1>7, <1>8 DEF Rest

LEMMA ShutdownRest ==
  ASSUME IInv, Shutdown
  PROVE  Rest'
  <1> USE DEF transaction, files, run, memory, thread, process, rest, Proceed, Shutdown, Posts,
             MemoryTypes, PlaceTypes, ValueTypes, Installing, Replacing, SetupFlows, Saving
  <1>0. /\ TxInv /\ MemoryTypes /\ Posts /\ Offered /\ Agreement /\ Known /\ EngineFits /\ SavedFits /\ Compared
        /\ step \in {"done", "unjournal"} \cup Installing \cup Replacing
    BY DEF IInv, TxInv, TxTypes
  <1>e. BeginRestore => /\ step = "done" /\ journal' = journal
                          /\ step' \in {"done", "recompare", "unjournal"}
    BY <1>0, RestoreDoes
  <1>1. MemoryTypes'
    <2>1. PlaceTypes'
      BY <1>0, <1>e DEF Places
    <2>2. FlagTypes'
      BY <1>0, <1>e DEF FlagTypes
    <2>3. ValueTypes'
      BY <1>0, <1>e, SettingsTypes, EffectiveEngine, EngineType
    <2>4. CounterTypes'
      BY <1>0, <1>e, StartsAssumption DEF CounterTypes
    <2> QED BY <2>1, <2>2, <2>3, <2>4
  <1>2. Posts'
    BY <1>0, <1>e, SettingsTypes
  <1>3. Offered'
    BY <1>0, <1>e DEF Offered, OfferGoal, Told
  <1>4. Agreement'
    BY <1>0, <1>e, SettingsTypes DEF Agreement, Undone, Offered, OfferGoal, Told
  <1>5. Known'
    BY <1>0, <1>e DEF Known
  <1>6. EngineFits'
    BY <1>0, <1>e, EffectiveEngine DEF EngineFits
  <1>7. SavedFits'
    BY <1>0, <1>e, SettingsTypes DEF SavedFits, Foreign
  <1>8. Compared'
    BY <1>0, <1>e DEF Compared
  <1> QED BY <1>1, <1>2, <1>3, <1>4, <1>5, <1>6, <1>7, <1>8 DEF Rest

LEMMA LaunchRest ==
  ASSUME IInv, Launch
  PROVE  Rest'
  <1> USE DEF transaction, files, run, memory, thread, process, rest, Proceed, Launch, Setup,
             Connect, Posts, MemoryTypes, PlaceTypes, ValueTypes, Installing, Replacing,
             SetupFlows, Saving
  <1>0. /\ TxInv /\ MemoryTypes /\ Posts /\ Offered /\ Agreement /\ Known /\ EngineFits /\ SavedFits /\ Compared
        /\ step \in {"done", "unjournal"} \cup Installing \cup Replacing
    BY DEF IInv, TxInv, TxTypes
  <1>e. BeginRestore => /\ step = "done" /\ journal' = journal
                          /\ step' \in {"done", "recompare", "unjournal"}
    BY <1>0, RestoreDoes
  <1>1. MemoryTypes'
    <2>1. PlaceTypes'
      BY <1>0, <1>e DEF Places
    <2>2. FlagTypes'
      BY <1>0, <1>e DEF FlagTypes
    <2>3. ValueTypes'
      BY <1>0, <1>e, SettingsTypes, EffectiveEngine, EngineType
    <2>4. CounterTypes'
      BY <1>0, <1>e, StartsAssumption DEF CounterTypes
    <2> QED BY <2>1, <2>2, <2>3, <2>4
  <1>2. Posts'
    BY <1>0, <1>e, SettingsTypes
  <1>3. Offered'
    BY <1>0, <1>e DEF Offered, OfferGoal, Told
  <1>4. Agreement'
    BY <1>0, <1>e, SettingsTypes DEF Agreement, Undone, Offered, OfferGoal, Told
  <1>5. Known'
    BY <1>0, <1>e DEF Known
  <1>6. EngineFits'
    BY <1>0, <1>e, EffectiveEngine DEF EngineFits
  <1>7. SavedFits'
    BY <1>0, <1>e, SettingsTypes DEF SavedFits, Foreign
  <1>8. Compared'
    BY <1>0, <1>e DEF Compared
  <1> QED BY <1>1, <1>2, <1>3, <1>4, <1>5, <1>6, <1>7, <1>8 DEF Rest

LEMMA EndingRest ==
  ASSUME IInv, Stop \/ Exit \/ Crashes
  PROVE  Rest'
  <1> USE DEF transaction, files, run, memory, thread, process, rest, Stop, Exit, Crashes, Crash,
             End, Ended, Posts, MemoryTypes, PlaceTypes, ValueTypes, Installing, Replacing,
             SetupFlows, Saving
  <1>0. /\ TxInv /\ MemoryTypes /\ Posts /\ Offered /\ Agreement /\ Known /\ EngineFits /\ SavedFits /\ Compared
        /\ step \in {"done", "unjournal"} \cup Installing \cup Replacing
    BY DEF IInv, TxInv, TxTypes
  <1>1. MemoryTypes'
    <2>1. PlaceTypes'
      BY <1>0 DEF Places
    <2>2. FlagTypes'
      BY <1>0 DEF FlagTypes
    <2>3. ValueTypes'
      BY <1>0, SettingsTypes, EffectiveEngine, EngineType
    <2>4. CounterTypes'
      BY <1>0, StartsAssumption DEF CounterTypes
    <2> QED BY <2>1, <2>2, <2>3, <2>4
  <1>2. Posts'
    BY <1>0, SettingsTypes
  <1>3. Offered'
    BY <1>0 DEF Offered, OfferGoal, Told
  <1>4. Agreement'
    BY <1>0, SettingsTypes DEF Agreement, Undone, Offered, OfferGoal, Told
  <1>5. Known'
    BY <1>0 DEF Known
  <1>6. EngineFits'
    BY <1>0, EffectiveEngine DEF EngineFits
  <1>7. SavedFits'
    BY <1>0, SettingsTypes DEF SavedFits, Foreign
  <1>8. Compared'
    BY <1>0 DEF Compared
  <1> QED BY <1>1, <1>2, <1>3, <1>4, <1>5, <1>6, <1>7, <1>8 DEF Rest

LEMMA RequestsRest ==
  ASSUME IInv, Admit \/ Replied \/ Reset
  PROVE  Rest'
  <1> USE DEF transaction, files, run, memory, thread, process, rest, Locked, Admit, Replied,
             Reset, Posts, MemoryTypes, PlaceTypes, ValueTypes, Installing, Replacing, SetupFlows, Saving
  <1>0. /\ TxInv /\ MemoryTypes /\ Posts /\ Offered /\ Agreement /\ Known /\ EngineFits /\ SavedFits /\ Compared
        /\ step \in {"done", "unjournal"} \cup Installing \cup Replacing
    BY DEF IInv, TxInv, TxTypes
  <1>1. MemoryTypes'
    <2>1. PlaceTypes'
      BY <1>0 DEF Places
    <2>2. FlagTypes'
      BY <1>0 DEF FlagTypes
    <2>3. ValueTypes'
      BY <1>0, SettingsTypes, EffectiveEngine, EngineType
    <2>4. CounterTypes'
      BY <1>0, StartsAssumption DEF CounterTypes
    <2> QED BY <2>1, <2>2, <2>3, <2>4
  <1>2. Posts'
    BY <1>0, SettingsTypes
  <1>3. Offered'
    BY <1>0 DEF Offered, OfferGoal, Told
  <1>4. Agreement'
    BY <1>0, SettingsTypes DEF Agreement, Undone, Offered, OfferGoal, Told
  <1>5. Known'
    BY <1>0 DEF Known
  <1>6. EngineFits'
    BY <1>0, EffectiveEngine DEF EngineFits
  <1>7. SavedFits'
    BY <1>0, SettingsTypes DEF SavedFits, Foreign
  <1>8. Compared'
    BY <1>0 DEF Compared
  <1> QED BY <1>1, <1>2, <1>3, <1>4, <1>5, <1>6, <1>7, <1>8 DEF Rest

LEMMA RecoverRest ==
  ASSUME IInv, Recover
  PROVE  Rest'
  <1> USE DEF transaction, files, run, memory, thread, process, rest, Locked, Recover, Setup,
             Connect, Posts, MemoryTypes, PlaceTypes, ValueTypes, Installing, Replacing,
             SetupFlows, Saving
  <1>0. /\ TxInv /\ MemoryTypes /\ Posts /\ Offered /\ Agreement /\ Known /\ EngineFits /\ SavedFits /\ Compared
        /\ step \in {"done", "unjournal"} \cup Installing \cup Replacing
    BY DEF IInv, TxInv, TxTypes
  <1>e. BeginRestore => /\ step = "done" /\ journal' = journal
                          /\ step' \in {"done", "recompare", "unjournal"}
    BY <1>0, RestoreDoes
  <1>1. MemoryTypes'
    <2>1. PlaceTypes'
      BY <1>0, <1>e DEF Places
    <2>2. FlagTypes'
      BY <1>0, <1>e DEF FlagTypes
    <2>3. ValueTypes'
      BY <1>0, <1>e, SettingsTypes, EffectiveEngine, EngineType
    <2>4. CounterTypes'
      BY <1>0, <1>e, StartsAssumption DEF CounterTypes
    <2> QED BY <2>1, <2>2, <2>3, <2>4
  <1>2. Posts'
    BY <1>0, <1>e, SettingsTypes
  <1>3. Offered'
    BY <1>0, <1>e DEF Offered, OfferGoal, Told
  <1>4. Agreement'
    BY <1>0, <1>e, SettingsTypes DEF Agreement, Undone, Offered, OfferGoal, Told
  <1>5. Known'
    BY <1>0, <1>e DEF Known
  <1>6. EngineFits'
    BY <1>0, <1>e, EffectiveEngine DEF EngineFits
  <1>7. SavedFits'
    BY <1>0, <1>e, SettingsTypes DEF SavedFits, Foreign
  <1>8. Compared'
    BY <1>0, <1>e DEF Compared
  <1> QED BY <1>1, <1>2, <1>3, <1>4, <1>5, <1>6, <1>7, <1>8 DEF Rest

LEMMA RecoveryRest ==
  ASSUME IInv, Recovery
  PROVE  Rest'
  <1> USE DEF transaction, files, run, memory, thread, process, rest, Locked, Recovery, Posts,
             MemoryTypes, PlaceTypes, ValueTypes, Installing, Replacing, SetupFlows, Saving
  <1>0. /\ TxInv /\ MemoryTypes /\ Posts /\ Offered /\ Agreement /\ Known /\ EngineFits /\ SavedFits /\ Compared
        /\ step \in {"done", "unjournal"} \cup Installing \cup Replacing
    BY DEF IInv, TxInv, TxTypes
  <1>e. /\ step = "done" /\ journal' = journal
        /\ step' \in {"done", "archive"}
    BY <1>0, RecoverDoes
  <1>1. MemoryTypes'
    <2>1. PlaceTypes'
      BY <1>0, <1>e DEF Places
    <2>2. FlagTypes'
      BY <1>0, <1>e DEF FlagTypes
    <2>3. ValueTypes'
      BY <1>0, <1>e, SettingsTypes, EffectiveEngine, EngineType
    <2>4. CounterTypes'
      BY <1>0, <1>e, StartsAssumption DEF CounterTypes
    <2> QED BY <2>1, <2>2, <2>3, <2>4
  <1>2. Posts'
    BY <1>0, <1>e, SettingsTypes
  <1>3. Offered'
    BY <1>0, <1>e DEF Offered, OfferGoal, Told
  <1>4. Agreement'
    BY <1>0, <1>e, SettingsTypes DEF Agreement, Undone, Offered, OfferGoal, Told
  <1>5. Known'
    BY <1>0, <1>e DEF Known
  <1>6. EngineFits'
    BY <1>0, <1>e, EffectiveEngine DEF EngineFits
  <1>7. SavedFits'
    BY <1>0, <1>e, SettingsTypes DEF SavedFits, Foreign
  <1>8. Compared'
    BY <1>0, <1>e DEF Compared
  <1> QED BY <1>1, <1>2, <1>3, <1>4, <1>5, <1>6, <1>7, <1>8 DEF Rest

LEMMA RebuildRest ==
  ASSUME IInv, Rebuild
  PROVE  Rest'
  <1> USE DEF transaction, files, run, memory, thread, process, rest, Locked, Rebuild, Posts,
             MemoryTypes, PlaceTypes, ValueTypes, Installing, Replacing, SetupFlows, Saving
  <1>0. /\ TxInv /\ MemoryTypes /\ Posts /\ Offered /\ Agreement /\ Known /\ EngineFits /\ SavedFits /\ Compared
        /\ step \in {"done", "unjournal"} \cup Installing \cup Replacing
    BY DEF IInv, TxInv, TxTypes
  <1>e. /\ step = "done" /\ journal' = journal
        /\ step' \in {"done", "archive"}
    BY <1>0, ResetDoes
  <1>1. MemoryTypes'
    <2>1. PlaceTypes'
      BY <1>0, <1>e DEF Places
    <2>2. FlagTypes'
      BY <1>0, <1>e DEF FlagTypes
    <2>3. ValueTypes'
      BY <1>0, <1>e, SettingsTypes, EffectiveEngine, EngineType
    <2>4. CounterTypes'
      BY <1>0, <1>e, StartsAssumption DEF CounterTypes
    <2> QED BY <2>1, <2>2, <2>3, <2>4
  <1>2. Posts'
    BY <1>0, <1>e, SettingsTypes
  <1>3. Offered'
    BY <1>0, <1>e DEF Offered, OfferGoal, Told
  <1>4. Agreement'
    BY <1>0, <1>e, SettingsTypes DEF Agreement, Undone, Offered, OfferGoal, Told
  <1>5. Known'
    BY <1>0, <1>e DEF Known
  <1>6. EngineFits'
    BY <1>0, <1>e, EffectiveEngine DEF EngineFits
  <1>7. SavedFits'
    BY <1>0, <1>e, SettingsTypes DEF SavedFits, Foreign
  <1>8. Compared'
    BY <1>0, <1>e DEF Compared
  <1> QED BY <1>1, <1>2, <1>3, <1>4, <1>5, <1>6, <1>7, <1>8 DEF Rest

LEMMA RepairRest ==
  ASSUME IInv, Repair
  PROVE  Rest'
  <1> USE DEF transaction, files, run, memory, thread, process, rest, Locked, Repair, Posts,
             MemoryTypes, PlaceTypes, ValueTypes, Installing, Replacing, SetupFlows, Saving
  <1>0. /\ TxInv /\ MemoryTypes /\ Posts /\ Offered /\ Agreement /\ Known /\ EngineFits /\ SavedFits /\ Compared
        /\ step \in {"done", "unjournal"} \cup Installing \cup Replacing
    BY DEF IInv, TxInv, TxTypes
  <1>e. /\ step = "done" /\ journal' = journal
        /\ step' \in {"done", "archive"}
    BY <1>0, ResetDoes
  <1>1. MemoryTypes'
    <2>1. PlaceTypes'
      BY <1>0, <1>e DEF Places
    <2>2. FlagTypes'
      BY <1>0, <1>e DEF FlagTypes
    <2>3. ValueTypes'
      BY <1>0, <1>e, SettingsTypes, EffectiveEngine, EngineType
    <2>4. CounterTypes'
      BY <1>0, <1>e, StartsAssumption DEF CounterTypes
    <2> QED BY <2>1, <2>2, <2>3, <2>4
  <1>2. Posts'
    BY <1>0, <1>e, SettingsTypes
  <1>3. Offered'
    BY <1>0, <1>e DEF Offered, OfferGoal, Told
  <1>4. Agreement'
    BY <1>0, <1>e, SettingsTypes DEF Agreement, Undone, Offered, OfferGoal, Told
  <1>5. Known'
    BY <1>0, <1>e DEF Known
  <1>6. EngineFits'
    BY <1>0, <1>e, EffectiveEngine DEF EngineFits
  <1>7. SavedFits'
    BY <1>0, <1>e, SettingsTypes DEF SavedFits, Foreign
  <1>8. Compared'
    BY <1>0, <1>e DEF Compared
  <1> QED BY <1>1, <1>2, <1>3, <1>4, <1>5, <1>6, <1>7, <1>8 DEF Rest

LEMMA QuickRest ==
  ASSUME IInv, Quick
  PROVE  Rest'
  <1> USE DEF transaction, files, run, memory, thread, process, rest, Locked, Quick, Setup,
             Connect, Posts, MemoryTypes, PlaceTypes, ValueTypes, Installing, Replacing,
             SetupFlows, Saving
  <1>0. /\ TxInv /\ MemoryTypes /\ Posts /\ Offered /\ Agreement /\ Known /\ EngineFits /\ SavedFits /\ Compared
        /\ step \in {"done", "unjournal"} \cup Installing \cup Replacing
    BY DEF IInv, TxInv, TxTypes
  <1>e. BeginRestore => /\ step = "done" /\ journal' = journal
                          /\ step' \in {"done", "recompare", "unjournal"}
    BY <1>0, RestoreDoes
  <1>s. [config EXCEPT !.rest = 1] \in Settings /\ [config EXCEPT !.rest = 1].model = config.model
    BY <1>0 DEF Settings
  <1>1. MemoryTypes'
    <2>1. PlaceTypes'
      BY <1>0, <1>e, <1>s DEF Places
    <2>2. FlagTypes'
      BY <1>0, <1>e, <1>s DEF FlagTypes
    <2>3. ValueTypes'
      BY <1>0, <1>e, <1>s, SettingsTypes, EffectiveEngine, EngineType
    <2>4. CounterTypes'
      BY <1>0, <1>e, <1>s, StartsAssumption DEF CounterTypes
    <2> QED BY <2>1, <2>2, <2>3, <2>4
  <1>2. Posts'
    <2>1. CASE UNCHANGED thread /\ UNCHANGED transaction
      BY <1>0, <2>1
    <2>2. CASE /\ BeginRestore /\ at' = "restore" /\ caller' = "setup" /\ flow' = "quick"
               /\ next' \in Settings /\ next'.model = config'.model
      BY <1>0, <1>e, <2>2
    <2> QED BY <1>s, <2>1, <2>2
  <1>3. Offered'
    BY <1>0, <1>e, <1>s DEF Offered, OfferGoal, Told
  <1>4. Agreement'
    BY <1>0, <1>e, <1>s, SettingsTypes DEF Agreement, Undone, Offered, OfferGoal, Told
  <1>5. Known'
    BY <1>0, <1>e, <1>s DEF Known
  <1>6. EngineFits'
    BY <1>0, <1>e, <1>s, EffectiveEngine DEF EngineFits
  <1>7. SavedFits'
    BY <1>0, <1>e, <1>s, SettingsTypes DEF SavedFits, Foreign
  <1>8. Compared'
    BY <1>0, <1>e, <1>s DEF Compared
  <1> QED BY <1>1, <1>2, <1>3, <1>4, <1>5, <1>6, <1>7, <1>8 DEF Rest

LEMMA ApplyRest ==
  ASSUME IInv, Apply
  PROVE  Rest'
  <1> USE DEF transaction, files, run, memory, thread, process, rest, Locked, Apply, Connect,
             Posts, MemoryTypes, PlaceTypes, ValueTypes, Installing, Replacing, SetupFlows, Saving
  <1>0. /\ TxInv /\ MemoryTypes /\ Posts /\ Offered /\ Agreement /\ Known /\ EngineFits /\ SavedFits /\ Compared
        /\ step \in {"done", "unjournal"} \cup Installing \cup Replacing
    BY DEF IInv, TxInv, TxTypes
  <1>e. BeginRestore => /\ step = "done" /\ journal' = journal
                          /\ step' \in {"done", "recompare", "unjournal"}
    BY <1>0, RestoreDoes
  <1>s. next' \in Settings
    <2>1. /\ [config EXCEPT !.rest = 1] \in Settings
          /\ \A m \in Models : [config EXCEPT !.model = m] \in Settings
      BY <1>0 DEF Settings
    <2>2. (CHOOSE m \in Models : m # config.model) \in Models
      BY DEF Models
    <2> QED BY <2>1, <2>2
  <1>1. MemoryTypes'
    <2>1. PlaceTypes'
      BY <1>0, <1>e, <1>s DEF Places
    <2>2. FlagTypes'
      BY <1>0, <1>e, <1>s DEF FlagTypes
    <2>3. ValueTypes'
      BY <1>0, <1>e, <1>s, SettingsTypes, EffectiveEngine, EngineType
    <2>4. CounterTypes'
      BY <1>0, <1>e, <1>s, StartsAssumption DEF CounterTypes
    <2> QED BY <2>1, <2>2, <2>3, <2>4
  <1>2. Posts'
    BY <1>0, <1>e, <1>s, SettingsTypes
  <1>3. Offered'
    BY <1>0, <1>e, <1>s DEF Offered, OfferGoal, Told
  <1>4. Agreement'
    BY <1>0, <1>e, <1>s, SettingsTypes DEF Agreement, Undone, Offered, OfferGoal, Told
  <1>5. Known'
    BY <1>0, <1>e, <1>s DEF Known
  <1>6. EngineFits'
    BY <1>0, <1>e, <1>s, EffectiveEngine DEF EngineFits
  <1>7. SavedFits'
    BY <1>0, <1>e, <1>s, SettingsTypes DEF SavedFits, Foreign
  <1>8. Compared'
    BY <1>0, <1>e, <1>s DEF Compared
  <1> QED BY <1>1, <1>2, <1>3, <1>4, <1>5, <1>6, <1>7, <1>8 DEF Rest

LEMMA OthersRest ==
  ASSUME IInv, Policy \/ Injection \/ Sources \/ Pin
  PROVE  Rest'
  <1> USE DEF transaction, files, run, memory, thread, process, rest, Locked, Policy, Injection,
             Sources, Pin, SaveOther, Posts, MemoryTypes, PlaceTypes, ValueTypes, Installing,
             Replacing, SetupFlows, Saving
  <1>0. /\ TxInv /\ MemoryTypes /\ Posts /\ Offered /\ Agreement /\ Known /\ EngineFits /\ SavedFits /\ Compared
        /\ step \in {"done", "unjournal"} \cup Installing \cup Replacing
    BY DEF IInv, TxInv, TxTypes
  <1>s. next' \in Settings /\ next'.model = config.model
    BY <1>0 DEF Settings
  <1>1. MemoryTypes'
    <2>1. PlaceTypes'
      BY <1>0, <1>s DEF Places
    <2>2. FlagTypes'
      BY <1>0, <1>s DEF FlagTypes
    <2>3. ValueTypes'
      BY <1>0, <1>s, SettingsTypes, EffectiveEngine, EngineType
    <2>4. CounterTypes'
      BY <1>0, <1>s, StartsAssumption DEF CounterTypes
    <2> QED BY <2>1, <2>2, <2>3, <2>4
  <1>2. Posts'
    BY <1>0, <1>s, SettingsTypes
  <1>3. Offered'
    BY <1>0, <1>s DEF Offered, OfferGoal, Told
  <1>4. Agreement'
    BY <1>0, <1>s, SettingsTypes DEF Agreement, Undone, Offered, OfferGoal, Told
  <1>5. Known'
    BY <1>0, <1>s DEF Known
  <1>6. EngineFits'
    BY <1>0, <1>s, EffectiveEngine DEF EngineFits
  <1>7. SavedFits'
    BY <1>0, <1>s, SettingsTypes DEF SavedFits, Foreign
  <1>8. Compared'
    BY <1>0, <1>s DEF Compared
  <1> QED BY <1>1, <1>2, <1>3, <1>4, <1>5, <1>6, <1>7, <1>8 DEF Rest

LEMMA WorldRest ==
  ASSUME IInv, EditConfig \/ EditLogin \/ EditSettings \/ Damage
  PROVE  Rest'
  <1> USE DEF transaction, files, run, memory, thread, process, rest, EditConfig, EditTarget,
             EditLogin, EditSettings, Damage, DamageBackup, Posts, MemoryTypes, PlaceTypes,
             ValueTypes, Installing, Replacing, SetupFlows, Saving
  <1>0. /\ TxInv /\ MemoryTypes /\ Posts /\ Offered /\ Agreement /\ Known /\ EngineFits /\ SavedFits /\ Compared
        /\ step \in {"done", "unjournal"} \cup Installing \cup Replacing
    BY DEF IInv, TxInv, TxTypes
  <1>1. MemoryTypes'
    <2>1. PlaceTypes'
      BY <1>0 DEF Places
    <2>2. FlagTypes'
      BY <1>0 DEF FlagTypes
    <2>3. ValueTypes'
      BY <1>0, SettingsTypes, EffectiveEngine, EngineType DEF Foreign
    <2>4. CounterTypes'
      BY <1>0, StartsAssumption DEF CounterTypes
    <2> QED BY <2>1, <2>2, <2>3, <2>4
  <1>2. Posts'
    BY <1>0, SettingsTypes
  <1>3. Offered'
    BY <1>0 DEF Offered, OfferGoal, Told
  <1>4. Agreement'
    BY <1>0, SettingsTypes DEF Agreement, Undone, Offered, OfferGoal, Told
  <1>5. Known'
    BY <1>0 DEF Known
  <1>6. EngineFits'
    BY <1>0, EffectiveEngine DEF EngineFits
  <1>7. SavedFits'
    BY <1>0, SettingsTypes DEF SavedFits, Foreign
  <1>8. Compared'
    BY <1>0 DEF Compared
  <1> QED BY <1>1, <1>2, <1>3, <1>4, <1>5, <1>6, <1>7, <1>8 DEF Rest

-----------------------------------------------------------------------------
(* Every step *)

LEMMA RestStep ==
  ASSUME IInv, SNext
  PROVE  Rest'
  <1>1. CASE Over
    BY <1>1 DEF Over, vars, IInv, Rest, MemoryTypes, PlaceTypes, FlagTypes, ValueTypes, CounterTypes, Posts, Offered,
             OfferGoal, Told, Agreement, Undone, Known, EngineFits, SavedFits, Compared, transaction, files, run, memory, thread, process
  <1>2. CASE Work
    BY <1>2, AccessRest, RestoredRest, ProvideRest, InstallRest, InstalledRest, LoadRest,
       QuickSetRest, QuickRecoversRest, QuickKeepsRest, QuickAgainRest, RecoveredRest, ReadsRest,
       SaveRest, ResetRest, FailsRest, RollbackRest, RolledRest, ShutdownRest, EndingRest DEF Work
  <1>3. CASE ~Work /\ ~Over
    BY <1>3, LaunchRest, EndingRest, RequestsRest, RecoverRest, RecoveryRest, RebuildRest, RepairRest,
       QuickRest, ApplyRest, OthersRest, WorldRest DEF SNext
  <1> QED BY <1>1, <1>2, <1>3

LEMMA StutterIInv ==
  ASSUME IInv, UNCHANGED vars
  PROVE  IInv'
  <1>1. TxInv'
    BY AsideKeeps DEF IInv, vars
  <1>2. Rest'
    BY DEF vars, IInv, Rest, MemoryTypes, PlaceTypes, FlagTypes, ValueTypes, CounterTypes, Posts, Offered, OfferGoal,
           Told, Agreement, Undone, Known, EngineFits, SavedFits, Compared, transaction, files, run, memory, thread, process
  <1> QED BY <1>1, <1>2 DEF IInv, Rest

\* The invariant everything else follows from.
THEOREM IInvAlways == SSpec => []IInv
  <1>1. IInv /\ [SNext]_vars => IInv'
    <2>1. IInv /\ SNext => IInv'
      BY TxStep, RestStep DEF IInv, Rest
    <2> QED BY <2>1, StutterIInv
  <1> QED BY <1>1, InitIInv, PTL DEF SSpec

-----------------------------------------------------------------------------
(* What holds in every state *)

\* The types, and that an access to the disk is under way only where an operation of the
\* service runs it.
THEOREM TypeCorrect == SSpec => []TypeOK
  <1>1. IInv => TypeOK
    <2> SUFFICES ASSUME IInv PROVE TypeOK
      OBVIOUS
    <2>1. /\ {managed, setupError, routeError, rescue, stopping, intact, failed, raced, unseen} \subseteq BOOLEAN
          /\ edits \in 0..MaxEdits /\ faults \in 0..MaxFaults
      BY DEF IInv, MemoryTypes, FlagTypes, TxInv, TxTypes
    <2>2. /\ step \in Accesses
          /\ step # "done" => at \in {"restore", "installing", "recovering", "exit"}
      BY DEF IInv, TxInv, TxTypes, Posts, Installing, Replacing, Accesses
    <2>3. /\ config \in Settings /\ saved \in Settings \cup {Garbage, Missing}
          /\ engine # Absent => engine.kind \in {"official", "relay"}
      BY DEF IInv, MemoryTypes, ValueTypes, Engines
    <2>4. /\ at \in Places
          /\ flow \in {"none", "start", "launch", "recover", "quick", "apply", "save", "sources"}
          /\ caller \in {"none", "setup", "change", "undo"}
          /\ starts \in 0..MaxStarts /\ ops \in 0..MaxOps
      BY DEF IInv, MemoryTypes, PlaceTypes, CounterTypes
    <2> QED BY <2>1, <2>2, <2>3, <2>4 DEF TypeOK
  <1> QED BY <1>1, IInvAlways, PTL

\* Whenever something of a program is in the configuration of Codex, whatever failed
\* or crashed before, there is a receipt to take it out by.
Reversible == Ours(target) => journal # Absent
THEOREM ReversibleAlways == SSpec => []Reversible
  <1>1. IInv => Reversible
    BY DEF IInv, TxInv, Receipted, Reversible
  <1> QED BY <1>1, IInvAlways, PTL

\* Whenever an operation has ended without an error, memory, the settings file and
\* what Codex was told agree.
THEOREM SettingsAlwaysAgree == SSpec => []SettingsAgree
  <1>1. IInv => SettingsAgree
    <2> SUFFICES ASSUME IInv, at = "idle", managed, ~setupError
                 PROVE  /\ journal # Absent
                        /\ SelectedTable(journal.installed, journal.profile).model = config.model
                        /\ saved \notin Foreign => saved = config
      BY DEF SettingsAgree
    <2>1. Agreed(journal, config.model)
      BY DEF IInv, Agreement, Undone
    <2>2. ~rescue
      BY DEF IInv, Agreement
    <2>3. saved \in Foreign \/ saved = config
      BY <2>2 DEF IInv, SavedFits
    <2> QED BY <2>1, <2>3 DEF Agreed
  <1> QED BY <1>1, IInvAlways, PTL

-----------------------------------------------------------------------------
(* What no step does *)

LEMMA OnlyAdmits ==
  ASSUME SNext, forwarding' # forwarding, forwarding' # Absent
  PROVE  Admit
  <1> USE DEF process, vars
  <1>1. CASE Work
    BY <1>1 DEF Work, Restored, Provide, Install, Installed, Load, QuickSet, QuickRecovers, QuickKeeps,
             QuickAgain, Recovered, Persist, Inspect, Reread, Save, SaveFails, Recheck, Rewrite, unwritten,
             Rollback, Rolled, Shutdown, Exit, Ended
  <1>2. CASE Launch \/ Stop \/ Crashes \/ Replied \/ Reset \/ EditConfig \/ EditLogin \/ EditSettings
             \/ Damage \/ Over
    BY <1>2 DEF Launch, Stop, Crashes, Ended, Replied, Reset, EditConfig, EditLogin, EditSettings, Damage, Over
  <1>3. CASE Recover \/ Recovery \/ Rebuild \/ Repair \/ Quick \/ Apply \/ Policy \/ Injection \/ Sources \/ Pin
    BY <1>3 DEF Recover, Recovery, Rebuild, Repair, Quick, Apply, Policy, Injection, Sources, Pin, SaveOther, rest
  <1> QED BY <1>1, <1>2, <1>3 DEF SNext

\* A request is let in only while all that decides where it goes is as it was read
\* when the service connected.
LEMMA Admitted ==
  ASSUME IInv, Admit
  PROVE  LET selected == Resolve(journal.before, Absent, ReadAuthMode(auth))
         IN /\ ReceiptOK(journal) /\ target \in Docs
            /\ selected # Refused /\ forwarding' = Selected(selected)
            /\ journal.profile = selected.profile
            /\ journal.installed.providers[Managed].requires = selected.requires
            /\ \/ target = journal.installed
               \/ CheckOwnership(Bytes(journal.before), journal.installed, target, journal.profile)
  <1>1. /\ at = "idle" /\ ~rescue /\ engine # Absent /\ ~setupError /\ CheckManaged
        /\ forwarding' = engine
    BY DEF Admit
  <1>2. managed
    BY <1>1 DEF IInv, Known
  <1>3. Matches(goal, journal)
    BY <1>1, <1>2 DEF IInv, Agreement, Undone
  <1>4. StillInstalled /\ ReadAuthMode(auth) = goal.mode
    BY <1>1, <1>2 DEF CheckManaged
  <1>5. engine = EngineFor(goal)
    BY <1>1 DEF IInv, Posts, EngineFits
  <1>6. ReceiptOK(journal) /\ target \in Contents
    BY <1>4 DEF IInv, TxInv, TxTypes, Receipted, StillInstalled
  <1>7. target \in Docs
    BY <1>4, <1>6, ReceiptFacts, MarkFacts DEF StillInstalled, CheckOwnership, Contents
  <1> QED BY <1>1, <1>3, <1>4, <1>5, <1>6, <1>7 DEF Matches, StillInstalled

\* A request goes where the user's part of the configuration says, as the login there
\* is, whatever the user has saved over what was installed.
THEOREM ForwardsAlways == SSpec => ForwardsToCurrent
  <1>1. IInv /\ [SNext]_vars =>
          [forwarding' # forwarding /\ forwarding' # Absent =>
             LET selected == Resolve(UserPart(target, journal), Absent, ReadAuthMode(auth))
             IN selected # Refused /\ forwarding' = Selected(selected)]_vars
    <2> SUFFICES ASSUME IInv, SNext, forwarding' # forwarding, forwarding' # Absent
                 PROVE  LET selected == Resolve(UserPart(target, journal), Absent, ReadAuthMode(auth))
                        IN selected # Refused /\ forwarding' = Selected(selected)
      OBVIOUS
    <2> DEFINE mode == ReadAuthMode(auth)
               selected == Resolve(journal.before, Absent, mode)
    <2>1. Admit
      BY OnlyAdmits
    <2>2. /\ ReceiptOK(journal) /\ target \in Docs
          /\ selected # Refused /\ forwarding' = Selected(selected)
          /\ journal.profile = selected.profile
          /\ \/ target = journal.installed
             \/ CheckOwnership(Bytes(journal.before), journal.installed, target, journal.profile)
      BY <2>1, Admitted
    <2>3. journal.before \in Contents /\ Absent \in Profiles
      BY <2>2, ReceiptFacts DEF Contents, Profiles
    <2>4. selected.profile = OrElse(Absent, Bytes(journal.before).profile)
      BY <2>2, <2>3, ResolveType
    <2>5. Resolve(UserPart(target, journal), Absent, mode) = selected
      BY <2>2, <2>3, <2>4, ResolvedAsBefore
    <2> QED BY <2>2, <2>5
  <1> QED BY <1>1, IInvAlways, PTL DEF SSpec, ForwardsToCurrent

\* What Codex sends to the service is never the login of an account for a relay.
THEOREM NoLoginAlways == SSpec => NoLoginToRelay
  <1>1. IInv /\ [SNext]_vars =>
          [LET sent == /\ forwarding' # forwarding /\ forwarding' # Absent
                       /\ forwarding'.upstream # Official
               required == journal.installed.providers[Managed].requires
           IN sent /\ required => auth # Garbage /\ auth # Missing /\ auth.tokens # "set"]_vars
    <2> SUFFICES ASSUME IInv, SNext, forwarding' # forwarding, forwarding' # Absent,
                        forwarding'.upstream # Official,
                        journal.installed.providers[Managed].requires
                 PROVE  auth # Garbage /\ auth # Missing /\ auth.tokens # "set"
      OBVIOUS
    <2> DEFINE mode == ReadAuthMode(auth)
               selected == Resolve(journal.before, Absent, mode)
    <2>1. /\ ReceiptOK(journal) /\ selected # Refused /\ forwarding' = Selected(selected)
          /\ journal.installed.providers[Managed].requires = selected.requires
      BY OnlyAdmits, Admitted
    <2>2. journal.before \in Contents /\ Absent \in Profiles
      BY <2>1, ReceiptFacts DEF Contents, Profiles
    <2>3. selected.requires /\ selected.upstream # Official
      BY <2>1 DEF Selected
    <2>4. mode = "api_key"
      BY <2>1, <2>2, <2>3, ResolveType
    <2> QED BY <2>4 DEF ReadAuthMode, ClassifyAuth
  <1> QED BY <1>1, IInvAlways, PTL DEF SSpec, NoLoginToRelay

\* What the service replaces are settings it has in use, none, or those its repair has
\* shown, whatever is edited between its reads of the file, and however often; but for an
\* edit after the last of them, or one that is undone in between.
THEOREM KnownAlways == SSpec => KnownSettings
  <1>1. IInv /\ [SNext]_vars =>
          [saved' # saved /\ edits' = edits =>
             saved \in {config, Missing} \/ (rescue /\ saved = offer) \/ unseen]_vars
    <2> SUFFICES ASSUME IInv, SNext, saved' # saved, edits' = edits
                 PROVE  saved \in {config, Missing} \/ (rescue /\ saved = offer) \/ unseen
      OBVIOUS
    <2> USE DEF vars, rest
    <2>1. CASE Save \/ Rewrite
      BY <2>1 DEF Save, Rewrite, IInv, Compared, Posts
    <2>2. CASE Launch
      BY <2>2 DEF Launch
    <2>3. CASE Work /\ ~Save /\ ~Rewrite
      BY <2>3 DEF Work, Restored, Provide, Install, Installed, Load, QuickSet, QuickRecovers, QuickKeeps,
               QuickAgain, Recovered, Persist, Inspect, Reread, SaveFails, Recheck, unwritten,
               Rollback, Rolled, Shutdown, Exit
    <2>4. CASE Stop \/ Crashes \/ Admit \/ Replied \/ Reset \/ EditConfig \/ Damage \/ Over
      BY <2>4 DEF Stop, Crashes, Admit, Replied, Reset, Locked, EditConfig, Damage, Over
    <2>5. CASE Recover \/ Recovery \/ Rebuild \/ Repair \/ Quick \/ Apply \/ Policy \/ Injection \/ Sources \/ Pin
      BY <2>5 DEF Recover, Recovery, Rebuild, Repair, Quick, Apply, Policy, Injection, Sources, Pin, SaveOther
    <2>6. CASE EditLogin \/ EditSettings
      <3>1. edits \in Nat /\ edits' = edits + 1
        BY <2>6 DEF EditLogin, EditSettings, IInv, TxInv, TxTypes
      <3> QED BY <3>1
    <2> QED BY <2>1, <2>2, <2>3, <2>4, <2>5, <2>6 DEF SNext
  <1> QED BY <1>1, IInvAlways, PTL DEF SSpec, KnownSettings

-----------------------------------------------------------------------------
(* The promise of the configuration transaction *)

LEMMA SeparateInstalls ==
  ASSUME OwnModels, IInv, Separate(others), Install
  PROVE  Separate(others)'
  <1> DEFINE model == (IF caller = "change" THEN next ELSE config).model
             updated == Patch(target, Base, Absent, offer.mode, model, offer.doc)
             profile == Resolve(target, Absent, offer.mode).profile
  <1>1. /\ TxInv /\ target \in Contents /\ Absent \in Profiles
        /\ config \in Settings /\ (caller = "change" => next \in Settings)
    BY DEF IInv, TxInv, TxTypes, MemoryTypes, ValueTypes, Posts, Profiles
  <1>2. model \in Models /\ model \in Texts /\ model # Absent
    BY <1>1, ModelType DEF Settings
  <1>3. BeginInstall(Absent, offer.mode, model, offer.doc)
    BY DEF Install
  <1>4. step' = "backup" => Distinct(made', others)
    <2> SUFFICES ASSUME step' = "backup" PROVE Distinct(made', others)
      OBVIOUS
    <2>1. /\ updated # Refused
          /\ made' = [before |-> target, installed |-> updated, profile |-> profile]
      BY <1>3, InstallDoes
    <2>2. profile \in Profiles /\ SelectedTable(updated, profile).model = model
      BY <1>1, <1>2, <2>1, PatchFacts DEF OrElse
    <2>3. made'.installed = updated /\ made'.profile = profile
      BY <2>1
    <2>4. model # "other" /\ \A file \in others : SelectedTable(file, profile).model # model
      BY <1>2, <2>2 DEF OwnModels, Models
    <2> HIDE DEF model, updated, profile
    <2> QED BY <2>2, <2>3, <2>4 DEF Distinct
  <1> HIDE DEF model
  <1> QED BY <1>1, <1>2, <1>3, <1>4, SeparateInstall

LEMMA SeparateStep ==
  ASSUME OwnModels, IInv, Separate(others), SNext
  PROVE  Separate(others)'
  <1> USE DEF transaction
  <1>1. TxInv
    BY DEF IInv
  <1>2. CASE Access
    BY <1>1, <1>2, SeparateAccess
  <1>3. CASE \/ Restored \/ Provide \/ Installed \/ Load \/ QuickSet \/ QuickRecovers
             \/ Persist \/ Inspect \/ Reread \/ Save \/ Recheck \/ Rewrite
             \/ Rolled \/ Stop \/ Exit \/ Admit \/ Replied \/ Policy \/ Injection \/ Sources \/ Pin
             \/ Reset \/ Over
    BY <1>3, SeparateAside, QuietTransaction
  <1>4. CASE Install
    BY <1>4, SeparateInstalls
  <1>5. CASE QuickKeeps \/ Recovery
    BY <1>1, <1>5, SeparateRecover DEF QuickKeeps, Recovery
  <1>6. CASE Launch \/ Recover \/ Recovered \/ Quick \/ QuickAgain \/ Apply \/ Rollback \/ Shutdown
    BY <1>1, <1>6, SeparateAside, SeparateRestore, Reconnects
  <1>7. CASE Rebuild \/ Repair
    BY <1>1, <1>7, SeparateReset DEF Rebuild, Repair
  <1>8. CASE Crashes
    BY <1>8, SeparateEnd DEF Crashes, Crash, files
  <1>9. CASE SaveFails
    BY <1>9, SeparateCounts DEF SaveFails
  <1>10. CASE EditConfig
    BY <1>1, <1>10, OthersFine, SeparateEdit DEF EditConfig
  <1>11. CASE EditLogin \/ EditSettings
    BY <1>11, SeparateCounts DEF EditLogin, EditSettings
  <1>12. CASE Damage
    BY <1>12, SeparateDamage DEF Damage
  <1> QED BY <1>2, <1>3, <1>4, <1>5, <1>6, <1>7, <1>8, <1>9, <1>10, <1>11, <1>12 DEF SNext, Work

LEMMA TakenStep ==
  ASSUME IInv, Separate(others), SNext
  PROVE  Taken!Next
  <1> USE DEF transaction, files
  <1>1. TxInv
    BY DEF IInv
  <1>2. CASE Access
    BY <1>1, <1>2, AccessTaken
  <1>3. CASE EditConfig
    BY <1>1, <1>3, OthersFine, EditTaken DEF EditConfig
  <1>4. CASE EditLogin \/ EditSettings
    <2>1. edits' = edits + 1 /\ UNCHANGED <<target, journal>>
      BY <1>4 DEF EditLogin, EditSettings
    <2> QED BY <2>1 DEF Taken!Next, Taken!Edit
  <1>5. CASE ~Access /\ ~EditConfig /\ ~EditLogin /\ ~EditSettings
    <2>1. UNCHANGED <<target, journal, edits>>
      <3>1. CASE \/ Restored \/ Provide \/ Installed \/ Load \/ QuickSet \/ QuickRecovers
             \/ Persist \/ Inspect \/ Reread \/ Save \/ Recheck \/ Rewrite
                 \/ Rolled \/ Stop \/ Exit \/ Admit \/ Replied \/ Policy \/ Injection \/ Sources \/ Pin
                 \/ Reset \/ Over
        BY <3>1, QuietTransaction
      <3>2. CASE Launch \/ Recover \/ Recovered \/ Quick \/ QuickAgain \/ Apply \/ Rollback \/ Shutdown
        BY <3>2, Reconnects DEF BeginRestore
      <3>3. CASE Install \/ QuickKeeps \/ Recovery \/ Rebuild \/ Repair
        BY <3>3 DEF Install, QuickKeeps, Recovery, Rebuild, Repair, BeginInstall, BeginRecover, BeginReset
      <3>4. CASE Crashes \/ SaveFails \/ Damage
        BY <3>4 DEF Crashes, Crash, SaveFails, Damage, DamageBackup
      <3> QED BY <1>5, <3>1, <3>2, <3>3, <3>4 DEF SNext, Work
    <2> QED BY <1>1, <2>1, QuietStep
  <1> QED BY <1>2, <1>3, <1>4, <1>5

\* Across restarts, crashes and failed writes: what a program put into the file can be
\* taken out, and no step of a program changes the user's part of it, unless the user
\* saved after the last comparison or gave the file up.
THEOREM PromiseKept ==
  ASSUME OwnModels
  PROVE  SSpec => KeepsPromise
  <1>1. SInit => Separate(others) /\ Promise!Init
    BY SeparateInit, TakenInit, OriginalsAssumption DEF SInit, Taken!Init, Promise!Init
  <1>2. IInv /\ Separate(others) /\ [SNext]_vars => Separate(others)'
    BY SeparateStep, SeparateAside DEF vars
  <1>3. IInv /\ Separate(others) /\ [SNext]_vars => [Promise!Next]_(Promise!takeover)
    <2>1. IInv /\ Separate(others) /\ SNext => Promise!Next
      BY TakenStep DEF Taken!Next, Taken!Edit, Taken!Record, Taken!Write, Taken!Forget,
           Promise!Next, Promise!Edit, Promise!Record, Promise!Write, Promise!Forget
    <2>2. UNCHANGED vars => UNCHANGED Promise!takeover
      BY DEF vars, transaction, files, run, Promise!takeover
    <2> QED BY <2>1, <2>2
  <1> QED BY <1>1, <1>2, <1>3, IInvAlways, PTL DEF SSpec, KeepsPromise, Promise!Spec

=============================================================================
