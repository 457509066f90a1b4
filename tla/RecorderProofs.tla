--------------------------- MODULE RecorderProofs ---------------------------
(***************************************************************************)
(* Proofs about the recorder (Recorder, RecorderStore, ConfigTransaction). *)
(* For every size of queue, directory and disk, any number of requests,    *)
(* whatever the files hold and however often the program is started, ended *)
(* or killed: each record is counted once and the limits of the directory  *)
(* are kept, requests go where the user's part of the configuration says,  *)
(* and what was put into it can be taken out.                              *)
(***************************************************************************)
EXTENDS Recorder, ConfigTransactionProofs, FiniteSetTheorems

RecordIds == 1..MaxRequests

StoreTypes ==
  /\ records \in SUBSET RecordIds /\ parts \in SUBSET RecordIds /\ index \in SUBSET RecordIds
  /\ saving \in SUBSET RecordIds /\ stage \in Stages /\ closed \in BOOLEAN
  /\ queue \in Seq(RecordIds)
  /\ bytes \in Nat /\ saved \in Nat /\ dropped \in Nat /\ ended \in Nat

\* The worker has one record, or none.
OneAtATime ==
  IF stage = "idle" THEN saving = {} ELSE \E r \in RecordIds : saving = {r}

\* The index names the files, but for the one that was linked last.
IndexNamesFiles ==
  IF stage = "index"
  THEN records = index \cup saving /\ index \cap saving = {}
  ELSE records = index

\* What is queued fits, what is saved fits, and so does what has been let past the quota.
WithinLimits ==
  /\ Len(queue) <= QueueSize
  /\ Cardinality(index) <= bytes /\ Cardinality(index) <= DiskQuota
  /\ Cardinality(index) <= MaxRecords
  /\ saved <= Cardinality(index)
  /\ stage \in {"write", "link", "index"} =>
       bytes + 1 <= DiskQuota /\ Cardinality(index) + 1 <= MaxRecords

CountedOnce ==
  ended = saved + dropped + Len(queue) + (IF stage = "idle" THEN 0 ELSE 1)

StoreInv == StoreTypes /\ OneAtATime /\ IndexNamesFiles /\ WithinLimits /\ CountedOnce

-----------------------------------------------------------------------------

\* Only finitely many records can exist, so counting them makes sense.
LEMMA IdsFinite ==
  ASSUME NEW S \in SUBSET RecordIds
  PROVE  IsFiniteSet(S) /\ Cardinality(S) \in Nat
  <1>1. IsFiniteSet(RecordIds)
    BY BoundsAssumption, FS_Interval DEF RecordIds
  <1> QED BY <1>1, FS_Subset, FS_CardinalityType

\* A new name makes a set of names larger by one.
LEMMA OneMore ==
  ASSUME NEW S \in SUBSET RecordIds, NEW r \in RecordIds, r \notin S
  PROVE  Cardinality(S \cup {r}) = Cardinality(S) + 1
  BY IdsFinite, FS_AddElement

LEMMA NothingQueued == <<>> \in Seq(RecordIds)
  OBVIOUS

LEMMA StoreInitInv == StoreInit => StoreInv
  <1> SUFFICES ASSUME StoreInit PROVE StoreInv
    OBVIOUS
  <1> USE DEF StoreInit
  <1>1. StoreTypes /\ OneAtATime /\ IndexNamesFiles
    BY NothingQueued DEF StoreTypes, OneAtATime, IndexNamesFiles, Stages
  <1>2. Cardinality(index) = 0 /\ Len(queue) = 0
    BY FS_EmptySet
  <1>3. WithinLimits /\ CountedOnce
    BY <1>2, StoreAssumption DEF WithinLimits, CountedOnce
  <1> QED BY <1>1, <1>3 DEF StoreInv

\* The limits hold while the last file is not indexed, too.
LEMMA FilesWithinLimits ==
  ASSUME StoreInv
  PROVE  /\ Cardinality(records) \in Nat
         /\ Cardinality(records) <= DiskQuota /\ Cardinality(records) <= MaxRecords
  <1>1. records \in SUBSET RecordIds /\ index \in SUBSET RecordIds /\ bytes \in Nat
    BY DEF StoreInv, StoreTypes
  <1>2. Cardinality(index) \in Nat /\ Cardinality(records) \in Nat
    BY <1>1, IdsFinite
  <1>3. CASE stage = "index"
    <2>1. PICK r \in RecordIds : saving = {r}
      BY <1>3 DEF StoreInv, OneAtATime
    <2>2. records = index \cup {r} /\ r \notin index
      BY <1>3, <2>1 DEF StoreInv, IndexNamesFiles
    <2>3. Cardinality(records) = Cardinality(index) + 1
      BY <1>1, <2>2, OneMore
    <2> QED BY <1>1, <1>2, <1>3, <2>3, StoreAssumption DEF StoreInv, WithinLimits
  <1>4. CASE stage # "index"
    BY <1>2, <1>4 DEF StoreInv, IndexNamesFiles, WithinLimits
  <1> QED BY <1>3, <1>4

\* A start counts what it finds in the directory.
LEMMA NewStoreInv ==
  ASSUME StoreInv, NewStore
  PROVE  StoreInv'
  <1>1. /\ records \in SUBSET RecordIds /\ parts \in SUBSET RecordIds
        /\ Cardinality(parts) \in Nat
    BY IdsFinite DEF StoreInv, StoreTypes
  <1>2. /\ Cardinality(records) \in Nat
        /\ Cardinality(records) <= DiskQuota /\ Cardinality(records) <= MaxRecords
    BY FilesWithinLimits
  <1>3. StoreTypes'
    <2>1. bytes' \in Nat
      BY <1>1, <1>2 DEF NewStore
    <2> QED BY <1>1, <2>1, NothingQueued DEF NewStore, disk, StoreTypes, Stages
  <1>4. WithinLimits'
    <2>1. Len(queue') = 0 /\ QueueSize \in Nat
      BY StoreAssumption DEF NewStore
    <2> QED BY <1>1, <1>2, <2>1 DEF NewStore, WithinLimits
  <1>5. OneAtATime' /\ IndexNamesFiles' /\ CountedOnce'
    BY DEF NewStore, disk, OneAtATime, IndexNamesFiles, CountedOnce
  <1> QED BY <1>3, <1>4, <1>5 DEF StoreInv

LEMMA SubmitInv ==
  ASSUME StoreInv, NEW r \in RecordIds, Submit(r)
  PROVE  StoreInv'
  <1> USE DEF StoreInv, Submit, disk, worker
  <1>1. StoreTypes'
    BY DEF StoreTypes
  <1>2. CountedOnce'
    <2>1. CASE ~closed /\ Len(queue) < QueueSize
      <3>1. Len(queue') = Len(queue) + 1
        BY <2>1 DEF StoreTypes
      <3> QED BY <2>1, <3>1 DEF CountedOnce, StoreTypes
    <2>2. CASE ~(~closed /\ Len(queue) < QueueSize)
      BY <2>2 DEF CountedOnce, StoreTypes
    <2> QED BY <2>1, <2>2
  <1>3. OneAtATime' /\ IndexNamesFiles'
    BY DEF OneAtATime, IndexNamesFiles
  <1>4. WithinLimits'
    <2>1. Len(queue') <= QueueSize
      BY StoreAssumption DEF StoreTypes, WithinLimits
    <2> QED BY <2>1 DEF WithinLimits
  <1> QED BY <1>1, <1>2, <1>3, <1>4

LEMMA TakeInv ==
  ASSUME StoreInv, Take
  PROVE  StoreInv'
  <1> USE DEF StoreInv, Take, disk
  <1>1. /\ Head(queue) \in RecordIds /\ Tail(queue) \in Seq(RecordIds)
        /\ Len(Tail(queue)) = Len(queue) - 1
    BY DEF StoreTypes
  <1>2. StoreTypes'
    BY <1>1 DEF StoreTypes, Stages
  <1>3. OneAtATime' /\ IndexNamesFiles'
    BY <1>1 DEF OneAtATime, IndexNamesFiles
  <1>4. WithinLimits'
    BY <1>1, StoreAssumption DEF WithinLimits, StoreTypes
  <1>5. CountedOnce'
    BY <1>1 DEF CountedOnce, StoreTypes
  <1> QED BY <1>2, <1>3, <1>4, <1>5

LEMMA CheckInv ==
  ASSUME StoreInv, Check
  PROVE  StoreInv'
  <1> USE DEF StoreInv, Check, Drop, disk
  <1>0. Cardinality(index) \in Nat
    BY IdsFinite DEF StoreTypes
  <1>1. CASE bytes + 1 > DiskQuota \/ Cardinality(index) >= MaxRecords
    BY <1>1, <1>0 DEF StoreTypes, OneAtATime, IndexNamesFiles, WithinLimits, CountedOnce, Stages
  <1>2. CASE ~(bytes + 1 > DiskQuota \/ Cardinality(index) >= MaxRecords)
    BY <1>2, <1>0, StoreAssumption
    DEF StoreTypes, OneAtATime, IndexNamesFiles, WithinLimits, CountedOnce, Stages
  <1> QED BY <1>1, <1>2

LEMMA WriteInv ==
  ASSUME StoreInv, Write
  PROVE  StoreInv'
  BY DEF Write, StoreInv, StoreTypes, OneAtATime, IndexNamesFiles, WithinLimits, CountedOnce, Stages

LEMMA LinkInv ==
  ASSUME StoreInv, Link
  PROVE  StoreInv'
  BY DEF Link, StoreInv, StoreTypes, OneAtATime, IndexNamesFiles, WithinLimits, CountedOnce, Stages

LEMMA SaveFailsInv ==
  ASSUME StoreInv, SaveFails
  PROVE  StoreInv'
  BY DEF SaveFails, Drop, StoreInv, StoreTypes, OneAtATime, IndexNamesFiles, WithinLimits,
         CountedOnce, Stages

\* The directory grows by the record the quota has been checked for.
LEMMA IndexInv ==
  ASSUME StoreInv, Index
  PROVE  StoreInv'
  <1> USE DEF StoreInv, Index
  <1>1. PICK r \in RecordIds : saving = {r}
    BY DEF OneAtATime
  <1>2. records = index \cup {r} /\ r \notin index /\ index' = index \cup {r}
    BY <1>1 DEF IndexNamesFiles
  <1>3. Cardinality(index') = Cardinality(index) + 1 /\ Cardinality(index) \in Nat
    BY <1>2, OneMore, IdsFinite DEF StoreTypes
  <1>4. StoreTypes'
    BY <1>2 DEF StoreTypes, Stages
  <1>5. OneAtATime' /\ IndexNamesFiles'
    BY <1>2 DEF OneAtATime, IndexNamesFiles
  <1>6. WithinLimits'
    BY <1>3, StoreAssumption DEF WithinLimits, StoreTypes
  <1>7. CountedOnce'
    BY DEF CountedOnce, StoreTypes
  <1> QED BY <1>4, <1>5, <1>6, <1>7

LEMMA CloseInv ==
  ASSUME StoreInv, Close
  PROVE  StoreInv'
  BY DEF Close, disk, worker, StoreInv, StoreTypes, OneAtATime, IndexNamesFiles, WithinLimits,
         CountedOnce

\* Nothing is lost at a regular end, because the worker is done.
LEMMA LeaveInv ==
  ASSUME StoreInv, Done, Leave
  PROVE  StoreInv'
  <1>1. Len(queue) = 0 /\ queue' = <<>> /\ Len(queue') = 0
    BY DEF Done, Leave
  <1> QED BY <1>1, StoreAssumption DEF Leave, Done, disk, StoreInv, StoreTypes, OneAtATime, IndexNamesFiles,
             WithinLimits, CountedOnce, Stages

LEMMA SameStore ==
  ASSUME StoreInv, UNCHANGED store
  PROVE  StoreInv'
  BY DEF store, disk, worker, StoreInv, StoreTypes, OneAtATime, IndexNamesFiles, WithinLimits,
         CountedOnce

-----------------------------------------------------------------------------
(* The recorder *)

LEMMA StoreInvStep ==
  ASSUME StoreInv, [RNext]_vars
  PROVE  StoreInv'
  <1>1. ASSUME NEW r \in 1..MaxRequests, Ends(r) PROVE StoreInv'
    BY <1>1, SubmitInv, SameStore DEF Ends, RecordIds
  <1>2. CASE Launch
    BY <1>2, NewStoreInv DEF Launch
  <1>3. CASE CloseStore
    BY <1>3, CloseInv DEF CloseStore
  <1>4. CASE Exit
    BY <1>4, LeaveInv DEF Exit
  <1>5. CASE Crashes
    BY <1>5, NewStoreInv DEF Crashes
  <1>6. CASE Saving
    BY <1>6, TakeInv, CheckInv, WriteInv, LinkInv, IndexInv, SaveFailsInv DEF Saving, Worker
  <1>7. CASE \/ \E r \in 1..MaxRequests : Admit(r)
             \/ Capture \/ ConfigureCore \/ Connect \/ ConnectCancelled \/ Install \/ Connected
             \/ Restore \/ Restored
             \/ Stop \/ ServerClosed \/ Deferred \/ DeferredRestored
             \/ Files \/ EditConfig \/ EditLogin
    <2>1. UNCHANGED store
      BY <1>7 DEF Admit, Capture, ConfigureCore, Connect, ConnectCancelled, Install, Connected,
                  Restore, Restored, Stop, ServerClosed, Deferred, DeferredRestored, Files,
                  EditConfig, EditLogin
    <2> QED BY <2>1, SameStore
  <1>8. CASE UNCHANGED vars
    BY <1>8, SameStore DEF vars
  <1>9. CASE Over
    BY <1>9, SameStore DEF Over, vars
  <1> QED BY <1>1, <1>2, <1>3, <1>4, <1>5, <1>6, <1>7, <1>8, <1>9 DEF RNext

LEMMA StoreInvAccounts == StoreInv => RecordsAccounted
  BY FilesWithinLimits
  DEF StoreInv, CountedOnce, IndexNamesFiles, WithinLimits, RecordsAccounted

\* In every run of the recorder, with whatever crashes and restarts, each record that was
\* handed over is counted exactly once, what counts as saved is a file, and the
\* directory keeps its limits (Store.Submit, run, save and Close).
THEOREM RecordsAlwaysAccounted == RSpec => []RecordsAccounted
  <1>1. RInit => StoreInv
    BY StoreInitInv DEF RInit
  <1>2. StoreInv /\ [RNext]_vars => StoreInv'
    BY StoreInvStep
  <1> QED BY <1>1, <1>2, StoreInvAccounts, PTL DEF RSpec

-----------------------------------------------------------------------------
(* The takeover *)

\* The receipt was made for what a login resolves to this host.
GoesTo(r, login, host) ==
  LET selection == Resolve(r.before, r.profile, login)
  IN /\ r # Absent
     /\ selection # Refused /\ selection.upstream = host /\ selection.profile = r.profile

\* Where each operation can be.
Places ==
  /\ main \in Mains /\ at \in Holds
  /\ main = "restoring" => at = "idle"
  /\ at # "idle" => main \in {"serving", "closing", "deferred"}
  /\ step \in Installing => at = "installing"
  /\ step \in Replacing \cup {"unjournal"} =>
       at = "restore" \/ main = "restoring"
  /\ step # "archive"

Flags ==
  /\ managed \in BOOLEAN /\ pending \in BOOLEAN /\ core \in BOOLEAN
  /\ recording \in BOOLEAN /\ abandoned \in BOOLEAN
  /\ wanted \in Profiles /\ upstream \in Acceptable
Counts == starts \in 0..MaxStarts /\ ops \in 0..MaxOps

\* Requests, all of them admitted in their order; none is under way while a writer has
\* the lock.
Requests ==
  /\ used \in 0..MaxRequests
  /\ recorded \subseteq active /\ active \subseteq 1..used
  /\ Cardinality(active) <= MaxConcurrent
  /\ ~Readable => active = {}

\* What Connect has read fits the document it has read.
Reading ==
  /\ at \in {"install", "installing"} =>
       /\ ~managed
       /\ offer.profile \in Profiles /\ offer.upstream \in Acceptable
  /\ at = "install" =>
       LET selection == Resolve(offer.doc, offer.profile, offer.mode)
       IN /\ offer.doc \in Docs
          /\ selection # Refused /\ selection.upstream = offer.upstream
          /\ selection.profile = offer.profile
  /\ at = "installing" /\ step # "done" => GoesTo(made, offer.mode, offer.upstream)
  /\ at = "installing" /\ step = "done" /\ ~failed =>
       GoesTo(journal, offer.mode, offer.upstream)

\* While Codex is connected, requests go where the receipt says, unless the takeover
\* has just been undone; the core is on only for hosts it is made for.
Undone == (at = "restore" \/ main = "restoring") /\ step = "done" /\ ~failed
Connection ==
  /\ managed /\ ~Undone => GoesTo(journal, mode, upstream)
  /\ core => CoreAllowed(upstream)
  /\ main = "down" => upstream = Default

PlainInv == Places /\ Flags /\ Counts /\ Requests /\ Reading /\ Connection
RInv == TxInv /\ StoreInv /\ PlainInv

LEMMA InstallTx ==
  ASSUME RInv, Install
  PROVE  TxInv'
  <1>1. TxInv /\ offer.profile \in Profiles /\ Absent \in Texts
    BY DEF RInv, PlainInv, Reading, Install, Texts
  <1> QED BY <1>1, InstallKeeps DEF Install

-----------------------------------------------------------------------------
(* One lemma per action *)

LEMMA AdmitKeepsInv ==
  ASSUME RInv, NEW r \in 1..MaxRequests, Admit(r)
  PROVE  PlainInv'
  <1> USE DEF transaction, files, run, setup, engine, panel, bounds, rest, Admit, Readable,
             Places, Installing, Replacing
  <1>0. /\ TxInv /\ StoreInv /\ Places /\ Flags /\ Counts /\ Requests /\ Reading /\ Connection
        /\ step \in {"done", "unjournal"} \cup Installing \cup Replacing
    BY DEF RInv, PlainInv, TxInv, TxTypes
  <1>1. Places'
    BY <1>0 DEF Mains, Holds, Readable
  <1>2. Flags'
    BY <1>0 DEF Flags, Profiles, Acceptable, Default, Official, Reading
  <1>3. Counts'
    BY <1>0, BoundsAssumption, StoreAssumption DEF Counts
  <1>4. Requests'
    <2>1. active \in SUBSET (1..MaxRequests) /\ r \notin active /\ used + 1 = r
      BY <1>0, BoundsAssumption DEF Requests
    <2>2. IsFiniteSet(active) /\ Cardinality(active) \in Nat
      BY <2>1, IdsFinite DEF RecordIds
    <2>3. Cardinality(active') = Cardinality(active) + 1
      BY <2>1, <2>2, FS_AddElement
    <2> QED BY <1>0, <2>1, <2>2, <2>3, BoundsAssumption DEF Requests
  <1>5. Reading'
    BY <1>0 DEF Reading
  <1>6. Connection'
    BY <1>0 DEF Connection, Undone, Reading
  <1> QED BY <1>1, <1>2, <1>3, <1>4, <1>5, <1>6 DEF PlainInv

LEMMA EndsKeepsInv ==
  ASSUME RInv, NEW r \in 1..MaxRequests, Ends(r)
  PROVE  PlainInv'
  <1> USE DEF transaction, files, run, setup, engine, panel, bounds, rest, Ends, Places,
             Installing, Replacing
  <1>0. /\ TxInv /\ StoreInv /\ Places /\ Flags /\ Counts /\ Requests /\ Reading /\ Connection
        /\ step \in {"done", "unjournal"} \cup Installing \cup Replacing
    BY DEF RInv, PlainInv, TxInv, TxTypes
  <1>1. Places'
    BY <1>0 DEF Mains, Holds, Readable
  <1>2. Flags'
    BY <1>0 DEF Flags, Profiles, Acceptable, Default, Official, Reading
  <1>3. Counts'
    BY <1>0, BoundsAssumption, StoreAssumption DEF Counts
  <1>4. Requests'
    <2>1. active \in SUBSET (1..MaxRequests)
      BY <1>0, BoundsAssumption DEF Requests
    <2>2. Cardinality(active') <= Cardinality(active) /\ Cardinality(active') \in Nat
      <3>1. IsFiniteSet(active) /\ active' \subseteq active
        BY <2>1, IdsFinite DEF RecordIds
      <3> QED BY <3>1, FS_Subset, FS_CardinalityType
    <2>3. Cardinality(active) \in Nat
      BY <2>1, IdsFinite DEF RecordIds
    <2> QED BY <1>0, <2>1, <2>2, <2>3, BoundsAssumption DEF Requests, Readable
  <1>5. Reading'
    BY <1>0 DEF Reading
  <1>6. Connection'
    BY <1>0 DEF Connection, Undone, Reading
  <1> QED BY <1>1, <1>2, <1>3, <1>4, <1>5, <1>6 DEF PlainInv

LEMMA PanelKeepsInv ==
  ASSUME RInv, Capture \/ ConfigureCore \/ ConnectCancelled
  PROVE  PlainInv'
  <1> USE DEF transaction, files, run, setup, engine, panel, bounds, rest, Operation, Capture,
             ConfigureCore, ConnectCancelled, Places, Installing, Replacing
  <1>0. /\ TxInv /\ StoreInv /\ Places /\ Flags /\ Counts /\ Requests /\ Reading /\ Connection
        /\ step \in {"done", "unjournal"} \cup Installing \cup Replacing
    BY DEF RInv, PlainInv, TxInv, TxTypes
  <1>1. Places'
    BY <1>0 DEF Mains, Holds, Readable
  <1>2. Flags'
    BY <1>0 DEF Flags, Profiles, Acceptable, Default, Official, Reading
  <1>3. Counts'
    BY <1>0, BoundsAssumption, StoreAssumption DEF Counts
  <1>4. Requests'
    BY <1>0 DEF Requests, Readable
  <1>5. Reading'
    BY <1>0 DEF Reading
  <1>6. Connection'
    BY <1>0 DEF Connection, Undone, Reading
  <1> QED BY <1>1, <1>2, <1>3, <1>4, <1>5, <1>6 DEF PlainInv

LEMMA ConnectKeepsInv ==
  ASSUME RInv, Connect
  PROVE  PlainInv'
  <1> USE DEF transaction, files, run, setup, engine, panel, bounds, rest, Operation, Connect,
             Free, Places, Installing, Replacing
  <1>0. /\ TxInv /\ StoreInv /\ Places /\ Flags /\ Counts /\ Requests /\ Reading /\ Connection
        /\ step \in {"done", "unjournal"} \cup Installing \cup Replacing
    BY DEF RInv, PlainInv, TxInv, TxTypes
  <1>1. Places'
    BY <1>0 DEF Mains, Holds, Readable
  <1>2. Flags'
    BY <1>0 DEF Flags, Profiles, Acceptable, Default, Official, Reading
  <1>3. Counts'
    BY <1>0, BoundsAssumption, StoreAssumption DEF Counts
  <1>4. Requests'
    BY <1>0 DEF Requests, Readable
  <1>5. Reading'
    <2> DEFINE login == ReadAuthMode(auth)
               selection == Resolve(target, wanted, login)
    <2>1. /\ offer' = [doc |-> Bytes(target), mode |-> login,
                       profile |-> selection.profile, upstream |-> selection.upstream]
          /\ selection # Refused /\ at' = "install" /\ managed' = managed /\ ~managed
      OBVIOUS
    <2>2. target \in Contents /\ wanted \in Profiles
      BY <1>0 DEF TxInv, TxTypes, Flags
    <2>3. /\ selection \in Selections /\ target # Garbage
          /\ selection.profile = OrElse(wanted, Bytes(target).profile)
      BY <2>1, <2>2, ResolveType
    <2>4. Bytes(target) \in Docs /\ Bytes(Bytes(target)) = Bytes(target) /\ Bytes(target) # Garbage
      BY <2>2, <2>3, BytesType, MarkFacts DEF Contents
    <2>5. OrElse(selection.profile, Bytes(target).profile) = selection.profile
      BY <2>3 DEF OrElse
    <2>6. Resolve(target, selection.profile, login) = selection
      BY <2>3, <2>5, ResolveWanted
    <2>7. Resolve(Bytes(target), selection.profile, login) = selection
      BY <2>3, <2>4, <2>6, ResolveBytes
    <2>8. selection.profile \in Profiles /\ selection.upstream \in Acceptable
      BY <2>3 DEF Selections
    <2> HIDE DEF selection
    <2> QED BY <2>1, <2>4, <2>7, <2>8 DEF Reading
  <1>6. Connection'
    BY <1>0 DEF Connection, Undone, Reading
  <1> QED BY <1>1, <1>2, <1>3, <1>4, <1>5, <1>6 DEF PlainInv

LEMMA InstallKeepsInv ==
  ASSUME RInv, Install
  PROVE  PlainInv'
  <1> USE DEF transaction, files, run, setup, engine, panel, bounds, rest, Install, Places,
             Installing, Replacing
  <1>0. /\ TxInv /\ StoreInv /\ Places /\ Flags /\ Counts /\ Requests /\ Reading /\ Connection
        /\ step \in {"done", "unjournal"} \cup Installing \cup Replacing
    BY DEF RInv, PlainInv, TxInv, TxTypes
  <1>e. LET updated == Patch(target, Base, offer.profile, offer.mode, Absent, offer.doc)
        IN /\ step = "done" /\ journal' = journal
           /\ \/ step' = "done" /\ failed'
              \/ /\ step' = "backup"
                 /\ updated # Refused
                 /\ made' = [before |-> target, installed |-> updated,
                             profile |-> Resolve(target, offer.profile, offer.mode).profile]
    BY <1>0, InstallDoes
  <1>1. Places'
    BY <1>0, <1>e DEF Mains, Holds, Readable
  <1>2. Flags'
    BY <1>0, <1>e DEF Flags, Profiles, Acceptable, Default, Official, Reading
  <1>3. Counts'
    BY <1>0, <1>e, BoundsAssumption, StoreAssumption DEF Counts
  <1>4. Requests'
    BY <1>0, <1>e DEF Requests, Readable
  <1>5. Reading'
    <2> DEFINE updated == Patch(target, Base, offer.profile, offer.mode, Absent, offer.doc)
               selection == Resolve(offer.doc, offer.profile, offer.mode)
    <2>0. /\ target \in Contents /\ offer.profile \in Profiles /\ offer.doc \in Docs
          /\ offer.doc # Absent /\ Absent \in Texts /\ at = "install"
          /\ selection # Refused /\ selection.upstream = offer.upstream
          /\ selection.profile = offer.profile
      BY <1>0, MarkFacts DEF Reading, TxInv, TxTypes, Texts
    <2>1. CASE step' = "done"
      BY <1>0, <1>e, <2>1 DEF Reading
    <2>2. CASE step' = "backup"
      <3>1. /\ updated # Refused
            /\ made' = [before |-> target, installed |-> updated,
                        profile |-> Resolve(target, offer.profile, offer.mode).profile]
        BY <1>e, <2>2
      <3>2. target # Garbage /\ Bytes(target) = offer.doc
        BY <2>0, <3>1, PatchFacts, MarkFacts
      <3>3. offer.doc # Garbage /\ Bytes(offer.doc) = offer.doc
        BY <2>0, BytesType, MarkFacts
      <3>4. Resolve(target, offer.profile, offer.mode) = selection
        BY <3>2, <3>3, ResolveBytes
      <3> HIDE DEF updated, selection
      <3>5. made' # Absent
        BY <2>2, InstallTx, ReceiptFacts DEF TxInv, UnderWay
      <3>6. made'.before = target /\ made'.profile = offer.profile
        BY <2>0, <3>1, <3>4
      <3>7. GoesTo(made', offer.mode, offer.upstream)
        BY <2>0, <3>4, <3>5, <3>6 DEF GoesTo
      <3> QED BY <1>0, <2>2, <3>7 DEF Reading
    <2> QED BY <1>e, <2>1, <2>2
  <1>6. Connection'
    BY <1>0, <1>e DEF Connection, Undone, Reading
  <1> QED BY <1>1, <1>2, <1>3, <1>4, <1>5, <1>6 DEF PlainInv

LEMMA ConnectedKeepsInv ==
  ASSUME RInv, Connected
  PROVE  PlainInv'
  <1> USE DEF transaction, files, run, setup, engine, panel, bounds, rest, Connected, Places,
             Installing, Replacing
  <1>0. /\ TxInv /\ StoreInv /\ Places /\ Flags /\ Counts /\ Requests /\ Reading /\ Connection
        /\ step \in {"done", "unjournal"} \cup Installing \cup Replacing
    BY DEF RInv, PlainInv, TxInv, TxTypes
  <1>1. Places'
    BY <1>0 DEF Mains, Holds, Readable
  <1>2. Flags'
    BY <1>0 DEF Flags, Profiles, Acceptable, Default, Official, Reading
  <1>3. Counts'
    BY <1>0, BoundsAssumption, StoreAssumption DEF Counts
  <1>4. Requests'
    BY <1>0 DEF Requests, Readable
  <1>5. Reading'
    BY <1>0 DEF Reading
  <1>6. Connection'
    BY <1>0 DEF Connection, Undone, Reading
  <1> QED BY <1>1, <1>2, <1>3, <1>4, <1>5, <1>6 DEF PlainInv

LEMMA RestoreKeepsInv ==
  ASSUME RInv, Restore
  PROVE  PlainInv'
  <1> USE DEF transaction, files, run, setup, engine, panel, bounds, rest, Operation, Restore,
             Free, Places, Installing, Replacing
  <1>0. /\ TxInv /\ StoreInv /\ Places /\ Flags /\ Counts /\ Requests /\ Reading /\ Connection
        /\ step \in {"done", "unjournal"} \cup Installing \cup Replacing
    BY DEF RInv, PlainInv, TxInv, TxTypes
  <1>e. BeginRestore => /\ step = "done" /\ journal' = journal
                          /\ step' \in {"done", "recompare", "unjournal"}
    BY <1>0, RestoreDoes
  <1>1. Places'
    BY <1>0, <1>e DEF Mains, Holds, Readable
  <1>2. Flags'
    BY <1>0, <1>e DEF Flags, Profiles, Acceptable, Default, Official, Reading
  <1>3. Counts'
    BY <1>0, <1>e, BoundsAssumption, StoreAssumption DEF Counts
  <1>4. Requests'
    BY <1>0, <1>e DEF Requests, Readable
  <1>5. Reading'
    BY <1>0, <1>e DEF Reading
  <1>6. Connection'
    <2>1. ~Undone /\ UNCHANGED <<managed, mode, upstream, core, main>>
      BY <1>0 DEF Undone, Readable
    <2> QED BY <1>0, <1>e, <2>1 DEF Connection
  <1> QED BY <1>1, <1>2, <1>3, <1>4, <1>5, <1>6 DEF PlainInv

LEMMA RestoredKeepsInv ==
  ASSUME RInv, Restored \/ DeferredRestored
  PROVE  PlainInv'
  <1> USE DEF transaction, files, run, setup, engine, panel, bounds, rest, Restored,
             DeferredRestored, Forget, Places, Installing, Replacing
  <1>0. /\ TxInv /\ StoreInv /\ Places /\ Flags /\ Counts /\ Requests /\ Reading /\ Connection
        /\ step \in {"done", "unjournal"} \cup Installing \cup Replacing
    BY DEF RInv, PlainInv, TxInv, TxTypes
  <1>1. Places'
    BY <1>0 DEF Mains, Holds, Readable
  <1>2. Flags'
    BY <1>0 DEF Flags, Profiles, Acceptable, Default, Official, Reading
  <1>3. Counts'
    BY <1>0, BoundsAssumption, StoreAssumption DEF Counts
  <1>4. Requests'
    BY <1>0 DEF Requests, Readable
  <1>5. Reading'
    BY <1>0 DEF Reading
  <1>6. Connection'
    BY <1>0 DEF Connection, Undone, Reading
  <1> QED BY <1>1, <1>2, <1>3, <1>4, <1>5, <1>6 DEF PlainInv

LEMMA LaunchKeepsInv ==
  ASSUME RInv, Launch
  PROVE  PlainInv'
  <1> USE DEF transaction, files, run, setup, engine, panel, bounds, rest, Launch, Places,
             Installing, Replacing
  <1>0. /\ TxInv /\ StoreInv /\ Places /\ Flags /\ Counts /\ Requests /\ Reading /\ Connection
        /\ step \in {"done", "unjournal"} \cup Installing \cup Replacing
    BY DEF RInv, PlainInv, TxInv, TxTypes
  <1>1. Places'
    BY <1>0 DEF Mains, Holds, Readable
  <1>2. Flags'
    BY <1>0 DEF Flags, Profiles, Acceptable, Default, Official, Reading
  <1>3. Counts'
    BY <1>0, BoundsAssumption, StoreAssumption DEF Counts
  <1>4. Requests'
    BY <1>0 DEF Requests, Readable
  <1>5. Reading'
    BY <1>0 DEF Reading
  <1>6. Connection'
    BY <1>0 DEF Connection, Undone, Reading
  <1> QED BY <1>1, <1>2, <1>3, <1>4, <1>5, <1>6 DEF PlainInv

LEMMA StoppingKeepsInv ==
  ASSUME RInv, Stop \/ ServerClosed \/ CloseStore
  PROVE  PlainInv'
  <1> USE DEF transaction, files, run, setup, engine, panel, bounds, rest, Stop, ServerClosed,
             CloseStore, Places, Installing, Replacing
  <1>0. /\ TxInv /\ StoreInv /\ Places /\ Flags /\ Counts /\ Requests /\ Reading /\ Connection
        /\ step \in {"done", "unjournal"} \cup Installing \cup Replacing
    BY DEF RInv, PlainInv, TxInv, TxTypes
  <1>1. Places'
    BY <1>0 DEF Mains, Holds, Readable
  <1>2. Flags'
    BY <1>0 DEF Flags, Profiles, Acceptable, Default, Official, Reading
  <1>3. Counts'
    BY <1>0, BoundsAssumption, StoreAssumption DEF Counts
  <1>4. Requests'
    BY <1>0 DEF Requests, Readable
  <1>5. Reading'
    BY <1>0 DEF Reading
  <1>6. Connection'
    BY <1>0 DEF Connection, Undone, Reading
  <1> QED BY <1>1, <1>2, <1>3, <1>4, <1>5, <1>6 DEF PlainInv

LEMMA DeferredKeepsInv ==
  ASSUME RInv, Deferred
  PROVE  PlainInv'
  <1> USE DEF transaction, files, run, setup, engine, panel, bounds, rest, Deferred, Places,
             Installing, Replacing
  <1>0. /\ TxInv /\ StoreInv /\ Places /\ Flags /\ Counts /\ Requests /\ Reading /\ Connection
        /\ step \in {"done", "unjournal"} \cup Installing \cup Replacing
    BY DEF RInv, PlainInv, TxInv, TxTypes
  <1>e. BeginRestore => /\ step = "done" /\ journal' = journal
                          /\ step' \in {"done", "recompare", "unjournal"}
    BY <1>0, RestoreDoes
  <1>1. Places'
    BY <1>0, <1>e DEF Mains, Holds, Readable
  <1>2. Flags'
    BY <1>0, <1>e DEF Flags, Profiles, Acceptable, Default, Official, Reading
  <1>3. Counts'
    BY <1>0, <1>e, BoundsAssumption, StoreAssumption DEF Counts
  <1>4. Requests'
    BY <1>0, <1>e DEF Requests, Readable
  <1>5. Reading'
    BY <1>0, <1>e DEF Reading
  <1>6. Connection'
    BY <1>0, <1>e DEF Connection, Undone, Reading
  <1> QED BY <1>1, <1>2, <1>3, <1>4, <1>5, <1>6 DEF PlainInv

LEMMA GoneKeepsInv ==
  ASSUME RInv, Exit \/ Crashes
  PROVE  PlainInv'
  <1> USE DEF transaction, files, run, setup, engine, panel, bounds, rest, Exit, Crashes, Crash,
             End, Gone, Places, Installing, Replacing
  <1>0. /\ TxInv /\ StoreInv /\ Places /\ Flags /\ Counts /\ Requests /\ Reading /\ Connection
        /\ step \in {"done", "unjournal"} \cup Installing \cup Replacing
    BY DEF RInv, PlainInv, TxInv, TxTypes
  <1>1. Places'
    BY <1>0 DEF Mains, Holds, Readable
  <1>2. Flags'
    BY <1>0 DEF Flags, Profiles, Acceptable, Default, Official, Reading
  <1>3. Counts'
    BY <1>0, BoundsAssumption, StoreAssumption DEF Counts
  <1>4. Requests'
    <2>1. active' = {} /\ recorded' = {} /\ Cardinality(active') = 0 /\ used' = used
      BY FS_EmptySet
    <2> QED BY <1>0, <2>1, BoundsAssumption DEF Requests
  <1>5. Reading'
    BY <1>0 DEF Reading
  <1>6. Connection'
    BY <1>0 DEF Connection, Undone, Reading
  <1> QED BY <1>1, <1>2, <1>3, <1>4, <1>5, <1>6 DEF PlainInv

LEMMA AccessKeepsInv ==
  ASSUME RInv, Access, UNCHANGED <<store, rest>>
  PROVE  PlainInv'
  <1> USE DEF transaction, files, run, setup, engine, panel, bounds, rest, Places, Installing,
             Replacing
  <1>0. /\ TxInv /\ StoreInv /\ Places /\ Flags /\ Counts /\ Requests /\ Reading /\ Connection
        /\ step \in {"done", "unjournal"} \cup Installing \cup Replacing
    BY DEF RInv, PlainInv, TxInv, TxTypes
  <1>e. /\ step # "done"
        /\ step \in Installing =>
              \/ step' \in Installing /\ made' = made
              \/ step' = "done" /\ failed'
              \/ step' = "done" /\ ~failed' /\ journal' = made
        /\ step \in Replacing \cup {"unjournal"} =>
              /\ step' \in (Replacing \ {"archive"}) \cup {"unjournal", "done"}
              /\ journal' # journal => step' = "done" /\ ~failed'
    BY <1>0, AccessDoes
  <1>1. Places'
    BY <1>0, <1>e DEF Mains, Holds, Readable
  <1>2. Flags'
    BY <1>0, <1>e DEF Flags, Profiles, Acceptable, Default, Official, Reading
  <1>3. Counts'
    BY <1>0, <1>e, BoundsAssumption, StoreAssumption DEF Counts
  <1>4. Requests'
    BY <1>0, <1>e DEF Requests, Readable
  <1>5. Reading'
    BY <1>0, <1>e DEF Reading
  <1>6. Connection'
    BY <1>0, <1>e DEF Connection, Undone, Reading
  <1> QED BY <1>1, <1>2, <1>3, <1>4, <1>5, <1>6 DEF PlainInv

LEMMA WorldKeepsInv ==
  ASSUME RInv, \/ DamageBackup /\ UNCHANGED <<store, rest>>
         \/ Saving \/ EditConfig \/ EditLogin
  PROVE  PlainInv'
  <1> USE DEF transaction, files, run, setup, engine, panel, bounds, rest, DamageBackup, Saving,
             EditConfig, EditTarget, EditLogin, Places, Installing, Replacing
  <1>0. /\ TxInv /\ StoreInv /\ Places /\ Flags /\ Counts /\ Requests /\ Reading /\ Connection
        /\ step \in {"done", "unjournal"} \cup Installing \cup Replacing
    BY DEF RInv, PlainInv, TxInv, TxTypes
  <1>1. Places'
    BY <1>0 DEF Mains, Holds, Readable
  <1>2. Flags'
    BY <1>0 DEF Flags, Profiles, Acceptable, Default, Official, Reading
  <1>3. Counts'
    BY <1>0, BoundsAssumption, StoreAssumption DEF Counts
  <1>4. Requests'
    BY <1>0 DEF Requests, Readable
  <1>5. Reading'
    BY <1>0 DEF Reading
  <1>6. Connection'
    BY <1>0 DEF Connection, Undone, Reading
  <1> QED BY <1>1, <1>2, <1>3, <1>4, <1>5, <1>6 DEF PlainInv
-----------------------------------------------------------------------------
(* Every step *)

LEMMA HomesFine == OthersOK(others)
  BY HomesAssumption DEF OthersOK, others, Contents

LEMMA RecorderInit == RInit => RInv
  <1> SUFFICES ASSUME RInit PROVE RInv
    OBVIOUS
  <1> USE DEF RInit, Init, InitMemory
  <1>1. TxInv
    BY InitTx, HomesAssumption
  <1>2. StoreInv
    BY StoreInitInv
  <1>3. Places /\ Counts
    BY BoundsAssumption DEF Places, Counts, Mains, Holds, Installing, Replacing
  <1>4. Flags
    <2>1. wanted \in Profiles /\ upstream \in Acceptable
      BY DEF Profiles, Acceptable, Default
    <2> QED BY <2>1 DEF Flags
  <1>5. Requests
    BY BoundsAssumption, FS_EmptySet DEF Requests
  <1>6. Reading /\ Connection
    BY DEF Reading, Connection
  <1> QED BY <1>1, <1>2, <1>3, <1>4, <1>5, <1>6 DEF RInv, PlainInv

\* Steps that leave the transaction alone, and those that begin to undo a takeover.
LEMMA QuietSteps ==
  ASSUME \/ \E r \in 1..MaxRequests : Admit(r) \/ Ends(r)
         \/ Capture \/ ConfigureCore \/ Connect \/ ConnectCancelled \/ Connected \/ Restored
         \/ Launch \/ Stop \/ ServerClosed \/ DeferredRestored \/ CloseStore \/ Exit \/ Over
  PROVE  UNCHANGED transaction
  BY DEF Admit, Ends, Capture, ConfigureCore, Connect, ConnectCancelled, Connected, Restored,
         Launch, Stop, ServerClosed, DeferredRestored, CloseStore, Exit, Over, vars

LEMMA UndoingSteps ==
  ASSUME Restore \/ Deferred
  PROVE  UNCHANGED transaction \/ BeginRestore
  BY DEF Restore, Deferred

LEMMA SavingSteps ==
  ASSUME Saving
  PROVE  \/ UNCHANGED transaction
         \/ UNCHANGED <<files, run, raced, edits>> /\ faults < MaxFaults /\ faults' = faults + 1
  BY DEF Saving

LEMMA RecorderTx ==
  ASSUME RInv, RNext
  PROVE  TxInv'
  <1>1. /\ TxInv /\ edits \in 0..MaxEdits /\ faults \in 0..MaxFaults
        /\ MaxEdits \in Nat /\ MaxFaults \in Nat
    BY EditsAssumption DEF RInv, TxInv, TxTypes
  <1>2. CASE \/ \E r \in 1..MaxRequests : Admit(r) \/ Ends(r)
             \/ Capture \/ ConfigureCore \/ Connect \/ ConnectCancelled \/ Connected \/ Restored
             \/ Launch \/ Stop \/ ServerClosed \/ DeferredRestored \/ CloseStore \/ Exit \/ Over
    BY <1>1, <1>2, QuietSteps, AsideKeeps
  <1>3. CASE Restore \/ Deferred
    BY <1>1, <1>3, UndoingSteps, AsideKeeps, RestoreKeeps
  <1>4. CASE Install
    BY <1>4, InstallTx
  <1>5. CASE Crashes
    BY <1>1, <1>5, CrashKeeps DEF Crashes
  <1>6. CASE Files
    BY <1>1, <1>6, AccessKeeps, DamageKeeps DEF Files
  <1>7. CASE Saving
    BY <1>1, <1>7, SavingSteps, AsideKeeps, CountKeeps
  <1>8. CASE EditConfig
    BY <1>1, <1>8, HomesFine, EditKeeps DEF EditConfig
  <1>9. CASE EditLogin
    BY <1>1, <1>9, CountKeeps DEF EditLogin
  <1> QED BY <1>2, <1>3, <1>4, <1>5, <1>6, <1>7, <1>8, <1>9 DEF RNext

LEMMA RecorderPlain ==
  ASSUME RInv, [RNext]_vars
  PROVE  PlainInv'
  <1>1. CASE Over \/ UNCHANGED vars
    <2>1. UNCHANGED vars
      BY <1>1 DEF Over
    <2> QED BY <2>1 DEF vars, RInv, PlainInv, Places, Flags, Counts, Requests, Readable, Reading, Connection,
                Undone, transaction, files, run, setup, engine, panel, bounds
  <1>2. CASE RNext /\ ~Over
    BY <1>2, AdmitKeepsInv, EndsKeepsInv, PanelKeepsInv, ConnectKeepsInv, InstallKeepsInv, ConnectedKeepsInv,
       RestoreKeepsInv, RestoredKeepsInv, LaunchKeepsInv, StoppingKeepsInv, DeferredKeepsInv, GoneKeepsInv,
       AccessKeepsInv, WorldKeepsInv DEF RNext, Files
  <1> QED BY <1>1, <1>2

\* The invariant the rest follows from.
THEOREM RInvAlways == RSpec => []RInv
  <1>1. RInv /\ [RNext]_vars => RInv'
    <2>1. RInv /\ RNext => TxInv'
      BY RecorderTx
    <2>2. RInv /\ UNCHANGED vars => TxInv'
      BY AsideKeeps DEF RInv, vars
    <2>3. RInv /\ [RNext]_vars => StoreInv' /\ PlainInv'
      BY StoreInvStep, RecorderPlain DEF RInv
    <2> QED BY <2>1, <2>2, <2>3 DEF RInv
  <1> QED BY <1>1, RecorderInit, PTL DEF RSpec

-----------------------------------------------------------------------------
(* What holds in every state *)

\* The types, and the limits of the recorder: no more requests at a time than allowed,
\* none of them while the panel or the end of the program changes the files.
THEOREM TypeCorrect == RSpec => []TypeOK
  <1>1. RInv => TypeOK
    <2> SUFFICES ASSUME RInv PROVE TypeOK
      OBVIOUS
    <2>1. main \in Mains /\ at \in Holds /\ stage \in Stages /\ Len(queue) <= QueueSize /\ closed \in BOOLEAN
      BY DEF RInv, PlainInv, Places, StoreInv, StoreTypes, WithinLimits
    <2>2. step \in Accesses /\ (at = "idle" /\ main # "restoring" => step = "done")
      BY DEF RInv, TxInv, TxTypes, PlainInv, Places, Accesses, Installing, Replacing
    <2>3. {managed, pending, core, recording, abandoned, closed} \subseteq BOOLEAN
      BY <2>1 DEF RInv, PlainInv, Flags
    <2>4. /\ recorded \subseteq active /\ active \subseteq 1..used /\ used \in 0..MaxRequests
          /\ Cardinality(active) <= MaxConcurrent /\ (~Readable => active = {})
          /\ starts \in 0..MaxStarts /\ ops \in 0..MaxOps
      BY DEF RInv, PlainInv, Requests, Counts
    <2> QED BY <2>1, <2>2, <2>3, <2>4 DEF TypeOK
  <1> QED BY <1>1, RInvAlways, PTL

-----------------------------------------------------------------------------
(* What no step does *)

LEMMA OnlyAdmits ==
  ASSUME RNext, NEW r \in active', r \notin active
  PROVE  \E new \in 1..MaxRequests : Admit(new)
  BY DEF RNext, Ends, Capture, ConfigureCore, Connect, ConnectCancelled, Install, Connected, Restore,
         Restored, Launch, Stop, ServerClosed, Deferred, DeferredRestored, CloseStore, Exit, Crashes,
         Gone, Files, Saving, EditConfig, EditLogin, Over, vars, engine, rest

\* A profile other than the one in the file is connected only for a Codex that is told
\* to use it; then the root, which Codex uses otherwise, does not refer to the recorder.
LEMMA SentByItsProfile ==
  ASSUME NEW r, ReceiptOK(r), NEW file \in Docs, Aside(file, r.profile),
         r.profile = OrElse(r.profile, Bytes(r.before).profile),
         file.profile = r.installed.profile,
         Overlay(file, file.profile).model_provider = Managed
  PROVE  r.profile = Bytes(r.before).profile
  <1>1. /\ r.profile \in Profiles /\ Bytes(r.before) \in Docs
        /\ file.profile = Bytes(r.before).profile
    BY ReceiptFacts, InstalledFacts
  <1>2. CASE r.profile = Absent
    BY <1>2 DEF OrElse
  <1>3. CASE r.profile # Absent /\ Bytes(r.before).profile = Absent
    <2>1. Overlay(file, Absent).model_provider = file.root.model_provider
      BY OverlayType DEF Keys, Profiles, SelectedTable, OrElse
    <2> QED BY <1>1, <1>3, <2>1 DEF Aside
  <1>4. CASE r.profile # Absent /\ Bytes(r.before).profile # Absent
    BY <1>1, <1>4 DEF Profiles, Docs
  <1> QED BY <1>2, <1>3, <1>4

\* When Codex sends to the recorder, the request goes on to the server that the user's
\* part of the file names and its login is for (SetupController.Admit).
THEOREM ForwardsAlways == RSpec => ForwardsToCurrent
  <1>1. RInv /\ [RNext]_vars =>
          [LET file == UserPart(target, journal)
               selected == Resolve(file, Absent, ReadAuthMode(auth))
               sends == /\ \E r \in active' : r \notin active
                        /\ Overlay(target, target.profile).model_provider = Managed
           IN sends => /\ selected # Refused /\ upstream = selected.upstream
                       /\ core => CoreAllowed(selected.upstream)]_vars
    <2> DEFINE login == ReadAuthMode(auth)
               selected == Resolve(journal.before, journal.profile, login)
               current == Resolve(UserPart(target, journal), Absent, login)
    <2> SUFFICES ASSUME RInv, RNext, NEW r \in active', r \notin active,
                        Overlay(target, target.profile).model_provider = Managed
                 PROVE  /\ current # Refused /\ upstream = current.upstream
                        /\ core => CoreAllowed(current.upstream)
      OBVIOUS
    <2>1. managed /\ StillInstalled /\ login = mode /\ ~Undone
      BY OnlyAdmits DEF Admit, Admitted, Readable, Undone
    <2>2. /\ GoesTo(journal, login, upstream) /\ (core => CoreAllowed(upstream))
          /\ ReceiptOK(journal) /\ Aside(target, journal.profile) /\ target \in Contents
      BY <2>1 DEF RInv, PlainInv, Connection, TxInv, TxTypes, Receipted, StillInstalled
    <2>3. /\ target \in Docs
          /\ \/ target = journal.installed
             \/ CheckOwnership(Bytes(journal.before), journal.installed, target, journal.profile)
      BY <2>1, <2>2, ReceiptFacts, MarkFacts DEF StillInstalled, CheckOwnership, Contents
    <2>4. /\ journal.before \in Contents /\ journal.profile \in Profiles /\ Absent \in Profiles
          /\ selected # Refused /\ selected.upstream = upstream /\ selected.profile = journal.profile
      BY <2>2, ReceiptFacts DEF Contents, Profiles, GoesTo
    <2>5. selected.profile = OrElse(journal.profile, Bytes(journal.before).profile)
      BY <2>4, ResolveType
    <2>6. target.profile = journal.installed.profile
      BY <2>3 DEF CheckOwnership
    <2>7. journal.profile = Bytes(journal.before).profile
      BY <2>2, <2>3, <2>4, <2>5, <2>6, SentByItsProfile
    <2>8. journal.profile = OrElse(Absent, Bytes(journal.before).profile)
      BY <2>7 DEF OrElse
    <2>9. Resolve(journal.before, Absent, login) = selected
      <3>1. OrElse(Absent, Bytes(journal.before).profile) = OrElse(journal.profile, Bytes(journal.before).profile)
        BY <2>4, <2>5, <2>8
      <3> HIDE DEF login
      <3> QED BY <3>1, ResolveWanted
    <2>10. current = selected
      BY <2>2, <2>3, <2>4, <2>8, <2>9, ResolvedAsBefore
    <2> QED BY <2>2, <2>4, <2>10
  <1> QED BY <1>1, RInvAlways, PTL DEF RSpec, ForwardsToCurrent

-----------------------------------------------------------------------------
(* The promise of the configuration transaction *)

\* The recorder puts no model in, so that what it has put in differs from the user's.
LEMMA SeparateInstalls ==
  ASSUME RInv, Separate(others), Install
  PROVE  Separate(others)'
  <1> DEFINE updated == Patch(target, Base, offer.profile, offer.mode, Absent, offer.doc)
             profile == Resolve(target, offer.profile, offer.mode).profile
  <1>1. /\ TxInv /\ target \in Contents /\ offer.profile \in Profiles /\ Absent \in Texts
    BY DEF RInv, TxInv, TxTypes, PlainInv, Reading, Install, Texts
  <1>2. BeginInstall(offer.profile, offer.mode, Absent, offer.doc)
    BY DEF Install
  <1>3. step' = "backup" => Distinct(made', others)
    <2> SUFFICES ASSUME step' = "backup" PROVE Distinct(made', others)
      OBVIOUS
    <2>1. /\ updated # Refused
          /\ made' = [before |-> target, installed |-> updated, profile |-> profile]
      BY <1>2, InstallDoes
    <2>2. SelectedTable(updated, profile).model = SelectedTable(Bytes(target), profile).model
      BY <1>1, <2>1, PatchFacts DEF OrElse
    <2>3. made'.before = target /\ made'.installed = updated /\ made'.profile = profile
      BY <2>1
    <2> HIDE DEF updated, profile
    <2> QED BY <2>2, <2>3 DEF Distinct
  <1> QED BY <1>1, <1>2, <1>3, SeparateInstall

LEMMA SeparateStep ==
  ASSUME RInv, Separate(others), RNext
  PROVE  Separate(others)'
  <1>1. TxInv
    BY DEF RInv
  <1>2. CASE \/ \E r \in 1..MaxRequests : Admit(r) \/ Ends(r)
             \/ Capture \/ ConfigureCore \/ Connect \/ ConnectCancelled \/ Connected \/ Restored
             \/ Launch \/ Stop \/ ServerClosed \/ DeferredRestored \/ CloseStore \/ Exit \/ Over
    BY <1>2, QuietSteps, SeparateAside
  <1>3. CASE Restore \/ Deferred
    BY <1>1, <1>3, UndoingSteps, SeparateAside, SeparateRestore
  <1>4. CASE Install
    BY <1>4, SeparateInstalls
  <1>5. CASE Crashes
    BY <1>5, SeparateEnd DEF Crashes, Crash, files
  <1>6. CASE Files
    BY <1>1, <1>6, SeparateAccess, SeparateDamage DEF Files
  <1>7. CASE Saving
    BY <1>7, SavingSteps, SeparateAside, SeparateCounts
  <1>8. CASE EditConfig
    BY <1>1, <1>8, HomesFine, SeparateEdit DEF EditConfig
  <1>9. CASE EditLogin
    BY <1>9, SeparateCounts DEF EditLogin
  <1> QED BY <1>2, <1>3, <1>4, <1>5, <1>6, <1>7, <1>8, <1>9 DEF RNext

LEMMA TakenStep ==
  ASSUME RInv, Separate(others), RNext
  PROVE  Taken!Next
  <1> USE DEF transaction, files
  <1>1. TxInv
    BY DEF RInv
  <1>2. CASE Access
    BY <1>1, <1>2, AccessTaken
  <1>3. CASE EditConfig
    BY <1>1, <1>3, HomesFine, EditTaken DEF EditConfig
  <1>4. CASE EditLogin
    <2>1. edits' = edits + 1 /\ UNCHANGED <<target, journal>>
      BY <1>4 DEF EditLogin
    <2> QED BY <2>1 DEF Taken!Next, Taken!Edit
  <1>5. CASE ~Access /\ ~EditConfig /\ ~EditLogin
    <2>1. UNCHANGED <<target, journal, edits>>
      <3>1. CASE \/ \E r \in 1..MaxRequests : Admit(r) \/ Ends(r)
                 \/ Capture \/ ConfigureCore \/ Connect \/ ConnectCancelled \/ Connected \/ Restored
                 \/ Launch \/ Stop \/ ServerClosed \/ DeferredRestored \/ CloseStore \/ Exit \/ Over
        BY <3>1, QuietSteps
      <3>2. CASE Restore \/ Deferred
        BY <3>2, UndoingSteps DEF BeginRestore
      <3>3. CASE Saving
        BY <3>3, SavingSteps
      <3>4. CASE Install \/ Crashes \/ Files
        BY <1>5, <3>4 DEF Install, BeginInstall, Crashes, Crash, Files, DamageBackup
      <3> QED BY <1>5, <3>1, <3>2, <3>3, <3>4 DEF RNext
    <2> QED BY <1>1, <2>1, QuietStep
  <1> QED BY <1>2, <1>3, <1>4, <1>5

\* The recorder, too, is a program that Takeover describes: whatever it puts into the
\* file can be taken out, across crashes and failed writes, and it changes nothing of
\* the user's part that is not saved after the last comparison.
THEOREM PromiseKept == RSpec => Taken!Spec
  <1>1. RInit => Separate(others) /\ Taken!Init
    BY SeparateInit, TakenInit, HomesAssumption DEF RInit
  <1>2. RInv /\ Separate(others) /\ [RNext]_vars => Separate(others)'
    BY SeparateStep, SeparateAside DEF vars
  <1>3. RInv /\ Separate(others) /\ [RNext]_vars => [Taken!Next]_(Taken!takeover)
    <2>1. RInv /\ Separate(others) /\ RNext => Taken!Next
      BY TakenStep
    <2>2. UNCHANGED vars => UNCHANGED Taken!takeover
      BY DEF vars, transaction, files, run, Taken!takeover
    <2> QED BY <2>1, <2>2
  <1> QED BY <1>1, <1>2, <1>3, RInvAlways, PTL DEF RSpec, Taken!Spec
=============================================================================
