---------------------------- MODULE RecorderStore ----------------------------
(***************************************************************************)
(* internal/requestrecorder/store.go: the records of the recorder.  The    *)
(* handlers of requests put a record into a bounded queue without waiting; *)
(* one worker takes them out and saves each as a file of its own, written  *)
(* under another name and then linked, unless the directory is full.       *)
(* Close lets the worker finish.  A record is known by its identifier,     *)
(* which is random, and has one unit of size; its content is left out.     *)
(***************************************************************************)
EXTENDS Integers, Sequences, FiniteSets

CONSTANTS
  QueueSize, MaxRecords,
  DiskQuota     \* in records

ASSUME StoreAssumption == QueueSize \in Nat /\ MaxRecords \in Nat /\ DiskQuota \in Nat

VARIABLES
  records,  \* names of the .json files in the directory
  parts,    \* names of the .part files
  queue,
  saving,   \* the record the worker has taken, or the empty set
  stage,    \* what the worker does with it next
  closed,
  index,    \* summaries
  bytes,    \* what the directory holds as far as the process knows
  saved, dropped,
  ended     \* records handed to Submit in this process

disk == <<records, parts>>
worker == <<saving, stage, index, bytes, saved>>
store == <<disk, queue, worker, closed, dropped, ended>>

Stages == {"idle", "check", "write", "link", "index"}

StoreInit ==
  /\ records = {} /\ parts = {}
  /\ queue = <<>> /\ saving = {} /\ stage = "idle" /\ closed = FALSE
  /\ index = {} /\ bytes = 0 /\ saved = 0 /\ dropped = 0 /\ ended = 0

\* NewStore: what is in the directory counts, whatever wrote it.  Nothing else is left
\* of a process that has crashed.
NewStore ==
  /\ queue' = <<>> /\ saving' = {} /\ stage' = "idle" /\ closed' = FALSE
  /\ index' = records /\ bytes' = Cardinality(records) + Cardinality(parts)
  /\ saved' = 0 /\ dropped' = 0 /\ ended' = 0
  /\ UNCHANGED disk

\* Mutant: a record that finds the queue full is not counted.
SubmitSilently(r) ==
  /\ ended' = ended + 1
  /\ IF ~closed /\ Len(queue) < QueueSize
     THEN queue' = Append(queue, r) /\ UNCHANGED dropped
     ELSE dropped' = (IF closed THEN dropped + 1 ELSE dropped) /\ UNCHANGED queue
  /\ UNCHANGED <<disk, worker, closed>>

Submit(r) ==
  /\ ended' = ended + 1
  /\ IF ~closed /\ Len(queue) < QueueSize
     THEN queue' = Append(queue, r) /\ UNCHANGED dropped
     ELSE dropped' = dropped + 1 /\ UNCHANGED queue
  /\ UNCHANGED <<disk, worker, closed>>

\* run: the next record.
Take ==
  /\ stage = "idle" /\ queue # <<>>
  /\ saving' = {Head(queue)} /\ queue' = Tail(queue)
  /\ stage' = "check"
  /\ UNCHANGED <<disk, closed, index, bytes, saved, dropped, ended>>

\* The worker is done with its record, which is not saved.
Drop ==
  /\ dropped' = dropped + 1
  /\ saving' = {} /\ stage' = "idle"
  /\ UNCHANGED <<index, bytes, saved>>

\* save, from its start to the quota.
Check ==
  /\ stage = "check"
  /\ IF bytes + 1 > DiskQuota \/ Cardinality(index) >= MaxRecords
     THEN Drop
     ELSE stage' = "write" /\ UNCHANGED <<saving, index, bytes, saved, dropped>>
  /\ UNCHANGED <<disk, queue, closed, ended>>

\* The temporary file, which must not exist.
Write ==
  /\ stage = "write"
  /\ saving \cap parts = {}
  /\ parts' = parts \cup saving
  /\ stage' = "link"
  /\ UNCHANGED <<records, queue, saving, index, bytes, saved, closed, dropped, ended>>

\* The link, which does not replace a file either.
Link ==
  /\ stage = "link"
  /\ saving \cap records = {}
  /\ records' = records \cup saving
  /\ stage' = "index"
  /\ UNCHANGED <<parts, queue, saving, index, bytes, saved, closed, dropped, ended>>

\* Creating, writing or linking fails: nothing of the record stays.
SaveFails ==
  /\ stage \in {"write", "link"}
  /\ parts' = parts \ saving
  /\ Drop
  /\ UNCHANGED <<records, queue, closed, ended>>

\* The temporary name is removed and the record indexed.
Index ==
  /\ stage = "index"
  /\ parts' = parts \ saving
  /\ bytes' = bytes + 1
  /\ index' = index \cup saving
  /\ saved' = saved + 1
  /\ saving' = {} /\ stage' = "idle"
  /\ UNCHANGED <<records, queue, closed, dropped, ended>>

\* Close, up to the wait for the worker.
Close ==
  /\ ~closed
  /\ closed' = TRUE
  /\ UNCHANGED <<disk, queue, worker, dropped, ended>>

\* The process has ended; what it has counted is still known.
Leave ==
  /\ queue' = <<>> /\ saving' = {} /\ stage' = "idle"
  /\ UNCHANGED <<disk, closed, index, bytes, saved, dropped, ended>>

Worker == Take \/ Check \/ Write \/ Link \/ Index

\* done: the worker has saved what was accepted and returned.
Done == closed /\ queue = <<>> /\ stage = "idle"

\* Every record that was handed over is counted once: saved, dropped or still to be
\* saved, also when the process has ended without a crash; and what counts as saved is
\* a file, of which there are no more than allowed.
RecordsAccounted ==
  /\ ended = saved + dropped + Len(queue) + (IF stage = "idle" THEN 0 ELSE 1)
  /\ index \subseteq records
  /\ saved <= Cardinality(index)
  /\ Cardinality(records) <= MaxRecords /\ Cardinality(records) <= DiskQuota
=============================================================================
