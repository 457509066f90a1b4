-------------------------- MODULE ConfigTransaction --------------------------
(***************************************************************************)
(* internal/codexconfig/transaction.go, recovery.go and clean.go: how the  *)
(* configuration of Codex is changed and changed back, one access to the   *)
(* disk at a time, while the user (or a manager of providers) edits it,    *)
(* disk accesses fail and the program crashes.  Files are replaced by      *)
(* rename (internal/fsutil), so a file holds its old or its new content.   *)
(* The lock of the data directory admits one program, and a program runs   *)
(* one transaction at a time.  Receipts of version 0.1/0.2, which have no  *)
(* snapshot of what was installed, are left out.                           *)
(***************************************************************************)
EXTENDS CodexConfig

CONSTANTS
  MaxEdits,    \* bound: edits from outside
  MaxFaults    \* bound: failed disk accesses, damaged backups and crashes

ASSUME EditsAssumption == {MaxEdits, MaxFaults} \subseteq Nat

VARIABLES
  target,    \* config.toml
  journal,   \* config-transaction.json, a receipt or Absent
  intact,    \* backup and snapshot of the receipt are as they were written
  archive,   \* what the last recovery or rebuild archived
  step,      \* the next access of the transaction under way, "done" for none
  op,        \* the operation under way
  read,      \* the content of config.toml it started from
  made,      \* the receipt it makes, or the content it replaces config.toml by
  failed,    \* the last operation ended in an error
  raced,     \* config.toml was saved after the comparison
  edits, faults

files == <<target, journal, intact, archive>>
run == <<step, op, read, made, failed>>
transaction == <<files, run, raced, edits, faults>>

\* The address the service listens on.
Base == "service"

ASSUME WrittenAssumption == {Base, "other", "OTHER"} \subseteq Names

\* What a program put into the file: its provider, a reference to it, its address.
Ours(file) ==
  /\ file \notin {Garbage, Missing}
  /\ \/ ReferencesManaged(file)
     \/ file.providers[Managed] # Absent
     \/ file.root.openai_base_url = Base
     \/ file.work # Absent /\ file.work.openai_base_url = Base

\* The user's part of a file: settings that still are what the receipt says was
\* installed count as what they were before.
UserPart(file, receipt) ==
  IF file \in {Garbage, Missing} \/ receipt = Absent THEN Bytes(file)
  ELSE LET before == SelectedTable(Bytes(receipt.before), receipt.profile)
           put == SelectedTable(receipt.installed, receipt.profile)
           now == SelectedTable(file, receipt.profile)
           table == [key \in DOMAIN now |-> IF now[key] = put[key] THEN before[key] ELSE now[key]]
           provider == file.providers[Managed]
       IN [(IF table = now THEN file ELSE WithTable(file, receipt.profile, table))
             EXCEPT !.providers[Managed] =
               IF provider = receipt.installed.providers[Managed] THEN Absent ELSE provider]

\* CheckManaged: nothing that decides where Codex sends to has changed since the
\* takeover.
StillInstalled ==
  /\ journal # Absent /\ intact
  /\ target # Missing
  /\ \/ target = journal.installed
     \/ CheckOwnership(Bytes(journal.before), journal.installed, target, journal.profile)

-----------------------------------------------------------------------------
Init ==
  /\ journal = Absent
  /\ intact = TRUE
  /\ archive = Absent
  /\ step = "done" /\ op = "none" /\ read = Absent /\ made = Absent
  /\ failed = FALSE
  /\ raced = FALSE
  /\ edits = 0 /\ faults = 0

\* The operation has ended; what it held in memory is gone.
End(error) ==
  /\ step' = "done" /\ op' = "none" /\ read' = Absent /\ made' = Absent
  /\ failed' = error
  /\ raced' = FALSE

GoTo(s) == step' = s /\ UNCHANGED <<op, read, made, failed>>

Start(operation, first, content) ==
  /\ step' = first
  /\ op' = operation
  /\ read' = target
  /\ made' = content
  /\ UNCHANGED <<failed, raced>>

\* A disk access fails: the operation ends where it is.
Fails(s) ==
  /\ step = s
  /\ faults < MaxFaults
  /\ faults' = faults + 1
  /\ End(TRUE)
  /\ UNCHANGED <<files, edits>>

-----------------------------------------------------------------------------
(* Operations: the checks before the first write *)

\* InstallWithOptions.
BeginInstall(wanted, mode, model, expected) ==
  LET updated == Patch(target, Base, wanted, mode, model, expected)
  IN /\ step = "done"
     /\ IF journal # Absent \/ updated = Refused
        THEN End(TRUE)
        ELSE Start("install", "backup",
               [before |-> target, installed |-> updated,
                profile |-> Resolve(target, wanted, mode).profile])
     /\ UNCHANGED <<files, edits, faults>>

\* Mutant: the file is put back without looking at what has changed in it.
RestoreBlindly ==
  /\ step = "done"
  /\ IF journal = Absent THEN End(FALSE)
     ELSE IF target = journal.before THEN Start("restore", "unjournal", Absent)
     ELSE IF target = Missing THEN End(TRUE)
     ELSE Start("restore", "recompare", journal.before)
  /\ UNCHANGED <<files, edits, faults>>

\* Restore: an untouched installation becomes the original, an edited one loses only
\* what was installed, and a file whose owned settings were changed is left alone.
BeginRestore ==
  /\ step = "done"
  /\ IF journal = Absent THEN End(FALSE)
     ELSE IF ~intact THEN End(TRUE)
     ELSE IF target = journal.before THEN Start("restore", "unjournal", Absent)
     ELSE IF target = Missing THEN End(TRUE)
     ELSE IF target = journal.installed THEN Start("restore", "recompare", journal.before)
     ELSE LET original == Bytes(journal.before)
              merged == MergeRestore(original, journal.installed, target, journal.profile, FALSE)
          IN IF \/ ~CheckOwnership(original, journal.installed, target, journal.profile)
                \/ merged = Refused
             THEN End(TRUE) ELSE Start("restore", "recompare", merged)
  /\ UNCHANGED <<files, edits, faults>>

\* PreviewRecovery: CanKeepCurrent.
CanKeepCurrent ==
  /\ journal # Absent /\ intact
  /\ MergeRestore(Bytes(journal.before), journal.installed, Bytes(target),
                  journal.profile, TRUE) # Refused

\* Recover, in the mode the user chose for the content the preview has shown.
BeginRecover(mode, shown) ==
  /\ step = "done"
  /\ IF \/ journal = Absent \/ ~intact \/ target # shown
        \/ mode = "keep_current" /\ ~CanKeepCurrent
     THEN End(TRUE)
     ELSE Start(mode, "archive",
            IF mode = "restore_backup" THEN journal.before
            ELSE MergeRestore(Bytes(journal.before), journal.installed, Bytes(target),
                              journal.profile, TRUE))
  /\ UNCHANGED <<files, edits, faults>>

\* ResetConfig: a whole new file, for the content the preview has shown.
BeginReset(replacement, mode, shown) ==
  /\ step = "done"
  /\ IF \/ mode \notin {"chatgpt", "api_key"}
        \/ replacement = Refused
        \/ journal # Absent \/ target # shown
        \/ ReferencesManaged(replacement)
        \/ replacement.providers[Managed] # Absent
        \/ Resolve(replacement, Absent, mode) = Refused
     THEN End(TRUE)
     ELSE Start("rebuild", "archive", replacement)
  /\ UNCHANGED <<files, edits, faults>>

-----------------------------------------------------------------------------
(* Accesses *)

\* The original is copied aside, and what will be installed next to it.
Backup ==
  /\ step = "backup"
  /\ intact' = TRUE
  /\ GoTo("journal")
  /\ UNCHANGED <<target, journal, archive, raced, edits, faults>>

\* Mutant: the configuration is written before the receipt.
WriteFirst ==
  /\ step = "journal"
  /\ target' = made.installed
  /\ journal' = made
  /\ End(FALSE)
  /\ UNCHANGED <<intact, archive, edits, faults>>

WriteJournal ==
  /\ step = "journal"
  /\ journal' = made
  /\ GoTo("compare")
  /\ UNCHANGED <<target, intact, archive, raced, edits, faults>>

Compare ==
  /\ step = "compare"
  /\ IF target = read THEN GoTo("write") /\ UNCHANGED raced ELSE End(TRUE)
  /\ UNCHANGED <<files, edits, faults>>

WriteTarget ==
  /\ step = "write"
  /\ target' = made.installed
  /\ End(FALSE)
  /\ UNCHANGED <<journal, intact, archive, edits, faults>>

Archive ==
  /\ step = "archive"
  /\ archive' = read
  /\ GoTo("recompare")
  /\ UNCHANGED <<target, journal, intact, raced, edits, faults>>

\* replaceCurrent, up to the replacement.
Recompare ==
  /\ step = "recompare"
  /\ IF target = read THEN GoTo("replace") /\ UNCHANGED raced ELSE End(TRUE)
  /\ UNCHANGED <<files, edits, faults>>

Replace ==
  /\ step = "replace"
  /\ target' = made
  /\ IF op = "rebuild" THEN End(FALSE) ELSE GoTo("unjournal") /\ UNCHANGED raced
  /\ UNCHANGED <<journal, intact, archive, edits, faults>>

RemoveJournal ==
  /\ step = "unjournal"
  /\ journal' = Absent
  /\ End(FALSE)
  /\ UNCHANGED <<target, intact, archive, edits, faults>>

Access ==
  \/ Backup \/ WriteJournal \/ Compare \/ WriteTarget
  \/ Archive \/ Recompare \/ Replace \/ RemoveJournal
  \/ \E s \in {"backup", "journal", "write", "archive", "replace", "unjournal"} : Fails(s)

-----------------------------------------------------------------------------
(* The world outside *)

\* What the user, Codex or a manager of providers may save over a file: another
\* preference, model, provider, address or profile, the same in another form, our
\* provider changed, no file, an invalid one; and a new file where there was none.
Edited(file, others) ==
  IF file \in {Missing, Garbage} THEN others
  ELSE LET profile == IF file.work = Absent THEN Absent ELSE file.profile
           table == SelectedTable(file, profile)
           relay == file.providers["relay"]
           managed == file.providers[Managed]
       IN {[file EXCEPT !.rest = edits + 1],
           WithTable(file, profile, [table EXCEPT !.model = "other"]),
           WithTable(file, profile, [table EXCEPT !.model_provider = "openai"]),
           [file EXCEPT !.root.openai_base_url = "relay.two"],
           [file EXCEPT !.inline = TRUE],
           Missing, Garbage}
          \cup (IF relay = Absent THEN {}
                ELSE {[file EXCEPT !.providers["relay"].base_url = "relay.two"]})
          \cup (IF managed = Absent THEN {}
                ELSE {[file EXCEPT !.providers[Managed].env_key = "OTHER"]})
          \cup (IF file.work = Absent THEN {}
                ELSE {[file EXCEPT !.profile = IF @ = Absent THEN "work" ELSE Absent]})

EditTarget(others) ==
  /\ edits < MaxEdits
  /\ target' \in Edited(target, others) \ {target}
  /\ edits' = edits + 1
  /\ raced' = (raced \/ step \in {"write", "replace"})
  /\ UNCHANGED <<journal, intact, archive, run, faults>>

\* A backup or snapshot is lost or altered: its checksum no longer fits.
DamageBackup ==
  /\ faults < MaxFaults
  /\ journal # Absent /\ intact
  /\ intact' = FALSE
  /\ faults' = faults + 1
  /\ UNCHANGED <<target, journal, archive, run, raced, edits>>

\* The program crashes: what it held in memory is gone, the files are as they are.
Crash ==
  /\ faults < MaxFaults
  /\ faults' = faults + 1
  /\ End(FALSE)
  /\ UNCHANGED <<files, edits>>
=============================================================================
