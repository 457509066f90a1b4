------------------------------ MODULE Takeover ------------------------------
(***************************************************************************)
(* What internal/codexconfig promises the programs that use it.  The       *)
(* configuration of Codex is the user's; a program may put its own entries *)
(* in and take them out again, and keeps a receipt for as long as they may *)
(* be in.  The user edits the file meanwhile.                              *)
(***************************************************************************)
EXTENDS Naturals

VARIABLES
  user,     \* the file without what a program has put in
  held,     \* a program's entries are in the file
  receipt,  \* they can be told from the user's and taken out
  edits,    \* how often the user has edited the file
  excused   \* the user's last edit may be lost: it was saved after the last
            \* comparison, or is archived and was given up for the backup

takeover == <<user, held, receipt, edits, excused>>

Init ==
  /\ held = FALSE
  /\ receipt = FALSE
  /\ edits = 0
  /\ excused = FALSE

\* The user may take entries of the program out, and never puts them in.
Edit ==
  /\ edits' = edits + 1
  /\ held' => held
  /\ UNCHANGED receipt

Record ==
  /\ ~receipt /\ receipt'
  /\ UNCHANGED <<user, held, edits>>

\* One write of the file: in, out, or a replacement the user may lose edits by.
Write ==
  /\ held' => receipt
  /\ user' # user => excused
  /\ UNCHANGED <<receipt, edits>>

Forget ==
  /\ receipt /\ ~receipt'
  /\ ~held
  /\ UNCHANGED <<user, held, edits>>

Next == Edit \/ Record \/ Write \/ Forget

Spec == Init /\ [][Next]_takeover

\* Whatever is in the file can be taken out again.
Reversible == held => receipt
=============================================================================
