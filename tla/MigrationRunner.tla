--------------------------- MODULE MigrationRunner ---------------------------
(***************************************************************************)
(* The two migration runners: run_migrations (db/migration_runner.py, the  *)
(* strict one) and scripts/run_migration.py (all pending files, or one     *)
(* file named on the command line).                                        *)
(*                                                                         *)
(* Both read schema_migrations once, compute the checksums of the files,   *)
(* and then apply and record file by file.  Applying a file and recording  *)
(* it are separate transactions, the text that is executed is read again   *)
(* from the disk when its turn comes, and nothing locks the table: a       *)
(* runner may die at any point, two may run at once, and a file may be     *)
(* edited at any time.                                                     *)
(*                                                                         *)
(* A file is its place in the lexical order of the directory; a text is a  *)
(* version of a file and stands for its checksum, 0 for no text.  What a   *)
(* migration does to the schema is reduced to "this text has been          *)
(* executed" and to one constraint that several files define anew.  The    *)
(* --status, --verify and --dry-run modes change nothing and are left out. *)
(***************************************************************************)
EXTENDS Naturals

CONSTANTS
  Runners,        \* processes of either runner
  NumFiles,       \* files in db/migrations
  NumTexts,       \* versions of a file that an edit may reach
  MaxMishaps,     \* bound: deaths, failing executions, definitions and records, edits, in all
  Wrapped,        \* files with a BEGIN ... COMMIT of their own
  Definers        \* files that drop and define anew the shared CHECK constraint

Files == 1..NumFiles
Texts == 1..NumTexts
Sums  == 0..NumTexts

ASSUME SizeAssumption   == NumFiles \in Nat \ {0} /\ NumTexts \in Nat \ {0}
ASSUME BoundAssumption  == MaxMishaps \in Nat
ASSUME SubsetAssumption == Wrapped \subseteq Files /\ Definers \subseteq Files

Rows  == [sha : Sums, ok : BOOLEAN]
NoRow == [sha |-> 0, ok |-> FALSE]
NoRows  == [f \in Files |-> NoRow]
NoTexts == [f \in Files |-> 0]
Modes == {"strict", "all", "file"}
Places == {"idle", "scan", "check", "apply", "record", "failed"}

VARIABLES
  text,        \* the files on disk
  effect,      \* the text of each file that was executed last, 0 if none was
  shape,       \* the file whose definition of the shared constraint is in force
  swallowed,   \* history: files whose own definition failed when last executed
  row,         \* schema_migrations
  pc,          \* where each runner is
  mode,        \* how it was started
  seen,        \* the table as it read it
  sums,        \* the checksums it computed
  todo,        \* the files it has not applied and recorded yet
  exit,        \* the exit code of its last run, 2 before the first one
  failing,     \* history: files whose last execution failed
  unrecorded,  \* history: files with a failure whose runner died before recording it
  raced,       \* history: files edited while a runner was at work
  overlapped,  \* history: two runners were at work at once
  skipped,     \* history: --file applied a file ahead of an unrecorded earlier one
  mishaps      \* bounded by MaxMishaps

database == <<effect, shape, swallowed, row>>
runnerVars == <<pc, mode, seen, sums, todo, exit>>
history == <<failing, unrecorded, raced, overlapped, skipped, mishaps>>
vars == <<text, effect, shape, swallowed, row, pc, mode, seen, sums, todo, exit,
          failing, unrecorded, raced, overlapped, skipped, mishaps>>

-----------------------------------------------------------------------------
(* The start of a run                                                       *)

Started(r, m) ==
  /\ mode' = [mode EXCEPT ![r] = m]
  /\ exit' = [exit EXCEPT ![r] = 2]
  /\ overlapped' = (overlapped \/ \E q \in Runners \ {r} : pc[q] # "idle")

(* bootstrap() and load_applied(), closed by a commit.                      *)
Load(r, m) ==
  /\ pc[r] = "idle"
  /\ m \in {"strict", "all"}
  /\ pc'   = [pc EXCEPT ![r] = "scan"]
  /\ seen' = [seen EXCEPT ![r] = row]
  /\ Started(r, m)
  /\ UNCHANGED <<text, database, sums, todo, failing, unrecorded, raced, skipped, mishaps>>

Present(rows, f)  == rows[f].sha # 0
RecordedOk(rows, f) == Present(rows, f) /\ rows[f].ok

HasGap(rows) ==
  \E f, g \in Files : f < g /\ ~Present(rows, f) /\ Present(rows, g)
HasFailure(rows) == \E f \in Files : Present(rows, f) /\ ~rows[f].ok
HasDrift(rows)   == \E f \in Files : Present(rows, f) /\ rows[f].sha # text[f]

Refused(m, rows) == m = "strict" /\ (HasGap(rows) \/ HasFailure(rows) \/ HasDrift(rows))

Pending(m, rows) ==
  IF m = "strict" THEN {f \in Files : ~Present(rows, f)}
                  ELSE {f \in Files : ~RecordedOk(rows, f)}

(* The process ends; what it knew goes with it.                             *)
Finish(r, code) ==
  /\ pc'   = [pc EXCEPT ![r] = "idle"]
  /\ exit' = [exit EXCEPT ![r] = code]
  /\ seen' = [seen EXCEPT ![r] = NoRows]
  /\ sums' = [sums EXCEPT ![r] = NoTexts]
  /\ todo' = [todo EXCEPT ![r] = {}]

(* scan_migrations(), the checks before the first file, the pending list.   *)
Scan(r) ==
  /\ pc[r] = "scan"
  /\ \/ /\ Refused(mode[r], seen[r])
        /\ Finish(r, 1)
     \/ /\ ~Refused(mode[r], seen[r])
        /\ Pending(mode[r], seen[r]) = {}
        /\ Finish(r, 0)
     \/ /\ ~Refused(mode[r], seen[r])
        /\ Pending(mode[r], seen[r]) # {}
        /\ sums' = [sums EXCEPT ![r] = text]
        /\ todo' = [todo EXCEPT ![r] = Pending(mode[r], seen[r])]
        /\ pc'   = [pc EXCEPT ![r] = "apply"]
        /\ UNCHANGED <<seen, exit>>
  /\ UNCHANGED <<text, database, mode, history>>

(* --file: the checksum is computed first, then the table is read.          *)
OpenFile(r, f) ==
  /\ pc[r] = "idle"
  /\ pc'   = [pc EXCEPT ![r] = "check"]
  /\ sums' = [sums EXCEPT ![r] = text]
  /\ todo' = [todo EXCEPT ![r] = {f}]
  /\ Started(r, "file")
  /\ UNCHANGED <<text, database, seen, failing, unrecorded, raced, skipped, mishaps>>

(* A file that is recorded as applied is skipped, or refused when its       *)
(* checksum differs; any other file is applied, whatever its place.         *)
CheckFile(r) ==
  /\ pc[r] = "check"
  /\ \E f \in todo[r] :
       \/ /\ RecordedOk(row, f)
          /\ Finish(r, IF row[f].sha = sums[r][f] THEN 0 ELSE 1)
          /\ UNCHANGED skipped
       \/ /\ ~RecordedOk(row, f)
          /\ pc'   = [pc EXCEPT ![r] = "apply"]
          /\ seen' = [seen EXCEPT ![r] = row]
          /\ skipped' = (skipped \/ \E g \in Files : g < f /\ ~RecordedOk(row, g))
          /\ UNCHANGED <<sums, todo, exit>>
  /\ UNCHANGED <<text, database, mode, failing, unrecorded, raced, overlapped, mishaps>>

-----------------------------------------------------------------------------
(* One file after the other                                                 *)

Mishap == mishaps < MaxMishaps /\ mishaps' = mishaps + 1

IsNext(r, f) == f \in todo[r] /\ \A g \in todo[r] : f <= g

(* The file drops the constraint and adds its own in a block that swallows  *)
(* every error, a row the new definition forbids among them: the block is   *)
(* undone, what was in force stays so, and the file is still a success.     *)
ShapesAfter(f) == IF f \in Definers THEN {shape, f} ELSE {shape}

(* apply_migration: the text on disk now, in the file's own transaction.    *)
ApplyFile(r, f) ==
  /\ pc[r] = "apply" /\ IsNext(r, f)
  /\ effect' = [effect EXCEPT ![f] = text[f]]
  /\ shape' \in ShapesAfter(f)
  /\ IF f \in Definers /\ shape' # f
     THEN Mishap /\ swallowed' = swallowed \union {f}
     ELSE swallowed' = swallowed \ {f} /\ UNCHANGED mishaps
  /\ failing' = failing \ {f}
  /\ pc' = [pc EXCEPT ![r] = "record"]
  /\ UNCHANGED <<text, row, mode, seen, sums, todo, exit, unrecorded, raced, overlapped, skipped>>

ApplyFails(r, f) ==
  /\ pc[r] = "apply" /\ IsNext(r, f)
  /\ Mishap
  /\ failing' = failing \union {f}
  /\ pc' = [pc EXCEPT ![r] = "failed"]
  /\ UNCHANGED <<text, database, mode, seen, sums, todo, exit, unrecorded, raced, overlapped, skipped>>

(* Mutant: the rows are written when the last file is through.              *)
RowsAfterLast(r, f) ==
  IF todo[r] = {f} THEN [g \in Files |-> [sha |-> sums[r][g], ok |-> TRUE]] ELSE row

RowsAfter(r, f) == [row EXCEPT ![f] = [sha |-> sums[r][f], ok |-> TRUE]]

NextFile(r, f) ==
  \/ todo[r] = {f} /\ Finish(r, 0)
  \/ /\ todo[r] # {f}
     /\ todo' = [todo EXCEPT ![r] = @ \ {f}]
     /\ pc'   = [pc EXCEPT ![r] = "apply"]
     /\ UNCHANGED <<seen, sums, exit>>

(* record_migration(..., True), in a transaction of its own.                *)
RecordFile(r, f) ==
  /\ pc[r] = "record" /\ IsNext(r, f)
  /\ row' = RowsAfter(r, f)
  /\ NextFile(r, f)
  /\ UNCHANGED <<text, effect, shape, swallowed, mode, history>>

(* It raises: the row was not written, or was and the answer lost; and the  *)
(* strict runner, which takes this for a failure of the file, may record    *)
(* the executed file as one that failed.                                    *)
RowsAfterLoss(r, f) ==
  {row, RowsAfter(r, f)}
  \union (IF mode[r] = "strict" THEN {[row EXCEPT ![f] = [sha |-> sums[r][f], ok |-> FALSE]]} ELSE {})

RecordFails(r, f) ==
  /\ pc[r] = "record" /\ IsNext(r, f)
  /\ Mishap
  /\ row' \in RowsAfterLoss(r, f)
  /\ Finish(r, 1)
  /\ UNCHANGED <<text, effect, shape, swallowed, mode, failing, unrecorded, raced, overlapped, skipped>>

(* Mutant: a failure leaves no row.                                         *)
FailureForgotten(r, f) == row
(* Mutant: the flag of a failure is TRUE.                                   *)
FailureAsSuccess(r, f) ==
  IF f \in Wrapped THEN row ELSE [row EXCEPT ![f] = [sha |-> sums[r][f], ok |-> TRUE]]

(* record_migration(..., False), whose own errors are swallowed.  A file    *)
(* that began a transaction and failed leaves the session in an aborted     *)
(* one, in which the INSERT is rejected: no row is written.                 *)
RowsAfterFailure(r, f) ==
  IF f \in Wrapped THEN row ELSE [row EXCEPT ![f] = [sha |-> sums[r][f], ok |-> FALSE]]

(* Mutant: the run goes on with the next file.                              *)
GoOnAfterFailure(r, f) == NextFile(r, f)

StopAtFailure(r, f) == Finish(r, 1)

RecordFailure(r, f) ==
  /\ pc[r] = "failed" /\ IsNext(r, f)
  /\ row' = RowsAfterFailure(r, f)
  /\ StopAtFailure(r, f)
  /\ UNCHANGED <<text, effect, shape, swallowed, mode, history>>

-----------------------------------------------------------------------------
(* The surroundings                                                         *)

(* A runner is killed or loses its connection: the file it has applied may  *)
(* be without a row, the failure it has met without a record.               *)
Die(r) ==
  /\ pc[r] # "idle"
  /\ Mishap
  /\ Finish(r, 1)
  /\ unrecorded' = IF pc[r] = "failed" THEN unrecorded \union {f \in todo[r] : IsNext(r, f)}
                                       ELSE unrecorded
  /\ UNCHANGED <<text, database, mode, failing, raced, overlapped, skipped>>

Edit(f) ==
  /\ text[f] < NumTexts
  /\ Mishap
  /\ text' = [text EXCEPT ![f] = @ + 1]
  /\ raced' = IF \E r \in Runners : pc[r] # "idle" THEN raced \union {f} ELSE raced
  /\ UNCHANGED <<database, runnerVars, failing, unrecorded, overlapped, skipped>>

Init ==
  /\ text   = [f \in Files |-> 1]
  /\ effect = [f \in Files |-> 0]
  /\ shape  = 0 /\ swallowed = {}
  /\ row    = NoRows
  /\ pc     = [r \in Runners |-> "idle"]
  /\ mode   = [r \in Runners |-> "strict"]
  /\ seen   = [r \in Runners |-> NoRows]
  /\ sums   = [r \in Runners |-> NoTexts]
  /\ todo   = [r \in Runners |-> {}]
  /\ exit   = [r \in Runners |-> 2]
  /\ failing = {} /\ unrecorded = {} /\ raced = {}
  /\ overlapped = FALSE /\ skipped = FALSE /\ mishaps = 0

FileStep(r, f) ==
  \/ OpenFile(r, f) \/ ApplyFile(r, f) \/ ApplyFails(r, f)
  \/ RecordFile(r, f) \/ RecordFails(r, f) \/ RecordFailure(r, f)

RunnerStep(r) ==
  \/ \E m \in Modes : Load(r, m)
  \/ Scan(r) \/ CheckFile(r) \/ Die(r)
  \/ \E f \in Files : FileStep(r, f)

Next == (\E r \in Runners : RunnerStep(r)) \/ (\E f \in Files : Edit(f))

Spec == Init /\ [][Next]_vars

-----------------------------------------------------------------------------
(* Properties                                                               *)

(* Type invariant, with the places at which a runner has files to do: the   *)
(* loops of both runners never reach for a file behind the last one.        *)
TypeOK ==
  /\ text \in [Files -> Texts]
  /\ effect \in [Files -> Sums]
  /\ shape \in 0..NumFiles /\ swallowed \subseteq Definers
  /\ row \in [Files -> Rows]
  /\ pc \in [Runners -> Places]
  /\ mode \in [Runners -> Modes]
  /\ seen \in [Runners -> [Files -> Rows]]
  /\ sums \in [Runners -> [Files -> Sums]]
  /\ todo \in [Runners -> SUBSET Files]
  /\ exit \in [Runners -> 0..2]
  /\ failing \subseteq Files /\ unrecorded \subseteq Files /\ raced \subseteq Files
  /\ overlapped \in BOOLEAN /\ skipped \in BOOLEAN /\ mishaps \in 0..MaxMishaps
  /\ \A r \in Runners : pc[r] \in {"idle", "scan"} <=> todo[r] = {}

InHand(f) == \E r \in Runners : pc[r] = "record" /\ IsNext(r, f)

(* A row that says success belongs to a migration that has really been      *)
(* executed, and its checksum is that of the executed text: whatever two    *)
(* runners, crashes and failures do, unless the file was edited while a     *)
(* runner was at work (the checksum is taken at the scan, the text is read  *)
(* again when its turn comes).  What --verify and the drift check compare   *)
(* with rests on it.                                                        *)
RowTellsTheText ==
  \A f \in Files : RecordedOk(row, f) =>
    /\ effect[f] # 0
    /\ f \in raced \/ InHand(f) \/ row[f].sha = effect[f]

(* Migrations may build on the ones before them: apart from --file, a file  *)
(* is not executed before every earlier file has been, and a run that ends  *)
(* with exit code 0 leaves no file of the directory unexecuted, although    *)
(* what had been applied was read before the other runner's steps.          *)
InOrder ==
  \A r \in Runners : mode[r] # "file" =>
    /\ pc[r] = "apply" =>
         \A f \in Files : (\A g \in todo[r] : f < g) => effect[f] # 0
    /\ pc[r] = "idle" /\ exit[r] = 0 => \A f \in Files : effect[f] # 0

(* Crash recovery: a file that is executed again because its row was lost   *)
(* with its runner, or says that it failed, never puts an older definition  *)
(* of the shared constraint back in force (100 and 105 both define          *)
(* decisions_reason_chk, and with 021 decisions_authority_chk).  It takes   *)
(* two runners at once, or --file ahead of its turn, to do that.  What this *)
(* does not say is that the newest file got its way: a definition that the  *)
(* database rejects is swallowed, the older one stays, and the row of the   *)
(* file says success.                                                       *)
NewestDefinitionInForce ==
  overlapped \/ skipped \/
    \A f \in Definers \ swallowed : effect[f] # 0 => f <= shape

(* "Stop on first failure", "manual intervention required": the strict      *)
(* runner does not take up a file whose last execution failed.  It can only *)
(* do so if the failure left no row: the runner died first, another runner  *)
(* is just about to write it, or the file had begun a transaction of its    *)
(* own, which makes the session reject the INSERT.                          *)
NoBlindRetry ==
  \A r \in Runners, f \in failing :
    pc[r] = "apply" /\ mode[r] = "strict" /\ IsNext(r, f) =>
      \/ f \in Wrapped \union unrecorded
      \/ row[f] # seen[r][f]
      \/ \E q \in Runners : pc[q] = "failed" /\ IsNext(q, f)
=============================================================================
