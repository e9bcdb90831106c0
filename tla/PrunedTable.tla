------------------------------ MODULE PrunedTable ------------------------------
(***************************************************************************)
(* A history table that every append prunes to its newest Limit rows: one  *)
(* transaction inserts a row and then deletes the rows that are not among  *)
(* the newest Limit of what it sees.  Both history tables of the system    *)
(* are kept this way (feature_builder._append_history and                  *)
(* trend_repository.insert_trend_record); FeatureHistory and TrendHistory  *)
(* add what is particular to each.                                         *)
(*                                                                         *)
(* The transactions run at PostgreSQL's default level, READ COMMITTED: a   *)
(* statement sees the rows committed when it starts and its own            *)
(* transaction's.  A DELETE that meets a row another transaction is        *)
(* deleting waits for it and then skips the row, so waiting changes        *)
(* nothing of what is deleted and is not modelled.                         *)
(***************************************************************************)
EXTENDS Naturals, FiniteSets

CONSTANTS
  Writers,   \* threads that append
  Times,     \* values of observed_at
  Limit,     \* LIMIT of the pruning DELETE
  MaxRows    \* bound: rows ever inserted

ASSUME TableAssumption ==
  /\ Times \subseteq Nat /\ Limit \in Nat \ {0} /\ MaxRows \in Nat
  /\ IsFiniteSet(Times) /\ IsFiniteSet(Writers)

Rows == [at : Times, id : 1..MaxRows]

VARIABLES
  rows,      \* committed rows of the table
  ever,      \* every row that was ever committed (a ghost)
  lastId,    \* the id sequence, which no rollback takes back
  phase,     \* of each writer's transaction: idle, inserted, pruned
  own,       \* rows a transaction inserted and did not commit
  victims    \* rows a transaction deleted and did not commit

tableVars == <<rows, ever, lastId, phase, own, victims>>

(* ORDER BY observed_at DESC, id DESC *)
Newer(a, b) == a.at > b.at \/ (a.at = b.at /\ a.id > b.id)
NewerIn(S, r) == {q \in S : Newer(q, r)}
Top(S) == {r \in S : Cardinality(NewerIn(S, r)) < Limit}

View(w) == rows \cup own[w]

TableInit ==
  /\ rows = {} /\ ever = {} /\ lastId = 0
  /\ phase = [w \in Writers |-> "idle"]
  /\ own = [w \in Writers |-> {}]
  /\ victims = [w \in Writers |-> {}]

Insert(w, t) ==
  /\ phase[w] = "idle" /\ lastId < MaxRows
  /\ lastId' = lastId + 1
  /\ own' = [own EXCEPT ![w] = {[at |-> t, id |-> lastId']}]
  /\ phase' = [phase EXCEPT ![w] = "inserted"]
  /\ UNCHANGED <<rows, ever, victims>>

(* Mutants: pruning by insertion order instead of time; LIMIT one short.    *)
DoomedByAge(w) == {r \in View(w) :
  Cardinality({q \in View(w) : q.id > r.id}) >= Limit}
DoomedOneMore(w) == {r \in View(w) :
  Cardinality(NewerIn(View(w), r)) >= Limit - 1}

Doomed(w) == View(w) \ Top(View(w))

Prune(w) ==
  /\ phase[w] = "inserted"
  /\ victims' = [victims EXCEPT ![w] = Doomed(w)]
  /\ phase' = [phase EXCEPT ![w] = "pruned"]
  /\ UNCHANGED <<rows, ever, lastId, own>>

(* Mutant: the connection goes back to the pool with its transaction open.     *)
FinishUnrolled(w) ==
  /\ phase' = [phase EXCEPT ![w] = "idle"]
  /\ UNCHANGED <<own, victims, lastId>>

Finish(w) ==
  /\ phase' = [phase EXCEPT ![w] = "idle"]
  /\ own' = [own EXCEPT ![w] = {}]
  /\ victims' = [victims EXCEPT ![w] = {}]
  /\ UNCHANGED lastId

(* Mutant: the transaction is committed before it prunes.                      *)
CommitUnpruned(w) ==
  /\ phase[w] = "pruned"
  /\ rows' = rows \cup own[w]
  /\ ever' = ever \cup own[w]
  /\ Finish(w)

Commit(w) ==
  /\ phase[w] = "pruned"
  /\ rows' = (rows \cup own[w]) \ victims[w]
  /\ ever' = ever \cup own[w]
  /\ Finish(w)

(* Any statement may fail; the connection is rolled back.                   *)
Abort(w) ==
  /\ phase[w] # "idle"
  /\ Finish(w)
  /\ UNCHANGED <<rows, ever>>

TransactionStep(w) == Prune(w) \/ Commit(w) \/ Abort(w)

(* The state has the shape the code gives it; between two appends a writer *)
(* has no transaction open.                                                *)
TableTypeOK ==
  /\ rows \subseteq Rows /\ ever \subseteq Rows
  /\ lastId \in 0..MaxRows
  /\ phase \in [Writers -> {"idle", "inserted", "pruned"}]
  /\ own \in [Writers -> SUBSET Rows]
  /\ victims \in [Writers -> SUBSET Rows]
  /\ \A w \in Writers : phase[w] = "idle" => own[w] = {} /\ victims[w] = {}

(* A reader of the newest Limit rows cannot tell that the table is pruned, *)
(* although writers that prune at the same time do not see the rows of one *)
(* another.                                                                *)
PruningInvisible == Top(rows) = Top(ever)

(* They may leave more than Limit rows behind, but never more than one for *)
(* each writer that ran beside the last one.                               *)
OvershootBounded == Cardinality(rows) <= Limit + Cardinality(Writers) - 1
================================================================================
