----------------------------- MODULE TrendHistory -----------------------------
(***************************************************************************)
(* trend_history (db/trend_repository.py, app/services/trend_analysis.py), *)
(* the rows of one station: a table kept to its newest Limit rows in which *)
(* a time occurs once.  An INSERT that would repeat a time does nothing,   *)
(* but the transaction goes on to prune.                                   *)
(***************************************************************************)
EXTENDS PrunedTable

(* Mutant: no unique index, only a look before the insert.                     *)
Uncontested(w, t) == FALSE

(* The unique index: an INSERT waits for a transaction that wrote or        *)
(* deleted a row of its time.                                               *)
Contested(w, t) ==
  \E v \in Writers \ {w} : \E r \in own[v] \cup victims[v] : r.at = t

Repeats(t) == \E r \in rows : r.at = t

(* The sequence is advanced either way. *)
InsertNothing(w) ==
  /\ phase[w] = "idle" /\ lastId < MaxRows
  /\ lastId' = lastId + 1
  /\ phase' = [phase EXCEPT ![w] = "inserted"]
  /\ UNCHANGED <<rows, ever, own, victims>>

Record(w, t) ==
  /\ ~Contested(w, t)
  /\ IF Repeats(t) THEN InsertNothing(w) ELSE Insert(w, t)

(* reset_history deletes what is committed; it waits for rows that are      *)
(* being deleted and does not see those being inserted.                     *)
Reset ==
  /\ rows # {}
  /\ \A w \in Writers : victims[w] = {}
  /\ rows' = {} /\ ever' = {}
  /\ UNCHANGED <<lastId, phase, own, victims>>

TrendInit == TableInit

TrendNext ==
  \/ Reset
  \/ \E w \in Writers :
       TransactionStep(w) \/ \E t \in Times : Record(w, t)

TrendSpec == TrendInit /\ [][TrendNext]_tableVars

(* A station never has two rows of one time, although the writers that      *)
(* insert them do not see each other.                                       *)
OneRowPerTime == \A a, b \in rows : a.at = b.at => a = b

(* "Both operations run in the same transaction so the table is always     *)
(* bounded to max_history rows per station after commit."  It does not     *)
(* hold: a DELETE is blind to the other writer's uncommitted row, and      *)
(* OvershootBounded is what remains.                                       *)
BoundedAfterCommit == Cardinality(rows) <= Limit

================================================================================
