--------------------------- MODULE PersistenceWriter ---------------------------
(***************************************************************************)
(* execute_pipeline and with_retry (db/pipeline_writer.py): the run of one *)
(* request is written in one transaction, tried up to MaxAttempts times on *)
(* transient database errors, on connections of the shared pool.           *)
(*                                                                         *)
(* The rows are abstracted to the number of the transaction's statements   *)
(* executed so far and to the number of runs each writer has in the        *)
(* database.  The back-off between attempts is a step of other actors.     *)
(***************************************************************************)
EXTENDS ConnectionPool

CONSTANTS
  Writers,      \* threads that call execute_pipeline
  MaxAttempts,  \* with_retry: max_attempts
  Statements,   \* statements of the transaction (7 stages in the code)
  NoConn        \* model value: the writer holds no connection

ASSUME WriterAssumption ==
  /\ MaxAttempts \in Nat \ {0} /\ Statements \in Nat \ {0}
  /\ NoConn \notin Conns

VARIABLES
  pc,        \* where the writer is
  attempt,   \* attempts begun
  ref,       \* the pool object _init_pool returned
  held,      \* the borrowed connection
  step,      \* statements executed in the open transaction
  pending,   \* what the attempt comes to once the connection is returned
  outcome,   \* how execute_pipeline came back
  stored,    \* committed runs of the writer
  lost,      \* writers that lost the acknowledgement of a commit
  undisturbed \* writers that met no fault and no other writer since they began

writerVars == <<pc, attempt, ref, held, step, pending, outcome, stored, lost, undisturbed>>
vars == <<poolVars, writerVars>>

Active == {w \in Writers : pc[w] \notin {"new", "done"}}
Goto(w, l) == pc' = [pc EXCEPT ![w] = l]

-----------------------------------------------------------------------------
Begin(w) ==
  /\ pc[w] = "new"
  /\ Goto(w, "init")
  /\ attempt' = [attempt EXCEPT ![w] = 1]
  /\ undisturbed' = IF server = "up" /\ Active = {} THEN {w} ELSE {}
  /\ UNCHANGED <<poolVars, ref, held, step, pending, outcome, stored, lost>>

(* The attempt has failed with a retryable error and nothing is held.       *)
(* Mutant: the last attempt is given away.                                  *)
OneAttemptLess(w) == attempt[w] + 1 < MaxAttempts
AttemptsLeft(w) == attempt[w] < MaxAttempts
FailAttempt(w) ==
  IF AttemptsLeft(w)
  THEN /\ Goto(w, "init")
       /\ attempt' = [attempt EXCEPT ![w] = attempt[w] + 1]
       /\ UNCHANGED outcome
  ELSE /\ Goto(w, "done")
       /\ outcome' = [outcome EXCEPT ![w] = "DatabaseError"]
       /\ UNCHANGED attempt

Escape(w, error) ==
  /\ Goto(w, "done")
  /\ outcome' = [outcome EXCEPT ![w] = error]
  /\ UNCHANGED attempt

(* _init_pool: look for a pool, or make one.                                *)
FindPool(w) ==
  /\ pc[w] = "init"
  /\ \/ current # None /\ UNCHANGED poolVars
     \/ CreatePool
  /\ Goto(w, "ref")
  /\ UNCHANGED <<attempt, ref, held, step, pending, outcome, stored, lost, undisturbed>>

NoPool(w) ==
  /\ pc[w] = "init" /\ current = None /\ server = "down"
  /\ FailAttempt(w)
  /\ UNCHANGED <<poolVars, ref, held, step, pending, stored, lost, undisturbed>>

(* _init_pool reads _POOL once more to return it.  close_pool may have set  *)
(* it to None since; then None.getconn() is an AttributeError.              *)
TakePool(w) ==
  /\ pc[w] = "ref"
  /\ IF current = None
     THEN Escape(w, "AttributeError") /\ UNCHANGED ref
     ELSE /\ ref' = [ref EXCEPT ![w] = current]
          /\ Goto(w, "getconn")
          /\ UNCHANGED <<attempt, outcome>>
  /\ UNCHANGED <<poolVars, held, step, pending, stored, lost, undisturbed>>

GetConn(w) ==
  /\ pc[w] = "getconn"
  /\ \E c \in Conns :
       /\ TakeIdle(ref[w], c) \/ OpenNew(ref[w], c)
       /\ held' = [held EXCEPT ![w] = c]
  /\ Goto(w, "write")
  /\ step' = [step EXCEPT ![w] = 0]
  /\ UNCHANGED <<attempt, ref, pending, outcome, stored, lost, undisturbed>>

NoConnection(w) ==
  /\ pc[w] = "getconn"
  /\ \/ ConnectFails(ref[w]) /\ FailAttempt(w)
     \/ GetConnFails(ref[w]) /\ Escape(w, "PoolError")
  /\ UNCHANGED <<poolVars, ref, held, step, pending, stored, lost, undisturbed>>

-----------------------------------------------------------------------------
(* The transaction                                                          *)

Breaks(c) == link' = [link EXCEPT ![c] = "broken"]

Statement(w) ==
  /\ pc[w] = "write" /\ step[w] < Statements
  /\ link[held[w]] = "live"
  /\ step' = [step EXCEPT ![w] = step[w] + 1]
  /\ UNCHANGED <<poolVars, pc, attempt, ref, held, pending, outcome, stored, lost, undisturbed>>

(* Mutant: the commit leaves the transaction to the return of the           *)
(* connection, which rolls it back.                                         *)
CommitForgotten(w) ==
  /\ pc[w] = "write" /\ step[w] = Statements
  /\ pending' = [pending EXCEPT ![w] = "returned"]
  /\ Goto(w, "release")
  /\ UNCHANGED <<poolVars, attempt, ref, held, step, outcome, stored, lost,
                 undisturbed>>
Commit(w) ==
  /\ pc[w] = "write" /\ step[w] = Statements
  /\ link[held[w]] = "live"
  /\ stored' = [stored EXCEPT ![w] = stored[w] + 1]
  /\ pending' = [pending EXCEPT ![w] = "returned"]
  /\ Goto(w, "release")
  /\ UNCHANGED <<poolVars, attempt, ref, held, step, outcome, lost, undisturbed>>

(* The commit is executed but the connection breaks before the answer.      *)
CommitAckLost(w) ==
  /\ pc[w] = "write" /\ step[w] = Statements
  /\ link[held[w]] = "live"
  /\ stored' = [stored EXCEPT ![w] = stored[w] + 1]
  /\ lost' = lost \union {w}
  /\ Breaks(held[w])
  /\ pending' = [pending EXCEPT ![w] = "retry"]
  /\ undisturbed' = undisturbed \ {w}
  /\ Goto(w, "rollback")
  /\ UNCHANGED <<server, outages, current, made, shut, idle, used,
                 attempt, ref, held, step, outcome>>

(* A statement or the commit finds the connection gone: OperationalError    *)
(* or, when close_pool has closed it, InterfaceError.                       *)
ConnectionGone(w) ==
  /\ pc[w] = "write"
  /\ link[held[w]] # "live"
  /\ Breaks(held[w])
  /\ pending' = [pending EXCEPT ![w] = "retry"]
  /\ Goto(w, "rollback")
  /\ UNCHANGED <<server, outages, current, made, shut, idle, used,
                 attempt, ref, held, step, outcome, stored, lost, undisturbed>>

(* The server refuses a statement on a connection that stays usable: a      *)
(* transient OperationalError (deadlock, lock timeout, cancelled query), a  *)
(* psycopg2 error that is not retried, or an error of the program.          *)
StatementFails(w) ==
  /\ pc[w] = "write" /\ link[held[w]] = "live"
  /\ \E p \in {"retry", "DatabaseError", "raised"} : pending' = [pending EXCEPT ![w] = p]
  /\ undisturbed' = undisturbed \ {w}
  /\ Goto(w, "rollback")
  /\ UNCHANGED <<poolVars, attempt, ref, held, step, outcome, stored, lost>>

(* _safe_rollback swallows what goes wrong, but the client notices it.      *)
Rollback(w) ==
  /\ pc[w] = "rollback"
  /\ IF link[held[w]] = "stale" THEN Breaks(held[w]) ELSE UNCHANGED link
  /\ Goto(w, "release")
  /\ UNCHANGED <<server, outages, current, made, shut, idle, used, attempt, ref, held, step,
                 pending, outcome, stored, lost, undisturbed>>

(* How the attempt ends once the connection is back.                        *)
Finish(w) ==
  IF pending[w] = "retry" THEN FailAttempt(w) ELSE Escape(w, pending[w])

(* The finally clause of pooled_connection: putconn, then the result or the *)
(* error goes on.  Mutant: no finally, the connection only comes back when  *)
(* the transaction went well.                                               *)
ReleaseOnSuccess(w) ==
  /\ pc[w] = "release"
  /\ ref[w] \notin shut
  /\ IF pending[w] = "returned"
     THEN PutConn(ref[w], held[w])
     ELSE UNCHANGED poolVars
  /\ Finish(w)
  /\ held' = [held EXCEPT ![w] = NoConn]
  /\ UNCHANGED <<ref, step, pending, stored, lost, undisturbed>>
Release(w) ==
  /\ pc[w] = "release"
  /\ PutConn(ref[w], held[w])
  /\ Finish(w)
  /\ held' = [held EXCEPT ![w] = NoConn]
  /\ UNCHANGED <<ref, step, pending, stored, lost, undisturbed>>

(* putconn on a pool that was closed meanwhile raises PoolError, which      *)
(* replaces the result as well as an error under way.                       *)
ReleaseFails(w) ==
  /\ pc[w] = "release"
  /\ ref[w] \in shut
  /\ link' = [link EXCEPT ![held[w]] = "closed"]
  /\ Escape(w, "PoolError")
  /\ held' = [held EXCEPT ![w] = NoConn]
  /\ UNCHANGED <<server, outages, current, made, shut, idle, used,
                 ref, step, pending, stored, lost, undisturbed>>

-----------------------------------------------------------------------------
Init ==
  /\ PoolInit
  /\ pc = [w \in Writers |-> "new"]
  /\ attempt = [w \in Writers |-> 0]
  /\ ref = [w \in Writers |-> None]
  /\ held = [w \in Writers |-> NoConn]
  /\ step = [w \in Writers |-> 0]
  /\ pending = [w \in Writers |-> "none"]
  /\ outcome = [w \in Writers |-> "none"]
  /\ stored = [w \in Writers |-> 0]
  /\ lost = {} /\ undisturbed = {}

Environment ==
  /\ \/ Outage /\ undisturbed' = {}
     \/ Recover /\ UNCHANGED undisturbed
     \/ ClosePool /\ undisturbed' = {}
  /\ UNCHANGED <<pc, attempt, ref, held, step, pending, outcome, stored, lost>>

WriterStep(w) ==
  \/ FindPool(w) \/ NoPool(w) \/ TakePool(w) \/ GetConn(w) \/ NoConnection(w)
  \/ Statement(w) \/ Commit(w) \/ CommitAckLost(w) \/ ConnectionGone(w)
  \/ StatementFails(w) \/ Rollback(w) \/ Release(w) \/ ReleaseFails(w)

Next ==
  \/ Environment
  \/ \E w \in Writers : Begin(w) \/ WriterStep(w)

Spec == Init /\ [][Next]_vars
-----------------------------------------------------------------------------
(* Properties                                                               *)

(* Every variable stays within its range.                                   *)
TypeOK ==
  /\ PoolTypeOK
  /\ pc \in [Writers -> {"new", "init", "ref", "getconn", "write", "rollback", "release", "done"}]
  /\ attempt \in [Writers -> 0..MaxAttempts]
  /\ ref \in [Writers -> Pools \union {None}]
  /\ held \in [Writers -> Conns \union {NoConn}]
  /\ step \in [Writers -> 0..Statements]
  /\ pending \in [Writers -> {"none", "returned", "retry", "DatabaseError", "raised"}]
  /\ outcome \in [Writers -> {"none", "returned", "DatabaseError", "PoolError",
                              "AttributeError", "raised"}]
  /\ stored \in [Writers -> 0..MaxAttempts]
  /\ lost \subseteq Writers /\ undisturbed \subseteq Writers

(* What execute_pipeline says agrees with the database: a result means the  *)
(* run is there, and a run that is there twice, or in spite of an error,    *)
(* goes back to a lost acknowledgement or to a pool closed under the writer.*)
AnswerAgreesWithStore ==
  \A w \in Writers : pc[w] = "done" =>
    /\ outcome[w] = "returned" => stored[w] >= 1
    /\ stored[w] > 1 => w \in lost
    /\ stored[w] = 1 /\ outcome[w] # "returned" => w \in lost \/ ref[w] \in shut

(* A connection is lent to one writer at a time and is not on the shelf     *)
(* meanwhile, across retries, rollbacks and returns.                        *)
ExclusiveConnections ==
  /\ \A v, w \in Writers : v # w /\ held[v] # NoConn => held[v] # held[w]
  /\ \A p \in Pools, w \in Writers : held[w] \notin OnShelf(p)
  /\ \A p \in Pools : Cardinality(OnShelf(p)) = Len(idle[p])

(* However an attempt ends, its connection comes back: an open pool has lent*)
(* exactly what writers hold, keeps no more than MinConn on the shelf and   *)
(* never has more than MaxConn open.                                        *)
ConnectionsComeBack ==
  \A p \in Pools \ shut :
    /\ used[p] = {held[w] : w \in {v \in Writers : held[v] # NoConn /\ ref[v] = p}}
    /\ Len(idle[p]) <= MinConn
    /\ Len(idle[p]) + Cardinality(used[p]) <= MaxConn

(* After a restart of the database every connection on the shelf is stale   *)
(* and each costs an attempt.  A write that begins once the server is back  *)
(* and that nothing else disturbs succeeds all the same, provided the       *)
(* attempts outnumber the shelf (MaxAttempts 3, MinConn 2 by default).      *)
RestartSurvived ==
  \A w \in undisturbed : pc[w] = "done" => outcome[w] = "returned" /\ stored[w] = 1

(* The docstring of execute_pipeline: one complete execution is persisted   *)
(* "in a single retry-safe transaction".  It does not hold: a commit whose  *)
(* acknowledgement is lost is repeated.                                     *)
StoredOnce == \A w \in Writers : stored[w] <= 1
=============================================================================
