---------------------------- MODULE FloodPipeline ----------------------------
(***************************************************************************)
(* FloodDecisionPipeline.run and the process-wide stage executor           *)
(* (app/pipeline/flood_pipeline.py).                                       *)
(*                                                                         *)
(* Every request has a thread of its own that walks through the stages.    *)
(* A stage body does not run on that thread: it is submitted to one        *)
(* ThreadPoolExecutor that all requests share, and the request thread      *)
(* waits on the future with a timeout.  A timeout gives up waiting; it     *)
(* cannot stop a body that has started.  Such a body keeps its worker and  *)
(* its side effects after the request has been answered.                   *)
(*                                                                         *)
(* What the stages compute is abstracted: a stage ends well or raises, and *)
(* the facts that later steps branch on (critical plausibility violation,  *)
(* system status, dominant driver, TMA failure) are chosen freely.  What a *)
(* body does to shared state is in the modules of that state               *)
(* (FeatureHistory for reasoning, RoutingStage for routing).               *)
(***************************************************************************)
EXTENDS Naturals, Sequences, FiniteSets

CONSTANTS
  Requests,       \* calls of FloodDecisionPipeline.run
  MaxWorkers,     \* FLOOD_STAGE_WORKERS
  Stricts,        \* requests run on a pipeline built with strict_mode = True
  Unpersisted,    \* requests run on a pipeline built with persist = False
  EvalStatuses    \* system_status values the evaluation stage may report

ASSUME RequestSetsAssumption ==
  /\ Stricts \subseteq Requests
  /\ Unpersisted \subseteq Requests
ASSUME WorkersAssumption == MaxWorkers \in Nat \ {0}
ASSUME StatusesAssumption ==
  EvalStatuses \subseteq {"OK", "DEGRADED", "LOW_TRUST", "CONFLICT", "FAIL"}

DecisionStages == {"perception", "reasoning", "evaluation", "action"}
Stages         == DecisionStages \union {"routing"}
Jobs           == Requests \X Stages
FutureStates   == {"none", "pending", "running", "ok", "error", "cancelled"}
Statuses       == EvalStatuses \union {"none", "DEGRADED", "PIPELINE_FAILURE"}
Drivers        == {"none", "hydro", "other", "hydrology_unverified", "pipeline_error",
                   "output_contract_violation"}
Outcomes       == {"none", "decision", "emergency", "fallback", "raised"}

VARIABLES
  pc,        \* where the request thread is; a stage name means it waits there
  fut,       \* the future of every stage of every request
  queue,     \* work queue of the executor, cancelled items included
  status,    \* result["system_status"]
  driver,    \* result["dominant_risk_driver"]
  tma,       \* what the routing stage said of the TMA source
  outcome,   \* how run() came back
  row        \* system_status stored in pipeline_runs, or "none"

threadVars == <<status, driver, tma, outcome, row>>
vars == <<pc, fut, queue, status, driver, tma, outcome, row>>

-----------------------------------------------------------------------------
(* The stage executor                                                       *)

Running == {j \in Jobs : fut[j[1]][j[2]] = "running"}

Submit(f, r, s) == [f EXCEPT ![r][s] = "pending"]

(* An idle worker takes the oldest work item; a cancelled one is dropped.   *)
WorkerTakes ==
  /\ queue # <<>>
  /\ Cardinality(Running) < MaxWorkers
  /\ LET r == Head(queue)[1]
         s == Head(queue)[2]
     IN  fut' = IF fut[r][s] = "pending" THEN [fut EXCEPT ![r][s] = "running"] ELSE fut
  /\ queue' = Tail(queue)
  /\ UNCHANGED <<pc, threadVars>>

(* Future.cancel: it only catches a body that no worker has started yet.    *)
(* Mutant: the timeout path forgets to cancel.                              *)
NoCancel(f, r, s) == f
Cancel(f, r, s) ==
  IF f[r][s] = "pending" THEN [f EXCEPT ![r][s] = "cancelled"] ELSE f

(* Mutant: the worker, not the request thread, puts what routing found into *)
(* the result, however late.                                                *)
RoutingWritesResult(r, s) ==
  /\ fut[r][s] = "running"
  /\ fut' = [fut EXCEPT ![r][s] = "ok"]
  /\ tma' = IF s = "routing" THEN [tma EXCEPT ![r] = "reliable"] ELSE tma
  /\ UNCHANGED <<pc, queue, status, driver, outcome, row>>

(* A stage body returns or raises, whether or not anybody still waits.      *)
StageBodyEnds(r, s) ==
  /\ fut[r][s] = "running"
  /\ \E result \in {"ok", "error"} : fut' = [fut EXCEPT ![r][s] = result]
  /\ UNCHANGED <<pc, queue, threadVars>>

-----------------------------------------------------------------------------
(* The request thread                                                       *)

(* Move on to stage s: submit its body and wait there.                      *)
EnterStage(r, s) ==
  /\ pc' = [pc EXCEPT ![r] = s]
  /\ fut' = Submit(fut, r, s)
  /\ queue' = Append(queue, <<r, s>>)

Begin(r) ==
  /\ pc[r] = "idle"
  /\ EnterStage(r, "perception")
  /\ UNCHANGED threadVars

Returned(r, s) == pc[r] = s /\ fut[r][s] = "ok"

(* A critical plausibility violation bypasses the reasoning stage.          *)
AfterPerception(r) ==
  /\ Returned(r, "perception")
  /\ \E critical \in BOOLEAN :
       EnterStage(r, IF critical THEN "evaluation" ELSE "reasoning")
  /\ UNCHANGED threadVars

(* Between the stages run() also computes outside of any try: the bypass    *)
(* reads numbers out of the snapshot, and the steps from the trend analysis *)
(* to the gate read the result.  What raises there leaves run() as it is,   *)
(* strict mode or not; nothing has been stored by then.                     *)
Uncaught(r) ==
  /\ Returned(r, "perception") \/ pc[r] = "gate"
  /\ pc' = [pc EXCEPT ![r] = "done"]
  /\ outcome' = [outcome EXCEPT ![r] = "raised"]
  /\ UNCHANGED <<fut, queue, status, driver, tma, row>>

AfterReasoning(r) ==
  /\ Returned(r, "reasoning")
  /\ EnterStage(r, "evaluation")
  /\ UNCHANGED threadVars

AfterEvaluation(r) ==
  /\ Returned(r, "evaluation")
  /\ EnterStage(r, "action")
  /\ UNCHANGED threadVars

AfterAction(r) ==
  /\ Returned(r, "action")
  /\ \E st \in EvalStatuses, d \in {"hydro", "other"} :
       /\ status' = [status EXCEPT ![r] = st]
       /\ driver' = [driver EXCEPT ![r] = d]
  /\ EnterStage(r, "routing")
  /\ UNCHANGED <<tma, outcome, row>>

(* future.result(timeout) gives up on a body that has not come back, whether*)
(* a worker is at it or it still waits in the queue.  Mutant: the budget    *)
(* only starts to count when the body does.                                 *)
OnlyRunningTimesOut(f) == f = "running"
TimesOut(f) == f \in {"pending", "running"}

(* Waiting for stage s ended in an exception: the body raised, or the       *)
(* budget ran out, in which case the future is cancelled if it still can be.*)
WaitFails(r, s) ==
  /\ pc[r] = s
  /\ \/ /\ fut[r][s] = "error"
        /\ fut' = fut
     \/ /\ TimesOut(fut[r][s])
        /\ fut' = Cancel(fut, r, s)
  /\ UNCHANGED queue

(* Mutants: an emergency output is written to the database as well; an      *)
(* exception of the reasoning stage falls through to the next stage.        *)
EmergencyPersisted(r) ==
  /\ \E s \in DecisionStages : WaitFails(r, s)
  /\ status'  = [status EXCEPT ![r] = "PIPELINE_FAILURE"]
  /\ driver'  = [driver EXCEPT ![r] = "pipeline_error"]
  /\ outcome' = [outcome EXCEPT ![r] = "emergency"]
  /\ row'     = [row EXCEPT ![r] = "PIPELINE_FAILURE"]
  /\ pc'      = [pc EXCEPT ![r] = "done"]
  /\ UNCHANGED tma
EmergencyFallsThrough(r) ==
  /\ pc[r] = "reasoning"
  /\ fut[r]["reasoning"] = "error"
  /\ EnterStage(r, "evaluation")
  /\ UNCHANGED threadVars

(* A decision stage failed: run() returns _emergency_output at once.        *)
Emergency(r) ==
  /\ \E s \in DecisionStages : WaitFails(r, s)
  /\ status'  = [status EXCEPT ![r] = "PIPELINE_FAILURE"]
  /\ driver'  = [driver EXCEPT ![r] = "pipeline_error"]
  /\ outcome' = [outcome EXCEPT ![r] = "emergency"]
  /\ pc'      = [pc EXCEPT ![r] = "done"]
  /\ UNCHANGED <<tma, row>>

(* Mutant: the TMA failure record is reported and nothing more.             *)
RoutingReportsOnly(r) ==
  /\ Returned(r, "routing")
  /\ \E t \in {"reliable", "failed"} : tma' = [tma EXCEPT ![r] = t]
  /\ pc' = [pc EXCEPT ![r] = "gate"]
  /\ UNCHANGED <<fut, queue, status, driver, outcome, row>>

(* Routing came back; a TMA failure record takes the credit away from a     *)
(* hydrology-dominant driver.                                               *)
AfterRouting(r) ==
  /\ Returned(r, "routing")
  /\ \E t \in {"reliable", "failed"} :
       /\ tma' = [tma EXCEPT ![r] = t]
       /\ driver' = IF t = "failed" /\ driver[r] = "hydro"
                    THEN [driver EXCEPT ![r] = "hydrology_unverified"]
                    ELSE driver
  /\ pc' = [pc EXCEPT ![r] = "gate"]
  /\ UNCHANGED <<fut, queue, status, outcome, row>>

(* Routing is optional: without it there is no route and no TMA data.       *)
RoutingUnavailable(r) ==
  /\ WaitFails(r, "routing")
  /\ tma' = [tma EXCEPT ![r] = "absent"]
  /\ pc' = [pc EXCEPT ![r] = "gate"]
  /\ UNCHANGED <<status, driver, outcome, row>>

(* validate_output_schema accepted the result.                              *)
GatePasses(r) ==
  /\ pc[r] = "gate"
  /\ IF r \in Unpersisted
     THEN /\ pc' = [pc EXCEPT ![r] = "done"]
          /\ outcome' = [outcome EXCEPT ![r] = "decision"]
     ELSE /\ pc' = [pc EXCEPT ![r] = "persist"]
          /\ UNCHANGED outcome
  /\ UNCHANGED <<fut, queue, status, driver, tma, row>>

(* It did not: re-raise in strict mode, else substitute the safe fallback.  *)
GateRejects(r) ==
  /\ pc[r] = "gate"
  /\ pc' = [pc EXCEPT ![r] = "done"]
  /\ IF r \in Stricts
     THEN /\ outcome' = [outcome EXCEPT ![r] = "raised"]
          /\ UNCHANGED <<status, driver>>
     ELSE /\ outcome' = [outcome EXCEPT ![r] = "fallback"]
          /\ status'  = [status EXCEPT ![r] = "PIPELINE_FAILURE"]
          /\ driver'  = [driver EXCEPT ![r] = "output_contract_violation"]
  /\ UNCHANGED <<fut, queue, tma, row>>

PersistOk(r) ==
  /\ pc[r] = "persist"
  /\ row' = [row EXCEPT ![r] = status[r]]
  /\ pc' = [pc EXCEPT ![r] = "done"]
  /\ outcome' = [outcome EXCEPT ![r] = "decision"]
  /\ UNCHANGED <<fut, queue, status, driver, tma>>

(* Only OK is escalated.  Mutant: every status is overwritten.              *)
OverwriteStatus(st) == "DEGRADED"
EscalateStatus(st) == IF st = "OK" THEN "DEGRADED" ELSE st

(* execute_pipeline raised.  The row may nevertheless be there: the commit  *)
(* was executed and its acknowledgement lost.                               *)
PersistFails(r) ==
  /\ pc[r] = "persist"
  /\ \E stored \in {"none", status[r]} : row' = [row EXCEPT ![r] = stored]
  /\ status' = [status EXCEPT ![r] = EscalateStatus(status[r])]
  /\ pc' = [pc EXCEPT ![r] = "done"]
  /\ outcome' = [outcome EXCEPT ![r] = "decision"]
  /\ UNCHANGED <<fut, queue, driver, tma>>

-----------------------------------------------------------------------------
Init ==
  /\ pc      = [r \in Requests |-> "idle"]
  /\ fut     = [r \in Requests |-> [s \in Stages |-> "none"]]
  /\ queue   = <<>>
  /\ status  = [r \in Requests |-> "none"]
  /\ driver  = [r \in Requests |-> "none"]
  /\ tma     = [r \in Requests |-> "none"]
  /\ outcome = [r \in Requests |-> "none"]
  /\ row     = [r \in Requests |-> "none"]

(* What the thread of a request that has begun can do next, short of the    *)
(* write, and the write.                                                    *)
StageStep(r) ==
  \/ AfterPerception(r) \/ AfterReasoning(r) \/ AfterEvaluation(r)
  \/ AfterAction(r) \/ AfterRouting(r)
  \/ Emergency(r) \/ RoutingUnavailable(r) \/ Uncaught(r)
  \/ GatePasses(r) \/ GateRejects(r)
Persist(r) == PersistOk(r) \/ PersistFails(r)
ThreadStep(r) == StageStep(r) \/ Persist(r)

WorkerStep(r) == \E s \in Stages : StageBodyEnds(r, s)

Next ==
  \/ WorkerTakes
  \/ \E r \in Requests : Begin(r) \/ ThreadStep(r) \/ WorkerStep(r)

Spec == Init /\ [][Next]_vars

(* The stage budgets wake a request thread, and between the stages it only  *)
(* computes.  Nothing is assumed of the workers, which may hang for ever on *)
(* a socket, nor of the write: execute_pipeline runs on the request thread  *)
(* over psycopg2 with no statement timeout, and can hold it for ever.       *)
FairThreads == \A r \in Requests : WF_vars(StageStep(r))
LiveSpec == Spec /\ FairThreads

-----------------------------------------------------------------------------
(* Properties                                                               *)

(* Every variable stays within the program's vocabulary.                    *)
TypeOK ==
  /\ pc \in [Requests -> Stages \union {"idle", "gate", "persist", "done"}]
  /\ fut \in [Requests -> [Stages -> FutureStates]]
  /\ queue \in Seq(Jobs)
  /\ status \in [Requests -> Statuses]
  /\ driver \in [Requests -> Drivers]
  /\ tma \in [Requests -> {"none", "reliable", "failed", "absent"}]
  /\ outcome \in [Requests -> Outcomes]
  /\ row \in [Requests -> Statuses]

(* Work nobody waits for can be in a worker but never in the queue: what a  *)
(* timed-out request leaves behind is at most the body that had started, so *)
(* abandoned work cannot pile up behind a slow stage (_run_stage).          *)
NoAbandonedWorkQueued ==
  \A r \in Requests, s \in Stages : fut[r][s] = "pending" => pc[r] = s

(* A decision is only ever built from stages that all came back: whatever   *)
(* timeouts and late bodies do, perception, evaluation and action returned, *)
(* and reasoning either returned or was never started (the bypass).         *)
DecisionRestsOnItsStages ==
  \A r \in Requests :
    pc[r] \in {"routing", "gate", "persist"} \/ outcome[r] = "decision" =>
      /\ \A s \in {"perception", "evaluation", "action"} : fut[r][s] = "ok"
      /\ fut[r]["reasoning"] \in {"ok", "none"}

(* pipeline_runs holds decisions only: neither an emergency output nor the  *)
(* contract fallback of a request is ever stored (__init__, docstring).     *)
OnlyDecisionsStored ==
  \A r \in Requests : row[r] # "none" => outcome[r] = "decision" /\ r \notin Unpersisted

(* What run() returned is final: no body that ends later changes the answer *)
(* or the stored row.                                                       *)
AnswerIsFinal ==
  [][\A r \in Requests : pc[r] = "done" =>
       /\ pc'[r] = "done"
       /\ <<status[r], driver[r], tma[r], outcome[r], row[r]>>'
            = <<status[r], driver[r], tma[r], outcome[r], row[r]>>]_vars

(* SYSTEM_STATUS_PRECEDENCE, least severe first.                            *)
Severity(st) ==
  CASE st = "none" -> 0 [] st = "OK" -> 1 [] st = "DEGRADED" -> 2
    [] st = "LOW_TRUST" -> 3 [] st = "CONFLICT" -> 4 [] st = "FAIL" -> 5
    [] OTHER -> 6

(* After the evaluation no later step makes a system status look better     *)
(* than it was (_persist: "preserve already-severe values").                *)
SeverityNeverDrops ==
  [][\A r \in Requests : Severity(status'[r]) >= Severity(status[r])]_vars

(* No decision names a hydrology-dominant driver next to a TMA failure      *)
(* record: the one is decided two stages before the other is known          *)
(* (_HYDRO_DRIVERS: drivers "that lose credibility when TMA data is         *)
(* unreliable").  Without a routing stage there is no record to go by.      *)
HydrologyRestsOnTma ==
  \A r \in Requests :
    outcome[r] = "decision" /\ driver[r] = "hydro" => tma[r] # "failed"

(* run() seen from outside: not yet begun, at work, decided and about to be  *)
(* stored, or answered.                                                      *)
Verdict(r) ==
  CASE pc[r] = "idle" -> "new"
    [] pc[r] = "persist" -> "decided"
    [] outcome[r] = "decision" -> "decision"
    [] outcome[r] \in {"emergency", "fallback", "raised"} -> "refusal"
    [] OTHER -> "working"

Service == INSTANCE DecisionService
  WITH verdict <- [r \in Requests |-> Verdict(r)],
       stored  <- {r \in Requests : row[r] # "none"}

(* The pipeline implements the service promise.  KeepsServicePromise is its *)
(* safety; ImplementsService says besides that every request that has begun *)
(* is decided or refused, however long stage bodies hang and however many   *)
(* workers they hold, when the request threads are fair.  Whether a decided *)
(* request comes back then depends on the database, of which nothing is     *)
(* assumed.                                                                 *)
KeepsServicePromise == Service!Spec
ImplementsService == Service!LiveSpec
=============================================================================
