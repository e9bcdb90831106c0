------------------------- MODULE FloodPipelineProofs -------------------------
(* Safety of FloodPipeline for any number of requests and any pool size.    *)
EXTENDS FloodPipeline, TLAPS

ThreadStates == Stages \union {"idle", "gate", "persist", "done"}

(* Typing facts about the helpers of the stage executor.                    *)
LEMMA EnterStageType ==
  ASSUME TypeOK, NEW r \in Requests, NEW s \in Stages, EnterStage(r, s)
  PROVE  /\ pc' \in [Requests -> ThreadStates]
         /\ fut' \in [Requests -> [Stages -> FutureStates]]
         /\ queue' \in Seq(Jobs)
  BY DEF TypeOK, EnterStage, Submit, FutureStates, ThreadStates, Jobs

LEMMA WaitFailsType ==
  ASSUME TypeOK, NEW r \in Requests, NEW s \in Stages, WaitFails(r, s)
  PROVE  fut' \in [Requests -> [Stages -> FutureStates]] /\ queue' = queue
<1>1. CASE fut' = fut
  BY <1>1 DEF TypeOK, WaitFails
<1>2. CASE fut' = [fut EXCEPT ![r][s] = "cancelled"]
  BY <1>2 DEF TypeOK, WaitFails, FutureStates
<1>3. QED
  BY <1>1, <1>2 DEF WaitFails, Cancel

LEMMA WorkerTakesType ==
  ASSUME TypeOK, WorkerTakes
  PROVE  TypeOK'
<1>1. Head(queue) \in Jobs /\ Tail(queue) \in Seq(Jobs)
  BY DEF TypeOK, WorkerTakes
<1>2. Head(queue)[1] \in Requests /\ Head(queue)[2] \in Stages
  BY <1>1 DEF Jobs
<1>3. fut' \in [Requests -> [Stages -> FutureStates]]
  BY <1>2 DEF TypeOK, WorkerTakes, FutureStates
<1>4. queue' \in Seq(Jobs)
  BY <1>1 DEF WorkerTakes
<1>5. QED
  BY <1>3, <1>4 DEF TypeOK, WorkerTakes, threadVars

(* Every variable keeps its type, for any number of requests and workers.   *)
THEOREM TypeCorrect == Spec => []TypeOK
<1>1. Init => TypeOK
  BY DEF Init, TypeOK, FutureStates, Statuses, Drivers, Outcomes
<1>2. TypeOK /\ [Next]_vars => TypeOK'
  <2> SUFFICES ASSUME TypeOK, [Next]_vars PROVE TypeOK'
    OBVIOUS
  <2> USE DEF ThreadStates
  <2>1. CASE WorkerTakes
    BY <2>1, WorkerTakesType
  <2>2. ASSUME NEW r \in Requests, Begin(r) PROVE TypeOK'
    <3>1. EnterStage(r, "perception") /\ "perception" \in Stages
      BY <2>2 DEF Begin, Stages, DecisionStages
    <3>2. QED
      BY <2>2, <3>1, EnterStageType DEF TypeOK, Begin, threadVars
  <2>3. ASSUME NEW r \in Requests, ThreadStep(r) PROVE TypeOK'
    <3>1. CASE AfterPerception(r)
      <4>1. PICK s \in Stages : EnterStage(r, s)
        BY <3>1 DEF AfterPerception, Stages, DecisionStages
      <4>2. QED
        BY <3>1, <4>1, EnterStageType DEF TypeOK, AfterPerception, threadVars
    <3>2. CASE AfterReasoning(r) \/ AfterEvaluation(r)
      <4>1. PICK s \in Stages : EnterStage(r, s)
        BY <3>2 DEF AfterReasoning, AfterEvaluation, Stages, DecisionStages
      <4>2. QED
        BY <3>2, <4>1, EnterStageType
           DEF TypeOK, AfterReasoning, AfterEvaluation, threadVars
    <3>3. CASE AfterAction(r)
      <4>1. EnterStage(r, "routing") /\ "routing" \in Stages
        BY <3>3 DEF AfterAction, Stages
      <4>2. status' \in [Requests -> Statuses] /\ driver' \in [Requests -> Drivers]
        BY <3>3 DEF AfterAction, TypeOK, Statuses, Drivers
      <4>3. QED
        BY <3>3, <4>1, <4>2, EnterStageType DEF TypeOK, AfterAction
    <3>4. CASE AfterRouting(r)
      BY <3>4 DEF AfterRouting, TypeOK, Drivers
    <3>5. CASE Emergency(r)
      <4>1. PICK s \in Stages : WaitFails(r, s)
        BY <3>5 DEF Emergency, Stages
      <4>2. QED
        BY <3>5, <4>1, WaitFailsType DEF Emergency, TypeOK, Statuses, Drivers, Outcomes
    <3>6. CASE RoutingUnavailable(r)
      <4>1. WaitFails(r, "routing") /\ "routing" \in Stages
        BY <3>6 DEF RoutingUnavailable, Stages
      <4>2. QED
        BY <3>6, <4>1, WaitFailsType DEF RoutingUnavailable, TypeOK
    <3>7. CASE GatePasses(r)
      BY <3>7 DEF GatePasses, TypeOK, Outcomes
    <3>8. CASE GateRejects(r)
      BY <3>8 DEF GateRejects, TypeOK, Outcomes, Statuses, Drivers
    <3>9. CASE PersistOk(r)
      BY <3>9 DEF PersistOk, TypeOK, Outcomes
    <3>10. CASE PersistFails(r)
      <4>1. EscalateStatus(status[r]) \in Statuses
        BY DEF EscalateStatus, TypeOK, Statuses
      <4>2. row' \in [Requests -> Statuses]
        BY <3>10 DEF PersistFails, TypeOK, Statuses
      <4>3. QED
        BY <3>10, <4>1, <4>2 DEF PersistFails, TypeOK, Outcomes
    <3>11. CASE Uncaught(r)
      BY <3>11 DEF Uncaught, TypeOK, Outcomes
    <3>12. QED
      BY <2>3, <3>1, <3>2, <3>3, <3>4, <3>5, <3>6, <3>7, <3>8, <3>9, <3>10, <3>11
         DEF ThreadStep, StageStep, Persist
  <2>4. ASSUME NEW r \in Requests, WorkerStep(r) PROVE TypeOK'
    <3>1. ASSUME NEW s \in Stages, StageBodyEnds(r, s) PROVE TypeOK'
      BY <3>1 DEF StageBodyEnds, TypeOK, FutureStates, threadVars
    <3>2. QED
      BY <2>4, <3>1 DEF WorkerStep
  <2>5. CASE UNCHANGED vars
    BY <2>5 DEF vars, TypeOK
  <2>6. QED
    BY <2>1, <2>2, <2>3, <2>4, <2>5 DEF Next
<1>3. QED
  BY <1>1, <1>2, PTL DEF Spec

-----------------------------------------------------------------------------
(* The inductive invariant.  The listed invariants are not inductive alone: *)
(* that a decision rests on its stages needs to know, at each point of the  *)
(* request thread, which futures have come back already, and that a stored  *)
(* row belongs to a decision needs to know that rows only exist once run()  *)
(* has returned.                                                            *)
StagesBehindThread ==
  \A r \in Requests :
    /\ pc[r] \in {"idle", "perception"} => fut[r]["reasoning"] = "none"
    /\ pc[r] \in {"reasoning", "evaluation", "action"} => fut[r]["perception"] = "ok"
    /\ pc[r] \in {"evaluation", "action"} => fut[r]["reasoning"] \in {"ok", "none"}
    /\ pc[r] = "action" => fut[r]["evaluation"] = "ok"

(* run() has returned exactly when it has an outcome, and only then is      *)
(* there a row; a thread that persists belongs to a persisting pipeline.    *)
OutcomeAtReturn ==
  \A r \in Requests :
    /\ outcome[r] # "none" <=> pc[r] = "done"
    /\ row[r] # "none" => pc[r] = "done"
    /\ pc[r] = "persist" => r \notin Unpersisted

IInv ==
  /\ TypeOK
  /\ NoAbandonedWorkQueued
  /\ StagesBehindThread
  /\ OutcomeAtReturn
  /\ DecisionRestsOnItsStages
  /\ OnlyDecisionsStored

(* All conjuncts speak of one request at a time.                            *)
RequestInv(r) ==
  /\ \A s \in Stages : fut[r][s] = "pending" => pc[r] = s
  /\ pc[r] \in {"idle", "perception"} => fut[r]["reasoning"] = "none"
  /\ pc[r] \in {"reasoning", "evaluation", "action"} => fut[r]["perception"] = "ok"
  /\ pc[r] \in {"evaluation", "action"} => fut[r]["reasoning"] \in {"ok", "none"}
  /\ pc[r] = "action" => fut[r]["evaluation"] = "ok"
  /\ outcome[r] # "none" <=> pc[r] = "done"
  /\ row[r] # "none" => pc[r] = "done"
  /\ pc[r] = "persist" => r \notin Unpersisted
  /\ pc[r] \in {"routing", "gate", "persist"} \/ outcome[r] = "decision" =>
       /\ \A s \in {"perception", "evaluation", "action"} : fut[r][s] = "ok"
       /\ fut[r]["reasoning"] \in {"ok", "none"}
  /\ row[r] # "none" => outcome[r] = "decision" /\ r \notin Unpersisted

LEMMA InvByRequest ==
  IInv <=> TypeOK /\ \A r \in Requests : RequestInv(r)
  BY DEF IInv, RequestInv, NoAbandonedWorkQueued, StagesBehindThread,
         OutcomeAtReturn, DecisionRestsOnItsStages, OnlyDecisionsStored

(* What the executor does to a future: a body nobody has finished moves on, *)
(* and never back into the queue; everything else stays as it was.          *)
LEMMA ExecutorKeepsInv ==
  ASSUME NEW r \in Requests, RequestInv(r),
         pc'[r] = pc[r], outcome'[r] = outcome[r], row'[r] = row[r],
         \A s \in Stages : \/ fut'[r][s] = fut[r][s]
                           \/ /\ fut[r][s] \in {"pending", "running"}
                              /\ fut'[r][s] # "pending"
  PROVE  RequestInv(r)'
  BY DEF RequestInv, Stages, DecisionStages

(* The step of one request does not touch another one.                      *)
LEMMA OtherRequestsKeepInv ==
  ASSUME NEW q \in Requests, RequestInv(q), pc'[q] = pc[q], fut'[q] = fut[q],
         outcome'[q] = outcome[q], row'[q] = row[q]
  PROVE  RequestInv(q)'
  BY DEF RequestInv

LEMMA EnterStageFrame ==
  ASSUME TypeOK, NEW r \in Requests, NEW s \in Stages, EnterStage(r, s)
  PROVE  /\ pc'[r] = s
         /\ fut'[r] = [fut[r] EXCEPT ![s] = "pending"]
         /\ \A q \in Requests \ {r} : pc'[q] = pc[q] /\ fut'[q] = fut[q]
  BY DEF TypeOK, EnterStage, Submit

LEMMA WaitFailsFrame ==
  ASSUME TypeOK, NEW r \in Requests, NEW s \in Stages, WaitFails(r, s)
  PROVE  /\ pc[r] = s
         /\ fut[r][s] # "ok"
         /\ fut'[r][s] # "pending"
         /\ \A t \in Stages \ {s} : fut'[r][t] = fut[r][t]
         /\ \A q \in Requests \ {r} : fut'[q] = fut[q]
<1>1. CASE fut' = fut /\ fut[r][s] # "pending"
  BY <1>1 DEF WaitFails, TimesOut
<1>2. CASE fut' = [fut EXCEPT ![r][s] = "cancelled"] /\ fut[r][s] = "pending"
  BY <1>2 DEF WaitFails, TypeOK
<1>3. QED
  BY <1>1, <1>2 DEF WaitFails, Cancel, TimesOut

THEOREM PipelineSafety == Spec => []IInv
<1>1. Init => IInv
  <2> SUFFICES ASSUME Init PROVE IInv
    OBVIOUS
  <2>1. TypeOK
    BY DEF Init, TypeOK, FutureStates, Statuses, Drivers, Outcomes
  <2>2. \A r \in Requests : RequestInv(r)
    BY DEF Init, RequestInv, Stages, DecisionStages
  <2>3. QED
    BY <2>1, <2>2, InvByRequest
<1>2. IInv /\ TypeOK' /\ [Next]_vars => IInv'
  <2> SUFFICES ASSUME IInv, TypeOK', [Next]_vars PROVE IInv'
    OBVIOUS
  <2>0. /\ TypeOK
        /\ \A r \in Requests : RequestInv(r)
    BY InvByRequest
  <2>inv. ASSUME \A r \in Requests : RequestInv(r)'
          PROVE  IInv'
    BY <2>inv DEF IInv, RequestInv, NoAbandonedWorkQueued, StagesBehindThread,
         OutcomeAtReturn, DecisionRestsOnItsStages, OnlyDecisionsStored
  <2>1. CASE WorkerTakes
    <3>1. Head(queue)[1] \in Requests /\ Head(queue)[2] \in Stages
      <4>1. Head(queue) \in Jobs
        BY <2>0, <2>1 DEF TypeOK, WorkerTakes
      <4>2. QED
        BY <4>1 DEF Jobs
    <3>2. ASSUME NEW r \in Requests PROVE RequestInv(r)'
      <4>1. \A s \in Stages : \/ fut'[r][s] = fut[r][s]
                              \/ /\ fut[r][s] \in {"pending", "running"}
                                 /\ fut'[r][s] # "pending"
        BY <2>0, <2>1, <3>1 DEF WorkerTakes, TypeOK
      <4>2. pc'[r] = pc[r] /\ outcome'[r] = outcome[r] /\ row'[r] = row[r]
        BY <2>1 DEF WorkerTakes, threadVars
      <4>3. QED
        BY <2>0, <4>1, <4>2, ExecutorKeepsInv
    <3>3. QED
      BY <3>2, <2>inv
  <2>2. ASSUME NEW r \in Requests, WorkerStep(r) PROVE IInv'
    <3>1. PICK s \in Stages : StageBodyEnds(r, s)
      BY <2>2 DEF WorkerStep
    <3>2. ASSUME NEW q \in Requests PROVE RequestInv(q)'
      <4>1. \A t \in Stages : \/ fut'[q][t] = fut[q][t]
                              \/ /\ fut[q][t] \in {"pending", "running"}
                                 /\ fut'[q][t] # "pending"
        BY <2>0, <3>1 DEF StageBodyEnds, TypeOK
      <4>2. pc'[q] = pc[q] /\ outcome'[q] = outcome[q] /\ row'[q] = row[q]
        BY <3>1 DEF StageBodyEnds, threadVars
      <4>3. QED
        BY <2>0, <4>1, <4>2, ExecutorKeepsInv
    <3>3. QED
      BY <3>2, <2>inv
  <2>3. ASSUME NEW r \in Requests, Begin(r) \/ ThreadStep(r) PROVE IInv'
    <3>1. ASSUME NEW q \in Requests \ {r} PROVE RequestInv(q)'
      <4>1. \/ \E s \in Stages : EnterStage(r, s)
            \/ (\E s \in Stages : WaitFails(r, s)) /\ pc' = [pc EXCEPT ![r] = pc'[r]]
            \/ fut' = fut /\ pc' = [pc EXCEPT ![r] = pc'[r]]
        BY <2>0, <2>3 DEF Begin, ThreadStep, StageStep, Persist, Uncaught, AfterPerception, AfterReasoning, AfterEvaluation,
           AfterAction, AfterRouting, Emergency, RoutingUnavailable, GatePasses,
           GateRejects, PersistOk, PersistFails, Stages, DecisionStages, TypeOK
      <4>2. pc'[q] = pc[q] /\ fut'[q] = fut[q]
        BY <2>0, <4>1, EnterStageFrame, WaitFailsFrame DEF TypeOK
      <4>3. outcome'[q] = outcome[q] /\ row'[q] = row[q]
        BY <2>0, <2>3 DEF Begin, ThreadStep, StageStep, Persist, Uncaught, AfterPerception, AfterReasoning, AfterEvaluation,
           AfterAction, AfterRouting, Emergency, RoutingUnavailable, GatePasses,
           GateRejects, PersistOk, PersistFails, threadVars, TypeOK
      <4>4. QED
        BY <2>0, <4>2, <4>3, OtherRequestsKeepInv
    <3>2. RequestInv(r)'
      <4>0. RequestInv(r) /\ TypeOK
        BY <2>0
      <4>a. ASSUME NEW s \in Stages, EnterStage(r, s), UNCHANGED <<outcome, row>>
            PROVE  /\ pc'[r] = s /\ outcome'[r] = outcome[r] /\ row'[r] = row[r]
                   /\ fut'[r][s] = "pending"
                   /\ \A t \in Stages \ {s} : fut'[r][t] = fut[r][t]
        BY <4>0, <4>a, EnterStageFrame DEF TypeOK
      <4>1. CASE Begin(r)
        <5>1. EnterStage(r, "perception") /\ pc[r] = "idle" /\ UNCHANGED <<outcome, row>>
          BY <4>1 DEF Begin, threadVars
        <5>2. QED
          BY <4>0, <4>a, <5>1 DEF RequestInv, Stages, DecisionStages
      <4>2. CASE AfterPerception(r)
        <5>1. PICK s \in {"reasoning", "evaluation"} : EnterStage(r, s)
          BY <4>2 DEF AfterPerception
        <5>2. pc[r] = "perception" /\ fut[r]["perception"] = "ok" /\ UNCHANGED <<outcome, row>>
          BY <4>2 DEF AfterPerception, Returned, threadVars
        <5>3. QED
          BY <4>0, <4>a, <5>1, <5>2 DEF RequestInv, Stages, DecisionStages
      <4>3. CASE AfterReasoning(r)
        <5>1. EnterStage(r, "evaluation") /\ UNCHANGED <<outcome, row>>
          BY <4>3 DEF AfterReasoning, threadVars
        <5>2. pc[r] = "reasoning" /\ fut[r]["reasoning"] = "ok"
          BY <4>3 DEF AfterReasoning, Returned
        <5>3. QED
          BY <4>0, <4>a, <5>1, <5>2 DEF RequestInv, Stages, DecisionStages
      <4>4. CASE AfterEvaluation(r)
        <5>1. EnterStage(r, "action") /\ UNCHANGED <<outcome, row>>
          BY <4>4 DEF AfterEvaluation, threadVars
        <5>2. pc[r] = "evaluation" /\ fut[r]["evaluation"] = "ok"
          BY <4>4 DEF AfterEvaluation, Returned
        <5>3. QED
          BY <4>0, <4>a, <5>1, <5>2 DEF RequestInv, Stages, DecisionStages
      <4>5. CASE AfterAction(r)
        <5>1. EnterStage(r, "routing") /\ UNCHANGED <<outcome, row>>
          BY <4>5 DEF AfterAction
        <5>2. pc[r] = "action" /\ fut[r]["action"] = "ok"
          BY <4>5 DEF AfterAction, Returned
        <5>3. QED
          BY <4>0, <4>a, <5>1, <5>2 DEF RequestInv, Stages, DecisionStages
      <4>6. CASE AfterRouting(r)
        <5>1. /\ pc[r] = "routing" /\ fut[r]["routing"] = "ok" /\ pc'[r] = "gate"
              /\ UNCHANGED <<fut, outcome, row>>
          BY <4>0, <4>6 DEF AfterRouting, Returned, TypeOK
        <5>2. QED
          BY <4>0, <5>1 DEF RequestInv, Stages, DecisionStages
      <4>w. ASSUME NEW s \in Stages, WaitFails(r, s)
            PROVE  /\ pc[r] = s /\ fut'[r][s] # "pending"
                   /\ \A t \in Stages \ {s} : fut'[r][t] = fut[r][t]
        BY <4>0, <4>w, WaitFailsFrame
      <4>7. CASE RoutingUnavailable(r)
        <5>1. WaitFails(r, "routing") /\ pc'[r] = "gate" /\ UNCHANGED <<outcome, row>>
          BY <4>0, <4>7 DEF RoutingUnavailable, TypeOK
        <5>2. QED
          BY <4>0, <4>w, <5>1 DEF RequestInv, Stages, DecisionStages
      <4>8. CASE Emergency(r)
        <5>1. PICK s \in DecisionStages : WaitFails(r, s)
          BY <4>8 DEF Emergency
        <5>2. pc'[r] = "done" /\ outcome'[r] = "emergency" /\ row' = row
          BY <4>0, <4>8 DEF Emergency, TypeOK
        <5>3. /\ s \in Stages /\ pc[r] = s /\ fut'[r][s] # "pending"
              /\ \A t \in Stages \ {s} : fut'[r][t] = fut[r][t]
          BY <4>w, <5>1 DEF Stages
        <5>4. row[r] = "none"
          BY <4>0, <5>1, <5>3 DEF RequestInv, DecisionStages
        <5>5. \A t \in Stages : fut'[r][t] # "pending"
          BY <4>0, <5>3 DEF RequestInv
        <5>6. QED
          BY <5>2, <5>4, <5>5 DEF RequestInv
      <4>9. CASE GatePasses(r)
        <5>1. /\ pc[r] = "gate" /\ UNCHANGED <<fut, row>>
              /\ \/ r \in Unpersisted /\ pc'[r] = "done" /\ outcome'[r] = "decision"
                 \/ r \notin Unpersisted /\ pc'[r] = "persist" /\ outcome' = outcome
          BY <4>0, <4>9 DEF GatePasses, TypeOK
        <5>2. QED
          BY <4>0, <5>1 DEF RequestInv, Stages, DecisionStages
      <4>10. CASE GateRejects(r)
        <5>1. /\ pc[r] = "gate" /\ UNCHANGED <<fut, row>> /\ pc'[r] = "done"
              /\ outcome'[r] \in {"raised", "fallback"}
          BY <4>0, <4>10 DEF GateRejects, TypeOK
        <5>2. QED
          BY <4>0, <5>1 DEF RequestInv, Stages, DecisionStages
      <4>11. CASE PersistOk(r) \/ PersistFails(r)
        <5>1. /\ pc[r] = "persist" /\ UNCHANGED fut /\ pc'[r] = "done"
              /\ outcome'[r] = "decision"
          BY <4>0, <4>11 DEF PersistOk, PersistFails, TypeOK
        <5>2. QED
          BY <4>0, <5>1 DEF RequestInv, Stages, DecisionStages
      <4>12. CASE Uncaught(r)
        <5>1. /\ UNCHANGED <<fut, row>> /\ pc'[r] = "done" /\ outcome'[r] = "raised"
              /\ \/ pc[r] = "perception" /\ fut[r]["perception"] = "ok"
                 \/ pc[r] = "gate"
          BY <4>0, <4>12 DEF Uncaught, Returned, TypeOK
        <5>2. QED
          BY <4>0, <5>1 DEF RequestInv, Stages, DecisionStages
      <4>13. QED
        BY <2>3, <4>1, <4>2, <4>3, <4>4, <4>5, <4>6, <4>7, <4>8, <4>9, <4>10, <4>11, <4>12
           DEF ThreadStep, StageStep, Persist
    <3>3. QED
      BY <3>1, <3>2, <2>inv
  <2>4. CASE UNCHANGED vars
    <3>1. ASSUME NEW q \in Requests PROVE RequestInv(q)'
      BY <2>0, <2>4, OtherRequestsKeepInv DEF vars
    <3>2. QED
      BY <3>1, <2>inv
  <2>5. QED
    BY <2>1, <2>2, <2>3, <2>4 DEF Next
<1>3. QED
  BY <1>1, <1>2, TypeCorrect, PTL DEF Spec
-----------------------------------------------------------------------------
(* The named invariants of the runs, each for every value of the constants. *)

(* A timed-out request never leaves work in the executor queue.             *)
THEOREM AbandonedWorkNeverQueued == Spec => []NoAbandonedWorkQueued
BY PipelineSafety, PTL DEF IInv

(* A decision rests on stages that all came back.                           *)
THEOREM DecisionsRestOnStages == Spec => []DecisionRestsOnItsStages
BY PipelineSafety, PTL DEF IInv

(* Only decisions are stored in pipeline_runs.                              *)
THEOREM StoredAreDecisions == Spec => []OnlyDecisionsStored
BY PipelineSafety, PTL DEF IInv

(* A step of run() belongs to a request that is not done, and to it alone.  *)
LEMMA ThreadStepFrame ==
  ASSUME TypeOK, NEW r \in Requests, Begin(r) \/ ThreadStep(r)
  PROVE  /\ pc[r] # "done"
         /\ \A q \in Requests \ {r} :
              /\ pc'[q] = pc[q]
              /\ status'[q] = status[q] /\ driver'[q] = driver[q] /\ tma'[q] = tma[q]
              /\ outcome'[q] = outcome[q] /\ row'[q] = row[q]
<1> USE DEF TypeOK, threadVars
<1>1. CASE Begin(r) \/ AfterPerception(r) \/ AfterReasoning(r) \/ AfterEvaluation(r)
  BY <1>1 DEF Begin, AfterPerception, AfterReasoning, AfterEvaluation, EnterStage, Returned
<1>2. CASE AfterAction(r) \/ AfterRouting(r)
  BY <1>2 DEF AfterAction, AfterRouting, EnterStage, Returned
<1>3. CASE Emergency(r)
  BY <1>3 DEF Emergency, WaitFails, DecisionStages
<1>4. CASE RoutingUnavailable(r) \/ GatePasses(r)
  BY <1>4 DEF RoutingUnavailable, WaitFails, GatePasses
<1>5. CASE GateRejects(r) \/ Uncaught(r)
  BY <1>5 DEF GateRejects, Uncaught, Returned
<1>6. CASE PersistOk(r) \/ PersistFails(r)
  BY <1>6 DEF PersistOk, PersistFails
<1>7. QED
  BY <1>1, <1>2, <1>3, <1>4, <1>5, <1>6 DEF ThreadStep, StageStep, Persist

(* Once run() has returned, neither its answer nor its row ever changes,    *)
(* whatever bodies end later.                                               *)
THEOREM AnswersAreFinal == Spec => AnswerIsFinal
<1> DEFINE Kept == \A r \in Requests : pc[r] = "done" =>
      /\ pc'[r] = "done"
      /\ <<status[r], driver[r], tma[r], outcome[r], row[r]>>'
           = <<status[r], driver[r], tma[r], outcome[r], row[r]>>
<1>1. TypeOK /\ [Next]_vars => Kept \/ UNCHANGED vars
  <2> SUFFICES ASSUME TypeOK, Next PROVE Kept
    BY DEF Kept
  <2>1. ASSUME NEW r \in Requests, Begin(r) \/ ThreadStep(r) PROVE Kept
    BY <2>1, ThreadStepFrame
  <2>2. CASE WorkerTakes \/ \E r \in Requests : WorkerStep(r)
    BY <2>2 DEF WorkerTakes, WorkerStep, StageBodyEnds, threadVars
  <2>3. QED
    BY <2>1, <2>2 DEF Next
<1>2. QED
  BY <1>1, TypeCorrect, PTL DEF Spec, AnswerIsFinal
-----------------------------------------------------------------------------
(* The driver is settled before routing says anything of TMA, and no later  *)
(* step brings a hydrology-dominant one back.                               *)
TmaFollowsDriver ==
  \A r \in Requests :
    /\ tma[r] # "none" => pc[r] \in {"gate", "persist", "done"}
    /\ tma[r] = "failed" => driver[r] # "hydro"

LEMMA ThreadStepTma ==
  ASSUME TypeOK, TmaFollowsDriver, NEW r \in Requests, Begin(r) \/ ThreadStep(r)
  PROVE  TmaFollowsDriver'
<1> SUFFICES /\ tma'[r] # "none" => pc'[r] \in {"gate", "persist", "done"}
             /\ tma'[r] = "failed" => driver'[r] # "hydro"
  BY ThreadStepFrame DEF TmaFollowsDriver
<1> USE DEF TypeOK, TmaFollowsDriver, threadVars
<1>1. CASE Begin(r) \/ AfterPerception(r) \/ AfterReasoning(r) \/ AfterEvaluation(r)
  BY <1>1 DEF Begin, AfterPerception, AfterReasoning, AfterEvaluation, EnterStage, Returned
<1>2. CASE AfterAction(r)
  BY <1>2 DEF AfterAction, EnterStage, Returned
<1>3. CASE AfterRouting(r)
  BY <1>3 DEF AfterRouting
<1>4. CASE Emergency(r)
  BY <1>4 DEF Emergency
<1>5. CASE RoutingUnavailable(r)
  BY <1>5 DEF RoutingUnavailable
<1>6. CASE GatePasses(r) \/ GateRejects(r) \/ Uncaught(r)
  BY <1>6 DEF GatePasses, GateRejects, Uncaught
<1>7. CASE PersistOk(r) \/ PersistFails(r)
  BY <1>7 DEF PersistOk, PersistFails
<1>8. QED
  BY <1>1, <1>2, <1>3, <1>4, <1>5, <1>6, <1>7 DEF ThreadStep, StageStep, Persist

(* No decision names a hydrology-dominant driver next to a TMA failure.     *)
THEOREM HydrologyNeverUnverified == Spec => []HydrologyRestsOnTma
<1>1. Init => TmaFollowsDriver
  BY DEF Init, TmaFollowsDriver
<1>2. TypeOK /\ TmaFollowsDriver /\ [Next]_vars => TmaFollowsDriver'
  <2>1. ASSUME TmaFollowsDriver, WorkerTakes \/ (\E r \in Requests : WorkerStep(r)) \/ UNCHANGED vars
        PROVE  TmaFollowsDriver'
    BY <2>1 DEF TmaFollowsDriver, WorkerTakes, WorkerStep, StageBodyEnds,
                threadVars, vars
  <2>2. QED
    BY <2>1, ThreadStepTma DEF Next
<1>3. TmaFollowsDriver => HydrologyRestsOnTma
  BY DEF TmaFollowsDriver, HydrologyRestsOnTma
<1>4. QED
  BY <1>1, <1>2, <1>3, TypeCorrect, PTL DEF Spec
-----------------------------------------------------------------------------
(* Before the action stage has come back a request has no status yet.       *)
StatusComesLate ==
  \A r \in Requests : pc[r] \notin {"routing", "gate", "persist", "done"} => status[r] = "none"

SeverityKept(r) == Severity(status'[r]) >= Severity(status[r])

LEMMA SeverityRange ==
  /\ \A st : Severity(st) \in 0..6
  /\ Severity("none") = 0 /\ Severity("OK") = 1 /\ Severity("DEGRADED") = 2
  /\ Severity("PIPELINE_FAILURE") = 6
  BY DEF Severity

(* Only the request's own thread touches its status, and never to make it   *)
(* look better: the first status replaces none, a failure is the worst of   *)
(* all, and what a failed write does to OK it does to nothing else.         *)
LEMMA ThreadStepSeverity ==
  ASSUME TypeOK, StatusComesLate, NEW r \in Requests, Begin(r) \/ ThreadStep(r)
  PROVE  StatusComesLate' /\ SeverityKept(r)
<1> SUFFICES /\ pc'[r] \notin {"routing", "gate", "persist", "done"} => status'[r] = "none"
             /\ Severity(status'[r]) >= Severity(status[r])
  BY ThreadStepFrame DEF StatusComesLate, SeverityKept
<1>0. /\ Severity(status[r]) \in 0..6
      /\ pc[r] \notin {"routing", "gate", "persist", "done"} => status[r] = "none"
  BY SeverityRange DEF StatusComesLate
<1>1. CASE Begin(r) \/ AfterPerception(r) \/ AfterReasoning(r) \/ AfterEvaluation(r)
  <2>1. /\ pc[r] \notin {"routing", "gate", "persist", "done"} /\ status' = status
    BY <1>1 DEF Begin, AfterPerception, AfterReasoning, AfterEvaluation, Returned, threadVars
  <2>2. QED
    BY <1>0, <2>1
<1>2. CASE AfterAction(r)
  <2>1. pc[r] = "action" /\ pc'[r] = "routing"
    BY <1>2 DEF AfterAction, EnterStage, Returned, TypeOK
  <2>2. Severity(status[r]) = 0 /\ Severity(status'[r]) \in 0..6
    BY <1>0, <2>1, SeverityRange
  <2>3. QED
    BY <2>1, <2>2
<1>3. CASE AfterRouting(r) \/ RoutingUnavailable(r) \/ GatePasses(r) \/ PersistOk(r)
  <2>1. status' = status /\ pc[r] \in {"routing", "gate", "persist"}
        /\ pc'[r] \in {"gate", "persist", "done"}
    BY <1>3 DEF AfterRouting, RoutingUnavailable, GatePasses, PersistOk, WaitFails, Returned, TypeOK
  <2>2. QED
    BY <1>0, <2>1
<1>4. CASE Emergency(r)
  <2>1. status'[r] = "PIPELINE_FAILURE" /\ pc'[r] = "done"
    BY <1>4 DEF Emergency, TypeOK
  <2>2. QED
    BY <1>0, <2>1, SeverityRange
<1>5. CASE GateRejects(r) \/ Uncaught(r)
  <2>1. pc'[r] = "done" /\ (status'[r] = status[r] \/ status'[r] = "PIPELINE_FAILURE")
    BY <1>5 DEF GateRejects, Uncaught, TypeOK
  <2>2. QED
    BY <1>0, <2>1, SeverityRange
<1>6. CASE PersistFails(r)
  <2>1. pc'[r] = "done" /\ status'[r] = EscalateStatus(status[r])
    BY <1>6 DEF PersistFails, TypeOK
  <2>2. \/ status'[r] = status[r]
        \/ status[r] = "OK" /\ status'[r] = "DEGRADED"
    BY <2>1 DEF EscalateStatus
  <2>3. QED
    BY <1>0, <2>1, <2>2, SeverityRange
<1>7. QED
  BY <1>1, <1>2, <1>3, <1>4, <1>5, <1>6 DEF ThreadStep, StageStep, Persist

(* After the evaluation no step makes a system status look better than it   *)
(* was, the write of the row that fails included.                           *)
THEOREM SeverityIsKept == Spec => SeverityNeverDrops
<1>1. Init => StatusComesLate
  BY DEF Init, StatusComesLate
<1>2. TypeOK /\ StatusComesLate /\ [Next]_vars =>
        StatusComesLate' /\ \A r \in Requests : SeverityKept(r)
  <2> SUFFICES ASSUME TypeOK, StatusComesLate, [Next]_vars
               PROVE  StatusComesLate' /\ \A r \in Requests : SeverityKept(r)
    OBVIOUS
  <2>1. ASSUME NEW r \in Requests, status'[r] = status[r] PROVE SeverityKept(r)
    <3>1. Severity(status[r]) \in 0..6
      BY SeverityRange
    <3>2. QED
      BY <2>1, <3>1 DEF SeverityKept
  <2>2. ASSUME NEW r \in Requests, Begin(r) \/ ThreadStep(r)
        PROVE  StatusComesLate' /\ \A q \in Requests : SeverityKept(q)
    <3>1. \A q \in Requests \ {r} : SeverityKept(q)
      BY <2>1, <2>2, ThreadStepFrame
    <3>2. QED
      BY <2>2, <3>1, ThreadStepSeverity
  <2>3. CASE (WorkerTakes \/ \E r \in Requests : WorkerStep(r)) \/ UNCHANGED vars
    <3>1. UNCHANGED <<pc, status>>
      BY <2>3 DEF WorkerTakes, WorkerStep, StageBodyEnds, threadVars, vars
    <3>2. StatusComesLate'
      BY <3>1 DEF StatusComesLate
    <3>3. QED
      BY <2>1, <3>1, <3>2
  <2>4. QED
    BY <2>2, <2>3 DEF Next
<1>3. (\A r \in Requests : SeverityKept(r))
        => \A r \in Requests : Severity(status'[r]) >= Severity(status[r])
  BY DEF SeverityKept
<1>4. QED
  BY <1>1, <1>2, <1>3, TypeCorrect, PTL DEF Spec, SeverityNeverDrops
-----------------------------------------------------------------------------
(* The refinement.  Seen from outside, a step of run() leaves the request   *)
(* where it was, accepts it, decides it, or answers it; only the answer to  *)
(* a decided request may come with a row.                                   *)
RequestAdvances(r) ==
  \/ /\ Verdict(r) = "new" /\ Verdict(r)' = "working"
     /\ row'[r] = row[r]
  \/ Verdict(r)' = Verdict(r) /\ row'[r] = row[r]
  \/ /\ Verdict(r) = "working" /\ Verdict(r)' \in {"decided", "decision"}
     /\ row'[r] = row[r]
  \/ /\ Verdict(r) = "decided" /\ Verdict(r)' = "decision"
     /\ row[r] = "none"
  \/ /\ Verdict(r) = "working" /\ Verdict(r)' = "refusal"
     /\ row'[r] = row[r]

LEMMA ThreadStepAdvances ==
  ASSUME IInv, NEW r \in Requests, Begin(r) \/ ThreadStep(r)
  PROVE  RequestAdvances(r)
<1>0. TypeOK /\ RequestInv(r)
  BY InvByRequest
<1>1. CASE Begin(r)
  <2>1. pc[r] = "idle" /\ pc'[r] = "perception" /\ UNCHANGED <<outcome, row>>
    BY <1>0, <1>1 DEF Begin, EnterStage, TypeOK, threadVars
  <2>2. QED
    BY <1>0, <2>1 DEF RequestInv, Verdict, RequestAdvances
<1>2. CASE AfterPerception(r) \/ AfterReasoning(r) \/ AfterEvaluation(r) \/ AfterAction(r)
  <2>1. pc[r] \in DecisionStages /\ pc'[r] \in Stages /\ UNCHANGED <<outcome, row>>
    BY <1>0, <1>2 DEF AfterPerception, AfterReasoning, AfterEvaluation, AfterAction,
       EnterStage, Returned, TypeOK, threadVars, Stages, DecisionStages
  <2>2. QED
    BY <1>0, <2>1 DEF RequestInv, Verdict, RequestAdvances, Stages, DecisionStages
<1>3. CASE AfterRouting(r) \/ RoutingUnavailable(r)
  <2>1. pc[r] = "routing" /\ pc'[r] = "gate" /\ UNCHANGED <<outcome, row>>
    BY <1>0, <1>3 DEF AfterRouting, RoutingUnavailable, WaitFails, Returned, TypeOK
  <2>2. QED
    BY <1>0, <2>1 DEF RequestInv, Verdict, RequestAdvances
<1>4. CASE Emergency(r)
  <2>1. pc[r] \in DecisionStages /\ outcome'[r] = "emergency" /\ pc'[r] = "done" /\ row' = row
    BY <1>0, <1>4 DEF Emergency, WaitFails, TypeOK
  <2>2. QED
    BY <1>0, <2>1 DEF RequestInv, Verdict, RequestAdvances, DecisionStages
<1>5. CASE GatePasses(r)
  <2>1. /\ pc[r] = "gate" /\ row' = row
        /\ \/ pc'[r] = "done" /\ outcome'[r] = "decision"
           \/ pc'[r] = "persist" /\ outcome' = outcome
    BY <1>0, <1>5 DEF GatePasses, TypeOK
  <2>2. QED
    BY <1>0, <2>1 DEF RequestInv, Verdict, RequestAdvances
<1>6. CASE GateRejects(r) \/ Uncaught(r)
  <2>1. /\ pc[r] \in {"perception", "gate"} /\ row' = row /\ pc'[r] = "done"
        /\ outcome'[r] \in {"raised", "fallback"}
    BY <1>0, <1>6 DEF GateRejects, Uncaught, Returned, TypeOK
  <2>2. QED
    BY <1>0, <2>1 DEF RequestInv, Verdict, RequestAdvances
<1>7. CASE PersistOk(r) \/ PersistFails(r)
  <2>1. pc[r] = "persist" /\ pc'[r] = "done" /\ outcome'[r] = "decision"
    BY <1>0, <1>7 DEF PersistOk, PersistFails, TypeOK
  <2>2. QED
    BY <1>0, <2>1 DEF RequestInv, Verdict, RequestAdvances
<1>8. QED
  BY <1>1, <1>2, <1>3, <1>4, <1>5, <1>6, <1>7 DEF ThreadStep, StageStep, Persist

LEMMA AdvanceIsServiceStep ==
  ASSUME NEW r \in Requests, RequestAdvances(r),
         \A q \in Requests \ {r} : Verdict(q)' = Verdict(q) /\ row'[q] = row[q]
  PROVE  [Service!Next]_Service!serviceVars
<1> DEFINE verdict == [q \in Requests |-> Verdict(q)]
           stored  == {q \in Requests : row[q] # "none"}
<1>1. verdict' = [verdict EXCEPT ![r] = Verdict(r)']
  OBVIOUS
<1>2. CASE row'[r] = row[r]
  <2>1. stored' = stored
    BY <1>2
  <2>2. CASE Verdict(r)' = Verdict(r)
    BY <2>1, <2>2, <1>1 DEF Service!serviceVars
  <2>3. CASE Verdict(r)' # Verdict(r)
    BY <2>1, <2>3, <1>1 DEF RequestAdvances, Service!Next, Service!Accept, Service!Decide, Service!Store, Service!Refuse
  <2>4. QED
    BY <2>2, <2>3
<1>3. CASE row'[r] # row[r]
  <2>1. Verdict(r) = "decided" /\ Verdict(r)' = "decision" /\ row[r] = "none"
    BY <1>3 DEF RequestAdvances
  <2>2. stored' = stored \union {r}
    BY <1>3, <2>1
  <2>3. QED
    BY <2>1, <2>2, <1>1 DEF Service!Next, Service!Store
<1>4. QED
  BY <1>2, <1>3

(* run() implements the service promise: one answer per request, and a row  *)
(* only together with a decision.                                           *)
THEOREM PipelineImplementsService == Spec => KeepsServicePromise
<1>1. Init => Service!Init
  BY DEF Init, Service!Init, Verdict
<1>2. IInv /\ [Next]_vars => [Service!Next]_Service!serviceVars
  <2> SUFFICES ASSUME IInv, [Next]_vars PROVE [Service!Next]_Service!serviceVars
    OBVIOUS
  <2>1. ASSUME NEW r \in Requests, Begin(r) \/ ThreadStep(r)
        PROVE  [Service!Next]_Service!serviceVars
    <3>1. TypeOK
      BY DEF IInv
    <3>2. \A q \in Requests \ {r} : Verdict(q)' = Verdict(q) /\ row'[q] = row[q]
      BY <2>1, <3>1, ThreadStepFrame DEF Verdict
    <3>3. QED
      BY <2>1, <3>2, ThreadStepAdvances, AdvanceIsServiceStep
  <2>2. CASE (WorkerTakes \/ \E r \in Requests : WorkerStep(r)) \/ UNCHANGED vars
    <3>1. UNCHANGED <<pc, outcome, row>>
      BY <2>2 DEF WorkerTakes, WorkerStep, StageBodyEnds, threadVars, vars
    <3>2. QED
      BY <3>1 DEF Service!serviceVars, Verdict
  <2>3. QED
    BY <2>1, <2>2 DEF Next
<1>3. QED
  BY <1>1, <1>2, PipelineSafety, PTL DEF Spec, KeepsServicePromise, Service!Spec
=============================================================================
