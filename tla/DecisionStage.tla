----------------------------- MODULE DecisionStage -----------------------------
(***************************************************************************)
(* The way of one decision from the evaluation stage, which asks the       *)
(* engine (Decision), through the action stage, which derives the metadata *)
(* and validates them, to the routing stage, which adds its own failure.   *)
(***************************************************************************)
EXTENDS Decision

CONSTANT Evidence    \* the snapshots considered

ASSUME EvidenceAssumption == Evidence \subseteq EvidenceType

VARIABLES
  evidence,   \* what perception and reasoning made of the snapshot
  pc,         \* the stage the request is in
  decision,   \* DecisionResult, as the evaluation stage adopts it
  answer      \* the output record

vars == <<evidence, pc, decision, answer>>

Authorities ==
  {"none", "failsafe", "L0_PHYSICAL", "L1_SIAGA", "L1_5_MULTI", "L1_7_BMKG_SAFETY_FLOOR",
   "L2_INTEGRITY", "L3_ML", "L4_TREND"}

NoDecision == [risk |-> "UNKNOWN", status |-> "OK", authority |-> "none"]
NoAnswer   == [risk |-> "UNKNOWN", status |-> "OK", validity |-> "VALID", reason |-> "RISK",
               mode |-> "FULL", automated |-> FALSE, failures |-> {}, routing |-> {}]

Init ==
  /\ evidence \in Evidence
  /\ pc = "evaluation" /\ decision = NoDecision /\ answer = NoAnswer

Evaluate ==
  /\ pc = "evaluation"
  /\ decision' = Engine(evidence)
  /\ pc' = "action"
  /\ UNCHANGED <<evidence, answer>>

(* The engine raises.  The seed of failsafe_decision is WARNING, or UNKNOWN *)
(* after a critical violation, and never DANGER.                            *)
Failsafe == [risk |-> "WARNING", status |-> "DEGRADED", authority |-> "failsafe"]
EngineFails ==
  /\ pc = "evaluation"
  /\ decision' = Failsafe
  /\ pc' = "action"
  /\ UNCHANGED <<evidence, answer>>

-----------------------------------------------------------------------------
(* The action stage                                                         *)

AnyHigh(F) == \E f \in F : IsHigh(f)

Validity(e) ==
  IF e.critical \/ \E f \in Failures(e) : f.type = "implausible_input" /\ IsHigh(f)
  THEN "INVALID" ELSE "VALID"

(* Mutant: the reason goes by the status.                                   *)
ReasonByStatus(d) == IF d.status \in {"FAIL", "CONFLICT"} THEN "INVALID_INPUT" ELSE "RISK"
Reason(d) ==
  IF d.status = "PIPELINE_FAILURE" THEN "FALLBACK"
  ELSE IF d.authority = "L0_PHYSICAL" THEN "INVALID_INPUT" ELSE "RISK"
Mode(d) == IF Reason(d) = "RISK" THEN "FULL" ELSE "SHADOW_ONLY"

(* is_safe_for_automation.  Mutant: the failures are not looked at.         *)
AutomatedByStatus(e, d) ==
  Validity(e) = "VALID" /\ Reason(d) = "RISK" /\ d.status \in {"OK", "DEGRADED"}
Automated(e, d) ==
  /\ Validity(e) = "VALID" /\ Reason(d) = "RISK" /\ Mode(d) = "FULL"
  /\ d.status \in {"OK", "DEGRADED"}
  /\ ~AnyHigh(Failures(e))

Output(e, d) ==
  [risk |-> d.risk, status |-> d.status, validity |-> Validity(e), reason |-> Reason(d),
   mode |-> Mode(d), automated |-> Automated(e, d), failures |-> Failures(e), routing |-> {}]

(* validate_decision_meta, its invariants 1 to 9.  Mutant: nothing is asked *)
(* of INVALID data.                                                         *)
ContractIgnoresValidity(a) ==
  /\ a.reason = "INVALID_INPUT" => a.mode = "SHADOW_ONLY" /\ a.risk \in {"UNKNOWN", "WARNING"}
  /\ a.reason = "FALLBACK" => a.status = "PIPELINE_FAILURE"
Contract(a) ==
  /\ a.validity = "INVALID" => ~a.automated /\ a.reason # "RISK" /\ a.mode = "SHADOW_ONLY"
  /\ a.reason = "INVALID_INPUT" =>
       a.validity = "INVALID" /\ a.mode = "SHADOW_ONLY" /\ a.risk \in {"UNKNOWN", "WARNING"}
  /\ a.reason = "FALLBACK" => a.status = "PIPELINE_FAILURE"
  /\ a.reason = "RISK" => a.validity = "VALID"
  /\ a.automated => a.mode = "FULL" /\ a.status \in {"OK", "DEGRADED"}

Act ==
  /\ pc = "action"
  /\ LET a == Output(evidence, decision) IN
       IF Contract(a) THEN answer' = a /\ pc' = "routing"
                      ELSE pc' = "refused" /\ UNCHANGED answer
  /\ UNCHANGED <<evidence, decision>>

(* The routing stage fetches the TMA and reports on it in a list of its     *)
(* own; the metadata stay as they are.                                      *)
TmaFailure(status) ==
       When(status = "DEGRADED", Failure("external_source_unreliable", "medium", FALSE))
  \cup When(status = "INVALID", Failure("external_source_unreliable", "high", FALSE))
Route ==
  /\ pc = "routing"
  /\ \E status \in {"OK", "DEGRADED", "INVALID"} :
       answer' = [answer EXCEPT !.routing = TmaFailure(status)]
  /\ pc' = "answered"
  /\ UNCHANGED <<evidence, decision>>

Next == Evaluate \/ EngineFails \/ Act \/ Route

Spec == Init /\ [][Next]_vars
-----------------------------------------------------------------------------
(* Properties                                                               *)

Answered == pc \in {"routing", "answered"}
Failed   == decision.authority = "failsafe"

(* Every variable stays within its range.                                   *)
TypeOK ==
  /\ evidence \in EvidenceType
  /\ pc \in {"evaluation", "action", "refused", "routing", "answered"}
  /\ decision \in [risk : RiskLevels, status : Statuses, authority : Authorities]
  /\ answer \in [risk : RiskLevels, status : Statuses, validity : {"VALID", "INVALID"},
                 reason : {"RISK", "INVALID_INPUT", "FALLBACK"}, mode : {"FULL", "SHADOW_ONLY"},
                 automated : BOOLEAN, failures : SUBSET FailureType, routing : SUBSET FailureType]

(* The levels the alarms of a snapshot call for, each on its own account.   *)
(* The code lets one alarm silence another in two places, which are         *)
(* written here where they act: the BMKG floor answers for the model and    *)
(* the trend, and the two overrides from SAFE to WARNING are not asked      *)
(* once a severe failure has escalated SAFE.                                *)
Unescalated(e) == MLClass(e) = "SAFE" /\ ~SevereFailure(e)
WarningRaised(e) ==
  \/ MLClass(e) = "WARNING"
  \/ MLClass(e) = "PRE_ALERT" /\ SevereFailure(e)
  \/ Unescalated(e) /\ (e.hydrology = 2 \/ Converging(e))
DangerRaised(e) ==
  \/ MLClass(e) = "DANGER"
  \/ MLClass(e) = "WARNING" /\ SevereFailure(e)
  \/ WarningRaised(e) /\ e.sustained
Alarms(e) ==
       When(PhysicalGate(e) \/ (DangerRaised(e) /\ ~SafetyFloor(e)), "DANGER")
  \cup When(SafetyFloor(e) \/ WarningRaised(e), "WARNING")
  \cup When(MLClass(e) # "SAFE" \/ SevereFailure(e) \/ Rising(e), "PRE_ALERT")
  \cup When(e.elevation = "below" /\ Wet(e), "PRE_ALERT")

(* Low ground in heavy rain raises what all the alarms call for by a level. *)
Lifted(e, r) == IF e.elevation = "low" /\ Heavy(e) THEN Next1[r] ELSE r

(* Every alarm, of every layer, is heard in the answer at its level or a    *)
(* higher one: no layer, override, elevation or failsafe on the way out     *)
(* loses it.  An answer to valid input of a snapshot without an alarm is    *)
(* at least SAFE, and an engine that fails answers no less than WARNING.    *)
AlarmsAreHeard ==
  Answered =>
    IF Failed THEN Rank[answer.risk] >= Rank["WARNING"]
    ELSE ~InvalidInput(evidence) =>
           \A r \in Alarms(evidence) \cup {"SAFE"} :
             Rank[answer.risk] >= Rank[Lifted(evidence, r)]

(* A snapshot with a physical impossibility is never acted upon, even when  *)
(* the engine fails: it is refused, or answered UNKNOWN, invalid and out of *)
(* automation.                                                              *)
InvalidNeverActs ==
  Answered /\ evidence.critical =>
    /\ answer.risk = "UNKNOWN" /\ answer.reason = "INVALID_INPUT"
    /\ answer.validity = "INVALID" /\ ~answer.automated

(* The contract turns no sound request away: what it refuses had its data   *)
(* rejected by the engine though nothing marked them INVALID, or marked     *)
(* INVALID when the engine failed.                                          *)
SoundRequestsAnswered ==
  pc = "refused" =>
    \/ InvalidInput(evidence) /\ ~Failed /\ Validity(evidence) = "VALID"
    \/ Failed /\ Validity(evidence) = "INVALID"

(* DEGRADED is eligible for automation, yet an engine that works never      *)
(* calls for it: whatever degrades the status also leaves a severe record.  *)
AutomationNeedsOK ==
  Answered /\ answer.automated =>
    /\ Failed \/ answer.status = "OK"
    /\ ~AnyHigh(answer.failures)

(* Only the floor answers below the class of the model; failures, trend and *)
(* elevation never do.                                                      *)
CapOnlyByFloor ==
  Answered /\ ~Failed /\ ~InvalidInput(evidence) =>
    \/ Rank[answer.risk] >= Rank[MLClass(evidence)]
    \/ decision.authority = "L1_7_BMKG_SAFETY_FLOOR"

(* The measured river overrides everything but the validity of the input:   *)
(* with the rest unchanged, more water (once there is a reading), a more    *)
(* severe station or a rapid rise never lowers the risk.                    *)
MoreRiver(e, f) ==
  /\ f.water >= e.water /\ (e.water = 0 => f.water = 0)
  /\ f.hydrology >= e.hydrology /\ (e.rapid => f.rapid)
RiverNeverLowers ==
  pc = "action" /\ ~Failed =>
  \A w \in 0..3, h \in 0..2, r \in BOOLEAN :
    LET f == [evidence EXCEPT !.water = w, !.hydrology = h, !.rapid = r] IN
      MoreRiver(evidence, f) => Rank[Engine(f).risk] >= Rank[decision.risk]

(* "non-bypassable WARNING floor": a floor would leave what is higher       *)
(* alone.  It does not hold, the floor returns WARNING over a model that    *)
(* says DANGER.                                                             *)
FloorNeverLowers ==
  Answered /\ decision.authority = "L1_7_BMKG_SAFETY_FLOOR" =>
    Rank[answer.risk] >= Rank[MLClass(evidence)]

(* "L2 INTEGRITY - severe failures -> escalate one level": a failure that   *)
(* grows severe never lowers the risk.  It does not hold, the escalation    *)
(* from SAFE to PRE_ALERT hides SAFE from the inconsistency override.       *)
SevereFailureNeverLowers ==
  Answered /\ ~Failed /\ evidence.gap = "high" =>
    Rank[answer.risk] >= Rank[Engine([evidence EXCEPT !.gap = "medium"]).risk]

(* A severe external_source_unreliable failure "correctly disqualifies      *)
(* automation".  It does not hold, the record comes after the flag.         *)
NoAutomationOnSevereFailure ==
  pc = "answered" /\ answer.automated => ~AnyHigh(answer.failures \cup answer.routing)
===============================================================================
