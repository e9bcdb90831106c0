------------------------------- MODULE Decision -------------------------------
(***************************************************************************)
(* decide() (app/domain/decision.py) with its adapter run_decision_engine  *)
(* and the failure detection that feeds it: which level of risk a snapshot *)
(* is given, under which status and on which layer's authority.            *)
(*                                                                         *)
(* The inputs are bands: what the code's thresholds tell apart.  Water is  *)
(* 0 (none), under 0.85, under 0.95, above; rain is 0 (none), under 20,    *)
(* under 60, above; hydrology is under 0.50, under 0.75, above.  The       *)
(* probability and the thresholds of the model are numbers on one scale,   *)
(* on which TrendFloor stands for 0.12 and ReviewCeiling for 0.40.         *)
(* Confidence, driver and wording do not reach the risk and are left out.  *)
(***************************************************************************)
EXTENDS Naturals, FiniteSets

CONSTANTS
  MaxP,          \* the highest band of the probability
  TrendFloor,    \* _PRE_ALERT_PROB_FLOOR, _EARLY_WARN_PROB_FLOOR
  ReviewCeiling  \* a gap to the baseline escalates below this probability

ASSUME BandsAssumption == MaxP \in Nat /\ TrendFloor \in 0..MaxP /\ ReviewCeiling \in 0..MaxP

RiskLevels == {"UNKNOWN", "SAFE", "PRE_ALERT", "WARNING", "DANGER"}
Statuses   == {"OK", "DEGRADED", "LOW_TRUST", "CONFLICT", "FAIL", "PIPELINE_FAILURE"}

Rank == [r \in RiskLevels |->
  IF r = "UNKNOWN" THEN 0 ELSE IF r = "SAFE" THEN 1
  ELSE IF r = "PRE_ALERT" THEN 2 ELSE IF r = "WARNING" THEN 3 ELSE 4]
Next1 == [r \in RiskLevels |->
  IF r = "UNKNOWN" THEN "UNKNOWN" ELSE IF r = "SAFE" THEN "PRE_ALERT"
  ELSE IF r = "PRE_ALERT" THEN "WARNING" ELSE "DANGER"]

Ladders == [pre : 0..MaxP, warning : 0..MaxP, danger : 0..MaxP]

EvidenceType ==
  [critical : BOOLEAN,                      \* has_critical_violation
   plausibility : {"sound", "poor", "void"},\* score from 0.30, from 0.20, below
   sections : 0..4, stale : BOOLEAN,        \* sections present; age of 60 min or more
   water : 0..3, rain : 0..3, soaked : BOOLEAN, bmkg : BOOLEAN,
   hydrology : 0..2, rapid : BOOLEAN,
   p : 0..MaxP, ladder : Ladders,
   ood : {"in", "out", "far"},              \* far: score below -0.30
   gap : {"none", "medium", "high"},        \* model against baseline: from 0.30, from 0.45
   surge : BOOLEAN,                         \* the water rises without rain
   trend : {"flat", "rising", "converging"}, sustained : BOOLEAN,
   elevation : {"below", "low", "other"}]   \* below 0 m, 0-2 m, else or unknown

(* What one snapshot can show at a time: a signal comes from a section that *)
(* is there, the thresholds are in order, and a critical violation skips    *)
(* the reasoning stage.                                                     *)
Shown(e) ==
  {s \in {"time", "weather", "posko", "bmkg"} :
     \/ s = "time" /\ e.stale
     \/ s = "weather" /\ (e.rain > 0 \/ e.elevation # "other")
     \/ s = "posko" /\ (e.water > 0 \/ e.hydrology > 0 \/ e.rapid \/ e.surge)
     \/ s = "bmkg" /\ e.bmkg}
Consistent(e) ==
  /\ Cardinality(Shown(e)) <= e.sections
  /\ e.ladder.pre <= e.ladder.warning /\ e.ladder.warning <= e.ladder.danger
  /\ e.surge => e.rain <= 1
  /\ e.critical => e.p = 0 /\ e.gap = "none" /\ ~e.surge /\ e.ood = "in"
                   /\ e.trend = "flat" /\ ~e.sustained

-----------------------------------------------------------------------------
(* Failures, as the reasoning stage hands them to the evaluation            *)

FailureKinds == {"missing_data", "stale_data", "implausible_input", "signal_conflict",
                 "ood_input", "external_source_unreliable"}
FailureType == [type : FailureKinds, severity : {"medium", "high"}, escalates : BOOLEAN]
Failure(t, s, x) == [type |-> t, severity |-> s, escalates |-> x]
IsHigh(f) == f.severity = "high"

When(condition, f) == IF condition THEN {f} ELSE {}

(* Records that act on nothing but the confidence are left out.             *)
Detected(e) ==
       When(e.sections < 4, Failure("missing_data", "high", FALSE))
  \cup When(e.stale, Failure("stale_data", "high", FALSE))
  \cup When(e.plausibility = "poor", Failure("implausible_input", "medium", FALSE))
  \cup When(e.plausibility = "void", Failure("implausible_input", "high", FALSE))
  \cup When(e.surge, Failure("signal_conflict", "medium", TRUE))
  \cup When(e.gap # "none", Failure("signal_conflict", e.gap, e.p < ReviewCeiling))
  \cup When(e.ood = "out", Failure("ood_input", "medium", FALSE))
  \cup When(e.ood = "far", Failure("ood_input", "high", FALSE))

(* On a critical violation the reasoning stage is skipped; the pipeline     *)
(* puts one record in its place.                                            *)
Failures(e) == IF e.critical THEN {Failure("implausible_input", "high", FALSE)} ELSE Detected(e)

-----------------------------------------------------------------------------
(* What the layers look at                                                  *)

(* Completeness in percent.  No section at all is read as complete:         *)
(* float(getattr(...) or 1.0).                                              *)
Completeness(e) == IF e.sections = 0 THEN 100 ELSE 25 * e.sections

InvalidInput(e) == e.critical \/ Completeness(e) < 30 \/ e.plausibility # "sound"   \* L0
Siaga(e)    == e.water = 3                                                          \* L1
Compound(e) == \/ e.rain = 3 /\ e.water >= 2                                        \* L1.5
               \/ e.rain = 3 /\ e.bmkg
               \/ e.water >= 2 /\ e.bmkg
RapidRise(e) == e.rapid /\ e.hydrology >= 1                                         \* L1.6
PhysicalGate(e) == Siaga(e) \/ Compound(e) \/ RapidRise(e)

SafetyFloor(e) == e.bmkg /\ (e.rain >= 2 \/ (e.ood # "in" /\ e.water = 0))          \* L1.7

MLClass(e) ==                                                                       \* L3
  IF e.p >= e.ladder.danger THEN "DANGER"
  ELSE IF e.p >= e.ladder.warning THEN "WARNING"
  ELSE IF e.p >= e.ladder.pre THEN "PRE_ALERT" ELSE "SAFE"

SevereFailure(e) == \E f \in Failures(e) : f.escalates /\ IsHigh(f)

Status(e) ==
  IF \E f \in Failures(e) : IsHigh(f) /\ f.type = "signal_conflict" THEN "CONFLICT"
  ELSE IF (\E f \in Failures(e) : IsHigh(f)) \/ e.stale \/ Completeness(e) < 50
  THEN "DEGRADED" ELSE "OK"

-----------------------------------------------------------------------------
(* The decision                                                             *)

Ruling(risk, authority) == [risk |-> risk, authority |-> authority]

Classified(e) ==                                                       \* L3, then L2
  IF SevereFailure(e) THEN Ruling(Next1[MLClass(e)], "L2_INTEGRITY")
                      ELSE Ruling(MLClass(e), "L3_ML")

(* L3.3: SAFE against a severe station.  Mutant: whatever the class.        *)
ContradictedAlways(e, d) == IF e.hydrology = 2 THEN Ruling("WARNING", "L2_INTEGRITY") ELSE d
Contradicted(e, d) ==
  IF d.risk = "SAFE" /\ e.hydrology = 2 THEN Ruling("WARNING", "L2_INTEGRITY") ELSE d

(* L3.7: SAFE against a trend all of whose signals converge.  Mutant:       *)
(* convergence is taken for any other rise.                                 *)
Converging(e) == e.p >= TrendFloor /\ e.trend = "converging"
ConvergedMildly(e, d) ==
  IF d.risk = "SAFE" /\ Converging(e) THEN Ruling("PRE_ALERT", "L4_TREND") ELSE d
Converged(e, d) ==
  IF d.risk = "SAFE" /\ Converging(e) THEN Ruling("WARNING", "L1_5_MULTI") ELSE d

(* L4: a sustained rise, or a rising trend.                                 *)
Rising(e) == e.p >= TrendFloor /\ e.trend # "flat"
Extended(e, d) ==
  IF d.risk = "WARNING" /\ e.sustained THEN Ruling("DANGER", "L4_TREND")
  ELSE IF d.risk = "SAFE" /\ Rising(e)
  THEN Ruling("PRE_ALERT", "L4_TREND") ELSE d

(* decide: the first layer that fires, then the overrides.                  *)
Decide(e) ==
  IF InvalidInput(e) THEN Ruling("UNKNOWN", "L0_PHYSICAL")
  ELSE IF Siaga(e) THEN Ruling("DANGER", "L1_SIAGA")
  ELSE IF Compound(e) THEN Ruling("DANGER", "L1_5_MULTI")
  ELSE IF RapidRise(e) THEN Ruling("DANGER", "L1_SIAGA")
  ELSE IF SafetyFloor(e) THEN Ruling("WARNING", "L1_7_BMKG_SAFETY_FLOOR")
  ELSE Extended(e, Converged(e, Contradicted(e, Classified(e))))

(* _apply_elevation_adjustment.  Mutant: dry weather relaxes a WARNING.     *)
Wet(e)   == e.rain > 0 \/ e.soaked
Heavy(e) == e.rain >= 2 \/ e.soaked
Relaxed(e, risk) == IF ~Wet(e) /\ risk = "WARNING" THEN "PRE_ALERT" ELSE risk
Elevated(e, risk) ==
  IF e.elevation = "below" /\ Wet(e) /\ risk = "SAFE" THEN "PRE_ALERT"
  ELSE IF e.elevation = "low" /\ Heavy(e) THEN Next1[risk] ELSE risk

(* run_decision_engine when nothing is raised.                              *)
Engine(e) ==
  [risk |-> Elevated(e, Decide(e).risk),
   status |-> IF InvalidInput(e) THEN "FAIL" ELSE Status(e),
   authority |-> Decide(e).authority]
===============================================================================
