---------------------------- MODULE DecisionProofs ----------------------------
(***************************************************************************)
(* Proofs about DecisionStage, for every set of snapshots, every number of *)
(* bands and every ladder of thresholds.  The work is in lemmas about the  *)
(* engine, one per property; the invariant only carries them along: what   *)
(* the later stages hold is what the engine or the failsafe said.          *)
(***************************************************************************)
EXTENDS DecisionStage, TLAPS

(* The decision is the engine's or the failsafe's, and what is answered is  *)
(* its output, which the contract let through.                              *)
Decided == pc # "evaluation" => decision = Engine(evidence) \/ decision = Failsafe
Carries(a, b) ==
  /\ a.risk = b.risk /\ a.status = b.status /\ a.validity = b.validity /\ a.reason = b.reason
  /\ a.mode = b.mode /\ a.automated = b.automated /\ a.failures = b.failures
Passed ==
  /\ Answered => Contract(Output(evidence, decision)) /\ Carries(answer, Output(evidence, decision))
  /\ pc = "refused" => ~Contract(Output(evidence, decision))
IInv == TypeOK /\ Decided /\ Passed

-----------------------------------------------------------------------------
(* The levels                                                               *)

LEMMA Levels ==
  ASSUME NEW r \in RiskLevels
  PROVE  /\ Next1[r] \in RiskLevels \ {"SAFE"}
         /\ Next1[r] = "UNKNOWN" <=> r = "UNKNOWN"
         /\ Rank[r] \in 0..4 /\ Rank[Next1[r]] >= Rank[r]
         /\ Rank["PRE_ALERT"] = 2 /\ Rank["WARNING"] = 3 /\ Rank["DANGER"] = 4 /\ Rank["SAFE"] = 1
  BY DEF RiskLevels, Next1, Rank

LEMMA ClassType == ASSUME NEW e PROVE MLClass(e) \in RiskLevels \ {"UNKNOWN"}
  BY DEF MLClass, RiskLevels

LEMMA StatusType == ASSUME NEW e PROVE Status(e) \in {"OK", "DEGRADED", "CONFLICT"}
  BY DEF Status

LEMMA FailuresType == ASSUME NEW e \in EvidenceType PROVE Failures(e) \subseteq FailureType
<1>1. ASSUME NEW t \in FailureKinds, NEW s \in {"medium", "high"}, NEW x \in BOOLEAN
      PROVE  Failure(t, s, x) \in FailureType
  BY DEF Failure, FailureType
<1> DEFINE low == e.p < ReviewCeiling
<1>2. low \in BOOLEAN
  BY SMT, BandsAssumption DEF low, EvidenceType
<1>3. e.gap # "none" => e.gap \in {"medium", "high"}
  BY DEF EvidenceType
<1> HIDE DEF low
<1>4. e.gap # "none" => Failure("signal_conflict", e.gap, low) \in FailureType
  BY <1>1, <1>2, <1>3 DEF FailureKinds
<1>5. /\ Failure("missing_data", "high", FALSE) \in FailureType
      /\ Failure("stale_data", "high", FALSE) \in FailureType
      /\ Failure("implausible_input", "medium", FALSE) \in FailureType
      /\ Failure("implausible_input", "high", FALSE) \in FailureType
      /\ Failure("signal_conflict", "medium", TRUE) \in FailureType
      /\ Failure("ood_input", "medium", FALSE) \in FailureType
      /\ Failure("ood_input", "high", FALSE) \in FailureType
  BY <1>1 DEF FailureKinds
<1> QED BY <1>4, <1>5, ZenonT(40) DEF Failures, Detected, When, low

-----------------------------------------------------------------------------
(* The layers, one at a time: what each does to the level it is given       *)

(* The classification keeps the class of the model or raises it.            *)
LEMMA ClassifiedRaises ==
  ASSUME NEW e
  PROVE  /\ Classified(e).risk \in RiskLevels \ {"UNKNOWN"}
         /\ Rank[Classified(e).risk] >= Rank[MLClass(e)]
         /\ Classified(e).risk = "SAFE" => MLClass(e) = "SAFE" /\ ~SevereFailure(e)
         /\ Classified(e).authority \in {"L2_INTEGRITY", "L3_ML"}
<1> DEFINE c == MLClass(e)
<1>1. c \in RiskLevels \ {"UNKNOWN"} /\ Rank[c] \in 0..4 BY ClassType, Levels
<1>2. /\ Next1[c] \in RiskLevels \ {"UNKNOWN", "SAFE"} /\ Rank[Next1[c]] >= Rank[c]
  BY <1>1, Levels
<1> HIDE DEF c
<1> QED BY <1>1, <1>2 DEF Classified, Ruling, c

(* Each override keeps the ruling or raises its level, and what it leaves   *)
(* SAFE was SAFE; the station of the first is not severe then.              *)
Raises(d, b) ==
  /\ d.risk \in RiskLevels \ {"UNKNOWN"} /\ Rank[d.risk] >= Rank[b.risk]
  /\ d.risk = "SAFE" => b.risk = "SAFE"
  /\ d.authority \in {"L2_INTEGRITY", "L3_ML", "L1_5_MULTI", "L4_TREND"}

LEMMA OverridesRaise ==
  ASSUME NEW e, NEW d, d.risk \in RiskLevels \ {"UNKNOWN"},
         d.authority \in {"L2_INTEGRITY", "L3_ML", "L1_5_MULTI", "L4_TREND"}
  PROVE  /\ Raises(Contradicted(e, d), d) /\ Raises(Converged(e, d), d) /\ Raises(Extended(e, d), d)
         /\ Contradicted(e, d).risk = "SAFE" => e.hydrology # 2
<1>1. /\ Rank[d.risk] \in 0..4 /\ Rank["PRE_ALERT"] = 2 /\ Rank["WARNING"] = 3
      /\ Rank["DANGER"] = 4 /\ Rank["SAFE"] = 1
  BY Levels
<1>2. Raises(Contradicted(e, d), d) /\ (Contradicted(e, d).risk = "SAFE" => e.hydrology # 2)
  BY <1>1 DEF Contradicted, Raises, Ruling, RiskLevels
<1>3. Raises(Converged(e, d), d)
  BY <1>1 DEF Converged, Raises, Ruling, RiskLevels
<1>4. Raises(Extended(e, d), d)
  BY <1>1 DEF Extended, Raises, Ruling, RiskLevels
<1> QED BY <1>2, <1>3, <1>4

(* Together, on the class of the model.                                     *)
LEMMA LearnedRaises ==
  ASSUME NEW e
  PROVE  LET d == Extended(e, Converged(e, Contradicted(e, Classified(e)))) IN
         /\ d.risk \in RiskLevels \ {"UNKNOWN"} /\ Rank[d.risk] >= Rank[MLClass(e)]
         /\ d.risk = "SAFE" => MLClass(e) = "SAFE" /\ ~SevereFailure(e) /\ e.hydrology # 2
         /\ d.authority \in {"L2_INTEGRITY", "L3_ML", "L1_5_MULTI", "L4_TREND"}
<1> DEFINE a == Classified(e)
           b == Contradicted(e, a)
           c == Converged(e, b)
           d == Extended(e, c)
<1>1. /\ a.risk \in RiskLevels \ {"UNKNOWN"} /\ Rank[a.risk] >= Rank[MLClass(e)]
      /\ a.risk = "SAFE" => MLClass(e) = "SAFE" /\ ~SevereFailure(e)
      /\ a.authority \in {"L2_INTEGRITY", "L3_ML", "L1_5_MULTI", "L4_TREND"}
  BY ClassifiedRaises
<1> HIDE DEF a
<1>2. Raises(b, a) /\ (b.risk = "SAFE" => e.hydrology # 2) BY <1>1, OverridesRaise
<1> HIDE DEF b
<1>3. Raises(c, b) BY <1>2, OverridesRaise DEF Raises
<1> HIDE DEF c
<1>4. Raises(d, c) BY <1>3, OverridesRaise DEF Raises
<1> HIDE DEF d
<1>5. /\ Rank[a.risk] \in 0..4 /\ Rank[b.risk] \in 0..4 /\ Rank[c.risk] \in 0..4
      /\ Rank[d.risk] \in 0..4 /\ Rank[MLClass(e)] \in 0..4
  BY <1>1, <1>2, <1>3, <1>4, ClassType, Levels DEF Raises
<1>6. /\ d.risk \in RiskLevels \ {"UNKNOWN"} /\ Rank[d.risk] >= Rank[MLClass(e)]
      /\ d.risk = "SAFE" => MLClass(e) = "SAFE" /\ ~SevereFailure(e) /\ e.hydrology # 2
      /\ d.authority \in {"L2_INTEGRITY", "L3_ML", "L1_5_MULTI", "L4_TREND"}
  BY <1>1, <1>2, <1>3, <1>4, <1>5 DEF Raises
<1> QED BY <1>6 DEF a, b, c, d

-----------------------------------------------------------------------------
(* The engine                                                               *)

LEMMA EngineType ==
  ASSUME NEW e
  PROVE  Engine(e) \in [risk : RiskLevels, status : Statuses, authority : Authorities]
<1>1. Decide(e).risk \in RiskLevels /\ Decide(e).authority \in Authorities
  BY LearnedRaises DEF Decide, Ruling, RiskLevels, Authorities
<1>2. Elevated(e, Decide(e).risk) \in RiskLevels
  BY <1>1, Levels DEF Elevated, RiskLevels
<1>3. Status(e) \in Statuses
  BY StatusType DEF Statuses
<1> QED BY <1>1, <1>2, <1>3 DEF Engine, Statuses

(* The elevation keeps UNKNOWN, and never lowers a level.                   *)
LEMMA ElevatedRaises ==
  ASSUME NEW e, NEW r \in RiskLevels
  PROVE  /\ Elevated(e, r) \in RiskLevels /\ Rank[Elevated(e, r)] >= Rank[r]
         /\ r = "UNKNOWN" => Elevated(e, r) = "UNKNOWN"
         /\ Elevated(e, r) = "SAFE" => r = "SAFE" /\ ~(e.elevation = "below" /\ Wet(e))
<1>1. /\ Rank[r] \in 0..4 /\ Rank["PRE_ALERT"] = 2 /\ Rank["SAFE"] = 1
      /\ Next1[r] \in RiskLevels \ {"SAFE"} /\ Rank[Next1[r]] >= Rank[r]
      /\ Next1[r] = "UNKNOWN" <=> r = "UNKNOWN"
  BY Levels
<1> QED BY <1>1 DEF Elevated, RiskLevels

(* L0, and only L0, answers under its own authority.                        *)
LEMMA EngineRejects ==
  ASSUME NEW e
  PROVE  /\ Engine(e).authority = "L0_PHYSICAL" <=> InvalidInput(e)
         /\ InvalidInput(e) => Engine(e).risk = "UNKNOWN" /\ Engine(e).status = "FAIL"
         /\ ~InvalidInput(e) => Engine(e).status = Status(e)
         /\ Engine(e).authority # "failsafe"
<1>1. Decide(e).authority = "L0_PHYSICAL" <=> InvalidInput(e)
  BY LearnedRaises DEF Decide, Ruling
<1>2. InvalidInput(e) => Elevated(e, Decide(e).risk) = "UNKNOWN"
  BY ElevatedRaises DEF Decide, Ruling, RiskLevels
<1>3. Decide(e).authority # "failsafe"
  BY LearnedRaises DEF Decide, Ruling
<1> QED BY <1>1, <1>2, <1>3 DEF Engine

(* The classification and the overrides after it hear every alarm of the    *)
(* model, the failures, the station and the trend.                          *)
LEMMA LearnedHears ==
  ASSUME NEW e
  PROVE  LET d == Extended(e, Converged(e, Contradicted(e, Classified(e)))) IN
         /\ d.risk \in {"SAFE", "PRE_ALERT", "WARNING", "DANGER"}
         /\ MLClass(e) # "SAFE" \/ SevereFailure(e) \/ Rising(e) => d.risk # "SAFE"
         /\ WarningRaised(e) => d.risk \in {"WARNING", "DANGER"}
         /\ DangerRaised(e) => d.risk = "DANGER"
<1> DEFINE a == Classified(e)
           b == Contradicted(e, a)
           c == Converged(e, b)
           d == Extended(e, c)
<1>1. MLClass(e) \in {"SAFE", "PRE_ALERT", "WARNING", "DANGER"}
  BY ClassType DEF RiskLevels
<1>2. /\ a.risk \in {"SAFE", "PRE_ALERT", "WARNING", "DANGER"}
      /\ a.risk = "SAFE" <=> Unescalated(e)
      /\ a.risk = "WARNING" <=> \/ MLClass(e) = "WARNING" /\ ~SevereFailure(e)
                                \/ MLClass(e) = "PRE_ALERT" /\ SevereFailure(e)
      /\ a.risk = "DANGER" <=> \/ MLClass(e) = "DANGER"
                               \/ MLClass(e) = "WARNING" /\ SevereFailure(e)
  BY <1>1 DEF Classified, Unescalated, Ruling, Next1, RiskLevels
<1> HIDE DEF a
<1>3. b.risk = IF Unescalated(e) /\ e.hydrology = 2 THEN "WARNING" ELSE a.risk
  BY <1>2 DEF Contradicted, Ruling
<1> HIDE DEF b
<1>4. c.risk = IF Unescalated(e) /\ (e.hydrology = 2 \/ Converging(e)) THEN "WARNING" ELSE a.risk
  BY <1>2, <1>3 DEF Converged, Ruling
<1>5. /\ c.risk \in {"SAFE", "PRE_ALERT", "WARNING", "DANGER"}
      /\ c.risk = "SAFE" => Unescalated(e)
      /\ c.risk = "DANGER" <=> \/ MLClass(e) = "DANGER"
                               \/ MLClass(e) = "WARNING" /\ SevereFailure(e)
      /\ WarningRaised(e) => c.risk \in {"WARNING", "DANGER"}
  BY <1>2, <1>4 DEF WarningRaised, Unescalated
<1> HIDE DEF c
<1>6. /\ d.risk \in {"SAFE", "PRE_ALERT", "WARNING", "DANGER"}
      /\ d.risk = "SAFE" => c.risk = "SAFE" /\ ~Rising(e)
      /\ c.risk \in {"WARNING", "DANGER"} => d.risk \in {"WARNING", "DANGER"}
      /\ c.risk = "DANGER" => d.risk = "DANGER"
      /\ c.risk = "WARNING" /\ e.sustained => d.risk = "DANGER"
  BY <1>5 DEF Extended, Ruling
<1> HIDE DEF d
<1>7. /\ d.risk \in {"SAFE", "PRE_ALERT", "WARNING", "DANGER"}
      /\ MLClass(e) # "SAFE" \/ SevereFailure(e) \/ Rising(e) => d.risk # "SAFE"
      /\ WarningRaised(e) => d.risk \in {"WARNING", "DANGER"}
      /\ DangerRaised(e) => d.risk = "DANGER"
  BY <1>5, <1>6 DEF DangerRaised, Unescalated
<1> QED BY <1>7 DEF a, b, c, d

(* So does the whole cascade, but for what the floor answers in their       *)
(* place.                                                                   *)
LEMMA DecideHears ==
  ASSUME NEW e, ~InvalidInput(e)
  PROVE  /\ Decide(e).risk \in {"SAFE", "PRE_ALERT", "WARNING", "DANGER"}
         /\ PhysicalGate(e) \/ (DangerRaised(e) /\ ~SafetyFloor(e)) => Decide(e).risk = "DANGER"
         /\ SafetyFloor(e) \/ WarningRaised(e) => Decide(e).risk \in {"WARNING", "DANGER"}
         /\ MLClass(e) # "SAFE" \/ SevereFailure(e) \/ Rising(e) => Decide(e).risk # "SAFE"
<1> DEFINE learned == Extended(e, Converged(e, Contradicted(e, Classified(e))))
<1>1. /\ learned.risk \in {"SAFE", "PRE_ALERT", "WARNING", "DANGER"}
      /\ MLClass(e) # "SAFE" \/ SevereFailure(e) \/ Rising(e) => learned.risk # "SAFE"
      /\ WarningRaised(e) => learned.risk \in {"WARNING", "DANGER"}
      /\ DangerRaised(e) => learned.risk = "DANGER"
  BY LearnedHears
<1>2. /\ PhysicalGate(e) => Decide(e).risk = "DANGER"
      /\ ~PhysicalGate(e) /\ SafetyFloor(e) => Decide(e).risk = "WARNING"
      /\ ~PhysicalGate(e) /\ ~SafetyFloor(e) => Decide(e) = learned
  BY DEF Decide, Ruling, PhysicalGate
<1> HIDE DEF learned
<1> QED BY <1>1, <1>2

(* And the elevation keeps what the cascade has heard.                      *)
LEMMA EngineHears ==
  ASSUME NEW e, ~InvalidInput(e), NEW r \in Alarms(e) \cup {"SAFE"}
  PROVE  Rank[Engine(e).risk] >= Rank[Lifted(e, r)]
<1> DEFINE k == Decide(e).risk
<1>1. /\ k \in {"SAFE", "PRE_ALERT", "WARNING", "DANGER"}
      /\ PhysicalGate(e) \/ (DangerRaised(e) /\ ~SafetyFloor(e)) => k = "DANGER"
      /\ SafetyFloor(e) \/ WarningRaised(e) => k \in {"WARNING", "DANGER"}
      /\ MLClass(e) # "SAFE" \/ SevereFailure(e) \/ Rising(e) => k # "SAFE"
  BY DecideHears
<1> HIDE DEF k
<1>2. \/ r = "DANGER" /\ k = "DANGER"
      \/ r = "WARNING" /\ k \in {"WARNING", "DANGER"}
      \/ r = "PRE_ALERT" /\ k \in {"PRE_ALERT", "WARNING", "DANGER"}
      \/ r = "PRE_ALERT" /\ e.elevation = "below" /\ Wet(e)
      \/ r = "SAFE"
  BY <1>1 DEF Alarms, When
<1>3. Rank[Elevated(e, k)] >= Rank[Lifted(e, r)]
  BY <1>1, <1>2 DEF Elevated, Lifted, Next1, Rank, RiskLevels
<1> QED BY <1>3 DEF Engine, k

(* The class of the model is kept or raised, but for the floor.             *)
LEMMA EngineCap ==
  ASSUME NEW e, ~InvalidInput(e)
  PROVE  \/ Rank[Engine(e).risk] >= Rank[MLClass(e)]
         \/ Engine(e).authority = "L1_7_BMKG_SAFETY_FLOOR"
<1>1. /\ Rank[MLClass(e)] \in 0..4 /\ Rank["DANGER"] = 4
  BY ClassType, Levels
<1>2. /\ Decide(e).risk \in RiskLevels
      /\ \/ Rank[Decide(e).risk] >= Rank[MLClass(e)]
         \/ Decide(e).authority = "L1_7_BMKG_SAFETY_FLOOR"
  BY <1>1, LearnedRaises DEF Decide, Ruling, RiskLevels
<1>3. /\ Rank[Elevated(e, Decide(e).risk)] >= Rank[Decide(e).risk]
      /\ Rank[Elevated(e, Decide(e).risk)] \in 0..4 /\ Rank[Decide(e).risk] \in 0..4
  BY <1>2, ElevatedRaises, Levels
<1> QED BY <1>1, <1>2, <1>3 DEF Engine

-----------------------------------------------------------------------------
(* More river                                                               *)

(* What a snapshot shows besides the river is the same in both.             *)
SameButRiver(e, f) ==
  /\ f.critical = e.critical /\ f.plausibility = e.plausibility
  /\ f.sections = e.sections /\ f.stale = e.stale
  /\ f.rain = e.rain /\ f.soaked = e.soaked /\ f.bmkg = e.bmkg
  /\ f.p = e.p /\ f.ladder = e.ladder /\ f.ood = e.ood /\ f.gap = e.gap
  /\ f.surge = e.surge /\ f.trend = e.trend /\ f.sustained = e.sustained
  /\ f.elevation = e.elevation

RiverInRange(e) == e.water \in 0..3 /\ e.hydrology \in 0..2

LEMMA OnlyRiverChanges ==
  ASSUME NEW e \in EvidenceType, NEW w \in 0..3, NEW h \in 0..2, NEW r \in BOOLEAN,
         NEW f, f = [e EXCEPT !.water = w, !.hydrology = h, !.rapid = r]
  PROVE  SameButRiver(e, f) /\ RiverInRange(e) /\ RiverInRange(f)
  BY DEF EvidenceType, SameButRiver, RiverInRange

(* What the layers ask of the rest of a snapshot is answered alike.         *)
LEMMA RestIsAlike ==
  ASSUME NEW e, NEW f, SameButRiver(e, f)
  PROVE  /\ InvalidInput(f) <=> InvalidInput(e)
         /\ Classified(f) = Classified(e)
         /\ \A r : Elevated(f, r) = Elevated(e, r)
<1>1. InvalidInput(f) <=> InvalidInput(e)
  BY DEF SameButRiver, InvalidInput, Completeness
<1>2. Failures(f) = Failures(e)
  BY DEF SameButRiver, Failures, Detected
<1>3. MLClass(f) = MLClass(e)
  BY DEF SameButRiver, MLClass
<1>4. Classified(f) = Classified(e)
  BY <1>2, <1>3 DEF Classified, SevereFailure
<1>5. \A r : Elevated(f, r) = Elevated(e, r)
  BY DEF SameButRiver, Elevated, Wet, Heavy
<1> QED BY <1>1, <1>4, <1>5

(* The gates only open as the river rises, and the floor neither opens nor  *)
(* closes: it asks whether there is a reading at all.                       *)
LEMMA GatesOpen ==
  ASSUME NEW e, NEW f, SameButRiver(e, f), RiverInRange(e), RiverInRange(f), MoreRiver(e, f)
  PROVE  /\ PhysicalGate(e) => PhysicalGate(f)
         /\ SafetyFloor(f) <=> SafetyFloor(e)
<1>1. /\ Siaga(e) => Siaga(f)
      /\ Compound(e) => Compound(f)
      /\ RapidRise(e) => RapidRise(f)
  BY DEF SameButRiver, RiverInRange, MoreRiver, Siaga, Compound, RapidRise
<1>2. f.water = 0 <=> e.water = 0
  BY DEF RiverInRange, MoreRiver
<1>3. SafetyFloor(f) <=> SafetyFloor(e)
  BY <1>2 DEF SameButRiver, SafetyFloor
<1> QED BY <1>1, <1>3 DEF PhysicalGate

(* A station that grows severe lifts SAFE to WARNING, which no later layer  *)
(* takes back.                                                              *)
LEMMA LearnedGrows ==
  ASSUME NEW e, NEW f, SameButRiver(e, f), RiverInRange(e), RiverInRange(f), MoreRiver(e, f),
         NEW d, d.risk \in RiskLevels \ {"UNKNOWN"}
  PROVE  LET c == Extended(e, Converged(e, Contradicted(e, d)))
             g == Extended(f, Converged(f, Contradicted(f, d))) IN
         /\ c.risk \in RiskLevels /\ g.risk \in RiskLevels
         /\ Rank[g.risk] >= Rank[c.risk]
<1>1. /\ Rank["SAFE"] = 1 /\ Rank["PRE_ALERT"] = 2 /\ Rank["WARNING"] = 3 /\ Rank["DANGER"] = 4
  BY Levels
<1>2. \A b : Converged(f, b) = Converged(e, b) /\ Extended(f, b) = Extended(e, b)
  BY DEF SameButRiver, Converged, Converging, Extended, Rising
<1>3. CASE Contradicted(f, d) = Contradicted(e, d)
  <2> DEFINE b == Contradicted(e, d)
             c == Extended(e, Converged(e, b))
  <2>1. b.risk \in {"SAFE", "PRE_ALERT", "WARNING", "DANGER"}
    BY DEF Contradicted, Ruling, RiskLevels
  <2> HIDE DEF b
  <2>2. c.risk \in {"SAFE", "PRE_ALERT", "WARNING", "DANGER"}
    BY <2>1 DEF Converged, Extended, Ruling
  <2>3. Rank[c.risk] >= Rank[c.risk] /\ c.risk \in RiskLevels
    <3> HIDE DEF c
    <3> QED BY <1>1, <2>2 DEF RiskLevels
  <2> QED BY <1>2, <1>3, <2>3 DEF b
<1>4. CASE Contradicted(f, d) # Contradicted(e, d)
  <2>1. /\ Contradicted(f, d).risk = "WARNING"
        /\ Contradicted(e, d) = d /\ d.risk = "SAFE"
    BY <1>4 DEF Contradicted, Ruling, MoreRiver, RiverInRange
  <2>2. Extended(e, Converged(e, d)).risk \in {"SAFE", "PRE_ALERT", "WARNING", "DANGER"}
    BY <2>1 DEF Converged, Extended, Ruling
  <2>3. Extended(e, Converged(e, d)).risk = "DANGER" => e.sustained
    BY <2>1 DEF Converged, Extended, Ruling
  <2> DEFINE b == Contradicted(f, d)
  <2> HIDE DEF b
  <2>4. b.risk = "WARNING"
    BY <2>1 DEF b
  <2>5. /\ Extended(f, Converged(f, b)).risk \in {"WARNING", "DANGER"}
        /\ e.sustained => Extended(f, Converged(f, b)).risk = "DANGER"
    BY <2>4 DEF Converged, Extended, Ruling, SameButRiver
  <2> QED BY <1>1, <2>1, <2>2, <2>3, <2>5 DEF b, RiskLevels
<1> QED BY <1>3, <1>4

(* The elevation keeps the order of the levels.                             *)
LEMMA ElevatedMonotone ==
  ASSUME NEW e, NEW r \in RiskLevels, NEW q \in RiskLevels, Rank[q] >= Rank[r]
  PROVE  Rank[Elevated(e, q)] >= Rank[Elevated(e, r)]
  BY DEF Elevated, Next1, Rank, RiskLevels

LEMMA EngineGrows ==
  ASSUME NEW e, NEW f, SameButRiver(e, f), RiverInRange(e), RiverInRange(f), MoreRiver(e, f)
  PROVE  Rank[Engine(f).risk] >= Rank[Engine(e).risk]
<1>1. /\ Rank["UNKNOWN"] = 0 /\ Rank["WARNING"] = 3 /\ Rank["DANGER"] = 4
      /\ \A r \in RiskLevels : Rank[r] \in 0..4
  BY Levels DEF Rank, RiskLevels
<1>2. Decide(e).risk \in RiskLevels /\ Decide(f).risk \in RiskLevels
  BY LearnedRaises DEF Decide, Ruling, RiskLevels
<1>3. Rank[Decide(f).risk] >= Rank[Decide(e).risk]
  <2>1. CASE InvalidInput(e)
    BY <1>1, <2>1, RestIsAlike DEF Decide, Ruling
  <2>2. CASE ~InvalidInput(e) /\ PhysicalGate(f)
    <3>1. Decide(f).risk = "DANGER"
      BY <2>2, RestIsAlike DEF Decide, Ruling, PhysicalGate
    <3> QED BY <1>1, <1>2, <3>1
  <2>3. CASE ~InvalidInput(e) /\ ~PhysicalGate(f) /\ SafetyFloor(e)
    <3>1. Decide(f).risk = "WARNING" /\ Decide(e).risk = "WARNING"
      BY <2>3, RestIsAlike, GatesOpen DEF Decide, Ruling, PhysicalGate
    <3> QED BY <1>1, <3>1
  <2>4. CASE ~InvalidInput(e) /\ ~PhysicalGate(f) /\ ~SafetyFloor(e)
    <3> DEFINE d == Classified(e)
    <3>1. /\ Decide(e) = Extended(e, Converged(e, Contradicted(e, Classified(e))))
          /\ Decide(f) = Extended(f, Converged(f, Contradicted(f, Classified(f))))
          /\ Classified(f) = d
      BY <2>4, RestIsAlike, GatesOpen DEF Decide, PhysicalGate
    <3>2. d.risk \in RiskLevels \ {"UNKNOWN"}
      BY ClassifiedRaises
    <3> HIDE DEF d
    <3> QED BY <3>1, <3>2, LearnedGrows DEF d
  <2> QED BY <2>1, <2>2, <2>3, <2>4
<1>4. \A r : Elevated(f, r) = Elevated(e, r)
  BY RestIsAlike
<1> QED BY <1>2, <1>3, <1>4, ElevatedMonotone DEF Engine

-----------------------------------------------------------------------------
(* The metadata                                                             *)

(* Data the engine accepts are not marked INVALID: a void plausibility is   *)
(* the only severe implausible_input, and L0 rejects it.                    *)
LEMMA AcceptedIsValid ==
  ASSUME NEW e, ~InvalidInput(e) PROVE Validity(e) = "VALID"
<1>1. ~e.critical /\ e.plausibility = "sound"
  BY DEF InvalidInput
<1>2. ASSUME NEW f \in Failures(e), f.type = "implausible_input" PROVE FALSE
  BY <1>1, <1>2 DEF Failures, Detected, When, Failure
<1> QED BY <1>1, <1>2 DEF Validity

(* What degrades the status of accepted data leaves a severe record.        *)
LEMMA QuietIsOK ==
  ASSUME NEW e \in EvidenceType, ~InvalidInput(e), ~AnyHigh(Failures(e))
  PROVE  Status(e) = "OK"
<1>1. Failures(e) = Detected(e)
  BY DEF InvalidInput, Failures
<1>2. ASSUME e.stale PROVE FALSE
  <2>1. Failure("stale_data", "high", FALSE) \in Detected(e)
    BY <1>2 DEF Detected, When
  <2> QED BY <1>1, <2>1 DEF AnyHigh, IsHigh, Failure
<1>3. ASSUME e.sections < 4 PROVE FALSE
  <2>1. Failure("missing_data", "high", FALSE) \in Detected(e)
    BY <1>3 DEF Detected, When
  <2> QED BY <1>1, <2>1 DEF AnyHigh, IsHigh, Failure
<1>4. e.sections = 4
  BY <1>3 DEF EvidenceType
<1>5. Completeness(e) = 100
  BY <1>4 DEF Completeness
<1> QED BY <1>2, <1>5 DEF Status, AnyHigh

LEMMA OutputType ==
  ASSUME NEW e \in EvidenceType,
         NEW d \in [risk : RiskLevels, status : Statuses, authority : Authorities]
  PROVE  Output(e, d) \in
           [risk : RiskLevels, status : Statuses, validity : {"VALID", "INVALID"},
            reason : {"RISK", "INVALID_INPUT", "FALLBACK"}, mode : {"FULL", "SHADOW_ONLY"},
            automated : BOOLEAN, failures : SUBSET FailureType, routing : SUBSET FailureType]
<1>1. Validity(e) \in {"VALID", "INVALID"} /\ Reason(d) \in {"RISK", "INVALID_INPUT", "FALLBACK"}
      /\ Mode(d) \in {"FULL", "SHADOW_ONLY"}
  BY DEF Validity, Reason, Mode
<1>2. Automated(e, d) \in BOOLEAN
  BY Zenon DEF Automated
<1>3. Failures(e) \in SUBSET FailureType /\ {} \in SUBSET FailureType
  BY FailuresType
<1> DEFINE automated == Automated(e, d)
<1> HIDE DEF automated
<1> QED BY <1>1, <1>2, <1>3 DEF Output, automated

(* What the contract refuses, of either maker of decisions.                 *)
LEMMA Refusals ==
  ASSUME NEW e \in EvidenceType, NEW d, d = Engine(e) \/ d = Failsafe, ~Contract(Output(e, d))
  PROVE  \/ InvalidInput(e) /\ d.authority # "failsafe" /\ Validity(e) = "VALID"
         \/ d.authority = "failsafe" /\ Validity(e) = "INVALID"
<1>1. Validity(e) \in {"VALID", "INVALID"}
  BY DEF Validity
<1>2. CASE d = Engine(e)
  <2>1. d.status # "PIPELINE_FAILURE" /\ d.authority # "failsafe"
    BY <1>2, EngineRejects, StatusType
  <2>2. CASE InvalidInput(e)
    <3>1. d.authority = "L0_PHYSICAL" /\ d.risk = "UNKNOWN"
      BY <1>2, <2>2, EngineRejects
    <3>2. Reason(d) = "INVALID_INPUT" /\ Mode(d) = "SHADOW_ONLY" /\ ~Automated(e, d)
      BY <2>1, <3>1 DEF Reason, Mode, Automated
    <3> QED BY <1>1, <2>1, <2>2, <3>1, <3>2 DEF Contract, Output
  <2>3. CASE ~InvalidInput(e)
    <3>1. Reason(d) = "RISK" /\ Validity(e) = "VALID"
      BY <1>2, <2>1, <2>3, EngineRejects, AcceptedIsValid DEF Reason
    <3> QED BY <2>3, <3>1 DEF Contract, Output, Automated
  <2> QED BY <2>2, <2>3
<1>3. CASE d = Failsafe
  <2>1. d.authority = "failsafe" /\ Reason(d) = "RISK"
    BY <1>3 DEF Failsafe, Reason
  <2> QED BY <1>1, <2>1 DEF Contract, Output, Automated
<1> QED BY <1>2, <1>3

-----------------------------------------------------------------------------
(* The invariant                                                            *)

LEMMA DecisionType ==
  ASSUME NEW e, NEW d, d = Engine(e) \/ d = Failsafe
  PROVE  d \in [risk : RiskLevels, status : Statuses, authority : Authorities]
  BY EngineType DEF Failsafe, RiskLevels, Statuses, Authorities

LEMMA InitInv == Init => IInv
<1> SUFFICES ASSUME Init PROVE IInv
  OBVIOUS
<1>1. evidence \in EvidenceType
  BY EvidenceAssumption DEF Init
<1> QED BY <1>1 DEF Init, IInv, TypeOK, Decided, Passed, Answered, NoDecision, NoAnswer,
                    RiskLevels, Statuses, Authorities

LEMMA NextInv == IInv /\ [Next]_vars => IInv'
<1> SUFFICES ASSUME IInv, [Next]_vars PROVE IInv'
  OBVIOUS
<1> DEFINE Out == Output(evidence, decision)
<1>1. ASSUME Evaluate \/ EngineFails PROVE IInv'
  <2>1. /\ pc' = "action" /\ evidence' = evidence /\ answer' = answer
        /\ decision' = Engine(evidence') \/ decision' = Failsafe
    BY <1>1 DEF Evaluate, EngineFails
  <2>2. Failsafe' = Failsafe
    BY DEF Failsafe
  <2>3. decision' \in [risk : RiskLevels, status : Statuses, authority : Authorities]
    BY <2>1, DecisionType
  <2> QED BY <2>1, <2>2, <2>3 DEF IInv, TypeOK, Decided, Passed, Answered
<1>2. ASSUME Act PROVE IInv'
  <2>1. /\ pc = "action" /\ evidence' = evidence /\ decision' = decision
        /\ \/ Contract(Out) /\ answer' = Out /\ pc' = "routing"
           \/ ~Contract(Out) /\ answer' = answer /\ pc' = "refused"
    BY <1>2 DEF Act
  <2>2. Out \in [risk : RiskLevels, status : Statuses, validity : {"VALID", "INVALID"},
                 reason : {"RISK", "INVALID_INPUT", "FALLBACK"}, mode : {"FULL", "SHADOW_ONLY"},
                 automated : BOOLEAN, failures : SUBSET FailureType, routing : SUBSET FailureType]
    BY OutputType DEF IInv, TypeOK
  <2> HIDE DEF Out
  <2>3. TypeOK' /\ Decided'
    BY <2>1, <2>2 DEF IInv, TypeOK, Decided, Failsafe
  <2>4. Out' = Out
    BY <2>1 DEF Out
  <2>5. Passed'
    BY <2>1, <2>4 DEF Passed, Answered, Carries, Out
  <2> QED BY <2>3, <2>5 DEF IInv
<1>3. ASSUME Route PROVE IInv'
  <2> DEFINE Rec == [risk : RiskLevels, status : Statuses, validity : {"VALID", "INVALID"},
                     reason : {"RISK", "INVALID_INPUT", "FALLBACK"}, mode : {"FULL", "SHADOW_ONLY"},
                     automated : BOOLEAN, failures : SUBSET FailureType,
                     routing : SUBSET FailureType]
  <2>1. PICK s \in {"OK", "DEGRADED", "INVALID"} :
          answer' = [answer EXCEPT !.routing = TmaFailure(s)]
    BY <1>3 DEF Route
  <2>2. TmaFailure(s) \in SUBSET FailureType
    <3>1. /\ Failure("external_source_unreliable", "medium", FALSE) \in FailureType
          /\ Failure("external_source_unreliable", "high", FALSE) \in FailureType
      BY DEF Failure, FailureType, FailureKinds
    <3> QED BY <3>1 DEF TmaFailure, When
  <2>3. /\ pc = "routing" /\ pc' = "answered" /\ evidence' = evidence /\ decision' = decision
        /\ answer \in Rec
    BY <1>3 DEF Route, IInv, TypeOK
  <2>4. answer' \in Rec /\ Carries(answer', answer)
    BY <2>1, <2>2, <2>3 DEF Carries
  <2>5. TypeOK' /\ Decided'
    BY <2>3, <2>4 DEF IInv, TypeOK, Decided, Failsafe
  <2>6. Contract(Out) /\ Carries(answer, Out) /\ Out' = Out
    BY <2>3 DEF IInv, Passed, Answered
  <2>7. Carries(answer', Out)
    <3> HIDE DEF Out
    <3> QED BY <2>4, <2>6 DEF Carries
  <2>8. Passed'
    BY <2>3, <2>6, <2>7 DEF Passed, Answered
  <2> QED BY <2>5, <2>8 DEF IInv
<1>4. ASSUME UNCHANGED vars PROVE IInv'
  BY <1>4 DEF vars, IInv, TypeOK, Decided, Passed, Answered, Failsafe
<1> QED BY <1>1, <1>2, <1>3, <1>4 DEF Next

LEMMA Inductive == Spec => []IInv
<1>1. Init => IInv BY InitInv
<1>2. IInv /\ [Next]_vars => IInv' BY NextInv
<1> QED BY <1>1, <1>2, PTL DEF Spec

-----------------------------------------------------------------------------
(* The theorems                                                             *)

(* Every variable of the stages of a decision stays within its range.       *)
THEOREM TypeCorrect == Spec => []TypeOK
<1>1. IInv => TypeOK BY DEF IInv
<1> QED BY <1>1, Inductive, PTL

(* Every alarm that a layer of decide(), the trend or the elevation raises  *)
(* is heard in the answer at its level or a higher one, and an engine that  *)
(* fails answers no less than WARNING.                                      *)
THEOREM EveryAlarmIsHeard == Spec => []AlarmsAreHeard
<1>1. ASSUME IInv PROVE AlarmsAreHeard
  <2>1. Answered => answer.risk = decision.risk /\ pc # "evaluation"
    BY <1>1 DEF IInv, Passed, Carries, Output, Answered
  <2>2. ASSUME Answered, Failed PROVE Rank[answer.risk] >= Rank["WARNING"]
    <3>1. answer.risk = "WARNING"
      BY <1>1, <2>1, <2>2, EngineRejects DEF IInv, Decided, Failed, Failsafe
    <3>2. Rank["WARNING"] = 3
      BY Levels DEF RiskLevels
    <3> QED BY <3>1, <3>2
  <2>3. ASSUME Answered, ~Failed, ~InvalidInput(evidence),
               NEW r \in Alarms(evidence) \cup {"SAFE"}
        PROVE  Rank[answer.risk] >= Rank[Lifted(evidence, r)]
    <3>1. decision = Engine(evidence)
      BY <1>1, <2>1, <2>3 DEF IInv, Decided, Failed, Failsafe
    <3> QED BY <2>1, <2>3, <3>1, EngineHears
  <2> QED BY <2>2, <2>3 DEF AlarmsAreHeard
<1> QED BY <1>1, Inductive, PTL

(* A snapshot with a physical impossibility is refused by the contract, or  *)
(* answered UNKNOWN, INVALID and out of automation.                         *)
THEOREM InvalidIsHarmless == Spec => []InvalidNeverActs
<1>1. ASSUME IInv PROVE InvalidNeverActs
  <2> SUFFICES ASSUME Answered, evidence.critical
               PROVE  /\ answer.risk = "UNKNOWN" /\ answer.reason = "INVALID_INPUT"
                      /\ answer.validity = "INVALID" /\ ~answer.automated
    BY DEF InvalidNeverActs
  <2> DEFINE Out == Output(evidence, decision)
  <2>1. Contract(Out) /\ Carries(answer, Out) /\ pc # "evaluation"
    BY <1>1 DEF IInv, Passed, Answered
  <2>2. Validity(evidence) = "INVALID" /\ InvalidInput(evidence)
    BY DEF Validity, InvalidInput
  <2>3. Reason(decision) # "RISK" /\ ~Automated(evidence, decision)
    BY <2>1, <2>2 DEF Contract, Output
  <2>4. decision = Engine(evidence)
    BY <1>1, <2>1, <2>3 DEF IInv, Decided, Failsafe, Reason
  <2>5. decision.risk = "UNKNOWN" /\ Reason(decision) = "INVALID_INPUT"
    BY <2>2, <2>4, EngineRejects DEF Reason
  <2> QED BY <2>1, <2>2, <2>3, <2>5 DEF Carries, Output
<1> QED BY <1>1, Inductive, PTL

(* validate_decision_meta turns away none but the two cases in which engine *)
(* and failure records disagree about the validity of the data.             *)
THEOREM SoundAreAnswered == Spec => []SoundRequestsAnswered
<1>1. ASSUME IInv PROVE SoundRequestsAnswered
  <2> SUFFICES ASSUME pc = "refused"
               PROVE  \/ InvalidInput(evidence) /\ ~Failed /\ Validity(evidence) = "VALID"
                      \/ Failed /\ Validity(evidence) = "INVALID"
    BY DEF SoundRequestsAnswered
  <2>1. ~Contract(Output(evidence, decision)) /\ evidence \in EvidenceType
    BY <1>1 DEF IInv, Passed, TypeOK
  <2>2. decision = Engine(evidence) \/ decision = Failsafe
    BY <1>1 DEF IInv, Decided
  <2> QED BY <2>1, <2>2, Refusals DEF Failed
<1> QED BY <1>1, Inductive, PTL

(* A working engine's answer is marked safe for automation only when its    *)
(* status is OK, and never with a severe failure among its own.             *)
THEOREM AutomatedIsOK == Spec => []AutomationNeedsOK
<1>1. ASSUME IInv PROVE AutomationNeedsOK
  <2> SUFFICES ASSUME Answered, answer.automated
               PROVE  (Failed \/ answer.status = "OK") /\ ~AnyHigh(answer.failures)
    BY DEF AutomationNeedsOK
  <2>1. /\ Automated(evidence, decision) /\ pc # "evaluation"
        /\ answer.status = decision.status /\ answer.failures = Failures(evidence)
    BY <1>1 DEF IInv, Passed, Carries, Output, Answered
  <2>2. ~AnyHigh(Failures(evidence)) /\ Reason(decision) = "RISK"
    BY <2>1 DEF Automated
  <2>3. ASSUME decision = Engine(evidence) PROVE decision.status = "OK"
    <3>1. ~InvalidInput(evidence)
      BY <2>2, <2>3, EngineRejects DEF Reason
    <3>2. evidence \in EvidenceType
      BY <1>1 DEF IInv, TypeOK
    <3> QED BY <2>2, <2>3, <3>1, <3>2, QuietIsOK, EngineRejects
  <2>4. decision = Engine(evidence) \/ Failed
    BY <1>1, <2>1 DEF IInv, Decided, Failed, Failsafe
  <2> QED BY <2>1, <2>2, <2>3, <2>4
<1> QED BY <1>1, Inductive, PTL

(* Nothing but the BMKG floor answers below the class of the model.         *)
THEOREM OnlyFloorCaps == Spec => []CapOnlyByFloor
<1>1. ASSUME IInv PROVE CapOnlyByFloor
  <2> SUFFICES ASSUME Answered, ~Failed, ~InvalidInput(evidence)
               PROVE  \/ Rank[answer.risk] >= Rank[MLClass(evidence)]
                      \/ decision.authority = "L1_7_BMKG_SAFETY_FLOOR"
    BY DEF CapOnlyByFloor
  <2>1. answer.risk = decision.risk /\ pc # "evaluation"
    BY <1>1 DEF IInv, Passed, Carries, Output, Answered
  <2>2. decision = Engine(evidence)
    BY <1>1, <2>1 DEF IInv, Decided, Failed, Failsafe
  <2> QED BY <2>1, <2>2, EngineCap
<1> QED BY <1>1, Inductive, PTL

(* With the rest of the snapshot unchanged, more water, a more severe       *)
(* station or a rapid rise never lowers the level the engine answers.       *)
THEOREM RiverIsMonotone == Spec => []RiverNeverLowers
<1>1. ASSUME IInv PROVE RiverNeverLowers
  <2> SUFFICES ASSUME pc = "action", ~Failed, NEW w \in 0..3, NEW h \in 0..2, NEW r \in BOOLEAN,
                      NEW f, f = [evidence EXCEPT !.water = w, !.hydrology = h, !.rapid = r],
                      MoreRiver(evidence, f)
               PROVE  Rank[Engine(f).risk] >= Rank[decision.risk]
    BY DEF RiverNeverLowers
  <2>1. decision = Engine(evidence) /\ evidence \in EvidenceType
    BY <1>1 DEF IInv, TypeOK, Decided, Failed, Failsafe
  <2>2. SameButRiver(evidence, f) /\ RiverInRange(evidence) /\ RiverInRange(f)
    BY <2>1, OnlyRiverChanges
  <2> QED BY <2>1, <2>2, EngineGrows
<1> QED BY <1>1, Inductive, PTL
===============================================================================
