---------------------------- MODULE MCDecisionStage ----------------------------
(* Instances of DecisionStage for TLC: the evidence is the union of four      *)
(* slices, each of which varies the inputs that meet in the same layers.      *)
(* The bands of the probability are cut at 0.07, 0.092, 0.12, 0.142, 0.242,   *)
(* 0.30, 0.40, 0.50 and 0.75.                                                 *)
EXTENDS DecisionStage

Ladder(pre, warning, danger) == [pre |-> pre, warning |-> warning, danger |-> danger]
Committed == Ladder(1, 4, 5)    \* the bundle under src/: 0.07, 0.142, 0.242
Adapted   == Ladder(1, 2, 4)    \* danger lowered to 0.142 and warning with it
Defaults  == Ladder(6, 8, 9)    \* AdaptiveThresholds: 0.30, 0.50, 0.75

Quiet ==
  [critical |-> FALSE, plausibility |-> "sound", sections |-> 4, stale |-> FALSE,
   water |-> 1, rain |-> 0, soaked |-> FALSE, bmkg |-> FALSE, hydrology |-> 0, rapid |-> FALSE,
   p |-> 0, ladder |-> Committed, ood |-> "in", gap |-> "none", surge |-> FALSE, trend |-> "flat",
   sustained |-> FALSE, elevation |-> "other"]

(* The physical signals, against each other and against the model.            *)
Physical ==
  {[Quiet EXCEPT !.water = w, !.rain = r, !.bmkg = b, !.hydrology = h, !.rapid = q,
                 !.ood = o, !.p = p, !.sustained = s] :
     w \in 0..3, r \in 0..3, b \in BOOLEAN, h \in 0..2, q \in BOOLEAN,
     o \in {"in", "out"}, p \in {0, 2, 4, 5}, s \in BOOLEAN}

(* The model, the failures and the trend, under each ladder.                  *)
Learned ==
  {[Quiet EXCEPT !.p = p, !.ladder = l, !.hydrology = h, !.ood = o, !.gap = g,
                 !.surge = u, !.trend = t, !.sustained = s] :
     p \in 0..MaxP, l \in {Committed, Adapted, Defaults}, h \in 0..2, o \in {"in", "far"},
     g \in {"none", "medium", "high"}, u \in BOOLEAN,
     t \in {"flat", "rising", "converging"}, s \in BOOLEAN}

(* The elevation, against everything it may escalate.                         *)
Elevations ==
  {[Quiet EXCEPT !.elevation = v, !.rain = r, !.soaked = k, !.bmkg = b, !.p = p,
                 !.hydrology = h, !.gap = g, !.sustained = s] :
     v \in {"below", "low", "other"}, r \in 0..3, k \in BOOLEAN, b \in BOOLEAN,
     p \in {0, 1, 4, 5}, h \in {0, 2}, g \in {"none", "high"}, s \in BOOLEAN}

(* Input that is missing, stale or implausible.                               *)
Suspect ==
  {[Quiet EXCEPT !.critical = c, !.plausibility = f, !.sections = n, !.stale = x, !.water = w,
                 !.rain = r, !.bmkg = b, !.p = p, !.gap = g, !.ood = o, !.elevation = v] :
     c \in BOOLEAN, f \in {"sound", "poor", "void"}, n \in 0..4, x \in BOOLEAN, w \in {0, 3},
     r \in {0, 2}, b \in BOOLEAN, p \in {0, 5}, g \in {"none", "high"}, o \in {"in", "far"},
     v \in {"low", "other"}}

MCEvidence == {e \in Physical \cup Learned \cup Elevations \cup Suspect : Consistent(e)}
===============================================================================
