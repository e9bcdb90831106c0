----------------------------- MODULE RouteChoice -----------------------------
(***************************************************************************)
(* Which of the candidate routes is recommended: the filter for DANGER     *)
(* (app/agents/routing_agent.py) and the scoring of                        *)
(* app/services/routing/route_planner.py.                                  *)
(*                                                                         *)
(* A route is the number of its points (of Points) in high zones and in    *)
(* medium zones, its duration, and whether its polyline is known.  An offer *)
(* is what a choice is made from: the routes, the risk, the severities of  *)
(* zones there are, and the trust and the penalty for vulnerability, in    *)
(* percent.  Routes are named by their place in the offer.  Scores are     *)
(* integers: an effective safety of 1.0 is FullSafety, and the weights .60,*)
(* .25 and .15 are 60, 25 and 15.  The rounding of scores to four decimals *)
(* is left out.                                                            *)
(***************************************************************************)
EXTENDS Integers, Sequences

Points     == 20
FullSafety == Points * 100 * 100

Routes == [high : 0..Points, medium : 0..Points, duration : Nat, known : BOOLEAN]
PossibleOffers ==
  [risk : {"DANGER", "WARNING"}, routes : Seq(Routes) \ {<<>>}, zones : SUBSET {"medium", "high"},
   trust : 0..100, penalty : 0..100]

(* compute_route_safety, in points: a point in a high zone weighs 2, in a   *)
(* medium one 1; a route without a polyline counts one half.                *)
SafetyPoints(route, zones) ==
  LET hits == (IF "high" \in zones THEN 2 * route.high ELSE 0)
              + (IF "medium" \in zones THEN route.medium ELSE 0)
  IN  IF zones = {} THEN Points
      ELSE IF ~route.known THEN Points \div 2
      ELSE IF hits > Points THEN 0 ELSE Points - hits

Effective(o, i) == SafetyPoints(o.routes[i], o.zones) * o.trust * o.penalty

(* Mutant: the filter looks at the wrong side of the threshold.             *)
CleanInverted(route) == SafetyPoints(route, {"high"}) * 100 <= 90 * Points
(* r >= 0.90, judged by the high zones alone.                               *)
Clean(route) == SafetyPoints(route, {"high"}) * 100 >= 90 * Points

(* _filter_danger_routes: the clean routes, or all of them and a flag.      *)
Constrained(o) == o.risk = "DANGER" /\ "high" \in o.zones
CleanOnes(o)   == {i \in DOMAIN o.routes : Clean(o.routes[i])}
Filtered(o) == IF Constrained(o) /\ CleanOnes(o) # {} THEN CleanOnes(o) ELSE DOMAIN o.routes
Flagged(o)  == Constrained(o) /\ CleanOnes(o) = {}

Longest(o, left)  == CHOOSE i \in left : \A j \in left : o.routes[i].duration >= o.routes[j].duration
Shortest(o, left) == CHOOSE i \in left : \A j \in left : o.routes[i].duration <= o.routes[j].duration

(* safety * .60 + duration * .25 (+ reliability * .15, equal for all), the  *)
(* duration scaled to 1.0 for the shortest route and 0.0 for the longest;   *)
(* multiplied by the range of the durations to stay an integer.             *)
Combined(o, left, i) ==
  LET longest == o.routes[Longest(o, left)].duration
      range   == longest - o.routes[Shortest(o, left)].duration
      unit    == IF range = 0 THEN 1 ELSE range
  IN  60 * Effective(o, i) * unit + 25 * (longest - o.routes[i].duration) * FullSafety

(* max(scored, key=combined): the first of the best.                        *)
BestOf(o, left) ==
  LET score == [i \in left |-> Combined(o, left, i)]
      best  == {i \in left : \A j \in left : score[i] >= score[j]}
  IN  CHOOSE i \in best : \A j \in best : i <= j

(* best_safety < _UNSAFE_ROUTE_THRESHOLD (.30)                              *)
NoneSafe(o, left) == \A i \in left : Effective(o, i) * 100 < 30 * FullSafety

ThroughHigh(route) == route.known /\ 20 * route.high > Points

(* The recommendation, as far as the properties tell answers apart.         *)
Recommendation(o) ==
  LET left == Filtered(o)
      best == BestOf(o, left)
      safest == o.trust * o.penalty * Points
  IN  IF NoneSafe(o, left)
      THEN [kind |-> "no_safe_route", constrained |-> Constrained(o)]
      ELSE [kind |-> "route",
            constrained |-> Constrained(o),
            flagged     |-> Flagged(o),
            throughHigh |-> ThroughHigh(o.routes[best]),
            avoidable   |-> \E i \in DOMAIN o.routes : o.routes[i].known /\ ~ThroughHigh(o.routes[i]),
            fasterThroughFlood |->
              /\ o.routes[best].known /\ Effective(o, best) < safest
              /\ \E i \in left : /\ Effective(o, i) > Effective(o, best)
                                 /\ o.routes[i].duration > o.routes[best].duration]
=============================================================================
