---------------------------- MODULE MCRoutingStage ----------------------------
(* Instances of RoutingStage for TLC: all pairs of routes with small numbers *)
(* of points in flood zones, judged with full and with low trust.            *)
EXTENDS RoutingStage, TLC

MCRoutes ==
  [high : {0, 1, 2, 10}, medium : {0, 10}, duration : 0..2, known : {TRUE}]
  \union {[high |-> 2, medium |-> 0, duration |-> 1, known |-> FALSE]}

MCOffers ==
  [risk : {"DANGER", "WARNING"}, routes : {<<one, other>> : one \in MCRoutes, other \in MCRoutes},
   zones : {{}, {"medium"}, {"high", "medium"}}, trust : {60, 100}, penalty : {70, 100}]

MCSymmetry == Permutations(Bodies)
=============================================================================
