--------------------------- MODULE DecisionService ---------------------------
(***************************************************************************)
(* What FloodDecisionPipeline promises the callers of run(): a request is  *)
(* answered once, with a decision or with a refusal (PIPELINE_FAILURE, or  *)
(* an exception); a run is stored together with a decision or not at all,  *)
(* and a refusal stores nothing.  Whether a run that was decided is stored *)
(* is left open: persistence is best-effort.  Every accepted request is    *)
(* decided or refused in the end; no such promise is made of the write.    *)
(***************************************************************************)
CONSTANT Requests
VARIABLES verdict, stored
serviceVars == <<verdict, stored>>

Init ==
  /\ verdict = [r \in Requests |-> "new"]
  /\ stored = {}

Accept(r) ==
  /\ verdict[r] = "new"
  /\ verdict' = [verdict EXCEPT ![r] = "working"]
  /\ UNCHANGED stored

(* The decision is made.  It is answered at once, or stored first.          *)
Decide(r) ==
  /\ verdict[r] = "working"
  /\ \E v \in {"decided", "decision"} : verdict' = [verdict EXCEPT ![r] = v]
  /\ UNCHANGED stored

Store(r) ==
  /\ verdict[r] = "decided"
  /\ verdict' = [verdict EXCEPT ![r] = "decision"]
  /\ stored' \in {stored, stored \union {r}}

Refuse(r) ==
  /\ verdict[r] = "working"
  /\ verdict' = [verdict EXCEPT ![r] = "refusal"]
  /\ UNCHANGED stored

Next == \E r \in Requests : Accept(r) \/ Decide(r) \/ Store(r) \/ Refuse(r)

Spec == Init /\ [][Next]_serviceVars
LiveSpec == Spec /\ \A r \in Requests : WF_serviceVars(Decide(r) \/ Refuse(r))
=============================================================================
