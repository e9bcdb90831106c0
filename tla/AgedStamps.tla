------------------------------- MODULE AgedStamps ------------------------------
(***************************************************************************)
(* Sequences of time stamps, oldest first, kept as ages in ticks: those    *)
(* the rate limiter (app/api/security.py) and the circuit breaker          *)
(* (app/services/routing/route_planner.py) hold against a window, and the  *)
(* history of what they should hold.                                       *)
(***************************************************************************)
EXTENDS Naturals, Sequences, FiniteSets

(* An age that has reached cap stops there.                                 *)
Older(a, cap) == IF a < cap THEN a + 1 ELSE a
Aged(s, cap)  == [i \in DOMAIN s |-> Older(s[i], cap)]

(* A tick for a history of ages below cap: those that reach it are          *)
(* forgotten, which are the first ones.                                     *)
Expiring(s, cap) == {i \in DOMAIN s : s[i] + 1 >= cap}
Recall(s, cap)   == SubSeq(Aged(s, cap), Cardinality(Expiring(s, cap)) + 1, Len(s))
=============================================================================
