----------------------------- MODULE RouteCircuit -----------------------------
(***************************************************************************)
(* The circuit breaker in front of the routes service                      *)
(* (app/services/routing/route_planner.py): a list of failure times and    *)
(* the time until which the circuit is open, module globals that every     *)
(* routing body reads and writes without a lock.                           *)
(*                                                                         *)
(* Times are kept as ages, in ticks, so that the model stays finite: an    *)
(* age stops one tick behind the window, where it has expired for good.    *)
(* The list is cut in two steps, the test of its head and the pop of its   *)
(* head, because two bodies, or a body and a success, may interleave       *)
(* there.  No tick falls between the steps of one call.                    *)
(***************************************************************************)
EXTENDS AgedStamps

CONSTANTS
  Limit,     \* _CIRCUIT_FAILURE_LIMIT
  Window,    \* _CIRCUIT_WINDOW_S
  OpenFor    \* _CIRCUIT_OPEN_S

(* The circuit stays open for no less than the window (both are 60 s).      *)
ASSUME CircuitAssumption ==
  Limit \in Nat \ {0} /\ Window \in Nat \ {0} /\ OpenFor \in Nat /\ OpenFor >= Window

VARIABLES
  failures,  \* _route_failures: ages, oldest first
  openFor,   \* ticks until _circuit_open_until is reached
  recent,    \* history: ages of the failures since the last success, within the window
  lost       \* history: ages of those of them that were dropped before their time

circuitVars == <<failures, openFor, recent, lost>>

Ages == 0..(Window + 1)

CircuitInit ==
  failures = <<>> /\ openFor = 0 /\ recent = <<>> /\ lost = <<>>

CircuitOpen == openFor > 0

(* now = time.monotonic(); _route_failures.append(now)                      *)
AppendFailure ==
  /\ failures' = Append(failures, 0)
  /\ recent'   = Append(recent, 0)
  /\ UNCHANGED <<openFor, lost>>

(* The condition of the loop that drops old failures.                       *)
HeadExpired == failures # <<>> /\ Head(failures) > Window

(* _route_failures.pop(0): whatever is at the head now.                     *)
DropHead ==
  /\ failures # <<>>
  /\ failures' = Tail(failures)
  /\ lost' = IF Head(failures) < Window THEN Append(lost, Head(failures)) ELSE lost
  /\ UNCHANGED <<openFor, recent>>

(* Mutant: the limit is exceeded, not reached.                              *)
TooManyBeyond == Len(failures) > Limit
TooMany == Len(failures) >= Limit

CountFailures ==
  /\ openFor' = IF TooMany THEN OpenFor ELSE openFor
  /\ UNCHANGED <<failures, recent, lost>>

(* _record_route_success: the list is emptied, the circuit is left as it is.*)
ClearFailures ==
  /\ failures' = <<>> /\ recent' = <<>> /\ lost' = <<>>
  /\ UNCHANGED openFor

StampsTick ==
  /\ failures' = Aged(failures, Window + 1)
  /\ recent' = Recall(recent, Window)
  /\ lost' = Recall(lost, Window)

(* Mutant: the circuit stays open once it has opened.                       *)
StaysOpen == StampsTick /\ UNCHANGED openFor

CircuitTick ==
  /\ StampsTick
  /\ openFor' = IF openFor = 0 THEN 0 ELSE openFor - 1
=============================================================================
