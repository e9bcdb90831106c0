--------------------------- MODULE PredictThreads -----------------------------
(***************************************************************************)
(* The handler threads of the prediction endpoints (app/api/main.py):      *)
(* POST /predict/agentic, guarded by the rate limiter, and the two GET     *)
(* endpoints that predict from the latest snapshot and publish a report.   *)
(* A restart of the server loses the limiter and keeps the files.          *)
(***************************************************************************)
EXTENDS RateLimiter, ReportFile

ASSUME ThreadsAssumption == IsFiniteSet(Threads)

VARIABLES
  doing,       \* where each thread is
  outcome   \* of its latest call

threadsVars == <<limiterVars, reportVars, doing, outcome>>

GoOn(t, place) == doing' = [doing EXCEPT ![t] = place]
Return(t, what) == GoOn(t, "idle") /\ outcome' = [outcome EXCEPT ![t] = what]

-----------------------------------------------------------------------------
(* require_api_key, past the checks of the key itself                       *)

Arrive(t) ==
  /\ doing[t] = "idle"
  /\ GoOn(t, "expire") /\ outcome' = [outcome EXCEPT ![t] = "none"]
  /\ UNCHANGED <<limiterVars, reportVars>>

Expire(t) ==
  /\ doing[t] = "expire"
  /\ GoOn(t, IF OldestExpired THEN "drop" ELSE "check")
  /\ UNCHANGED <<limiterVars, reportVars, outcome>>

(* Mutant: one expired stamp is dropped, not all.                           *)
DropOnce(t) ==
  /\ doing[t] = "drop" /\ PopLeft
  /\ GoOn(t, "check")
  /\ UNCHANGED <<reportVars, outcome>>
Drop(t) ==
  /\ doing[t] = "drop" /\ PopLeft
  /\ GoOn(t, "expire")
  /\ UNCHANGED <<reportVars, outcome>>

(* Another thread has emptied the deque: IndexError.                        *)
DropFails(t) ==
  /\ doing[t] = "drop" /\ bucket = <<>>
  /\ Return(t, "error")
  /\ UNCHANGED <<limiterVars, reportVars>>

Check(t) ==
  /\ doing[t] = "check"
  /\ \/ Full /\ Return(t, "refused")
     \/ ~Full /\ GoOn(t, "append") /\ UNCHANGED outcome
  /\ UNCHANGED <<limiterVars, reportVars>>

Admit(t) ==
  /\ doing[t] = "append" /\ AppendStamp
  /\ Return(t, "admitted")
  /\ UNCHANGED reportVars

-----------------------------------------------------------------------------
(* predict_realtime_native, from the opening of the report on               *)

Open(t) ==
  /\ doing[t] = "idle" /\ OpenTmp(t)
  /\ GoOn(t, "write") /\ outcome' = [outcome EXCEPT ![t] = "none"]
  /\ UNCHANGED limiterVars

Write(t) ==
  /\ doing[t] = "write" /\ WriteText(t)
  /\ GoOn(t, "replace")
  /\ UNCHANGED <<limiterVars, outcome>>

Publish(t) ==
  /\ doing[t] = "replace"
  /\ \/ Replace(t) /\ Return(t, "published")
     \/ ReplaceFails(t) /\ Return(t, "missing")
  /\ UNCHANGED limiterVars

-----------------------------------------------------------------------------
ClockTick ==
  /\ \A t \in Threads : doing[t] \notin {"expire", "drop", "check", "append"}
  /\ LimiterTick
  /\ UNCHANGED <<reportVars, doing, outcome>>

Restart ==
  /\ LimiterRestart /\ ReportRestart
  /\ doing' = [t \in Threads |-> "idle"] /\ outcome' = [t \in Threads |-> "none"]

ThreadsInit ==
  /\ LimiterInit /\ ReportInit
  /\ doing = [t \in Threads |-> "idle"] /\ outcome = [t \in Threads |-> "none"]

ThreadStep(t) ==
  \/ Arrive(t) \/ Expire(t) \/ Drop(t) \/ DropFails(t) \/ Check(t) \/ Admit(t)
  \/ Open(t) \/ Write(t) \/ Publish(t)

ThreadsNext == (\E t \in Threads : ThreadStep(t)) \/ ClockTick \/ Restart

ThreadsSpec == ThreadsInit /\ [][ThreadsNext]_threadsVars

-----------------------------------------------------------------------------
(* Properties                                                               *)

ThreadsTypeOK ==
  /\ bucket \in Seq(RateAges) /\ admitted \in Seq(RateAges) /\ early \in Seq(RateAges)
  /\ tmp \in Contents \union {"none"} /\ report \in Contents
  /\ file \in [Threads -> {"none", "tmp", "report", "gone"}]
  /\ \A t \in Threads : (file[t] # "none") = (doing[t] \in {"write", "replace"})

(* No more calls of a key are let in within a window than the limit, one    *)
(* for each other thread (the check and the append are apart), and one for  *)
(* each stamp two threads dropped too early between them.                   *)
AdmissionsBounded ==
  Len(admitted) <= RateLimit + (Cardinality(Threads) - 1) + Len(early)

(* A call is only refused when as many calls as the limit were let in       *)
(* within the window, however the threads take turns at the deque.          *)
RefusalsJustified ==
  \A t \in Threads : (doing[t] = "check" /\ Full) => Len(admitted) >= RateLimit

(* The published report is always one whole report, through restarts in the *)
(* middle of a call: unless the call that published it ran beside another   *)
(* one (the temporary file has one name for all): then it may be truncated  *)
(* or mixed.                                                                *)
ReportWhole == spoiled \/ report = "whole"

(* A call that ran beside no other publishes what it wrote: it does not     *)
(* answer 404 because its file is gone.                                     *)
PublishesItsOwn ==
  \A t \in Threads : (doing[t] = "replace" /\ t \notin met) => file[t] = "tmp" /\ tmp = "whole"
=============================================================================
