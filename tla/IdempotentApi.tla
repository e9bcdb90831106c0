---------------------------- MODULE IdempotentApi ----------------------------
(***************************************************************************)
(* POST /predict/agentic with an Idempotency-Key (app/api/main.py).        *)
(*                                                                         *)
(* The endpoint is a coroutine that makes three blocking calls one after   *)
(* the other: look the key up, run the pipeline, store the response.  Each *)
(* runs on a thread of the server's pool; _bounded_threadpool waits for it *)
(* within the request budget and answers 503 when that is over.  The       *)
(* thread goes on: its effect may still come, long after the answer.       *)
(*                                                                         *)
(* All coroutines share one event loop.  GET /readyz is a coroutine too,   *)
(* and asks the database without a thread: until it answers, nothing else  *)
(* runs on the loop, the timers of wait_for included.                      *)
(*                                                                         *)
(* A response is named by the request whose pipeline run made it.  Time is *)
(* abstracted to the passing of a key's hour.                              *)
(***************************************************************************)
EXTENDS Naturals, FiniteSets

CONSTANTS
  Requests,    \* calls of predict_agentic_endpoint
  Keys,        \* idempotency keys in use
  NoKey,       \* the header is absent
  Nothing,     \* no response
  MaxExpiries  \* bound: how often an hour passes

ASSUME KeyAssumption ==
  /\ NoKey \notin Keys /\ Nothing \notin Requests
  /\ MaxExpiries \in Nat

Calls == {"lookup", "run", "store"}

VARIABLES
  loop,      \* the event loop: free, or blocked by a readiness probe
  keyOf,     \* the key each request carries, or NoKey
  pc,        \* the coroutine: new, the call it awaits, answered
  call,      \* the thread of each call: none, running, done, failed
  found,     \* what the lookup thread read
  cache,     \* idempotency_keys: response of the key
  fresh,     \* keys whose row is less than an hour old
  expiries,
  answer,    \* HTTP outcome: none, ok, timeout, error, rejected
  body,      \* the response of a 200
  executed,  \* requests of the key that ran the pipeline since its hour began
  overlapped,\* keys with two requests at work at a time, within their hour
  faulted,   \* keys with a request that failed or timed out, within their hour
  stored     \* requests whose response was ever committed to the table

vars == <<loop, pc, call, found, cache, fresh, expiries, answer, body, executed,
          overlapped, faulted, stored, keyOf>>
coroutine == <<pc, answer, body>>
ghosts == <<executed, overlapped, faulted>>
offLoop == <<coroutine, call, found, cache, fresh, expiries, ghosts, stored, keyOf>>

Open(r) == pc[r] \in Calls
SameKey(r) == {q \in Requests : keyOf[q] = keyOf[r]}

-----------------------------------------------------------------------------
(* The threads                                                              *)

Ends(r, c, how) ==
  /\ call[r][c] = "running"
  /\ call' = [call EXCEPT ![r][c] = how]

(* Any of the calls may raise before it has an effect.                      *)
ThreadFails(r, c) ==
  /\ Ends(r, c, "failed")
  /\ UNCHANGED <<coroutine, found, cache, fresh, expiries, ghosts, stored, keyOf>>

(* DELETE of every expired row, then SELECT of this key's row, in one       *)
(* transaction.  It may be committed and the call raise all the same: the   *)
(* acknowledgement is lost, or putconn finds the pool closed.  Mutant: the  *)
(* DELETE has no WHERE.                                                     *)
DeleteAll(r) ==
  /\ Ends(r, "lookup", "done")
  /\ cache' = [k \in Keys |-> Nothing]
  /\ found' = found
  /\ UNCHANGED <<coroutine, fresh, expiries, ghosts, stored, keyOf>>
LookupThread(r) ==
  /\ \E how \in {"done", "failed"} :
       /\ Ends(r, "lookup", how)
       /\ IF keyOf[r] = NoKey
          THEN UNCHANGED <<cache, found>>
          ELSE /\ cache' = [k \in Keys |-> IF k \in fresh THEN cache[k] ELSE Nothing]
               /\ found' = [found EXCEPT ![r] = IF how = "done" THEN cache'[keyOf[r]] ELSE @]
  /\ UNCHANGED <<coroutine, fresh, expiries, ghosts, stored, keyOf>>

RunThread(r) ==
  /\ Ends(r, "run", "done")
  /\ UNCHANGED <<coroutine, found, cache, fresh, expiries, ghosts, stored, keyOf>>

(* INSERT ... ON CONFLICT DO UPDATE: the last writer wins and the hour      *)
(* starts again.  Here too the call may raise after the commit.             *)
StoreThread(r) ==
  /\ \E how \in {"done", "failed"} : Ends(r, "store", how)
  /\ IF keyOf[r] = NoKey
     THEN UNCHANGED <<cache, fresh, stored>>
     ELSE /\ cache' = [cache EXCEPT ![keyOf[r]] = r]
          /\ fresh' = fresh \union {keyOf[r]}
          /\ stored' = stored \union {r}
  /\ UNCHANGED <<coroutine, found, expiries, ghosts, keyOf>>

-----------------------------------------------------------------------------
(* The coroutine                                                            *)

Await(r, c) ==
  /\ pc' = [pc EXCEPT ![r] = c]
  /\ call' = [call EXCEPT ![r][c] = "running"]

Answer(r, a, b) ==
  /\ pc' = [pc EXCEPT ![r] = "answered"]
  /\ answer' = [answer EXCEPT ![r] = a]
  /\ body' = [body EXCEPT ![r] = b]

(* Keys the request can spoil for others.                                   *)
KeyOnly(r) == {keyOf[r]} \ {NoKey}

Arrive(r) ==
  /\ loop = "free" /\ UNCHANGED loop
  /\ pc[r] = "new"
  /\ Await(r, "lookup")
  /\ overlapped' = IF \E q \in SameKey(r) : Open(q)
                   THEN overlapped \union KeyOnly(r) ELSE overlapped
  /\ UNCHANGED <<found, cache, fresh, expiries, answer, body, executed, faulted, stored, keyOf>>

(* The row of the key is the answer.                                        *)
Hit(r) ==
  /\ pc[r] = "lookup" /\ call[r]["lookup"] = "done"
  /\ found[r] # Nothing
  /\ Answer(r, "ok", found[r])
  /\ UNCHANGED <<call, found, cache, fresh, expiries, ghosts, stored, keyOf>>

(* No row: a snapshot with a non-finite number is refused, any other is run.*)
Miss(r) ==
  /\ pc[r] = "lookup" /\ call[r]["lookup"] = "done"
  /\ found[r] = Nothing
  /\ \/ /\ Answer(r, "rejected", Nothing)
        /\ UNCHANGED <<call, executed>>
     \/ /\ Await(r, "run")
        /\ executed' = [k \in Keys |-> IF k = keyOf[r] THEN executed[k] \union {r}
                                       ELSE executed[k]]
        /\ UNCHANGED <<answer, body>>
  /\ UNCHANGED <<found, cache, fresh, expiries, overlapped, faulted, stored, keyOf>>

(* Mutant: the response goes out before it is stored.                       *)
AnswerFirst(r) ==
  /\ pc[r] = "run" /\ call[r]["run"] = "done"
  /\ Answer(r, "ok", r)
  /\ call' = [call EXCEPT ![r]["store"] = "running"]
  /\ UNCHANGED <<found, cache, fresh, expiries, ghosts, stored, keyOf>>
AfterRun(r) ==
  /\ pc[r] = "run" /\ call[r]["run"] = "done"
  /\ Await(r, "store")
  /\ UNCHANGED <<found, cache, fresh, expiries, answer, body, ghosts, stored, keyOf>>

AfterStore(r) ==
  /\ pc[r] = "store" /\ call[r]["store"] = "done"
  /\ Answer(r, "ok", r)
  /\ UNCHANGED <<call, found, cache, fresh, expiries, ghosts, stored, keyOf>>

(* The call raised: 500.                                                    *)
CallFailed(r) ==
  /\ \E c \in Calls : pc[r] = c /\ call[r][c] = "failed"
  /\ Answer(r, "error", Nothing)
  /\ faulted' = faulted \union KeyOnly(r)
  /\ UNCHANGED <<call, found, cache, fresh, expiries, executed, overlapped, stored, keyOf>>

(* asyncio.wait_for gives up: 503 with Retry-After.  Mutant: the store is   *)
(* awaited without a bound.                                                 *)
StoreUnbounded(c) == c # "store"
Bounded(c) == c \in Calls
TimesOut(r) ==
  /\ \E c \in Calls : pc[r] = c /\ call[r][c] = "running" /\ Bounded(c)
  /\ Answer(r, "timeout", Nothing)
  /\ faulted' = faulted \union KeyOnly(r)
  /\ UNCHANGED <<call, found, cache, fresh, expiries, executed, overlapped, stored, keyOf>>

-----------------------------------------------------------------------------
(* The key's hour is over.                                                  *)
Expire(k) ==
  /\ k \in fresh /\ expiries < MaxExpiries
  /\ fresh' = fresh \ {k}
  /\ expiries' = expiries + 1
  /\ executed' = [executed EXCEPT ![k] = {}]
  /\ overlapped' = IF \E r \in Requests : keyOf[r] = k /\ Open(r)
                   THEN overlapped ELSE overlapped \ {k}
  /\ faulted' = IF \E r \in Requests : keyOf[r] = k /\ "running" \in {call[r][c] : c \in Calls}
                THEN faulted ELSE faulted \ {k}
  /\ UNCHANGED <<loop, coroutine, call, found, cache, stored, keyOf>>

(* GET /readyz: its query holds the loop, and may hold it for ever.         *)
Probe     == loop = "free" /\ loop' = "blocked" /\ UNCHANGED offLoop
ProbeEnds == loop = "blocked" /\ loop' = "free" /\ UNCHANGED offLoop

Init ==
  /\ loop = "free" /\ stored = {}
  /\ keyOf \in [Requests -> Keys \union {NoKey}]
  /\ pc = [r \in Requests |-> "new"]
  /\ call = [r \in Requests |-> [c \in Calls |-> "none"]]
  /\ found = [r \in Requests |-> Nothing]
  /\ cache = [k \in Keys |-> Nothing]
  /\ fresh = {} /\ expiries = 0
  /\ answer = [r \in Requests |-> "none"]
  /\ body = [r \in Requests |-> Nothing]
  /\ executed = [k \in Keys |-> {}]
  /\ overlapped = {} /\ faulted = {}

CoroutineStep(r) ==
  /\ loop = "free" /\ UNCHANGED loop
  /\ \/ Hit(r) \/ Miss(r) \/ AfterRun(r) \/ AfterStore(r)
     \/ CallFailed(r) \/ TimesOut(r)

ThreadStep(r) ==
  /\ UNCHANGED loop
  /\ \/ LookupThread(r) \/ RunThread(r) \/ StoreThread(r)
     \/ \E c \in Calls : ThreadFails(r, c)

Next ==
  \/ \E r \in Requests : Arrive(r) \/ CoroutineStep(r) \/ ThreadStep(r)
  \/ \E k \in Keys : Expire(k)
  \/ Probe \/ ProbeEnds

Spec == Init /\ [][Next]_vars

(* The event loop takes what is ready in the order it became ready, so that *)
(* a coroutine that can go on does so, if the loop is free again and again. *)
(* Nothing is assumed of the threads, nor of the probes.                    *)
FairLoop == \A r \in Requests : SF_vars(CoroutineStep(r))
LiveSpec == Spec /\ FairLoop

-----------------------------------------------------------------------------
(* Properties                                                               *)

(* Every variable stays within its range.                                   *)
TypeOK ==
  /\ loop \in {"free", "blocked"} /\ stored \subseteq Requests
  /\ keyOf \in [Requests -> Keys \union {NoKey}]
  /\ pc \in [Requests -> Calls \union {"new", "answered"}]
  /\ call \in [Requests -> [Calls -> {"none", "running", "done", "failed"}]]
  /\ found \in [Requests -> Requests \union {Nothing}]
  /\ cache \in [Keys -> Requests \union {Nothing}]
  /\ fresh \subseteq Keys /\ expiries \in 0..MaxExpiries
  /\ answer \in [Requests -> {"none", "ok", "timeout", "error", "rejected"}]
  /\ body \in [Requests -> Requests \union {Nothing}]
  /\ executed \in [Keys -> SUBSET Requests]
  /\ overlapped \subseteq Keys /\ faulted \subseteq Keys

(* Within a key's hour the pipeline runs once for it, unless two requests   *)
(* were at work on the key at a time or one of them failed or timed out.    *)
OneRunPerHour ==
  \A k \in Keys : Cardinality(executed[k]) > 1 => k \in overlapped \union faulted

(* A 200 is only given for a response whose run is finished and which, with *)
(* a key, has been committed, so that a client that loses the answer can    *)
(* ask again; it is that of a request with the same key or, without one,    *)
(* the request's own.  A 500 or 503 says nothing of the table: the response *)
(* may be there, or come later, and is then what the next request gets.     *)
AnswersRestOnRuns ==
  \A r \in Requests : answer[r] = "ok" =>
    /\ body[r] \in SameKey(r)
    /\ call[body[r]]["run"] = "done"
    /\ IF keyOf[r] = NoKey THEN body[r] = r ELSE body[r] \in stored

(* Every request is answered, whatever its threads do, if no probe holds    *)
(* the loop for good (_bounded_threadpool; a readiness probe of a hanging   *)
(* database does hold it, and with it every caller).                        *)
EveryCallAnswered ==
  []<>(loop = "free") => \A r \in Requests : Open(r) ~> ~Open(r)

(* README, on POST /predict/agentic: "`Idempotency-Key` is honoured for one *)
(* hour".  Two requests with one key, one after the other, get the same     *)
(* response.                                                                *)
KeyHonoured ==
  \A q, r \in Requests :
    /\ keyOf[q] = keyOf[r] /\ keyOf[q] \in Keys \ overlapped
    /\ answer[q] = "ok" /\ answer[r] = "ok"
    => body[q] = body[r]
=============================================================================
