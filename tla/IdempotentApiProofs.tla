-------------------------- MODULE IdempotentApiProofs --------------------------
(* IdempotentApi for any number of requests, keys and expiries.             *)
EXTENDS IdempotentApi, FiniteSetTheorems, TLAPS

(* How far a request's calls are says where its coroutine is: it starts one *)
(* call at a time, and only on the success of the one before.               *)
Paced ==
  \A r \in Requests :
    /\ pc[r] = "new" => \A c \in Calls : call[r][c] = "none"
    /\ pc[r] = "lookup" => /\ call[r]["lookup"] # "none"
                           /\ call[r]["run"] = "none" /\ call[r]["store"] = "none"
    /\ pc[r] = "run" => /\ call[r]["lookup"] = "done" /\ call[r]["run"] # "none"
                        /\ call[r]["store"] = "none"
    /\ pc[r] = "store" => call[r]["lookup"] = "done" /\ call[r]["store"] # "none"
    /\ call[r]["store"] # "none" => call[r]["run"] = "done"
    /\ call[r]["store"] = "done" /\ keyOf[r] # NoKey => r \in stored

(* The response of q is that of a request with key k, run and committed.    *)
Stored(q, k) ==
  keyOf[q] = k /\ call[q]["run"] = "done" /\ q \in stored

Rests ==
  /\ \A k \in Keys : cache[k] # Nothing => Stored(cache[k], k)
  /\ \A r \in Requests :
       found[r] # Nothing => keyOf[r] \in Keys /\ Stored(found[r], keyOf[r])
  /\ AnswersRestOnRuns

LEMMA Init_TypeOK ==
  ASSUME Init
  PROVE  TypeOK
BY KeyAssumption DEF Init, TypeOK

LEMMA Thread_TypeOK ==
  ASSUME TypeOK, NEW r \in Requests, ThreadStep(r)
  PROVE  TypeOK'
<1> USE DEF TypeOK, coroutine, ghosts, Calls, Ends
<1>0. UNCHANGED loop
  BY DEF ThreadStep
<1>1. CASE LookupThread(r)
  <2>1. cache' \in [Keys -> Requests \union {Nothing}]
    BY <1>1 DEF LookupThread
  <2>2. keyOf[r] # NoKey => keyOf[r] \in Keys
    OBVIOUS
  <2>3. found' \in [Requests -> Requests \union {Nothing}]
    BY <1>1, <2>1, <2>2 DEF LookupThread
  <2>4. call' \in [Requests -> [Calls -> {"none", "running", "done", "failed"}]]
    BY <1>1 DEF LookupThread
  <2>5. QED
    BY <1>0, <1>1, <2>1, <2>3, <2>4 DEF LookupThread
<1>2. CASE RunThread(r)
  BY <1>0, <1>2 DEF RunThread
<1>3. CASE StoreThread(r)
  BY <1>0, <1>3 DEF StoreThread
<1>4. ASSUME NEW c \in Calls, ThreadFails(r, c)
      PROVE  TypeOK'
  BY <1>0, <1>4 DEF ThreadFails
<1>5. QED
  BY <1>1, <1>2, <1>3, <1>4 DEF ThreadStep

LEMMA Coroutine_TypeOK ==
  ASSUME TypeOK, NEW r \in Requests, Arrive(r) \/ CoroutineStep(r)
  PROVE  TypeOK'
<1> USE DEF TypeOK, ghosts, Calls, KeyOnly, Answer, Await
<1>0. UNCHANGED loop
  BY DEF Arrive, CoroutineStep
<1>1. CASE Arrive(r)
  BY <1>0, <1>1 DEF Arrive
<1>2. CASE Hit(r)
  BY <1>0, <1>2 DEF Hit
<1>3. CASE Miss(r)
  <2>1. executed' \in [Keys -> SUBSET Requests]
    <3>1. CASE UNCHANGED executed
      BY <3>1
    <3>2. CASE executed' = [k \in Keys |-> IF k = keyOf[r] THEN executed[k] \union {r}
                                          ELSE executed[k]]
      <4>1. \A k \in Keys : executed[k] \subseteq Requests
        OBVIOUS
      <4>2. QED
        BY <3>2, <4>1
    <3>3. QED
      BY <1>3, <3>1, <3>2 DEF Miss
  <2>2. /\ pc' \in [Requests -> Calls \union {"new", "answered"}]
        /\ call' \in [Requests -> [Calls -> {"none", "running", "done", "failed"}]]
        /\ answer' \in [Requests -> {"none", "ok", "timeout", "error", "rejected"}]
        /\ body' \in [Requests -> Requests \union {Nothing}]
    <3>1. CASE Answer(r, "rejected", Nothing) /\ UNCHANGED <<call, executed>>
      BY <3>1
    <3>2. CASE Await(r, "run") /\ UNCHANGED <<answer, body>>
      BY <3>2
    <3>3. QED
      BY <1>3, <3>1, <3>2 DEF Miss
  <2>3. UNCHANGED <<found, cache, fresh, expiries, overlapped, faulted, stored, keyOf>>
    BY <1>3 DEF Miss
  <2>4. QED
    BY <1>0, <2>1, <2>2, <2>3
<1>4. CASE AfterRun(r)
  BY <1>0, <1>4 DEF AfterRun
<1>5. CASE AfterStore(r)
  BY <1>0, <1>5 DEF AfterStore
<1>6. CASE CallFailed(r)
  BY <1>0, <1>6 DEF CallFailed
<1>7. CASE TimesOut(r)
  BY <1>0, <1>7 DEF TimesOut
<1>8. QED
  BY <1>1, <1>2, <1>3, <1>4, <1>5, <1>6, <1>7 DEF CoroutineStep

LEMMA Expire_TypeOK ==
  ASSUME TypeOK, NEW k \in Keys, Expire(k)
  PROVE  TypeOK'
BY KeyAssumption DEF TypeOK, Expire, coroutine

LEMMA Next_TypeOK ==
  ASSUME TypeOK, [Next]_vars
  PROVE  TypeOK'
<1>1. CASE UNCHANGED vars
  BY <1>1 DEF TypeOK, vars
<1>2. CASE Probe \/ ProbeEnds
  BY <1>2 DEF Probe, ProbeEnds, TypeOK, offLoop, coroutine, ghosts
<1>3. QED
  BY <1>1, <1>2, Thread_TypeOK, Coroutine_TypeOK, Expire_TypeOK DEF Next

(* A thread's end, well or ill, keeps pace.                                 *)
LEMMA Thread_Paced ==
  ASSUME TypeOK, Paced, NEW r \in Requests, NEW c \in Calls, call[r][c] = "running",
         NEW s \in {"done", "failed"}, call' = [call EXCEPT ![r][c] = s],
         UNCHANGED <<pc, keyOf>>, stored \subseteq stored',
         c = "store" /\ s = "done" /\ keyOf[r] # NoKey => r \in stored'
  PROVE  Paced'
BY DEF TypeOK, Paced, Calls

LEMMA Coroutine_Paced ==
  ASSUME TypeOK, Paced, NEW r \in Requests, Arrive(r) \/ CoroutineStep(r)
  PROVE  Paced'
<1> USE DEF TypeOK, Paced, Calls, Answer, Await
<1>1. CASE Arrive(r)
  BY <1>1 DEF Arrive
<1>2. CASE Hit(r)
  BY <1>2 DEF Hit
<1>3. CASE Miss(r)
  BY <1>3 DEF Miss
<1>4. CASE AfterRun(r)
  BY <1>4 DEF AfterRun
<1>5. CASE AfterStore(r)
  BY <1>5 DEF AfterStore
<1>6. CASE CallFailed(r)
  BY <1>6 DEF CallFailed
<1>7. CASE TimesOut(r)
  BY <1>7 DEF TimesOut
<1>8. QED
  BY <1>1, <1>2, <1>3, <1>4, <1>5, <1>6, <1>7 DEF CoroutineStep

LEMMA Next_Paced ==
  ASSUME TypeOK, Paced, [Next]_vars
  PROVE  Paced'
<1>1. ASSUME NEW r \in Requests, ThreadStep(r)
      PROVE  Paced'
  <2>1. \E c \in Calls, s \in {"done", "failed"} :
          /\ call[r][c] = "running" /\ call' = [call EXCEPT ![r][c] = s]
          /\ UNCHANGED <<pc, keyOf>> /\ stored \subseteq stored'
          /\ c = "store" /\ s = "done" /\ keyOf[r] # NoKey => r \in stored'
    BY <1>1 DEF ThreadStep, LookupThread, RunThread, StoreThread, ThreadFails, Ends, coroutine, Calls
  <2>2. QED
    BY <2>1, Thread_Paced
<1>2. ASSUME NEW k \in Keys, Expire(k)
      PROVE  Paced'
  BY <1>2 DEF Expire, coroutine, Paced
<1>3. CASE Probe \/ ProbeEnds \/ UNCHANGED vars
  BY <1>3 DEF Probe, ProbeEnds, offLoop, coroutine, vars, Paced
<1>4. QED
  BY <1>1, <1>2, <1>3, Coroutine_Paced DEF Next

(* What is done stays done.                                                 *)
LEMMA DoneStays ==
  ASSUME TypeOK, Paced, [Next]_vars, NEW q \in Requests, NEW c \in Calls,
         call[q][c] = "done"
  PROVE  call'[q][c] = "done"
<1> USE DEF TypeOK, Paced, Calls
<1>1. ASSUME NEW r \in Requests, ThreadStep(r)
      PROVE  call'[q][c] = "done"
  BY <1>1 DEF ThreadStep, LookupThread, RunThread, StoreThread, ThreadFails, Ends
<1>2. ASSUME NEW r \in Requests, Arrive(r) \/ CoroutineStep(r)
      PROVE  call'[q][c] = "done"
  <2>1. CASE Arrive(r)
    BY <2>1 DEF Arrive, Await
  <2>2. CASE Miss(r)
    BY <2>2 DEF Miss, Await
  <2>3. CASE AfterRun(r)
    BY <2>3 DEF AfterRun, Await
  <2>4. QED
    BY <1>2, <2>1, <2>2, <2>3 DEF CoroutineStep, Hit, AfterStore, CallFailed, TimesOut
<1>3. ASSUME NEW k \in Keys, Expire(k)
      PROVE  call'[q][c] = "done"
  BY <1>3 DEF Expire
<1>4. CASE Probe \/ ProbeEnds \/ UNCHANGED vars
  BY <1>4 DEF Probe, ProbeEnds, offLoop, vars
<1>5. QED
  BY <1>1, <1>2, <1>3, <1>4 DEF Next

Kept(q, k) ==
  keyOf'[q] = k /\ call'[q]["run"] = "done" /\ q \in stored'

LEMMA StoredStays ==
  ASSUME TypeOK, Paced, [Next]_vars, NEW q \in Requests, NEW k, Stored(q, k)
  PROVE  Kept(q, k)
<1>1. UNCHANGED keyOf /\ stored \subseteq stored'
  BY DEF Next, CoroutineStep, ThreadStep, Arrive, Hit, Miss, AfterRun, AfterStore, CallFailed,
         TimesOut, LookupThread, RunThread, StoreThread, ThreadFails, Ends, Expire, Probe,
         ProbeEnds, offLoop, vars
<1>2. call'[q]["run"] = "done"
  BY DoneStays DEF Stored, Calls
<1>3. QED
  BY <1>1, <1>2 DEF Stored, Kept

(* Responses come into the cache, and answers out of it, only when their    *)
(* run and their storing are done.                                          *)
LEMMA Thread_Rests ==
  ASSUME TypeOK, Paced, Rests, NEW r \in Requests, ThreadStep(r), [Next]_vars
  PROVE  Rests'
<1>1. UNCHANGED <<pc, answer, body, keyOf>>
  BY DEF ThreadStep, LookupThread, RunThread, StoreThread, ThreadFails, Ends, coroutine
<1>2. \A k \in Keys : cache'[k] # Nothing => cache'[k] \in Requests /\ Kept(cache'[k], k)
  <2>1. SUFFICES ASSUME NEW k \in Keys, cache'[k] # Nothing
                 PROVE  cache'[k] \in Requests /\ Kept(cache'[k], k)
    OBVIOUS
  <2>2. CASE cache'[k] = cache[k]
    <3>1. PICK q \in Requests : q = cache[k] /\ Stored(q, k)
      BY <2>1, <2>2 DEF TypeOK, Rests
    <3>2. Kept(q, k)
      BY <3>1, StoredStays
    <3>3. QED
      BY <2>2, <3>1, <3>2
  <2>3. CASE cache'[k] # cache[k]
    <3>1. StoreThread(r) /\ cache'[k] = r /\ keyOf[r] = k
      BY <2>1, <2>3 DEF ThreadStep, LookupThread, RunThread, StoreThread, ThreadFails, Ends, TypeOK
    <3>2. call[r]["run"] = "done" /\ r \in stored' /\ call'[r]["run"] = call[r]["run"]
      BY <3>1, KeyAssumption DEF StoreThread, Ends, TypeOK, Paced, Calls
    <3>3. QED
      BY <1>1, <3>1, <3>2 DEF Kept
  <2>4. QED
    BY <2>2, <2>3
<1>3. ASSUME NEW q \in Requests, found'[q] # Nothing
      PROVE  keyOf'[q] \in Keys /\ Kept(found'[q], keyOf'[q])
  <2>1. CASE found'[q] = found[q]
    <3>1. PICK p \in Requests, k \in Keys : p = found[q] /\ k = keyOf[q] /\ Stored(p, k)
      BY <1>3, <2>1 DEF TypeOK, Rests
    <3>2. Kept(p, k)
      BY <3>1, StoredStays
    <3>3. QED
      BY <1>1, <2>1, <3>1, <3>2
  <2>2. CASE found'[q] # found[q]
    <3>1. LookupThread(r) /\ q = r /\ keyOf[r] # NoKey
      BY <2>2 DEF ThreadStep, LookupThread, RunThread, StoreThread, ThreadFails, Ends, TypeOK
    <3>2. keyOf[r] \in Keys /\ found'[q] = cache'[keyOf[r]]
      BY <2>2, <3>1 DEF LookupThread, TypeOK
    <3>3. QED
      BY <1>1, <1>2, <1>3, <3>1, <3>2
  <2>3. QED
    BY <2>1, <2>2
<1>4. AnswersRestOnRuns'
  <2>1. SUFFICES ASSUME NEW q \in Requests, answer[q] = "ok"
                 PROVE  /\ body[q] \in SameKey(q)
                        /\ call'[body[q]]["run"] = "done"
                        /\ IF keyOf[q] = NoKey THEN body[q] = q ELSE body[q] \in stored'
    BY <1>1 DEF AnswersRestOnRuns, SameKey
  <2>2. /\ body[q] \in Requests /\ body[q] \in SameKey(q)
        /\ call[body[q]]["run"] = "done"
        /\ IF keyOf[q] = NoKey THEN body[q] = q ELSE body[q] \in stored
    BY <2>1 DEF Rests, AnswersRestOnRuns, SameKey
  <2>3. stored \subseteq stored'
    BY DEF ThreadStep, LookupThread, RunThread, StoreThread, ThreadFails
  <2>4. QED
    BY <2>2, <2>3, DoneStays DEF Calls
<1>5. QED
  BY <1>2, <1>3, <1>4 DEF Rests, Stored, Kept

LEMMA Coroutine_Rests ==
  ASSUME TypeOK, Paced, Rests, NEW r \in Requests, Arrive(r) \/ CoroutineStep(r), [Next]_vars
  PROVE  Rests'
<1>1. UNCHANGED <<cache, found, stored, keyOf>>
  BY DEF CoroutineStep, Arrive, Hit, Miss, AfterRun, AfterStore, CallFailed, TimesOut
<1>2. ASSUME NEW k \in Keys, cache[k] # Nothing
      PROVE  Kept(cache[k], k)
  <2>1. PICK q \in Requests : q = cache[k] /\ Stored(q, k)
    BY <1>2 DEF TypeOK, Rests
  <2>2. Kept(q, k)
    BY <2>1, StoredStays
  <2>3. QED
    BY <1>1, <2>1, <2>2
<1>3. ASSUME NEW q \in Requests, found[q] # Nothing
      PROVE  keyOf[q] \in Keys /\ Kept(found[q], keyOf[q])
  <2>1. PICK p \in Requests, k \in Keys : p = found[q] /\ k = keyOf[q] /\ Stored(p, k)
    BY <1>3 DEF TypeOK, Rests
  <2>2. Kept(p, k)
    BY <2>1, StoredStays
  <2>3. QED
    BY <1>1, <2>1, <2>2
<1>4. AnswersRestOnRuns'
  <2>1. SUFFICES ASSUME NEW q \in Requests, answer'[q] = "ok"
                 PROVE  /\ body'[q] \in Requests /\ keyOf[body'[q]] = keyOf[q]
                        /\ call'[body'[q]]["run"] = "done"
                        /\ IF keyOf[q] = NoKey THEN body'[q] = q ELSE body'[q] \in stored
    BY <1>1 DEF AnswersRestOnRuns, SameKey
  <2>2. CASE answer'[q] = answer[q] /\ body'[q] = body[q]
    <3>1. /\ body[q] \in Requests /\ keyOf[body[q]] = keyOf[q]
          /\ call[body[q]]["run"] = "done"
          /\ IF keyOf[q] = NoKey THEN body[q] = q ELSE body[q] \in stored
      BY <2>1, <2>2 DEF Rests, AnswersRestOnRuns, SameKey
    <3>2. QED
      BY <2>2, <3>1, DoneStays DEF Calls
  <2>3. CASE ~ (answer'[q] = answer[q] /\ body'[q] = body[q])
    <3>1. q = r /\ (Hit(r) \/ AfterStore(r))
      BY <2>1, <2>3 DEF CoroutineStep, Arrive, Hit, Miss, AfterRun, AfterStore, CallFailed,
                        TimesOut, Answer, TypeOK
    <3>2. CASE Hit(r)
      <4>1. body'[r] = found[r] /\ found[r] # Nothing
        BY <3>2 DEF Hit, Answer, TypeOK
      <4>2. found[r] \in Requests /\ keyOf[r] \in Keys /\ Stored(found[r], keyOf[r])
        BY <4>1 DEF Rests, TypeOK
      <4>3. call'[found[r]]["run"] = "done"
        BY <4>2, DoneStays DEF Stored, Calls
      <4>4. QED
        BY <3>1, <4>1, <4>2, <4>3, KeyAssumption DEF Stored
    <3>3. CASE AfterStore(r)
      <4>1. /\ body'[r] = r /\ call' = call
            /\ call[r]["run"] = "done" /\ (keyOf[r] # NoKey => r \in stored)
        BY <3>3 DEF AfterStore, Answer, TypeOK, Paced
      <4>2. QED
        BY <3>1, <4>1
    <3>4. QED
      BY <3>1, <3>2, <3>3
  <2>4. QED
    BY <2>2, <2>3
<1>5. QED
  BY <1>1, <1>2, <1>3, <1>4 DEF Rests, Stored, Kept

LEMMA Next_Rests ==
  ASSUME TypeOK, Paced, Rests, [Next]_vars
  PROVE  Rests'
<1>1. CASE UNCHANGED <<coroutine, call, found, keyOf, cache, stored>>
  BY <1>1 DEF Rests, AnswersRestOnRuns, Stored, SameKey, coroutine
<1>2. QED
  BY <1>1, Thread_Rests, Coroutine_Rests DEF Next, Expire, Probe, ProbeEnds, offLoop, vars, coroutine

LEMMA AnswerInvariant == Spec => [](TypeOK /\ Paced /\ Rests)
<1>1. Init => TypeOK /\ Paced /\ Rests
  BY Init_TypeOK DEF Init, Paced, Rests, AnswersRestOnRuns, Calls
<1>2. TypeOK /\ Paced /\ Rests /\ [Next]_vars => (TypeOK /\ Paced /\ Rests)'
  BY Next_TypeOK, Next_Paced, Next_Rests
<1>3. QED
  BY <1>1, <1>2, PTL DEF Spec

(* Every variable keeps its type.                                           *)
THEOREM TypeCorrect == Spec => []TypeOK
BY AnswerInvariant, PTL

(* However late a thread comes and whatever fails, a 200 rests on a         *)
(* finished run that is stored, of a request with the same key.             *)
THEOREM AnswersOnStoredRuns == Spec => []AnswersRestOnRuns
<1>1. Rests => AnswersRestOnRuns
  BY DEF Rests
<1>2. QED
  BY <1>1, AnswerInvariant, PTL

--------------------------------------------------------------------------------
(* One run of a key in its hour.                                            *)

(* A key is clean while no two of its requests met and none went wrong.     *)
Clean(k) == k \in Keys /\ k \notin overlapped /\ k \notin faulted
Served(k) == k \in fresh /\ cache[k] # Nothing

(* The request still owes the cache its response. *)
Working(r) == pc[r] = "run" \/ (pc[r] = "store" /\ call[r]["store"] # "done")

Alone ==
  \A k \in Keys \ overlapped : \A q, r \in Requests :
    keyOf[q] = k /\ keyOf[r] = k /\ Open(q) /\ Open(r) => q = r

(* A clean key was run for by one request at most; until it has stored its  *)
(* response it is the one at work, and from then on the cache answers.      *)
Once ==
  \A k \in Keys : Clean(k) =>
    /\ \A q, r \in executed[k] : q = r
    /\ \A r \in executed[k] : keyOf[r] = k /\ (Working(r) \/ Served(k))
    /\ \A r \in Requests :
         keyOf[r] = k /\ pc[r] = "lookup" /\ call[r]["lookup"] = "done" /\ found[r] = Nothing
           => executed[k] = {}

LEMMA Next_Alone ==
  ASSUME TypeOK, Alone, [Next]_vars
  PROVE  Alone'
<1> USE DEF TypeOK, Alone, Open, Calls
<1>1. ASSUME NEW r \in Requests, ThreadStep(r)
      PROVE  Alone'
  BY <1>1 DEF ThreadStep, LookupThread, RunThread, StoreThread, ThreadFails, Ends, coroutine, ghosts
<1>2. ASSUME NEW r \in Requests, Arrive(r)
      PROVE  Alone'
  <2>1. SUFFICES ASSUME NEW k \in Keys, k \notin overlapped', NEW q \in Requests,
                        NEW p \in Requests, keyOf[q] = k, keyOf[p] = k,
                        pc'[q] \in Calls, pc'[p] \in Calls
                 PROVE  q = p
    BY <1>2 DEF Arrive
  <2>2. \A s \in Requests \ {r} : pc'[s] = pc[s]
    BY <1>2 DEF Arrive, Await
  <2>3. k \notin overlapped
    BY <1>2, <2>1 DEF Arrive
  <2>4. CASE q # r /\ p # r
    BY <2>1, <2>2, <2>3, <2>4
  <2>5. CASE keyOf[r] = k
    <3>1. k # NoKey
      BY KeyAssumption
    <3>2. ~ \E s \in SameKey(r) : pc[s] \in Calls
      BY <1>2, <2>1, <2>5, <3>1 DEF Arrive, KeyOnly
    <3>3. \A s \in Requests \ {r} : keyOf[s] = k => pc'[s] \notin Calls
      BY <2>2, <2>5, <3>2 DEF SameKey
    <3>4. QED
      BY <2>1, <3>3
  <2>6. QED
    BY <2>1, <2>4, <2>5
<1>3. ASSUME NEW r \in Requests, CoroutineStep(r)
      PROVE  Alone'
  <2>1. pc[r] \in Calls /\ overlapped' = overlapped /\ keyOf' = keyOf
    BY <1>3 DEF CoroutineStep, Hit, Miss, AfterRun, AfterStore, CallFailed, TimesOut, ghosts
  <2>2. \A s \in Requests \ {r} : pc'[s] = pc[s]
    BY <1>3 DEF CoroutineStep, Hit, Miss, AfterRun, AfterStore, CallFailed, TimesOut, Answer,
                Await
  <2>3. QED
    BY <2>1, <2>2
<1>4. ASSUME NEW k \in Keys, Expire(k)
      PROVE  Alone'
  BY <1>4 DEF Expire, coroutine
<1>5. CASE Probe \/ ProbeEnds \/ UNCHANGED vars
  BY <1>5 DEF Probe, ProbeEnds, offLoop, coroutine, ghosts, vars
<1>6. QED
  BY <1>1, <1>2, <1>3, <1>4, <1>5 DEF Next

(* The threads: only a store ends the work a request owes, and it serves    *)
(* the key; a lookup of a key that was run for finds the response.          *)
LEMMA Thread_Once ==
  ASSUME TypeOK, Alone, Once, NEW r \in Requests, ThreadStep(r)
  PROVE  Once'
<1> USE DEF TypeOK, Calls
<1>1. UNCHANGED <<pc, keyOf, executed, overlapped, faulted>>
  BY DEF ThreadStep, LookupThread, RunThread, StoreThread, ThreadFails, Ends, coroutine, ghosts
<1>2. SUFFICES ASSUME NEW k \in Keys, Clean(k)
               PROVE  /\ \A x \in executed[k] : Working(x)' \/ Served(k)'
                      /\ \A q \in Requests :
                           /\ keyOf[q] = k /\ pc[q] = "lookup"
                           /\ call'[q]["lookup"] = "done" /\ found'[q] = Nothing
                           => executed[k] = {}
  BY <1>1 DEF Once, Clean
<1>3. /\ \A x \in executed[k] : x \in Requests /\ keyOf[x] = k /\ (Working(x) \/ Served(k))
      /\ \A q \in Requests :
           /\ keyOf[q] = k /\ pc[q] = "lookup"
           /\ call[q]["lookup"] = "done" /\ found[q] = Nothing
           => executed[k] = {}
  BY <1>2 DEF Once
<1>4. CASE LookupThread(r)
  <2>1. /\ \A x \in Requests : call'[x]["store"] = call[x]["store"]
        /\ fresh' = fresh /\ (k \in fresh => cache'[k] = cache[k])
    BY <1>4 DEF LookupThread, Ends
  <2>2. \A x \in executed[k] : Working(x)' \/ Served(k)'
    BY <1>1, <1>3, <2>1 DEF Working, Served
  <2>3. ASSUME NEW q \in Requests, keyOf[q] = k, pc[q] = "lookup",
               call'[q]["lookup"] = "done", found'[q] = Nothing, NEW x \in executed[k]
        PROVE  FALSE
    <3>1. CASE q = r
      <4>1. found'[r] = cache'[k]
        BY <1>4, <2>3, <3>1, KeyAssumption DEF LookupThread, Ends
      <4>2. ~ Served(k)
        BY <2>1, <2>3, <3>1, <4>1 DEF Served
      <4>3. x \in Requests /\ keyOf[x] = k /\ Working(x)
        BY <1>3, <4>2
      <4>4. x = r
        BY <1>2, <2>3, <3>1, <4>3 DEF Alone, Open, Working, Clean
      <4>5. QED
        BY <2>3, <3>1, <4>3, <4>4 DEF Working
    <3>2. CASE q # r
      <4>1. call'[q]["lookup"] = call[q]["lookup"] /\ found'[q] = found[q]
        BY <1>4, <3>2 DEF LookupThread, Ends
      <4>2. QED
        BY <1>3, <2>3, <4>1
    <3>3. QED
      BY <3>1, <3>2
  <2>4. QED
    BY <2>2, <2>3
<1>5. CASE RunThread(r)
  <2>1. /\ \A x \in Requests : /\ call'[x]["store"] = call[x]["store"]
                               /\ call'[x]["lookup"] = call[x]["lookup"]
        /\ UNCHANGED <<fresh, cache, found>>
    BY <1>5 DEF RunThread, Ends
  <2>2. QED
    BY <1>1, <1>3, <2>1 DEF Working, Served
<1>6. CASE StoreThread(r)
  <2>1. /\ \A x \in Requests : call'[x]["lookup"] = call[x]["lookup"]
        /\ \A x \in Requests \ {r} : call'[x] = call[x]
        /\ found' = found
    BY <1>6 DEF StoreThread, Ends
  <2>2. CASE keyOf[r] = k
    <3>1. Served(k)'
      BY <1>6, <2>2, KeyAssumption DEF StoreThread, Ends, Served
    <3>2. QED
      BY <1>3, <2>1, <3>1
  <2>3. CASE keyOf[r] # k
    <3>1. Served(k) => Served(k)'
      BY <1>6, <2>3 DEF StoreThread, Ends, Served
    <3>2. \A x \in executed[k] : x # r /\ (Working(x) => Working(x)')
      BY <1>1, <1>3, <2>1, <2>3 DEF Working
    <3>3. QED
      BY <1>3, <2>1, <3>1, <3>2
  <2>4. QED
    BY <2>2, <2>3
<1>7. ASSUME NEW c \in Calls, ThreadFails(r, c)
      PROVE  /\ \A x \in executed[k] : Working(x)' \/ Served(k)'
             /\ \A q \in Requests :
                  /\ keyOf[q] = k /\ pc[q] = "lookup"
                  /\ call'[q]["lookup"] = "done" /\ found'[q] = Nothing
                  => executed[k] = {}
  <2>1. /\ \A x \in Requests : call'[x]["store"] = "done" => call[x]["store"] = "done"
        /\ \A x \in Requests : call'[x]["lookup"] = "done" => call[x]["lookup"] = "done"
        /\ UNCHANGED <<fresh, cache, found>>
    BY <1>7 DEF ThreadFails, Ends
  <2>2. QED
    BY <1>1, <1>3, <2>1 DEF Working, Served
<1>8. QED
  BY <1>4, <1>5, <1>6, <1>7 DEF ThreadStep

(* The coroutine: what it does for a request touches no other request, and  *)
(* a request that runs is the first of its hour.                            *)
LEMMA Coroutine_Once ==
  ASSUME TypeOK, Alone, Once, NEW r \in Requests, Arrive(r) \/ CoroutineStep(r)
  PROVE  Once'
<1> USE DEF TypeOK, Calls
<1>1. /\ UNCHANGED <<keyOf, cache, fresh, found>>
      /\ \A q \in Requests \ {r} : pc'[q] = pc[q] /\ call'[q] = call[q]
  BY DEF CoroutineStep, Arrive, Hit, Miss, AfterRun, AfterStore, CallFailed, TimesOut,
         Answer, Await
<1>2. /\ \A k \in Keys : Clean(k)' => Clean(k)
      /\ \A k \in Keys : k # keyOf[r] => executed'[k] = executed[k]
  BY DEF CoroutineStep, Arrive, Hit, Miss, AfterRun, AfterStore, CallFailed, TimesOut, ghosts,
         Clean
<1>3. SUFFICES ASSUME NEW k \in Keys, Clean(k)'
               PROVE  /\ \A p, q \in executed'[k] : p = q
                      /\ \A x \in executed'[k] : keyOf[x] = k /\ (Working(x)' \/ Served(k))
                      /\ \A q \in Requests :
                           /\ keyOf[q] = k /\ pc'[q] = "lookup"
                           /\ call'[q]["lookup"] = "done" /\ found[q] = Nothing
                           => executed'[k] = {}
  BY <1>1 DEF Once, Served
<1>4. /\ \A p, q \in executed[k] : p = q
      /\ \A x \in executed[k] : x \in Requests /\ keyOf[x] = k /\ (Working(x) \/ Served(k))
      /\ \A q \in Requests :
           /\ keyOf[q] = k /\ pc[q] = "lookup"
           /\ call[q]["lookup"] = "done" /\ found[q] = Nothing
           => executed[k] = {}
  BY <1>2, <1>3 DEF Once
<1>5. CASE keyOf[r] # k
  <2>1. \A x \in executed[k] : x # r /\ (Working(x) => Working(x)')
    BY <1>1, <1>4, <1>5 DEF Working
  <2>2. QED
    BY <1>1, <1>2, <1>4, <1>5, <2>1
<1>6. CASE keyOf[r] = k /\ executed' = executed
  <2>1. Working(r) => Working(r)'
    <3>1. ~ (CallFailed(r) \/ TimesOut(r))
      BY <1>3, <1>6, KeyAssumption DEF CallFailed, TimesOut, Clean, KeyOnly
    <3>2. QED
      BY <3>1 DEF CoroutineStep, Arrive, Hit, Miss, AfterRun, AfterStore, Working, Answer, Await
  <2>2. \A x \in executed[k] : Working(x)' \/ Served(k)
    BY <1>1, <1>4, <2>1 DEF Working
  <2>3. pc'[r] # "lookup" \/ call'[r]["lookup"] # "done"
    BY DEF CoroutineStep, Arrive, Hit, Miss, AfterRun, AfterStore, CallFailed, TimesOut,
           Answer, Await
  <2>4. QED
    BY <1>1, <1>4, <1>6, <2>2, <2>3
<1>7. CASE keyOf[r] = k /\ executed' # executed
  <2>1. /\ Miss(r) /\ pc[r] = "lookup" /\ call[r]["lookup"] = "done" /\ found[r] = Nothing
        /\ executed'[k] = executed[k] \union {r} /\ pc'[r] = "run"
    BY <1>7 DEF CoroutineStep, Arrive, Hit, Miss, AfterRun, AfterStore, CallFailed, TimesOut,
                ghosts, Answer, Await
  <2>2. executed'[k] = {r}
    BY <1>4, <1>7, <2>1
  <2>3. Working(r)'
    BY <2>1 DEF Working
  <2>4. ASSUME NEW q \in Requests, keyOf[q] = k, pc'[q] = "lookup"
        PROVE  FALSE
    <3>1. q # r /\ pc[q] = "lookup"
      BY <1>1, <2>1, <2>4
    <3>2. q = r
      BY <1>2, <1>3, <1>7, <2>1, <2>4, <3>1 DEF Alone, Open, Clean
    <3>3. QED
      BY <3>1, <3>2
  <2>5. QED
    BY <1>7, <2>2, <2>3, <2>4
<1>8. QED
  BY <1>5, <1>6, <1>7

LEMMA Expire_Once ==
  ASSUME TypeOK, Once, NEW h \in Keys, Expire(h)
  PROVE  Once'
<1>1. UNCHANGED <<pc, keyOf, call, found, cache>>
  BY DEF Expire, coroutine
<1>2. SUFFICES ASSUME NEW k \in Keys, Clean(k)'
               PROVE  /\ \A p, q \in executed'[k] : p = q
                      /\ \A x \in executed'[k] : keyOf[x] = k /\ (Working(x) \/ Served(k)')
                      /\ \A q \in Requests :
                           /\ keyOf[q] = k /\ pc[q] = "lookup"
                           /\ call[q]["lookup"] = "done" /\ found[q] = Nothing
                           => executed'[k] = {}
  BY <1>1 DEF Once, Working
<1>3. CASE k = h
  BY <1>3 DEF Expire, TypeOK
<1>4. CASE k # h
  <2>1. executed'[k] = executed[k] /\ Clean(k) /\ (Served(k) => Served(k)')
    BY <1>1, <1>2, <1>4 DEF Expire, TypeOK, Clean, Served
  <2>2. QED
    BY <2>1 DEF Once
<1>5. QED
  BY <1>3, <1>4

LEMMA Next_Once ==
  ASSUME TypeOK, Alone, Once, [Next]_vars
  PROVE  Once'
<1>1. CASE Probe \/ ProbeEnds \/ UNCHANGED vars
  BY <1>1 DEF Probe, ProbeEnds, offLoop, coroutine, ghosts, vars, Once, Clean, Working, Served
<1>2. QED
  BY <1>1, Thread_Once, Coroutine_Once, Expire_Once DEF Next

LEMMA OneIfOnce ==
  ASSUME Once
  PROVE  OneRunPerHour
<1>1. SUFFICES ASSUME NEW k \in Keys, Clean(k)
               PROVE  ~ (Cardinality(executed[k]) > 1)
  BY DEF OneRunPerHour, Clean
<1>2. \A q, r \in executed[k] : q = r
  BY <1>1 DEF Once, Clean
<1>3. executed[k] = {} \/ \E r : executed[k] = {r}
  <2>1. ASSUME NEW r \in executed[k]
        PROVE  executed[k] = {r}
    BY <1>2, <2>1
  <2>2. QED
    BY <2>1
<1>4. Cardinality(executed[k]) \in {0, 1}
  BY <1>3, FS_EmptySet, FS_Singleton
<1>5. QED
  BY <1>4

(* Unless two requests of a key met, or one went wrong, the pipeline runs   *)
(* once for it in its hour: a request that comes later finds the response.  *)
THEOREM RunsOncePerHour == Spec => []OneRunPerHour
<1>1. Init => Alone /\ Once
  BY DEF Init, Alone, Once, Open, Calls
<1>2. TypeOK /\ Alone /\ Once /\ [Next]_vars => (Alone /\ Once)'
  BY Next_Alone, Next_Once
<1>3. Once => OneRunPerHour
  BY OneIfOnce
<1>4. QED
  BY <1>1, <1>2, <1>3, AnswerInvariant, PTL DEF Spec
================================================================================
