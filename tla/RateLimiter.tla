----------------------------- MODULE RateLimiter ------------------------------
(***************************************************************************)
(* require_api_key (app/api/security.py): the sliding window of one key, a *)
(* deque of time stamps that every handler thread reads and changes        *)
(* without a lock.                                                         *)
(*                                                                         *)
(* Stamps are kept as ages in ticks; a tick is long, and none falls within *)
(* a call.  An age stops one tick behind the window, where it has expired  *)
(* for good.  Each test and each change of the deque is a step.            *)
(***************************************************************************)
EXTENDS AgedStamps

CONSTANTS
  RateLimit,    \* FLOOD_API_RATE_LIMIT
  RateWindow    \* _WINDOW_SECONDS

ASSUME RateAssumption == RateLimit \in Nat \ {0} /\ RateWindow \in Nat \ {0}

VARIABLES
  bucket,    \* _buckets[key]: ages, in the order of the deque
  admitted,  \* history: ages of the calls let in, within the window
  early      \* history: ages of those of them dropped from the deque before their time

limiterVars == <<bucket, admitted, early>>

RateAges == 0..(RateWindow + 1)

LimiterInit == bucket = <<>> /\ admitted = <<>> /\ early = <<>>

(* bucket and now - bucket[0] > _WINDOW_SECONDS                             *)
OldestExpired == bucket # <<>> /\ Head(bucket) > RateWindow

(* bucket.popleft(): whatever is at the head now.                           *)
PopLeft ==
  /\ bucket # <<>>
  /\ bucket' = Tail(bucket)
  /\ early' = IF Head(bucket) <= RateWindow THEN Append(early, Head(bucket)) ELSE early
  /\ UNCHANGED admitted

(* Mutant: the limit is exceeded, not reached.                              *)
FullBeyond == Len(bucket) > RateLimit
Full == Len(bucket) >= RateLimit

AppendStamp ==
  /\ bucket' = Append(bucket, 0)
  /\ admitted' = Append(admitted, 0)
  /\ UNCHANGED early

(* _buckets is memory: a restart of the server empties it.                  *)
LimiterRestart == bucket' = <<>> /\ admitted' = <<>> /\ early' = <<>>

LimiterTick ==
  /\ bucket' = Aged(bucket, RateWindow + 1)
  /\ admitted' = Recall(admitted, RateWindow + 1)
  /\ early' = Recall(early, RateWindow + 1)
=============================================================================
