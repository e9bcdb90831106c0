------------------------------- MODULE TmaCache -------------------------------
(***************************************************************************)
(* The last valid water-level reading (cache_state of                      *)
(* app/services/data_ingestion/tma_scraper.py): a dictionary with the      *)
(* reading and the time it was fetched, written one after the other by     *)
(* every request that got a reading, and read one after the other by every *)
(* request that got none.  The pipeline object owns one RoutingAgent and   *)
(* is shared by all requests, so the dictionary is too.                    *)
(*                                                                         *)
(* Times are ages in ticks.  The reading is reduced to the age it really   *)
(* has, counted from its receipt; the time stored beside it is the clock   *)
(* of the run that fetched it: its start, or what a replay has pinned.     *)
(***************************************************************************)
EXTENDS Integers

CONSTANTS
  Ttl,      \* TMA_CACHE_MAX_AGE_MINUTES: an older reading is not served
  Grace,    \* TMA_STALE_GRACE_MINUTES: a younger one is served without a failure record
  Oldest    \* bound: ages are not told apart from here on

ASSUME CacheAssumption ==
  Ttl \in Nat /\ Grace \in Nat /\ Oldest \in Nat /\ Ttl < Oldest

NoAge == Oldest + 1
CacheAges == 0..NoAge

VARIABLES
  reading,   \* age of cache_state["last_valid"], NoAge when there is none
  stamp      \* age of cache_state["last_valid_at"]

cacheVars == <<reading, stamp>>

CacheOlder(a) == IF a >= Oldest THEN a ELSE a + 1

CacheInit == reading = NoAge /\ stamp = NoAge

StoreReading == reading' = 0 /\ UNCHANGED stamp
StoreStamp(clock) == stamp' = clock /\ UNCHANGED reading

(* _cache_age_minutes: the age the stored time had by the clock of the run, *)
(* which lies that many ticks behind; never negative, so that a clock from  *)
(* before the stored time makes any reading new.                            *)
ClaimedAge(clock) ==
  IF stamp = NoAge THEN NoAge ELSE IF stamp < clock THEN 0 ELSE stamp - clock

CacheTick == reading' = CacheOlder(reading) /\ stamp' = CacheOlder(stamp)
=============================================================================
