----------------------------- MODULE RoutingStage -----------------------------
(***************************************************************************)
(* RoutingAgent.run (app/agents/routing_agent.py) by several stage bodies  *)
(* at once: fetch the water level, fall back on the last valid reading,    *)
(* ask the routes service behind the circuit breaker, choose a route.      *)
(* Bodies run on the pool of the pipeline, those whose stage has timed out *)
(* among them, and share the cache and the circuit.                        *)
(***************************************************************************)
EXTENDS RouteCircuit, TmaCache, RouteChoice

CONSTANTS
  Bodies,     \* stage bodies at work at the same time
  MaxSpan,    \* bound: ticks a run's clock lies behind at most, when its fetch ends
  Offers,     \* what the routes service may come up with (RouteChoice)
  NoAnswer

(* Ages that are served must not reach the age where they stop growing.     *)
ASSUME SpanAssumption == MaxSpan \in Nat /\ Ttl + MaxSpan < Oldest
ASSUME OfferAssumption == Offers \subseteq PossibleOffers

VARIABLES
  pc,       \* where each body is
  since,    \* ticks its clock lies behind: since its run began, or more
  held,     \* age of the reading it looked up, NoAge when there is none
  claim,    \* the age it says that reading has
  water,    \* what it makes of the water level: a failure record or none
  torn,     \* history: the time was stored anew between its two look-ups
  answer,   \* the latest recommendation, until something else begins
  healthy   \* the routes service answers

bodyVars == <<since, held, claim, water, torn, answer>>
vars == <<failures, openFor, recent, lost, reading, stamp,
          pc, since, held, claim, water, torn, answer, healthy>>

Recording == {"append", "test", "pop", "count"}
Instant   == Recording \union {"store", "stamp", "look", "age", "clear"}

(* What select_best_route can come to.                                      *)
Answers == {Recommendation(o) : o \in Offers}

Goto(b, place) == pc' = [pc EXCEPT ![b] = place]

-----------------------------------------------------------------------------
(* The water level                                                          *)

(* The clock of the whole run, which the pipeline hands down (now_utc): the *)
(* time at which the run began, some stages ago, or the time a replay pins, *)
(* as far back as it likes.                                                 *)
Begin(b) ==
  /\ pc[b] = "idle"
  /\ Goto(b, "fetch")
  /\ \E behind \in 0..MaxSpan : since' = [since EXCEPT ![b] = behind]
  /\ answer' = NoAnswer
  /\ UNCHANGED <<circuitVars, cacheVars, held, claim, water, torn, healthy>>

(* The loop of attempts ends with a valid reading, with none (no answer in  *)
(* three attempts, or empty fields), or with a corrupt one.                 *)
FetchEnds(b) ==
  /\ pc[b] = "fetch"
  /\ \/ Goto(b, "store") /\ UNCHANGED water
     \/ Goto(b, "look") /\ UNCHANGED water
     \/ Goto(b, "decide") /\ water' = [water EXCEPT ![b] = "failure"]
  /\ UNCHANGED <<circuitVars, cacheVars, since, held, claim, torn, answer, healthy>>

(* cache_state["last_valid"] = ok_response                                  *)
Store(b) ==
  /\ pc[b] = "store"
  /\ StoreReading
  /\ Goto(b, "stamp")
  /\ UNCHANGED <<circuitVars, since, held, claim, water, torn, answer, healthy>>

(* cache_state["last_valid_at"] = ref_now                                   *)
Stamp(b) ==
  /\ pc[b] = "stamp"
  /\ StoreStamp(since[b])
  /\ torn' = [c \in Bodies |-> torn[c] \/ pc[c] = "age"]
  /\ water' = [water EXCEPT ![b] = "ok"]
  /\ Goto(b, "decide")
  /\ UNCHANGED <<circuitVars, since, held, claim, answer, healthy>>

(* last = cache_state.get("last_valid")                                     *)
LookUp(b) ==
  /\ pc[b] = "look"
  /\ held' = [held EXCEPT ![b] = reading]
  /\ \/ reading = NoAge /\ Goto(b, "decide") /\ water' = [water EXCEPT ![b] = "failure"]
     \/ reading # NoAge /\ Goto(b, "age") /\ UNCHANGED water
  /\ UNCHANGED <<circuitVars, cacheVars, since, claim, torn, answer, healthy>>

(* Mutant: serving the reading renews its time.                             *)
RenewStamp(b) == StoreStamp(since[b])
KeepStamp(b) == UNCHANGED cacheVars

(* _cache_age_minutes and the failure record: no record while the reading   *)
(* is younger than the grace time, not served at all beyond the TTL.        *)
Serve(b) ==
  /\ pc[b] = "age"
  /\ claim' = [claim EXCEPT ![b] = ClaimedAge(since[b])]
  /\ \/ /\ claim'[b] <= Ttl
        /\ water' = [water EXCEPT ![b] = IF claim'[b] < Grace THEN "cached" ELSE "failure"]
        /\ KeepStamp(b)
     \/ /\ claim'[b] > Ttl
        /\ water' = [water EXCEPT ![b] = "failure"]
        /\ UNCHANGED cacheVars
  /\ Goto(b, "decide")
  /\ UNCHANGED <<circuitVars, since, held, torn, answer, healthy>>

-----------------------------------------------------------------------------
(* The route                                                                *)

Forget(b) ==
  /\ held'  = [held EXCEPT ![b] = NoAge]
  /\ claim' = [claim EXCEPT ![b] = NoAge]
  /\ since' = [since EXCEPT ![b] = 0]
  /\ torn'  = [torn EXCEPT ![b] = FALSE]

(* Without origin and destination there is no route to ask for.             *)
Skip(b) ==
  /\ pc[b] = "decide"
  /\ Goto(b, "idle")
  /\ water'  = [water EXCEPT ![b] = "none"]
  /\ answer' = NoAnswer
  /\ Forget(b)
  /\ UNCHANGED <<circuitVars, cacheVars, healthy>>

(* get_routes: refused while the circuit is open.                           *)
Ask(b) ==
  /\ pc[b] = "decide"
  /\ Goto(b, IF CircuitOpen THEN "idle" ELSE "post")
  /\ water'  = [water EXCEPT ![b] = "none"]
  /\ answer' = NoAnswer
  /\ Forget(b)
  /\ UNCHANGED <<circuitVars, cacheVars, healthy>>

(* The service answers with routes, or with a client error or no routes,    *)
(* which the circuit does not count.                                        *)
PostAnswered(b) ==
  /\ pc[b] = "post" /\ healthy
  /\ Goto(b, "clear")
  /\ UNCHANGED <<circuitVars, cacheVars, bodyVars, healthy>>
PostRefused(b) ==
  /\ pc[b] = "post"
  /\ Goto(b, "idle")
  /\ UNCHANGED <<circuitVars, cacheVars, bodyVars, healthy>>
PostFails(b) ==
  /\ pc[b] = "post" /\ ~healthy
  /\ Goto(b, "append")
  /\ UNCHANGED <<circuitVars, cacheVars, bodyVars, healthy>>

(* _record_route_failure, step by step.                                     *)
RecordFailure(b) ==
  /\ \/ pc[b] = "append" /\ AppendFailure /\ Goto(b, "test")
     \/ pc[b] = "test" /\ HeadExpired /\ Goto(b, "pop") /\ UNCHANGED circuitVars
     \/ pc[b] = "test" /\ ~HeadExpired /\ Goto(b, "count") /\ UNCHANGED circuitVars
     \/ pc[b] = "pop" /\ DropHead /\ Goto(b, "test")
     \/ pc[b] = "count" /\ CountFailures /\ Goto(b, "idle")
  /\ UNCHANGED <<cacheVars, bodyVars, healthy>>

(* pop(0) on a list that was emptied in between: an IndexError leaves       *)
(* get_routes and the whole routing stage.                                  *)
PopRaises(b) ==
  /\ pc[b] = "pop" /\ failures = <<>>
  /\ Goto(b, "idle")
  /\ UNCHANGED <<circuitVars, cacheVars, bodyVars, healthy>>

(* _record_route_success and the choice among the routes that came.         *)
Choose(b) ==
  /\ pc[b] = "clear"
  /\ ClearFailures
  /\ answer' \in Answers
  /\ Goto(b, "idle")
  /\ UNCHANGED <<cacheVars, since, held, claim, water, torn, healthy>>

-----------------------------------------------------------------------------
(* A tick is long: none falls between the steps of one call, and none makes *)
(* the clock of a fetch lie further behind than MaxSpan.                    *)
Tick ==
  /\ \A b \in Bodies : pc[b] \notin Instant /\ (pc[b] = "fetch" => since[b] < MaxSpan)
  /\ CircuitTick /\ CacheTick
  /\ since' = [b \in Bodies |-> IF pc[b] = "fetch" THEN since[b] + 1 ELSE since[b]]
  /\ answer' = NoAnswer
  /\ UNCHANGED <<pc, held, claim, water, torn, healthy>>

ServiceTurns ==
  /\ healthy' = ~healthy
  /\ UNCHANGED <<circuitVars, cacheVars, pc, bodyVars>>

Init ==
  /\ CircuitInit /\ CacheInit
  /\ pc     = [b \in Bodies |-> "idle"]
  /\ since  = [b \in Bodies |-> 0]
  /\ held   = [b \in Bodies |-> NoAge]
  /\ claim  = [b \in Bodies |-> NoAge]
  /\ water  = [b \in Bodies |-> "none"]
  /\ torn   = [b \in Bodies |-> FALSE]
  /\ answer = NoAnswer
  /\ healthy = TRUE

BodyStep(b) ==
  \/ FetchEnds(b) \/ Store(b) \/ Stamp(b) \/ LookUp(b) \/ Serve(b)
  \/ PostAnswered(b) \/ PostRefused(b) \/ PostFails(b)
  \/ RecordFailure(b) \/ PopRaises(b) \/ Choose(b)

Next ==
  \/ \E b \in Bodies : Begin(b) \/ Skip(b) \/ Ask(b) \/ BodyStep(b)
  \/ Tick
  \/ ServiceTurns

(* The pool runs every body that has work, and an endless run takes endless *)
(* time.  Requests come and go as they like, and so does the service.       *)
Spec ==
  /\ Init /\ [][Next]_vars
  /\ \A b \in Bodies : WF_vars(BodyStep(b))
  /\ []<><<Tick>>_vars

-----------------------------------------------------------------------------
(* Properties                                                               *)

Places == Recording \union {"idle", "fetch", "store", "stamp", "look", "age", "decide", "post", "clear"}

(* Types; an age that is claimed for a reading is never negative.           *)
TypeOK ==
  /\ failures \in Seq(Ages) /\ recent \in Seq(Ages) /\ openFor \in 0..OpenFor
  /\ lost \in Seq(Ages) /\ reading \in CacheAges /\ stamp \in CacheAges
  /\ pc \in [Bodies -> Places] /\ since \in [Bodies -> 0..MaxSpan]
  /\ held \in [Bodies -> CacheAges] /\ claim \in [Bodies -> CacheAges]
  /\ water \in [Bodies -> {"none", "ok", "cached", "failure"}]
  /\ torn \in [Bodies -> BOOLEAN] /\ healthy \in BOOLEAN
  /\ answer \in Answers \union {NoAnswer}

(* The age of a reading served from the cache is right as of the clock of   *)
(* the run (_cache_age_minutes): the reading is no older than               *)
(* stale_age_minutes says plus the time by which that clock lies behind,    *)
(* and one that costs no confidence (_tma_failure_record) is younger than   *)
(* the grace time plus that; unless another request stored a new time       *)
(* between the look-up of the reading and the look-up of its time.  Under a *)
(* clock of its own a run understates the age by no more than it has taken; *)
(* under the pinned clock of a replay an old reading may pass for a new     *)
(* one, by as much as the clock lies back.                                  *)
AgeRightAtItsClock ==
  \A b \in Bodies : (pc[b] = "decide" /\ claim[b] <= Ttl /\ ~torn[b]) =>
    /\ held[b] <= claim[b] + since[b]
    /\ water[b] = "cached" => held[b] < Grace + since[b]

(* While the circuit is closed and no body is recording a failure, there    *)
(* were fewer failures in the last window since the last success than the   *)
(* limit, apart from those that a race of two bodies at the head of the     *)
(* list dropped too early (_record_route_failure).                          *)
ClosedMeansFewFailures ==
  (~CircuitOpen /\ \A b \in Bodies : pc[b] \notin Recording)
    => Len(recent) < Limit + Len(lost)

(* Under DANGER with high zones, a recommended route leads through them (by *)
(* more than a twentieth of its points) only with the warning attached and  *)
(* when every route of known course does (_filter_danger_routes).           *)
DangerKeepsOutOfHighZones ==
  (answer # NoAnswer /\ answer.constrained /\ answer.kind = "route" /\ answer.throughHigh)
    => answer.flagged /\ ~answer.avoidable

(* Once the routes service has recovered for good, the circuit closes for   *)
(* good: no sequence of late failures, successes that leave the circuit as  *)
(* it is (_record_route_success) or racing bodies keeps it open.            *)
Recovers == <>[]healthy => <>[]~CircuitOpen

(* route_planner.py:44 says that a faster route through a flood zone is     *)
(* never acceptable.                                                        *)
SafetyIsPrimary ==
  (answer # NoAnswer /\ answer.kind = "route") => ~answer.fasterThroughFlood
=============================================================================
