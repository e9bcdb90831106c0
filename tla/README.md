# Verification of the AI Flood Response Agent System

A TLA+ development kept beside the Python service under `src/`: modules
translated from the source, TLC configurations that check them on small
instances, and theorems that TLAPS proves for every value of the constants.

## 1. The system and its parts

A FastAPI process answers `POST /predict/agentic` and a variant of it with an
LLM explanation. Each call runs the flood decision
pipeline on the latest sensor snapshot, stores the run in PostgreSQL and returns
a decision with its trace. Scripts outside the process migrate the database,
ingest the Jakarta Satu dashboard, watch drift and retrain the model bundle.

| Part | Code | State it keeps | Operations | What is hard | What makes it correct |
|---|---|---|---|---|---|
| Flood decision pipeline | `app/pipeline/flood_pipeline.py` | stage executor and its queue, one thread per request, the result being built | five stages, emergency output, output gate, persistence | stage bodies outlive their timeouts; all requests share the workers; partial failure at every stage | one final answer per request; a decision rests on stages that came back; refusals are never stored; severity never drops |
| Persistence writer | `db/pipeline_writer.py`, `db/psycopg2_connection.py` | a pool of connections, one transaction per run | retry with back-off, ten inserts, finalise, commit, rollback | failure at every statement, a commit whose acknowledgement is lost, stale pooled connections, pool exhaustion and shutdown | all or nothing; connections come back; retries suffice after a database restart |
| Idempotent API | `app/api/main.py` | `idempotency_cache`, bounded thread pool | look up, run, store, answer; 503 on timeout | two requests with one key; the thread of a timed-out request goes on; the store fails after the run, or after its own commit; the readiness probe blocks the loop | one run per key and hour; the same answer for the same key |
| API key and rate limit | `app/api/security.py` | a deque of time stamps per key | drop expired stamps, admit or refuse | threads drop, compare and append side by side | the limit is exceeded by no more than the races explain; no refusal without reason |
| Latest prediction report | `app/realtime_native/inference.py` | one JSON file | write a temporary file, move it into place | all calls use one temporary name | readers see one whole report |
| Feature builder and history | `app/realtime_native/feature_builder.py` | `realtime_feature_history`, at most 2000 rows | load, filter by `as_of`, build lags, append and prune | replays race live requests; the row limit comes before the filter | an identical replay sees identical history |
| Decision authority | `app/domain/decision.py`, `app/services/decision_engine.py`, `app/services/adaptive_threshold.py` | none (pure) | `decide`, its layers, the legacy mapping, elevation adjustment | fourteen inputs, layers that override each other | floors and ceilings on the risk, invalid input is never automated |
| Decision metadata and output contract | `app/agents/action_agent.py`, `app/core/output_contract.py` | none (pure) | `_compute_decision_meta`, `validate_decision_meta`, `safe_fallback_output` | two authorities that must agree | what the action stage emits satisfies the contract; the fallback does too |
| Perception, reasoning and evaluation agents | `app/agents/*_agent.py`, `app/services/*` | none across calls | freshness, plausibility, failures, confidence, trust, status fusion | many independent penalties | scores stay in range and are monotone in the evidence |
| Routing agent and TMA scraper | `app/agents/routing_agent.py`, `app/services/data_ingestion/tma_scraper.py` | process-wide caches | fetch with TTL cache, failure record | cache written in two steps by bodies whose stage has timed out | cached data is never older than it says; DANGER keeps out of high zones |
| Route planner | `app/services/routing/route_planner.py` | a list of failures, the time the circuit opens until | ask, record a failure or a success, choose a route | failures recorded and cleared side by side | a closed circuit means few recent failures; an open one closes |
| BNPB context and mapper | `app/services/bnpb_context.py`, `bnpb_jakarta_mapper.py`, `bnpb_gate.py` | 24 h caches, one with an asyncio lock, a file | fetch, fall back to the static file, look up | concurrent refresh, fallback cached as if fresh | context never changes the risk level |
| Trend history | `app/services/trend_analysis.py`, `db/trend_repository.py` | `trend_history` | record, compute, reset | several workers append | trend reads are deterministic |
| Model bundle, training, drift monitor | `app/realtime_native/{bundle,training,inference}.py`, `app/monitoring/drift_monitor.py` | bundle directory, manifest, cached loader | write, validate, load, retrain | files replaced one by one while a loader reads them, jobs that die, meet or go on in another directory | a served bundle is of one training; a directory left alone is loadable |
| Migration runner | `db/migration_runner.py`, `scripts/run_migration.py` | `schema_migrations`, the schema | apply pending files, record, verify checksums | crash between apply and record, two runners, files edited under way, definitions that fail silently | the table tells what was executed, in order; no older definition comes back |
| Jakarta Satu ingest | `app/services/jakarta_satu_scraper.py`, `db/repositories/` | three tables | scrape, parse, store a snapshot with its rows | one step of several failing | a snapshot with all its rows or none |
| LLM explanation | `app/agents/llm_orchestrator.py`, `app/services/llm_client.py`, `app/api/routes/agentic_llm.py` | none | call, validate, fall back | retries and timeouts outside the process | explanation never alters the decision |
| DEM elevation, flood zones, hydrology, BMKG filter | `app/services/*` | lazily built tile table | pure look-ups | little | range facts |
| Evaluation harness, dashboards, front end, `poskobanjir` | `app/evaluation`, `app/api/dashboard.py`, `frontend`, `poskobanjir` | none of their own | reports, rendering, a batch fetch | little | not modelled: reporting and presentation |

The parts meet in few places. The API calls the pipeline on a thread; the
pipeline calls the agents on the stage executor, then the writer; the reasoning
stage reads and appends the feature history and loads the model bundle; the
routing stage uses the cache of the water level and the circuit breaker; the
writer and the API share the connection pool. The scripts meet the service in
the database and in the bundle directory.

Modelled is everything that keeps state across calls and that a decision passes
through or depends on. The remaining rows are left out, with reasons in section 9.

## 2. How the development is built

What decides and stores an answer came first, the process-wide helpers after it,
the scripts last. A part that keeps state is a module with one action for each
atomic step; small shared objects (`ConnectionPool`, `RouteCircuit`, `TmaCache`,
`RateLimiter`, `ReportFile`) are modules of their own, composed by the module of
the threads that use them. Pure code (`Decision`, `RouteChoice`) is operators.

| Modules | Composition | Abstract specification | Theorems |
|---|---|---|---|
| `DecisionService`, `FloodPipeline`, `FloodPipelineProofs` | request threads on one stage executor | `DecisionService`, implemented with liveness | its safety, the action properties and the refinement of every step |
| `ConnectionPool`, `PersistenceWriter`, `PersistenceWriterProofs` | writers on the shared pool, a database that goes away, `close_pool` | - | all four properties, and the types |
| `IdempotentApi`, `IdempotentApiProofs` | coroutines and the threads they abandon | - | both safety properties, and the types |
| `PrunedTable`, `FeatureHistory`, `TrendHistory`, `HistoryProofs` | one table discipline, two users | an unpruned table (the ghost `ever`) | all properties of both tables |
| `Decision`, `DecisionStage`, `DecisionProofs` | engine, failsafe, metadata, contract, routing | - | all six properties, and the types |
| `AgedStamps`, `RouteCircuit`, `TmaCache`, `RouteChoice`, `RoutingStage`, `WindowProofs` | stage bodies, the abandoned ones among them, on process-wide state | the ghost of the failures there were | all three safety properties |
| `MigrationRunner`, `MigrationRunnerProofs` | two kinds of runner on one table, deaths and edits | the ghost record of what was executed | all four properties, and the types |
| `ModelBundle`, `ModelBundleProofs` | training and re-export beside a loader | the training a file comes from | all three properties, and the types |
| `AgedStamps`, `RateLimiter`, `ReportFile`, `PredictThreads`, `WindowProofs` | handler threads on one deque and one file | the ghost of what was let in | all four properties |

`AgedStamps` is what the limiter's deque and the circuit's list of failures have
in common: stamps that grow older by ticks, held against a window. `WindowProofs`
proves about both.

What is left to do: the monotonicity of confidence and status fusion as
operators, and the caches of the BNPB context. Every safety and action property
of a passing run has its theorem; liveness is beyond the prover (section 7).

## 3. Modules and the code behind them

Operators whose comment calls them a *mutant* are deliberate errors; no
specification uses them. They stand before the definition they would replace, so
that each property can be seen to fail when the code is wrong.

### FloodPipeline and DecisionService

`FloodDecisionPipeline.run` and `_STAGE_EXECUTOR`
(`app/pipeline/flood_pipeline.py`). `pc[r]` is the request thread: the name of a
stage means that it waits in `future.result` for it. `fut` holds the
`concurrent.futures` state of every stage body and `queue` the executor's work
queue, where a cancelled item stays until a worker drops it. `WorkerTakes` and
`StageBodyEnds` are the pool threads, whose bodies may end after their request was
answered; what a body does to shared state is in the modules of that state. Each
`After...` action is what the thread does once a stage has come back. `Emergency` is
`_emergency_output` on every path that leads there, `RoutingUnavailable` the optional
stage, `GatePasses` and `GateRejects` the output contract, `PersistOk` and
`PersistFails` the writer. `Uncaught` is what raises between the stages, outside of
any `try`: the bypass code, which reads numbers out of the snapshot, and the steps
between routing and the gate. What the stages compute is chosen freely (`critical`,
`EvalStatuses`, the driver, the TMA's fate): whatever holds, holds for every decision
engine.

`DecisionService` is the promise to the caller of `run()`: one verdict for a
request, decision or refusal, and nothing stored with a refusal. A request that has
been accepted is decided or refused in the end; once it is decided (`decided`) the
answer may still wait for the write, of whose end nothing is promised. The refinement
mapping reads `verdict` off `pc` and `outcome`, and `stored` off `row`.

### ConnectionPool and PersistenceWriter

`db/psycopg2_connection.py` and `execute_pipeline` with `with_retry`
(`db/pipeline_writer.py`). The pool proper is psycopg2's, modelled from how this
code uses it and marked external: connections are lent last in, first out, at most
`MinConn` are kept on the shelf, at most `MaxConn` are open. A connection's `link` is
what client and server believe of it: an outage makes live ones *stale*, and the
client learns of it only when it uses them. `close_pool` may run at any time, as
it does at shutdown while abandoned bodies still write. `FindPool` and
`TakePool` are the two reads of `_POOL` in `_init_pool`. The rows of a run are
abstracted to the number of statements executed; every statement may fail in a
retryable, non-retryable or programmatic way, and the commit may be executed
while its acknowledgement is lost.

### IdempotentApi

`predict_agentic_endpoint` and `_bounded_threadpool` (`app/api/main.py`). A
coroutine awaits three calls in turn: look-up (which first deletes expired rows),
run, store. Each runs on a thread of its own that goes on when `wait_for` has given
up. A call may raise before it has an effect (`ThreadFails`), and look-up and store
also after their commit (`LookupThread`, `StoreThread`: a lost acknowledgement, a
`PoolError` on the way back to the pool), so that a 500 may stand beside a stored
response. All coroutines share one event loop (`loop`), which the readiness probe
blocks for as long as its query takes (`Probe`, `ProbeEnds`): it is `async def` and
calls psycopg2 without a thread. `Expire` is a key's hour passing. The ghosts
`executed`, `overlapped` and `faulted` say what happened to a key within its hour, so
that the properties can tell undisturbed use from use that overlapped or failed;
`stored` is whose response was ever committed.

### PrunedTable, FeatureHistory and TrendHistory

`_append_history` (`app/realtime_native/feature_builder.py`) and
`insert_trend_record` (`db/trend_repository.py`) keep their tables the same way:
insert, then delete what is not among the newest `Limit`, in one transaction at
READ COMMITTED. `PrunedTable` is that discipline; the ghost `ever` is the table
without pruning. `FeatureHistory` adds the two clocks (`as_of` is the request's,
the row's time the caller's `fetched_at_utc`), the separate read transaction,
swallowed errors and pinned replays. `TrendHistory` adds the unique index
(`Contested`, `Repeats`) and `reset_history`.

### Decision and DecisionStage

`Decision` is `decide()` with all its layers, `_apply_elevation_adjustment` and
the failure records that feed it, as operators over the bands the thresholds
distinguish. It has no state. Each override is an operator from a ruling to a
ruling, in the order of the code: `Extended(Converged(Contradicted(Classified)))`.
The operators `PhysicalGate`, `SafetyFloor`, `Rising`, `Converging` and their like say
what raises an alarm, apart from the order of the layers; `Alarms` in `DecisionStage`
collects them, so that the answer can be held against all of them at once.
`DecisionStage` takes one snapshot through evaluation (the engine, or
`failsafe_decision` when it raises), action (`_compute_decision_meta`, then
`validate_decision_meta`) and routing (the TMA failure record, added to a list of
its own). Confidence, dominant driver and traces do not reach the risk and are
left out; so is the derivation of the adaptive thresholds: any ladder may come with
the evidence.

### RoutingStage, TmaCache, RouteCircuit and RouteChoice

`RoutingAgent.run` (`app/agents/routing_agent.py`) by several bodies at once: all
requests share the pipeline object and with it the agent and its cache. `Store`
and `Stamp` are the two assignments of `fetch_tma_data`, `LookUp` and `KeepStamp` the
two reads of `_serve_from_cache_if_fresh`. The clock of a run is the time it began,
or the one a replay pins, and lies behind (`since`) by any number of ticks up to
`MaxSpan` when its fetch ends; `ClaimedAge` is the age by that clock, never negative.
`RouteCircuit` is the list of failures and
`_circuit_open_until` in `route_planner.py`: a failure is appended, expired heads
are tested and popped one by one, and the rest counted, each a step of its own,
while a success clears the list. `RouteChoice` is the arithmetic: the safety score
by the share of a polyline in zones of each severity, the filter for DANGER, the
combined score. What a choice is made from is an offer: the routes, the risk, the
severities of zones there are, trust and vulnerability. The constant `Offers` of the
stage is any set of offers (`PossibleOffers`); what it may answer, `Answers`, is what
`Recommendation` makes of them.

### MigrationRunner

Both runners: `run_migrations` (`db/migration_runner.py`), which refuses on gaps,
drift and failures and stops at the first failing file, and
`scripts/run_migration.py`, which applies what is pending, or the one file named by
`--file`. `Scan` reads the table and the checksums, `ApplyFile` executes the text the
file has by then, `RecordFile` writes the row in a transaction of its own, `Die` may
come anywhere. A file with its own `BEGIN ... COMMIT` (`Wrapped`) that fails leaves the
session aborted, so that its failure is not recorded. `RecordFails` is the record of a
success that raises: the row may be missing, written, or, in strict mode, say of an
executed file that it failed. `Definers` are the files that drop and define anew the
same CHECK constraint: 100 and 105 for `decisions_reason_chk`, with 021 for
`decisions_authority_chk`. `shape` is which of them is in force. Their blocks end in
`EXCEPTION WHEN others THEN NULL`: a new definition that fails, on a row it forbids
say, leaves the older one in force and the file a success (`ShapesAfter`); the ghost
`swallowed` is whose definition was lost like that.

### ModelBundle

The bundle directory: `train_realtime_native_model` writes the assets and a first
manifest, `_re_export_only` extracts the native model, merges the calibration,
hashes what is there and publishes a second manifest through `_atomic_write_json`,
whose temporary name is shared by all jobs. The training always writes to the
default directory, the one modelled, and the re-export goes to `--bundle-dir`; when
that is another, the job leaves after its first manifest, which no loader takes
(`FillFirst`; `strayed` remembers it until a re-export). The loader (`bundle.py`) takes the
newest modification time as the key of its cache, reads the manifest, hashes all
files and then opens each of them again. A file is the training it comes from and
whether it is whole; of the modification times only the order is kept.

### RateLimiter, ReportFile and PredictThreads

`require_api_key` (`app/api/security.py`) on the deque of one key, and the end of
`predict_realtime_native` (`inference.py`), which FastAPI runs on threads. Dropping
an expired head is two steps, a test and a `popleft`, so that two threads may drop
two stamps for one test, or find the deque empty (`DropFails`, an IndexError).
Comparing and appending are two steps as well. In `ReportFile` a thread writes to
the file it has opened whatever its name is by then; `met` and `spoiled` remember
which calls ran beside another one.

## 4. Runs

Instances are small, and chosen so that the interesting case needs no more. A run
is checked by TLC exhaustively. `CHECK_DEADLOCK FALSE` is set throughout, since
every instance ends: a request is answered, a bound is used up.

| Run | Instance | What it shows |
|---|---|---|
| `pipeline` | 2 requests on 1 worker, one live and one a strict, unpersisted replay; statuses OK and FAIL | The pipeline's safety, that answers are final and severity never drops, and that the service promise is kept, its liveness included: every request is decided or refused, whatever its bodies do. One worker and two requests suffice for an abandoned body to block, be cancelled in the queue and end late. 105 000 states. |
| `writer` | 3 writers, 2 connections, pool of 1 to 2, 2 attempts, 1 outage, 1 pool | What is answered agrees with what is stored; no connection is shared or lost on any path; a write after a restart survives. Three writers exhaust a pool of two; two attempts outnumber a shelf of one, as three outnumber two in the default configuration. |
| `api` | 3 requests in the order of their names, two with the key and one between them with or without it, 1 expiry, any number of probes while someone waits | One run per key and hour unless requests overlapped or failed; a 200 rests on a finished run whose response was committed; every call is answered, if the loop is free again and again. A request without a key touches nothing another one reads, so that one of them is enough, which meets the others only in the threads they leave. 243 000 states. |
| `api_key_honoured` | the same, no expiry | *Violated*: an abandoned store overwrites the response of its retry. |
| `feature_history_safety` | 2 writers, 2 times, limit 2, 4 rows, 2 replays | Pruning is invisible; replays differ only by committed and displaced rows. Four rows let two transactions prune against each other at the limit. |
| `trend_history_safety` | 3 writers, 5 times, limit 2, 6 rows | A station's table overshoots by no more than the recorders beside each other, and keeps one row of a time, with conflicts and resets. |
| `decision` | 13308 snapshots, engine or failsafe | Every alarm, of every layer, is heard in the answer at its level; metadata and contract agree but for two named cases; automation follows OK; more river never lowers the risk. |
| `routing` | 2 bodies, the circuit opens at 2 failures within 2 ticks for 2 ticks, readings fresh for 1 tick, ages up to 3, clocks up to 1 tick behind | By the clock of the run a reading is never older than said, except by a torn look-up; a closed circuit means few recent failures; DANGER keeps out of high zones when a clean route exists; the circuit lets requests through again. 1.06 million states. |
| `routing_safety_primary` | the same | *Violated*: a faster route through a flood zone wins. |
| `migrations` | 2 runner processes, 3 files, 2 mishaps | The table tells what was executed, the order holds, an older definition comes back only when two runners meet, `--file` jumps ahead or a newer one was swallowed, no failed file is retried blindly. Three files are two definers with one between them; two mishaps let a death follow an edit or a definition that was swallowed. 2.7 million states. |
| `bundle` | 2 jobs, 2 runs, 1 killed | The bundle served is of one training and the one on the disk, and a directory left by a job is loadable, with the exceptions the properties name. Two runs give an overlap, a run after a death, and a re-export of what another left, a training for another directory among them. 3.1 million states. |
| `predict` | 3 threads, limit 2, window of 2 ticks | Let in are at most the limit, one for each other thread and one for each stamp lost; no refusal lacks a reason; only calls that overlap spoil the report. Three threads let two race while a third is refused. 327 000 states. |

The snapshots of `decision` (`MCEvidence`) are the union of four products
(physical signals; model, failures and trend under three ladders; elevation;
suspect input), since the full product is out of reach. Inputs that meet in one
layer are in one product, and all bands of the probability occur with all three
ladders: the committed bundle's (0.07, 0.142, 0.242), a lowered one and the
dataclass defaults (0.30, 0.50, 0.75). `Consistent` keeps those one snapshot can
show. The theorems of section 6 do without this choice.

Bounds that are not the code's: `MaxPools`, `MaxOutages`, `Statements` (writer),
`MaxExpiries` (API), `MaxRows`, `MaxReplays`, `Times` (histories), `MaxP` (the
bands), `Oldest` and `MaxSpan` (routing: ages are counted up to `Oldest`, clocks lie
behind by `MaxSpan` at most: with a `Ttl` of 1 that is enough for a clock from before the
reading was stored),
`Offers` (routing: in the run, all pairs of 25 kinds of route, two risks, three
sets of zones, two trusts and two penalties),
`NumTexts` and `MaxMishaps` (migrations), `MaxRuns` and `MaxCrashes` (bundle). Times of
minutes and seconds are a few ticks, with the order of the code's constants kept.

## 5. Fairness

`pipeline`, `api` and `routing` check liveness.

`FairThreads` is weak fairness of a request thread's steps short of the write
(`StageStep`): `future.result(timeout)` returns or raises by itself, and between the
stages the thread only computes. It covers neither the workers and the stage bodies,
which may hang for ever, nor the write: `execute_pipeline` runs on the request thread
over psycopg2, sets no statement timeout and can hold it for ever. What is promised is
therefore that a request is decided or refused, and not that `run()` returns once it
has begun to store a decision.

`FairLoop` is strong fairness of each coroutine's steps, which need the loop to be free:
`asyncio` runs what is ready in the order it became ready, and the timer of `wait_for`
is among it. Nothing is assumed of the threads behind a coroutine. The readiness
probe holds the loop while its query runs, and a database that hangs holds it for
ever; `EveryCallAnswered` is stated under the hypothesis that the loop is free again
and again, and does not hold without it.

`Recovers` (the circuit) assumes weak fairness of each body's steps, whose requests
have timeouts of their own, and that time goes on, `[]<><<Tick>>_vars`; not that the
routes service comes back. Writers, histories, runners and jobs have no liveness
property: nothing bounds a psycopg2 call, and a script may be killed.

## 6. What is proved

TLAPS proves these for every value of the constants, from the named assumptions of
the modules alone.

- `FloodPipelineProofs`. `IInv` joins the safety properties with two facts that
  make them inductive: `StagesBehindThread` (a thread in a stage has the earlier
  ones behind it, as futures that came back) and `OutcomeAtReturn` (outcome and
  row appear with the return). `DecisionRestsOnItsStages` is not inductive without the
  first: it says nothing of a thread in the middle. `InvByRequest` splits the
  invariant by request, so that each action is checked on the one request it
  touches. From it follow the safety theorems and `AnswersAreFinal`;
  `HydrologyNeverUnverified` has a small invariant of its own, and so has
  `SeverityNeverDrops` (`StatusComesLate`: no status before the action stage is back).
  `PipelineImplementsService` proves the safety half of the refinement: each step
  is a step of `DecisionService` or a stutter.
- `PersistenceWriterProofs`. `IInv` has five parts. `Ledger` follows what a writer
  has stored through its attempts: each stores once at most, and only a lost
  acknowledgement lets an attempt follow one that has stored. `Borrowed` ties the
  connection held to the writer's place, and pools to the order they are made in.
  `Apart` says that a connection is in one place; it needs to say so of closed ones
  too, or opening one might lend it twice. `Books` says that an open pool knows
  what it has lent. `Placed` states the third over plain functions, so that the
  lemmas on where a connection can go speak of no state. `Surviving` counts, for a
  writer alone after a restart, its attempts against the connections on the shelf
  that are not live: there is one for each of them, and one more. The theorems hold
  for any number of writers, connections, pools, attempts and outages;
  `RestartsAreSurvived` has the hypothesis `MinConn < MaxAttempts`, which the
  defaults (2 and 3) meet.
- `MigrationRunnerProofs`. `Memory` is what a runner remembers of its scan, `RowsTrue`
  and `RestIsDone` relate rows and memory to what was executed, `TakingTurns` and
  `RecordedInOrder` give the order, `ShapeExecuted` the definition in force, of which
  `NewestDefinitionInForce` speaks but for the swallowed ones; `LossRow` says what a lost
  record may leave behind;
  `FailuresLeaveRows` and `StrictSawNoRow` are what `NoBlindRetry` rests on.
- `HistoryProofs`. `TableInv` says that a row once committed and now gone is
  *surpassed*: at least `Limit` committed rows are newer. The same is said in
  advance of what a transaction is about to delete, with the rows it is about to
  add; this is what makes blind concurrent pruning harmless, as surpassed rows
  stay surpassed when rows are added. `InvisibleIfSurpassed` turns it into
  `PruningInvisible`; it rests on the fact that a finite non-empty set of rows
  has a newest one. `ReplaysHonest` says that what a replay read is what an
  unpruned table would have shown it, and that what replays know grows; `TimeTaken`
  extends the unique index over uncommitted rows. `OvershootBounded` rests on
  `Overshoot`: put the open transactions that have pruned in the order they did;
  each inserts one row at most, which those after it did not see, so what each will
  leave behind still has room (`Room`) for a row of every one before it.
- `WindowProofs`, for the limiter and the circuit, the cache and the report. `Mirrors`
  is common to the first two: the list is the stamps of the history that are not
  expired, less those dropped too early, and some expired ones. For the limiter,
  `Checked` and `Room` say what a thread that has compared may still add;
  `AdmissionsBounded` and `RefusalsJustified` follow. For the circuit,
  `OpenedInTime` needs that it stays open no shorter than its window (both are 60
  seconds: `CircuitAssumption`). `CacheInv` says that a reading is never older than
  its stamp, because the time is stored after it; `AgesRightAtTheirClock` makes of it a
  statement for every clock a run may have. `Alone` says that a call that met no
  other has the temporary file to itself, `NobodyInside` that nobody writes to a
  report that a call alone has published: the second is needed because a move takes
  the file of whoever still writes to it along. `DangerKeepsOutOfHighZones` follows
  from lemmas on the operators (`BestIsOneOfThem`, `CleanMeansNotThrough`), for any
  offers within `PossibleOffers`.
- `IdempotentApiProofs`. `Once` is the inductive form of `OneRunPerHour`: as long as
  no request overlapped or failed within a key's hour, one request at most has run for
  it; until it has stored its response it is the only one at work (`Alone`), afterwards
  the cache answers. `Paced` ties the thread behind a coroutine to the place of
  the coroutine, and `Rests` a response to the run it came from and to the commit that
  stored it, through calls that raise after their effect.
- `ModelBundleProofs`. `Works` ties what a job remembers to its place, `Alone` and
  `Published` say that a job which met no other has the directory to itself and
  what it has put there, `Held` what the loader holds, `Timed` and `Current` that
  the key of the cache stands for one manifest. Modification times are
  renumbered in each step, so that a lemma is needed that this keeps their order
  (`RenumberedKeepsOrder`). A job that leaves a clean directory has either published, or
  strayed after its first manifest (`CleanLeave`).
- `DecisionProofs`. The work is in lemmas on the operators: each override keeps
  its ruling or raises it (`OverridesRaise`), hence so does the chain
  (`LearnedRaises`), and each alarm is heard by the layer that raises it and by all after
  it (`LearnedHears`, `DecideHears`, `EngineHears`), from which `EveryAlarmIsHeard` follows.
  What degrades the status of accepted data also leaves a severe record
  (`QuietIsOK`), and the contract refuses in two cases (`Refusals`).
  `RiverIsMonotone` takes more river through every layer from the classes to the
  elevation. `IInv` says only that later stages hold what the engine or the failsafe said and the
  contract let through. No consistency of the evidence is assumed: the theorems
  hold of every set of snapshots and every ladder, even one out of order.

## 7. What is only model-checked

Liveness: `EveryCallAnswered`, `Recovers` and the liveness half of
`ImplementsService` rest on fairness and hence on ENABLED, which the prover does not
handle. Every other property of the passing runs, the invariants and the action
properties, has a theorem. The inductive invariants were checked by TLC on the
instances of section 4 before they were proved.

The types of most modules are proved with the rest. `TypeOK` of the routing stage and
`ThreadsTypeOK` of the handler threads are stated beside the others and neither
part of a run nor proved as a whole: `WindowProofs` proves what it needs of them.
The violated properties are counterexamples and need no proof.

## 8. Where code and words part

Two have a run that shows them, and an entry among the findings:

- Idempotency fails when a timed-out store ends after its retry (`KeyHonoured`).
- "A faster route through a flood zone is never acceptable"
  (`route_planner.py:44`), but the weighted sum accepts one (`SafetyIsPrimary`).

Five have a property in the modules whose comment says that it does not hold;
`INVARIANT` with its name in the configuration of the run gives the
counterexample:

- A commit whose acknowledgement is lost is retried as a second run, though the
  docstring calls the transaction retry-safe (`StoredOnce`; `pipeline_writer.py:614`
  against 397).
- Replays pinned to one clock may read different windows (`ReplaysAgree`;
  `feature_builder.py:142` against `flood_pipeline.py:232`).
- The BMKG floor returns at once and so caps a model that says DANGER
  (`FloorNeverLowers`; `decision.py:548` against 141).
- L2 lifts SAFE to PRE_ALERT and thereby hides it from L3.3, which would have
  answered WARNING (`SevereFailureNeverLowers`; `decision.py:638` against 15).
- `is_safe_for_automation` is not computed again after the routing stage
  (`NoAutomationOnSevereFailure`; `flood_pipeline.py:403`).

Met on the way, without a run of their own:

- `FeatureHistory.LagsFromPast` and `TrendHistory.BoundedAfterCommit` state two
  comments of the code that do not hold. The history is cut at the request's clock and
  not at the snapshot's, so lags may come from readings newer than the snapshot
  (`feature_builder.py:413`). Two recorders that commit beside each other leave one
  row too many (`trend_repository.py:31`); `OvershootBounded` is what remains.
- The readiness probe (`main.py:467`) makes a blocking psycopg2 call on the event loop. While
  it waits nothing else runs there, the budgets of `wait_for` included.
- A 500 or 503 says nothing of the table: the store may have been committed before it
  raised, or be committed later, and the next request with the key gets its response.
- A replay pins the clock of the water level too. The age of a cached reading is
  max(0, now - cached_at) (`tma_scraper.py:256`), so a clock from before the reading was stored
  makes it new, whatever its age by then; `AgeRightAtItsClock` says what holds.
- A failure record that the routing stage adds comes after the automation flag was
  computed (`flood_pipeline.py:403`); `AutomationNeedsOK` speaks of the status alone.
- Migrations 100 and 105 swallow the errors of their definitions and are recorded as
  applied all the same. And a record of success that raises can make the strict runner
  record an executed file as failed (`migration_runner.py:248`).
- "train_realtime_native_model already writes the bundle directory; we now upgrade it"
  (`retrain_bundle.py:123`) is true of the default directory only. With `--bundle-dir` another
  one is re-exported, and the service's is left with a manifest its loader refuses.
- `flood_pipeline.py:556` says that emergency outputs are persisted; they return
  before it. The docstring at line 744 speaks of UUIDv5, the code draws a UUIDv4.
- When routing is absent, a hydrology-dominant driver keeps its name
  (`HydrologyRestsOnTma` is therefore stated of a TMA failure record only).
- `pipeline_writer.py:428` says that a failed connection is never reused; a retry on
  an error that leaves it open gets the same one back. A `PoolError` is neither
  retried nor wrapped, and replaces a result when the pool is closed under a
  writer.
- `decision.py:6` claims every change of the risk level; the elevation adjustment
  lives in `decision_engine.py`.
- With the committed thresholds the trend layers never raise SAFE to PRE_ALERT:
  their floor of 0.12 is above the ladder's 0.07. Only a ladder such as the default
  one lets them.
- The conflict "water rises without rain" escalates but is of medium severity, and L2
  acts on severe ones alone.
- The contract refuses, and so turns into an emergency output, an answer that L0 gave on
  data nobody marked INVALID (completeness 0.25, plausibility from 0.20 to 0.30),
  and a failsafe answer on INVALID data. A failsafe answer may be marked safe for
  automation although it asks for manual review.
- `inference.py:130` promises that a reader never sees a partial report. The temporary
  file has one name for all calls, so two that overlap can publish a truncated or mixed
  one, and the second may fail with FileNotFoundError. `decision_engine.py:1063`,
  `bnpb_jakarta_mapper.py:192`, `feature_builder.py:190` and `training.py:362` follow the
  same pattern.
- `migration_runner.py:13` says that success or failure is recorded immediately after
  each apply. The failure of a file with a transaction of its own never is.
- `routing_agent.py:67` calls the cache request-scoped; the pipeline object, and with it
  the agent, is shared by all requests. The deadline of `fetch_tma_data` is never
  passed. `get_routes` "never raises" (`route_planner.py:191`), but of two bodies that pop
  the same failure one may raise an IndexError. Zones called strictly avoided may hold up to 5 % of a
  route's points. The gauge says closed while the circuit is still open, and a
  success does not shorten the time it stays so.
- Two overlapping retrainings can leave an older manifest under a key that stands for
  the newer one, and a training that dies leaves a mixture which the next re-export
  makes loadable.
- A completeness of zero becomes 1.0 (`evaluation_agent.py:257`).
- No migration creates `realtime_feature_history` or `idempotency_keys`; the drift
  monitor reads a CSV history that the live path no longer writes.

## 9. What is not modelled, and why

- A caller-supplied connection of the writer, where neither retry nor pool apply.
- `RestartSurvived` needs more attempts than connections on the shelf, which is the
  hypothesis of its theorem and true of the defaults. With
  `DB_POOL_MIN` at 3 or more and three attempts a restart can exhaust them.
- The CSV variant of the feature history, which only tools use.
- Lock waits at READ COMMITTED that change nothing of the result.
- Perception, reasoning and evaluation beyond what `Decision` needs: scores and
  penalties over real numbers. Their thresholds appear as bands.
- Routing: a clock pinned in the future, which no caller has; the rounding of
  the scores, the text of advisories, the parsing of
  water-level records. Expiry of a failure tests the head and pops it in two steps,
  but appends, pops and clears are atomic, as the interpreter's list operations are.
- Migrations: what a statement does to the schema beyond the shared constraint; a
  client that dies within a statement, which the server either commits or does not,
  is a death before or after it. The modes that change nothing.
- Bundle: `joblib.dump`, the writing of the shared temporary file and the hashing of
  the directory by a job are one step each (the loader hashes file by file, in any order).
  The cache keeps the latest entry only, where the code keeps four; the service reads
  the calibration once more elsewhere.
  Training and drift statistics are numerical.
- Limiter: the keys, and refusals before the deque is reached; the clock does not
  advance within a call.
- BNPB context: two caches of one day with a static fallback, of which no decision is
  computed.
- LLM explanation, Jakarta Satu ingest, elevation and flood-zone look-ups, dashboards,
  evaluation harness, front end, scrapers: pure functions, presentation or I/O
  whose result no decision is computed from, or, for the scrapers, external
  services.
- Third-party and generated files (`get-pip.py`, the notebooks) are more than half of
  the lines of the repository and no part of the service.

## 10. Running it

`tlc -config X.cfg M` checks a run; the pairs of module and configuration are in
`PROJECT.json`. `tlapm M.tla` checks a proof module. `PROJECT.json` also maps each
definition to the lines it models, lists the hazards of the code with the
properties that cover them, and the findings.
