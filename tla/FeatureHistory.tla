---------------------------- MODULE FeatureHistory ----------------------------
(***************************************************************************)
(* The realtime feature history (app/realtime_native/feature_builder.py):  *)
(* every prediction reads the newest Limit rows, drops those after as_of,  *)
(* computes its lags from the rest and, unless it is a replay, appends its *)
(* own row.  The row carries the snapshot's fetched_at_utc, which the      *)
(* caller supplies; as_of is the clock of the request.  Errors of either   *)
(* transaction are logged and swallowed: a failed read is an empty history.*)
(***************************************************************************)
EXTENDS PrunedTable, Sequences

CONSTANTS
  Pinned,    \* the clock the replays are pinned to
  MaxReplays \* bound: replays of the one pinned snapshot

ASSUME PinnedAssumption == Pinned \in Times /\ MaxReplays \in Nat

VARIABLES
  clock,     \* wall clock
  asOf,      \* clock of the request each writer works on
  stamp,     \* fetched_at_utc of its snapshot
  step,      \* of its build: new, asked, loaded, appending
  window,    \* the history each writer's lags are computed from
  replays    \* what each replay read, and the rows committed by then

requestVars == <<asOf, stamp, step, window>>
vars == <<tableVars, clock, requestVars, replays>>

UpTo(S, t) == {r \in S : r.at <= t}     \* _filter_history_as_of
Load       == Top(rows)                 \* _load_history

Init ==
  /\ TableInit
  /\ clock \in Times
  /\ asOf = [w \in Writers |-> clock]
  /\ stamp = [w \in Writers |-> clock]
  /\ step = [w \in Writers |-> "new"]
  /\ window = [w \in Writers |-> {}]
  /\ replays = <<>>

Tick ==
  /\ clock + 1 \in Times
  /\ clock' = clock + 1
  /\ UNCHANGED <<tableVars, requestVars, replays>>

(* The orchestrator reads its clock once; the snapshot was fetched at some  *)
(* time up to then, and the caller says when.                               *)
Ask(w) ==
  /\ step[w] = "new"
  /\ asOf' = [asOf EXCEPT ![w] = clock]
  /\ \E t \in Times : t <= clock /\ stamp' = [stamp EXCEPT ![w] = t]
  /\ step' = [step EXCEPT ![w] = "asked"]
  /\ UNCHANGED <<tableVars, clock, window, replays>>

BuildFrom(w, history) ==
  /\ step[w] = "asked"
  /\ window' = [window EXCEPT ![w] = UpTo(history, asOf[w])]
  /\ step' = [step EXCEPT ![w] = "loaded"]
  /\ UNCHANGED <<tableVars, clock, asOf, stamp, replays>>

Build(w) == BuildFrom(w, Load) \/ BuildFrom(w, {})    \* {}: the read failed

Done(w) ==
  /\ step' = [step EXCEPT ![w] = "new"]
  /\ window' = [window EXCEPT ![w] = {}]

AppendRow(w) ==
  /\ step[w] = "loaded"
  /\ Insert(w, stamp[w])
  /\ step' = [step EXCEPT ![w] = "appending"]
  /\ UNCHANGED <<clock, asOf, stamp, window, replays>>

(* No connection, or the INSERT fails: nothing was written.                 *)
AppendRefused(w) ==
  /\ step[w] = "loaded" /\ Done(w)
  /\ UNCHANGED <<tableVars, clock, asOf, stamp, replays>>

Write(w) ==
  /\ step[w] = "appending"
  /\ \/ Prune(w) /\ UNCHANGED <<step, window>>
     \/ (Commit(w) \/ Abort(w)) /\ Done(w)
  /\ UNCHANGED <<clock, asOf, stamp, replays>>

(* A replay (replay_mode, its clock pinned): it reads and does not append.  *)
Replay ==
  /\ Len(replays) < MaxReplays
  /\ replays' = Append(replays, [read |-> UpTo(Load, Pinned), known |-> ever])
  /\ UNCHANGED <<tableVars, clock, requestVars>>

Next ==
  \/ Tick \/ Replay
  \/ \E w \in Writers :
       Ask(w) \/ Build(w) \/ AppendRow(w) \/ AppendRefused(w) \/ Write(w)

Spec == Init /\ [][Next]_vars

(* The state has the shape the code gives it.                               *)
TypeOK ==
  /\ TableTypeOK
  /\ clock \in Times
  /\ asOf \in [Writers -> Times] /\ stamp \in [Writers -> Times]
  /\ step \in [Writers -> {"new", "asked", "loaded", "appending"}]
  /\ window \in [Writers -> SUBSET Rows]
  /\ replays \in Seq([read : SUBSET Rows, known : SUBSET Rows])

(* Two replays of one snapshot pinned to one clock differ only as the rows  *)
(* themselves explain: what the later one gained was committed in between,  *)
(* what it lost was pushed out by Limit newer rows.  No pruning by          *)
(* concurrent live requests shows through.                                  *)
ReplaysExplained ==
  \A i, j \in DOMAIN replays : i < j =>
    /\ replays[j].read \ replays[i].read \subseteq replays[j].known \ replays[i].known
    /\ (replays[i].read \ replays[j].read) \cap Top(replays[j].known) = {}

(* "identical snapshot replays read the same lag/trend window": the         *)
(* docstring of FloodPredictionPipeline.run.  It does not hold: a live      *)
(* request may commit a row that is not after the pinned clock in between.  *)
ReplaysAgree ==
  \A i, j \in DOMAIN replays : replays[i].read = replays[j].read

(* "Momentum features computed from past data only (no leakage)": no lag of *)
(* a snapshot is taken from a reading newer than the snapshot.  It does not *)
(* hold: the history is cut at asOf, not at stamp.                          *)
LagsFromPast ==
  \A w \in Writers : step[w] = "loaded" => \A r \in window[w] : r.at <= stamp[w]

================================================================================
