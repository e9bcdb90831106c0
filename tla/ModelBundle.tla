----------------------------- MODULE ModelBundle ------------------------------
(***************************************************************************)
(* The directory the prediction model is loaded from: the training that    *)
(* writes it (app/realtime_native/training.py), the re-export that turns   *)
(* it into the form the loader takes (scripts/retrain_bundle.py), started  *)
(* by hand or by the drift monitor, and the loader of the service          *)
(* (app/realtime_native/bundle.py).  Jobs and loader are processes of      *)
(* their own, and nothing locks the directory.                             *)
(*                                                                         *)
(* Of the files that are copied from the models directory the model stands *)
(* for all, of those that are written in place the calibration.  What is   *)
(* in a file is the training it comes from, the training its folds come    *)
(* from (calibration only), and whether it is whole; its hash is its       *)
(* content.                                                                *)
(* Of modification times only the order is kept: they are numbered anew    *)
(* after every change.                                                     *)
(***************************************************************************)
EXTENDS Naturals, Sequences, FiniteSets, FiniteSetsExt

CONSTANTS
  Jobs,        \* processes of retrain_bundle.py that may run at the same time
  MaxRuns,     \* bound: runs of the script, all told
  MaxCrashes,  \* bound: of them killed
  NoTraining,  \* of a calibration that was unreadable when it was merged
  Nothing      \* no temporary file

Order     == <<"model", "calibration">>
Files     == {"model", "calibration", "native"}
ReadOrder == <<"native", "calibration">>

VARIABLES
  disk,       \* the assets
  manifest,   \* schema, the hashes it lists, and whether it is whole
  time,       \* times of files, of the last dump and of the keys, 0 when there is none
  dumped,     \* models directory: the training of the last dump
  tmp,        \* the temporary files of _atomic_write_json, shared by all jobs
  runs, trainings, crashes,
  pc, full, made, next, booster,   \* of each job
  loader,     \* the load under way: place, manifest, files to do and read
  cached,     \* the latest entry of the lru_cache
  alone,      \* history: no other job has run beside this one
  clean,      \* history: no job has died or met another since a full one ran alone
  strayed     \* history: the last training has left the re-export of this directory out

jobVars    == <<pc, full, made, next, booster, alone>>
dirVars    == <<disk, manifest, tmp>>
boundVars  == <<runs, trainings, crashes>>
loadVars   == <<loader, cached>>
vars == <<dirVars, time, dumped, boundVars, jobVars, loadVars, clean, strayed>>

Whole(training, folds) == [training |-> training, folds |-> folds, whole |-> TRUE]
Torn(content) == [content EXCEPT !.whole = FALSE]
Goto(j, place) == pc' = [pc EXCEPT ![j] = place]
OneTraining(files) ==
  /\ \A f \in DOMAIN files : files[f].whole /\ files[f].training = files["native"].training
  /\ files["calibration"].folds = files["native"].training

(* What a file, the manifest and an entry of the cache can be.              *)
Content == [training : 0..MaxRuns \union {NoTraining}, folds : 0..MaxRuns, whole : BOOLEAN]
Listing == [schema : {1, 2}, sha : [Files -> Content] \union {<<>>}, whole : BOOLEAN]
Bundle  == [files : [{"native", "calibration"} -> Content], sha : [Files -> Content],
            overtaken : BOOLEAN, clean : BOOLEAN]
ASSUME BundleAssumption ==
  /\ MaxRuns \in Nat /\ MaxCrashes \in Nat
  /\ Nothing \notin Content \union Listing \union Bundle

IdleLoader == [at |-> "idle", sha |-> <<>>, todo |-> {}, read |-> <<>>,
               overtaken |-> FALSE, clean |-> FALSE]

-----------------------------------------------------------------------------
(* Times and files                                                          *)

Dated  == Files \union {"manifest"}
Stamps == Dated \union {"dump", "tmp_calibration", "tmp_manifest", "key", "cached"}

Renumbered(t) ==
  [s \in Stamps |-> Cardinality({t[u] : u \in {v \in Stamps : t[v] # 0 /\ t[v] <= t[s]}})]
Now == Max({time[s] : s \in Stamps}) + 1
SetTime(s, t)  == time' = Renumbered([time EXCEPT ![s] = t])
MoveTime(s, t) == time' = Renumbered([time EXCEPT ![s] = time[t], ![t] = 0])

(* A load that has checked f and not yet read it is overtaken by a write.   *)
Overtake(f) ==
  loader' = IF \/ loader.at = "validate" /\ f \in DOMAIN loader.sha \ loader.todo
               \/ loader.at = "read" /\ f \notin {ReadOrder[i] : i \in DOMAIN loader.read}
            THEN [loader EXCEPT !.overtaken = TRUE] ELSE loader

WriteAsset(f, content) ==
  /\ disk' = [disk EXCEPT ![f] = content]
  /\ Overtake(f)
  /\ UNCHANGED <<manifest, cached>>

WriteManifest(new) == manifest' = new /\ UNCHANGED <<disk, loadVars>>

-----------------------------------------------------------------------------
(* A training: _write_runtime_bundle                                        *)

Met(j) ==
  LET others == {k \in Jobs \ {j} : pc[k] # "idle"}
  IN  /\ alone' = [k \in Jobs |-> IF k = j THEN others = {} ELSE k \notin others /\ alone[k]]
      /\ clean' = (clean /\ others = {})

(* A training touches nothing shared before it dumps the new model into the *)
(* models directory.                                                        *)
StartTraining(j) ==
  /\ pc[j] = "idle" /\ runs < MaxRuns
  /\ runs' = runs + 1 /\ trainings' = trainings + 1
  /\ full' = [full EXCEPT ![j] = TRUE]
  /\ made' = [made EXCEPT ![j] = trainings + 1]
  /\ dumped' = trainings + 1 /\ SetTime("dump", Now)
  /\ next' = [next EXCEPT ![j] = 1]
  /\ Goto(j, "open")
  /\ Met(j)
  /\ UNCHANGED <<dirVars, crashes, booster, loadVars, strayed>>

(* An asset is truncated when it is opened and whole when it is closed.  A  *)
(* copy (copy2) then takes the modification time of what was copied.        *)
OpenAsset(j) ==
  /\ pc[j] = "open"
  /\ LET f == Order[next[j]] IN WriteAsset(f, Torn(disk[f])) /\ SetTime(f, Now)
  /\ Goto(j, "fill")
  /\ UNCHANGED <<tmp, dumped, boundVars, full, made, next, booster, alone, clean, strayed>>

FillAsset(j) ==
  /\ pc[j] = "fill"
  /\ IF Order[next[j]] = "model"
     THEN WriteAsset("model", Whole(dumped, 0)) /\ SetTime("model", time["dump"])
     ELSE WriteAsset(Order[next[j]], Whole(made[j], 0)) /\ SetTime(Order[next[j]], Now)
  /\ next' = [next EXCEPT ![j] = next[j] + 1]
  /\ Goto(j, IF next[j] < Len(Order) THEN "open" ELSE "open_first")
  /\ UNCHANGED <<tmp, dumped, boundVars, full, made, booster, alone, clean, strayed>>

Leave(j) == Goto(j, "idle") /\ full' = [full EXCEPT ![j] = FALSE]
            /\ made' = [made EXCEPT ![j] = 0] /\ next' = [next EXCEPT ![j] = 0]
            /\ booster' = [booster EXCEPT ![j] = 0]
            /\ alone' = [alone EXCEPT ![j] = FALSE]

(* The first manifest, written in place.  It has no runtime versions, so    *)
(* that no loader takes it, whatever hashes it lists.  The training always  *)
(* writes to this directory, and the re-export goes to the one --bundle-dir *)
(* names: when that is another, the job has no more to do with this one.    *)
OpenFirst(j) ==
  /\ pc[j] = "open_first"
  /\ WriteManifest([manifest EXCEPT !.whole = FALSE]) /\ SetTime("manifest", Now)
  /\ Goto(j, "fill_first")
  /\ UNCHANGED <<tmp, dumped, boundVars, full, made, next, booster, alone, clean, strayed>>

FillFirst(j) ==
  /\ pc[j] = "fill_first"
  /\ WriteManifest([schema |-> 1, sha |-> <<>>, whole |-> TRUE])
  /\ SetTime("manifest", Now)
  /\ \/ Goto(j, "extract") /\ UNCHANGED <<full, made, next, booster, alone, strayed>>
     \/ Leave(j) /\ strayed' = TRUE
  /\ UNCHANGED <<tmp, dumped, boundVars, clean>>

-----------------------------------------------------------------------------
(* The re-export: _re_export_only, on its own or at the end of a training   *)

StartReExport(j) ==
  /\ pc[j] = "idle" /\ runs < MaxRuns
  /\ runs' = runs + 1
  /\ Goto(j, "extract")
  /\ Met(j)
  /\ UNCHANGED <<dirVars, time, dumped, trainings, crashes, full, made, next, booster,
                 loadVars, strayed>>

(* Exit code 3 when model.pkl cannot be read; otherwise the native model is *)
(* opened, and truncated, for writing.                                      *)
Extract(j) ==
  /\ pc[j] = "extract"
  /\ \/ /\ disk["model"].whole
        /\ booster' = [booster EXCEPT ![j] = disk["model"].training]
        /\ WriteAsset("native", Torn(disk["native"])) /\ SetTime("native", Now)
        /\ Goto(j, "fill_native")
        /\ UNCHANGED <<full, made, next, alone>>
     \/ ~disk["model"].whole /\ Leave(j) /\ UNCHANGED <<disk, manifest, time, loadVars>>
  /\ UNCHANGED <<tmp, dumped, boundVars, clean, strayed>>

(* Mutant: a native model that is there already is kept.                    *)
KeepNative(j) == Whole(disk["native"].training, 0)
NativeOf(j) == Whole(booster[j], 0)

FillNative(j) ==
  /\ pc[j] = "fill_native"
  /\ WriteAsset("native", NativeOf(j)) /\ SetTime("native", Now)
  /\ Goto(j, "merge")
  /\ UNCHANGED <<tmp, dumped, boundVars, full, made, next, booster, alone, clean, strayed>>

(* _merge_calibration_payload: what can be read of the old calibration, and *)
(* the folds; into a temporary file, then moved.                            *)
Merged(j) ==
  Whole(IF disk["calibration"].whole THEN disk["calibration"].training ELSE NoTraining,
        booster[j])

Merge(j) ==
  /\ pc[j] = "merge"
  /\ tmp' = [tmp EXCEPT !.calibration = Merged(j)] /\ SetTime("tmp_calibration", Now)
  /\ Goto(j, "move")
  /\ UNCHANGED <<disk, manifest, dumped, boundVars, full, made, next, booster,
                 alone, loadVars, clean, strayed>>

(* Another job may have moved the temporary file away: the move raises.     *)
Move(j) ==
  /\ pc[j] = "move"
  /\ \/ /\ tmp.calibration # Nothing
        /\ WriteAsset("calibration", tmp.calibration)
        /\ MoveTime("calibration", "tmp_calibration")
        /\ tmp' = [tmp EXCEPT !.calibration = Nothing]
        /\ Goto(j, "hash")
        /\ UNCHANGED <<full, made, next, booster, alone>>
     \/ tmp.calibration = Nothing /\ Leave(j) /\ UNCHANGED <<dirVars, time, loadVars>>
  /\ UNCHANGED <<dumped, boundVars, clean, strayed>>

(* _write_manifest: the hashes of whatever is on the disk.                  *)
(* Mutant: the calibration is hashed as the training left it.               *)
HashesBeforeMerge == [disk EXCEPT !["calibration"].folds = 0]
Hashes == disk

Hash(j) ==
  /\ pc[j] = "hash"
  /\ tmp' = [tmp EXCEPT !.manifest = [schema |-> 2, sha |-> Hashes, whole |-> TRUE]]
  /\ SetTime("tmp_manifest", Now)
  /\ Goto(j, "publish")
  /\ UNCHANGED <<disk, manifest, dumped, boundVars, full, made, next, booster,
                 alone, loadVars, clean, strayed>>

Publish(j) ==
  /\ pc[j] = "publish"
  /\ \/ /\ tmp.manifest # Nothing
        /\ WriteManifest(tmp.manifest) /\ MoveTime("manifest", "tmp_manifest")
        /\ tmp' = [tmp EXCEPT !.manifest = Nothing]
        /\ clean' = (clean \/ (full[j] /\ alone[j])) /\ strayed' = FALSE
     \/ tmp.manifest = Nothing /\ UNCHANGED <<dirVars, time, loadVars, clean, strayed>>
  /\ Leave(j)
  /\ UNCHANGED <<dumped, boundVars>>

Crash(j) ==
  /\ pc[j] # "idle" /\ crashes < MaxCrashes
  /\ crashes' = crashes + 1
  /\ clean' = FALSE
  /\ Leave(j)
  /\ UNCHANGED <<dirVars, time, dumped, runs, trainings, loadVars, strayed>>

-----------------------------------------------------------------------------
(* The loader: load_runtime_bundle                                          *)

(* Mutant: what is cached is taken whatever its time.                       *)
AnyKey == IF cached # Nothing THEN time["cached"] ELSE Max({time[f] : f \in Dated})
(* _bundle_mtime: the newest modification time.                             *)
Key == Max({time[f] : f \in Dated})

GiveUp == loader' = IdleLoader /\ SetTime("key", 0) /\ UNCHANGED cached
GoOn   == UNCHANGED <<time, cached>>

(* A manifest that cannot be read, and a key that is cached, leave all as   *)
(* it is; otherwise the load begins under the key of this moment.           *)
Look ==
  /\ loader.at = "idle" /\ manifest.whole /\ Key # time["cached"]
  /\ loader' = [IdleLoader EXCEPT !.at = "open"]
  /\ SetTime("key", Key)
  /\ UNCHANGED <<dirVars, dumped, boundVars, jobVars, cached, clean, strayed>>

(* _load_runtime_bundle_cached reads the manifest again; one without        *)
(* runtime versions is refused, before or after the hashes are compared.    *)
OpenBundle ==
  /\ loader.at = "open"
  /\ \/ (~manifest.whole \/ manifest.schema = 1) /\ GiveUp
     \/ /\ manifest.whole /\ manifest.schema = 2
        /\ loader' = [loader EXCEPT !.at = "validate", !.sha = manifest.sha,
                                    !.todo = DOMAIN manifest.sha, !.clean = clean]
        /\ GoOn
  /\ UNCHANGED <<dirVars, dumped, boundVars, jobVars, clean, strayed>>

Matches(f) == disk[f] = loader.sha[f]

(* _validate_manifest, file by file.                                        *)
Validate(f) ==
  /\ loader.at = "validate" /\ f \in loader.todo
  /\ \/ ~Matches(f) /\ GiveUp
     \/ Matches(f) /\ loader.todo # {f}
        /\ loader' = [loader EXCEPT !.todo = @ \ {f}] /\ GoOn
     \/ Matches(f) /\ loader.todo = {f}
        /\ loader' = [loader EXCEPT !.at = "read", !.todo = {}] /\ GoOn
  /\ UNCHANGED <<dirVars, dumped, boundVars, jobVars, clean, strayed>>

(* The files are read one by one; a truncated one raises.                   *)
ReadFile ==
  LET f    == ReadOrder[Len(loader.read) + 1]
      read == Append(loader.read, disk[f])
  IN  /\ loader.at = "read"
      /\ \/ ~disk[f].whole /\ GiveUp
         \/ /\ disk[f].whole /\ Len(read) < Len(ReadOrder)
            /\ loader' = [loader EXCEPT !.read = read] /\ GoOn
         \/ /\ disk[f].whole /\ Len(read) = Len(ReadOrder)
            /\ cached' = [files |-> [i \in {"native", "calibration"} |->
                            read[CHOOSE n \in DOMAIN ReadOrder : ReadOrder[n] = i]],
                          sha |-> loader.sha, overtaken |-> loader.overtaken,
                          clean |-> loader.clean]
            /\ MoveTime("cached", "key")
            /\ loader' = IdleLoader
      /\ UNCHANGED <<dirVars, dumped, boundVars, jobVars, clean, strayed>>

-----------------------------------------------------------------------------
Init ==
  /\ disk = [f \in Files |-> Whole(0, 0)]
  /\ manifest = [schema |-> 2, sha |-> disk, whole |-> TRUE]
  /\ time = [s \in Stamps |-> IF s \in Dated THEN 1 ELSE 0]
  /\ dumped = 0
  /\ tmp = [calibration |-> Nothing, manifest |-> Nothing]
  /\ runs = 0 /\ trainings = 0 /\ crashes = 0
  /\ pc = [j \in Jobs |-> "idle"] /\ full = [j \in Jobs |-> FALSE]
  /\ made = [j \in Jobs |-> 0] /\ next = [j \in Jobs |-> 0]
  /\ booster = [j \in Jobs |-> 0]
  /\ loader = IdleLoader /\ cached = Nothing
  /\ alone = [j \in Jobs |-> FALSE] /\ clean = TRUE /\ strayed = FALSE

JobStep(j) ==
  \/ StartTraining(j) \/ StartReExport(j) \/ OpenAsset(j) \/ FillAsset(j) \/ OpenFirst(j) \/ FillFirst(j)
  \/ Extract(j) \/ FillNative(j) \/ Merge(j) \/ Move(j) \/ Hash(j)
  \/ Publish(j) \/ Crash(j)

Next ==
  \/ \E j \in Jobs : JobStep(j)
  \/ Look \/ OpenBundle \/ (\E f \in Files : Validate(f)) \/ ReadFile

Spec == Init /\ [][Next]_vars

-----------------------------------------------------------------------------
(* Properties                                                               *)

(* Types; a job that is not at work holds nothing.                          *)
TypeOK ==
  /\ disk \in [Files -> Content] /\ manifest.schema \in {1, 2}
  /\ \A f \in DOMAIN manifest.sha : manifest.sha[f] \in Content
  /\ time \in [Stamps -> 0..Cardinality(Stamps)] /\ \A f \in Dated : time[f] > 0
  /\ \A j \in Jobs : pc[j] = "idle" => booster[j] = 0 /\ ~alone[j]
  /\ (cached = Nothing) = (time["cached"] = 0)

(* A bundle that was loaded and cached consists of files of one training,   *)
(* with the folds of the model it predicts with, through retrainings,       *)
(* re-exports and deaths in the middle of the load: unless a file was       *)
(* rewritten between its check and its reading (_load_runtime_bundle_cached *)
(* checks all files, then opens them again), or the manifest was made while *)
(* a training was half written, by another job or before it died.           *)
ServedIsOneTraining ==
  (cached # Nothing /\ cached.clean /\ ~cached.overtaken) => OneTraining(cached.files)

(* A bundle served from the cache is the one the manifest on the disk       *)
(* describes, although the key is only the newest modification time, taken  *)
(* before the manifest and the files are read, and although a copy brings   *)
(* an older time with it (_bundle_mtime, shutil.copy2).                     *)
CacheIsCurrent ==
  (clean /\ manifest.whole /\ Key = time["cached"]) => cached.sha = manifest.sha

(* When no job is at work, and none has died or met another since a full    *)
(* retraining, the service can load what is there: a whole manifest of the  *)
(* second schema with the hashes of what is on the disk.  Unless the last   *)
(* training was run for another directory: it leaves here a manifest no     *)
(* loader takes (_full_retrain, _validate_runtime_versions), beside a model *)
(* and a calibration of one training, so that a re-export makes it loadable.*)
IdleMeansLoadable ==
  (clean /\ \A j \in Jobs : pc[j] = "idle") =>
    IF strayed
    THEN /\ manifest.whole /\ manifest.schema = 1
         /\ disk["model"].whole /\ disk["calibration"].whole
         /\ disk["calibration"].training = disk["model"].training
    ELSE manifest.whole /\ manifest.schema = 2 /\ manifest.sha = disk /\ OneTraining(disk)
=============================================================================
