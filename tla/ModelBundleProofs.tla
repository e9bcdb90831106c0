--------------------------- MODULE ModelBundleProofs --------------------------
(***************************************************************************)
(* The directory of the model bundle, for any number of jobs, trainings    *)
(* and deaths.                                                             *)
(*                                                                         *)
(* Mine(j) says of a job that it runs alone, and began with a training or  *)
(* on a clean directory; Works, what such a job has achieved at each of    *)
(* its places; Published and Held, what follows for the manifest and for a *)
(* load that no write has overtaken.  Timed and Current say the same of    *)
(* modification times, of which only the order matters: numbering them     *)
(* anew keeps it (RenumberedKeepsOrder), so that a time that is set or     *)
(* moved can be compared as it was before.                                 *)
(***************************************************************************)
EXTENDS ModelBundle, FiniteSetTheorems, SequenceTheorems, WellFoundedInduction, TLAPS

-----------------------------------------------------------------------------
(* Times: only their order matters                                          *)

Times == [Stamps -> Nat]

SameOrder(t, r) ==
  /\ \A u, v \in Stamps : t[u] < t[v] <=> r[u] < r[v]
  /\ \A u \in Stamps : t[u] = 0 <=> r[u] = 0

LEMMA StampsAreFew == IsFiniteSet(Stamps)
<1>1. /\ IsFiniteSet({"model"}) /\ IsFiniteSet({"model", "calibration"})
      /\ IsFiniteSet({"model", "calibration", "native"})
  <2>1. IsFiniteSet({"model"})
    BY FS_Singleton
  <2>2. IsFiniteSet({"model"} \union {"calibration"})
    BY <2>1, FS_AddElement
  <2>3. {"model"} \union {"calibration"} = {"model", "calibration"}
    OBVIOUS
  <2>4. IsFiniteSet({"model", "calibration"} \union {"native"})
    BY <2>2, <2>3, FS_AddElement
  <2>5. {"model", "calibration"} \union {"native"} = {"model", "calibration", "native"}
    OBVIOUS
  <2>6. QED
    BY <2>1, <2>2, <2>3, <2>4, <2>5
<1>2. IsFiniteSet(Dated)
  BY <1>1, FS_AddElement DEF Dated, Files
<1>3. IsFiniteSet(Dated \union {"dump"})
  BY <1>2, FS_AddElement
<1>4. IsFiniteSet(Dated \union {"dump"} \union {"tmp_calibration"})
  BY <1>3, FS_AddElement
<1>5. IsFiniteSet(Dated \union {"dump"} \union {"tmp_calibration"} \union {"tmp_manifest"})
  BY <1>4, FS_AddElement
<1>6. IsFiniteSet(Dated \union {"dump"} \union {"tmp_calibration"} \union {"tmp_manifest"}
                  \union {"key"})
  BY <1>5, FS_AddElement
<1>7. IsFiniteSet(Dated \union {"dump"} \union {"tmp_calibration"} \union {"tmp_manifest"}
                  \union {"key"} \union {"cached"})
  BY <1>6, FS_AddElement
<1>8. Stamps = Dated \union {"dump"} \union {"tmp_calibration"} \union {"tmp_manifest"}
               \union {"key"} \union {"cached"}
  BY DEF Stamps
<1>9. QED
  BY <1>7, <1>8

LEMMA ValuesAreFew ==
  ASSUME NEW t \in Times, NEW S \in SUBSET Stamps
  PROVE  /\ IsFiniteSet({t[s] : s \in S}) /\ {t[s] : s \in S} \subseteq Nat
         /\ Cardinality({t[s] : s \in S}) \in Nat
         /\ Cardinality({t[s] : s \in S}) <= Cardinality(Stamps)
<1> DEFINE V == {t[s] : s \in S}
           f == [s \in S |-> t[s]]
<1>1. IsFiniteSet(S) /\ Cardinality(S) <= Cardinality(Stamps)
  BY StampsAreFew, FS_Subset
<1>2. f \in Surjection(S, V)
  BY DEF Surjection
<1>3. IsFiniteSet(V) /\ Cardinality(V) <= Cardinality(S)
  BY <1>1, <1>2, FS_Surjection
<1>4. Cardinality(V) \in Nat /\ Cardinality(S) \in Nat /\ Cardinality(Stamps) \in Nat
  BY <1>1, <1>3, StampsAreFew, FS_CardinalityType
<1>5. V \subseteq Nat
  BY DEF Times
<1>6. QED
  BY <1>1, <1>3, <1>4, <1>5

LEMMA GreatestExists ==
  ASSUME NEW S \in SUBSET Nat, IsFiniteSet(S), S # {}
  PROVE  Max(S) \in S /\ \A q \in S : Max(S) >= q
<1> DEFINE Above(d) == {q \in S : q > d}
           T == {Above(d) : d \in S}
<1>1. T \subseteq FiniteSubsetsOf(S)
  BY FS_Subset DEF FiniteSubsetsOf
<1>2. T # {}
  <2>1. PICK d \in S : TRUE
    OBVIOUS
  <2>2. Above(d) \in T
    BY <2>1
  <2>3. QED
    BY <2>2
<1> HIDE DEF T
<1>3. PICK x \in T : \A y \in T : <<y, x>> \notin StrictSubsetOrdering(S)
  BY <1>1, <1>2, FS_StrictSubsetOrderingWellFounded, WFMin
<1> USE DEF T
<1>4. PICK d \in S : x = Above(d)
  OBVIOUS
<1> HIDE DEF T
<1>5. ASSUME NEW q \in S, q > d
      PROVE  FALSE
  <2>1. Above(q) \subseteq Above(d)
    <3>1. ASSUME NEW r \in S, r > q PROVE r > d
      <4>1. q \in Nat /\ d \in Nat /\ r \in Nat
        OBVIOUS
      <4>2. QED
        BY <1>5, <3>1, <4>1
    <3>2. QED
      BY <3>1
  <2>2. q \in Above(d) /\ q \notin Above(q)
    BY <1>5
  <2>3. Above(q) \in SUBSET S /\ Above(d) \in SUBSET S
    OBVIOUS
  <2>4. <<Above(q), Above(d)>> \in StrictSubsetOrdering(S)
    BY <2>1, <2>2, <2>3 DEF StrictSubsetOrdering
  <2>5. Above(q) \in T
    BY DEF T
  <2>6. QED
    BY <1>3, <1>4, <2>4, <2>5
<1>6. \A q \in S : d >= q
  BY <1>5
<1>7. QED
  BY <1>6 DEF Max

(* Numbering the times anew keeps their order.                              *)
LEMMA RenumberedKeepsOrder ==
  ASSUME NEW t \in Times
  PROVE  /\ Renumbered(t) \in Times /\ SameOrder(t, Renumbered(t))
         /\ \A s \in Stamps : Renumbered(t)[s] <= Cardinality(Stamps)
<1> DEFINE Counted(s) == {v \in Stamps : t[v] # 0 /\ t[v] <= t[s]}
           Below(s)   == {t[u] : u \in Counted(s)}
<1>1. ASSUME NEW s \in Stamps
      PROVE  /\ Renumbered(t)[s] = Cardinality(Below(s)) /\ IsFiniteSet(Below(s))
             /\ Cardinality(Below(s)) \in Nat /\ Cardinality(Below(s)) <= Cardinality(Stamps)
  <2>1. Counted(s) \in SUBSET Stamps
    OBVIOUS
  <2>2. Renumbered(t)[s] = Cardinality(Below(s))
    BY DEF Renumbered
  <2>3. QED
    BY <2>1, <2>2, ValuesAreFew
<1>2. ASSUME NEW u \in Stamps, NEW v \in Stamps, t[u] <= t[v]
      PROVE  /\ Cardinality(Below(u)) <= Cardinality(Below(v))
             /\ Cardinality(Below(u)) = Cardinality(Below(v)) => Below(u) = Below(v)
  <2>1. Below(u) \subseteq Below(v)
    BY <1>2 DEF Times
  <2>2. QED
    BY <1>1, <2>1, FS_Subset
<1>3. ASSUME NEW u \in Stamps, NEW v \in Stamps, t[u] < t[v]
      PROVE  Cardinality(Below(u)) < Cardinality(Below(v))
  <2>1. t[v] \in Below(v) /\ t[v] \notin Below(u)
    BY <1>3 DEF Times
  <2>2. t[u] <= t[v]
    BY <1>3 DEF Times
  <2>3. Cardinality(Below(u)) # Cardinality(Below(v)) /\ Cardinality(Below(u)) <= Cardinality(Below(v))
    BY <1>2, <2>1, <2>2
  <2>4. PICK a \in Nat, b \in Nat : a = Cardinality(Below(u)) /\ b = Cardinality(Below(v))
    BY <1>1
  <2>5. QED
    BY <2>3, <2>4
<1>4. ASSUME NEW u \in Stamps
      PROVE  t[u] = 0 <=> Cardinality(Below(u)) = 0
  <2>1. t[u] = 0 <=> Below(u) = {}
    BY DEF Times
  <2>2. QED
    BY <1>1, <2>1, FS_EmptySet
<1>5. Renumbered(t) \in Times
  <2>1. Renumbered(t) = [s \in Stamps |-> Renumbered(t)[s]]
    BY DEF Renumbered
  <2>2. \A s \in Stamps : Renumbered(t)[s] \in Nat
    BY <1>1
  <2>3. QED
    BY <2>1, <2>2 DEF Times
<1>6. ASSUME NEW u \in Stamps, NEW v \in Stamps
      PROVE  t[u] < t[v] <=> Renumbered(t)[u] < Renumbered(t)[v]
  <2>1. CASE t[u] < t[v]
    BY <1>1, <1>3, <2>1
  <2>2. CASE t[v] <= t[u]
    <3>1. Cardinality(Below(v)) <= Cardinality(Below(u))
      BY <1>2, <2>2
    <3>2. t[u] \in Nat /\ t[v] \in Nat
      BY DEF Times
    <3>3. QED
      BY <1>1, <2>2, <3>1, <3>2
  <2>3. QED
    BY <2>1, <2>2 DEF Times
<1>7. QED
  BY <1>1, <1>4, <1>5, <1>6 DEF SameOrder

(* Key and Now.                                                             *)
LEMMA KeyIsGreatest ==
  ASSUME time \in Times
  PROVE  /\ Key \in Nat /\ \E f \in Dated : time[f] = Key
         /\ \A f \in Dated : time[f] <= Key
<1> DEFINE S == {time[f] : f \in Dated}
<1>1. Dated \in SUBSET Stamps /\ "model" \in Dated
  BY DEF Stamps, Dated, Files
<1>2. IsFiniteSet(S) /\ S \in SUBSET Nat
  BY <1>1, ValuesAreFew
<1>3. time["model"] \in S
  BY <1>1
<1>4. Max(S) \in S /\ \A q \in S : Max(S) >= q
  BY <1>2, <1>3, GreatestExists
<1>5. Key = Max(S)
  BY DEF Key
<1> HIDE DEF S
<1>6. Key \in S /\ Key \in Nat /\ \A q \in S : q <= Key /\ q \in Nat
  BY <1>2, <1>4, <1>5
<1>7. QED
  BY <1>6 DEF S

LEMMA NowIsLater ==
  ASSUME time \in Times
  PROVE  Now \in Nat /\ \A s \in Stamps : time[s] < Now
<1> DEFINE S == {time[s] : s \in Stamps}
<1>1. IsFiniteSet(S) /\ S \in SUBSET Nat
  BY ValuesAreFew
<1>2. time["model"] \in S
  BY DEF Stamps, Dated, Files
<1>3. Max(S) \in S /\ \A q \in S : Max(S) >= q
  BY <1>1, <1>2, GreatestExists
<1>4. Now = Max(S) + 1
  BY DEF Now
<1> HIDE DEF S
<1>5. Now \in Nat /\ \A q \in S : q < Now
  <2>1. PICK m \in Nat : m = Max(S)
    BY <1>1, <1>3
  <2>2. \A q \in S : q \in Nat /\ q <= m
    BY <1>1, <1>3, <2>1
  <2>3. Now = m + 1
    BY <1>4, <2>1
  <2>4. QED
    BY <2>2, <2>3
<1>6. QED
  BY <1>5 DEF S

(* The newest of the dated files is as new as s.                            *)
Newest(t, s) == (\E f \in Dated : t[f] = t[s]) /\ \A f \in Dated : t[f] <= t[s]

LEMMA KeyIsNewest ==
  ASSUME time \in Times, NEW s \in Stamps
  PROVE  Key = time[s] <=> Newest(time, s)
<1>1. \A f \in Dated : time[f] \in Nat
  BY DEF Times, Stamps
<1>2. QED
  BY <1>1, KeyIsGreatest DEF Newest, Times

LEMMA NewestKept ==
  ASSUME NEW t \in Times, NEW r \in Times, SameOrder(t, r), NEW s \in Stamps
  PROVE  Newest(t, s) <=> Newest(r, s)
<1>1. \A f \in Dated : t[f] \in Nat /\ r[f] \in Nat /\ f \in Stamps
  BY DEF Times, Stamps
<1>2. t[s] \in Nat /\ r[s] \in Nat
  BY DEF Times
<1>3. \A f \in Dated : (t[f] = t[s] <=> r[f] = r[s]) /\ (t[f] <= t[s] <=> r[f] <= r[s])
  BY <1>1, <1>2 DEF SameOrder
<1>4. QED
  BY <1>3 DEF Newest

(* How the times change: what is renumbered, and that the order stays.      *)
Low == \A s \in Stamps : time[s] <= Cardinality(Stamps)

Becomes(t) == t \in Times /\ time' \in Times /\ Low' /\ SameOrder(t, time')

LEMMA TimeIsSet ==
  ASSUME time \in Times, NEW s \in Stamps, NEW x \in Nat, SetTime(s, x)
  PROVE  Becomes([time EXCEPT ![s] = x])
<1>1. [time EXCEPT ![s] = x] \in Times
  BY DEF Times
<1>2. QED
  BY <1>1, RenumberedKeepsOrder DEF SetTime, Becomes, Low

LEMMA TimeIsMoved ==
  ASSUME time \in Times, NEW s \in Stamps, NEW u \in Stamps, MoveTime(s, u)
  PROVE  Becomes([time EXCEPT ![s] = time[u], ![u] = 0])
<1>1. [time EXCEPT ![s] = time[u], ![u] = 0] \in Times
  BY DEF Times
<1>2. QED
  BY <1>1, RenumberedKeepsOrder DEF MoveTime, Becomes, Low

-----------------------------------------------------------------------------
(* Types                                                                    *)

Places  == {"idle", "open", "fill", "open_first", "fill_first", "extract", "fill_native",
            "merge", "move", "hash", "publish"}
Trained == 0..MaxRuns

(* What a re-export publishes, and a load under way.                        *)
Fresh == [schema : {2}, sha : [Files -> Content], whole : {TRUE}]
Loads == [at : {"idle", "open", "validate", "read"}, sha : [Files -> Content] \union {<<>>},
          todo : SUBSET Files, read : {<<>>} \union {<<c>> : c \in Content},
          overtaken : BOOLEAN, clean : BOOLEAN]

DirTypes ==
  /\ disk \in [Files -> Content] /\ disk["model"].training \in Trained
  /\ manifest \in Listing /\ (manifest.schema = 2 => manifest.sha \in [Files -> Content])
  /\ tmp \in [calibration : Content \union {Nothing}, manifest : Fresh \union {Nothing}]

JobTypes ==
  /\ pc \in [Jobs -> Places] /\ full \in [Jobs -> BOOLEAN] /\ alone \in [Jobs -> BOOLEAN]
  /\ made \in [Jobs -> Trained] /\ next \in [Jobs -> 0..3] /\ booster \in [Jobs -> Trained]
  /\ \A j \in Jobs : pc[j] \in {"open", "fill"} => next[j] \in {1, 2}
  /\ runs \in 0..MaxRuns /\ trainings \in 0..runs /\ crashes \in 0..MaxCrashes
  /\ dumped \in Trained /\ clean \in BOOLEAN

LoadTypes ==
  /\ loader \in Loads /\ cached \in Bundle \union {Nothing}
  /\ loader.at \in {"validate", "read"} => loader.sha \in [Files -> Content]
  /\ loader.at # "read" => loader.read = <<>>

TimeTypes ==
  /\ time \in Times /\ Low /\ \A f \in Dated : time[f] > 0
  /\ \A j \in Jobs : pc[j] \in {"open", "fill"} => time["dump"] > 0
  /\ tmp.calibration # Nothing => time["tmp_calibration"] > 0
  /\ tmp.manifest # Nothing => time["tmp_manifest"] > 0
  /\ loader.at # "idle" => time["key"] > 0
  /\ cached = Nothing <=> time["cached"] = 0

Types == DirTypes /\ JobTypes /\ LoadTypes /\ TimeTypes

LEMMA JobTypesStep ==
  ASSUME Types, [Next]_vars
  PROVE  JobTypes'
<1> USE BundleAssumption DEF JobTypes, Places, Trained, Goto, Types
<1>a. ASSUME NEW j \in Jobs, Leave(j)
      PROVE  /\ pc' \in [Jobs -> Places] /\ full' \in [Jobs -> BOOLEAN]
             /\ alone' \in [Jobs -> BOOLEAN] /\ made' \in [Jobs -> Trained]
             /\ next' \in [Jobs -> 0..3] /\ booster' \in [Jobs -> Trained]
             /\ \A k \in Jobs : pc'[k] \in {"open", "fill"} => next'[k] \in {1, 2}
  <2>1. pc' \in [Jobs -> Places] /\ full' \in [Jobs -> BOOLEAN] /\ alone' \in [Jobs -> BOOLEAN]
    BY <1>a DEF Leave
  <2>2. /\ made' \in [Jobs -> Trained] /\ next' \in [Jobs -> 0..3]
        /\ booster' \in [Jobs -> Trained]
    BY <1>a DEF Leave
  <2>3. \A k \in Jobs : pc'[k] \in {"open", "fill"} => next'[k] \in {1, 2}
    BY <1>a DEF Leave
  <2>4. QED
    BY <2>1, <2>2, <2>3
<1>b. ASSUME NEW j \in Jobs, Met(j)
      PROVE  alone' \in [Jobs -> BOOLEAN] /\ clean' \in BOOLEAN
  <2>1. \A k \in Jobs : ({i \in Jobs \ {j} : pc[i] # "idle"} = {}) \in BOOLEAN
    OBVIOUS
  <2>2. QED
    BY <1>b, <2>1 DEF Met
<1>1. ASSUME NEW j \in Jobs, StartTraining(j) PROVE JobTypes'
  <2>1. runs + 1 \in 0..MaxRuns /\ trainings + 1 \in 0..(runs + 1) /\ trainings + 1 \in 0..MaxRuns
    BY <1>1 DEF StartTraining
  <2>2. alone' \in [Jobs -> BOOLEAN] /\ clean' \in BOOLEAN
    BY <1>1, <1>b DEF StartTraining
  <2>3. /\ pc' \in [Jobs -> Places] /\ full' \in [Jobs -> BOOLEAN]
        /\ next' \in [Jobs -> 0..3] /\ booster' = booster /\ crashes' = crashes
        /\ \A k \in Jobs : pc'[k] \in {"open", "fill"} => next'[k] \in {1, 2}
    BY <1>1 DEF StartTraining
  <2>4. made' \in [Jobs -> Trained] /\ dumped' \in Trained /\ runs' = runs + 1
        /\ trainings' = trainings + 1
    BY <1>1, <2>1 DEF StartTraining
  <2>5. QED
    BY <2>1, <2>2, <2>3, <2>4
<1>2. ASSUME NEW j \in Jobs, StartReExport(j) PROVE JobTypes'
  <2>1. runs + 1 \in 0..MaxRuns /\ trainings \in 0..(runs + 1)
    BY <1>2 DEF StartReExport
  <2>2. QED
    BY <1>2, <1>b, <2>1 DEF StartReExport
<1>3. ASSUME NEW j \in Jobs, OpenAsset(j) PROVE JobTypes'
  BY <1>3 DEF OpenAsset, boundVars
<1>4. ASSUME NEW j \in Jobs, FillAsset(j) PROVE JobTypes'
  <2>1. next[j] \in {1, 2} /\ Len(Order) = 2
    BY <1>4 DEF FillAsset, Order
  <2>2. CASE next[j] = 1
    BY <1>4, <2>1, <2>2 DEF FillAsset, boundVars
  <2>3. CASE next[j] = 2
    BY <1>4, <2>1, <2>3 DEF FillAsset, boundVars
  <2>4. QED
    BY <2>1, <2>2, <2>3
<1>5. ASSUME NEW j \in Jobs, OpenFirst(j) \/ FillNative(j) \/ Merge(j) \/ Hash(j)
      PROVE JobTypes'
  BY <1>5, ZenonT(40) DEF OpenFirst, FillNative, Merge, Hash, boundVars
<1>12. ASSUME NEW j \in Jobs, FillFirst(j) PROVE JobTypes'
  <2>1. CASE Leave(j)
    BY <1>a, <1>12, <2>1 DEF FillFirst, boundVars
  <2>2. CASE ~Leave(j)
    BY <1>12, <2>2 DEF FillFirst, boundVars
  <2>3. QED
    BY <2>1, <2>2
<1>6. ASSUME NEW j \in Jobs, Extract(j) PROVE JobTypes'
  <2>1. CASE Leave(j)
    BY <1>a, <1>6, <2>1 DEF Extract, boundVars
  <2>2. CASE ~Leave(j)
    BY <1>6, <2>2 DEF Extract, boundVars, DirTypes
  <2>3. QED
    BY <2>1, <2>2
<1>7. ASSUME NEW j \in Jobs, Move(j) PROVE JobTypes'
  <2>1. CASE Leave(j)
    BY <1>a, <1>7, <2>1 DEF Move, boundVars
  <2>2. CASE ~Leave(j)
    BY <1>7, <2>2 DEF Move, boundVars
  <2>3. QED
    BY <2>1, <2>2
<1>11. ASSUME NEW j \in Jobs, Publish(j) PROVE JobTypes'
  <2>1. clean' \in BOOLEAN /\ Leave(j) /\ UNCHANGED <<dumped, boundVars>>
    BY <1>11 DEF Publish
  <2>2. QED
    BY <1>a, <2>1 DEF boundVars
<1>8. ASSUME NEW j \in Jobs, Crash(j) PROVE JobTypes'
  <2>1. crashes' \in 0..MaxCrashes /\ clean' = FALSE /\ Leave(j)
        /\ UNCHANGED <<dumped, runs, trainings>>
    BY <1>8 DEF Crash
  <2>2. QED
    BY <1>a, <2>1
<1>9. CASE Look \/ OpenBundle \/ (\E f \in Files : Validate(f)) \/ ReadFile \/ UNCHANGED vars
  BY <1>9 DEF Look, OpenBundle, Validate, ReadFile, vars, jobVars, boundVars
<1>10. QED
  BY <1>1, <1>2, <1>3, <1>4, <1>5, <1>6, <1>7, <1>8, <1>9, <1>11, <1>12 DEF Next, JobStep

LEMMA DirTypesStep ==
  ASSUME Types, [Next]_vars
  PROVE  DirTypes'
<1> USE BundleAssumption DEF DirTypes, Types
<1>0. ASSUME NEW f \in Files, NEW c \in Content, disk' = [disk EXCEPT ![f] = c],
             c.training \in Trained \/ f # "model"
      PROVE  disk' \in [Files -> Content] /\ disk'["model"].training \in Trained
  BY <1>0 DEF Files
<1>a. ASSUME NEW f \in Files PROVE Torn(disk[f]) \in Content /\ Torn(disk[f]).training = disk[f].training
  BY ZenonT(40) DEF Torn, Content
<1>b. ASSUME NEW t \in Trained \union {NoTraining}, NEW n \in Trained
      PROVE  Whole(t, n) \in Content /\ Whole(t, n).training = t
  BY DEF Whole, Content, Trained
<1>c. 0 \in Trained
  BY DEF Trained
<1>1. ASSUME NEW j \in Jobs, OpenAsset(j) PROVE DirTypes'
  <2>1. PICK f \in Files : disk' = [disk EXCEPT ![f] = Torn(disk[f])]
    <3>1. next[j] \in {1, 2}
      BY <1>1 DEF OpenAsset, JobTypes
    <3>2. Order[next[j]] \in Files
      BY <3>1 DEF Order, Files
    <3>3. QED
      BY <1>1, <3>2 DEF OpenAsset, WriteAsset
  <2>2. UNCHANGED <<manifest, tmp>>
    BY <1>1 DEF OpenAsset, WriteAsset
  <2>3. f = "model" => disk[f].training \in Trained
    OBVIOUS
  <2>4. QED
    BY <1>0, <1>a, <2>1, <2>2, <2>3
<1>2. ASSUME NEW j \in Jobs, FillAsset(j) PROVE DirTypes'
  <2>1. PICK f \in Files, t \in Trained : disk' = [disk EXCEPT ![f] = Whole(t, 0)]
    BY <1>2 DEF FillAsset, WriteAsset, JobTypes, Order, Files
  <2>2. UNCHANGED <<manifest, tmp>>
    BY <1>2 DEF FillAsset, WriteAsset
  <2>3. QED
    BY <1>0, <1>b, <1>c, <2>1, <2>2
<1>3. ASSUME NEW j \in Jobs, OpenFirst(j) \/ FillFirst(j) PROVE DirTypes'
  <2>1. UNCHANGED <<disk, tmp>>
    BY <1>3 DEF OpenFirst, FillFirst, WriteManifest
  <2>2. \/ manifest' = [manifest EXCEPT !.whole = FALSE]
        \/ manifest' = [schema |-> 1, sha |-> <<>>, whole |-> TRUE]
    BY <1>3 DEF OpenFirst, FillFirst, WriteManifest
  <2>3. manifest' \in Listing /\ (manifest'.schema = 2 => manifest'.sha \in [Files -> Content])
    <3>1. manifest \in Listing
      OBVIOUS
    <3>2. CASE manifest' = [manifest EXCEPT !.whole = FALSE]
      <4>1. manifest' \in Listing
        BY <3>1, <3>2 DEF Listing
      <4>2. manifest'.schema = manifest.schema /\ manifest'.sha = manifest.sha
        BY <3>1, <3>2 DEF Listing
      <4>3. QED
        BY <4>1, <4>2
    <3>3. CASE manifest' = [schema |-> 1, sha |-> <<>>, whole |-> TRUE]
      BY <3>3 DEF Listing
    <3>4. QED
      BY <2>2, <3>2, <3>3
  <2>4. QED
    BY <2>1, <2>3
<1>4. ASSUME NEW j \in Jobs, Extract(j) PROVE DirTypes'
  <2>1. \/ disk' = [disk EXCEPT !["native"] = Torn(disk["native"])]
        \/ disk' = disk
    BY <1>4 DEF Extract, WriteAsset
  <2>2. UNCHANGED <<manifest, tmp>>
    BY <1>4 DEF Extract, WriteAsset
  <2>3. "native" \in Files
    BY DEF Files
  <2>4. QED
    BY <1>0, <1>a, <2>1, <2>2, <2>3
<1>5. ASSUME NEW j \in Jobs, FillNative(j) PROVE DirTypes'
  <2>1. disk' = [disk EXCEPT !["native"] = Whole(booster[j], 0)] /\ UNCHANGED <<manifest, tmp>>
    BY <1>5 DEF FillNative, WriteAsset, NativeOf
  <2>2. Whole(booster[j], 0) \in Content /\ "native" \in Files
    BY <1>b, <1>c DEF JobTypes, Files
  <2>3. QED
    BY <1>0, <2>1, <2>2
<1>6. ASSUME NEW j \in Jobs, Merge(j) PROVE DirTypes'
  <2>1. Merged(j) \in Content
    <3>1. disk["calibration"].training \in Trained \union {NoTraining}
      BY DEF Files, Content, Trained
    <3>2. booster[j] \in Trained
      BY DEF JobTypes
    <3>3. QED
      BY <1>b, <3>1, <3>2 DEF Merged
  <2>2. tmp' = [tmp EXCEPT !.calibration = Merged(j)] /\ UNCHANGED <<disk, manifest>>
    BY <1>6 DEF Merge
  <2>3. QED
    BY <2>1, <2>2
<1>7. ASSUME NEW j \in Jobs, Move(j) PROVE DirTypes'
  <2>1. CASE UNCHANGED <<disk, manifest, tmp>>
    BY <2>1
  <2>2. CASE /\ tmp.calibration # Nothing
             /\ disk' = [disk EXCEPT !["calibration"] = tmp.calibration] /\ manifest' = manifest
             /\ tmp' = [tmp EXCEPT !.calibration = Nothing]
    BY <1>0, <2>2 DEF Files
  <2>3. QED
    BY <1>7, <2>1, <2>2 DEF Move, WriteAsset, dirVars
<1>8. ASSUME NEW j \in Jobs, Hash(j) PROVE DirTypes'
  <2>1. [schema |-> 2, sha |-> disk, whole |-> TRUE] \in Fresh
    BY DEF Fresh
  <2>2. QED
    BY <1>8, <2>1 DEF Hash, Hashes
<1>9. ASSUME NEW j \in Jobs, Publish(j) PROVE DirTypes'
  <2>1. tmp.manifest # Nothing => tmp.manifest \in Fresh
    OBVIOUS
  <2>2. Fresh \subseteq Listing /\ \A m \in Fresh : m.sha \in [Files -> Content]
    BY DEF Fresh, Listing
  <2>3. QED
    BY <1>9, <2>1, <2>2 DEF Publish, WriteManifest, dirVars
<1>10. ASSUME NEW j \in Jobs, StartTraining(j) \/ StartReExport(j) \/ Crash(j) PROVE DirTypes'
  BY <1>10 DEF StartTraining, StartReExport, Crash, dirVars
<1>11. CASE Look \/ OpenBundle \/ (\E f \in Files : Validate(f)) \/ ReadFile \/ UNCHANGED vars
  BY <1>11 DEF Look, OpenBundle, Validate, ReadFile, vars, dirVars
<1>12. QED
  BY <1>1, <1>2, <1>3, <1>4, <1>5, <1>6, <1>7, <1>8, <1>9, <1>10, <1>11 DEF Next, JobStep

(* What a write does to a load under way: nothing, or it overtakes it.      *)
LEMMA JobsOvertake ==
  ASSUME Types, NEW j \in Jobs, JobStep(j)
  PROVE  /\ loader' = loader \/ loader' = [loader EXCEPT !.overtaken = TRUE]
         /\ cached' = cached
<1>1. ASSUME NEW f, NEW c, WriteAsset(f, c)
      PROVE  /\ loader' = loader \/ loader' = [loader EXCEPT !.overtaken = TRUE]
             /\ cached' = cached
  BY <1>1 DEF WriteAsset, Overtake
<1>2. ASSUME NEW m, WriteManifest(m) PROVE loader' = loader /\ cached' = cached
  BY <1>2 DEF WriteManifest, loadVars
<1>3. CASE OpenAsset(j) \/ FillAsset(j) \/ FillNative(j)
  BY <1>1, <1>3 DEF OpenAsset, FillAsset, FillNative
<1>4. CASE OpenFirst(j) \/ FillFirst(j)
  BY <1>2, <1>4 DEF OpenFirst, FillFirst
<1>5. CASE Extract(j) \/ Move(j)
  BY <1>1, <1>5 DEF Extract, Move, loadVars
<1>6. CASE Publish(j)
  BY <1>2, <1>6 DEF Publish, loadVars
<1>7. CASE StartTraining(j) \/ StartReExport(j) \/ Merge(j) \/ Hash(j) \/ Crash(j)
  BY <1>7 DEF StartTraining, StartReExport, Merge, Hash, Crash, loadVars
<1>8. QED
  BY <1>3, <1>4, <1>5, <1>6, <1>7 DEF JobStep

LEMMA AppendToOne ==
  ASSUME NEW S, NEW b \in S, NEW c \in S
  PROVE  Append(<<b>>, c) = <<b, c>> /\ Len(<<b, c>>) = 2
<1>1. <<b>> \in Seq(S) /\ Len(<<b>>) = 1
  OBVIOUS
<1>2. PICK r \in Seq(S) : r = Append(<<b>>, c) /\ Len(r) = 2 /\ r[1] = b /\ r[2] = c
  <2>1. /\ Append(<<b>>, c) \in Seq(S) /\ Len(Append(<<b>>, c)) = 2
        /\ Append(<<b>>, c)[1] = b /\ Append(<<b>>, c)[2] = c
    BY <1>1, AppendProperties
  <2>2. QED
    BY <2>1
<1>3. PICK p \in Seq(S) : p = <<b, c>> /\ Len(p) = 2 /\ p[1] = b /\ p[2] = c
  <2>1. <<b, c>> \in Seq(S) /\ Len(<<b, c>>) = 2
    OBVIOUS
  <2>2. PICK p \in Seq(S) : p = <<b, c>>
    BY <2>1
  <2>3. p[1] = b /\ p[2] = c /\ Len(p) = 2
    BY <2>2
  <2>4. QED
    BY <2>2, <2>3
<1>4. \A i \in 1..Len(r) : r[i] = p[i]
  <2>1. \A i \in 1..2 : i = 1 \/ i = 2
    OBVIOUS
  <2>2. QED
    BY <1>2, <1>3, <2>1
<1>5. Len(r) = Len(p)
  BY <1>2, <1>3
<1>6. r = p
  BY <1>4, <1>5, SeqEqual
<1>7. QED
  BY <1>2, <1>3, <1>6

(* The file that is read next, and what has been read once it is.           *)
LEMMA ReadingOrder ==
  ASSUME Types, loader.at = "read"
  PROVE  /\ Len(ReadOrder) = 2
         /\ \/ /\ loader.read = <<>> /\ ReadOrder[Len(loader.read) + 1] = "native"
               /\ \A c : Len(Append(loader.read, c)) = 1 /\ Append(loader.read, c) = <<c>>
               /\ {ReadOrder[i] : i \in DOMAIN loader.read} = {}
            \/ \E b \in Content :
                 /\ loader.read = <<b>> /\ ReadOrder[Len(loader.read) + 1] = "calibration"
                 /\ \A c \in Content : Len(Append(loader.read, c)) = 2 /\ Append(loader.read, c) = <<b, c>>
                 /\ {ReadOrder[i] : i \in DOMAIN loader.read} = {"native"}
<1>1. loader.read = <<>> \/ \E b \in Content : loader.read = <<b>>
  BY DEF Types, LoadTypes, Loads
<1>2. CASE loader.read = <<>>
  BY <1>2 DEF ReadOrder
<1>3. ASSUME NEW b \in Content, loader.read = <<b>>
      PROVE  /\ ReadOrder[Len(loader.read) + 1] = "calibration"
             /\ \A c \in Content : Len(Append(loader.read, c)) = 2 /\ Append(loader.read, c) = <<b, c>>
             /\ {ReadOrder[i] : i \in DOMAIN loader.read} = {"native"}
  <2>1. Len(loader.read) = 1 /\ DOMAIN loader.read = {1}
    BY <1>3
  <2>2. ReadOrder[1] = "native" /\ ReadOrder[2] = "calibration"
    BY DEF ReadOrder
  <2>3. \A c \in Content : Append(<<b>>, c) = <<b, c>> /\ Len(<<b, c>>) = 2
    BY AppendToOne
  <2>4. QED
    BY <1>3, <2>1, <2>2, <2>3
<1>4. Len(ReadOrder) = 2
  BY DEF ReadOrder
<1>5. QED
  BY <1>1, <1>2, <1>3, <1>4

(* The bundle that is cached when all files are read.                       *)
Loaded(b, c) == [i \in {"native", "calibration"} |-> IF i = "native" THEN b ELSE c]

LEMMA ReadFileCases ==
  ASSUME Types, ReadFile
  PROVE  /\ loader.at = "read"
         /\ \/ GiveUp
            \/ /\ loader.read = <<>> /\ disk["native"].whole
               /\ loader' = [loader EXCEPT !.read = <<disk["native"]>>] /\ GoOn
            \/ \E b \in Content :
                 /\ loader.read = <<b>> /\ disk["calibration"].whole
                 /\ cached' = [files |-> Loaded(b, disk["calibration"]), sha |-> loader.sha,
                               overtaken |-> loader.overtaken, clean |-> loader.clean]
                 /\ MoveTime("cached", "key") /\ loader' = IdleLoader
<1>1. loader.at = "read"
  BY DEF ReadFile
<1>2. ASSUME NEW b, NEW c
      PROVE  [i \in {"native", "calibration"} |->
                <<b, c>>[CHOOSE n \in DOMAIN ReadOrder : ReadOrder[n] = i]] = Loaded(b, c)
  <2>1. DOMAIN ReadOrder = {1, 2} /\ ReadOrder[1] = "native" /\ ReadOrder[2] = "calibration"
    BY DEF ReadOrder
  <2>2. (CHOOSE n \in DOMAIN ReadOrder : ReadOrder[n] = "native") = 1
    BY <2>1
  <2>3. (CHOOSE n \in DOMAIN ReadOrder : ReadOrder[n] = "calibration") = 2
    BY <2>1
  <2>4. <<b, c>>[1] = b /\ <<b, c>>[2] = c
    OBVIOUS
  <2>5. QED
    BY <2>2, <2>3, <2>4 DEF Loaded
<1>3. CASE loader.read = <<>>
  <2>1. /\ ReadOrder[Len(loader.read) + 1] = "native" /\ Len(ReadOrder) = 2
        /\ \A c : Len(Append(loader.read, c)) = 1 /\ Append(loader.read, c) = <<c>>
    BY <1>1, <1>3, ReadingOrder
  <2>2. QED
    BY <1>1, <1>3, <2>1 DEF ReadFile
<1>4. ASSUME NEW b \in Content, loader.read = <<b>>
      PROVE  \/ GiveUp
             \/ /\ disk["calibration"].whole
                /\ cached' = [files |-> Loaded(b, disk["calibration"]), sha |-> loader.sha,
                              overtaken |-> loader.overtaken, clean |-> loader.clean]
                /\ MoveTime("cached", "key") /\ loader' = IdleLoader
  <2>1. /\ ReadOrder[Len(loader.read) + 1] = "calibration" /\ Len(ReadOrder) = 2
        /\ \A c \in Content : Len(Append(loader.read, c)) = 2 /\ Append(loader.read, c) = <<b, c>>
    BY <1>1, <1>4, ReadingOrder
  <2>2. CASE GiveUp
    BY <2>2
  <2>3. CASE ~GiveUp
    <3>1. PICK c \in Content : c = disk["calibration"]
      BY DEF Types, DirTypes, Files
    <3>2. PICK read : read = Append(loader.read, c) /\ read = <<b, c>> /\ Len(read) = 2
      BY <2>1
    <3>3. /\ c.whole
          /\ cached' = [files |-> [i \in {"native", "calibration"} |->
                                     read[CHOOSE n \in DOMAIN ReadOrder : ReadOrder[n] = i]],
                        sha |-> loader.sha, overtaken |-> loader.overtaken,
                        clean |-> loader.clean]
          /\ MoveTime("cached", "key") /\ loader' = IdleLoader
      BY <2>1, <2>3, <3>1, <3>2 DEF ReadFile
    <3>4. QED
      BY <1>2, <3>1, <3>2, <3>3
  <2>4. QED
    BY <2>2, <2>3
<1>5. QED
  BY <1>1, <1>3, <1>4, ReadingOrder

LEMMA LoadTypesStep ==
  ASSUME Types, [Next]_vars
  PROVE  LoadTypes'
<1> USE DEF LoadTypes, Types
<1>0. loader \in Loads /\ loader.at \in {"idle", "open", "validate", "read"}
  BY DEF Loads
<1>1. ASSUME NEW j \in Jobs, JobStep(j) PROVE LoadTypes'
  <2>1. CASE loader' = loader /\ cached' = cached
    BY <2>1
  <2>2. CASE loader' = [loader EXCEPT !.overtaken = TRUE] /\ cached' = cached
    BY <2>2 DEF Loads
  <2>3. QED
    BY <1>1, <2>1, <2>2, JobsOvertake
<1>a. IdleLoader \in Loads /\ IdleLoader.at = "idle" /\ IdleLoader.read = <<>>
  BY DEF Loads, IdleLoader
<1>b. GiveUp => LoadTypes'
  BY <1>a DEF GiveUp
<1>2. CASE Look
  BY <1>2 DEF Look, IdleLoader, Loads
<1>3. CASE OpenBundle
  <2>1. CASE /\ manifest.schema = 2 /\ GoOn
             /\ loader' = [loader EXCEPT !.at = "validate", !.sha = manifest.sha,
                                         !.todo = DOMAIN manifest.sha, !.clean = clean]
    <3>1. manifest.sha \in [Files -> Content] /\ clean \in BOOLEAN
      BY <2>1 DEF DirTypes, JobTypes
    <3>2. QED
      BY <1>3, <2>1, <3>1 DEF Loads, GoOn, OpenBundle
  <2>2. QED
    BY <1>3, <1>b, <2>1 DEF OpenBundle
<1>4. ASSUME NEW f \in Files, Validate(f) PROVE LoadTypes'
  BY <1>4, <1>b DEF Validate, GoOn, Loads
<1>5. CASE ReadFile
  <2>1. disk["native"] \in Content /\ disk["calibration"] \in Content
    BY DEF DirTypes, Files
  <2>2. loader.at = "read" /\ loader.sha \in [Files -> Content]
    BY <1>5, ReadFileCases
  <2>3. CASE loader' = [loader EXCEPT !.read = <<disk["native"]>>] /\ GoOn
    BY <2>1, <2>2, <2>3 DEF Loads, GoOn
  <2>4. ASSUME NEW b \in Content, loader' = IdleLoader,
               cached' = [files |-> Loaded(b, disk["calibration"]), sha |-> loader.sha,
                          overtaken |-> loader.overtaken, clean |-> loader.clean]
        PROVE  LoadTypes'
    <3>1. Loaded(b, disk["calibration"]) \in [{"native", "calibration"} -> Content]
      BY <2>1 DEF Loaded
    <3>2. loader.overtaken \in BOOLEAN /\ loader.clean \in BOOLEAN
      BY DEF Loads
    <3>3. cached' \in Bundle
      BY <2>2, <2>4, <3>1, <3>2 DEF Bundle
    <3>4. QED
      BY <1>a, <2>4, <3>3
  <2>5. QED
    BY <1>5, <1>b, <2>3, <2>4, ReadFileCases
<1>6. CASE UNCHANGED vars
  BY <1>6 DEF vars, loadVars
<1>7. QED
  BY <1>1, <1>2, <1>3, <1>4, <1>5, <1>6 DEF Next

(* Which times there are.                                                   *)
LEMMA WhatIsSet ==
  ASSUME time \in Times, NEW s \in Stamps, NEW x \in Nat, SetTime(s, x)
  PROVE  /\ time' \in Times /\ Low'
         /\ \A u \in Stamps : time'[u] > 0 <=> IF u = s THEN x > 0 ELSE time[u] > 0
<1>1. Becomes([time EXCEPT ![s] = x])
  BY TimeIsSet
<1>2. QED
  BY <1>1 DEF Becomes, SameOrder, Times

LEMMA WhatIsMoved ==
  ASSUME time \in Times, NEW s \in Stamps, NEW v \in Stamps, s # v, MoveTime(s, v)
  PROVE  /\ time' \in Times /\ Low'
         /\ \A u \in Stamps : time'[u] > 0 <=> /\ u # v
                                             /\ IF u = s THEN time[v] > 0 ELSE time[u] > 0
<1>1. Becomes([time EXCEPT ![s] = time[v], ![v] = 0])
  BY TimeIsMoved
<1>2. QED
  BY <1>1 DEF Becomes, SameOrder, Times

LEMMA TimeTypesStep ==
  ASSUME Types, [Next]_vars
  PROVE  TimeTypes'
<1> DEFINE Had(s) == time[s] > 0
           Has(s) == time'[s] > 0
<1>0. /\ time \in Times /\ (\A f \in Dated : Had(f)) /\ Now \in Nat /\ Now > 0
      /\ \A s \in Stamps : time[s] \in Nat
  <2>1. time \in Times /\ (\A f \in Dated : Had(f)) /\ Now \in Nat /\ time["model"] < Now
    BY NowIsLater DEF Types, TimeTypes, Stamps, Dated, Files
  <2>2. time["model"] \in Nat /\ \A s \in Stamps : time[s] \in Nat
    BY <2>1 DEF Times, Stamps, Dated, Files
  <2>3. QED
    BY <2>1, <2>2
<1>1. /\ Dated \subseteq Stamps
      /\ {"dump", "tmp_calibration", "tmp_manifest", "key", "cached"} \subseteq Stamps
      /\ \A s \in {"dump", "tmp_calibration", "tmp_manifest", "key", "cached"} : s \notin Dated
      /\ {"model", "calibration", "native", "manifest"} = Dated
  BY DEF Stamps, Dated, Files
<1>2. ASSUME NEW s \in Stamps, NEW x \in Nat, x > 0, SetTime(s, x)
      PROVE  time' \in Times /\ Low' /\ \A u \in Stamps : Has(u) <=> u = s \/ Had(u)
  BY <1>0, <1>2, WhatIsSet
<1>b. \A s \in Stamps : Had(s) <=> time[s] # 0
  BY <1>0
<1>c. /\ cached = Nothing <=> ~Had("cached")
      /\ (tmp.calibration # Nothing => Had("tmp_calibration"))
      /\ (tmp.manifest # Nothing => Had("tmp_manifest"))
      /\ (loader.at # "idle" => Had("key"))
      /\ \A k \in Jobs : pc[k] \in {"open", "fill"} => Had("dump")
  BY <1>1, <1>b DEF Types, TimeTypes
<1>d. /\ (cached' = Nothing <=> ~Has("cached")) /\ time' \in Times /\ Low'
      /\ (\A f \in Dated : Has(f))
      /\ (tmp'.calibration # Nothing => Has("tmp_calibration"))
      /\ (tmp'.manifest # Nothing => Has("tmp_manifest"))
      /\ (loader'.at # "idle" => Has("key"))
      /\ (\A k \in Jobs : pc'[k] \in {"open", "fill"} => Has("dump"))
      => TimeTypes'
  BY <1>1 DEF TimeTypes, Times
<1> HIDE DEF Had, Has
<1>e. ASSUME NEW s \in Stamps, NEW x \in Nat, x > 0, SetTime(s, x), s \notin {"key", "cached"},
             cached' = cached, loader'.at = loader.at,
             tmp'.calibration # Nothing => tmp.calibration # Nothing \/ s = "tmp_calibration",
             tmp'.manifest # Nothing => tmp.manifest # Nothing \/ s = "tmp_manifest",
             \A k \in Jobs : pc'[k] \in {"open", "fill"} =>
               s = "dump" \/ \E i \in Jobs : pc[i] \in {"open", "fill"}
      PROVE  TimeTypes'
  BY <1>0, <1>1, <1>2, <1>c, <1>d, <1>e
<1>f. ASSUME NEW j \in Jobs, JobStep(j) PROVE cached' = cached /\ loader'.at = loader.at
  <2>1. loader \in Loads
    BY DEF Types, LoadTypes
  <2>2. QED
    BY <1>f, <2>1, JobsOvertake DEF Loads
<1>p. pc \in [Jobs -> Places]
  BY DEF Types, JobTypes
<1>t. tmp \in [calibration : Content \union {Nothing}, manifest : Fresh \union {Nothing}]
  BY DEF Types, DirTypes
<1>3. ASSUME NEW j \in Jobs, StartTraining(j) PROVE TimeTypes'
  <2>1. tmp' = tmp /\ SetTime("dump", Now)
    BY <1>3 DEF StartTraining, dirVars
  <2>2. QED
    BY <1>0, <1>1, <1>3, <1>e, <1>f, <2>1 DEF JobStep
<1>g. ASSUME time' = time, cached' = cached, loader'.at # "idle" => loader.at # "idle",
             tmp'.calibration # Nothing => tmp.calibration # Nothing,
             tmp'.manifest # Nothing => tmp.manifest # Nothing,
             \A k \in Jobs : pc'[k] \in {"open", "fill"} =>
               \E i \in Jobs : pc[i] \in {"open", "fill"}
      PROVE  TimeTypes'
  <2>1. \A s \in Stamps : Has(s) <=> Had(s)
    BY <1>g DEF Has, Had
  <2>2. Low'
    BY <1>g DEF Types, TimeTypes, Low
  <2>3. QED
    BY <1>0, <1>1, <1>c, <1>d, <1>g, <2>1, <2>2
<1>4. ASSUME NEW j \in Jobs, StartReExport(j) \/ Crash(j) PROVE TimeTypes'
  <2>1. tmp' = tmp /\ time' = time
    BY <1>4 DEF StartReExport, Crash, dirVars
  <2>2. \A k \in Jobs : pc'[k] \in {"open", "fill"} => pc[k] \in {"open", "fill"}
    BY <1>4, <1>p DEF StartReExport, Crash, Leave, Goto
  <2>3. QED
    BY <1>4, <1>f, <1>g, <2>1, <2>2 DEF JobStep
<1>5. ASSUME NEW j \in Jobs, OpenAsset(j) PROVE TimeTypes'
  <2>1. PICK s \in Stamps : SetTime(s, Now) /\ s \in Files
    <3>1. next[j] \in {1, 2}
      BY <1>5 DEF OpenAsset, Types, JobTypes
    <3>2. Order[next[j]] \in Files
      BY <3>1 DEF Order, Files
    <3>3. QED
      BY <1>5, <3>2 DEF OpenAsset, Stamps, Dated
  <2>2. tmp' = tmp /\ pc[j] = "open" /\ s \notin {"key", "cached"}
    BY <1>5, <2>1 DEF OpenAsset, Files
  <2>3. QED
    BY <1>0, <1>5, <1>e, <1>f, <2>1, <2>2 DEF JobStep
<1>6. ASSUME NEW j \in Jobs, FillAsset(j) PROVE TimeTypes'
  <2>1. PICK s \in Stamps, x \in Nat : SetTime(s, x) /\ s \in Files /\ x > 0
    <3>1. next[j] \in {1, 2} /\ Had("dump")
      BY <1>6, <1>c DEF FillAsset, Types, JobTypes
    <3>2. Order[next[j]] \in Files
      BY <3>1 DEF Order, Files
    <3>3. time["dump"] \in Nat /\ time["dump"] > 0 /\ Now \in Nat /\ Now > 0
      BY <1>0, <1>1, <3>1 DEF Had
    <3>4. CASE Order[next[j]] = "model"
      BY <1>6, <3>2, <3>3, <3>4 DEF FillAsset, Stamps, Dated
    <3>5. CASE Order[next[j]] # "model"
      BY <1>6, <3>2, <3>3, <3>5 DEF FillAsset, Stamps, Dated
    <3>6. QED
      BY <3>4, <3>5
  <2>2. tmp' = tmp /\ pc[j] = "fill" /\ s \notin {"key", "cached"}
    BY <1>6, <2>1 DEF FillAsset, Files
  <2>3. QED
    BY <1>6, <1>e, <1>f, <2>1, <2>2 DEF JobStep
<1>7. ASSUME NEW j \in Jobs, OpenFirst(j) \/ FillFirst(j) \/ FillNative(j) PROVE TimeTypes'
  <2>1. PICK s \in Stamps : SetTime(s, Now) /\ s \in {"manifest", "native"}
    BY <1>7 DEF OpenFirst, FillFirst, FillNative, Stamps, Dated, Files
  <2>2. tmp' = tmp /\ \A k \in Jobs : pc'[k] \in {"open", "fill"} => pc[k] \in {"open", "fill"}
    BY <1>7, <1>p DEF OpenFirst, FillFirst, FillNative, Goto, Leave
  <2>3. QED
    BY <1>0, <1>7, <1>e, <1>f, <2>1, <2>2 DEF JobStep
<1>8. ASSUME NEW j \in Jobs, Extract(j) PROVE TimeTypes'
  <2>1. tmp' = tmp /\ \A k \in Jobs : pc'[k] \in {"open", "fill"} => pc[k] \in {"open", "fill"}
    BY <1>8, <1>p DEF Extract, Goto, Leave
  <2>2. CASE SetTime("native", Now)
    <3>1. "native" \in Stamps
      BY DEF Stamps, Dated, Files
    <3>2. QED
      BY <1>0, <1>8, <1>e, <1>f, <2>1, <2>2, <3>1 DEF JobStep
  <2>3. CASE time' = time
    BY <1>8, <1>f, <1>g, <2>1, <2>3 DEF JobStep
  <2>4. QED
    BY <1>8, <2>2, <2>3 DEF Extract
<1>9. ASSUME NEW j \in Jobs, Merge(j) PROVE TimeTypes'
  <2>1. /\ SetTime("tmp_calibration", Now) /\ tmp'.manifest = tmp.manifest
        /\ \A k \in Jobs : pc'[k] \in {"open", "fill"} => pc[k] \in {"open", "fill"}
    BY <1>9, <1>p, <1>t DEF Merge, Goto
  <2>2. QED
    BY <1>0, <1>1, <1>9, <1>e, <1>f, <2>1 DEF JobStep
<1>10. ASSUME NEW j \in Jobs, Hash(j) PROVE TimeTypes'
  <2>1. /\ SetTime("tmp_manifest", Now) /\ tmp'.calibration = tmp.calibration
        /\ \A k \in Jobs : pc'[k] \in {"open", "fill"} => pc[k] \in {"open", "fill"}
    BY <1>10, <1>p, <1>t DEF Hash, Goto
  <2>2. QED
    BY <1>0, <1>1, <1>10, <1>e, <1>f, <2>1 DEF JobStep
<1>11. ASSUME NEW j \in Jobs, NEW s \in Dated, NEW v \in {"tmp_calibration", "tmp_manifest"},
              JobStep(j), Had(v), MoveTime(s, v),
              tmp'.calibration # Nothing => tmp.calibration # Nothing /\ v # "tmp_calibration",
              tmp'.manifest # Nothing => tmp.manifest # Nothing /\ v # "tmp_manifest",
              \A k \in Jobs : pc'[k] \in {"open", "fill"} => pc[k] \in {"open", "fill"}
       PROVE  TimeTypes'
  <2>1. s \in Stamps /\ v \in Stamps /\ s # v /\ s # "cached" /\ s # "key" /\ s # "dump"
        /\ v \notin Dated
    BY <1>1
  <2>2. /\ time' \in Times /\ Low'
        /\ \A u \in Stamps : Has(u) <=> u # v /\ (u = s \/ Had(u))
    BY <1>0, <1>11, <2>1, WhatIsMoved DEF Had, Has
  <2>3. cached' = cached /\ loader'.at = loader.at
    BY <1>11, <1>f
  <2>4. \A f \in Dated : Has(f)
    BY <1>0, <1>1, <2>1, <2>2
  <2>5. QED
    BY <1>1, <1>11, <1>c, <1>d, <2>1, <2>2, <2>3, <2>4
<1>12. ASSUME NEW j \in Jobs, Move(j) PROVE TimeTypes'
  <2>1. \A k \in Jobs : pc'[k] \in {"open", "fill"} => pc[k] \in {"open", "fill"}
    BY <1>12, <1>p DEF Move, Goto, Leave
  <2>2. CASE /\ tmp.calibration # Nothing /\ MoveTime("calibration", "tmp_calibration")
             /\ tmp' = [tmp EXCEPT !.calibration = Nothing]
    <3>1. tmp'.calibration = Nothing /\ tmp'.manifest = tmp.manifest
      BY <1>t, <2>2
    <3>2. QED
      BY <1>1, <1>12, <1>c, <1>11, <2>1, <2>2, <3>1 DEF JobStep
  <2>3. CASE UNCHANGED <<tmp, time>>
    BY <1>12, <1>f, <1>g, <2>1, <2>3 DEF JobStep
  <2>4. QED
    BY <1>12, <2>2, <2>3 DEF Move, dirVars
<1>13. ASSUME NEW j \in Jobs, Publish(j) PROVE TimeTypes'
  <2>1. \A k \in Jobs : pc'[k] \in {"open", "fill"} => pc[k] \in {"open", "fill"}
    BY <1>13, <1>p DEF Publish, Goto, Leave
  <2>2. CASE /\ tmp.manifest # Nothing /\ MoveTime("manifest", "tmp_manifest")
             /\ tmp' = [tmp EXCEPT !.manifest = Nothing]
    <3>1. tmp'.manifest = Nothing /\ tmp'.calibration = tmp.calibration
      BY <1>t, <2>2
    <3>2. QED
      BY <1>1, <1>13, <1>c, <1>11, <2>1, <2>2, <3>1 DEF JobStep
  <2>3. CASE UNCHANGED <<tmp, time>>
    BY <1>13, <1>f, <1>g, <2>1, <2>3 DEF JobStep
  <2>4. QED
    BY <1>13, <2>2, <2>3 DEF Publish, dirVars
<1>14. CASE GiveUp /\ UNCHANGED <<pc, tmp>>
  <2>1. "key" \in Stamps /\ 0 \in Nat /\ SetTime("key", 0) /\ cached' = cached
    BY <1>1, <1>14 DEF GiveUp
  <2>2. time' \in Times /\ Low' /\ \A u \in Stamps : Has(u) <=> u # "key" /\ Had(u)
    <3>1. time' \in Times /\ Low' /\ \A u \in Stamps :
            time'[u] > 0 <=> IF u = "key" THEN 0 > 0 ELSE time[u] > 0
      BY <1>0, <2>1, WhatIsSet
    <3>2. QED
      BY <3>1 DEF Had, Has
  <2>3. loader'.at = "idle"
    BY <1>14 DEF GiveUp, IdleLoader
  <2>4. \A f \in Dated : Has(f)
    BY <1>0, <1>1, <2>2
  <2>5. QED
    BY <1>1, <1>14, <1>c, <1>d, <2>1, <2>2, <2>3, <2>4
<1>15. CASE Look
  <2>1. SetTime("key", Key) /\ cached' = cached /\ UNCHANGED <<pc, tmp>> /\ "key" \in Stamps
    BY <1>1, <1>15 DEF Look, dirVars, jobVars
  <2>2. Key \in Nat /\ Key > 0
    <3>1. Key \in Nat /\ time["model"] <= Key /\ time["model"] > 0 /\ time["model"] \in Nat
      BY <1>0, <1>1, KeyIsGreatest DEF Had
    <3>2. QED
      BY <3>1
  <2>3. time' \in Times /\ Low' /\ \A u \in Stamps : Has(u) <=> u = "key" \/ Had(u)
    BY <1>2, <2>1, <2>2
  <2>4. \A f \in Dated : Has(f)
    BY <1>0, <1>1, <2>3
  <2>5. QED
    BY <1>1, <1>c, <1>d, <2>1, <2>3, <2>4
<1>16. CASE OpenBundle
  <2>1. UNCHANGED <<pc, tmp>> /\ loader.at = "open"
    BY <1>16 DEF OpenBundle, dirVars, jobVars
  <2>2. CASE GoOn
    BY <1>g, <2>1, <2>2 DEF GoOn
  <2>3. QED
    BY <1>14, <1>16, <2>1, <2>2 DEF OpenBundle
<1>17. ASSUME NEW f \in Files, Validate(f) PROVE TimeTypes'
  <2>1. UNCHANGED <<pc, tmp>> /\ loader.at = "validate"
    BY <1>17 DEF Validate, dirVars, jobVars
  <2>2. CASE GoOn
    BY <1>g, <2>1, <2>2 DEF GoOn
  <2>3. QED
    BY <1>14, <1>17, <2>1, <2>2 DEF Validate
<1>18. CASE ReadFile
  <2>1. UNCHANGED <<pc, tmp>> /\ loader.at = "read"
    BY <1>18 DEF ReadFile, dirVars, jobVars
  <2>2. CASE GoOn
    BY <1>g, <2>1, <2>2 DEF GoOn
  <2>3. ASSUME NEW b \in Content, MoveTime("cached", "key"), loader' = IdleLoader,
               cached' = [files |-> Loaded(b, disk["calibration"]), sha |-> loader.sha,
                          overtaken |-> loader.overtaken, clean |-> loader.clean]
        PROVE  TimeTypes'
    <3>1. loader'.at = "idle" /\ Had("key")
      BY <1>c, <2>1, <2>3 DEF IdleLoader
    <3>2. cached' # Nothing
      <4>1. cached' \in Bundle
        <5>1. disk["calibration"] \in Content /\ loader.sha \in [Files -> Content]
          BY <2>1 DEF Types, DirTypes, LoadTypes, Files
        <5>2. Loaded(b, disk["calibration"]) \in [{"native", "calibration"} -> Content]
          BY <5>1 DEF Loaded
        <5>3. loader.overtaken \in BOOLEAN /\ loader.clean \in BOOLEAN
          BY DEF Types, LoadTypes, Loads
        <5>4. QED
          BY <2>3, <5>1, <5>2, <5>3 DEF Bundle
      <4>2. QED
        BY <4>1, BundleAssumption
    <3>3. /\ time' \in Times /\ Low'
          /\ \A u \in Stamps : Has(u) <=> u # "key" /\ (u = "cached" \/ Had(u))
      BY <1>0, <1>1, <2>3, <3>1, WhatIsMoved DEF Had, Has
    <3>4. \A f \in Dated : Has(f)
      BY <1>0, <1>1, <3>3
    <3>5. QED
      BY <1>1, <1>c, <1>d, <2>1, <3>1, <3>2, <3>3, <3>4
  <2>4. QED
    BY <1>14, <1>18, <2>1, <2>2, <2>3, ReadFileCases
<1>19. CASE UNCHANGED vars
  BY <1>g, <1>19 DEF vars, dirVars, jobVars, loadVars
<1>20. QED
  BY <1>3, <1>4, <1>5, <1>6, <1>7, <1>8, <1>9, <1>10, <1>12, <1>13, <1>15, <1>16, <1>17,
     <1>18, <1>19 DEF Next, JobStep

LEMMA TypesStep ==
  ASSUME Types, [Next]_vars
  PROVE  Types'
BY JobTypesStep, DirTypesStep, LoadTypesStep, TimeTypesStep DEF Types

LEMMA TypesStart ==
  ASSUME Init
  PROVE  Types
<1>1. Whole(0, 0) \in Content /\ Whole(0, 0).training \in Trained
  BY BundleAssumption DEF Whole, Content, Trained
<1>2. DirTypes
  <2>1. disk \in [Files -> Content] /\ disk["model"].training \in Trained
    BY <1>1 DEF Init, Files
  <2>2. manifest \in Listing
    BY <2>1 DEF Init, Listing
  <2>3. QED
    BY <2>1, <2>2 DEF Init, DirTypes
<1>3. JobTypes
  BY BundleAssumption DEF Init, JobTypes, Places, Trained
<1>4. LoadTypes
  BY DEF Init, LoadTypes, IdleLoader, Loads
<1>5. TimeTypes
  <2>1. time \in Times /\ \A s \in Stamps : time[s] = IF s \in Dated THEN 1 ELSE 0
    BY DEF Init, Times
  <2>2. "cached" \in Stamps /\ "cached" \notin Dated /\ Dated \subseteq Stamps
    BY DEF Stamps, Dated, Files
  <2>3. Low
    <3>1. Cardinality(Stamps) \in Nat /\ Cardinality(Stamps) # 0
      BY <2>2, StampsAreFew, FS_CardinalityType, FS_EmptySet
    <3>2. \A s \in Stamps : time[s] \in {0, 1}
      BY <2>1
    <3>3. PICK c \in Nat \ {0} : c = Cardinality(Stamps)
      BY <3>1
    <3>4. QED
      BY <3>2, <3>3 DEF Low
  <2>4. QED
    BY <2>1, <2>2, <2>3 DEF Init, TimeTypes, IdleLoader
<1>6. QED
  BY <1>2, <1>3, <1>4, <1>5 DEF Types

-----------------------------------------------------------------------------
(* Jobs that run alone                                                      *)

(* A job that runs alone has company in none; a clean directory has only    *)
(* such jobs; only a training comes to the assets.                          *)
Alone ==
  /\ \A j \in Jobs : alone[j] => \A k \in Jobs \ {j} : pc[k] = "idle"
  /\ clean => \A j \in Jobs : pc[j] # "idle" => alone[j]
  /\ \A j \in Jobs : pc[j] \in {"open", "fill", "open_first", "fill_first"} => full[j]
  /\ \A j \in Jobs : pc[j] = "idle" => ~full[j] /\ ~alone[j] /\ booster[j] = 0

LEMMA AloneStep ==
  ASSUME Types, Alone, [Next]_vars
  PROVE  Alone'
<1> USE DEF Alone
<1>1. /\ pc \in [Jobs -> Places] /\ full \in [Jobs -> BOOLEAN] /\ alone \in [Jobs -> BOOLEAN]
      /\ booster \in [Jobs -> Trained] /\ clean \in BOOLEAN
  BY DEF Types, JobTypes
<1>2. ASSUME NEW j \in Jobs, Leave(j), clean' => clean \/ alone[j] PROVE Alone'
  BY <1>1, <1>2 DEF Leave, Goto
<1>3. ASSUME NEW j \in Jobs, NEW p \in Places, Goto(j, p), p # "idle", pc[j] # "idle",
             \/ pc[j] \in {"open", "fill", "open_first", "fill_first"}
             \/ p \notin {"open", "fill", "open_first", "fill_first"},
             UNCHANGED <<full, alone, clean>>, \A k \in Jobs \ {j} : booster'[k] = booster[k]
      PROVE  Alone'
  <2>1. pc'[j] = p /\ \A k \in Jobs \ {j} : pc'[k] = pc[k]
    BY <1>1, <1>3 DEF Goto
  <2>2. \A k \in Jobs : (pc'[k] = "idle") = (pc[k] = "idle")
    BY <1>3, <2>1
  <2>3. \A k \in Jobs : pc'[k] \in {"open", "fill", "open_first", "fill_first"} => full'[k]
    BY <1>3, <2>1
  <2>4. QED
    BY <1>3, <2>1, <2>2, <2>3
<1>4. ASSUME NEW j \in Jobs, StartTraining(j) \/ StartReExport(j) PROVE Alone'
  <2>1. PICK others : others = {k \in Jobs \ {j} : pc[k] # "idle"}
    OBVIOUS
  <2>2. /\ alone' = [k \in Jobs |-> IF k = j THEN others = {} ELSE k \notin others /\ alone[k]]
        /\ clean' = (clean /\ others = {}) /\ pc[j] = "idle" /\ booster' = booster
        /\ \/ pc' = [pc EXCEPT ![j] = "open"] /\ full' = [full EXCEPT ![j] = TRUE]
           \/ pc' = [pc EXCEPT ![j] = "extract"] /\ full' = full
    BY <1>4, <2>1 DEF StartTraining, StartReExport, Met, Goto
  <2>3. QED
    BY <1>1, <2>1, <2>2
<1>5. ASSUME NEW j \in Jobs, OpenAsset(j) PROVE Alone'
  BY <1>3, <1>5 DEF OpenAsset, Places
<1>6. ASSUME NEW j \in Jobs, FillAsset(j) PROVE Alone'
  <2>1. PICK p \in {"open", "open_first"} : Goto(j, p)
    BY <1>6 DEF FillAsset
  <2>2. QED
    BY <1>3, <1>6, <2>1 DEF FillAsset, Places
<1>7. ASSUME NEW j \in Jobs, OpenFirst(j) PROVE Alone'
  BY <1>3, <1>7 DEF OpenFirst, Places
<1>8. ASSUME NEW j \in Jobs, FillFirst(j) PROVE Alone'
  <2>1. CASE Leave(j)
    BY <1>2, <1>8, <2>1 DEF FillFirst
  <2>2. CASE Goto(j, "extract") /\ UNCHANGED <<full, booster, alone>>
    BY <1>3, <1>8, <2>2 DEF FillFirst, Places
  <2>3. QED
    BY <1>8, <2>1, <2>2 DEF FillFirst
<1>9. ASSUME NEW j \in Jobs, Extract(j) PROVE Alone'
  <2>1. CASE Leave(j)
    BY <1>2, <1>9, <2>1 DEF Extract
  <2>2. CASE /\ booster' = [booster EXCEPT ![j] = disk["model"].training]
             /\ Goto(j, "fill_native") /\ UNCHANGED <<full, alone>>
    <3>1. \A k \in Jobs \ {j} : booster'[k] = booster[k]
      BY <1>1, <2>2
    <3>2. QED
      BY <1>3, <1>9, <2>2, <3>1 DEF Extract, Places
  <2>3. QED
    BY <1>9, <2>1, <2>2 DEF Extract
<1>10. ASSUME NEW j \in Jobs, FillNative(j) PROVE Alone'
  BY <1>3, <1>10 DEF FillNative, Places
<1>11. ASSUME NEW j \in Jobs, Merge(j) PROVE Alone'
  BY <1>3, <1>11 DEF Merge, Places
<1>12. ASSUME NEW j \in Jobs, Move(j) PROVE Alone'
  <2>1. CASE Leave(j)
    BY <1>2, <1>12, <2>1 DEF Move
  <2>2. CASE Goto(j, "hash") /\ UNCHANGED <<full, booster, alone>>
    BY <1>3, <1>12, <2>2 DEF Move, Places
  <2>3. QED
    BY <1>12, <2>1, <2>2 DEF Move
<1>13. ASSUME NEW j \in Jobs, Hash(j) PROVE Alone'
  BY <1>3, <1>13 DEF Hash, Places
<1>14. ASSUME NEW j \in Jobs, Publish(j) PROVE Alone'
  <2>1. Leave(j) /\ (clean' = clean \/ clean' = (clean \/ (full[j] /\ alone[j])))
    BY <1>14 DEF Publish
  <2>2. clean' => clean \/ alone[j]
    BY <2>1
  <2>3. QED
    BY <1>2, <2>1, <2>2
<1>15. ASSUME NEW j \in Jobs, Crash(j) PROVE Alone'
  BY <1>2, <1>15 DEF Crash
<1>16. CASE Look \/ OpenBundle \/ (\E f \in Files : Validate(f)) \/ ReadFile \/ UNCHANGED vars
  BY <1>16 DEF Look, OpenBundle, Validate, ReadFile, vars, jobVars
<1>17. QED
  BY <1>4, <1>5, <1>6, <1>7, <1>8, <1>9, <1>10, <1>11, <1>12, <1>13, <1>14, <1>15, <1>16
     DEF Next, JobStep

(* What a job has reached, if it began with a full training or on a clean   *)
(* directory, and has met no other.                                         *)
Mine(j) == alone[j] /\ (full[j] \/ clean)

Rest ==
  /\ disk["model"].whole /\ disk["calibration"].whole
  /\ disk["calibration"].training = disk["model"].training

Progress(j) ==
  /\ pc[j] \in {"open", "fill"} =>
       dumped = made[j] /\ (next[j] = 2 => disk["model"] = Whole(made[j], 0))
  /\ pc[j] \in {"open_first", "fill_first", "extract", "fill_native", "merge", "move"} => Rest
  /\ pc[j] \in {"fill_native", "merge", "move", "hash", "publish"} =>
       disk["model"].whole /\ booster[j] = disk["model"].training
  /\ pc[j] \in {"merge", "move", "hash", "publish"} => disk["native"] = Whole(booster[j], 0)
  /\ pc[j] = "move" => tmp.calibration = Whole(booster[j], booster[j])
  /\ pc[j] \in {"hash", "publish"} => disk["calibration"] = Whole(booster[j], booster[j])
  /\ pc[j] = "publish" => tmp.manifest = [schema |-> 2, sha |-> disk, whole |-> TRUE]

Works == \A j \in Jobs : pc[j] # "idle" /\ Mine(j) => Progress(j)

(* The manifest that a clean directory has been given.                      *)
Published == clean /\ manifest.whole /\ manifest.schema = 2 => OneTraining(manifest.sha)

(* A job that has company, or is only company, has nothing to show.         *)
LEMMA OnlyOneWorks ==
  ASSUME Types, Alone, Alone', NEW j \in Jobs, JobStep(j), NEW k \in Jobs, k # j
  PROVE  ~(pc'[k] # "idle" /\ alone'[k])
<1> SUFFICES ASSUME pc'[k] # "idle", alone'[k] PROVE FALSE
  OBVIOUS
<1>1. pc'[j] = "idle"
  BY DEF Alone
<1>2. pc \in [Jobs -> Places] /\ alone \in [Jobs -> BOOLEAN]
  BY DEF Types, JobTypes
<1>3. ~(StartTraining(j) \/ StartReExport(j))
  BY <1>1, <1>2 DEF StartTraining, StartReExport, Goto
<1>4. pc[j] # "idle" /\ (Leave(j) \/ alone' = alone)
  BY <1>3 DEF JobStep, OpenAsset, FillAsset, OpenFirst, FillFirst, Extract, FillNative, Merge, Move,
     Hash, Publish, Crash
<1>5. alone'[k] = alone[k]
  BY <1>2, <1>4 DEF Leave
<1>6. QED
  BY <1>4, <1>5 DEF Alone

LEMMA ProgressStep ==
  ASSUME Types, Alone, Works, IdleMeansLoadable, NEW j \in Jobs, JobStep(j),
         pc'[j] # "idle", Mine(j)'
  PROVE  Progress(j)'
<1>1. /\ pc \in [Jobs -> Places] /\ full \in [Jobs -> BOOLEAN] /\ alone \in [Jobs -> BOOLEAN]
      /\ booster \in [Jobs -> Trained] /\ clean \in BOOLEAN /\ made \in [Jobs -> Trained]
      /\ next \in [Jobs -> 0..3] /\ (pc[j] \in {"open", "fill"} => next[j] \in {1, 2})
      /\ disk \in [Files -> Content] /\ Files = {"model", "calibration", "native"}
      /\ tmp \in [calibration : Content \union {Nothing}, manifest : Fresh \union {Nothing}]
  BY DEF Types, JobTypes, DirTypes, Files
<1>2. CASE StartTraining(j)
  BY <1>1, <1>2 DEF StartTraining, Goto, Progress
<1>3. CASE StartReExport(j)
  <2>1. /\ pc'[j] = "extract" /\ full[j] = full'[j] /\ ~full[j] /\ UNCHANGED disk
        /\ clean' = (clean /\ {k \in Jobs \ {j} : pc[k] # "idle"} = {}) /\ pc[j] = "idle"
    BY <1>1, <1>3 DEF StartReExport, Goto, Alone, Met, dirVars
  <2>2. clean /\ {k \in Jobs \ {j} : pc[k] # "idle"} = {}
    BY <2>1 DEF Mine
  <2>3. strayed \/ OneTraining(disk)
    BY <2>1, <2>2 DEF IdleMeansLoadable
  <2>4. Rest
    BY <1>1, <2>1, <2>2, <2>3 DEF OneTraining, Rest, IdleMeansLoadable
  <2>5. QED
    BY <2>1, <2>4 DEF Progress, Rest
<1>4. CASE ~StartTraining(j) /\ ~StartReExport(j)
  <2>1. /\ pc[j] # "idle" /\ UNCHANGED <<full, alone, clean, made, dumped>>
    BY <1>1, <1>4 DEF JobStep, OpenAsset, FillAsset, OpenFirst, FillFirst, Extract, FillNative, Merge,
       Move, Hash, Publish, Crash, Leave, Goto
  <2>2. Progress(j)
    BY <2>1 DEF Works, Mine
  <2>3. CASE OpenAsset(j)
    <3>1. /\ pc'[j] = "fill" /\ disk' = [disk EXCEPT ![Order[next[j]]] = Torn(disk[Order[next[j]]])]
          /\ next' = next /\ pc[j] = "open"
      BY <1>1, <2>3 DEF OpenAsset, WriteAsset, Goto
    <3>2. next[j] = 2 => Order[next[j]] = "calibration"
      BY DEF Order
    <3>3. next[j] = 2 => disk'["model"] = disk["model"]
      BY <1>1, <3>1, <3>2
    <3>4. QED
      BY <2>1, <2>2, <3>1, <3>3 DEF Progress
  <2>4. CASE FillAsset(j)
    <3>1. CASE next[j] = 1
      <4>1. /\ pc'[j] = "open" /\ disk' = [disk EXCEPT !["model"] = Whole(dumped, 0)]
            /\ pc[j] = "fill"
        BY <1>1, <2>4, <3>1 DEF FillAsset, WriteAsset, Goto, Order
      <4>2. dumped = made[j]
        BY <2>2, <4>1 DEF Progress
      <4>3. disk'["model"] = Whole(made[j], 0)
        BY <1>1, <4>1, <4>2
      <4>4. QED
        BY <2>1, <4>1, <4>2, <4>3 DEF Progress
    <3>2. CASE next[j] = 2
      <4>1. /\ pc'[j] = "open_first" /\ disk' = [disk EXCEPT !["calibration"] = Whole(made[j], 0)]
            /\ pc[j] = "fill"
        BY <1>1, <2>4, <3>2 DEF FillAsset, WriteAsset, Goto, Order
      <4>2. disk["model"] = Whole(made[j], 0)
        BY <2>2, <3>2, <4>1 DEF Progress
      <4>3. disk'["model"] = Whole(made[j], 0) /\ disk'["calibration"] = Whole(made[j], 0)
        BY <1>1, <4>1, <4>2
      <4>4. Rest'
        BY <4>3 DEF Rest, Whole
      <4>5. QED
        BY <4>1, <4>4 DEF Progress
    <3>3. QED
      BY <1>1, <2>4, <3>1, <3>2 DEF FillAsset
  <2>5. CASE OpenFirst(j)
    <3>1. pc'[j] = "fill_first" /\ disk' = disk /\ pc[j] = "open_first"
      BY <1>1, <2>5 DEF OpenFirst, WriteManifest, Goto
    <3>2. QED
      BY <2>2, <3>1 DEF Progress, Rest
  <2>6. CASE FillFirst(j)
    <3>1. pc'[j] = "extract" /\ disk' = disk /\ pc[j] = "fill_first"
      BY <1>1, <2>6 DEF FillFirst, WriteManifest, Goto, Leave
    <3>2. QED
      BY <2>2, <3>1 DEF Progress, Rest
  <2>7. CASE Extract(j)
    <3>1. /\ pc'[j] = "fill_native" /\ pc[j] = "extract" /\ booster'[j] = disk["model"].training
          /\ disk' = [disk EXCEPT !["native"] = Torn(disk["native"])]
      BY <1>1, <2>7 DEF Extract, WriteAsset, Goto, Leave
    <3>2. disk'["model"] = disk["model"] /\ disk'["calibration"] = disk["calibration"]
      BY <1>1, <3>1
    <3>3. QED
      BY <2>2, <3>1, <3>2 DEF Progress, Rest
  <2>8. CASE FillNative(j)
    <3>1. /\ pc'[j] = "merge" /\ pc[j] = "fill_native" /\ booster' = booster
          /\ disk' = [disk EXCEPT !["native"] = Whole(booster[j], 0)]
      BY <1>1, <2>8 DEF FillNative, WriteAsset, Goto, NativeOf
    <3>2. disk'["model"] = disk["model"] /\ disk'["calibration"] = disk["calibration"]
          /\ disk'["native"] = Whole(booster[j], 0)
      BY <1>1, <3>1
    <3>3. QED
      BY <2>2, <3>1, <3>2 DEF Progress, Rest
  <2>9. CASE Merge(j)
    <3>1. /\ pc'[j] = "move" /\ pc[j] = "merge" /\ booster' = booster /\ disk' = disk
          /\ tmp'.calibration = Merged(j)
      BY <1>1, <2>9 DEF Merge, Goto
    <3>2. Merged(j) = Whole(booster[j], booster[j])
      BY <2>2, <3>1 DEF Progress, Rest, Merged
    <3>3. QED
      BY <2>2, <3>1, <3>2 DEF Progress, Rest
  <2>10. CASE Move(j)
    <3>1. /\ pc'[j] = "hash" /\ pc[j] = "move" /\ booster' = booster
          /\ disk' = [disk EXCEPT !["calibration"] = tmp.calibration]
      BY <1>1, <2>10 DEF Move, Goto, Leave, WriteAsset
    <3>2. disk'["model"] = disk["model"] /\ disk'["native"] = disk["native"]
          /\ disk'["calibration"] = tmp.calibration
      BY <1>1, <3>1
    <3>3. QED
      BY <2>2, <3>1, <3>2 DEF Progress
  <2>11. CASE Hash(j)
    <3>1. /\ pc'[j] = "publish" /\ pc[j] = "hash" /\ booster' = booster /\ disk' = disk
          /\ tmp'.manifest = [schema |-> 2, sha |-> disk, whole |-> TRUE]
      BY <1>1, <2>11 DEF Hash, Goto, Hashes
    <3>2. QED
      BY <2>2, <3>1 DEF Progress
  <2>12. CASE Publish(j) \/ Crash(j)
    BY <1>1, <2>12 DEF Publish, Crash, Leave, Goto
  <2>13. QED
    BY <1>4, <2>3, <2>4, <2>5, <2>6, <2>7, <2>8, <2>9, <2>10, <2>11, <2>12 DEF JobStep
<1>5. QED
  BY <1>2, <1>3, <1>4

LEMMA WorksStep ==
  ASSUME Types, Alone, Alone', Works, IdleMeansLoadable, [Next]_vars
  PROVE  Works'
<1>1. ASSUME NEW j \in Jobs, JobStep(j) PROVE Works'
  <2>1. ASSUME NEW k \in Jobs, pc'[k] # "idle", Mine(k)' PROVE Progress(k)'
    <3>1. k = j
      BY <1>1, <2>1, OnlyOneWorks DEF Mine
    <3>2. QED
      BY <1>1, <2>1, <3>1, ProgressStep
  <2>2. QED
    BY <2>1 DEF Works
<1>2. CASE Look \/ OpenBundle \/ (\E f \in Files : Validate(f)) \/ ReadFile \/ UNCHANGED vars
  <2>1. UNCHANGED <<disk, tmp, dumped, pc, full, made, next, booster, alone, clean>>
    BY <1>2 DEF Look, OpenBundle, Validate, ReadFile, vars, jobVars, dirVars
  <2>2. QED
    BY <2>1 DEF Works, Mine, Progress, Rest
<1>3. QED
  BY <1>1, <1>2 DEF Next

(* On a clean directory a job that leaves has published what it made, or    *)
(* goes on in another directory and leaves assets of one training.          *)
LEMMA CleanLeave ==
  ASSUME Types, Alone, Works, NEW j \in Jobs, JobStep(j), Leave(j), clean'
  PROVE  /\ Mine(j) /\ disk' = disk
         /\ \/ /\ pc[j] = "publish" /\ ~strayed'
               /\ manifest' = [schema |-> 2, sha |-> disk, whole |-> TRUE] /\ OneTraining(disk)
            \/ /\ pc[j] = "fill_first" /\ strayed' = TRUE
               /\ manifest' = [schema |-> 1, sha |-> <<>>, whole |-> TRUE] /\ Rest
<1>1. /\ pc \in [Jobs -> Places] /\ full \in [Jobs -> BOOLEAN] /\ alone \in [Jobs -> BOOLEAN]
      /\ clean \in BOOLEAN /\ disk \in [Files -> Content] /\ Files = {"model", "calibration", "native"}
      /\ booster \in [Jobs -> Trained]
  BY DEF Types, JobTypes, DirTypes, Files
<1>2. pc'[j] = "idle"
  BY <1>1 DEF Leave, Goto
<1>3. /\ FillFirst(j) \/ Extract(j) \/ Move(j) \/ Publish(j)
      /\ pc[j] # "idle"
  BY <1>1, <1>2 DEF JobStep, StartTraining, StartReExport, OpenAsset, FillAsset, OpenFirst, FillFirst,
     Extract, FillNative, Merge, Move, Hash, Publish, Crash, Goto
<1>4. Mine(j)
  BY <1>1, <1>3 DEF Alone, Mine, FillFirst, Extract, Move, Publish
<1>5. Progress(j)
  BY <1>3, <1>4 DEF Works
<1>6. ~Extract(j)
  <2>1. SUFFICES ASSUME Extract(j) PROVE FALSE
    OBVIOUS
  <2>2. ~disk["model"].whole /\ pc[j] = "extract"
    BY <1>1, <1>2, <2>1 DEF Extract, Goto
  <2>3. QED
    BY <1>5, <2>2 DEF Progress, Rest
<1>7. ~Move(j)
  <2>1. SUFFICES ASSUME Move(j) PROVE FALSE
    OBVIOUS
  <2>2. tmp.calibration = Nothing /\ pc[j] = "move"
    BY <1>1, <1>2, <2>1 DEF Move, Goto
  <2>3. Whole(booster[j], booster[j]) \in Content
    BY <1>1, BundleAssumption DEF Whole, Content, Trained
  <2>4. QED
    BY <1>5, <2>2, <2>3, BundleAssumption DEF Progress
<1>8. CASE FillFirst(j)
  <2>1. /\ pc[j] = "fill_first" /\ strayed' = TRUE /\ disk' = disk
        /\ manifest' = [schema |-> 1, sha |-> <<>>, whole |-> TRUE]
    BY <1>1, <1>2, <1>8 DEF FillFirst, WriteManifest, Goto
  <2>2. Rest
    BY <1>5, <2>1 DEF Progress
  <2>3. QED
    BY <1>4, <2>1, <2>2
<1>9. CASE Publish(j)
  <2>1. pc[j] = "publish"
    BY <1>9 DEF Publish
  <2>2. tmp.manifest = [schema |-> 2, sha |-> disk, whole |-> TRUE]
    BY <1>5, <2>1 DEF Progress
  <2>3. tmp.manifest # Nothing
    <3>1. tmp.manifest \in Listing
      BY <1>1, <2>2 DEF Listing
    <3>2. QED
      BY <3>1, BundleAssumption
  <2>4. disk' = disk /\ manifest' = tmp.manifest /\ strayed' = FALSE
    BY <1>9, <2>3 DEF Publish, WriteManifest
  <2>5. OneTraining(disk)
    <3>1. /\ disk["model"].whole /\ booster[j] = disk["model"].training
          /\ disk["native"] = Whole(booster[j], 0)
          /\ disk["calibration"] = Whole(booster[j], booster[j])
      BY <1>5, <2>1 DEF Progress
    <3>2. QED
      BY <1>1, <3>1 DEF OneTraining, Whole
  <2>6. QED
    BY <1>4, <2>1, <2>2, <2>4, <2>5
<1>10. QED
  BY <1>3, <1>6, <1>7, <1>8, <1>9

LEMMA LoadableStep ==
  ASSUME Types, Alone, Works, Published, IdleMeansLoadable, [Next]_vars
  PROVE  IdleMeansLoadable' /\ Published'
<1>1. pc \in [Jobs -> Places] /\ clean \in BOOLEAN
  BY DEF Types, JobTypes
<1>2. CASE UNCHANGED <<disk, manifest, pc, clean, strayed>>
  BY <1>2 DEF IdleMeansLoadable, Published, OneTraining
<1>3. ASSUME NEW j \in Jobs, JobStep(j), ~Leave(j)
      PROVE  IdleMeansLoadable' /\ Published'
  <2>1. pc'[j] # "idle" /\ (clean' => clean)
    BY <1>1, <1>3 DEF JobStep, StartTraining, StartReExport, OpenAsset, FillAsset, OpenFirst,
       FillFirst, Extract, FillNative, Merge, Move, Hash, Publish, Crash, Goto, Met
  <2>2. \/ manifest' = manifest
        \/ manifest' = [manifest EXCEPT !.whole = FALSE]
        \/ manifest' = [schema |-> 1, sha |-> <<>>, whole |-> TRUE]
    BY <1>3 DEF JobStep, StartTraining, StartReExport, OpenAsset, FillAsset, OpenFirst, FillFirst,
       Extract, FillNative, Merge, Move, Hash, Publish, Crash, WriteAsset, WriteManifest, dirVars
  <2>3. manifest \in Listing
    BY DEF Types, DirTypes
  <2>4. Published'
    <3>1. CASE manifest' = manifest
      BY <2>1, <3>1 DEF Published, OneTraining
    <3>2. CASE manifest' = [manifest EXCEPT !.whole = FALSE]
      BY <2>3, <3>2 DEF Published, Listing
    <3>3. CASE manifest' = [schema |-> 1, sha |-> <<>>, whole |-> TRUE]
      BY <3>3 DEF Published
    <3>4. QED
      BY <2>2, <3>1, <3>2, <3>3
  <2>5. QED
    BY <2>1, <2>4 DEF IdleMeansLoadable
<1>4. ASSUME NEW j \in Jobs, JobStep(j), Leave(j)
      PROVE  IdleMeansLoadable' /\ Published'
  <2>1. CASE clean'
    <3>1. \/ /\ disk' = disk /\ manifest' = [schema |-> 2, sha |-> disk, whole |-> TRUE]
             /\ OneTraining(disk) /\ ~strayed'
          \/ /\ disk' = disk /\ manifest' = [schema |-> 1, sha |-> <<>>, whole |-> TRUE]
             /\ Rest /\ strayed' = TRUE
      BY <1>4, <2>1, CleanLeave
    <3>2. CASE manifest' = [schema |-> 2, sha |-> disk, whole |-> TRUE]
      <4>1. OneTraining(disk) /\ disk' = disk /\ ~strayed'
        BY <3>1, <3>2
      <4>2. OneTraining(disk') /\ OneTraining(manifest'.sha)
        BY <3>2, <4>1
      <4>3. QED
        BY <3>2, <4>1, <4>2 DEF IdleMeansLoadable, Published, OneTraining
    <3>3. CASE manifest' = [schema |-> 1, sha |-> <<>>, whole |-> TRUE]
      <4>1. Rest /\ disk' = disk /\ strayed' = TRUE
        BY <3>1, <3>3
      <4>2. QED
        BY <3>3, <4>1 DEF IdleMeansLoadable, Published, Rest
    <3>4. QED
      BY <3>1, <3>2, <3>3
  <2>2. CASE ~clean'
    BY <2>2 DEF IdleMeansLoadable, Published
  <2>3. QED
    BY <2>1, <2>2
<1>5. CASE Look \/ OpenBundle \/ (\E f \in Files : Validate(f)) \/ ReadFile \/ UNCHANGED vars
  BY <1>2, <1>5 DEF Look, OpenBundle, Validate, ReadFile, vars, jobVars, dirVars
<1>6. QED
  BY <1>3, <1>4, <1>5 DEF Next

-----------------------------------------------------------------------------
(* Loads                                                                    *)

(* What a load that no write has overtaken has checked is still there, and  *)
(* what it has read is what it checked.                                     *)
Held ==
  /\ loader.at \in {"validate", "read"} /\ loader.clean => OneTraining(loader.sha)
  /\ loader.at = "validate" /\ ~loader.overtaken =>
       \A f \in Files \ loader.todo : disk[f] = loader.sha[f]
  /\ loader.at = "read" /\ ~loader.overtaken =>
       /\ \A f \in {"native", "calibration"} \ {ReadOrder[i] : i \in DOMAIN loader.read} :
            disk[f] = loader.sha[f]
       /\ \A b \in Content : loader.read = <<b>> => b = loader.sha["native"]

LEMMA Writes ==
  ASSUME Types, NEW j \in Jobs, JobStep(j)
  PROVE  \/ disk' = disk /\ loader' = loader
         \/ \E f \in Files, c \in Content : disk' = [disk EXCEPT ![f] = c] /\ Overtake(f)
<1>1. disk' \in [Files -> Content] /\ disk \in [Files -> Content]
  BY DirTypesStep DEF Next, Types, DirTypes
<1>2. ASSUME NEW f \in Files, NEW c, WriteAsset(f, c)
      PROVE  \E d \in Content : disk' = [disk EXCEPT ![f] = d] /\ Overtake(f)
  <2>1. disk'[f] = c /\ disk'[f] \in Content
    BY <1>1, <1>2 DEF WriteAsset
  <2>2. QED
    BY <1>2, <2>1 DEF WriteAsset
<1>3. CASE OpenAsset(j) \/ FillAsset(j)
  <2>1. next[j] \in {1, 2}
    BY <1>3 DEF OpenAsset, FillAsset, Types, JobTypes
  <2>2. Order[next[j]] \in Files /\ "model" \in Files
    BY <2>1 DEF Order, Files
  <2>3. \E f \in Files : \E c : WriteAsset(f, c)
    BY <1>3, <2>2 DEF OpenAsset, FillAsset
  <2>4. QED
    BY <1>2, <2>3
<1>4. CASE Extract(j) \/ FillNative(j) \/ Move(j)
  <2>1. \/ disk' = disk /\ loader' = loader
        \/ \E f \in Files : \E c : WriteAsset(f, c)
    BY <1>4 DEF Extract, FillNative, Move, Files, dirVars, loadVars
  <2>2. QED
    BY <1>2, <2>1
<1>5. CASE OpenFirst(j) \/ FillFirst(j) \/ Publish(j)
  BY <1>5 DEF OpenFirst, FillFirst, Publish, WriteManifest, dirVars, loadVars
<1>6. CASE StartTraining(j) \/ StartReExport(j) \/ Merge(j) \/ Hash(j) \/ Crash(j)
  BY <1>6 DEF StartTraining, StartReExport, Merge, Hash, Crash, dirVars, loadVars
<1>7. QED
  BY <1>3, <1>4, <1>5, <1>6 DEF JobStep

LEMMA HeldStep ==
  ASSUME Types, Published, Held, ServedIsOneTraining, [Next]_vars
  PROVE  Held' /\ ServedIsOneTraining'
<1>1. /\ loader \in Loads /\ disk \in [Files -> Content] /\ clean \in BOOLEAN
      /\ Files = {"model", "calibration", "native"} /\ cached \in Bundle \union {Nothing}
      /\ loader.at \in {"validate", "read"} => loader.sha \in [Files -> Content]
  BY DEF Types, LoadTypes, DirTypes, JobTypes, Files
<1>2. ASSUME NEW j \in Jobs, JobStep(j) PROVE Held' /\ ServedIsOneTraining'
  <2>1. cached' = cached /\ (loader' = loader \/ loader' = [loader EXCEPT !.overtaken = TRUE])
    BY <1>2, JobsOvertake
  <2>2. ServedIsOneTraining'
    BY <2>1 DEF ServedIsOneTraining, OneTraining
  <2>3. CASE loader' = [loader EXCEPT !.overtaken = TRUE]
    <3>1. /\ loader'.overtaken /\ loader'.sha = loader.sha /\ loader'.clean = loader.clean
          /\ loader'.at = loader.at
      BY <1>1, <2>3 DEF Loads
    <3>2. QED
      BY <2>2, <3>1 DEF Held, OneTraining
  <2>4. CASE loader' = loader /\ disk' = disk
    BY <2>2, <2>4 DEF Held, OneTraining
  <2>5. ASSUME loader' = loader, ~loader.overtaken, NEW f \in Files, NEW c \in Content,
               disk' = [disk EXCEPT ![f] = c], Overtake(f)
        PROVE  Held'
    <3>1. /\ ~(loader.at = "validate" /\ f \in DOMAIN loader.sha \ loader.todo)
          /\ ~(loader.at = "read" /\ f \notin {ReadOrder[i] : i \in DOMAIN loader.read})
      <4>1. [loader EXCEPT !.overtaken = TRUE] # loader
        BY <1>1, <2>5 DEF Loads
      <4>2. QED
        BY <2>5, <4>1 DEF Overtake
    <3>2. \A g \in Files \ {f} : disk'[g] = disk[g]
      BY <1>1, <2>5
    <3>3. loader.at = "validate" => \A g \in Files \ loader.todo : disk'[g] = loader.sha[g]
      <4>1. loader.at = "validate" => f \in loader.todo
        BY <1>1, <3>1
      <4>2. QED
        BY <2>5, <3>2, <4>1 DEF Held
    <3>4. loader.at = "read" =>
            \A g \in {"native", "calibration"} \ {ReadOrder[i] : i \in DOMAIN loader.read} :
              disk'[g] = loader.sha[g]
      BY <1>1, <2>5, <3>1, <3>2 DEF Held
    <3>5. QED
      BY <2>5, <3>3, <3>4 DEF Held, OneTraining
  <2>6. CASE loader' = loader /\ loader.overtaken
    BY <2>2, <2>6 DEF Held, OneTraining
  <2>7. QED
    BY <1>2, <2>1, <2>2, <2>3, <2>4, <2>5, <2>6, Writes
<1>3. CASE UNCHANGED <<loader, disk, cached>>
  BY <1>3 DEF Held, ServedIsOneTraining, OneTraining
<1>4. CASE GiveUp /\ disk' = disk
  BY <1>4 DEF GiveUp, IdleLoader, Held, ServedIsOneTraining, OneTraining
<1>5. CASE Look
  BY <1>5 DEF Look, IdleLoader, Held, ServedIsOneTraining, OneTraining
<1>6. CASE OpenBundle
  <2>1. CASE /\ manifest.whole /\ manifest.schema = 2 /\ GoOn
             /\ loader' = [loader EXCEPT !.at = "validate", !.sha = manifest.sha,
                                         !.todo = DOMAIN manifest.sha, !.clean = clean]
    <3>1. /\ loader'.at = "validate" /\ loader'.sha = manifest.sha /\ loader'.clean = clean
          /\ loader'.todo = DOMAIN manifest.sha
      BY <1>1, <2>1 DEF Loads
    <3>2. DOMAIN manifest.sha = Files
      BY <2>1 DEF Types, DirTypes
    <3>3. clean => OneTraining(manifest.sha)
      BY <2>1 DEF Published
    <3>4. QED
      BY <2>1, <3>1, <3>2, <3>3 DEF Held, GoOn, ServedIsOneTraining, OneTraining
  <2>2. disk' = disk
    BY <1>6 DEF OpenBundle, dirVars
  <2>3. QED
    BY <1>4, <1>6, <2>1, <2>2 DEF OpenBundle
<1>7. ASSUME NEW f \in Files, Validate(f) PROVE Held' /\ ServedIsOneTraining'
  <2>1. disk' = disk /\ loader.at = "validate" /\ loader.read = <<>>
    BY <1>7 DEF Validate, dirVars, Types, LoadTypes
  <2>2. CASE /\ Matches(f) /\ loader' = [loader EXCEPT !.todo = @ \ {f}] /\ GoOn
    <3>1. /\ loader'.at = "validate" /\ loader'.sha = loader.sha /\ loader'.clean = loader.clean
          /\ loader'.todo = loader.todo \ {f} /\ loader'.overtaken = loader.overtaken
      BY <1>1, <2>1, <2>2 DEF Loads
    <3>2. ~loader.overtaken => \A g \in Files \ (loader.todo \ {f}) : disk[g] = loader.sha[g]
      BY <2>1, <2>2 DEF Held, Matches
    <3>3. QED
      BY <2>1, <2>2, <3>1, <3>2 DEF Held, GoOn, ServedIsOneTraining, OneTraining
  <2>3. CASE /\ Matches(f) /\ loader.todo = {f} /\ GoOn
             /\ loader' = [loader EXCEPT !.at = "read", !.todo = {}]
    <3>1. /\ loader'.at = "read" /\ loader'.sha = loader.sha /\ loader'.clean = loader.clean
          /\ loader'.read = <<>> /\ loader'.overtaken = loader.overtaken
      BY <1>1, <2>1, <2>3 DEF Loads
    <3>2. ~loader.overtaken => \A g \in Files : disk[g] = loader.sha[g]
      BY <2>1, <2>3 DEF Held, Matches
    <3>3. \A b \in Content : <<>> # <<b>>
      OBVIOUS
    <3>4. QED
      BY <1>1, <2>1, <2>3, <3>1, <3>2, <3>3 DEF Held, GoOn, ServedIsOneTraining, OneTraining
  <2>4. QED
    BY <1>4, <1>7, <2>1, <2>2, <2>3 DEF Validate
<1>8. CASE ReadFile
  <2>1. /\ disk' = disk /\ loader.at = "read" /\ disk["native"] \in Content
        /\ disk["calibration"] \in Content
    BY <1>1, <1>8 DEF ReadFile, dirVars
  <2>2. CASE /\ loader.read = <<>> /\ loader' = [loader EXCEPT !.read = <<disk["native"]>>]
             /\ GoOn
    <3>1. /\ loader'.at = "read" /\ loader'.sha = loader.sha /\ loader'.clean = loader.clean
          /\ loader'.read = <<disk["native"]>> /\ loader'.overtaken = loader.overtaken
      BY <1>1, <2>1, <2>2 DEF Loads
    <3>2. /\ {ReadOrder[i] : i \in DOMAIN loader.read} = {}
      BY <2>2
    <3>3. ~loader.overtaken =>
            disk["native"] = loader.sha["native"] /\ disk["calibration"] = loader.sha["calibration"]
      BY <2>1, <3>2 DEF Held
    <3>4. {ReadOrder[i] : i \in DOMAIN loader'.read} = {"native"}
      BY <3>1 DEF ReadOrder
    <3>5. \A b \in Content : <<disk["native"]>> = <<b>> => b = disk["native"]
      OBVIOUS
    <3>6. QED
      BY <2>1, <2>2, <3>1, <3>3, <3>4, <3>5 DEF Held, GoOn, ServedIsOneTraining, OneTraining
  <2>3. ASSUME NEW b \in Content, loader.read = <<b>>, loader' = IdleLoader,
               cached' = [files |-> Loaded(b, disk["calibration"]), sha |-> loader.sha,
                          overtaken |-> loader.overtaken, clean |-> loader.clean]
        PROVE  Held' /\ ServedIsOneTraining'
    <3>1. Held'
      BY <2>3 DEF Held, IdleLoader
    <3>2. ASSUME loader.clean, ~loader.overtaken PROVE OneTraining(cached'.files)
      <4>1. OneTraining(loader.sha) /\ b = loader.sha["native"]
        BY <2>1, <2>3, <3>2 DEF Held
      <4>2. {ReadOrder[i] : i \in DOMAIN loader.read} = {"native"}
        BY <2>3 DEF ReadOrder
      <4>3. disk["calibration"] = loader.sha["calibration"]
        BY <2>1, <3>2, <4>2 DEF Held
      <4>4. /\ cached'.files = Loaded(b, disk["calibration"])
            /\ DOMAIN loader.sha = Files
        BY <1>1, <2>1, <2>3
      <4>5. QED
        BY <1>1, <4>1, <4>3, <4>4 DEF OneTraining, Loaded
    <3>3. cached'.clean = loader.clean /\ cached'.overtaken = loader.overtaken
      BY <2>3
    <3>4. QED
      BY <3>1, <3>2, <3>3 DEF ServedIsOneTraining, OneTraining
  <2>4. QED
    BY <1>4, <1>8, <2>1, <2>2, <2>3, ReadFileCases
<1>9. CASE UNCHANGED vars
  BY <1>3, <1>9 DEF vars, dirVars, loadVars
<1>10. QED
  BY <1>2, <1>5, <1>6, <1>7, <1>8, <1>9 DEF Next

-----------------------------------------------------------------------------
Bundled == Types /\ Alone /\ Works /\ Published /\ IdleMeansLoadable /\ Held /\ ServedIsOneTraining

LEMMA BundledAlways == Spec => []Bundled
<1>1. ASSUME Init PROVE Bundled
  <2>1. Types
    BY <1>1, TypesStart
  <2>2. Alone /\ Works
    BY <1>1 DEF Init, Alone, Works, Mine
  <2>3. OneTraining(disk) /\ manifest.sha = disk
    BY <1>1 DEF Init, OneTraining, Whole, Files
  <2>4. QED
    BY <1>1, <2>1, <2>2, <2>3 DEF Init, Bundled, Published, IdleMeansLoadable, Held, IdleLoader,
       ServedIsOneTraining
<1>2. ASSUME Bundled, [Next]_vars PROVE Bundled'
  <2>1. Types'
    BY <1>2, TypesStep DEF Bundled
  <2>2. Alone'
    BY <1>2, AloneStep DEF Bundled
  <2>3. Works'
    BY <1>2, <2>2, WorksStep DEF Bundled
  <2>4. IdleMeansLoadable' /\ Published'
    BY <1>2, LoadableStep DEF Bundled
  <2>5. Held' /\ ServedIsOneTraining'
    BY <1>2, HeldStep DEF Bundled
  <2>6. QED
    BY <2>1, <2>2, <2>3, <2>4, <2>5 DEF Bundled
<1>3. QED
  BY <1>1, <1>2, PTL DEF Spec

(* Files, manifest and times have their types, a dated file has a time, and *)
(* a job that is not at work holds nothing, of any number of jobs, trainings *)
(* and deaths.                                                              *)
THEOREM BundleTypesCorrect == Spec => []TypeOK
<1>1. Bundled => TypeOK
  <2>1. SUFFICES ASSUME Types, Alone PROVE TypeOK
    BY DEF Bundled
  <2>2. /\ disk \in [Files -> Content] /\ manifest.schema \in {1, 2}
        /\ \A f \in DOMAIN manifest.sha : manifest.sha[f] \in Content
    BY <2>1 DEF Types, DirTypes, Listing
  <2>3. time \in [Stamps -> 0..Cardinality(Stamps)]
    <3>1. PICK c \in Nat : c = Cardinality(Stamps)
      BY StampsAreFew, FS_CardinalityType
    <3>2. time \in [Stamps -> Nat] /\ \A s \in Stamps : time[s] <= c
      BY <2>1, <3>1 DEF Types, TimeTypes, Low, Times
    <3>3. time \in [Stamps -> 0..c]
      BY <3>2
    <3>4. QED
      BY <3>1, <3>3
  <2>4. (\A f \in Dated : time[f] > 0) /\ (cached = Nothing) = (time["cached"] = 0)
    BY <2>1 DEF Types, TimeTypes
  <2>5. QED
    BY <2>1, <2>2, <2>3, <2>4 DEF TypeOK, Alone
<1>2. QED
  BY <1>1, BundledAlways, PTL

(* Of any number of jobs, trainings and deaths: what is served from the     *)
(* cache is of one training, unless a file was rewritten between its check  *)
(* and its reading or the manifest was not made by a job that ran alone     *)
(* (load_runtime_bundle, _validate_manifest).                               *)
THEOREM BundleOfOneTraining == Spec => []ServedIsOneTraining
<1>1. Bundled => ServedIsOneTraining
  BY DEF Bundled
<1>2. QED
  BY <1>1, BundledAlways, PTL

(* Of any number of jobs, trainings and deaths: when no job is at work and  *)
(* the directory is clean, its manifest is the one a loader takes, and      *)
(* lists what is on the disk, all of it of one training; or the last        *)
(* training was run for another directory, and the manifest is one no       *)
(* loader takes, beside a model and a calibration of one training           *)
(* (_full_retrain, _re_export_only).                                        *)
THEOREM RestingIsLoadable == Spec => []IdleMeansLoadable
<1>1. Bundled => IdleMeansLoadable
  BY DEF Bundled
<1>2. QED
  BY <1>1, BundledAlways, PTL

-----------------------------------------------------------------------------
(* The key of the cache                                                     *)

(* A time that is later than all that a loader compares.                    *)
After(t, s) == \A u \in Dated \union {"key", "cached"} : t[u] < t[s]

(* The times a job at place p leaves, if it runs alone: a copy is about to  *)
(* bring the time of the dump, which no key has and which is the newest but *)
(* for that of the file being copied; a file that is about to be moved is   *)
(* newer than all.                                                          *)
Timely(t, p, n) ==
  /\ p \in {"open", "fill"} /\ n = 1 =>
       /\ t["dump"] # t["cached"] /\ t["dump"] # t["key"]
       /\ \A f \in Dated \ {"model"} : t[f] < t["dump"]
       /\ IF p = "open" THEN t["model"] < t["dump"] ELSE t["dump"] < t["model"]
  /\ p = "move" => After(t, "tmp_calibration")
  /\ p = "publish" => After(t, "tmp_manifest")

Timed == \A j \in Jobs : pc[j] # "idle" /\ Mine(j) => Timely(time, pc[j], next[j])

LEMMA StampNames ==
  /\ Dated = {"model", "calibration", "native", "manifest"} /\ Dated \subseteq Stamps
  /\ Stamps = {"model", "calibration", "native", "manifest", "dump", "tmp_calibration",
               "tmp_manifest", "key", "cached"}
BY DEF Stamps, Dated, Files

LEMMA TimelyKept ==
  ASSUME NEW t \in Times, NEW r \in Times, SameOrder(t, r), NEW p, NEW n, Timely(t, p, n)
  PROVE  Timely(r, p, n)
<1>1. ASSUME NEW u \in Stamps, NEW v \in Stamps
      PROVE  (t[u] < t[v] <=> r[u] < r[v]) /\ (t[u] # t[v] <=> r[u] # r[v])
  <2>1. t[u] \in Nat /\ t[v] \in Nat /\ r[u] \in Nat /\ r[v] \in Nat
    BY DEF Times
  <2>2. (t[u] < t[v] <=> r[u] < r[v]) /\ (t[v] < t[u] <=> r[v] < r[u])
    BY DEF SameOrder
  <2>3. QED
    BY <2>1, <2>2
<1>2. CASE p \in {"open", "fill"} /\ n = 1
  BY <1>1, <1>2, StampNames DEF Timely
<1>3. CASE p = "move"
  BY <1>1, <1>3, StampNames DEF Timely, After
<1>4. CASE p = "publish"
  BY <1>1, <1>4, StampNames DEF Timely, After
<1>5. QED
  BY <1>2, <1>3, <1>4 DEF Timely

(* A loader does not disturb them.                                          *)
LEMMA LoaderIsTimely ==
  ASSUME time \in Times, \A f \in Dated : time[f] > 0, NEW p, NEW n, Timely(time, p, n),
         SetTime("key", 0) \/ SetTime("key", Key) \/ MoveTime("cached", "key")
  PROVE  Timely(time', p, n)
<1>1. \A s \in Stamps : time[s] \in Nat
  BY DEF Times
<1>2. Key \in Nat /\ (\E f \in Dated : time[f] = Key) /\ \A f \in Dated : time[f] <= Key
  BY KeyIsGreatest
<1>3. ASSUME NEW x \in Nat, x = 0 \/ x = Key PROVE Timely([time EXCEPT !["key"] = x], p, n)
  <2>1. PICK t \in Times : t = [time EXCEPT !["key"] = x]
    BY DEF Times
  <2>2. t["key"] = x /\ \A s \in Stamps \ {"key"} : t[s] = time[s]
    BY <2>1, StampNames DEF Times
  <2>3. CASE p \in {"open", "fill"} /\ n = 1
    <3>1. t["dump"] # x
      <4>1. \A f \in Dated \ {"model"} : time[f] < time["dump"]
        BY <2>3 DEF Timely
      <4>2. CASE x = 0
        BY <1>1, <2>2, <4>1, <4>2, StampNames
      <4>3. CASE x = Key
        <5>1. CASE p = "open"
          <6>1. \A f \in Dated : time[f] < time["dump"]
            BY <2>3, <4>1, <5>1 DEF Timely
          <6>2. QED
            BY <1>1, <1>2, <2>2, <4>3, <6>1, StampNames
        <5>2. CASE p # "open"
          <6>1. time["dump"] < time["model"] /\ time["model"] <= Key
            BY <1>2, <2>3, <5>2, StampNames DEF Timely
          <6>2. QED
            BY <1>1, <1>2, <2>2, <4>3, <6>1, StampNames
        <5>3. QED
          BY <5>1, <5>2
      <4>4. QED
        BY <1>3, <4>2, <4>3
    <3>2. QED
      BY <2>1, <2>2, <2>3, <3>1, StampNames DEF Timely
  <2>4. ASSUME NEW s \in {"tmp_calibration", "tmp_manifest"}, After(time, s) PROVE After(t, s)
    <3>1. x < time[s]
      BY <1>1, <1>2, <1>3, <2>4, StampNames DEF After
    <3>2. QED
      BY <2>2, <2>4, <3>1, StampNames DEF After
  <2>5. QED
    BY <2>1, <2>3, <2>4 DEF Timely
<1>4. Timely([time EXCEPT !["cached"] = time["key"], !["key"] = 0], p, n)
  <2>1. PICK t \in Times : t = [time EXCEPT !["cached"] = time["key"], !["key"] = 0]
    BY <1>1, StampNames DEF Times
  <2>2. /\ t["key"] = 0 /\ t["cached"] = time["key"]
        /\ \A s \in Stamps \ {"key", "cached"} : t[s] = time[s]
    BY <2>1, StampNames DEF Times
  <2>3. CASE p \in {"open", "fill"} /\ n = 1
    <3>1. time["manifest"] < time["dump"] /\ time["dump"] # time["key"]
      BY <2>3, StampNames DEF Timely
    <3>2. t["dump"] # 0
      BY <1>1, <2>2, <3>1, StampNames
    <3>3. QED
      BY <2>1, <2>2, <2>3, <3>1, <3>2, StampNames DEF Timely
  <2>4. ASSUME NEW s \in {"tmp_calibration", "tmp_manifest"}, After(time, s) PROVE After(t, s)
    <3>1. 0 < time[s] /\ time["key"] < time[s]
      BY <1>1, <2>4, StampNames DEF After
    <3>2. QED
      BY <2>2, <2>4, <3>1, StampNames DEF After
  <2>5. QED
    BY <2>1, <2>3, <2>4 DEF Timely
<1>5. CASE SetTime("key", 0) \/ SetTime("key", Key)
  <2>1. PICK x \in Nat : (x = 0 \/ x = Key) /\ SetTime("key", x)
    BY <1>2, <1>5
  <2>2. Becomes([time EXCEPT !["key"] = x])
    BY <2>1, TimeIsSet, StampNames
  <2>3. QED
    BY <1>3, <2>1, <2>2, TimelyKept DEF Becomes
<1>6. CASE MoveTime("cached", "key")
  <2>1. Becomes([time EXCEPT !["cached"] = time["key"], !["key"] = 0])
    BY <1>6, TimeIsMoved, StampNames
  <2>2. QED
    BY <1>4, <2>1, TimelyKept DEF Becomes
<1>7. QED
  BY <1>5, <1>6

LEMMA JobIsTimely ==
  ASSUME Types, Alone, Timed, NEW j \in Jobs, JobStep(j), pc'[j] # "idle", Mine(j)'
  PROVE  Timely(time', pc'[j], next'[j])
<1>1. /\ pc \in [Jobs -> Places] /\ full \in [Jobs -> BOOLEAN] /\ alone \in [Jobs -> BOOLEAN]
      /\ clean \in BOOLEAN /\ next \in [Jobs -> 0..3]
      /\ (pc[j] \in {"open", "fill"} => next[j] \in {1, 2})
      /\ time \in Times /\ Now \in Nat /\ (\A s \in Stamps : time[s] < Now /\ time[s] \in Nat)
  BY NowIsLater DEF Types, JobTypes, TimeTypes, Times
<1>2. ASSUME NEW s \in Stamps, SetTime(s, Now)
      PROVE  \E t \in Times : /\ Becomes(t) /\ t[s] = Now
                             /\ \A u \in Stamps \ {s} : t[u] = time[u] /\ t[u] < t[s]
  <2>1. Becomes([time EXCEPT ![s] = Now])
    BY <1>1, <1>2, TimeIsSet
  <2>2. PICK t \in Times : t = [time EXCEPT ![s] = Now]
    BY <2>1 DEF Becomes
  <2>3. t[s] = Now /\ \A u \in Stamps \ {s} : t[u] = time[u]
    BY <1>1, <2>2 DEF Times
  <2>4. QED
    BY <1>1, <2>1, <2>2, <2>3
<1>3. CASE StartTraining(j)
  <2>1. pc'[j] = "open" /\ next'[j] = 1 /\ SetTime("dump", Now)
    BY <1>1, <1>3 DEF StartTraining, Goto
  <2>2. PICK t \in Times : Becomes(t) /\ \A u \in Stamps \ {"dump"} : t[u] < t["dump"]
    BY <1>2, <2>1, StampNames
  <2>3. Timely(t, "open", 1)
    <3>1. t["cached"] \in Nat /\ t["key"] \in Nat /\ t["dump"] \in Nat
      BY StampNames DEF Times
    <3>2. t["cached"] < t["dump"] /\ t["key"] < t["dump"]
      BY <2>2, StampNames
    <3>3. QED
      BY <2>2, <3>1, <3>2, StampNames DEF Timely
  <2>4. QED
    BY <2>1, <2>2, <2>3, TimelyKept DEF Becomes
<1>4. CASE StartReExport(j)
  <2>1. pc'[j] = "extract"
    BY <1>1, <1>4 DEF StartReExport, Goto
  <2>2. QED
    BY <2>1 DEF Timely
<1>5. CASE OpenAsset(j)
  <2>1. /\ pc'[j] = "fill" /\ pc[j] = "open" /\ next' = next /\ UNCHANGED <<full, alone, clean>>
    BY <1>1, <1>5 DEF OpenAsset, Goto
  <2>2. CASE next[j] # 1
    BY <2>1, <2>2 DEF Timely
  <2>3. CASE next[j] = 1
    <3>1. SetTime("model", Now)
      BY <1>5, <2>3 DEF OpenAsset, Order
    <3>2. PICK t \in Times : /\ Becomes(t)
                            /\ \A u \in Stamps \ {"model"} : t[u] = time[u] /\ t[u] < t["model"]
      BY <1>2, <3>1, StampNames
    <3>3. Timely(time, "open", 1)
      BY <2>1, <2>3 DEF Timed, Mine
    <3>4. Timely(t, "fill", 1)
      BY <3>2, <3>3, StampNames DEF Timely
    <3>5. QED
      BY <2>1, <2>3, <3>2, <3>4, TimelyKept DEF Becomes
  <2>4. QED
    BY <2>2, <2>3
<1>6. CASE FillAsset(j)
  <2>1. next'[j] # 1 /\ pc'[j] \in {"open", "open_first"}
    <3>1. next[j] \in {1, 2} /\ next'[j] = next[j] + 1 /\ pc'[j] \in {"open", "open_first"}
      BY <1>1, <1>6 DEF FillAsset, Goto
    <3>2. QED
      BY <3>1
  <2>2. QED
    BY <2>1 DEF Timely
<1>7. CASE OpenFirst(j) \/ FillFirst(j) \/ Extract(j) \/ FillNative(j) \/ Move(j) \/ Publish(j) \/ Crash(j)
  <2>1. pc'[j] \in {"fill_first", "extract", "fill_native", "merge", "hash"}
    BY <1>1, <1>7 DEF OpenFirst, FillFirst, Extract, FillNative, Move, Publish, Crash, Goto, Leave
  <2>2. QED
    BY <2>1 DEF Timely
<1>8. CASE Merge(j)
  <2>1. pc'[j] = "move" /\ SetTime("tmp_calibration", Now)
    BY <1>1, <1>8 DEF Merge, Goto
  <2>2. PICK t \in Times : /\ Becomes(t)
                          /\ \A u \in Stamps \ {"tmp_calibration"} : t[u] < t["tmp_calibration"]
    BY <1>2, <2>1, StampNames
  <2>3. Timely(t, "move", next'[j])
    BY <2>2, StampNames DEF Timely, After
  <2>4. QED
    BY <2>1, <2>2, <2>3, TimelyKept DEF Becomes
<1>9. CASE Hash(j)
  <2>1. pc'[j] = "publish" /\ SetTime("tmp_manifest", Now)
    BY <1>1, <1>9 DEF Hash, Goto
  <2>2. PICK t \in Times : /\ Becomes(t)
                          /\ \A u \in Stamps \ {"tmp_manifest"} : t[u] < t["tmp_manifest"]
    BY <1>2, <2>1, StampNames
  <2>3. Timely(t, "publish", next'[j])
    BY <2>2, StampNames DEF Timely, After
  <2>4. QED
    BY <2>1, <2>2, <2>3, TimelyKept DEF Becomes
<1>10. QED
  BY <1>3, <1>4, <1>5, <1>6, <1>7, <1>8, <1>9 DEF JobStep

LEMMA TimedStep ==
  ASSUME Types, Alone, Alone', Timed, [Next]_vars
  PROVE  Timed'
<1>1. ASSUME NEW j \in Jobs, JobStep(j) PROVE Timed'
  <2>1. ASSUME NEW k \in Jobs, pc'[k] # "idle", Mine(k)' PROVE Timely(time', pc'[k], next'[k])
    <3>1. k = j
      BY <1>1, <2>1, OnlyOneWorks DEF Mine
    <3>2. QED
      BY <1>1, <2>1, <3>1, JobIsTimely
  <2>2. QED
    BY <2>1 DEF Timed
<1>2. ASSUME UNCHANGED <<pc, full, next, alone, clean>>,
             \/ time' = time
             \/ SetTime("key", 0) \/ SetTime("key", Key) \/ MoveTime("cached", "key")
      PROVE  Timed'
  <2>1. time \in Times /\ \A f \in Dated : time[f] > 0
    BY DEF Types, TimeTypes
  <2>2. ASSUME NEW k \in Jobs, pc'[k] # "idle", Mine(k)' PROVE Timely(time', pc'[k], next'[k])
    <3>1. PICK p, n : p = pc[k] /\ n = next[k]
      OBVIOUS
    <3>2. Timely(time, p, n)
      BY <1>2, <2>2, <3>1 DEF Timed, Mine
    <3>3. Timely(time', p, n)
      <4>1. CASE time' = time
        BY <3>2, <4>1
      <4>2. CASE time' # time
        BY <1>2, <2>1, <3>2, <4>2, LoaderIsTimely
      <4>3. QED
        BY <4>1, <4>2
    <3>4. QED
      BY <1>2, <3>1, <3>3
  <2>3. QED
    BY <2>2 DEF Timed
<1>3. CASE Look \/ OpenBundle \/ (\E f \in Files : Validate(f)) \/ UNCHANGED vars
  BY <1>2, <1>3 DEF Look, OpenBundle, Validate, vars, jobVars, GiveUp, GoOn
<1>4. CASE ReadFile
  <2>1. UNCHANGED <<pc, full, next, alone, clean>>
    BY <1>4 DEF ReadFile, jobVars
  <2>2. GiveUp \/ GoOn \/ MoveTime("cached", "key")
    BY <1>4, ReadFileCases
  <2>3. QED
    BY <1>2, <2>1, <2>2 DEF GiveUp, GoOn
<1>5. QED
  BY <1>1, <1>3, <1>4 DEF Next

(* Whose key is the newest time has the manifest that is there.             *)
Current ==
  /\ clean /\ manifest.whole /\ loader.at \in {"validate", "read"} /\ Newest(time, "key")
       => loader.sha = manifest.sha
  /\ clean /\ manifest.whole /\ Newest(time, "cached") => cached.sha = manifest.sha

(* A new time of a dated file is the newest; a time of another stamp        *)
(* changes nothing for a key.                                               *)
LEMMA Outdone ==
  ASSUME time \in Times, NEW t \in Times, Becomes(t), NEW s \in {"key", "cached"},
         NEW f \in Dated, t[s] < t[f]
  PROVE  ~Newest(time', s)
<1>1. t[s] \in Nat /\ t[f] \in Nat /\ s \in Stamps
  BY StampNames DEF Times
<1>2. ~Newest(t, s)
  BY <1>1 DEF Newest
<1>3. QED
  BY <1>1, <1>2, NewestKept DEF Becomes

LEMMA NotOutdone ==
  ASSUME time \in Times, NEW t \in Times, Becomes(t), NEW s \in {"key", "cached"},
         \A u \in Dated \union {s} : t[u] = time[u]
  PROVE  Newest(time', s) <=> Newest(time, s)
<1>1. s \in Stamps
  BY StampNames
<1>2. Newest(t, s) <=> Newest(time, s)
  BY DEF Newest
<1>3. QED
  BY <1>1, <1>2, NewestKept DEF Becomes

(* After the step of a job, whose key is the newest time of a clean         *)
(* directory had it before, and the manifest is the one that was there.     *)
LEMMA JobsOutdo ==
  ASSUME Types, Alone, Timed, NEW j \in Jobs, JobStep(j), NEW s \in {"key", "cached"},
         clean', manifest'.whole, Newest(time', s)
  PROVE  clean /\ manifest' = manifest /\ Newest(time, s)
<1>1. /\ pc \in [Jobs -> Places] /\ alone \in [Jobs -> BOOLEAN] /\ full \in [Jobs -> BOOLEAN]
      /\ clean \in BOOLEAN /\ (pc[j] \in {"open", "fill"} => next[j] \in {1, 2})
      /\ time \in Times /\ Now \in Nat /\ (\A u \in Stamps : time[u] < Now /\ time[u] \in Nat)
      /\ s \in Stamps /\ s \notin Dated /\ manifest \in Listing
  BY NowIsLater, StampNames DEF Types, JobTypes, TimeTypes, Times, DirTypes
<1>2. ASSUME NEW f \in Dated, SetTime(f, Now) PROVE FALSE
  <2>1. Becomes([time EXCEPT ![f] = Now])
    BY <1>1, <1>2, TimeIsSet, StampNames
  <2>2. PICK t \in Times : t = [time EXCEPT ![f] = Now]
    BY <2>1 DEF Becomes
  <2>3. t[f] = Now /\ t[s] = time[s]
    BY <1>1, <2>2, StampNames DEF Times
  <2>4. QED
    BY <1>1, <2>1, <2>2, <2>3, Outdone, ZenonT(40)
<1>3. ASSUME NEW v \in {"dump", "tmp_calibration", "tmp_manifest"}, SetTime(v, Now)
      PROVE  Newest(time, s)
  <2>1. Becomes([time EXCEPT ![v] = Now])
    BY <1>1, <1>3, TimeIsSet, StampNames
  <2>2. PICK t \in Times : t = [time EXCEPT ![v] = Now]
    BY <2>1 DEF Becomes
  <2>3. \A u \in Dated \union {s} : t[u] = time[u]
    BY <1>1, <2>2, StampNames DEF Times
  <2>4. QED
    BY <1>1, <2>1, <2>2, <2>3, NotOutdone
<1>4. ASSUME NEW f \in Dated, NEW v \in {"tmp_calibration", "tmp_manifest"}, MoveTime(f, v),
             After(time, v)
      PROVE  FALSE
  <2>1. Becomes([time EXCEPT ![f] = time[v], ![v] = 0])
    BY <1>1, <1>4, TimeIsMoved, StampNames
  <2>2. PICK t \in Times : t = [time EXCEPT ![f] = time[v], ![v] = 0]
    BY <2>1 DEF Becomes
  <2>3. t[f] = time[v] /\ t[s] = time[s]
    BY <1>1, <2>2, StampNames DEF Times
  <2>4. time[s] < time[v]
    BY <1>4 DEF After
  <2>5. QED
    BY <1>1, <2>1, <2>2, <2>3, <2>4, Outdone
<1>5. ASSUME pc[j] # "idle", clean \/ (full[j] /\ alone[j])
      PROVE  Timely(time, pc[j], next[j])
  BY <1>5 DEF Timed, Mine, Alone
<1>6. CASE StartTraining(j)
  BY <1>1, <1>3, <1>6 DEF StartTraining, dirVars, Met
<1>7. CASE StartReExport(j)
  BY <1>1, <1>7 DEF StartReExport, dirVars, Met
<1>8. CASE OpenAsset(j)
  <2>1. Order[next[j]] \in Dated
    BY <1>1, <1>8, StampNames DEF OpenAsset, Order
  <2>2. QED
    BY <1>2, <1>8, <2>1 DEF OpenAsset
<1>9. CASE FillAsset(j)
  <2>1. CASE next[j] = 1
    <3>0. Order[next[j]] = "model"
      BY <2>1 DEF Order
    <3>1. SetTime("model", time["dump"]) /\ clean' = clean /\ pc[j] = "fill"
      BY <1>9, <3>0 DEF FillAsset
    <3>2. Timely(time, "fill", 1)
      BY <1>5, <2>1, <3>1
    <3>3. /\ time["dump"] # time[s]
          /\ \A f \in Dated \ {"model"} : time[f] < time["dump"]
      BY <3>2 DEF Timely
    <3>4. Becomes([time EXCEPT !["model"] = time["dump"]])
      BY <1>1, <3>1, TimeIsSet, StampNames
    <3>5. PICK t \in Times : t = [time EXCEPT !["model"] = time["dump"]]
      BY <3>4 DEF Becomes
    <3>6. t["model"] = time["dump"] /\ \A u \in Stamps \ {"model"} : t[u] = time[u]
      BY <1>1, <3>5, StampNames DEF Times
    <3>7. ~Newest(t, s)
      <4>1. t[s] = time[s] /\ t[s] \in Nat /\ t["model"] \in Nat /\ t["model"] # t[s]
        BY <1>1, <3>3, <3>6, StampNames DEF Times
      <4>2. CASE t[s] < t["model"]
        BY <4>1, <4>2, StampNames DEF Newest
      <4>3. CASE t["model"] < t[s]
        <5>1. ASSUME NEW f \in Dated PROVE t[f] # t[s]
          <6>1. CASE f = "model"
            BY <4>1, <6>1
          <6>2. CASE f # "model"
            <7>1. t[f] < t["model"] /\ t[f] \in Nat
              BY <1>1, <3>3, <3>6, <6>2, StampNames
            <7>2. QED
              BY <4>1, <4>3, <7>1
          <6>3. QED
            BY <6>1, <6>2
        <5>2. QED
          BY <5>1 DEF Newest
      <4>4. QED
        BY <4>1, <4>2, <4>3
    <3>8. QED
      BY <1>1, <3>4, <3>5, <3>7, NewestKept DEF Becomes
  <2>2. CASE next[j] = 2
    <3>1. SetTime("calibration", Now)
      BY <1>9, <2>2 DEF FillAsset, Order
    <3>2. QED
      BY <1>2, <3>1, StampNames
  <2>3. QED
    BY <1>1, <1>9, <2>1, <2>2 DEF FillAsset
<1>10. CASE OpenFirst(j) \/ FillFirst(j) \/ FillNative(j)
  BY <1>2, <1>10, StampNames DEF OpenFirst, FillFirst, FillNative
<1>11. CASE Extract(j)
  <2>1. CASE SetTime("native", Now)
    BY <1>2, <2>1, StampNames
  <2>2. CASE UNCHANGED <<manifest, time>>
    BY <1>11, <2>2 DEF Extract
  <2>3. QED
    BY <1>11, <2>1, <2>2 DEF Extract
<1>12. CASE Merge(j) \/ Hash(j)
  BY <1>3, <1>12 DEF Merge, Hash
<1>13. CASE Move(j)
  <2>1. pc[j] = "move" /\ clean' = clean
    BY <1>13 DEF Move
  <2>2. After(time, "tmp_calibration")
    BY <1>5, <2>1 DEF Timely
  <2>3. CASE MoveTime("calibration", "tmp_calibration")
    BY <1>4, <2>2, <2>3, StampNames
  <2>4. CASE UNCHANGED <<dirVars, time>>
    BY <2>1, <2>4 DEF dirVars
  <2>5. QED
    BY <1>13, <2>3, <2>4 DEF Move
<1>14. CASE Publish(j)
  <2>1. pc[j] = "publish"
    BY <1>14 DEF Publish
  <2>2. CASE MoveTime("manifest", "tmp_manifest") /\ clean' = (clean \/ (full[j] /\ alone[j]))
    <3>1. After(time, "tmp_manifest")
      BY <1>5, <2>1, <2>2 DEF Timely
    <3>2. QED
      BY <1>4, <2>2, <3>1, StampNames
  <2>3. CASE UNCHANGED <<dirVars, time, clean>>
    BY <2>3 DEF dirVars
  <2>4. QED
    BY <1>14, <2>2, <2>3 DEF Publish
<1>15. CASE Crash(j)
  BY <1>15 DEF Crash
<1>16. QED
  BY <1>6, <1>7, <1>8, <1>9, <1>10, <1>11, <1>12, <1>13, <1>14, <1>15 DEF JobStep

LEMMA CurrentStep ==
  ASSUME Types, Alone, Timed, Current, [Next]_vars
  PROVE  Current'
<1>1. /\ loader \in Loads /\ time \in Times /\ clean \in BOOLEAN
      /\ (\A f \in Dated : time[f] > 0) /\ Key \in Nat
  BY KeyIsGreatest DEF Types, LoadTypes, TimeTypes, JobTypes
<1>2. ASSUME NEW j \in Jobs, JobStep(j) PROVE Current'
  <2>1. /\ loader'.at = loader.at /\ loader'.sha = loader.sha /\ cached' = cached
    BY <1>1, <1>2, JobsOvertake DEF Loads
  <2>2. \A s \in {"key", "cached"} : clean' /\ manifest'.whole /\ Newest(time', s)
          => clean /\ manifest' = manifest /\ Newest(time, s)
    BY <1>2, JobsOutdo
  <2>3. QED
    BY <2>1, <2>2 DEF Current
<1>3. CASE UNCHANGED <<clean, manifest, loader, time, cached>>
  BY <1>3 DEF Current, Newest
<1>4. ASSUME NEW x \in Nat, SetTime("key", x), UNCHANGED <<clean, manifest, cached>>,
             loader'.at \notin {"validate", "read"}
      PROVE  Current'
  <2>1. Becomes([time EXCEPT !["key"] = x])
    BY <1>1, <1>4, TimeIsSet, StampNames
  <2>2. PICK t \in Times : t = [time EXCEPT !["key"] = x]
    BY <2>1 DEF Becomes
  <2>3. \A u \in Dated \union {"cached"} : t[u] = time[u]
    BY <1>1, <2>2, StampNames DEF Times
  <2>4. Newest(time', "cached") <=> Newest(time, "cached")
    BY <1>1, <2>1, <2>2, <2>3, NotOutdone
  <2>5. QED
    BY <1>4, <2>4 DEF Current
<1>5. CASE GiveUp /\ UNCHANGED <<clean, manifest>>
  BY <1>4, <1>5 DEF GiveUp, IdleLoader
<1>6. CASE GoOn /\ UNCHANGED <<clean, manifest>> /\ loader'.at \in {"validate", "read"}
           /\ \/ loader'.sha = manifest.sha
              \/ loader.at \in {"validate", "read"} /\ loader'.sha = loader.sha
  BY <1>6 DEF Current, GoOn, Newest
<1>7. CASE Look
  BY <1>1, <1>4, <1>7 DEF Look, IdleLoader, dirVars
<1>8. CASE OpenBundle
  <2>1. UNCHANGED <<clean, manifest>>
    BY <1>8 DEF OpenBundle, dirVars
  <2>2. CASE /\ GoOn
             /\ loader' = [loader EXCEPT !.at = "validate", !.sha = manifest.sha,
                                         !.todo = DOMAIN manifest.sha, !.clean = clean]
    <3>1. loader'.at \in {"validate", "read"} /\ loader'.sha = manifest.sha
      BY <1>1, <2>2 DEF Loads
    <3>2. GoOn
      BY <2>2
    <3>3. QED
      BY <1>6, <2>1, <3>1, <3>2
  <2>3. QED
    BY <1>5, <1>8, <2>1, <2>2 DEF OpenBundle
<1>9. ASSUME NEW f \in Files, Validate(f) PROVE Current'
  <2>1. UNCHANGED <<clean, manifest>> /\ loader.at = "validate"
    BY <1>9 DEF Validate, dirVars
  <2>2. CASE /\ GoOn
             /\ \/ loader' = [loader EXCEPT !.todo = @ \ {f}]
                \/ loader' = [loader EXCEPT !.at = "read", !.todo = {}]
    <3>1. loader'.at \in {"validate", "read"} /\ loader'.sha = loader.sha
      BY <1>1, <2>1, <2>2 DEF Loads
    <3>2. GoOn /\ UNCHANGED <<clean, manifest>> /\ loader.at \in {"validate", "read"}
      BY <2>1, <2>2
    <3>3. QED
      BY <1>6, <3>1, <3>2
  <2>3. QED
    BY <1>5, <1>9, <2>1, <2>2 DEF Validate
<1>10. CASE ReadFile
  <2>1. UNCHANGED <<clean, manifest>> /\ loader.at = "read"
    BY <1>10 DEF ReadFile, dirVars
  <2>2. CASE GoOn /\ loader' = [loader EXCEPT !.read = <<disk["native"]>>]
    <3>1. loader'.at = "read" /\ loader'.sha = loader.sha
      BY <1>1, <2>1, <2>2 DEF Loads
    <3>2. QED
      BY <1>6, <2>1, <2>2, <3>1
  <2>3. ASSUME NEW b \in Content, MoveTime("cached", "key"), loader' = IdleLoader,
               cached' = [files |-> Loaded(b, disk["calibration"]), sha |-> loader.sha,
                          overtaken |-> loader.overtaken, clean |-> loader.clean]
        PROVE  Current'
    <3>1. Becomes([time EXCEPT !["cached"] = time["key"], !["key"] = 0])
      BY <1>1, <2>3, TimeIsMoved, StampNames
    <3>2. PICK t \in Times : t = [time EXCEPT !["cached"] = time["key"], !["key"] = 0]
      BY <3>1 DEF Becomes
    <3>3. t["cached"] = time["key"] /\ \A u \in Dated : t[u] = time[u]
      BY <1>1, <3>2, StampNames DEF Times
    <3>4. Newest(t, "cached") <=> Newest(time, "key")
      BY <3>3 DEF Newest
    <3>5. Newest(time', "cached") <=> Newest(time, "key")
      BY <1>1, <3>1, <3>2, <3>4, NewestKept, StampNames DEF Becomes
    <3>6. loader'.at = "idle" /\ cached'.sha = loader.sha
      BY <2>3 DEF IdleLoader
    <3>7. QED
      BY <2>1, <3>5, <3>6 DEF Current
  <2>4. QED
    BY <1>5, <1>10, <2>1, <2>2, <2>3, ReadFileCases
<1>11. CASE UNCHANGED vars
  BY <1>3, <1>11 DEF vars, dirVars, loadVars
<1>12. QED
  BY <1>2, <1>7, <1>8, <1>9, <1>10, <1>11 DEF Next

(* Of any number of jobs, trainings and deaths: on a clean directory the    *)
(* bundle whose key is the newest modification time is the one the manifest *)
(* describes (_bundle_mtime, _load_runtime_bundle_cached), although a copy  *)
(* brings an older time with it and the key is taken before the load.       *)
THEOREM CacheFollowsManifest == Spec => []CacheIsCurrent
<1>1. Init => Timed /\ Current
  <2>1. SUFFICES ASSUME Init PROVE Timed /\ Current
    OBVIOUS
  <2>2. \A s \in Stamps : time[s] = IF s \in Dated THEN 1 ELSE 0
    BY <2>1 DEF Init
  <2>3. (\A f \in Dated : time[f] = 1) /\ time["cached"] = 0
    BY <2>2, StampNames
  <2>4. ~Newest(time, "cached")
    BY <2>3 DEF Newest
  <2>5. Timed
    BY <2>1 DEF Init, Timed
  <2>6. Current
    BY <2>1, <2>4 DEF Init, Current, IdleLoader
  <2>7. QED
    BY <2>5, <2>6
<1>2. Bundled /\ Bundled' /\ Timed /\ Current /\ [Next]_vars => Timed' /\ Current'
  BY TimedStep, CurrentStep DEF Bundled
<1>3. Bundled /\ Current => CacheIsCurrent
  <2>1. SUFFICES ASSUME Bundled, Current PROVE CacheIsCurrent
    OBVIOUS
  <2>2. time \in Times /\ "cached" \in Stamps
    BY <2>1, StampNames DEF Bundled, Types, TimeTypes
  <2>3. Key = time["cached"] <=> Newest(time, "cached")
    BY <2>2, KeyIsNewest
  <2>4. QED
    BY <2>1, <2>3 DEF Current, CacheIsCurrent
<1>4. QED
  BY <1>1, <1>2, <1>3, BundledAlways, PTL DEF Spec
=============================================================================
