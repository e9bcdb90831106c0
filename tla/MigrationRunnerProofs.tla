------------------------ MODULE MigrationRunnerProofs ------------------------
(***************************************************************************)
(* Theorems about MigrationRunner, for any number of runners, files and    *)
(* versions: the type invariant and the four safety invariants.            *)
(***************************************************************************)
EXTENDS MigrationRunner, TLAPS

Working(r) == pc[r] \in {"apply", "record", "failed"}
Knows(r)   == Working(r) \/ pc[r] = "check"

(* Two minima of the same list are equal.                                   *)
LEMMA NextIsUnique ==
  ASSUME TypeOK, NEW r \in Runners, NEW f \in Files, NEW g \in Files,
         IsNext(r, f), IsNext(r, g)
  PROVE  f = g
  BY SizeAssumption DEF IsNext, Files

LEMMA RowTypes ==
  /\ NoRow \in Rows
  /\ NoRows \in [Files -> Rows]
  /\ NoTexts \in [Files -> Sums]
  /\ \A s \in Sums, b \in BOOLEAN : [sha |-> s, ok |-> b] \in Rows
  BY SizeAssumption DEF NoRow, NoRows, NoTexts, Rows, Sums

LEMMA FinishType ==
  ASSUME TypeOK, NEW r \in Runners, NEW code \in {0, 1}, Finish(r, code)
  PROVE  /\ pc' \in [Runners -> Places]
         /\ exit' \in [Runners -> 0..2]
         /\ seen' \in [Runners -> [Files -> Rows]]
         /\ sums' \in [Runners -> [Files -> Sums]]
         /\ todo' \in [Runners -> SUBSET Files]
         /\ \A q \in Runners : pc'[q] \in {"idle", "scan"} <=> todo'[q] = {}
  BY RowTypes DEF TypeOK, Finish, Places

LEMMA NextFileType ==
  ASSUME TypeOK, NEW r \in Runners, NEW f \in Files, IsNext(r, f), NextFile(r, f),
         pc[r] \in {"record", "failed"}
  PROVE  /\ pc' \in [Runners -> Places]
         /\ exit' \in [Runners -> 0..2]
         /\ seen' \in [Runners -> [Files -> Rows]]
         /\ sums' \in [Runners -> [Files -> Sums]]
         /\ todo' \in [Runners -> SUBSET Files]
         /\ \A q \in Runners : pc'[q] \in {"idle", "scan"} <=> todo'[q] = {}
<1>1. CASE Finish(r, 0)
  BY <1>1, FinishType
<1>2. CASE todo[r] # {f} /\ ~Finish(r, 0)
  <2>1. PICK g \in todo[r] : g # f
    BY <1>2 DEF IsNext
  <2>2. todo[r] \ {f} # {}
    BY <2>1
  <2>3. QED
    BY <1>2, <2>2, ZenonT(40) DEF TypeOK, NextFile, Places
<1>3. QED
  BY <1>1, <1>2 DEF NextFile

LEMMA MishapType ==
  ASSUME TypeOK, Mishap
  PROVE  mishaps' \in 0..MaxMishaps
  BY BoundAssumption DEF TypeOK, Mishap

LEMMA RowType ==
  ASSUME TypeOK, NEW r \in Runners, NEW f \in Files, NEW b \in BOOLEAN
  PROVE  [row EXCEPT ![f] = [sha |-> sums[r][f], ok |-> b]] \in [Files -> Rows]
<1>1. sums[r][f] \in Sums /\ row \in [Files -> Rows]
  BY DEF TypeOK
<1>2. [sha |-> sums[r][f], ok |-> b] \in Rows
  BY <1>1 DEF Rows
<1>3. QED
  BY <1>1, <1>2

(* A record that raises: what may have become of the row.                   *)
LEMMA LossRow ==
  ASSUME TypeOK, NEW r \in Runners, NEW f \in Files, RecordFails(r, f)
  PROVE  /\ pc[r] = "record" /\ IsNext(r, f) /\ pc'[r] = "idle" /\ exit'[r] = 1
         /\ row' \in [Files -> Rows]
         /\ \A g \in Files \ {f} : row'[g] = row[g]
         /\ row'[f] = row[f] \/ row'[f].sha = sums[r][f]
         /\ \A q \in Runners \ {r} : /\ pc'[q] = pc[q] /\ todo'[q] = todo[q]
                                      /\ seen'[q] = seen[q] /\ sums'[q] = sums[q]
                                      /\ exit'[q] = exit[q]
         /\ UNCHANGED <<text, effect, shape, swallowed, mode, failing, unrecorded, raced,
                        overlapped, skipped>>
<1>1. PICK b \in BOOLEAN :
        row' \in {row, [row EXCEPT ![f] = [sha |-> sums[r][f], ok |-> b]]}
  BY DEF RecordFails, RowsAfterLoss, RowsAfter
<1>2. row \in [Files -> Rows] /\ [row EXCEPT ![f] = [sha |-> sums[r][f], ok |-> b]] \in [Files -> Rows]
  BY RowType DEF TypeOK
<1>3. /\ row' \in [Files -> Rows]
      /\ \A g \in Files \ {f} : row'[g] = row[g]
      /\ row'[f] = row[f] \/ row'[f] = [sha |-> sums[r][f], ok |-> b]
  BY <1>1, <1>2
<1>4. QED
  BY <1>3 DEF RecordFails, Finish, TypeOK

LEMMA PlaceType ==
  ASSUME TypeOK, NEW r \in Runners, NEW p \in Places, NEW T \in SUBSET Files,
         p \in {"idle", "scan"} <=> T = {},
         pc' = [pc EXCEPT ![r] = p], todo' = [todo EXCEPT ![r] = T]
  PROVE  /\ pc' \in [Runners -> Places]
         /\ todo' \in [Runners -> SUBSET Files]
         /\ \A q \in Runners : pc'[q] \in {"idle", "scan"} <=> todo'[q] = {}
  BY DEF TypeOK

(* Every step keeps the types.                                              *)
LEMMA TypeStep ==
  ASSUME TypeOK, [Next]_vars
  PROVE  TypeOK'
<1> USE SizeAssumption, SubsetAssumption DEF database, history, runnerVars
<1>1. ASSUME NEW r \in Runners, NEW m \in Modes, Load(r, m) PROVE TypeOK'
  BY <1>1 DEF TypeOK, Load, Started, Places, Modes
<1>2. ASSUME NEW r \in Runners, Scan(r) PROVE TypeOK'
  <2>1. CASE Finish(r, 0) \/ Finish(r, 1)
    BY <1>2, <2>1, FinishType DEF TypeOK, Scan
  <2>2. CASE ~Finish(r, 0) /\ ~Finish(r, 1)
    <3>1. Pending(mode[r], seen[r]) \in SUBSET Files
      BY DEF Pending
    <3>2. text \in [Files -> Sums]
      BY DEF TypeOK, Texts, Sums
    <3>3. /\ Pending(mode[r], seen[r]) # {}
          /\ sums' = [sums EXCEPT ![r] = text]
          /\ todo' = [todo EXCEPT ![r] = Pending(mode[r], seen[r])]
          /\ pc'   = [pc EXCEPT ![r] = "apply"]
          /\ UNCHANGED <<seen, exit, text, database, mode, history>>
      BY <1>2, <2>2 DEF Scan
    <3>4. /\ pc' \in [Runners -> Places]
          /\ todo' \in [Runners -> SUBSET Files]
          /\ \A q \in Runners : pc'[q] \in {"idle", "scan"} <=> todo'[q] = {}
      BY <3>1, <3>3, PlaceType DEF Places
    <3>5. QED
      BY <3>2, <3>3, <3>4 DEF TypeOK
  <2>3. QED
    BY <2>1, <2>2
<1>3. ASSUME NEW r \in Runners, CheckFile(r) PROVE TypeOK'
  <2>1. CASE Finish(r, 0) \/ Finish(r, 1)
    BY <1>3, <2>1, FinishType DEF TypeOK, CheckFile
  <2>2. CASE ~Finish(r, 0) /\ ~Finish(r, 1)
    BY <1>3, <2>2, ZenonT(40) DEF TypeOK, CheckFile, Places
  <2>3. QED
    BY <2>1, <2>2
<1>4. ASSUME NEW r \in Runners, Die(r) PROVE TypeOK'
  BY <1>4, FinishType, MishapType DEF TypeOK, Die
<1>5. ASSUME NEW r \in Runners, NEW f \in Files, OpenFile(r, f) PROVE TypeOK'
  <2>1. text \in [Files -> Sums]
    BY DEF TypeOK, Texts, Sums
  <2>2. QED
    BY <1>5, <2>1 DEF TypeOK, OpenFile, Started, Places, Modes
<1>6. ASSUME NEW r \in Runners, NEW f \in Files, ApplyFile(r, f) PROVE TypeOK'
  <2>1. shape' \in 0..NumFiles /\ text[f] \in Sums
    BY <1>6 DEF TypeOK, ApplyFile, ShapesAfter, Files, Texts, Sums
  <2>2. CASE f \in Definers /\ shape' # f
    <3>1. Mishap /\ swallowed' = swallowed \union {f}
      BY <1>6, <2>2 DEF ApplyFile
    <3>2. mishaps' \in 0..MaxMishaps /\ swallowed' \subseteq Definers
      BY <2>2, <3>1, MishapType DEF TypeOK
    <3>3. QED
      BY <1>6, <2>1, <3>2 DEF TypeOK, ApplyFile, Places
  <2>3. CASE ~(f \in Definers /\ shape' # f)
    <3>1. swallowed' = swallowed \ {f} /\ mishaps' = mishaps
      BY <1>6, <2>3 DEF ApplyFile
    <3>2. QED
      BY <1>6, <2>1, <3>1 DEF TypeOK, ApplyFile, Places
  <2>4. QED
    BY <2>2, <2>3
<1>7. ASSUME NEW r \in Runners, NEW f \in Files, ApplyFails(r, f) PROVE TypeOK'
  BY <1>7, MishapType DEF TypeOK, ApplyFails, Places
<1>8. ASSUME NEW r \in Runners, NEW f \in Files, RecordFile(r, f) PROVE TypeOK'
  <2>1. row' \in [Files -> Rows]
    BY <1>8, RowType DEF RecordFile, RowsAfter
  <2>2. QED
    BY <1>8, <2>1, NextFileType DEF TypeOK, RecordFile
<1>9. ASSUME NEW r \in Runners, NEW f \in Files, RecordFailure(r, f) PROVE TypeOK'
  <2>1. row' \in [Files -> Rows]
    BY <1>9, RowType DEF TypeOK, RecordFailure, RowsAfterFailure
  <2>2. QED
    BY <1>9, <2>1, FinishType DEF TypeOK, RecordFailure, StopAtFailure
<1>9a. ASSUME NEW r \in Runners, NEW f \in Files, RecordFails(r, f) PROVE TypeOK'
  BY <1>9a, LossRow, FinishType, MishapType DEF TypeOK, RecordFails
<1>10. ASSUME NEW f \in Files, Edit(f) PROVE TypeOK'
  BY <1>10, MishapType DEF TypeOK, Edit, Texts
<1>11. CASE UNCHANGED vars
  BY <1>11 DEF TypeOK, vars
<1>12. ASSUME NEW r \in Runners, RunnerStep(r) PROVE TypeOK'
  BY <1>12, <1>1, <1>2, <1>3, <1>4, <1>5, <1>6, <1>7, <1>8, <1>9, <1>9a DEF RunnerStep, FileStep
<1>13. QED
  BY <1>10, <1>11, <1>12 DEF Next

LEMMA TypeInit ==
  ASSUME Init PROVE TypeOK
<1>1. text \in [Files -> Texts] /\ effect \in [Files -> Sums] /\ shape \in 0..NumFiles
  BY SizeAssumption DEF Init, Texts, Sums
<1>2. row \in [Files -> Rows] /\ seen \in [Runners -> [Files -> Rows]]
      /\ sums \in [Runners -> [Files -> Sums]]
  BY RowTypes DEF Init
<1>3. /\ pc \in [Runners -> Places] /\ mode \in [Runners -> Modes]
      /\ todo \in [Runners -> SUBSET Files] /\ exit \in [Runners -> 0..2]
      /\ \A r \in Runners : pc[r] \in {"idle", "scan"} <=> todo[r] = {}
  BY DEF Init, Places, Modes
<1>4. swallowed \subseteq Definers /\ failing \subseteq Files /\ unrecorded \subseteq Files /\ raced \subseteq Files
      /\ mishaps \in 0..MaxMishaps
  BY BoundAssumption DEF Init
<1>5. overlapped \in BOOLEAN /\ skipped \in BOOLEAN
  BY Zenon DEF Init
<1>6. QED
  BY <1>1, <1>2, <1>3, <1>4, <1>5 DEF TypeOK

(* The type invariant, with the places at which a runner has files to do.   *)
THEOREM TypeCorrect == Spec => []TypeOK
  BY TypeInit, TypeStep, PTL DEF Spec

-----------------------------------------------------------------------------
(* The row of a file tells the text that was executed.  Not inductive by    *)
(* itself: that needs to know what a runner at work remembers.  Unless the  *)
(* file was edited under way, the checksum it computed is that of the file  *)
(* on disk, what it has just executed is that file, and if a row says       *)
(* success for a file the runner still has to do, another runner of these   *)
(* texts wrote it.                                                          *)
MemoryOf(r, f) ==
  /\ pc[r] = "check" /\ f \in todo[r] => \A g \in todo[r] : g = f
  /\ Knows(r) => sums[r][f] # 0
  /\ Knows(r) /\ f \notin raced => sums[r][f] = text[f]
  /\ pc[r] = "record" /\ IsNext(r, f) =>
       effect[f] # 0 /\ (f \in raced \/ effect[f] = text[f])
  /\ pc[r] = "scan" /\ ~RecordedOk(seen[r], f) /\ RecordedOk(row, f) =>
       f \in raced \/ row[f].sha = text[f]
  /\ Working(r) /\ f \in todo[r] /\ RecordedOk(row, f) =>
       f \in raced \/ row[f].sha = text[f]

Memory == \A r \in Runners, f \in Files : MemoryOf(r, f)

LEMMA MemoryStep ==
  ASSUME TypeOK, TypeOK', Memory, [Next]_vars
  PROVE  Memory'
<1> USE DEF Memory, MemoryOf, Knows, Working, IsNext, RecordedOk, Present,
            database, history, runnerVars
<1>1. ASSUME NEW r \in Runners, NEW m \in Modes, Load(r, m) PROVE Memory'
  BY <1>1 DEF TypeOK, Load, Started
<1>2. ASSUME NEW r \in Runners, Scan(r) PROVE Memory'
  <2>1. CASE pc'[r] = "idle"
    BY <1>2, <2>1 DEF TypeOK, Scan, Finish
  <2>2. CASE pc'[r] # "idle"
    <3>1. /\ pc[r] = "scan"
          /\ sums' = [sums EXCEPT ![r] = text]
          /\ todo' = [todo EXCEPT ![r] = Pending(mode[r], seen[r])]
          /\ pc'   = [pc EXCEPT ![r] = "apply"]
          /\ UNCHANGED <<seen, exit, text, database, mode, history>>
      BY <1>2, <2>2 DEF Scan, Finish, TypeOK
    <3>2. \A f \in Pending(mode[r], seen[r]) : f \in Files /\ ~RecordedOk(seen[r], f)
      BY DEF Pending
    <3>3. QED
      BY <3>1, <3>2 DEF TypeOK, Texts
  <2>3. QED
    BY <2>1, <2>2
<1>3. ASSUME NEW r \in Runners, CheckFile(r) PROVE Memory'
  <2>1. CASE pc'[r] = "idle"
    <3>1. /\ pc' = [pc EXCEPT ![r] = "idle"]
          /\ todo' = [todo EXCEPT ![r] = {}]
          /\ seen' = [seen EXCEPT ![r] = NoRows]
          /\ sums' = [sums EXCEPT ![r] = NoTexts]
          /\ UNCHANGED <<text, database, raced>>
      BY <1>3, <2>1 DEF CheckFile, Finish, TypeOK
    <3>2. QED
      BY <3>1 DEF TypeOK
  <2>2. CASE pc'[r] # "idle"
    <3>1. PICK f \in todo[r] :
            /\ pc[r] = "check"
            /\ ~RecordedOk(row, f)
            /\ pc' = [pc EXCEPT ![r] = "apply"]
            /\ seen' = [seen EXCEPT ![r] = row]
            /\ UNCHANGED <<sums, todo, text, database, failing, raced>>
      BY <1>3, <2>2 DEF CheckFile, Finish, TypeOK
    <3>2. QED
      BY <3>1 DEF TypeOK
  <2>3. QED
    BY <2>1, <2>2
<1>4. ASSUME NEW r \in Runners, Die(r) PROVE Memory'
  BY <1>4 DEF TypeOK, Die, Finish
<1>5. ASSUME NEW r \in Runners, NEW f \in Files, OpenFile(r, f) PROVE Memory'
  BY <1>5 DEF TypeOK, OpenFile, Started, Texts
<1>6. ASSUME NEW r \in Runners, NEW f \in Files, ApplyFile(r, f) PROVE Memory'
  <2>1. /\ effect' = [effect EXCEPT ![f] = text[f]]
        /\ pc' = [pc EXCEPT ![r] = "record"]
        /\ pc[r] = "apply" /\ IsNext(r, f)
        /\ UNCHANGED <<text, row, seen, sums, todo, raced>>
    BY <1>6 DEF ApplyFile
  <2>2. text[f] # 0
    BY DEF TypeOK, Texts
  <2>3. SUFFICES ASSUME NEW q \in Runners, NEW g \in Files PROVE MemoryOf(q, g)'
    OBVIOUS
  <2>4. MemoryOf(q, g) /\ IsNext(q, g)' = IsNext(q, g)
    BY <2>1
  <2>5. CASE q = r
    <3>1. IsNext(q, g) => g = f
      BY <2>1, <2>5, NextIsUnique
    <3>2. QED
      BY <2>1, <2>2, <2>4, <2>5, <3>1 DEF TypeOK
  <2>6. CASE q # r
    <3>1. pc'[q] = pc[q]
      BY <2>1, <2>6 DEF TypeOK
    <3>2. effect'[g] = IF g = f THEN text[f] ELSE effect[g]
      BY <2>1 DEF TypeOK
    <3>3. QED
      BY <2>1, <2>2, <2>4, <2>6, <3>1, <3>2
  <2>7. QED
    BY <2>5, <2>6
<1>7. ASSUME NEW r \in Runners, NEW f \in Files, ApplyFails(r, f) PROVE Memory'
  <2>1. /\ pc' = [pc EXCEPT ![r] = "failed"]
        /\ pc[r] = "apply"
        /\ UNCHANGED <<text, effect, row, seen, sums, todo, raced>>
    BY <1>7 DEF ApplyFails
  <2>2. QED
    BY <2>1 DEF TypeOK
<1>8. ASSUME NEW r \in Runners, NEW f \in Files, RecordFile(r, f) PROVE Memory'
  <2>1. /\ row' = [row EXCEPT ![f] = [sha |-> sums[r][f], ok |-> TRUE]]
        /\ pc[r] = "record" /\ IsNext(r, f)
        /\ UNCHANGED <<text, effect, raced>>
    BY <1>8 DEF RecordFile, RowsAfter
  <2>2. SUFFICES ASSUME NEW q \in Runners, NEW g \in Files PROVE MemoryOf(q, g)'
    OBVIOUS
  <2>3. MemoryOf(q, g) /\ MemoryOf(r, f)
    OBVIOUS
  <2>4. row'[g] = IF g = f THEN [sha |-> sums[r][f], ok |-> TRUE] ELSE row[g]
    BY <2>1 DEF TypeOK
  <2>5. CASE q # r
    <3>1. pc'[q] = pc[q] /\ todo'[q] = todo[q] /\ seen'[q] = seen[q] /\ sums'[q] = sums[q]
      BY <1>8, <2>5 DEF RecordFile, NextFile, Finish, TypeOK
    <3>2. QED
      BY <2>1, <2>3, <2>4, <3>1
  <2>6. CASE q = r /\ Finish(r, 0)
    BY <2>6 DEF Finish, TypeOK
  <2>7. CASE q = r /\ ~Finish(r, 0)
    <3>1. pc'[r] = "apply" /\ todo'[r] = todo[r] \ {f} /\ sums'[r] = sums[r]
      BY <1>8, <2>7 DEF RecordFile, NextFile, TypeOK
    <3>2. QED
      BY <2>1, <2>3, <2>4, <2>7, <3>1
  <2>8. QED
    BY <2>5, <2>6, <2>7
<1>9. ASSUME NEW r \in Runners, NEW f \in Files, RecordFailure(r, f) PROVE Memory'
  BY <1>9 DEF TypeOK, RecordFailure, RowsAfterFailure, StopAtFailure, Finish, Rows
<1>9a. ASSUME NEW r \in Runners, NEW f \in Files, RecordFails(r, f) PROVE Memory'
  <2>1. SUFFICES ASSUME NEW q \in Runners, NEW g \in Files PROVE MemoryOf(q, g)'
    OBVIOUS
  <2>2. MemoryOf(q, g) /\ MemoryOf(r, f)
    OBVIOUS
  <2>3. CASE q = r
    BY <1>9a, <2>3 DEF RecordFails, Finish, TypeOK
  <2>4. CASE q # r /\ g # f
    BY <1>9a, <2>2, <2>4, LossRow
  <2>5. CASE q # r /\ g = f
    <3>1. /\ pc[r] = "record" /\ pc'[q] = pc[q] /\ todo'[q] = todo[q]
          /\ seen'[q] = seen[q] /\ sums'[q] = sums[q]
          /\ UNCHANGED <<text, effect, raced>>
      BY <1>9a, <2>5, LossRow
    <3>2. row'[f] = row[f] \/ row'[f].sha = sums[r][f]
      BY <1>9a, LossRow
    <3>3. f \in raced \/ sums[r][f] = text[f]
      BY <2>2, <3>1
    <3>4. QED
      BY <2>2, <2>5, <3>1, <3>2, <3>3
  <2>6. QED
    BY <2>3, <2>4, <2>5
<1>10. ASSUME NEW f \in Files, Edit(f) PROVE Memory'
  BY <1>10 DEF TypeOK, Edit
<1>11. CASE UNCHANGED vars
  BY <1>11 DEF vars
<1>12. ASSUME NEW r \in Runners, RunnerStep(r) PROVE Memory'
  BY <1>12, <1>1, <1>2, <1>3, <1>4, <1>5, <1>6, <1>7, <1>8, <1>9, <1>9a DEF RunnerStep, FileStep
<1>13. QED
  BY <1>10, <1>11, <1>12 DEF Next

(* What the database holds of a file, and what the runners believe of it.   *)
RowsTrue ==
  /\ RowTellsTheText
  /\ \A r \in Runners, f \in Files :
       pc[r] = "scan" /\ RecordedOk(seen[r], f) => effect[f] # 0

LEMMA RowsTrueStep ==
  ASSUME TypeOK, TypeOK', Memory, RowsTrue, [Next]_vars
  PROVE  RowsTrue'
<1> USE DEF RowsTrue, RowTellsTheText, RecordedOk, Present, database, history, runnerVars
<1>1. ASSUME NEW r \in Runners, NEW m \in Modes, Load(r, m) PROVE RowsTrue'
  <2>1. /\ pc[r] = "idle"
        /\ pc' = [pc EXCEPT ![r] = "scan"]
        /\ seen' = [seen EXCEPT ![r] = row]
        /\ UNCHANGED <<effect, row, raced, todo>>
    BY <1>1 DEF Load
  <2>2. \A f \in Files : InHand(f) => InHand(f)'
    BY <2>1 DEF InHand, IsNext, TypeOK
  <2>3. QED
    BY <2>1, <2>2 DEF TypeOK
<1>2. ASSUME NEW r \in Runners, Scan(r) \/ CheckFile(r) PROVE RowsTrue'
  <2>1. /\ pc[r] \in {"scan", "check"} /\ pc'[r] # "scan"
        /\ \A q \in Runners \ {r} : pc'[q] = pc[q] /\ seen'[q] = seen[q] /\ todo'[q] = todo[q]
        /\ UNCHANGED <<effect, row, raced>>
    BY <1>2 DEF Scan, CheckFile, Finish, TypeOK
  <2>2. \A f \in Files : InHand(f) => InHand(f)'
    BY <2>1 DEF InHand, IsNext
  <2>3. QED
    BY <2>1, <2>2
<1>4. ASSUME NEW r \in Runners, Die(r) PROVE RowsTrue'
  <2>1. /\ pc'[r] = "idle"
        /\ \A q \in Runners \ {r} : pc'[q] = pc[q] /\ seen'[q] = seen[q] /\ todo'[q] = todo[q]
        /\ UNCHANGED <<text, effect, row, raced>>
    BY <1>4 DEF Die, Finish, TypeOK
  <2>2. SUFFICES ASSUME NEW f \in Files, RecordedOk(row, f), ~(f \in raced)
                 PROVE  InHand(f)' \/ row[f].sha = effect[f]
    BY <2>1
  <2>3. CASE pc[r] = "record" /\ IsNext(r, f)
    BY <2>2, <2>3 DEF Memory, MemoryOf, Working, IsNext
  <2>4. CASE ~(pc[r] = "record" /\ IsNext(r, f))
    <3>1. InHand(f) => InHand(f)'
      BY <2>1, <2>4 DEF InHand, IsNext
    <3>2. QED
      BY <2>2, <3>1
  <2>5. QED
    BY <2>3, <2>4
<1>5. ASSUME NEW r \in Runners, NEW f \in Files, OpenFile(r, f) PROVE RowsTrue'
  <2>1. /\ pc[r] = "idle" /\ pc'[r] = "check"
        /\ \A q \in Runners \ {r} : pc'[q] = pc[q] /\ todo'[q] = todo[q]
        /\ UNCHANGED <<effect, row, raced, seen>>
    BY <1>5 DEF OpenFile, TypeOK
  <2>2. \A g \in Files : InHand(g) => InHand(g)'
    BY <2>1 DEF InHand, IsNext
  <2>3. QED
    BY <2>1, <2>2
<1>6. ASSUME NEW r \in Runners, NEW f \in Files, ApplyFile(r, f) PROVE RowsTrue'
  <2>1. /\ pc[r] = "apply" /\ IsNext(r, f)
        /\ pc' = [pc EXCEPT ![r] = "record"]
        /\ effect' = [effect EXCEPT ![f] = text[f]]
        /\ UNCHANGED <<row, raced, seen, todo>>
    BY <1>6 DEF ApplyFile
  <2>2. \A g \in Files : InHand(g) => InHand(g)'
    BY <2>1 DEF InHand, IsNext, TypeOK
  <2>3. InHand(f)' /\ text[f] # 0
    BY <2>1 DEF InHand, IsNext, TypeOK, Texts
  <2>4. \A g \in Files : effect'[g] = IF g = f THEN text[f] ELSE effect[g]
    BY <2>1 DEF TypeOK
  <2>5. \A q \in Runners : pc'[q] = "scan" => pc[q] = "scan"
    BY <2>1 DEF TypeOK
  <2>6. QED
    BY <2>1, <2>2, <2>3, <2>4, <2>5
<1>7. ASSUME NEW r \in Runners, NEW f \in Files, ApplyFails(r, f) PROVE RowsTrue'
  <2>1. /\ pc[r] = "apply" /\ pc' = [pc EXCEPT ![r] = "failed"]
        /\ UNCHANGED <<effect, row, raced, seen, todo>>
    BY <1>7 DEF ApplyFails
  <2>2. \A g \in Files : InHand(g) => InHand(g)'
    BY <2>1 DEF InHand, IsNext, TypeOK
  <2>3. QED
    BY <2>1, <2>2 DEF TypeOK
<1>8. ASSUME NEW r \in Runners, NEW f \in Files, RecordFile(r, f) PROVE RowsTrue'
  <2>1. /\ row' = [row EXCEPT ![f] = [sha |-> sums[r][f], ok |-> TRUE]]
        /\ pc[r] = "record" /\ IsNext(r, f)
        /\ pc'[r] # "scan"
        /\ \A q \in Runners \ {r} : pc'[q] = pc[q] /\ seen'[q] = seen[q] /\ todo'[q] = todo[q]
        /\ UNCHANGED <<text, effect, raced>>
    BY <1>8 DEF RecordFile, RowsAfter, NextFile, Finish, TypeOK
  <2>2. effect[f] # 0 /\ (f \in raced \/ sums[r][f] = effect[f])
    BY <2>1 DEF Memory, MemoryOf, Knows, Working
  <2>3. ASSUME NEW g \in Files, g # f, InHand(g) PROVE InHand(g)'
    <3>1. PICK q \in Runners : pc[q] = "record" /\ IsNext(q, g)
      BY <2>3 DEF InHand
    <3>2. q # r
      BY <2>1, <2>3, <3>1, NextIsUnique
    <3>3. QED
      BY <2>1, <3>1, <3>2 DEF InHand, IsNext
  <2>4. \A g \in Files : row'[g] = IF g = f THEN [sha |-> sums[r][f], ok |-> TRUE] ELSE row[g]
    BY <2>1 DEF TypeOK
  <2>5. QED
    BY <2>1, <2>2, <2>3, <2>4
<1>9. ASSUME NEW r \in Runners, NEW f \in Files, RecordFailure(r, f) PROVE RowsTrue'
  <2>1. /\ \A g \in Files : RecordedOk(row', g) => row'[g] = row[g]
        /\ pc[r] = "failed" /\ pc'[r] = "idle"
        /\ \A q \in Runners \ {r} : pc'[q] = pc[q] /\ seen'[q] = seen[q] /\ todo'[q] = todo[q]
        /\ UNCHANGED <<text, effect, raced>>
    BY <1>9 DEF RecordFailure, RowsAfterFailure, StopAtFailure, Finish, TypeOK
  <2>2. \A g \in Files : InHand(g) => InHand(g)'
    BY <2>1 DEF InHand, IsNext
  <2>3. QED
    BY <2>1, <2>2
<1>9a. ASSUME NEW r \in Runners, NEW f \in Files, RecordFails(r, f) PROVE RowsTrue'
  <2>1. /\ effect[f] # 0 /\ (f \in raced \/ sums[r][f] = effect[f])
        /\ pc[r] = "record" /\ IsNext(r, f)
    BY <1>9a, LossRow DEF Memory, MemoryOf, Knows, Working
  <2>2. ASSUME NEW g \in Files, g # f, InHand(g) PROVE InHand(g)'
    <3>1. PICK q \in Runners : pc[q] = "record" /\ IsNext(q, g)
      BY <2>2 DEF InHand
    <3>2. q # r
      BY <2>1, <2>2, <3>1, NextIsUnique
    <3>3. QED
      BY <1>9a, <3>1, <3>2, LossRow DEF InHand, IsNext
  <2>3. ASSUME RecordedOk(row, f) PROVE f \in raced \/ row[f].sha = effect[f]
    BY <1>9a, <2>1, <2>3, LossRow DEF Memory, MemoryOf, Knows, Working, IsNext
  <2>4. /\ pc'[r] = "idle" /\ UNCHANGED <<text, effect, raced>>
        /\ \A g \in Files \ {f} : row'[g] = row[g]
        /\ \A q \in Runners \ {r} : pc'[q] = pc[q] /\ seen'[q] = seen[q]
    BY <1>9a, LossRow
  <2>5. row'[f] = row[f] \/ row'[f].sha = sums[r][f]
    BY <1>9a, LossRow
  <2>6. ASSUME NEW g \in Files, RecordedOk(row, g)'
        PROVE  effect[g] # 0 /\ (g \in raced \/ InHand(g)' \/ row'[g].sha = effect[g])
    <3>1. CASE g = f
      BY <2>1, <2>3, <2>4, <2>5, <2>6, <3>1
    <3>2. CASE g # f
      BY <2>2, <2>4, <2>6, <3>2
    <3>3. QED
      BY <3>1, <3>2
  <2>7. QED
    BY <2>4, <2>6
<1>10. ASSUME NEW f \in Files, Edit(f) PROVE RowsTrue'
  <2>1. UNCHANGED <<effect, row, pc, seen, todo>> /\ raced \subseteq raced'
    BY <1>10 DEF Edit
  <2>2. QED
    BY <2>1 DEF InHand, IsNext
<1>11. CASE UNCHANGED vars
  BY <1>11 DEF vars, InHand, IsNext
<1>12. ASSUME NEW r \in Runners, RunnerStep(r) PROVE RowsTrue'
  BY <1>12, <1>1, <1>2, <1>4, <1>5, <1>6, <1>7, <1>8, <1>9, <1>9a DEF RunnerStep, FileStep
<1>13. QED
  BY <1>10, <1>11, <1>12 DEF Next

(* A row that says success tells the text that was executed.                *)
THEOREM RowsTellTheTexts == Spec => []RowTellsTheText
<1>1. Init => Memory /\ RowsTrue
  <2>1. ASSUME Init PROVE Memory /\ RowsTrue
    BY <2>1 DEF Init, Memory, MemoryOf, Knows, Working, RowsTrue, RowTellsTheText,
                RecordedOk, Present, NoRow, NoRows
  <2>2. QED
    BY <2>1
<1>2. RowsTrue => RowTellsTheText
  BY DEF RowsTrue
<1>3. QED
  BY <1>1, <1>2, TypeInit, TypeStep, MemoryStep, RowsTrueStep, PTL DEF Spec

-----------------------------------------------------------------------------
(* Migrations are executed in order.  What a runner (other than --file) has *)
(* not on its list has been executed: the rows it read say so, and they are *)
(* true; or it has executed it itself.                                      *)
RestIsDone ==
  \A r \in Runners : mode[r] # "file" =>
    /\ Working(r) => \A f \in Files \ todo[r] : effect[f] # 0
    /\ pc[r] = "check" => FALSE
    /\ pc[r] = "idle" /\ exit[r] = 0 => \A f \in Files : effect[f] # 0

LEMMA RestIsDoneStep ==
  ASSUME TypeOK, TypeOK', Memory, RowsTrue, RestIsDone, [Next]_vars
  PROVE  RestIsDone'
<1> USE DEF RestIsDone, Working, database, history, runnerVars
<1>1. ASSUME NEW r \in Runners, NEW m \in Modes, Load(r, m) PROVE RestIsDone'
  BY <1>1 DEF TypeOK, Load, Started
<1>2. ASSUME NEW r \in Runners, Scan(r) PROVE RestIsDone'
  <2>1. /\ pc[r] = "scan"
        /\ \A q \in Runners \ {r} : pc'[q] = pc[q] /\ todo'[q] = todo[q] /\ exit'[q] = exit[q]
        /\ UNCHANGED <<effect, mode>>
    BY <1>2 DEF Scan, Finish, TypeOK
  <2>2. \A f \in Files \ Pending(mode[r], seen[r]) :
          ~Refused(mode[r], seen[r]) => RecordedOk(seen[r], f)
    BY DEF Pending, Refused, HasFailure, RecordedOk
  <2>3. \A f \in Files \ Pending(mode[r], seen[r]) :
          ~Refused(mode[r], seen[r]) => effect[f] # 0
    BY <2>1, <2>2 DEF RowsTrue
  <2>4. CASE Finish(r, 1)
    BY <2>1, <2>4 DEF Finish, TypeOK
  <2>5. CASE Finish(r, 0) /\ ~Refused(mode[r], seen[r]) /\ Pending(mode[r], seen[r]) = {}
    BY <2>1, <2>3, <2>5 DEF Finish, TypeOK
  <2>6. CASE /\ ~Refused(mode[r], seen[r])
             /\ todo' = [todo EXCEPT ![r] = Pending(mode[r], seen[r])]
             /\ pc'   = [pc EXCEPT ![r] = "apply"]
    BY <2>1, <2>3, <2>6 DEF TypeOK
  <2>7. QED
    BY <1>2, <2>4, <2>5, <2>6 DEF Scan
<1>3. ASSUME NEW r \in Runners, CheckFile(r) PROVE RestIsDone'
  <2>1. /\ pc[r] = "check"
        /\ \A q \in Runners \ {r} : pc'[q] = pc[q] /\ todo'[q] = todo[q] /\ exit'[q] = exit[q]
        /\ UNCHANGED <<effect, mode>>
    BY <1>3 DEF CheckFile, Finish, TypeOK
  <2>2. QED
    BY <2>1
<1>4. ASSUME NEW r \in Runners, Die(r) PROVE RestIsDone'
  BY <1>4 DEF TypeOK, Die, Finish
<1>5. ASSUME NEW r \in Runners, NEW f \in Files, OpenFile(r, f) PROVE RestIsDone'
  BY <1>5 DEF TypeOK, OpenFile, Started
<1>6. ASSUME NEW r \in Runners, NEW f \in Files, ApplyFile(r, f) PROVE RestIsDone'
  <2>1. \A g \in Files : effect[g] # 0 => effect'[g] # 0
    BY <1>6 DEF ApplyFile, TypeOK, Texts
  <2>2. QED
    BY <1>6, <2>1 DEF TypeOK, ApplyFile
<1>7. ASSUME NEW r \in Runners, NEW f \in Files, ApplyFails(r, f) PROVE RestIsDone'
  BY <1>7 DEF TypeOK, ApplyFails
<1>8. ASSUME NEW r \in Runners, NEW f \in Files, RecordFile(r, f) PROVE RestIsDone'
  <2>1. pc[r] = "record" /\ IsNext(r, f) /\ UNCHANGED <<effect, mode>>
    BY <1>8 DEF RecordFile
  <2>2. effect[f] # 0
    BY <2>1 DEF Memory, MemoryOf
  <2>3. CASE todo[r] = {f} /\ Finish(r, 0)
    BY <2>1, <2>2, <2>3 DEF Finish, TypeOK
  <2>4. CASE todo[r] # {f}
    <3>1. /\ pc' = [pc EXCEPT ![r] = "apply"]
          /\ todo' = [todo EXCEPT ![r] = @ \ {f}]
          /\ exit' = exit
      BY <1>8, <2>4 DEF RecordFile, NextFile
    <3>2. QED
      BY <2>1, <2>2, <3>1 DEF TypeOK
  <2>5. QED
    BY <1>8, <2>3, <2>4 DEF RecordFile, NextFile
<1>9. ASSUME NEW r \in Runners, NEW f \in Files, RecordFailure(r, f) PROVE RestIsDone'
  BY <1>9 DEF TypeOK, RecordFailure, StopAtFailure, Finish
<1>9a. ASSUME NEW r \in Runners, NEW f \in Files, RecordFails(r, f) PROVE RestIsDone'
  BY <1>9a, LossRow
<1>10. ASSUME NEW f \in Files, Edit(f) PROVE RestIsDone'
  BY <1>10 DEF Edit
<1>11. CASE UNCHANGED vars
  BY <1>11 DEF vars
<1>12. ASSUME NEW r \in Runners, RunnerStep(r) PROVE RestIsDone'
  BY <1>12, <1>1, <1>2, <1>3, <1>4, <1>5, <1>6, <1>7, <1>8, <1>9, <1>9a DEF RunnerStep, FileStep
<1>13. QED
  BY <1>10, <1>11, <1>12 DEF Next

(* Apart from --file, nothing is executed before its predecessors, and exit *)
(* code 0 means that all files have been executed.                          *)
THEOREM ExecutedInOrder == Spec => []InOrder
<1>1. Init => Memory /\ RowsTrue /\ RestIsDone
  <2>1. ASSUME Init PROVE Memory /\ RowsTrue /\ RestIsDone
    BY <2>1 DEF Init, Memory, MemoryOf, Knows, Working, RowsTrue, RowTellsTheText,
                RecordedOk, Present, NoRow, NoRows, RestIsDone
  <2>2. QED
    BY <2>1
<1>2. TypeOK /\ RestIsDone => InOrder
  <2>1. ASSUME TypeOK, NEW r \in Runners, NEW f \in Files, \A g \in todo[r] : f < g
        PROVE  f \notin todo[r]
    BY <2>1 DEF Files
  <2>2. QED
    BY <2>1 DEF RestIsDone, InOrder, Working
<1>3. QED
  BY <1>1, <1>2, TypeInit, TypeStep, MemoryStep, RowsTrueStep, RestIsDoneStep, PTL DEF Spec

-----------------------------------------------------------------------------
(* The newest definition of the shared constraint stays in force.  As long  *)
(* as runners take turns and --file keeps to the order, at most one runner  *)
(* is at work, what it read is still so, the files on its list have no row  *)
(* that says success, and every file that precedes one on its list, or one  *)
(* that was executed, has such a row.                                       *)
TakingTurns ==
  overlapped \/
    /\ \A r, q \in Runners : r # q => pc[r] = "idle" \/ pc[q] = "idle"
    /\ \A r \in Runners : pc[r] = "scan" => seen[r] = row
    /\ \A r \in Runners : Working(r) => \A f \in todo[r] : ~RecordedOk(row, f)

RecordedInOrder ==
  overlapped \/ skipped \/
    /\ \A r \in Runners : Working(r) =>
         \A g \in todo[r], f \in Files \ todo[r] : f < g => RecordedOk(row, f)
    /\ \A f, g \in Files : f < g /\ effect[g] # 0 => RecordedOk(row, f)

ShapeExecuted == shape # 0 => shape \in Definers /\ effect[shape] # 0

OrderInv == TakingTurns /\ RecordedInOrder /\ ShapeExecuted /\ NewestDefinitionInForce

LEMMA TakingTurnsStep ==
  ASSUME TypeOK, TypeOK', Memory, TakingTurns, [Next]_vars
  PROVE  TakingTurns'
<1> USE DEF TakingTurns, Working, database, history, runnerVars
<1>1. ASSUME NEW r \in Runners, NEW m \in Modes, Load(r, m) PROVE TakingTurns'
  BY <1>1 DEF TypeOK, Load, Started
<1>2. ASSUME NEW r \in Runners, Scan(r) PROVE TakingTurns'
  <2>1. /\ pc[r] = "scan"
        /\ \A q \in Runners \ {r} : pc'[q] = pc[q] /\ todo'[q] = todo[q] /\ seen'[q] = seen[q]
        /\ \/ pc'[r] = "idle"
           \/ pc'[r] = "apply" /\ todo'[r] = Pending(mode[r], seen[r])
        /\ UNCHANGED <<row, overlapped>>
    BY <1>2 DEF Scan, Finish, TypeOK
  <2>2. \A f \in Pending(mode[r], seen[r]) : ~RecordedOk(seen[r], f)
    BY DEF Pending, RecordedOk
  <2>3. QED
    BY <2>1, <2>2
<1>3. ASSUME NEW r \in Runners, CheckFile(r) PROVE TakingTurns'
  <2>1. /\ pc[r] = "check"
        /\ \A q \in Runners \ {r} : pc'[q] = pc[q] /\ todo'[q] = todo[q] /\ seen'[q] = seen[q]
        /\ \/ pc'[r] = "idle"
           \/ /\ pc'[r] = "apply" /\ todo'[r] = todo[r]
              /\ \E f \in todo[r] : ~RecordedOk(row, f)
        /\ UNCHANGED <<row, overlapped>>
    BY <1>3 DEF CheckFile, Finish, TypeOK
  <2>2. \A f, g \in todo[r] : f = g
    BY <2>1 DEF Memory, MemoryOf, TypeOK
  <2>3. QED
    BY <2>1, <2>2
<1>4. ASSUME NEW r \in Runners, Die(r) PROVE TakingTurns'
  BY <1>4 DEF TypeOK, Die, Finish
<1>5. ASSUME NEW r \in Runners, NEW f \in Files, OpenFile(r, f) PROVE TakingTurns'
  BY <1>5, ZenonT(40) DEF TypeOK, OpenFile, Started
<1>6. ASSUME NEW r \in Runners, NEW f \in Files, ApplyFile(r, f) PROVE TakingTurns'
  BY <1>6 DEF TypeOK, ApplyFile
<1>7. ASSUME NEW r \in Runners, NEW f \in Files, ApplyFails(r, f) PROVE TakingTurns'
  BY <1>7 DEF TypeOK, ApplyFails
<1>8. ASSUME NEW r \in Runners, NEW f \in Files, RecordFile(r, f) PROVE TakingTurns'
  <2>1. /\ pc[r] = "record"
        /\ row' = [row EXCEPT ![f] = [sha |-> sums[r][f], ok |-> TRUE]]
        /\ \A q \in Runners \ {r} : pc'[q] = pc[q] /\ todo'[q] = todo[q] /\ seen'[q] = seen[q]
        /\ pc'[r] = "idle" \/ (pc'[r] = "apply" /\ todo'[r] = todo[r] \ {f})
        /\ overlapped' = overlapped
    BY <1>8 DEF RecordFile, RowsAfter, NextFile, Finish, TypeOK
  <2>2. \A g \in Files \ {f} : row'[g] = row[g]
    BY <2>1 DEF TypeOK
  <2>3. ASSUME ~overlapped, NEW q \in Runners, q # r PROVE pc'[q] = "idle"
    BY <2>1, <2>3
  <2>4. ASSUME NEW g \in todo[r] \ {f} PROVE RecordedOk(row, g)' = RecordedOk(row, g)
    BY <2>2, <2>4 DEF TypeOK, RecordedOk, Present
  <2>5. QED
    BY <2>1, <2>3, <2>4
<1>9. ASSUME NEW r \in Runners, NEW f \in Files, RecordFailure(r, f) PROVE TakingTurns'
  <2>1. /\ pc[r] = "failed" /\ pc'[r] = "idle"
        /\ \A q \in Runners \ {r} : pc'[q] = pc[q] /\ todo'[q] = todo[q] /\ seen'[q] = seen[q]
        /\ overlapped' = overlapped
    BY <1>9 DEF RecordFailure, StopAtFailure, Finish, TypeOK
  <2>2. QED
    BY <2>1
<1>9a. ASSUME NEW r \in Runners, NEW f \in Files, RecordFails(r, f) PROVE TakingTurns'
  <2>1. ASSUME ~overlapped, NEW q \in Runners, q # r PROVE pc'[q] = "idle"
    BY <1>9a, <2>1, LossRow
  <2>2. QED
    BY <1>9a, <2>1, LossRow
<1>10. ASSUME NEW f \in Files, Edit(f) PROVE TakingTurns'
  BY <1>10 DEF Edit
<1>11. CASE UNCHANGED vars
  BY <1>11 DEF vars
<1>12. ASSUME NEW r \in Runners, RunnerStep(r) PROVE TakingTurns'
  BY <1>12, <1>1, <1>2, <1>3, <1>4, <1>5, <1>6, <1>7, <1>8, <1>9, <1>9a DEF RunnerStep, FileStep
<1>13. QED
  BY <1>10, <1>11, <1>12 DEF Next

LEMMA RecordedInOrderStep ==
  ASSUME TypeOK, TypeOK', Memory, TakingTurns, RecordedInOrder, [Next]_vars
  PROVE  RecordedInOrder'
<1> USE DEF RecordedInOrder, Working, database, history, runnerVars
<1>1. ASSUME NEW r \in Runners, NEW m \in Modes, Load(r, m) PROVE RecordedInOrder'
  BY <1>1 DEF TypeOK, Load, Started
<1>2. ASSUME NEW r \in Runners, Scan(r) PROVE RecordedInOrder'
  <2>1. /\ pc[r] = "scan"
        /\ \A q \in Runners \ {r} : pc'[q] = pc[q] /\ todo'[q] = todo[q]
        /\ \/ pc'[r] = "idle"
           \/ /\ pc'[r] = "apply" /\ todo'[r] = Pending(mode[r], seen[r])
              /\ ~Refused(mode[r], seen[r])
        /\ UNCHANGED <<row, effect, overlapped, skipped>>
    BY <1>2 DEF Scan, Finish, TypeOK
  <2>2. ASSUME ~Refused(mode[r], seen[r]), NEW f \in Files \ Pending(mode[r], seen[r])
        PROVE  RecordedOk(seen[r], f)
    BY <2>2 DEF Pending, Refused, HasFailure, RecordedOk
  <2>3. ~overlapped => seen[r] = row
    BY <2>1 DEF TakingTurns
  <2>4. QED
    BY <2>1, <2>2, <2>3
<1>3. ASSUME NEW r \in Runners, CheckFile(r) PROVE RecordedInOrder'
  <2>1. /\ pc[r] = "check"
        /\ \A q \in Runners \ {r} : pc'[q] = pc[q] /\ todo'[q] = todo[q]
        /\ UNCHANGED <<row, effect, overlapped>>
    BY <1>3 DEF CheckFile, Finish, TypeOK
  <2>2. CASE pc'[r] = "idle" /\ skipped' = skipped
    BY <2>1, <2>2
  <2>3. ASSUME NEW f \in todo[r], pc' = [pc EXCEPT ![r] = "apply"], todo' = todo,
               skipped' = (skipped \/ \E g \in Files : g < f /\ ~RecordedOk(row, g))
        PROVE  RecordedInOrder'
    <3>1. \A g \in todo[r] : f = g
      BY <2>1 DEF Memory, MemoryOf, TypeOK
    <3>2. ASSUME ~skipped' PROVE ~skipped /\ \A g \in Files : g < f => RecordedOk(row, g)
      BY <2>3, <3>2, Zenon
    <3>3. QED
      BY <2>1, <2>3, <3>1, <3>2 DEF TypeOK
  <2>4. QED
    BY <1>3, <2>2, <2>3 DEF CheckFile, Finish, TypeOK
<1>4. ASSUME NEW r \in Runners, Die(r) PROVE RecordedInOrder'
  BY <1>4 DEF TypeOK, Die, Finish
<1>5. ASSUME NEW r \in Runners, NEW f \in Files, OpenFile(r, f) PROVE RecordedInOrder'
  BY <1>5 DEF TypeOK, OpenFile, Started
<1>6. ASSUME NEW r \in Runners, NEW f \in Files, ApplyFile(r, f) PROVE RecordedInOrder'
  <2>1. /\ pc[r] = "apply" /\ IsNext(r, f)
        /\ pc' = [pc EXCEPT ![r] = "record"]
        /\ effect' = [effect EXCEPT ![f] = text[f]]
        /\ UNCHANGED <<row, todo, overlapped, skipped>>
    BY <1>6 DEF ApplyFile
  <2>2. ASSUME ~overlapped, ~skipped, NEW g \in Files, g < f PROVE RecordedOk(row, g)
    <3>1. g \notin todo[r]
      BY <2>1, <2>2 DEF IsNext, Files, TypeOK
    <3>2. QED
      BY <2>1, <2>2, <3>1 DEF IsNext
  <2>3. QED
    BY <2>1, <2>2 DEF TypeOK
<1>7. ASSUME NEW r \in Runners, NEW f \in Files, ApplyFails(r, f) PROVE RecordedInOrder'
  BY <1>7 DEF TypeOK, ApplyFails
<1>8. ASSUME NEW r \in Runners, NEW f \in Files, RecordFile(r, f) PROVE RecordedInOrder'
  <2>1. /\ pc[r] = "record"
        /\ row' = [row EXCEPT ![f] = [sha |-> sums[r][f], ok |-> TRUE]]
        /\ \A q \in Runners \ {r} : pc'[q] = pc[q] /\ todo'[q] = todo[q]
        /\ pc'[r] = "idle" \/ (pc'[r] = "apply" /\ todo'[r] = todo[r] \ {f})
        /\ UNCHANGED <<effect, overlapped, skipped>>
    BY <1>8 DEF RecordFile, RowsAfter, NextFile, Finish, TypeOK
  <2>2. sums[r][f] # 0
    BY <2>1 DEF Memory, MemoryOf, Knows
  <2>3. \A g \in Files : row'[g] = IF g = f THEN [sha |-> sums[r][f], ok |-> TRUE] ELSE row[g]
    BY <2>1 DEF TypeOK
  <2>4. RecordedOk(row, f)' /\ \A g \in Files : RecordedOk(row, g) => RecordedOk(row, g)'
    BY <2>2, <2>3 DEF RecordedOk, Present
  <2>5. QED
    BY <2>1, <2>4
<1>9. ASSUME NEW r \in Runners, NEW f \in Files, RecordFailure(r, f) PROVE RecordedInOrder'
  <2>1. /\ pc[r] = "failed" /\ pc'[r] = "idle" /\ f \in todo[r]
        /\ \A g \in Files \ {f} : row'[g] = row[g]
        /\ \A q \in Runners \ {r} : pc'[q] = pc[q] /\ todo'[q] = todo[q]
        /\ UNCHANGED <<effect, overlapped, skipped>>
    BY <1>9 DEF RecordFailure, RowsAfterFailure, StopAtFailure, Finish, IsNext, TypeOK
  <2>2. ASSUME ~overlapped, NEW g \in Files, RecordedOk(row, g) PROVE RecordedOk(row, g)'
    <3>1. g # f
      BY <2>1, <2>2 DEF TakingTurns
    <3>2. QED
      BY <2>1, <2>2, <3>1 DEF RecordedOk, Present
  <2>3. ASSUME ~overlapped, NEW q \in Runners PROVE pc'[q] = "idle"
    BY <2>1, <2>3 DEF TakingTurns
  <2>4. QED
    BY <2>1, <2>2, <2>3
<1>9a. ASSUME NEW r \in Runners, NEW f \in Files, RecordFails(r, f) PROVE RecordedInOrder'
  <2>1. ASSUME ~overlapped, NEW g \in Files, RecordedOk(row, g) PROVE RecordedOk(row, g)'
    <3>1. g # f
      BY <1>9a, <2>1, LossRow DEF TakingTurns, IsNext
    <3>2. QED
      BY <1>9a, <2>1, <3>1, LossRow DEF RecordedOk, Present
  <2>2. ASSUME ~overlapped, NEW q \in Runners PROVE pc'[q] = "idle"
    BY <1>9a, <2>2, LossRow DEF TakingTurns
  <2>3. QED
    BY <1>9a, <2>1, <2>2, LossRow
<1>10. ASSUME NEW f \in Files, Edit(f) PROVE RecordedInOrder'
  BY <1>10 DEF Edit
<1>11. CASE UNCHANGED vars
  BY <1>11 DEF vars
<1>12. ASSUME NEW r \in Runners, RunnerStep(r) PROVE RecordedInOrder'
  BY <1>12, <1>1, <1>2, <1>3, <1>4, <1>5, <1>6, <1>7, <1>8, <1>9, <1>9a DEF RunnerStep, FileStep
<1>13. QED
  BY <1>10, <1>11, <1>12 DEF Next

(* Only an execution changes what is in force.                              *)
LEMMA ShapeFrame ==
  ASSUME TypeOK, [Next]_vars
  PROVE  \/ UNCHANGED <<effect, shape, swallowed>> /\ (overlapped => overlapped')
                                                  /\ (skipped => skipped')
         \/ \E r \in Runners, f \in Files : ApplyFile(r, f)
<1> USE DEF database, history, runnerVars
<1>1. ASSUME NEW r \in Runners, RunnerStep(r)
      PROVE  \/ UNCHANGED <<effect, shape, swallowed>> /\ (overlapped => overlapped')
                                                      /\ (skipped => skipped')
             \/ \E f \in Files : ApplyFile(r, f)
  BY <1>1 DEF RunnerStep, FileStep, Load, Started, Scan, CheckFile, Die, OpenFile,
              ApplyFails, RecordFile, RecordFails, RecordFailure
<1>2. QED
  BY <1>1 DEF Next, Edit, vars

LEMMA ShapeStep ==
  ASSUME TypeOK, TypeOK', OrderInv, [Next]_vars
  PROVE  (ShapeExecuted /\ NewestDefinitionInForce)'
<1> USE DEF OrderInv, ShapeExecuted, NewestDefinitionInForce
<1>1. ASSUME NEW r \in Runners, NEW f \in Files, ApplyFile(r, f)
      PROVE  (ShapeExecuted /\ NewestDefinitionInForce)'
  <2>1. /\ pc[r] = "apply" /\ IsNext(r, f)
        /\ effect' = [effect EXCEPT ![f] = text[f]]
        /\ shape' \in ShapesAfter(f)
        /\ swallowed' = IF f \in Definers /\ shape' # f THEN swallowed \union {f}
                                                       ELSE swallowed \ {f}
        /\ UNCHANGED <<row, overlapped, skipped>>
    BY <1>1 DEF ApplyFile
  <2>2. /\ effect' \in [Files -> Sums]
        /\ \A g \in Files : effect'[g] = IF g = f THEN text[f] ELSE effect[g]
        /\ text[f] # 0
    BY <2>1 DEF TypeOK, Texts
  <2>3. ShapeExecuted'
    BY <2>1, <2>2, SubsetAssumption DEF ShapesAfter
  <2>4. ASSUME ~overlapped, ~skipped, NEW g \in Files, f < g PROVE effect[g] = 0
    <3>1. ~RecordedOk(row, f)
      BY <2>1, <2>4 DEF TakingTurns, Working, IsNext
    <3>2. QED
      BY <2>4, <3>1 DEF RecordedInOrder
  <2>5. ASSUME ~overlapped, ~skipped, NEW g \in Definers \ swallowed', effect'[g] # 0
        PROVE  g <= shape'
    <3>1. g \in Files /\ g \in Nat /\ f \in Nat /\ shape \in Nat
      BY SubsetAssumption, SizeAssumption DEF Files, TypeOK
    <3>2. g <= f
      BY <2>2, <2>4, <2>5, <3>1
    <3>3. CASE g = f
      BY <2>1, <2>5, <3>1, <3>3
    <3>4. CASE g # f
      <4>1. effect[g] # 0 /\ g \notin swallowed
        BY <2>1, <2>2, <2>5, <3>1, <3>4
      <4>2. g <= shape
        BY <2>5, <4>1
      <4>3. QED
        BY <2>1, <3>1, <3>2, <4>2 DEF ShapesAfter
    <3>5. QED
      BY <3>3, <3>4
  <2>6. QED
    BY <2>1, <2>3, <2>5
<1>2. QED
  BY <1>1, ShapeFrame

(* Unless two runners met or --file jumped ahead, no older definition of    *)
(* the shared constraint comes back in force, crashes or not: the newest    *)
(* one that the database took when its file was last executed is in force,  *)
(* or one that is newer still.                                              *)
THEOREM NewestStaysInForce == Spec => []NewestDefinitionInForce
<1>1. Init => Memory /\ OrderInv
  <2>1. ASSUME Init PROVE Memory /\ OrderInv
    <3>1. \A f \in Definers : f \in Files
      BY SubsetAssumption
    <3>2. QED
      BY <2>1, <3>1 DEF Init, Memory, MemoryOf, Knows, Working, RecordedOk, Present, NoRow, NoRows,
         OrderInv, TakingTurns, RecordedInOrder, ShapeExecuted, NewestDefinitionInForce
  <2>2. QED
    BY <2>1
<1>2. ASSUME TypeOK, TypeOK', Memory, OrderInv, [Next]_vars PROVE OrderInv'
  BY <1>2, TakingTurnsStep, RecordedInOrderStep, ShapeStep DEF OrderInv
<1>3. OrderInv => NewestDefinitionInForce
  BY DEF OrderInv
<1>4. QED
  BY <1>1, <1>2, <1>3, TypeInit, TypeStep, MemoryStep, PTL DEF Spec

-----------------------------------------------------------------------------
(* The strict runner and failures.  A failure that nobody is about to       *)
(* record has left a row, or is one of those that cannot or did not; and    *)
(* the strict runner only has files to do of which it saw no row.           *)
Failing(f) == \E q \in Runners : pc[q] = "failed" /\ IsNext(q, f)

FailuresLeaveRows ==
  \A f \in failing : f \in Wrapped \union unrecorded \/ Present(row, f) \/ Failing(f)

StrictSawNoRow ==
  \A r \in Runners, f \in Files :
    mode[r] = "strict" =>
      /\ pc[r] # "check"
      /\ Working(r) /\ f \in todo[r] => ~Present(seen[r], f)

LEMMA FailuresStep ==
  ASSUME TypeOK, TypeOK', Memory, FailuresLeaveRows, [Next]_vars
  PROVE  FailuresLeaveRows'
<1> USE DEF FailuresLeaveRows, database, history, runnerVars
<1>1. ASSUME NEW r \in Runners, pc[r] # "failed", failing' \subseteq failing,
             unrecorded \subseteq unrecorded',
             \A f \in Files : Present(row, f) => Present(row, f)',
             \A q \in Runners \ {r} : pc'[q] = pc[q] /\ todo'[q] = todo[q]
      PROVE  FailuresLeaveRows'
  <2>1. ASSUME NEW f \in failing', Failing(f) PROVE Failing(f)'
    BY <1>1, <2>1 DEF Failing, IsNext
  <2>2. failing' \subseteq Files
    BY <1>1 DEF TypeOK
  <2>3. QED
    BY <1>1, <2>1, <2>2
<1>2. ASSUME NEW r \in Runners, NEW m \in Modes, Load(r, m) PROVE FailuresLeaveRows'
  <2>1. /\ pc[r] # "failed"
        /\ \A q \in Runners \ {r} : pc'[q] = pc[q] /\ todo'[q] = todo[q]
        /\ UNCHANGED <<row, failing, unrecorded>>
    BY <1>2 DEF TypeOK, Load, Started
  <2>2. QED
    BY <1>1, <2>1 DEF Present
<1>3. ASSUME NEW r \in Runners, Scan(r) \/ CheckFile(r) PROVE FailuresLeaveRows'
  <2>1. /\ pc[r] # "failed"
        /\ \A q \in Runners \ {r} : pc'[q] = pc[q] /\ todo'[q] = todo[q]
        /\ UNCHANGED <<row, failing, unrecorded>>
    BY <1>3 DEF TypeOK, Scan, CheckFile, Finish
  <2>2. QED
    BY <1>1, <2>1 DEF Present
<1>4. ASSUME NEW r \in Runners, Die(r) PROVE FailuresLeaveRows'
  <2>1. /\ \A q \in Runners \ {r} : pc'[q] = pc[q] /\ todo'[q] = todo[q]
        /\ unrecorded' = IF pc[r] = "failed" THEN unrecorded \union {f \in todo[r] : IsNext(r, f)}
                                             ELSE unrecorded
        /\ UNCHANGED <<row, failing>>
    BY <1>4 DEF Die, Finish, TypeOK
  <2>2. ASSUME NEW f \in failing, Failing(f) PROVE f \in unrecorded' \/ Failing(f)'
    BY <2>1, <2>2 DEF Failing, IsNext
  <2>3. QED
    BY <2>1, <2>2 DEF Present
<1>5. ASSUME NEW r \in Runners, NEW f \in Files, OpenFile(r, f) \/ ApplyFile(r, f)
      PROVE  FailuresLeaveRows'
  <2>1. /\ pc[r] # "failed" /\ failing' \subseteq failing
        /\ \A q \in Runners \ {r} : pc'[q] = pc[q] /\ todo'[q] = todo[q]
        /\ UNCHANGED <<row, unrecorded>>
    BY <1>5 DEF TypeOK, OpenFile, Started, ApplyFile
  <2>2. QED
    BY <1>1, <2>1 DEF Present
<1>6. ASSUME NEW r \in Runners, NEW f \in Files, ApplyFails(r, f) PROVE FailuresLeaveRows'
  <2>1. /\ pc[r] = "apply" /\ IsNext(r, f) /\ pc' = [pc EXCEPT ![r] = "failed"]
        /\ failing' = failing \union {f}
        /\ UNCHANGED <<row, todo, unrecorded>>
    BY <1>6 DEF ApplyFails
  <2>2. Failing(f)' /\ \A g \in Files : Failing(g) => Failing(g)'
    BY <2>1 DEF Failing, IsNext, TypeOK
  <2>3. QED
    BY <2>1, <2>2 DEF Present, TypeOK
<1>7. ASSUME NEW r \in Runners, NEW f \in Files, RecordFile(r, f) PROVE FailuresLeaveRows'
  <2>1. /\ pc[r] = "record"
        /\ row' = [row EXCEPT ![f] = [sha |-> sums[r][f], ok |-> TRUE]]
        /\ \A q \in Runners \ {r} : pc'[q] = pc[q] /\ todo'[q] = todo[q]
        /\ UNCHANGED <<failing, unrecorded>>
    BY <1>7 DEF RecordFile, RowsAfter, NextFile, Finish, TypeOK
  <2>2. sums[r][f] # 0
    BY <2>1 DEF Memory, MemoryOf, Knows, Working
  <2>3. \A g \in Files : Present(row, g) => Present(row, g)'
    BY <2>1, <2>2 DEF Present, TypeOK
  <2>4. QED
    BY <1>1, <2>1, <2>3
<1>8. ASSUME NEW r \in Runners, NEW f \in Files, RecordFailure(r, f) PROVE FailuresLeaveRows'
  <2>1. /\ pc[r] = "failed" /\ IsNext(r, f)
        /\ row' = IF f \in Wrapped THEN row ELSE [row EXCEPT ![f] = [sha |-> sums[r][f], ok |-> FALSE]]
        /\ \A q \in Runners \ {r} : pc'[q] = pc[q] /\ todo'[q] = todo[q]
        /\ UNCHANGED <<failing, unrecorded>>
    BY <1>8 DEF RecordFailure, RowsAfterFailure, StopAtFailure, Finish, TypeOK
  <2>2. sums[r][f] # 0
    BY <2>1 DEF Memory, MemoryOf, Knows, Working
  <2>3. /\ f \in Wrapped \/ Present(row, f)'
        /\ \A g \in Files : Present(row, g) => Present(row, g)'
    BY <2>1, <2>2 DEF Present, TypeOK
  <2>4. ASSUME NEW g \in Files, g # f, Failing(g) PROVE Failing(g)'
    <3>1. PICK q \in Runners : pc[q] = "failed" /\ IsNext(q, g)
      BY <2>4 DEF Failing
    <3>2. q # r
      BY <2>1, <2>4, <3>1, NextIsUnique
    <3>3. QED
      BY <2>1, <3>1, <3>2 DEF Failing, IsNext
  <2>5. QED
    BY <2>1, <2>3, <2>4 DEF TypeOK
<1>8a. ASSUME NEW r \in Runners, NEW f \in Files, RecordFails(r, f) PROVE FailuresLeaveRows'
  <2>1. sums[r][f] # 0
    BY <1>8a, LossRow DEF Memory, MemoryOf, Knows, Working
  <2>2. \A g \in Files : Present(row, g) => Present(row, g)'
    <3>1. row'[f] = row[f] \/ row'[f].sha # 0
      BY <1>8a, <2>1, LossRow
    <3>2. \A g \in Files \ {f} : row'[g] = row[g]
      BY <1>8a, LossRow
    <3>3. QED
      BY <3>1, <3>2 DEF Present
  <2>3. QED
    BY <1>1, <1>8a, <2>2, LossRow
<1>9. ASSUME NEW f \in Files, Edit(f) PROVE FailuresLeaveRows'
  BY <1>9 DEF Edit, Failing, IsNext, Present
<1>10. CASE UNCHANGED vars
  BY <1>10 DEF vars, Failing, IsNext, Present
<1>11. ASSUME NEW r \in Runners, RunnerStep(r) PROVE FailuresLeaveRows'
  BY <1>11, <1>2, <1>3, <1>4, <1>5, <1>6, <1>7, <1>8, <1>8a DEF RunnerStep, FileStep
<1>12. QED
  BY <1>9, <1>10, <1>11 DEF Next

LEMMA StrictStep ==
  ASSUME TypeOK, StrictSawNoRow, [Next]_vars
  PROVE  StrictSawNoRow'
<1> USE DEF StrictSawNoRow, Working, database, history, runnerVars
<1>1. ASSUME NEW r \in Runners,
             \A q \in Runners \ {r} : /\ pc'[q] = pc[q] /\ todo'[q] = todo[q]
                                      /\ seen'[q] = seen[q] /\ mode'[q] = mode[q],
             (~Working(r)' /\ pc'[r] # "check") \/ mode'[r] # "strict" \/
               (Working(r) /\ Working(r)' /\ mode'[r] = mode[r] /\ seen'[r] = seen[r] /\ todo'[r] \subseteq todo[r])
      PROVE  StrictSawNoRow'
  BY <1>1 DEF Present
<1>2. ASSUME NEW r \in Runners, (\E m \in Modes : Load(r, m)) \/ Die(r)
      PROVE  StrictSawNoRow'
  BY <1>1, <1>2 DEF TypeOK, Load, Started, Die, Finish
<1>3. ASSUME NEW r \in Runners, Scan(r) PROVE StrictSawNoRow'
  <2>1. /\ \A q \in Runners \ {r} : /\ pc'[q] = pc[q] /\ todo'[q] = todo[q]
                                    /\ seen'[q] = seen[q] /\ mode'[q] = mode[q]
        /\ \/ pc'[r] = "idle"
           \/ /\ pc'[r] = "apply"
              /\ todo'[r] = Pending(mode[r], seen[r])
              /\ seen'[r] = seen[r] /\ mode'[r] = mode[r]
    BY <1>3 DEF Scan, Finish, TypeOK
  <2>2. mode[r] = "strict" => \A f \in Pending(mode[r], seen[r]) : ~Present(seen[r], f)
    BY DEF Pending
  <2>3. QED
    BY <2>1, <2>2 DEF Present
<1>4. ASSUME NEW r \in Runners, CheckFile(r) PROVE StrictSawNoRow'
  <2>1. /\ \A q \in Runners \ {r} : /\ pc'[q] = pc[q] /\ todo'[q] = todo[q]
                                    /\ seen'[q] = seen[q] /\ mode'[q] = mode[q]
        /\ pc[r] = "check" /\ mode'[r] = mode[r]
    BY <1>4 DEF TypeOK, CheckFile, Finish
  <2>2. mode[r] = "strict" => \A f \in Files : FALSE
    BY <2>1
  <2>3. QED
    BY <2>1, <2>2
<1>5. ASSUME NEW r \in Runners, NEW f \in Files, OpenFile(r, f) PROVE StrictSawNoRow'
  BY <1>1, <1>5 DEF TypeOK, OpenFile, Started
<1>6. ASSUME NEW r \in Runners, NEW f \in Files,
             ApplyFile(r, f) \/ ApplyFails(r, f)
      PROVE  StrictSawNoRow'
  BY <1>1, <1>6 DEF TypeOK, ApplyFile, ApplyFails
<1>7. ASSUME NEW r \in Runners, NEW f \in Files, RecordFile(r, f) PROVE StrictSawNoRow'
  <2>1. /\ \A q \in Runners \ {r} : /\ pc'[q] = pc[q] /\ todo'[q] = todo[q]
                                    /\ seen'[q] = seen[q] /\ mode'[q] = mode[q]
        /\ \/ pc'[r] = "idle"
           \/ /\ pc[r] = "record" /\ pc'[r] = "apply"
              /\ mode'[r] = mode[r] /\ seen'[r] = seen[r] /\ todo'[r] \subseteq todo[r]
    BY <1>7 DEF TypeOK, RecordFile, NextFile, Finish
  <2>2. QED
    BY <1>1, <2>1
<1>8. ASSUME NEW r \in Runners, NEW f \in Files, RecordFailure(r, f) PROVE StrictSawNoRow'
  BY <1>1, <1>8 DEF TypeOK, RecordFailure, StopAtFailure, Finish
<1>8a. ASSUME NEW r \in Runners, NEW f \in Files, RecordFails(r, f) PROVE StrictSawNoRow'
  BY <1>1, <1>8a, LossRow
<1>9. ASSUME NEW f \in Files, Edit(f) PROVE StrictSawNoRow'
  BY <1>9 DEF Edit, Present
<1>10. CASE UNCHANGED vars
  BY <1>10 DEF vars, Present
<1>11. ASSUME NEW r \in Runners, RunnerStep(r) PROVE StrictSawNoRow'
  BY <1>11, <1>2, <1>3, <1>4, <1>5, <1>6, <1>7, <1>8, <1>8a DEF RunnerStep, FileStep
<1>12. QED
  BY <1>9, <1>10, <1>11 DEF Next

(* The strict runner takes up a file that failed only if the failure could  *)
(* not be recorded, was lost with its runner, or happened since it looked.  *)
THEOREM NoBlindRetryHolds == Spec => []NoBlindRetry
<1>1. Init => Memory /\ FailuresLeaveRows /\ StrictSawNoRow
  <2>1. ASSUME Init PROVE Memory /\ FailuresLeaveRows /\ StrictSawNoRow
    BY <2>1 DEF Init, Memory, MemoryOf, Knows, Working, RecordedOk, Present, NoRow, NoRows,
                FailuresLeaveRows, StrictSawNoRow
  <2>2. QED
    BY <2>1
<1>2. TypeOK /\ FailuresLeaveRows /\ StrictSawNoRow => NoBlindRetry
  <2>1. ASSUME TypeOK, FailuresLeaveRows, StrictSawNoRow, NEW r \in Runners, NEW f \in failing,
               pc[r] = "apply", mode[r] = "strict", IsNext(r, f)
        PROVE  f \in Wrapped \union unrecorded \/ row[f] # seen[r][f] \/ Failing(f)
    <3>1. f \in Files /\ ~Present(seen[r], f)
      BY <2>1 DEF TypeOK, StrictSawNoRow, Working, IsNext
    <3>2. QED
      BY <2>1, <3>1 DEF FailuresLeaveRows, Present
  <2>2. QED
    BY <2>1 DEF NoBlindRetry, Failing
<1>3. QED
  BY <1>1, <1>2, TypeInit, TypeStep, MemoryStep, FailuresStep, StrictStep, PTL DEF Spec
=============================================================================
