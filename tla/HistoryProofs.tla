----------------------------- MODULE HistoryProofs -----------------------------
(***************************************************************************)
(* The two history tables for any number of writers, rows and times and    *)
(* any Limit: what concurrent pruning preserves in either, then the        *)
(* realtime feature history, then the trend history of a station.          *)
(***************************************************************************)
EXTENDS FeatureHistory, TrendHistory, FiniteSetTheorems, WellFoundedInduction, TLAPS

(* At least Limit rows of S are newer than r. *)
Surpassed(S, r) == Cardinality(NewerIn(S, r)) >= Limit

(* What has been deleted is surpassed by what was committed; what is about  *)
(* to be deleted is surpassed by what will then have been committed.        *)
TableInv ==
  /\ TableTypeOK
  /\ IsFiniteSet(ever) /\ rows \subseteq ever
  /\ \A w \in Writers : IsFiniteSet(own[w])
  /\ \A w \in Writers : phase[w] = "inserted" => victims[w] = {}
  /\ \A r \in ever \ rows : Surpassed(ever, r)
  /\ \A w \in Writers : \A r \in victims[w] : Surpassed(ever \cup own[w], r)

(* More rows surpass no fewer.                                              *)
LEMMA SurpassedGrows ==
  ASSUME NEW S, NEW T, S \subseteq T, IsFiniteSet(T), NEW r, Surpassed(S, r)
  PROVE  Surpassed(T, r)
<1>1. NewerIn(S, r) \subseteq NewerIn(T, r) /\ NewerIn(T, r) \subseteq T
  BY DEF NewerIn
<1>2. IsFiniteSet(NewerIn(T, r))
  BY <1>1, FS_Subset
<1>3. Cardinality(NewerIn(S, r)) <= Cardinality(NewerIn(T, r))
  BY <1>1, <1>2, FS_Subset
<1>4. IsFiniteSet(NewerIn(S, r))
  BY <1>1, <1>2, FS_Subset
<1>5. Cardinality(NewerIn(S, r)) \in Nat /\ Cardinality(NewerIn(T, r)) \in Nat
  BY <1>2, <1>4, FS_CardinalityType
<1>6. QED
  BY <1>3, <1>5, TableAssumption DEF Surpassed

(* In a finite table a row is either among the newest or surpassed.         *)
LEMMA TopOrSurpassed ==
  ASSUME NEW S, IsFiniteSet(S), NEW r \in S
  PROVE  r \in Top(S) <=> ~ Surpassed(S, r)
<1>1. NewerIn(S, r) \subseteq S
  BY DEF NewerIn
<1>2. Cardinality(NewerIn(S, r)) \in Nat
  BY <1>1, FS_Subset, FS_CardinalityType
<1>3. QED
  BY <1>2, TableAssumption DEF Top, Surpassed

LEMMA RowFields ==
  ASSUME NEW a \in Rows
  PROVE  a.at \in Nat /\ a.id \in Nat
<1>1. a.at \in Times /\ a.id \in 1..MaxRows
  BY DEF Rows
<1>2. Times \subseteq Nat /\ MaxRows \in Nat
  BY TableAssumption
<1>3. a.at \in Nat
  BY <1>1, <1>2, Zenon
<1>4. a.id \in Nat
  BY <1>1, <1>2
<1>5. QED
  BY <1>3, <1>4

(* Newer is a strict order.                                                 *)
LEMMA NewerTransitive ==
  ASSUME NEW a \in Rows, NEW b \in Rows, NEW c \in Rows, Newer(a, b), Newer(b, c)
  PROVE  Newer(a, c)
  BY RowFields DEF Newer

LEMMA NewerIrreflexive ==
  ASSUME NEW a \in Rows
  PROVE  ~ Newer(a, a)
  BY RowFields DEF Newer

(* A nonempty set of rows has one that no other of them is newer than.      *)
LEMMA NewestExists ==
  ASSUME NEW S \in SUBSET Rows, IsFiniteSet(S), NEW D \in SUBSET S, D # {}
  PROVE  \E d \in D : \A q \in D : ~ Newer(q, d)
<1> DEFINE T == {NewerIn(S, d) : d \in D}
<1>1. T \subseteq FiniteSubsetsOf(S)
  BY FS_Subset DEF FiniteSubsetsOf, NewerIn
<1>2. T # {}
  OBVIOUS
<1> HIDE DEF T
<1>3. PICK x \in T : \A y \in T : <<y, x>> \notin StrictSubsetOrdering(S)
  BY <1>1, <1>2, FS_StrictSubsetOrderingWellFounded, WFMin
<1> USE DEF T
<1>4. PICK d \in D : x = NewerIn(S, d)
  OBVIOUS
<1>5. ASSUME NEW q \in D, Newer(q, d)
      PROVE  FALSE
  <2>1. NewerIn(S, q) \subseteq NewerIn(S, d)
    BY <1>5, NewerTransitive DEF NewerIn
  <2>2. q \in NewerIn(S, d) /\ q \notin NewerIn(S, q)
    BY <1>5, NewerIrreflexive DEF NewerIn
  <2>3. NewerIn(S, q) \in SUBSET S /\ NewerIn(S, d) \in SUBSET S
    BY DEF NewerIn
  <2>4. <<NewerIn(S, q), NewerIn(S, d)>> \in StrictSubsetOrdering(S)
    BY <2>1, <2>2, <2>3 DEF StrictSubsetOrdering
  <2>5. QED
    BY <1>3, <1>4, <2>4
<1>6. QED
  BY <1>5

(* What the invariant says is enough: a row that was deleted could be       *)
(* missed only by a reader that would not have read it.                     *)
LEMMA InvisibleIfSurpassed ==
  ASSUME TableInv
  PROVE  PruningInvisible
<1>1. rows \subseteq ever /\ IsFiniteSet(ever) /\ IsFiniteSet(rows) /\ ever \subseteq Rows
  BY FS_Subset DEF TableInv, TableTypeOK
<1>2. ASSUME NEW r \in Top(ever)
      PROVE  r \in Top(rows)
  <2>1. r \in ever /\ ~ Surpassed(ever, r)
    BY <1>1, TopOrSurpassed DEF Top
  <2>2. r \in rows
    BY <2>1 DEF TableInv
  <2>3. ~ Surpassed(rows, r)
    BY <1>1, <2>1, SurpassedGrows
  <2>4. QED
    BY <1>1, <2>2, <2>3, TopOrSurpassed
<1>3. ASSUME NEW r \in Top(rows), r \notin Top(ever)
      PROVE  FALSE
  <2> DEFINE D == NewerIn(ever, r) \ rows
  <2>1. r \in rows /\ r \in ever /\ ~ Surpassed(rows, r) /\ Surpassed(ever, r)
    BY <1>1, <1>3, TopOrSurpassed DEF Top
  <2>2. D # {}
    <3>1. SUFFICES ASSUME D = {}
                   PROVE  NewerIn(ever, r) = NewerIn(rows, r)
      BY <2>1 DEF Surpassed
    <3>2. QED
      BY <1>1, <3>1 DEF NewerIn
  <2>3. D \subseteq ever
    BY DEF NewerIn
  <2> HIDE DEF D
  <2>4. PICK d \in D : \A q \in D : ~ Newer(q, d)
    BY <1>1, <2>2, <2>3, NewestExists
  <2> USE DEF D
  <2>5. d \in ever \ rows /\ Newer(d, r) /\ d \in Rows /\ r \in Rows
    BY <1>1, <2>1 DEF NewerIn
  <2>6. NewerIn(ever, d) \subseteq NewerIn(rows, r)
    <3>1. SUFFICES ASSUME NEW q \in ever, Newer(q, d)
                   PROVE  q \in rows /\ Newer(q, r)
      BY DEF NewerIn
    <3>2. Newer(q, r)
      BY <1>1, <2>5, <3>1, NewerTransitive
    <3>3. QED
      BY <2>4, <3>1, <3>2 DEF NewerIn
  <2>7. Surpassed(ever, d)
    BY <2>5 DEF TableInv
  <2>8. /\ NewerIn(rows, r) \subseteq rows
        /\ IsFiniteSet(NewerIn(rows, r))
    BY <1>1, FS_Subset DEF NewerIn
  <2>9. /\ Cardinality(NewerIn(ever, d)) <= Cardinality(NewerIn(rows, r))
        /\ IsFiniteSet(NewerIn(ever, d))
    BY <2>6, <2>8, FS_Subset
  <2>10. /\ Cardinality(NewerIn(rows, r)) \in Nat
         /\ Cardinality(NewerIn(ever, d)) \in Nat
    BY <2>8, <2>9, FS_CardinalityType
  <2>11. Surpassed(rows, r)
    BY <2>7, <2>9, <2>10, TableAssumption DEF Surpassed
  <2>12. QED
    BY <2>1, <2>11
<1>4. QED
  BY <1>2, <1>3 DEF PruningInvisible

LEMMA TableInit_Inv ==
  ASSUME TableInit
  PROVE  TableInv
<1>1. TableTypeOK
  BY TableAssumption DEF TableInit, TableTypeOK
<1>2. QED
  BY <1>1, FS_EmptySet DEF TableInit, TableInv

LEMMA Insert_Inv ==
  ASSUME TableInv, NEW w \in Writers, NEW t \in Times, Insert(w, t)
  PROVE  TableInv'
<1> USE DEF TableInv, Insert
<1>1. lastId' \in 1..MaxRows
  BY TableAssumption DEF TableTypeOK
<1>2. [at |-> t, id |-> lastId'] \in Rows
  BY <1>1 DEF Rows
<1>3. TableTypeOK'
  BY <1>1, <1>2 DEF TableTypeOK
<1>4. \A v \in Writers : IsFiniteSet(own'[v])
  BY FS_Singleton DEF TableTypeOK
<1>5. \A v \in Writers : phase'[v] = "inserted" => victims'[v] = {}
  BY DEF TableTypeOK
<1>6. \A v \in Writers : \A r \in victims'[v] : Surpassed(ever' \cup own'[v], r)
  BY DEF TableTypeOK, Surpassed, NewerIn
<1>7. \A r \in ever' \ rows' : Surpassed(ever', r)
  BY DEF Surpassed
<1>8. QED
  BY <1>3, <1>4, <1>5, <1>6, <1>7

(* A pruning DELETE sees a part of what will have been committed.           *)
LEMMA Prune_Inv ==
  ASSUME TableInv, NEW w \in Writers, Prune(w)
  PROVE  TableInv'
<1> USE DEF TableInv, Prune
<1>1. View(w) \subseteq ever \cup own[w] /\ View(w) \subseteq Rows
  BY DEF View, TableTypeOK
<1>2. IsFiniteSet(ever \cup own[w])
  BY FS_Union
<1>3. IsFiniteSet(View(w))
  BY <1>1, <1>2, FS_Subset
<1>4. \A r \in Doomed(w) : r \in Rows /\ Surpassed(ever \cup own[w], r)
  <2>1. SUFFICES ASSUME NEW r \in Doomed(w)
                 PROVE  r \in Rows /\ Surpassed(ever \cup own[w], r)
    OBVIOUS
  <2>2. r \in View(w) /\ Surpassed(View(w), r)
    BY <1>3, <2>1, TopOrSurpassed DEF Doomed
  <2>3. QED
    BY <1>1, <1>2, <2>2, SurpassedGrows
<1>5. TableTypeOK'
  BY <1>4 DEF TableTypeOK
<1>6. \A v \in Writers : phase'[v] = "inserted" => victims'[v] = {}
  BY DEF TableTypeOK
<1>7. \A v \in Writers : \A r \in victims'[v] : Surpassed(ever' \cup own'[v], r)
  <2>1. SUFFICES ASSUME NEW v \in Writers, NEW r \in victims'[v]
                 PROVE  Surpassed(ever \cup own[v], r)
    BY DEF Surpassed
  <2>2. CASE v = w
    BY <1>4, <2>1, <2>2 DEF TableTypeOK
  <2>3. CASE v # w
    BY <2>1, <2>3 DEF TableTypeOK
  <2>4. QED
    BY <2>2, <2>3
<1>8. \A r \in ever' \ rows' : Surpassed(ever', r)
  BY DEF Surpassed
<1>9. QED
  BY <1>5, <1>6, <1>7, <1>8

(* Every transaction's end leaves the others' obligations as they were.     *)
LEMMA Commit_Inv ==
  ASSUME TableInv, NEW w \in Writers, Commit(w)
  PROVE  TableInv'
<1> USE DEF TableInv, Commit, Finish
<1>1. TableTypeOK'
  BY DEF TableTypeOK
<1>2. IsFiniteSet(ever') /\ rows' \subseteq ever' /\ ever \subseteq ever'
  BY FS_Union
<1>3. \A v \in Writers : IsFiniteSet(own'[v])
  BY FS_EmptySet DEF TableTypeOK
<1>4. \A v \in Writers : phase'[v] = "inserted" => victims'[v] = {}
  BY DEF TableTypeOK
<1>5. \A r \in ever' \ rows' : Surpassed(ever', r)
  <2>1. SUFFICES ASSUME NEW r \in ever' \ rows'
                 PROVE  Surpassed(ever', r)
    OBVIOUS
  <2>2. CASE r \in victims[w]
    BY <2>2 DEF Surpassed
  <2>3. CASE r \notin victims[w]
    <3>1. Surpassed(ever, r)
      BY <2>1, <2>3
    <3>2. QED
      BY <1>2, <3>1, SurpassedGrows
  <2>4. QED
    BY <2>2, <2>3
<1>6. \A v \in Writers : \A r \in victims'[v] : Surpassed(ever' \cup own'[v], r)
  <2>1. SUFFICES ASSUME NEW v \in Writers, NEW r \in victims'[v]
                 PROVE  Surpassed(ever' \cup own'[v], r)
    OBVIOUS
  <2>2. v # w /\ victims'[v] = victims[v] /\ own'[v] = own[v]
    BY <2>1 DEF TableTypeOK
  <2>3. Surpassed(ever \cup own[v], r)
    BY <2>1, <2>2
  <2>4. IsFiniteSet(ever' \cup own[v])
    BY <1>2, FS_Union
  <2>5. QED
    BY <1>2, <2>2, <2>3, <2>4, SurpassedGrows
<1>7. QED
  BY <1>1, <1>2, <1>3, <1>4, <1>5, <1>6

LEMMA Abort_Inv ==
  ASSUME TableInv, NEW w \in Writers, Abort(w)
  PROVE  TableInv'
<1> USE DEF TableInv, Abort, Finish
<1>1. TableTypeOK'
  BY DEF TableTypeOK
<1>2. \A v \in Writers : IsFiniteSet(own'[v])
  BY FS_EmptySet DEF TableTypeOK
<1>3. \A v \in Writers : phase'[v] = "inserted" => victims'[v] = {}
  BY DEF TableTypeOK
<1>4. \A v \in Writers : \A r \in victims'[v] : Surpassed(ever' \cup own'[v], r)
  BY DEF TableTypeOK, Surpassed
<1>5. \A r \in ever' \ rows' : Surpassed(ever', r)
  BY DEF Surpassed
<1>6. QED
  BY <1>1, <1>2, <1>3, <1>4, <1>5

LEMMA TableStutter_Inv ==
  ASSUME TableInv, UNCHANGED tableVars
  PROVE  TableInv'
<1>1. TableTypeOK'
  BY DEF TableInv, TableTypeOK, tableVars
<1>2. QED
  BY <1>1 DEF TableInv, tableVars, Surpassed
(* A nonempty finite set of rows has one that is newer than no other of it.  *)
LEMMA OldestExists ==
  ASSUME NEW S \in SUBSET Rows, IsFiniteSet(S), S # {}
  PROVE  \E d \in S : \A q \in S : ~ Newer(d, q)
<1> DEFINE Older(d) == {q \in S : Newer(d, q)}
           T == {Older(d) : d \in S}
<1>1. T \subseteq FiniteSubsetsOf(S)
  BY FS_Subset DEF FiniteSubsetsOf
<1>2. T # {}
  OBVIOUS
<1> HIDE DEF T
<1>3. PICK x \in T : \A y \in T : <<y, x>> \notin StrictSubsetOrdering(S)
  BY <1>1, <1>2, FS_StrictSubsetOrderingWellFounded, WFMin
<1> USE DEF T
<1>4. PICK d \in S : x = Older(d)
  OBVIOUS
<1>5. ASSUME NEW q \in S, Newer(d, q)
      PROVE  FALSE
  <2>1. Older(q) \subseteq Older(d)
    BY <1>5, NewerTransitive
  <2>2. q \in Older(d) /\ q \notin Older(q)
    BY <1>5, NewerIrreflexive
  <2>3. <<Older(q), Older(d)>> \in StrictSubsetOrdering(S)
    BY <2>1, <2>2 DEF StrictSubsetOrdering
  <2>4. QED
    BY <1>3, <1>4, <2>3
<1>6. QED
  BY <1>5

LEMMA NewerTotal ==
  ASSUME NEW a \in Rows, NEW b \in Rows, a # b
  PROVE  Newer(a, b) \/ Newer(b, a)
<1>1. a.at # b.at \/ a.id # b.id
  BY DEF Rows
<1>2. QED
  BY <1>1, RowFields DEF Newer

(* The newest Limit rows are at most Limit.                                 *)
LEMMA TopBounded ==
  ASSUME NEW S \in SUBSET Rows, IsFiniteSet(S)
  PROVE  IsFiniteSet(Top(S)) /\ Cardinality(Top(S)) <= Limit
<1>1. Top(S) \subseteq S /\ IsFiniteSet(Top(S))
  BY FS_Subset DEF Top
<1>2. CASE Top(S) = {}
  BY <1>2, FS_EmptySet, TableAssumption
<1>3. CASE Top(S) # {}
  <2>1. PICK d \in Top(S) : \A q \in Top(S) : ~ Newer(d, q)
    BY <1>1, <1>3, OldestExists
  <2>2. Top(S) \ {d} \subseteq NewerIn(S, d)
    BY <1>1, <2>1, NewerTotal DEF NewerIn
  <2>3. NewerIn(S, d) \subseteq S /\ IsFiniteSet(NewerIn(S, d))
    BY FS_Subset DEF NewerIn
  <2>4. Cardinality(NewerIn(S, d)) < Limit
    BY <2>1 DEF Top
  <2>5. Cardinality(Top(S) \ {d}) <= Cardinality(NewerIn(S, d))
    BY <2>2, <2>3, FS_Subset
  <2>6. Cardinality(Top(S) \ {d}) = Cardinality(Top(S)) - 1
    BY <1>1, <2>1, FS_RemoveElement
  <2>7. Cardinality(NewerIn(S, d)) \in Nat /\ Cardinality(Top(S)) \in Nat
    BY <1>1, <2>3, FS_CardinalityType
  <2>8. QED
    BY <1>1, <2>4, <2>5, <2>6, <2>7, TableAssumption
<1>4. QED
  BY <1>2, <1>3

(* Why the table never holds more than one row per writer too many.  Put    *)
(* the open transactions that have pruned in the order they did: O[w] are   *)
(* those that pruned before w, B those that pruned before the one whose     *)
(* commit left the table as it is.  A transaction adds one row that the     *)
(* ones after it did not see, so what each of them will leave behind still  *)
(* has room for one row of every transaction before it.                     *)
Pruned == {w \in Writers : phase[w] = "pruned"}
Outcome(w) == (rows \cup own[w]) \ victims[w]
Room(S, B) == Cardinality(S) + Cardinality(B) <= Limit + Cardinality(Writers) - 1

Ordered(P, O) ==
  /\ \A w \in Writers : O[w] \subseteq P \ {w}
  /\ \A v, w \in P : v # w => v \in O[w] \/ w \in O[v]
  /\ \A v, w \in Writers : v \in O[w] => O[v] \subseteq O[w]

AtMostOne(X) == \A a, b \in X : a = b
AtMostOneOwn == \A w \in Writers : AtMostOne(own[w])

Overshoot ==
  \E O \in [Writers -> SUBSET Writers], B \in SUBSET Pruned :
    /\ Ordered(Pruned, O)
    /\ Room(rows, B)
    /\ \A w \in Pruned : Room(Outcome(w), O[w])

LEMMA RoomShrinks ==
  ASSUME NEW S, NEW T, IsFiniteSet(S), T \subseteq S,
         NEW B \in SUBSET Writers, NEW C \in SUBSET B, Room(S, B)
  PROVE  Room(T, C)
<1>1. IsFiniteSet(B) /\ IsFiniteSet(T) /\ IsFiniteSet(C) /\ IsFiniteSet(Writers)
  BY FS_Subset, TableAssumption
<1>2. Cardinality(T) <= Cardinality(S) /\ Cardinality(C) <= Cardinality(B)
  BY <1>1, FS_Subset
<1>3. /\ Cardinality(T) \in Nat /\ Cardinality(S) \in Nat /\ Cardinality(B) \in Nat
      /\ Cardinality(C) \in Nat /\ Cardinality(Writers) \in Nat
  BY <1>1, FS_CardinalityType
<1>4. QED
  BY <1>2, <1>3, TableAssumption DEF Room

(* One more row takes the place of one transaction that is over.            *)
LEMMA RoomTraded ==
  ASSUME NEW S, NEW B, Room(S, B), IsFiniteSet(S), B \subseteq Writers,
         NEW X, AtMostOne(X), NEW T, T \subseteq S \cup X,
         NEW v, v \in B, NEW C, C \subseteq B, v \notin C
  PROVE  Room(T, C)
<1>1. /\ IsFiniteSet(B) /\ IsFiniteSet(Writers) /\ IsFiniteSet(B \ {v})
      /\ Cardinality(B \ {v}) = Cardinality(B) - 1
  BY FS_Subset, FS_RemoveElement, TableAssumption
<1>2. IsFiniteSet(C) /\ Cardinality(C) <= Cardinality(B \ {v})
  <2>1. C \subseteq B \ {v}
    OBVIOUS
  <2>2. QED
    BY <1>1, <2>1, FS_Subset
<1>3. PICK U : IsFiniteSet(U) /\ S \cup X = U /\ Cardinality(U) <= Cardinality(S) + 1
  <2>1. CASE X \subseteq S
    <3>1. S \cup X = S /\ Cardinality(S) \in Nat
      BY <2>1, FS_CardinalityType
    <3>2. Cardinality(S) <= Cardinality(S) + 1
      BY <3>1
    <3>3. QED
      BY <3>1, <3>2
  <2>2. CASE ~ (X \subseteq S)
    <3>1. PICK x \in X : x \notin S
      BY <2>2
    <3>2. S \cup X = S \cup {x}
      BY <3>1 DEF AtMostOne
    <3>3. /\ IsFiniteSet(S \cup {x}) /\ Cardinality(S \cup {x}) = Cardinality(S) + 1
          /\ Cardinality(S) \in Nat
      BY <3>1, FS_AddElement, FS_CardinalityType
    <3>4. Cardinality(S \cup {x}) <= Cardinality(S) + 1
      BY <3>3
    <3>5. QED
      BY <3>2, <3>3, <3>4
  <2>3. QED
    BY <2>1, <2>2
<1>4. IsFiniteSet(T) /\ Cardinality(T) <= Cardinality(U)
  BY <1>3, FS_Subset
<1>5. /\ Cardinality(T) \in Nat /\ Cardinality(S) \in Nat /\ Cardinality(U) \in Nat
      /\ Cardinality(B) \in Nat /\ Cardinality(C) \in Nat /\ Cardinality(Writers) \in Nat
  BY <1>1, <1>2, <1>3, <1>4, FS_CardinalityType
<1>6. QED
  BY <1>1, <1>2, <1>3, <1>4, <1>5, TableAssumption DEF Room

LEMMA FiniteTable ==
  ASSUME TableInv
  PROVE  /\ IsFiniteSet(rows) /\ rows \subseteq Rows
         /\ \A w \in Writers : /\ own[w] \subseteq Rows
                               /\ IsFiniteSet(Outcome(w)) /\ IsFiniteSet(rows \cup own[w])
<1>1. IsFiniteSet(rows) /\ rows \subseteq Rows
  BY FS_Subset DEF TableInv, TableTypeOK
<1>2. ASSUME NEW w \in Writers
      PROVE  IsFiniteSet(rows \cup own[w]) /\ own[w] \subseteq Rows
  BY <1>1, FS_Union DEF TableInv, TableTypeOK
<1>3. \A w \in Writers : IsFiniteSet(Outcome(w))
  BY <1>2, FS_Subset DEF Outcome
<1>4. QED
  BY <1>1, <1>2, <1>3

LEMMA Prune_Overshoot ==
  ASSUME TableInv, AtMostOneOwn, Overshoot, NEW w \in Writers, Prune(w)
  PROVE  Overshoot'
<1>1. PICK O \in [Writers -> SUBSET Writers], B \in SUBSET Pruned :
        /\ Ordered(Pruned, O) /\ Room(rows, B)
        /\ \A v \in Pruned : Room(Outcome(v), O[v])
  BY DEF Overshoot
<1>2. PICK P : P = Pruned
  OBVIOUS
<1> DEFINE O2 == [O EXCEPT ![w] = P]
<1>3. /\ Pruned' = P \cup {w} /\ w \notin P /\ P \subseteq Writers
      /\ \A v \in P : v \in Writers /\ victims'[v] = victims[v]
  BY <1>2 DEF Prune, Pruned, TableInv, TableTypeOK
<1>4. rows' = rows /\ own' = own
  BY DEF Prune
<1>5. O2 \in [Writers -> SUBSET Writers] /\ Ordered(P \cup {w}, O2)
  BY <1>1, <1>2, <1>3 DEF Ordered
<1>6. O2[w] = P /\ \A v \in P : O2[v] = O[v]
  BY <1>3
<1> HIDE DEF O2
<1>7. Room(rows', B)
  BY <1>1, <1>4 DEF Room
<1>8. ASSUME NEW v \in P
      PROVE  Room(Outcome(v)', O2[v])
  <2>1. Outcome(v)' = Outcome(v)
    BY <1>3, <1>4 DEF Outcome
  <2>2. QED
    BY <1>1, <1>2, <1>6, <2>1
<1>9. Room(Outcome(w)', O2[w])
  <2>1. View(w) \in SUBSET Rows /\ IsFiniteSet(View(w))
    BY FiniteTable DEF View
  <2>2. Outcome(w)' = Top(View(w))
    <3>1. victims'[w] = View(w) \ Top(View(w))
      BY DEF Prune, Doomed, TableInv, TableTypeOK
    <3>2. Outcome(w)' = View(w) \ victims'[w]
      BY <1>4 DEF Outcome, View
    <3>3. Top(View(w)) \subseteq View(w)
      BY DEF Top
    <3>4. QED
      BY <3>1, <3>2, <3>3
  <2>3. Cardinality(Top(View(w))) <= Limit /\ Cardinality(Top(View(w))) \in Nat
    BY <2>1, TopBounded, FS_CardinalityType
  <2>4. /\ IsFiniteSet(Writers \ {w}) /\ Cardinality(Writers \ {w}) = Cardinality(Writers) - 1
        /\ Cardinality(Writers) \in Nat
    BY TableAssumption, FS_RemoveElement, FS_CardinalityType
  <2>5. P \subseteq Writers \ {w}
    BY <1>3
  <2>6. Cardinality(P) <= Cardinality(Writers) - 1 /\ Cardinality(P) \in Nat
    BY <2>4, <2>5, FS_Subset, FS_CardinalityType
  <2>7. QED
    BY <1>6, <2>2, <2>3, <2>4, <2>6, TableAssumption DEF Room
<1>10. QED
  BY <1>1, <1>2, <1>3, <1>5, <1>7, <1>8, <1>9 DEF Overshoot

LEMMA Commit_Overshoot ==
  ASSUME TableInv, AtMostOneOwn, Overshoot, NEW v \in Writers, Commit(v)
  PROVE  Overshoot'
<1>1. PICK O \in [Writers -> SUBSET Writers], B \in SUBSET Pruned :
        /\ Ordered(Pruned, O) /\ Room(rows, B)
        /\ \A w \in Pruned : Room(Outcome(w), O[w])
  BY DEF Overshoot
<1>2. PICK P : P = Pruned
  OBVIOUS
<1> DEFINE O2 == [w \in Writers |-> IF w = v THEN {} ELSE O[w] \ {v}]
           B2 == IF v \in B THEN B \ {v} ELSE O[v]
<1>3. /\ Pruned' = P \ {v} /\ v \in P /\ P \subseteq Writers
      /\ \A w \in P \ {v} : w \in Writers /\ victims'[w] = victims[w] /\ own'[w] = own[w]
  BY <1>2 DEF Commit, Finish, Pruned, TableInv, TableTypeOK
<1>4. rows' = Outcome(v) /\ Room(Outcome(v), O[v])
  BY <1>1, <1>2, <1>3 DEF Commit, Outcome
<1>5. O2 \in [Writers -> SUBSET Writers] /\ Ordered(P \ {v}, O2)
  BY <1>1, <1>2, <1>3 DEF Ordered
<1>6. \A w \in P \ {v} : O2[w] = O[w] \ {v}
  BY <1>3
<1>7. B2 \in SUBSET (P \ {v})
  BY <1>1, <1>2 DEF Ordered
<1>8. Room(rows', B2)
  <2>1. CASE v \in B
    <3>1. IsFiniteSet(rows) /\ rows' \subseteq rows \cup own[v]
      BY <1>4, FiniteTable DEF Outcome
    <3>2. B \subseteq Writers /\ B2 \subseteq B /\ v \notin B2 /\ Room(rows, B)
      BY <1>1, <1>2, <1>3, <2>1
    <3>3. AtMostOne(own[v])
      BY DEF AtMostOneOwn
    <3> HIDE DEF B2
    <3>4. QED
      BY <2>1, <3>1, <3>2, <3>3, RoomTraded
  <2>2. CASE v \notin B
    BY <1>4, <2>2
  <2>3. QED
    BY <2>1, <2>2
<1> HIDE DEF O2, B2
<1>9. ASSUME NEW w \in P \ {v}
      PROVE  Room(Outcome(w)', O2[w])
  <2>1. /\ w \in Writers /\ Outcome(w)' = (Outcome(v) \cup own[w]) \ victims[w]
        /\ O2[w] = O[w] \ {v}
        /\ O[w] \in SUBSET Writers /\ O[v] \in SUBSET Writers
        /\ IsFiniteSet(Outcome(w)) /\ IsFiniteSet(Outcome(v))
    BY <1>1, <1>3, <1>4, <1>6, FiniteTable DEF Outcome
  <2>2. PICK T : T = Outcome(w)'
    OBVIOUS
  <2>3. CASE v \in O[w]
    <3>1. T \subseteq Outcome(w) \cup own[v]
      BY <2>1, <2>2 DEF Outcome
    <3>2. Room(Outcome(w), O[w]) /\ AtMostOne(own[v])
      BY <1>1, <1>2 DEF AtMostOneOwn
    <3>3. O2[w] \subseteq O[w] /\ v \notin O2[w] /\ O[w] \subseteq Writers
      BY <2>1
    <3>4. Room(T, O2[w])
      BY <2>1, <2>3, <3>1, <3>2, <3>3, RoomTraded
    <3>5. QED
      BY <2>2, <3>4
  <2>4. CASE v \notin O[w]
    <3>1. w \in O[v] /\ O[w] \subseteq O[v] /\ w \notin O[w]
      BY <1>1, <1>2, <1>3, <2>1, <2>4 DEF Ordered
    <3>2. O2[w] \subseteq O[v] /\ w \notin O2[w] /\ O[v] \subseteq Writers
      BY <2>1, <3>1
    <3>3. T \subseteq Outcome(v) \cup own[w]
      BY <2>1, <2>2
    <3>4. AtMostOne(own[w])
      BY <2>1 DEF AtMostOneOwn
    <3>5. Room(Outcome(v), O[v]) /\ IsFiniteSet(Outcome(v))
      BY <1>4, <2>1
    <3>6. Room(T, O2[w])
      BY <3>1, <3>2, <3>3, <3>4, <3>5, RoomTraded
    <3>7. QED
      BY <2>2, <3>6
  <2>5. QED
    BY <2>3, <2>4
<1>10. QED
  BY <1>3, <1>5, <1>7, <1>8, <1>9 DEF Overshoot

(* A step that leaves the rows and the transactions that have pruned as they *)
(* were, but for those it ends and the rows it deletes.                     *)
LEMMA Fewer_Overshoot ==
  ASSUME TableInv, Overshoot, rows' \subseteq rows, Pruned' \subseteq Pruned,
         \A w \in Pruned' : own'[w] = own[w] /\ victims'[w] = victims[w]
  PROVE  Overshoot'
<1>1. PICK O \in [Writers -> SUBSET Writers], B \in SUBSET Pruned :
        /\ Ordered(Pruned, O) /\ Room(rows, B)
        /\ \A w \in Pruned : Room(Outcome(w), O[w])
  BY DEF Overshoot
<1>2. PICK P, Q : P = Pruned /\ Q = Pruned'
  OBVIOUS
<1> DEFINE O2 == [w \in Writers |-> IF w \in Q THEN O[w] \cap Q ELSE {}]
           B2 == B \cap Q
<1>3. Q \subseteq P /\ P \subseteq Writers
  BY <1>2 DEF Pruned
<1>4. O2 \in [Writers -> SUBSET Writers] /\ Ordered(Q, O2)
  BY <1>1, <1>2, <1>3 DEF Ordered
<1>5. B2 \in SUBSET Q /\ Room(rows', B2)
  <2>1. IsFiniteSet(rows) /\ B \in SUBSET Writers /\ B2 \in SUBSET B
    BY <1>1, <1>2, <1>3, FiniteTable
  <2>2. PICK T : T = rows'
    OBVIOUS
  <2>3. Room(T, B2)
    BY <1>1, <2>1, <2>2, RoomShrinks
  <2>4. QED
    BY <2>2, <2>3
<1>6. ASSUME NEW w \in Q
      PROVE  Room(Outcome(w)', O2[w])
  <2>1. /\ w \in Writers /\ IsFiniteSet(Outcome(w)) /\ O[w] \in SUBSET Writers
        /\ O2[w] \in SUBSET O[w] /\ Room(Outcome(w), O[w])
    BY <1>1, <1>2, <1>3, FiniteTable
  <2>2. PICK T : T = Outcome(w)'
    OBVIOUS
  <2>3. T \subseteq Outcome(w)
    BY <1>2, <2>2 DEF Outcome
  <2>4. Room(T, O2[w])
    BY <2>1, <2>3, RoomShrinks
  <2>5. QED
    BY <2>2, <2>4
<1> HIDE DEF O2, B2
<1>7. QED
  BY <1>2, <1>4, <1>5, <1>6 DEF Overshoot

LEMMA BoundedIfRoom ==
  ASSUME TableInv, Overshoot
  PROVE  OvershootBounded
<1>1. PICK B \in SUBSET Pruned : Room(rows, B)
  BY DEF Overshoot
<1>2. IsFiniteSet(B) /\ IsFiniteSet(rows) /\ IsFiniteSet(Writers)
  BY <1>1, FS_Subset, TableAssumption, FiniteTable DEF Pruned
<1>3. /\ Cardinality(B) \in Nat /\ Cardinality(rows) \in Nat
      /\ Cardinality(Writers) \in Nat
  BY <1>2, FS_CardinalityType
<1>4. QED
  BY <1>1, <1>3, TableAssumption DEF Room, OvershootBounded

LEMMA Init_Overshoot ==
  ASSUME TableInit
  PROVE  Overshoot
<1>1. Pruned = {} /\ rows = {}
  BY DEF TableInit, Pruned
<1>2. Cardinality({}) = 0 /\ Cardinality(Writers) \in Nat
  BY FS_EmptySet, FS_CardinalityType, TableAssumption
<1>3. Room(rows, {})
  BY <1>1, <1>2, TableAssumption DEF Room
<1> DEFINE O == [w \in Writers |-> {}]
<1>4. O \in [Writers -> SUBSET Writers] /\ Ordered(Pruned, O)
  BY <1>1 DEF Ordered
<1> HIDE DEF O
<1>5. QED
  BY <1>1, <1>3, <1>4 DEF Overshoot

LEMMA Insert_Overshoot ==
  ASSUME TableInv, Overshoot, NEW w \in Writers, phase[w] = "idle",
         phase' = [phase EXCEPT ![w] = "inserted"], UNCHANGED <<rows, victims>>,
         \A v \in Writers : v # w => own'[v] = own[v]
  PROVE  Overshoot'
<1>1. Pruned' = Pruned /\ w \notin Pruned
  BY DEF Pruned, TableInv, TableTypeOK
<1>2. \A v \in Pruned' : own'[v] = own[v]
  BY <1>1 DEF Pruned
<1>3. QED
  BY <1>1, <1>2, Fewer_Overshoot

LEMMA Abort_Overshoot ==
  ASSUME TableInv, Overshoot, NEW w \in Writers, Abort(w)
  PROVE  Overshoot'
<1>1. rows' = rows /\ Pruned' = Pruned \ {w}
  BY DEF Abort, Finish, Pruned, TableInv, TableTypeOK
<1>2. \A v \in Pruned' : own'[v] = own[v] /\ victims'[v] = victims[v]
  BY <1>1 DEF Abort, Finish, Pruned, TableInv, TableTypeOK
<1>3. QED
  BY <1>1, <1>2, Fewer_Overshoot

LEMMA Reset_Overshoot ==
  ASSUME TableInv, Overshoot, rows' \subseteq rows, UNCHANGED <<phase, own, victims>>
  PROVE  Overshoot'
<1>1. Pruned' = Pruned
  BY DEF Pruned
<1>2. QED
  BY <1>1, Fewer_Overshoot

(* A transaction inserts one row.                                           *)
LEMMA Step_AtMostOneOwn ==
  ASSUME TableInv, AtMostOneOwn, NEW w \in Writers,
         Prune(w) \/ Commit(w) \/ Abort(w) \/ \E t \in Times : Insert(w, t)
  PROVE  AtMostOneOwn'
<1>1. \/ own' = own
      \/ own' = [own EXCEPT ![w] = {}]
      \/ \E r : own' = [own EXCEPT ![w] = {r}]
  BY DEF Prune, Commit, Abort, Finish, Insert
<1>2. own \in [Writers -> SUBSET Rows]
  BY DEF TableInv, TableTypeOK
<1>3. QED
  BY <1>1, <1>2 DEF AtMostOneOwn, AtMostOne

--------------------------------------------------------------------------------
(* The realtime feature history. *)

(* What a replay read is what an unpruned table would have shown it, and    *)
(* what it could know only grows from one replay to the next.               *)
ReplaysHonest ==
  /\ \A i \in DOMAIN replays :
       /\ replays[i].known \subseteq ever
       /\ replays[i].read = UpTo(Top(replays[i].known), Pinned)
  /\ \A i, j \in DOMAIN replays : i < j => replays[i].known \subseteq replays[j].known

IInv == TypeOK /\ TableInv /\ ReplaysHonest

LEMMA Init_IInv ==
  ASSUME Init
  PROVE  IInv
<1>1. TableInv
  BY TableInit_Inv DEF Init
<1>2. TypeOK
  BY <1>1 DEF Init, TypeOK, TableInv
<1>3. ReplaysHonest
  BY DEF Init, ReplaysHonest
<1>4. QED
  BY <1>1, <1>2, <1>3 DEF IInv

(* ever only grows, so a step that replays nothing keeps every replay honest.*)
LEMMA KeepsReplays ==
  ASSUME ReplaysHonest, UNCHANGED replays, ever \subseteq ever'
  PROVE  ReplaysHonest'
  BY DEF ReplaysHonest, UpTo, Top, NewerIn

LEMMA Write_IInv ==
  ASSUME IInv, NEW w \in Writers, Write(w)
  PROVE  IInv'
<1>1. TableInv'
  BY Prune_Inv, Commit_Inv, Abort_Inv DEF IInv, Write
<1>2. ever \subseteq ever'
  BY DEF Write, Prune, Commit, Abort
<1>3. /\ step' \in [Writers -> {"new", "asked", "loaded", "appending"}]
      /\ window' \in [Writers -> SUBSET Rows]
  BY DEF IInv, TypeOK, Write, Done
<1>4. TypeOK'
  BY <1>1, <1>3 DEF IInv, TypeOK, Write, TableInv
<1>5. ReplaysHonest'
  BY <1>2, KeepsReplays DEF IInv, Write
<1>6. QED
  BY <1>1, <1>4, <1>5 DEF IInv

LEMMA AppendRow_IInv ==
  ASSUME IInv, NEW w \in Writers, AppendRow(w)
  PROVE  IInv'
<1>1. stamp[w] \in Times
  BY DEF IInv, TypeOK
<1>2. TableInv'
  BY <1>1, Insert_Inv DEF IInv, AppendRow
<1>3. TypeOK'
  BY <1>2 DEF IInv, TypeOK, AppendRow, TableInv
<1>4. ReplaysHonest'
  BY KeepsReplays DEF IInv, AppendRow, Insert
<1>5. QED
  BY <1>2, <1>3, <1>4 DEF IInv

(* Steps of a request that leave the table alone.                           *)
LEMMA Request_IInv ==
  ASSUME IInv, NEW w \in Writers, Ask(w) \/ Build(w) \/ AppendRefused(w)
  PROVE  IInv'
<1>1. UNCHANGED <<tableVars, clock, replays>>
  BY DEF Ask, Build, BuildFrom, AppendRefused
<1>2. TableInv' /\ ReplaysHonest'
  BY <1>1, TableStutter_Inv, KeepsReplays DEF IInv, tableVars
<1>3. asOf' \in [Writers -> Times] /\ stamp' \in [Writers -> Times]
  BY DEF IInv, TypeOK, Ask, Build, BuildFrom, AppendRefused
<1>4. step' \in [Writers -> {"new", "asked", "loaded", "appending"}]
  BY DEF IInv, TypeOK, Ask, Build, BuildFrom, AppendRefused, Done
<1>5. window' \in [Writers -> SUBSET Rows]
  <2>1. Load \subseteq Rows
    BY DEF IInv, TableInv, TableTypeOK, Load, Top
  <2>2. UpTo(Load, asOf[w]) \subseteq Rows /\ UpTo({}, asOf[w]) \subseteq Rows
    BY <2>1 DEF UpTo
  <2>3. QED
    BY <2>2 DEF IInv, TypeOK, Ask, Build, BuildFrom, AppendRefused, Done
<1>6. TypeOK'
  BY <1>1, <1>2, <1>3, <1>4, <1>5 DEF IInv, TypeOK, TableInv
<1>7. QED
  BY <1>2, <1>6 DEF IInv

LEMMA Replay_IInv ==
  ASSUME IInv, Replay
  PROVE  IInv'
<1> DEFINE entry == [read |-> UpTo(Load, Pinned), known |-> ever]
<1>1. UNCHANGED <<tableVars, clock, requestVars>> /\ replays' = Append(replays, entry)
  BY DEF Replay
<1>2. TableInv'
  BY <1>1, TableStutter_Inv DEF IInv
<1>3. entry \in [read : SUBSET Rows, known : SUBSET Rows]
  <2>1. Load \subseteq Rows /\ ever \subseteq Rows
    BY DEF IInv, TableInv, TableTypeOK, Load, Top
  <2>2. UpTo(Load, Pinned) \subseteq Rows
    BY <2>1 DEF UpTo
  <2>3. QED
    BY <2>1, <2>2
<1>4. TypeOK'
  BY <1>1, <1>2, <1>3 DEF IInv, TypeOK, TableInv, requestVars
<1>5. entry.read = UpTo(Top(entry.known), Pinned)
  BY InvisibleIfSurpassed DEF IInv, PruningInvisible, Load
<1>6. /\ Len(replays') = Len(replays) + 1
      /\ \A i \in DOMAIN replays : replays'[i] = replays[i]
      /\ replays'[Len(replays) + 1] = entry
      /\ DOMAIN replays' = DOMAIN replays \cup {Len(replays) + 1}
      /\ \A i \in DOMAIN replays : i \in Nat /\ i <= Len(replays)
      /\ Len(replays) \in Nat
  BY <1>1, <1>3 DEF IInv, TypeOK
<1>7. \A i \in DOMAIN replays' :
        /\ replays'[i].known \subseteq ever
        /\ replays'[i].read = UpTo(Top(replays'[i].known), Pinned)
  BY <1>5, <1>6 DEF IInv, ReplaysHonest
<1>8. \A i, j \in DOMAIN replays' :
        i < j => replays'[i].known \subseteq replays'[j].known
  <2>1. SUFFICES ASSUME NEW i \in DOMAIN replays', NEW j \in DOMAIN replays', i < j
                 PROVE  replays'[i].known \subseteq replays'[j].known
    OBVIOUS
  <2>2. i \in DOMAIN replays
    BY <1>6, <2>1
  <2>3. CASE j \in DOMAIN replays
    BY <1>6, <2>1, <2>2, <2>3 DEF IInv, ReplaysHonest
  <2>4. CASE j = Len(replays) + 1
    BY <1>6, <2>2, <2>4 DEF IInv, ReplaysHonest
  <2>5. QED
    BY <1>6, <2>3, <2>4
<1>9. ReplaysHonest'
  BY <1>1, <1>7, <1>8 DEF ReplaysHonest, tableVars, UpTo, Top, NewerIn
<1>10. QED
  BY <1>2, <1>4, <1>9 DEF IInv

LEMMA Next_IInv ==
  ASSUME IInv, [Next]_vars
  PROVE  IInv'
<1>1. CASE Tick
  <2>1. TableInv' /\ ReplaysHonest'
    BY <1>1, TableStutter_Inv, KeepsReplays DEF IInv, Tick, tableVars
  <2>2. QED
    BY <1>1, <2>1 DEF IInv, TypeOK, Tick, TableInv, requestVars
<1>2. CASE UNCHANGED vars
  <2>1. TableInv' /\ ReplaysHonest'
    BY <1>2, TableStutter_Inv, KeepsReplays DEF IInv, vars, tableVars
  <2>2. QED
    BY <1>2, <2>1 DEF IInv, TypeOK, vars, TableInv, requestVars
<1>3. QED
  BY <1>1, <1>2, Replay_IInv, Write_IInv, AppendRow_IInv, Request_IInv DEF Next

LEMMA Invariant == Spec => []IInv
<1>1. Init => IInv
  BY Init_IInv
<1>2. IInv /\ [Next]_vars => IInv'
  BY Next_IInv
<1>3. QED
  BY <1>1, <1>2, PTL DEF Spec

(* Every variable keeps its type, and no writer leaves a transaction open.  *)
THEOREM FeatureTypeCorrect == Spec => []TypeOK
<1>1. IInv => TypeOK
  BY DEF IInv
<1>2. QED
  BY <1>1, Invariant, PTL

(* Concurrent live requests never prune one of the newest Limit rows.       *)
THEOREM FeaturePruningInvisible == Spec => []PruningInvisible
<1>1. IInv => PruningInvisible
  BY InvisibleIfSurpassed DEF IInv
<1>2. QED
  BY <1>1, Invariant, PTL

(* Honest replays can differ only by late rows and by displaced ones.       *)
LEMMA HonestExplained ==
  ASSUME IInv
  PROVE  ReplaysExplained
<1>1. SUFFICES ASSUME NEW i \in DOMAIN replays, NEW j \in DOMAIN replays, i < j
               PROVE  /\ replays[j].read \ replays[i].read
                           \subseteq replays[j].known \ replays[i].known
                      /\ (replays[i].read \ replays[j].read) \cap Top(replays[j].known) = {}
  BY DEF ReplaysExplained
<1> DEFINE Ki == replays[i].known
           Kj == replays[j].known
<1>2. /\ Ki \subseteq Kj /\ Kj \subseteq ever
      /\ replays[i].read = UpTo(Top(Ki), Pinned)
      /\ replays[j].read = UpTo(Top(Kj), Pinned)
  BY <1>1 DEF IInv, ReplaysHonest
<1>3. IsFiniteSet(Ki) /\ IsFiniteSet(Kj)
  BY <1>2, FS_Subset DEF IInv, TableInv
<1>4. ASSUME NEW r \in replays[j].read, r \notin replays[i].read
      PROVE  r \in Kj \ Ki
  <2>1. r \in Top(Kj) /\ r \in Kj /\ r \notin Top(Ki)
    BY <1>2, <1>4 DEF UpTo, Top
  <2>2. ~ Surpassed(Kj, r)
    BY <1>3, <2>1, TopOrSurpassed
  <2>3. r \notin Ki
    BY <1>2, <1>3, <2>1, <2>2, TopOrSurpassed, SurpassedGrows
  <2>4. QED
    BY <2>1, <2>3
<1>5. ASSUME NEW r \in replays[i].read, r \notin replays[j].read
      PROVE  r \notin Top(Kj)
  BY <1>2, <1>5 DEF UpTo
<1>6. QED
  BY <1>4, <1>5

(* No pruning shows through in what replays of one pinned snapshot read.    *)
THEOREM FeatureReplaysExplained == Spec => []ReplaysExplained
<1>1. IInv => ReplaysExplained
  BY HonestExplained
<1>2. QED
  BY <1>1, Invariant, PTL
LEMMA FeatureNext_Overshoot ==
  ASSUME TableInv, TypeOK, AtMostOneOwn, Overshoot, [Next]_vars
  PROVE  AtMostOneOwn' /\ Overshoot'
<1>1. CASE UNCHANGED tableVars
  <2>1. AtMostOneOwn'
    BY <1>1 DEF AtMostOneOwn, tableVars
  <2>2. QED
    BY <1>1, <2>1, Reset_Overshoot DEF tableVars
<1>2. ASSUME NEW w \in Writers, Write(w)
      PROVE  AtMostOneOwn' /\ Overshoot'
  <2>1. Prune(w) \/ Commit(w) \/ Abort(w)
    BY <1>2 DEF Write
  <2>2. QED
    BY <2>1, Step_AtMostOneOwn, Prune_Overshoot, Commit_Overshoot, Abort_Overshoot
<1>3. ASSUME NEW w \in Writers, AppendRow(w)
      PROVE  AtMostOneOwn' /\ Overshoot'
  <2>1. Insert(w, stamp[w]) /\ stamp[w] \in Times
    BY <1>3 DEF AppendRow, TypeOK
  <2>2. AtMostOneOwn'
    BY <2>1, Step_AtMostOneOwn
  <2>3. \A v \in Writers : v # w => own'[v] = own[v]
    BY <2>1 DEF Insert, TableInv, TableTypeOK
  <2>4. QED
    BY <2>1, <2>2, <2>3, Insert_Overshoot DEF Insert
<1>4. ASSUME NEW w \in Writers, Ask(w) \/ Build(w) \/ AppendRefused(w)
      PROVE  UNCHANGED tableVars
  BY <1>4 DEF Ask, Build, BuildFrom, AppendRefused
<1>5. Tick \/ Replay \/ UNCHANGED vars => UNCHANGED tableVars
  BY DEF Tick, Replay, vars, tableVars
<1>6. QED
  BY <1>1, <1>2, <1>3, <1>4, <1>5 DEF Next

(* Requests that append at a time leave the history at most one row too     *)
(* long for each of the others.                                             *)
THEOREM FeatureOvershootBounded == Spec => []OvershootBounded
<1>1. Init => AtMostOneOwn /\ Overshoot
  BY Init_Overshoot DEF Init, TableInit, AtMostOneOwn, AtMostOne
<1>2. IInv /\ AtMostOneOwn /\ Overshoot /\ [Next]_vars => AtMostOneOwn' /\ Overshoot'
  BY FeatureNext_Overshoot DEF IInv
<1>3. IInv /\ Overshoot => OvershootBounded
  BY BoundedIfRoom DEF IInv
<1>4. QED
  BY <1>1, <1>2, <1>3, Invariant, PTL DEF Spec

--------------------------------------------------------------------------------
(* The trend history of a station. *)

LEMMA InsertNothing_Inv ==
  ASSUME TableInv, NEW w \in Writers, InsertNothing(w)
  PROVE  TableInv'
<1> USE DEF TableInv, InsertNothing
<1>1. TableTypeOK'
  BY TableAssumption DEF TableTypeOK
<1>2. \A v \in Writers : phase'[v] = "inserted" => victims'[v] = {}
  BY DEF TableTypeOK
<1>3. QED
  BY <1>1, <1>2 DEF Surpassed

LEMMA Reset_Inv ==
  ASSUME TableInv, Reset
  PROVE  TableInv'
<1> USE DEF TableInv, Reset
<1>1. TableTypeOK'
  BY DEF TableTypeOK
<1>2. QED
  BY <1>1, FS_EmptySet DEF Surpassed

LEMMA TrendNext_Inv ==
  ASSUME TableInv, [TrendNext]_tableVars
  PROVE  TableInv'
<1>1. CASE Reset
  BY <1>1, Reset_Inv
<1>2. ASSUME NEW w \in Writers, TransactionStep(w)
      PROVE  TableInv'
  BY <1>2, Prune_Inv, Commit_Inv, Abort_Inv DEF TransactionStep
<1>3. ASSUME NEW w \in Writers, NEW t \in Times, Record(w, t)
      PROVE  TableInv'
  BY <1>3, Insert_Inv, InsertNothing_Inv DEF Record
<1>4. CASE UNCHANGED tableVars
  BY <1>4, TableStutter_Inv DEF tableVars
<1>5. QED
  BY <1>1, <1>2, <1>3, <1>4 DEF TrendNext

LEMMA TableInvariant == TrendSpec => []TableInv
<1>1. TrendInit => TableInv
  BY TableInit_Inv DEF TrendInit
<1>2. TableInv /\ [TrendNext]_tableVars => TableInv'
  BY TrendNext_Inv
<1>3. QED
  BY <1>1, <1>2, PTL DEF TrendSpec

(* Concurrent recorders never prune one of the newest Limit rows that were  *)
(* committed since the last reset.                                          *)
THEOREM TrendPruningInvisible == TrendSpec => []PruningInvisible
<1>1. TableInv => PruningInvisible
  BY InvisibleIfSurpassed
<1>2. QED
  BY <1>1, TableInvariant, PTL

(* A time that is committed or being inserted is taken by one row alone.    *)
TimeTaken ==
  /\ OneRowPerTime
  /\ \A w \in Writers : \A a, b \in own[w] : a = b
  /\ \A w \in Writers : \A a \in own[w] : \A b \in rows : a.at # b.at
  /\ \A v, w \in Writers : v # w =>
       \A a \in own[v] : \A b \in own[w] : a.at # b.at

LEMMA Record_Taken ==
  ASSUME TableInv, TimeTaken, NEW w \in Writers, NEW t \in Times, Record(w, t)
  PROVE  TimeTaken'
<1>1. CASE InsertNothing(w)
  BY <1>1 DEF TimeTaken, InsertNothing, OneRowPerTime
<1>2. CASE ~Repeats(t) /\ Insert(w, t)
  <2>1. own' = [own EXCEPT ![w] = {[at |-> t, id |-> lastId']}] /\ rows' = rows
    BY <1>2 DEF Insert
  <2>2. own \in [Writers -> SUBSET Rows]
    BY DEF TableInv, TableTypeOK
  <2>3. \A v \in Writers \ {w} : \A a \in own[v] : a.at # t
    BY DEF Record, Contested
  <2>4. \A b \in rows : b.at # t
    BY <1>2 DEF Repeats
  <2>5. QED
    BY <2>1, <2>2, <2>3, <2>4 DEF TimeTaken, OneRowPerTime
<1>3. QED
  BY <1>1, <1>2 DEF Record

LEMMA Commit_Taken ==
  ASSUME TableInv, TimeTaken, NEW w \in Writers, Commit(w)
  PROVE  TimeTaken'
<1>1. own \in [Writers -> SUBSET Rows] /\ own' = [own EXCEPT ![w] = {}]
  BY DEF TableInv, TableTypeOK, Commit, Finish
<1>2. rows' \subseteq rows \cup own[w]
  BY DEF Commit
<1>3. OneRowPerTime'
  BY <1>2 DEF TimeTaken, OneRowPerTime
<1>4. \A v \in Writers : \A a \in own'[v] : \A b \in rows' : a.at # b.at
  BY <1>1, <1>2 DEF TimeTaken
<1>5. QED
  BY <1>1, <1>3, <1>4 DEF TimeTaken

LEMMA TrendNext_Taken ==
  ASSUME TableInv, TimeTaken, [TrendNext]_tableVars
  PROVE  TimeTaken'
<1>1. CASE Reset
  BY <1>1 DEF Reset, TimeTaken, OneRowPerTime
<1>2. ASSUME NEW w \in Writers, Prune(w)
      PROVE  TimeTaken'
  BY <1>2 DEF Prune, TimeTaken, OneRowPerTime
<1>3. ASSUME NEW w \in Writers, Abort(w)
      PROVE  TimeTaken'
  BY <1>3 DEF Abort, Finish, TimeTaken, OneRowPerTime, TableInv, TableTypeOK
<1>4. ASSUME NEW w \in Writers, Commit(w)
      PROVE  TimeTaken'
  BY <1>4, Commit_Taken
<1>5. ASSUME NEW w \in Writers, NEW t \in Times, Record(w, t)
      PROVE  TimeTaken'
  BY <1>5, Record_Taken
<1>6. CASE UNCHANGED tableVars
  BY <1>6 DEF tableVars, TimeTaken, OneRowPerTime
<1>7. QED
  BY <1>1, <1>2, <1>3, <1>4, <1>5, <1>6 DEF TrendNext, TransactionStep

(* No writer is ever more than one row ahead, and pruning keeps pace.       *)
LEMMA TrendNext_Overshoot ==
  ASSUME TableInv, TimeTaken, Overshoot, [TrendNext]_tableVars
  PROVE  Overshoot'
<1>1. AtMostOneOwn
  BY DEF TimeTaken, AtMostOneOwn, AtMostOne
<1>2. CASE Reset
  BY <1>2, Reset_Overshoot DEF Reset
<1>3. ASSUME NEW w \in Writers, NEW t \in Times, Record(w, t)
      PROVE  Overshoot'
  <2>1. /\ phase[w] = "idle" /\ rows' = rows /\ victims' = victims
        /\ phase' = [phase EXCEPT ![w] = "inserted"]
    BY <1>3 DEF Record, Insert, InsertNothing
  <2>2. \A v \in Writers : v # w => own'[v] = own[v]
    BY <1>3 DEF Record, Insert, InsertNothing, TableInv, TableTypeOK
  <2>3. QED
    BY <2>1, <2>2, Insert_Overshoot
<1>4. CASE UNCHANGED tableVars
  BY <1>4, Reset_Overshoot DEF tableVars
<1>5. QED
  BY <1>1, <1>2, <1>3, <1>4, Prune_Overshoot, Commit_Overshoot, Abort_Overshoot
     DEF TrendNext, TransactionStep

LEMMA TimeTakenInvariant == TrendSpec => []TimeTaken
<1>1. TrendInit => TimeTaken
  BY DEF TrendInit, TableInit, TimeTaken, OneRowPerTime
<1>2. TableInv /\ TimeTaken /\ [TrendNext]_tableVars => TimeTaken'
  BY TrendNext_Taken
<1>3. QED
  BY <1>1, <1>2, TableInvariant, PTL DEF TrendSpec

(* However recorders interleave, a station keeps one row of a time.         *)
THEOREM TrendOneRowPerTime == TrendSpec => []OneRowPerTime
<1>1. TimeTaken => OneRowPerTime
  BY DEF TimeTaken
<1>2. QED
  BY <1>1, TimeTakenInvariant, PTL

(* However many recorders prune side by side, blind to one another, the     *)
(* table holds at most one row too many for each of the others.             *)
THEOREM TrendOvershootBounded == TrendSpec => []OvershootBounded
<1>1. TrendInit => Overshoot
  BY Init_Overshoot DEF TrendInit
<1>2. TableInv /\ TimeTaken /\ Overshoot /\ [TrendNext]_tableVars => Overshoot'
  BY TrendNext_Overshoot
<1>3. TableInv /\ Overshoot => OvershootBounded
  BY BoundedIfRoom
<1>4. QED
  BY <1>1, <1>2, <1>3, TableInvariant, TimeTakenInvariant, PTL DEF TrendSpec
================================================================================
