----------------------------- MODULE WindowProofs -----------------------------
(***************************************************************************)
(* Two lists of time stamps that several threads hold against a window     *)
(* without a lock: the deque of the rate limiter, for any number of        *)
(* handler threads, and the failures of the circuit breaker, for any       *)
(* number of routing bodies.  What is common to both comes first: the list *)
(* is what the history says it should be, and stays so when a stamp is     *)
(* added, when the head is dropped, and when a tick passes.  With each     *)
(* component come the theorems about the rest of what its threads share:   *)
(* the report file, and the cache of the water level.                      *)
(***************************************************************************)
EXTENDS PredictThreads, RoutingStage, SequenceTheorems, FiniteSetTheorems,
        WellFoundedInduction, TLAPS

(* What a tick makes of a sequence of stamps, oldest first.                 *)

Sorted(s) == \A i, j \in 1..Len(s) : i <= j => s[i] >= s[j]

LEMMA FrontIsCounted ==
  ASSUME NEW n \in Nat, NEW X \in SUBSET (1..n), \A i \in X : 1..i \subseteq X
  PROVE  Cardinality(X) \in 0..n /\ X = 1..Cardinality(X)
<1> DEFINE m == Cardinality(X)
<1>1. IsFiniteSet(1..n) /\ Cardinality(1..n) = n
  BY FS_Interval
<1>2. IsFiniteSet(X) /\ m \in 0..n
  <2>1. IsFiniteSet(X) /\ Cardinality(X) <= Cardinality(1..n)
    BY <1>1, FS_Subset
  <2>2. Cardinality(X) \in Nat
    BY <2>1, FS_CardinalityType
  <2>3. QED
    BY <1>1, <2>1, <2>2
<1>3. IsFiniteSet(1..m) /\ Cardinality(1..m) = m
  BY <1>2, FS_Interval
<1>4. ASSUME NEW k \in X PROVE k \in 1..m
  <2>1. 1..k \subseteq X /\ k \in Nat /\ k >= 1
    OBVIOUS
  <2>2. IsFiniteSet(1..k) /\ Cardinality(1..k) = k
    BY <2>1, FS_Interval
  <2>3. k <= m
    BY <1>2, <2>1, <2>2, FS_Subset
  <2>4. QED
    BY <1>2, <2>1, <2>3
<1>5. X = 1..m
  BY <1>2, <1>3, <1>4, FS_Subset
<1>6. QED
  BY <1>2, <1>5

(* r is what a tick leaves of s: all but the first m, one tick older.       *)
Forgets(s, r, cap, m) ==
  /\ m \in 0..Len(s)
  /\ r \in Seq(Nat) /\ Len(r) = Len(s) - m
  /\ \A i \in 1..Len(s) : s[i] + 1 >= cap <=> i <= m
  /\ \A i \in 1..Len(r) : r[i] = s[m + i] + 1

LEMMA RecallForgets ==
  ASSUME NEW cap \in Nat, NEW s \in Seq(Nat), Sorted(s)
  PROVE  \E m \in Nat : Forgets(s, Recall(s, cap), cap, m)
<1> DEFINE X == Expiring(s, cap)
           m == Cardinality(X)
           aged == Aged(s, cap)
<1>1. Len(s) \in Nat /\ DOMAIN s = 1..Len(s) /\ \A i \in 1..Len(s) : s[i] \in Nat
  BY LenProperties, ElementOfSeq
<1>2. X \in SUBSET (1..Len(s)) /\ \A i \in X : 1..i \subseteq X
  BY <1>1 DEF Expiring, Sorted
<1>3. m \in 0..Len(s) /\ X = 1..m
  BY <1>1, <1>2, FrontIsCounted
<1>4. \A i \in 1..Len(s) : s[i] + 1 >= cap <=> i <= m
  BY <1>1, <1>3 DEF Expiring
<1>5. \A i \in (m + 1)..Len(s) : aged[i] = s[i] + 1 /\ aged[i] \in Nat
  BY <1>1, <1>3, <1>4 DEF Aged, Older
<1>6. PICK k \in Nat : k = m
  BY <1>1, <1>3
<1>7. PICK t : t = Recall(s, cap)
  OBVIOUS
<1>8. /\ k \in 0..Len(s)
      /\ \A i \in 1..Len(s) : s[i] + 1 >= cap <=> i <= k
      /\ \A i \in (k + 1)..Len(s) : aged[i] = s[i] + 1 /\ aged[i] \in Nat
      /\ t = SubSeq(aged, k + 1, Len(s))
  BY <1>3, <1>4, <1>5, <1>6, <1>7 DEF Recall
<1> HIDE DEF aged
<1>9. /\ t \in Seq(Nat) /\ Len(t) = IF k + 1 <= Len(s) THEN Len(s) - (k + 1) + 1 ELSE 0
      /\ \A i \in 1 .. Len(s) - (k + 1) + 1 : t[i] = aged[k + 1 + i - 1]
  BY <1>1, <1>8, SubSeqProperties
<1>10. Len(t) = Len(s) - k
  <2>1. Len(s) \in Nat /\ k \in Nat /\ k <= Len(s)
    BY <1>1, <1>8
  <2>2. Len(t) = IF k + 1 <= Len(s) THEN Len(s) - (k + 1) + 1 ELSE 0
    BY <1>9
  <2>3. QED
    BY <2>1, <2>2
<1>11. ASSUME NEW i \in 1..Len(t) PROVE t[i] = s[k + i] + 1
  <2>1. Len(s) \in Nat /\ k \in Nat /\ k <= Len(s)
    BY <1>1, <1>8
  <2>2. i \in Nat /\ 1 <= i /\ i <= Len(s) - k
    BY <1>10, <2>1
  <2>3. i \in 1..Len(s) - (k + 1) + 1 /\ k + 1 + i - 1 = k + i /\ k + i \in (k + 1)..Len(s)
    BY <2>1, <2>2
  <2>4. QED
    BY <1>8, <1>9, <2>3
<1>12. Forgets(s, t, cap, k)
  BY <1>8, <1>9, <1>10, <1>11 DEF Forgets
<1>13. QED
  BY <1>7, <1>12

-----------------------------------------------------------------------------
(* A list b is what the history says it should be: stamps that have expired,*)
(* as many as Gone says, then those of a, all there were within the window, *)
(* without those of l, which were dropped too early and are the oldest.     *)

Gone(b, a, l) == Len(b) + Len(l) - Len(a)

Mirrors(b, a, l, cap) ==
  /\ b \in Seq(Nat) /\ a \in Seq(Nat) /\ l \in Seq(Nat)
  /\ Sorted(a) /\ \A i \in 1..Len(a) : a[i] < cap
  /\ Len(l) <= Len(a) /\ \A i \in 1..Len(l) : l[i] = a[i]
  /\ Gone(b, a, l) \in 0..Len(b)
  /\ \A i \in 1..Len(b) : IF i <= Gone(b, a, l) THEN b[i] >= cap
                          ELSE b[i] = a[i - Gone(b, a, l) + Len(l)]

(* The same with names for the lengths.                                     *)
Shape(b, a, l, cap, x, y, z, g) ==
  /\ b \in Seq(Nat) /\ a \in Seq(Nat) /\ l \in Seq(Nat)
  /\ Len(b) = x /\ Len(a) = y /\ Len(l) = z
  /\ z <= y /\ g <= x /\ x + z = g + y
  /\ \A i \in 1..x : b[i] \in Nat
  /\ \A i \in 1..y : a[i] \in Nat /\ a[i] < cap
  /\ \A i \in 1..z : l[i] = a[i]
  /\ \A i \in 1..x : IF i <= g THEN b[i] >= cap ELSE b[i] = a[i - g + z]

LEMMA MirrorsMeans ==
  ASSUME NEW cap \in Nat, NEW b, NEW a, NEW l, Mirrors(b, a, l, cap)
  PROVE  \E x, y, z, g \in Nat : Shape(b, a, l, cap, x, y, z, g) /\ Gone(b, a, l) = g
<1>1. b \in Seq(Nat) /\ a \in Seq(Nat) /\ l \in Seq(Nat)
  BY DEF Mirrors
<1>2. Len(b) \in Nat /\ Len(a) \in Nat /\ Len(l) \in Nat
  BY <1>1, LenProperties
<1>3. PICK x \in Nat, y \in Nat, z \in Nat : Len(b) = x /\ Len(a) = y /\ Len(l) = z
  BY <1>2
<1>4. PICK g : g = Gone(b, a, l)
  OBVIOUS
<1>5. g \in 0..x /\ g = x + z - y /\ z <= y
  BY <1>3, <1>4 DEF Mirrors, Gone
<1>6. g \in Nat /\ g <= x /\ x + z = g + y
  BY <1>5
<1>7. \A i \in 1..x : b[i] \in Nat
  BY <1>1, <1>3, ElementOfSeq
<1>8. \A i \in 1..y : a[i] \in Nat
  BY <1>1, <1>3, ElementOfSeq
<1>9. \A i \in 1..y : a[i] < cap
  BY <1>3 DEF Mirrors
<1>10. \A i \in 1..z : l[i] = a[i]
  BY <1>3 DEF Mirrors
<1>11. \A i \in 1..x : IF i <= g THEN b[i] >= cap ELSE b[i] = a[i - g + z]
  BY <1>3, <1>4 DEF Mirrors
<1>12. Shape(b, a, l, cap, x, y, z, g)
  BY <1>1, <1>3, <1>5, <1>6, <1>7, <1>8, <1>9, <1>10, <1>11 DEF Shape
<1>13. QED
  BY <1>4, <1>6, <1>12

LEMMA MirrorsIf ==
  ASSUME NEW cap \in Nat, NEW b, NEW a, NEW l,
         NEW x \in Nat, NEW y \in Nat, NEW z \in Nat, NEW g \in Nat,
         Sorted(a), Shape(b, a, l, cap, x, y, z, g)
  PROVE  Mirrors(b, a, l, cap) /\ Gone(b, a, l) = g
<1>1. Gone(b, a, l) = g
  BY DEF Gone, Shape
<1>2. g \in 0..Len(b)
  BY DEF Shape
<1>3. QED
  BY <1>1, <1>2 DEF Mirrors, Shape

Extends(k, s, n, e) ==
  /\ k \in Seq(Nat) /\ Len(k) = n + 1
  /\ (\A i \in 1..n : k[i] = s[i]) /\ k[n + 1] = e

LEMMA AppendOne ==
  ASSUME NEW s, s \in Seq(Nat), NEW n \in Nat, Len(s) = n, NEW e \in Nat
  PROVE  Extends(Append(s, e), s, n, e)
  BY AppendProperties DEF Extends

(* A stamp that has expired is dropped, or else the oldest that has not.    *)
LEMMA MirrorsDrop ==
  ASSUME NEW cap \in Nat, NEW b, NEW a, NEW l, Mirrors(b, a, l, cap), b # <<>>
  PROVE  LET k == IF Head(b) < cap THEN Append(l, Head(b)) ELSE l
         IN  /\ Mirrors(Tail(b), a, k, cap)
             /\ Gone(b, a, l) = 0 => Gone(Tail(b), a, k) = 0
             /\ Len(k) >= Len(l)
<1>0. PICK x \in Nat, y \in Nat, z \in Nat, g \in Nat :
        Shape(b, a, l, cap, x, y, z, g) /\ Gone(b, a, l) = g
  BY MirrorsMeans
<1>1. /\ b \in Seq(Nat) /\ a \in Seq(Nat) /\ l \in Seq(Nat)
      /\ Len(b) = x /\ Len(a) = y /\ Len(l) = z /\ Gone(b, a, l) = g
      /\ z <= y /\ g <= x /\ x + z = g + y
      /\ \A i \in 1..x : b[i] \in Nat
      /\ \A i \in 1..y : a[i] \in Nat /\ a[i] < cap
      /\ \A i \in 1..z : l[i] = a[i]
      /\ \A i \in 1..x : IF i <= g THEN b[i] >= cap ELSE b[i] = a[i - g + z]
  BY <1>0 DEF Shape
<1>2. x # 0
  BY <1>1, EmptySeq
<1>3. PICK w \in Nat, c \in Seq(Nat) :
        /\ x = w + 1 /\ c = Tail(b) /\ Len(c) = w /\ Head(b) = b[1]
        /\ \A i \in 1..w : c[i] = b[i + 1]
  <2>1. x - 1 \in Nat /\ x = (x - 1) + 1
    BY <1>2
  <2>2. Tail(b) \in Seq(Nat) /\ Len(Tail(b)) = x - 1
        /\ \A i \in 1..(x - 1) : Tail(b)[i] = b[i + 1]
    BY <1>1, HeadTailProperties
  <2>3. Head(b) = b[1]
    BY <1>1
  <2>4. QED
    BY <2>1, <2>2, <2>3
<1>4. Sorted(a)
  BY DEF Mirrors
<1>5. CASE g # 0
  <2>1. PICK h \in Nat : g = h + 1
    <3>1. g - 1 \in Nat /\ g = (g - 1) + 1
      BY <1>5
    <3>2. QED
      BY <3>1
  <2>2. ~(Head(b) < cap)
    <3>1. 1 \in 1..x /\ 1 <= g
      BY <1>2, <1>5
    <3>2. b[1] >= cap /\ b[1] \in Nat
      BY <1>1, <3>1
    <3>3. QED
      BY <1>3, <3>2
  <2>3. ASSUME NEW i \in 1..w
        PROVE  IF i <= h THEN c[i] >= cap ELSE c[i] = a[i - h + z]
    <3>1. i + 1 \in 1..x /\ (i <= h <=> i + 1 <= g) /\ i + 1 - g + z = i - h + z
      BY <1>3, <2>1
    <3>2. IF i + 1 <= g THEN b[i + 1] >= cap ELSE b[i + 1] = a[i + 1 - g + z]
      BY <1>1, <3>1
    <3>3. QED
      BY <1>3, <3>1, <3>2
  <2>4. z <= y /\ h <= w /\ w + z = h + y
    BY <1>1, <1>3, <2>1
  <2>5. Shape(c, a, l, cap, w, y, z, h)
    BY <1>1, <1>3, <2>3, <2>4, ElementOfSeq DEF Shape
  <2>7. Mirrors(c, a, l, cap)
    BY <1>4, <2>5, MirrorsIf
  <2>8. QED
    BY <1>1, <1>3, <1>5, <2>2, <2>7
<1>6. CASE g = 0
  <2>1. b[1] = a[1 + z] /\ 1 + z \in 1..y /\ b[1] < cap /\ b[1] \in Nat
    <3>1. 1 \in 1..x /\ ~(1 <= g) /\ 1 - g + z = 1 + z /\ 1 + z \in 1..y
      BY <1>1, <1>2, <1>6
    <3>2. b[1] = a[1 + z]
      BY <1>1, <3>1
    <3>3. QED
      BY <1>1, <3>1, <3>2
  <2>2. PICK k \in Seq(Nat) :
          /\ k = Append(l, b[1]) /\ Len(k) = z + 1
          /\ (\A i \in 1..z : k[i] = l[i]) /\ k[z + 1] = b[1]
    <3>1. Extends(Append(l, b[1]), l, z, b[1])
      BY <1>1, <2>1, AppendOne
    <3>2. QED
      BY <3>1 DEF Extends
  <2>3. ASSUME NEW i \in 1..(z + 1) PROVE k[i] = a[i]
    <3>1. i \in 1..z \/ i = 1 + z
      OBVIOUS
    <3>2. QED
      BY <1>1, <2>1, <2>2, <3>1, SMTT(30)
  <2>4. ASSUME NEW i \in 1..w
        PROVE  ~(i <= 0) /\ c[i] = a[i - 0 + (z + 1)]
    <3>1. i + 1 \in 1..x /\ ~(i + 1 <= g) /\ i + 1 - g + z = i - 0 + (z + 1) /\ ~(i <= 0)
      BY <1>3, <1>6
    <3>2. b[i + 1] = a[i + 1 - g + z]
      BY <1>1, <3>1
    <3>3. QED
      BY <1>3, <3>1, <3>2
  <2>5. z + 1 <= y /\ 0 <= w /\ w + (z + 1) = 0 + y /\ z + 1 \in Nat
    BY <1>1, <1>3, <1>6, <2>1
  <2>6. \A i \in 1..w : IF i <= 0 THEN c[i] >= cap ELSE c[i] = a[i - 0 + (z + 1)]
    BY <2>4
  <2>7. \A i \in 1..w : c[i] \in Nat
    BY <1>3, ElementOfSeq
  <2>8. Shape(c, a, k, cap, w, y, z + 1, 0)
    BY <1>1, <1>3, <2>2, <2>3, <2>5, <2>6, <2>7 DEF Shape
  <2>9. Mirrors(c, a, k, cap) /\ Gone(c, a, k) = 0
    BY <1>4, <2>5, <2>8, MirrorsIf
  <2>10. QED
    BY <1>1, <1>3, <2>1, <2>2, <2>9
<1>7. QED
  BY <1>5, <1>6

LEMMA MirrorsAppend ==
  ASSUME NEW cap \in Nat \ {0}, NEW b, NEW a, NEW l, Mirrors(b, a, l, cap)
  PROVE  /\ Mirrors(Append(b, 0), Append(a, 0), l, cap)
         /\ Gone(Append(b, 0), Append(a, 0), l) = Gone(b, a, l)
         /\ Len(Append(a, 0)) = Len(a) + 1
<1>0. PICK x \in Nat, y \in Nat, z \in Nat, g \in Nat :
        Shape(b, a, l, cap, x, y, z, g) /\ Gone(b, a, l) = g
  BY MirrorsMeans
<1>1. /\ b \in Seq(Nat) /\ a \in Seq(Nat) /\ l \in Seq(Nat)
      /\ Len(b) = x /\ Len(a) = y /\ Len(l) = z /\ Gone(b, a, l) = g
      /\ z <= y /\ g <= x /\ x + z = g + y
      /\ \A i \in 1..x : b[i] \in Nat
      /\ \A i \in 1..y : a[i] \in Nat /\ a[i] < cap
      /\ \A i \in 1..z : l[i] = a[i]
      /\ \A i \in 1..x : IF i <= g THEN b[i] >= cap ELSE b[i] = a[i - g + z]
  BY <1>0 DEF Shape
<1>2. PICK c \in Seq(Nat) :
        /\ c = Append(b, 0) /\ Len(c) = x + 1
        /\ (\A i \in 1..x : c[i] = b[i]) /\ c[x + 1] = 0
  <2>1. Extends(Append(b, 0), b, x, 0)
    BY <1>1, AppendOne
  <2>2. QED
    BY <2>1 DEF Extends
<1>3. PICK d \in Seq(Nat) :
        /\ d = Append(a, 0) /\ Len(d) = y + 1
        /\ (\A i \in 1..y : d[i] = a[i]) /\ d[y + 1] = 0
  <2>1. Extends(Append(a, 0), a, y, 0)
    BY <1>1, AppendOne
  <2>2. QED
    BY <2>1 DEF Extends
<1>4. Sorted(d)
  <2>1. SUFFICES ASSUME NEW i \in 1..(y + 1), NEW j \in 1..(y + 1), i <= j
                 PROVE  d[i] >= d[j]
    BY <1>3 DEF Sorted
  <2>2. CASE j \in 1..y
    <3>1. i \in 1..y
      BY <2>1, <2>2
    <3>2. a[i] >= a[j]
      BY <1>1, <2>1, <2>2, <3>1 DEF Mirrors, Sorted
    <3>3. QED
      BY <1>3, <2>2, <3>1, <3>2
  <2>3. CASE j = y + 1
    <3>1. d[j] = 0 /\ d[i] \in Nat
      BY <1>3, <2>3, ElementOfSeq
    <3>2. QED
      BY <3>1
  <2>4. QED
    BY <2>2, <2>3
<1>5. ASSUME NEW i \in 1..(y + 1) PROVE d[i] < cap
  <2>1. i \in 1..y \/ i = y + 1
    OBVIOUS
  <2>2. QED
    BY <1>1, <1>3, <2>1
<1>6. \A i \in 1..z : l[i] = d[i]
  BY <1>1, <1>3
<1>7. ASSUME NEW i \in 1..(x + 1)
      PROVE  IF i <= g THEN c[i] >= cap ELSE c[i] = d[i - g + z]
  <2>1. CASE i = x + 1
    <3>1. ~(i <= g) /\ i - g + z = y + 1
      BY <1>1, <2>1
    <3>2. QED
      BY <1>2, <1>3, <2>1, <3>1
  <2>2. CASE i \in 1..x
    <3>1. IF i <= g THEN b[i] >= cap ELSE b[i] = a[i - g + z]
      BY <1>1, <2>2
    <3>2. ~(i <= g) => i - g + z \in 1..y
      BY <1>1, <2>2
    <3>3. QED
      BY <1>2, <1>3, <2>2, <3>1, <3>2
  <2>3. QED
    BY <2>1, <2>2
<1>8. z <= y + 1 /\ g <= x + 1 /\ (x + 1) + z = g + (y + 1) /\ x + 1 \in Nat /\ y + 1 \in Nat
  BY <1>1
<1>9. (\A i \in 1..(x + 1) : c[i] \in Nat) /\ (\A i \in 1..(y + 1) : d[i] \in Nat)
  BY <1>2, <1>3, ElementOfSeq
<1>10. Shape(c, d, l, cap, x + 1, y + 1, z, g)
  BY <1>1, <1>2, <1>3, <1>5, <1>6, <1>7, <1>8, <1>9 DEF Shape
<1>11. Mirrors(c, d, l, cap) /\ Gone(c, d, l) = g
  BY <1>4, <1>8, <1>10, MirrorsIf
<1>12. QED
  BY <1>1, <1>2, <1>3, <1>11

LEMMA MirrorsTick ==
  ASSUME NEW cap \in Nat, NEW last \in Nat, cap <= last,
         NEW b, NEW a, NEW l, Mirrors(b, a, l, cap)
  PROVE  /\ Mirrors(Aged(b, last), Recall(a, cap), Recall(l, cap), cap)
         /\ Len(Recall(a, cap)) + Len(l) <= Len(a) + Len(Recall(l, cap))
<1>0. PICK x \in Nat, y \in Nat, z \in Nat, g \in Nat :
        Shape(b, a, l, cap, x, y, z, g) /\ Gone(b, a, l) = g
  BY MirrorsMeans
<1>1. /\ b \in Seq(Nat) /\ a \in Seq(Nat) /\ l \in Seq(Nat)
      /\ Len(b) = x /\ Len(a) = y /\ Len(l) = z /\ Gone(b, a, l) = g
      /\ z <= y /\ g <= x /\ x + z = g + y
      /\ \A i \in 1..x : b[i] \in Nat
      /\ \A i \in 1..y : a[i] \in Nat /\ a[i] < cap
      /\ \A i \in 1..z : l[i] = a[i]
      /\ \A i \in 1..x : IF i <= g THEN b[i] >= cap ELSE b[i] = a[i - g + z]
  BY <1>0 DEF Shape
<1>2. Sorted(a)
  BY DEF Mirrors
<1>3. Sorted(l)
  <2>1. \A i, j \in 1..z : i <= j => a[i] >= a[j]
    BY <1>1, <1>2 DEF Sorted
  <2>2. QED
    BY <1>1, <2>1 DEF Sorted
<1>4. PICK m \in Nat : Forgets(a, Recall(a, cap), cap, m)
  BY <1>1, <1>2, RecallForgets
<1>5. PICK n \in Nat : Forgets(l, Recall(l, cap), cap, n)
  BY <1>1, <1>3, RecallForgets
<1>6. PICK u \in Nat, d \in Seq(Nat) :
        /\ d = Recall(a, cap) /\ y = m + u /\ Len(d) = u
        /\ \A i \in 1..y : a[i] + 1 >= cap <=> i <= m
        /\ \A i \in 1..u : d[i] = a[m + i] + 1
  <2>1. y - m \in Nat /\ y = m + (y - m)
    BY <1>1, <1>4 DEF Forgets
  <2>2. QED
    BY <1>1, <1>4, <2>1 DEF Forgets
<1>7. PICK v \in Nat, k \in Seq(Nat) :
        /\ k = Recall(l, cap) /\ z = n + v /\ Len(k) = v
        /\ \A i \in 1..z : l[i] + 1 >= cap <=> i <= n
        /\ \A i \in 1..v : k[i] = l[n + i] + 1
  <2>1. z - n \in Nat /\ z = n + (z - n)
    BY <1>1, <1>5 DEF Forgets
  <2>2. QED
    BY <1>1, <1>5, <2>1 DEF Forgets
<1>8. n <= m /\ (v = 0 \/ n = m)
  <2>1. ASSUME NEW i \in 1..z PROVE i <= n <=> i <= m
    <3>1. i \in 1..y /\ l[i] = a[i]
      BY <1>1
    <3>2. QED
      BY <1>6, <1>7, <3>1
  <2>2. CASE v = 0
    <3>1. n = 0 \/ (n \in 1..z /\ n <= n)
      BY <1>7
    <3>2. n = 0 \/ n <= m
      BY <2>1, <3>1
    <3>3. QED
      BY <2>2, <3>2
  <2>3. CASE v # 0
    <3>1. n + 1 \in 1..z /\ (n = 0 \/ n \in 1..z)
      BY <1>7, <2>3
    <3>2. ~(n + 1 <= n)
      OBVIOUS
    <3>3. ~(n + 1 <= m)
      BY <2>1, <3>1, <3>2
    <3>4. n = 0 \/ n <= m
      BY <2>1, <3>1
    <3>5. QED
      BY <3>3, <3>4
  <2>4. QED
    BY <2>2, <2>3
<1>9. PICK c \in Seq(Nat) :
        /\ c = Aged(b, last) /\ Len(c) = x
        /\ \A i \in 1..x : c[i] = IF b[i] < last THEN b[i] + 1 ELSE b[i]
  <2>1. DOMAIN b = 1..x
    BY <1>1, LenProperties
  <2>2. Aged(b, last) = [i \in 1..x |-> IF b[i] < last THEN b[i] + 1 ELSE b[i]]
    BY <2>1 DEF Aged, Older
  <2>3. \A i \in 1..x : (IF b[i] < last THEN b[i] + 1 ELSE b[i]) \in Nat
    BY <1>1
  <2>4. PICK c : c = [i \in 1..x |-> IF b[i] < last THEN b[i] + 1 ELSE b[i]]
    OBVIOUS
  <2>5. c \in Seq(Nat) /\ Len(c) = x
    BY <2>3, <2>4
  <2>6. QED
    BY <2>2, <2>4, <2>5
<1>10. ASSUME NEW i \in 1..u PROVE m + i \in 1..y /\ ~(m + i <= m)
  BY <1>6
<1>11. ASSUME NEW i \in 1..u PROVE d[i] < cap
  <2>1. m + i \in 1..y /\ ~(m + i <= m)
    BY <1>10
  <2>2. a[m + i] \in Nat /\ ~(a[m + i] + 1 >= cap)
    BY <1>1, <1>6, <2>1
  <2>3. QED
    BY <1>6, <2>2
<1>12. Sorted(d)
  <2>1. SUFFICES ASSUME NEW i \in 1..u, NEW j \in 1..u, i <= j PROVE d[i] >= d[j]
    BY <1>6 DEF Sorted
  <2>2. m + i \in 1..y /\ m + j \in 1..y /\ m + i <= m + j
    BY <1>10, <2>1
  <2>3. a[m + i] >= a[m + j] /\ a[m + i] \in Nat /\ a[m + j] \in Nat
    BY <1>1, <1>2, <2>2 DEF Sorted
  <2>4. \A h \in 1..u : d[h] = a[m + h] + 1
    BY <1>6
  <2>5. d[i] = a[m + i] + 1 /\ d[j] = a[m + j] + 1
    BY <2>4
  <2>6. QED
    BY <2>3, <2>5
<1>13. ASSUME NEW i \in 1..v PROVE k[i] = d[i]
  <2>1. m = n /\ n + i \in 1..z /\ i \in 1..u
    BY <1>1, <1>6, <1>7, <1>8
  <2>2. l[n + i] = a[m + i]
    BY <1>1, <2>1
  <2>3. QED
    BY <1>6, <1>7, <2>1, <2>2
<1>14. PICK h \in Nat : m = n + h /\ v <= u /\ g + h <= x /\ x + v = g + h + u
  <2>1. m - n \in Nat /\ m = n + (m - n)
    BY <1>8
  <2>2. PICK h \in Nat : m = n + h
    BY <2>1
  <2>3. v <= u /\ x + v = g + h + u
    BY <1>1, <1>6, <1>7, <1>8, <2>2
  <2>4. QED
    BY <2>2, <2>3
<1>15. ASSUME NEW i \in 1..x
       PROVE  IF i <= g + h THEN c[i] >= cap ELSE c[i] = d[i - (g + h) + v]
  <2>1. b[i] \in Nat /\ c[i] = IF b[i] < last THEN b[i] + 1 ELSE b[i]
    BY <1>1, <1>9
  <2>2. CASE i <= g
    <3>1. b[i] >= cap /\ i <= g + h
      BY <1>1, <2>2
    <3>2. QED
      BY <2>1, <3>1
  <2>3. CASE ~(i <= g)
    <3>1. PICK j \in 1..y : j = i - g + z
      BY <1>1, <2>3
    <3>2. b[i] = a[j] /\ a[j] \in Nat /\ a[j] < cap
      BY <1>1, <2>3, <3>1
    <3>3. c[i] = a[j] + 1
      BY <2>1, <3>2
    <3>4. CASE i <= g + h
      <4>1. j <= m
        <5>1. CASE v = 0
          BY <1>7, <1>14, <3>1, <3>4, <5>1
        <5>2. CASE n = m
          BY <1>14, <2>3, <3>4, <5>2
        <5>3. QED
          BY <1>8, <5>1, <5>2
      <4>2. QED
        BY <1>6, <3>2, <3>3, <3>4, <4>1
    <3>5. CASE ~(i <= g + h)
      <4>1. PICK q \in 1..u : q = i - (g + h) + v /\ m + q = j
        <5>1. m + (i - (g + h) + v) = j /\ i - (g + h) + v \in 1..u
          BY <1>1, <1>6, <1>7, <1>14, <3>1, <3>5
        <5>2. QED
          BY <5>1
      <4>2. QED
        BY <1>6, <3>3, <3>5, <4>1
    <3>6. QED
      BY <3>4, <3>5
  <2>4. QED
    BY <2>2, <2>3
<1>16. g + h \in Nat /\ Mirrors(c, d, k, cap)
  <2>1. g + h \in Nat /\ v <= u /\ g + h <= x /\ x + v = (g + h) + u
    BY <1>14
  <2>2. (\A i \in 1..x : c[i] \in Nat) /\ (\A i \in 1..u : d[i] \in Nat)
    BY <1>6, <1>9, ElementOfSeq
  <2>3. Shape(c, d, k, cap, x, u, v, g + h)
    BY <1>6, <1>7, <1>9, <1>11, <1>13, <1>15, <2>1, <2>2 DEF Shape
  <2>4. QED
    BY <1>12, <2>1, <2>3, MirrorsIf
<1>17. u + z <= y + v
  BY <1>6, <1>7, <1>8
<1>18. QED
  BY <1>1, <1>6, <1>7, <1>9, <1>16, <1>17

-----------------------------------------------------------------------------
(* The report file: a call that met no other has the temporary file to      *)
(* itself, and once a call has published, only one that had met it can      *)
(* still be writing to the report.                                          *)

FileTypeOK ==
  /\ tmp \in Contents \union {"none"} /\ report \in Contents
  /\ file \in [Threads -> {"none", "tmp", "report", "gone"}]
  /\ met \subseteq Threads /\ spoiled \in BOOLEAN
  /\ doing \in [Threads -> {"idle", "expire", "drop", "check", "append", "write", "replace"}]

(* A thread has a file open between open() and os.replace.                  *)
OpenBetween == \A t \in Threads : file[t] # "none" <=> doing[t] \in {"write", "replace"}

(* A call that has met no other has the temporary file to itself.           *)
Alone ==
  \A t \in Threads \ met : file[t] # "none" =>
    /\ file[t] = "tmp"
    /\ \A u \in Threads \ {t} : file[u] = "none"
    /\ doing[t] = "write" => tmp = "partial"
    /\ doing[t] = "replace" => tmp = "whole"

(* Nobody writes to a report that a call alone has published.               *)
NobodyInside == ~spoiled => report = "whole" /\ \A t \in Threads : file[t] # "report"

FileInv == FileTypeOK /\ OpenBetween /\ Alone /\ NobodyInside

LEMMA FileInit == ThreadsInit => FileInv
<1> SUFFICES ASSUME ThreadsInit PROVE FileInv
  OBVIOUS
<1> USE DEF ThreadsInit, ReportInit
<1>1. FileTypeOK
  BY DEF FileTypeOK, Contents
<1>2. OpenBetween /\ Alone /\ NobodyInside
  BY DEF OpenBetween, Alone, NobodyInside
<1>3. QED
  BY <1>1, <1>2 DEF FileInv

(* What the limiter does leaves the files alone.                            *)
LEMMA LimiterLeavesFiles ==
  ASSUME FileInv, UNCHANGED reportVars,
         NEW t \in Threads,
         NEW place \in {"idle", "expire", "drop", "check", "append"},
         doing[t] \notin {"write", "replace"}, GoOn(t, place)
  PROVE  FileInv'
  BY DEF FileInv, FileTypeOK, OpenBetween, Alone, NobodyInside, GoOn, reportVars

LEMMA OpenKeepsFileInv ==
  ASSUME FileInv, NEW t \in Threads, Open(t)
  PROVE  FileInv'
<1> USE DEF FileInv, OpenBetween, Open, OpenTmp, GoOn
<1>1. FileTypeOK'
  BY DEF FileTypeOK, Contents, Writing
<1>2. OpenBetween'
  BY DEF FileTypeOK
<1>3. Alone'
  <2> SUFFICES ASSUME NEW u \in Threads \ met', file'[u] # "none"
               PROVE  /\ file'[u] = "tmp"
                      /\ \A v \in Threads \ {u} : file'[v] = "none"
                      /\ doing'[u] = "write" => tmp' = "partial"
                      /\ doing'[u] = "replace" => tmp' = "whole"
    BY DEF Alone
  <2>1. Writing = {} /\ u = t
    BY DEF Writing, FileTypeOK
  <2>2. QED
    BY <2>1 DEF Writing, FileTypeOK
<1>4. NobodyInside'
  BY DEF NobodyInside, FileTypeOK
<1>5. QED
  BY <1>1, <1>2, <1>3, <1>4

LEMMA WriteKeepsFileInv ==
  ASSUME FileInv, NEW t \in Threads, Write(t)
  PROVE  FileInv'
<1> USE DEF FileInv, OpenBetween, Write, WriteText, GoOn, FileTypeOK
<1>1. FileTypeOK' /\ OpenBetween'
  BY DEF Contents
<1>2. Alone'
  <2> SUFFICES ASSUME NEW u \in Threads \ met, file[u] # "none"
               PROVE  /\ file[u] = "tmp"
                      /\ \A v \in Threads \ {u} : file[v] = "none"
                      /\ doing'[u] = "write" => tmp' = "partial"
                      /\ doing'[u] = "replace" => tmp' = "whole"
    BY DEF Alone
  <2>1. u = t /\ tmp = "partial"
    BY DEF Alone
  <2>2. QED
    BY <2>1 DEF Alone, Filled
<1>3. NobodyInside'
  BY DEF NobodyInside
<1>4. QED
  BY <1>1, <1>2, <1>3

LEMMA PublishKeepsFileInv ==
  ASSUME FileInv, NEW t \in Threads, Publish(t)
  PROVE  FileInv'
<1> USE DEF FileInv, OpenBetween, FileTypeOK, Return, GoOn
<1>0. doing[t] = "replace" /\ file[t] # "none" /\ doing' = [doing EXCEPT ![t] = "idle"]
  BY DEF Publish
<1>1. CASE Replace(t)
  <2>1. FileTypeOK' /\ OpenBetween'
    BY <1>0, <1>1 DEF Replace, Contents
  <2>2. Alone'
    BY <1>0, <1>1 DEF Replace, Alone
  <2>3. NobodyInside'
    <3>1. CASE t \in met
      BY <3>1, <1>1 DEF Replace, NobodyInside
    <3>2. CASE t \notin met
      BY <3>2, <1>0, <1>1 DEF Replace, NobodyInside, Alone
    <3>3. QED
      BY <3>1, <3>2
  <2>4. QED
    BY <2>1, <2>2, <2>3
<1>2. CASE ReplaceFails(t)
  <2>1. FileTypeOK' /\ OpenBetween'
    BY <1>0, <1>2 DEF ReplaceFails
  <2>2. Alone'
    BY <1>0, <1>2 DEF ReplaceFails, Alone
  <2>3. NobodyInside'
    BY <1>2 DEF ReplaceFails, NobodyInside
  <2>4. QED
    BY <2>1, <2>2, <2>3
<1>3. QED
  BY <1>1, <1>2 DEF Publish

LEMMA FileStep == FileInv /\ [ThreadsNext]_threadsVars => FileInv'
<1> SUFFICES ASSUME FileInv, [ThreadsNext]_threadsVars PROVE FileInv'
  OBVIOUS
<1>1. ASSUME NEW t \in Threads, Arrive(t) PROVE FileInv'
  BY <1>1, LimiterLeavesFiles DEF Arrive
<1>2. ASSUME NEW t \in Threads, Expire(t) PROVE FileInv'
  BY <1>2, LimiterLeavesFiles DEF Expire
<1>3. ASSUME NEW t \in Threads, Drop(t) PROVE FileInv'
  BY <1>3, LimiterLeavesFiles DEF Drop
<1>4. ASSUME NEW t \in Threads, DropFails(t) PROVE FileInv'
  BY <1>4, LimiterLeavesFiles DEF DropFails, Return
<1>5. ASSUME NEW t \in Threads, Check(t) PROVE FileInv'
  BY <1>5, LimiterLeavesFiles DEF Check, Return
<1>6. ASSUME NEW t \in Threads, Admit(t) PROVE FileInv'
  BY <1>6, LimiterLeavesFiles DEF Admit, Return
<1>7. ASSUME NEW t \in Threads, Open(t) \/ Write(t) \/ Publish(t) PROVE FileInv'
  BY <1>7, OpenKeepsFileInv, WriteKeepsFileInv, PublishKeepsFileInv
<1>8. CASE ClockTick \/ UNCHANGED threadsVars
  BY <1>8 DEF ClockTick, threadsVars, reportVars, FileInv, FileTypeOK, OpenBetween, Alone, NobodyInside
<1>9. CASE Restart
  BY <1>9 DEF Restart, ReportRestart, FileInv, FileTypeOK, OpenBetween, Alone, NobodyInside
<1>10. QED
  BY <1>1, <1>2, <1>3, <1>4, <1>5, <1>6, <1>7, <1>8, <1>9 DEF ThreadsNext, ThreadStep

LEMMA FilesKept == ThreadsSpec => []FileInv
  BY FileInit, FileStep, PTL DEF ThreadsSpec

-----------------------------------------------------------------------------
(* The published report is one whole report, through restarts in the middle *)
(* of a call, unless the call that published it ran beside another one      *)
(* (predict_realtime_native, os.replace).                                   *)
THEOREM ReportsAreWhole == ThreadsSpec => []ReportWhole
<1>1. FileInv => ReportWhole
  BY DEF FileInv, NobodyInside, ReportWhole
<1>2. QED
  BY <1>1, FilesKept, PTL

(* A call that met no other finds the file it has written, whole, when it   *)
(* moves it: it never answers 404 because the file is gone.                 *)
THEOREM PublishersOwnTheirFile == ThreadsSpec => []PublishesItsOwn
<1>1. FileInv => PublishesItsOwn
  BY DEF FileInv, OpenBetween, Alone, PublishesItsOwn
<1>2. QED
  BY <1>1, FilesKept, PTL

-----------------------------------------------------------------------------
(* The rate limiter                                                         *)

Appending == {t \in Threads : doing[t] = "append"}

(* Whoever checks the length has seen the last expired stamp go; whoever    *)
(* appends found fewer than the limit.                                       *)
Checked == \A t \in Threads : doing[t] = "check" => Gone(bucket, admitted, early) = 0
Room == Len(admitted) + Cardinality(Appending) < RateLimit + Cardinality(Threads) + Len(early)

LimiterInv == Mirrors(bucket, admitted, early, RateWindow + 1) /\ Checked /\ Room

LEMMA Numbers ==
  ASSUME Mirrors(bucket, admitted, early, RateWindow + 1)
  PROVE  /\ Len(bucket) \in Nat /\ Len(admitted) \in Nat /\ Len(early) \in Nat
         /\ Cardinality(Threads) \in Nat /\ IsFiniteSet(Threads)
         /\ RateLimit \in Nat \ {0} /\ RateWindow + 1 \in Nat \ {0}
         /\ Len(admitted) <= Len(bucket) + Len(early)
         /\ Gone(bucket, admitted, early) = 0 => Len(admitted) = Len(bucket) + Len(early)
         /\ Gone(bucket, admitted, early) # 0 => OldestExpired
<1>1. RateWindow + 1 \in Nat \ {0} /\ RateLimit \in Nat \ {0}
  BY RateAssumption
<1>2. PICK x \in Nat, y \in Nat, z \in Nat, g \in Nat :
        Shape(bucket, admitted, early, RateWindow + 1, x, y, z, g) /\ Gone(bucket, admitted, early) = g
  BY <1>1, MirrorsMeans
<1>3. Len(bucket) = x /\ Len(admitted) = y /\ Len(early) = z /\ g <= x /\ x + z = g + y
  BY <1>2 DEF Shape
<1>4. ASSUME g # 0 PROVE OldestExpired
  <2>1. 1 \in 1..x /\ 1 <= g
    BY <1>3, <1>4
  <2>2. bucket[1] >= RateWindow + 1 /\ bucket[1] \in Nat
    BY <1>2, <2>1 DEF Shape
  <2>3. bucket # <<>>
    BY <1>3, <2>1, EmptySeq
  <2>4. QED
    BY <1>2, <2>2, <2>3, RateAssumption DEF OldestExpired, Shape
<1>5. IsFiniteSet(Threads) /\ Cardinality(Threads) \in Nat
  BY ThreadsAssumption, FS_CardinalityType
<1>6. QED
  BY <1>1, <1>2, <1>3, <1>4, <1>5

(* Those who append are never more than there are threads.                  *)
LEMMA AppendingCounted ==
  /\ IsFiniteSet(Appending) /\ Cardinality(Appending) \in Nat
  /\ Cardinality(Appending) <= Cardinality(Threads)
<1>1. Appending \subseteq Threads
  BY DEF Appending
<1>2. QED
  BY <1>1, ThreadsAssumption, FS_Subset, FS_CardinalityType

(* A thread goes on, anywhere but to the check or the append.               *)
LEMMA GoingOn ==
  ASSUME FileTypeOK, LimiterInv, UNCHANGED limiterVars,
         NEW t \in Threads, NEW place, doing[t] # "append", GoOn(t, place),
         place # "append", place = "check" => ~OldestExpired
  PROVE  LimiterInv'
<1>1. Appending' = Appending
  BY DEF Appending, GoOn, FileTypeOK
<1>2. bucket' = bucket /\ admitted' = admitted /\ early' = early
  BY DEF limiterVars
<1>3. Mirrors(bucket, admitted, early, RateWindow + 1)' /\ Room'
  BY <1>1, <1>2 DEF LimiterInv, Room
<1>4. place = "check" => Gone(bucket, admitted, early) = 0
  BY Numbers DEF LimiterInv
<1>5. Checked'
  BY <1>2, <1>4 DEF LimiterInv, Checked, GoOn, FileTypeOK
<1>6. QED
  BY <1>3, <1>5 DEF LimiterInv

LEMMA DropKeepsLimiterInv ==
  ASSUME FileTypeOK, LimiterInv, NEW t \in Threads, Drop(t)
  PROVE  LimiterInv'
<1>1. PICK b, a, l : b = bucket /\ a = admitted /\ l = early
  OBVIOUS
<1>2. /\ bucket' = Tail(b) /\ admitted' = a /\ b # <<>>
      /\ early' = IF Head(b) <= RateWindow THEN Append(l, Head(b)) ELSE l
  BY <1>1 DEF Drop, PopLeft
<1>3. RateWindow + 1 \in Nat /\ Mirrors(b, a, l, RateWindow + 1)
  BY <1>1, RateAssumption DEF LimiterInv
<1>4. Head(b) <= RateWindow <=> Head(b) < RateWindow + 1
  BY <1>2, <1>3, HeadTailProperties, RateAssumption DEF Mirrors
<1>5. PICK k : k = IF Head(b) < RateWindow + 1 THEN Append(l, Head(b)) ELSE l
  OBVIOUS
<1>6. /\ Mirrors(Tail(b), a, k, RateWindow + 1)
      /\ Gone(b, a, l) = 0 => Gone(Tail(b), a, k) = 0
      /\ Len(k) >= Len(l)
  BY <1>2, <1>3, <1>5, MirrorsDrop
<1>7. bucket' = Tail(b) /\ admitted' = a /\ early' = k
  BY <1>2, <1>4, <1>5
<1>8. Appending' = Appending
  BY DEF Appending, Drop, GoOn, FileTypeOK
<1>9. Mirrors(bucket, admitted, early, RateWindow + 1)'
  BY <1>6, <1>7
<1>10. Checked'
  BY <1>1, <1>6, <1>7 DEF LimiterInv, Checked, Drop, GoOn, FileTypeOK
<1>11. Room'
  <2>1. Len(l) \in Nat /\ Len(a) \in Nat /\ Cardinality(Threads) \in Nat /\ RateLimit \in Nat
    BY <1>1, Numbers DEF LimiterInv
  <2>2. Len(k) \in Nat
    BY <1>6, LenProperties DEF Mirrors
  <2>3. Cardinality(Appending) \in Nat
    BY AppendingCounted
  <2>4. Len(a) + Cardinality(Appending) < RateLimit + Cardinality(Threads) + Len(l)
    BY <1>1 DEF LimiterInv, Room
  <2>5. Len(a) + Cardinality(Appending) < RateLimit + Cardinality(Threads) + Len(k)
    BY <1>6, <2>1, <2>2, <2>3, <2>4
  <2>6. QED
    BY <1>7, <1>8, <2>5 DEF Room
<1>12. QED
  BY <1>9, <1>10, <1>11 DEF LimiterInv

(* The check lets a thread pass.                                            *)
LEMMA PassKeepsLimiterInv ==
  ASSUME FileTypeOK, LimiterInv, UNCHANGED limiterVars,
         NEW t \in Threads, doing[t] = "check", ~Full, GoOn(t, "append")
  PROVE  LimiterInv'
<1>1. bucket' = bucket /\ admitted' = admitted /\ early' = early
  BY DEF limiterVars
<1>2. Mirrors(bucket, admitted, early, RateWindow + 1)'
  BY <1>1 DEF LimiterInv
<1>3. Checked'
  BY <1>1 DEF LimiterInv, Checked, GoOn, FileTypeOK
<1>4. Room'
  <2>1. /\ Len(bucket) \in Nat /\ Len(early) \in Nat /\ Cardinality(Threads) \in Nat
        /\ RateLimit \in Nat /\ Gone(bucket, admitted, early) = 0
        /\ Len(admitted) = Len(bucket) + Len(early)
    BY Numbers DEF LimiterInv, Checked
  <2>2. Len(bucket) < RateLimit
    BY <2>1 DEF Full
  <2>3. PICK N \in Nat : N = Cardinality(Appending)' /\ N <= Cardinality(Threads)
    <3>1. Appending' \subseteq Threads
      BY DEF Appending
    <3>2. QED
      BY <3>1, ThreadsAssumption, FS_Subset, FS_CardinalityType
  <2>4. Len(admitted) + N < RateLimit + Cardinality(Threads) + Len(early)
    BY <2>1, <2>2, <2>3
  <2>5. QED
    BY <1>1, <2>3, <2>4 DEF Room
<1>5. QED
  BY <1>2, <1>3, <1>4 DEF LimiterInv

LEMMA AdmitKeepsLimiterInv ==
  ASSUME FileTypeOK, LimiterInv, NEW t \in Threads, Admit(t)
  PROVE  LimiterInv'
<1>1. PICK b, a, l : b = bucket /\ a = admitted /\ l = early
  OBVIOUS
<1>2. bucket' = Append(b, 0) /\ admitted' = Append(a, 0) /\ early' = l
  BY <1>1 DEF Admit, AppendStamp
<1>3. RateWindow + 1 \in Nat \ {0} /\ Mirrors(b, a, l, RateWindow + 1)
  BY <1>1, RateAssumption DEF LimiterInv
<1>4. /\ Mirrors(Append(b, 0), Append(a, 0), l, RateWindow + 1)
      /\ Gone(Append(b, 0), Append(a, 0), l) = Gone(b, a, l)
      /\ Len(Append(a, 0)) = Len(a) + 1
  BY <1>3, MirrorsAppend
<1>5. Mirrors(bucket, admitted, early, RateWindow + 1)'
  BY <1>2, <1>4
<1>6. Checked'
  BY <1>1, <1>2, <1>4 DEF LimiterInv, Checked, Admit, Return, GoOn, FileTypeOK
<1>7. Room'
  <2>1. t \in Appending /\ Appending' = Appending \ {t}
    BY DEF Appending, Admit, Return, GoOn, FileTypeOK
  <2>2. IsFiniteSet(Appending) /\ Cardinality(Appending) \in Nat
    BY AppendingCounted
  <2>3. Cardinality(Appending \ {t}) = Cardinality(Appending) - 1
    BY <2>1, <2>2, FS_RemoveElement
  <2>4. Len(l) \in Nat /\ Len(a) \in Nat /\ Cardinality(Threads) \in Nat /\ RateLimit \in Nat
    BY <1>1, Numbers DEF LimiterInv
  <2>5. Len(a) + Cardinality(Appending) < RateLimit + Cardinality(Threads) + Len(l)
    BY <1>1 DEF LimiterInv, Room
  <2>6. (Len(a) + 1) + Cardinality(Appending \ {t}) < RateLimit + Cardinality(Threads) + Len(l)
    BY <2>2, <2>3, <2>4, <2>5
  <2>7. QED
    BY <1>2, <1>4, <2>1, <2>6 DEF Room
<1>8. QED
  BY <1>5, <1>6, <1>7 DEF LimiterInv

(* No thread is at the deque when the clock ticks.                          *)
LEMMA TickKeepsLimiterInv ==
  ASSUME FileTypeOK, LimiterInv, ClockTick
  PROVE  LimiterInv'
<1>1. PICK b, a, l : b = bucket /\ a = admitted /\ l = early
  OBVIOUS
<1>2. PICK d, k : d = Recall(a, RateWindow + 1) /\ k = Recall(l, RateWindow + 1)
  OBVIOUS
<1>3. bucket' = Aged(b, RateWindow + 1) /\ admitted' = d /\ early' = k
  BY <1>1, <1>2 DEF ClockTick, LimiterTick
<1>4. RateWindow + 1 \in Nat /\ RateWindow + 1 <= RateWindow + 1 /\ Mirrors(b, a, l, RateWindow + 1)
  BY <1>1, RateAssumption DEF LimiterInv
<1>5. /\ Mirrors(Aged(b, RateWindow + 1), d, k, RateWindow + 1)
      /\ Len(d) + Len(l) <= Len(a) + Len(k)
  BY <1>2, <1>4, MirrorsTick
<1>6. Mirrors(bucket, admitted, early, RateWindow + 1)'
  BY <1>3, <1>5
<1>7. Checked' /\ Appending' = Appending
  BY DEF Checked, Appending, ClockTick
<1>8. Room'
  <2>1. Len(l) \in Nat /\ Len(a) \in Nat /\ Cardinality(Threads) \in Nat /\ RateLimit \in Nat
    BY <1>1, Numbers DEF LimiterInv
  <2>2. Len(d) \in Nat /\ Len(k) \in Nat
    BY <1>5, LenProperties DEF Mirrors
  <2>3. Cardinality(Appending) \in Nat
    BY AppendingCounted
  <2>4. Len(a) + Cardinality(Appending) < RateLimit + Cardinality(Threads) + Len(l)
    BY <1>1 DEF LimiterInv, Room
  <2>5. Len(d) + Cardinality(Appending) < RateLimit + Cardinality(Threads) + Len(k)
    BY <1>5, <2>1, <2>2, <2>3, <2>4
  <2>6. QED
    BY <1>3, <1>7, <2>5 DEF Room
<1>9. QED
  BY <1>6, <1>7, <1>8 DEF LimiterInv

(* The server starts with an empty deque.                                   *)
LEMMA EmptyLimiterInv ==
  ASSUME bucket = <<>>, admitted = <<>>, early = <<>>, doing = [t \in Threads |-> "idle"]
  PROVE  LimiterInv
<1>1. Len(<<>>) = 0 /\ <<>> \in Seq(Nat)
  OBVIOUS
<1>2. Shape(bucket, admitted, early, RateWindow + 1, 0, 0, 0, 0) /\ Sorted(admitted)
  BY <1>1 DEF Shape, Sorted
<1>3. Mirrors(bucket, admitted, early, RateWindow + 1)
  <2>1. RateWindow + 1 \in Nat /\ 0 \in Nat
    BY RateAssumption
  <2>2. QED
    BY <1>2, <2>1, MirrorsIf
<1>4. Checked
  BY DEF Checked
<1>5. Appending = {}
  BY DEF Appending
<1>6. Room
  BY <1>1, <1>5, FS_EmptySet, ThreadsAssumption, FS_CardinalityType, RateAssumption DEF Room
<1>7. QED
  BY <1>3, <1>4, <1>6 DEF LimiterInv

LEMMA LimiterStep == FileInv /\ LimiterInv /\ [ThreadsNext]_threadsVars => LimiterInv'
<1> SUFFICES ASSUME FileTypeOK, LimiterInv, [ThreadsNext]_threadsVars PROVE LimiterInv'
  BY DEF FileInv
<1>1. ASSUME NEW t \in Threads, Arrive(t) PROVE LimiterInv'
  BY <1>1, GoingOn DEF Arrive
<1>2. ASSUME NEW t \in Threads, Expire(t) PROVE LimiterInv'
  BY <1>2, GoingOn DEF Expire
<1>3. ASSUME NEW t \in Threads, Drop(t) PROVE LimiterInv'
  BY <1>3, DropKeepsLimiterInv
<1>4. ASSUME NEW t \in Threads, DropFails(t) PROVE LimiterInv'
  BY <1>4, GoingOn DEF DropFails, Return
<1>5. ASSUME NEW t \in Threads, Check(t) PROVE LimiterInv'
  <2>1. CASE Full
    BY <1>5, <2>1, GoingOn DEF Check, Return
  <2>2. CASE ~Full
    BY <1>5, <2>2, PassKeepsLimiterInv DEF Check
  <2>3. QED
    BY <2>1, <2>2
<1>6. ASSUME NEW t \in Threads, Admit(t) PROVE LimiterInv'
  BY <1>6, AdmitKeepsLimiterInv
<1>7. ASSUME NEW t \in Threads, Open(t) PROVE LimiterInv'
  BY <1>7, GoingOn DEF Open
<1>8. ASSUME NEW t \in Threads, Write(t) PROVE LimiterInv'
  BY <1>8, GoingOn DEF Write
<1>9. ASSUME NEW t \in Threads, Publish(t) PROVE LimiterInv'
  BY <1>9, GoingOn DEF Publish, Return
<1>10. CASE ClockTick
  BY <1>10, TickKeepsLimiterInv
<1>11. CASE Restart
  <2>1. (bucket = <<>> /\ admitted = <<>> /\ early = <<>> /\ doing = [t \in Threads |-> "idle"])'
    BY <1>11 DEF Restart, LimiterRestart
  <2>2. QED
    BY <2>1, EmptyLimiterInv, PTL
<1>12. CASE UNCHANGED threadsVars
  BY <1>12 DEF threadsVars, limiterVars, LimiterInv, Checked, Room, Appending
<1>13. QED
  BY <1>1, <1>2, <1>3, <1>4, <1>5, <1>6, <1>7, <1>8, <1>9, <1>10, <1>11, <1>12
     DEF ThreadsNext, ThreadStep

LEMMA LimiterKept == ThreadsSpec => []LimiterInv
<1>1. ThreadsInit => LimiterInv
  BY EmptyLimiterInv DEF ThreadsInit, LimiterInit
<1>2. QED
  BY <1>1, LimiterStep, FilesKept, PTL DEF ThreadsSpec

(* However the threads take turns between the check and the append, no more *)
(* calls of a key are let in within a window than the limit, one for each   *)
(* other thread, and one for each stamp dropped too early (require_api_key).*)
THEOREM AdmissionsAreBounded == ThreadsSpec => []AdmissionsBounded
<1>1. LimiterInv => AdmissionsBounded
  <2> SUFFICES ASSUME LimiterInv PROVE AdmissionsBounded
    OBVIOUS
  <2>1. /\ Len(admitted) \in Nat /\ Len(early) \in Nat
        /\ Cardinality(Threads) \in Nat /\ RateLimit \in Nat
    BY Numbers DEF LimiterInv
  <2>2. Cardinality(Appending) \in Nat
    BY AppendingCounted
  <2>3. Len(admitted) + Cardinality(Appending) < RateLimit + Cardinality(Threads) + Len(early)
    BY DEF LimiterInv, Room
  <2>4. QED
    BY <2>1, <2>2, <2>3 DEF AdmissionsBounded
<1>2. QED
  BY <1>1, LimiterKept, PTL

(* A 429 is only answered when as many calls as the limit were let in       *)
(* within the window: a thread that checks has seen every expired stamp go, *)
(* whichever thread dropped it (require_api_key).                           *)
THEOREM RefusalsAreJustified == ThreadsSpec => []RefusalsJustified
<1>1. LimiterInv => RefusalsJustified
  <2> SUFFICES ASSUME LimiterInv, NEW t \in Threads, doing[t] = "check", Full
               PROVE  Len(admitted) >= RateLimit
    BY DEF RefusalsJustified
  <2>1. /\ Len(bucket) \in Nat /\ Len(early) \in Nat /\ RateLimit \in Nat
        /\ Len(admitted) = Len(bucket) + Len(early)
    BY Numbers DEF LimiterInv, Checked
  <2>2. QED
    BY <2>1 DEF Full
<1>2. QED
  BY <1>1, LimiterKept, PTL

-----------------------------------------------------------------------------
(* The cached water level: the time is stored after the reading, so a       *)
(* reading is never older than its time says.                               *)

CacheInv ==
  /\ pc \in [Bodies -> Places] /\ since \in [Bodies -> Nat]
  /\ held \in [Bodies -> Nat] /\ claim \in [Bodies -> Nat]
  /\ torn \in [Bodies -> BOOLEAN] /\ DOMAIN water = Bodies
  /\ reading \in Nat /\ stamp \in Nat
  /\ reading <= stamp
  /\ \A b \in Bodies : pc[b] = "stamp" => reading = 0
  /\ \A b \in Bodies : pc[b] # "decide" => claim[b] = NoAge
  /\ \A b \in Bodies : pc[b] = "age" /\ ~torn[b] => held[b] <= stamp
  /\ AgeRightAtItsClock

LEMMA CacheInit_Inv == Init => CacheInv
<1> SUFFICES ASSUME Init PROVE CacheInv
  OBVIOUS
<1>1. Oldest \in Nat /\ Ttl \in Nat /\ Ttl < Oldest
  BY CacheAssumption
<1>2. NoAge \in Nat /\ ~(NoAge <= Ttl)
  BY <1>1 DEF NoAge
<1>3. QED
  BY <1>2 DEF Init, CacheInit, CacheInv, AgeRightAtItsClock, Places

(* A body goes on without looking at the cache, and not to decide what to   *)
(* make of a reading from it.                                               *)
LEMMA ElsewhereKeepsCacheInv ==
  ASSUME CacheInv, UNCHANGED <<reading, stamp, held, claim, torn>>,
         NEW b \in Bodies, NEW place \in Places \ {"stamp", "age"}, pc[b] # "decide",
         pc' = [pc EXCEPT ![b] = place],
         since' \in [Bodies -> Nat], \A c \in Bodies \ {b} : since'[c] = since[c],
         DOMAIN water' = Bodies, \A c \in Bodies \ {b} : water'[c] = water[c]
  PROVE  CacheInv'
<1>1. ~(NoAge <= Ttl)
  BY CacheAssumption DEF NoAge
<1>2. claim[b] = NoAge
  BY DEF CacheInv
<1>3. AgeRightAtItsClock'
  <2>1. SUFFICES ASSUME NEW c \in Bodies, pc'[c] = "decide", claim[c] <= Ttl, ~torn[c]
                 PROVE  /\ held[c] <= claim[c] + since'[c]
                        /\ water'[c] = "cached" => held[c] < Grace + since'[c]
    BY DEF AgeRightAtItsClock
  <2>2. c # b
    BY <1>1, <1>2, <2>1
  <2>3. QED
    BY <2>1, <2>2 DEF CacheInv, AgeRightAtItsClock
<1>4. QED
  BY <1>2, <1>3 DEF CacheInv

LEMMA ForgetKeepsCacheInv ==
  ASSUME CacheInv, UNCHANGED cacheVars,
         NEW b \in Bodies, NEW place \in {"idle", "post"}, pc[b] = "decide", Goto(b, place),
         Forget(b), water' = [water EXCEPT ![b] = "none"]
  PROVE  CacheInv'
<1>1. NoAge \in Nat
  BY CacheAssumption DEF NoAge
<1>2. pc' = [pc EXCEPT ![b] = place] /\ place \in Places /\ place \notin {"stamp", "age", "decide"}
  BY DEF Goto, Places
<1>3. /\ held' = [held EXCEPT ![b] = NoAge] /\ claim' = [claim EXCEPT ![b] = NoAge]
      /\ since' = [since EXCEPT ![b] = 0] /\ torn' = [torn EXCEPT ![b] = FALSE]
  BY DEF Forget
<1>4. AgeRightAtItsClock'
  BY <1>2, <1>3 DEF CacheInv, AgeRightAtItsClock
<1>5. QED
  BY <1>1, <1>2, <1>3, <1>4 DEF CacheInv, cacheVars

LEMMA StoreKeepsCacheInv ==
  ASSUME CacheInv, NEW b \in Bodies, Store(b)
  PROVE  CacheInv'
<1>1. /\ reading' = 0 /\ stamp' = stamp /\ pc[b] = "store" /\ pc' = [pc EXCEPT ![b] = "stamp"]
      /\ UNCHANGED <<since, held, claim, water, torn>>
  BY DEF Store, StoreReading, Goto
<1>2. AgeRightAtItsClock'
  BY <1>1 DEF CacheInv, AgeRightAtItsClock
<1>3. QED
  BY <1>1, <1>2 DEF CacheInv, Places

LEMMA StampKeepsCacheInv ==
  ASSUME CacheInv, NEW b \in Bodies, Stamp(b)
  PROVE  CacheInv'
<1>1. ~(NoAge <= Ttl)
  BY CacheAssumption DEF NoAge
<1>2. /\ stamp' = since[b] /\ reading' = reading /\ pc[b] = "stamp"
      /\ pc' = [pc EXCEPT ![b] = "decide"] /\ water' = [water EXCEPT ![b] = "ok"]
      /\ torn' = [c \in Bodies |-> torn[c] \/ pc[c] = "age"]
      /\ UNCHANGED <<since, held, claim>>
  BY DEF Stamp, StoreStamp, Goto
<1>3. claim[b] = NoAge /\ reading = 0 /\ since[b] \in Nat
  BY <1>2 DEF CacheInv
<1>4. torn' \in [Bodies -> BOOLEAN]
  BY <1>2
<1>5. AgeRightAtItsClock'
  <2>1. SUFFICES ASSUME NEW c \in Bodies, pc'[c] = "decide", claim[c] <= Ttl, ~torn'[c]
                 PROVE  /\ held[c] <= claim[c] + since[c]
                        /\ water'[c] = "cached" => held[c] < Grace + since[c]
    BY <1>2 DEF AgeRightAtItsClock
  <2>2. c # b /\ ~torn[c]
    BY <1>1, <1>2, <1>3, <2>1
  <2>3. QED
    BY <1>2, <2>1, <2>2 DEF CacheInv, AgeRightAtItsClock
<1>6. \A c \in Bodies : pc'[c] = "age" => torn'[c]
  BY <1>2 DEF CacheInv
<1>7. QED
  BY <1>2, <1>3, <1>4, <1>5, <1>6 DEF CacheInv, Places

LEMMA LookUpKeepsCacheInv ==
  ASSUME CacheInv, NEW b \in Bodies, LookUp(b)
  PROVE  CacheInv'
<1>1. ~(NoAge <= Ttl)
  BY CacheAssumption DEF NoAge
<1>2. PICK place \in {"decide", "age"} :
        /\ pc[b] = "look" /\ pc' = [pc EXCEPT ![b] = place]
        /\ held' = [held EXCEPT ![b] = reading]
        /\ water' = [water EXCEPT ![b] = "failure"] \/ water' = water
        /\ UNCHANGED <<reading, stamp, since, claim, torn>>
  BY DEF LookUp, Goto, cacheVars
<1>3. claim[b] = NoAge
  BY <1>2 DEF CacheInv
<1>4. AgeRightAtItsClock'
  <2>1. SUFFICES ASSUME NEW c \in Bodies, pc'[c] = "decide", claim[c] <= Ttl, ~torn[c]
                 PROVE  /\ held'[c] <= claim[c] + since[c]
                        /\ water'[c] = "cached" => held'[c] < Grace + since[c]
    BY <1>2 DEF AgeRightAtItsClock
  <2>2. c # b
    BY <1>1, <1>3, <2>1
  <2>3. QED
    BY <1>2, <2>1, <2>2 DEF CacheInv, AgeRightAtItsClock
<1>5. \A c \in Bodies : pc'[c] = "age" /\ ~torn[c] => held'[c] <= stamp
  BY <1>2 DEF CacheInv
<1>6. QED
  BY <1>2, <1>3, <1>4, <1>5 DEF CacheInv, Places

LEMMA ServeKeepsCacheInv ==
  ASSUME CacheInv, NEW b \in Bodies, Serve(b)
  PROVE  CacheInv'
<1>1. Oldest \in Nat /\ Ttl \in Nat /\ Grace \in Nat /\ Ttl < Oldest /\ NoAge = Oldest + 1
  BY CacheAssumption DEF NoAge
<1>2. PICK age : age = ClaimedAge(since[b])
  OBVIOUS
<1>3. /\ pc[b] = "age" /\ pc' = [pc EXCEPT ![b] = "decide"]
      /\ claim' = [claim EXCEPT ![b] = age]
      /\ UNCHANGED <<reading, stamp, since, held, torn>>
  BY <1>2 DEF Serve, Goto, KeepStamp, cacheVars
<1>4. claim'[b] = age
  BY <1>3 DEF CacheInv
<1>5. /\ DOMAIN water' = Bodies /\ \A c \in Bodies \ {b} : water'[c] = water[c]
      /\ water'[b] = "cached" => age < Grace
  BY <1>4 DEF Serve, CacheInv
<1>6. /\ age \in Nat
      /\ age <= Ttl /\ ~torn[b] => held[b] <= age + since[b]
  <2>1. stamp \in Nat /\ since[b] \in Nat /\ held[b] \in Nat /\ (~torn[b] => held[b] <= stamp)
    BY <1>3 DEF CacheInv
  <2>2. CASE stamp = NoAge
    BY <1>1, <1>2, <2>2 DEF ClaimedAge
  <2>3. CASE stamp # NoAge /\ stamp < since[b]
    BY <1>2, <2>1, <2>3 DEF ClaimedAge
  <2>4. CASE stamp # NoAge /\ ~(stamp < since[b])
    BY <1>2, <2>1, <2>4 DEF ClaimedAge
  <2>5. QED
    BY <2>2, <2>3, <2>4
<1>7. AgeRightAtItsClock'
  <2>1. SUFFICES ASSUME NEW c \in Bodies, pc'[c] = "decide", claim'[c] <= Ttl, ~torn[c]
                 PROVE  /\ held[c] <= claim'[c] + since[c]
                        /\ water'[c] = "cached" => held[c] < Grace + since[c]
    BY <1>3 DEF AgeRightAtItsClock
  <2>2. CASE c = b
    <3>1. held[b] \in Nat /\ since[b] \in Nat /\ held[b] <= age + since[b]
      BY <1>4, <1>6, <2>1, <2>2 DEF CacheInv
    <3>2. QED
      BY <1>1, <1>4, <1>5, <1>6, <2>2, <3>1
  <2>3. CASE c # b
    BY <1>3, <1>5, <2>1, <2>3 DEF CacheInv, AgeRightAtItsClock
  <2>4. QED
    BY <2>2, <2>3
<1>8. QED
  BY <1>3, <1>5, <1>6, <1>7 DEF CacheInv, Places

LEMMA TickKeepsCacheInv ==
  ASSUME CacheInv, Tick
  PROVE  CacheInv'
<1>1. Oldest \in Nat /\ Ttl \in Nat /\ Ttl < Oldest /\ NoAge = Oldest + 1
  BY CacheAssumption DEF NoAge
<1>2. PICK r, s : r = reading /\ s = stamp
  OBVIOUS
<1>3. /\ reading' = CacheOlder(r) /\ stamp' = CacheOlder(s)
      /\ UNCHANGED <<pc, held, claim, water, torn>>
      /\ since' = [b \in Bodies |-> IF pc[b] = "fetch" THEN since[b] + 1 ELSE since[b]]
      /\ \A b \in Bodies : pc[b] \notin {"stamp", "age"}
  BY <1>2 DEF Tick, CacheTick, Instant, Recording
<1>4. r \in Nat /\ s \in Nat /\ r <= s
  BY <1>2 DEF CacheInv
<1>5. CacheOlder(r) \in Nat /\ CacheOlder(s) \in Nat /\ CacheOlder(r) <= CacheOlder(s)
  BY <1>1, <1>4 DEF CacheOlder
<1>6. since' \in [Bodies -> Nat]
  BY <1>3 DEF CacheInv
<1>7. AgeRightAtItsClock'
  BY <1>3 DEF CacheInv, AgeRightAtItsClock
<1>8. QED
  BY <1>3, <1>5, <1>6, <1>7 DEF CacheInv

LEMMA CacheStep == CacheInv /\ [Next]_vars => CacheInv'
<1> SUFFICES ASSUME CacheInv, [Next]_vars PROVE CacheInv'
  OBVIOUS
<1>1. since \in [Bodies -> Nat] /\ DOMAIN water = Bodies /\ pc \in [Bodies -> Places]
  BY DEF CacheInv
<1> DEFINE Still == UNCHANGED <<reading, stamp, held, claim, torn>>
<1>2. ASSUME NEW b \in Bodies, Begin(b) PROVE CacheInv'
  <2>1. PICK behind \in 0..MaxSpan :
          /\ Still /\ pc[b] = "idle" /\ pc' = [pc EXCEPT ![b] = "fetch"]
          /\ since' = [since EXCEPT ![b] = behind] /\ water' = water
    BY <1>2 DEF Begin, Goto, cacheVars
  <2>2. /\ since' \in [Bodies -> Nat] /\ \A c \in Bodies \ {b} : since'[c] = since[c]
        /\ DOMAIN water' = Bodies /\ \A c \in Bodies \ {b} : water'[c] = water[c]
        /\ "fetch" \in Places \ {"stamp", "age"} /\ pc[b] # "decide"
    BY <1>1, <2>1 DEF Places
  <2>3. QED
    BY <2>1, <2>2, ElsewhereKeepsCacheInv
<1>3. ASSUME NEW b \in Bodies, FetchEnds(b) PROVE CacheInv'
  <2>1. PICK place \in {"store", "look", "decide"} :
          /\ Still /\ pc[b] = "fetch" /\ pc' = [pc EXCEPT ![b] = place] /\ since' = since
          /\ water' = water \/ water' = [water EXCEPT ![b] = "failure"]
    BY <1>3 DEF FetchEnds, Goto, cacheVars
  <2>2. /\ since' \in [Bodies -> Nat] /\ \A c \in Bodies \ {b} : since'[c] = since[c]
        /\ DOMAIN water' = Bodies /\ \A c \in Bodies \ {b} : water'[c] = water[c]
        /\ place \in Places \ {"stamp", "age"} /\ pc[b] # "decide"
    BY <1>1, <2>1 DEF Places
  <2>3. QED
    BY <2>1, <2>2, ElsewhereKeepsCacheInv
<1>4. ASSUME NEW b \in Bodies, Skip(b) \/ Ask(b) PROVE CacheInv'
  <2>1. CASE Skip(b)
    BY <2>1, ForgetKeepsCacheInv DEF Skip
  <2>2. CASE Ask(b)
    BY <2>2, ForgetKeepsCacheInv DEF Ask
  <2>3. QED
    BY <1>4, <2>1, <2>2
<1>5. ASSUME NEW b \in Bodies, Store(b) \/ Stamp(b) \/ LookUp(b) \/ Serve(b) PROVE CacheInv'
  BY <1>5, StoreKeepsCacheInv, StampKeepsCacheInv, LookUpKeepsCacheInv, ServeKeepsCacheInv
<1>6. ASSUME NEW b \in Bodies,
             \/ PostAnswered(b) \/ PostRefused(b) \/ PostFails(b)
             \/ RecordFailure(b) \/ PopRaises(b) \/ Choose(b)
      PROVE  CacheInv'
  <2>1. PICK place \in Recording \union {"clear", "idle"} :
          /\ Still /\ pc[b] \in Recording \union {"post", "clear"}
          /\ pc' = [pc EXCEPT ![b] = place] /\ since' = since /\ water' = water
    <3>1. CASE PostAnswered(b) \/ PostRefused(b) \/ PostFails(b)
      BY <3>1 DEF PostAnswered, PostRefused, PostFails, Goto, cacheVars, bodyVars, Recording
    <3>2. CASE RecordFailure(b)
      BY <3>2 DEF RecordFailure, Goto, cacheVars, bodyVars, Recording
    <3>3. CASE PopRaises(b) \/ Choose(b)
      BY <3>3 DEF PopRaises, Choose, Goto, cacheVars, bodyVars, Recording
    <3>4. QED
      BY <1>6, <3>1, <3>2, <3>3
  <2>2. /\ since' \in [Bodies -> Nat] /\ \A c \in Bodies \ {b} : since'[c] = since[c]
        /\ DOMAIN water' = Bodies /\ \A c \in Bodies \ {b} : water'[c] = water[c]
        /\ place \in Places \ {"stamp", "age"} /\ pc[b] # "decide"
    BY <1>1, <2>1 DEF Places, Recording
  <2>3. QED
    BY <2>1, <2>2, ElsewhereKeepsCacheInv
<1>7. CASE Tick
  BY <1>7, TickKeepsCacheInv
<1>8. CASE ServiceTurns \/ UNCHANGED vars
  BY <1>8 DEF ServiceTurns, vars, cacheVars, bodyVars, CacheInv, AgeRightAtItsClock
<1>9. QED
  BY <1>2, <1>3, <1>4, <1>5, <1>6, <1>7, <1>8 DEF Next, BodyStep

LEMMA CacheKept == Spec => []CacheInv
  BY CacheInit_Inv, CacheStep, PTL DEF Spec

(* A cached reading is no older than is said of it, plus the time by which  *)
(* the clock of the run lies behind, and one that costs no confidence is    *)
(* younger than the grace time plus that: unless another request came       *)
(* between its look-ups (_serve_from_cache_if_fresh), for any number of     *)
(* bodies, any times and any clocks, the pinned ones of replays among them. *)
THEOREM AgesRightAtTheirClock == Spec => []AgeRightAtItsClock
<1>1. CacheInv => AgeRightAtItsClock
  BY DEF CacheInv
<1>2. QED
  BY <1>1, CacheKept, PTL

-----------------------------------------------------------------------------
(* The circuit breaker                                                      *)

Counting == {b \in Bodies : pc[b] \in {"test", "pop", "count"}}

(* When no body is counting and the failures of the last window, less those *)
(* dropped too early, are as many as the limit, then the circuit was opened *)
(* no earlier than the latest of them.                                      *)
OpenedInTime ==
  (Counting = {} /\ Len(recent) >= Limit + Len(lost))
    => openFor + recent[Len(recent)] >= OpenFor

CircuitInv ==
  /\ Mirrors(failures, recent, lost, Window)
  /\ openFor \in Nat
  /\ OpenedInTime

LEMMA CircuitNumbers ==
  ASSUME Mirrors(failures, recent, lost, Window)
  PROVE  /\ Len(failures) \in Nat /\ Len(recent) \in Nat /\ Len(lost) \in Nat
         /\ Len(recent) <= Len(failures) + Len(lost)
         /\ Limit \in Nat \ {0} /\ Window \in Nat \ {0} /\ OpenFor \in Nat /\ OpenFor >= Window
         /\ Len(recent) >= 1 => recent[Len(recent)] \in Nat /\ recent[Len(recent)] < Window
<1>1. Limit \in Nat \ {0} /\ Window \in Nat \ {0} /\ OpenFor \in Nat /\ OpenFor >= Window
  BY CircuitAssumption
<1>2. PICK x \in Nat, y \in Nat, z \in Nat, g \in Nat :
        Shape(failures, recent, lost, Window, x, y, z, g) /\ Gone(failures, recent, lost) = g
  BY <1>1, MirrorsMeans
<1>3. Len(failures) = x /\ Len(recent) = y /\ Len(lost) = z /\ x + z = g + y
  BY <1>2 DEF Shape
<1>4. y >= 1 => recent[y] \in Nat /\ recent[y] < Window
  BY <1>2 DEF Shape
<1>5. QED
  BY <1>1, <1>3, <1>4

(* The list is left alone, and nobody begins or ends counting.              *)
LEMMA UncountedKeepsCircuitInv ==
  ASSUME CacheInv, CircuitInv, UNCHANGED circuitVars, Counting' = Counting
  PROVE  CircuitInv'
  BY DEF CircuitInv, OpenedInTime, circuitVars

(* Somebody is counting.                                                    *)
LEMMA CountedKeepsCircuitInv ==
  ASSUME Mirrors(failures, recent, lost, Window)', openFor' = openFor, CircuitInv, Counting' # {}
  PROVE  CircuitInv'
  BY DEF CircuitInv, OpenedInTime

LEMMA RecordKeepsCircuitInv ==
  ASSUME CacheInv, CircuitInv, NEW b \in Bodies, RecordFailure(b)
  PROVE  CircuitInv'
<1>1. PICK f, r, l : f = failures /\ r = recent /\ l = lost
  OBVIOUS
<1>2. Window \in Nat \ {0} /\ Mirrors(f, r, l, Window) /\ pc \in [Bodies -> Places]
  BY <1>1, CircuitAssumption DEF CircuitInv, CacheInv
<1>3. CASE pc[b] = "append" /\ AppendFailure /\ Goto(b, "test")
  <2>1. failures' = Append(f, 0) /\ recent' = Append(r, 0) /\ lost' = l /\ openFor' = openFor
    BY <1>1, <1>3 DEF AppendFailure
  <2>2. Mirrors(Append(f, 0), Append(r, 0), l, Window)
    BY <1>2, MirrorsAppend
  <2>3. Mirrors(failures, recent, lost, Window)'
    BY <2>1, <2>2
  <2>4. b \in Counting'
    BY <1>2, <1>3 DEF Counting, Goto
  <2>5. QED
    BY <2>1, <2>3, <2>4, CountedKeepsCircuitInv
<1>4. CASE pc[b] = "test" /\ UNCHANGED circuitVars /\ (Goto(b, "pop") \/ Goto(b, "count"))
  <2>1. Counting' = Counting
    BY <1>2, <1>4 DEF Counting, Goto
  <2>2. QED
    BY <1>4, <2>1, UncountedKeepsCircuitInv
<1>5. CASE pc[b] = "pop" /\ DropHead /\ Goto(b, "test")
  <2>1. /\ f # <<>> /\ failures' = Tail(f) /\ recent' = r /\ openFor' = openFor
        /\ lost' = IF Head(f) < Window THEN Append(l, Head(f)) ELSE l
    BY <1>1, <1>5 DEF DropHead
  <2>2. PICK k : k = IF Head(f) < Window THEN Append(l, Head(f)) ELSE l
    OBVIOUS
  <2>3. Mirrors(Tail(f), r, k, Window)
    BY <1>2, <2>1, <2>2, MirrorsDrop
  <2>4. Mirrors(failures, recent, lost, Window)'
    BY <2>1, <2>2, <2>3
  <2>5. b \in Counting'
    BY <1>2, <1>5 DEF Counting, Goto
  <2>6. QED
    BY <2>1, <2>4, <2>5, CountedKeepsCircuitInv
<1>6. CASE pc[b] = "count" /\ CountFailures /\ Goto(b, "idle")
  <2>1. /\ UNCHANGED <<failures, recent, lost>>
        /\ openFor' = IF TooMany THEN OpenFor ELSE openFor
    BY <1>6 DEF CountFailures
  <2>2. openFor' \in Nat
    BY <2>1, CircuitAssumption DEF CircuitInv
  <2>3. OpenedInTime'
    <3>1. SUFFICES ASSUME Len(recent) >= Limit + Len(lost)
                   PROVE  openFor' + recent[Len(recent)] >= OpenFor
      BY <2>1 DEF OpenedInTime
    <3>2. /\ Len(failures) \in Nat /\ Len(recent) \in Nat /\ Len(lost) \in Nat /\ Limit \in Nat \ {0}
          /\ OpenFor \in Nat /\ Len(recent) <= Len(failures) + Len(lost)
      BY CircuitNumbers DEF CircuitInv
    <3>3. TooMany /\ Len(recent) >= 1
      BY <3>1, <3>2 DEF TooMany
    <3>4. recent[Len(recent)] \in Nat
      BY <3>3, CircuitNumbers DEF CircuitInv
    <3>5. QED
      BY <2>1, <3>2, <3>3, <3>4
  <2>4. QED
    BY <2>1, <2>2, <2>3 DEF CircuitInv
<1>7. QED
  BY <1>3, <1>4, <1>5, <1>6 DEF RecordFailure

LEMMA RaiseKeepsCircuitInv ==
  ASSUME CacheInv, CircuitInv, NEW b \in Bodies, PopRaises(b)
  PROVE  CircuitInv'
<1>1. failures = <<>> /\ UNCHANGED <<failures, openFor, recent, lost>>
  BY DEF PopRaises, circuitVars
<1>2. Len(failures) = 0
  BY <1>1
<1>3. Len(recent) \in Nat /\ Len(lost) \in Nat /\ Len(recent) <= 0 + Len(lost) /\ Limit \in Nat \ {0}
  BY <1>2, CircuitNumbers DEF CircuitInv
<1>4. ~(Len(recent) >= Limit + Len(lost))
  BY <1>3
<1>5. QED
  BY <1>1, <1>4 DEF CircuitInv, OpenedInTime

LEMMA EmptyCircuitInv ==
  ASSUME failures = <<>>, recent = <<>>, lost = <<>>, openFor \in Nat
  PROVE  CircuitInv
<1>1. Len(<<>>) = 0 /\ <<>> \in Seq(Nat)
  OBVIOUS
<1>2. Shape(failures, recent, lost, Window, 0, 0, 0, 0) /\ Sorted(recent)
  BY <1>1 DEF Shape, Sorted
<1>3. Mirrors(failures, recent, lost, Window)
  <2>1. Window \in Nat /\ 0 \in Nat
    BY CircuitAssumption
  <2>2. QED
    BY <1>2, <2>1, MirrorsIf
<1>4. OpenedInTime
  BY <1>1, CircuitAssumption DEF OpenedInTime
<1>5. QED
  BY <1>3, <1>4 DEF CircuitInv

LEMMA TickKeepsCircuitInv ==
  ASSUME CacheInv, CircuitInv, Tick
  PROVE  CircuitInv'
<1>1. PICK f, r, l : f = failures /\ r = recent /\ l = lost
  OBVIOUS
<1>2. PICK d, k : d = Recall(r, Window) /\ k = Recall(l, Window)
  OBVIOUS
<1>3. /\ failures' = Aged(f, Window + 1) /\ recent' = d /\ lost' = k
      /\ openFor' = IF openFor = 0 THEN 0 ELSE openFor - 1
  BY <1>1, <1>2 DEF Tick, CircuitTick, StampsTick
<1>4. Window \in Nat /\ Window + 1 \in Nat /\ Window <= Window + 1 /\ Mirrors(f, r, l, Window)
  BY <1>1, CircuitAssumption DEF CircuitInv
<1>5. Mirrors(Aged(f, Window + 1), d, k, Window) /\ Len(d) + Len(l) <= Len(r) + Len(k)
  BY <1>2, <1>4, MirrorsTick
<1>6. Mirrors(failures, recent, lost, Window)'
  BY <1>3, <1>5
<1>7. openFor \in Nat /\ openFor' \in Nat /\ openFor' + 1 >= openFor
  BY <1>3 DEF CircuitInv
<1>8. Counting = {} /\ Counting' = {}
  BY DEF Tick, Counting, Instant, Recording
<1>9. OpenedInTime'
  <2>1. SUFFICES ASSUME Len(d) >= Limit + Len(k) PROVE openFor' + d[Len(d)] >= OpenFor
    BY <1>3 DEF OpenedInTime
  <2>2. PICK x \in Nat, y \in Nat, z \in Nat, w \in Nat :
          /\ x = Len(r) /\ y = Len(l) /\ z = Len(d) /\ w = Len(k)
          /\ Limit \in Nat \ {0} /\ OpenFor \in Nat
    BY <1>4, <1>5, LenProperties, CircuitAssumption DEF Mirrors
  <2>3. z >= 1 /\ x >= 1 /\ x >= Limit + y
    BY <1>5, <2>1, <2>2
  <2>4. openFor + r[x] >= OpenFor /\ r[x] \in Nat
    <3>1. openFor + r[x] >= OpenFor
      BY <1>1, <1>8, <2>2, <2>3 DEF CircuitInv, OpenedInTime
    <3>2. r \in Seq(Nat) /\ x \in 1..Len(r)
      BY <1>4, <2>2, <2>3 DEF Mirrors
    <3>3. QED
      BY <3>1, <3>2, ElementOfSeq
  <2>5. d[z] = r[x] + 1
    <3>1. r \in Seq(Nat) /\ Sorted(r)
      BY <1>4 DEF Mirrors
    <3>2. PICK m \in Nat : Forgets(r, d, Window, m)
      BY <1>2, <1>4, <3>1, RecallForgets
    <3>3. m \in 0..x /\ z = x - m /\ \A i \in 1..z : d[i] = r[m + i] + 1
      BY <2>2, <3>2 DEF Forgets
    <3>4. z \in 1..z /\ m + z = x
      BY <2>3, <3>3
    <3>5. QED
      BY <3>3, <3>4
  <2>6. openFor' + (r[x] + 1) >= OpenFor
    <3>1. PICK p \in Nat, q \in Nat, e \in Nat : p = openFor /\ q = openFor' /\ e = r[x]
      BY <1>7, <2>4
    <3>2. q + 1 >= p /\ p + e >= OpenFor
      BY <1>7, <2>4, <3>1
    <3>3. q + (e + 1) >= OpenFor
      BY <2>2, <3>2
    <3>4. QED
      BY <3>1, <3>3
  <2>7. QED
    BY <2>2, <2>5, <2>6
<1>10. QED
  BY <1>6, <1>7, <1>9 DEF CircuitInv

LEMMA CircuitStep == CacheInv /\ CircuitInv /\ [Next]_vars => CircuitInv'
<1> SUFFICES ASSUME CacheInv, CircuitInv, [Next]_vars PROVE CircuitInv'
  OBVIOUS
<1>0. pc \in [Bodies -> Places]
  BY DEF CacheInv
<1>1. ASSUME NEW b \in Bodies, Begin(b) \/ Skip(b) \/ Ask(b) PROVE CircuitInv'
  <2>1. Counting' = Counting
    BY <1>0, <1>1 DEF Counting, Begin, Skip, Ask, Goto
  <2>2. UNCHANGED circuitVars
    BY <1>1 DEF Begin, Skip, Ask
  <2>3. QED
    BY <2>1, <2>2, UncountedKeepsCircuitInv
<1>2. ASSUME NEW b \in Bodies,
             FetchEnds(b) \/ Store(b) \/ Stamp(b) \/ LookUp(b) \/ Serve(b)
      PROVE  CircuitInv'
  <2>1. Counting' = Counting
    BY <1>0, <1>2 DEF Counting, FetchEnds, Store, Stamp, LookUp, Serve, Goto
  <2>2. UNCHANGED circuitVars
    BY <1>2 DEF FetchEnds, Store, Stamp, LookUp, Serve
  <2>3. QED
    BY <2>1, <2>2, UncountedKeepsCircuitInv
<1>3. ASSUME NEW b \in Bodies, PostAnswered(b) \/ PostRefused(b) \/ PostFails(b)
      PROVE  CircuitInv'
  <2>1. Counting' = Counting
    BY <1>0, <1>3 DEF Counting, PostAnswered, PostRefused, PostFails, Goto
  <2>2. UNCHANGED circuitVars
    BY <1>3 DEF PostAnswered, PostRefused, PostFails
  <2>3. QED
    BY <2>1, <2>2, UncountedKeepsCircuitInv
<1>4. ASSUME NEW b \in Bodies, RecordFailure(b) \/ PopRaises(b) PROVE CircuitInv'
  BY <1>4, RecordKeepsCircuitInv, RaiseKeepsCircuitInv
<1>5. ASSUME NEW b \in Bodies, Choose(b) PROVE CircuitInv'
  <2>1. (failures = <<>> /\ recent = <<>> /\ lost = <<>> /\ openFor \in Nat)'
    BY <1>5 DEF Choose, ClearFailures, CircuitInv
  <2>2. QED
    BY <2>1, EmptyCircuitInv, PTL
<1>6. CASE Tick
  BY <1>6, TickKeepsCircuitInv
<1>7. CASE ServiceTurns \/ UNCHANGED vars
  <2>1. UNCHANGED circuitVars /\ Counting' = Counting
    BY <1>7 DEF ServiceTurns, vars, circuitVars, Counting
  <2>2. QED
    BY <2>1, UncountedKeepsCircuitInv
<1>8. QED
  BY <1>1, <1>2, <1>3, <1>4, <1>5, <1>6, <1>7 DEF Next, BodyStep

LEMMA CircuitKept == Spec => []CircuitInv
<1>1. Init => CircuitInv
  BY EmptyCircuitInv DEF Init, CircuitInit
<1>2. QED
  BY <1>1, CircuitStep, CacheKept, PTL DEF Spec

(* A closed circuit means fewer failures than the limit in the last window  *)
(* since the last success, less those that racing bodies dropped too early  *)
(* (_record_route_failure): the circuit cannot have closed sooner, for it   *)
(* stays open for no less than the window.                                  *)
THEOREM ClosedCircuitMeansFewFailures == Spec => []ClosedMeansFewFailures
<1>1. CircuitInv => ClosedMeansFewFailures
  <2>1. SUFFICES ASSUME CircuitInv, ~CircuitOpen, \A b \in Bodies : pc[b] \notin Recording,
                        Len(recent) >= Limit + Len(lost)
                 PROVE  FALSE
    <3>1. CircuitInv => Len(recent) \in Nat /\ Len(lost) \in Nat /\ Limit \in Nat
      BY CircuitNumbers DEF CircuitInv
    <3>2. CircuitInv /\ ~(Len(recent) < Limit + Len(lost)) => Len(recent) >= Limit + Len(lost)
      BY <3>1
    <3>3. QED
      BY <3>2 DEF ClosedMeansFewFailures
  <2>2. Counting = {}
    BY <2>1 DEF Counting, Recording
  <2>3. openFor = 0
    BY <2>1 DEF CircuitOpen, CircuitInv
  <2>4. openFor + recent[Len(recent)] >= OpenFor
    BY <2>1, <2>2 DEF CircuitInv, OpenedInTime
  <2>5. /\ Len(recent) \in Nat /\ Len(lost) \in Nat /\ Limit \in Nat \ {0} /\ Window \in Nat
        /\ OpenFor \in Nat /\ OpenFor >= Window
        /\ Len(recent) >= 1 => recent[Len(recent)] \in Nat /\ recent[Len(recent)] < Window
    BY <2>1, CircuitNumbers DEF CircuitInv
  <2>6. Len(recent) >= 1
    BY <2>1, <2>5
  <2>7. QED
    BY <2>3, <2>4, <2>5, <2>6
<1>2. QED
  BY <1>1, CircuitKept, PTL

-----------------------------------------------------------------------------
(* The choice among routes                                                  *)

LEMMA MostExists ==
  ASSUME NEW S, IsFiniteSet(S), S # {}, NEW f \in [S -> Int]
  PROVE  \E i \in S : \A j \in S : f[i] >= f[j]
<1> DEFINE Above(d) == {q \in S : f[q] > f[d]}
           T == {Above(d) : d \in S}
<1>1. T \subseteq FiniteSubsetsOf(S)
  BY FS_Subset DEF FiniteSubsetsOf
<1>2. T # {}
  <2>1. PICK d \in S : TRUE
    OBVIOUS
  <2>2. Above(d) \in T
    BY <2>1
  <2>3. QED
    BY <2>2
<1> HIDE DEF T
<1>3. PICK x \in T : \A y \in T : <<y, x>> \notin StrictSubsetOrdering(S)
  BY <1>1, <1>2, FS_StrictSubsetOrderingWellFounded, WFMin
<1> USE DEF T
<1>4. PICK d \in S : x = Above(d)
  OBVIOUS
<1>5. ASSUME NEW q \in S, f[q] > f[d]
      PROVE  FALSE
  <2>1. Above(q) \subseteq Above(d)
    BY <1>5
  <2>2. q \in Above(d) /\ q \notin Above(q)
    BY <1>5
  <2>3. Above(q) \in SUBSET S /\ Above(d) \in SUBSET S
    OBVIOUS
  <2>4. <<Above(q), Above(d)>> \in StrictSubsetOrdering(S)
    BY <2>1, <2>2, <2>3 DEF StrictSubsetOrdering
  <2>5. QED
    BY <1>3, <1>4, <2>4
<1>6. QED
  BY <1>5

LEMMA OfferMeans ==
  ASSUME NEW o \in PossibleOffers
  PROVE  /\ \E n \in Nat \ {0} : DOMAIN o.routes = 1..n
         /\ \A i \in DOMAIN o.routes : o.routes[i] \in Routes
         /\ o.trust \in Nat /\ o.penalty \in Nat
<1>1. o.routes \in Seq(Routes) /\ o.routes # <<>> /\ o.trust \in 0..100 /\ o.penalty \in 0..100
  BY DEF PossibleOffers
<1>2. Len(o.routes) \in Nat \ {0} /\ DOMAIN o.routes = 1..Len(o.routes)
  BY <1>1, LenProperties, EmptySeq
<1>3. ASSUME NEW i \in DOMAIN o.routes PROVE o.routes[i] \in Routes
  BY <1>1, <1>2, ElementOfSeq
<1>4. \E n \in Nat \ {0} : DOMAIN o.routes = 1..n
  BY <1>2
<1>5. o.trust \in Nat /\ o.penalty \in Nat
  <2>1. o.trust \in 0..100 /\ o.penalty \in 0..100
    BY DEF PossibleOffers
  <2>2. 0..100 \subseteq Nat
    OBVIOUS
  <2>3. QED
    BY <2>1, <2>2
<1>6. QED
  BY <1>3, <1>4, <1>5

LEMMA BestIsOneOfThem ==
  ASSUME NEW o \in PossibleOffers, NEW left \in SUBSET (DOMAIN o.routes), left # {}
  PROVE  BestOf(o, left) \in left
<1>1. PICK n \in Nat \ {0} : DOMAIN o.routes = 1..n
  BY OfferMeans
<1>2. IsFiniteSet(left) /\ \A i \in left : i \in Nat
  <2>1. IsFiniteSet(1..n)
    BY FS_Interval
  <2>2. left \subseteq 1..n
    BY <1>1
  <2>3. IsFiniteSet(left)
    BY <2>1, <2>2, FS_Subset
  <2>4. QED
    BY <2>2, <2>3
<1>3. \A i \in left : o.routes[i] \in Routes /\ o.routes[i].duration \in Nat
  BY OfferMeans DEF Routes
<1>4. PICK a : a = Longest(o, left)
  OBVIOUS
<1>5. PICK b : b = Shortest(o, left)
  OBVIOUS
<1>6. a \in left
  <2> DEFINE f == [i \in left |-> o.routes[i].duration]
  <2>1. f \in [left -> Int]
    BY <1>3
  <2>2. \E i \in left : \A j \in left : f[i] >= f[j]
    BY <1>2, <2>1, MostExists
  <2>3. \E i \in left : \A j \in left : o.routes[i].duration >= o.routes[j].duration
    BY <2>2
  <2>4. QED
    BY <1>4, <2>3 DEF Longest
<1>7. b \in left
  <2> DEFINE f == [i \in left |-> 0 - o.routes[i].duration]
  <2>1. f \in [left -> Int]
    BY <1>3
  <2>2. PICK i \in left : \A j \in left : f[i] >= f[j]
    BY <1>2, <2>1, MostExists
  <2>3. \A j \in left : o.routes[i].duration <= o.routes[j].duration
    BY <1>3, <2>2
  <2>4. QED
    BY <1>5, <2>3 DEF Shortest
<1>8. ASSUME NEW i \in left PROVE Combined(o, left, i) \in Int
  <2>1. SafetyPoints(o.routes[i], o.zones) \in Int
    BY <1>3 DEF SafetyPoints, Points, Routes
  <2>2. Effective(o, i) \in Int
    BY <2>1, OfferMeans DEF Effective
  <2>3. PICK e \in Int : e = Effective(o, i)
    BY <2>2
  <2>4. PICK l \in Int, m \in Int, d \in Int :
          l = o.routes[a].duration /\ m = o.routes[b].duration /\ d = o.routes[i].duration
    BY <1>3, <1>6, <1>7
  <2>5. PICK unit \in Int : unit = IF l - m = 0 THEN 1 ELSE l - m
    BY <2>4
  <2>6. Combined(o, left, i) = 60 * e * unit + 25 * (l - d) * FullSafety
    BY <1>4, <1>5, <2>3, <2>4, <2>5 DEF Combined
  <2>7. e * unit \in Int /\ 60 * e * unit \in Int /\ 25 * (l - d) * FullSafety \in Int
    BY DEF FullSafety, Points
  <2>8. QED
    BY <2>6, <2>7
<1> DEFINE score == [i \in left |-> Combined(o, left, i)]
           best == {i \in left : \A j \in left : score[i] >= score[j]}
<1>9. score \in [left -> Int]
  BY <1>8
<1>10. BestOf(o, left) = CHOOSE i \in best : \A j \in best : i <= j
  BY DEF BestOf
<1> HIDE DEF score
<1>11. best # {} /\ best \subseteq left
  BY <1>2, <1>9, MostExists
<1> HIDE DEF best
<1>12. IsFiniteSet(best) /\ \A i \in best : i \in Nat
  BY <1>2, <1>11, FS_Subset
<1>13. \E i \in best : \A j \in best : i <= j
  <2> DEFINE f == [i \in best |-> 0 - i]
  <2>1. f \in [best -> Int]
    BY <1>12
  <2>2. PICK i \in best : \A j \in best : f[i] >= f[j]
    BY <1>11, <1>12, <2>1, MostExists
  <2>3. \A j \in best : i <= j
    BY <1>12, <2>2
  <2>4. QED
    BY <2>3
<1>14. QED
  BY <1>10, <1>11, <1>13

(* The two thresholds fit: a route that passes the filter has no more than  *)
(* a twentieth of its points in high zones, and the other way round.        *)
LEMMA CleanMeansNotThrough ==
  ASSUME NEW route \in Routes, route.known
  PROVE  Clean(route) <=> ~ThroughHigh(route)
<1>1. PICK h \in 0..20 : h = route.high
  BY DEF Routes, Points
<1>2. SafetyPoints(route, {"high"}) = IF 2 * h + 0 > 20 THEN 0 ELSE 20 - (2 * h + 0)
  BY <1>1 DEF SafetyPoints, Points
<1>3. ThroughHigh(route) <=> 20 * h > 20
  BY <1>1 DEF ThroughHigh, Points
<1>4. Clean(route) <=> SafetyPoints(route, {"high"}) * 100 >= 1800
  BY DEF Clean, Points
<1>5. QED
  BY <1>1, <1>2, <1>3, <1>4

(* What DangerKeepsOutOfHighZones asks of an answer.                        *)
KeepsOut(a) ==
  (a.constrained /\ a.kind = "route" /\ a.throughHigh) => a.flagged /\ ~a.avoidable

LEMMA RecommendationKeepsOut ==
  ASSUME NEW o \in PossibleOffers
  PROVE  KeepsOut(Recommendation(o))
<1> DEFINE left == Filtered(o)
           best == BestOf(o, left)
<1>1. DOMAIN o.routes # {} /\ \A i \in DOMAIN o.routes : o.routes[i] \in Routes
  <2>1. PICK n \in Nat \ {0} : DOMAIN o.routes = 1..n
    BY OfferMeans
  <2>2. 1 \in DOMAIN o.routes
    BY <2>1
  <2>3. QED
    BY <2>2, OfferMeans
<1>2. left # {} /\ left \in SUBSET (DOMAIN o.routes)
  BY <1>1 DEF Filtered, CleanOnes
<1> HIDE DEF left
<1>3. best \in left
  BY <1>2, BestIsOneOfThem
<1>4. CASE NoneSafe(o, left)
  BY <1>4 DEF Recommendation, KeepsOut, left
<1>5. CASE ~NoneSafe(o, left)
  <2>1. /\ Recommendation(o).constrained = Constrained(o)
        /\ Recommendation(o).flagged = Flagged(o)
        /\ Recommendation(o).throughHigh = ThroughHigh(o.routes[best])
        /\ Recommendation(o).avoidable
             = \E i \in DOMAIN o.routes : o.routes[i].known /\ ~ThroughHigh(o.routes[i])
    BY <1>5 DEF Recommendation, left
  <2>2. ASSUME Constrained(o), ThroughHigh(o.routes[best])
        PROVE  CleanOnes(o) = {}
    <3>1. o.routes[best] \in Routes /\ o.routes[best].known
      BY <1>1, <1>2, <1>3, <2>2 DEF ThroughHigh
    <3>2. ~Clean(o.routes[best])
      BY <2>2, <3>1, CleanMeansNotThrough
    <3>3. QED
      BY <1>3, <2>2, <3>2 DEF left, Filtered, CleanOnes
  <2>3. ASSUME CleanOnes(o) = {}, NEW i \in DOMAIN o.routes, o.routes[i].known
        PROVE  ThroughHigh(o.routes[i])
    BY <1>1, <2>3, CleanMeansNotThrough DEF CleanOnes
  <2>4. QED
    BY <2>1, <2>2, <2>3 DEF KeepsOut, Flagged
<1>6. QED
  BY <1>4, <1>5

(* Under DANGER with high zones a recommended route leads through them only *)
(* with the warning attached and when every route of known course does:     *)
(* what the weighted sum picks is one of the routes the filter left, for    *)
(* any routes, trust and penalty (_filter_danger_routes, select_best_route).*)
THEOREM DangerKeepsOut == Spec => []DangerKeepsOutOfHighZones
<1> DEFINE AnswerInv == answer = NoAnswer \/ answer \in Answers
<1>1. Init => AnswerInv
  BY DEF Init
<1>2. AnswerInv /\ [Next]_vars => AnswerInv'
  <2> SUFFICES ASSUME AnswerInv, [Next]_vars PROVE AnswerInv'
    OBVIOUS
  <2>1. ASSUME NEW b \in Bodies, Begin(b) \/ Skip(b) \/ Ask(b) PROVE answer' = NoAnswer
    BY <2>1 DEF Begin, Skip, Ask
  <2>2. ASSUME NEW b \in Bodies, Choose(b) PROVE answer' \in Answers
    BY <2>2 DEF Choose
  <2>3. ASSUME NEW b \in Bodies,
               \/ FetchEnds(b) \/ Store(b) \/ Stamp(b) \/ LookUp(b) \/ Serve(b)
               \/ PostAnswered(b) \/ PostRefused(b) \/ PostFails(b)
               \/ RecordFailure(b) \/ PopRaises(b)
        PROVE  answer' = answer
    BY <2>3 DEF FetchEnds, Store, Stamp, LookUp, Serve, PostAnswered, PostRefused, PostFails,
                RecordFailure, PopRaises, bodyVars
  <2>4. Tick => answer' = NoAnswer
    BY DEF Tick
  <2>5. ServiceTurns \/ UNCHANGED vars => answer' = answer
    BY DEF ServiceTurns, vars, bodyVars
  <2>6. AnswerInv' <=> (answer' = NoAnswer \/ answer' \in Answers)
    BY DEF Answers
  <2>7. QED
    BY <2>1, <2>2, <2>3, <2>4, <2>5, <2>6 DEF Next, BodyStep
<1>3. AnswerInv => DangerKeepsOutOfHighZones
  <2> SUFFICES ASSUME answer \in Answers PROVE KeepsOut(answer)
    BY DEF DangerKeepsOutOfHighZones, KeepsOut
  <2>1. PICK o \in PossibleOffers : answer = Recommendation(o)
    BY OfferAssumption DEF Answers
  <2>2. QED
    BY <2>1, RecommendationKeepsOut
<1>4. QED
  BY <1>1, <1>2, <1>3, PTL DEF Spec
=============================================================================
