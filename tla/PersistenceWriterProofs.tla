------------------------ MODULE PersistenceWriterProofs -----------------------
(***************************************************************************)
(* The writer and the pool, for any number of writers, connections, pools, *)
(* attempts and outages: what a writer reports agrees with the database,   *)
(* no connection is shared, and every connection comes back.               *)
(*                                                                         *)
(* Ledger follows what each writer has stored through its attempts.        *)
(* Borrowed says who holds a connection, Apart that nobody else has it     *)
(* (the part that needs most: a connection the client believes closed is   *)
(* nowhere else, so that opening it lends it to one writer only), and      *)
(* Books that an open pool knows what it has lent.  Surviving counts what  *)
(* a writer that nothing disturbs has left: its attempts, against the      *)
(* connections on the shelf that an earlier outage has cut.                *)
(***************************************************************************)
EXTENDS PersistenceWriter, FiniteSetTheorems, SequenceTheorems, TLAPS

Holding == {"write", "rollback", "release"}

Types ==
  /\ PoolTypeOK
  /\ pc \in [Writers -> {"new", "init", "ref", "getconn", "write", "rollback", "release", "done"}]
  /\ attempt \in [Writers -> 0..MaxAttempts]
  /\ ref \in [Writers -> Pools \union {None}]
  /\ held \in [Writers -> Conns \union {NoConn}]
  /\ step \in [Writers -> 0..Statements]
  /\ pending \in [Writers -> {"none", "returned", "retry", "DatabaseError", "raised"}]
  /\ outcome \in [Writers -> {"none", "returned", "DatabaseError", "PoolError",
                              "AttributeError", "raised"}]
  /\ stored \in [Writers -> Nat]
  /\ lost \subseteq Writers /\ undisturbed \subseteq Writers

(* Who holds a connection, and of which pool.                               *)
Borrowed ==
  /\ \A w \in Writers : held[w] # NoConn <=> pc[w] \in Holding
  /\ \A w \in Writers : pc[w] \in Holding \union {"getconn"} => ref[w] \in 1..made
  /\ \A w \in Writers : ref[w] \in 0..made
  /\ current \in 0..made

(* Every attempt stores once at most, and only a lost acknowledgement       *)
(* makes another attempt of one that has stored.                            *)
LedgerOf(w) ==
  /\ pc[w] = "new" => stored[w] = 0
  /\ stored[w] <= attempt[w]
  /\ pc[w] \in {"init", "ref", "getconn", "write"} => stored[w] < attempt[w]
  /\ stored[w] > 1 => w \in lost
  /\ pc[w] \in {"rollback", "release"} => pending[w] # "none"
  /\ pc[w] = "rollback" => pending[w] # "returned"
  /\ pc[w] = "release" /\ pending[w] = "returned" => stored[w] >= 1
  /\ pc[w] = "done" /\ outcome[w] = "returned" => stored[w] >= 1
  /\ stored[w] >= 1 =>
       \/ w \in lost
       \/ pc[w] = "release" /\ pending[w] = "returned"
       \/ pc[w] = "done" /\ (outcome[w] = "returned" \/ ref[w] \in shut)
Ledger == \A w \in Writers : LedgerOf(w)

Injective(s) == \A i, j \in DOMAIN s : s[i] = s[j] => i = j

Shelf(s) == {s[i] : i \in DOMAIN s}

(* A connection is in one place: h says what each writer holds, S what is   *)
(* on the shelf of each pool, l what the client believes of a connection.   *)
Placed(h, S, l) ==
  /\ \A v, w \in Writers : v # w /\ h[v] # NoConn => h[v] # h[w]
  /\ \A p \in Pools, w \in Writers : h[w] \notin S[p]
  /\ \A p, q \in Pools : \A c \in S[p] : p # q => c \notin S[q]
  /\ \A c \in Conns : l[c] = "closed" =>
       (\A p \in Pools : c \notin S[p]) /\ (\A w \in Writers : h[w] # c)
Shelves == [p \in Pools |-> Shelf(idle[p])]
Apart == Placed(held, Shelves, link) /\ \A p \in Pools : Injective(idle[p])

Lent(h, r, p) == {h[w] : w \in {v \in Writers : h[v] # NoConn /\ r[v] = p}}

(* What an open pool knows.                                                 *)
Balanced(p) ==
  /\ used[p] = Lent(held, ref, p)
  /\ Len(idle[p]) <= MinConn
  /\ Len(idle[p]) + Cardinality(used[p]) <= MaxConn
Books ==
  /\ current \notin shut
  /\ \A p \in Pools : p > made => used[p] = {} /\ p \notin shut
  /\ \A p \in Pools \ shut : Balanced(p)

-----------------------------------------------------------------------------
(* The shelf                                                                *)

LEMMA ShelfOfPopped ==
  ASSUME NEW s \in Seq(Conns), s # <<>>, Injective(s),
         NEW c, c = s[Len(s)],
         NEW t, t = SubSeq(s, 1, Len(s) - 1)
  PROVE  /\ t \in Seq(Conns) /\ Len(t) = Len(s) - 1
         /\ Injective(t)
         /\ c \in Shelf(s) /\ Shelf(t) = Shelf(s) \ {c}
<1>1. PICK n \in Nat \ {0} : n = Len(s) /\ DOMAIN s = 1..n /\ c = s[n]
  BY EmptySeq, LenProperties
<1>2. t \in Seq(Conns) /\ Len(t) = n - 1 /\ DOMAIN t = 1..(n - 1)
  BY <1>1, SubSeqProperties, LenProperties
<1>3. \A i \in 1..(n - 1) : t[i] = s[i]
  BY <1>1, SubSeqProperties
<1>4. Injective(t)
  BY <1>1, <1>2, <1>3 DEF Injective
<1>5. \A i \in 1..n : s[i] = s[n] => i = n
  BY <1>1 DEF Injective
<1>6. n \in 1..n /\ \A i \in 1..n : i \in 1..(n - 1) \/ i = n
  BY <1>1
<1>7. \A i \in 1..(n - 1) : i \in 1..n /\ i # n
  BY <1>1
<1>8. ASSUME NEW x PROVE x \in {t[i] : i \in 1..(n - 1)} <=> x \in {s[i] : i \in 1..n} \ {s[n]}
  <2>1. ASSUME x \in {t[i] : i \in 1..(n - 1)} PROVE x \in {s[i] : i \in 1..n} \ {s[n]}
    BY <2>1, <1>3, <1>5, <1>7, Zenon
  <2>2. ASSUME x \in {s[i] : i \in 1..n} \ {s[n]} PROVE x \in {t[i] : i \in 1..(n - 1)}
    BY <2>2, <1>3, <1>6, Zenon
  <2>3. QED
    BY <2>1, <2>2
<1>9. c \in {s[i] : i \in DOMAIN s}
  BY <1>1, <1>6, Zenon
<1>10. {t[i] : i \in DOMAIN t} = {s[i] : i \in DOMAIN s} \ {c}
  BY <1>1, <1>2, <1>8, Zenon
<1>11. QED
  BY <1>1, <1>2, <1>4, <1>9, <1>10 DEF Shelf

LEMMA ShelfOfPushed ==
  ASSUME NEW s \in Seq(Conns), Injective(s), NEW c \in Conns,
         c \notin Shelf(s),
         NEW t, t = Append(s, c)
  PROVE  /\ t \in Seq(Conns) /\ Len(t) = Len(s) + 1
         /\ Injective(t)
         /\ Shelf(t) = Shelf(s) \union {c}
<1>1. Len(s) \in Nat /\ DOMAIN s = 1..Len(s)
  BY LenProperties
<1>2. /\ t \in Seq(Conns) /\ Len(t) = Len(s) + 1 /\ DOMAIN t = 1..(Len(s) + 1)
      /\ \A i \in 1..Len(s) : t[i] = s[i]
      /\ t[Len(s) + 1] = c
  BY <1>1, AppendProperties, LenProperties
<1>3. QED
  BY <1>1, <1>2 DEF Injective, Shelf

LEMMA ShelfSize ==
  ASSUME NEW s \in Seq(Conns), Injective(s)
  PROVE  IsFiniteSet(Shelf(s)) /\ Cardinality(Shelf(s)) = Len(s)
<1>1. Len(s) \in Nat /\ DOMAIN s = 1..Len(s) /\ s \in [1..Len(s) -> Conns]
  BY LenProperties
<1>2. s \in Bijection(1..Len(s), Shelf(s))
  BY <1>1 DEF Shelf, Injective, IsInjective, Bijection, Injection, Surjection
<1>3. ExistsBijection(1..Len(s), Shelf(s))
  BY <1>2 DEF ExistsBijection
<1>4. IsFiniteSet(1..Len(s)) /\ Cardinality(1..Len(s)) = Len(s)
  BY <1>1, FS_Interval, SMTT(30)
<1>5. QED
  BY <1>3, <1>4, FS_Bijection

LEMMA LentIsFinite ==
  ASSUME Types, NEW p \in Pools
  PROVE  IsFiniteSet(used[p]) /\ Cardinality(used[p]) \in Nat
<1>1. used[p] \in SUBSET Conns
  BY DEF Types, PoolTypeOK
<1>2. QED
  BY <1>1, ConnsAssumption, FS_Subset, FS_CardinalityType

-----------------------------------------------------------------------------
(* Types                                                                    *)

LEMMA CreatePoolTypes ==
  ASSUME Types, CreatePool
  PROVE  PoolTypeOK'
<1> USE DEF Types, PoolTypeOK
<1>1. PICK first \in [1..MinConn -> Unopened] :
        idle' = [idle EXCEPT ![made + 1] = first]
  BY DEF CreatePool
<1>2. first \in Seq(Conns)
  BY <1>1, PoolSizeAssumption, IsASeq DEF Unopened
<1>3. made + 1 \in Pools
  BY PoolSizeAssumption DEF CreatePool, Pools
<1>4. link' \in [Conns -> {"closed", "live", "stale", "broken"}]
  BY DEF CreatePool
<1>5. QED
  BY <1>1, <1>2, <1>3, <1>4, PoolSizeAssumption DEF CreatePool, Pools

LEMMA PoolTypesKept ==
  ASSUME Types, NEW p \in Pools, NEW c \in Conns,
         TakeIdle(p, c) \/ OpenNew(p, c) \/ PutConn(p, c)
  PROVE  PoolTypeOK'
<1> USE DEF Types, PoolTypeOK
<1>1. CASE TakeIdle(p, c)
  <2>1. Len(idle[p]) \in Nat \ {0}
    BY <1>1, EmptySeq DEF TakeIdle
  <2>2. SubSeq(idle[p], 1, Len(idle[p]) - 1) \in Seq(Conns)
    BY <2>1, LenProperties, SubSeqProperties
  <2>3. QED
    BY <1>1, <2>2 DEF TakeIdle
<1>2. CASE OpenNew(p, c)
  BY <1>2 DEF OpenNew
<1>3. CASE PutConn(p, c)
  <2>1. Append(idle[p], c) \in Seq(Conns)
    BY AppendProperties
  <2>2. QED
    BY <1>3, <2>1 DEF PutConn
<1>4. QED
  BY <1>1, <1>2, <1>3

LEMMA AttemptTypesKept ==
  ASSUME Types, NEW w \in Writers,
         \/ FailAttempt(w)
         \/ \E e \in {"returned", "DatabaseError", "PoolError", "AttributeError", "raised"} :
              Escape(w, e)
  PROVE  /\ pc' \in [Writers -> {"new", "init", "ref", "getconn", "write", "rollback",
                                 "release", "done"}]
         /\ attempt' \in [Writers -> 0..MaxAttempts]
         /\ outcome' \in [Writers -> {"none", "returned", "DatabaseError", "PoolError",
                                      "AttributeError", "raised"}]
<1>1. CASE FailAttempt(w)
  BY <1>1, WriterAssumption DEF Types, FailAttempt, AttemptsLeft, Goto
<1>2. CASE ~FailAttempt(w)
  BY <1>2 DEF Types, Escape, Goto
<1>3. QED
  BY <1>1, <1>2

LEMMA WriterTypesKept ==
  ASSUME Types, Borrowed, Ledger, NEW w \in Writers, Begin(w) \/ WriterStep(w)
  PROVE  Types'
<1>0. held[w] \in Conns \/ pc[w] \notin Holding
  BY DEF Types, Borrowed
<1> USE DEF Goto
<1>1. CASE Begin(w)
  BY <1>1, WriterAssumption, SMTT(30) DEF Types, Begin, Active, poolVars, PoolTypeOK
<1>2. CASE FindPool(w)
  <2>1. PoolTypeOK'
    <3>1. CASE CreatePool
      BY <3>1, CreatePoolTypes
    <3>2. CASE UNCHANGED poolVars
      BY <3>2 DEF poolVars, Types, PoolTypeOK
    <3>3. QED
      BY <1>2, <3>1, <3>2 DEF FindPool
  <2>2. QED
    BY <1>2, <2>1 DEF FindPool, Types
<1>3. CASE NoPool(w)
  BY <1>3, AttemptTypesKept DEF NoPool, Types, PoolTypeOK, poolVars
<1>4. CASE TakePool(w)
  <2>1. CASE current = None
    BY <1>4, <2>1, AttemptTypesKept DEF TakePool, Types, PoolTypeOK, poolVars
  <2>2. CASE current # None
    BY <1>4, <2>2 DEF TakePool, Types, PoolTypeOK, poolVars
  <2>3. QED
    BY <2>1, <2>2
<1>5. CASE GetConn(w)
  <2>1. ref[w] \in Pools
    BY <1>5, PoolSizeAssumption DEF GetConn, Borrowed, Types, PoolTypeOK, Pools
  <2>2. PICK c \in Conns :
          (TakeIdle(ref[w], c) \/ OpenNew(ref[w], c)) /\ held' = [held EXCEPT ![w] = c]
    BY <1>5 DEF GetConn
  <2>3. PoolTypeOK'
    BY <2>1, <2>2, PoolTypesKept
  <2>4. QED
    BY <1>5, <2>2, <2>3, WriterAssumption DEF GetConn, Types
<1>6. CASE NoConnection(w)
  BY <1>6, AttemptTypesKept DEF NoConnection, Types, PoolTypeOK, poolVars
<1>7. CASE Statement(w)
  BY <1>7, WriterAssumption DEF Statement, Types, PoolTypeOK, poolVars
<1>8. CASE Commit(w)
  BY <1>8 DEF Commit, Types, PoolTypeOK, poolVars
<1>9. CASE CommitAckLost(w)
  <2>1. PoolTypeOK'
    BY <1>9 DEF CommitAckLost, Breaks, Types, PoolTypeOK
  <2>2. lost' \subseteq Writers /\ undisturbed' \subseteq Writers
    BY <1>9 DEF CommitAckLost, Types
  <2>3. stored' \in [Writers -> Nat]
    BY <1>9 DEF CommitAckLost, Types
  <2>4. QED
    BY <1>9, <2>1, <2>2, <2>3 DEF CommitAckLost, Types
<1>10. CASE ConnectionGone(w)
  BY <1>10 DEF ConnectionGone, Breaks, Types, PoolTypeOK
<1>11. CASE StatementFails(w)
  BY <1>11 DEF StatementFails, Types, PoolTypeOK, poolVars
<1>12. CASE Rollback(w)
  BY <1>12 DEF Rollback, Breaks, Types, PoolTypeOK
<1>13. CASE Release(w)
  <2>1. ref[w] \in Pools /\ held[w] \in Conns
    BY <1>0, <1>13, PoolSizeAssumption DEF Release, Borrowed, Types, PoolTypeOK, Pools, Holding
  <2>2. PoolTypeOK'
    BY <1>13, <2>1, PoolTypesKept DEF Release
  <2>3. pending[w] \in {"returned", "retry", "DatabaseError", "raised"}
    BY <1>13 DEF Release, Ledger, LedgerOf, Types
  <2>4. /\ pc' \in [Writers -> {"new", "init", "ref", "getconn", "write", "rollback",
                                "release", "done"}]
        /\ attempt' \in [Writers -> 0..MaxAttempts]
        /\ outcome' \in [Writers -> {"none", "returned", "DatabaseError", "PoolError",
                                     "AttributeError", "raised"}]
    BY <1>13, <2>3, AttemptTypesKept DEF Release, Finish
  <2>5. QED
    BY <1>13, <2>2, <2>4 DEF Release, Types
<1>14. CASE ReleaseFails(w)
  <2>1. PoolTypeOK'
    BY <1>14 DEF ReleaseFails, Types, PoolTypeOK
  <2>2. QED
    BY <1>14, <2>1, AttemptTypesKept DEF ReleaseFails, Types
<1>15. QED
  BY <1>1, <1>2, <1>3, <1>4, <1>5, <1>6, <1>7, <1>8, <1>9, <1>10, <1>11, <1>12, <1>13, <1>14
     DEF WriterStep

LEMMA EnvironmentTypesKept ==
  ASSUME Types, Environment
  PROVE  Types'
<1>1. CASE Outage
  BY <1>1, PoolSizeAssumption DEF Outage, Environment, Types, PoolTypeOK
<1>2. CASE Recover
  BY <1>2 DEF Recover, Environment, Types, PoolTypeOK
<1>3. CASE ClosePool
  <2>1. PoolTypeOK'
    BY <1>3, EmptySeq DEF ClosePool, Types, PoolTypeOK
  <2>2. QED
    BY <1>3, <2>1 DEF ClosePool, Environment, Types
<1>4. QED
  BY <1>1, <1>2, <1>3 DEF Environment

-----------------------------------------------------------------------------
(* Who holds what                                                           *)

(* The pools are numbered as they are made, and a writer only knows one     *)
(* that was current.                                                        *)
LEMMA BorrowedStep ==
  ASSUME Types, Borrowed, [Next]_vars
  PROVE  Borrowed'
<1> USE DEF Borrowed, Holding, Goto
<1>1. ASSUME NEW w \in Writers, Begin(w) PROVE Borrowed'
  BY <1>1 DEF Begin, Types, poolVars
<1>2. ASSUME NEW w \in Writers, FindPool(w) PROVE Borrowed'
  <2>1. made \in Nat
    BY DEF Types, PoolTypeOK
  <2>2. CASE CreatePool
    BY <1>2, <2>1, <2>2 DEF FindPool, CreatePool, Types
  <2>3. CASE UNCHANGED poolVars
    BY <1>2, <2>3 DEF FindPool, Types, poolVars
  <2>4. QED
    BY <1>2, <2>2, <2>3 DEF FindPool
<1>3. ASSUME NEW w \in Writers, NoPool(w) PROVE Borrowed'
  BY <1>3 DEF NoPool, FailAttempt, Types, poolVars
<1>4. ASSUME NEW w \in Writers, TakePool(w) PROVE Borrowed'
  <2>1. made \in Nat
    BY DEF Types, PoolTypeOK
  <2>2. CASE current = None
    BY <1>4, <2>2 DEF TakePool, Escape, Types, poolVars
  <2>3. CASE current # None
    BY <1>4, <2>1, <2>3 DEF TakePool, Types, poolVars, None
  <2>4. QED
    BY <2>2, <2>3
<1>5. ASSUME NEW w \in Writers, GetConn(w) PROVE Borrowed'
  <2>1. PICK c \in Conns :
          (TakeIdle(ref[w], c) \/ OpenNew(ref[w], c)) /\ held' = [held EXCEPT ![w] = c]
    BY <1>5 DEF GetConn
  <2>2. made' = made /\ current' = current
    BY <2>1 DEF TakeIdle, OpenNew
  <2>3. QED
    BY <1>5, <2>1, <2>2, WriterAssumption DEF GetConn, Types
<1>6. ASSUME NEW w \in Writers, NoConnection(w) PROVE Borrowed'
  BY <1>6 DEF NoConnection, FailAttempt, Escape, Types, poolVars
<1>7. ASSUME NEW w \in Writers,
             Statement(w) \/ Commit(w) \/ CommitAckLost(w) \/ ConnectionGone(w)
               \/ StatementFails(w) \/ Rollback(w)
      PROVE  Borrowed'
  BY <1>7 DEF Statement, Commit, CommitAckLost, ConnectionGone, StatementFails, Rollback,
              Types, poolVars
<1>8. ASSUME NEW w \in Writers, Release(w) PROVE Borrowed'
  BY <1>8 DEF Release, PutConn, Finish, FailAttempt, Escape, Types
<1>9. ASSUME NEW w \in Writers, ReleaseFails(w) PROVE Borrowed'
  BY <1>9 DEF ReleaseFails, Escape, Types
<1>10. CASE Environment
  BY <1>10 DEF Environment, Outage, Recover, ClosePool, None, Types, PoolTypeOK
<1>11. CASE UNCHANGED vars
  BY <1>11 DEF vars, poolVars, writerVars
<1>12. QED
  BY <1>1, <1>2, <1>3, <1>4, <1>5, <1>6, <1>7, <1>8, <1>9, <1>10, <1>11 DEF Next, WriterStep

-----------------------------------------------------------------------------
(* What is stored                                                           *)

(* An attempt of w ends without having stored anything new.                 *)
LEMMA LedgerOfFailure ==
  ASSUME Types, Ledger, NEW w \in Writers, UNCHANGED <<stored, lost, ref>>, shut \subseteq shut',
         stored[w] < attempt[w], stored[w] >= 1 => w \in lost,
         FailAttempt(w)
  PROVE  LedgerOf(w)'
  BY DEF Types, Ledger, LedgerOf, FailAttempt, AttemptsLeft, Goto

(* The others keep their ledgers.                                           *)
LEMMA LedgerOfOthers ==
  ASSUME Types, Ledger, NEW v \in Writers, shut \subseteq shut',
         pc'[v] = pc[v], attempt'[v] = attempt[v], ref'[v] = ref[v], pending'[v] = pending[v],
         outcome'[v] = outcome[v], stored'[v] = stored[v], v \in lost <=> v \in lost'
  PROVE  LedgerOf(v)'
  BY DEF Ledger, LedgerOf

LEMMA LedgerStep ==
  ASSUME Types, Types', Ledger, [Next]_vars
  PROVE  Ledger'
<1> USE DEF Goto
<1>0. ASSUME NEW w \in Writers, LedgerOf(w)', shut \subseteq shut',
             \A v \in Writers \ {w} :
               /\ pc'[v] = pc[v] /\ attempt'[v] = attempt[v] /\ ref'[v] = ref[v]
               /\ pending'[v] = pending[v] /\ outcome'[v] = outcome[v]
               /\ stored'[v] = stored[v] /\ (v \in lost <=> v \in lost')
      PROVE  Ledger'
  <2>1. ASSUME NEW v \in Writers PROVE LedgerOf(v)'
    BY <1>0, LedgerOfOthers
  <2>2. QED
    BY <2>1 DEF Ledger
<1>1. ASSUME NEW w \in Writers, Begin(w) PROVE Ledger'
  <2>1. LedgerOf(w)'
    BY <1>1 DEF Begin, Types, Ledger, LedgerOf, poolVars
  <2>2. QED
    BY <1>0, <1>1, <2>1 DEF Begin, Types, poolVars
<1>2. ASSUME NEW w \in Writers, FindPool(w) PROVE Ledger'
  <2>1. shut' = shut
    BY <1>2 DEF FindPool, CreatePool, poolVars
  <2>2. LedgerOf(w)'
    BY <1>2, <2>1 DEF FindPool, Types, Ledger, LedgerOf
  <2>3. QED
    BY <1>0, <1>2, <2>1, <2>2 DEF FindPool, Types
<1>3. ASSUME NEW w \in Writers, NoPool(w) PROVE Ledger'
  <2>1. LedgerOf(w)'
    BY <1>3, LedgerOfFailure DEF NoPool, Types, Ledger, LedgerOf, poolVars
  <2>2. QED
    BY <1>0, <1>3, <2>1 DEF NoPool, FailAttempt, Types, poolVars
<1>4. ASSUME NEW w \in Writers, TakePool(w) PROVE Ledger'
  <2>1. LedgerOf(w)'
    BY <1>4 DEF TakePool, Escape, Types, Ledger, LedgerOf, poolVars
  <2>2. QED
    BY <1>0, <1>4, <2>1 DEF TakePool, Escape, Types, poolVars
<1>5. ASSUME NEW w \in Writers, GetConn(w) PROVE Ledger'
  <2>1. shut' = shut
    BY <1>5 DEF GetConn, TakeIdle, OpenNew
  <2>2. LedgerOf(w)'
    BY <1>5, <2>1 DEF GetConn, Types, Ledger, LedgerOf
  <2>3. QED
    BY <1>0, <1>5, <2>1, <2>2 DEF GetConn, Types
<1>6. ASSUME NEW w \in Writers, NoConnection(w) PROVE Ledger'
  <2>1. CASE FailAttempt(w)
    <3>1. LedgerOf(w)'
      BY <1>6, <2>1, LedgerOfFailure DEF NoConnection, Types, Ledger, LedgerOf, poolVars
    <3>2. QED
      BY <1>0, <1>6, <2>1, <3>1 DEF NoConnection, FailAttempt, Types, poolVars
  <2>2. CASE Escape(w, "PoolError")
    <3>1. LedgerOf(w)'
      BY <1>6, <2>2 DEF NoConnection, Escape, Types, Ledger, LedgerOf, poolVars
    <3>2. QED
      BY <1>0, <1>6, <2>2, <3>1 DEF NoConnection, Escape, Types, poolVars
  <2>3. QED
    BY <1>6, <2>1, <2>2 DEF NoConnection
<1>7. ASSUME NEW w \in Writers,
             Statement(w) \/ ConnectionGone(w) \/ StatementFails(w) \/ Rollback(w)
      PROVE  Ledger'
  <2>1. LedgerOf(w)'
    BY <1>7 DEF Statement, ConnectionGone, StatementFails, Rollback, Types, Ledger, LedgerOf, poolVars
  <2>2. QED
    BY <1>0, <1>7, <2>1 DEF Statement, ConnectionGone, StatementFails, Rollback, Types, poolVars
<1>8. ASSUME NEW w \in Writers, Commit(w) \/ CommitAckLost(w) PROVE Ledger'
  <2>1. stored[w] \in Nat /\ attempt[w] \in Nat /\ stored[w] < attempt[w]
    BY <1>8 DEF Commit, CommitAckLost, Types, Ledger, LedgerOf
  <2>2. LedgerOf(w)'
    BY <1>8, <2>1 DEF Commit, CommitAckLost, Types, Ledger, LedgerOf, poolVars
  <2>3. QED
    BY <1>0, <1>8, <2>2 DEF Commit, CommitAckLost, Types, poolVars
<1>9. ASSUME NEW w \in Writers, Release(w) PROVE Ledger'
  <2>1. shut' = shut
    BY <1>9 DEF Release, PutConn
  <2>2. LedgerOf(w)'
    <3>1. stored[w] \in Nat /\ attempt[w] \in Nat
      BY DEF Types
    <3>2. CASE pending[w] = "retry" /\ AttemptsLeft(w)
      BY <1>9, <2>1, <3>1, <3>2 DEF Release, Finish, FailAttempt, Types, Ledger, LedgerOf
    <3>3. CASE pending[w] = "retry" /\ ~AttemptsLeft(w)
      BY <1>9, <2>1, <3>1, <3>3 DEF Release, Finish, FailAttempt, Types, Ledger, LedgerOf
    <3>4. CASE pending[w] # "retry"
      BY <1>9, <2>1, <3>1, <3>4 DEF Release, Finish, Escape, Types, Ledger, LedgerOf
    <3>5. QED
      BY <3>2, <3>3, <3>4
  <2>3. QED
    BY <1>0, <1>9, <2>1, <2>2 DEF Release, Finish, FailAttempt, Escape, Types
<1>10. ASSUME NEW w \in Writers, ReleaseFails(w) PROVE Ledger'
  <2>1. LedgerOf(w)'
    BY <1>10 DEF ReleaseFails, Escape, Types, Ledger, LedgerOf
  <2>2. QED
    BY <1>0, <1>10, <2>1 DEF ReleaseFails, Escape, Types
<1>11. CASE Environment
  <2>1. ASSUME NEW v \in Writers PROVE LedgerOf(v)'
    BY <1>11, LedgerOfOthers DEF Environment, Outage, Recover, ClosePool
  <2>2. QED
    BY <2>1 DEF Ledger
<1>12. CASE UNCHANGED vars
  BY <1>12 DEF vars, poolVars, writerVars, Ledger, LedgerOf
<1>13. QED
  BY <1>1, <1>2, <1>3, <1>4, <1>5, <1>6, <1>7, <1>8, <1>9, <1>10, <1>11, <1>12
     DEF Next, WriterStep

-----------------------------------------------------------------------------
(* Where a connection can go                                                *)

LEMMA TakenOffAShelf ==
  ASSUME NEW h, NEW S, NEW l, Placed(h, S, l), NEW g, NEW T,
         NEW p \in Pools, NEW w \in Writers, NEW c \in Conns, c \in S[p], c # NoConn,
         g[w] = c, \A v \in Writers \ {w} : g[v] = h[v],
         T[p] = S[p] \ {c}, \A q \in Pools \ {p} : T[q] = S[q]
  PROVE  Placed(g, T, l)
<1>1. \A v \in Writers : h[v] # c
  BY DEF Placed
<1>2. \A q \in Pools : T[q] \subseteq S[q] /\ c \notin T[q]
  BY DEF Placed
<1>3. l[c] # "closed"
  BY DEF Placed
<1>4. \A u, v \in Writers : u # v /\ g[u] # NoConn => g[u] # g[v]
  BY <1>1 DEF Placed
<1>5. \A q \in Pools, v \in Writers : g[v] \notin T[q]
  BY <1>2 DEF Placed
<1>6. \A q, r \in Pools : \A d \in T[q] : q # r => d \notin T[r]
  BY <1>2 DEF Placed
<1>7. \A d \in Conns : l[d] = "closed" =>
        (\A q \in Pools : d \notin T[q]) /\ (\A v \in Writers : g[v] # d)
  BY <1>2, <1>3 DEF Placed
<1>8. QED
  BY <1>4, <1>5, <1>6, <1>7 DEF Placed

LEMMA OpenedForAWriter ==
  ASSUME NEW h, NEW S, NEW l, Placed(h, S, l), NEW g, NEW m,
         NEW w \in Writers, NEW c \in Conns, l[c] = "closed",
         g[w] = c, \A v \in Writers \ {w} : g[v] = h[v],
         \A d \in Conns : m[d] = "closed" => l[d] = "closed" /\ d # c
  PROVE  Placed(g, S, m)
<1>1. (\A v \in Writers : h[v] # c) /\ (\A q \in Pools : c \notin S[q])
  BY DEF Placed
<1>2. QED
  BY <1>1 DEF Placed

LEMMA PutBackOnAShelf ==
  ASSUME NEW h, NEW S, NEW l, Placed(h, S, l), NEW g, NEW T,
         NEW p \in Pools, NEW w \in Writers, h[w] \in Conns, l[h[w]] # "closed",
         \A q \in Pools : S[q] \subseteq Conns,
         g[w] = NoConn, \A v \in Writers \ {w} : g[v] = h[v],
         T[p] = S[p] \union {h[w]}, \A q \in Pools \ {p} : T[q] = S[q]
  PROVE  Placed(g, T, l)
<1>1. h[w] # NoConn /\ (\A v \in Writers : g[v] # h[w]) /\ \A q \in Pools : h[w] \notin S[q]
  BY WriterAssumption DEF Placed
<1>2. \A q \in Pools : NoConn \notin T[q] /\ T[q] \subseteq S[q] \union {h[w]}
  BY WriterAssumption
<1>3. \A u, v \in Writers : u # v /\ g[u] # NoConn => g[u] # g[v]
  BY DEF Placed
<1>4. \A q \in Pools, v \in Writers : g[v] \notin T[q]
  BY <1>1, <1>2 DEF Placed
<1>5. \A q, r \in Pools : \A d \in T[q] : q # r => d \notin T[r]
  BY <1>1 DEF Placed
<1>6. \A d \in Conns : l[d] = "closed" =>
        (\A q \in Pools : d \notin T[q]) /\ (\A v \in Writers : g[v] # d)
  BY <1>2, WriterAssumption DEF Placed
<1>7. QED
  BY <1>3, <1>4, <1>5, <1>6 DEF Placed

LEMMA GivenUp ==
  ASSUME NEW h, NEW S, NEW l, Placed(h, S, l), NEW g, NEW m,
         NEW w \in Writers, h[w] \in Conns,
         \A q \in Pools : S[q] \subseteq Conns,
         g[w] = NoConn, \A v \in Writers \ {w} : g[v] = h[v],
         \A d \in Conns : m[d] = "closed" => l[d] = "closed" \/ d = h[w]
  PROVE  Placed(g, S, m)
<1>1. h[w] # NoConn /\ (\A v \in Writers : g[v] # h[w]) /\ \A q \in Pools : h[w] \notin S[q]
  BY WriterAssumption DEF Placed
<1>2. \A q \in Pools : NoConn \notin S[q]
  BY WriterAssumption
<1>3. \A u, v \in Writers : u # v /\ g[u] # NoConn => g[u] # g[v]
  BY DEF Placed
<1>4. \A q \in Pools, v \in Writers : g[v] \notin S[q]
  BY <1>2 DEF Placed
<1>5. \A d \in Conns : m[d] = "closed" =>
        (\A q \in Pools : d \notin S[q]) /\ (\A v \in Writers : g[v] # d)
  BY <1>1, WriterAssumption DEF Placed
<1>6. QED
  BY <1>3, <1>4, <1>5 DEF Placed

LEMMA FirstOnAShelf ==
  ASSUME NEW h, NEW S, NEW l, Placed(h, S, l), NEW T, NEW m, NEW p \in Pools,
         \A c \in T[p] : c \in Conns /\ l[c] = "closed",
         \A q \in Pools \ {p} : T[q] = S[q],
         \A d \in Conns : m[d] = "closed" => l[d] = "closed" /\ d \notin T[p]
  PROVE  Placed(h, T, m)
<1>1. \A c \in T[p] : (\A v \in Writers : h[v] # c) /\ (\A q \in Pools : c \notin S[q])
  BY DEF Placed
<1>2. \A q \in Pools, v \in Writers : h[v] \notin T[q]
  BY <1>1 DEF Placed
<1>3. \A q, r \in Pools : \A d \in T[q] : q # r => d \notin T[r]
  BY <1>1 DEF Placed
<1>4. \A d \in Conns : m[d] = "closed" =>
        (\A q \in Pools : d \notin T[q]) /\ (\A v \in Writers : h[v] # d)
  BY DEF Placed
<1>5. QED
  BY <1>2, <1>3, <1>4 DEF Placed

LEMMA ShelfCleared ==
  ASSUME NEW h, NEW S, NEW l, Placed(h, S, l), NEW T, NEW m, NEW p \in Pools,
         T[p] = {}, \A q \in Pools \ {p} : T[q] = S[q],
         \A d \in Conns : m[d] = "closed" => l[d] = "closed" \/ d \in S[p]
  PROVE  Placed(h, T, m)
<1>1. \A q \in Pools : T[q] \subseteq S[q]
  OBVIOUS
<1>2. \A d \in Conns : m[d] = "closed" =>
        (\A q \in Pools : d \notin T[q]) /\ (\A v \in Writers : h[v] # d)
  BY <1>1 DEF Placed
<1>3. QED
  BY <1>1, <1>2 DEF Placed

LEMMA NothingClosed ==
  ASSUME NEW h, NEW S, NEW l, Placed(h, S, l), NEW m,
         \A d \in Conns : m[d] = "closed" => l[d] = "closed"
  PROVE  Placed(h, S, m)
  BY DEF Placed

-----------------------------------------------------------------------------
(* A connection is in one place                                             *)

LEMMA ShelfTypes ==
  ASSUME Types
  PROVE  /\ \A p \in Pools : Shelves[p] = Shelf(idle[p]) /\ Shelves[p] \subseteq Conns
         /\ \A p \in Pools : Shelves'[p] = Shelf(idle'[p])
<1>1. \A p \in Pools : \A i \in DOMAIN idle[p] : idle[p][i] \in Conns
  BY LenProperties DEF Types, PoolTypeOK
<1>2. QED
  BY <1>1 DEF Shelves, Shelf

LEMMA ApartWhenLent ==
  ASSUME Types, Borrowed, Apart, NEW w \in Writers, GetConn(w)
  PROVE  Apart'
<1>1. PICK c \in Conns :
        (TakeIdle(ref[w], c) \/ OpenNew(ref[w], c)) /\ held' = [held EXCEPT ![w] = c]
  BY DEF GetConn
<1>2. PICK p \in Pools : p = ref[w]
  BY PoolSizeAssumption DEF GetConn, Borrowed, Types, PoolTypeOK, Pools
<1>3. /\ c # NoConn
      /\ held'[w] = c /\ \A v \in Writers \ {w} : held'[v] = held[v]
  BY <1>1, WriterAssumption DEF Types
<1>4. CASE TakeIdle(p, c)
  <2>1. /\ idle[p] \in Seq(Conns) /\ idle[p] # <<>> /\ Injective(idle[p])
        /\ c = idle[p][Len(idle[p])] /\ idle'[p] = SubSeq(idle[p], 1, Len(idle[p]) - 1)
        /\ link' = link /\ \A q \in Pools \ {p} : idle'[q] = idle[q]
    BY <1>4 DEF TakeIdle, Types, PoolTypeOK, Apart
  <2>2. /\ c \in Shelf(idle[p]) /\ Shelf(idle'[p]) = Shelf(idle[p]) \ {c}
        /\ Injective(idle'[p])
    BY <2>1, ShelfOfPopped
  <2>3. Placed(held', Shelves', link)
    <3>1. c \in Shelves[p] /\ Shelves'[p] = Shelves[p] \ {c}
      BY <2>2, ShelfTypes
    <3>2. \A q \in Pools \ {p} : Shelves'[q] = Shelves[q]
      BY <2>1, ShelfTypes
    <3>3. QED
      BY <1>3, <3>1, <3>2, TakenOffAShelf DEF Apart
  <2>4. QED
    BY <2>1, <2>2, <2>3 DEF Apart
<1>5. CASE OpenNew(p, c)
  <2>1. /\ link[c] = "closed" /\ idle' = idle
        /\ \A d \in Conns : link'[d] = "closed" => link[d] = "closed" /\ d # c
    BY <1>5 DEF OpenNew, Unopened, Types, PoolTypeOK
  <2>2. Placed(held', Shelves, link')
    BY <1>3, <2>1, OpenedForAWriter DEF Apart
  <2>3. Shelves' = Shelves
    BY <2>1 DEF Shelves
  <2>4. QED
    BY <2>1, <2>2, <2>3 DEF Apart
<1>6. QED
  BY <1>1, <1>2, <1>4, <1>5

LEMMA ApartWhenReturned ==
  ASSUME Types, Borrowed, Apart, NEW w \in Writers, Release(w)
  PROVE  Apart'
<1>1. PICK p \in Pools : p = ref[w] /\ PutConn(p, held[w])
  BY PoolSizeAssumption DEF Release, Borrowed, Holding, Types, PoolTypeOK, Pools
<1>2. PICK c \in Conns : c = held[w]
  BY DEF Release, Borrowed, Holding, Types
<1>3. held'[w] = NoConn /\ \A v \in Writers \ {w} : held'[v] = held[v]
  BY DEF Release, Types
<1>4. CASE idle' = [idle EXCEPT ![p] = Append(idle[p], c)] /\ link' = link /\ link[c] # "closed"
  <2>1. /\ idle[p] \in Seq(Conns) /\ Injective(idle[p])
        /\ idle'[p] = Append(idle[p], c) /\ \A q \in Pools \ {p} : idle'[q] = idle[q]
    BY <1>4 DEF Types, PoolTypeOK, Apart
  <2>2. c \notin Shelf(idle[p])
    BY <1>2, ShelfTypes DEF Apart, Placed
  <2>3. Shelf(idle'[p]) = Shelf(idle[p]) \union {c} /\ Injective(idle'[p])
    BY <2>1, <2>2, ShelfOfPushed
  <2>4. Placed(held', Shelves', link)
    <3>1. Shelves'[p] = Shelves[p] \union {held[w]}
      BY <1>2, <2>3, ShelfTypes
    <3>2. \A q \in Pools \ {p} : Shelves'[q] = Shelves[q]
      BY <2>1, ShelfTypes
    <3>3. \A q \in Pools : Shelves[q] \subseteq Conns
      BY ShelfTypes
    <3>4. QED
      BY <1>2, <1>3, <1>4, <3>1, <3>2, <3>3, PutBackOnAShelf DEF Apart
  <2>5. QED
    BY <1>4, <2>1, <2>3, <2>4 DEF Apart
<1>5. CASE idle' = idle /\ link' = [link EXCEPT ![c] = "closed"]
  <2>1. \A d \in Conns : link'[d] = "closed" => link[d] = "closed" \/ d = held[w]
    BY <1>2, <1>5 DEF Types, PoolTypeOK
  <2>2. \A q \in Pools : Shelves[q] \subseteq Conns
    BY ShelfTypes
  <2>3. Placed(held', Shelves, link')
    BY <1>2, <1>3, <2>1, <2>2, GivenUp DEF Apart
  <2>4. Shelves' = Shelves
    BY <1>5 DEF Shelves
  <2>5. QED
    BY <1>5, <2>3, <2>4 DEF Apart
<1>6. QED
  BY <1>1, <1>2, <1>4, <1>5 DEF PutConn

LEMMA ApartWhenCreated ==
  ASSUME Types, Apart, CreatePool, held' = held
  PROVE  Apart' /\ Len(idle'[made + 1]) = MinConn
<1>1. PICK first \in [1..MinConn -> Unopened] :
        /\ \A i, j \in 1..MinConn : first[i] = first[j] => i = j
        /\ idle' = [idle EXCEPT ![made + 1] = first]
        /\ link' = [c \in Conns |-> IF \E i \in 1..MinConn : first[i] = c
                                    THEN "live" ELSE link[c]]
  BY DEF CreatePool
<1>2. PICK p \in Pools : p = made + 1
  BY PoolSizeAssumption DEF CreatePool, Pools, Types, PoolTypeOK
<1>3. idle'[p] = first /\ \A q \in Pools \ {p} : idle'[q] = idle[q]
  BY <1>1, <1>2 DEF Types, PoolTypeOK
<1>4. DOMAIN first = 1..MinConn /\ Len(first) = MinConn /\ Injective(first)
  <2>1. first \in [1..MinConn -> Conns]
    BY <1>1 DEF Unopened
  <2>2. QED
    BY <1>1, <2>1, PoolSizeAssumption, IsASeq, LenProperties DEF Injective
<1>5. Shelves'[p] = {first[i] : i \in 1..MinConn}
  BY <1>3, <1>4, ShelfTypes DEF Shelf
<1>6. \A c \in Shelves'[p] : c \in Conns /\ link[c] = "closed"
  BY <1>1, <1>5 DEF Unopened
<1>7. \A q \in Pools \ {p} : Shelves'[q] = Shelves[q]
  BY <1>3, ShelfTypes
<1>8. \A d \in Conns : link'[d] = "closed" => link[d] = "closed" /\ d \notin Shelves'[p]
  BY <1>1, <1>5
<1>9. Placed(held', Shelves', link')
  BY <1>6, <1>7, <1>8, FirstOnAShelf DEF Apart
<1>10. \A q \in Pools : Injective(idle'[q])
  BY <1>3, <1>4 DEF Apart
<1>11. QED
  BY <1>2, <1>3, <1>4, <1>9, <1>10 DEF Apart

LEMMA ApartWhenClosed ==
  ASSUME Types, Apart, ClosePool, held' = held
  PROVE  Apart'
<1>1. PICK p \in Pools : p = current
  BY DEF ClosePool, Types, PoolTypeOK
<1>2. idle'[p] = <<>> /\ \A q \in Pools \ {p} : idle'[q] = idle[q]
  BY <1>1 DEF ClosePool, Types, PoolTypeOK
<1>3. Shelves'[p] = {} /\ \A q \in Pools \ {p} : Shelves'[q] = Shelves[q]
  <2>1. Shelf(<<>>) = {}
    BY DEF Shelf
  <2>2. QED
    BY <1>2, <2>1, ShelfTypes
<1>4. \A d \in Conns : link'[d] = "closed" => link[d] = "closed" \/ d \in Shelves[p]
  BY <1>1, ShelfTypes DEF ClosePool, OnShelf, Shelf, Types, PoolTypeOK
<1>5. Placed(held', Shelves', link')
  BY <1>3, <1>4, ShelfCleared DEF Apart
<1>6. \A q \in Pools : Injective(idle'[q])
  <2>1. Injective(<<>>)
    BY DEF Injective
  <2>2. QED
    BY <1>2, <2>1 DEF Apart
<1>7. QED
  BY <1>5, <1>6 DEF Apart

LEMMA ApartWhenNothingMoves ==
  ASSUME Apart, UNCHANGED <<held, idle>>,
         \A c \in Conns : link'[c] = "closed" => link[c] = "closed"
  PROVE  Apart'
<1>1. Placed(held, Shelves, link')
  BY NothingClosed DEF Apart
<1>2. Shelves' = Shelves
  BY DEF Shelves
<1>3. QED
  BY <1>1, <1>2 DEF Apart

LEMMA ApartStep ==
  ASSUME Types, Borrowed, Apart, [Next]_vars
  PROVE  Apart'
<1>1. ASSUME NEW w \in Writers,
             \/ Begin(w) \/ NoPool(w) \/ TakePool(w) \/ NoConnection(w) \/ Statement(w)
             \/ Commit(w) \/ StatementFails(w)
      PROVE  Apart'
  <2>1. UNCHANGED <<held, idle, link>>
    BY <1>1 DEF Begin, NoPool, TakePool, NoConnection, Statement, Commit, StatementFails, poolVars
  <2>2. QED
    BY <2>1, ApartWhenNothingMoves
<1>2. ASSUME NEW w \in Writers, CommitAckLost(w) \/ ConnectionGone(w) \/ Rollback(w)
      PROVE  Apart'
  <2>1. \A c \in Conns : link'[c] = "closed" => link[c] = "closed"
    BY <1>2 DEF CommitAckLost, ConnectionGone, Rollback, Breaks, Types, PoolTypeOK
  <2>2. UNCHANGED <<held, idle>>
    BY <1>2 DEF CommitAckLost, ConnectionGone, Rollback
  <2>3. QED
    BY <2>1, <2>2, ApartWhenNothingMoves
<1>3. ASSUME NEW w \in Writers, FindPool(w) PROVE Apart'
  <2>1. CASE UNCHANGED poolVars
    <3>1. UNCHANGED <<held, idle, link>>
      BY <1>3, <2>1 DEF FindPool, poolVars
    <3>2. QED
      BY <3>1, ApartWhenNothingMoves
  <2>2. CASE CreatePool
    BY <1>3, <2>2, ApartWhenCreated DEF FindPool
  <2>3. QED
    BY <1>3, <2>1, <2>2 DEF FindPool
<1>4. ASSUME NEW w \in Writers, ReleaseFails(w) PROVE Apart'
  <2>1. /\ held[w] \in Conns /\ idle' = idle
        /\ held'[w] = NoConn /\ \A v \in Writers \ {w} : held'[v] = held[v]
    BY <1>4 DEF ReleaseFails, Borrowed, Holding, Types
  <2>2. \A d \in Conns : link'[d] = "closed" => link[d] = "closed" \/ d = held[w]
    BY <1>4, <2>1 DEF ReleaseFails, Types, PoolTypeOK
  <2>3. \A q \in Pools : Shelves[q] \subseteq Conns
    BY ShelfTypes
  <2>4. Placed(held', Shelves, link')
    BY <2>1, <2>2, <2>3, GivenUp DEF Apart
  <2>5. Shelves' = Shelves
    BY <2>1 DEF Shelves
  <2>6. QED
    BY <2>1, <2>4, <2>5 DEF Apart
<1>5. CASE Environment
  <2>1. held' = held
    BY <1>5 DEF Environment
  <2>2. CASE Outage
    <3>1. idle' = idle /\ \A c \in Conns : link'[c] = "closed" => link[c] = "closed"
      BY <2>2 DEF Outage, Types, PoolTypeOK
    <3>2. QED
      BY <2>1, <3>1, ApartWhenNothingMoves
  <2>3. CASE Recover
    BY <2>1, <2>3, ApartWhenNothingMoves DEF Recover
  <2>4. QED
    BY <1>5, <2>1, <2>2, <2>3, ApartWhenClosed DEF Environment
<1>6. CASE UNCHANGED vars
  <2>1. UNCHANGED <<held, idle, link>>
    BY <1>6 DEF vars, poolVars, writerVars
  <2>2. QED
    BY <2>1, ApartWhenNothingMoves
<1>7. QED
  BY <1>1, <1>2, <1>3, <1>4, <1>5, <1>6, ApartWhenLent, ApartWhenReturned
     DEF Next, WriterStep

-----------------------------------------------------------------------------
(* A pool knows what it has lent                                            *)

LEMMA LentMore ==
  ASSUME NEW h, NEW r, NEW g, NEW w \in Writers, NEW c, c # NoConn,
         h[w] = NoConn, g[w] = c, \A v \in Writers \ {w} : g[v] = h[v]
  PROVE  /\ Lent(g, r, r[w]) = Lent(h, r, r[w]) \union {c}
         /\ \A q \in Pools : q # r[w] => Lent(g, r, q) = Lent(h, r, q)
  BY DEF Lent

LEMMA LentLess ==
  ASSUME NEW h, NEW r, NEW g, NEW w \in Writers, NEW c, c # NoConn,
         h[w] = c, g[w] = NoConn, \A v \in Writers \ {w} : g[v] = h[v] /\ h[v] # c
  PROVE  /\ c \in Lent(h, r, r[w])
         /\ Lent(g, r, r[w]) = Lent(h, r, r[w]) \ {c}
         /\ \A q \in Pools : q # r[w] => Lent(g, r, q) = Lent(h, r, q)
  BY DEF Lent

(* The reference of a writer that holds nothing does not count.             *)
LEMMA LentToHolders ==
  ASSUME NEW h, NEW r, NEW s, \A v \in Writers : h[v] # NoConn => s[v] = r[v]
  PROVE  \A q \in Pools : Lent(h, s, q) = Lent(h, r, q)
  BY DEF Lent

LEMMA NothingLentYet ==
  ASSUME Types, Borrowed, NEW p \in Pools, p > made
  PROVE  Lent(held, ref, p) = {}
<1>1. \A v \in Writers : ref[v] # p
  BY DEF Borrowed, Types, PoolTypeOK, Pools
<1>2. QED
  BY <1>1 DEF Lent

LEMMA BooksWhenLent ==
  ASSUME Types, Borrowed, Apart, Books, NEW w \in Writers, GetConn(w)
  PROVE  Books'
<1>1. PICK c \in Conns :
        (TakeIdle(ref[w], c) \/ OpenNew(ref[w], c)) /\ held' = [held EXCEPT ![w] = c]
  BY DEF GetConn
<1>2. PICK p \in Pools : p = ref[w] /\ p \in 1..made
  BY PoolSizeAssumption DEF GetConn, Borrowed, Types, PoolTypeOK, Pools
<1>3. /\ c # NoConn /\ held[w] = NoConn
      /\ held'[w] = c /\ \A v \in Writers \ {w} : held'[v] = held[v]
  BY <1>1, WriterAssumption DEF Types, Borrowed, Holding, GetConn
<1>4. /\ p \notin shut /\ used'[p] = used[p] \union {c}
      /\ \A q \in Pools \ {p} : used'[q] = used[q] /\ idle'[q] = idle[q]
      /\ UNCHANGED <<current, made, shut>> /\ ref' = ref
  BY <1>1, <1>2 DEF GetConn, TakeIdle, OpenNew, Types, PoolTypeOK
<1>5. /\ Lent(held', ref, p) = Lent(held, ref, p) \union {c}
      /\ \A q \in Pools \ {p} : Lent(held', ref, q) = Lent(held, ref, q)
  <2>1. Lent(held', ref, ref[w]) = Lent(held, ref, ref[w]) \union {c}
    BY <1>3, LentMore
  <2>2. \A q \in Pools : q # ref[w] => Lent(held', ref, q) = Lent(held, ref, q)
    BY <1>3, LentMore
  <2>3. QED
    BY <1>2, <2>1, <2>2
<1>6. /\ Len(idle'[p]) <= MinConn
      /\ Len(idle'[p]) + Cardinality(used'[p]) <= MaxConn
  <2>1. /\ IsFiniteSet(used[p]) /\ Cardinality(used[p]) \in Nat
        /\ Len(idle[p]) \in Nat /\ Len(idle[p]) <= MinConn
        /\ Len(idle[p]) + Cardinality(used[p]) <= MaxConn
    BY <1>4, LentIsFinite, LenProperties DEF Books, Balanced, Types, PoolTypeOK
  <2>2. Cardinality(used'[p]) \in {Cardinality(used[p]), Cardinality(used[p]) + 1}
    BY <1>4, <2>1, FS_AddElement
  <2>3. CASE TakeIdle(p, c)
    <3>1. Len(idle'[p]) = Len(idle[p]) - 1
      BY <2>3, ShelfOfPopped, ZenonT(40) DEF TakeIdle, Types, PoolTypeOK, Apart
    <3>2. QED
      BY <2>1, <2>2, <3>1, PoolSizeAssumption
  <2>4. CASE OpenNew(p, c)
    <3>1. idle'[p] = <<>> /\ Cardinality(used[p]) < MaxConn
      BY <2>4 DEF OpenNew
    <3>2. QED
      BY <2>1, <2>2, <3>1, EmptySeq, PoolSizeAssumption
  <2>5. QED
    BY <1>1, <1>2, <2>3, <2>4
<1>7. \A q \in Pools \ shut' : Balanced(q)'
  BY <1>4, <1>5, <1>6 DEF Books, Balanced
<1>8. QED
  <2>1. current' \notin shut'
    BY <1>4 DEF Books
  <2>2. \A q \in Pools : q > made => q # p
    BY <1>2 DEF Pools, Types, PoolTypeOK
  <2>3. QED
    BY <1>4, <1>7, <2>1, <2>2 DEF Books

LEMMA BooksWhenReturned ==
  ASSUME Types, Borrowed, Apart, Books, NEW w \in Writers, Release(w)
  PROVE  Books'
<1>1. PICK p \in Pools : p = ref[w] /\ p \in 1..made /\ PutConn(p, held[w])
  BY PoolSizeAssumption DEF Release, Borrowed, Holding, Types, PoolTypeOK, Pools
<1>2. PICK c \in Conns : c = held[w]
  BY DEF Release, Borrowed, Holding, Types
<1>3. /\ c # NoConn /\ held'[w] = NoConn
      /\ \A v \in Writers \ {w} : held'[v] = held[v] /\ held[v] # c
  BY <1>2, WriterAssumption DEF Release, Types, Apart, Placed
<1>4. /\ p \notin shut /\ used'[p] = used[p] \ {c}
      /\ \A q \in Pools \ {p} : used'[q] = used[q] /\ idle'[q] = idle[q]
      /\ UNCHANGED <<current, made, shut>> /\ ref' = ref
  BY <1>1, <1>2 DEF Release, PutConn, Types, PoolTypeOK
<1>5. /\ c \in Lent(held, ref, p)
      /\ Lent(held', ref, p) = Lent(held, ref, p) \ {c}
      /\ \A q \in Pools \ {p} : Lent(held', ref, q) = Lent(held, ref, q)
  BY <1>1, <1>2, <1>3, LentLess, SMTT(30)
<1>6. /\ Len(idle'[p]) <= MinConn
      /\ Len(idle'[p]) + Cardinality(used'[p]) <= MaxConn
  <2>1. /\ IsFiniteSet(used[p]) /\ Cardinality(used[p]) \in Nat
        /\ Len(idle[p]) \in Nat /\ Len(idle[p]) <= MinConn
        /\ Len(idle[p]) + Cardinality(used[p]) <= MaxConn
        /\ used[p] = Lent(held, ref, p)
    BY <1>4, LentIsFinite, LenProperties DEF Books, Balanced, Types, PoolTypeOK
  <2>2. Cardinality(used'[p]) = Cardinality(used[p]) - 1
    <3>1. c \in used[p]
      BY <1>5, <2>1
    <3>2. QED
      BY <1>4, <2>1, <3>1, FS_RemoveElement, ZenonT(40)
  <2>3. \/ idle'[p] = idle[p]
        \/ Len(idle[p]) < MinConn /\ Len(idle'[p]) = Len(idle[p]) + 1
    BY <1>1, <1>2, AppendProperties DEF PutConn, Types, PoolTypeOK
  <2>4. QED
    BY <2>1, <2>2, <2>3, PoolSizeAssumption, SMTT(30)
<1>7. \A q \in Pools \ shut' : Balanced(q)'
  BY <1>4, <1>5, <1>6 DEF Books, Balanced
<1>8. QED
  BY <1>1, <1>4, <1>7 DEF Books, Types, PoolTypeOK, Pools

LEMMA BooksWhenCreated ==
  ASSUME Types, Borrowed, Apart, Books, CreatePool, UNCHANGED <<held, ref>>
  PROVE  Books'
<1>1. PICK p \in Pools : p = made + 1
  BY PoolSizeAssumption DEF CreatePool, Pools, Types, PoolTypeOK
<1>2. p > made /\ p \notin shut /\ used[p] = {} /\ Lent(held, ref, p) = {}
  <2>1. p > made
    BY <1>1 DEF Types, PoolTypeOK
  <2>2. QED
    BY <2>1, NothingLentYet DEF Books
<1>3. /\ Len(idle'[p]) = MinConn /\ \A q \in Pools \ {p} : idle'[q] = idle[q]
      /\ used' = used /\ shut' = shut /\ made' = p /\ current' = p
  BY <1>1, ApartWhenCreated DEF CreatePool, Types, PoolTypeOK
<1>4. Balanced(p)'
  <2>1. Cardinality({}) = 0
    BY FS_EmptySet
  <2>2. QED
    <3>1. used'[p] = {} /\ Lent(held, ref, p)' = {}
      BY <1>2, <1>3 DEF Lent
    <3>2. Len(idle'[p]) = MinConn /\ MinConn + 0 <= MaxConn /\ MinConn <= MinConn
      BY <1>3, PoolSizeAssumption
    <3>3. QED
      BY <2>1, <3>1, <3>2 DEF Balanced
<1>5. \A q \in Pools \ shut' : Balanced(q)'
  BY <1>3, <1>4 DEF Books, Balanced
<1>6. \A q \in Pools : q > p => q > made
  BY <1>1 DEF Types, PoolTypeOK, Pools
<1>7. QED
  BY <1>2, <1>3, <1>5, <1>6 DEF Books

(* The pool's own books are left alone, and so is who holds what.           *)
LEMMA BooksWhenNothingMoves ==
  ASSUME Books, UNCHANGED <<current, made, shut, idle, used, held>>,
         \A v \in Writers : held[v] # NoConn => ref'[v] = ref[v]
  PROVE  Books'
<1>1. \A q \in Pools : Lent(held, ref', q) = Lent(held, ref, q)
  BY LentToHolders
<1>2. \A q \in Pools \ shut' : Balanced(q)'
  BY <1>1 DEF Books, Balanced
<1>3. QED
  BY <1>2 DEF Books

LEMMA BooksStep ==
  ASSUME Types, Borrowed, Apart, Books, [Next]_vars
  PROVE  Books'
<1>1. ASSUME NEW w \in Writers,
             \/ Begin(w) \/ NoPool(w) \/ TakePool(w) \/ NoConnection(w) \/ Statement(w)
             \/ Commit(w) \/ StatementFails(w) \/ CommitAckLost(w) \/ ConnectionGone(w)
             \/ Rollback(w)
      PROVE  Books'
  <2>1. UNCHANGED <<current, made, shut, idle, used, held>>
    BY <1>1 DEF Begin, NoPool, TakePool, NoConnection, Statement, Commit, StatementFails,
                CommitAckLost, ConnectionGone, Rollback, poolVars
  <2>2. \A v \in Writers : held[v] # NoConn => ref'[v] = ref[v]
    BY <1>1 DEF Begin, NoPool, TakePool, NoConnection, Statement, Commit, StatementFails,
                CommitAckLost, ConnectionGone, Rollback, Borrowed, Holding, Types
  <2>3. QED
    BY <2>1, <2>2, BooksWhenNothingMoves
<1>2. ASSUME NEW w \in Writers, FindPool(w) PROVE Books'
  <2>1. CASE UNCHANGED poolVars
    BY <1>2, <2>1, BooksWhenNothingMoves DEF FindPool, poolVars
  <2>2. CASE CreatePool
    BY <1>2, <2>2, BooksWhenCreated DEF FindPool
  <2>3. QED
    BY <1>2, <2>1, <2>2 DEF FindPool
<1>3. ASSUME NEW w \in Writers, ReleaseFails(w) PROVE Books'
  <2>1. /\ UNCHANGED <<current, made, shut, idle, used, ref>> /\ ref[w] \in shut
        /\ held'[w] = NoConn /\ \A v \in Writers \ {w} : held'[v] = held[v]
    BY <1>3 DEF ReleaseFails, Types
  <2>2. \A q \in Pools \ shut : Lent(held', ref, q) = Lent(held, ref, q)
    BY <2>1 DEF Lent
  <2>3. \A q \in Pools \ shut' : Balanced(q)'
    BY <2>1, <2>2 DEF Books, Balanced
  <2>4. QED
    BY <2>1, <2>3 DEF Books
<1>4. CASE Environment
  <2>1. UNCHANGED <<held, ref>>
    BY <1>4 DEF Environment
  <2>2. CASE Outage \/ Recover
    <3>1. UNCHANGED <<current, made, shut, idle, used>>
      BY <2>2 DEF Outage, Recover
    <3>2. QED
      BY <2>1, <3>1, BooksWhenNothingMoves
  <2>3. CASE ClosePool
    <3>1. /\ current \in Pools /\ current \in 0..made /\ shut' = shut \union {current}
          /\ current' = None /\ made' = made /\ used' = used
          /\ \A q \in Pools \ {current} : idle'[q] = idle[q]
      BY <2>3 DEF ClosePool, Types, PoolTypeOK, Borrowed
    <3>2. current' \notin shut'
      BY <3>1 DEF Types, PoolTypeOK, Pools, None
    <3>3. \A q \in Pools : q > made => q # current
      BY <3>1 DEF Pools, Types, PoolTypeOK
    <3>4. \A q \in Pools \ shut' : Balanced(q)'
      BY <2>1, <3>1 DEF Books, Balanced
    <3>5. QED
      BY <3>1, <3>2, <3>3, <3>4 DEF Books
  <2>4. QED
    BY <1>4, <2>2, <2>3 DEF Environment
<1>5. CASE UNCHANGED vars
  BY <1>5, BooksWhenNothingMoves DEF vars, poolVars, writerVars
<1>6. QED
  BY <1>1, <1>2, <1>3, <1>4, <1>5, BooksWhenLent, BooksWhenReturned DEF Next, WriterStep

-----------------------------------------------------------------------------
(* A restart of the database is survived                                    *)

(* Connections on the shelf the next attempts would fail with.              *)
Trouble(s, l) == {c \in Shelf(s) : l[c] # "live"}
Dead == IF current = None THEN 0 ELSE Cardinality(Trouble(idle[current], link))

(* A writer nothing disturbs is alone, and as long as it has not committed  *)
(* it has an attempt for every connection that may fail it, and one more.   *)
Survives(w) ==
  /\ server = "up" /\ \A v \in Writers \ {w} : pc[v] \in {"new", "done"}
  /\ pc[w] # "new"
  /\ pc[w] \notin {"init", "done"} => current # None
  /\ pc[w] \in {"getconn"} \union Holding => ref[w] = current
  /\ pc[w] \in {"init", "ref", "getconn", "write"} => stored[w] = 0
  /\ pc[w] \in {"init", "ref", "getconn"} => attempt[w] + Dead <= MaxAttempts
  /\ pc[w] = "write" => link[held[w]] = "live" \/ attempt[w] + Dead < MaxAttempts
  /\ pc[w] = "rollback" => pending[w] = "retry"
  /\ pc[w] \in {"rollback", "release"} =>
       \/ pending[w] = "returned" /\ stored[w] = 1
       \/ /\ pending[w] = "retry" /\ stored[w] = 0
          /\ link[held[w]] = "broken" /\ attempt[w] + Dead < MaxAttempts
  /\ pc[w] = "done" => outcome[w] = "returned" /\ stored[w] = 1
Surviving == \A w \in undisturbed : Survives(w)

LEMMA TroubleIsFinite ==
  ASSUME Types, NEW p \in Pools, NEW l
  PROVE  /\ IsFiniteSet(Trouble(idle[p], l))
         /\ Cardinality(Trouble(idle[p], l)) \in Nat
<1>1. Trouble(idle[p], l) \subseteq Conns
  BY ShelfTypes DEF Trouble
<1>2. QED
  BY <1>1, ConnsAssumption, FS_Subset, FS_CardinalityType

LEMMA DeadIsANumber ==
  ASSUME Types
  PROVE  Dead \in Nat
<1>1. current \in Pools \/ current = None
  BY DEF Types, PoolTypeOK
<1>2. QED
  BY <1>1, TroubleIsFinite DEF Dead

(* What is not on a shelf may break or close.                               *)
LEMMA DeadStays ==
  ASSUME Types, UNCHANGED <<current, idle>>,
         \A c \in Conns : link'[c] = "live" <=> link[c] = "live"
  PROVE  Dead' = Dead
<1>1. ASSUME NEW p \in Pools PROVE Trouble(idle[p], link') = Trouble(idle[p], link)
  BY ShelfTypes DEF Trouble
<1>2. current \in Pools \/ current = None
  BY DEF Types, PoolTypeOK
<1>3. QED
  BY <1>1, <1>2 DEF Dead

(* No pool has more to fail with than its shelf holds.                      *)
LEMMA DeadIsBounded ==
  ASSUME Types, Apart, Books
  PROVE  Dead <= MinConn
<1>1. CASE current = None
  BY <1>1, PoolSizeAssumption DEF Dead
<1>2. CASE current \in Pools
  <2>1. Len(idle[current]) <= MinConn /\ idle[current] \in Seq(Conns) /\ Injective(idle[current])
    BY <1>2 DEF Books, Balanced, Types, PoolTypeOK, Apart
  <2>2. IsFiniteSet(Shelf(idle[current])) /\ Cardinality(Shelf(idle[current])) = Len(idle[current])
    BY <2>1, ShelfSize
  <2>3. Trouble(idle[current], link) \subseteq Shelf(idle[current])
    BY DEF Trouble
  <2>4. Cardinality(Trouble(idle[current], link)) <= Len(idle[current])
    BY <2>2, <2>3, FS_Subset
  <2>5. Len(idle[current]) \in Nat /\ Cardinality(Trouble(idle[current], link)) \in Nat
    BY <1>2, <2>1, LenProperties, TroubleIsFinite
  <2>6. QED
    BY <1>2, <2>1, <2>4, <2>5, PoolSizeAssumption DEF Dead, None, Pools
<1>3. QED
  BY <1>1, <1>2 DEF Types, PoolTypeOK

(* The connections of a new pool are all live.                              *)
LEMMA NewPoolHasNoTrouble ==
  ASSUME Types, Apart, CreatePool, held' = held
  PROVE  Dead' = 0
<1>1. PICK p \in Pools : p = made + 1
  BY PoolSizeAssumption DEF CreatePool, Pools, Types, PoolTypeOK
<1>2. PICK first \in [1..MinConn -> Unopened] :
        /\ idle' = [idle EXCEPT ![made + 1] = first]
        /\ link' = [c \in Conns |-> IF \E i \in 1..MinConn : first[i] = c
                                    THEN "live" ELSE link[c]]
  BY DEF CreatePool
<1>3. idle'[p] = first /\ DOMAIN first = 1..MinConn
  BY <1>1, <1>2 DEF Types, PoolTypeOK
<1>4. \A i \in 1..MinConn : first[i] \in Conns
  BY <1>2 DEF Unopened
<1>5. \A c \in Shelf(idle'[p]) : link'[c] = "live"
  BY <1>2, <1>3, <1>4 DEF Shelf
<1>6. Trouble(idle'[p], link') = {}
  BY <1>5 DEF Trouble
<1>7. current' = p
  BY <1>1 DEF CreatePool
<1>8. QED
  BY <1>6, <1>7, FS_EmptySet DEF Dead

(* A writer that is undisturbed has had the others out of the way.          *)
LEMMA OnlyItself ==
  ASSUME Surviving, NEW w \in undisturbed, NEW v \in Writers, WriterStep(v)
  PROVE  v = w
<1>1. pc[v] \notin {"new", "done"}
  BY DEF WriterStep, FindPool, NoPool, TakePool, GetConn, NoConnection, Statement, Commit,
         CommitAckLost, ConnectionGone, StatementFails, Rollback, Release, ReleaseFails
<1>2. QED
  BY <1>1 DEF Surviving, Survives

(* The writer takes a connection: one that would fail it is off the shelf.  *)
LEMMA SurvivesTaking ==
  ASSUME Types, Borrowed, Apart, Surviving, NEW w \in undisturbed, w \in Writers, GetConn(w)
  PROVE  Survives(w)'
<1>1. PICK c \in Conns :
        (TakeIdle(ref[w], c) \/ OpenNew(ref[w], c)) /\ held' = [held EXCEPT ![w] = c]
  BY DEF GetConn
<1>2. /\ Survives(w) /\ pc[w] = "getconn" /\ pc' = [pc EXCEPT ![w] = "write"]
      /\ UNCHANGED <<attempt, ref, stored>>
  BY DEF Surviving, GetConn, Goto
<1>3. PICK p \in Pools : p = ref[w] /\ p = current
  BY <1>2, PoolSizeAssumption DEF Survives, Types, PoolTypeOK, None
<1>4. UNCHANGED <<server, current>>
  BY <1>1 DEF TakeIdle, OpenNew
<1>5. held'[w] = c /\ pc'[w] = "write" /\ \A v \in Writers \ {w} : pc'[v] = pc[v]
  BY <1>1, <1>2 DEF Types
<1>6. link'[c] = "live" \/ attempt[w] + Dead' < MaxAttempts
  <2>1. CASE OpenNew(p, c)
    BY <2>1 DEF OpenNew, Types, PoolTypeOK
  <2>2. CASE TakeIdle(p, c) /\ link[c] = "live"
    BY <2>2 DEF TakeIdle
  <2>3. CASE TakeIdle(p, c) /\ link[c] # "live"
    <3>1. /\ idle[p] \in Seq(Conns) /\ idle[p] # <<>> /\ Injective(idle[p])
          /\ c = idle[p][Len(idle[p])] /\ idle'[p] = SubSeq(idle[p], 1, Len(idle[p]) - 1)
          /\ link' = link
      BY <2>3 DEF TakeIdle, Types, PoolTypeOK, Apart
    <3>2. c \in Shelf(idle[p]) /\ Shelf(idle'[p]) = Shelf(idle[p]) \ {c}
      BY <3>1, ShelfOfPopped
    <3>3. /\ c \in Trouble(idle[p], link)
          /\ Trouble(idle'[p], link') = Trouble(idle[p], link) \ {c}
      BY <2>3, <3>1, <3>2 DEF Trouble
    <3>4. /\ IsFiniteSet(Trouble(idle[p], link))
          /\ Cardinality(Trouble(idle[p], link)) \in Nat
      BY TroubleIsFinite
    <3>5. Cardinality(Trouble(idle'[p], link')) = Cardinality(Trouble(idle[p], link)) - 1
      BY <3>3, <3>4, FS_RemoveElement
    <3>6. PICK n \in Nat : n = Cardinality(Trouble(idle[p], link))
      BY <3>4
    <3>7. Dead = n /\ Dead' = n - 1
      BY <1>3, <1>4, <3>5, <3>6 DEF Dead, None, Pools
    <3>8. attempt[w] + n <= MaxAttempts /\ attempt[w] \in Nat /\ MaxAttempts \in Nat
      BY <1>2, <3>7, WriterAssumption DEF Survives, Types
    <3>9. QED
      BY <3>7, <3>8
  <2>4. QED
    BY <1>1, <1>3, <2>1, <2>2, <2>3
<1>7. QED
  BY <1>2, <1>3, <1>4, <1>5, <1>6, PoolSizeAssumption DEF Survives, Holding, None, Pools

(* The writer gives its connection back; a broken one is closed.            *)
LEMMA SurvivesReturning ==
  ASSUME Types, Borrowed, Surviving, NEW w \in undisturbed, w \in Writers, Release(w)
  PROVE  Survives(w)'
<1>1. PICK p \in Pools : p = ref[w] /\ PutConn(p, held[w])
  BY PoolSizeAssumption DEF Release, Borrowed, Holding, Types, PoolTypeOK, Pools
<1>2. PICK c \in Conns : c = held[w]
  BY DEF Release, Borrowed, Holding, Types
<1>3. /\ Survives(w) /\ pc[w] = "release" /\ Finish(w)
      /\ UNCHANGED <<ref, stored, server, current>>
  BY <1>1 DEF Surviving, Release, PutConn
<1>4. CASE pending[w] = "returned"
  <2>1. stored[w] = 1
    BY <1>3, <1>4 DEF Survives, Holding
  <2>2. /\ pc'[w] = "done" /\ outcome'[w] = "returned"
        /\ \A v \in Writers \ {w} : pc'[v] = pc[v]
    BY <1>3, <1>4 DEF Finish, Escape, Goto, Types
  <2>3. QED
    BY <1>3, <2>1, <2>2 DEF Survives, Holding
<1>5. CASE pending[w] = "retry"
  <2>1. link[c] = "broken" /\ stored[w] = 0 /\ attempt[w] + Dead < MaxAttempts
    BY <1>2, <1>3, <1>5 DEF Survives, Holding
  <2>2. idle' = idle /\ link' = [link EXCEPT ![c] = "closed"]
    BY <1>1, <1>2, <2>1 DEF PutConn
  <2>3. \A d \in Conns : link'[d] = "live" <=> link[d] = "live"
    BY <2>1, <2>2 DEF Types, PoolTypeOK
  <2>4. Dead' = Dead
    BY <1>3, <2>2, <2>3, DeadStays
  <2>5. PICK n \in Nat, a \in Nat : n = Dead /\ a = attempt[w]
    BY DeadIsANumber DEF Types
  <2>6. a + n < MaxAttempts /\ MaxAttempts \in Nat
    BY <2>1, <2>5, WriterAssumption
  <2>7. AttemptsLeft(w)
    BY <2>5, <2>6 DEF AttemptsLeft
  <2>8. /\ pc'[w] = "init" /\ attempt'[w] = a + 1
        /\ \A v \in Writers \ {w} : pc'[v] = pc[v]
    BY <1>3, <1>5, <2>5, <2>7 DEF Finish, FailAttempt, Goto, Types
  <2>9. attempt'[w] + Dead' <= MaxAttempts
    BY <2>4, <2>5, <2>6, <2>8
  <2>10. QED
    BY <1>3, <2>1, <2>8, <2>9 DEF Survives, Holding
<1>6. QED
  BY <1>3, <1>4, <1>5 DEF Survives, Holding

(* Looking for a pool and taking it costs nothing.                          *)
LEMMA SurvivesLooking ==
  ASSUME Types, Borrowed, Apart, Surviving, NEW w \in undisturbed, w \in Writers,
         FindPool(w) \/ TakePool(w)
  PROVE  Survives(w)'
<1>0. Survives(w)
  BY DEF Surviving
<1>1. CASE FindPool(w)
  <2>1. /\ pc[w] = "init" /\ pc'[w] = "ref" /\ \A v \in Writers \ {w} : pc'[v] = pc[v]
        /\ UNCHANGED <<attempt, stored, held>>
    BY <1>1 DEF FindPool, Goto, Types
  <2>2. PICK n \in Nat, a \in Nat : n = Dead /\ a = attempt[w]
    BY DeadIsANumber DEF Types
  <2>3. a + n <= MaxAttempts /\ MaxAttempts \in Nat
    BY <1>0, <2>1, <2>2, WriterAssumption DEF Survives
  <2>4. server' = server /\ current' # None /\ attempt'[w] + Dead' <= MaxAttempts
    <3>1. CASE current # None /\ UNCHANGED poolVars
      <4>1. Dead' = Dead
        BY <3>1, DeadStays DEF poolVars
      <4>2. QED
        BY <2>1, <2>2, <2>3, <3>1, <4>1 DEF poolVars
    <3>2. CASE CreatePool
      <4>1. Dead' = 0
        BY <2>1, <3>2, NewPoolHasNoTrouble
      <4>2. current' # None /\ server' = server
        BY <3>2 DEF CreatePool, Types, PoolTypeOK, None
      <4>3. QED
        BY <2>1, <2>2, <2>3, <4>1, <4>2
    <3>3. QED
      BY <1>1, <3>1, <3>2 DEF FindPool
  <2>5. QED
    BY <1>0, <2>1, <2>4 DEF Survives, Holding
<1>2. CASE TakePool(w)
  <2>1. /\ pc[w] = "ref" /\ UNCHANGED <<poolVars, attempt, stored>>
        /\ current # None
    BY <1>0, <1>2 DEF TakePool, Survives
  <2>2. /\ pc'[w] = "getconn" /\ ref'[w] = current
        /\ \A v \in Writers \ {w} : pc'[v] = pc[v]
    BY <1>2, <2>1 DEF TakePool, Goto, Types
  <2>3. Dead' = Dead
    BY <2>1, DeadStays DEF poolVars
  <2>4. QED
    BY <1>0, <2>1, <2>2, <2>3 DEF Survives, Holding, poolVars
<1>3. QED
  BY <1>1, <1>2

(* Nothing else keeps it from a pool and a connection.                      *)
LEMMA NothingRefused ==
  ASSUME Types, Borrowed, Books, Surviving, NEW w \in undisturbed, w \in Writers
  PROVE  ~NoPool(w) /\ ~NoConnection(w) /\ ~ReleaseFails(w)
<1>0. Survives(w)
  BY DEF Surviving
<1>1. ~NoPool(w)
  BY <1>0 DEF NoPool, Survives
<1>2. ~ReleaseFails(w)
  BY <1>0 DEF ReleaseFails, Survives, Books, Holding
<1>3. ASSUME NoConnection(w) PROVE FALSE
  <2>1. PICK p \in Pools : p = ref[w] /\ p = current
    BY <1>0, <1>3, PoolSizeAssumption DEF NoConnection, Survives, Types, PoolTypeOK, None
  <2>2. p \notin shut /\ server = "up"
    BY <1>0, <2>1 DEF Books, Survives
  <2>3. Cardinality(used[p]) >= MaxConn
    BY <1>3, <2>1, <2>2 DEF NoConnection, ConnectFails, GetConnFails
  <2>4. \A v \in Writers : pc[v] \notin Holding
    BY <1>0, <1>3 DEF NoConnection, Survives, Holding
  <2>5. used[p] = {}
    BY <2>2, <2>4 DEF Books, Balanced, Lent, Borrowed
  <2>6. QED
    BY <2>3, <2>5, FS_EmptySet, PoolSizeAssumption
<1>4. QED
  BY <1>1, <1>2, <1>3

(* The transaction on the connection it holds.                              *)
LEMMA SurvivesWriting ==
  ASSUME Types, Borrowed, Surviving, NEW w \in undisturbed, w \in Writers, w \in undisturbed',
         \/ Statement(w) \/ Commit(w) \/ CommitAckLost(w) \/ ConnectionGone(w)
         \/ StatementFails(w) \/ Rollback(w)
  PROVE  Survives(w)'
<1>0. Survives(w)
  BY DEF Surviving
<1>1. CASE Statement(w)
  <2>1. /\ UNCHANGED <<poolVars, pc, attempt, ref, held, pending, outcome, stored>>
    BY <1>1 DEF Statement
  <2>2. Dead' = Dead
    BY <2>1, DeadStays DEF poolVars
  <2>3. QED
    BY <1>0, <2>1, <2>2 DEF Survives, Holding, poolVars
<1>2. CASE Commit(w)
  <2>1. /\ pc[w] = "write" /\ UNCHANGED <<poolVars, ref>>
        /\ stored'[w] = stored[w] + 1 /\ pending'[w] = "returned"
        /\ pc'[w] = "release" /\ \A v \in Writers \ {w} : pc'[v] = pc[v]
    BY <1>2 DEF Commit, Goto, Types
  <2>2. stored'[w] = 1
    BY <1>0, <2>1 DEF Survives
  <2>3. QED
    BY <1>0, <2>1, <2>2 DEF Survives, Holding, poolVars
<1>3. CASE ConnectionGone(w)
  <2>1. PICK c \in Conns : c = held[w]
    BY <1>3 DEF ConnectionGone, Borrowed, Holding, Types
  <2>2. /\ pc[w] = "write" /\ link[c] # "live" /\ link' = [link EXCEPT ![c] = "broken"]
        /\ UNCHANGED <<server, current, idle, attempt, ref, held, stored>>
        /\ pending'[w] = "retry"
        /\ pc'[w] = "rollback" /\ \A v \in Writers \ {w} : pc'[v] = pc[v]
    BY <1>3, <2>1 DEF ConnectionGone, Breaks, Goto, Types
  <2>3. link'[c] = "broken" /\ \A d \in Conns : link'[d] = "live" <=> link[d] = "live"
    BY <2>2 DEF Types, PoolTypeOK
  <2>4. Dead' = Dead
    BY <2>2, <2>3, DeadStays
  <2>5. stored[w] = 0 /\ attempt[w] + Dead < MaxAttempts
    BY <1>0, <2>1, <2>2 DEF Survives
  <2>6. QED
    BY <1>0, <2>1, <2>2, <2>3, <2>4, <2>5 DEF Survives, Holding
<1>4. CASE Rollback(w)
  <2>1. PICK c \in Conns : c = held[w]
    BY <1>4 DEF Rollback, Borrowed, Holding, Types
  <2>2. /\ pc[w] = "rollback"
        /\ UNCHANGED <<server, current, idle, attempt, ref, held, stored, pending>>
        /\ pc'[w] = "release" /\ \A v \in Writers \ {w} : pc'[v] = pc[v]
    BY <1>4 DEF Rollback, Goto, Types
  <2>3. pending[w] = "retry" /\ stored[w] = 0 /\ link[c] = "broken" /\ attempt[w] + Dead < MaxAttempts
    BY <1>0, <2>1, <2>2 DEF Survives, Holding
  <2>4. link' = link
    BY <1>4, <2>1, <2>3 DEF Rollback
  <2>5. Dead' = Dead
    BY <2>2, <2>4, DeadStays
  <2>6. QED
    BY <1>0, <2>1, <2>2, <2>3, <2>4, <2>5 DEF Survives, Holding
<1>5. CASE CommitAckLost(w) \/ StatementFails(w)
  BY <1>5 DEF CommitAckLost, StatementFails
<1>6. QED
  BY <1>1, <1>2, <1>3, <1>4, <1>5

(* A writer that begins alone has an attempt more than the shelf has        *)
(* connections.                                                             *)
LEMMA SurvivesBeginning ==
  ASSUME MinConn < MaxAttempts, Types, Ledger, Apart, Books,
         NEW v \in Writers, Begin(v), NEW w \in undisturbed'
  PROVE  Survives(w)'
<1>1. /\ w = v /\ pc[v] = "new" /\ server = "up" /\ Active = {}
      /\ UNCHANGED <<poolVars, stored>>
  BY DEF Begin
<1>2. /\ pc'[v] = "init" /\ attempt'[v] = 1 /\ \A u \in Writers \ {v} : pc'[u] = pc[u]
  BY DEF Begin, Goto, Types
<1>3. \A u \in Writers : pc[u] \in {"new", "done"}
  BY <1>1 DEF Active
<1>4. Dead' = Dead
  BY <1>1, DeadStays DEF poolVars
<1>5. Dead \in Nat /\ Dead <= MinConn
  BY DeadIsANumber, DeadIsBounded
<1>6. 1 + Dead' <= MaxAttempts
  BY <1>4, <1>5, PoolSizeAssumption, WriterAssumption
<1>7. stored'[v] = 0
  BY <1>1 DEF Ledger, LedgerOf
<1>8. QED
  BY <1>1, <1>2, <1>3, <1>6, <1>7 DEF Survives, Holding, poolVars

-----------------------------------------------------------------------------
(* The theorems                                                             *)

IInv == Types /\ Borrowed /\ Ledger /\ Apart /\ Books

LEMMA IInvInit == Init => IInv
<1> SUFFICES ASSUME Init PROVE IInv
  OBVIOUS
<1>1. Types
  <2>1. PoolTypeOK
    BY PoolSizeAssumption, EmptySeq DEF Init, PoolInit, PoolTypeOK, None
  <2>2. QED
    BY <2>1, WriterAssumption DEF Init, Types, None
<1>2. Borrowed
  BY DEF Init, PoolInit, Borrowed, Holding, None
<1>3. Ledger
  <2>1. \A w \in Writers : pc[w] = "new" /\ stored[w] = 0 /\ attempt[w] = 0
    BY DEF Init
  <2>2. QED
    BY <2>1 DEF Ledger, LedgerOf
<1>4. Apart
  <2>1. \A p \in Pools : idle[p] = <<>> /\ Shelves[p] = {}
    BY DEF Init, PoolInit, Shelves, Shelf
  <2>2. Placed(held, Shelves, link)
    BY <2>1, WriterAssumption DEF Init, PoolInit, Placed
  <2>3. \A p \in Pools : Injective(idle[p])
    BY <2>1 DEF Injective
  <2>4. QED
    BY <2>2, <2>3 DEF Apart
<1>5. Books
  <2>1. \A p \in Pools : idle[p] = <<>> /\ used[p] = {} /\ Lent(held, ref, p) = {}
    BY DEF Init, PoolInit, Lent
  <2>2. Cardinality({}) = 0 /\ Len(<<>>) = 0
    BY FS_EmptySet, EmptySeq
  <2>3. \A p \in Pools : Balanced(p)
    <3>1. 0 <= MinConn /\ 0 + 0 <= MaxConn
      BY PoolSizeAssumption
    <3>2. \A p \in Pools : Len(idle[p]) = 0 /\ Cardinality(used[p]) = 0
      BY <2>1, <2>2
    <3>3. QED
      BY <2>1, <3>1, <3>2 DEF Balanced
  <2>4. QED
    BY <2>1, <2>3 DEF Init, PoolInit, Books
<1>6. QED
  BY <1>1, <1>2, <1>3, <1>4, <1>5 DEF IInv

LEMMA IInvStep == IInv /\ [Next]_vars => IInv'
<1> SUFFICES ASSUME IInv, [Next]_vars PROVE IInv'
  OBVIOUS
<1> USE DEF IInv
<1>1. Types'
  <2>1. CASE UNCHANGED vars
    BY <2>1 DEF vars, poolVars, writerVars, Types, PoolTypeOK
  <2>2. CASE Next
    BY <2>2, WriterTypesKept, EnvironmentTypesKept DEF Next
  <2>3. QED
    BY <2>1, <2>2
<1>2. QED
  BY <1>1, BorrowedStep, LedgerStep, ApartStep, BooksStep

LEMMA IInvAlways == Spec => []IInv
  BY IInvInit, IInvStep, PTL DEF Spec

LEMMA SurvivingStep ==
  ASSUME MinConn < MaxAttempts, IInv, Surviving, [Next]_vars
  PROVE  Surviving'
<1> USE DEF IInv
<1> SUFFICES ASSUME NEW w \in undisturbed' PROVE Survives(w)'
  BY DEF Surviving
<1>1. CASE UNCHANGED vars
  <2>1. UNCHANGED <<poolVars, writerVars>>
    BY <1>1 DEF vars
  <2>2. Dead' = Dead
    BY <2>1, DeadStays DEF poolVars
  <2>3. Survives(w)
    BY <2>1 DEF Surviving, writerVars
  <2>4. QED
    BY <2>1, <2>2, <2>3 DEF Survives, poolVars, writerVars
<1>2. CASE Environment
  <2>1. Recover /\ undisturbed' = undisturbed
    BY <1>2 DEF Environment
  <2>2. server = "down" /\ server = "up"
    BY <2>1 DEF Recover, Surviving, Survives
  <2>3. QED
    BY <2>2
<1>3. ASSUME NEW v \in Writers, WriterStep(v) PROVE Survives(w)'
  <2>1. w \in undisturbed
    BY <1>3 DEF WriterStep, FindPool, NoPool, TakePool, GetConn, NoConnection, Statement, Commit,
                CommitAckLost, ConnectionGone, StatementFails, Rollback, Release, ReleaseFails
  <2>2. v = w /\ w \in Writers
    BY <1>3, <2>1, OnlyItself
  <2>3. CASE FindPool(w) \/ TakePool(w)
    BY <2>1, <2>2, <2>3, SurvivesLooking
  <2>4. CASE GetConn(w)
    BY <2>1, <2>2, <2>4, SurvivesTaking
  <2>5. CASE Release(w)
    BY <2>1, <2>2, <2>5, SurvivesReturning
  <2>6. CASE NoPool(w) \/ NoConnection(w) \/ ReleaseFails(w)
    BY <2>1, <2>2, <2>6, NothingRefused
  <2>7. CASE \/ Statement(w) \/ Commit(w) \/ CommitAckLost(w) \/ ConnectionGone(w)
             \/ StatementFails(w) \/ Rollback(w)
    BY <2>1, <2>2, <2>7, SurvivesWriting
  <2>8. QED
    BY <1>3, <2>2, <2>3, <2>4, <2>5, <2>6, <2>7 DEF WriterStep
<1>4. ASSUME NEW v \in Writers, Begin(v) PROVE Survives(w)'
  BY <1>4, SurvivesBeginning
<1>5. QED
  BY <1>1, <1>2, <1>3, <1>4 DEF Next

(* Every variable stays within its range: above all, no writer begins or    *)
(* stores more than MaxAttempts runs, however its attempts end.             *)
THEOREM TypeCorrect == Spec => []TypeOK
<1>1. IInv => TypeOK
  <2> SUFFICES ASSUME IInv PROVE TypeOK
    OBVIOUS
  <2>1. \A w \in Writers : stored[w] \in 0..MaxAttempts
    BY WriterAssumption DEF IInv, Types, Ledger, LedgerOf
  <2>2. stored \in [Writers -> 0..MaxAttempts]
    BY <2>1 DEF IInv, Types
  <2>3. QED
    BY <2>2 DEF IInv, Types, TypeOK
<1>2. QED
  BY <1>1, IInvAlways, PTL

(* What execute_pipeline answers agrees with the database, whatever breaks  *)
(* in between and however the retries go.                                   *)
THEOREM AnswersAgreeWithStore == Spec => []AnswerAgreesWithStore
<1>1. IInv => AnswerAgreesWithStore
  BY DEF IInv, Types, Ledger, LedgerOf, AnswerAgreesWithStore
<1>2. QED
  BY <1>1, IInvAlways, PTL

(* pooled_connection never has two writers on one connection, nor one that  *)
(* is on a shelf as well.                                                   *)
THEOREM ConnectionsAreExclusive == Spec => []ExclusiveConnections
<1>1. IInv => ExclusiveConnections
  <2> SUFFICES ASSUME IInv PROVE ExclusiveConnections
    OBVIOUS
  <2>1. \A p \in Pools : OnShelf(p) = Shelves[p] /\ OnShelf(p) = Shelf(idle[p])
    BY DEF OnShelf, Shelves, Shelf
  <2>2. \A p \in Pools : idle[p] \in Seq(Conns) /\ Injective(idle[p])
    BY DEF IInv, Types, PoolTypeOK, Apart
  <2>3. \A p \in Pools : Cardinality(OnShelf(p)) = Len(idle[p])
    BY <2>1, <2>2, ShelfSize
  <2>4. QED
    BY <2>1, <2>3 DEF IInv, Apart, Placed, ExclusiveConnections
<1>2. QED
  BY <1>1, IInvAlways, PTL

(* An open pool has lent what writers hold and no more, keeps at most       *)
(* MinConn on its shelf and never has more than MaxConn open.               *)
THEOREM ConnectionsComeBackAlways == Spec => []ConnectionsComeBack
<1>1. IInv => ConnectionsComeBack
  BY DEF IInv, Books, Balanced, Lent, ConnectionsComeBack
<1>2. QED
  BY <1>1, IInvAlways, PTL

(* A write that begins alone on a server that is up, and that nothing       *)
(* disturbs, succeeds and is stored once, however many connections of the   *)
(* shelf an earlier outage has cut: provided with_retry has an attempt more *)
(* than the pool keeps connections, as it has by default (3 and 2).         *)
THEOREM RestartsAreSurvived ==
  ASSUME MinConn < MaxAttempts
  PROVE  Spec => []RestartSurvived
<1>1. Init => Surviving
  BY DEF Init, Surviving
<1>2. IInv /\ Surviving /\ [Next]_vars => Surviving'
  BY SurvivingStep
<1>3. IInv /\ Surviving => RestartSurvived
  BY DEF Surviving, Survives, RestartSurvived
<1>4. QED
  BY <1>1, <1>2, <1>3, IInvAlways, PTL DEF Spec
=============================================================================
