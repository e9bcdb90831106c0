---------------------------- MODULE ConnectionPool ----------------------------
(***************************************************************************)
(* The process-wide PostgreSQL pool (db/psycopg2_connection.py) and what   *)
(* the writer can see of the database behind it.                           *)
(*                                                                         *)
(* The pool proper is psycopg2's ThreadedConnectionPool; its getconn,      *)
(* putconn and closeall are modelled from how this code uses them: idle    *)
(* connections are handed out last in, first out, at most MinConn of them  *)
(* are kept, at most MaxConn are in use.  close_pool and a later           *)
(* _init_pool may leave several pool objects behind, so pools are numbered.*)
(***************************************************************************)
EXTENDS Naturals, Sequences, FiniteSets

CONSTANTS
  Conns,       \* connections that can be open at a time
  MinConn,     \* DB_POOL_MIN
  MaxConn,     \* DB_POOL_MAX
  MaxPools,    \* bound: pools created in one life of the process
  MaxOutages   \* bound: database outages

ASSUME PoolSizeAssumption ==
  /\ MinConn \in Nat /\ MaxConn \in Nat \ {0} /\ MinConn <= MaxConn
  /\ MaxPools \in Nat \ {0} /\ MaxOutages \in Nat
ASSUME ConnsAssumption == IsFiniteSet(Conns)

Pools == 1..MaxPools
None  == 0

VARIABLES
  server,    \* "up" or "down"
  outages,   \* outages so far
  link,      \* closed, live, stale (server side gone, not noticed), broken (noticed)
  current,   \* _POOL: number of the pool, or None
  made,      \* pools created so far
  shut,      \* pools that were closed
  idle,      \* connections each pool has on the shelf, last one next
  used       \* connections each pool has lent

poolVars == <<server, outages, link, current, made, shut, idle, used>>

OnShelf(p)  == {idle[p][i] : i \in DOMAIN idle[p]}
Unopened    == {c \in Conns : link[c] = "closed"}

PoolInit ==
  /\ server = "up" /\ outages = 0
  /\ link = [c \in Conns |-> "closed"]
  /\ current = None /\ made = 0 /\ shut = {}
  /\ idle = [p \in Pools |-> <<>>]
  /\ used = [p \in Pools |-> {}]

(* The server goes away: every open connection is cut without the client    *)
(* noticing before it next uses it.                                         *)
Outage ==
  /\ server = "up" /\ outages < MaxOutages
  /\ server' = "down" /\ outages' = outages + 1
  /\ link' = [c \in Conns |-> IF link[c] = "live" THEN "stale" ELSE link[c]]
  /\ UNCHANGED <<current, made, shut, idle, used>>

Recover ==
  /\ server = "down"
  /\ server' = "up"
  /\ UNCHANGED <<outages, link, current, made, shut, idle, used>>

(* _init_pool under its lock: the constructor opens MinConn connections.    *)
CreatePool ==
  /\ current = None /\ made < MaxPools /\ server = "up"
  /\ \E first \in [1..MinConn -> Unopened] :
       /\ \A i, j \in 1..MinConn : first[i] = first[j] => i = j
       /\ idle' = [idle EXCEPT ![made + 1] = first]
       /\ link' = [c \in Conns |-> IF \E i \in 1..MinConn : first[i] = c
                                   THEN "live" ELSE link[c]]
  /\ made' = made + 1
  /\ current' = made + 1
  /\ UNCHANGED <<server, outages, shut, used>>

(* getconn from the shelf.  Mutant: a pool without a lock                   *)
(* (SimpleConnectionPool), where two threads can pop the same connection.   *)
TakeIdleUnlocked(p, c) ==
  /\ p \notin shut
  /\ idle[p] # <<>>
  /\ c = idle[p][Len(idle[p])]
  /\ used' = [used EXCEPT ![p] = used[p] \union {c}]
  /\ UNCHANGED <<server, outages, link, current, made, shut, idle>>
TakeIdle(p, c) ==
  /\ p \notin shut
  /\ idle[p] # <<>>
  /\ c = idle[p][Len(idle[p])]
  /\ idle' = [idle EXCEPT ![p] = SubSeq(idle[p], 1, Len(idle[p]) - 1)]
  /\ used' = [used EXCEPT ![p] = used[p] \union {c}]
  /\ UNCHANGED <<server, outages, link, current, made, shut>>

(* getconn with an empty shelf opens a connection of its own.               *)
OpenNew(p, c) ==
  /\ p \notin shut
  /\ idle[p] = <<>>
  /\ Cardinality(used[p]) < MaxConn
  /\ server = "up"
  /\ c \in Unopened
  /\ link' = [link EXCEPT ![c] = "live"]
  /\ used' = [used EXCEPT ![p] = used[p] \union {c}]
  /\ UNCHANGED <<server, outages, current, made, shut, idle>>

(* getconn raises PoolError: the pool is closed or exhausted.               *)
GetConnFails(p) ==
  \/ p \in shut
  \/ idle[p] = <<>> /\ Cardinality(used[p]) >= MaxConn

(* Opening a connection raises OperationalError.                            *)
ConnectFails(p) ==
  /\ p \notin shut /\ idle[p] = <<>>
  /\ Cardinality(used[p]) < MaxConn
  /\ server = "down"

(* putconn: back on the shelf if there is room and the client believes the  *)
(* connection to be open, else closed.                                      *)
PutConn(p, c) ==
  /\ p \notin shut
  /\ used' = [used EXCEPT ![p] = used[p] \ {c}]
  /\ IF Len(idle[p]) < MinConn /\ link[c] \in {"live", "stale"}
     THEN idle' = [idle EXCEPT ![p] = Append(idle[p], c)] /\ UNCHANGED link
     ELSE link' = [link EXCEPT ![c] = "closed"] /\ UNCHANGED idle
  /\ UNCHANGED <<server, outages, current, made, shut>>

(* close_pool at the end of the application's life: connections on the      *)
(* shelf and lent ones alike are closed under their users.                  *)
ClosePool ==
  /\ current # None
  /\ link' = [c \in Conns |->
                IF c \in used[current] THEN "broken"
                ELSE IF c \in OnShelf(current) THEN "closed" ELSE link[c]]
  /\ idle' = [idle EXCEPT ![current] = <<>>]
  /\ shut' = shut \union {current}
  /\ current' = None
  /\ UNCHANGED <<server, outages, made, used>>

PoolTypeOK ==
  /\ server \in {"up", "down"}
  /\ outages \in 0..MaxOutages
  /\ link \in [Conns -> {"closed", "live", "stale", "broken"}]
  /\ current \in Pools \union {None}
  /\ made \in 0..MaxPools
  /\ shut \subseteq Pools
  /\ idle \in [Pools -> Seq(Conns)]
  /\ used \in [Pools -> SUBSET Conns]
=============================================================================
