------------------------- MODULE EventStores_proofs --------------------------
(***************************************************************************)
(* What the event stores promise to whoever got an id back: proofs about   *)
(* SQLite with and without write-behind, Redis with and without scripting, *)
(* and Postgres, for any number of writers, readers, streams and tenants,  *)
(* and any bounds.                                                         *)
(***************************************************************************)
EXTENDS EventStores, OrderedSequences_proofs

-----------------------------------------------------------------------------
(* Types.                                                                  *)

RowsOf(b) == [id : 1..Bound[b].stores, s : Streams, t : Tenants, k : Kinds, call : 1..Bound[b].stores]
\* The rows that the first n calls of store_event can have made.
Made(b, n) == {x \in RowsOf(b) : x.call <= n}
LinksOf(b) == {Root} \cup [p : Streams, at : 1..Bound[b].stores]

Tables ==
    /\ backend \in Backends
    /\ used \in [{"stores", "forks", "faults", "reads"} -> Nat] /\ used.stores <= Bound[backend].stores
    /\ seq \in Nat /\ seq <= used.stores /\ disk.seq \in Nat /\ disk.seq <= used.stores
    /\ rows \cup disk.rows \cup acked \subseteq Made(backend, used.stores)
    /\ index \subseteq [s : Streams, id : 1..Bound[backend].stores]
    /\ forks \in [Streams -> LinksOf(backend)] /\ disk.forks \in [Streams -> LinksOf(backend)]
    /\ old \cup removed \subseteq 1..Bound[backend].stores

\* The stages of a store_event that has its row.
RowStages(b) ==
    CASE b = "sqlite" -> {"commit1"}
      [] b = "behind" -> {"count", "flush", "commit", "reset"}
      [] b = "script" -> {"publish"}
      [] b = "pipe" -> {"hset", "zadd", "trim", "publish"}
      [] b = "postgres" -> {"insert", "publish"}
PurgeAt(b, o) == o.k = "purge" /\ b \in {"sqlite", "behind", "postgres"}
WriterAt(b, n, o) ==
    \/ o = Idle
    \/ PurgeAt(b, o)
    \/ o.k = "commit2" /\ b \in {"sqlite", "behind"} /\ (o.next = Idle \/ PurgeAt(b, o.next))
    \/ o \in [k : RowStages(b), row : Made(b, n)]
ServiceAt(b, p, o) ==
    \/ o = Idle
    \/ b = "behind" /\ p = "flusher" /\ o \in [k : {"sleep", "flush", "commit", "reset"}]
    \/ b = "behind" /\ p = "closer" /\ o \in [k : {"flush", "commit", "reset", "close", "closed"}]
At(b, n, p, o) ==
    /\ p \in Writers => WriterAt(b, n, o)
    /\ p \in Services => ServiceAt(b, p, o)
Coroutines == DOMAIN op = Procs /\ \A p \in Procs : At(backend, used.stores, p, op[p])

\* _commit_lock is held by whoever is at a stage under it; an INSERT that is not counted yet
\* is one that the calls made account for.
Locked == {"count", "commit", "reset"}
Locks ==
    /\ lock \in Procs \cup {Nobody} /\ pending \in Nat /\ pending <= used.stores
    /\ \A p \in Writers \cup Services : op[p].k \in Locked => lock = p /\ backend = "behind"
    /\ \A p \in Writers : op[p].k = "count" => pending < used.stores
Typed == Tables /\ Coroutines /\ Locks

-----------------------------------------------------------------------------
(* What the steps have in common.                                          *)

LEMMA BoundFacts ==
    ASSUME NEW b \in Backends
    PROVE  Bound[b].stores \in Nat
BY TableAssumption

LEMMA BumpFacts ==
    ASSUME Tables, NEW c \in {"stores", "forks", "faults", "reads"}, Bump(c)
    PROVE  /\ used' \in [{"stores", "forks", "faults", "reads"} -> Nat]
           /\ used'.stores = IF c = "stores" THEN used.stores + 1 ELSE used.stores
           /\ c = "stores" => used.stores + 1 <= Bound[backend].stores
           /\ used.stores <= used'.stores
<1>1. /\ used' = [used EXCEPT ![c] = @ + 1] /\ used[c] < Bound[backend][c]
      /\ used \in [{"stores", "forks", "faults", "reads"} -> Nat] /\ backend \in Backends
  BY DEF Bump, Tables
<1>2. used[c] \in Nat /\ used.stores \in Nat /\ Bound[backend].stores \in Nat
  BY <1>1, BoundFacts
<1>3. used' \in [{"stores", "forks", "faults", "reads"} -> Nat]
  BY <1>1, <1>2
<1>4. used'.stores = IF c = "stores" THEN used.stores + 1 ELSE used.stores
  BY <1>1
<1> QED
  BY <1>1, <1>2, <1>3, <1>4

\* The row of the next call.
LEMMA NewRowFacts ==
    ASSUME Tables, used.stores + 1 <= Bound[backend].stores, NEW s \in Streams, NEW t \in Tenants, NEW k \in Kinds
    PROVE  /\ NewRow(s, t, k) \in Made(backend, used.stores + 1)
           /\ NewRow(s, t, k).id = seq + 1 /\ NewRow(s, t, k).call = used.stores + 1
           /\ NewRow(s, t, k).s = s /\ NewRow(s, t, k).k = k
           /\ NewRow(s, t, k) \notin Made(backend, used.stores)
<1>1. seq \in Nat /\ used.stores \in Nat /\ seq <= used.stores /\ Bound[backend].stores \in Nat
  BY BoundFacts DEF Tables
<1>2. seq + 1 \in 1..Bound[backend].stores /\ used.stores + 1 \in 1..Bound[backend].stores
  BY <1>1
<1> QED
  BY <1>1, <1>2 DEF NewRow, Made, RowsOf

LEMMA MadeGrows ==
    ASSUME NEW b \in Backends, NEW n \in Nat, NEW m \in Nat, n <= m
    PROVE  Made(b, n) \subseteq Made(b, m)
<1>1. \A x \in RowsOf(b) : x.call \in Nat
  BY BoundFacts DEF RowsOf
<1> QED
  BY <1>1 DEF Made

LEMMA MadeFacts ==
    ASSUME Tables
    PROVE  \A x \in Made(backend, used.stores) :
              /\ x.id \in 1..Bound[backend].stores /\ x.s \in Streams /\ x.call \in Nat /\ x.call <= used.stores
              /\ x.t \in Tenants /\ x.k \in Kinds
BY BoundFacts DEF Made, RowsOf, Tables

\* A step that leaves the tables alone, or grows them by what it may.
LEMMA TablesGrow ==
    ASSUME Tables, backend' = backend,
           used' \in [{"stores", "forks", "faults", "reads"} -> Nat], used'.stores <= Bound[backend].stores,
           used.stores <= used'.stores, seq' \in Nat, seq <= seq', seq' <= used'.stores,
           rows' \subseteq Made(backend, used'.stores),
           acked' \subseteq Made(backend, used'.stores), disk' \in {disk, Now},
           index' \subseteq [s : Streams, id : 1..Bound[backend].stores],
           forks' \in [Streams -> LinksOf(backend)],
           old' \cup removed' \subseteq 1..Bound[backend].stores
    PROVE  Tables'
<1>1. backend \in Backends /\ used.stores \in Nat /\ used'.stores \in Nat
  BY DEF Tables
<1>2. Made(backend, used.stores) \subseteq Made(backend, used'.stores)
  BY <1>1, MadeGrows
<1>3. /\ disk'.seq \in Nat /\ disk'.seq <= used'.stores /\ disk'.forks \in [Streams -> LinksOf(backend)]
      /\ disk'.rows \subseteq Made(backend, used'.stores)
  BY <1>1, <1>2 DEF Tables, Now
<1> QED
  BY <1>3 DEF Tables

LEMMA TablesSame ==
    ASSUME Tables, UNCHANGED <<backend, rows, index, forks, seq, old, acked, removed>>, disk' \in {disk, Now},
           used' = used \/ Bump("forks") \/ Bump("faults") \/ Bump("reads")
    PROVE  /\ Tables'
           /\ used' \in [{"stores", "forks", "faults", "reads"} -> Nat] /\ used'.stores = used.stores
<1>1. used' \in [{"stores", "forks", "faults", "reads"} -> Nat] /\ used'.stores = used.stores
  BY BumpFacts DEF Tables
<1>2. used.stores \in Nat /\ seq \in Nat /\ Bound[backend].stores \in Nat
  BY BoundFacts DEF Tables
<1> QED
  BY <1>1, <1>2, TablesGrow DEF Tables

\* A coroutine goes on.
LEMMA Goes ==
    ASSUME Tables, Coroutines, NEW p \in Procs, NEW o, op' = [op EXCEPT ![p] = o], backend' = backend,
           used'.stores \in Nat, used.stores <= used'.stores, At(backend, used'.stores, p, o)
    PROVE  Coroutines' /\ op'[p] = o /\ \A q \in Procs \ {p} : op'[q] = op[q]
<1>1. DOMAIN op' = Procs /\ op'[p] = o /\ \A q \in Procs \ {p} : op'[q] = op[q]
  BY DEF Coroutines
<1>2. Made(backend, used.stores) \subseteq Made(backend, used'.stores)
  BY MadeGrows DEF Tables
<1>3. ASSUME NEW q \in Procs PROVE At(backend, used'.stores, q, op'[q])
  <2>1. CASE q = p
    BY <1>1, <2>1
  <2>2. CASE q # p
    <3>1. op'[q] = op[q] /\ At(backend, used.stores, q, op[q])
      BY <1>1, <2>2 DEF Coroutines
    <3> QED
      BY <1>2, <3>1 DEF At, WriterAt
  <2> QED
    BY <2>1, <2>2
<1> QED
  BY <1>1, <1>3 DEF Coroutines

\* The lock and the count stay, and whoever moves is not under the lock.
LEMMA LocksStay ==
    ASSUME Typed, NEW p \in Procs, NEW o, op' = [op EXCEPT ![p] = o], UNCHANGED <<backend, sqvars>>,
           used'.stores \in Nat, used.stores <= used'.stores, o.k \notin Locked
    PROVE  Locks'
<1>1. op'[p] = o /\ \A q \in Procs \ {p} : op'[q] = op[q]
  BY DEF Typed, Coroutines
<1>2. pending' = pending /\ lock' = lock /\ Writers \subseteq Procs /\ Services \subseteq Procs
  BY DEF sqvars, Procs
<1>3. used.stores \in Nat
  BY DEF Typed, Tables
<1> QED
  BY <1>1, <1>2, <1>3 DEF Typed, Locks, Locked

\* A reader goes on.
LEMMA ReaderGoes ==
    ASSUME Typed, NEW r \in Readers, NEW o, op' = [op EXCEPT ![r] = o], UNCHANGED <<backend, sqvars>>,
           used'.stores \in Nat, used.stores <= used'.stores
    PROVE  Coroutines' /\ Locks'
<1>1. r \in Procs /\ r \notin Writers \cup Services /\ At(backend, used'.stores, r, o)
  BY TableAssumption DEF Procs, At
<1>2. Coroutines' /\ \A q \in Procs \ {r} : op'[q] = op[q]
  BY <1>1, Goes DEF Typed
<1>3. pending' = pending /\ lock' = lock /\ Writers \subseteq Procs /\ Services \subseteq Procs
  BY DEF sqvars, Procs
<1>4. used.stores \in Nat
  BY DEF Typed, Tables
<1> QED
  BY <1>1, <1>2, <1>3, <1>4 DEF Typed, Locks

Rowed == {"commit1", "count", "flush", "commit", "reset", "hset", "zadd", "trim", "publish", "insert"}

\* What a stage says of a writer, and of the store it writes to.
LEMMA WriterFacts ==
    ASSUME Typed, NEW p \in Writers
    PROVE  /\ p \in Procs /\ p \notin Readers /\ p \notin Services /\ p # Nobody /\ backend \in Backends
           /\ WriterAt(backend, used.stores, op[p])
           /\ op[p].k \in Rowed => /\ op[p] \in [k : RowStages(backend), row : Made(backend, used.stores)]
                                   /\ op[p].k \in RowStages(backend) /\ op[p].row \in Made(backend, used.stores)
           /\ op[p].k = "commit2" => backend \in {"sqlite", "behind"} /\ (op[p].next = Idle \/ PurgeAt(backend, op[p].next))
           /\ op[p].k = "purge" => PurgeAt(backend, op[p])
<1>1. p \in Procs /\ p \notin Readers /\ p \notin Services /\ p # Nobody /\ backend \in Backends
  BY TableAssumption DEF Procs, Typed, Tables
<1>2. WriterAt(backend, used.stores, op[p])
  BY <1>1 DEF Typed, Coroutines, At
<1>3. op[p].k \in Rowed => op[p] \in [k : RowStages(backend), row : Made(backend, used.stores)]
  BY <1>2 DEF WriterAt, Rowed, PurgeAt, Idle
<1>4. op[p].k = "commit2" => backend \in {"sqlite", "behind"} /\ (op[p].next = Idle \/ PurgeAt(backend, op[p].next))
  <2>1. "commit2" \notin RowStages(backend)
    BY <1>1, TableAssumption DEF RowStages
  <2> QED
    BY <1>2, <2>1 DEF WriterAt, PurgeAt, Idle
<1>5. op[p].k = "purge" => PurgeAt(backend, op[p])
  <2>1. "purge" \notin RowStages(backend)
    BY <1>1, TableAssumption DEF RowStages
  <2> QED
    BY <1>2, <2>1 DEF WriterAt, PurgeAt, Idle
<1> QED
  BY <1>1, <1>2, <1>3, <1>4, <1>5

\* The store that each stage belongs to.
LEMMA StageFacts ==
    ASSUME Typed, NEW p \in Writers
    PROVE  /\ op[p].k = "commit1" => backend = "sqlite"
           /\ op[p].k \in {"count", "flush", "commit", "reset"} => backend = "behind"
           /\ op[p].k \in {"hset", "zadd", "trim"} => backend = "pipe"
           /\ op[p].k = "publish" => backend \in {"script", "pipe", "postgres"}
           /\ op[p].k = "insert" => backend = "postgres"
<1>1. op[p].k \in Rowed => op[p].k \in RowStages(backend)
  BY WriterFacts
<1>2. backend \in {"sqlite", "behind", "script", "pipe", "postgres"}
  BY TableAssumption DEF Typed, Tables
<1> QED
  BY <1>1, <1>2 DEF Rowed, RowStages

LEMMA ServiceFacts ==
    ASSUME Typed
    PROVE  /\ {"flusher", "closer"} \subseteq Procs /\ "flusher" \notin Writers /\ "closer" \notin Writers
           /\ "flusher" \notin Readers /\ "closer" \notin Readers
           /\ ServiceAt(backend, "flusher", op["flusher"]) /\ ServiceAt(backend, "closer", op["closer"])
           /\ \A p \in Services : op[p].k # "idle" => backend = "behind"
<1>1. {"flusher", "closer"} \subseteq Procs /\ "flusher" \notin Writers /\ "closer" \notin Writers
      /\ "flusher" \notin Readers /\ "closer" \notin Readers
  BY TableAssumption DEF Procs, Services
<1>2. ServiceAt(backend, "flusher", op["flusher"]) /\ ServiceAt(backend, "closer", op["closer"])
  BY <1>1 DEF Typed, Coroutines, At, Services
<1> QED
  BY <1>1, <1>2 DEF ServiceAt, Services, Idle

-----------------------------------------------------------------------------
(* Types: the steps of SQLite.                                             *)

\* A writer's step that touches no lock.
LEMMA WriterGoes ==
    ASSUME Typed, NEW p \in Writers, NEW o, op' = [op EXCEPT ![p] = o], UNCHANGED <<backend, sqvars>>,
           used'.stores \in Nat, used.stores <= used'.stores, WriterAt(backend, used'.stores, o), o.k \notin Locked
    PROVE  Coroutines' /\ Locks'
<1>1. p \in Procs /\ p \notin Services
  BY WriterFacts
<1>2. At(backend, used'.stores, p, o)
  BY <1>1 DEF At
<1> QED
  BY <1>1, <1>2, Goes, LocksStay DEF Typed

LEMMA SqStoreTyped ==
    ASSUME Typed, NEW p \in Writers, NEW s \in Streams, NEW k \in Kinds, SqStore(p, s, k)
    PROVE  Typed'
<1> DEFINE x == NewRow(s, TenantOf[p], k)
           o == [k |-> "commit1", row |-> x]
<1>1. /\ backend = "sqlite" /\ Bump("stores") /\ rows' = rows \cup {x} /\ seq' = seq + 1
      /\ op' = [op EXCEPT ![p] = o] /\ UNCHANGED <<backend, index, forks, old, disk, acked, removed, sqvars>>
  BY DEF SqStore, Go
<1>2. Tables /\ backend \in Backends /\ used.stores \in Nat /\ seq \in Nat /\ seq <= used.stores
  BY DEF Typed, Tables
<1>3. /\ used' \in [{"stores", "forks", "faults", "reads"} -> Nat] /\ used'.stores = used.stores + 1
      /\ used.stores + 1 <= Bound[backend].stores
  BY <1>1, <1>2, BumpFacts
<1>4. x \in Made(backend, used.stores + 1) /\ x.id = seq + 1
  BY <1>2, <1>3, NewRowFacts, TableAssumption
<1>5. Made(backend, used.stores) \subseteq Made(backend, used.stores + 1)
  BY <1>2, MadeGrows
<1>6. WriterAt(backend, used'.stores, o) /\ o.k \notin Locked
  BY <1>1, <1>3, <1>4 DEF WriterAt, RowStages, Locked
<1> HIDE DEF x, o
<1>7. Tables'
  BY <1>1, <1>2, <1>3, <1>4, <1>5, TablesGrow DEF Tables
<1>8. Coroutines' /\ Locks'
  <2>1. used'.stores \in Nat /\ used.stores <= used'.stores /\ UNCHANGED <<backend, sqvars>>
    BY <1>1, <1>2, <1>3
  <2> QED
    BY <1>1, <1>6, <2>1, WriterGoes
<1> QED
  BY <1>7, <1>8 DEF Typed

\* A writer goes on and the tables stay, or are committed.
LEMMA WriterTyped ==
    ASSUME Typed, NEW p \in Writers, NEW o, op' = [op EXCEPT ![p] = o], WriterAt(backend, used.stores, o), o.k \notin Locked,
           UNCHANGED <<backend, rows, index, forks, seq, old, acked, removed, sqvars>>, disk' \in {disk, Now},
           used' = used \/ Bump("forks") \/ Bump("faults") \/ Bump("reads")
    PROVE  Typed'
<1>1. Tables' /\ used'.stores = used.stores /\ used.stores \in Nat
  BY TablesSame DEF Typed, Tables
<1>2. Coroutines' /\ Locks'
  <2>1. used'.stores \in Nat /\ used.stores <= used'.stores /\ UNCHANGED <<backend, sqvars>>
    BY <1>1
  <2>2. WriterAt(backend, used'.stores, o)
    BY <1>1
  <2> QED
    BY <2>1, <2>2, WriterGoes
<1> QED
  BY <1>1, <1>2 DEF Typed

\* Its caller gets the id.
LEMMA AckTyped ==
    ASSUME Typed, NEW p \in Writers, op[p].k \in Rowed, Ack(p), UNCHANGED <<backend, rows, index, forks, seq, old, removed>>,
           disk' \in {disk, Now}, used' = used \/ Bump("faults")
    PROVE  Tables' /\ Coroutines' /\ op'[p] = Idle /\ (\A q \in Procs \ {p} : op'[q] = op[q]) /\ used'.stores = used.stores
<1>1. op' = [op EXCEPT ![p] = Idle] /\ acked' = acked \cup {op[p].row}
  BY DEF Ack, Go
<1>2. op[p].row \in Made(backend, used.stores) /\ p \in Procs /\ p \notin Services
  BY WriterFacts
<1>3. /\ used' \in [{"stores", "forks", "faults", "reads"} -> Nat] /\ used'.stores = used.stores /\ used.stores \in Nat
      /\ Tables
  BY BumpFacts DEF Typed, Tables
<1>4. Tables'
  <2>1. seq \in Nat /\ seq <= used.stores /\ used.stores <= Bound[backend].stores
    BY <1>3 DEF Tables
  <2> QED
    BY <1>1, <1>2, <1>3, <2>1, TablesGrow DEF Tables
<1>5. At(backend, used'.stores, p, Idle)
  BY <1>2 DEF At, WriterAt
<1>6. used'.stores \in Nat /\ used.stores <= used'.stores /\ backend' = backend
  BY <1>3
<1>7. Coroutines' /\ op'[p] = Idle /\ \A q \in Procs \ {p} : op'[q] = op[q]
  BY <1>1, <1>2, <1>5, <1>6, Goes DEF Typed
<1> QED
  BY <1>3, <1>4, <1>7

LEMMA SqStoredTyped ==
    ASSUME Typed, NEW p \in Writers, SqStored(p)
    PROVE  Typed'
<1>1. /\ op[p].k \in Rowed /\ Ack(p) /\ disk' = Now /\ UNCHANGED <<pending, lock>>
      /\ UNCHANGED <<backend, rows, index, forks, seq, old, removed, used>>
  BY DEF SqStored, Rowed, Commit, sqvars
<1>2. Tables' /\ Coroutines' /\ op'[p] = Idle /\ \A q \in Procs \ {p} : op'[q] = op[q]
  BY <1>1, AckTyped
<1>3. Locks'
  <2>1. op' = [op EXCEPT ![p] = Idle] /\ Idle.k \notin Locked /\ used.stores \in Nat /\ p \in Procs
    BY <1>1, WriterFacts DEF Ack, Go, Idle, Locked, Typed, Tables
  <2>2. UNCHANGED <<backend, sqvars>> /\ used'.stores \in Nat /\ used.stores <= used'.stores
    BY <1>1, <2>1 DEF sqvars
  <2> QED
    BY <2>1, <2>2, LocksStay
<1> QED
  BY <1>2, <1>3 DEF Typed

LEMMA SqWriterTyped ==
    ASSUME Typed, NEW p \in Writers,
           \/ SqCommitFails(p) \/ SqDone(p)
           \/ \E t \in Tenants, bound \in BOOLEAN : SqPurge(p, t, bound)
    PROVE  Typed'
<1>1. WriterAt(backend, used.stores, Idle) /\ Idle.k \notin Locked
  BY DEF WriterAt, Idle, Locked
<1>2. CASE SqCommitFails(p)
  BY <1>1, <1>2, WriterTyped DEF SqCommitFails, Go
<1>3. CASE SqDone(p)
  <2> DEFINE o == op[p].next
  <2>1. op[p].k = "commit2" /\ op' = [op EXCEPT ![p] = o] /\ disk' = Now
        /\ UNCHANGED <<backend, rows, index, forks, seq, old, acked, removed, used, sqvars>>
    BY <1>3 DEF SqDone, Go, Commit
  <2>2. o = Idle \/ PurgeAt(backend, o)
    BY <2>1, WriterFacts
  <2>3. WriterAt(backend, used.stores, o) /\ o.k \notin Locked
    BY <2>2 DEF WriterAt, PurgeAt, Idle, Locked
  <2> HIDE DEF o
  <2> QED
    BY <2>1, <2>3, WriterTyped
<1>4. ASSUME NEW t \in Tenants, NEW bound \in BOOLEAN, SqPurge(p, t, bound) PROVE Typed'
  <2> DEFINE o == [k |-> "purge", t |-> t, bound |-> bound, cut |-> old]
  <2>1. Sqlite /\ op' = [op EXCEPT ![p] = o]
        /\ UNCHANGED <<backend, rows, index, forks, seq, old, disk, acked, removed, used, sqvars>>
    BY <1>4 DEF SqPurge, Go
  <2>2. WriterAt(backend, used.stores, o) /\ o.k \notin Locked
    BY <2>1 DEF WriterAt, PurgeAt, Locked, Sqlite
  <2> HIDE DEF o
  <2> QED
    BY <2>1, <2>2, WriterTyped
<1> QED
  BY <1>2, <1>3, <1>4

LEMMA SqInsertTyped ==
    ASSUME Typed, NEW p \in Writers, NEW s \in Streams, NEW k \in Kinds, SqInsert(p, s, k)
    PROVE  Typed'
<1> DEFINE x == NewRow(s, TenantOf[p], k)
           o == [k |-> "count", row |-> x]
           f == IF op["flusher"] = Idle THEN [k |-> "sleep"] ELSE op["flusher"]
<1>1. /\ backend = "behind" /\ Bump("stores") /\ rows' = rows \cup {x} /\ seq' = seq + 1 /\ lock = Nobody /\ lock' = p
      /\ UNCHANGED <<backend, index, forks, old, disk, acked, removed, pending>>
  BY DEF SqInsert
<1>2. Tables /\ Locks /\ backend \in Backends /\ used.stores \in Nat /\ seq \in Nat /\ seq <= used.stores
  BY DEF Typed, Tables
<1>3. /\ used' \in [{"stores", "forks", "faults", "reads"} -> Nat] /\ used'.stores = used.stores + 1
      /\ used.stores + 1 <= Bound[backend].stores
  BY <1>1, <1>2, BumpFacts
<1>4. x \in Made(backend, used.stores + 1) /\ x.id = seq + 1
  BY <1>2, <1>3, NewRowFacts, TableAssumption
<1>5. Made(backend, used.stores) \subseteq Made(backend, used.stores + 1)
  BY <1>2, MadeGrows
<1>6. DOMAIN op' = Procs /\ op'[p] = o /\ op'["flusher"] = f /\ \A q \in Procs \ {p, "flusher"} : op'[q] = op[q]
  <2>1. op' = [op EXCEPT ![p] = o, !["flusher"] = f]
    <3>1. "flusher" # p
      BY ServiceFacts
    <3> QED
      BY <3>1 DEF SqInsert
  <2>2. DOMAIN op = Procs /\ p \in Procs /\ "flusher" \in Procs /\ p # "flusher"
    BY WriterFacts, ServiceFacts DEF Typed, Coroutines
  <2> HIDE DEF o, f
  <2> QED
    BY <2>1, <2>2
<1>7. WriterAt(backend, used.stores + 1, o) /\ o.k = "count"
  BY <1>1, <1>3, <1>4 DEF WriterAt, RowStages
<1>8. ServiceAt(backend, "flusher", f) /\ f.k \in Locked => f = op["flusher"]
  BY <1>1, ServiceFacts DEF ServiceAt, Locked
<1>9. ServiceAt(backend, "flusher", f)
  BY <1>1, ServiceFacts DEF ServiceAt
<1>10. f = op["flusher"] \/ f.k = "sleep"
  OBVIOUS
<1> HIDE DEF x, o, f
<1>11. Tables'
  BY <1>1, <1>2, <1>3, <1>4, <1>5, TablesGrow DEF Tables
<1>12. Coroutines'
  <2>1. ASSUME NEW q \in Procs PROVE At(backend, used.stores + 1, q, op'[q])
    <3>1. CASE q = p
      BY <1>6, <1>7, <3>1, WriterFacts DEF At
    <3>2. CASE q = "flusher"
      BY <1>6, <1>9, <3>2, ServiceFacts DEF At
    <3>3. CASE q # p /\ q # "flusher"
      <4>1. op'[q] = op[q] /\ At(backend, used.stores, q, op[q])
        BY <1>6, <3>3 DEF Typed, Coroutines
      <4> QED
        BY <1>5, <4>1 DEF At, WriterAt
    <3> QED
      BY <3>1, <3>2, <3>3
  <2> QED
    BY <1>1, <1>3, <1>6, <2>1 DEF Coroutines
<1>13. Locks'
  <2>1. \A q \in Writers \cup Services : q \in Procs /\ q # Nobody
    BY TableAssumption DEF Procs
  <2>2. \A q \in Writers \cup Services : op[q].k \notin Locked
    BY <1>1, <1>2, <2>1 DEF Locks
  <2>3. \A q \in Writers \cup Services : op'[q].k \in Locked => q = p
    BY <1>6, <1>10, <2>1, <2>2 DEF Locked
  <2>4. pending \in Nat /\ pending <= used.stores
    BY <1>2 DEF Locks
  <2> QED
    BY <1>1, <1>2, <1>3, <2>1, <2>3, <2>4 DEF Locks, Locked
<1> QED
  BY <1>11, <1>12, <1>13 DEF Typed

\* Whoever is at a stage under the lock is the only one.
LEMMA Alone ==
    ASSUME Typed, NEW p \in Writers \cup Services, op[p].k \in Locked
    PROVE  /\ backend = "behind" /\ lock = p
           /\ \A q \in Writers \cup Services : q # p => op[q].k \notin Locked
BY DEF Typed, Locks

\* The lock is let go.
LEMMA Unlocks ==
    ASSUME Typed, NEW p \in Writers \cup Services, op[p].k \in Locked, lock' = Nobody, pending' \in Nat, pending' <= used.stores,
           backend' = backend, used'.stores = used.stores,
           op'[p].k \notin Locked, \A q \in Procs \ {p} : op'[q] = op[q]
    PROVE  Locks'
<1>1. \A q \in Writers \cup Services : q \in Procs
  BY DEF Procs
<1>2. \A q \in Writers \cup Services : op'[q].k \notin Locked
  BY <1>1, Alone
<1> QED
  BY <1>2 DEF Locks, Locked

LEMMA SqCountTyped ==
    ASSUME Typed, NEW p \in Writers, SqCount(p) \/ SqCancel(p)
    PROVE  Typed'
<1>1. /\ op[p].k = "count" /\ lock' = Nobody /\ op[p].k \in Locked /\ op[p].k \in Rowed
      /\ UNCHANGED <<backend, rows, index, forks, seq, old, disk, removed>>
  BY DEF SqCount, SqCancel, Locked, Rowed
<1>2. /\ backend = "behind" /\ p \in Procs /\ p \notin Services
      /\ op[p] \in [k : RowStages(backend), row : Made(backend, used.stores)]
  BY <1>1, Alone, WriterFacts
<1>3. pending \in Nat /\ used.stores \in Nat /\ pending + 1 <= used.stores /\ pending <= used.stores
  BY <1>1 DEF Typed, Locks, Tables
<1>4. CASE SqCancel(p)
  <2>1. op' = [op EXCEPT ![p] = Idle] /\ Bump("faults") /\ pending' = pending /\ acked' = acked
    BY <1>4 DEF SqCancel, Go
  <2>2. Tables' /\ used'.stores = used.stores
    BY <1>1, <2>1, TablesSame DEF Typed
  <2>3. At(backend, used'.stores, p, Idle) /\ Idle.k \notin Locked /\ used.stores <= used'.stores /\ used'.stores \in Nat
    BY <1>2, <1>3, <2>2 DEF At, WriterAt, Idle, Locked
  <2>4. Coroutines' /\ op'[p] = Idle /\ \A q \in Procs \ {p} : op'[q] = op[q]
    BY <1>1, <1>2, <2>1, <2>3, Goes DEF Typed
  <2> QED
    BY <1>1, <1>3, <2>1, <2>2, <2>3, <2>4, Unlocks DEF Typed
<1>5. CASE SqCount(p) /\ pending + 1 >= MaxPending
  <2> DEFINE o == [op[p] EXCEPT !.k = "flush"]
  <2>1. op' = [op EXCEPT ![p] = o] /\ pending' = pending + 1 /\ acked' = acked /\ used' = used
    BY <1>5 DEF SqCount, Go
  <2>2. Tables' /\ used'.stores = used.stores
    BY <1>1, <2>1, TablesSame DEF Typed
  <2>3. WriterAt(backend, used'.stores, o) /\ o.k \notin Locked
    BY <1>2, <2>2 DEF WriterAt, RowStages, Locked
  <2> HIDE DEF o
  <2>4. At(backend, used'.stores, p, o) /\ used.stores <= used'.stores /\ used'.stores \in Nat
    BY <1>2, <1>3, <2>2, <2>3 DEF At
  <2>5. Coroutines' /\ op'[p] = o /\ \A q \in Procs \ {p} : op'[q] = op[q]
    BY <1>1, <1>2, <2>1, <2>4, Goes DEF Typed
  <2>6. pending' \in Nat /\ pending' <= used.stores
    BY <1>3, <2>1
  <2> QED
    BY <1>1, <2>2, <2>3, <2>5, <2>6, Unlocks DEF Typed
<1>6. CASE SqCount(p) /\ ~ (pending + 1 >= MaxPending)
  <2>1. Ack(p) /\ pending' = pending + 1 /\ used' = used /\ disk' \in {disk, Now}
    BY <1>6 DEF SqCount
  <2>2. Tables' /\ Coroutines' /\ op'[p] = Idle /\ (\A q \in Procs \ {p} : op'[q] = op[q])
    BY <1>1, <2>1, AckTyped
  <2>3. pending' \in Nat /\ pending' <= used.stores /\ Idle.k \notin Locked
    BY <1>3, <2>1 DEF Idle, Locked
  <2> QED
    BY <1>1, <2>1, <2>2, <2>3, Unlocks DEF Typed
<1> QED
  BY <1>4, <1>5, <1>6

\* The stages of a flush, of a store or of a service.
LEMMA FlushStage ==
    ASSUME Typed, NEW p \in Writers \cup Services, op[p].k \in {"flush", "commit", "reset"}, NEW j \in {"flush", "commit", "reset"}
    PROVE  /\ backend = "behind" /\ p \in Procs /\ p # Nobody
           /\ At(backend, used.stores, p, [op[p] EXCEPT !.k = j]) /\ [op[p] EXCEPT !.k = j].k = j
<1>1. p \in Procs /\ p # Nobody /\ used.stores \in Nat
  BY TableAssumption DEF Procs, Typed, Tables
<1>2. CASE p \in Writers
  <2>1. p \notin Services /\ backend = "behind" /\ op[p] \in [k : RowStages(backend), row : Made(backend, used.stores)]
    BY <1>2, WriterFacts, StageFacts DEF Rowed
  <2>2. [op[p] EXCEPT !.k = j] \in [k : RowStages(backend), row : Made(backend, used.stores)] /\ [op[p] EXCEPT !.k = j].k = j
    BY <2>1 DEF RowStages
  <2> QED
    BY <1>1, <2>1, <2>2 DEF At, WriterAt
<1>3. CASE p \in Services
  <2>1. p \notin Writers /\ p \in {"flusher", "closer"} /\ ServiceAt(backend, p, op[p])
    BY <1>3, ServiceFacts DEF Services
  <2>2. backend = "behind" /\ [op[p] EXCEPT !.k = j] = [k |-> j]
    BY <2>1 DEF ServiceAt, Idle
  <2>3. ServiceAt(backend, p, [k |-> j])
    BY <2>1, <2>2 DEF ServiceAt
  <2>4. [op[p] EXCEPT !.k = j].k = j
    BY <2>2
  <2> QED
    BY <1>1, <2>1, <2>2, <2>3, <2>4 DEF At
<1> QED
  BY <1>2, <1>3

\* A flush returns to its caller.
LEMMA FlushedGoes ==
    ASSUME Typed, NEW p \in Writers \cup Services, op[p].k \in {"flush", "reset"}, Flushed(p),
           UNCHANGED <<backend, rows, index, forks, seq, old, disk, removed, used>>
    PROVE  /\ Tables' /\ Coroutines' /\ op'[p].k \notin Locked /\ \A q \in Procs \ {p} : op'[q] = op[q]
           /\ used'.stores = used.stores /\ used.stores \in Nat
<1>1. used.stores \in Nat /\ used'.stores = used.stores /\ p \in Procs /\ backend = "behind"
  BY FlushStage DEF Typed, Tables
<1>2. CASE p \in Writers
  <2>1. Ack(p) /\ op[p].k \in Rowed
    BY <1>2 DEF Flushed, Rowed
  <2> QED
    BY <1>1, <1>2, <2>1, AckTyped DEF Idle, Locked
<1>3. CASE p \in Services
  <2> DEFINE o == [k |-> IF p = "flusher" THEN "sleep" ELSE "close"]
  <2>1. p \notin Writers /\ p \in {"flusher", "closer"}
    BY <1>3, ServiceFacts DEF Services
  <2>2. op' = [op EXCEPT ![p] = o] /\ acked' = acked
    BY <2>1 DEF Flushed, Go
  <2>3. At(backend, used'.stores, p, o) /\ o.k \notin Locked
    BY <1>1, <2>1 DEF At, ServiceAt, Locked
  <2> HIDE DEF o
  <2>4. Tables'
    BY <2>2, TablesSame DEF Typed
  <2>5. used.stores <= used'.stores /\ used'.stores \in Nat
    BY <1>1
  <2>6. Coroutines' /\ op'[p] = o /\ \A q \in Procs \ {p} : op'[q] = op[q]
    BY <1>1, <2>2, <2>3, <2>5, Goes DEF Typed
  <2> QED
    BY <1>1, <2>3, <2>4, <2>6
<1> QED
  BY <1>2, <1>3

\* Whoever holds the lock keeps it, or takes it from nobody.
LEMMA LockKept ==
    ASSUME Typed, NEW p \in Writers \cup Services, backend = "behind", backend' = backend, pending' = pending, used'.stores = used.stores,
           lock \in {p, Nobody}, lock' = p, op'[p].k \in {"commit", "reset"}, \A q \in Procs \ {p} : op'[q] = op[q]
    PROVE  Locks'
<1>1. \A q \in Writers \cup Services : q \in Procs /\ q # Nobody
  BY TableAssumption DEF Procs
<1>2. \A q \in Writers \cup Services : q # p => op[q].k \notin Locked
  BY <1>1 DEF Typed, Locks
<1>3. \A q \in Writers \cup Services : op'[q].k \in Locked => q = p
  BY <1>1, <1>2
<1>4. op'[p].k # "count" /\ "count" \in Locked
  BY DEF Locked
<1>5. \A q \in Writers : op'[q].k # "count"
  BY <1>3, <1>4
<1>6. pending \in Nat /\ pending <= used.stores
  BY DEF Typed, Locks
<1> QED
  BY <1>1, <1>3, <1>5, <1>6 DEF Locks

LEMMA SqFlushTyped ==
    ASSUME Typed, NEW p \in Writers \cup Services, SqFlush(p) \/ SqCommitted(p) \/ SqFlushed(p) \/ SqFlushFails(p)
    PROVE  Typed'
<1>1. op[p].k \in {"flush", "commit", "reset"} /\ UNCHANGED <<backend, rows, index, forks, seq, old, removed>>
  BY DEF SqFlush, SqCommitted, SqFlushed, SqFlushFails
<1>2. backend = "behind" /\ p \in Procs /\ p # Nobody
  BY <1>1, FlushStage
<1>3. used.stores \in Nat /\ pending \in Nat /\ pending <= used.stores /\ used.stores <= used.stores
  BY DEF Typed, Tables, Locks
<1>4. CASE SqFlush(p) /\ pending = 0
  <2>1. op[p].k = "flush" /\ Flushed(p) /\ UNCHANGED <<disk, used, pending, lock>>
    BY <1>4 DEF SqFlush
  <2>2. Tables' /\ Coroutines' /\ op'[p].k \notin Locked /\ \A q \in Procs \ {p} : op'[q] = op[q]
    BY <1>1, <2>1, FlushedGoes
  <2>3. \A q \in Writers \cup Services : q \in Procs
    BY DEF Procs
  <2>4. Locks'
    BY <1>1, <2>1, <2>2, <2>3 DEF Typed, Locks, Locked
  <2> QED
    BY <2>2, <2>4 DEF Typed
<1>5. ASSUME NEW j \in {"commit", "reset"}, op' = [op EXCEPT ![p] = [op[p] EXCEPT !.k = j]], acked' = acked, disk' \in {disk, Now},
             UNCHANGED <<used, pending>>, lock \in {p, Nobody}, lock' = p
      PROVE  Typed'
  <2> DEFINE o == [op[p] EXCEPT !.k = j]
  <2>1. At(backend, used.stores, p, o) /\ o.k = j
    BY <1>1, FlushStage
  <2>2. op' = [op EXCEPT ![p] = o] /\ used'.stores = used.stores
    BY <1>5
  <2> HIDE DEF o
  <2>3. Tables'
    BY <1>1, <1>5, TablesSame DEF Typed
  <2>4. At(backend, used'.stores, p, o) /\ used'.stores \in Nat /\ used.stores <= used'.stores
    BY <1>3, <2>1, <2>2
  <2>5. Coroutines' /\ op'[p] = o /\ \A q \in Procs \ {p} : op'[q] = op[q]
    BY <1>1, <1>2, <2>2, <2>4, Goes DEF Typed
  <2>6. op'[p].k \in {"commit", "reset"}
    BY <2>1, <2>5
  <2>7. Locks'
    BY <1>1, <1>2, <1>5, <2>2, <2>5, <2>6, LockKept
  <2> QED
    BY <2>3, <2>5, <2>7 DEF Typed
<1>6. CASE SqFlush(p) /\ pending # 0
  <2>1. op' = [op EXCEPT ![p] = [op[p] EXCEPT !.k = "commit"]] /\ UNCHANGED <<disk, used, pending, acked>> /\ lock = Nobody /\ lock' = p
    BY <1>6 DEF SqFlush, Go
  <2> QED
    BY <1>5, <2>1
<1>7. CASE SqCommitted(p)
  <2>1. op' = [op EXCEPT ![p] = [op[p] EXCEPT !.k = "reset"]] /\ disk' = Now /\ UNCHANGED <<used, pending, acked, lock>> /\ op[p].k \in Locked
    BY <1>7 DEF SqCommitted, Go, Commit, sqvars, Locked
  <2>2. lock = p
    BY <2>1, Alone
  <2> QED
    BY <1>5, <2>1, <2>2
<1>8. CASE SqFlushed(p)
  <2>1. op[p].k \in {"flush", "reset"} /\ op[p].k \in Locked /\ Flushed(p) /\ pending' = 0 /\ lock' = Nobody /\ UNCHANGED <<disk, used>>
    BY <1>8 DEF SqFlushed, Locked
  <2>2. Tables' /\ Coroutines' /\ op'[p].k \notin Locked /\ (\A q \in Procs \ {p} : op'[q] = op[q]) /\ used'.stores = used.stores
    BY <1>1, <2>1, FlushedGoes
  <2>3. pending' \in Nat /\ pending' <= used.stores
    BY <1>3, <2>1
  <2> QED
    BY <1>1, <2>1, <2>2, <2>3, Unlocks DEF Typed
<1>9. CASE SqFlushFails(p)
  <2> DEFINE o == IF p \in Writers THEN Idle ELSE [k |-> IF p = "flusher" THEN "sleep" ELSE "closed"]
  <2>1. op[p].k \in Locked /\ lock' = Nobody /\ op' = [op EXCEPT ![p] = o] /\ UNCHANGED <<disk, acked, pending>> /\ Bump("faults")
    BY <1>9 DEF SqFlushFails, Locked, Go
  <2>2. At(backend, used.stores, p, o) /\ o.k \notin Locked
    <3>1. CASE p \in Writers
      BY <3>1, WriterFacts DEF At, WriterAt, Idle, Locked
    <3>2. CASE p \notin Writers
      <4>1. p \in {"flusher", "closer"}
        BY <3>2 DEF Services
      <4> QED
        BY <1>2, <3>2, <4>1 DEF At, ServiceAt, Locked
    <3> QED
      BY <3>1, <3>2
  <2> HIDE DEF o
  <2>3. Tables' /\ used'.stores = used.stores
    BY <1>1, <2>1, TablesSame DEF Typed
  <2>4. At(backend, used'.stores, p, o) /\ used'.stores \in Nat /\ used.stores <= used'.stores
    BY <1>3, <2>2, <2>3
  <2>5. Coroutines' /\ op'[p] = o /\ \A q \in Procs \ {p} : op'[q] = op[q]
    BY <1>1, <1>2, <2>1, <2>4, Goes DEF Typed
  <2>6. pending' \in Nat /\ pending' <= used.stores /\ op'[p].k \notin Locked
    BY <1>3, <2>1, <2>2, <2>5
  <2> QED
    BY <1>1, <2>1, <2>3, <2>5, <2>6, Unlocks DEF Typed
<1> QED
  BY <1>4, <1>6, <1>7, <1>8, <1>9

LEMMA WakesTyped ==
    ASSUME Typed, Wakes
    PROVE  Typed'
<1> DEFINE o == [k |-> "flush"]
<1>1. op["flusher"].k = "sleep" /\ op' = [op EXCEPT !["flusher"] = o]
      /\ UNCHANGED <<backend, rows, index, forks, seq, old, disk, acked, removed, used, sqvars>>
  BY DEF Wakes, Go
<1>2. "flusher" \in Procs /\ "flusher" \notin Writers /\ backend = "behind"
  <2>1. ServiceAt(backend, "flusher", op["flusher"]) /\ "flusher" \in Procs /\ "flusher" \notin Writers
    BY ServiceFacts
  <2> QED
    BY <1>1, <2>1 DEF ServiceAt, Idle
<1>3. At(backend, used'.stores, "flusher", o) /\ o.k \notin Locked
  BY <1>1, <1>2 DEF At, ServiceAt, Locked
<1> HIDE DEF o
<1>4. Tables' /\ used'.stores \in Nat /\ used.stores <= used'.stores
  BY <1>1, TablesSame DEF Typed, Tables
<1>5. Coroutines'
  BY <1>1, <1>2, <1>3, <1>4, Goes DEF Typed
<1>6. Locks'
  BY <1>1, <1>2, <1>3, <1>4, LocksStay
<1> QED
  BY <1>4, <1>5, <1>6 DEF Typed

\* Everybody is idle, as at a start.
LEMMA AllIdle ==
    ASSUME Tables', op' = [p \in Procs |-> Idle], pending' \in Nat, pending' <= used'.stores, lock' \in Procs \cup {Nobody}
    PROVE  Typed'
<1>1. \A p \in Writers \cup Services : p \in Procs
  BY DEF Procs
<1>2. Coroutines'
  BY <1>1 DEF Coroutines, At, WriterAt, ServiceAt
<1>3. \A p \in Writers \cup Services : op'[p].k \notin Locked
  BY <1>1 DEF Idle, Locked
<1>4. Locks'
  BY <1>3 DEF Locks, Locked
<1> QED
  BY <1>2, <1>4 DEF Typed

LEMMA ReopenTyped ==
    ASSUME Typed, SqClosed \/ SqCrash
    PROVE  Typed'
<1>1. Reopen /\ UNCHANGED <<backend, index, disk, acked, removed>> /\ (used' = used \/ Bump("faults"))
  BY DEF SqClosed, SqCrash
<1>2. /\ used' \in [{"stores", "forks", "faults", "reads"} -> Nat] /\ used'.stores = used.stores /\ used.stores \in Nat /\ Tables
  BY <1>1, BumpFacts DEF Typed, Tables
<1>3. Tables'
  BY <1>1, <1>2 DEF Tables, Reopen
<1> QED
  BY <1>1, <1>2, <1>3, AllIdle DEF Reopen

LEMMA SqCloseTyped ==
    ASSUME Typed, SqClose
    PROVE  Typed'
<1>1. /\ backend = "behind" /\ (\A p \in Writers : op[p] = Idle) /\ disk' \in {disk, Now} /\ Bump("faults")
      /\ lock' = IF lock = "flusher" THEN Nobody ELSE lock
      /\ op' = [op EXCEPT !["flusher"] = Idle, !["closer"] = [k |-> "flush"]]
      /\ UNCHANGED <<backend, rows, index, forks, seq, old, acked, removed, pending>>
  BY DEF SqClose, Commit
<1>2. Tables' /\ used'.stores = used.stores /\ used.stores \in Nat
  BY <1>1, TablesSame DEF Typed, Tables
<1>3. DOMAIN op = Procs /\ "flusher" \in Procs /\ "closer" \in Procs
  BY ServiceFacts DEF Typed, Coroutines
<1>4. DOMAIN op' = Procs /\ op'["flusher"] = Idle /\ op'["closer"] = [k |-> "flush"]
      /\ \A q \in Procs \ Services : op'[q] = op[q]
  BY <1>1, <1>3 DEF Services
<1>5. Coroutines'
  <2> SUFFICES ASSUME NEW q \in Procs PROVE At(backend, used.stores, q, op'[q])
    BY <1>1, <1>2, <1>4 DEF Coroutines
  <2>1. CASE q \in Services
    <3>1. q \notin Writers /\ q \in {"flusher", "closer"}
      BY <2>1, ServiceFacts DEF Services
    <3> QED
      BY <1>1, <1>4, <3>1 DEF At, ServiceAt
  <2>2. CASE q \notin Services
    BY <1>4, <2>2 DEF Typed, Coroutines
  <2> QED
    BY <2>1, <2>2
<1>6. Locks'
  <2>1. \A q \in Writers \cup Services : op'[q].k \notin Locked
    <3> SUFFICES ASSUME NEW q \in Writers \cup Services PROVE op'[q].k \notin Locked
      OBVIOUS
    <3>1. CASE q \in Services
      BY <1>4, <3>1 DEF Services, Idle, Locked
    <3>2. CASE q \notin Services
      BY <1>1, <1>4, <3>2 DEF Procs, Idle, Locked
    <3> QED
      BY <3>1, <3>2
  <2>2. lock \in Procs \cup {Nobody} /\ pending \in Nat /\ pending <= used.stores
    BY DEF Typed, Locks
  <2>3. lock' \in Procs \cup {Nobody} /\ pending' \in Nat /\ pending' <= used'.stores
    BY <1>1, <1>2, <2>2
  <2> QED
    BY <2>1, <2>3 DEF Locks, Locked
<1> QED
  BY <1>2, <1>5, <1>6 DEF Typed

\* A fork of a stream at an event that was stored.
LEMMA ForkTables ==
    ASSUME Typed, NEW s \in Streams, NEW parent \in Streams, NEW at \in 1..seq, ForkAt(s, parent, at), Bump("forks"),
           UNCHANGED <<backend, rows, index, seq, old, disk, acked, removed>>
    PROVE  Tables' /\ used'.stores = used.stores /\ used.stores \in Nat
<1>1. Tables /\ used.stores \in Nat /\ seq \in Nat /\ seq <= used.stores /\ used.stores <= Bound[backend].stores
      /\ backend \in Backends /\ Bound[backend].stores \in Nat
  BY BoundFacts DEF Typed, Tables
<1>2. used' \in [{"stores", "forks", "faults", "reads"} -> Nat] /\ used'.stores = used.stores
  BY <1>1, BumpFacts
<1>3. at \in 1..Bound[backend].stores
  BY <1>1
<1>4. forks' \in [Streams -> LinksOf(backend)]
  <2>1. [p |-> parent, at |-> at] \in LinksOf(backend) /\ forks \in [Streams -> LinksOf(backend)]
    BY <1>1, <1>3 DEF LinksOf, Tables
  <2> QED
    BY <2>1 DEF ForkAt
<1>5. Tables'
  BY <1>1, <1>2, <1>4, TablesGrow DEF Tables
<1> QED
  BY <1>1, <1>2, <1>5

LEMMA SqForkTyped ==
    ASSUME Typed, NEW p \in Writers, NEW s \in Streams, NEW parent \in Streams, NEW at \in 1..seq, SqFork(p, s, parent, at)
    PROVE  Typed'
<1> DEFINE o == [k |-> "commit2", next |-> Idle]
<1>1. /\ Sqlite /\ ForkAt(s, parent, at) /\ Bump("forks") /\ op' = [op EXCEPT ![p] = o]
      /\ UNCHANGED <<backend, rows, index, seq, old, disk, acked, removed, sqvars>>
  BY DEF SqFork, Go
<1>2. Tables' /\ used'.stores = used.stores /\ used.stores \in Nat
  BY <1>1, ForkTables
<1>3. WriterAt(backend, used'.stores, o) /\ o.k \notin Locked
  BY <1>1 DEF WriterAt, Sqlite, Locked
<1> HIDE DEF o
<1>4. used'.stores \in Nat /\ used.stores <= used'.stores /\ UNCHANGED <<backend, sqvars>>
  BY <1>1, <1>2
<1> QED
  BY <1>1, <1>2, <1>3, <1>4, WriterGoes DEF Typed

\* Rows of the table are deleted.
LEMMA DeleteTables ==
    ASSUME Typed, NEW D \in SUBSET rows, rows' = rows \ D, removed' = removed \cup {x.id : x \in D},
           UNCHANGED <<backend, index, forks, seq, old, disk, acked>>, used' = used \/ Bump("faults")
    PROVE  Tables' /\ used'.stores = used.stores /\ used.stores \in Nat
<1>1. Tables /\ used.stores \in Nat /\ seq \in Nat /\ seq <= used.stores /\ used.stores <= Bound[backend].stores
  BY DEF Typed, Tables
<1>2. used' \in [{"stores", "forks", "faults", "reads"} -> Nat] /\ used'.stores = used.stores
  BY <1>1, BumpFacts DEF Tables
<1>3. \A x \in D : x.id \in 1..Bound[backend].stores
  BY <1>1, MadeFacts DEF Tables
<1>4. removed' \subseteq 1..Bound[backend].stores /\ rows' \subseteq rows
  BY <1>1, <1>3 DEF Tables
<1>5. Tables'
  BY <1>1, <1>2, <1>4, TablesGrow DEF Tables
<1> QED
  BY <1>1, <1>2, <1>5

LEMMA SqPurgeBatchTyped ==
    ASSUME Typed, NEW p \in Writers, SqPurgeBatch(p)
    PROVE  Typed'
<1> DEFINE D == SmallestOf(Purgeable(op[p]), Batch)
           o == [k |-> "commit2", next |-> IF Cardinality(D) < Batch THEN Idle ELSE op[p]]
<1>1. /\ Sqlite /\ op[p].k = "purge" /\ rows' = rows \ D /\ removed' = removed \cup {x.id : x \in D} /\ op' = [op EXCEPT ![p] = o]
      /\ UNCHANGED <<backend, index, forks, seq, old, disk, acked, used, sqvars>>
  BY DEF SqPurgeBatch, Go
<1>2. D \subseteq rows
  BY DEF SmallestOf, Purgeable
<1>3. WriterAt(backend, used.stores, o) /\ o.k \notin Locked
  <2>1. PurgeAt(backend, op[p])
    BY <1>1, WriterFacts
  <2> QED
    BY <1>1, <2>1 DEF WriterAt, Sqlite, Locked
<1> HIDE DEF o, D
<1>4. Tables' /\ used'.stores = used.stores /\ used.stores \in Nat
  BY <1>1, <1>2, DeleteTables
<1>5. used'.stores \in Nat /\ used.stores <= used'.stores /\ UNCHANGED <<backend, sqvars>> /\ WriterAt(backend, used'.stores, o)
  BY <1>1, <1>3, <1>4
<1> QED
  BY <1>1, <1>3, <1>4, <1>5, WriterGoes DEF Typed

-----------------------------------------------------------------------------
(* Types: what readers do.                                                 *)

\* A reader goes on, whatever the store; the tables stay, or the index is pruned.
LEMMA ReaderTyped ==
    ASSUME Typed, NEW r \in Readers, NEW o, Go(r, o), UNCHANGED <<backend, rows, forks, seq, old, disk, acked, removed, sqvars>>,
           index' \subseteq index, used' = used \/ Bump("reads")
    PROVE  Typed'
<1>1. Tables /\ used.stores \in Nat /\ seq \in Nat /\ seq <= used.stores /\ used.stores <= Bound[backend].stores
  BY DEF Typed, Tables
<1>2. used' \in [{"stores", "forks", "faults", "reads"} -> Nat] /\ used'.stores = used.stores
  BY <1>1, BumpFacts DEF Tables
<1>3. Tables'
  BY <1>1, <1>2, TablesGrow DEF Tables
<1>4. used'.stores \in Nat /\ used.stores <= used'.stores /\ UNCHANGED <<backend, sqvars>>
  BY <1>1, <1>2
<1>5. Coroutines' /\ Locks'
  BY <1>4, ReaderGoes DEF Go
<1> QED
  BY <1>3, <1>5 DEF Typed

ReaderStep(r) ==
    /\ UNCHANGED sqvars
    /\ \/ Answered(r) \/ Unsubscribe(r) \/ Link(r)
       \/ \E s \in Streams, t \in Tenants, last \in Nat : (Redis => t = NoTenant) /\ Resolve(r, last, s, t)
       \/ SqRead(r) \/ SqPoll(r) \/ (\E s \in Streams, t \in Tenants : SqSubscribe(r, s, t))
       \/ RdChunk(r) \/ RdIds(r) \/ RdPayloads(r) \/ RdPrune(r) \/ RdDeliver(r) \/ (\E s \in Streams : RdSubscribe(r, s))
       \/ PgPage(r) \/ PgDeliver(r) \/ (\E s \in Streams, t \in Tenants : PgListen(r, s, t))

LEMMA ReaderStepKeeps ==
    ASSUME NEW r, ReaderStep(r)
    PROVE  /\ \E o : Go(r, o)
           /\ UNCHANGED <<backend, rows, forks, seq, old, disk, acked, removed, sqvars>>
           /\ index' \in {index, index \ op[r].stale} /\ (index' # index => RdPrune(r))
           /\ used' = used \/ Bump("reads")
<1> USE DEF ReaderStep
<1>1. CASE Answered(r) \/ Unsubscribe(r)
  BY <1>1 DEF Answered, Unsubscribe
<1>2. CASE Link(r)
  BY <1>2 DEF Link, LinkBy
<1>3. CASE \E s \in Streams, t \in Tenants, last \in Nat : Resolve(r, last, s, t)
  BY <1>3 DEF Resolve
<1>4. CASE SqRead(r) \/ SqPoll(r) \/ (\E s \in Streams, t \in Tenants : SqSubscribe(r, s, t))
  BY <1>4 DEF SqRead, SqPoll, SqSubscribe
<1>5. CASE RdChunk(r) \/ RdIds(r) \/ RdPayloads(r) \/ RdDeliver(r) \/ (\E s \in Streams : RdSubscribe(r, s))
  BY <1>5 DEF RdChunk, RdIds, RdPayloads, RdDeliver, Deliver, RdSubscribe
<1>6. CASE RdPrune(r)
  BY <1>6 DEF RdPrune
<1>7. CASE PgPage(r) \/ PgDeliver(r) \/ (\E s \in Streams, t \in Tenants : PgListen(r, s, t))
  BY <1>7 DEF PgPage, PgDeliver, Deliver, PgListen
<1> QED
  BY <1>1, <1>2, <1>3, <1>4, <1>5, <1>6, <1>7

LEMMA ReaderStepTyped ==
    ASSUME Typed, NEW r \in Readers, ReaderStep(r)
    PROVE  Typed'
<1>1. PICK o : Go(r, o)
  BY ReaderStepKeeps
<1>2. UNCHANGED <<backend, rows, forks, seq, old, disk, acked, removed, sqvars>> /\ index' \subseteq index /\ (used' = used \/ Bump("reads"))
  BY ReaderStepKeeps
<1> QED
  BY <1>1, <1>2, ReaderTyped

-----------------------------------------------------------------------------
(* Types: the writes of Redis and Postgres.                                *)

\* A store_event takes its id; its row is there at once or not yet.
LEMMA StoreTyped ==
    ASSUME Typed, NEW p \in Writers, NEW s \in Streams, NEW t \in Tenants, NEW k \in Kinds, NEW x, x = NewRow(s, t, k),
           NEW stage \in RowStages(backend), stage \notin Locked, op' = [op EXCEPT ![p] = [k |-> stage, row |-> x]],
           Bump("stores"), seq' = seq + 1, rows' \in {rows, rows \cup {x}}, index' \subseteq index \cup {Entry(x)},
           removed' \subseteq removed \cup {e.id : e \in index \cup {Entry(x)}},
           UNCHANGED <<backend, forks, old, disk, acked, sqvars>>
    PROVE  Typed'
<1> DEFINE o == [k |-> stage, row |-> x]
<1>2. Tables /\ backend \in Backends /\ used.stores \in Nat /\ seq \in Nat /\ seq <= used.stores
  BY DEF Typed, Tables
<1>3. /\ used' \in [{"stores", "forks", "faults", "reads"} -> Nat] /\ used'.stores = used.stores + 1
      /\ used.stores + 1 <= Bound[backend].stores
  BY <1>2, BumpFacts
<1>4. x \in Made(backend, used.stores + 1)
  BY <1>2, <1>3, NewRowFacts
<1>5. Made(backend, used.stores) \subseteq Made(backend, used.stores + 1)
  BY <1>2, MadeGrows
<1>6. WriterAt(backend, used'.stores, o) /\ o.k \notin Locked
  BY <1>3, <1>4 DEF WriterAt
<1>7. Entry(x) \in [s : Streams, id : 1..Bound[backend].stores]
  BY <1>2, <1>4 DEF Entry, Made, RowsOf
<1>8. op' = [op EXCEPT ![p] = o]
  OBVIOUS
<1> HIDE DEF o
<1>9. Tables'
  <2>1. index' \subseteq [s : Streams, id : 1..Bound[backend].stores]
    BY <1>2, <1>7 DEF Tables
  <2>2. \A e \in index \cup {Entry(x)} : e.id \in 1..Bound[backend].stores
    BY <1>2, <1>7 DEF Tables
  <2>3. old' \cup removed' \subseteq 1..Bound[backend].stores
    BY <1>2, <2>2 DEF Tables
  <2> QED
    BY <1>2, <1>3, <1>4, <1>5, <2>1, <2>3, TablesGrow DEF Tables
<1>10. Coroutines' /\ Locks'
  <2>1. used'.stores \in Nat /\ used.stores <= used'.stores /\ UNCHANGED <<backend, sqvars>>
    BY <1>2, <1>3
  <2> QED
    BY <1>6, <1>8, <2>1, WriterGoes
<1> QED
  BY <1>9, <1>10 DEF Typed

LEMMA RdStoreTyped ==
    ASSUME Typed, NEW p \in Writers, NEW s \in Streams, NEW k \in Kinds, RdStore(p, s, k) \/ RdIncr(p, s, k), UNCHANGED sqvars
    PROVE  Typed'
<1> DEFINE x == NewRow(s, NoTenant, k)
<1>1. NoTenant \in Tenants
  BY TableAssumption
<1>2. CASE RdStore(p, s, k)
  <2>1. /\ backend = "script" /\ op' = [op EXCEPT ![p] = [k |-> "publish", row |-> x]] /\ Bump("stores") /\ seq' = seq + 1
        /\ rows' = rows \cup {x} /\ Add(x) /\ UNCHANGED <<backend, forks, old, disk, acked>>
    BY <1>2 DEF RdStore, Go
  <2>2. index' \subseteq index \cup {Entry(x)} /\ removed' \subseteq removed \cup {e.id : e \in index \cup {Entry(x)}}
    BY <2>1 DEF Add, Surplus, SmallestOf, Members
  <2>3. "publish" \in RowStages(backend) /\ "publish" \notin Locked
    BY <2>1 DEF RowStages, Locked
  <2> QED
    BY <1>1, <2>1, <2>2, <2>3, StoreTyped
<1>3. CASE RdIncr(p, s, k)
  <2>1. /\ backend = "pipe" /\ op' = [op EXCEPT ![p] = [k |-> "hset", row |-> x]] /\ Bump("stores") /\ seq' = seq + 1
        /\ UNCHANGED <<backend, rows, index, forks, old, disk, acked, removed>>
    BY <1>3 DEF RdIncr, Go
  <2>2. "hset" \in RowStages(backend) /\ "hset" \notin Locked
    BY <2>1 DEF RowStages, Locked
  <2> QED
    BY <1>1, <2>1, <2>2, StoreTyped
<1> QED
  BY <1>2, <1>3

LEMMA PgInsertTyped ==
    ASSUME Typed, NEW p \in Writers, NEW s \in Streams, NEW k \in Kinds, PgInsert(p, s, k), UNCHANGED sqvars
    PROVE  Typed'
<1> DEFINE x == NewRow(s, TenantOf[p], k)
<1>1. TenantOf[p] \in Tenants
  BY TableAssumption
<1>2. /\ backend = "postgres" /\ op' = [op EXCEPT ![p] = [k |-> "insert", row |-> x]] /\ Bump("stores") /\ seq' = seq + 1
      /\ UNCHANGED <<backend, rows, index, forks, old, disk, acked, removed>>
  BY DEF PgInsert, Postgres, Go
<1>3. "insert" \in RowStages(backend) /\ "insert" \notin Locked
  BY <1>2 DEF RowStages, Locked
<1> QED
  BY <1>1, <1>2, <1>3, StoreTyped

\* A write that is under way goes on to its next stage, or is given up.
LEMMA WriteTyped ==
    ASSUME Typed, NEW p \in Writers, op[p].k \in Rowed, NEW o, Go(p, o),
           o = Idle \/ (o = [op[p] EXCEPT !.k = o.k] /\ o.k \in RowStages(backend) \ Locked),
           rows' \in {rows, rows \cup {op[p].row}}, index' \subseteq index \cup {Entry(op[p].row)},
           removed' \subseteq removed \cup {e.id : e \in index},
           UNCHANGED <<backend, forks, seq, old, disk, acked, sqvars>>, used' = used \/ Bump("faults")
    PROVE  Typed'
<1>1. op[p] \in [k : RowStages(backend), row : Made(backend, used.stores)] /\ op[p].row \in Made(backend, used.stores)
  BY WriterFacts
<1>2. Tables /\ used.stores \in Nat /\ seq \in Nat /\ seq <= used.stores /\ used.stores <= Bound[backend].stores
  BY DEF Typed, Tables
<1>3. used' \in [{"stores", "forks", "faults", "reads"} -> Nat] /\ used'.stores = used.stores
  BY <1>2, BumpFacts DEF Tables
<1>4. WriterAt(backend, used.stores, o) /\ o.k \notin Locked
  <2>1. CASE o = Idle
    BY <2>1 DEF WriterAt, Idle, Locked
  <2>2. CASE o # Idle
    <3> DEFINE j == o.k
    <3>1. o = [op[p] EXCEPT !.k = j] /\ j \in RowStages(backend) /\ j \notin Locked
      BY <2>2
    <3> HIDE DEF j
    <3>2. [op[p] EXCEPT !.k = j] \in [k : RowStages(backend), row : Made(backend, used.stores)] /\ [op[p] EXCEPT !.k = j].k = j
      BY <1>1, <3>1
    <3> QED
      BY <3>1, <3>2 DEF WriterAt
  <2> QED
    BY <2>1, <2>2
<1>5. Entry(op[p].row) \in [s : Streams, id : 1..Bound[backend].stores]
  BY <1>1, <1>2, MadeFacts DEF Entry
<1>6. Tables'
  <2>1. \A e \in index : e.id \in 1..Bound[backend].stores
    BY <1>2 DEF Tables
  <2>2. old' \cup removed' \subseteq 1..Bound[backend].stores
    BY <1>2, <2>1 DEF Tables
  <2> QED
    BY <1>1, <1>2, <1>3, <1>5, <2>2, TablesGrow DEF Tables
<1>7. used'.stores \in Nat /\ used.stores <= used'.stores /\ UNCHANGED <<backend, sqvars>> /\ WriterAt(backend, used'.stores, o)
  BY <1>2, <1>3, <1>4
<1>8. Coroutines' /\ Locks'
  BY <1>4, <1>7, WriterGoes DEF Go
<1> QED
  BY <1>6, <1>8 DEF Typed

LEMMA RdWriteTyped ==
    ASSUME Typed, NEW p \in Writers, RdHset(p) \/ RdZadd(p) \/ RdTrim(p) \/ RdBroken(p), UNCHANGED sqvars
    PROVE  Typed'
<1>1. op[p].k \in Rowed /\ backend = "pipe" /\ op[p] \in [k : RowStages(backend), row : Made(backend, used.stores)]
  <2>1. op[p].k \in {"hset", "zadd", "trim"}
    BY DEF RdHset, RdZadd, RdTrim, RdBroken
  <2> QED
    BY <2>1, WriterFacts, StageFacts DEF Rowed
<1>2. /\ {"zadd", "trim", "publish"} \subseteq RowStages(backend) \ Locked
      /\ \A j \in {"zadd", "trim", "publish"} : [op[p] EXCEPT !.k = j].k = j
  BY <1>1 DEF RowStages, Locked
<1>3. CASE RdHset(p)
  <2> DEFINE o == [op[p] EXCEPT !.k = "zadd"]
  <2>1. o = [op[p] EXCEPT !.k = o.k] /\ o.k \in RowStages(backend) \ Locked
    BY <1>2
  <2>2. Go(p, o) /\ rows' = rows \cup {op[p].row} /\ UNCHANGED <<backend, index, forks, seq, old, disk, acked, removed, used, sqvars>>
    BY <1>3 DEF RdHset
  <2> HIDE DEF o
  <2> QED
    BY <1>1, <2>1, <2>2, WriteTyped
<1>4. CASE RdZadd(p)
  <2> DEFINE o == [op[p] EXCEPT !.k = "trim"]
  <2>1. o = [op[p] EXCEPT !.k = o.k] /\ o.k \in RowStages(backend) \ Locked
    BY <1>2
  <2>2. Go(p, o) /\ index' = index \cup {Entry(op[p].row)} /\ UNCHANGED <<backend, rows, forks, seq, old, disk, acked, removed, used, sqvars>>
    BY <1>4 DEF RdZadd
  <2> HIDE DEF o
  <2> QED
    BY <1>1, <2>1, <2>2, WriteTyped
<1>5. CASE RdTrim(p)
  <2> DEFINE o == [op[p] EXCEPT !.k = "publish"]
             T == Surplus(Members(op[p].row.s))
  <2>1. o = [op[p] EXCEPT !.k = o.k] /\ o.k \in RowStages(backend) \ Locked
    BY <1>2
  <2>2. /\ Go(p, o) /\ index' = index \ T /\ removed' = removed \cup {e.id : e \in T}
        /\ UNCHANGED <<backend, rows, forks, seq, old, disk, acked, used, sqvars>>
    BY <1>5 DEF RdTrim
  <2>3. T \subseteq index
    BY DEF Surplus, SmallestOf, Members
  <2> HIDE DEF o, T
  <2>4. index' \subseteq index \cup {Entry(op[p].row)} /\ removed' \subseteq removed \cup {e.id : e \in index}
    BY <2>2, <2>3
  <2> QED
    BY <1>1, <2>1, <2>2, <2>4, WriteTyped
<1>6. CASE RdBroken(p)
  <2>1. Go(p, Idle) /\ Bump("faults") /\ UNCHANGED <<backend, rows, index, forks, seq, old, disk, acked, removed, sqvars>>
    BY <1>6 DEF RdBroken
  <2> QED
    BY <1>1, <2>1, WriteTyped
<1> QED
  BY <1>3, <1>4, <1>5, <1>6

LEMMA PgWriteTyped ==
    ASSUME Typed, NEW p \in Writers, PgCommits(p) \/ PgFails(p), UNCHANGED sqvars
    PROVE  Typed'
<1>1. op[p].k \in Rowed /\ backend = "postgres" /\ op[p] \in [k : RowStages(backend), row : Made(backend, used.stores)]
  <2>1. op[p].k = "insert"
    BY DEF PgCommits, PgFails
  <2> QED
    BY <2>1, WriterFacts, StageFacts DEF Rowed
<1>2. CASE PgCommits(p)
  <2> DEFINE o == [op[p] EXCEPT !.k = "publish"]
  <2>1. o.k = "publish" /\ o = [op[p] EXCEPT !.k = o.k] /\ o.k \in RowStages(backend) \ Locked
    BY <1>1 DEF RowStages, Locked
  <2>2. Go(p, o) /\ rows' = rows \cup {op[p].row} /\ UNCHANGED <<backend, index, forks, seq, old, disk, acked, removed, used, sqvars>>
    BY <1>2 DEF PgCommits
  <2> HIDE DEF o
  <2> QED
    BY <1>1, <2>1, <2>2, WriteTyped
<1>3. CASE PgFails(p)
  <2>1. /\ Go(p, Idle) /\ Bump("faults") /\ rows' \in {rows, rows \cup {op[p].row}}
        /\ UNCHANGED <<backend, index, forks, seq, old, disk, acked, removed, sqvars>>
    BY <1>3 DEF PgFails
  <2> QED
    BY <1>1, <2>1, WriteTyped
<1> QED
  BY <1>2, <1>3

\* The keys of Redis expire.
LEMMA RdExpiryTyped ==
    ASSUME Typed, RdExpires \/ (\E s \in Streams : RdKeyExpires(s)), UNCHANGED sqvars
    PROVE  Typed'
<1>1. CASE RdExpires
  <2>1. PICK x \in rows : rows' = rows \ {x} /\ removed' = removed \cup {x.id}
    BY <1>1 DEF RdExpires
  <2>2. UNCHANGED <<backend, index, forks, seq, old, disk, op, acked, sqvars>> /\ Bump("faults")
    BY <1>1 DEF RdExpires
  <2>3. removed' = removed \cup {y.id : y \in {x}}
    BY <2>1
  <2>4. Tables' /\ used'.stores = used.stores
    BY <2>1, <2>2, <2>3, DeleteTables
  <2> QED
    BY <2>2, <2>4 DEF Typed, Coroutines, Locks, sqvars
<1>2. ASSUME NEW s \in Streams, RdKeyExpires(s) PROVE Typed'
  <2>1. /\ UNCHANGED <<backend, rows, seq, old, disk, op, acked, used, sqvars>>
        /\ index' \subseteq index /\ forks' \in {forks, [forks EXCEPT ![s] = Root]}
        /\ removed' \subseteq removed \cup {e.id : e \in index}
    BY <1>2 DEF RdKeyExpires, Members
  <2>2. Tables /\ backend \in Backends /\ seq \in Nat /\ used.stores \in Nat
    BY DEF Typed, Tables
  <2>3. forks' \in [Streams -> LinksOf(backend)]
    <3>1. Root \in LinksOf(backend) /\ forks \in [Streams -> LinksOf(backend)]
      BY <2>2 DEF LinksOf, Tables
    <3> QED
      BY <2>1, <3>1
  <2>5. removed' \subseteq 1..Bound[backend].stores
    BY <2>1, <2>2 DEF Tables
  <2>4. Tables'
    BY <2>1, <2>2, <2>3, <2>5, TablesGrow DEF Tables
  <2> QED
    BY <2>1, <2>4 DEF Typed, Coroutines, Locks, sqvars
<1> QED
  BY <1>1, <1>2

LEMMA NetForkTyped ==
    ASSUME Typed, NEW p \in Writers, NEW s \in Streams, NEW parent \in Streams, NEW at \in 1..seq,
           RdFork(p, s, parent, at) \/ PgFork(p, s, parent, at), UNCHANGED sqvars
    PROVE  Typed'
<1>1. ForkAt(s, parent, at) /\ Bump("forks") /\ UNCHANGED <<backend, rows, index, seq, old, disk, op, acked, removed, sqvars>>
  BY DEF RdFork, PgFork
<1>2. Tables' /\ used'.stores = used.stores
  BY <1>1, ForkTables
<1> QED
  BY <1>1, <1>2 DEF Typed, Coroutines, Locks, sqvars

LEMMA PgPurgeTyped ==
    ASSUME Typed, NEW p \in Writers, PgPurgeBatch(p) \/ (\E t \in Tenants, bound \in BOOLEAN : PgPurge(p, t, bound)), UNCHANGED sqvars
    PROVE  Typed'
<1>1. ASSUME NEW t \in Tenants, NEW bound \in BOOLEAN, PgPurge(p, t, bound) PROVE Typed'
  <2> DEFINE o == [k |-> "purge", t |-> t, bound |-> bound, cut |-> old]
  <2>1. backend = "postgres" /\ op' = [op EXCEPT ![p] = o] /\ UNCHANGED <<backend, rows, index, forks, seq, old, disk, acked, removed, used, sqvars>>
    BY <1>1 DEF PgPurge, Postgres, Go
  <2>2. WriterAt(backend, used.stores, o) /\ o.k \notin Locked
    BY <2>1 DEF WriterAt, PurgeAt, Locked
  <2> HIDE DEF o
  <2> QED
    BY <2>1, <2>2, WriterTyped
<1>2. CASE PgPurgeBatch(p)
  <2>1. PICK D \in SUBSET Purgeable(op[p]) : rows' = rows \ D /\ removed' = removed \cup {x.id : x \in D}
    BY <1>2 DEF PgPurgeBatch
  <2>2. PICK o : o \in {Idle, op[p]} /\ op' = [op EXCEPT ![p] = o]
    BY <1>2 DEF PgPurgeBatch, Go
  <2>3. backend = "postgres" /\ op[p].k = "purge" /\ UNCHANGED <<backend, index, forks, seq, old, disk, acked, used, sqvars>>
    BY <1>2 DEF PgPurgeBatch, Postgres
  <2>4. D \in SUBSET rows
    BY DEF Purgeable
  <2>5. Tables' /\ used'.stores = used.stores /\ used.stores \in Nat
    BY <2>1, <2>3, <2>4, DeleteTables
  <2>6. WriterAt(backend, used'.stores, o) /\ o.k \notin Locked
    <3>1. PurgeAt(backend, op[p])
      BY <2>3, WriterFacts
    <3> QED
      BY <2>2, <2>3, <3>1 DEF WriterAt, Idle, Locked
  <2>7. used'.stores \in Nat /\ used.stores <= used'.stores /\ UNCHANGED <<backend, sqvars>>
    BY <2>3, <2>5
  <2> QED
    BY <2>2, <2>5, <2>6, <2>7, WriterGoes DEF Typed
<1> QED
  BY <1>1, <1>2

-----------------------------------------------------------------------------
(* Types: what the stores share.                                           *)

LEMMA AgesTyped ==
    ASSUME Typed, Ages, UNCHANGED sqvars
    PROVE  Typed'
<1>1. PICK x \in rows : old' = old \cup {x.id}
  BY DEF Ages
<1>2. Bump("faults") /\ UNCHANGED <<backend, rows, index, forks, seq, disk, op, acked, removed, sqvars>>
  BY DEF Ages
<1>3. Tables /\ used.stores \in Nat /\ seq \in Nat /\ seq <= used.stores /\ used.stores <= Bound[backend].stores
  BY DEF Typed, Tables
<1>4. used' \in [{"stores", "forks", "faults", "reads"} -> Nat] /\ used'.stores = used.stores
  BY <1>2, <1>3, BumpFacts
<1>5. old' \cup removed' \subseteq 1..Bound[backend].stores
  BY <1>1, <1>2, <1>3, MadeFacts DEF Tables
<1>6. Tables'
  BY <1>2, <1>3, <1>4, <1>5, TablesGrow DEF Tables
<1> QED
  BY <1>2, <1>4, <1>6 DEF Typed, Coroutines, Locks, sqvars

LEMMA RestartTyped ==
    ASSUME Typed, Restart, UNCHANGED sqvars
    PROVE  Typed'
<1>1. /\ Bump("faults") /\ op' = [p \in Procs |-> Idle]
      /\ UNCHANGED <<backend, rows, index, forks, seq, old, disk, acked, removed, sqvars>>
  BY DEF Restart
<1>2. Tables' /\ used'.stores = used.stores
  BY <1>1, TablesSame DEF Typed
<1>3. pending' \in Nat /\ pending' <= used'.stores /\ lock' \in Procs \cup {Nobody}
  BY <1>1, <1>2 DEF Typed, Locks, sqvars
<1> QED
  BY <1>1, <1>2, <1>3, AllIdle

\* A notification goes out, which subscribers may get.
LEMMA PublishFacts ==
    ASSUME Typed, NEW p \in Writers, Publish(p)
    PROVE  /\ op[p].k = "publish" /\ op'[p] = Idle /\ \A q \in Procs : q # p /\ q \notin Readers => op'[q] = op[q]
           /\ DOMAIN op' = Procs /\ acked' = acked \cup {op[p].row}
           /\ UNCHANGED <<backend, rows, index, forks, seq, old, disk, removed, used>>
<1>1. p \in Procs
  BY WriterFacts
<1>2. \A q \in Procs : q # p /\ q \notin Readers => op'[q] = op[q]
  BY <1>1 DEF Publish
<1>3. op'[p] = Idle /\ DOMAIN op' = Procs
  BY <1>1 DEF Publish
<1> QED
  BY <1>2, <1>3 DEF Publish

LEMMA PublishTyped ==
    ASSUME Typed, NEW p \in Writers, Publish(p) \/ Unpublished(p), UNCHANGED sqvars
    PROVE  Typed'
<1>1. CASE Publish(p)
  <2>1. op[p].row \in Made(backend, used.stores) /\ p \in Procs /\ p \notin Services
    BY <1>1, WriterFacts, PublishFacts DEF Rowed
  <2>2. Tables /\ used.stores \in Nat /\ seq \in Nat /\ seq <= used.stores /\ used.stores <= Bound[backend].stores
    BY DEF Typed, Tables
  <2>3. Tables'
    BY <1>1, <2>1, <2>2, PublishFacts, TablesGrow DEF Tables
  <2>4. Coroutines'
    <3> SUFFICES ASSUME NEW q \in Procs PROVE At(backend, used.stores, q, op'[q])
      BY <1>1, PublishFacts DEF Coroutines
    <3>1. CASE q \in Readers
      BY <3>1, TableAssumption DEF At
    <3>2. CASE q = p
      BY <1>1, <2>1, <3>2, PublishFacts DEF At, WriterAt
    <3>3. CASE q \notin Readers /\ q # p
      BY <1>1, <3>3, PublishFacts DEF Typed, Coroutines
    <3> QED
      BY <3>1, <3>2, <3>3
  <2>5. Locks'
    <3>1. \A q \in Writers \cup Services : q \in Procs /\ q \notin Readers
      BY TableAssumption DEF Procs
    <3>2. \A q \in Writers \cup Services : q # p => op'[q] = op[q]
      BY <1>1, <3>1, PublishFacts
    <3>3. op'[p] = Idle /\ Idle.k \notin Locked
      BY <1>1, PublishFacts DEF Idle, Locked
    <3>4. UNCHANGED <<pending, lock, backend, used>>
      BY <1>1, PublishFacts DEF sqvars
    <3> QED
      BY <3>2, <3>3, <3>4 DEF Typed, Locks, Locked
  <2> QED
    BY <2>3, <2>4, <2>5 DEF Typed
<1>2. CASE Unpublished(p)
  <2>1. op[p].k \in Rowed /\ Ack(p) /\ Bump("faults") /\ UNCHANGED <<backend, rows, index, forks, seq, old, disk, removed>>
    BY <1>2 DEF Unpublished, Rowed
  <2>2. Tables' /\ Coroutines' /\ used'.stores = used.stores
    BY <2>1, AckTyped
  <2>3. op' = [op EXCEPT ![p] = Idle] /\ Idle.k \notin Locked /\ p \in Procs
    BY <2>1, WriterFacts DEF Ack, Go, Idle, Locked
  <2>4. UNCHANGED <<backend, sqvars>> /\ used'.stores \in Nat /\ used.stores <= used'.stores
    BY <2>1, <2>2 DEF Typed, Tables
  <2>5. Locks'
    BY <2>3, <2>4, LocksStay
  <2> QED
    BY <2>2, <2>5 DEF Typed
<1> QED
  BY <1>1, <1>2

LEMMA TypedInit ==
    ASSUME Init
    PROVE  Typed
<1>1. Bound[backend].stores \in Nat /\ backend \in Backends
  BY BoundFacts DEF Init
<1>2. Tables
  BY <1>1 DEF Init, Tables, LinksOf
<1>3. \A p \in Writers \cup Services : p \in Procs /\ op[p].k \notin Locked
  BY DEF Init, Procs, Idle, Locked
<1>4. Coroutines
  BY <1>3 DEF Init, Coroutines, At, WriterAt, ServiceAt
<1>5. Locks
  BY <1>2, <1>3 DEF Init, Locks, Locked, Tables
<1> QED
  BY <1>2, <1>4, <1>5 DEF Typed

\* What a step is.
SqWrite ==
    \/ \E p \in Writers, s \in Streams, k \in Kinds : SqStore(p, s, k) \/ SqInsert(p, s, k)
    \/ \E p \in Writers : SqStored(p) \/ SqCommitFails(p) \/ SqDone(p) \/ SqCount(p) \/ SqCancel(p) \/ SqPurgeBatch(p)
    \/ \E p \in Writers \cup Services : SqFlush(p) \/ SqCommitted(p) \/ SqFlushed(p) \/ SqFlushFails(p)
    \/ Wakes \/ SqClose \/ SqClosed \/ SqCrash
    \/ \E p \in Writers, s, parent \in Streams : \E at \in 1..seq : SqFork(p, s, parent, at)
    \/ \E p \in Writers, t \in Tenants, bound \in BOOLEAN : SqPurge(p, t, bound)
RdWrite ==
    \/ \E p \in Writers, s \in Streams, k \in Kinds : RdStore(p, s, k) \/ RdIncr(p, s, k)
    \/ \E p \in Writers : RdHset(p) \/ RdZadd(p) \/ RdTrim(p) \/ RdBroken(p)
    \/ RdExpires \/ \E s \in Streams : RdKeyExpires(s)
PgWrite ==
    \/ \E p \in Writers, s \in Streams, k \in Kinds : PgInsert(p, s, k)
    \/ \E p \in Writers : PgCommits(p) \/ PgFails(p) \/ PgPurgeBatch(p)
    \/ \E p \in Writers, t \in Tenants, bound \in BOOLEAN : PgPurge(p, t, bound)
NetStep ==
    \/ Ages \/ Restart
    \/ \E p \in Writers : Publish(p) \/ Unpublished(p)
    \/ \E p \in Writers, s, parent \in Streams : \E at \in 1..seq : RdFork(p, s, parent, at) \/ PgFork(p, s, parent, at)

LEMMA Steps ==
    ASSUME Next
    PROVE  \/ SqWrite
           \/ (RdWrite \/ PgWrite \/ NetStep) /\ UNCHANGED sqvars
           \/ \E r \in Readers : ReaderStep(r)
<1>1. CASE SqNext
  <2>1. CASE \/ \E r \in Readers, s \in Streams, t \in Tenants :
                  (\E last \in 0..seq : SqReplay(r, last, s, t)) \/ SqSubscribe(r, s, t)
             \/ \E r \in Readers : SqSegments(r) \/ SqRead(r) \/ SqPoll(r)
    <3>1. ASSUME NEW r \in Readers, NEW s \in Streams, NEW t \in Tenants, NEW last \in 0..seq, SqReplay(r, last, s, t)
          PROVE  ReaderStep(r)
      BY <3>1 DEF SqReplay, ReaderStep, Sqlite, Redis
    <3>2. ASSUME NEW r \in Readers, NEW s \in Streams, NEW t \in Tenants, SqSubscribe(r, s, t) PROVE ReaderStep(r)
      BY <3>2 DEF SqSubscribe, ReaderStep
    <3>3. ASSUME NEW r \in Readers, SqSegments(r) \/ SqRead(r) \/ SqPoll(r) PROVE ReaderStep(r)
      BY <3>3 DEF SqSegments, SqRead, SqPoll, ReaderStep
    <3> QED
      BY <2>1, <3>1, <3>2, <3>3
  <2>2. CASE SqWrite
    BY <2>2
  <2> QED
    BY <1>1, <2>1, <2>2 DEF SqNext, SqWrite
<1>2. CASE RdNext /\ UNCHANGED sqvars
  <2>1. CASE \/ \E r \in Readers, s \in Streams : (\E last \in 0..seq : RdReplay(r, last, s)) \/ RdSubscribe(r, s)
             \/ \E r \in Readers : \/ RdSegments(r) \/ RdChunk(r) \/ RdIds(r) \/ RdPayloads(r) \/ RdPrune(r) \/ RdDeliver(r)
    <3>1. ASSUME NEW r \in Readers, NEW s \in Streams, NEW last \in 0..seq, RdReplay(r, last, s)
          PROVE  ReaderStep(r)
      BY <1>2, <3>1, TableAssumption DEF RdReplay, ReaderStep
    <3>2. ASSUME NEW r \in Readers, NEW s \in Streams, RdSubscribe(r, s) PROVE ReaderStep(r)
      BY <1>2, <3>2 DEF ReaderStep
    <3>3. ASSUME NEW r \in Readers, RdSegments(r) \/ RdChunk(r) \/ RdIds(r) \/ RdPayloads(r) \/ RdPrune(r) \/ RdDeliver(r)
          PROVE  ReaderStep(r)
      BY <1>2, <3>3 DEF RdSegments, ReaderStep
    <3> QED
      BY <2>1, <3>1, <3>2, <3>3
  <2>2. CASE RdWrite
    BY <1>2, <2>2
  <2>3. CASE \E p \in Writers, s, parent \in Streams : \E at \in 1..seq : RdFork(p, s, parent, at)
    BY <1>2, <2>3 DEF NetStep
  <2> QED
    BY <1>2, <2>1, <2>2, <2>3 DEF RdNext, RdWrite
<1>3. CASE PgNext /\ UNCHANGED sqvars
  <2>1. CASE \/ \E r \in Readers, s \in Streams, t \in Tenants : (\E last \in 0..seq : PgReplay(r, last, s, t)) \/ PgListen(r, s, t)
             \/ \E r \in Readers : PgSegments(r) \/ PgPage(r) \/ PgDeliver(r)
    <3>1. ASSUME NEW r \in Readers, NEW s \in Streams, NEW t \in Tenants, NEW last \in 0..seq, PgReplay(r, last, s, t)
          PROVE  ReaderStep(r)
      BY <1>3, <3>1 DEF PgReplay, ReaderStep, Postgres, Redis
    <3>2. ASSUME NEW r \in Readers, NEW s \in Streams, NEW t \in Tenants, PgListen(r, s, t) PROVE ReaderStep(r)
      BY <1>3, <3>2 DEF ReaderStep
    <3>3. ASSUME NEW r \in Readers, PgSegments(r) \/ PgPage(r) \/ PgDeliver(r) PROVE ReaderStep(r)
      BY <1>3, <3>3 DEF PgSegments, ReaderStep
    <3> QED
      BY <2>1, <3>1, <3>2, <3>3
  <2>2. CASE PgWrite
    BY <1>3, <2>2
  <2>3. CASE \E p \in Writers, s, parent \in Streams : \E at \in 1..seq : PgFork(p, s, parent, at)
    BY <1>3, <2>3 DEF NetStep
  <2> QED
    BY <1>3, <2>1, <2>2, <2>3 DEF PgNext, PgWrite
<1>4. CASE Shared /\ UNCHANGED sqvars
  <2>1. ASSUME NEW r \in Readers, Answered(r) \/ Unsubscribe(r) PROVE ReaderStep(r)
    BY <1>4, <2>1 DEF ReaderStep
  <2> QED
    BY <1>4, <2>1 DEF Shared, NetStep
<1> QED
  BY <1>1, <1>2, <1>3, <1>4 DEF Next

LEMMA TypedStep ==
    ASSUME Typed, [Next]_vars
    PROVE  Typed'
<1>1. CASE UNCHANGED vars
  BY <1>1 DEF vars, common, sqvars, Typed, Tables, Coroutines, Locks
<1>2. CASE SqWrite
  BY <1>2, SqStoreTyped, SqInsertTyped, SqStoredTyped, SqWriterTyped, SqCountTyped, SqPurgeBatchTyped, SqFlushTyped, WakesTyped,
     SqCloseTyped, ReopenTyped, SqForkTyped DEF SqWrite
<1>3. CASE RdWrite /\ UNCHANGED sqvars
  BY <1>3, RdStoreTyped, RdWriteTyped, RdExpiryTyped DEF RdWrite
<1>4. CASE PgWrite /\ UNCHANGED sqvars
  BY <1>4, PgInsertTyped, PgWriteTyped, PgPurgeTyped DEF PgWrite
<1>5. CASE NetStep /\ UNCHANGED sqvars
  BY <1>5, AgesTyped, RestartTyped, PublishTyped, NetForkTyped DEF NetStep
<1>6. ASSUME NEW r \in Readers, ReaderStep(r) PROVE Typed'
  BY <1>6, ReaderStepTyped
<1> QED
  BY <1>1, <1>2, <1>3, <1>4, <1>5, <1>6, Steps

LEMMA TypedAlways == Spec => []Typed
BY TypedInit, TypedStep, PTL DEF Spec

\* The table, its forks and its histories hold rows the calls made, whatever the store, its
\* crashes and its purges, and the lock and the count of the write-behind mode are what they
\* may be (SQLiteEventStore, RedisEventStore, PostgresEventStore).
THEOREM StoresTyped == Spec => []TypeOK
<1>1. Typed => TypeOK
  <2> SUFFICES ASSUME Typed PROVE TypeOK
    OBVIOUS
  <2>1. Bound[backend].stores \in Nat /\ used.stores \in Nat /\ used.stores <= Bound[backend].stores /\ backend \in Backends
    BY BoundFacts DEF Typed, Tables
  <2>2. \A x \in Made(backend, used.stores) : x \in RowType
    BY DEF Made, RowsOf, RowType, MaxStores
  <2>3. rows \subseteq RowType /\ acked \subseteq RowType /\ disk.rows \subseteq RowType
    BY <2>2 DEF Typed, Tables
  <2>4. seq \in 0..MaxStores /\ pending \in 0..MaxStores /\ lock \in Procs \cup {Nobody}
    BY <2>1 DEF Typed, Tables, Locks, MaxStores
  <2>5. forks \in [Streams -> {Root} \cup [p : Streams, at : 1..MaxStores]]
    BY DEF Typed, Tables, LinksOf, MaxStores
  <2> QED
    BY <2>1, <2>3, <2>4, <2>5 DEF Typed, Tables, TypeOK, MaxStores
<1> QED
  BY <1>1, TypedAlways, PTL

-----------------------------------------------------------------------------
(* The order of the ids.  Where an id is taken and its row made visible in *)
(* one step, every row there is has an id the sequence has given out.      *)

OneStep == backend \in {"sqlite", "behind", "script"}
Numbered ==
    OneStep => (\A x \in rows : x.id <= seq) /\ (\A x \in disk.rows : x.id <= disk.seq)

\* What a step of these stores does to the rows.
LEMMA RowSteps ==
    ASSUME Typed, [Next]_vars, OneStep
    PROVE  /\ backend' = backend
           /\ \/ rows' \subseteq rows /\ seq' = seq /\ disk' \in {disk, Now}
              \/ rows' = disk.rows /\ seq' = disk.seq /\ disk' = disk
              \/ \E x \in {y \in Made(backend, used.stores + 1) \ Made(backend, used.stores) : y.id = seq + 1} :
                    rows' = rows \cup {x} /\ seq' = seq + 1 /\ disk' = disk
<1>1. CASE UNCHANGED vars
  BY <1>1 DEF vars, common
<1>2. ASSUME NEW p \in Writers, NEW s \in Streams, NEW k \in Kinds,
             SqStore(p, s, k) \/ SqInsert(p, s, k) \/ RdStore(p, s, k)
      PROVE  \E x \in {y \in Made(backend, used.stores + 1) \ Made(backend, used.stores) : y.id = seq + 1} :
                    rows' = rows \cup {x} /\ seq' = seq + 1 /\ disk' = disk /\ backend' = backend
  <2> DEFINE x(t) == NewRow(s, t, k)
  <2>1. PICK t \in Tenants : rows' = rows \cup {x(t)} /\ seq' = seq + 1 /\ disk' = disk /\ Bump("stores") /\ backend' = backend
    BY <1>2, TableAssumption DEF SqStore, SqInsert, RdStore
  <2>2. used.stores + 1 <= Bound[backend].stores
    BY <2>1, BumpFacts DEF Typed
  <2>3. x(t) \in Made(backend, used.stores + 1) \ Made(backend, used.stores) /\ x(t).id = seq + 1
    BY <2>2, NewRowFacts DEF Typed
  <2> QED
    BY <2>1, <2>3
<1>3. ASSUME SqWrite, ~ (\E p \in Writers, s \in Streams, k \in Kinds : SqStore(p, s, k) \/ SqInsert(p, s, k))
      PROVE  /\ backend' = backend
             /\ \/ rows' \subseteq rows /\ seq' = seq /\ disk' \in {disk, Now}
                \/ rows' = disk.rows /\ seq' = disk.seq /\ disk' = disk
  <2>1. ASSUME NEW p \in Writers, SqStored(p) \/ SqCommitFails(p) \/ SqDone(p) \/ SqCount(p) \/ SqCancel(p) \/ SqPurgeBatch(p)
        PROVE  backend' = backend /\ rows' \subseteq rows /\ seq' = seq /\ disk' \in {disk, Now}
    BY <2>1 DEF SqStored, SqCommitFails, SqDone, SqCount, SqCancel, SqPurgeBatch, Commit
  <2>2. ASSUME NEW p \in Writers \cup Services, SqFlush(p) \/ SqCommitted(p) \/ SqFlushed(p) \/ SqFlushFails(p)
        PROVE  backend' = backend /\ rows' \subseteq rows /\ seq' = seq /\ disk' \in {disk, Now}
    BY <2>2 DEF SqFlush, SqCommitted, SqFlushed, SqFlushFails, Commit
  <2>3. CASE Wakes \/ SqClose
    BY <2>3 DEF Wakes, SqClose, Commit
  <2>4. CASE SqClosed \/ SqCrash
    BY <2>4 DEF SqClosed, SqCrash, Reopen
  <2>5. ASSUME NEW p \in Writers, NEW s \in Streams, NEW parent \in Streams, NEW at \in 1..seq, SqFork(p, s, parent, at)
        PROVE  backend' = backend /\ rows' \subseteq rows /\ seq' = seq /\ disk' \in {disk, Now}
    BY <2>5 DEF SqFork
  <2>6. ASSUME NEW p \in Writers, NEW t \in Tenants, NEW bound \in BOOLEAN, SqPurge(p, t, bound)
        PROVE  backend' = backend /\ rows' \subseteq rows /\ seq' = seq /\ disk' \in {disk, Now}
    BY <2>6 DEF SqPurge
  <2> QED
    BY <1>3, <2>1, <2>2, <2>3, <2>4, <2>5, <2>6 DEF SqWrite
<1>4. ASSUME RdWrite, ~ (\E p \in Writers, s \in Streams, k \in Kinds : RdStore(p, s, k))
      PROVE  backend' = backend /\ rows' \subseteq rows /\ seq' = seq /\ disk' = disk
  <2>1. ASSUME NEW p \in Writers, RdHset(p) \/ RdZadd(p) \/ RdTrim(p) \/ RdBroken(p) PROVE FALSE
    BY <2>1, StageFacts DEF RdHset, RdZadd, RdTrim, RdBroken, OneStep
  <2>2. ASSUME NEW p, NEW s, NEW k, RdIncr(p, s, k) PROVE FALSE
    BY <2>2 DEF RdIncr, OneStep
  <2> QED
    BY <1>4, <2>1, <2>2 DEF RdWrite, RdExpires, RdKeyExpires
<1>5. ~ PgWrite
  <2>1. ASSUME NEW p \in Writers, PgCommits(p) \/ PgFails(p) PROVE FALSE
    BY <2>1, StageFacts DEF PgCommits, PgFails, OneStep
  <2> QED
    BY <2>1 DEF PgWrite, PgInsert, PgPurge, PgPurgeBatch, Postgres, OneStep
<1>6. NetStep => backend' = backend /\ rows' \subseteq rows /\ seq' = seq /\ disk' = disk
  BY DEF NetStep, Ages, Restart, Publish, Unpublished, RdFork, PgFork
<1>7. ASSUME NEW r \in Readers, ReaderStep(r) PROVE backend' = backend /\ rows' \subseteq rows /\ seq' = seq /\ disk' = disk
  BY <1>7, ReaderStepKeeps
<1> QED
  BY <1>1, <1>2, <1>3, <1>4, <1>5, <1>6, <1>7, Steps DEF RdWrite, SqWrite

LEMMA SameStore ==
    ASSUME [Next]_vars
    PROVE  backend' = backend
<1>1. CASE UNCHANGED vars
  BY <1>1 DEF vars, common
<1>2. SqWrite => backend' = backend
  BY DEF SqWrite, SqStore, SqInsert, SqStored, SqCommitFails, SqDone, SqCount, SqCancel, SqPurgeBatch, SqFlush, SqCommitted, SqFlushed,
         SqFlushFails, Wakes, SqClose, SqClosed, SqCrash, SqFork, SqPurge
<1>3. RdWrite => backend' = backend
  BY DEF RdWrite, RdStore, RdIncr, RdHset, RdZadd, RdTrim, RdBroken, RdExpires, RdKeyExpires
<1>4. PgWrite => backend' = backend
  BY DEF PgWrite, PgInsert, PgCommits, PgFails, PgPurge, PgPurgeBatch
<1>5. NetStep => backend' = backend
  BY DEF NetStep, Ages, Restart, Publish, Unpublished, RdFork, PgFork
<1>6. ASSUME NEW r \in Readers, ReaderStep(r) PROVE backend' = backend
  BY <1>6, ReaderStepKeeps
<1> QED
  BY <1>1, <1>2, <1>3, <1>4, <1>5, <1>6, Steps

LEMMA NumberedStep ==
    ASSUME Typed, Numbered, [Next]_vars
    PROVE  Numbered'
<1> SUFFICES ASSUME OneStep PROVE (\A x \in rows' : x.id <= seq') /\ (\A x \in disk'.rows : x.id <= disk'.seq)
  BY SameStore DEF Numbered, OneStep
<1>1. (\A x \in rows : x.id <= seq) /\ (\A x \in disk.rows : x.id <= disk.seq)
  BY DEF Numbered
<1>2. seq \in Nat /\ used.stores \in Nat /\ Bound[backend].stores \in Nat
  BY BoundFacts DEF Typed, Tables
<1>3. CASE rows' \subseteq rows /\ seq' = seq /\ disk' \in {disk, Now}
  BY <1>1, <1>3 DEF Now
<1>4. CASE rows' = disk.rows /\ seq' = disk.seq /\ disk' = disk
  BY <1>1, <1>4
<1>5. ASSUME NEW x \in {y \in Made(backend, used.stores + 1) \ Made(backend, used.stores) : y.id = seq + 1}, rows' = rows \cup {x}, seq' = seq + 1, disk' = disk
      PROVE  (\A y \in rows' : y.id <= seq') /\ (\A y \in disk'.rows : y.id <= disk'.seq)
  <2>1. \A y \in rows : y.id <= seq + 1
    BY <1>1, <1>2, MadeFacts DEF Typed, Tables
  <2> QED
    BY <1>1, <1>2, <1>5, <2>1
<1> QED
  BY <1>3, <1>4, <1>5, RowSteps

LEMMA NumberedAlways == Spec => []Numbered
<1>1. Init => Numbered
  BY DEF Init, Numbered
<1> QED
  BY <1>1, NumberedStep, TypedAlways, PTL DEF Spec

\* SQLite that commits every event, and the script of Redis: no id that is returned, or whose
\* store_event is under way, is beyond the sequence, and a returned one is on SQLite's disk.
Counted == backend \in {"sqlite", "script"}
Passed ==
    Counted => /\ \A x \in acked : x.id <= seq /\ (backend = "sqlite" => x.id <= disk.seq)
               /\ \A p \in Writers : op[p].k \in Rowed => op[p].row.id <= seq

\* What a step of these two adds to the returned events, and what it leaves the writers.
LEMMA PassedStep ==
    ASSUME Typed, Passed, [Next]_vars
    PROVE  Passed'
<1> SUFFICES ASSUME Counted
             PROVE  /\ \A x \in acked' : x.id <= seq' /\ (backend = "sqlite" => x.id <= disk'.seq)
                    /\ \A p \in Writers : op'[p].k \in Rowed => op'[p].row.id <= seq'
  BY SameStore DEF Passed, Counted
<1> DEFINE Goal == /\ \A x \in acked' : x.id <= seq' /\ (backend = "sqlite" => x.id <= disk'.seq)
                   /\ \A p \in Writers : op'[p].k \in Rowed => op'[p].row.id <= seq'
<1>1. /\ \A x \in acked : x.id <= seq /\ (backend = "sqlite" => x.id <= disk.seq) /\ x.id \in Nat
      /\ \A p \in Writers : op[p].k \in Rowed => op[p].row.id <= seq /\ op[p].row.id \in Nat
      /\ seq \in Nat /\ DOMAIN op = Procs /\ Idle.k \notin Rowed
  BY WriterFacts, MadeFacts DEF Passed, Typed, Tables, Coroutines, Idle, Rowed
<1>2. \A p \in Writers : p \in Procs /\ p \notin Readers /\ p # "flusher" /\ p # "closer"
  BY WriterFacts DEF Services
\* nobody stores or returns: the writers stay, end, or go on without a row
<1>3. ASSUME acked' = acked, seq' = seq, disk' \in {disk, Now},
             \A q \in Writers : op'[q] = op[q] \/ op'[q].k \notin Rowed
      PROVE  Goal
  BY <1>1, <1>3 DEF Now
<1>4. ASSUME NEW p \in Writers, NEW o, Go(p, o), o.k \notin Rowed, acked' = acked, seq' = seq, disk' \in {disk, Now}
      PROVE  Goal
  BY <1>1, <1>2, <1>3, <1>4 DEF Go
<1>5. ASSUME op' = [p \in Procs |-> Idle], acked' = acked, disk' = disk, seq' = seq \/ (backend = "sqlite" /\ seq' = disk.seq)
      PROVE  Goal
  BY <1>1, <1>2, <1>5 DEF Counted
<1>6. ASSUME NEW p \in Writers, NEW o, Go(p, o), o.row.id = seq + 1, acked' = acked, seq' = seq + 1, disk' = disk
      PROVE  Goal
  <2>1. \A q \in Writers : IF q = p THEN op'[q] = o ELSE op'[q] = op[q]
    BY <1>1, <1>2, <1>6 DEF Go
  <2> QED
    BY <1>1, <1>6, <2>1
<1>7. ASSUME NEW p \in Writers, op[p].k \in Rowed, acked' = acked \cup {op[p].row}, seq' = seq, disk' \in {disk, Now},
             backend = "sqlite" => disk' = Now, \A q \in Writers : op'[q] = op[q] \/ op'[q].k \notin Rowed
      PROVE  Goal
  BY <1>1, <1>7 DEF Now
<1> HIDE DEF Goal
<1>8. CASE UNCHANGED vars
  <2>1. /\ acked' = acked /\ seq' = seq /\ disk' \in {disk, Now}
        /\ \A q \in Writers : op'[q] = op[q] \/ op'[q].k \notin Rowed
    BY <1>8 DEF vars, common
  <2> QED
    BY <1>3, <2>1 DEF Goal
<1>9. ASSUME SqWrite PROVE Goal
  <2>1. ASSUME NEW p \in Writers, NEW s \in Streams, NEW k \in Kinds, SqStore(p, s, k) PROVE Goal
    <3> DEFINE o == [k |-> "commit1", row |-> NewRow(s, TenantOf[p], k)]
    <3>1. o.row.id = seq + 1 /\ Go(p, o) /\ acked' = acked /\ seq' = seq + 1 /\ disk' = disk
      BY <2>1 DEF SqStore, NewRow
    <3> HIDE DEF o
    <3> QED
      BY <1>6, <3>1
  <2>2. ASSUME NEW p \in Writers, NEW s \in Streams, NEW k \in Kinds, SqInsert(p, s, k) PROVE FALSE
    BY <2>2 DEF SqInsert, Counted
  <2>3. ASSUME NEW p \in Writers, SqStored(p) PROVE Goal
    <3>1. /\ op[p].k \in Rowed /\ acked' = acked \cup {op[p].row} /\ seq' = seq /\ disk' = Now /\ Go(p, Idle)
      BY <2>3 DEF SqStored, Ack, Commit, Rowed
    <3>2. \A q \in Writers : op'[q] = op[q] \/ op'[q].k \notin Rowed
      BY <1>1, <1>2, <3>1 DEF Go
    <3> QED
      BY <1>7, <3>1, <3>2
  <2>4. ASSUME NEW p \in Writers, SqCommitFails(p) \/ SqDone(p) \/ SqPurgeBatch(p) PROVE Goal
    <3>1. op[p].k = "commit2" => op[p].next.k \notin Rowed
      BY WriterFacts DEF PurgeAt, Idle, Rowed
    <3>2. acked' = acked /\ seq' = seq /\ disk' \in {disk, Now} /\ \E o : Go(p, o) /\ o.k \notin Rowed
      BY <1>1, <2>4, <3>1 DEF SqCommitFails, SqDone, SqPurgeBatch, Commit, Rowed
    <3> QED
      BY <1>4, <3>2
  <2>5. ASSUME NEW p \in Writers, SqCount(p) \/ SqCancel(p) PROVE FALSE
    BY <2>5, StageFacts DEF SqCount, SqCancel, Counted
  <2>6. ASSUME NEW p \in Writers \cup Services, SqFlush(p) \/ SqCommitted(p) \/ SqFlushed(p) \/ SqFlushFails(p) PROVE Goal
    <3>1. op[p].k \in {"flush", "commit", "reset"} => backend = "behind"
      BY StageFacts, ServiceFacts
    <3> QED
      BY <2>6, <3>1 DEF SqFlush, SqCommitted, SqFlushed, SqFlushFails, Counted
  <2>7. CASE Wakes
    <3>1. \A q \in Writers : op'[q] = op[q]
      BY <1>1, <1>2, <2>7 DEF Wakes, Go
    <3> QED
      BY <1>3, <2>7, <3>1 DEF Wakes
  <2>8. CASE SqClose \/ SqClosed
    <3>1. ~ SqClose
      BY DEF SqClose, Counted
    <3>2. op["closer"].k \in {"close", "closed"} => backend = "behind"
      BY ServiceFacts DEF Services
    <3> QED
      BY <2>8, <3>1, <3>2 DEF SqClosed, Counted
  <2>9. CASE SqCrash
    <3>1. backend = "sqlite"
      BY <2>9 DEF SqCrash, Sqlite, Counted
    <3> QED
      BY <1>5, <2>9, <3>1 DEF SqCrash, Reopen
  <2>10. ASSUME NEW p \in Writers, NEW s \in Streams, NEW parent \in Streams, NEW at \in 1..seq, SqFork(p, s, parent, at) PROVE Goal
    <3> DEFINE o == [k |-> "commit2", next |-> Idle]
    <3>1. o.k \notin Rowed
      BY DEF Rowed
    <3>2. Go(p, o) /\ acked' = acked /\ seq' = seq /\ disk' = disk
      BY <2>10 DEF SqFork
    <3> HIDE DEF o
    <3> QED
      BY <1>4, <3>1, <3>2
  <2>11. ASSUME NEW p \in Writers, NEW t \in Tenants, NEW bound \in BOOLEAN, SqPurge(p, t, bound) PROVE Goal
    <3> DEFINE o == [k |-> "purge", t |-> t, bound |-> bound, cut |-> old]
    <3>1. o.k \notin Rowed
      BY DEF Rowed
    <3>2. Go(p, o) /\ acked' = acked /\ seq' = seq /\ disk' = disk
      BY <2>11 DEF SqPurge
    <3> HIDE DEF o
    <3> QED
      BY <1>4, <3>1, <3>2
  <2> QED
    BY <1>9, <2>1, <2>2, <2>3, <2>4, <2>5, <2>6, <2>7, <2>8, <2>9, <2>10, <2>11 DEF SqWrite
<1>10. ASSUME RdWrite PROVE Goal
  <2>1. ASSUME NEW p \in Writers, NEW s \in Streams, NEW k \in Kinds, RdStore(p, s, k) PROVE Goal
    <3> DEFINE o == [k |-> "publish", row |-> NewRow(s, NoTenant, k)]
    <3>1. o.row.id = seq + 1 /\ Go(p, o) /\ acked' = acked /\ seq' = seq + 1 /\ disk' = disk
      BY <2>1 DEF RdStore, NewRow
    <3> HIDE DEF o
    <3> QED
      BY <1>6, <3>1
  <2>2. ASSUME NEW p \in Writers, NEW s \in Streams, NEW k \in Kinds, RdIncr(p, s, k) PROVE FALSE
    BY <2>2 DEF RdIncr, Counted
  <2>3. ASSUME NEW p \in Writers, RdHset(p) \/ RdZadd(p) \/ RdTrim(p) \/ RdBroken(p) PROVE FALSE
    BY <2>3, StageFacts DEF RdHset, RdZadd, RdTrim, RdBroken, Counted
  <2>4. CASE RdExpires \/ \E s \in Streams : RdKeyExpires(s)
    BY <1>3, <2>4 DEF RdExpires, RdKeyExpires
  <2> QED
    BY <1>10, <2>1, <2>2, <2>3, <2>4 DEF RdWrite
<1>11. ~ PgWrite
  <2>1. ASSUME NEW p \in Writers, PgCommits(p) \/ PgFails(p) PROVE FALSE
    BY <2>1, StageFacts DEF PgCommits, PgFails, Counted
  <2> QED
    BY <2>1 DEF PgWrite, PgInsert, PgPurge, PgPurgeBatch, Postgres, Counted
<1>12. ASSUME NetStep PROVE Goal
  <2>1. CASE Ages \/ \E p \in Writers, s, parent \in Streams : \E at \in 1..seq : RdFork(p, s, parent, at) \/ PgFork(p, s, parent, at)
    BY <1>3, <2>1 DEF Ages, RdFork, PgFork
  <2>2. CASE Restart
    BY <1>5, <2>2 DEF Restart
  <2>3. ASSUME NEW p \in Writers, Publish(p) \/ Unpublished(p) PROVE Goal
    <3>1. op[p].k \in Rowed /\ backend # "sqlite"
      BY <2>3, StageFacts DEF Publish, Unpublished, Rowed
    <3>2. acked' = acked \cup {op[p].row} /\ seq' = seq /\ disk' = disk
      BY <2>3 DEF Publish, Unpublished, Ack
    <3>3. \A q \in Writers : op'[q] = op[q] \/ op'[q].k \notin Rowed
      BY <1>1, <1>2, <2>3 DEF Publish, Unpublished, Ack, Go
    <3> QED
      BY <1>7, <3>1, <3>2, <3>3
  <2> QED
    BY <1>12, <2>1, <2>2, <2>3 DEF NetStep
<1>13. ASSUME NEW r \in Readers, ReaderStep(r) PROVE Goal
  <2>1. \A q \in Writers : op'[q] = op[q]
    <3>1. PICK o : Go(r, o)
      BY <1>13, ReaderStepKeeps
    <3> QED
      BY <1>1, <1>2, <3>1 DEF Go
  <2> QED
    BY <1>3, <1>13, <2>1, ReaderStepKeeps
<1> QED
  BY <1>8, <1>9, <1>10, <1>11, <1>12, <1>13, Steps DEF Goal

\* An id is taken and its row made visible in one step by SQLite and by the script of Redis: an
\* event appears behind every stored one and, but for write-behind, behind every id that was
\* returned, which a client may hold as its Last-Event-ID, whatever crashed or was purged.
THEOREM NobodyLate == Spec => NoLateArrival
<1>1. Init => Passed
  <2> SUFFICES ASSUME Init PROVE Passed
    OBVIOUS
  <2>1. \A p \in Writers : op[p] = Idle
    BY DEF Init, Procs
  <2> QED
    BY <2>1 DEF Init, Passed, Idle, Rowed
<1>2. ASSUME Typed, Numbered, Passed, [Next]_vars
      PROVE  [\A x \in rows' \ (rows \cup disk.rows) :
                  /\ backend \in {"sqlite", "behind", "script"} => \A y \in rows : y.id < x.id
                  /\ backend \in {"sqlite", "script"} => \A y \in acked : y.id < x.id]_vars
  <2> SUFFICES ASSUME NEW x \in rows' \ (rows \cup disk.rows), OneStep
               PROVE  /\ \A y \in rows : y.id < x.id
                      /\ Counted => \A y \in acked : y.id < x.id
    BY DEF OneStep, Counted
  <2>1. x \in {z \in Made(backend, used.stores + 1) : z.id = seq + 1}
    BY <1>2, RowSteps
  <2>2. ASSUME NEW y \in rows PROVE y.id < x.id
    <3>1. y.id <= seq /\ seq \in Nat /\ y.id \in Nat
      BY <1>2, MadeFacts, BoundFacts DEF Numbered, Typed, Tables
    <3> QED
      BY <2>1, <3>1
  <2>3. ASSUME Counted, NEW y \in acked PROVE y.id < x.id
    <3>1. y.id <= seq /\ seq \in Nat /\ y.id \in Nat
      BY <1>2, <2>3, MadeFacts, BoundFacts DEF Passed, Typed, Tables
    <3> QED
      BY <2>1, <3>1
  <2> QED
    BY <2>2, <2>3
<1> QED
  BY <1>1, <1>2, PassedStep, NumberedAlways, TypedAlways, PTL DEF Spec, NoLateArrival

-----------------------------------------------------------------------------
(* Durability with SQLite.  With write-behind a store_event owes the disk  *)
(* its row from the moment it is counted, which is before it returns.  As  *)
(* long as a row is owed something is pending, nobody is about to set the  *)
(* count to zero, and aclose has not skipped its commit.  Only rows that   *)
(* are owed count: the row of a cancelled store may stay behind uncounted. *)

Mid == {"flush", "commit", "reset"}
Due == acked \cup {op[p].row : p \in {q \in Writers : op[q].k \in Mid}}
Unsaved == (Due \cap rows) \ disk.rows
Saved ==
    /\ backend = "sqlite" => (acked \cap rows) \ disk.rows = {}
    /\ backend = "behind" =>
          /\ Unsaved # {} => /\ pending > 0 /\ op["closer"].k # "close"
                             /\ \A p \in Writers \cup Services : op[p].k # "reset"
          /\ op["closer"] # Idle => \A p \in Writers : op[p].k \notin Mid \cup {"count"}

\* A coroutine goes on; no row is owed anew, and the count stays.
LEMMA SavedGoes ==
    ASSUME Typed, Saved, backend = "behind", backend' = backend, NEW p \in Procs, NEW o, Go(p, o),
           p \in Writers => o.k \notin Mid \cup {"count"},
           p \in Writers \cup Services => o.k # "reset", p = "closer" => o.k # "close" /\ op["closer"] # Idle,
           rows' \subseteq rows, acked' = acked, disk' \in {disk, Now}, pending' = pending
    PROVE  Saved'
<1>1. DOMAIN op = Procs /\ op' = [op EXCEPT ![p] = o]
  BY DEF Typed, Coroutines, Go
<1>2. op'[p] = o /\ \A q \in Procs \ {p} : op'[q] = op[q]
  BY <1>1
<1>3. (\A q \in Writers \cup Services : q \in Procs) /\ "closer" \in Procs
  BY ServiceFacts DEF Procs
<1>4. Due' \subseteq Due
  <2>1. ASSUME NEW q \in Writers, op'[q].k \in Mid PROVE op[q].k \in Mid /\ op'[q] = op[q]
    BY <1>2, <1>3, <2>1
  <2> QED
    BY <2>1 DEF Due
<1>5. Unsaved' \subseteq Unsaved
  BY <1>4 DEF Unsaved, Now
<1>6. op'["closer"].k = "close" => op["closer"].k = "close"
  BY <1>2, <1>3
<1>7. \A q \in Writers \cup Services : op'[q].k = "reset" => op[q].k = "reset"
  BY <1>2, <1>3
<1>8. op'["closer"] # Idle => op["closer"] # Idle
  BY <1>2, <1>3
<1>9. \A q \in Writers : op'[q].k \in Mid \cup {"count"} => op[q].k \in Mid \cup {"count"}
  BY <1>2, <1>3
<1> QED
  BY <1>5, <1>6, <1>7, <1>8, <1>9 DEF Saved

LEMMA SqInsertSaved ==
    ASSUME Typed, Saved, NEW p \in Writers, NEW s \in Streams, NEW k \in Kinds, SqInsert(p, s, k)
    PROVE  Saved'
<1> DEFINE x == NewRow(s, TenantOf[p], k)
           f == IF op["flusher"] = Idle THEN [k |-> "sleep"] ELSE op["flusher"]
<1>1. /\ backend = "behind" /\ Bump("stores") /\ rows' = rows \cup {x} /\ lock = Nobody /\ op["closer"] = Idle /\ op[p] = Idle
      /\ UNCHANGED <<backend, disk, acked, pending>>
  BY DEF SqInsert
<1>2. p \in Procs /\ p # "flusher" /\ p # "closer" /\ {"flusher", "closer"} \subseteq Procs /\ DOMAIN op = Procs
  BY WriterFacts, ServiceFacts DEF Typed, Coroutines
<1>3. op' = [op EXCEPT ![p] = [k |-> "count", row |-> x], !["flusher"] = f]
  BY <1>2 DEF SqInsert
<1>4. op'[p].k = "count" /\ op'["flusher"] = f /\ \A q \in Procs \ {p, "flusher"} : op'[q] = op[q]
  BY <1>2, <1>3
<1>5. x \notin Due
  <2>1. Tables /\ used.stores + 1 <= Bound[backend].stores
    BY <1>1, BumpFacts DEF Typed
  <2>2. x \notin Made(backend, used.stores)
    BY <2>1, NewRowFacts, TableAssumption
  <2>3. \A q \in Writers : op[q].k \in Mid => op[q].row \in Made(backend, used.stores)
    BY WriterFacts DEF Mid, Rowed
  <2> QED
    BY <2>1, <2>2, <2>3 DEF Due, Tables
<1>6. \A q \in Writers \cup Services : q \in Procs /\ q # Nobody
  BY TableAssumption DEF Procs
<1>7. \A q \in Writers \cup Services : op[q].k # "reset"
  BY <1>1, <1>6 DEF Typed, Locks, Locked
<1>8. f.k # "reset"
  BY <1>7 DEF Services
<1> HIDE DEF x, f
<1>9. Due' = Due
  <2>1. \A q \in Writers : q # "flusher" /\ q \in Procs
    BY ServiceFacts, <1>6
  <2>2. op[p].k \notin Mid /\ op'[p].k \notin Mid
    BY <1>1, <1>4 DEF Idle, Mid
  <2>3. \A q \in Writers : q # p => op'[q] = op[q]
    BY <1>4, <2>1
  <2> QED
    BY <1>1, <2>2, <2>3 DEF Due
<1>10. Unsaved' = Unsaved
  BY <1>1, <1>5, <1>9 DEF Unsaved
<1>11. op'["closer"] = Idle /\ Idle.k # "close"
  BY <1>1, <1>2, <1>4 DEF Idle
<1>12. \A q \in Writers \cup Services : op'[q].k # "reset"
  BY <1>4, <1>6, <1>7, <1>8
<1> QED
  BY <1>1, <1>10, <1>11, <1>12 DEF Saved

LEMMA SqCountSaved ==
    ASSUME Typed, Saved, NEW p \in Writers, SqCount(p)
    PROVE  Saved'
<1>1. op[p].k = "count" /\ op[p].k \in Locked /\ pending' = pending + 1 /\ backend' = backend
  BY DEF SqCount, Locked
<1>2. backend = "behind" /\ \A q \in Writers \cup Services : q # p => op[q].k \notin Locked
  BY <1>1, Alone
<1>3. op["closer"] = Idle
  BY <1>1, <1>2 DEF Saved
<1>4. PICK o : op' = [op EXCEPT ![p] = o] /\ o.k # "reset"
  <2>1. CASE pending + 1 >= MaxPending
    <3>1. op' = [op EXCEPT ![p] = [op[p] EXCEPT !.k = "flush"]]
      BY <2>1 DEF SqCount, Go
    <3>2. op[p] \in [k : RowStages(backend), row : Made(backend, used.stores)]
      BY <1>1, WriterFacts DEF Rowed
    <3>3. [op[p] EXCEPT !.k = "flush"].k = "flush"
      BY <3>2
    <3> QED
      BY <3>1, <3>3
  <2>2. CASE ~ (pending + 1 >= MaxPending)
    <3>1. op' = [op EXCEPT ![p] = Idle]
      BY <2>2 DEF SqCount, Ack, Go
    <3>2. Idle.k # "reset"
      BY DEF Idle
    <3> QED
      BY <3>1, <3>2
  <2> QED
    BY <2>1, <2>2
<1>5. p \in Procs /\ p # "closer" /\ "closer" \in Procs /\ DOMAIN op = Procs
  BY WriterFacts, ServiceFacts DEF Typed, Coroutines
<1>6. op'[p] = o /\ \A q \in Procs \ {p} : op'[q] = op[q]
  BY <1>4, <1>5
<1>7. \A q \in Writers \cup Services : op'[q].k # "reset"
  <2>1. \A q \in Writers \cup Services : q \in Procs
    BY DEF Procs
  <2> QED
    BY <1>2, <1>4, <1>6, <2>1 DEF Locked
<1>8. op'["closer"] = Idle /\ Idle.k # "close"
  BY <1>3, <1>5, <1>6 DEF Idle
<1>9. pending' > 0
  BY <1>1 DEF Typed, Locks
<1> QED
  BY <1>1, <1>2, <1>7, <1>8, <1>9 DEF Saved

\* The rows a flush owes are those it owed before, once it has returned or gone on.
LEMMA MidDue ==
    ASSUME Typed, NEW p \in Writers \cup Services, op[p].k \in Mid, backend' = backend, DOMAIN op' = Procs,
           \A q \in Procs \ {p} : op'[q] = op[q],
           \/ acked' = acked /\ (p \in Writers /\ op'[p].k \in Mid => op'[p].row = op[p].row)
           \/ p \in Writers /\ acked' = acked \cup {op[p].row} /\ op'[p] = Idle
    PROVE  Due' \subseteq Due
<1>1. \A q \in Writers \cup Services : q \in Procs
  BY DEF Procs
<1>2. \A q \in Writers : q # p => op'[q] = op[q]
  BY <1>1
<1>3. Idle.k \notin Mid
  BY DEF Idle, Mid
<1> QED
  BY <1>2, <1>3 DEF Due

\* The flush of a store, the loop or aclose.
LEMMA SqFlushSaved ==
    ASSUME Typed, Saved, NEW p \in Writers \cup Services, SqFlush(p) \/ SqCommitted(p) \/ SqFlushed(p)
    PROVE  Saved'
<1>1. op[p].k \in {"flush", "commit", "reset"} /\ UNCHANGED <<backend, rows>>
  BY DEF SqFlush, SqCommitted, SqFlushed
<1>2. backend = "behind" /\ p \in Procs /\ DOMAIN op = Procs /\ op[p].k \in Mid
  BY <1>1, FlushStage DEF Typed, Coroutines, Mid
<1>3. \A j \in {"flush", "commit", "reset"} : [op[p] EXCEPT !.k = j].k = j
  BY <1>1, FlushStage
<1>4. p \in Writers => op[p] \in [k : RowStages(backend), row : Made(backend, used.stores)] /\ op["closer"] = Idle
  <2>1. op[p].k \in Rowed
    BY <1>1 DEF Rowed
  <2> QED
    BY <1>2, <2>1, WriterFacts DEF Saved
<1>5. PICK o : op' = [op EXCEPT ![p] = o] /\ (SqFlush(p) => o.k # "reset") /\ (SqFlushed(p) => o.k \notin Mid)
               /\ (p = "closer" => o # Idle)
               /\ (p \in Writers => o = Idle \/ (o.k \in Mid /\ o.row = op[p].row /\ acked' = acked))
               /\ (acked' = acked \/ (p \in Writers /\ acked' = acked \cup {op[p].row} /\ o = Idle))
               /\ (o.k = "close" => SqFlushed(p) \/ (SqFlush(p) /\ pending = 0))
  <2>1. "closer" \notin Writers
    BY ServiceFacts
  <2>2. CASE Flushed(p) /\ (SqFlushed(p) \/ (SqFlush(p) /\ pending = 0)) /\ ~ SqCommitted(p)
    <3>1. CASE p \in Writers
      <4>1. Idle.k = "idle" /\ "idle" \notin Mid
        BY DEF Idle, Mid
      <4> QED
        BY <2>1, <2>2, <3>1, <4>1 DEF Flushed, Ack, Go
    <3>2. CASE p \notin Writers
      <4> DEFINE j == IF p = "flusher" THEN "sleep" ELSE "close"
                 c == [k |-> j]
      <4>1. op' = [op EXCEPT ![p] = c] /\ acked' = acked
        BY <2>2, <3>2 DEF Flushed, Go
      <4>2. c.k = j /\ j \notin Mid /\ j # "idle" /\ j # "reset"
        BY DEF Mid
      <4>3. c # Idle
        BY <4>2 DEF Idle
      <4> HIDE DEF c, j
      <4> QED
        BY <2>2, <3>2, <4>1, <4>2, <4>3
    <3> QED
      BY <3>1, <3>2
  <2>3. CASE \E j \in {"commit", "reset"} : op' = [op EXCEPT ![p] = [op[p] EXCEPT !.k = j]] /\ acked' = acked
                  /\ (SqFlush(p) => j = "commit") /\ ~ SqFlushed(p)
    <3>1. PICK j \in {"commit", "reset"} : op' = [op EXCEPT ![p] = [op[p] EXCEPT !.k = j]] /\ acked' = acked
                  /\ (SqFlush(p) => j = "commit") /\ ~ SqFlushed(p)
      BY <2>3
    <3> DEFINE c == [op[p] EXCEPT !.k = j]
    <3>2. c.k = j /\ j \in Mid /\ j # "idle" /\ j # "close"
      BY <1>3 DEF Mid
    <3>3. p \in Writers => c.row = op[p].row
      BY <1>4
    <3>4. c # Idle
      BY <3>2 DEF Idle
    <3>5. op' = [op EXCEPT ![p] = c]
      BY <3>1
    <3> HIDE DEF c
    <3> QED
      BY <3>1, <3>2, <3>3, <3>4, <3>5
  <2>4. op[p].k = "flush" => ~ SqFlushed(p) /\ ~ SqCommitted(p)
    BY DEF SqFlushed, SqCommitted
  <2>5. op[p].k = "commit" => ~ SqFlushed(p) /\ ~ SqFlush(p)
    BY DEF SqFlushed, SqFlush
  <2>6. op[p].k = "reset" => ~ SqCommitted(p) /\ ~ SqFlush(p)
    BY DEF SqCommitted, SqFlush
  <2>7. CASE SqFlush(p) /\ pending = 0
    <3>1. op[p].k = "flush" /\ Flushed(p)
      BY <2>7 DEF SqFlush
    <3> QED
      BY <2>2, <2>4, <2>7, <3>1
  <2>8. CASE SqFlush(p) /\ pending # 0
    <3>1. op[p].k = "flush" /\ op' = [op EXCEPT ![p] = [op[p] EXCEPT !.k = "commit"]] /\ acked' = acked
      BY <2>8 DEF SqFlush, Go
    <3> QED
      BY <2>3, <2>4, <3>1
  <2>9. CASE SqCommitted(p)
    <3>1. op[p].k = "commit" /\ op' = [op EXCEPT ![p] = [op[p] EXCEPT !.k = "reset"]] /\ acked' = acked
      BY <2>9 DEF SqCommitted, Go
    <3> QED
      BY <2>3, <2>5, <3>1
  <2>10. CASE SqFlushed(p)
    <3>1. op[p].k = "reset" /\ Flushed(p)
      BY <2>10 DEF SqFlushed
    <3> QED
      BY <2>2, <2>6, <2>10, <3>1
  <2> QED
    BY <2>7, <2>8, <2>9, <2>10
<1>6. op'[p] = o /\ (\A q \in Procs \ {p} : op'[q] = op[q]) /\ DOMAIN op' = Procs
  BY <1>2, <1>5
<1>7. Due' \subseteq Due
  <2>1. Idle.k \notin Mid
    BY DEF Idle, Mid
  <2>2. \/ acked' = acked /\ (p \in Writers /\ op'[p].k \in Mid => op'[p].row = op[p].row)
        \/ p \in Writers /\ acked' = acked \cup {op[p].row} /\ op'[p] = Idle
    BY <1>5, <1>6, <2>1
  <2> QED
    BY <1>1, <1>2, <1>6, <2>2, MidDue
<1>8. \A q \in Writers \cup Services : q \in Procs
  BY DEF Procs
<1>9. "closer" \in Procs /\ "closer" \notin Writers
  BY ServiceFacts
<1>10. op'["closer"] # Idle => \A q \in Writers : op'[q].k \notin Mid \cup {"count"}
  <2> SUFFICES ASSUME op'["closer"] # Idle, NEW q \in Writers PROVE op'[q].k \notin Mid \cup {"count"}
    OBVIOUS
  <2>1. op["closer"] # Idle
    BY <1>1, <1>2, <1>6, <1>9 DEF Idle
  <2>2. p # q
    BY <1>4, <2>1
  <2>3. op'[q] = op[q]
    BY <1>6, <1>8, <2>2
  <2> QED
    BY <1>2, <2>1, <2>3 DEF Saved
<1>11. Unsaved' # {} => /\ pending' > 0 /\ op'["closer"].k # "close"
                        /\ \A q \in Writers \cup Services : op'[q].k # "reset"
  <2>1. CASE SqFlush(p)
    <3>1. UNCHANGED <<disk, pending>>
      BY <2>1 DEF SqFlush
    <3>2. Unsaved' \subseteq Unsaved
      BY <1>1, <1>7, <3>1 DEF Unsaved
    <3>3. \A q \in Writers \cup Services : op'[q].k = "reset" => op[q].k = "reset"
      BY <1>5, <1>6, <1>8, <2>1
    <3>4. CASE Unsaved = {}
      BY <3>2, <3>4
    <3>5. CASE Unsaved # {}
      <4>1. pending > 0 /\ op["closer"].k # "close" /\ \A q \in Writers \cup Services : op[q].k # "reset"
        BY <1>2, <3>5 DEF Saved
      <4>2. op'["closer"].k # "close"
        <5>1. pending # 0 /\ ~ SqFlushed(p)
          BY <2>1, <4>1 DEF SqFlush, SqFlushed, Typed, Locks
        <5> QED
          BY <1>5, <1>6, <1>9, <4>1, <5>1
      <4> QED
        BY <3>1, <3>3, <4>1, <4>2
    <3> QED
      BY <3>4, <3>5
  <2>2. CASE SqCommitted(p)
    <3>1. disk' = Now /\ rows' = rows
      BY <2>2 DEF SqCommitted, Commit
    <3> QED
      BY <3>1 DEF Unsaved, Now
  <2>3. CASE SqFlushed(p)
    <3>1. op[p].k = "reset" /\ disk' = disk
      BY <2>3 DEF SqFlushed
    <3>2. Unsaved = {}
      BY <1>2, <3>1 DEF Saved
    <3> QED
      BY <1>1, <1>7, <3>1, <3>2 DEF Unsaved
  <2> QED
    BY <2>1, <2>2, <2>3
<1> QED
  BY <1>1, <1>2, <1>10, <1>11 DEF Saved

LEMMA SqCloseSaved ==
    ASSUME Typed, Saved, SqClose
    PROVE  Saved'
<1>1. /\ backend = "behind" /\ (\A p \in Writers : op[p] = Idle) /\ disk' \in {disk, Now}
      /\ op' = [op EXCEPT !["flusher"] = Idle, !["closer"] = [k |-> "flush"]]
      /\ UNCHANGED <<backend, rows, acked, pending>>
  BY DEF SqClose, Commit
<1>2. {"flusher", "closer"} \subseteq Procs /\ DOMAIN op = Procs
  BY ServiceFacts DEF Typed, Coroutines
<1>3. op'["flusher"] = Idle /\ op'["closer"] = [k |-> "flush"] /\ \A q \in Procs \ Services : op'[q] = op[q]
  BY <1>1, <1>2 DEF Services
<1>4. \A p \in Writers : op'[p] = Idle
  <2>1. \A p \in Writers : p \in Procs \ Services
    BY TableAssumption DEF Procs
  <2> QED
    BY <1>1, <1>3, <2>1
<1>5. Idle.k \notin Mid \cup {"count"}
  BY DEF Idle, Mid
<1>6. Due' = acked
  BY <1>1, <1>4, <1>5 DEF Due
<1>7. Unsaved' \subseteq Unsaved
  <2>1. Due' \subseteq Due /\ rows' = rows
    BY <1>1, <1>6 DEF Due
  <2>2. CASE disk' = disk
    BY <2>1, <2>2 DEF Unsaved
  <2>3. CASE disk' = Now
    BY <2>1, <2>3 DEF Unsaved, Now
  <2> QED
    BY <1>1, <2>2, <2>3
<1>8. \A q \in Writers \cup Services : op'[q].k # "reset"
  BY <1>3, <1>4 DEF Services, Idle
<1>9. op'["closer"].k # "close"
  BY <1>3
<1>10. Unsaved # {} => pending > 0
  BY <1>1 DEF Saved
<1> QED
  BY <1>1, <1>4, <1>5, <1>7, <1>8, <1>9, <1>10 DEF Saved

LEMMA ReopenSaved ==
    ASSUME Typed, SqClosed \/ SqCrash
    PROVE  Saved'
<1>1. rows' = disk.rows /\ disk' = disk /\ op' = [p \in Procs |-> Idle]
  BY DEF SqClosed, SqCrash, Reopen
<1>2. Unsaved' = {} /\ (acked' \cap rows') \ disk'.rows = {}
  BY <1>1 DEF Unsaved
<1>3. op'["closer"] = Idle
  BY <1>1, ServiceFacts
<1> QED
  BY <1>2, <1>3 DEF Saved

LEMMA SavedSqlite ==
    ASSUME Typed, Saved, [Next]_vars, backend = "sqlite"
    PROVE  Saved'
<1>1. backend' = "sqlite" /\ OneStep
  BY SameStore DEF OneStep
<1>2. acked' = acked \/ \E p \in Writers : SqStored(p)
  <2>1. CASE UNCHANGED vars
    BY <2>1 DEF vars, common
  <2>2. ASSUME SqWrite PROVE acked' = acked \/ \E p \in Writers : SqStored(p)
    <3>1. ASSUME NEW p \in Writers, SqCount(p) PROVE FALSE
      BY <3>1, StageFacts DEF SqCount
    <3>2. ASSUME NEW p \in Writers \cup Services, SqFlush(p) \/ SqCommitted(p) \/ SqFlushed(p) \/ SqFlushFails(p) PROVE FALSE
      <4>1. op[p].k \in {"flush", "commit", "reset"}
        BY <3>2 DEF SqFlush, SqCommitted, SqFlushed, SqFlushFails
      <4> QED
        BY <4>1, FlushStage
    <3> QED
      BY <2>2, <3>1, <3>2 DEF SqWrite, SqStore, SqInsert, SqCommitFails, SqDone, SqCancel, SqPurgeBatch, Wakes, SqClose, SqClosed, SqCrash,
             SqFork, SqPurge
  <2>3. RdWrite => acked' = acked
    BY DEF RdWrite, RdStore, RdIncr, RdHset, RdZadd, RdTrim, RdBroken, RdExpires, RdKeyExpires
  <2>4. PgWrite => acked' = acked
    BY DEF PgWrite, PgInsert, PgCommits, PgFails, PgPurge, PgPurgeBatch
  <2>5. NetStep => acked' = acked
    <3>1. ASSUME NEW p \in Writers, Publish(p) \/ Unpublished(p) PROVE FALSE
      <4>1. op[p].k = "publish"
        BY <3>1 DEF Publish, Unpublished
      <4> QED
        BY <4>1, StageFacts
    <3> QED
      BY <3>1 DEF NetStep, Ages, Restart, RdFork, PgFork
  <2>6. ASSUME NEW r \in Readers, ReaderStep(r) PROVE acked' = acked
    BY <2>6, ReaderStepKeeps
  <2> QED
    BY <2>1, <2>2, <2>3, <2>4, <2>5, <2>6, Steps
<1>3. (acked \cap rows) \ disk.rows = {}
  BY DEF Saved
<1>4. CASE \E p \in Writers : SqStored(p)
  BY <1>1, <1>4 DEF SqStored, Commit, Now, Saved
<1>5. CASE acked' = acked
  <2>1. acked \subseteq Made(backend, used.stores)
    BY DEF Typed, Tables
  <2>2. (acked' \cap rows') \ disk'.rows = {}
    <3>1. CASE rows' \subseteq rows /\ disk' \in {disk, Now}
      BY <1>3, <1>5, <3>1 DEF Now
    <3>2. CASE rows' = disk.rows /\ disk' = disk
      BY <3>2
    <3>3. ASSUME NEW x, x \notin Made(backend, used.stores), rows' = rows \cup {x}, disk' = disk
          PROVE  (acked' \cap rows') \ disk'.rows = {}
      BY <1>3, <1>5, <2>1, <3>3
    <3> QED
      BY <1>1, <3>1, <3>2, <3>3, RowSteps
  <2> QED
    BY <1>1, <2>2 DEF Saved
<1> QED
  BY <1>2, <1>4, <1>5

LEMMA SavedBehind ==
    ASSUME Typed, Saved, [Next]_vars, backend = "behind"
    PROVE  Saved'
<1>1. backend' = "behind"
  BY SameStore
<1>2. CASE UNCHANGED vars
  BY <1>2 DEF vars, common, sqvars, Saved, Unsaved, Due
<1>3. ASSUME NEW p \in Writers, SqStored(p) PROVE FALSE
  BY <1>3, StageFacts DEF SqStored
<1>4. ASSUME NEW p \in Writers, NEW o, Go(p, o), o.k \in {"idle", "purge", "commit2"},
             rows' \subseteq rows, acked' = acked, disk' \in {disk, Now}, pending' = pending
      PROVE  Saved'
  <2>1. p \in Procs /\ p # "closer" /\ o.k \notin Mid \cup {"count"} /\ o.k # "reset"
    BY <1>4, WriterFacts, ServiceFacts DEF Mid
  <2> QED
    BY <1>1, <1>4, <2>1, SavedGoes
<1>5. Idle.k = "idle"
  BY DEF Idle
<1>6. ASSUME NEW p \in Writers, SqCommitFails(p) \/ SqDone(p) \/ SqCancel(p) \/ SqPurgeBatch(p) PROVE Saved'
  <2>1. CASE SqCommitFails(p) \/ SqCancel(p)
    BY <1>4, <1>5, <2>1 DEF SqCommitFails, SqCancel, sqvars
  <2>2. CASE SqDone(p)
    <3>1. op[p].next.k \in {"idle", "purge"}
      BY <1>5, <2>2, WriterFacts DEF SqDone, PurgeAt
    <3> QED
      BY <1>4, <2>2, <3>1 DEF SqDone, Commit, sqvars
  <2>3. CASE SqPurgeBatch(p)
    <3> DEFINE o == [k |-> "commit2", next |-> IF Cardinality(SmallestOf(Purgeable(op[p]), Batch)) < Batch THEN Idle ELSE op[p]]
    <3>1. Go(p, o) /\ o.k = "commit2" /\ rows' \subseteq rows /\ acked' = acked /\ disk' = disk /\ pending' = pending
      BY <2>3 DEF SqPurgeBatch, sqvars
    <3> HIDE DEF o
    <3> QED
      BY <1>4, <3>1
  <2> QED
    BY <1>6, <2>1, <2>2, <2>3
<1>7. ASSUME NEW p \in Writers, NEW t, NEW bound, SqPurge(p, t, bound) PROVE Saved'
  <2> DEFINE o == [k |-> "purge", t |-> t, bound |-> bound, cut |-> old]
  <2>1. Go(p, o) /\ o.k = "purge" /\ rows' = rows /\ acked' = acked /\ disk' = disk /\ pending' = pending
    BY <1>7 DEF SqPurge, sqvars
  <2> HIDE DEF o
  <2> QED
    BY <1>4, <2>1
<1>8. ASSUME NEW p \in Writers, NEW s, NEW parent, NEW at, SqFork(p, s, parent, at) PROVE Saved'
  <2> DEFINE o == [k |-> "commit2", next |-> Idle]
  <2>1. Go(p, o) /\ o.k = "commit2" /\ rows' = rows /\ acked' = acked /\ disk' = disk /\ pending' = pending
    BY <1>8 DEF SqFork, sqvars
  <2> HIDE DEF o
  <2> QED
    BY <1>4, <2>1
<1>9. ASSUME NEW p \in Writers \cup Services, SqFlushFails(p) PROVE Saved'
  <2> DEFINE o == IF p \in Writers THEN Idle ELSE [k |-> IF p = "flusher" THEN "sleep" ELSE "closed"]
  <2>1. Go(p, o) /\ op[p].k = "commit" /\ rows' = rows /\ acked' = acked /\ disk' = disk /\ pending' = pending
    BY <1>9 DEF SqFlushFails
  <2>2. o.k \notin Mid \cup {"count", "close"} /\ o.k # "reset"
    BY DEF Idle, Mid
  <2>3. p \in Procs /\ (p = "closer" => op["closer"] # Idle)
    BY <2>1 DEF Procs, Idle
  <2> HIDE DEF o
  <2> QED
    BY <1>1, <2>1, <2>2, <2>3, SavedGoes
<1>10. ASSUME Wakes PROVE Saved'
  <2> DEFINE o == [k |-> "flush"]
  <2>1. Go("flusher", o) /\ o.k = "flush" /\ rows' = rows /\ acked' = acked /\ disk' = disk /\ pending' = pending
    BY <1>10 DEF Wakes, sqvars
  <2>2. "flusher" \in Procs /\ "flusher" \notin Writers /\ "flusher" # "closer"
    BY ServiceFacts
  <2> HIDE DEF o
  <2> QED
    BY <1>1, <2>1, <2>2, SavedGoes
<1>11. CASE SqWrite
  BY <1>1, <1>3, <1>6, <1>7, <1>8, <1>9, <1>10, <1>11, SqInsertSaved, SqCountSaved, SqFlushSaved, SqCloseSaved, ReopenSaved DEF SqWrite, SqStore
<1>12. ~ RdWrite
  <2>1. ASSUME NEW p \in Writers, RdHset(p) \/ RdZadd(p) \/ RdTrim(p) \/ RdBroken(p) PROVE FALSE
    BY <2>1, StageFacts DEF RdHset, RdZadd, RdTrim, RdBroken
  <2> QED
    BY <2>1 DEF RdWrite, RdStore, RdIncr, RdExpires, RdKeyExpires, Redis
<1>13. ~ PgWrite
  <2>1. ASSUME NEW p \in Writers, PgCommits(p) \/ PgFails(p) PROVE FALSE
    BY <2>1, StageFacts DEF PgCommits, PgFails
  <2> QED
    BY <2>1 DEF PgWrite, PgInsert, PgPurge, PgPurgeBatch, Postgres
<1>14. ASSUME NetStep, UNCHANGED sqvars PROVE Saved'
  <2>1. ASSUME NEW p \in Writers, Publish(p) \/ Unpublished(p) PROVE FALSE
    <3>1. op[p].k = "publish"
      BY <2>1 DEF Publish, Unpublished
    <3> QED
      BY <3>1, StageFacts
  <2>2. CASE Ages
    BY <1>1, <1>14, <2>2 DEF Ages, sqvars, Saved, Unsaved, Due
  <2> QED
    BY <1>14, <2>1, <2>2 DEF NetStep, Restart, RdFork, PgFork, Redis, Postgres
<1>15. ASSUME NEW r \in Readers, ReaderStep(r) PROVE Saved'
  <2>1. r \in Procs /\ r \notin Writers \cup Services /\ r # "closer"
    BY TableAssumption DEF Procs, Services
  <2>2. PICK o : Go(r, o)
    BY <1>15, ReaderStepKeeps
  <2>3. rows' = rows /\ acked' = acked /\ disk' = disk /\ pending' = pending
    BY <1>15, ReaderStepKeeps DEF sqvars
  <2> QED
    BY <1>1, <2>1, <2>2, <2>3, SavedGoes
<1> QED
  BY <1>2, <1>11, <1>12, <1>13, <1>14, <1>15, Steps

LEMMA SavedStep ==
    ASSUME Typed, Saved, [Next]_vars
    PROVE  Saved'
<1>1. backend \notin {"sqlite", "behind"} => Saved'
  BY SameStore DEF Saved
<1> QED
  BY <1>1, SavedSqlite, SavedBehind

-----------------------------------------------------------------------------
(* Durability with Redis.  A member of an index has its payload, or had it *)
(* and it was removed; so the members a replay finds without a payload are *)
(* of removed events, and to prune them takes nobody's entry away.         *)

ReplayKinds == {"link", "read", "payloads", "prune", "done"}
ReplayFields == {"k", "s", "t", "last", "cur", "max", "seen", "segs", "cut", "at", "ids", "out", "stale", "must", "fk", "at0"}
SubFields == {"k", "s", "t", "from", "before", "at", "inbox", "got"}
HeldIn(rem, R, i) == i \in rem \/ \E x \in R : x.id = i
Clean(rem, R, o) ==
    /\ \A e \in o.stale : e.id \in rem
    /\ o.k = "payloads" => \A i \in o.ids : HeldIn(rem, R, i)
ReaderAt(rem, R, o) ==
    \/ o = Idle
    \/ o.k \in ReplayKinds /\ DOMAIN o = ReplayFields /\ Clean(rem, R, o)
    \/ o.k = "sub" /\ DOMAIN o = SubFields

StoredIn(rem, R, x) == x \in R \/ x.id \in rem
ListedIn(rem, I, x) == Entry(x) \in I \/ x.id \in rem
Indexed ==
    Redis =>
        /\ \A e \in index : HeldIn(removed, rows, e.id)
        /\ \A x \in acked : StoredIn(removed, rows, x) /\ ListedIn(removed, index, x)
        /\ \A p \in Writers : op[p].k \in {"zadd", "trim", "publish"} =>
              /\ StoredIn(removed, rows, op[p].row)
              /\ op[p].k # "zadd" => ListedIn(removed, index, op[p].row)
        /\ \A r \in Readers : ReaderAt(removed, rows, op[r])

\* Whatever happens to the rows and the index, what is missing was removed.
Accountable ==
    /\ removed \subseteq removed'
    /\ \A x \in rows : StoredIn(removed', rows', x)
    /\ \A e \in index : e \in index' \/ e.id \in removed'

LEMMA AccountableKeeps ==
    ASSUME Accountable
    PROVE  /\ \A i : HeldIn(removed, rows, i) => HeldIn(removed', rows', i)
           /\ \A x : StoredIn(removed, rows, x) => StoredIn(removed', rows', x)
           /\ \A x : ListedIn(removed, index, x) => ListedIn(removed', index', x)
           /\ \A o : ReaderAt(removed, rows, o) => ReaderAt(removed', rows', o)
<1>1. \A i : HeldIn(removed, rows, i) => HeldIn(removed', rows', i)
  BY DEF Accountable, HeldIn, StoredIn
<1>2. \A x : StoredIn(removed, rows, x) => StoredIn(removed', rows', x)
  BY DEF Accountable, StoredIn
<1>3. \A x : ListedIn(removed, index, x) => ListedIn(removed', index', x)
  BY DEF Accountable, ListedIn, Entry
<1>4. \A o : ReaderAt(removed, rows, o) => ReaderAt(removed', rows', o)
  BY <1>1 DEF ReaderAt, Clean, Accountable
<1> QED
  BY <1>1, <1>2, <1>3, <1>4

\* A coroutine goes on, and nothing is missing that was not removed.
LEMMA IndexedGoes ==
    ASSUME Typed, Indexed, Redis, backend' = backend, Accountable, DOMAIN op' = Procs,
           \A e \in index' \ index : HeldIn(removed', rows', e.id),
           \A x \in acked' \ acked : StoredIn(removed', rows', x) /\ ListedIn(removed', index', x),
           \A p \in Writers : op'[p].k \in {"zadd", "trim", "publish"} =>
              \/ op'[p] = op[p]
              \/ /\ StoredIn(removed', rows', op'[p].row)
                 /\ op'[p].k # "zadd" => ListedIn(removed', index', op'[p].row),
           \A r \in Readers : op'[r] = op[r] \/ ReaderAt(removed', rows', op'[r])
    PROVE  Indexed'
<1>1. \A e \in index' : HeldIn(removed', rows', e.id)
  BY AccountableKeeps DEF Indexed
<1>2. \A x \in acked' : StoredIn(removed', rows', x) /\ ListedIn(removed', index', x)
  BY AccountableKeeps DEF Indexed
<1>3. \A p \in Writers : op'[p].k \in {"zadd", "trim", "publish"} =>
              /\ StoredIn(removed', rows', op'[p].row)
              /\ op'[p].k # "zadd" => ListedIn(removed', index', op'[p].row)
  BY AccountableKeeps DEF Indexed
<1>4. \A r \in Readers : ReaderAt(removed', rows', op'[r])
  BY AccountableKeeps DEF Indexed
<1> QED
  BY <1>1, <1>2, <1>3, <1>4 DEF Indexed

\* Nothing changed that the index is about.
LEMMA AccountableSame ==
    ASSUME UNCHANGED <<rows, index, removed>>
    PROVE  Accountable
BY DEF Accountable, StoredIn

\* One writer moves; the readers stay where they are.
LEMMA IndexedWriter ==
    ASSUME Typed, Indexed, Redis, backend' = backend, Accountable, NEW p \in Writers, NEW o, Go(p, o),
           \A e \in index' \ index : HeldIn(removed', rows', e.id),
           \A x \in acked' \ acked : StoredIn(removed', rows', x) /\ ListedIn(removed', index', x),
           o.k \in {"zadd", "trim", "publish"} =>
                 /\ StoredIn(removed', rows', o.row)
                 /\ o.k # "zadd" => ListedIn(removed', index', o.row)
    PROVE  Indexed'
<1>1. p \in Procs /\ p \notin Readers /\ DOMAIN op = Procs
  BY WriterFacts DEF Typed, Coroutines
<1>2. DOMAIN op' = Procs /\ op'[p] = o /\ \A q \in Procs \ {p} : op'[q] = op[q]
  BY <1>1 DEF Go
<1>3. \A q \in Writers \cup Readers : q \in Procs
  BY DEF Procs
<1>4. \A q \in Writers : op'[q].k \in {"zadd", "trim", "publish"} =>
              \/ op'[q] = op[q]
              \/ /\ StoredIn(removed', rows', op'[q].row)
                 /\ op'[q].k # "zadd" => ListedIn(removed', index', op'[q].row)
  BY <1>2, <1>3
<1>5. \A r \in Readers : op'[r] = op[r]
  BY <1>1, <1>2, <1>3
<1> QED
  BY <1>2, <1>4, <1>5, IndexedGoes

LEMMA RdStoreIndexed ==
    ASSUME Typed, Indexed, Redis, NEW p \in Writers, NEW s \in Streams, NEW k \in Kinds, RdStore(p, s, k) \/ RdIncr(p, s, k)
    PROVE  Indexed'
<1> DEFINE x == NewRow(s, NoTenant, k)
<1>1. CASE RdStore(p, s, k)
  <2> DEFINE o == [k |-> "publish", row |-> x]
             T == Surplus(Members(x.s) \cup {Entry(x)})
  <2>1. /\ Go(p, o) /\ rows' = rows \cup {x} /\ backend' = backend /\ acked' = acked
        /\ index' = (index \cup {Entry(x)}) \ T /\ removed' = removed \cup {e.id : e \in T}
    BY <1>1 DEF RdStore, Add
  <2>2. o.row = x /\ Entry(x).id = x.id
    BY DEF Entry
  <2> HIDE DEF x, o, T
  <2>3. Accountable
    BY <2>1 DEF Accountable, StoredIn
  <2>4. \A e \in index' \ index : HeldIn(removed', rows', e.id)
    BY <2>1, <2>2 DEF HeldIn
  <2>5. StoredIn(removed', rows', x) /\ ListedIn(removed', index', x)
    BY <2>1, <2>2 DEF StoredIn, ListedIn
  <2> QED
    BY <2>1, <2>2, <2>3, <2>4, <2>5, IndexedWriter
<1>2. CASE RdIncr(p, s, k)
  <2> DEFINE o == [k |-> "hset", row |-> x]
  <2>1. Go(p, o) /\ o.k = "hset" /\ UNCHANGED <<backend, rows, index, acked, removed>>
    BY <1>2 DEF RdIncr
  <2> HIDE DEF o
  <2> QED
    BY <2>1, AccountableSame, IndexedWriter
<1> QED
  BY <1>1, <1>2

LEMMA RdWriteIndexed ==
    ASSUME Typed, Indexed, Redis, NEW p \in Writers, RdHset(p) \/ RdZadd(p) \/ RdTrim(p) \/ RdBroken(p)
    PROVE  Indexed'
<1> DEFINE x == op[p].row
<1>1. \A j \in {"zadd", "trim", "publish"} : [op[p] EXCEPT !.k = j].k = j /\ [op[p] EXCEPT !.k = j].row = x
  <2>1. op[p].k \in Rowed
    BY DEF RdHset, RdZadd, RdTrim, RdBroken, Rowed
  <2>2. op[p] \in [k : RowStages(backend), row : Made(backend, used.stores)]
    BY <2>1, WriterFacts
  <2> QED
    BY <2>2
<1>2. op[p].k \in {"zadd", "trim", "publish"} =>
          /\ StoredIn(removed, rows, x)
          /\ op[p].k # "zadd" => ListedIn(removed, index, x)
  BY DEF Indexed
<1>3. CASE RdHset(p)
  <2> DEFINE o == [op[p] EXCEPT !.k = "zadd"]
  <2>1. Go(p, o) /\ o.k = "zadd" /\ o.row = x /\ rows' = rows \cup {x} /\ UNCHANGED <<backend, index, acked, removed>>
    BY <1>1, <1>3 DEF RdHset
  <2> HIDE DEF o, x
  <2>2. Accountable /\ StoredIn(removed', rows', x)
    BY <2>1 DEF Accountable, StoredIn
  <2> QED
    BY <2>1, <2>2, IndexedWriter
<1>4. CASE RdZadd(p)
  <2> DEFINE o == [op[p] EXCEPT !.k = "trim"]
  <2>1. /\ Go(p, o) /\ o.k = "trim" /\ o.row = x /\ op[p].k = "zadd" /\ index' = index \cup {Entry(x)}
        /\ UNCHANGED <<backend, rows, acked, removed>>
    BY <1>1, <1>4 DEF RdZadd
  <2>2. StoredIn(removed', rows', x)
    BY <1>2, <2>1
  <2> HIDE DEF o, x
  <2>3. Accountable /\ ListedIn(removed', index', x)
    BY <2>1 DEF Accountable, StoredIn, ListedIn
  <2>4. \A e \in index' \ index : HeldIn(removed', rows', e.id)
    BY <2>1, <2>2 DEF Entry, HeldIn, StoredIn
  <2> QED
    BY <2>1, <2>2, <2>3, <2>4, IndexedWriter
<1>5. CASE RdTrim(p)
  <2> DEFINE o == [op[p] EXCEPT !.k = "publish"]
             T == Surplus(Members(x.s))
  <2>1. /\ Go(p, o) /\ o.k = "publish" /\ o.row = x /\ op[p].k = "trim"
        /\ index' = index \ T /\ removed' = removed \cup {e.id : e \in T}
        /\ UNCHANGED <<backend, rows, acked>>
    BY <1>1, <1>5 DEF RdTrim
  <2>2. StoredIn(removed, rows, x) /\ ListedIn(removed, index, x)
    BY <1>2, <2>1
  <2> HIDE DEF o, x, T
  <2>3. Accountable
    BY <2>1 DEF Accountable, StoredIn
  <2>4. StoredIn(removed', rows', x) /\ ListedIn(removed', index', x)
    BY <2>2, <2>3, AccountableKeeps
  <2> QED
    BY <2>1, <2>3, <2>4, IndexedWriter
<1>6. CASE RdBroken(p)
  <2>1. Go(p, Idle) /\ Idle.k = "idle" /\ UNCHANGED <<backend, rows, index, acked, removed>>
    BY <1>6 DEF RdBroken, Idle
  <2> QED
    BY <2>1, AccountableSame, IndexedWriter
<1> QED
  BY <1>3, <1>4, <1>5, <1>6

LEMMA RdExpiryIndexed ==
    ASSUME Typed, Indexed, Redis, RdExpires \/ \E s \in Streams : RdKeyExpires(s)
    PROVE  Indexed'
<1>1. CASE RdExpires
  <2>1. PICK x \in rows : rows' = rows \ {x} /\ removed' = removed \cup {x.id}
    BY <1>1 DEF RdExpires
  <2>2. UNCHANGED <<backend, index, op, acked>>
    BY <1>1 DEF RdExpires
  <2>3. Accountable
    BY <2>1, <2>2 DEF Accountable, StoredIn
  <2> QED
    BY <2>2, <2>3, IndexedGoes DEF Typed, Coroutines
<1>2. ASSUME NEW s \in Streams, RdKeyExpires(s) PROVE Indexed'
  <2>1. /\ UNCHANGED <<backend, rows, op, acked>> /\ index' \subseteq index /\ removed \subseteq removed'
        /\ \A e \in index : e \in index' \/ e.id \in removed'
    BY <1>2 DEF RdKeyExpires
  <2>2. Accountable
    BY <2>1 DEF Accountable, StoredIn
  <2> QED
    BY <2>1, <2>2, IndexedGoes DEF Typed, Coroutines
<1> QED
  BY <1>1, <1>2

LEMMA NetIndexed ==
    ASSUME Typed, Indexed, Redis, NetStep
    PROVE  Indexed'
<1>1. CASE Ages
  BY <1>1 DEF Ages, Sql, Redis
<1>2. CASE Restart
  <2>1. UNCHANGED <<backend, rows, index, acked, removed>> /\ op' = [p \in Procs |-> Idle]
    BY <1>2 DEF Restart
  <2>2. (\A p \in Writers \cup Readers : p \in Procs) /\ Idle.k \notin {"zadd", "trim", "publish"}
    BY DEF Procs, Idle
  <2>3. \A r \in Readers : ReaderAt(removed', rows', op'[r])
    BY <2>1, <2>2 DEF ReaderAt
  <2> QED
    BY <2>1, <2>2, <2>3, AccountableSame, IndexedGoes
<1>3. ASSUME NEW p \in Writers, Publish(p) \/ Unpublished(p) PROVE Indexed'
  <2>1. op[p].k = "publish" /\ acked' = acked \cup {op[p].row} /\ UNCHANGED <<backend, rows, index, removed>>
    BY <1>3 DEF Publish, Unpublished, Ack
  <2>2. StoredIn(removed, rows, op[p].row) /\ ListedIn(removed, index, op[p].row)
    BY <2>1 DEF Indexed
  <2>3. CASE Unpublished(p)
    <3>1. Go(p, Idle) /\ Idle.k = "idle"
      BY <2>3 DEF Unpublished, Ack, Idle
    <3> QED
      BY <2>1, <2>2, <3>1, AccountableSame, IndexedWriter
  <2>4. CASE Publish(p)
    <3>1. op'[p] = Idle /\ DOMAIN op' = Procs /\ Idle.k = "idle" /\ \A q \in Procs : q # p /\ q \notin Readers => op'[q] = op[q]
      BY <2>4, PublishFacts DEF Idle
    <3>2. \A q \in Writers : q \in Procs /\ q \notin Readers
      BY TableAssumption DEF Procs
    <3>3. \A q \in Writers : op'[q].k \in {"zadd", "trim", "publish"} => op'[q] = op[q]
      BY <3>1, <3>2
    <3>4. ASSUME NEW r \in Readers PROVE op'[r] = op[r] \/ ReaderAt(removed', rows', op'[r])
      <4>1. r \in Procs /\ r # p
        BY <3>2 DEF Procs
      <4>2. op'[r] = op[r] \/ (op[r].k = "sub" /\ op'[r] = [op[r] EXCEPT !.inbox = Append(@, op[p].row.id)])
        BY <2>4, <4>1 DEF Publish
      <4>3. ASSUME op[r].k = "sub", op'[r] = [op[r] EXCEPT !.inbox = Append(@, op[p].row.id)]
            PROVE  ReaderAt(removed', rows', op'[r])
        <5>1. DOMAIN op[r] = SubFields
          BY <4>3 DEF Indexed, ReaderAt, Idle, ReplayKinds
        <5>2. DOMAIN op'[r] = SubFields /\ op'[r].k = "sub"
          BY <4>3, <5>1 DEF SubFields
        <5> QED
          BY <5>2 DEF ReaderAt
      <4> QED
        BY <4>2, <4>3
    <3> QED
      BY <2>1, <2>2, <3>1, <3>3, <3>4, AccountableSame, IndexedGoes
  <2> QED
    BY <1>3, <2>3, <2>4
<1>4. ASSUME NEW p \in Writers, NEW s, NEW parent, NEW at, RdFork(p, s, parent, at) \/ PgFork(p, s, parent, at) PROVE Indexed'
  <2>1. UNCHANGED <<backend, rows, index, op, acked, removed>>
    BY <1>4 DEF RdFork, PgFork
  <2> QED
    BY <2>1, AccountableSame, IndexedGoes DEF Typed, Coroutines
<1> QED
  BY <1>1, <1>2, <1>3, <1>4 DEF NetStep

\* What a replay emits leaves what it is to prune.
LEMMA EmitFacts ==
    ASSUME NEW o, DOMAIN o = ReplayFields, NEW R, NEW at, NEW more
    PROVE  /\ DOMAIN Emit(o, R, at, more) = ReplayFields /\ Emit(o, R, at, more).stale = o.stale
           /\ Emit(o, R, at, more).k \in {"read", "prune", "done"}
<1> DEFINE a == o.out \o Sorted({x \in R : x.k = "msg"})
           rest == IF more THEN o.segs ELSE Tail(o.segs)
           n == IF more THEN at ELSE 0
           j == IF rest # <<>> THEN "read" ELSE IF o.stale # {} THEN "prune" ELSE "done"
<1>1. Emit(o, R, at, more) = [o EXCEPT !.out = a, !.segs = rest, !.at = n, !.k = j]
  BY DEF Emit
<1>2. j \in {"read", "prune", "done"}
  OBVIOUS
<1> HIDE DEF a, rest, n, j
<1> QED
  BY <1>1, <1>2 DEF ReplayFields

\* Payloads that a read does not find, of members of the index, were removed.
LEMMA GoneFacts ==
    ASSUME NEW s, NEW I, \A i \in I : HeldIn(removed, rows, i)
    PROVE  \A e \in Gone(s, I) : e.id \in removed
BY DEF Gone, HeldIn

\* A replay that emits, from members of the index or ids read before.
LEMMA EmitClean ==
    ASSUME NEW o, DOMAIN o = ReplayFields, Clean(removed, rows, o), NEW s, NEW I, \A i \in I : HeldIn(removed, rows, i),
           NEW R, NEW at, NEW more
    PROVE  /\ ReaderAt(removed, rows, Emit([o EXCEPT !.stale = @ \cup Gone(s, I)], R, at, more))
           /\ ReaderAt(removed, rows, Emit(o, R, at, more))
<1>1. ASSUME NEW q, DOMAIN q = ReplayFields, \A e \in q.stale : e.id \in removed
      PROVE  ReaderAt(removed, rows, Emit(q, R, at, more))
  BY <1>1, EmitFacts DEF ReaderAt, Clean, ReplayKinds
<1> DEFINE q == [o EXCEPT !.stale = @ \cup Gone(s, I)]
<1>2. DOMAIN q = ReplayFields /\ q.stale = o.stale \cup Gone(s, I)
  BY DEF ReplayFields
<1>3. \A e \in q.stale : e.id \in removed
  BY <1>2, GoneFacts DEF Clean
<1> HIDE DEF q
<1>4. ReaderAt(removed, rows, Emit(q, R, at, more))
  BY <1>1, <1>2, <1>3
<1>5. ReaderAt(removed, rows, Emit(o, R, at, more))
  BY <1>1 DEF Clean
<1> QED
  BY <1>4, <1>5 DEF q

LEMMA RdReaderAt ==
    ASSUME Typed, Indexed, Redis, NEW r \in Readers, ReaderStep(r)
    PROVE  \E o : Go(r, o) /\ ReaderAt(removed, rows, o)
<1>1. ReaderAt(removed, rows, op[r])
  BY DEF Indexed
<1>2. op[r].k \in ReplayKinds => DOMAIN op[r] = ReplayFields /\ Clean(removed, rows, op[r])
  BY <1>1 DEF ReaderAt, ReplayKinds, Idle
<1>3. op[r].k = "sub" => DOMAIN op[r] = SubFields
  BY <1>1 DEF ReaderAt, ReplayKinds, Idle
<1>4. \A e \in index : HeldIn(removed, rows, e.id)
  BY DEF Indexed
<1>5. ReaderAt(removed, rows, Idle)
  BY DEF ReaderAt
<1>6. CASE Answered(r) \/ Unsubscribe(r)
  BY <1>5, <1>6 DEF Answered, Unsubscribe
<1>7. CASE Link(r)
  <2> DEFINE g == [op[r] EXCEPT !.segs = Extended(op[r], LastLink(op[r])), !.seen = @ \cup {op[r].cur}]
             h == [g EXCEPT !.k = "read", !.cut = old]
             i == [g EXCEPT !.cur = forks[op[r].cur].p, !.max = forks[op[r].cur].at]
  <2>1. op[r].k = "link" /\ (Go(r, h) \/ Go(r, i))
    BY <1>7 DEF Link, LinkBy
  <2>2. DOMAIN op[r] = ReplayFields /\ Clean(removed, rows, op[r])
    BY <1>2, <2>1 DEF ReplayKinds
  <2>3. DOMAIN g = ReplayFields /\ g.k = "link" /\ g.stale = op[r].stale
    BY <2>1, <2>2 DEF ReplayFields
  <2> HIDE DEF g
  <2>4. DOMAIN h = ReplayFields /\ h.k = "read" /\ h.stale = op[r].stale
    BY <2>3 DEF ReplayFields
  <2>5. DOMAIN i = ReplayFields /\ i.k = "link" /\ i.stale = op[r].stale
    BY <2>3 DEF ReplayFields
  <2> HIDE DEF h, i
  <2>6. ReaderAt(removed, rows, h) /\ ReaderAt(removed, rows, i)
    BY <2>2, <2>4, <2>5 DEF ReaderAt, Clean, ReplayKinds
  <2> QED
    BY <2>1, <2>6
<1>8. ASSUME NEW s \in Streams, NEW t \in Tenants, NEW last \in Nat, Resolve(r, last, s, t)
      PROVE  \E o : Go(r, o) /\ ReaderAt(removed, rows, o)
  <2> DEFINE o == [k |-> "link", s |-> s, t |-> t, last |-> last, cur |-> s, max |-> NoMax, seen |-> {},
              segs |-> <<>>, cut |-> {}, at |-> 0, ids |-> {}, out |-> <<>>, stale |-> {},
              must |-> Wanted(s, t, last), fk |-> forks, at0 |-> used.forks]
  <2>1. Go(r, o)
    BY <1>8 DEF Resolve
  <2>2. o.k = "link" /\ DOMAIN o = ReplayFields /\ o.stale = {}
    BY DEF ReplayFields
  <2> HIDE DEF o
  <2>3. ReaderAt(removed, rows, o)
    BY <2>2 DEF ReaderAt, Clean, ReplayKinds
  <2> QED
    BY <2>1, <2>3
<1>9. ASSUME NEW s, NEW t, NEW from, Go(r, Subscribed(s, t, from))
      PROVE  \E o : Go(r, o) /\ ReaderAt(removed, rows, o)
  <2>1. Subscribed(s, t, from).k = "sub" /\ DOMAIN Subscribed(s, t, from) = SubFields
    BY DEF Subscribed, SubFields
  <2>2. ReaderAt(removed, rows, Subscribed(s, t, from))
    BY <2>1 DEF ReaderAt
  <2> QED
    BY <1>9, <2>2
<1>10. CASE RdChunk(r)
  <2> DEFINE I == {e.id : e \in SmallestOf(InSegment(op[r], index), Batch)}
  <2>1. op[r].k = "read"
    BY <1>10 DEF RdChunk
  <2>2. DOMAIN op[r] = ReplayFields /\ Clean(removed, rows, op[r])
    BY <1>2, <2>1 DEF ReplayKinds
  <2>3. \A i \in I : HeldIn(removed, rows, i)
    BY <1>4 DEF SmallestOf, InSegment
  <2>4. \E s, R, at, more : Go(r, Emit([op[r] EXCEPT !.stale = @ \cup Gone(s, I)], R, at, more))
    BY <1>10 DEF RdChunk
  <2> HIDE DEF I
  <2> QED
    BY <2>2, <2>3, <2>4, EmitClean
<1>11. CASE RdIds(r)
  <2> DEFINE I == {e.id : e \in InSegment(op[r], index)}
             c == [op[r] EXCEPT !.k = "payloads", !.ids = I]
  <2>1. op[r].k = "read" /\ (Go(r, Emit(op[r], {}, 0, FALSE)) \/ Go(r, c))
    BY <1>11 DEF RdIds
  <2>2. DOMAIN op[r] = ReplayFields /\ Clean(removed, rows, op[r])
    BY <1>2, <2>1 DEF ReplayKinds
  <2>3. \A i \in I : HeldIn(removed, rows, i)
    BY <1>4 DEF InSegment
  <2> HIDE DEF I
  <2>4. DOMAIN c = ReplayFields /\ c.k = "payloads" /\ c.ids = I /\ c.stale = op[r].stale
    BY <2>2 DEF ReplayFields
  <2> HIDE DEF c
  <2>5. ReaderAt(removed, rows, c)
    BY <2>2, <2>3, <2>4 DEF ReaderAt, Clean, ReplayKinds
  <2> QED
    BY <2>1, <2>2, <2>3, <2>5, EmitClean
<1>12. CASE RdPayloads(r)
  <2>1. op[r].k = "payloads"
    BY <1>12 DEF RdPayloads
  <2>2. DOMAIN op[r] = ReplayFields /\ Clean(removed, rows, op[r])
    BY <1>2, <2>1 DEF ReplayKinds
  <2>3. \A i \in op[r].ids : HeldIn(removed, rows, i)
    BY <2>1, <2>2 DEF Clean
  <2>4. \E s, R, at, more : Go(r, Emit([op[r] EXCEPT !.stale = @ \cup Gone(s, op[r].ids)], R, at, more))
    BY <1>12 DEF RdPayloads
  <2> QED
    BY <2>2, <2>3, <2>4, EmitClean
<1>13. CASE RdPrune(r)
  <2> DEFINE c == [op[r] EXCEPT !.k = "done"]
  <2>1. op[r].k = "prune" /\ Go(r, c)
    BY <1>13 DEF RdPrune
  <2>2. DOMAIN op[r] = ReplayFields /\ Clean(removed, rows, op[r])
    BY <1>2, <2>1 DEF ReplayKinds
  <2>3. DOMAIN c = ReplayFields /\ c.k = "done" /\ c.stale = op[r].stale
    BY <2>2 DEF ReplayFields
  <2> HIDE DEF c
  <2>4. ReaderAt(removed, rows, c)
    BY <2>2, <2>3 DEF ReaderAt, Clean, ReplayKinds
  <2> QED
    BY <2>1, <2>4
<1>14. CASE RdDeliver(r)
  <2> DEFINE g == op[r].got \o Sorted({x \in rows : x.id = Head(op[r].inbox) /\ x.s = op[r].s /\ x.k = "msg"})
             c == [op[r] EXCEPT !.inbox = Tail(@), !.got = g]
  <2>1. op[r].k = "sub" /\ Go(r, c)
    BY <1>14 DEF RdDeliver, Deliver
  <2>2. DOMAIN op[r] = SubFields
    BY <1>3, <2>1
  <2> HIDE DEF g
  <2>3. DOMAIN c = SubFields /\ c.k = "sub"
    BY <2>1, <2>2 DEF SubFields
  <2> HIDE DEF c
  <2>4. ReaderAt(removed, rows, c)
    BY <2>3 DEF ReaderAt
  <2> QED
    BY <2>1, <2>4
<1>15. ~ SqRead(r) /\ ~ SqPoll(r) /\ ~ PgPage(r) /\ ~ PgDeliver(r)
       /\ (\A s \in Streams, t \in Tenants : ~ SqSubscribe(r, s, t) /\ ~ PgListen(r, s, t))
  BY DEF SqRead, SqPoll, PgPage, PgDeliver, SqSubscribe, PgListen, Sqlite, Postgres, Redis
<1>16. CASE \E s \in Streams : RdSubscribe(r, s)
  BY <1>9, <1>16 DEF RdSubscribe
<1> QED
  BY <1>6, <1>7, <1>8, <1>10, <1>11, <1>12, <1>13, <1>14, <1>15, <1>16 DEF ReaderStep

LEMMA ReaderIndexed ==
    ASSUME Typed, Indexed, Redis, NEW r \in Readers, ReaderStep(r)
    PROVE  Indexed'
<1>1. PICK o : Go(r, o) /\ ReaderAt(removed, rows, o)
  BY RdReaderAt
<1>2. /\ UNCHANGED <<backend, rows, removed, acked>> /\ index' \in {index, index \ op[r].stale} /\ (index' # index => RdPrune(r))
  BY ReaderStepKeeps
<1>3. Accountable
  <2>1. CASE index' = index
    BY <1>2, <2>1, AccountableSame
  <2>2. CASE index' # index
    <3>1. op[r].k = "prune"
      BY <1>2, <2>2 DEF RdPrune
    <3>2. ReaderAt(removed, rows, op[r])
      BY DEF Indexed
    <3>3. \A e \in op[r].stale : e.id \in removed
      BY <3>1, <3>2 DEF ReaderAt, Clean, Idle
    <3> QED
      BY <1>2, <3>3 DEF Accountable, StoredIn
  <2> QED
    BY <2>1, <2>2
<1>4. ReaderAt(removed', rows', o)
  BY <1>1, <1>2
<1>5. r \in Procs /\ r \notin Writers /\ DOMAIN op = Procs /\ \A q \in Writers \cup Readers : q \in Procs
  BY TableAssumption DEF Procs, Typed, Coroutines
<1>6. DOMAIN op' = Procs /\ op'[r] = o /\ \A q \in Procs \ {r} : op'[q] = op[q]
  BY <1>1, <1>5 DEF Go
<1>7. \A q \in Writers : op'[q] = op[q]
  BY <1>5, <1>6
<1>8. \A q \in Readers : op'[q] = op[q] \/ ReaderAt(removed', rows', op'[q])
  BY <1>4, <1>5, <1>6
<1>9. index' \subseteq index
  BY <1>2
<1> QED
  BY <1>2, <1>3, <1>6, <1>7, <1>8, <1>9, IndexedGoes

\* SQLite's steps are taken by SQLite.
LEMMA OnlySqlite ==
    ASSUME Typed, SqWrite
    PROVE  Sqlite
<1>1. ASSUME NEW p \in Writers, SqStored(p) \/ SqCommitFails(p) \/ SqDone(p) \/ SqCount(p) \/ SqCancel(p) \/ SqPurgeBatch(p) PROVE Sqlite
  <2>1. op[p].k \in {"commit1", "commit2", "count"} \/ Sqlite
    BY <1>1 DEF SqStored, SqCommitFails, SqDone, SqCount, SqCancel, SqPurgeBatch
  <2> QED
    BY <2>1, StageFacts, WriterFacts DEF Sqlite
<1>2. ASSUME NEW p \in Writers \cup Services, SqFlush(p) \/ SqCommitted(p) \/ SqFlushed(p) \/ SqFlushFails(p) PROVE Sqlite
  <2>1. op[p].k \in {"flush", "commit", "reset"}
    BY <1>2 DEF SqFlush, SqCommitted, SqFlushed, SqFlushFails
  <2> QED
    BY <2>1, FlushStage DEF Sqlite
<1>3. Wakes \/ SqClosed => Sqlite
  <2>1. ServiceAt(backend, "flusher", op["flusher"]) /\ ServiceAt(backend, "closer", op["closer"])
    BY ServiceFacts
  <2> QED
    BY <2>1 DEF Wakes, SqClosed, ServiceAt, Sqlite, Idle
<1> QED
  BY <1>1, <1>2, <1>3 DEF SqWrite, SqStore, SqInsert, SqClose, SqCrash, SqFork, SqPurge, Sqlite

LEMMA IndexedStep ==
    ASSUME Typed, Indexed, [Next]_vars
    PROVE  Indexed'
<1> SUFFICES ASSUME Redis PROVE Indexed'
  BY SameStore DEF Indexed, Redis
<1>1. CASE UNCHANGED vars
  BY <1>1 DEF vars, common, Indexed, Redis
<1>2. ~ SqWrite
  BY OnlySqlite DEF Sqlite, Redis
<1>3. CASE RdWrite
  BY <1>3, RdStoreIndexed, RdWriteIndexed, RdExpiryIndexed DEF RdWrite
<1>4. ~ PgWrite
  <2>1. ASSUME NEW p \in Writers, PgCommits(p) \/ PgFails(p) PROVE FALSE
    BY <2>1, StageFacts DEF PgCommits, PgFails, Redis
  <2> QED
    BY <2>1 DEF PgWrite, PgInsert, PgPurge, PgPurgeBatch, Postgres, Redis
<1>5. CASE NetStep
  BY <1>5, NetIndexed
<1>6. ASSUME NEW r \in Readers, ReaderStep(r) PROVE Indexed'
  BY <1>6, ReaderIndexed
<1> QED
  BY <1>1, <1>2, <1>3, <1>4, <1>5, <1>6, Steps

LEMMA IndexedAlways == Spec => []Indexed
<1>1. Init => Indexed
  <2> SUFFICES ASSUME Init PROVE Indexed
    OBVIOUS
  <2>1. \A p \in Writers \cup Readers : op[p] = Idle
    BY DEF Init, Procs
  <2>2. Idle.k = "idle"
    BY DEF Idle
  <2> QED
    BY <2>1, <2>2 DEF Indexed, Init, ReaderAt
<1> QED
  BY <1>1, IndexedStep, TypedAlways, PTL DEF Spec

\* An event whose id was returned is durable: SQLite has committed it, or with write-behind
\* counts it as pending until it has, and has committed it when aclose goes on to close; in Redis it
\* is in its stream's index, unless it was trimmed or expired (store_event, _flush, aclose, replay).
THEOREM ReturnedIsDurable == Spec => []AckedReachesDisk
<1>1. Init => Saved
  <2> SUFFICES ASSUME Init PROVE Saved
    OBVIOUS
  <2>1. \A p \in Procs : op[p] = Idle
    BY DEF Init
  <2>2. \A p \in Writers \cup Readers \cup Services : p \in Procs
    BY DEF Procs
  <2>3. Idle.k = "idle"
    BY DEF Idle
  <2>4. Unsaved = {}
    BY DEF Init, Unsaved
  <2> QED
    BY <2>1, <2>2, <2>3, <2>4 DEF Saved, Services, Init
<1>2. Typed /\ Saved /\ Indexed => AckedReachesDisk
  <2> SUFFICES ASSUME Typed, Saved, Indexed PROVE AckedReachesDisk
    OBVIOUS
  <2>1. (acked \cap rows) \ disk.rows \subseteq Unsaved
    BY DEF Unsaved, Due
  <2>2. Redis => \A x \in acked \cap rows : x.id \notin removed => Entry(x) \in index
    BY DEF Indexed, ListedIn
  <2> QED
    BY <2>1, <2>2 DEF AckedReachesDisk, Saved
<1> QED
  BY <1>1, <1>2, SavedStep, IndexedAlways, TypedAlways, PTL DEF Spec

-----------------------------------------------------------------------------
(* Subscribers.                                                            *)

\* The largest id of some rows.
LEMMA NewestFacts ==
    ASSUME NEW S, NEW n \in Nat, \A x \in S : x.id \in 1..n
    PROVE  /\ NewestOf(S) \in Nat /\ NewestOf(S) <= n /\ \A x \in S : x.id <= NewestOf(S)
           /\ S # {} => \E x \in S : NewestOf(S) = x.id
<1>1. CASE S = {}
  BY <1>1 DEF NewestOf
<1>2. CASE S # {}
  <2>1. Ids(S) \in SUBSET Nat /\ IsFiniteSet(Ids(S)) /\ Ids(S) # {}
    <3>1. Ids(S) \in SUBSET (1..n)
      BY DEF Ids
    <3>2. IsFiniteSet(1..n)
      BY FS_Interval
    <3> QED
      BY <1>2, <3>1, <3>2, FS_Subset DEF Ids
  <2> DEFINE at == Ascending(Ids(S))
  <2>2. at \in Seq(Nat) /\ ToSet(at) = Ids(S) /\ Increasing(at) /\ at # <<>>
    BY <2>1, AscendingFacts
  <2>3. \E y \in Ids(S) : \A x \in Ids(S) : x <= y
    BY <2>2, LastFacts
  <2>4. \E x \in S : \A y \in S : y.id <= x.id
    BY <2>3 DEF Ids
  <2> DEFINE z == CHOOSE x \in S : \A y \in S : y.id <= x.id
  <2>5. z \in S /\ \A y \in S : y.id <= z.id
    BY <2>4
  <2>6. NewestOf(S) = z.id
    BY <1>2 DEF NewestOf
  <2> HIDE DEF z
  <2> QED
    BY <2>5, <2>6
<1> QED
  BY <1>1, <1>2

\* A row has an id of its own, where the id and the row come in one step.
Distinct ==
    OneStep => /\ \A x, y \in rows : x.id = y.id => x = y
               /\ \A x, y \in disk.rows : x.id = y.id => x = y

LEMMA DistinctStep ==
    ASSUME Typed, Numbered, Distinct, [Next]_vars
    PROVE  Distinct'
<1> SUFFICES ASSUME OneStep
             PROVE  (\A x, y \in rows' : x.id = y.id => x = y) /\ (\A x, y \in disk'.rows : x.id = y.id => x = y)
  BY SameStore DEF Distinct, OneStep
<1>1. (\A x, y \in rows : x.id = y.id => x = y) /\ (\A x, y \in disk.rows : x.id = y.id => x = y)
  BY DEF Distinct
<1>2. seq \in Nat /\ \A x \in rows : x.id <= seq /\ x.id \in Nat
  BY MadeFacts DEF Typed, Tables, Numbered
<1>3. CASE rows' \subseteq rows /\ disk' \in {disk, Now}
  BY <1>1, <1>3 DEF Now
<1>4. CASE rows' = disk.rows /\ disk' = disk
  BY <1>1, <1>4
<1>5. ASSUME NEW z, z.id = seq + 1, rows' = rows \cup {z}, disk' = disk
      PROVE  (\A x, y \in rows' : x.id = y.id => x = y) /\ (\A x, y \in disk'.rows : x.id = y.id => x = y)
  BY <1>1, <1>2, <1>5
<1> QED
  BY <1>3, <1>4, <1>5, RowSteps

-----------------------------------------------------------------------------
(* What a subscription has come to.  Polling SQLite, it has all there is   *)
(* up to its cursor; told of each write by a networked store, it has been  *)
(* told once of what was published, and not yet of what is being written.  *)

Rising(g) == \A i, j \in 1..Len(g) : i < j => g[i].id < g[j].id
Once(g) == \A i, j \in 1..Len(g) : i # j => g[i].id # g[j].id
SubsOf(b, n) == [k : {"sub"}, s : Streams, t : Tenants, from : Nat, before : SUBSET Nat, at : Nat, inbox : Seq(Nat), got : Seq(Made(b, n))]
GotIds(o) == {o.got[i].id : i \in 1..Len(o.got)}
Known(o) == GotIds(o) \cup {o.inbox[i] : i \in 1..Len(o.inbox)} \cup o.before
Follows(o) == \A i \in 1..Len(o.got) : o.got[i].s = o.s /\ o.got[i].id > o.from
Polling(R, q, o) ==
    /\ Rising(o.got) /\ o.from <= o.at /\ o.at <= q /\ \A i \in 1..Len(o.got) : o.got[i].id <= o.at
    /\ \A x \in R : Sees(o.t, x) /\ x.s = o.s /\ x.k = "msg" /\ x.id > o.from /\ x.id <= o.at
                       => \E i \in 1..Len(o.got) : o.got[i] = x
Told(q, o) ==
    /\ o.from = 0 /\ Once(o.got)
    /\ \A i, j \in 1..Len(o.inbox) : i # j => o.inbox[i] # o.inbox[j]
    /\ \A i \in 1..Len(o.inbox) : o.inbox[i] \notin GotIds(o) /\ o.inbox[i] \notin o.before
    /\ \A i \in GotIds(o) : i \notin o.before
    /\ \A i \in Known(o) : i <= q
ReadingAt(b, n, R, q, o) ==
    \/ o = Idle
    \/ o.k \in ReplayKinds /\ DOMAIN o = ReplayFields
    \/ /\ o \in SubsOf(b, n) /\ Follows(o)
       /\ IF b \in {"sqlite", "behind"} THEN Polling(R, q, o) ELSE Told(q, o)
Replaying(o) == o.k \in ReplayKinds /\ DOMAIN o = ReplayFields
Reading == \A r \in Readers : ReadingAt(backend, used.stores, rows, seq, op[r])

\* The ids being written are different ones, and nobody was told of them.
Writes(p) == op[p].k \in Rowed
Flights ==
    ~ Sqlite => \A p \in Writers : Writes(p) =>
        /\ op[p].row.id <= seq
        /\ \A q \in Writers \ {p} : Writes(q) => op[q].row.id # op[p].row.id
        /\ \A r \in Readers : op[r].k = "sub" => op[p].row.id \notin Known(op[r])

\* The sequence of rows a subscription has so far, and what a read adds to it.
LEMMA GotFacts ==
    ASSUME NEW T, NEW g \in Seq(T), NEW h \in Seq(T)
    PROVE  /\ g \o h \in Seq(T) /\ Len(g) \in Nat /\ Len(h) \in Nat /\ Len(g \o h) = Len(g) + Len(h)
           /\ \A i \in 1..Len(g) : i \in 1..Len(g \o h) /\ (g \o h)[i] = g[i] /\ g[i] \in T
           /\ \A i \in 1..Len(h) : Len(g) + i \in 1..Len(g \o h) /\ (g \o h)[Len(g) + i] = h[i] /\ h[i] \in T
           /\ \A i \in 1..Len(g \o h) : \/ (i \in 1..Len(g) /\ (g \o h)[i] = g[i])
                                       \/ (i - Len(g) \in 1..Len(h) /\ (g \o h)[i] = h[i - Len(g)])
<1>1. /\ g \o h \in Seq(T) /\ Len(g) \in Nat /\ Len(h) \in Nat /\ Len(g \o h) = Len(g) + Len(h)
      /\ \A i \in 1..Len(g) + Len(h) : (g \o h)[i] = IF i <= Len(g) THEN g[i] ELSE h[i - Len(g)]
  BY ConcatProperties
<1>2. (\A i \in 1..Len(g) : g[i] \in T) /\ (\A i \in 1..Len(h) : h[i] \in T)
  OBVIOUS
<1>3. \A i \in 1..Len(g) : i \in 1..Len(g \o h) /\ (g \o h)[i] = g[i]
  BY <1>1
<1>4. \A i \in 1..Len(h) : Len(g) + i \in 1..Len(g \o h) /\ (g \o h)[Len(g) + i] = h[i]
  BY <1>1
<1>5. \A i \in 1..Len(g \o h) : \/ (i \in 1..Len(g) /\ (g \o h)[i] = g[i])
                                \/ (i - Len(g) \in 1..Len(h) /\ (g \o h)[i] = h[i - Len(g)])
  BY <1>1
<1> QED
  BY <1>1, <1>2, <1>3, <1>4, <1>5

LEMMA SubFacts ==
    ASSUME Typed, NEW r \in Readers, NEW R, NEW q, ReadingAt(backend, used.stores, R, q, op[r]), op[r].k = "sub"
    PROVE  /\ op[r] \in SubsOf(backend, used.stores) /\ Follows(op[r])
           /\ Sqlite => Polling(R, q, op[r])
           /\ ~ Sqlite => Told(q, op[r])
<1>1. op[r] # Idle /\ op[r].k \notin ReplayKinds
  BY DEF Idle, ReplayKinds
<1> QED
  BY <1>1 DEF ReadingAt, Sqlite

\* New rows are beyond the cursor of a subscription, rows that go are none of its business.
LEMMA ReadingGrows ==
    ASSUME NEW b \in Backends, NEW n \in Nat, NEW m \in Nat, n <= m, NEW q \in Nat, NEW v \in Nat, q <= v, NEW R, NEW V,
           b \in {"sqlite", "behind"} => \A x \in V : x \in R \/ (x.id > q /\ x.id \in Nat),
           NEW o, ReadingAt(b, n, R, q, o)
    PROVE  ReadingAt(b, m, V, v, o)
<1> SUFFICES ASSUME o \in SubsOf(b, n), Follows(o), IF b \in {"sqlite", "behind"} THEN Polling(R, q, o) ELSE Told(q, o)
             PROVE  o \in SubsOf(b, m) /\ IF b \in {"sqlite", "behind"} THEN Polling(V, v, o) ELSE Told(v, o)
  BY DEF ReadingAt
<1>1. o \in SubsOf(b, m) /\ o.at \in Nat /\ Len(o.got) \in Nat /\ \A i \in 1..Len(o.got) : o.got[i].id \in Nat
  <2>1. Made(b, n) \subseteq Made(b, m)
    BY MadeGrows
  <2>2. o.got \in Seq(Made(b, n)) /\ o.got \in Seq(Made(b, m))
    BY <2>1 DEF SubsOf
  <2>3. \A x \in Made(b, n) : x.id \in Nat
    BY BoundFacts DEF Made, RowsOf
  <2>4. o \in SubsOf(b, m) /\ o.at \in Nat
    BY <2>2 DEF SubsOf
  <2>5. Len(o.got) \in Nat /\ \A i \in 1..Len(o.got) : o.got[i] \in Made(b, n)
    BY <2>2
  <2> QED
    BY <2>3, <2>4, <2>5
<1>2. CASE b \in {"sqlite", "behind"}
  BY <1>1, <1>2 DEF Polling
<1>3. CASE b \notin {"sqlite", "behind"}
  <2>1. o.inbox \in Seq(Nat) /\ o.before \subseteq Nat
    BY DEF SubsOf
  <2>2. \A i \in Known(o) : i \in Nat
    BY <1>1, <2>1 DEF Known, GotIds
  <2>3. \A i \in Known(o) : i <= v
    BY <1>3, <2>2 DEF Told
  <2> QED
    BY <1>1, <1>3, <2>3 DEF Told
<1> QED
  BY <1>2, <1>3

\* A writer of a networked store goes on: with the row it has, with a new one, or with none.
LEMMA FlightGoes ==
    ASSUME Typed, Reading, Flights, ~ Sqlite, backend' = backend, NEW p \in Writers, NEW o, Go(p, o),
           used'.stores \in Nat, used.stores <= used'.stores,
           \/ o.k \notin Rowed /\ seq' = seq
           \/ Writes(p) /\ o.row = op[p].row /\ seq' = seq
           \/ o.row.id = seq + 1 /\ seq' = seq + 1
    PROVE  Reading' /\ Flights'
<1>1. p \in Procs /\ p \notin Readers /\ DOMAIN op = Procs /\ \A q \in Writers \cup Readers : q \in Procs
  BY WriterFacts DEF Typed, Coroutines, Procs
<1>2. op'[p] = o /\ \A q \in Procs \ {p} : op'[q] = op[q]
  BY <1>1 DEF Go
<1>3. \A r \in Readers : op'[r] = op[r]
  BY <1>1, <1>2
<1>4. seq \in Nat /\ seq' \in Nat /\ seq <= seq' /\ used.stores \in Nat /\ backend \in Backends
  BY DEF Typed, Tables
<1>5. Reading'
  <2>1. ASSUME NEW r \in Readers PROVE ReadingAt(backend, used'.stores, rows', seq', op[r])
    <3>1. ReadingAt(backend, used.stores, rows, seq, op[r])
      BY DEF Reading
    <3>2. backend \notin {"sqlite", "behind"}
      BY DEF Sqlite
    <3> QED
      BY <1>4, <3>1, <3>2, ReadingGrows
  <2> QED
    BY <1>3, <2>1 DEF Reading
<1>6. ASSUME NEW r \in Readers, op[r].k = "sub" PROVE \A i \in Known(op[r]) : i <= seq
  BY <1>6, SubFacts DEF Reading, Told
<1>7. ASSUME NEW q \in Writers, Writes(q)
      PROVE  /\ op[q].row.id <= seq /\ op[q].row.id \in Nat
             /\ \A w \in Writers \ {q} : Writes(w) => op[w].row.id # op[q].row.id
             /\ \A r \in Readers : op[r].k = "sub" => op[q].row.id \notin Known(op[r])
  <2>1. op[q].row \in Made(backend, used.stores)
    BY <1>7, WriterFacts DEF Writes
  <2> QED
    BY <1>7, <2>1, MadeFacts DEF Flights, Typed
<1>8. \A q \in Writers \ {p} : Writes(q)' => Writes(q) /\ op'[q] = op[q]
  BY <1>1, <1>2 DEF Writes
<1>9. CASE o.k \notin Rowed
  <2>1. ~ Writes(p)'
    BY <1>2, <1>9 DEF Writes
  <2> QED
    BY <1>3, <1>4, <1>5, <1>7, <1>8, <2>1 DEF Flights
<1>10. CASE Writes(p) /\ o.row = op[p].row
  <2>1. \A q \in Writers : Writes(q)' => Writes(q) /\ op'[q].row = op[q].row
    BY <1>2, <1>8, <1>10
  <2> QED
    BY <1>3, <1>4, <1>5, <1>7, <2>1 DEF Flights
<1>11. CASE o.row.id = seq + 1 /\ seq' = seq + 1
  <2>1. op'[p].row.id = seq + 1 /\ seq' = seq + 1
    BY <1>2, <1>11
  <2>2. ASSUME NEW q \in Writers \ {p}, Writes(q)'
        PROVE  op'[q].row = op[q].row /\ Writes(q) /\ op'[q].row.id # seq + 1 /\ op'[q].row.id <= seq + 1
    BY <1>4, <1>7, <1>8, <2>2
  <2>3. ASSUME NEW r \in Readers, op[r].k = "sub" PROVE seq + 1 \notin Known(op[r])
    BY <1>4, <1>6, <2>3
  <2>4. ASSUME NEW q \in Writers, Writes(q)'
        PROVE  /\ op'[q].row.id <= seq'
               /\ \A w \in Writers \ {q} : Writes(w)' => op'[w].row.id # op'[q].row.id
               /\ \A r \in Readers : op'[r].k = "sub" => op'[q].row.id \notin Known(op'[r])
    <3>1. CASE q = p
      BY <1>3, <1>4, <2>1, <2>2, <2>3, <3>1
    <3>2. CASE q # p
      <4>1. Writes(q) /\ op'[q].row.id = op[q].row.id /\ op[q].row.id <= seq
        BY <1>7, <2>2, <2>4, <3>2
      <4>2. \A w \in Writers \ {q} : Writes(w)' => op'[w].row.id # op'[q].row.id
        BY <1>7, <1>8, <2>1, <2>2, <2>4, <3>2
      <4> QED
        BY <1>3, <1>4, <1>7, <2>1, <2>2, <2>4, <3>2, <4>1, <4>2
    <3> QED
      BY <3>1, <3>2
  <2> QED
    BY <1>5, <2>4 DEF Flights, Writes
<1> QED
  BY <1>9, <1>10, <1>11

\* Nobody is doing anything.
LEMMA FlightsIdle ==
    ASSUME op' = [p \in Procs |-> Idle]
    PROVE  Reading' /\ Flights'
<1>1. Idle.k = "idle"
  BY DEF Idle
<1>2. \A p \in Writers \cup Readers : op'[p] = Idle
  BY DEF Procs
<1>3. Reading'
  BY <1>2 DEF Reading, ReadingAt
<1>4. \A p \in Writers : ~ Writes(p)'
  BY <1>1, <1>2 DEF Writes, Rowed
<1> QED
  BY <1>3, <1>4 DEF Flights

AfterTold(o, e) == [o EXCEPT !.inbox = Append(@, e)]

\* A subscriber of a networked store is told of an id it does not know.
LEMMA ToldOnce ==
    ASSUME NEW b \in Backends, NEW n \in Nat, NEW q \in Nat, NEW o \in SubsOf(b, n), Told(q, o), NEW e \in Nat, e <= q, e \notin Known(o),
           NEW o2, o2 = AfterTold(o, e)
    PROVE  /\ o2 \in SubsOf(b, n) /\ Told(q, o2) /\ o2.k = "sub" /\ Known(o2) = Known(o) \cup {e}
           /\ Follows(o) => Follows(o2)
<1> DEFINE w == Append(o.inbox, e)
<1>1. o.inbox \in Seq(Nat) /\ DOMAIN o = SubFields
  BY DEF SubsOf, SubFields
<1>2. w \in Seq(Nat) /\ Len(o.inbox) \in Nat /\ Len(w) = Len(o.inbox) + 1
  BY <1>1
<1>3. w[Len(o.inbox) + 1] = e /\ \A i \in 1..Len(o.inbox) : w[i] = o.inbox[i]
  BY <1>1, <1>2
<1>4. o2 = [o EXCEPT !.inbox = w]
  BY DEF AfterTold
<1> HIDE DEF w
<1>5. /\ o2 \in SubsOf(b, n) /\ o2.inbox = w /\ o2.got = o.got /\ o2.from = o.from /\ o2.s = o.s /\ o2.k = "sub"
      /\ o2.before = o.before
  BY <1>1, <1>2, <1>4 DEF SubsOf
<1>6. GotIds(o2) = GotIds(o)
  BY <1>5 DEF GotIds
<1>7. {w[i] : i \in 1..Len(w)} = {o.inbox[i] : i \in 1..Len(o.inbox)} \cup {e}
  <2>1. ASSUME NEW i \in 1..Len(w) PROVE w[i] = e \/ \E j \in 1..Len(o.inbox) : w[i] = o.inbox[j]
    <3>1. i = Len(o.inbox) + 1 \/ i \in 1..Len(o.inbox)
      BY <1>2
    <3> QED
      BY <1>3, <3>1
  <2>2. ASSUME NEW j \in 1..Len(o.inbox) PROVE j \in 1..Len(w) /\ w[j] = o.inbox[j]
    BY <1>2, <1>3
  <2>3. Len(o.inbox) + 1 \in 1..Len(w)
    BY <1>2
  <2> QED
    BY <1>3, <2>1, <2>2, <2>3
<1>8. Known(o2) = Known(o) \cup {e}
  <2>1. Known(o2) = GotIds(o2) \cup {w[i] : i \in 1..Len(w)} \cup o.before
    BY <1>5 DEF Known
  <2> QED
    BY <1>6, <1>7, <2>1 DEF Known
<1>9. ASSUME NEW i \in 1..Len(w), NEW j \in 1..Len(w), i # j PROVE w[i] # w[j]
  <2>1. \A x \in 1..Len(o.inbox) : o.inbox[x] # e
    BY DEF Known
  <2>2. \A x \in 1..Len(w) : x = Len(o.inbox) + 1 \/ x \in 1..Len(o.inbox)
    BY <1>2
  <2> QED
    BY <1>3, <1>9, <2>1, <2>2 DEF Told
<1>10. ASSUME NEW i \in 1..Len(w) PROVE w[i] \notin GotIds(o) /\ w[i] \notin o.before
  <2>1. i = Len(o.inbox) + 1 \/ i \in 1..Len(o.inbox)
    BY <1>2
  <2>2. e \notin GotIds(o) /\ e \notin o.before
    BY DEF Known
  <2> QED
    BY <1>3, <2>1, <2>2 DEF Told
<1>11. Told(q, o2)
  <2>1. o.from = 0 /\ Once(o.got) /\ \A i \in Known(o) : i <= q
    BY DEF Told
  <2>2. o2.from = 0 /\ Once(o2.got)
    BY <1>5, <2>1
  <2>3. \A i \in Known(o2) : i <= q
    BY <1>8, <2>1
  <2>4. \A i, j \in 1..Len(o2.inbox) : i # j => o2.inbox[i] # o2.inbox[j]
    BY <1>5, <1>9
  <2>5. \A i \in 1..Len(o2.inbox) : o2.inbox[i] \notin GotIds(o2) /\ o2.inbox[i] \notin o2.before
    BY <1>5, <1>6, <1>10
  <2>6. \A i \in GotIds(o2) : i \notin o2.before
    BY <1>5, <1>6 DEF Told
  <2> QED
    BY <2>2, <2>3, <2>4, <2>5, <2>6 DEF Told
<1>12. Follows(o) => Follows(o2)
  BY <1>5 DEF Follows
<1> QED
  BY <1>5, <1>8, <1>11, <1>12

LEMMA PublishTold ==
    ASSUME Typed, Reading, Flights, ~ Sqlite, NEW p \in Writers, Publish(p)
    PROVE  Reading' /\ Flights'
<1> DEFINE e == op[p].row.id
           o(r) == AfterTold(op[r], e)
<1>1. op[p].k = "publish" /\ Writes(p) /\ op[p].row \in Made(backend, used.stores) /\ p \in Procs /\ p \notin Readers
  BY WriterFacts, PublishFacts DEF Writes, Rowed
<1>2. /\ e \in Nat /\ e <= seq
      /\ \A q \in Writers \ {p} : Writes(q) => op[q].row.id # e
      /\ \A r \in Readers : op[r].k = "sub" => e \notin Known(op[r])
  BY <1>1, MadeFacts DEF Flights, Typed
<1>3. UNCHANGED <<backend, rows, seq, used>> /\ op'[p] = Idle /\ backend \in Backends /\ used.stores \in Nat /\ seq \in Nat
  BY PublishFacts DEF Typed, Tables
<1>4. \A r \in Readers : op'[r] = op[r] \/ (op[r].k = "sub" /\ op'[r] = o(r))
  <2>1. \A r \in Readers : r \in Procs /\ r # p
    BY <1>1 DEF Procs
  <2> QED
    BY <2>1 DEF Publish, AfterTold
<1> HIDE DEF e
<1>5. ASSUME NEW r \in Readers, op[r].k = "sub"
      PROVE  /\ o(r) \in SubsOf(backend, used.stores) /\ Told(seq, o(r)) /\ Follows(o(r)) /\ Known(o(r)) = Known(op[r]) \cup {e}
  <2>1. op[r] \in SubsOf(backend, used.stores) /\ Told(seq, op[r]) /\ Follows(op[r])
    BY <1>5, SubFacts DEF Reading
  <2> QED
    BY <1>2, <1>3, <1>5, <2>1, ToldOnce
<1> HIDE DEF o
<1>6. Reading'
  <2>1. ASSUME NEW r \in Readers PROVE ReadingAt(backend, used.stores, rows, seq, op'[r])
    <3>1. CASE op'[r] = op[r]
      BY <3>1 DEF Reading
    <3>2. CASE op[r].k = "sub" /\ op'[r] = o(r)
      BY <1>5, <3>2 DEF ReadingAt, Sqlite
    <3> QED
      BY <1>4, <3>1, <3>2
  <2> QED
    BY <1>3, <2>1 DEF Reading
<1>7. ~ Writes(p)' /\ \A q \in Writers : Writes(q)' => q # p /\ Writes(q) /\ op'[q] = op[q]
  <2>1. ~ Writes(p)'
    BY <1>3 DEF Writes, Rowed, Idle
  <2>2. \A q \in Writers : q \in Procs /\ q \notin Readers
    BY TableAssumption DEF Procs
  <2>3. \A q \in Writers \ {p} : op'[q] = op[q]
    BY <2>2, PublishFacts
  <2> QED
    BY <2>1, <2>3 DEF Writes
<1>8. ASSUME NEW r \in Readers, op'[r].k = "sub" PROVE op[r].k = "sub" /\ Known(op'[r]) \subseteq Known(op[r]) \cup {e}
  BY <1>4, <1>5, <1>8
<1>9. Flights'
  BY <1>2, <1>3, <1>7, <1>8 DEF Flights
<1> QED
  BY <1>6, <1>9

\* Nobody moves, and no id is taken.
LEMMA FlightsStay ==
    ASSUME Typed, Reading, Flights, ~ Sqlite, UNCHANGED <<backend, op, seq>>, used'.stores \in Nat, used.stores <= used'.stores
    PROVE  Reading' /\ Flights'
<1>1. seq \in Nat /\ used.stores \in Nat /\ backend \in Backends /\ backend \notin {"sqlite", "behind"}
  BY DEF Typed, Tables, Sqlite
<1>2. ASSUME NEW r \in Readers PROVE ReadingAt(backend, used'.stores, rows', seq, op[r])
  <2>1. ReadingAt(backend, used.stores, rows, seq, op[r])
    BY DEF Reading
  <2> QED
    BY <1>1, <2>1, ReadingGrows
<1> QED
  BY <1>2 DEF Reading, Flights, Writes, Sqlite

LEMMA RowKept ==
    ASSUME Typed, NEW p \in Writers, Writes(p), NEW j
    PROVE  [op[p] EXCEPT !.k = j].row = op[p].row
<1>1. op[p] \in [k : RowStages(backend), row : Made(backend, used.stores)]
  BY WriterFacts DEF Writes
<1> QED
  BY <1>1

LEMMA RdWriteFlights ==
    ASSUME Typed, Reading, Flights, ~ Sqlite, RdWrite
    PROVE  Reading' /\ Flights'
<1>1. used.stores \in Nat /\ Tables
  BY DEF Typed, Tables
<1>2. \A c \in {"stores", "forks", "faults", "reads"} : Bump(c) => used'.stores \in Nat /\ used.stores <= used'.stores
  BY <1>1, BumpFacts
<1>3. ASSUME NEW p \in Writers, NEW s \in Streams, NEW k \in Kinds, RdStore(p, s, k) \/ RdIncr(p, s, k)
      PROVE  Reading' /\ Flights'
  <2> DEFINE o(j) == [k |-> j, row |-> NewRow(s, NoTenant, k)]
  <2>1. \A j : o(j).row.id = seq + 1
    BY DEF NewRow
  <2>2. PICK j : Go(p, o(j)) /\ seq' = seq + 1 /\ Bump("stores") /\ backend' = backend
    BY <1>3 DEF RdStore, RdIncr
  <2> HIDE DEF o
  <2> QED
    BY <1>2, <2>1, <2>2, FlightGoes
<1>4. ASSUME NEW p \in Writers, RdHset(p) \/ RdZadd(p) \/ RdTrim(p) PROVE Reading' /\ Flights'
  <2>1. Writes(p) /\ UNCHANGED <<backend, seq, used>>
    BY <1>4 DEF RdHset, RdZadd, RdTrim, Writes, Rowed
  <2>2. PICK j : Go(p, [op[p] EXCEPT !.k = j])
    BY <1>4 DEF RdHset, RdZadd, RdTrim
  <2> DEFINE o == [op[p] EXCEPT !.k = j]
  <2>3. o.row = op[p].row /\ Go(p, o)
    BY <2>1, <2>2, RowKept
  <2> HIDE DEF o
  <2> QED
    BY <1>1, <2>1, <2>3, FlightGoes
<1>5. ASSUME NEW p \in Writers, RdBroken(p) PROVE Reading' /\ Flights'
  <2>1. Go(p, Idle) /\ UNCHANGED <<backend, seq>> /\ Bump("faults")
    BY <1>5 DEF RdBroken
  <2>2. Idle.k \notin Rowed
    BY DEF Idle, Rowed
  <2> QED
    BY <1>2, <2>1, <2>2, FlightGoes
<1>6. CASE RdExpires \/ \E s \in Streams : RdKeyExpires(s)
  <2>1. UNCHANGED <<backend, op, seq>> /\ (used' = used \/ Bump("faults"))
    BY <1>6 DEF RdExpires, RdKeyExpires
  <2> QED
    BY <1>1, <1>2, <2>1, FlightsStay
<1> QED
  BY <1>3, <1>4, <1>5, <1>6 DEF RdWrite

LEMMA PgWriteFlights ==
    ASSUME Typed, Reading, Flights, ~ Sqlite, PgWrite
    PROVE  Reading' /\ Flights'
<1>1. used.stores \in Nat /\ Tables
  BY DEF Typed, Tables
<1>2. \A c \in {"stores", "forks", "faults", "reads"} : Bump(c) => used'.stores \in Nat /\ used.stores <= used'.stores
  BY <1>1, BumpFacts
<1>3. ASSUME NEW p \in Writers, NEW s \in Streams, NEW k \in Kinds, PgInsert(p, s, k) PROVE Reading' /\ Flights'
  <2> DEFINE o == [k |-> "insert", row |-> NewRow(s, TenantOf[p], k)]
  <2>1. o.row.id = seq + 1
    BY DEF NewRow
  <2>2. Go(p, o) /\ seq' = seq + 1 /\ Bump("stores") /\ backend' = backend
    BY <1>3 DEF PgInsert
  <2> HIDE DEF o
  <2> QED
    BY <1>2, <2>1, <2>2, FlightGoes
<1>4. ASSUME NEW p \in Writers, PgCommits(p) PROVE Reading' /\ Flights'
  <2> DEFINE o == [op[p] EXCEPT !.k = "publish"]
  <2>1. Writes(p) /\ UNCHANGED <<backend, seq, used>> /\ Go(p, o)
    BY <1>4 DEF PgCommits, Writes, Rowed
  <2>2. o.row = op[p].row
    BY <2>1, RowKept
  <2> HIDE DEF o
  <2> QED
    BY <1>1, <2>1, <2>2, FlightGoes
<1>5. Idle.k \notin Rowed
  BY DEF Idle, Rowed
<1>6. ASSUME NEW p \in Writers, PgFails(p) PROVE Reading' /\ Flights'
  <2>1. Go(p, Idle) /\ UNCHANGED <<backend, seq>> /\ Bump("faults")
    BY <1>6 DEF PgFails
  <2> QED
    BY <1>2, <1>5, <2>1, FlightGoes
<1>7. ASSUME NEW p \in Writers, PgPurgeBatch(p) PROVE Reading' /\ Flights'
  <2>1. UNCHANGED <<backend, seq, used>> /\ op[p].k \notin Rowed /\ \E o \in {Idle, op[p]} : Go(p, o)
    BY <1>7 DEF PgPurgeBatch, Rowed
  <2> QED
    BY <1>1, <1>5, <2>1, FlightGoes
<1>8. ASSUME NEW p \in Writers, NEW t \in Tenants, NEW bound \in BOOLEAN, PgPurge(p, t, bound) PROVE Reading' /\ Flights'
  <2> DEFINE o == [k |-> "purge", t |-> t, bound |-> bound, cut |-> old]
  <2>1. UNCHANGED <<backend, seq, used>> /\ Go(p, o)
    BY <1>8 DEF PgPurge
  <2>2. o.k \notin Rowed
    BY DEF Rowed
  <2> HIDE DEF o
  <2> QED
    BY <1>1, <2>1, <2>2, FlightGoes
<1> QED
  BY <1>3, <1>4, <1>6, <1>7, <1>8 DEF PgWrite

LEMMA NetFlights ==
    ASSUME Typed, Reading, Flights, ~ Sqlite, NetStep
    PROVE  Reading' /\ Flights'
<1>1. used.stores \in Nat /\ Tables
  BY DEF Typed, Tables
<1>2. \A c \in {"stores", "forks", "faults", "reads"} : Bump(c) => used'.stores \in Nat /\ used.stores <= used'.stores
  BY <1>1, BumpFacts
<1>3. CASE Ages \/ \E p \in Writers, s, parent \in Streams : \E at \in 1..seq : RdFork(p, s, parent, at) \/ PgFork(p, s, parent, at)
  <2>1. UNCHANGED <<backend, op, seq>> /\ (Bump("faults") \/ Bump("forks"))
    BY <1>3 DEF Ages, RdFork, PgFork
  <2> QED
    BY <1>2, <2>1, FlightsStay
<1>4. CASE Restart
  BY <1>4, FlightsIdle DEF Restart
<1>5. ASSUME NEW p \in Writers, Publish(p) PROVE Reading' /\ Flights'
  BY <1>5, PublishTold
<1>6. ASSUME NEW p \in Writers, Unpublished(p) PROVE Reading' /\ Flights'
  <2>1. Go(p, Idle) /\ UNCHANGED <<backend, seq>> /\ Bump("faults")
    BY <1>6 DEF Unpublished, Ack
  <2>2. Idle.k \notin Rowed
    BY DEF Idle, Rowed
  <2> QED
    BY <1>2, <2>1, <2>2, FlightGoes
<1> QED
  BY <1>3, <1>4, <1>5, <1>6 DEF NetStep

\* A replay goes on until it is answered.
LEMMA ReplayGoes ==
    ASSUME NEW r, op[r].k \in ReplayKinds => DOMAIN op[r] = ReplayFields,
           \/ Answered(r) \/ Link(r) \/ SqRead(r) \/ RdChunk(r) \/ RdIds(r) \/ RdPayloads(r) \/ RdPrune(r) \/ PgPage(r)
           \/ \E s \in Streams, t \in Tenants, last \in Nat : Resolve(r, last, s, t)
    PROVE  \E o : Go(r, o) /\ (o = Idle \/ Replaying(o))
<1>1. CASE Answered(r)
  BY <1>1 DEF Answered
<1>2. CASE Link(r)
  <2> DEFINE g == [op[r] EXCEPT !.segs = Extended(op[r], LastLink(op[r])), !.seen = @ \cup {op[r].cur}]
             h == [g EXCEPT !.k = "read", !.cut = old]
             i == [g EXCEPT !.cur = forks[op[r].cur].p, !.max = forks[op[r].cur].at]
  <2>1. op[r].k = "link" /\ (Go(r, h) \/ Go(r, i))
    BY <1>2 DEF Link, LinkBy
  <2>2. DOMAIN g = ReplayFields /\ g.k = "link"
    BY <2>1 DEF ReplayFields, ReplayKinds
  <2> HIDE DEF g
  <2>3. Replaying(h) /\ Replaying(i)
    BY <2>2 DEF ReplayFields, ReplayKinds, Replaying
  <2> QED
    BY <2>1, <2>3
<1>3. ASSUME NEW s, NEW t, NEW last, Resolve(r, last, s, t) PROVE \E o : Go(r, o) /\ Replaying(o)
  <2> DEFINE o == [k |-> "link", s |-> s, t |-> t, last |-> last, cur |-> s, max |-> NoMax, seen |-> {},
              segs |-> <<>>, cut |-> {}, at |-> 0, ids |-> {}, out |-> <<>>, stale |-> {},
              must |-> Wanted(s, t, last), fk |-> forks, at0 |-> used.forks]
  <2>1. Go(r, o)
    BY <1>3 DEF Resolve
  <2>2. Replaying(o)
    BY DEF ReplayFields, ReplayKinds, Replaying
  <2> HIDE DEF o
  <2> QED
    BY <2>1, <2>2
<1>4. ASSUME NEW q, DOMAIN q = ReplayFields, NEW R, NEW at, NEW more PROVE Replaying(Emit(q, R, at, more))
  BY <1>4, EmitFacts DEF Replaying, ReplayKinds
<1>5. CASE SqRead(r) \/ PgPage(r)
  <2>1. op[r].k = "read" /\ \E R, at, more : Go(r, Emit(op[r], R, at, more))
    BY <1>5 DEF SqRead, PgPage
  <2> QED
    BY <1>4, <2>1 DEF ReplayKinds
<1>6. CASE RdChunk(r) \/ RdPayloads(r)
  <2>1. op[r].k \in {"read", "payloads"} /\ \E g, R, at, more : Go(r, Emit([op[r] EXCEPT !.stale = @ \cup g], R, at, more))
    BY <1>6 DEF RdChunk, RdPayloads
  <2>2. PICK g, R, at, more : Go(r, Emit([op[r] EXCEPT !.stale = @ \cup g], R, at, more))
    BY <2>1
  <2> DEFINE q == [op[r] EXCEPT !.stale = @ \cup g]
  <2>3. DOMAIN q = ReplayFields /\ Go(r, Emit(q, R, at, more))
    BY <2>1, <2>2 DEF ReplayFields, ReplayKinds
  <2> HIDE DEF q
  <2> QED
    BY <1>4, <2>3
<1>7. CASE RdIds(r)
  <2> DEFINE c(I) == [op[r] EXCEPT !.k = "payloads", !.ids = I]
  <2>1. op[r].k = "read" /\ (Go(r, Emit(op[r], {}, 0, FALSE)) \/ \E I : Go(r, c(I)))
    BY <1>7 DEF RdIds
  <2>2. \A I : Replaying(c(I))
    BY <2>1 DEF ReplayFields, ReplayKinds, Replaying
  <2>3. Replaying(Emit(op[r], {}, 0, FALSE))
    BY <1>4, <2>1 DEF ReplayKinds
  <2> HIDE DEF c
  <2> QED
    BY <2>1, <2>2, <2>3
<1>8. CASE RdPrune(r)
  <2> DEFINE c == [op[r] EXCEPT !.k = "done"]
  <2>1. op[r].k = "prune" /\ Go(r, c)
    BY <1>8 DEF RdPrune
  <2>2. Replaying(c)
    BY <2>1 DEF ReplayFields, ReplayKinds, Replaying
  <2> HIDE DEF c
  <2> QED
    BY <2>1, <2>2
<1> QED
  BY <1>1, <1>2, <1>3, <1>5, <1>6, <1>7, <1>8

\* A subscription starts with nothing.
LEMMA SubscribedFacts ==
    ASSUME NEW b \in Backends, NEW n \in Nat, NEW R \in SUBSET Made(b, n), NEW q \in Nat,
           NEW s \in Streams, NEW t \in Tenants, NEW f \in Nat, IF b \in {"sqlite", "behind"} THEN f <= q ELSE f = 0,
           Over \subseteq Nat, \A i \in Over : i <= q
    PROVE  ReadingAt(b, n, R, q, Subscribed(s, t, f)) /\ Known(Subscribed(s, t, f)) = Over
<1> DEFINE o == Subscribed(s, t, f)
<1>1. /\ o \in SubsOf(b, n) /\ o.got = <<>> /\ o.inbox = <<>> /\ o.at = f /\ o.from = f /\ o.k = "sub"
      /\ o.before = Over
  BY DEF Subscribed, SubsOf
<1> HIDE DEF o
<1>2. Len(o.got) = 0 /\ Len(o.inbox) = 0 /\ 1..0 = {}
  BY <1>1
<1>3. Follows(o) /\ Known(o) = Over /\ GotIds(o) = {} /\ Rising(o.got) /\ Once(o.got)
  BY <1>1, <1>2 DEF Follows, Known, GotIds, Rising, Once
<1>4. \A x \in R : x.id \in Nat
  BY BoundFacts DEF Made, RowsOf
<1>5. CASE b \in {"sqlite", "behind"}
  <2>1. Polling(R, q, o)
    BY <1>1, <1>2, <1>3, <1>4, <1>5 DEF Polling
  <2> QED
    BY <1>1, <1>3, <1>5, <2>1 DEF ReadingAt, o
<1>6. CASE b \notin {"sqlite", "behind"}
  <2>1. Told(q, o)
    BY <1>1, <1>2, <1>3, <1>6 DEF Told
  <2> QED
    BY <1>1, <1>3, <1>6, <2>1 DEF ReadingAt, o
<1> QED
  BY <1>5, <1>6

AfterDeliver(o, hit) == [o EXCEPT !.inbox = Tail(@), !.got = @ \o Sorted(hit)]
AfterPoll(o, new) == [o EXCEPT !.at = NewestOf(new), !.got = @ \o Sorted({x \in new : x.k = "msg"})]

\* The subscriber of a networked store looks the next id up that it was told of.
LEMMA DeliverFacts ==
    ASSUME NEW b \in Backends, NEW n \in Nat, NEW q \in Nat, NEW o \in SubsOf(b, n), Told(q, o), Follows(o), o.inbox # <<>>,
           NEW hit \in SUBSET Made(b, n), \A x \in hit : x.id = Head(o.inbox) /\ x.s = o.s,
           NEW o2, o2 = AfterDeliver(o, hit)
    PROVE  /\ o2 \in SubsOf(b, n) /\ Told(q, o2) /\ Follows(o2) /\ o2.k = "sub" /\ Known(o2) \subseteq Known(o)
<1> DEFINE T == Made(b, n)
           h == Sorted(hit)
           g == o.got \o h
           w == Tail(o.inbox)
           e == Head(o.inbox)
<1>1. o.got \in Seq(T) /\ o.inbox \in Seq(Nat) /\ DOMAIN o = SubFields /\ Bound[b].stores \in Nat
  BY BoundFacts DEF SubsOf, SubFields
<1>2. \A x \in hit : x.id \in 1..Bound[b].stores
  BY DEF Made, RowsOf
<1>3. /\ h \in Seq(T) /\ Len(h) \in Nat /\ \A i \in 1..Len(h) : h[i] \in hit
      /\ \A i, j \in 1..Len(h) : i < j => h[i].id < h[j].id
  BY <1>1, <1>2, SortedFacts
<1>4. o2 = [o EXCEPT !.inbox = w, !.got = g]
  BY DEF AfterDeliver
<1>5. /\ w \in Seq(Nat) /\ Len(o.inbox) \in Nat /\ Len(o.inbox) # 0 /\ Len(w) = Len(o.inbox) - 1
      /\ \A i \in 1..Len(w) : w[i] = o.inbox[i + 1]
      /\ e = o.inbox[1]
  BY <1>1
<1> HIDE DEF h, w, e, T
<1>6. /\ g \in Seq(T) /\ Len(o.got) \in Nat
      /\ \A i \in 1..Len(g) : \/ (i \in 1..Len(o.got) /\ g[i] = o.got[i])
                              \/ (i - Len(o.got) \in 1..Len(h) /\ g[i] = h[i - Len(o.got)])
      /\ Len(g) = Len(o.got) + Len(h)
  BY <1>1, <1>3, GotFacts
<1> HIDE DEF g
<1>7. o2 \in SubsOf(b, n) /\ o2.inbox = w /\ o2.got = g /\ o2.from = o.from /\ o2.s = o.s /\ o2.k = "sub" /\ o2.before = o.before
  BY <1>1, <1>4, <1>5, <1>6 DEF SubsOf, T
<1>8. \A i \in 1..Len(h) : h[i].id = e /\ h[i].s = o.s /\ e \in Nat /\ e > 0
  BY <1>1, <1>2, <1>3 DEF e
<1>9. \A i, j \in 1..Len(h) : i = j
  BY <1>3, <1>8
<1>10. /\ e \notin GotIds(o) /\ o.from = 0 /\ Once(o.got) /\ (\A i \in Known(o) : i <= q)
       /\ \A i \in 1..Len(w) : w[i] \notin GotIds(o) /\ w[i] # e /\ w[i] \in Known(o) /\ w[i] \notin o.before
       /\ e \in Known(o) /\ e \notin o.before
  <2>1. 1 \in 1..Len(o.inbox)
    BY <1>5
  <2>2. \A i \in 1..Len(w) : i + 1 \in 1..Len(o.inbox) /\ i + 1 # 1
    BY <1>5
  <2>3. \A i \in 1..Len(o.inbox) : o.inbox[i] \in Known(o)
    BY DEF Known
  <2>4. (\A i \in Known(o) : i <= q) /\ o.from = 0 /\ Once(o.got)
    BY DEF Told
  <2>5. \A i \in 1..Len(o.inbox) : o.inbox[i] \notin GotIds(o) /\ o.inbox[i] \notin o.before
    BY DEF Told
  <2>6. \A i \in 1..Len(o.inbox) : i # 1 => o.inbox[i] # o.inbox[1]
    BY <2>1 DEF Told
  <2> QED
    <3>1. e \in Known(o) /\ e \notin GotIds(o) /\ e \notin o.before
      BY <1>5, <2>1, <2>3, <2>5
    <3>2. ASSUME NEW i \in 1..Len(w) PROVE w[i] \notin GotIds(o) /\ w[i] # e /\ w[i] \in Known(o) /\ w[i] \notin o.before
      <4>1. w[i] = o.inbox[i + 1] /\ i + 1 \in 1..Len(o.inbox) /\ i + 1 # 1
        BY <1>5, <2>2
      <4> QED
        BY <1>5, <2>3, <2>5, <2>6, <4>1
    <3> QED
      BY <2>4, <3>1, <3>2
<1>11. GotIds(o2) \subseteq GotIds(o) \cup {e}
  <2>1. \A i \in 1..Len(g) : (i \in 1..Len(o.got) /\ g[i] = o.got[i]) \/ g[i].id = e
    BY <1>6, <1>8
  <2> QED
    BY <1>7, <2>1 DEF GotIds
<1>12. Known(o2) \subseteq Known(o)
  <2>1. \A i \in 1..Len(o2.inbox) : o2.inbox[i] \in Known(o)
    BY <1>7, <1>10
  <2>2. GotIds(o2) \subseteq Known(o)
    BY <1>10, <1>11 DEF Known
  <2>3. o2.before \subseteq Known(o)
    BY <1>7 DEF Known
  <2> QED
    BY <2>1, <2>2, <2>3 DEF Known
<1>13. Once(g)
  <2> SUFFICES ASSUME NEW i \in 1..Len(g), NEW j \in 1..Len(g), i # j PROVE g[i].id # g[j].id
    BY DEF Once
  <2>1. CASE i \in 1..Len(o.got) /\ j \in 1..Len(o.got)
    <3>1. g[i] = o.got[i] /\ g[j] = o.got[j]
      BY <1>6, <2>1
    <3> QED
      BY <1>10, <2>1, <3>1 DEF Once
  <2>2. \A m \in 1..Len(o.got) : o.got[m].id # e
    BY <1>10 DEF GotIds
  <2>6. \A m \in 1..Len(g) : m \notin 1..Len(o.got) => g[m].id = e
    BY <1>6, <1>8
  <2>7. \A m \in 1..Len(o.got) : m \in 1..Len(g) => g[m].id # e
    <3>1. \A m \in 1..Len(o.got) : m \in 1..Len(g) => g[m] = o.got[m]
      BY <1>3, <1>6
    <3> QED
      BY <2>2, <3>1
  <2>3. CASE i \in 1..Len(o.got) /\ j \notin 1..Len(o.got)
    BY <2>3, <2>6, <2>7
  <2>4. CASE i \notin 1..Len(o.got) /\ j \in 1..Len(o.got)
    BY <2>4, <2>6, <2>7
  <2>5. CASE i \notin 1..Len(o.got) /\ j \notin 1..Len(o.got)
    <3>1. i - Len(o.got) \in 1..Len(h) /\ j - Len(o.got) \in 1..Len(h)
      BY <1>6, <2>5
    <3>2. i - Len(o.got) = j - Len(o.got)
      BY <1>9, <3>1
    <3> QED
      BY <1>6, <3>2
  <2> QED
    BY <2>1, <2>3, <2>4, <2>5
<1>14. \A i, j \in 1..Len(w) : i # j => w[i] # w[j]
  <2> SUFFICES ASSUME NEW i \in 1..Len(w), NEW j \in 1..Len(w), i # j PROVE w[i] # w[j]
    OBVIOUS
  <2>1. i + 1 \in 1..Len(o.inbox) /\ j + 1 \in 1..Len(o.inbox) /\ i + 1 # j + 1
    <3>1. i + 1 # j + 1
      OBVIOUS
    <3>2. \A m \in 1..Len(w) : m + 1 \in 1..Len(o.inbox)
      BY <1>5
    <3> QED
      BY <3>1, <3>2
  <2>2. o.inbox[i + 1] # o.inbox[j + 1]
    BY <2>1 DEF Told
  <2> QED
    BY <1>5, <2>2
<1>15. /\ \A i \in 1..Len(w) : w[i] \notin GotIds(o2) /\ w[i] \notin o.before
       /\ \A i \in GotIds(o2) : i \notin o.before
  BY <1>10, <1>11 DEF Told
<1>16. Told(q, o2)
  <2>1. \A i \in Known(o2) : i <= q
    BY <1>10, <1>12
  <2>2. o2.from = 0 /\ Once(o2.got)
    BY <1>7, <1>10, <1>13
  <2>3. \A i, j \in 1..Len(o2.inbox) : i # j => o2.inbox[i] # o2.inbox[j]
    BY <1>7, <1>14
  <2>4. /\ \A i \in 1..Len(o2.inbox) : o2.inbox[i] \notin GotIds(o2) /\ o2.inbox[i] \notin o2.before
        /\ \A i \in GotIds(o2) : i \notin o2.before
    BY <1>7, <1>15
  <2> QED
    BY <2>1, <2>2, <2>3, <2>4 DEF Told
<1>17. Follows(o2)
  <2> SUFFICES ASSUME NEW i \in 1..Len(g) PROVE g[i].s = o.s /\ g[i].id > o.from
    BY <1>7 DEF Follows
  <2>1. CASE i \in 1..Len(o.got) /\ g[i] = o.got[i]
    BY <2>1 DEF Follows
  <2>2. CASE i - Len(o.got) \in 1..Len(h) /\ g[i] = h[i - Len(o.got)]
    BY <1>8, <1>10, <2>2
  <2> QED
    BY <1>6, <2>1, <2>2
<1> QED
  BY <1>7, <1>12, <1>16, <1>17

\* A poll of SQLite fetches what is after the cursor, all of it and in order.
LEMMA PollFacts ==
    ASSUME NEW b \in Backends, NEW n \in Nat, NEW q \in Nat, NEW R \in SUBSET Made(b, n), \A x \in R : x.id <= q,
           \A x, y \in R : x.id = y.id => x = y,
           NEW o \in SubsOf(b, n), Polling(R, q, o), Follows(o),
           NEW new \in SUBSET R, \A x \in R : x \in new <=> Sees(o.t, x) /\ x.s = o.s /\ x.id > o.at, new # {},
           NEW o2, o2 = AfterPoll(o, new)
    PROVE  o2 \in SubsOf(b, n) /\ Polling(R, q, o2) /\ Follows(o2) /\ o2.k = "sub"
<1> DEFINE T == Made(b, n)
           S == {x \in new : x.k = "msg"}
           h == Sorted(S)
           g == o.got \o h
           at == NewestOf(new)
<1>1. o.got \in Seq(T) /\ o.at \in Nat /\ o.from \in Nat /\ DOMAIN o = SubFields /\ Bound[b].stores \in Nat
  BY BoundFacts DEF SubsOf, SubFields
<1>2. \A x \in T : x.id \in 1..Bound[b].stores /\ x.id \in Nat
  BY <1>1 DEF Made, RowsOf
<1>3. /\ h \in Seq(T) /\ Len(h) \in Nat /\ (\A i \in 1..Len(h) : h[i] \in S)
      /\ (\A i, j \in 1..Len(h) : i < j => h[i].id < h[j].id)
      /\ (\A x \in S : \E i \in 1..Len(h) : h[i].id = x.id)
  <2> DEFINE m == Bound[b].stores
  <2>1. S \in SUBSET T /\ m \in Nat /\ \A x \in S : x.id \in 1..m
    BY <1>1, <1>2
  <2>2. h = Sorted(S)
    OBVIOUS
  <2> HIDE DEF S, T, h, m
  <2>3. /\ Sorted(S) \in Seq(T) /\ Len(Sorted(S)) \in Nat
        /\ (\A i \in 1..Len(Sorted(S)) : Sorted(S)[i] \in S)
        /\ (\A i, j \in 1..Len(Sorted(S)) : i < j => Sorted(S)[i].id < Sorted(S)[j].id)
        /\ (\A x \in S : \E i \in 1..Len(Sorted(S)) : Sorted(S)[i].id = x.id)
    BY ONLY <2>1, SortedFacts
  <2> QED
    BY <2>2, <2>3
<1>4. at \in Nat /\ (\A x \in new : x.id <= at) /\ at <= q /\ o.at <= at
  <2>1. \A x \in new : x.id \in 1..Bound[b].stores /\ x.id <= q /\ x.id > o.at
    BY <1>2
  <2>2. at \in Nat /\ (\A x \in new : x.id <= at) /\ \E x \in new : at = x.id
    BY <1>1, <2>1, NewestFacts
  <2> QED
    BY <1>1, <2>1, <2>2
<1>5. o2 = [o EXCEPT !.at = at, !.got = g]
  BY DEF AfterPoll
<1>6. \A x \in S : x \in R /\ x.s = o.s /\ x.id > o.at /\ x.id <= at /\ x.id \in Nat /\ x.id > o.from
  BY <1>1, <1>2, <1>4 DEF Polling
<1> HIDE DEF at, h, T
<1>7. /\ g \in Seq(T) /\ Len(o.got) \in Nat /\ Len(g) = Len(o.got) + Len(h)
      /\ (\A i \in 1..Len(g) : \/ (i \in 1..Len(o.got) /\ g[i] = o.got[i])
                               \/ (i - Len(o.got) \in 1..Len(h) /\ g[i] = h[i - Len(o.got)]))
      /\ (\A i \in 1..Len(o.got) : i \in 1..Len(g) /\ g[i] = o.got[i] /\ o.got[i] \in T)
      /\ (\A i \in 1..Len(h) : Len(o.got) + i \in 1..Len(g) /\ g[Len(o.got) + i] = h[i])
  <2> HIDE DEF S
  <2>1. o.got \in Seq(T) /\ h \in Seq(T)
    BY <1>1, <1>3 DEF T
  <2> HIDE DEF g
  <2> QED
    BY <2>1, GotFacts DEF g
<1> HIDE DEF g
<1>8. /\ o2 \in SubsOf(b, n) /\ o2.at = at /\ o2.got = g /\ o2.from = o.from /\ o2.s = o.s /\ o2.t = o.t /\ o2.k = "sub"
  BY <1>1, <1>4, <1>5, <1>7 DEF SubsOf, T
<1>9. \A i \in 1..Len(o.got) : o.got[i].id <= o.at /\ o.got[i].id \in Nat
  BY <1>2, <1>7 DEF Polling, T
<1>10. \A i \in 1..Len(h) : h[i].id > o.at /\ h[i].id <= at /\ h[i].id \in Nat /\ h[i].s = o.s /\ h[i].id > o.from
  BY <1>3, <1>6
<1>11. Rising(g)
  <2> SUFFICES ASSUME NEW i \in 1..Len(g), NEW j \in 1..Len(g), i < j PROVE g[i].id < g[j].id
    BY DEF Rising
  <2>1. CASE i \in 1..Len(o.got) /\ j \in 1..Len(o.got)
    BY <1>7, <2>1 DEF Polling, Rising
  <2>2. CASE i \in 1..Len(o.got) /\ j \notin 1..Len(o.got)
    <3>1. g[i].id <= o.at /\ g[i].id \in Nat /\ g[j].id > o.at /\ g[j].id \in Nat
      BY <1>7, <1>9, <1>10, <2>2
    <3> QED
      BY <1>1, <3>1
  <2>3. CASE i \notin 1..Len(o.got) /\ j \notin 1..Len(o.got)
    <3>1. i - Len(o.got) \in 1..Len(h) /\ j - Len(o.got) \in 1..Len(h) /\ i - Len(o.got) < j - Len(o.got)
      BY <1>7, <2>3
    <3> QED
      BY <1>3, <1>7, <2>3, <3>1
  <2>4. CASE i \notin 1..Len(o.got) /\ j \in 1..Len(o.got)
    BY <1>7, <2>4
  <2> QED
    BY <2>1, <2>2, <2>3, <2>4
<1>12. \A i \in 1..Len(g) : g[i].id <= at /\ g[i].s = o.s /\ g[i].id > o.from
  <2> SUFFICES ASSUME NEW i \in 1..Len(g) PROVE g[i].id <= at /\ g[i].s = o.s /\ g[i].id > o.from
    OBVIOUS
  <2>1. CASE i \in 1..Len(o.got) /\ g[i] = o.got[i]
    BY <1>1, <1>4, <1>9, <2>1 DEF Follows
  <2>2. CASE i - Len(o.got) \in 1..Len(h) /\ g[i] = h[i - Len(o.got)]
    BY <1>10, <2>2
  <2> QED
    BY <1>7, <2>1, <2>2
<1>13. ASSUME NEW x \in R, Sees(o.t, x), x.s = o.s, x.k = "msg", x.id > o.from, x.id <= at
       PROVE  \E i \in 1..Len(g) : g[i] = x
  <2>1. CASE x.id <= o.at
    <3>1. PICK i \in 1..Len(o.got) : o.got[i] = x
      BY <1>13, <2>1 DEF Polling
    <3> QED
      BY <1>7, <3>1
  <2>2. CASE x.id > o.at
    <3>1. x \in S
      BY <1>13, <2>2
    <3>2. PICK i \in 1..Len(h) : h[i].id = x.id
      BY <1>3, <3>1
    <3>3. h[i] = x
      BY <1>3, <1>6, <3>2
    <3> QED
      BY <1>7, <3>2, <3>3
  <2> QED
    BY <1>1, <1>2, <2>1, <2>2 DEF T
<1>14. Polling(R, q, o2)
  <2>1. Rising(o2.got) /\ o2.from <= o2.at /\ o2.at <= q /\ \A i \in 1..Len(o2.got) : o2.got[i].id <= o2.at
    <3>1. o.from <= o.at
      BY DEF Polling
    <3>2. o.from <= at
      BY <1>1, <1>4, <3>1
    <3> QED
      BY <1>4, <1>8, <1>11, <1>12, <3>2
  <2> QED
    BY <1>8, <1>13, <2>1 DEF Polling
<1>15. Follows(o2)
  BY <1>8, <1>12 DEF Follows
<1> QED
  BY <1>8, <1>14, <1>15

\* What a subscription or a replay has come to after a step of its own, and that it knows
\* of no id it was not told of.
LEMMA ReaderReads ==
    ASSUME Typed, Numbered, Distinct, Reading, NEW r \in Readers, ReaderStep(r)
    PROVE  \E o : /\ Go(r, o) /\ ReadingAt(backend, used.stores, rows, seq, o)
                  /\ ~ Sqlite /\ o.k = "sub" => Known(o) \subseteq Over \/ (op[r].k = "sub" /\ Known(o) \subseteq Known(op[r]))
<1>1. ReadingAt(backend, used.stores, rows, seq, op[r])
  BY DEF Reading
<1>2. op[r].k \in ReplayKinds => DOMAIN op[r] = ReplayFields
  BY <1>1 DEF ReadingAt, ReplayKinds, Idle, SubsOf
<1>3. /\ backend \in Backends /\ used.stores \in Nat /\ seq \in Nat /\ rows \in SUBSET Made(backend, used.stores)
      /\ Bound[backend].stores \in Nat
  BY BoundFacts DEF Typed, Tables
<1>4. \A x \in Made(backend, used.stores) : x.id \in 1..Bound[backend].stores
  BY MadeFacts DEF Typed
<1>5. Sqlite => (\A x \in rows : x.id <= seq) /\ (\A x, y \in rows : x.id = y.id => x = y)
  BY DEF Numbered, Distinct, OneStep, Sqlite
<1>6. \A o : o = Idle \/ Replaying(o) => ReadingAt(backend, used.stores, rows, seq, o) /\ o.k # "sub"
  BY DEF ReadingAt, Replaying, ReplayKinds, Idle
<1>7. CASE \/ Answered(r) \/ Link(r) \/ SqRead(r) \/ RdChunk(r) \/ RdIds(r) \/ RdPayloads(r) \/ RdPrune(r) \/ PgPage(r)
           \/ \E s \in Streams, t \in Tenants, last \in Nat : Resolve(r, last, s, t)
  <2>1. PICK o : Go(r, o) /\ (o = Idle \/ Replaying(o))
    BY <1>2, <1>7, ReplayGoes
  <2> QED
    BY <1>6, <2>1
<1>8. CASE Unsubscribe(r)
  BY <1>6, <1>8 DEF Unsubscribe
<1>9. ASSUME NEW s \in Streams, NEW t \in Tenants, NEW f \in Nat, IF Sqlite THEN f <= seq ELSE f = 0, Go(r, Subscribed(s, t, f))
      PROVE  /\ Go(r, Subscribed(s, t, f)) /\ ReadingAt(backend, used.stores, rows, seq, Subscribed(s, t, f))
             /\ Known(Subscribed(s, t, f)) = Over
  <2>1. Over \subseteq Nat /\ \A i \in Over : i <= seq
    BY <1>3 DEF Over
  <2> QED
    BY <1>3, <1>9, <2>1, SubscribedFacts DEF Sqlite
<1>10. ASSUME NEW s \in Streams, NEW t \in Tenants, SqSubscribe(r, s, t)
       PROVE  \E f \in Nat : f <= seq /\ Sqlite /\ Go(r, Subscribed(s, t, f))
  <2> DEFINE S == {x \in Own(t) : x.s = s}
  <2>1. Sqlite /\ Go(r, Subscribed(s, t, NewestOf(S)))
    BY <1>10 DEF SqSubscribe
  <2>2. \A x \in S : x.id \in 1..Bound[backend].stores /\ x.id <= seq
    BY <1>3, <1>4, <1>5, <2>1 DEF Own
  <2> HIDE DEF S
  <2>3. /\ NewestOf(S) \in Nat /\ (S # {} => \E x \in S : NewestOf(S) = x.id) /\ (S = {} => NewestOf(S) = 0)
    BY <1>3, <2>2, NewestFacts DEF NewestOf
  <2>4. NewestOf(S) <= seq
    BY <1>3, <2>2, <2>3
  <2> QED
    BY <2>1, <2>3, <2>4
<1>11. CASE \/ \E s \in Streams : RdSubscribe(r, s)
            \/ \E s \in Streams, t \in Tenants : SqSubscribe(r, s, t) \/ PgListen(r, s, t)
  <2>1. \E s \in Streams, t \in Tenants, f \in Nat : (IF Sqlite THEN f <= seq ELSE f = 0) /\ Go(r, Subscribed(s, t, f))
    <3>1. ASSUME NEW s \in Streams, RdSubscribe(r, s) PROVE NoTenant \in Tenants /\ ~ Sqlite /\ Go(r, Subscribed(s, NoTenant, 0))
      BY <3>1, TableAssumption DEF RdSubscribe, Redis, Sqlite
    <3>2. ASSUME NEW s \in Streams, NEW t \in Tenants, PgListen(r, s, t) PROVE ~ Sqlite /\ Go(r, Subscribed(s, t, 0))
      BY <3>2 DEF PgListen, Postgres, Sqlite
    <3> QED
      BY <1>10, <1>11, <3>1, <3>2
  <2> QED
    BY <1>9, <2>1
<1>12. CASE SqPoll(r)
  <2> DEFINE new == {x \in Own(op[r].t) : x.s = op[r].s /\ x.id > op[r].at}
             o == AfterPoll(op[r], new)
  <2>1. Sqlite /\ op[r].k = "sub" /\ new # {} /\ Go(r, o)
    BY <1>12 DEF SqPoll, AfterPoll
  <2>2. new \in SUBSET rows /\ \A x \in rows : x \in new <=> Sees(op[r].t, x) /\ x.s = op[r].s /\ x.id > op[r].at
    BY DEF Own
  <2>3. op[r] \in SubsOf(backend, used.stores) /\ Follows(op[r]) /\ Polling(rows, seq, op[r])
    BY <1>1, <2>1, SubFacts
  <2> HIDE DEF new
  <2>4. (\A x \in rows : x.id <= seq) /\ (\A x, y \in rows : x.id = y.id => x = y)
    BY <1>5, <2>1
  <2>5. o \in SubsOf(backend, used.stores) /\ Polling(rows, seq, o) /\ Follows(o)
    BY <1>3, <2>1, <2>2, <2>3, <2>4, PollFacts
  <2> QED
    BY <2>1, <2>5 DEF ReadingAt, Sqlite
<1>13. CASE RdDeliver(r) \/ PgDeliver(r)
  <2>1. PICK found \in SUBSET rows : Deliver(r, found) /\ ~ Sqlite
    BY <1>13 DEF RdDeliver, PgDeliver, Own, Redis, Postgres, Sqlite
  <2> DEFINE hit == {x \in found : x.id = Head(op[r].inbox) /\ x.s = op[r].s /\ x.k = "msg"}
             o == AfterDeliver(op[r], hit)
  <2>2. op[r].k = "sub" /\ op[r].inbox # <<>> /\ Go(r, o)
    BY <2>1 DEF Deliver, AfterDeliver
  <2>3. op[r] \in SubsOf(backend, used.stores) /\ Follows(op[r]) /\ Told(seq, op[r])
    BY <1>1, <2>1, <2>2, SubFacts
  <2>4. hit \in SUBSET Made(backend, used.stores) /\ \A x \in hit : x.id = Head(op[r].inbox) /\ x.s = op[r].s
    BY <1>3
  <2> HIDE DEF hit
  <2>5. o \in SubsOf(backend, used.stores) /\ Told(seq, o) /\ Follows(o) /\ Known(o) \subseteq Known(op[r])
    BY <1>3, <2>2, <2>3, <2>4, DeliverFacts
  <2> QED
    BY <2>1, <2>2, <2>5 DEF ReadingAt, Sqlite
<1> QED
  BY <1>7, <1>8, <1>11, <1>12, <1>13 DEF ReaderStep

LEMMA ReaderKeepsReading ==
    ASSUME Typed, Numbered, Distinct, Reading, Flights, NEW r \in Readers, ReaderStep(r)
    PROVE  Reading' /\ Flights'
<1>1. PICK o : /\ Go(r, o) /\ ReadingAt(backend, used.stores, rows, seq, o)
               /\ ~ Sqlite /\ o.k = "sub" => Known(o) \subseteq Over \/ (op[r].k = "sub" /\ Known(o) \subseteq Known(op[r]))
  BY ReaderReads
<1>2. UNCHANGED <<backend, rows, seq>> /\ used'.stores = used.stores
  <2>1. UNCHANGED <<backend, rows, seq>> /\ (used' = used \/ Bump("reads"))
    BY ReaderStepKeeps
  <2> QED
    BY <2>1, BumpFacts DEF Typed
<1>3. r \in Procs /\ r \notin Writers /\ DOMAIN op = Procs /\ \A q \in Writers \cup Readers : q \in Procs
  BY TableAssumption DEF Procs, Typed, Coroutines
<1>4. op'[r] = o /\ \A q \in Procs \ {r} : op'[q] = op[q]
  BY <1>1, <1>3 DEF Go
<1>5. (\A q \in Writers : op'[q] = op[q]) /\ \A q \in Readers \ {r} : op'[q] = op[q]
  BY <1>3, <1>4
<1>6. Reading'
  BY <1>1, <1>2, <1>4, <1>5 DEF Reading
<1>7. ASSUME ~ Sqlite, NEW q \in Readers, op'[q].k = "sub"
      PROVE  Known(op'[q]) \subseteq Over \/ (op[q].k = "sub" /\ Known(op'[q]) \subseteq Known(op[q]))
  BY <1>1, <1>4, <1>5, <1>7
<1>8. \A p \in Writers : Writes(p) => op[p].row.id \notin Over
  <2> SUFFICES ASSUME NEW p \in Writers, Writes(p) PROVE op[p].row.id \notin Over
    OBVIOUS
  <2>1. op[p] \in [k : RowStages(backend), row : Made(backend, used.stores)]
    BY WriterFacts DEF Writes
  <2>2. "row" \in DOMAIN op[p]
    BY <2>1
  <2> QED
    BY <2>2 DEF Over
<1>9. Flights'
  BY <1>2, <1>5, <1>7, <1>8 DEF Flights, Writes, Sqlite
<1> QED
  BY <1>6, <1>9

\* One more row with the next id, or rows less.
Adds == \/ rows' \subseteq rows /\ seq' = seq
        \/ \E x : x.id = seq + 1 /\ rows' = rows \cup {x} /\ seq' = seq + 1

\* SQLite: whatever happens to the rows, no subscriber moves, or the connection is new and
\* nobody subscribes.
LEMMA SqWriteReading ==
    ASSUME Typed, Reading, Sqlite, SqWrite
    PROVE  \/ /\ Adds /\ \A r \in Readers : op'[r] = op[r]
              /\ used'.stores \in Nat /\ used.stores <= used'.stores
           \/ op' = [p \in Procs |-> Idle]
<1>1. used.stores \in Nat /\ Tables /\ DOMAIN op = Procs
  BY DEF Typed, Tables, Coroutines
<1>2. \A c \in {"stores", "forks", "faults", "reads"} : Bump(c) => used'.stores \in Nat /\ used.stores <= used'.stores
  BY <1>1, BumpFacts
<1>3. \A o : \A p \in Writers \cup Services : Go(p, o) => \A r \in Readers : op'[r] = op[r]
  <2>1. \A r \in Readers : r \in Procs /\ r \notin Writers \cup Services
    BY TableAssumption DEF Procs
  <2> QED
    BY <1>1, <2>1 DEF Go
<1>4. "flusher" \in Services /\ "closer" \in Services
  BY DEF Services
<1>5. ASSUME NEW p \in Writers, NEW s \in Streams, NEW k \in Kinds, SqStore(p, s, k)
      PROVE  Adds /\ Bump("stores") /\ \A r \in Readers : op'[r] = op[r]
  <2>1. NewRow(s, TenantOf[p], k).id = seq + 1
    BY DEF NewRow
  <2> QED
    BY <1>3, <1>5, <2>1 DEF SqStore, Adds
<1>6. ASSUME NEW p \in Writers, NEW s \in Streams, NEW k \in Kinds, SqInsert(p, s, k)
      PROVE  Adds /\ Bump("stores") /\ \A r \in Readers : op'[r] = op[r]
  <2>1. PICK a, c : op' = [op EXCEPT ![p] = a, !["flusher"] = c]
    BY <1>6 DEF SqInsert
  <2>2. \A r \in Readers : r \in Procs /\ r # p /\ r # "flusher"
    BY <1>4, TableAssumption DEF Procs
  <2> QED
    <3>1. NewRow(s, TenantOf[p], k).id = seq + 1
      BY DEF NewRow
    <3>2. Adds /\ Bump("stores")
      BY <1>6, <3>1 DEF SqInsert, Adds
    <3> QED
      BY <1>1, <2>1, <2>2, <3>2
<1>7. ASSUME NEW p \in Writers, SqStored(p) \/ SqCommitFails(p) \/ SqDone(p) \/ SqCount(p) \/ SqCancel(p) \/ SqPurgeBatch(p)
      PROVE  Adds /\ (used' = used \/ Bump("faults")) /\ \E o : Go(p, o)
  BY <1>7 DEF SqStored, SqCommitFails, SqDone, SqCount, SqCancel, SqPurgeBatch, Ack, Adds
<1>8. ASSUME NEW p \in Writers \cup Services, SqFlush(p) \/ SqCommitted(p) \/ SqFlushed(p) \/ SqFlushFails(p)
      PROVE  Adds /\ (used' = used \/ Bump("faults")) /\ \E o : Go(p, o)
  BY <1>8 DEF SqFlush, SqCommitted, SqFlushed, SqFlushFails, Flushed, Ack, Adds
<1>9. CASE Wakes
  BY <1>1, <1>3, <1>4, <1>9 DEF Wakes, Adds
<1>10. CASE SqClose
  <2>1. PICK a, c : op' = [op EXCEPT !["flusher"] = a, !["closer"] = c]
    BY <1>10 DEF SqClose
  <2>2. \A r \in Readers : r \in Procs /\ r # "closer" /\ r # "flusher"
    BY <1>4, TableAssumption DEF Procs
  <2> QED
    <3>1. Adds /\ Bump("faults")
      BY <1>10 DEF SqClose, Adds
    <3> QED
      BY <1>1, <1>2, <2>1, <2>2, <3>1
<1>11. CASE SqClosed \/ SqCrash
  BY <1>11 DEF SqClosed, SqCrash, Reopen
<1>12. ASSUME NEW p \in Writers, NEW s, NEW parent, NEW at, SqFork(p, s, parent, at)
       PROVE  Adds /\ Bump("forks") /\ \E o : Go(p, o)
  BY <1>12 DEF SqFork, Adds
<1>13. ASSUME NEW p \in Writers, NEW t \in Tenants, NEW bound \in BOOLEAN, SqPurge(p, t, bound)
       PROVE  Adds /\ used' = used /\ \E o : Go(p, o)
  BY <1>13 DEF SqPurge, Adds
<1> QED
  BY <1>1, <1>2, <1>3, <1>5, <1>6, <1>7, <1>8, <1>9, <1>10, <1>11, <1>12, <1>13 DEF SqWrite

\* Between two readings of SQLite only ids are added that are beyond every cursor.
LEMMA SqReading ==
    ASSUME Typed, Reading, Sqlite, backend' = backend, SqWrite \/ NetStep
    PROVE  Reading'
<1>1. seq \in Nat /\ used.stores \in Nat /\ backend \in Backends
  BY DEF Typed, Tables
<1>3. CASE op' = [p \in Procs |-> Idle]
  BY <1>3, FlightsIdle
<1>4. CASE /\ \A r \in Readers : op'[r] = op[r]
           /\ used'.stores \in Nat /\ used.stores <= used'.stores
           /\ Adds
  <2>2. seq' \in Nat /\ seq <= seq' /\ \A x \in rows' : x \in rows \/ (x.id > seq /\ x.id \in Nat)
    BY <1>1, <1>4 DEF Adds
  <2>1. ASSUME NEW r \in Readers PROVE ReadingAt(backend, used'.stores, rows', seq', op[r])
    <3>1. ReadingAt(backend, used.stores, rows, seq, op[r])
      BY DEF Reading
    <3> QED
      BY <1>1, <1>4, <2>2, <3>1, ReadingGrows
  <2> QED
    BY <1>1, <1>4, <2>1 DEF Reading
<1>5. CASE NetStep
  <2>1. Ages \/ \E p \in Writers, s, parent \in Streams : \E at \in 1..seq : RdFork(p, s, parent, at) \/ PgFork(p, s, parent, at)
    <3>1. \A p \in Writers : op[p].k # "publish"
      BY StageFacts DEF Sqlite
    <3> QED
      BY <1>5, <3>1 DEF NetStep, Restart, Publish, Unpublished, Sqlite
  <2>2. Adds /\ op' = op /\ (Bump("faults") \/ Bump("forks"))
    BY <2>1 DEF Ages, RdFork, PgFork, Adds
  <2>3. used'.stores \in Nat /\ used.stores <= used'.stores
    BY <1>1, <2>2, BumpFacts DEF Typed
  <2> QED
    BY <1>4, <2>2, <2>3
<1> QED
  BY <1>3, <1>4, <1>5, SqWriteReading

LEMMA ReadingStep ==
    ASSUME Typed, Numbered, Distinct, Reading, Flights, [Next]_vars
    PROVE  Reading' /\ Flights'
<1>1. backend' = backend
  BY SameStore
<1>2. CASE UNCHANGED vars
  BY <1>2 DEF vars, common, Reading, Flights, Writes, Sqlite
<1>3. ASSUME NEW r \in Readers, ReaderStep(r) PROVE Reading' /\ Flights'
  BY <1>3, ReaderKeepsReading
<1>4. CASE Sqlite
  <2>1. Flights'
    BY <1>1, <1>4 DEF Flights, Sqlite
  <2>2. ~ RdWrite /\ ~ PgWrite
    <3>1. \A p \in Writers : op[p].k \notin {"hset", "zadd", "trim", "insert"}
      BY <1>4, StageFacts DEF Sqlite
    <3>2. ~ Redis /\ ~ Postgres
      BY <1>4 DEF Sqlite, Redis, Postgres
    <3>3. backend # "script" /\ backend # "pipe"
      BY <1>4 DEF Sqlite
    <3>4. ~ RdWrite
      BY <3>1, <3>2, <3>3 DEF RdWrite, RdStore, RdIncr, RdHset, RdZadd, RdTrim, RdBroken, RdExpires, RdKeyExpires
    <3>5. ~ PgWrite
      BY <3>1, <3>2 DEF PgWrite, PgInsert, PgCommits, PgFails, PgPurge, PgPurgeBatch
    <3> QED
      BY <3>4, <3>5
  <2>3. SqWrite \/ NetStep => Reading'
    BY <1>1, <1>4, SqReading
  <2> QED
    BY <1>2, <1>3, <2>1, <2>2, <2>3, Steps
<1>5. CASE ~ Sqlite
  BY <1>2, <1>3, <1>5, OnlySqlite, RdWriteFlights, PgWriteFlights, NetFlights, Steps
<1> QED
  BY <1>4, <1>5

LEMMA ReadingAlways == Spec => [](Distinct /\ Reading /\ Flights)
<1>1. Init => Distinct /\ Reading /\ Flights
  <2> SUFFICES ASSUME Init PROVE Distinct /\ Reading /\ Flights
    OBVIOUS
  <2>1. \A p \in Writers \cup Readers : op[p] = Idle
    BY DEF Init, Procs
  <2>2. \A p \in Writers : ~ Writes(p)
    BY <2>1 DEF Writes, Rowed, Idle
  <2> QED
    BY <2>1, <2>2 DEF Init, Distinct, Reading, ReadingAt, Flights
<1> QED
  BY <1>1, ReadingStep, DistinctStep, NumberedAlways, TypedAlways, PTL DEF Spec

\* A subscriber gets each event of its stream at most once: told of each write by a networked
\* store, which it looks up later, none whose store_event was over when it attached; polling
\* SQLite, none up to the newest there was, the others in order, all up to its cursor.
THEOREM NothingTwiceNothingSkipped == Spec => []SubscriberSound
<1>1. Typed /\ Reading => SubscriberSound
  <2> SUFFICES ASSUME Typed, Reading, NEW r \in Readers, op[r].k = "sub"
               PROVE  LET g == op[r].got
                      IN  /\ \A i, j \in DOMAIN g : i # j => g[i].id # g[j].id
                          /\ \A i \in DOMAIN g : g[i].s = op[r].s
                          /\ ~ Sqlite => \A i \in DOMAIN g : g[i].id \notin op[r].before
                          /\ Sqlite => /\ \A i \in DOMAIN g : g[i].id > op[r].from
                                       /\ \A i, j \in DOMAIN g : i < j => g[i].id < g[j].id
                                       /\ \A x \in Own(op[r].t) :
                                            (x.s = op[r].s /\ x.k = "msg" /\ x.id > op[r].from /\ x.id <= op[r].at)
                                               => \E i \in DOMAIN g : g[i] = x
    BY DEF SubscriberSound
  <2> DEFINE g == op[r].got
  <2>1. /\ op[r] \in SubsOf(backend, used.stores) /\ Follows(op[r])
        /\ Sqlite => Polling(rows, seq, op[r])
        /\ ~ Sqlite => Told(seq, op[r])
    BY SubFacts DEF Reading
  <2>2. g \in Seq(Made(backend, used.stores))
    BY <2>1 DEF SubsOf
  <2>3. DOMAIN g = 1..Len(g) /\ Len(g) \in Nat /\ \A i \in 1..Len(g) : g[i].id \in Nat
    BY <2>2, MadeFacts DEF Typed
  <2>4. \A i \in DOMAIN g : g[i].s = op[r].s /\ g[i].id > op[r].from
    BY <2>1, <2>3 DEF Follows
  <2>5. Sqlite => /\ \A i, j \in DOMAIN g : i < j => g[i].id < g[j].id
                  /\ \A x \in Own(op[r].t) :
                       (x.s = op[r].s /\ x.k = "msg" /\ x.id > op[r].from /\ x.id <= op[r].at)
                          => \E i \in DOMAIN g : g[i] = x
    BY <2>1, <2>3 DEF Polling, Rising, Own
  <2>6. \A i, j \in DOMAIN g : i # j => g[i].id # g[j].id
    <3>1. CASE Sqlite
      <4> SUFFICES ASSUME NEW i \in 1..Len(g), NEW j \in 1..Len(g), i # j PROVE g[i].id # g[j].id
        BY <2>3
      <4>1. i < j \/ j < i
        BY <2>3
      <4>2. g[i].id < g[j].id \/ g[j].id < g[i].id
        BY <2>3, <2>5, <3>1, <4>1
      <4>3. g[i].id \in Nat /\ g[j].id \in Nat
        BY <2>3
      <4> HIDE DEF g
      <4> QED
        BY <4>2, <4>3
    <3>2. CASE ~ Sqlite
      BY <2>1, <2>3, <3>2 DEF Told, Once
    <3> QED
      BY <3>1, <3>2
  <2>7. ~ Sqlite => \A i \in DOMAIN g : g[i].id \notin op[r].before
    BY <2>1, <2>3 DEF Told, GotIds
  <2> QED
    BY <2>4, <2>5, <2>6, <2>7
<1> QED
  BY <1>1, ReadingAlways, TypedAlways, PTL DEF Spec

-----------------------------------------------------------------------------
(* Replay.  What it has to return it has returned, or that is gone, or in  *)
(* a part of the chain of forks that it has not read yet.                  *)

\* Every fork of a fork is at an event of its parent's own, or at its parent's fork point.
Nested(f) == \A x \in DOMAIN f : Forked(f, x) /\ Forked(f, f[x].p) => f[f[x].p].at <= f[x].at

SegmentsOf == [s : Streams, min : Nat, max : Nat]
InSeg(g, e) == e.s = g.s /\ e.id > g.min /\ e.id <= g.max
InSome(segs, e) == \E j \in 1..Len(segs) : InSeg(segs[j], e)
Chained(segs) ==
    \A i \in 1..Len(segs) : /\ segs[i].min <= segs[i].max
                            /\ \A j \in 1..Len(segs) : i < j => segs[i].max <= segs[j].min
Within(f, s, e) == s \in Heirs(f, e)[Depth(f)]

Shaped(b, o) ==
    /\ DOMAIN o = ReplayFields
    /\ o.s \in Streams /\ o.t \in Tenants /\ o.last \in Nat /\ o.cur \in Streams /\ o.max \in Nat
    /\ o.seen \subseteq Streams /\ o.segs \in Seq(SegmentsOf) /\ o.at \in Nat /\ o.out \in Seq(RowsOf(b))
    /\ o.fk \in [Streams -> LinksOf(b)]
    /\ b \in {"script", "pipe"} => o.t = NoTenant
    /\ o.k = "link" => o.out = <<>> /\ o.cut = {} /\ o.at = 0 /\ Cardinality(o.seen) = Len(o.segs)
    /\ o.k # "link" => (o.segs # <<>> <=> o.k \in {"read", "payloads"})

\* The fork table a replay began with, and whether it is that one still.
Held(f, n, o) == o.at0 \in Nat /\ o.at0 <= n /\ (n = o.at0 => \A s \in Streams : f[s] \in {o.fk[s], Root})
Live(f, n, o) == n = o.at0 /\ f = o.fk /\ Acyclic(o.fk)

\* What a replay has to return it has returned, or it is gone, or in a part that is not read yet.
OutOf(o) == {o.out[i].id : i \in 1..Len(o.out)}
Asked(o, e) == Sees(o.t, e) /\ e.k = "msg" /\ e.id > o.last
Ahead(o, e) ==
    IF o.k = "link" THEN Within(o.fk, o.s, e)
    ELSE \E j \in 1..Len(o.segs) : /\ InSeg(o.segs[j], e)
                                   /\ j = 1 => e.id > o.at /\ (o.k = "payloads" => e.id \in o.ids)
Owed(rem, K, o) ==
    \A i \in o.must : i \in rem \cup o.cut \cup OutOf(o) \/ \E e \in K : e.id = i /\ Asked(o, e) /\ Ahead(o, e)

\* The walk has the segments below the stream it is at; the events of the history that are
\* in none of them are in the history of that stream.
Left(o, e) == o.cur \in Heirs(o.fk, e)[Depth(o.fk) - Len(o.segs)] /\ e.id <= o.max
Walked(b, o) ==
    o.k = "link" =>
       /\ \A x \in o.seen : Forked(o.fk, x) /\ o.fk[x].p \in o.seen \cup {o.cur}
       /\ \/ o.seen = {} /\ o.max = Bound[b].stores + 1
          \/ \E c \in o.seen : o.fk[c].p = o.cur /\ o.fk[c].at = o.max
       /\ \A e \in RowsOf(b) : Within(o.fk, o.s, e) => InSome(o.segs, e) \/ Left(o, e)

\* The segments hold the history and nothing else, each after the one before; so does
\* what was read of them.
Exact(b, o) ==
    /\ \A e \in RowsOf(b) : InSome(o.segs, e) \/ (o.k = "link" /\ Left(o, e)) => Within(o.fk, o.s, e)
    /\ Chained(o.segs)
    /\ o.k = "link" => \A j \in 1..Len(o.segs) : o.segs[j].min >= o.max
    /\ Rising(o.out)
    /\ \A i \in 1..Len(o.out) : Within(o.fk, o.s, o.out[i])
    /\ o.k # "link" /\ o.segs # <<>> =>
          /\ o.at <= o.segs[1].max
          /\ \A i \in 1..Len(o.out) : o.out[i].id <= o.segs[1].min \/ o.out[i].id <= o.at

Ours(o) == \A i \in 1..Len(o.out) : o.out[i].id > o.last /\ Sees(o.t, o.out[i])
\* The ids a pipelined read is about to look up.
Fetching(b, X, q, o) ==
    o.k = "payloads" =>
       /\ b = "pipe"
       /\ \A i \in o.ids : i \in Nat /\ i <= q /\ i > Low(o) /\ i <= Seg(o).max
       /\ \A x \in X : x.id \in o.ids => x.s = Seg(o).s

ReplayAt(b, f, n, rem, K, X, q, o) ==
    o.k \in ReplayKinds =>
       /\ Shaped(b, o) /\ Held(f, n, o) /\ Ours(o) /\ Fetching(b, X, q, o)
       /\ Live(f, n, o) => /\ Owed(rem, K, o) /\ Walked(b, o)
                           /\ Nested(o.fk) => Exact(b, o)

\* Where the rows are that there are or will be: the ids of a networked store are different
\* ones, and the members of its index are about rows with their ids.
Flying == rows \cup {op[p].row : p \in {q \in Writers : Writes(q)}}
Apart ==
    ~ Sqlite =>
        /\ \A x, y \in Flying : x.id = y.id => x = y
        /\ \A x \in Flying : x.id <= seq
        /\ \A e \in index : e.id <= seq /\ \A x \in Flying : x.id = e.id => x.s = e.s

Replays == \A r \in Readers : ReplayAt(backend, forks, used.forks, removed, acked \cap rows, Flying, seq, op[r])

\* The lower end of what a read asks for.
LEMMA LowFacts ==
    ASSUME NEW o, o.segs \in Seq(SegmentsOf), o.segs # <<>>, o.last \in Nat, o.at \in Nat
    PROVE  /\ Seg(o) = o.segs[1] /\ Seg(o) \in SegmentsOf /\ Seg(o).min \in Nat /\ Seg(o).max \in Nat
           /\ Len(o.segs) \in Nat /\ 1 \in 1..Len(o.segs)
           /\ Low(o) \in Nat /\ Low(o) \in {Seg(o).min, o.last, o.at}
           /\ \A i \in Nat : i > Low(o) <=> i > Seg(o).min /\ i > o.last /\ i > o.at
<1>1. Seg(o) = o.segs[1] /\ o.segs[1] \in SegmentsOf /\ Len(o.segs) \in Nat /\ 1 \in 1..Len(o.segs)
  BY DEF Seg
<1>2. Seg(o).min \in Nat /\ Seg(o).max \in Nat
  BY <1>1 DEF SegmentsOf
<1> QED
  BY <1>1, <1>2 DEF Low

\* What is left of the segments.
LEMMA RestFacts ==
    ASSUME NEW segs \in Seq(SegmentsOf), segs # <<>>
    PROVE  /\ Tail(segs) \in Seq(SegmentsOf) /\ Len(segs) \in Nat /\ Len(Tail(segs)) = Len(segs) - 1
           /\ \A j \in 1..Len(Tail(segs)) : j + 1 \in 1..Len(segs) /\ Tail(segs)[j] = segs[j + 1]
           /\ \A j \in 2..Len(segs) : j - 1 \in 1..Len(Tail(segs)) /\ Tail(segs)[j - 1] = segs[j]
           /\ \A j \in 1..Len(segs) : segs[j] \in SegmentsOf /\ segs[j].min \in Nat /\ segs[j].max \in Nat
<1>1. Tail(segs) \in Seq(SegmentsOf) /\ Len(segs) \in Nat /\ Len(Tail(segs)) = Len(segs) - 1
  OBVIOUS
<1>2. \A j \in 1..Len(Tail(segs)) : j + 1 \in 1..Len(segs) /\ Tail(segs)[j] = segs[j + 1]
  BY <1>1
<1>3. \A j \in 2..Len(segs) : j - 1 \in 1..Len(Tail(segs)) /\ Tail(segs)[j - 1] = segs[j]
  <2> SUFFICES ASSUME NEW j \in 2..Len(segs) PROVE j - 1 \in 1..Len(Tail(segs)) /\ Tail(segs)[j - 1] = segs[j]
    OBVIOUS
  <2>1. j - 1 \in 1..Len(Tail(segs)) /\ (j - 1) + 1 = j
    BY <1>1
  <2> QED
    BY <1>2, <2>1
<1>4. \A j \in 1..Len(segs) : segs[j] \in SegmentsOf
  OBVIOUS
<1>5. \A j \in 1..Len(segs) : segs[j].min \in Nat /\ segs[j].max \in Nat
  BY <1>4 DEF SegmentsOf
<1> QED
  BY <1>1, <1>2, <1>3, <1>4, <1>5

Appended(o, R) == o.out \o Sorted({x \in R : x.k = "msg"})

\* An operation that emits keeps what it is about.
LEMMA EmitFields ==
    ASSUME NEW o, DOMAIN o = ReplayFields, NEW R, NEW at, NEW more \in BOOLEAN
    PROVE  LET q == Emit(o, R, at, more)
           IN  /\ DOMAIN q = ReplayFields
               /\ q.s = o.s /\ q.t = o.t /\ q.last = o.last /\ q.cur = o.cur /\ q.max = o.max /\ q.seen = o.seen
               /\ q.cut = o.cut /\ q.must = o.must /\ q.fk = o.fk /\ q.at0 = o.at0
               /\ q.out = Appended(o, R)
               /\ q.segs = IF more THEN o.segs ELSE Tail(o.segs)
               /\ q.at = IF more THEN at ELSE 0
               /\ q.k \in {"read", "prune", "done"} /\ (q.segs # <<>> <=> q.k = "read")
<1> DEFINE a == o.out \o Sorted({x \in R : x.k = "msg"})
           rest == IF more THEN o.segs ELSE Tail(o.segs)
           n == IF more THEN at ELSE 0
           j == IF rest # <<>> THEN "read" ELSE IF o.stale # {} THEN "prune" ELSE "done"
<1>1. Emit(o, R, at, more) = [o EXCEPT !.out = a, !.segs = rest, !.at = n, !.k = j]
  BY DEF Emit
<1>2. j \in {"read", "prune", "done"} /\ (rest # <<>> <=> j = "read")
  OBVIOUS
<1> HIDE DEF a, rest, n, j
<1>3. LET q == Emit(o, R, at, more)
      IN  /\ DOMAIN q = ReplayFields
          /\ q.s = o.s /\ q.t = o.t /\ q.last = o.last /\ q.cur = o.cur /\ q.max = o.max /\ q.seen = o.seen
          /\ q.cut = o.cut /\ q.must = o.must /\ q.fk = o.fk /\ q.at0 = o.at0
          /\ q.out = a /\ q.segs = rest /\ q.at = n /\ q.k = j
  BY <1>1 DEF ReplayFields
<1> QED
  BY <1>2, <1>3 DEF a, rest, n, Appended

\* What a replay has after an operation that emitted R: all of the segment, or all of it up to `at'.
LEMMA EmitHolds ==
    ASSUME NEW b \in Backends, NEW f, NEW n, NEW rem, NEW K \in SUBSET RowsOf(b), NEW X, NEW q, NEW o,
           o.k \in {"read", "payloads"}, ReplayAt(b, f, n, rem, K, X, q, o),
           NEW R \in SUBSET RowsOf(b), NEW at \in Nat, NEW more \in BOOLEAN,
           \A x \in R : InSeg(Seg(o), x) /\ x.id > Low(o) /\ Sees(o.t, x),
           \A e \in K : /\ e.id \notin rem \cup o.cut /\ Asked(o, e) /\ InSeg(Seg(o), e) /\ e.id > Low(o)
                        /\ o.k = "payloads" => e.id \in o.ids
                        => e \in R \/ (more /\ e.id > at),
           more => Low(o) <= at /\ at <= Seg(o).max /\ \A x \in R : x.id <= at
    PROVE  ReplayAt(b, f, n, rem, K, X, q, Emit(o, R, at, more))
<1> DEFINE z == Emit(o, R, at, more)
           M == {x \in R : x.k = "msg"}
           h == Sorted(M)
           N == Bound[b].stores
<1>1. Shaped(b, o) /\ Held(f, n, o) /\ Ours(o)
  BY DEF ReplayAt, ReplayKinds
<1>2. o.segs # <<>> /\ o.k # "link"
  BY <1>1 DEF Shaped
<1>3. /\ DOMAIN z = ReplayFields
      /\ z.s = o.s /\ z.t = o.t /\ z.last = o.last /\ z.cur = o.cur /\ z.max = o.max /\ z.seen = o.seen
      /\ z.cut = o.cut /\ z.must = o.must /\ z.fk = o.fk /\ z.at0 = o.at0
      /\ z.out = o.out \o h
      /\ z.segs = IF more THEN o.segs ELSE Tail(o.segs)
      /\ z.at = IF more THEN at ELSE 0
      /\ z.k \in {"read", "prune", "done"} /\ (z.segs # <<>> <=> z.k = "read")
  <2>1. DOMAIN o = ReplayFields
    BY <1>1 DEF Shaped
  <2>2. Appended(o, R) = o.out \o h
    BY DEF Appended
  <2> HIDE DEF h, M
  <2> QED
    BY <2>1, <2>2, EmitFields
<1> HIDE DEF z
<1>4. N \in Nat /\ (\A x \in RowsOf(b) : x.id \in 1..N /\ x.id \in Nat)
  BY BoundFacts DEF RowsOf
<1>5. /\ h \in Seq(RowsOf(b)) /\ Len(h) \in Nat /\ (\A i \in 1..Len(h) : h[i] \in M)
      /\ Rising(h) /\ (\A x \in M : \E i \in 1..Len(h) : h[i].id = x.id)
  <2>1. M \in SUBSET RowsOf(b) /\ \A x \in M : x.id \in 1..N
    BY <1>4
  <2> HIDE DEF M, N
  <2> QED
    BY <1>4, <2>1, SortedFacts DEF Rising
<1> HIDE DEF h
<1>6. /\ z.out \in Seq(RowsOf(b)) /\ Len(o.out) \in Nat /\ Len(z.out) = Len(o.out) + Len(h)
      /\ \A i \in 1..Len(o.out) : i \in 1..Len(z.out) /\ z.out[i] = o.out[i] /\ o.out[i] \in RowsOf(b)
      /\ \A i \in 1..Len(h) : Len(o.out) + i \in 1..Len(z.out) /\ z.out[Len(o.out) + i] = h[i] /\ h[i] \in R
      /\ \A i \in 1..Len(z.out) : \/ (i \in 1..Len(o.out) /\ z.out[i] = o.out[i])
                                 \/ (i - Len(o.out) \in 1..Len(h) /\ z.out[i] = h[i - Len(o.out)])
  BY <1>1, <1>3, <1>5, GotFacts DEF Shaped
<1>7. /\ Seg(o) = o.segs[1] /\ Seg(o) \in SegmentsOf /\ Seg(o).min \in Nat /\ Seg(o).max \in Nat
      /\ Len(o.segs) \in Nat /\ 1 \in 1..Len(o.segs)
      /\ Low(o) \in Nat /\ Low(o) \in {Seg(o).min, o.last, o.at}
      /\ \A i \in Nat : i > Low(o) <=> i > Seg(o).min /\ i > o.last /\ i > o.at
  BY <1>1, <1>2, LowFacts DEF Shaped
<1>8. /\ Tail(o.segs) \in Seq(SegmentsOf) /\ Len(Tail(o.segs)) = Len(o.segs) - 1
      /\ \A j \in 1..Len(Tail(o.segs)) : j + 1 \in 1..Len(o.segs) /\ Tail(o.segs)[j] = o.segs[j + 1]
      /\ \A j \in 2..Len(o.segs) : j - 1 \in 1..Len(Tail(o.segs)) /\ Tail(o.segs)[j - 1] = o.segs[j]
      /\ \A j \in 1..Len(o.segs) : o.segs[j] \in SegmentsOf /\ o.segs[j].min \in Nat /\ o.segs[j].max \in Nat
  BY <1>1, <1>2, RestFacts DEF Shaped
<1>9. Shaped(b, z)
  <2>1. z.segs \in Seq(SegmentsOf) /\ z.at \in Nat
    BY <1>1, <1>3, <1>8 DEF Shaped
  <2>2. z.k # "link" /\ (z.segs # <<>> <=> z.k \in {"read", "payloads"})
    BY <1>3
  <2> QED
    BY <1>1, <1>3, <1>6, <2>1, <2>2 DEF Shaped
<1>10. Held(f, n, z) /\ (Live(f, n, z) <=> Live(f, n, o))
  BY <1>1, <1>3 DEF Held, Live
<1>11. Ours(z)
  <2>1. \A i \in 1..Len(h) : h[i].id > o.last /\ Sees(o.t, h[i])
    BY <1>4, <1>6, <1>7
  <2> QED
    BY <1>1, <1>3, <1>6, <2>1 DEF Ours
<1>12. Fetching(b, X, q, z) /\ Walked(b, z)
  BY <1>3 DEF Fetching, Walked
<1>13. ASSUME Owed(rem, K, o) PROVE Owed(rem, K, z)
  <2> SUFFICES ASSUME NEW i \in o.must, i \notin rem \cup o.cut \cup OutOf(z)
               PROVE  \E e \in K : e.id = i /\ Asked(z, e) /\ Ahead(z, e)
    BY <1>3 DEF Owed
  <2>1. i \notin OutOf(o)
    BY <1>6 DEF OutOf
  <2>2. PICK e \in K : e.id = i /\ Asked(o, e) /\ Ahead(o, e)
    BY <1>13, <2>1 DEF Owed
  <2>3. PICK j \in 1..Len(o.segs) : InSeg(o.segs[j], e) /\ (j = 1 => e.id > o.at /\ (o.k = "payloads" => e.id \in o.ids))
    BY <1>2, <2>2 DEF Ahead
  <2>4. e.id \in 1..N /\ e.id \in Nat /\ e.k = "msg" /\ e.id > o.last
    BY <1>4, <2>2 DEF Asked
  <2>5. Asked(z, e)
    BY <1>3, <2>2 DEF Asked
  <2>6. e \notin R
    <3> SUFFICES ASSUME e \in R PROVE FALSE
      OBVIOUS
    <3>1. e \in M
      BY <2>4
    <3>2. PICK m \in 1..Len(h) : h[m].id = e.id
      BY <1>5, <3>1
    <3>3. e.id \in OutOf(z)
      BY <1>6, <3>2 DEF OutOf
    <3> QED
      BY <2>2, <3>3
  <2>7. CASE j = 1
    <3>1. InSeg(Seg(o), e) /\ e.id > Low(o) /\ (o.k = "payloads" => e.id \in o.ids)
      BY <1>7, <2>3, <2>4, <2>7 DEF InSeg
    <3>2. more /\ e.id > at
      BY <2>2, <2>6, <3>1
    <3>3. z.segs = o.segs /\ z.at = at /\ z.k = "read"
      BY <1>2, <1>3, <3>2
    <3>4. Ahead(z, e)
      BY <2>3, <3>2, <3>3 DEF Ahead
    <3> QED
      BY <2>2, <2>5, <3>4
  <2>8. CASE j # 1
    <3>1. CASE more
      <4>1. z.segs = o.segs /\ z.k = "read"
        BY <1>2, <1>3, <3>1
      <4>2. Ahead(z, e)
        BY <2>3, <2>8, <4>1 DEF Ahead
      <4> QED
        BY <2>2, <2>5, <4>2
    <3>2. CASE ~ more
      <4>1. z.segs = Tail(o.segs) /\ z.at = 0
        BY <1>3, <3>2
      <4>2. j - 1 \in 1..Len(z.segs) /\ z.segs[j - 1] = o.segs[j]
        <5>1. j \in 2..Len(o.segs)
          BY <1>7, <2>8
        <5> QED
          BY <1>8, <4>1, <5>1
      <4>3. z.k = "read"
        <5>1. Len(z.segs) \in Nat /\ Len(z.segs) # 0
          BY <1>7, <1>8, <4>1, <4>2
        <5>2. z.segs # <<>>
          BY <5>1
        <5> QED
          BY <1>3, <5>2
      <4>4. e.id > z.at /\ InSeg(z.segs[j - 1], e)
        BY <2>3, <2>4, <4>1, <4>2
      <4>5. Ahead(z, e)
        BY <4>2, <4>3, <4>4 DEF Ahead
      <4> QED
        BY <2>2, <2>5, <4>5
    <3> QED
      BY <3>1, <3>2
  <2> QED
    BY <2>7, <2>8
<1>14. ASSUME Exact(b, o) PROVE Exact(b, z)
  <2>1. /\ (\A e \in RowsOf(b) : InSome(o.segs, e) => Within(o.fk, o.s, e))
        /\ Chained(o.segs) /\ Rising(o.out)
        /\ (\A i \in 1..Len(o.out) : Within(o.fk, o.s, o.out[i]))
        /\ o.at <= o.segs[1].max
        /\ \A i \in 1..Len(o.out) : o.out[i].id <= o.segs[1].min \/ o.out[i].id <= o.at
    BY <1>2, <1>14 DEF Exact
  <2>2. o.at \in Nat /\ o.last \in Nat /\ (\A i \in 1..Len(o.out) : o.out[i].id \in Nat)
    BY <1>1, <1>4, <1>6 DEF Shaped
  <2>3. \A i \in 1..Len(h) : h[i].id \in Nat /\ h[i].id > Low(o) /\ h[i].id <= Seg(o).max /\ InSeg(o.segs[1], h[i]) /\ h[i] \in RowsOf(b)
    BY <1>4, <1>6, <1>7 DEF InSeg
  <2>4. \A i \in 1..Len(o.out) : o.out[i].id <= Low(o)
    <3>1. Seg(o).min <= Low(o) /\ o.at <= Low(o)
      BY <1>7, <2>2
    <3> QED
      BY <1>7, <2>1, <2>2, <3>1
  <2>5. Rising(z.out)
    <3> SUFFICES ASSUME NEW i \in 1..Len(z.out), NEW j \in 1..Len(z.out), i < j PROVE z.out[i].id < z.out[j].id
      BY DEF Rising
    <3>1. CASE i \in 1..Len(o.out) /\ j \in 1..Len(o.out)
      BY <1>6, <2>1, <3>1 DEF Rising
    <3>2. CASE i \in 1..Len(o.out) /\ j \notin 1..Len(o.out)
      <4>1. j - Len(o.out) \in 1..Len(h) /\ z.out[j] = h[j - Len(o.out)] /\ z.out[i] = o.out[i]
        BY <1>6, <3>2
      <4>2. o.out[i].id <= Low(o) /\ h[j - Len(o.out)].id > Low(o) /\ o.out[i].id \in Nat /\ h[j - Len(o.out)].id \in Nat
        BY <2>2, <2>3, <2>4, <3>2, <4>1
      <4> QED
        BY <1>7, <4>1, <4>2
    <3>3. CASE i \notin 1..Len(o.out)
      <4>1. j \notin 1..Len(o.out)
        BY <1>6, <3>3
      <4>2. /\ i - Len(o.out) \in 1..Len(h) /\ z.out[i] = h[i - Len(o.out)]
            /\ j - Len(o.out) \in 1..Len(h) /\ z.out[j] = h[j - Len(o.out)]
        BY <1>6, <3>3, <4>1
      <4>3. i - Len(o.out) < j - Len(o.out)
        BY <1>6
      <4> QED
        BY <1>5, <4>2, <4>3 DEF Rising
    <3> QED
      BY <3>1, <3>2, <3>3
  <2>6. \A i \in 1..Len(z.out) : Within(o.fk, o.s, z.out[i])
    <3>1. \A i \in 1..Len(h) : Within(o.fk, o.s, h[i])
      BY <1>7, <2>1, <2>3 DEF InSome
    <3> QED
      BY <1>6, <2>1, <3>1
  <2>7. CASE more
    <3>1. z.segs = o.segs /\ z.at = at /\ z.k # "link" /\ Low(o) <= at /\ at <= Seg(o).max
      BY <1>3, <2>7
    <3>2. \A i \in 1..Len(h) : h[i].id <= at
      BY <1>6, <2>7
    <3>3. \A i \in 1..Len(o.out) : o.out[i].id <= at
      BY <1>7, <2>2, <2>4, <3>1
    <3>4. \A i \in 1..Len(z.out) : z.out[i].id <= at
      BY <1>6, <3>2, <3>3
    <3> QED
      BY <1>3, <1>7, <2>1, <2>5, <2>6, <3>1, <3>4 DEF Exact
  <2>8. CASE ~ more
    <3>1. z.segs = Tail(o.segs) /\ z.at = 0 /\ z.k # "link"
      BY <1>3, <2>8
    <3>2. \A e : InSome(z.segs, e) => InSome(o.segs, e)
      BY <1>8, <3>1 DEF InSome
    <3>3. Chained(z.segs)
      <4>1. \A j \in 1..Len(z.segs) : j + 1 \in 1..Len(o.segs) /\ z.segs[j] = o.segs[j + 1]
        BY <1>8, <3>1
      <4> SUFFICES ASSUME NEW i \in 1..Len(z.segs)
                   PROVE  z.segs[i].min <= z.segs[i].max /\ \A j \in 1..Len(z.segs) : i < j => z.segs[i].max <= z.segs[j].min
        BY DEF Chained
      <4>2. z.segs[i].min <= z.segs[i].max
        BY <2>1, <4>1 DEF Chained
      <4>3. ASSUME NEW j \in 1..Len(z.segs), i < j PROVE z.segs[i].max <= z.segs[j].min
        <5>1. i + 1 < j + 1
          BY <4>3
        <5> QED
          BY <2>1, <4>1, <5>1 DEF Chained
      <4> QED
        BY <4>2, <4>3
    <3>4. ASSUME z.segs # <<>>
          PROVE  z.at <= z.segs[1].max /\ \A i \in 1..Len(z.out) : z.out[i].id <= z.segs[1].min
      <4>1. 2 \in 1..Len(o.segs) /\ z.segs[1] = o.segs[2]
        <5>1. Len(z.segs) # 0 /\ Len(z.segs) \in Nat
          BY <1>8, <1>9, <3>4 DEF Shaped
        <5>2. 1 \in 1..Len(z.segs) /\ 1 + 1 = 2
          BY <5>1
        <5>3. 1 + 1 \in 1..Len(o.segs) /\ z.segs[1] = o.segs[1 + 1]
          BY <1>8, <3>1, <5>2
        <5> QED
          BY <5>2, <5>3
      <4>2. Seg(o).max <= z.segs[1].min /\ z.segs[1].min \in Nat /\ z.segs[1].max \in Nat /\ Seg(o).min <= Seg(o).max
        BY <1>7, <1>8, <2>1, <4>1 DEF Chained
      <4>3. \A i \in 1..Len(o.out) : o.out[i].id <= z.segs[1].min
        <5> SUFFICES ASSUME NEW i \in 1..Len(o.out) PROVE o.out[i].id <= z.segs[1].min
          OBVIOUS
        <5>1. o.out[i].id \in Nat /\ (o.out[i].id <= Seg(o).min \/ o.out[i].id <= o.at) /\ o.at <= Seg(o).max /\ o.at \in Nat
          BY <1>7, <2>1, <2>2
        <5> QED
          BY <1>7, <4>2, <5>1
      <4>4. \A i \in 1..Len(h) : h[i].id <= z.segs[1].min
        BY <1>7, <2>3, <4>2
      <4>5. z.at <= z.segs[1].max
        <5>1. z.at = 0
          BY <3>1
        <5> QED
          BY <4>2, <5>1
      <4> QED
        BY <1>6, <4>3, <4>4, <4>5
    <3> QED
      BY <1>3, <2>1, <2>5, <2>6, <3>1, <3>2, <3>3, <3>4 DEF Exact
  <2> QED
    BY <2>7, <2>8
<1>15. ASSUME Live(f, n, z) PROVE Owed(rem, K, z) /\ Walked(b, z) /\ (Nested(z.fk) => Exact(b, z))
  <2>1. Owed(rem, K, o) /\ (Nested(o.fk) => Exact(b, o))
    BY <1>10, <1>15 DEF ReplayAt, ReplayKinds
  <2> QED
    BY <1>3, <1>12, <1>13, <1>14, <2>1
<1> QED
  BY <1>9, <1>10, <1>11, <1>12, <1>15 DEF ReplayAt, z

\* ... when nothing of the segment is left.
ReadAll(o, R) == Emit(o, R, 0, FALSE)
LEMMA EmitsAll ==
    ASSUME NEW b \in Backends, NEW f, NEW n, NEW rem, NEW K \in SUBSET RowsOf(b), NEW X, NEW q, NEW o,
           o.k \in {"read", "payloads"}, ReplayAt(b, f, n, rem, K, X, q, o), NEW R \in SUBSET RowsOf(b),
           \A x \in R : InSeg(Seg(o), x) /\ x.id > Low(o) /\ Sees(o.t, x),
           \A e \in K : /\ e.id \notin rem \cup o.cut /\ Asked(o, e) /\ InSeg(Seg(o), e) /\ e.id > Low(o)
                        /\ o.k = "payloads" => e.id \in o.ids
                        => e \in R
    PROVE  ReplayAt(b, f, n, rem, K, X, q, ReadAll(o, R))
<1> DEFINE more == FALSE
           at == 0
<1>1. at \in Nat /\ more \in BOOLEAN /\ (more => Low(o) <= at /\ at <= Seg(o).max /\ \A x \in R : x.id <= at)
  OBVIOUS
<1> HIDE DEF more, at
<1>2. ReplayAt(b, f, n, rem, K, X, q, Emit(o, R, at, more))
  BY <1>1, EmitHolds
<1> QED
  BY <1>2 DEF more, at, ReadAll

\* What a replay is about to prune is no part of what it has to return.
Marked(o, g) == [o EXCEPT !.stale = @ \cup g]
LEMMA StaleHolds ==
    ASSUME NEW b, NEW f, NEW n, NEW rem, NEW K, NEW X, NEW q, NEW o, o.k \in ReplayKinds, ReplayAt(b, f, n, rem, K, X, q, o), NEW g
    PROVE  LET z == Marked(o, g)
           IN  /\ z.k = o.k /\ ReplayAt(b, f, n, rem, K, X, q, z)
               /\ z.t = o.t /\ z.last = o.last /\ z.at = o.at /\ z.ids = o.ids /\ z.cut = o.cut
               /\ Seg(z) = Seg(o) /\ Low(z) = Low(o)
<1> DEFINE z == Marked(o, g)
<1>1. Shaped(b, o) /\ DOMAIN o = ReplayFields
  BY DEF ReplayAt, Shaped
<1>2. /\ DOMAIN z = ReplayFields
      /\ z.k = o.k /\ z.s = o.s /\ z.t = o.t /\ z.last = o.last /\ z.cur = o.cur /\ z.max = o.max /\ z.seen = o.seen
      /\ z.segs = o.segs /\ z.cut = o.cut /\ z.at = o.at /\ z.ids = o.ids /\ z.out = o.out /\ z.must = o.must
      /\ z.fk = o.fk /\ z.at0 = o.at0
  BY <1>1 DEF ReplayFields, Marked
<1> HIDE DEF z
<1>3. Seg(z) = Seg(o) /\ Low(z) = Low(o)
  BY <1>2 DEF Seg, Low
<1>4. Shaped(b, z)
  BY <1>1, <1>2 DEF Shaped
<1>5. (Held(f, n, z) <=> Held(f, n, o)) /\ (Live(f, n, z) <=> Live(f, n, o)) /\ (Ours(z) <=> Ours(o))
  BY <1>2 DEF Held, Live, Ours
<1>6. Fetching(b, X, q, z) <=> Fetching(b, X, q, o)
  BY <1>2, <1>3 DEF Fetching
<1>7. \A e : (Left(z, e) <=> Left(o, e)) /\ (Ahead(z, e) <=> Ahead(o, e)) /\ (Asked(z, e) <=> Asked(o, e))
  BY <1>2 DEF Left, Ahead, Asked
<1>8. (Walked(b, z) <=> Walked(b, o)) /\ (Exact(b, z) <=> Exact(b, o))
  BY <1>2, <1>7 DEF Walked, Exact
<1>9. Owed(rem, K, z) <=> Owed(rem, K, o)
  <2>1. OutOf(z) = OutOf(o)
    BY <1>2 DEF OutOf
  <2> QED
    BY <1>2, <1>7, <2>1 DEF Owed
<1>10. ReplayAt(b, f, n, rem, K, X, q, z)
  BY <1>2, <1>4, <1>5, <1>6, <1>8, <1>9 DEF ReplayAt
<1> QED
  BY <1>2, <1>3, <1>10 DEF z

HoldsNow(o) == ReplayAt(backend, forks, used.forks, removed, acked \cap rows, Flying, seq, o)

\* Where a replay stands that is reading.
LEMMA ReadFacts ==
    ASSUME Typed, NEW o, o.k \in {"read", "payloads"}, HoldsNow(o)
    PROVE  /\ Shaped(backend, o) /\ DOMAIN o = ReplayFields /\ o.segs # <<>>
           /\ acked \cap rows \in SUBSET RowsOf(backend) /\ rows \in SUBSET RowsOf(backend) /\ backend \in Backends
           /\ Bound[backend].stores \in Nat /\ (\A x \in rows : x.id \in 1..Bound[backend].stores /\ x.id \in Nat)
           /\ Seg(o) = o.segs[1] /\ Seg(o) \in SegmentsOf /\ Seg(o).min \in Nat /\ Seg(o).max \in Nat
           /\ Low(o) \in Nat /\ \A i \in Nat : i > Low(o) <=> i > Seg(o).min /\ i > o.last /\ i > o.at
<1>1. Shaped(backend, o)
  BY DEF HoldsNow, ReplayAt, ReplayKinds
<1>2. DOMAIN o = ReplayFields /\ o.segs # <<>> /\ o.segs \in Seq(SegmentsOf) /\ o.last \in Nat /\ o.at \in Nat
  BY <1>1 DEF Shaped
<1>3. rows \subseteq Made(backend, used.stores) /\ backend \in Backends
  BY DEF Typed, Tables
<1>4. rows \in SUBSET RowsOf(backend)
  BY <1>3 DEF Made
<1>5. Bound[backend].stores \in Nat /\ \A x \in rows : x.id \in 1..Bound[backend].stores
  BY <1>3, <1>4, BoundFacts DEF RowsOf
<1> QED
  BY <1>1, <1>2, <1>3, <1>4, <1>5, LowFacts

\* SQLite reads a segment with one query.
LEMMA SqReadHolds ==
    ASSUME Typed, NEW r, SqRead(r), HoldsNow(op[r])
    PROVE  \E o : Go(r, o) /\ HoldsNow(o)
<1> DEFINE o == op[r]
           R == {x \in InSegment(o, Own(o.t)) : x.id \notin o.cut}
<1>1. o.k = "read" /\ Go(r, ReadAll(o, R))
  BY DEF SqRead, ReadAll
<1>2. \A x : x \in R <=> /\ x \in rows /\ Sees(o.t, x) /\ x.s = Seg(o).s /\ x.id > Low(o) /\ x.id <= Seg(o).max
                         /\ x.id \notin o.cut
  BY DEF InSegment, Own
<1> HIDE DEF o, R
<1>3. /\ acked \cap rows \in SUBSET RowsOf(backend) /\ rows \in SUBSET RowsOf(backend) /\ backend \in Backends
      /\ (\A x \in rows : x.id \in Nat)
      /\ Low(o) \in Nat /\ \A i \in Nat : i > Low(o) <=> i > Seg(o).min /\ i > o.last /\ i > o.at
  BY <1>1, ReadFacts DEF o
<1>4. R \in SUBSET RowsOf(backend) /\ \A x \in R : InSeg(Seg(o), x) /\ x.id > Low(o) /\ Sees(o.t, x)
  BY <1>2, <1>3 DEF InSeg
<1>5. ASSUME NEW e \in acked \cap rows, e.id \notin removed \cup o.cut, Asked(o, e), InSeg(Seg(o), e), e.id > Low(o)
      PROVE  e \in R
  BY <1>2, <1>5 DEF Asked, InSeg
<1>6. HoldsNow(ReadAll(o, R))
  <2> DEFINE K == acked \cap rows
  <2>1. /\ o.k \in {"read", "payloads"} /\ K \in SUBSET RowsOf(backend)
        /\ ReplayAt(backend, forks, used.forks, removed, K, Flying, seq, o)
    BY <1>1, <1>3 DEF HoldsNow, o
  <2>2. \A e \in K : /\ e.id \notin removed \cup o.cut /\ Asked(o, e) /\ InSeg(Seg(o), e) /\ e.id > Low(o)
                     /\ o.k = "payloads" => e.id \in o.ids
                     => e \in R
    BY <1>5
  <2> HIDE DEF K
  <2>3. ReplayAt(backend, forks, used.forks, removed, K, Flying, seq, ReadAll(o, R))
    BY <1>3, <1>4, <2>1, <2>2, EmitsAll
  <2> QED
    BY <2>3 DEF HoldsNow, K
<1> QED
  BY <1>1, <1>6

\* Rows of a networked store are told apart by their ids.
LEMMA RowsApart ==
    ASSUME Apart, ~ Sqlite
    PROVE  /\ \A x, y \in rows : x.id = y.id => x = y
           /\ \A x \in rows, e \in index : x.id = e.id => x.s = e.s
BY DEF Apart, Flying

\* Postgres reads a page.
LEMMA PgPageHolds ==
    ASSUME Typed, Apart, NEW r, PgPage(r), HoldsNow(op[r])
    PROVE  \E o : Go(r, o) /\ HoldsNow(o)
<1> DEFINE o == op[r]
           S == {x \in InSegment(o, Own(o.t)) : x.id \notin o.cut}
           R == SmallestOf(S, Batch)
           end == IF R = {} THEN 0 ELSE (CHOOSE x \in R : \A y \in R : y.id <= x.id).id
           more == Cardinality(R) = Batch /\ end < Seg(o).max
<1>1. o.k = "read" /\ Go(r, Emit(o, R, end, more)) /\ ~ Sqlite
  BY DEF PgPage, Postgres, Sqlite
<1>2. \A x : x \in S <=> /\ x \in rows /\ Sees(o.t, x) /\ x.s = Seg(o).s /\ x.id > Low(o) /\ x.id <= Seg(o).max
                         /\ x.id \notin o.cut
  BY DEF InSegment, Own
<1> HIDE DEF o, S
<1>3. /\ acked \cap rows \in SUBSET RowsOf(backend) /\ rows \in SUBSET RowsOf(backend) /\ backend \in Backends
      /\ Bound[backend].stores \in Nat /\ (\A x \in rows : x.id \in 1..Bound[backend].stores /\ x.id \in Nat)
      /\ Seg(o).max \in Nat
      /\ Low(o) \in Nat /\ \A i \in Nat : i > Low(o) <=> i > Seg(o).min /\ i > o.last /\ i > o.at
  BY <1>1, ReadFacts DEF o
<1>4. Batch \in Nat \ {0}
  BY TableAssumption
<1>5. /\ R \subseteq S
      /\ \A e \in S \ R : \A x \in R : x.id < e.id
      /\ S \ R # {} => Cardinality(R) = Batch
  <2>1. (\A x \in S : x.id \in 1..Bound[backend].stores) /\ \A x, y \in S : x.id = y.id => x = y
    BY <1>1, <1>2, <1>3, RowsApart
  <2> HIDE DEF S
  <2> QED
    BY <1>3, <1>4, <2>1, SmallestOfFacts
<1> HIDE DEF R
<1>6. R # {} => (\E x \in R : end = x.id) /\ \A y \in R : y.id <= end
  <2> SUFFICES ASSUME R # {} PROVE (\E x \in R : end = x.id) /\ \A y \in R : y.id <= end
    OBVIOUS
  <2>1. {x.id : x \in R} \in SUBSET (0..Bound[backend].stores) /\ {x.id : x \in R} # {}
    BY <1>2, <1>3, <1>5
  <2>2. PICK m \in {x.id : x \in R} : \A i \in {x.id : x \in R} : i <= m
    BY <1>3, <2>1, LargestNumber
  <2>3. \E x \in R : \A y \in R : y.id <= x.id
    BY <2>2
  <2> DEFINE c == CHOOSE x \in R : \A y \in R : y.id <= x.id
  <2>4. c \in R /\ \A y \in R : y.id <= c.id
    BY <2>3
  <2>5. end = c.id
    OBVIOUS
  <2> HIDE DEF c, end
  <2> QED
    BY <2>4, <2>5
<1>7. R = {} => Cardinality(R) = 0 /\ end = 0
  BY FS_EmptySet
<1> HIDE DEF end
<1>8. R \in SUBSET RowsOf(backend) /\ \A x \in R : InSeg(Seg(o), x) /\ x.id > Low(o) /\ Sees(o.t, x)
  BY <1>2, <1>3, <1>5 DEF InSeg
<1>9. end \in Nat /\ more \in BOOLEAN
  <2>1. \A x \in R : x.id \in Nat
    BY <1>2, <1>3, <1>5
  <2>2. end \in Nat
    BY <1>6, <1>7, <2>1
  <2> QED
    BY <2>2
<1>10. ASSUME NEW e \in acked \cap rows, e.id \notin removed \cup o.cut, Asked(o, e), InSeg(Seg(o), e), e.id > Low(o)
       PROVE  e \in R \/ (more /\ e.id > end)
  <2>1. e \in S
    BY <1>2, <1>10 DEF Asked, InSeg
  <2> SUFFICES ASSUME e \notin R PROVE more /\ e.id > end
    OBVIOUS
  <2>2. Cardinality(R) = Batch /\ \A x \in R : x.id < e.id
    BY <1>5, <2>1
  <2>3. R # {}
    BY <1>4, <1>7, <2>2
  <2>4. end < e.id /\ e.id <= Seg(o).max /\ e.id \in Nat
    BY <1>3, <1>6, <1>10, <2>2, <2>3 DEF InSeg
  <2> QED
    BY <1>3, <1>9, <2>2, <2>4
<1>11. more => Low(o) <= end /\ end <= Seg(o).max /\ \A x \in R : x.id <= end
  <2> SUFFICES ASSUME more PROVE Low(o) <= end /\ end <= Seg(o).max /\ \A x \in R : x.id <= end
    OBVIOUS
  <2>1. R # {}
    BY <1>4, <1>7
  <2>2. PICK x \in R : end = x.id
    BY <1>6, <2>1
  <2>3. Low(o) <= end
    BY <1>3, <1>8, <1>9, <2>2
  <2>4. end <= Seg(o).max
    BY <1>3, <1>9
  <2> QED
    BY <1>6, <2>1, <2>3, <2>4
<1> HIDE DEF more
<1>12. HoldsNow(Emit(o, R, end, more))
  BY <1>1, <1>3, <1>8, <1>9, <1>10, <1>11, EmitHolds DEF HoldsNow, o
<1> QED
  BY <1>1, <1>12

\* What an index entry says of a row, and an event of its row's entry.
LEMMA EntryFacts ==
    ASSUME Typed, Apart, Indexed, Redis, NEW o, o.k \in {"read", "payloads"}, HoldsNow(o)
    PROVE  /\ ~ Sqlite /\ backend \in {"script", "pipe"} /\ \A x : Sees(o.t, x)
           /\ \A e \in index : e.id \in 1..Bound[backend].stores /\ e.id \in Nat
           /\ \A c, e \in index : c.s = e.s /\ c.id = e.id => c = e
           /\ \A x \in rows, e \in index : x.id = e.id => x.s = e.s
           /\ \A x \in acked : x.id \notin removed => Entry(x) \in index
           /\ \A x : Entry(x).s = x.s /\ Entry(x).id = x.id
<1>1. ~ Sqlite /\ backend \in {"script", "pipe"}
  BY DEF Redis, Sqlite
<1>2. Shaped(backend, o)
  BY ReadFacts
<1>3. \A x : Sees(o.t, x)
  BY <1>1, <1>2 DEF Shaped, Sees
<1>4. index \subseteq [s : Streams, id : 1..Bound[backend].stores] /\ Bound[backend].stores \in Nat
  BY BoundFacts DEF Typed, Tables
<1>5. \A e \in index : e.id \in 1..Bound[backend].stores /\ e.id \in Nat
  BY <1>4
<1>6. \A c, e \in index : c.s = e.s /\ c.id = e.id => c = e
  BY <1>4
<1>7. \A x \in acked : x.id \notin removed => Entry(x) \in index
  BY DEF Indexed, ListedIn
<1> QED
  BY <1>1, <1>3, <1>5, <1>6, <1>7, RowsApart DEF Entry

\* The replay script of Redis returns a chunk.
LEMMA RdChunkHolds ==
    ASSUME Typed, Apart, Indexed, NEW r, RdChunk(r), HoldsNow(op[r])
    PROVE  \E o : Go(r, o) /\ HoldsNow(o)
<1> DEFINE o == op[r]
           S == InSegment(o, index)
           C == SmallestOf(S, Batch)
           I == {e.id : e \in C}
           z == Marked(o, Gone(Seg(o).s, I))
           end == IF I = {} THEN 0 ELSE CHOOSE i \in I : \A j \in I : j <= i
           more == Cardinality(C) = Batch
           R == Found(I)
<1>1. o.k = "read" /\ Go(r, Emit(z, R, end, more)) /\ Redis /\ HoldsNow(o)
  BY DEF RdChunk, Redis, Marked
<1>2. \A x : x \in S <=> x \in index /\ x.s = Seg(o).s /\ x.id > Low(o) /\ x.id <= Seg(o).max
  BY DEF InSegment
<1>3. /\ z.k = o.k /\ HoldsNow(z)
      /\ z.t = o.t /\ z.last = o.last /\ z.at = o.at /\ z.ids = o.ids /\ z.cut = o.cut
      /\ Seg(z) = Seg(o) /\ Low(z) = Low(o)
  BY <1>1, StaleHolds DEF HoldsNow, ReplayKinds
<1>4. \A x : x \in R <=> x \in rows /\ x.id \in I
  BY DEF Found
<1> HIDE DEF o, S, z, R
<1>5. /\ acked \cap rows \in SUBSET RowsOf(backend) /\ rows \in SUBSET RowsOf(backend) /\ backend \in Backends
      /\ Bound[backend].stores \in Nat /\ (\A x \in rows : x.id \in 1..Bound[backend].stores /\ x.id \in Nat)
      /\ Seg(o).max \in Nat
      /\ Low(o) \in Nat /\ \A i \in Nat : i > Low(o) <=> i > Seg(o).min /\ i > o.last /\ i > o.at
  BY <1>1, ReadFacts
<1>6. /\ ~ Sqlite /\ backend \in {"script", "pipe"} /\ (\A x : Sees(o.t, x))
      /\ \A e \in index : e.id \in 1..Bound[backend].stores /\ e.id \in Nat
      /\ \A c, e \in index : c.s = e.s /\ c.id = e.id => c = e
      /\ \A x \in rows, e \in index : x.id = e.id => x.s = e.s
      /\ \A x \in acked : x.id \notin removed => Entry(x) \in index
      /\ \A x : Entry(x).s = x.s /\ Entry(x).id = x.id
  BY <1>1, EntryFacts
<1>7. Batch \in Nat \ {0}
  BY TableAssumption
<1>8. /\ C \subseteq S
      /\ \A e \in S \ C : \A x \in C : x.id < e.id
      /\ S \ C # {} => Cardinality(C) = Batch
  <2>1. (\A x \in S : x.id \in 1..Bound[backend].stores) /\ \A x, y \in S : x.id = y.id => x = y
    BY <1>2, <1>6
  <2> QED
    BY <1>5, <1>7, <2>1, SmallestOfFacts
<1>9. C = {} => Cardinality(C) = 0
  BY FS_EmptySet
<1> HIDE DEF C
<1>10. I \in SUBSET (0..Bound[backend].stores) /\ \A i \in I : i \in Nat
  BY <1>2, <1>5, <1>6, <1>8
<1>11. end \in Nat /\ (\A i \in I : i <= end) /\ (I # {} => end \in I)
  <2>1. CASE I = {}
    BY <2>1
  <2>2. CASE I # {}
    <3>1. \E i \in I : \A j \in I : j <= i
      BY <1>5, <1>10, <2>2, LargestNumber
    <3> HIDE DEF I
    <3> DEFINE m == CHOOSE i \in I : \A j \in I : j <= i
    <3>2. m \in I /\ \A j \in I : j <= m
      BY <3>1
    <3>3. end = m
      BY <2>2
    <3> HIDE DEF end, m
    <3> QED
      BY <1>10, <3>2, <3>3
  <2> QED
    BY <2>1, <2>2
<1> HIDE DEF end
<1>12. \A i \in I : \E e \in C : e.id = i
  OBVIOUS
<1>13. \A x \in R : InSeg(Seg(o), x) /\ x.id > Low(o) /\ Sees(o.t, x)
  <2> SUFFICES ASSUME NEW x \in R PROVE InSeg(Seg(o), x) /\ x.id > Low(o) /\ Sees(o.t, x)
    OBVIOUS
  <2>1. PICK e \in C : e.id = x.id
    BY <1>4, <1>12
  <2>2. e \in index /\ e.s = Seg(o).s /\ e.id > Low(o) /\ e.id <= Seg(o).max /\ x \in rows
    BY <1>2, <1>4, <1>8, <2>1
  <2> QED
    BY <1>5, <1>6, <2>1, <2>2 DEF InSeg
<1>14. ASSUME NEW e \in acked \cap rows, e.id \notin removed \cup o.cut, Asked(o, e), InSeg(Seg(o), e), e.id > Low(o)
       PROVE  e \in R \/ (more /\ e.id > end)
  <2>1. Entry(e) \in S
    BY <1>2, <1>6, <1>14 DEF InSeg
  <2>2. CASE Entry(e) \in C
    BY <1>4, <1>6, <2>2
  <2>3. CASE Entry(e) \notin C
    <3>1. Cardinality(C) = Batch /\ \A x \in C : x.id < e.id
      BY <1>6, <1>8, <2>1, <2>3
    <3>2. C # {} /\ I # {}
      BY <1>7, <1>9, <3>1
    <3>3. end \in I
      BY <1>11, <3>2
    <3>4. end < e.id
      BY <1>12, <3>1, <3>3
    <3> HIDE DEF I
    <3> QED
      BY <1>5, <1>11, <3>1, <3>4
  <2> QED
    BY <2>2, <2>3
<1>15. more => Low(o) <= end /\ end <= Seg(o).max /\ \A x \in R : x.id <= end
  <2> SUFFICES ASSUME more PROVE Low(o) <= end /\ end <= Seg(o).max /\ \A x \in R : x.id <= end
    OBVIOUS
  <2>1. C # {} /\ I # {}
    BY <1>7, <1>9
  <2>2. PICK e \in C : e.id = end
    BY <1>11, <1>12, <2>1
  <2>3. end > Low(o) /\ end <= Seg(o).max
    BY <1>2, <1>8, <2>2
  <2>4. \A x \in R : x.id <= end
    BY <1>4, <1>11
  <2> QED
    BY <1>5, <1>11, <2>3, <2>4
<1>16. more \in BOOLEAN /\ R \in SUBSET RowsOf(backend)
  BY <1>4, <1>5
<1> HIDE DEF more
<1>17. HoldsNow(Emit(z, R, end, more))
  <2> DEFINE K == acked \cap rows
  <2>1. z.k \in {"read", "payloads"} /\ K \in SUBSET RowsOf(backend) /\ ReplayAt(backend, forks, used.forks, removed, K, Flying, seq, z)
    BY <1>1, <1>3, <1>5 DEF HoldsNow
  <2>2. \A x \in R : InSeg(Seg(z), x) /\ x.id > Low(z) /\ Sees(z.t, x)
    BY <1>3, <1>13
  <2>3. \A e \in K : /\ e.id \notin removed \cup z.cut /\ Asked(z, e) /\ InSeg(Seg(z), e) /\ e.id > Low(z)
                     /\ z.k = "payloads" => e.id \in z.ids
                     => e \in R \/ (more /\ e.id > end)
    BY <1>3, <1>14 DEF Asked
  <2>4. more => Low(z) <= end /\ end <= Seg(z).max /\ \A x \in R : x.id <= end
    BY <1>3, <1>15
  <2> HIDE DEF K
  <2>5. ReplayAt(backend, forks, used.forks, removed, K, Flying, seq, Emit(z, R, end, more))
    BY <1>5, <1>11, <1>16, <2>1, <2>2, <2>3, <2>4, EmitHolds
  <2> QED
    BY <2>5 DEF HoldsNow, K
<1> QED
  BY <1>1, <1>17

\* The pipelined read of Redis: the ids of a segment, if there are any.
LEMMA RdIdsHolds ==
    ASSUME Typed, Apart, Indexed, NEW r, RdIds(r), HoldsNow(op[r])
    PROVE  \E o : Go(r, o) /\ HoldsNow(o)
<1> DEFINE o == op[r]
           I == {e.id : e \in InSegment(o, index)}
           c == [o EXCEPT !.k = "payloads", !.ids = I]
<1>1. o.k = "read" /\ backend = "pipe" /\ Redis /\ HoldsNow(o) /\ Go(r, IF I = {} THEN ReadAll(o, {}) ELSE c)
  BY DEF RdIds, ReadAll, Redis
<1>2. \A i : i \in I <=> \E e \in index : e.id = i /\ e.s = Seg(o).s /\ i > Low(o) /\ i <= Seg(o).max
  BY DEF InSegment
<1> HIDE DEF o, I
<1>3. /\ Shaped(backend, o) /\ DOMAIN o = ReplayFields /\ o.segs # <<>>
      /\ acked \cap rows \in SUBSET RowsOf(backend) /\ rows \in SUBSET RowsOf(backend) /\ backend \in Backends
      /\ (\A x \in rows : x.id \in Nat) /\ Seg(o) = o.segs[1]
      /\ Low(o) \in Nat /\ \A i \in Nat : i > Low(o) <=> i > Seg(o).min /\ i > o.last /\ i > o.at
  BY <1>1, ReadFacts
<1>4. /\ (\A e \in index : e.id \in Nat)
      /\ \A x \in acked : x.id \notin removed => Entry(x) \in index
      /\ \A x : Entry(x).s = x.s /\ Entry(x).id = x.id
  BY <1>1, EntryFacts
<1>5. ASSUME NEW e \in acked \cap rows, e.id \notin removed \cup o.cut, Asked(o, e), InSeg(Seg(o), e), e.id > Low(o)
      PROVE  e.id \in I
  BY <1>2, <1>4, <1>5 DEF InSeg
<1>6. CASE I = {}
  <2> DEFINE K == acked \cap rows
             R == {}
  <2>1. /\ o.k \in {"read", "payloads"} /\ K \in SUBSET RowsOf(backend) /\ R \in SUBSET RowsOf(backend)
        /\ ReplayAt(backend, forks, used.forks, removed, K, Flying, seq, o)
    BY <1>1, <1>3 DEF HoldsNow
  <2>2. \A e \in K : /\ e.id \notin removed \cup o.cut /\ Asked(o, e) /\ InSeg(Seg(o), e) /\ e.id > Low(o)
                     /\ o.k = "payloads" => e.id \in o.ids
                     => e \in R
    BY <1>5, <1>6
  <2>3. \A x \in R : InSeg(Seg(o), x) /\ x.id > Low(o) /\ Sees(o.t, x)
    OBVIOUS
  <2> HIDE DEF K, R
  <2>4. ReplayAt(backend, forks, used.forks, removed, K, Flying, seq, ReadAll(o, R))
    BY <1>3, <2>1, <2>2, <2>3, EmitsAll
  <2> QED
    BY <1>1, <1>6, <2>4 DEF HoldsNow, K, R
<1>7. CASE I # {}
  <2>1. /\ DOMAIN c = ReplayFields
        /\ c.k = "payloads" /\ c.s = o.s /\ c.t = o.t /\ c.last = o.last /\ c.cur = o.cur /\ c.max = o.max /\ c.seen = o.seen
        /\ c.segs = o.segs /\ c.cut = o.cut /\ c.at = o.at /\ c.ids = I /\ c.out = o.out /\ c.must = o.must
        /\ c.fk = o.fk /\ c.at0 = o.at0
    BY <1>3 DEF ReplayFields
  <2> HIDE DEF c
  <2>2. Seg(c) = Seg(o) /\ Low(c) = Low(o)
    BY <2>1 DEF Seg, Low
  <2>3. Shaped(backend, c)
    BY <1>3, <2>1 DEF Shaped
  <2>4. Held(forks, used.forks, o) /\ Ours(o)
    BY <1>1 DEF HoldsNow, ReplayAt, ReplayKinds
  <2>5. Held(forks, used.forks, c) /\ Ours(c) /\ (Live(forks, used.forks, c) <=> Live(forks, used.forks, o))
    BY <2>1, <2>4 DEF Held, Ours, Live
  <2>6. Fetching(backend, Flying, seq, c)
    <3>1. \A i \in I : i \in Nat /\ i <= seq /\ i > Low(c) /\ i <= Seg(c).max
      BY <1>1, <1>2, <1>4, <2>2 DEF Apart, Sqlite
    <3>2. \A x \in Flying : x.id \in I => x.s = Seg(c).s
      BY <1>1, <1>2, <2>2 DEF Apart, Sqlite
    <3> QED
      BY <1>1, <2>1, <3>1, <3>2 DEF Fetching
  <2>7. ASSUME Live(forks, used.forks, c) PROVE Owed(removed, acked \cap rows, c)
    <3>1. Owed(removed, acked \cap rows, o)
      BY <1>1, <2>5, <2>7 DEF HoldsNow, ReplayAt, ReplayKinds
    <3>2. OutOf(c) = OutOf(o)
      BY <2>1 DEF OutOf
    <3>3. ASSUME NEW e \in acked \cap rows, e.id \notin removed \cup o.cut, Asked(o, e), Ahead(o, e) PROVE Ahead(c, e)
      <4>1. PICK j \in 1..Len(o.segs) : InSeg(o.segs[j], e) /\ (j = 1 => e.id > o.at)
        BY <1>1, <3>3 DEF Ahead
      <4>2. j = 1 => e.id \in I
        <5> SUFFICES ASSUME j = 1 PROVE e.id \in I
          OBVIOUS
        <5>1. InSeg(Seg(o), e) /\ e.id > o.at /\ e.id > o.last
          BY <1>3, <3>3, <4>1 DEF Asked
        <5>2. e.id > Low(o)
          BY <1>3, <5>1 DEF InSeg
        <5> QED
          BY <1>5, <3>3, <5>1, <5>2
      <4> QED
        BY <2>1, <4>1, <4>2 DEF Ahead
    <3> QED
      BY <2>1, <3>1, <3>2, <3>3 DEF Owed, Asked
  <2>8. Walked(backend, c)
    BY <2>1 DEF Walked
  <2>9. ASSUME Live(forks, used.forks, c), Nested(c.fk) PROVE Exact(backend, c)
    <3>1. Exact(backend, o)
      BY <1>1, <2>1, <2>5, <2>9 DEF HoldsNow, ReplayAt, ReplayKinds
    <3> QED
      BY <1>1, <2>1, <3>1 DEF Exact
  <2>10. HoldsNow(c)
    BY <2>3, <2>5, <2>6, <2>7, <2>8, <2>9 DEF HoldsNow, ReplayAt
  <2> QED
    BY <1>1, <1>7, <2>10
<1> QED
  BY <1>6, <1>7

\* ... and the payloads of these ids.
LEMMA RdPayloadsHolds ==
    ASSUME Typed, Apart, Indexed, NEW r, RdPayloads(r), HoldsNow(op[r])
    PROVE  \E o : Go(r, o) /\ HoldsNow(o)
<1> DEFINE o == op[r]
           z == Marked(o, Gone(Seg(o).s, o.ids))
           R == Found(o.ids)
           K == acked \cap rows
<1>1. o.k = "payloads" /\ HoldsNow(o) /\ Go(r, ReadAll(z, R))
  BY DEF RdPayloads, ReadAll, Marked
<1>2. \A x : x \in R <=> x \in rows /\ x.id \in o.ids
  BY DEF Found
<1>3. /\ z.k = o.k /\ HoldsNow(z)
      /\ z.t = o.t /\ z.last = o.last /\ z.at = o.at /\ z.ids = o.ids /\ z.cut = o.cut
      /\ Seg(z) = Seg(o) /\ Low(z) = Low(o)
  BY <1>1, StaleHolds DEF HoldsNow, ReplayKinds
<1> HIDE DEF o, R, z, K
<1>4. /\ acked \cap rows \in SUBSET RowsOf(backend) /\ rows \in SUBSET RowsOf(backend) /\ backend \in Backends
      /\ (\A x \in rows : x.id \in Nat)
      /\ Low(o) \in Nat /\ \A i \in Nat : i > Low(o) <=> i > Seg(o).min /\ i > o.last /\ i > o.at
  BY <1>1, ReadFacts
<1>5. /\ backend = "pipe"
      /\ \A i \in o.ids : i > Low(o) /\ i <= Seg(o).max
      /\ \A x \in Flying : x.id \in o.ids => x.s = Seg(o).s
  BY <1>1 DEF HoldsNow, ReplayAt, ReplayKinds, Fetching
<1>6. \A x : Sees(o.t, x)
  BY <1>1, <1>5, EntryFacts DEF Redis
<1>7. \A x \in R : InSeg(Seg(z), x) /\ x.id > Low(z) /\ Sees(z.t, x)
  <2> SUFFICES ASSUME NEW x \in R PROVE InSeg(Seg(o), x) /\ x.id > Low(o)
    BY <1>3, <1>6
  <2>1. x \in Flying /\ x.id \in Nat /\ x.id > Low(o) /\ x.id <= Seg(o).max /\ x.s = Seg(o).s
    BY <1>2, <1>4, <1>5 DEF Flying
  <2> QED
    BY <1>4, <2>1 DEF InSeg
<1>8. \A e \in K : /\ e.id \notin removed \cup z.cut /\ Asked(z, e) /\ InSeg(Seg(z), e) /\ e.id > Low(z)
                   /\ z.k = "payloads" => e.id \in z.ids
                   => e \in R
  BY <1>1, <1>2, <1>3 DEF K
<1>9. /\ z.k \in {"read", "payloads"} /\ K \in SUBSET RowsOf(backend) /\ R \in SUBSET RowsOf(backend)
      /\ ReplayAt(backend, forks, used.forks, removed, K, Flying, seq, z)
  BY <1>1, <1>2, <1>3, <1>4 DEF HoldsNow, K
<1>10. ReplayAt(backend, forks, used.forks, removed, K, Flying, seq, ReadAll(z, R))
  BY <1>4, <1>7, <1>8, <1>9, EmitsAll
<1> QED
  BY <1>1, <1>10 DEF HoldsNow, K

\* The end of a replay.
LEMMA RdPruneHolds ==
    ASSUME NEW r, RdPrune(r), HoldsNow(op[r])
    PROVE  \E o : Go(r, o) /\ HoldsNow(o)
<1> DEFINE o == op[r]
           c == [o EXCEPT !.k = "done"]
<1>1. o.k = "prune" /\ HoldsNow(o) /\ Go(r, c)
  BY DEF RdPrune
<1> HIDE DEF o
<1>2. Shaped(backend, o) /\ DOMAIN o = ReplayFields
  BY <1>1 DEF HoldsNow, ReplayAt, ReplayKinds, Shaped
<1>3. /\ DOMAIN c = ReplayFields
      /\ c.k = "done" /\ c.s = o.s /\ c.t = o.t /\ c.last = o.last /\ c.cur = o.cur /\ c.max = o.max /\ c.seen = o.seen
      /\ c.segs = o.segs /\ c.cut = o.cut /\ c.at = o.at /\ c.ids = o.ids /\ c.out = o.out /\ c.must = o.must
      /\ c.fk = o.fk /\ c.at0 = o.at0
  BY <1>2 DEF ReplayFields
<1> HIDE DEF c
<1>4. Shaped(backend, c)
  BY <1>1, <1>2, <1>3 DEF Shaped
<1>5. Held(forks, used.forks, o) /\ Ours(o)
  BY <1>1 DEF HoldsNow, ReplayAt, ReplayKinds
<1>6. Held(forks, used.forks, c) /\ Ours(c) /\ (Live(forks, used.forks, c) <=> Live(forks, used.forks, o))
  BY <1>3, <1>5 DEF Held, Ours, Live
<1>7. Fetching(backend, Flying, seq, c) /\ Walked(backend, c)
  BY <1>3 DEF Fetching, Walked
<1>8. ASSUME Live(forks, used.forks, c) PROVE Owed(removed, acked \cap rows, c)
  <2>1. Owed(removed, acked \cap rows, o)
    BY <1>1, <1>6, <1>8 DEF HoldsNow, ReplayAt, ReplayKinds
  <2>2. OutOf(c) = OutOf(o) /\ \A e : (Ahead(o, e) => Ahead(c, e)) /\ (Asked(o, e) => Asked(c, e))
    BY <1>1, <1>3 DEF OutOf, Ahead, Asked
  <2> QED
    BY <1>3, <2>1, <2>2 DEF Owed
<1>9. ASSUME Live(forks, used.forks, c), Nested(c.fk) PROVE Exact(backend, c)
  <2>1. Exact(backend, o)
    BY <1>1, <1>3, <1>6, <1>9 DEF HoldsNow, ReplayAt, ReplayKinds
  <2> QED
    BY <1>1, <1>3, <2>1 DEF Exact
<1>10. HoldsNow(c)
  BY <1>4, <1>6, <1>7, <1>8, <1>9 DEF HoldsNow, ReplayAt
<1> QED
  BY <1>1, <1>10

\* A parent's segment is put in front of its child's.
LEMMA PrependFacts ==
    ASSUME NEW g \in SegmentsOf, NEW segs \in Seq(SegmentsOf)
    PROVE  LET new == <<g>> \o segs
           IN  /\ new \in Seq(SegmentsOf) /\ new # <<>> /\ Len(segs) \in Nat /\ Len(new) = Len(segs) + 1
               /\ 1 \in 1..Len(new) /\ new[1] = g
               /\ \A j \in 1..Len(segs) : j + 1 \in 1..Len(new) /\ new[j + 1] = segs[j]
               /\ \A j \in 1..Len(new) : j = 1 \/ (j - 1 \in 1..Len(segs) /\ new[j] = segs[j - 1])
               /\ \A e : InSome(new, e) <=> (InSeg(g, e) \/ InSome(segs, e))
               /\ (Chained(segs) /\ g.min <= g.max /\ \A j \in 1..Len(segs) : segs[j].min >= g.max) => Chained(new)
<1> DEFINE new == <<g>> \o segs
           u == <<g>>
<1>1. u \in Seq(SegmentsOf) /\ Len(u) = 1 /\ u[1] = g /\ 1..1 = {1}
  OBVIOUS
<1>2. /\ new \in Seq(SegmentsOf) /\ Len(segs) \in Nat /\ Len(new) = 1 + Len(segs)
      /\ \A i \in 1..1 : i \in 1..Len(new) /\ new[i] = u[i]
      /\ \A i \in 1..Len(segs) : 1 + i \in 1..Len(new) /\ new[1 + i] = segs[i]
      /\ \A i \in 1..Len(new) : \/ (i \in 1..1 /\ new[i] = u[i])
                               \/ (i - 1 \in 1..Len(segs) /\ new[i] = segs[i - 1])
  <2> HIDE DEF u
  <2>1. /\ u \o segs \in Seq(SegmentsOf) /\ Len(segs) \in Nat /\ Len(u \o segs) = Len(u) + Len(segs)
        /\ \A i \in 1..Len(u) : i \in 1..Len(u \o segs) /\ (u \o segs)[i] = u[i]
        /\ \A i \in 1..Len(segs) : Len(u) + i \in 1..Len(u \o segs) /\ (u \o segs)[Len(u) + i] = segs[i]
        /\ \A i \in 1..Len(u \o segs) : \/ (i \in 1..Len(u) /\ (u \o segs)[i] = u[i])
                                        \/ (i - Len(u) \in 1..Len(segs) /\ (u \o segs)[i] = segs[i - Len(u)])
    <3>1. u \in Seq(SegmentsOf) /\ segs \in Seq(SegmentsOf)
      BY <1>1
    <3> QED
      BY <3>1, GotFacts
  <2>2. new = u \o segs
    BY DEF u
  <2> HIDE DEF new
  <2> QED
    BY <1>1, <2>1, <2>2
<1> HIDE DEF new, u
<1>3. 1 \in 1..Len(new) /\ new[1] = g
  BY <1>1, <1>2
<1>4. \A j \in 1..Len(segs) : j + 1 \in 1..Len(new) /\ new[j + 1] = segs[j]
  <2> SUFFICES ASSUME NEW j \in 1..Len(segs) PROVE j + 1 \in 1..Len(new) /\ new[j + 1] = segs[j]
    OBVIOUS
  <2>1. 1 + j = j + 1
    BY <1>2
  <2> QED
    BY <1>2, <2>1
<1>5. \A j \in 1..Len(new) : j = 1 \/ (j - 1 \in 1..Len(segs) /\ new[j] = segs[j - 1])
  BY <1>1, <1>2
<1>6. new # <<>>
  BY <1>2, <1>3
<1>7. \A e : InSome(new, e) <=> (InSeg(g, e) \/ InSome(segs, e))
  BY <1>3, <1>4, <1>5 DEF InSome
<1>8. ASSUME Chained(segs), g.min <= g.max, \A j \in 1..Len(segs) : segs[j].min >= g.max PROVE Chained(new)
  <2> SUFFICES ASSUME NEW i \in 1..Len(new)
               PROVE  new[i].min <= new[i].max /\ \A j \in 1..Len(new) : i < j => new[i].max <= new[j].min
    BY DEF Chained
  <2>1. \A j \in 1..Len(segs) : segs[j] \in SegmentsOf
    BY <1>2
  <2>2. g.max \in Nat /\ \A j \in 1..Len(segs) : segs[j].min \in Nat /\ segs[j].min >= g.max
    BY <1>8, <2>1 DEF SegmentsOf
  <2>3. CASE i = 1
    <3>1. ASSUME NEW j \in 1..Len(new), i < j PROVE new[i].max <= new[j].min
      <4>1. j - 1 \in 1..Len(segs) /\ new[j] = segs[j - 1] /\ new[i] = g
        BY <1>3, <1>5, <2>3, <3>1
      <4> QED
        BY <2>2, <4>1
    <3> QED
      BY <1>3, <1>8, <2>3, <3>1
  <2>4. CASE i # 1
    <3>1. i - 1 \in 1..Len(segs) /\ new[i] = segs[i - 1]
      BY <1>5, <2>4
    <3>2. ASSUME NEW j \in 1..Len(new), i < j PROVE new[i].max <= new[j].min
      <4>1. j - 1 \in 1..Len(segs) /\ new[j] = segs[j - 1] /\ i - 1 < j - 1
        BY <1>2, <1>5, <2>4, <3>2
      <4> QED
        BY <1>8, <3>1, <4>1 DEF Chained
    <3> QED
      BY <1>8, <3>1, <3>2 DEF Chained
  <2> QED
    BY <2>3, <2>4
<1> QED
  BY <1>2, <1>3, <1>4, <1>5, <1>6, <1>7, <1>8 DEF new

\* What the stream a walk is at has in its history.
LEMMA LeftFacts ==
    ASSUME NEW b \in Backends, NEW o, Shaped(b, o), o.k = "link", o.cur \notin o.seen, NEW e \in RowsOf(b)
    PROVE  LET at == o.fk[o.cur].at
               p == o.fk[o.cur].p
               n == Depth(o.fk) - Len(o.segs)
           IN  /\ n \in Nat /\ Len(o.segs) \in Nat /\ at \in Nat /\ e.id \in Nat /\ e.id > 0 /\ e.id <= Bound[b].stores
               /\ ~ Forked(o.fk, o.cur) => (o.cur \in Heirs(o.fk, e)[n] <=> o.cur = e.s)
               /\ Forked(o.fk, o.cur) => (o.cur \in Heirs(o.fk, e)[n] <=> (o.cur = e.s /\ e.id > at) \/ (p \in Heirs(o.fk, e)[n - 1] /\ e.id <= at))
<1> DEFINE n == Depth(o.fk) - Len(o.segs)
<1>1. /\ o.fk \in [Streams -> LinksOf(b)] /\ o.cur \in Streams /\ o.seen \subseteq Streams /\ Cardinality(o.seen) = Len(o.segs)
      /\ Len(o.segs) \in Nat
  BY DEF Shaped
<1>2. DOMAIN o.fk = Streams /\ IsFiniteSet(Streams) /\ e.s \in Streams /\ e.id \in 1..Bound[b].stores
  BY <1>1, StreamsAssumption DEF RowsOf
<1>3. Bound[b].stores \in Nat
  BY BoundFacts
<1>4. Depth(o.fk) \in Nat /\ Len(o.segs) + 1 <= Depth(o.fk)
  <2>1. IsFiniteSet(o.seen)
    BY <1>1, <1>2, FS_Subset
  <2>2. Cardinality(o.seen \cup {o.cur}) = Cardinality(o.seen) + 1
    BY <2>1, FS_AddElement
  <2>3. o.seen \cup {o.cur} \in SUBSET Streams
    BY <1>1
  <2>4. Cardinality(o.seen \cup {o.cur}) <= Cardinality(Streams) /\ Cardinality(Streams) \in Nat
    BY <1>2, <2>3, FS_Subset, FS_CardinalityType
  <2> QED
    BY <1>1, <1>2, <2>2, <2>4 DEF Depth
<1>5. n \in 1..Depth(o.fk) /\ n \in Nat
  BY <1>1, <1>4
<1>6. \A x \in Streams : x \in Heirs(o.fk, e)[n] <=>
                            IF ~ Forked(o.fk, x) THEN x = e.s
                            ELSE \/ x = e.s /\ e.id > o.fk[x].at
                                 \/ o.fk[x].p \in Heirs(o.fk, e)[n - 1] /\ e.id <= o.fk[x].at
  <2> HIDE DEF n
  <2> QED
    BY <1>2, <1>5, HeirsFacts
<1>7. o.fk[o.cur] \in LinksOf(b)
  BY <1>1
<1>8. o.fk[o.cur].at \in Nat
  BY <1>3, <1>7 DEF LinksOf, Root
<1> HIDE DEF n
<1>9. e.id \in Nat /\ e.id > 0 /\ e.id <= Bound[b].stores
  BY <1>2, <1>3
<1>10. /\ ~ Forked(o.fk, o.cur) => (o.cur \in Heirs(o.fk, e)[n] <=> o.cur = e.s)
       /\ Forked(o.fk, o.cur) => (o.cur \in Heirs(o.fk, e)[n] <=>
                                     (o.cur = e.s /\ e.id > o.fk[o.cur].at) \/ (o.fk[o.cur].p \in Heirs(o.fk, e)[n - 1] /\ e.id <= o.fk[o.cur].at))
  BY <1>1, <1>6
<1> QED
  BY <1>1, <1>5, <1>8, <1>9, <1>10 DEF n

\* A walk over a fork table that has no loop visits no stream twice.
LEMMA FreshStream ==
    ASSUME NEW b, NEW f, NEW n, NEW o, Shaped(b, o), o.k = "link", Live(f, n, o), Walked(b, o)
    PROVE  o.cur \notin o.seen
<1> SUFFICES ASSUME o.cur \in o.seen PROVE FALSE
  OBVIOUS
<1>1. o.seen \subseteq Streams /\ DOMAIN o.fk = Streams
  BY DEF Shaped
<1>2. o.seen \in (SUBSET DOMAIN o.fk) \ {{}}
  BY <1>1
<1>3. PICK x \in o.seen : ~ Forked(o.fk, x) \/ o.fk[x].p \notin o.seen
  BY <1>2 DEF Live, Acyclic
<1>4. Forked(o.fk, x) /\ o.fk[x].p \in o.seen \cup {o.cur}
  BY <1>3 DEF Walked
<1> QED
  BY <1>3, <1>4

\* The walk ends: the last segment is put in front, and the replay reads.
LEMMA LastLinkHolds ==
    ASSUME NEW b \in Backends, NEW f \in [Streams -> LinksOf(b)], NEW n, NEW rem, NEW K \in SUBSET RowsOf(b), NEW X, NEW q, NEW o,
           o.k = "link", ReplayAt(b, f, n, rem, K, X, q, o), f[o.cur] = Root \/ o.cur \in o.seen,
           NEW g \in SegmentsOf, g.s = o.cur, g.min = 0, g.max = o.max,
           NEW z, DOMAIN z = ReplayFields, z.k = "read", z.s = o.s, z.t = o.t, z.last = o.last, z.cur = o.cur, z.max = o.max,
           z.seen = o.seen \cup {o.cur}, z.segs = <<g>> \o o.segs, z.at = o.at, z.out = o.out, z.must = o.must,
           z.fk = o.fk, z.at0 = o.at0
    PROVE  ReplayAt(b, f, n, rem, K, X, q, z)
<1>1. Shaped(b, o) /\ Held(f, n, o) /\ Ours(o)
  BY DEF ReplayAt, ReplayKinds
<1>2. o.segs \in Seq(SegmentsOf) /\ o.cur \in Streams /\ o.max \in Nat /\ o.out = <<>> /\ o.cut = {} /\ o.at = 0 /\ z.at \in Nat
  BY <1>1 DEF Shaped
<1>3. /\ z.segs \in Seq(SegmentsOf) /\ z.segs # <<>> /\ 1 \in 1..Len(z.segs) /\ z.segs[1] = g
      /\ \A e : InSome(z.segs, e) <=> (InSeg(g, e) \/ InSome(o.segs, e))
      /\ (Chained(o.segs) /\ g.min <= g.max /\ \A j \in 1..Len(o.segs) : o.segs[j].min >= g.max) => Chained(z.segs)
  BY <1>2, PrependFacts
<1>4. Shaped(b, z)
  BY <1>1, <1>2, <1>3 DEF Shaped
<1>5. Held(f, n, z) /\ Ours(z) /\ (Live(f, n, z) <=> Live(f, n, o)) /\ Fetching(b, X, q, z) /\ Walked(b, z)
  BY <1>1 DEF Held, Ours, Live, Fetching, Walked
<1> SUFFICES ASSUME Live(f, n, o) PROVE Owed(rem, K, z) /\ (Nested(z.fk) => Exact(b, z))
  BY <1>4, <1>5 DEF ReplayAt
<1>6. Owed(rem, K, o) /\ Walked(b, o) /\ (Nested(o.fk) => Exact(b, o))
  BY DEF ReplayAt, ReplayKinds
<1>7. o.cur \notin o.seen /\ ~ Forked(o.fk, o.cur)
  <2>1. o.cur \notin o.seen
    BY <1>1, <1>6, FreshStream
  <2> QED
    BY <2>1 DEF Live, Forked, Root
<1>8. ASSUME NEW e \in RowsOf(b) PROVE e.id \in Nat /\ (Left(o, e) <=> InSeg(g, e))
  <2>1. e.id \in Nat /\ e.id > 0 /\ (o.cur \in Heirs(o.fk, e)[Depth(o.fk) - Len(o.segs)] <=> o.cur = e.s)
    BY <1>1, <1>7, <1>8, LeftFacts
  <2> QED
    BY <2>1 DEF Left, InSeg
<1>9. Owed(rem, K, z)
  <2> SUFFICES ASSUME NEW i \in o.must, i \notin rem
               PROVE  i \in OutOf(z) \/ \E e \in K : e.id = i /\ Asked(z, e) /\ Ahead(z, e)
    BY DEF Owed
  <2>1. CASE i \in OutOf(o)
    BY <2>1 DEF OutOf
  <2>2. CASE i \notin OutOf(o)
    <3>1. PICK e \in K : e.id = i /\ Asked(o, e) /\ Ahead(o, e)
      BY <1>2, <1>6, <2>2 DEF Owed
    <3>2. e.id \in Nat /\ InSome(z.segs, e)
      <4>1. e \in RowsOf(b) /\ Within(o.fk, o.s, e)
        BY <3>1 DEF Ahead
      <4>2. InSome(o.segs, e) \/ Left(o, e)
        BY <1>6, <4>1 DEF Walked
      <4> QED
        BY <1>3, <1>8, <4>1, <4>2
    <3>3. PICK j \in 1..Len(z.segs) : InSeg(z.segs[j], e)
      BY <3>2 DEF InSome
    <3>4. e.id > z.at
      <4>1. e \in RowsOf(b) /\ Bound[b].stores \in Nat
        BY BoundFacts
      <4> QED
        BY <1>2, <4>1 DEF RowsOf
    <3>5. Ahead(z, e) /\ Asked(z, e)
      BY <3>1, <3>3, <3>4 DEF Ahead, Asked
    <3> QED
      BY <3>1, <3>5
  <2> QED
    BY <2>1, <2>2
<1>10. ASSUME Nested(z.fk) PROVE Exact(b, z)
  <2>1. Exact(b, o)
    BY <1>6, <1>10
  <2>2. \A e \in RowsOf(b) : InSome(z.segs, e) => Within(z.fk, z.s, e)
    BY <1>3, <1>8, <2>1 DEF Exact
  <2>3. Chained(z.segs)
    BY <1>2, <1>3, <2>1 DEF Exact
  <2>4. z.at <= z.segs[1].max
    BY <1>2, <1>3
  <2>5. Rising(z.out) /\ (\A i \in 1..Len(z.out) : Within(z.fk, z.s, z.out[i]))
    BY <2>1 DEF Exact
  <2>6. \A i \in 1..Len(z.out) : z.out[i].id <= z.segs[1].min \/ z.out[i].id <= z.at
    BY <1>2
  <2> QED
    BY <2>2, <2>3, <2>4, <2>5, <2>6 DEF Exact
<1> QED
  BY <1>9, <1>10

\* The walk goes on at the parent.
LEMMA NextLinkHolds ==
    ASSUME NEW b \in Backends, NEW f \in [Streams -> LinksOf(b)], NEW n, NEW rem, NEW K \in SUBSET RowsOf(b), NEW X, NEW q, NEW o,
           o.k = "link", ReplayAt(b, f, n, rem, K, X, q, o), f[o.cur] # Root, o.cur \notin o.seen,
           NEW g \in SegmentsOf, g.s = o.cur, g.min = f[o.cur].at, g.max = o.max,
           NEW z, DOMAIN z = ReplayFields, z.k = "link", z.s = o.s, z.t = o.t, z.last = o.last, z.cur = f[o.cur].p, z.max = f[o.cur].at,
           z.seen = o.seen \cup {o.cur}, z.segs = <<g>> \o o.segs, z.at = o.at, z.out = o.out, z.must = o.must, z.cut = o.cut,
           z.fk = o.fk, z.at0 = o.at0
    PROVE  ReplayAt(b, f, n, rem, K, X, q, z)
<1>1. Shaped(b, o) /\ Held(f, n, o) /\ Ours(o)
  BY DEF ReplayAt, ReplayKinds
<1>2. /\ o.segs \in Seq(SegmentsOf) /\ o.cur \in Streams /\ o.max \in Nat /\ o.out = <<>> /\ o.cut = {} /\ o.at = 0
      /\ o.seen \subseteq Streams /\ Cardinality(o.seen) = Len(o.segs)
  BY <1>1 DEF Shaped
<1>3. Bound[b].stores \in Nat /\ f[o.cur].p \in Streams /\ f[o.cur].at \in 1..Bound[b].stores /\ f[o.cur].at \in Nat
  <2>1. f[o.cur] \in [p : Streams, at : 1..Bound[b].stores]
    BY <1>2 DEF LinksOf
  <2>2. f[o.cur].p \in Streams /\ f[o.cur].at \in 1..Bound[b].stores
    BY <2>1
  <2> QED
    BY <2>2, BoundFacts
<1>4. /\ z.segs \in Seq(SegmentsOf) /\ Len(o.segs) \in Nat /\ Len(z.segs) = Len(o.segs) + 1 /\ 1 \in 1..Len(z.segs) /\ z.segs[1] = g
      /\ \A j \in 1..Len(z.segs) : j = 1 \/ (j - 1 \in 1..Len(o.segs) /\ z.segs[j] = o.segs[j - 1])
      /\ \A e : InSome(z.segs, e) <=> (InSeg(g, e) \/ InSome(o.segs, e))
      /\ (Chained(o.segs) /\ g.min <= g.max /\ \A j \in 1..Len(o.segs) : o.segs[j].min >= g.max) => Chained(z.segs)
  BY <1>2, PrependFacts
<1>5. Cardinality(z.seen) = Len(z.segs)
  <2>1. IsFiniteSet(o.seen)
    BY <1>2, StreamsAssumption, FS_Subset
  <2>2. Cardinality(o.seen \cup {o.cur}) = Cardinality(o.seen) + 1
    BY <2>1, FS_AddElement
  <2> QED
    BY <1>2, <1>4, <2>2
<1>6. Shaped(b, z)
  BY <1>1, <1>2, <1>3, <1>4, <1>5 DEF Shaped
<1>7. Held(f, n, z) /\ Ours(z) /\ (Live(f, n, z) <=> Live(f, n, o)) /\ Fetching(b, X, q, z)
  BY <1>1 DEF Held, Ours, Live, Fetching
<1> SUFFICES ASSUME Live(f, n, o) PROVE Owed(rem, K, z) /\ Walked(b, z) /\ (Nested(z.fk) => Exact(b, z))
  BY <1>6, <1>7 DEF ReplayAt
<1>8. Owed(rem, K, o) /\ Walked(b, o) /\ (Nested(o.fk) => Exact(b, o)) /\ f = o.fk
  BY DEF ReplayAt, ReplayKinds, Live
<1>9. Forked(o.fk, o.cur)
  BY <1>3, <1>8 DEF Forked
<1>10. Owed(rem, K, z)
  <2>1. OutOf(z) = OutOf(o)
    BY DEF OutOf
  <2>2. \A e : (Asked(o, e) => Asked(z, e)) /\ (Ahead(o, e) => Ahead(z, e))
    BY DEF Asked, Ahead
  <2> QED
    BY <1>8, <2>1, <2>2 DEF Owed
\* The history of the stream it was at is that of its parent, and its own.
<1>11. ASSUME NEW e \in RowsOf(b)
       PROVE  /\ e.id \in Nat /\ e.id <= Bound[b].stores
              /\ o.cur \in Heirs(o.fk, e)[Depth(o.fk) - Len(o.segs)] <=>
                    ((o.cur = e.s /\ e.id > z.max) \/ Left(z, e))
  <2> DEFINE m == Depth(o.fk) - Len(o.segs)
  <2>1. /\ m \in Nat /\ e.id \in Nat /\ e.id <= Bound[b].stores
        /\ o.cur \in Heirs(o.fk, e)[m] <=> (o.cur = e.s /\ e.id > z.max) \/ (z.cur \in Heirs(o.fk, e)[m - 1] /\ e.id <= z.max)
    BY <1>1, <1>8, <1>9, <1>11, LeftFacts
  <2>2. Depth(z.fk) - Len(z.segs) = m - 1
    <3>1. Depth(o.fk) \in Int
      <4>1. IsFiniteSet(DOMAIN o.fk)
        BY <1>1, StreamsAssumption DEF Shaped
      <4> QED
        BY <4>1, FS_CardinalityType DEF Depth
    <3> QED
      BY <1>4, <3>1
  <2> HIDE DEF m
  <2>3. Left(z, e) <=> z.cur \in Heirs(o.fk, e)[m - 1] /\ e.id <= z.max
    BY <2>2 DEF Left
  <2> QED
    BY <2>1, <2>3 DEF m
<1>12. Walked(b, z)
  <2>1. \A x \in z.seen : Forked(z.fk, x) /\ z.fk[x].p \in z.seen \cup {z.cur}
    BY <1>8, <1>9 DEF Walked
  <2>2. \E c \in z.seen : z.fk[c].p = z.cur /\ z.fk[c].at = z.max
    BY <1>8
  <2>3. ASSUME NEW e \in RowsOf(b), Within(z.fk, z.s, e) PROVE InSome(z.segs, e) \/ Left(z, e)
    <3>1. InSome(o.segs, e) \/ Left(o, e)
      BY <1>8, <2>3 DEF Walked
    <3>2. CASE Left(o, e)
      <4>1. (o.cur = e.s /\ e.id > z.max /\ e.id <= o.max) \/ Left(z, e)
        BY <1>11, <3>2 DEF Left
      <4> QED
        BY <1>4, <4>1 DEF InSeg
    <3> QED
      BY <1>4, <3>1, <3>2
  <2> QED
    BY <2>1, <2>2, <2>3 DEF Walked
<1>13. ASSUME Nested(z.fk) PROVE Exact(b, z)
  <2>1. Exact(b, o)
    BY <1>8, <1>13
  <2>2. z.max <= o.max /\ z.max \in Nat
    <3>1. CASE o.max = Bound[b].stores + 1
      BY <1>3, <3>1
    <3>2. ASSUME NEW c \in o.seen, o.fk[c].p = o.cur, o.fk[c].at = o.max PROVE z.max <= o.max
      <4>1. Forked(o.fk, c) /\ c \in DOMAIN o.fk
        BY <1>1, <1>2, <1>8, <3>2 DEF Walked, Shaped
      <4> QED
        BY <1>8, <1>9, <1>13, <3>2, <4>1 DEF Nested
    <3> QED
      BY <1>3, <1>8, <3>1, <3>2 DEF Walked
  <2>3. ASSUME NEW e \in RowsOf(b), InSome(z.segs, e) \/ Left(z, e) PROVE Within(z.fk, z.s, e)
    <3>1. InSeg(g, e) => Left(o, e)
      BY <1>11 DEF InSeg, Left
    <3>2. Left(z, e) => Left(o, e)
      <4> SUFFICES ASSUME Left(z, e) PROVE Left(o, e)
        OBVIOUS
      <4>1. e.id <= z.max /\ e.id \in Nat
        BY <1>11 DEF Left
      <4>2. e.id <= o.max
        BY <1>2, <2>2, <4>1
      <4> QED
        BY <1>11, <4>2 DEF Left
    <3>3. InSome(o.segs, e) \/ Left(o, e)
      BY <1>4, <2>3, <3>1, <3>2
    <3> QED
      BY <2>1, <3>3 DEF Exact
  <2>4. \A j \in 1..Len(o.segs) : o.segs[j].min >= o.max /\ o.segs[j].min \in Nat
    <3>1. \A j \in 1..Len(o.segs) : o.segs[j] \in SegmentsOf
      BY <1>2
    <3> QED
      BY <2>1, <3>1 DEF Exact, SegmentsOf
  <2>5. Chained(z.segs)
    BY <1>4, <2>1, <2>2, <2>4 DEF Exact
  <2>6. \A j \in 1..Len(z.segs) : z.segs[j].min >= z.max
    <3> SUFFICES ASSUME NEW j \in 1..Len(z.segs) PROVE z.segs[j].min >= z.max
      OBVIOUS
    <3>1. CASE j = 1
      BY <1>4, <2>2, <3>1
    <3>2. CASE j # 1
      <4>1. j - 1 \in 1..Len(o.segs) /\ z.segs[j] = o.segs[j - 1]
        BY <1>4, <3>2
      <4> QED
        BY <1>2, <2>2, <2>4, <4>1
    <3> QED
      BY <3>1, <3>2
  <2>7. Rising(z.out) /\ (\A i \in 1..Len(z.out) : Within(z.fk, z.s, z.out[i]))
    BY <2>1 DEF Exact
  <2> QED
    BY <2>3, <2>5, <2>6, <2>7 DEF Exact
<1> QED
  BY <1>10, <1>12, <1>13

\* One lookup of the fork table.
LEMMA LinkHolds ==
    ASSUME Typed, NEW r, Link(r), HoldsNow(op[r])
    PROVE  \E o : Go(r, o) /\ HoldsNow(o)
<1> DEFINE o == op[r]
           K == acked \cap rows
           last == LastLink(o)
           g == SegmentAt(o, last)
           go == [o EXCEPT !.segs = <<g>> \o o.segs, !.seen = @ \cup {o.cur}]
           end == [go EXCEPT !.k = "read", !.cut = old]
           on == [go EXCEPT !.cur = forks[o.cur].p, !.max = forks[o.cur].at]
<1>1. o.k = "link" /\ Go(r, IF last THEN end ELSE on)
  BY DEF Link, LinkBy, Extended
<1>2. Shaped(backend, o) /\ DOMAIN o = ReplayFields
  BY <1>1 DEF HoldsNow, ReplayAt, ReplayKinds, Shaped
<1>3. /\ forks \in [Streams -> LinksOf(backend)] /\ backend \in Backends /\ K \in SUBSET RowsOf(backend)
      /\ ReplayAt(backend, forks, used.forks, removed, K, Flying, seq, o)
  BY DEF Typed, Tables, Made, HoldsNow
<1>4. last <=> forks[o.cur] = Root \/ o.cur \in o.seen
  BY DEF LastLink
<1>5. g.s = o.cur /\ g.max = o.max /\ (last => g.min = 0) /\ (~ last => g.min = forks[o.cur].at) /\ g \in SegmentsOf
  <2>1. g.s = o.cur /\ g.max = o.max /\ (last => g.min = 0) /\ (~ last => g.min = forks[o.cur].at) /\ g = [s |-> g.s, min |-> g.min, max |-> g.max]
    BY DEF SegmentAt
  <2>2. o.cur \in Streams /\ o.max \in Nat /\ forks[o.cur].at \in Nat
    <3>1. o.cur \in Streams /\ o.max \in Nat
      BY <1>2 DEF Shaped
    <3>2. forks[o.cur] \in LinksOf(backend)
      BY <1>3, <3>1
    <3> QED
      BY <3>1, <3>2, BoundFacts DEF LinksOf, Root
  <2> QED
    BY <2>1, <2>2 DEF SegmentsOf
<1> HIDE DEF g, last, o
<1>6. /\ DOMAIN go = ReplayFields /\ go.k = o.k /\ go.s = o.s /\ go.t = o.t /\ go.last = o.last /\ go.cur = o.cur /\ go.max = o.max
      /\ go.seen = o.seen \cup {o.cur} /\ go.segs = <<g>> \o o.segs /\ go.at = o.at /\ go.out = o.out /\ go.must = o.must /\ go.cut = o.cut
      /\ go.fk = o.fk /\ go.at0 = o.at0
  BY <1>2 DEF ReplayFields
<1> HIDE DEF go
<1>7. CASE last
  <2>1. /\ DOMAIN end = ReplayFields /\ end.k = "read" /\ end.s = o.s /\ end.t = o.t /\ end.last = o.last /\ end.cur = o.cur /\ end.max = o.max
        /\ end.seen = o.seen \cup {o.cur} /\ end.segs = <<g>> \o o.segs /\ end.at = o.at /\ end.out = o.out /\ end.must = o.must
        /\ end.fk = o.fk /\ end.at0 = o.at0
    BY <1>6 DEF ReplayFields
  <2> HIDE DEF end, K
  <2>2. g.min = 0 /\ (forks[o.cur] = Root \/ o.cur \in o.seen)
    BY <1>4, <1>5, <1>7
  <2>3. ReplayAt(backend, forks, used.forks, removed, K, Flying, seq, end)
    BY <1>1, <1>3, <1>5, <2>1, <2>2, LastLinkHolds
  <2> QED
    BY <1>1, <1>7, <2>3 DEF HoldsNow, K
<1>8. CASE ~ last
  <2>1. /\ DOMAIN on = ReplayFields /\ on.k = "link" /\ on.s = o.s /\ on.t = o.t /\ on.last = o.last
        /\ on.cur = forks[o.cur].p /\ on.max = forks[o.cur].at
        /\ on.seen = o.seen \cup {o.cur} /\ on.segs = <<g>> \o o.segs /\ on.at = o.at /\ on.out = o.out /\ on.must = o.must /\ on.cut = o.cut
        /\ on.fk = o.fk /\ on.at0 = o.at0
    BY <1>1, <1>6 DEF ReplayFields
  <2> HIDE DEF on, K
  <2>2. g.min = forks[o.cur].at /\ forks[o.cur] # Root /\ o.cur \notin o.seen
    BY <1>4, <1>5, <1>8
  <2>3. ReplayAt(backend, forks, used.forks, removed, K, Flying, seq, on)
    BY <1>1, <1>3, <1>5, <2>1, <2>2, NextLinkHolds
  <2> QED
    BY <1>1, <1>8, <2>3 DEF HoldsNow, K
<1> QED
  BY <1>7, <1>8

\* A replay begins.
LEMMA ResolveHolds ==
    ASSUME Typed, NEW r, NEW s \in Streams, NEW t \in Tenants, NEW last \in Nat, Redis => t = NoTenant, Resolve(r, last, s, t)
    PROVE  \E o : Go(r, o) /\ HoldsNow(o)
<1> DEFINE o == [k |-> "link", s |-> s, t |-> t, last |-> last, cur |-> s, max |-> NoMax, seen |-> {},
                 segs |-> <<>>, cut |-> {}, at |-> 0, ids |-> {}, out |-> <<>>, stale |-> {},
                 must |-> Wanted(s, t, last), fk |-> forks, at0 |-> used.forks]
           K == acked \cap rows
<1>1. Go(r, o)
  BY DEF Resolve
<1>2. /\ forks \in [Streams -> LinksOf(backend)] /\ DOMAIN forks = Streams /\ backend \in Backends /\ K \in SUBSET RowsOf(backend) /\ used.forks \in Nat
      /\ Bound[backend].stores \in Nat /\ NoMax = Bound[backend].stores + 1 /\ \A e \in RowsOf(backend) : e.id \in 1..Bound[backend].stores
  BY BoundFacts DEF Typed, Tables, Made, NoMax, MaxStores, RowsOf
<1>3. /\ DOMAIN o = ReplayFields /\ o.k = "link" /\ o.s = s /\ o.t = t /\ o.last = last /\ o.cur = s /\ o.max = NoMax /\ o.seen = {}
      /\ o.segs = <<>> /\ o.cut = {} /\ o.at = 0 /\ o.out = <<>> /\ o.must = Wanted(s, t, last) /\ o.fk = forks /\ o.at0 = used.forks
  BY DEF ReplayFields
<1> HIDE DEF o, K
<1>4. /\ o.segs \in Seq(SegmentsOf) /\ o.out \in Seq(RowsOf(backend)) /\ Len(o.segs) = 0 /\ Len(o.out) = 0 /\ Cardinality(o.seen) = 0
  BY <1>3, FS_EmptySet
<1>5. Shaped(backend, o)
  <2>1. backend \in {"script", "pipe"} => o.t = NoTenant
    BY <1>3 DEF Redis
  <2> QED
    BY <1>2, <1>3, <1>4, <2>1 DEF Shaped
<1>6. Held(forks, used.forks, o) /\ Ours(o) /\ Fetching(backend, Flying, seq, o)
  BY <1>2, <1>3, <1>4 DEF Held, Ours, Fetching
<1>7. ASSUME NEW e \in RowsOf(backend) PROVE Left(o, e) <=> Within(o.fk, o.s, e)
  <2>1. Depth(o.fk) \in Nat
    BY <1>2, <1>3, StreamsAssumption, FS_CardinalityType DEF Depth
  <2>2. Depth(o.fk) - Len(o.segs) = Depth(o.fk) /\ e.id <= o.max
    BY <1>2, <1>3, <1>4, <2>1
  <2> QED
    BY <1>3, <2>2 DEF Left, Within
<1>8. Owed(removed, K, o)
  <2> SUFFICES ASSUME NEW i \in o.must PROVE \E e \in K : e.id = i /\ Asked(o, e) /\ Ahead(o, e)
    BY DEF Owed
  <2>1. PICK e \in History(forks, s, acked) : e.id = i /\ e \in rows /\ Sees(t, e) /\ e.k = "msg" /\ e.id > last
    BY <1>3 DEF Wanted
  <2>2. e \in K /\ s \in Heirs(forks, e)[Depth(forks)]
    BY <2>1 DEF History, K
  <2> QED
    BY <1>3, <2>1, <2>2 DEF Asked, Ahead, Within
<1>9. Walked(backend, o)
  BY <1>2, <1>3, <1>7 DEF Walked
<1>10. Exact(backend, o)
  <2>1. Chained(o.segs) /\ \A e : ~ InSome(o.segs, e)
    BY <1>4 DEF Chained, InSome
  <2> QED
    BY <1>3, <1>4, <1>7, <2>1 DEF Exact, Rising
<1>11. HoldsNow(o)
  BY <1>5, <1>6, <1>8, <1>9, <1>10 DEF HoldsNow, ReplayAt, K
<1> QED
  BY <1>1, <1>11

\* What a reader does.
LEMMA ReaderHolds ==
    ASSUME Typed, Reading, Apart, Indexed, NEW r \in Readers, ReaderStep(r), HoldsNow(op[r])
    PROVE  \E o : Go(r, o) /\ HoldsNow(o)
<1>1. ASSUME NEW o, o.k \notin ReplayKinds PROVE HoldsNow(o)
  BY <1>1 DEF HoldsNow, ReplayAt
<1>2. Idle.k \notin ReplayKinds /\ \A s, t, from : Subscribed(s, t, from).k \notin ReplayKinds
  BY DEF Idle, Subscribed, ReplayKinds
<1>3. CASE Answered(r) \/ Unsubscribe(r)
  <2>1. Go(r, Idle)
    BY <1>3 DEF Answered, Unsubscribe
  <2> QED
    BY <1>1, <1>2, <2>1
<1>4. CASE (\E s \in Streams, t \in Tenants : SqSubscribe(r, s, t) \/ PgListen(r, s, t)) \/ \E s \in Streams : RdSubscribe(r, s)
  <2>1. \E s, t, from : Go(r, Subscribed(s, t, from))
    BY <1>4 DEF SqSubscribe, PgListen, RdSubscribe
  <2> QED
    BY <1>1, <1>2, <2>1
<1>5. CASE SqPoll(r) \/ RdDeliver(r) \/ PgDeliver(r)
  <2>1. PICK o : Go(r, o)
    BY ReaderStepKeeps
  <2>2. op[r].k = "sub" /\ DOMAIN op = Procs /\ r \in Procs
    BY <1>5 DEF SqPoll, RdDeliver, PgDeliver, Deliver, Typed, Coroutines, Procs
  <2>3. op'[r] = o
    BY <2>1, <2>2 DEF Go
  <2>4. op'[r].k = "sub"
    <3>1. op[r] \in SubsOf(backend, used.stores)
      BY <2>2, SubFacts DEF Reading
    <3>2. "k" \in DOMAIN op[r]
      BY <3>1 DEF SubsOf
    <3> QED
      BY <1>5, <2>2, <3>2 DEF SqPoll, RdDeliver, PgDeliver, Deliver, Go
  <2> QED
    BY <1>1, <2>1, <2>3, <2>4 DEF ReplayKinds
<1> QED
  BY <1>3, <1>4, <1>5, LinkHolds, ResolveHolds, SqReadHolds, RdChunkHolds, RdIdsHolds, RdPayloadsHolds, RdPruneHolds, PgPageHolds
     DEF ReaderStep

\* What others do while a replay goes on: events come, events that go are counted as removed,
\* a fork is counted or taken back.
LEMMA ReplayStays ==
    ASSUME NEW b \in Backends, NEW f \in [Streams -> LinksOf(b)], NEW n \in Nat, NEW rem, NEW K, NEW X, NEW q \in Nat, NEW o,
           ReplayAt(b, f, n, rem, K, X, q, o),
           NEW f2 \in [Streams -> LinksOf(b)], NEW n2 \in Nat, NEW rem2, NEW K2, NEW X2, NEW q2 \in Nat,
           rem \subseteq rem2, \A e \in K : e \in K2 \/ e.id \in rem2,
           n <= n2, n2 = n => \A s \in Streams : f2[s] \in {f[s], Root},
           q <= q2, b = "pipe" => \A x \in X2 : x \in X \/ (x.id \in Nat /\ x.id > q)
    PROVE  ReplayAt(b, f2, n2, rem2, K2, X2, q2, o)
<1> SUFFICES ASSUME o.k \in ReplayKinds PROVE ReplayAt(b, f2, n2, rem2, K2, X2, q2, o)
  BY DEF ReplayAt
<1>1. /\ Shaped(b, o) /\ Held(f, n, o) /\ Ours(o) /\ Fetching(b, X, q, o)
      /\ Live(f, n, o) => Owed(rem, K, o) /\ Walked(b, o) /\ (Nested(o.fk) => Exact(b, o))
  BY DEF ReplayAt
<1>2. Held(f2, n2, o)
  BY <1>1 DEF Held
<1>3. Live(f2, n2, o) => Live(f, n, o)
  <2> SUFFICES ASSUME Live(f2, n2, o) PROVE Live(f, n, o)
    OBVIOUS
  <2>1. n = o.at0 /\ n2 = n
    BY <1>1 DEF Held, Live
  <2>2. \A s \in Streams : f[s] = o.fk[s]
    BY <1>1, <2>1 DEF Held, Live
  <2>3. f = o.fk
    BY <1>1, <2>2 DEF Shaped
  <2> QED
    BY <2>1, <2>3 DEF Live
<1>4. Owed(rem, K, o) => Owed(rem2, K2, o)
  BY DEF Owed
<1>5. Fetching(b, X2, q2, o)
  BY <1>1 DEF Fetching
<1> QED
  BY <1>1, <1>2, <1>3, <1>4, <1>5 DEF ReplayAt

\* What a step does to the rows, the forks and their histories.
ForksKept ==
    /\ used'.forks \in Nat /\ used.forks <= used'.forks
    /\ used'.forks = used.forks => \A s \in Streams : forks'[s] \in {forks[s], Root}
RowsKept == removed \subseteq removed' /\ acked \subseteq acked' /\ \A x \in rows : x \in rows' \/ x.id \in removed'

LEMMA BumpForks ==
    ASSUME Typed, NEW c \in {"stores", "forks", "faults", "reads"}, Bump(c)
    PROVE  used'.forks = IF c = "forks" THEN used.forks + 1 ELSE used.forks
BY DEF Typed, Tables, Bump

LEMMA ForksStay ==
    ASSUME Typed, UNCHANGED forks \/ Bump("forks"), used' = used \/ \E c \in {"stores", "forks", "faults", "reads"} : Bump(c)
    PROVE  ForksKept
<1>1. used.forks \in Nat
  BY DEF Typed, Tables
<1>2. used'.forks \in {used.forks, used.forks + 1} /\ (Bump("forks") => used'.forks = used.forks + 1)
  BY BumpForks
<1> QED
  BY <1>1, <1>2 DEF ForksKept

LEMMA SqKeeps ==
    ASSUME Typed, SqWrite, ~ (SqClosed \/ SqCrash)
    PROVE  ForksKept /\ RowsKept
<1>1. ASSUME NEW p \in Writers, NEW s \in Streams, NEW k \in Kinds, SqStore(p, s, k) \/ SqInsert(p, s, k)
      PROVE  Bump("stores") /\ UNCHANGED forks /\ RowsKept
  BY <1>1 DEF SqStore, SqInsert, RowsKept
<1>2. ASSUME NEW p \in Writers, SqStored(p) \/ SqCommitFails(p) \/ SqDone(p) \/ SqCount(p) \/ SqCancel(p)
      PROVE  (used' = used \/ Bump("faults")) /\ UNCHANGED forks /\ RowsKept
  BY <1>2 DEF SqStored, SqCommitFails, SqDone, SqCount, SqCancel, Ack, RowsKept
<1>3. ASSUME NEW p \in Writers, SqPurgeBatch(p)
      PROVE  used' = used /\ UNCHANGED forks /\ RowsKept
  <2>1. PICK D : rows' = rows \ D /\ removed' = removed \cup {x.id : x \in D} /\ UNCHANGED <<used, forks, acked>>
    BY <1>3 DEF SqPurgeBatch
  <2> QED
    BY <2>1 DEF RowsKept
<1>4. ASSUME NEW p \in Writers \cup Services, SqFlush(p) \/ SqCommitted(p) \/ SqFlushed(p) \/ SqFlushFails(p)
      PROVE  (used' = used \/ Bump("faults")) /\ UNCHANGED forks /\ RowsKept
  BY <1>4 DEF SqFlush, SqCommitted, SqFlushed, SqFlushFails, Flushed, Ack, RowsKept
<1>5. CASE Wakes \/ SqClose
  <2>1. (used' = used \/ Bump("faults")) /\ UNCHANGED forks /\ RowsKept
    BY <1>5 DEF Wakes, SqClose, RowsKept
  <2> QED
    BY <2>1, ForksStay
<1>6. ASSUME NEW p \in Writers, NEW s, NEW parent, NEW at, SqFork(p, s, parent, at)
      PROVE  Bump("forks") /\ RowsKept
  BY <1>6 DEF SqFork, RowsKept
<1>7. ASSUME NEW p \in Writers, NEW t \in Tenants, NEW bound \in BOOLEAN, SqPurge(p, t, bound)
      PROVE  used' = used /\ UNCHANGED forks /\ RowsKept
  BY <1>7 DEF SqPurge, RowsKept
<1> QED
  BY <1>1, <1>2, <1>3, <1>4, <1>5, <1>6, <1>7, ForksStay DEF SqWrite

LEMMA RdKeeps ==
    ASSUME Typed, RdWrite
    PROVE  ForksKept /\ RowsKept
<1>1. ASSUME NEW p \in Writers, NEW s \in Streams, NEW k \in Kinds, RdStore(p, s, k) \/ RdIncr(p, s, k)
      PROVE  Bump("stores") /\ UNCHANGED forks /\ RowsKept
  BY <1>1 DEF RdStore, RdIncr, Add, RowsKept
<1>2. ASSUME NEW p \in Writers, RdHset(p) \/ RdZadd(p) \/ RdTrim(p) \/ RdBroken(p)
      PROVE  (used' = used \/ Bump("faults")) /\ UNCHANGED forks /\ RowsKept
  BY <1>2 DEF RdHset, RdZadd, RdTrim, RdBroken, RowsKept
<1>3. CASE RdExpires
  <2>1. PICK x \in rows : rows' = rows \ {x} /\ removed' = removed \cup {x.id} /\ Bump("faults") /\ UNCHANGED <<forks, acked>>
    BY <1>3 DEF RdExpires
  <2>2. RowsKept
    BY <2>1 DEF RowsKept
  <2> QED
    BY <2>1, <2>2, ForksStay
<1>4. ASSUME NEW s \in Streams, RdKeyExpires(s) PROVE ForksKept /\ RowsKept
  <2>1. used' = used /\ UNCHANGED <<rows, acked>> /\ removed \subseteq removed' /\ (UNCHANGED forks \/ forks' = [forks EXCEPT ![s] = Root])
    BY <1>4 DEF RdKeyExpires
  <2>2. used.forks \in Nat /\ DOMAIN forks = Streams
    BY DEF Typed, Tables
  <2> QED
    BY <2>1, <2>2 DEF ForksKept, RowsKept
<1> QED
  BY <1>1, <1>2, <1>3, <1>4, ForksStay DEF RdWrite

LEMMA PgKeeps ==
    ASSUME Typed, PgWrite
    PROVE  ForksKept /\ RowsKept
<1>1. ASSUME NEW p \in Writers, NEW s \in Streams, NEW k \in Kinds, PgInsert(p, s, k)
      PROVE  Bump("stores") /\ UNCHANGED forks /\ RowsKept
  BY <1>1 DEF PgInsert, RowsKept
<1>2. ASSUME NEW p \in Writers, PgCommits(p) \/ PgFails(p)
      PROVE  (used' = used \/ Bump("faults")) /\ UNCHANGED forks /\ RowsKept
  BY <1>2 DEF PgCommits, PgFails, RowsKept
<1>3. ASSUME NEW p \in Writers, PgPurgeBatch(p)
      PROVE  used' = used /\ UNCHANGED forks /\ RowsKept
  <2>1. PICK D : rows' = rows \ D /\ removed' = removed \cup {x.id : x \in D} /\ UNCHANGED <<used, forks, acked>>
    BY <1>3 DEF PgPurgeBatch
  <2> QED
    BY <2>1 DEF RowsKept
<1>4. ASSUME NEW p \in Writers, NEW t \in Tenants, NEW bound \in BOOLEAN, PgPurge(p, t, bound)
      PROVE  used' = used /\ UNCHANGED forks /\ RowsKept
  BY <1>4 DEF PgPurge, RowsKept
<1> QED
  BY <1>1, <1>2, <1>3, <1>4, ForksStay DEF PgWrite

LEMMA NetKeeps ==
    ASSUME Typed, NetStep
    PROVE  ForksKept /\ RowsKept
<1>1. CASE Ages \/ Restart
  <2>1. Bump("faults") /\ UNCHANGED forks /\ RowsKept
    BY <1>1 DEF Ages, Restart, RowsKept
  <2> QED
    BY <2>1, ForksStay
<1>2. ASSUME NEW p \in Writers, Publish(p) \/ Unpublished(p)
      PROVE  (used' = used \/ Bump("faults")) /\ UNCHANGED forks /\ RowsKept
  BY <1>2 DEF Publish, Unpublished, Ack, RowsKept
<1>3. ASSUME NEW p \in Writers, NEW s, NEW parent, NEW at, RdFork(p, s, parent, at) \/ PgFork(p, s, parent, at)
      PROVE  Bump("forks") /\ RowsKept
  BY <1>3 DEF RdFork, PgFork, RowsKept
<1> QED
  BY <1>1, <1>2, <1>3, ForksStay DEF NetStep

\* What the step lands: nothing, or one row with the next id.
Lands ==
    /\ \/ seq' = seq /\ Flying' \subseteq Flying
       \/ seq' = seq + 1 /\ \E x : x.id = seq + 1 /\ Flying' \subseteq Flying \cup {x}
    /\ \A e \in index' : e \in index \/ \E x \in Flying' : x.id = e.id /\ x.s = e.s

LEMMA FlyingIds ==
    ASSUME Typed
    PROVE  seq \in Nat /\ \A x \in Flying : x.id \in Nat
<1>1. ASSUME NEW p \in Writers, Writes(p) PROVE op[p].row \in Made(backend, used.stores)
  BY <1>1, WriterFacts DEF Writes
<1>2. \A x \in Flying : x \in Made(backend, used.stores)
  BY <1>1 DEF Flying, Typed, Tables
<1> QED
  BY <1>2, MadeFacts DEF Typed, Tables

LEMMA ApartLands ==
    ASSUME Typed, Apart, backend' = backend, ~ Sqlite => Lands
    PROVE  Apart'
<1> SUFFICES ASSUME ~ Sqlite
             PROVE  /\ \A x, y \in Flying' : x.id = y.id => x = y
                    /\ \A x \in Flying' : x.id <= seq'
                    /\ \A e \in index' : e.id <= seq' /\ \A x \in Flying' : x.id = e.id => x.s = e.s
  BY DEF Apart, Sqlite
<1>1. /\ \A x, y \in Flying : x.id = y.id => x = y
      /\ \A x \in Flying : x.id <= seq /\ x.id \in Nat
      /\ \A e \in index : e.id <= seq /\ e.id \in Nat /\ \A x \in Flying : x.id = e.id => x.s = e.s
      /\ seq \in Nat
  <2>1. \A e \in index : e.id \in Nat
    BY BoundFacts DEF Typed, Tables
  <2> QED
    BY <2>1, FlyingIds DEF Apart
<1>2. /\ \A x, y \in Flying' : x.id = y.id => x = y
      /\ \A x \in Flying' : x.id <= seq'
      /\ \A e \in index : e.id <= seq' /\ \A x \in Flying' : x.id = e.id => x.s = e.s
  <2>1. CASE seq' = seq /\ Flying' \subseteq Flying
    BY <1>1, <2>1
  <2>2. ASSUME seq' = seq + 1, NEW z, z.id = seq + 1, Flying' \subseteq Flying \cup {z}
        PROVE  /\ \A x, y \in Flying' : x.id = y.id => x = y
               /\ \A x \in Flying' : x.id <= seq'
               /\ \A e \in index : e.id <= seq' /\ \A x \in Flying' : x.id = e.id => x.s = e.s
    <3>1. \A x \in Flying' : x = z \/ (x \in Flying /\ x.id # z.id)
      BY <1>1, <2>2
    <3> QED
      BY <1>1, <2>2, <3>1
  <2> QED
    BY <2>1, <2>2 DEF Lands
<1> QED
  BY <1>2 DEF Lands

\* A writer goes on, with the row it has, with a new one, or with none.
LEMMA WriterLands ==
    ASSUME NEW p \in Writers, NEW o, op'[p] = o, \A q \in Writers \ {p} : op'[q] = op[q],
           \/ rows' \subseteq Flying /\ seq' = seq /\ (o.k \in Rowed => Writes(p) /\ o.row = op[p].row)
           \/ rows' \subseteq Flying \cup {o.row} /\ seq' = seq + 1 /\ o.row.id = seq + 1,
           \A e \in index' : e \in index \/ (e = Entry(o.row) /\ o.k \in Rowed)
    PROVE  Lands
<1>1. Flying' = rows' \cup {op'[q].row : q \in {w \in Writers : op'[w].k \in Rowed}}
  BY DEF Flying, Writes
<1>2. \A q \in Writers \ {p} : op'[q].k \in Rowed => op'[q].row \in Flying
  BY DEF Flying, Writes
<1>3. \A e \in index' : e \in index \/ \E x \in Flying' : x.id = e.id /\ x.s = e.s
  BY <1>1 DEF Entry
<1>4. CASE rows' \subseteq Flying /\ seq' = seq /\ (o.k \in Rowed => Writes(p) /\ o.row = op[p].row)
  <2>1. o.k \in Rowed => o.row \in Flying
    BY <1>4 DEF Flying
  <2>2. Flying' \subseteq Flying
    BY <1>1, <1>2, <1>4, <2>1
  <2> QED
    BY <1>3, <1>4, <2>2 DEF Lands
<1>5. CASE rows' \subseteq Flying \cup {o.row} /\ seq' = seq + 1 /\ o.row.id = seq + 1
  <2>1. Flying' \subseteq Flying \cup {o.row}
    BY <1>1, <1>2, <1>5
  <2> QED
    BY <1>3, <1>5, <2>1 DEF Lands
<1> QED
  BY <1>4, <1>5

\* Writers stay where they are, or nobody does anything any more.
LEMMA OthersLand ==
    ASSUME seq' = seq, rows' \subseteq rows, index' \subseteq index, \A q \in Writers : op'[q] = op[q] \/ op'[q] = Idle
    PROVE  Lands
<1>1. Flying' = rows' \cup {op'[q].row : q \in {w \in Writers : op'[w].k \in Rowed}}
  BY DEF Flying, Writes
<1>2. \A q \in Writers : op'[q].k \in Rowed => op'[q].row \in Flying
  BY DEF Flying, Writes, Idle, Rowed
<1>3. Flying' \subseteq Flying
  BY <1>1, <1>2 DEF Flying
<1> QED
  BY <1>3 DEF Lands

LEMMA WriterMoves ==
    ASSUME Typed, NEW p \in Writers, NEW o, Go(p, o)
    PROVE  op'[p] = o /\ (\A q \in Writers \ {p} : op'[q] = op[q]) /\ \A r \in Readers : op'[r] = op[r]
<1>1. p \in Procs /\ p \notin Readers /\ DOMAIN op = Procs /\ \A q \in Writers \cup Readers : q \in Procs
  BY WriterFacts DEF Typed, Coroutines, Procs
<1> QED
  BY <1>1 DEF Go

\* Redis.
LEMMA RdLands ==
    ASSUME Typed, RdWrite
    PROVE  Lands /\ \A r \in Readers : op'[r] = op[r]
<1>1. Idle.k \notin Rowed /\ {"publish", "hset", "zadd", "trim"} \subseteq Rowed
  BY DEF Idle, Rowed
<1>2. ASSUME NEW p \in Writers, NEW s \in Streams, NEW k \in Kinds, RdStore(p, s, k)
      PROVE  Lands /\ \A r \in Readers : op'[r] = op[r]
  <2> DEFINE x == NewRow(s, NoTenant, k)
             o == [k |-> "publish", row |-> x]
  <2>1. x.id = seq + 1 /\ o.row = x /\ o.k \in Rowed
    BY <1>1 DEF NewRow
  <2>2. Go(p, o) /\ rows' = rows \cup {x} /\ seq' = seq + 1 /\ \A e \in index' : e \in index \/ e = Entry(x)
    BY <1>2 DEF RdStore, Add
  <2> HIDE DEF o, x
  <2>3. rows' \subseteq Flying \cup {o.row}
    BY <2>1, <2>2 DEF Flying
  <2> QED
    BY <2>1, <2>2, <2>3, WriterMoves, WriterLands
<1>3. ASSUME NEW p \in Writers, NEW s \in Streams, NEW k \in Kinds, RdIncr(p, s, k)
      PROVE  Lands /\ \A r \in Readers : op'[r] = op[r]
  <2> DEFINE x == NewRow(s, NoTenant, k)
             o == [k |-> "hset", row |-> x]
  <2>1. x.id = seq + 1 /\ o.row = x
    BY DEF NewRow
  <2>2. Go(p, o) /\ rows' = rows /\ seq' = seq + 1 /\ index' = index
    BY <1>3 DEF RdIncr
  <2> HIDE DEF o, x
  <2>3. rows' \subseteq Flying \cup {o.row}
    BY <2>2 DEF Flying
  <2> QED
    BY <2>1, <2>2, <2>3, WriterMoves, WriterLands
<1>4. ASSUME NEW p \in Writers, NEW j \in Rowed, Writes(p), Go(p, [op[p] EXCEPT !.k = j]), seq' = seq,
             rows' \subseteq rows \cup {op[p].row}, \A e \in index' : e \in index \/ e = Entry(op[p].row)
      PROVE  Lands /\ \A r \in Readers : op'[r] = op[r]
  <2> DEFINE o == [op[p] EXCEPT !.k = j]
  <2>1. o.row = op[p].row /\ o.k \in Rowed
    <3>1. op[p] \in [k : RowStages(backend), row : Made(backend, used.stores)]
      BY <1>4, WriterFacts DEF Writes
    <3> QED
      BY <1>4, <3>1
  <2>2. Go(p, o)
    BY <1>4
  <2> HIDE DEF o
  <2>3. rows' \subseteq Flying
    BY <1>4 DEF Flying
  <2> QED
    BY <1>4, <2>1, <2>2, <2>3, WriterMoves, WriterLands
<1>5. ASSUME NEW p \in Writers, RdHset(p) \/ RdZadd(p) \/ RdTrim(p)
      PROVE  Lands /\ \A r \in Readers : op'[r] = op[r]
  <2>1. Writes(p) /\ \E j \in Rowed : Go(p, [op[p] EXCEPT !.k = j])
    BY <1>1, <1>5 DEF RdHset, RdZadd, RdTrim, Writes
  <2>2. seq' = seq /\ rows' \subseteq rows \cup {op[p].row} /\ \A e \in index' : e \in index \/ e = Entry(op[p].row)
    BY <1>5 DEF RdHset, RdZadd, RdTrim
  <2> QED
    BY <1>4, <2>1, <2>2
<1>6. ASSUME NEW p \in Writers, RdBroken(p) PROVE Lands /\ \A r \in Readers : op'[r] = op[r]
  <2>1. Go(p, Idle) /\ UNCHANGED <<rows, seq, index>>
    BY <1>6 DEF RdBroken
  <2> QED
    BY <2>1, WriterMoves, OthersLand
<1>7. CASE RdExpires \/ \E s \in Streams : RdKeyExpires(s)
  <2>1. rows' \subseteq rows /\ index' \subseteq index /\ seq' = seq /\ op' = op
    BY <1>7 DEF RdExpires, RdKeyExpires
  <2> QED
    BY <2>1, OthersLand
<1> QED
  BY <1>2, <1>3, <1>5, <1>6, <1>7 DEF RdWrite

\* Postgres.
LEMMA PgLands ==
    ASSUME Typed, PgWrite
    PROVE  Lands /\ \A r \in Readers : op'[r] = op[r]
<1>1. Idle.k \notin Rowed /\ {"insert", "publish"} \subseteq Rowed /\ "purge" \notin Rowed
  BY DEF Idle, Rowed
<1>2. ASSUME NEW p \in Writers, NEW s \in Streams, NEW k \in Kinds, PgInsert(p, s, k)
      PROVE  Lands /\ \A r \in Readers : op'[r] = op[r]
  <2> DEFINE x == NewRow(s, TenantOf[p], k)
             o == [k |-> "insert", row |-> x]
  <2>1. x.id = seq + 1 /\ o.row = x
    BY DEF NewRow
  <2>2. Go(p, o) /\ rows' = rows /\ seq' = seq + 1 /\ index' = index
    BY <1>2 DEF PgInsert
  <2> HIDE DEF o, x
  <2>3. rows' \subseteq Flying \cup {o.row}
    BY <2>2 DEF Flying
  <2> QED
    BY <2>1, <2>2, <2>3, WriterMoves, WriterLands
<1>3. ASSUME NEW p \in Writers, PgCommits(p) PROVE Lands /\ \A r \in Readers : op'[r] = op[r]
  <2> DEFINE o == [op[p] EXCEPT !.k = "publish"]
  <2>1. Writes(p) /\ Go(p, o) /\ seq' = seq /\ rows' = rows \cup {op[p].row} /\ index' = index
    BY <1>3 DEF PgCommits, Writes, Rowed
  <2>2. o.row = op[p].row
    BY <2>1, RowKept
  <2> HIDE DEF o
  <2>3. rows' \subseteq Flying
    BY <2>1 DEF Flying
  <2> QED
    BY <2>1, <2>2, <2>3, WriterMoves, WriterLands
<1>4. ASSUME NEW p \in Writers, PgFails(p) PROVE Lands /\ \A r \in Readers : op'[r] = op[r]
  <2>1. Writes(p) /\ Go(p, Idle) /\ seq' = seq /\ index' = index /\ rows' \subseteq rows \cup {op[p].row}
    BY <1>4 DEF PgFails, Writes, Rowed
  <2>2. rows' \subseteq Flying
    BY <2>1 DEF Flying
  <2> QED
    BY <1>1, <2>1, <2>2, WriterMoves, WriterLands
<1>5. ASSUME NEW p \in Writers, PgPurgeBatch(p) PROVE Lands /\ \A r \in Readers : op'[r] = op[r]
  <2>1. rows' \subseteq rows /\ seq' = seq /\ index' = index /\ \E o \in {Idle, op[p]} : Go(p, o)
    BY <1>5 DEF PgPurgeBatch
  <2> QED
    BY <2>1, WriterMoves, OthersLand
<1>6. ASSUME NEW p \in Writers, NEW t \in Tenants, NEW bound \in BOOLEAN, PgPurge(p, t, bound) PROVE Lands /\ \A r \in Readers : op'[r] = op[r]
  <2> DEFINE o == [k |-> "purge", t |-> t, bound |-> bound, cut |-> old]
  <2>1. UNCHANGED <<rows, seq, index>> /\ Go(p, o)
    BY <1>6 DEF PgPurge
  <2>2. o.k \notin Rowed
    BY <1>1
  <2> HIDE DEF o
  <2>3. rows' \subseteq Flying
    BY <2>1 DEF Flying
  <2> QED
    BY <2>1, <2>2, <2>3, WriterMoves, WriterLands
<1> QED
  BY <1>2, <1>3, <1>4, <1>5, <1>6 DEF PgWrite

\* What the networked stores share: a replay goes on, or the server restarts.
LEMMA NetLands ==
    ASSUME Typed, Reading, NetStep
    PROVE  Lands /\ \A r \in Readers : op'[r] = op[r] \/ op'[r].k \notin ReplayKinds
<1>1. \A q \in Writers \cup Readers : q \in Procs
  BY DEF Procs
<1>2. Idle.k \notin ReplayKinds
  BY DEF Idle, ReplayKinds
<1>3. CASE Ages \/ \E p \in Writers, s, parent \in Streams : \E at \in 1..seq : RdFork(p, s, parent, at) \/ PgFork(p, s, parent, at)
  <2>1. UNCHANGED <<rows, index, seq, op>>
    BY <1>3 DEF Ages, RdFork, PgFork
  <2> QED
    BY <2>1, OthersLand
<1>4. CASE Restart
  <2>1. UNCHANGED <<rows, index, seq>> /\ \A q \in Writers \cup Readers : op'[q] = Idle
    BY <1>1, <1>4 DEF Restart
  <2> QED
    BY <1>2, <2>1, OthersLand
<1>5. ASSUME NEW p \in Writers, Publish(p)
      PROVE  Lands /\ \A r \in Readers : op'[r] = op[r] \/ op'[r].k \notin ReplayKinds
  <2>1. UNCHANGED <<rows, index, seq>>
    BY <1>5 DEF Publish
  <2>2. \A q \in Writers : op'[q] = op[q] \/ op'[q] = Idle
    <3>1. \A q \in Writers : q \notin Readers
      BY TableAssumption
    <3> QED
      BY <1>1, <1>5, <3>1 DEF Publish
  <2>3. ASSUME NEW r \in Readers PROVE op'[r] = op[r] \/ op'[r].k \notin ReplayKinds
    <3>1. op'[r] \in {Idle, op[r]} \/ (op[r].k = "sub" /\ \E e : op'[r] = [op[r] EXCEPT !.inbox = Append(@, e)])
      BY <1>1, <1>5 DEF Publish
    <3>2. CASE op[r].k = "sub" /\ \E e : op'[r] = [op[r] EXCEPT !.inbox = Append(@, e)]
      <4>1. op[r] \in SubsOf(backend, used.stores)
        BY <3>2, SubFacts DEF Reading
      <4>2. op'[r].k = "sub"
        BY <3>2, <4>1 DEF SubsOf
      <4> QED
        BY <4>2 DEF ReplayKinds
    <3> QED
      BY <1>2, <3>1, <3>2
  <2> QED
    BY <2>1, <2>2, <2>3, OthersLand
<1>6. ASSUME NEW p \in Writers, Unpublished(p) PROVE Lands /\ \A r \in Readers : op'[r] = op[r]
  <2>1. Go(p, Idle) /\ UNCHANGED <<rows, index, seq>>
    BY <1>6 DEF Unpublished, Ack
  <2> QED
    BY <2>1, WriterMoves, OthersLand
<1> QED
  BY <1>3, <1>4, <1>5, <1>6 DEF NetStep

\* Replays that go on while others do something.
LEMMA ReplaysStay ==
    ASSUME Typed, Typed', Replays, backend' = backend, ForksKept, RowsKept, seq <= seq', backend = "pipe" => Lands,
           \A r \in Readers : op'[r] = op[r] \/ op'[r].k \notin ReplayKinds
    PROVE  Replays'
<1> DEFINE K == acked \cap rows
           K2 == acked' \cap rows'
<1>1. /\ backend \in Backends /\ forks \in [Streams -> LinksOf(backend)] /\ forks' \in [Streams -> LinksOf(backend)]
      /\ used.forks \in Nat /\ used'.forks \in Nat /\ seq \in Nat /\ seq' \in Nat
  BY DEF Typed, Tables
<1>2. removed \subseteq removed' /\ \A e \in K : e \in K2 \/ e.id \in removed'
  BY DEF RowsKept
<1>3. used.forks <= used'.forks /\ (used'.forks = used.forks => \A s \in Streams : forks'[s] \in {forks[s], Root})
  BY DEF ForksKept
<1>4. backend = "pipe" => \A x \in Flying' : x \in Flying \/ (x.id \in Nat /\ x.id > seq)
  BY <1>1 DEF Lands
<1> SUFFICES ASSUME NEW r \in Readers PROVE ReplayAt(backend, forks', used'.forks, removed', K2, Flying', seq', op'[r])
  BY DEF Replays
<1>5. ReplayAt(backend, forks, used.forks, removed, K, Flying, seq, op[r])
  BY DEF Replays
<1> HIDE DEF K, K2
<1>6. CASE op'[r] = op[r]
  <2>1. ReplayAt(backend, forks', used'.forks, removed', K2, Flying', seq', op[r])
    BY <1>1, <1>2, <1>3, <1>4, <1>5, ReplayStays
  <2> QED
    BY <1>6, <2>1
<1>7. CASE op'[r].k \notin ReplayKinds
  BY <1>7 DEF ReplayAt
<1> QED
  BY <1>6, <1>7

\* A reader's own step.
LEMMA ReaderReplays ==
    ASSUME Typed, Reading, Apart, Indexed, Replays, NEW r \in Readers, ReaderStep(r)
    PROVE  Replays' /\ Lands
<1>1. PICK o : Go(r, o) /\ HoldsNow(o)
  <2>1. HoldsNow(op[r])
    BY DEF Replays, HoldsNow
  <2> QED
    BY <2>1, ReaderHolds
<1>2. UNCHANGED <<backend, rows, forks, seq, acked, removed>> /\ index' \subseteq index /\ used'.forks = used.forks
  <2>1. UNCHANGED <<backend, rows, forks, seq, acked, removed>> /\ index' \subseteq index /\ (used' = used \/ Bump("reads"))
    BY ReaderStepKeeps
  <2> QED
    BY <2>1, BumpForks
<1>3. r \in Procs /\ r \notin Writers /\ DOMAIN op = Procs /\ \A q \in Writers \cup Readers : q \in Procs
  BY TableAssumption DEF Procs, Typed, Coroutines
<1>4. op'[r] = o /\ (\A q \in Readers \ {r} : op'[q] = op[q]) /\ \A q \in Writers : op'[q] = op[q]
  BY <1>1, <1>3 DEF Go
<1>5. Lands
  BY <1>2, <1>4, OthersLand
<1>6. Flying' = Flying
  BY <1>2, <1>4 DEF Flying, Writes
<1>7. \A q \in Readers : HoldsNow(op'[q])
  BY <1>1, <1>4 DEF Replays, HoldsNow
<1> QED
  BY <1>2, <1>5, <1>6, <1>7 DEF Replays, HoldsNow

LEMMA ReplaysStep ==
    ASSUME Typed, Typed', Reading, Apart, Indexed, Replays, [Next]_vars
    PROVE  Replays' /\ Apart'
<1>1. backend' = backend
  BY SameStore
<1>2. seq \in Nat
  BY DEF Typed, Tables
<1>3. CASE UNCHANGED vars
  <2>1. UNCHANGED <<backend, rows, index, forks, seq, op, acked, removed, used>>
    BY <1>3 DEF vars, common
  <2>2. Flying' = Flying
    BY <2>1 DEF Flying, Writes
  <2> QED
    BY <2>1, <2>2 DEF Replays, Apart, Sqlite
<1>4. ASSUME NEW r \in Readers, ReaderStep(r) PROVE Replays' /\ Apart'
  BY <1>1, <1>4, ReaderReplays, ApartLands
<1>5. CASE RdWrite \/ PgWrite \/ NetStep
  <2>1. ForksKept /\ RowsKept /\ Lands /\ \A r \in Readers : op'[r] = op[r] \/ op'[r].k \notin ReplayKinds
    BY <1>5, RdKeeps, RdLands, PgKeeps, PgLands, NetKeeps, NetLands
  <2>2. seq <= seq'
    BY <1>2, <2>1 DEF Lands
  <2> QED
    BY <1>1, <2>1, <2>2, ReplaysStay, ApartLands
<1>6. CASE SqWrite
  <2>1. Sqlite
    BY <1>6, OnlySqlite
  <2>2. Apart'
    BY <1>1, <2>1, ApartLands
  <2>3. CASE op' = [p \in Procs |-> Idle]
    <3>1. \A r \in Readers : op'[r].k \notin ReplayKinds
      BY <2>3 DEF Procs, Idle, ReplayKinds
    <3> QED
      BY <2>2, <3>1 DEF Replays, ReplayAt
  <2>4. CASE Adds /\ (\A r \in Readers : op'[r] = op[r]) /\ ~ (SqClosed \/ SqCrash)
    <3>1. seq <= seq'
      BY <1>2, <2>4 DEF Adds
    <3> QED
      BY <1>1, <1>6, <2>1, <2>2, <2>4, <3>1, SqKeeps, ReplaysStay DEF Sqlite
  <2>5. CASE SqClosed \/ SqCrash
    <3>1. op' = [p \in Procs |-> Idle]
      BY <2>5 DEF SqClosed, SqCrash, Reopen
    <3> QED
      BY <2>3, <3>1
  <2> QED
    BY <1>6, <2>1, <2>3, <2>4, <2>5, SqWriteReading
<1> QED
  BY <1>3, <1>4, <1>5, <1>6, Steps

\* Every replay, always.
Replayed == Replays /\ Apart

LEMMA ReplaysAlways == Spec => [](Typed /\ Replayed)
<1>1. Init => Replays /\ Apart
  <2> SUFFICES ASSUME Init PROVE Replays /\ Apart
    OBVIOUS
  <2>1. \A p \in Writers \cup Readers : op[p] = Idle
    BY DEF Init, Procs
  <2>2. (\A p \in Writers : ~ Writes(p)) /\ \A r \in Readers : op[r].k \notin ReplayKinds
    BY <2>1 DEF Writes, Rowed, Idle, ReplayKinds
  <2>3. Flying = {} /\ index = {}
    BY <2>2 DEF Init, Flying
  <2> QED
    BY <2>2, <2>3 DEF Replays, ReplayAt, Apart
<1> QED
  BY <1>1, ReplaysStep, IndexedAlways, ReadingAlways, TypedAlways, PTL DEF Spec, Replayed

\* A finished replay over the fork table it began with has the history it had to return.
LEMMA FinishedFacts ==
    ASSUME Typed, Replays, NEW r \in Readers, Settled(r)
    PROVE  /\ Shaped(backend, op[r]) /\ Ours(op[r]) /\ op[r].segs = <<>> /\ op[r].k = "done"
           /\ forks = op[r].fk /\ Owed(removed, acked \cap rows, op[r])
           /\ Nested(forks) => Exact(backend, op[r])
<1>1. op[r].k = "done" /\ forks = op[r].fk /\ used.forks = op[r].at0 /\ Acyclic(forks)
  BY DEF Settled, Done
<1>2. Live(forks, used.forks, op[r])
  BY <1>1 DEF Live
<1>3. ReplayAt(backend, forks, used.forks, removed, acked \cap rows, Flying, seq, op[r])
  BY DEF Replays
<1>4. Shaped(backend, op[r]) /\ Ours(op[r]) /\ Owed(removed, acked \cap rows, op[r]) /\ (Nested(op[r].fk) => Exact(backend, op[r]))
  BY <1>1, <1>2, <1>3 DEF ReplayAt, ReplayKinds
<1> QED
  BY <1>1, <1>4 DEF Shaped

\* Whatever the store, its pages, chunks and segments, and whatever is written, purged, expired or
\* forked between two queries of it: a finished replay returned all of the stream's history that
\* was acknowledged when it began, is after the anchor and was not removed or expired meanwhile,
\* if the fork table is the one it began with (replay_events_after, _get_stream_segments).
THEOREM NothingLostInReplay == Spec => []ReplayComplete
<1>1. Typed /\ Replayed => ReplayComplete
  <2> SUFFICES ASSUME Typed, Replays, NEW r \in Readers, Settled(r)
               PROVE  op[r].must \ (removed \cup op[r].cut) \subseteq OutIds(r)
    BY DEF Replayed, ReplayComplete
  <2> DEFINE o == op[r]
  <2>1. Shaped(backend, o) /\ o.segs = <<>> /\ o.k = "done" /\ Owed(removed, acked \cap rows, o)
    BY FinishedFacts
  <2> HIDE DEF o
  <2>2. \A e : ~ Ahead(o, e)
    BY <2>1 DEF Ahead
  <2>3. OutOf(o) = {o.out[i].id : i \in DOMAIN o.out}
    <3>1. DOMAIN o.out = 1..Len(o.out)
      BY <2>1 DEF Shaped
    <3> QED
      BY <3>1 DEF OutOf
  <2>4. o.must \ (removed \cup o.cut) \subseteq OutOf(o)
    BY <2>1, <2>2 DEF Owed
  <2> QED
    BY <2>3, <2>4 DEF OutIds, o
<1> QED
  BY <1>1, ReplaysAlways, PTL

\* While no stream was forked off a fork at an event from before that fork's own fork point, a
\* finished replay returned each event once, in the order of the ids, of the stream's history and
\* nothing else (replay_events_after, _get_stream_segments); forked like that, what it gets of the
\* oldest stream is too much, as the run about BranchHasItsPastOnly shows.
THEOREM ReplayIsTheHistory == Spec => [](Nested(forks) => ReplayExact)
<1>1. Typed /\ Replayed => (Nested(forks) => ReplayExact)
  <2> SUFFICES ASSUME Typed, Replays, Nested(forks), NEW r \in Readers
               PROVE  /\ op[r].k = "link" => Len(op[r].segs) <= Cardinality(Streams)
                      /\ Settled(r) =>
                            LET out == op[r].out
                            IN  /\ \A i, j \in DOMAIN out : i < j => out[i].id < out[j].id
                                /\ \A x \in ToSet(out) : /\ x.id > op[r].last /\ Sees(op[r].t, x)
                                                        /\ x \in History(forks, op[r].s, {x})
    BY DEF Replayed, ReplayExact
  <2> DEFINE o == op[r]
  <2>1. ASSUME o.k = "link" PROVE Len(o.segs) <= Cardinality(Streams)
    <3>1. Shaped(backend, o)
      BY <2>1 DEF Replays, ReplayAt, ReplayKinds
    <3> HIDE DEF o
    <3>2. o.seen \subseteq Streams /\ Cardinality(o.seen) = Len(o.segs)
      BY <2>1, <3>1 DEF Shaped
    <3> QED
      BY <3>2, StreamsAssumption, FS_Subset
  <2>2. ASSUME Settled(r)
        PROVE  /\ \A i, j \in DOMAIN o.out : i < j => o.out[i].id < o.out[j].id
               /\ \A x \in ToSet(o.out) : x.id > o.last /\ Sees(o.t, x) /\ x \in History(forks, o.s, {x})
    <3>1. Shaped(backend, o) /\ Ours(o) /\ forks = o.fk /\ Exact(backend, o)
      BY <2>2, FinishedFacts
    <3> HIDE DEF o
    <3>2. DOMAIN o.out = 1..Len(o.out)
      BY <3>1 DEF Shaped
    <3>3. ASSUME NEW x \in ToSet(o.out) PROVE x.id > o.last /\ Sees(o.t, x) /\ x \in History(forks, o.s, {x})
      <4>1. PICK i \in 1..Len(o.out) : x = o.out[i]
        BY <3>2, <3>3 DEF ToSet
      <4> QED
        BY <3>1, <4>1 DEF Ours, Exact, Within, History
    <3> QED
      BY <3>1, <3>2, <3>3 DEF Exact, Rising
  <2> QED
    BY <2>1, <2>2
<1> QED
  BY <1>1, ReplaysAlways, PTL

\* A walk has no more segments than there are streams, and a replay nothing from before its anchor.
ReplayBounded ==
    \A r \in Readers : op[r].k \in ReplayKinds =>
        /\ op[r].k = "link" => Len(op[r].segs) <= Cardinality(Streams)
        /\ \A i \in 1..Len(op[r].out) : op[r].out[i].id > op[r].last /\ Sees(op[r].t, op[r].out[i])

\* Whatever was forked at what, loops included, and whenever: a chain of forks is walked to its end
\* within as many lookups as there are streams, and at no time has a replay an event from before
\* its anchor or of another tenant (_get_stream_segments, replay_events_after).
THEOREM ReplayStaysInBounds == Spec => []ReplayBounded
<1>1. Replayed => ReplayBounded
  <2> SUFFICES ASSUME Replays, NEW r \in Readers, op[r].k \in ReplayKinds
               PROVE  /\ op[r].k = "link" => Len(op[r].segs) <= Cardinality(Streams)
                      /\ \A i \in 1..Len(op[r].out) : op[r].out[i].id > op[r].last /\ Sees(op[r].t, op[r].out[i])
    BY DEF Replayed, ReplayBounded
  <2> DEFINE o == op[r]
  <2>1. Shaped(backend, o) /\ Ours(o)
    BY DEF Replays, ReplayAt
  <2> HIDE DEF o
  <2>2. o.k = "link" => o.seen \subseteq Streams /\ Cardinality(o.seen) = Len(o.segs)
    BY <2>1 DEF Shaped
  <2>3. o.k = "link" => Len(o.segs) <= Cardinality(Streams)
    BY <2>2, StreamsAssumption, FS_Subset
  <2> QED
    BY <2>1, <2>3 DEF Ours, o
<1> QED
  BY <1>1, ReplaysAlways, PTL

==============================================================================
