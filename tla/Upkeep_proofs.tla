---- MODULE Upkeep_proofs ----
(***************************************************************************)
(* Proofs about the jobs done to the stores, for any number of streams,    *)
(* events, archivers, readers, failures and forks, and any batch size:     *)
(* archiving loses no event; the audit trail is exact; a migrated stream   *)
(* keeps its history; a replay across the two tiers misses nothing.        *)
(***************************************************************************)
EXTENDS Upkeep, OrderedSequences_proofs, FiniteSetTheorems, TLAPS

\* An archiver rests, or it has a batch of events that were stored (those in A), of which
\* the rows it has copied are in the cold store C: all of them, once it may delete.
ArchiverAt(o, A, C) ==
    \/ o \in {Idle, [k |-> "again"]}
    \/ /\ o \in [k : {"copy", "delete"}, batch : SUBSET A, left : SUBSET A]
       /\ o.batch \ o.left \subseteq C
       /\ o.k = "delete" => o.left = {}

\* Both stores hold events that were stored, under the id each was stored with.
Numbered ==
    /\ seq \in Nat
    /\ \A x \in acked : x.id \in 1..seq
    /\ \A x, y \in acked : x.id = y.id => x = y
    /\ hot \subseteq acked /\ cold \subseteq acked

TierInv ==
    Tiered => /\ Numbered
              /\ NothingLost
              /\ DOMAIN op = Procs
              /\ \A a \in Archivers : ArchiverAt(op[a], acked, cold)

-----------------------------------------------------------------------------

\* What an archiver relies on stays as long as both sets only grow.
LEMMA ArchiverKept ==
    ASSUME NEW o, NEW A, NEW B, NEW C, NEW D,
           A \subseteq B, C \subseteq D, ArchiverAt(o, A, C)
    PROVE  ArchiverAt(o, B, D)
<1>1. CASE o \in {Idle, [k |-> "again"]}
  BY <1>1 DEF ArchiverAt
<1>2. CASE ~ (o \in {Idle, [k |-> "again"]})
  <2>1. /\ o \in [k : {"copy", "delete"}, batch : SUBSET A, left : SUBSET A]
        /\ o.batch \ o.left \subseteq C
        /\ o.k = "delete" => o.left = {}
    BY <1>2 DEF ArchiverAt
  <2>2. o \in [k : {"copy", "delete"}, batch : SUBSET B, left : SUBSET B]
    BY <2>1
  <2> QED
    BY <2>1, <2>2 DEF ArchiverAt
<1> QED
  BY <1>1, <1>2

\* A row that is upserted under an id only that event has joins the others.
LEMMA UpsertAdds ==
    ASSUME NEW S, NEW A, NEW x \in A, S \subseteq A,
           \A y, z \in A : y.id = z.id => y = z
    PROVE  Upsert(S, x) = S \cup {x}
BY DEF Upsert

\* The rows an archiver deletes are those it has copied.
LEMMA DeletedIsCold ==
    ASSUME Tiered, TierInv, NEW a \in Archivers, op[a].k = "delete",
           NEW x \in hot, x.id \in Ids(op[a].batch)
    PROVE  x \in cold
<1>1. ArchiverAt(op[a], acked, cold) /\ Numbered
  BY DEF TierInv
<1>2. op[a].batch \subseteq acked /\ op[a].batch \subseteq cold
  BY <1>1 DEF ArchiverAt, Idle
<1>3. PICK y \in op[a].batch : y.id = x.id
  BY DEF Ids
<1> QED
  BY <1>1, <1>2, <1>3 DEF Numbered

-----------------------------------------------------------------------------
(* The steps of the archiver.                                              *)

LEMMA SelectKeeps ==
    ASSUME Tiered, TierInv, NEW a \in Archivers, Select(a)
    PROVE  TierInv'
<1>1. Numbered' /\ NothingLost' /\ Tiered'
  BY DEF TierInv, Select, Numbered, NothingLost, Tiered
<1>2. DOMAIN op' = Procs
  BY DEF TierInv, Select, Go
<1>3. SmallestOf(Expired, Batch) \subseteq acked
  BY DEF SmallestOf, Expired, TierInv, Numbered
<1>4. ArchiverAt(op'[a], acked, cold)
  <2> DEFINE b == SmallestOf(Expired, Batch)
  <2>1. op'[a] = IF b = {} THEN Idle ELSE [k |-> "copy", batch |-> b, left |-> b]
    BY DEF TierInv, Select, Go, Procs
  <2> QED
    BY <1>3, <2>1 DEF ArchiverAt
<1>5. \A q \in Archivers \ {a} : op'[q] = op[q]
  BY DEF TierInv, Select, Go, Procs
<1>6. \A q \in Archivers : ArchiverAt(op'[q], acked, cold)
  BY <1>4, <1>5 DEF TierInv
<1>7. acked' = acked /\ cold' = cold
  BY DEF Select
<1> QED
  BY <1>1, <1>2, <1>6, <1>7 DEF TierInv

LEMMA CopyKeeps ==
    ASSUME Tiered, TierInv, NEW a \in Archivers, Copy(a)
    PROVE  TierInv'
<1>1. /\ Numbered /\ acked \subseteq hot \cup cold /\ DOMAIN op = Procs
      /\ \A q \in Archivers : ArchiverAt(op[q], acked, cold)
  BY DEF TierInv, NothingLost
<1>2. /\ op[a] \in [k : {"copy", "delete"}, batch : SUBSET acked, left : SUBSET acked]
      /\ op[a].batch \ op[a].left \subseteq cold
      /\ op[a].k = "copy"
  <2>1. op[a].k = "copy"
    BY DEF Copy
  <2>2. op[a] \notin {Idle, [k |-> "again"]}
    BY <2>1 DEF Idle
  <2> QED
    BY <1>1, <2>1, <2>2 DEF ArchiverAt
<1> DEFINE left(x) == op[a].left \ {x}
           next(x) == [op[a] EXCEPT !.left = left(x),
                                    !.k = IF left(x) = {} THEN "delete" ELSE "copy"]
<1>3. PICK x \in SmallestOf(op[a].left, 1) :
         /\ cold' = Upsert(cold, x)
         /\ op' = [q \in Procs |->
                     CASE q = a -> next(x)
                       [] op[q].k = "read" -> [op[q] EXCEPT !.moved = @ \cup {x.id}]
                       [] OTHER -> op[q]]
  BY DEF Copy
<1>4. x \in op[a].left /\ x \in acked
  BY <1>2, <1>3 DEF SmallestOf
<1>5. cold' = cold \cup {x}
  BY <1>1, <1>3, <1>4, UpsertAdds DEF Numbered
<1>6. /\ job' = job /\ hot' = hot /\ acked' = acked /\ seq' = seq
  BY DEF Copy
<1>7. Numbered' /\ NothingLost' /\ Tiered'
  BY <1>1, <1>4, <1>5, <1>6 DEF Numbered, NothingLost, Tiered
<1>8. ArchiverAt(op'[a], acked, cold')
  <2>1. a \in Procs
    BY DEF Procs
  <2>2. op'[a] = CASE a = a -> next(x)
                   [] op[a].k = "read" -> [op[a] EXCEPT !.moved = @ \cup {x.id}]
                   [] OTHER -> op[a]
    BY ONLY <1>3, <2>1
  <2>3. op[a].k # "read"
    BY <1>2
  <2>4. op'[a] = next(x)
    BY ONLY <2>2, <2>3
  <2>5. next(x) \in [k : {"copy", "delete"}, batch : SUBSET acked, left : SUBSET acked]
    BY <1>2
  <2>6. /\ next(x).batch = op[a].batch /\ next(x).left = left(x)
        /\ next(x).k = IF left(x) = {} THEN "delete" ELSE "copy"
    BY <1>2
  <2>7. next(x).batch \ next(x).left \subseteq cold'
    BY <1>2, <1>5, <2>6
  <2> QED
    BY <2>4, <2>5, <2>6, <2>7 DEF ArchiverAt
<1>9. ASSUME NEW q \in Archivers \ {a}
      PROVE  ArchiverAt(op'[q], acked, cold')
  <2>1. op[q].k # "read"
    BY <1>1 DEF ArchiverAt, Idle
  <2>2. op'[q] = op[q]
    BY <1>3, <2>1 DEF Procs
  <2> QED
    BY <1>1, <1>5, <2>2, ArchiverKept
<1>10. \A q \in Archivers : ArchiverAt(op'[q], acked', cold')
  BY <1>6, <1>8, <1>9
<1>11. DOMAIN op' = Procs
  BY <1>3
<1> QED
  BY <1>7, <1>10, <1>11 DEF TierInv

LEMMA DeleteKeeps ==
    ASSUME Tiered, TierInv, NEW a \in Archivers, Delete(a)
    PROVE  TierInv'
<1> DEFINE S == {x \in hot : x.id \in Ids(op[a].batch)}
           next == IF Cardinality(op[a].batch) < Batch THEN Idle ELSE [k |-> "again"]
<1>1. /\ op[a].k = "delete"
      /\ Removes(a, S, next)
      /\ job' = job /\ cold' = cold /\ seq' = seq /\ acked' = acked
  BY DEF Delete, DeletesBatch
<1>2. hot' = hot \ S /\ S \subseteq cold
  BY <1>1, DeletedIsCold DEF Removes
<1>3. Numbered' /\ NothingLost' /\ Tiered'
  BY <1>1, <1>2 DEF TierInv, Numbered, NothingLost, Tiered
<1>4. /\ DOMAIN op' = Procs
      /\ op'[a] = next
      /\ \A q \in Archivers \ {a} : op'[q] = op[q]
  BY <1>1, TiersAssumption DEF Removes, Procs
<1>5. \A q \in Archivers : ArchiverAt(op'[q], acked, cold)
  BY <1>4 DEF TierInv, ArchiverAt
<1> QED
  BY <1>1, <1>3, <1>4, <1>5 DEF TierInv

LEMMA FailKeeps ==
    ASSUME Tiered, TierInv, NEW a \in Archivers, Fails(a)
    PROVE  TierInv'
<1>1. Numbered' /\ NothingLost' /\ Tiered'
  BY DEF TierInv, Fails, Numbered, NothingLost, Tiered
<1>2. /\ DOMAIN op' = Procs /\ acked' = acked /\ cold' = cold
      /\ op'[a] = Idle
      /\ \A q \in Archivers \ {a} : op'[q] = op[q]
  BY DEF TierInv, Fails, Go, Procs
<1>3. \A q \in Archivers : ArchiverAt(op'[q], acked, cold)
  BY <1>2 DEF TierInv, ArchiverAt
<1> QED
  BY <1>1, <1>2, <1>3 DEF TierInv

-----------------------------------------------------------------------------
(* The steps of everybody else.                                            *)

\* A new event goes to hot, under an id no other has.
LEMMA StoreKeeps ==
    ASSUME Tiered, TierInv, NEW s, NEW t, Store(s, t)
    PROVE  TierInv'
<1> DEFINE x == [id |-> seq + 1, s |-> s, t |-> t, from |-> seq + 1]
<1>1. /\ hot' = hot \cup {x} /\ acked' = acked \cup {x} /\ seq' = seq + 1
      /\ job' = job /\ cold' = cold /\ op' = op
  BY DEF Store
<1>2. Numbered'
  <2>1. seq + 1 \in Nat /\ \A y \in acked : y.id \in 1..seq
    BY DEF TierInv, Numbered
  <2>2. \A y \in acked : y.id \in 1..(seq + 1) /\ y.id # x.id
    BY <2>1 DEF TierInv, Numbered
  <2>3. x.id \in 1..(seq + 1)
    BY <2>1 DEF TierInv, Numbered
  <2> QED
    BY <1>1, <2>1, <2>2, <2>3 DEF TierInv, Numbered
<1>3. NothingLost' /\ Tiered'
  BY <1>1 DEF TierInv, NothingLost, Tiered
<1>4. \A q \in Archivers : ArchiverAt(op[q], acked', cold)
  BY <1>1, ArchiverKept DEF TierInv
<1> QED
  BY <1>1, <1>2, <1>3, <1>4 DEF TierInv

\* A step that leaves the stores alone, and the archivers where they are.
LEMMA OthersKeep ==
    ASSUME Tiered, TierInv,
           job' = job, hot' = hot, cold' = cold, seq' = seq, acked' = acked,
           DOMAIN op' = DOMAIN op, \A a \in Archivers : op'[a] = op[a]
    PROVE  TierInv'
BY DEF TierInv, Numbered, NothingLost, Tiered

\* A fork changes the tables of forks only.
LEMMA ForkKeeps ==
    ASSUME Tiered, TierInv,
           (\E c, p \in Streams, at \in 1..seq : ForkHot(c, p, at)) \/ ForkCold \/ ForkColdFails
    PROVE  TierInv'
<1>1. "forker" \in Procs \ Archivers
  BY TiersAssumption DEF Procs, Services
<1>2. /\ job' = job /\ hot' = hot /\ cold' = cold /\ seq' = seq /\ acked' = acked
      /\ \E o : op' = [op EXCEPT !["forker"] = o]
  BY DEF ForkHot, ForkCold, ForkColdFails, Go
<1>3. DOMAIN op' = DOMAIN op /\ \A a \in Archivers : op'[a] = op[a]
  BY <1>1, <1>2 DEF TierInv, Procs
<1> QED
  BY <1>2, <1>3, OthersKeep

\* A replay changes nothing but what its reader knows.
Reads(r) ==
    \/ \E last \in 0..seq, s \in Streams \cup {Nobody} : AskFirst(r, last, s)
    \/ AskSecond(r) \/ ReplayHot(r) \/ ReplayCold(r) \/ ReadSegment(r) \/ Walk(r) \/ Answered(r)
LEMMA ReadKeeps ==
    ASSUME Tiered, TierInv, NEW r \in Readers, Reads(r)
    PROVE  TierInv'
<1>1. r \in Procs \ Archivers
  BY TiersAssumption DEF Procs
<1>2. /\ job' = job /\ hot' = hot /\ cold' = cold /\ seq' = seq /\ acked' = acked
      /\ \E o : op' = [op EXCEPT ![r] = o]
  <2>1. CASE \E last \in 0..seq, s \in Streams \cup {Nobody} : AskFirst(r, last, s)
    BY <2>1 DEF AskFirst, Go
  <2>2. CASE AskSecond(r)
    BY <2>2 DEF AskSecond, Go
  <2>3. CASE ReplayHot(r)
    BY <2>3 DEF ReplayHot, Go
  <2>4. CASE ReplayCold(r)
    BY <2>4 DEF ReplayCold, Go
  <2>5. CASE ReadSegment(r)
    BY <2>5 DEF ReadSegment, Go
  <2>6. CASE Walk(r)
    BY <2>6 DEF Walk, Go
  <2>7. CASE Answered(r)
    BY <2>7 DEF Answered, Go
  <2> QED
    BY <2>1, <2>2, <2>3, <2>4, <2>5, <2>6, <2>7 DEF Reads
<1>3. DOMAIN op' = DOMAIN op /\ \A a \in Archivers : op'[a] = op[a]
  BY <1>1, <1>2 DEF TierInv, Procs
<1> QED
  BY <1>2, <1>3, OthersKeep

-----------------------------------------------------------------------------

LEMMA TierInvInit == Init => TierInv
BY DEF Init, TierInv, Numbered, NothingLost, ArchiverAt, Procs

LEMMA TierInvStep == TierInv /\ [Next]_vars => TierInv'
<1> SUFFICES ASSUME TierInv, [Next]_vars
             PROVE  TierInv'
  OBVIOUS
<1>1. CASE UNCHANGED vars
  BY <1>1 DEF vars, tiers, TierInv, Numbered, NothingLost, Tiered
<1>2. CASE Next /\ ~ Tiered
  <2>1. job' = job
    <3>1. CASE PurgeStep
      BY <3>1 DEF PurgeStep, Store, Ages, Purge, PurgeGivesUp
    <3>2. CASE RetentionStep
      BY <3>2 DEF RetentionStep, Store, Ages, Wakes, CycleEnds, PurgeBatch, PurgeFails, Record,
                  RecordFails, SinkFails, Restarts, NextTenant
    <3>3. CASE MigrationStep
      BY <3>3 DEF MigrationStep, Store, ForkHot, ForkCold, ForkColdFails, Migrate, Fetch, Put,
                  PutAs, StreamDone, StreamFails, NextStream
    <3> QED
      BY <1>2, <3>1, <3>2, <3>3 DEF Next, TierStep
  <2> QED
    BY <1>2, <2>1 DEF TierInv, Tiered
<1>3. CASE TierStep
  <2>0. Tiered
    BY <1>3 DEF TierStep
  <2>1. CASE \E s \in Streams : Store(s, NoTenant)
    BY <2>0, <2>1, StoreKeeps
  <2>2. CASE Ages(NoTenant)
    BY <2>0, <2>2, OthersKeep DEF Ages
  <2>3. CASE \E a \in Archivers : Archive(a) \/ Fails(a)
    BY <2>0, <2>3, SelectKeeps, CopyKeeps, DeleteKeeps, FailKeeps DEF Archive
  <2>4. CASE (\E c, p \in Streams, at \in 1..seq : ForkHot(c, p, at)) \/ ForkCold \/ ForkColdFails
    BY <2>0, <2>4, ForkKeeps
  <2>5. CASE \E r \in Readers : Reads(r)
    BY <2>0, <2>5, ReadKeeps
  <2> QED
    BY <1>3, <2>1, <2>2, <2>3, <2>4, <2>5 DEF TierStep, Reads
<1>4. CASE Next /\ Tiered
  BY <1>3, <1>4 DEF Next, Tiered, PurgeStep, RetentionStep, Retains, MigrationStep, Migrates
<1> QED
  BY <1>1, <1>2, <1>4

\* While archivers move expired events from the hot store to the cold one, every event that
\* was stored is in one of the two, whatever fails between the copies and the delete of a
\* batch and however many archivers overlap (archive_expired_batch, stored.py:84).
THEOREM ArchivingLosesNothing == Spec => []NothingLost
<1>1. TierInv => NothingLost
  BY DEF TierInv, NothingLost
<1> QED
  BY <1>1, TierInvInit, TierInvStep, PTL DEF Spec

-----------------------------------------------------------------------------
(* Types.                                                                  *)

OpKinds == {"idle", "copy", "delete", "again", "ended", "fork", "ask", "hot", "cold", "read", "walk", "done",
            "cycle", "purge", "record", "halted", "next"}
Stage(o) == "k" \in DOMAIN o /\ o.k \in OpKinds
Unique(S) == \A x, y \in S : x.id = y.id => x = y
Links(n) == {Root} \cup [p : Streams, at : 1..n]

Shape ==
    /\ job \in Jobs /\ seq \in Nat /\ coldSeq \in Nat
    /\ Unique(hot) /\ \A x \in hot : x.id \in 1..seq
    /\ Unique(cold) /\ \A x \in cold : x.id \in 1..coldSeq
    /\ hotForks \in [Streams -> Links(seq)]
    /\ DOMAIN op = Procs /\ \A p \in Procs : Stage(op[p])

\* A step that lets one coroutine go on, and may delete rows of the hot store.
LEMMA GoShape ==
    ASSUME Shape, NEW p \in Procs, NEW o, op' = [op EXCEPT ![p] = o], Stage(o),
           UNCHANGED <<job, seq, coldSeq, cold, hotForks>>, hot' \subseteq hot
    PROVE  Shape'
<1>1. DOMAIN op' = Procs /\ op'[p] = o /\ \A q \in Procs \ {p} : op'[q] = op[q]
  BY DEF Shape
<1>2. DOMAIN op' = Procs /\ \A q \in Procs : Stage(op'[q])
  BY <1>1 DEF Shape
<1> QED
  BY <1>2 DEF Shape, Unique, Stage

LEMMA StoreShape ==
    ASSUME Shape, NEW s, NEW t, Store(s, t) \/ Ages(t)
    PROVE  Shape'
<1>1. CASE Ages(t)
  BY <1>1 DEF Ages, Shape, Stage, Unique
<1>2. CASE Store(s, t)
  <2> DEFINE x == [id |-> seq + 1, s |-> s, t |-> t, from |-> seq + 1]
  <2>1. hot' = hot \cup {x} /\ seq' = seq + 1 /\ UNCHANGED <<job, cold, hotForks, coldSeq, op>> /\ x.id = seq + 1
    BY <1>2 DEF Store
  <2> HIDE DEF x
  <2>2. \A n \in 1..seq : n # seq + 1 /\ n \in 1..(seq + 1)
    BY DEF Shape
  <2>3. Unique(hot') /\ \A y \in hot' : y.id \in 1..seq'
    BY <2>1, <2>2 DEF Shape, Unique
  <2>4. hotForks' \in [Streams -> Links(seq')]
    <3>1. [p : Streams, at : 1..seq] \subseteq [p : Streams, at : 1..(seq + 1)]
      BY <2>2
    <3>2. Links(seq) \subseteq Links(seq + 1)
      BY <3>1 DEF Links
    <3> QED
      BY <2>1, <3>2 DEF Shape
  <2> QED
    BY <2>1, <2>3, <2>4 DEF Shape, Unique, Stage
<1> QED
  BY <1>1, <1>2

LEMMA ForkShape ==
    ASSUME Shape, (\E c, p \in Streams, at \in 1..seq : ForkHot(c, p, at)) \/ ForkCold \/ ForkColdFails
    PROVE  Shape'
<1>1. "forker" \in Procs
  BY DEF Procs, Services
<1>2. Stage(Idle) /\ \A c : Stage([k |-> "fork", s |-> c])
  BY DEF Stage, OpKinds, Idle
<1>3. CASE ForkCold \/ ForkColdFails
  BY <1>1, <1>2, <1>3, GoShape DEF ForkCold, ForkColdFails, Go
<1>4. ASSUME NEW c \in Streams, NEW p \in Streams, NEW at \in 1..seq, ForkHot(c, p, at) PROVE Shape'
  <2>1. /\ op' = [op EXCEPT !["forker"] = [k |-> "fork", s |-> c]]
        /\ hotForks' = [hotForks EXCEPT ![c] = [p |-> p, at |-> at]]
        /\ UNCHANGED <<job, hot, cold, seq, coldSeq>>
    BY <1>4 DEF ForkHot, Go
  <2>2. hotForks' \in [Streams -> Links(seq)]
    BY <2>1 DEF Shape, Links
  <2>3. DOMAIN op' = Procs /\ \A q \in Procs : Stage(op'[q])
    BY <1>1, <1>2, <2>1 DEF Shape
  <2> QED
    BY <2>1, <2>2, <2>3 DEF Shape, Unique, Stage
<1> QED
  BY <1>3, <1>4

LEMMA ReadShape ==
    ASSUME Shape, NEW r \in Readers, Reads(r)
    PROVE  Shape'
<1>1. r \in Procs /\ Stage(op[r]) /\ Stage(Idle)
  BY DEF Procs, Shape, Stage, Idle, OpKinds
<1>2. UNCHANGED <<job, hot, cold, seq, coldSeq, hotForks>> /\ \E o : Stage(o) /\ op' = [op EXCEPT ![r] = o]
  <2>1. ASSUME NEW last \in 0..seq, NEW s \in Streams \cup {Nobody}, AskFirst(r, last, s)
        PROVE  UNCHANGED <<job, hot, cold, seq, coldSeq, hotForks>> /\ \E o : Stage(o) /\ op' = [op EXCEPT ![r] = o]
    BY <2>1 DEF AskFirst, Go, Stage, OpKinds
  <2>2. CASE AskSecond(r)
    BY <1>1, <2>2 DEF AskSecond, Go, Stage, OpKinds
  <2>3. CASE ReplayHot(r)
    BY <1>1, <2>3 DEF ReplayHot, Go, Stage, OpKinds
  <2>4. CASE ReplayCold(r)
    BY <1>1, <2>4 DEF ReplayCold, Go, Stage, OpKinds
  <2>5. CASE ReadSegment(r)
    BY <1>1, <2>5 DEF ReadSegment, Go, Stage, OpKinds
  <2>6. CASE Walk(r)
    BY <1>1, <2>6 DEF Walk, Go, Stage, OpKinds
  <2>7. CASE Answered(r)
    BY <1>1, <2>7 DEF Answered, Go
  <2> QED
    BY <2>1, <2>2, <2>3, <2>4, <2>5, <2>6, <2>7 DEF Reads
<1> QED
  BY <1>1, <1>2, GoShape

\* The steps of the archiver: a copied row keeps its id, which its copies share.
LEMMA ArchiveShape ==
    ASSUME Shape, TierInv, Tiered, NEW a \in Archivers, Archive(a) \/ Fails(a)
    PROVE  Shape'
<1>1. a \in Procs /\ Stage(op[a]) /\ Stage(Idle) /\ Stage([k |-> "again"])
  BY DEF Procs, Shape, Stage, Idle, OpKinds
<1>2. CASE Select(a)
  <2> DEFINE o == IF SmallestOf(Expired, Batch) = {} THEN Idle
                  ELSE [k |-> "copy", batch |-> SmallestOf(Expired, Batch), left |-> SmallestOf(Expired, Batch)]
  <2>1. op' = [op EXCEPT ![a] = o] /\ UNCHANGED <<job, hot, cold, hotForks, seq, coldSeq>>
    BY <1>2 DEF Select, Go
  <2>2. Stage(o)
    BY <1>1 DEF Stage, OpKinds
  <2> HIDE DEF o
  <2> QED
    BY <1>1, <2>1, <2>2, GoShape
<1>3. CASE Copy(a)
  <2>1. PICK x \in SmallestOf(op[a].left, 1) :
           /\ cold' = Upsert(cold, x)
           /\ coldSeq' = RaisedTo(coldSeq, x.id)
           /\ op' = [q \in Procs |->
                       CASE q = a -> [op[a] EXCEPT !.left = op[a].left \ {x},
                                                   !.k = IF op[a].left \ {x} = {} THEN "delete" ELSE "copy"]
                         [] op[q].k = "read" -> [op[q] EXCEPT !.moved = @ \cup {x.id}]
                         [] OTHER -> op[q]]
    BY <1>3 DEF Copy
  <2>2. op[a].k = "copy" /\ UNCHANGED <<job, hot, hotForks, seq>>
    BY <1>3 DEF Copy
  <2>3. x \in acked /\ x.id \in Nat
    <3>1. op[a] \notin {Idle, [k |-> "again"]}
      BY <2>2 DEF Idle
    <3>2. op[a].left \subseteq acked /\ seq \in Nat /\ \A y \in acked : y.id \in 1..seq
      BY <3>1 DEF TierInv, ArchiverAt, Numbered
    <3>3. x \in op[a].left
      BY DEF SmallestOf
    <3>4. x.id \in 1..seq
      BY <3>2, <3>3
    <3> QED
      BY <3>2, <3>3, <3>4
  <2>4. coldSeq' \in Nat /\ x.id \in 0..coldSeq' /\ coldSeq <= coldSeq'
    <3>1. coldSeq' = IF x.id > coldSeq THEN x.id ELSE coldSeq
      BY <2>1 DEF RaisedTo
    <3>2. coldSeq \in Nat
      BY DEF Shape
    <3> QED
      BY ONLY <2>3, <3>1, <3>2
  <2>5. x.id >= 1
    BY <2>3 DEF TierInv, Numbered
  <2>6. cold' = {y \in cold : y.id # x.id} \cup {x}
    BY <2>1 DEF Upsert
  <2>7. Unique(cold') /\ \A y \in cold' : y.id \in 1..coldSeq'
    BY <2>4, <2>5, <2>6 DEF Unique, Shape
  <2>8. ASSUME NEW q \in Procs PROVE Stage(op'[q])
    <3>1. Stage(op[q])
      BY DEF Shape
    <3>2. CASE q = a
      BY <2>1, <3>1, <3>2 DEF Stage, OpKinds
    <3>3. CASE q # a /\ op[q].k = "read"
      BY <2>1, <3>1, <3>3 DEF Stage, OpKinds
    <3>4. CASE q # a /\ op[q].k # "read"
      BY <2>1, <3>1, <3>4
    <3> QED
      BY <3>2, <3>3, <3>4
  <2>9. DOMAIN op' = Procs
    BY <2>1
  <2> QED
    BY <2>2, <2>4, <2>7, <2>8, <2>9 DEF Shape, Unique
<1>4. CASE Delete(a)
  <2> DEFINE S == {x \in hot : x.id \in Ids(op[a].batch)}
             next == IF Cardinality(op[a].batch) < Batch THEN Idle ELSE [k |-> "again"]
  <2>1. Removes(a, S, next) /\ UNCHANGED <<job, cold, hotForks, seq, coldSeq>> /\ Stage(next)
    BY <1>1, <1>4 DEF Delete, DeletesBatch
  <2> HIDE DEF S, next
  <2>2. /\ hot' \subseteq hot
        /\ op' = [q \in Procs |->
                    CASE q = a -> next
                      [] q \in Readers /\ Exposed(op[q]) -> [op[q] EXCEPT !.moved = @ \cup Ids(S)]
                      [] OTHER -> op[q]]
    BY <2>1 DEF Removes
  <2>3. ASSUME NEW q \in Procs PROVE Stage(op'[q])
    <3>1. Stage(op[q]) /\ (q = a => q \notin Readers)
      BY TiersAssumption DEF Shape
    <3>2. CASE q = a
      BY <2>1, <2>2, <3>1, <3>2
    <3>3. CASE q # a /\ q \in Readers /\ Exposed(op[q])
      BY <2>2, <3>1, <3>3 DEF Stage
    <3>4. CASE q # a /\ ~ (q \in Readers /\ Exposed(op[q]))
      BY <2>2, <3>1, <3>4
    <3> QED
      BY <3>2, <3>3, <3>4
  <2>4. DOMAIN op' = Procs
    BY <2>2
  <2> QED
    BY <2>1, <2>2, <2>3, <2>4 DEF Shape, Unique
<1>5. CASE Fails(a)
  BY <1>1, <1>5, GoShape DEF Fails, Go
<1> QED
  BY <1>2, <1>3, <1>4, <1>5 DEF Archive

LEMMA PurgeShape ==
    ASSUME Shape, PurgeStep
    PROVE  Shape'
<1>1. "purger" \in Procs /\ Stage(Idle) /\ \A c : Stage([k |-> "purge", cut |-> c])
  BY DEF Procs, Services, Stage, Idle, OpKinds
<1>2. CASE Purge
  <2> DEFINE cut == IF op["purger"] = Idle THEN old ELSE op["purger"].cut
             S == SmallestOf({x \in hot : x.id \in cut}, Batch)
             o == IF Cardinality(S) < Batch THEN Idle ELSE [k |-> "purge", cut |-> cut]
  <2>1. op' = [op EXCEPT !["purger"] = o] /\ hot' = hot \ S /\ UNCHANGED <<job, cold, hotForks, seq, coldSeq>>
    BY <1>2 DEF Purge, Go
  <2>2. Stage(o)
    BY <1>1
  <2> HIDE DEF o, S
  <2> QED
    BY <1>1, <2>1, <2>2, GoShape
<1>3. CASE PurgeGivesUp
  BY <1>1, <1>3, GoShape DEF PurgeGivesUp, Go
<1> QED
  BY <1>2, <1>3, StoreShape DEF PurgeStep

LEMMA RetentionShape ==
    ASSUME Shape, RetentionStep
    PROVE  Shape'
<1>1. /\ "retainer" \in Procs /\ Stage(Idle) /\ Stage(R) /\ \A t : Stage([k |-> "halted", t |-> t])
      /\ \A left : Stage([k |-> "cycle", left |-> left])
      /\ \A left, t, cut, n : Stage([k |-> "purge", left |-> left, t |-> t, cut |-> cut, n |-> n])
  BY DEF Procs, Services, Stage, Idle, OpKinds, Shape, R
<1>2. CASE Wakes \/ CycleEnds \/ PurgeFails \/ Record \/ Restarts
  <2>1. /\ UNCHANGED <<job, hot, cold, hotForks, seq, coldSeq>>
        /\ \E o : Stage(o) /\ op' = [op EXCEPT !["retainer"] = o]
    <3>1. CASE Wakes
      BY <1>1, <3>1 DEF Wakes, Go
    <3>2. CASE CycleEnds
      BY <1>1, <3>2 DEF CycleEnds, Go
    <3>3. CASE PurgeFails
      BY <1>1, <3>3 DEF PurgeFails, Go
    <3>4. CASE Record
      BY <1>1, <3>4 DEF Record, Go
    <3>5. CASE Restarts
      BY <1>1, <3>5 DEF Restarts, Go
    <3> QED
      BY <1>2, <3>1, <3>2, <3>3, <3>4, <3>5
  <2> QED
    BY <1>1, <2>1, GoShape
<1>3. CASE RecordFails
  <2>1. PICK o : Stage(o) /\ op' = [op EXCEPT !["retainer"] = o]
    BY <1>1, <1>3 DEF RecordFails, SinkFails, Go
  <2>2. UNCHANGED <<job, hot, cold, hotForks, seq, coldSeq>>
    BY <1>3 DEF RecordFails, SinkFails
  <2> QED
    BY <1>1, <2>1, <2>2, GoShape
<1>4. ASSUME NEW t \in Tenants, NextTenant(t) PROVE Shape'
  <2>1. Stage([R EXCEPT !.left = @ \ {t}])
    BY <1>1 DEF Stage
  <2>2. PICK o : Stage(o) /\ op' = [op EXCEPT !["retainer"] = o]
    BY <1>1, <1>4, <2>1 DEF NextTenant, Go
  <2>3. UNCHANGED <<job, hot, cold, hotForks, seq, coldSeq>>
    BY <1>4 DEF NextTenant
  <2> QED
    BY <1>1, <2>2, <2>3, GoShape
<1>5. CASE PurgeBatch
  <2> DEFINE S == SmallestOf({x \in hot : x.t = R.t /\ x.id \in R.cut}, Batch)
             n == R.n + Cardinality(S)
             o == IF Cardinality(S) = Batch THEN [R EXCEPT !.n = n]
                  ELSE IF n = 0 THEN [k |-> "cycle", left |-> R.left]
                  ELSE [R EXCEPT !.n = n, !.k = "record"]
  <2>1. op' = [op EXCEPT !["retainer"] = o] /\ hot' = hot \ S /\ UNCHANGED <<job, cold, hotForks, seq, coldSeq>>
    BY <1>5 DEF PurgeBatch, Go
  <2> HIDE DEF n, S
  <2>2. Stage([R EXCEPT !.n = n]) /\ Stage([R EXCEPT !.n = n, !.k = "record"])
    BY <1>1 DEF Stage, OpKinds
  <2>3. Stage(o)
    BY <1>1, <2>2
  <2> HIDE DEF o
  <2> QED
    BY <1>1, <2>1, <2>3, GoShape
<1> QED
  BY <1>2, <1>3, <1>4, <1>5, StoreShape DEF RetentionStep

LEMMA MigrationShape ==
    ASSUME Shape, MigrationStep
    PROVE  Shape'
<1>1. /\ "migrator" \in Procs /\ Stage(M)
      /\ \A left, done : Stage([k |-> "next", left |-> left, done |-> done])
      /\ \A left, done, s, segs, queue :
            Stage([k |-> "copy", left |-> left, done |-> done, s |-> s, segs |-> segs, queue |-> queue])
  BY DEF Procs, Services, Stage, OpKinds, Shape, M
<1>2. CASE Migrate \/ StreamDone \/ StreamFails
  BY <1>1, <1>2, GoShape DEF Migrate, StreamDone, StreamFails, Go
<1>3. CASE Fetch
  <2>1. Stage([M EXCEPT !.segs = Tail(@), !.queue = @ \o EventsOf(Head(M.segs))])
    BY <1>1 DEF Stage
  <2> QED
    BY <1>1, <1>3, <2>1, GoShape DEF Fetch, Go
<1>4. CASE Put
  <2> DEFINE x == [id |-> coldSeq + 1, s |-> M.s, t |-> NoTenant, from |-> Head(M.queue).from]
  <2>1. /\ cold' = cold \cup {x} /\ coldSeq' = coldSeq + 1 /\ x.id = coldSeq + 1
        /\ op' = [op EXCEPT !["migrator"] = [M EXCEPT !.queue = Tail(@)]]
        /\ UNCHANGED <<job, hot, hotForks, seq>>
    BY <1>4 DEF Put, PutAs, Go
  <2> HIDE DEF x
  <2>2. \A n \in 1..coldSeq : n # coldSeq + 1 /\ n \in 1..(coldSeq + 1)
    BY DEF Shape
  <2>3. Unique(cold') /\ (\A y \in cold' : y.id \in 1..coldSeq') /\ coldSeq' \in Nat
    BY <2>1, <2>2 DEF Shape, Unique
  <2>4. Stage([M EXCEPT !.queue = Tail(@)])
    BY <1>1 DEF Stage
  <2>5. DOMAIN op' = Procs /\ \A q \in Procs : Stage(op'[q])
    <3>1. DOMAIN op' = Procs /\ op'["migrator"] = [M EXCEPT !.queue = Tail(@)]
          /\ \A q \in Procs \ {"migrator"} : op'[q] = op[q]
      BY <1>1, <2>1 DEF Shape
    <3> QED
      BY <2>4, <3>1 DEF Shape
  <2> QED
    BY <2>1, <2>3, <2>5 DEF Shape, Unique
<1>5. ASSUME NEW s \in Streams, NextStream(s) PROVE Shape'
  BY <1>1, <1>5, GoShape DEF NextStream, Go
<1> QED
  BY <1>2, <1>3, <1>4, <1>5, StoreShape, ForkShape DEF MigrationStep

LEMMA ShapeInit == Init => Shape
BY DEF Init, Shape, Unique, Links, Stage, OpKinds, Idle

LEMMA ShapeStep == TierInv /\ Shape /\ [Next]_vars => Shape'
<1> SUFFICES ASSUME TierInv, Shape, [Next]_vars
             PROVE  Shape'
  OBVIOUS
<1>1. CASE UNCHANGED vars
  BY <1>1 DEF vars, tiers, Shape, Unique, Stage
<1>2. CASE TierStep
  <2>1. Tiered
    BY <1>2 DEF TierStep
  <2>2. CASE \E r \in Readers : Reads(r)
    BY <2>2, ReadShape
  <2> QED
    BY <1>2, <2>1, <2>2, StoreShape, ArchiveShape, ForkShape DEF TierStep, Reads
<1> QED
  BY <1>1, <1>2, PurgeShape, RetentionShape, MigrationShape DEF Next

\* Rows are numbered once in each store, also where they come in with the id they had
\* elsewhere, and whatever job runs, every coroutine is at one of its stages.
LEMMA ShapeAlways == Spec => [](TierInv /\ Shape)
<1>1. Init => TierInv /\ Shape
  BY TierInvInit, ShapeInit
<1>2. TierInv /\ Shape /\ [Next]_vars => (TierInv /\ Shape)'
  BY TierInvStep, ShapeStep
<1> QED
  BY <1>1, <1>2, PTL DEF Spec

-----------------------------------------------------------------------------
(* The audit trail.                                                        *)

Purging == job \in {"purge", "strict", "lenient"}
Deleted(t) == {x \in gone : x.t = t}
\* What the purge under way has deleted and not yet recorded.
Counted(t) == IF R.k \in {"purge", "record"} /\ R.t = t THEN R.n ELSE 0

\* A row is in the store or purged, and what is purged was past its window.
Rows ==
    /\ IsFiniteSet(hot \cup gone) /\ Unique(hot \cup gone) /\ hot \cap gone = {}
    /\ \A x \in hot \cup gone : x.id \in 1..seq
    /\ \A x \in gone : x.id \in old /\ (Retains => x.t \in Windows)
    /\ op["purger"] = Idle \/ op["purger"].cut \subseteq old
Retaining(o) ==
    \/ o.k \in {"idle", "cycle", "halted"}
    \/ /\ o.k \in {"purge", "record"} /\ {"t", "n", "left"} \subseteq DOMAIN o
       /\ o.t \in Windows /\ o.n \in Nat /\ o.cut \subseteq old
\* The trail lags behind the deletions by what is counted and not recorded; it is exact
\* unless something broke off, or the scheduler has stopped over a failed record.
Balance(t) ==
    /\ audit[t] + Counted(t) <= Cardinality(Deleted(t))
    /\ Retains /\ t \notin amiss /\ ~ (R.k = "halted" /\ R.t = t) => audit[t] + Counted(t) = Cardinality(Deleted(t))
Books ==
    /\ audit \in [Tenants -> Nat]
    /\ Purging => Rows /\ Retaining(R) /\ \A t \in Tenants : Balance(t)
    /\ ~ Purging => gone = {} /\ audit = [t \in Tenants |-> 0]

\* The counts are numbers.
LEMMA CountFacts ==
    ASSUME Rows, NEW t
    PROVE  IsFiniteSet(Deleted(t)) /\ Cardinality(Deleted(t)) \in Nat
<1>1. IsFiniteSet(Deleted(t))
  BY FS_Subset DEF Rows, Deleted
<1> QED
  BY <1>1, FS_CardinalityType

LEMMA CountedFacts ==
    ASSUME Retaining(R), NEW t
    PROVE  Counted(t) \in Nat
BY DEF Retaining, Counted

\* A step of the retainer that deletes nothing.
LEMMA RetainerBooks ==
    ASSUME Shape, Books, Purging, UNCHANGED <<job, hot, gone, old, seq>>, NEW o, op' = [op EXCEPT !["retainer"] = o],
           audit' \in [Tenants -> Nat], Retaining(o),
           \A t \in Tenants :
              LET n == IF o.k \in {"purge", "record"} /\ o.t = t THEN o.n ELSE 0
              IN  /\ audit'[t] + n <= Cardinality(Deleted(t))
                  /\ Retains /\ t \notin amiss' /\ ~ (o.k = "halted" /\ o.t = t) =>
                        audit'[t] + n = Cardinality(Deleted(t))
    PROVE  Books'
<1>1. "retainer" \in Procs /\ DOMAIN op = Procs
  BY DEF Procs, Services, Shape
<1>2. R' = o /\ op'["purger"] = op["purger"]
  BY <1>1 DEF R
<1>3. Rows'
  BY <1>2 DEF Books, Rows, Unique, Retains
<1>4. Retaining(R)'
  BY <1>2 DEF Retaining
<1>5. ASSUME NEW t \in Tenants PROVE Balance(t)'
  BY <1>2 DEF Balance, Counted, Deleted, Retains
<1> QED
  BY <1>3, <1>4, <1>5 DEF Books, Purging

\* Rows of hot that are past their windows are purged.
LEMMA PurgedRows ==
    ASSUME Rows, NEW S, S \subseteq {x \in hot : x.id \in old}, hot' = hot \ S, gone' = gone \cup S,
           Retains => \A x \in S : x.t \in Windows, UNCHANGED <<job, seq, old>>,
           op'["purger"] = Idle \/ op'["purger"].cut \subseteq old
    PROVE  /\ Rows'
           /\ \A t : /\ Cardinality(Deleted(t))' \in Nat /\ Cardinality(Deleted(t)) <= Cardinality(Deleted(t))'
                     /\ (\A x \in S : x.t = t) =>
                           Cardinality(Deleted(t))' = Cardinality(Deleted(t)) + Cardinality(S)
                     /\ (\A x \in S : x.t # t) => Deleted(t)' = Deleted(t)
           /\ IsFiniteSet(S) /\ Cardinality(S) \in Nat
<1>1. hot' \cup gone' = hot \cup gone /\ hot' \cap gone' = {}
  BY DEF Rows
<1>2. Rows'
  BY <1>1 DEF Rows, Unique, Retains
<1>3. IsFiniteSet(S) /\ Cardinality(S) \in Nat
  BY FS_Subset, FS_CardinalityType DEF Rows
<1>4. ASSUME NEW t
      PROVE  /\ Cardinality(Deleted(t))' \in Nat /\ Cardinality(Deleted(t)) <= Cardinality(Deleted(t))'
             /\ (\A x \in S : x.t = t) => Cardinality(Deleted(t))' = Cardinality(Deleted(t)) + Cardinality(S)
             /\ (\A x \in S : x.t # t) => Deleted(t)' = Deleted(t)
  <2>1. IsFiniteSet(Deleted(t)) /\ Deleted(t) \subseteq Deleted(t)' /\ Deleted(t) \cap S = {}
    BY CountFacts DEF Deleted, Rows
  <2>2. IsFiniteSet(Deleted(t)')
    BY <1>2, FS_Subset DEF Rows, Deleted
  <2>3. Cardinality(Deleted(t)') \in Nat /\ Cardinality(Deleted(t)) <= Cardinality(Deleted(t)')
    BY <2>1, <2>2, FS_Subset, FS_CardinalityType
  <2>4. ASSUME \A x \in S : x.t = t
        PROVE  Cardinality(Deleted(t)') = Cardinality(Deleted(t)) + Cardinality(S)
    <3>1. Deleted(t)' = Deleted(t) \cup S
      BY <2>4 DEF Deleted
    <3>2. Cardinality(Deleted(t) \cup S) = Cardinality(Deleted(t)) + Cardinality(S)
      <4>1. Cardinality(Deleted(t) \cup S)
              = Cardinality(Deleted(t)) + Cardinality(S) - Cardinality(Deleted(t) \cap S)
        BY <1>3, <2>1, FS_Union
      <4>2. Cardinality(Deleted(t) \cap S) = 0
        BY <2>1, FS_EmptySet
      <4>3. Cardinality(Deleted(t)) \in Nat
        BY <2>1, FS_CardinalityType
      <4> QED
        BY <1>3, <4>1, <4>2, <4>3
    <3> QED
      BY <3>1, <3>2
  <2>5. (\A x \in S : x.t # t) => Deleted(t)' = Deleted(t)
    BY DEF Deleted
  <2> QED
    BY <2>3, <2>4, <2>5
<1> QED
  BY <1>2, <1>3, <1>4

LEMMA StoreBooks ==
    ASSUME Shape, Books, Purging, NEW s, NEW u, Store(s, u) \/ Ages(u), UNCHANGED upkeep
    PROVE  Books'
<1>1. UNCHANGED <<job, op, audit, gone, amiss>> /\ R' = R
  BY DEF Store, Ages, upkeep, R
<1>2. Rows'
  <2>1. CASE Ages(u)
    <3>1. hot' = hot /\ seq' = seq /\ old \subseteq old'
      BY <2>1 DEF Ages
    <3> QED
      BY <1>1, <3>1 DEF Books, Rows, Unique, Retains
  <2>2. CASE Store(s, u)
    <3> DEFINE x == [id |-> seq + 1, s |-> s, t |-> u, from |-> seq + 1]
    <3>1. hot' = hot \cup {x} /\ seq' = seq + 1 /\ x.id = seq + 1 /\ old' = old
      BY <2>2 DEF Store
    <3> HIDE DEF x
    <3>2. \A n \in 1..seq : n # seq + 1 /\ n \in 1..(seq + 1)
      BY DEF Shape
    <3>3. x \notin hot \cup gone /\ seq + 1 \in 1..(seq + 1)
      BY <3>1, <3>2 DEF Books, Rows, Shape
    <3>4. hot' \cup gone' = (hot \cup gone) \cup {x} /\ hot' \cap gone' = {}
      BY <1>1, <3>1, <3>3 DEF Books, Rows
    <3>5. IsFiniteSet(hot' \cup gone')
      BY <3>4, FS_AddElement DEF Books, Rows
    <3>6. Unique(hot' \cup gone') /\ \A y \in hot' \cup gone' : y.id \in 1..seq'
      BY <3>1, <3>2, <3>3, <3>4 DEF Books, Rows, Unique
    <3> QED
      BY <1>1, <3>1, <3>4, <3>5, <3>6 DEF Books, Rows, Unique, Retains
  <2> QED
    BY <2>1, <2>2
<1>3. Retaining(R)'
  <2>1. old \subseteq old'
    BY DEF Store, Ages
  <2> QED
    BY <1>1, <2>1 DEF Books, Retaining
<1>4. \A t \in Tenants : Balance(t)'
  BY <1>1 DEF Books, Balance, Counted, Deleted, Retains
<1> QED
  BY <1>1, <1>2, <1>3, <1>4 DEF Books, Purging

LEMMA PurgerBooks ==
    ASSUME Shape, Books, job = "purge", Purge \/ PurgeGivesUp
    PROVE  Books'
<1>1. "purger" \in Procs /\ DOMAIN op = Procs /\ Purging /\ ~ Retains
  BY DEF Procs, Services, Shape, Purging, Retains
<1>2. R' = R /\ UNCHANGED <<job, seq, old, audit, amiss>>
  <2>1. UNCHANGED <<job, seq, old, audit, amiss>> /\ \E o : op' = [op EXCEPT !["purger"] = o]
    BY DEF Purge, PurgeGivesUp, Go, upkeep
  <2>2. "retainer" \in Procs /\ "retainer" # "purger"
    BY DEF Procs, Services
  <2> QED
    BY <1>1, <2>1, <2>2 DEF R
<1>3. CASE PurgeGivesUp
  <2>1. UNCHANGED <<hot, gone>> /\ op'["purger"] = Idle
    BY <1>1, <1>3 DEF PurgeGivesUp, Go, upkeep
  <2>2. Rows'
    BY <1>1, <1>2, <2>1 DEF Books, Rows, Unique, Retains
  <2> QED
    BY <1>1, <1>2, <2>1, <2>2 DEF Books, Purging, Retaining, Balance, Counted, Deleted, Retains
<1>4. CASE Purge
  <2> DEFINE cut == IF op["purger"] = Idle THEN old ELSE op["purger"].cut
             S == SmallestOf({x \in hot : x.id \in cut}, Batch)
             o == IF Cardinality(S) < Batch THEN Idle ELSE [k |-> "purge", cut |-> cut]
  <2>1. cut \subseteq old
    BY <1>1 DEF Books, Rows
  <2>2. op' = [op EXCEPT !["purger"] = o] /\ hot' = hot \ S /\ gone' = gone \cup S
    BY <1>4 DEF Purge, Go
  <2>3. S \subseteq {x \in hot : x.id \in cut}
    BY DEF SmallestOf
  <2>4. o = Idle \/ o.cut \subseteq old
    BY <2>1
  <2> HIDE DEF S, o, cut
  <2>5. S \subseteq {x \in hot : x.id \in old}
    BY <2>1, <2>3
  <2>6. op'["purger"] = o
    BY <1>1, <2>2
  <2>7. /\ Rows'
        /\ \A t : Cardinality(Deleted(t))' \in Nat /\ Cardinality(Deleted(t)) <= Cardinality(Deleted(t))'
    BY <1>1, <1>2, <2>2, <2>4, <2>5, <2>6, PurgedRows DEF Books
  <2>8. ASSUME NEW t \in Tenants PROVE Balance(t)'
    <3>1. Counted(t)' = Counted(t) /\ audit'[t] = audit[t] /\ ~ Retains'
      BY <1>1, <1>2 DEF Counted, Retains
    <3>2. Counted(t) \in Nat /\ Cardinality(Deleted(t)) \in Nat /\ Cardinality(Deleted(t))' \in Nat /\ audit[t] \in Nat
      BY <1>1, <2>7, CountFacts, CountedFacts DEF Books
    <3>3. audit[t] + Counted(t) <= Cardinality(Deleted(t))
      BY <1>1 DEF Books, Balance
    <3>4. Cardinality(Deleted(t)) <= Cardinality(Deleted(t))'
      BY <2>7
    <3>5. audit'[t] + Counted(t)' <= Cardinality(Deleted(t))'
      BY <3>1, <3>2, <3>3, <3>4
    <3> QED
      BY <3>1, <3>5 DEF Balance
  <2> QED
    BY <1>1, <1>2, <2>7, <2>8 DEF Books, Purging, Retaining
<1> QED
  BY <1>3, <1>4

\* One DELETE of the retainer: what it deletes is counted.
LEMMA BatchBooks ==
    ASSUME Shape, Books, Retains, PurgeBatch
    PROVE  Books'
<1>1. /\ "retainer" \in Procs /\ "purger" # "retainer" /\ DOMAIN op = Procs /\ Purging /\ Stage(R)
      /\ UNCHANGED <<job, seq, old, audit, amiss>> /\ R.k = "purge"
  BY DEF Procs, Services, Shape, Purging, Retains, R, PurgeBatch
<1> DEFINE S == SmallestOf({x \in hot : x.t = R.t /\ x.id \in R.cut}, Batch)
           n == R.n + Cardinality(S)
           o == IF Cardinality(S) = Batch THEN [R EXCEPT !.n = n]
                ELSE IF n = 0 THEN [k |-> "cycle", left |-> R.left]
                ELSE [R EXCEPT !.n = n, !.k = "record"]
<1>2. op' = [op EXCEPT !["retainer"] = o] /\ hot' = hot \ S /\ gone' = gone \cup S
  BY DEF PurgeBatch, Go
<1>3. S \subseteq {x \in hot : x.t = R.t /\ x.id \in R.cut}
  BY DEF SmallestOf
<1> HIDE DEF S
<1>4. {"t", "n", "left"} \subseteq DOMAIN R /\ R.t \in Windows /\ R.n \in Nat /\ R.cut \subseteq old
  BY <1>1 DEF Books, Retaining
<1>5. S \subseteq {x \in hot : x.id \in old} /\ \A x \in S : x.t = R.t
  BY <1>3, <1>4
<1>6. R' = o /\ op'["purger"] = op["purger"]
  BY <1>1, <1>2 DEF R
<1>7. /\ Rows' /\ IsFiniteSet(S) /\ Cardinality(S) \in Nat
      /\ \A t : /\ (\A x \in S : x.t = t) => Cardinality(Deleted(t))' = Cardinality(Deleted(t)) + Cardinality(S)
                /\ (\A x \in S : x.t # t) => Deleted(t)' = Deleted(t)
  <2>1. Rows /\ (op'["purger"] = Idle \/ op'["purger"].cut \subseteq old)
    BY <1>1, <1>6 DEF Books, Rows
  <2> QED
    BY <1>1, <1>2, <1>4, <1>5, <2>1, PurgedRows
<1>8. /\ n \in Nat
      /\ o.k \in {"purge", "record"} => o.t = R.t /\ o.n = n /\ o.cut = R.cut /\ {"t", "n", "left"} \subseteq DOMAIN o
      /\ o.k \in {"purge", "record", "cycle"} /\ (o.k = "cycle" => n = 0)
  <2>1. n \in Nat
    BY <1>4, <1>7
  <2> HIDE DEF n
  <2>2. CASE o = [R EXCEPT !.n = n]
    BY <1>1, <1>4, <2>1, <2>2 DEF Stage
  <2>3. CASE n = 0 /\ o = [k |-> "cycle", left |-> R.left]
    BY <2>1, <2>3
  <2>4. CASE o = [R EXCEPT !.n = n, !.k = "record"]
    BY <1>1, <1>4, <2>1, <2>4 DEF Stage
  <2> QED
    BY <2>2, <2>3, <2>4
<1> HIDE DEF n, o
<1>9. Retaining(R)'
  BY <1>1, <1>4, <1>6, <1>8 DEF Retaining
<1>10. ASSUME NEW t \in Tenants PROVE Balance(t)'
  <2>1. Counted(t)' = (IF o.k \in {"purge", "record"} /\ o.t = t THEN o.n ELSE 0) /\ R'.k # "halted"
    BY <1>6, <1>8 DEF Counted
  <2>2. Balance(t) /\ audit[t] \in Nat /\ R.k # "halted" /\ audit'[t] = audit[t] /\ amiss' = amiss /\ (Retains' <=> Retains)
    BY <1>1 DEF Books, Retains
  <2>3. Cardinality(Deleted(t)) \in Nat
    BY <1>1, CountFacts DEF Books
  <2>4. CASE t = R.t
    <3>1. Counted(t)' = n /\ Counted(t) = R.n
      BY <1>1, <1>8, <2>1, <2>4 DEF Counted
    <3>2. Cardinality(Deleted(t))' = Cardinality(Deleted(t)) + Cardinality(S)
      BY <1>5, <1>7, <2>4
    <3>3. n = R.n + Cardinality(S)
      BY DEF n
    <3>4. audit[t] + R.n <= Cardinality(Deleted(t)) => audit[t] + n <= Cardinality(Deleted(t))'
      BY <1>4, <1>7, <2>2, <2>3, <3>2, <3>3
    <3>5. audit[t] + R.n = Cardinality(Deleted(t)) => audit[t] + n = Cardinality(Deleted(t))'
      BY <1>4, <1>7, <2>2, <2>3, <3>2, <3>3
    <3> QED
      BY <2>1, <2>2, <3>1, <3>4, <3>5 DEF Balance
  <2>5. CASE t # R.t
    <3>1. Counted(t)' = 0 /\ Counted(t) = 0
      BY <1>8, <2>1, <2>5 DEF Counted
    <3>2. Deleted(t)' = Deleted(t)
      BY <1>5, <1>7, <2>5
    <3> QED
      BY <2>1, <2>2, <3>1, <3>2 DEF Balance
  <2> QED
    BY <2>4, <2>5
<1> QED
  BY <1>1, <1>7, <1>9, <1>10 DEF Books, Purging

\* What the books say of a tenant.
LEMMA BooksNow ==
    ASSUME Books, Purging, NEW t \in Tenants
    PROVE  /\ audit[t] \in Nat /\ Counted(t) \in Nat /\ Cardinality(Deleted(t)) \in Nat
           /\ audit[t] <= Cardinality(Deleted(t)) /\ audit[t] + Counted(t) <= Cardinality(Deleted(t))
           /\ Retains /\ t \notin amiss /\ ~ (R.k = "halted" /\ R.t = t) =>
                 audit[t] + Counted(t) = Cardinality(Deleted(t))
<1>1. audit[t] \in Nat /\ Counted(t) \in Nat /\ Cardinality(Deleted(t)) \in Nat
  BY CountFacts, CountedFacts DEF Books
<1>2. Balance(t)
  BY DEF Books
<1>3. audit[t] <= Cardinality(Deleted(t))
  BY <1>1, <1>2 DEF Balance
<1> QED
  BY <1>1, <1>2, <1>3 DEF Balance

LEMMA RetentionBooks ==
    ASSUME Shape, Books, Retains,
           \/ Wakes \/ CycleEnds \/ PurgeFails \/ Record \/ RecordFails \/ Restarts
           \/ \E t \in Tenants : NextTenant(t)
    PROVE  Books'
<1>1. Purging /\ Stage(R) /\ Retaining(R) /\ audit \in [Tenants -> Nat]
  BY DEF Purging, Retains, Shape, R, Procs, Services, Books
<1>2. \A t \in Tenants :
           /\ audit[t] \in Nat /\ Counted(t) \in Nat /\ Cardinality(Deleted(t)) \in Nat
           /\ audit[t] <= Cardinality(Deleted(t)) /\ audit[t] + Counted(t) <= Cardinality(Deleted(t))
           /\ Retains /\ t \notin amiss /\ ~ (R.k = "halted" /\ R.t = t) =>
                 audit[t] + Counted(t) = Cardinality(Deleted(t))
  BY <1>1, BooksNow
<1>3. UNCHANGED <<job, hot, gone, old, seq>>
  BY DEF Wakes, CycleEnds, PurgeFails, Record, RecordFails, SinkFails, Restarts, NextTenant, upkeep
<1>4. Retaining(Idle) /\ (\A left : Retaining([k |-> "cycle", left |-> left])) /\ \A t : Retaining([k |-> "halted", t |-> t])
  BY DEF Retaining, Idle
<1>5. ASSUME NEW o, op' = [op EXCEPT !["retainer"] = o], o.k \in {"idle", "cycle"},
             UNCHANGED <<audit, amiss>>, R.k \in {"idle", "cycle"}
      PROVE  Books'
  <2>1. \A t \in Tenants : Counted(t) = 0
    BY <1>5 DEF Counted
  <2>2. Retaining(o)
    BY <1>5 DEF Retaining
  <2> QED
    BY <1>1, <1>2, <1>3, <1>5, <2>1, <2>2, RetainerBooks
<1>6. CASE Wakes \/ CycleEnds
  BY <1>5, <1>6 DEF Wakes, CycleEnds, Go, upkeep, Idle
<1>7. ASSUME NEW u \in Tenants, NextTenant(u) PROVE Books'
  <2>1. R.k = "cycle" /\ UNCHANGED <<audit, amiss>>
    BY <1>7 DEF NextTenant, upkeep
  <2>2. CASE u \notin Windows
    <3>1. op' = [op EXCEPT !["retainer"] = [R EXCEPT !.left = @ \ {u}]]
      BY <1>7, <2>2 DEF NextTenant, Go
    <3>2. [R EXCEPT !.left = @ \ {u}].k = "cycle"
      BY <1>1, <2>1 DEF Stage
    <3> QED
      BY <1>5, <2>1, <3>1, <3>2
  <2>3. CASE u \in Windows
    <3> DEFINE o == [k |-> "purge", left |-> R.left \ {u}, t |-> u, cut |-> old, n |-> 0]
    <3>1. op' = [op EXCEPT !["retainer"] = o]
      BY <1>7, <2>3 DEF NextTenant, Go
    <3>2. o.k = "purge" /\ o.n = 0 /\ Retaining(o)
      BY <2>3 DEF Retaining
    <3> HIDE DEF o
    <3>3. \A t \in Tenants : Counted(t) = 0
      BY <2>1 DEF Counted
    <3> QED
      BY <1>1, <1>2, <1>3, <2>1, <3>1, <3>2, <3>3, RetainerBooks
  <2> QED
    BY <2>2, <2>3
<1>8. CASE PurgeFails
  <2>1. /\ R.k = "purge" /\ audit' = audit /\ op' = [op EXCEPT !["retainer"] = Idle]
        /\ amiss' = IF R.n > 0 THEN amiss \cup {R.t} ELSE amiss
    BY <1>8 DEF PurgeFails, Go
  <2>2. R.n \in Nat
    BY <1>1, <2>1 DEF Retaining
  <2>3. \A t \in Tenants : t \notin amiss' => t \notin amiss /\ Counted(t) = 0
    BY <2>1, <2>2 DEF Counted
  <2>4. Idle.k = "idle"
    BY DEF Idle
  <2>5. \A t \in Tenants :
           /\ audit'[t] + 0 <= Cardinality(Deleted(t))
           /\ Retains /\ t \notin amiss' => audit'[t] + 0 = Cardinality(Deleted(t))
    BY <1>2, <2>1, <2>3
  <2> QED
    BY <1>1, <1>3, <1>4, <2>1, <2>4, <2>5, RetainerBooks
<1>9. CASE Record
  <2> DEFINE o == [k |-> "cycle", left |-> R.left]
  <2>1. /\ R.k = "record" /\ audit' = [audit EXCEPT ![R.t] = @ + R.n] /\ amiss' = amiss
        /\ op' = [op EXCEPT !["retainer"] = o]
    BY <1>9 DEF Record, Go
  <2>2. R.n \in Nat /\ R.t \in Tenants
    BY <1>1, <2>1, UpkeepAssumption DEF Retaining
  <2>3. audit' \in [Tenants -> Nat] /\ \A t \in Tenants : audit'[t] = audit[t] + Counted(t)
    <3>1. ASSUME NEW t \in Tenants PROVE audit'[t] \in Nat /\ audit'[t] = audit[t] + Counted(t)
      <4>1. CASE t = R.t
        BY <1>1, <1>2, <2>1, <2>2, <4>1 DEF Counted
      <4>2. CASE t # R.t
        BY <1>1, <1>2, <2>1, <2>2, <4>2 DEF Counted
      <4> QED
        BY <4>1, <4>2
    <3> QED
      BY <1>1, <2>1, <2>2, <3>1
  <2>4. o.k = "cycle" /\ Retaining(o)
    BY <1>4
  <2> HIDE DEF o
  <2>5. \A t \in Tenants :
           /\ audit'[t] + 0 <= Cardinality(Deleted(t))
           /\ Retains /\ t \notin amiss' => audit'[t] + 0 = Cardinality(Deleted(t))
    BY <1>2, <2>1, <2>3
  <2> QED
    BY <1>1, <1>3, <2>1, <2>3, <2>4, <2>5, RetainerBooks
<1>10. CASE RecordFails
  <2> DEFINE o == IF job = "strict" THEN [k |-> "halted", t |-> R.t] ELSE [k |-> "cycle", left |-> R.left]
  <2>1. /\ R.k = "record" /\ audit' = audit /\ op' = [op EXCEPT !["retainer"] = o]
        /\ amiss' = IF job = "lenient" THEN amiss \cup {R.t} ELSE amiss
    BY <1>10 DEF RecordFails, SinkFails, Go
  <2>2. /\ Retaining(o) /\ o.k \in {"halted", "cycle"}
        /\ job = "strict" => o.k = "halted" /\ o.t = R.t
        /\ job = "strict" \/ job = "lenient"
    BY <1>4 DEF Retains
  <2> HIDE DEF o
  <2>3. \A t \in Tenants : t \notin amiss' /\ ~ (o.k = "halted" /\ o.t = t) => t \notin amiss /\ Counted(t) = 0
    BY <2>1, <2>2 DEF Counted
  <2>4. \A t \in Tenants :
           /\ audit'[t] + 0 <= Cardinality(Deleted(t))
           /\ Retains /\ t \notin amiss' /\ ~ (o.k = "halted" /\ o.t = t) => audit'[t] + 0 = Cardinality(Deleted(t))
    BY <1>2, <2>1, <2>3
  <2> QED
    BY <1>1, <1>3, <2>1, <2>2, <2>4, RetainerBooks
<1>11. CASE Restarts
  <2>1. /\ audit' = audit /\ op' = [op EXCEPT !["retainer"] = Idle]
        /\ amiss' = CASE R.k = "halted" -> amiss \cup {R.t}
                      [] R.k \in {"purge", "record"} /\ R.n > 0 -> amiss \cup {R.t}
                      [] OTHER -> amiss
    BY <1>11 DEF Restarts, Go
  <2>2. R.k \in {"purge", "record"} => R.n \in Nat
    BY <1>1 DEF Retaining
  <2>3. \A t \in Tenants : t \notin amiss' => t \notin amiss /\ Counted(t) = 0 /\ ~ (R.k = "halted" /\ R.t = t)
    <3>1. CASE R.k = "halted"
      BY <2>1, <3>1 DEF Counted
    <3>2. CASE R.k \in {"purge", "record"} /\ R.n > 0
      BY <2>1, <3>2 DEF Counted
    <3>3. CASE R.k # "halted" /\ ~ (R.k \in {"purge", "record"} /\ R.n > 0)
      BY <2>1, <2>2, <3>3 DEF Counted
    <3> QED
      BY <3>1, <3>2, <3>3
  <2>4. Idle.k = "idle"
    BY DEF Idle
  <2>5. \A t \in Tenants :
           /\ audit'[t] + 0 <= Cardinality(Deleted(t))
           /\ Retains /\ t \notin amiss' => audit'[t] + 0 = Cardinality(Deleted(t))
    BY <1>2, <2>1, <2>3
  <2> QED
    BY <1>1, <1>3, <1>4, <2>1, <2>4, <2>5, RetainerBooks
<1> QED
  BY <1>6, <1>7, <1>8, <1>9, <1>10, <1>11

\* No other job purges anything or has a trail.
LEMMA OtherBooks ==
    ASSUME Books, ~ Purging, UNCHANGED <<job, gone, audit>>
    PROVE  Books'
BY DEF Books, Purging

LEMMA BooksInit == Init => Books
<1> SUFFICES ASSUME Init
             PROVE  Books
  OBVIOUS
<1>1. R = Idle /\ Idle.k = "idle" /\ op["purger"] = Idle
  BY DEF Init, R, Idle, Procs, Services
<1>2. \A t : Deleted(t) = {} /\ Counted(t) = 0
  BY <1>1 DEF Init, Deleted, Counted
<1>3. Cardinality({}) = 0 /\ IsFiniteSet({})
  BY FS_EmptySet
<1>4. Rows
  BY <1>1, <1>3 DEF Init, Rows, Unique
<1>5. \A t \in Tenants : Balance(t)
  BY <1>2, <1>3 DEF Init, Balance
<1> QED
  BY <1>1, <1>4, <1>5 DEF Init, Books, Retaining

LEMMA BooksStep == Shape /\ Books /\ [Next]_vars => Books'
<1> SUFFICES ASSUME Shape, Books, [Next]_vars
             PROVE  Books'
  OBVIOUS
<1>1. CASE UNCHANGED vars
  BY <1>1 DEF vars, tiers, upkeep, Books, Purging, Retains, Rows, Unique, Retaining, R, Balance, Counted, Deleted
<1>2. CASE TierStep /\ UNCHANGED upkeep
  <2>1. ~ Purging
    BY <1>2 DEF TierStep, Tiered, Purging
  <2>2. UNCHANGED <<job, gone, audit>>
    BY <1>2 DEF TierStep, upkeep, Store, Ages, Archive, Select, Copy, Delete, DeletesBatch, Fails, ForkHot, ForkCold,
                ForkColdFails, AskFirst, AskSecond, ReplayHot, ReplayCold, ReadSegment, Walk, Answered
  <2> QED
    BY <2>1, <2>2, OtherBooks
<1>3. CASE PurgeStep
  <2>1. Purging /\ job = "purge"
    BY <1>3 DEF PurgeStep, Purging
  <2>2. CASE Purge \/ PurgeGivesUp
    BY <2>1, <2>2, PurgerBooks
  <2>3. CASE (\E s \in Streams : Store(s, NoTenant) /\ UNCHANGED upkeep) \/ (Ages(NoTenant) /\ UNCHANGED upkeep)
    BY <2>1, <2>3, StoreBooks
  <2> QED
    BY <1>3, <2>2, <2>3 DEF PurgeStep
<1>4. CASE RetentionStep
  <2>1. Purging /\ Retains
    BY <1>4 DEF RetentionStep, Purging, Retains
  <2>2. CASE \/ Wakes \/ CycleEnds \/ PurgeFails \/ Record \/ RecordFails \/ Restarts
             \/ \E t \in Tenants : NextTenant(t)
    BY <2>1, <2>2, RetentionBooks
  <2>3. CASE PurgeBatch
    BY <2>1, <2>3, BatchBooks
  <2>4. CASE \/ \E s \in Streams, t \in Tenants : Store(s, t) /\ UNCHANGED upkeep
             \/ \E t \in Tenants : Ages(t) /\ UNCHANGED upkeep
    BY <2>1, <2>4, StoreBooks
  <2> QED
    BY <1>4, <2>2, <2>3, <2>4 DEF RetentionStep
<1>5. CASE MigrationStep
  <2>1. ~ Purging
    BY <1>5 DEF MigrationStep, Migrates, Purging
  <2>2. UNCHANGED <<job, gone, audit>>
    BY <1>5 DEF MigrationStep, upkeep, Store, ForkHot, ForkCold, ForkColdFails, Migrate, NextStream, Fetch, Put, PutAs,
                StreamDone, StreamFails
  <2> QED
    BY <2>1, <2>2, OtherBooks
<1> QED
  BY <1>1, <1>2, <1>3, <1>4, <1>5 DEF Next

LEMMA BooksAlways == Spec => [](Shape /\ Books)
<1>1. Init => Books
  BY BooksInit
<1>2. Shape /\ Books /\ [Next]_vars => Books'
  BY BooksStep
<1> QED
  BY <1>1, <1>2, ShapeAlways, PTL DEF Spec

\* As many rows have been purged as their ids leave room for.
LEMMA DeletedBound ==
    ASSUME Rows, seq \in Nat, NEW t
    PROVE  Cardinality(Deleted(t)) <= seq
<1> DEFINE D == Deleted(t)
           f == [x \in D |-> x.id]
<1>1. f \in Injection(D, 1..seq)
  <2>1. \A x \in D : x.id \in 1..seq
    BY DEF Deleted, Rows
  <2>2. \A x, y \in D : x.id = y.id => x = y
    BY DEF Deleted, Rows, Unique
  <2> QED
    BY <2>1, <2>2 DEF Injection, IsInjective
<1>2. IsFiniteSet(1..seq) /\ Cardinality(1..seq) = seq
  <2>1. Cardinality(1..seq) = IF 1 > seq THEN 0 ELSE seq - 1 + 1
    BY FS_Interval
  <2>2. IsFiniteSet(1..seq)
    BY FS_Interval
  <2> QED
    BY <2>1, <2>2
<1> HIDE DEF f
<1> QED
  BY <1>1, <1>2, FS_Injection, CountFacts

\* Type correctness of the stores and of every job over them: rows are numbered once in each
\* store and never beyond its sequence, and no tenant has more deletions recorded than rows
\* were ever stored (_store_event_raw and import write rows that come with an id).
THEOREM UpkeepTyped == Spec => []TypeOK
<1>1. Shape /\ Books => TypeOK
  <2> SUFFICES ASSUME Shape, Books
               PROVE  TypeOK
    OBVIOUS
  <2>1. audit \in [Tenants -> 0..seq]
    <3>1. CASE Purging
      <4>1. ASSUME NEW t \in Tenants PROVE audit[t] \in 0..seq
        <5>1. Cardinality(Deleted(t)) <= seq
          BY <3>1, DeletedBound DEF Books, Shape
        <5>2. audit[t] \in Nat /\ audit[t] <= Cardinality(Deleted(t)) /\ Cardinality(Deleted(t)) \in Nat
          BY <3>1, BooksNow
        <5> QED
          BY <5>1, <5>2 DEF Shape
      <4> QED
        BY <4>1 DEF Books
    <3>2. CASE ~ Purging
      BY <3>2 DEF Books, Shape
    <3> QED
      BY <3>1, <3>2
  <2>2. \A S \in {hot, cold} : \A x, y \in S : x.id = y.id => x = y
    BY DEF Shape, Unique
  <2>3. Ids(hot) \subseteq 1..seq /\ Ids(cold) \subseteq 1..coldSeq
    BY DEF Shape, Ids
  <2>4. \A s \in Streams : hotForks[s] = Root \/ hotForks[s] \in [p : Streams, at : 1..seq]
    BY DEF Shape, Links
  <2>5. job \in Jobs
    BY DEF Shape
  <2> QED
    BY <2>1, <2>2, <2>3, <2>4, <2>5 DEF TypeOK, Shape, Stage, OpKinds
<1> QED
  BY <1>1, BooksAlways, PTL

\* The audit sink never claims a deletion that was not made, and while the scheduler goes on a
\* tenant's record is exactly what was deleted, unless a purge or the process broke off; only
\* what lies before its tenant's cutoff is deleted (RetentionScheduler._purge_once,
\* PurgeScheduler).
THEOREM AuditExact == Spec => []AuditMatches
<1>1. Shape /\ Books => AuditMatches
  <2> SUFFICES ASSUME Shape, Books, NEW t \in Tenants
               PROVE  /\ audit[t] <= Cardinality(Deleted(t))
                      /\ Retains /\ R.k \in {"idle", "cycle"} /\ t \notin amiss => audit[t] = Cardinality(Deleted(t))
                      /\ \A x \in Deleted(t) \cup gone : (Retains => x.t \in Windows) /\ x.id \in old
    BY DEF AuditMatches, Deleted
  <2>1. CASE Purging
    <3>1. /\ audit[t] \in Nat /\ audit[t] <= Cardinality(Deleted(t))
          /\ Retains /\ t \notin amiss /\ ~ (R.k = "halted" /\ R.t = t) =>
                audit[t] + Counted(t) = Cardinality(Deleted(t))
      BY <2>1, BooksNow
    <3>2. R.k \in {"idle", "cycle"} => Counted(t) = 0
      BY DEF Counted
    <3>3. \A x \in gone : (Retains => x.t \in Windows) /\ x.id \in old
      BY <2>1 DEF Books, Rows
    <3> QED
      BY <3>1, <3>2, <3>3 DEF Deleted
  <2>2. CASE ~ Purging
    <3>1. gone = {} /\ audit[t] = 0 /\ ~ Retains
      BY <2>2 DEF Books, Purging, Retains
    <3>2. Cardinality(Deleted(t)) = 0
      <4>1. Deleted(t) = {}
        BY <3>1 DEF Deleted
      <4> QED
        BY <4>1, FS_EmptySet
    <3> QED
      BY <3>1, <3>2 DEF Deleted
  <2> QED
    BY <2>1, <2>2
<1> QED
  BY <1>1, BooksAlways, PTL

-----------------------------------------------------------------------------
(* The segments of a chain of forks.                                       *)

\* A fork that was forked again was forked at a later event than its own first.
NestedUpTo(f, top) ==
    \A x \in DOMAIN f : Forked(f, x) =>
        /\ f[x].p \in DOMAIN f /\ f[x].at \in 1..top
        /\ Forked(f, f[x].p) => f[f[x].p].at <= f[x].at
Piece(f) == [s : DOMAIN f, min : Nat, max : Nat]
Within(g, e) == e.s = g.s /\ e.id > g.min /\ e.id <= g.max
WithinSome(segs, e) == \E i \in 1..Len(segs) : Within(segs[i], e)
\* One piece after the other.
Successive(segs) ==
    /\ \A i \in 1..Len(segs) : segs[i].min <= segs[i].max
    /\ \A i, j \in 1..Len(segs) : i < j => segs[i].max <= segs[j].min
\* What is read of an ancestor ends at a fork point.
Ends(f, x, g) == g.s = x \/ \E y \in DOMAIN f : Forked(f, y) /\ g.max <= f[y].at

\* The chain of stream x, n forks up, read up to m.
StartsWith(x, m) == <<[s |-> x, min |-> 0, max |-> m]>>
Unfolded(f, top, w) ==
    [x \in DOMAIN f |-> [m \in 0..top |->
        IF ~ Forked(f, x) THEN StartsWith(x, m)
        ELSE Append(w[f[x].p][f[x].at], [s |-> x, min |-> f[x].at, max |-> m])]]
Shortest(f, top) == [x \in DOMAIN f |-> [m \in 0..top |-> StartsWith(x, m)]]
Tables(f, top) == [DOMAIN f -> [0..top -> Seq(Piece(f))]]
OneForkUp(f, top) == [w \in Tables(f, top) |-> Unfolded(f, top, w)]

\* h is what F makes of b, step by step.
IteratesOf(h, N, V, b, F) == h \in [0..N -> V] /\ h[0] = b /\ \A n \in 1..N : h[n] = F[h[n - 1]]
LEMMA IteratesExist ==
    ASSUME NEW N, NEW V, NEW b, NEW F, N \in Nat, b \in V, F \in [V -> V]
    PROVE  \E h : IteratesOf(h, N, V, b, F)
<1>1. \E h : h \in [0..N -> V] /\ h[0] = b /\ \A n \in 1..N : h[n] = F[h[n - 1]]
  BY Iterates, SMTT(30)
<1> QED
  BY <1>1 DEF IteratesOf

LEMMA UnfoldedTyped ==
    ASSUME NEW f, NEW top \in Nat, NestedUpTo(f, top), NEW w \in Tables(f, top)
    PROVE  Unfolded(f, top, w) \in Tables(f, top)
<1>1. ASSUME NEW x \in DOMAIN f, NEW m \in 0..top
      PROVE  (IF ~ Forked(f, x) THEN StartsWith(x, m)
              ELSE Append(w[f[x].p][f[x].at], [s |-> x, min |-> f[x].at, max |-> m])) \in Seq(Piece(f))
  <2>1. m \in Nat /\ 0 \in Nat
    OBVIOUS
  <2>2. StartsWith(x, m) \in Seq(Piece(f))
    <3>1. [s |-> x, min |-> 0, max |-> m] \in Piece(f)
      BY <2>1 DEF Piece
    <3> QED
      BY <3>1 DEF StartsWith
  <2>3. CASE Forked(f, x)
    <3>1. f[x].p \in DOMAIN f /\ f[x].at \in 0..top /\ f[x].at \in Nat
      BY <2>3 DEF NestedUpTo
    <3>2. w[f[x].p] \in [0..top -> Seq(Piece(f))]
      BY <3>1 DEF Tables
    <3>3. w[f[x].p][f[x].at] \in Seq(Piece(f))
      BY <3>1, <3>2
    <3>4. [s |-> x, min |-> f[x].at, max |-> m] \in Piece(f)
      BY <2>1, <3>1 DEF Piece
    <3> QED
      BY <2>3, <3>3, <3>4, AppendProperties
  <2> QED
    BY <2>2, <2>3
<1> QED
  BY <1>1 DEF Unfolded, Tables

\* Segments, fork by fork.
LEMMA SegmentsUnfold ==
    ASSUME NEW f, IsFiniteSet(DOMAIN f), NEW top \in Nat, NestedUpTo(f, top), NEW s \in DOMAIN f
    PROVE  \E h : /\ h \in [0..Depth(f) -> Tables(f, top)]
                  /\ h[0] = Shortest(f, top)
                  /\ \A n \in 1..Depth(f) : h[n] = Unfolded(f, top, h[n - 1])
                  /\ Segments(f, s, top) = h[Depth(f)][s][top]
<1> DEFINE V == Tables(f, top)
           b == Shortest(f, top)
           F == OneForkUp(f, top)
           D == Depth(f)
           Body(w, n, x, m) ==
               IF n = 0 \/ ~ Forked(f, x) THEN <<[s |-> x, min |-> 0, max |-> m]>>
               ELSE Append(w[n - 1][f[x].p][f[x].at], [s |-> x, min |-> f[x].at, max |-> m])
           E(w) == w = [n \in 0..D |-> [x \in DOMAIN f |-> [m \in 0..top |-> Body(w, n, x, m)]]]
<1>1. D \in Nat
  BY FS_CardinalityType DEF Depth
<1>2. b \in V
  <2>1. \A x \in DOMAIN f, m \in 0..top : [s |-> x, min |-> 0, max |-> m] \in Piece(f)
    BY DEF Piece
  <2>2. ASSUME NEW x \in DOMAIN f, NEW m \in 0..top PROVE StartsWith(x, m) \in Seq(Piece(f))
    <3>1. [s |-> x, min |-> 0, max |-> m] \in Piece(f)
      BY <2>1
    <3> QED
      BY <3>1 DEF StartsWith
  <2> QED
    BY <2>2 DEF Shortest, Tables
<1>3. F \in [V -> V]
  BY UnfoldedTyped DEF OneForkUp
<1>4. PICK h : IteratesOf(h, D, V, b, F)
  BY <1>1, <1>2, <1>3, IteratesExist
<1>5. h \in [0..D -> V] /\ h[0] = b /\ \A n \in 1..D : h[n] = F[h[n - 1]]
  BY <1>4 DEF IteratesOf
<1>6. ASSUME NEW n \in 1..D PROVE h[n] = Unfolded(f, top, h[n - 1])
  <2>1. n - 1 \in 0..D
    BY <1>1
  <2>2. h[n - 1] \in V
    <3> HIDE DEF V, D
    <3> QED
      BY <1>5, <2>1
  <2>3. h[n] = F[h[n - 1]]
    BY <1>5
  <2> QED
    BY <2>2, <2>3 DEF OneForkUp
<1>7. ASSUME NEW n \in 0..D PROVE h[n] = [x \in DOMAIN f |-> [m \in 0..top |-> Body(h, n, x, m)]]
  <2>1. CASE n = 0
    <3>1. h[n] = [x \in DOMAIN f |-> [m \in 0..top |-> StartsWith(x, m)]]
      BY <1>5, <2>1 DEF Shortest
    <3>2. \A x, m : Body(h, n, x, m) = StartsWith(x, m)
      BY <2>1 DEF StartsWith
    <3> HIDE DEF Body
    <3> QED
      BY <3>1, <3>2
  <2>2. CASE n # 0
    <3>1. n \in 1..D
      BY <1>1, <2>2
    <3>2. h[n] = Unfolded(f, top, h[n - 1])
      BY <1>6, <3>1
    <3> DEFINE More(x, m) == IF ~ Forked(f, x) THEN StartsWith(x, m)
                             ELSE Append(h[n - 1][f[x].p][f[x].at], [s |-> x, min |-> f[x].at, max |-> m])
    <3>3. \A x, m : Body(h, n, x, m) = More(x, m)
      BY <2>2 DEF StartsWith
    <3>4. h[n] = [x \in DOMAIN f |-> [m \in 0..top |-> More(x, m)]]
      BY <3>2 DEF Unfolded
    <3> HIDE DEF Body, More
    <3> QED
      BY <3>3, <3>4
  <2> QED
    BY <2>1, <2>2
<1>8. E(h)
  <2>1. h = [n \in 0..D |-> h[n]]
    BY <1>5
  <2>2. [n \in 0..D |-> h[n]] = [n \in 0..D |-> [x \in DOMAIN f |-> [m \in 0..top |-> Body(h, n, x, m)]]]
    <3> HIDE DEF Body, D
    <3> QED
      BY <1>7
  <2> HIDE DEF Body, D
  <2> QED
    BY <2>1, <2>2
<1>9. Segments(f, s, top) = (CHOOSE w : E(w))[D][s][top]
  BY DEF Segments
<1> DEFINE W == CHOOSE w : E(w)
<1>10. E(W)
  <2> HIDE DEF E
  <2> QED
    BY <1>8
<1> HIDE DEF W
<1>11. \A n \in 0..D : W[n] = [x \in DOMAIN f |-> [m \in 0..top |-> Body(W, n, x, m)]]
  <2> HIDE DEF Body, D
  <2> QED
    BY <1>10
<1>12. W[0] = Shortest(f, top)
  <2>1. 0 \in 0..D
    BY <1>1
  <2>2. \A x, m : Body(W, 0, x, m) = StartsWith(x, m)
    BY DEF StartsWith
  <2>3. W[0] = [x \in DOMAIN f |-> [m \in 0..top |-> Body(W, 0, x, m)]]
    <3> HIDE DEF Body, D
    <3> QED
      BY <1>11, <2>1
  <2> HIDE DEF Body
  <2> QED
    BY <2>2, <2>3 DEF Shortest
<1>13. ASSUME NEW n \in 1..D PROVE W[n] = Unfolded(f, top, W[n - 1])
  <2>1. n \in 0..D /\ n # 0
    BY <1>1
  <2> DEFINE More(x, m) == IF ~ Forked(f, x) THEN StartsWith(x, m)
                           ELSE Append(W[n - 1][f[x].p][f[x].at], [s |-> x, min |-> f[x].at, max |-> m])
  <2>2. \A x, m : Body(W, n, x, m) = More(x, m)
    BY <2>1 DEF StartsWith
  <2>3. W[n] = [x \in DOMAIN f |-> [m \in 0..top |-> Body(W, n, x, m)]]
    <3> HIDE DEF Body, D
    <3> QED
      BY <1>11, <2>1
  <2>4. Unfolded(f, top, W[n - 1]) = [x \in DOMAIN f |-> [m \in 0..top |-> More(x, m)]]
    BY DEF Unfolded
  <2> HIDE DEF Body, More
  <2> QED
    BY <2>2, <2>3, <2>4
<1>14. W \in [0..D -> V]
  <2> DEFINE S == {n \in 0..D : W[n] \in V}
  <2>1. 0 \in S
    BY <1>1, <1>2, <1>12
  <2>2. \A n \in 0..D : n \in S /\ n < D => n + 1 \in S
    <3> SUFFICES ASSUME NEW n \in 0..D, n \in S, n < D PROVE n + 1 \in S
      OBVIOUS
    <3>1. n + 1 \in 1..D /\ n + 1 \in 0..D /\ (n + 1) - 1 = n
      BY <1>1
    <3>2. W[n + 1] = Unfolded(f, top, W[n])
      BY <1>13, <3>1
    <3>3. W[n] \in Tables(f, top)
      OBVIOUS
    <3> QED
      BY <3>1, <3>2, <3>3, UnfoldedTyped
  <2> HIDE DEF S
  <2>3. 0..D \subseteq S
    BY <1>1, <2>1, <2>2, UpTo
  <2>4. \A n \in 0..D : W[n] \in V
    BY <2>3 DEF S
  <2>5. W = [n \in 0..D |-> W[n]]
    <3>1. W = [n \in 0..D |-> [x \in DOMAIN f |-> [m \in 0..top |-> Body(W, n, x, m)]]]
      BY <1>10
    <3> HIDE DEF Body, D
    <3> QED
      BY <3>1
  <2> HIDE DEF V, D
  <2> QED
    BY <2>4, <2>5
<1> HIDE DEF E
<1>15. Segments(f, s, top) = W[D][s][top]
  BY <1>9 DEF W
<1>16. /\ W \in [0..Depth(f) -> Tables(f, top)]
       /\ W[0] = Shortest(f, top)
       /\ \A n \in 1..Depth(f) : W[n] = Unfolded(f, top, W[n - 1])
       /\ Segments(f, s, top) = W[Depth(f)][s][top]
  BY <1>12, <1>13, <1>14, <1>15
<1> QED
  BY <1>16

Events(f, E) == \A e \in E : e.id \in Nat \ {0} /\ e.s \in DOMAIN f
\* q reads of the history of x, as far as n forks up, what comes up to m.
ReadsUpTo(f, q, n, x, m, E) ==
    /\ q \in Seq(Piece(f)) /\ Len(q) \in Nat \ {0}
    /\ Successive(q)
    /\ \A i \in 1..Len(q) : q[i].max <= m /\ Ends(f, x, q[i])
    /\ \A e \in E : WithinSome(q, e) <=> e.id <= m /\ x \in Heirs(f, e)[n]

\* The segment of a stream that was not forked.
LEMMA FirstSegment ==
    ASSUME NEW f, IsFiniteSet(DOMAIN f), NEW E, Events(f, E), NEW n \in 0..Depth(f),
           NEW x \in DOMAIN f, NEW m \in Nat, n = 0 \/ ~ Forked(f, x)
    PROVE  ReadsUpTo(f, StartsWith(x, m), n, x, m, E)
<1> DEFINE g == [s |-> x, min |-> 0, max |-> m]
           q == <<g>>
<1>1. g \in Piece(f) /\ g.s = x /\ g.min = 0 /\ g.max = m
  BY DEF Piece
<1> HIDE DEF g
<1>2. q \in Seq(Piece(f)) /\ Len(q) = 1 /\ q[1] = g
  BY <1>1
<1> HIDE DEF q
<1>3. \A i \in 1..Len(q) : q[i] = g
  BY <1>2
<1>4. Successive(q) /\ \A i \in 1..Len(q) : q[i].max <= m /\ Ends(f, x, q[i])
  BY <1>1, <1>2, <1>3 DEF Successive, Ends
<1>5. ASSUME NEW e \in E PROVE WithinSome(q, e) <=> e.id <= m /\ x \in Heirs(f, e)[n]
  <2>1. e.id \in Nat \ {0} /\ e.s \in DOMAIN f
    BY DEF Events
  <2>2. WithinSome(q, e) <=> e.s = x /\ e.id <= m
    BY <1>1, <1>2, <1>3, <2>1 DEF WithinSome, Within
  <2>3. x \in Heirs(f, e)[n] <=> e.s = x
    <3>1. CASE n = 0
      BY <2>1, <3>1, HeirsFacts
    <3>2. CASE n # 0
      <4>1. n \in 1..Depth(f) /\ ~ Forked(f, x)
        BY <2>1, <3>2, HeirsFacts
      <4> QED
        BY <2>1, <4>1, HeirsFacts
    <3> QED
      BY <3>1, <3>2
  <2> QED
    BY <2>2, <2>3
<1>6. q = StartsWith(x, m)
  BY DEF q, g, StartsWith
<1>7. Len(q) \in Nat \ {0}
  BY <1>2
<1>8. ReadsUpTo(f, q, n, x, m, E)
  BY <1>2, <1>4, <1>5, <1>7 DEF ReadsUpTo
<1> QED
  BY <1>6, <1>8

\* One more fork.
LEMMA NextSegment ==
    ASSUME NEW f, IsFiniteSet(DOMAIN f), NEW E, Events(f, E), NEW n \in 1..Depth(f),
           NEW x \in DOMAIN f, Forked(f, x), f[x].p \in DOMAIN f, f[x].at \in Nat,
           NEW m \in Nat, f[x].at <= m,
           NEW q, ReadsUpTo(f, q, n - 1, f[x].p, f[x].at, E)
    PROVE  ReadsUpTo(f, Append(q, [s |-> x, min |-> f[x].at, max |-> m]), n, x, m, E)
<1> DEFINE at == f[x].at
           g == [s |-> x, min |-> at, max |-> m]
           u == Append(q, g)
           k == Len(q)
<1>1. g \in Piece(f) /\ g.s = x /\ g.min = at /\ g.max = m
  BY DEF Piece
<1>2. q \in Seq(Piece(f)) /\ k \in Nat \ {0} /\ Successive(q)
  BY DEF ReadsUpTo
<1>3. \A i \in 1..k : q[i] \in Piece(f) /\ q[i].max <= at /\ q[i].max \in Nat
  <2>1. \A i \in 1..k : q[i] \in Piece(f)
    BY <1>2
  <2>2. \A y \in Piece(f) : y.max \in Nat
    BY DEF Piece
  <2> QED
    BY <2>1, <2>2 DEF ReadsUpTo
<1>4. \A e \in E : WithinSome(q, e) <=> e.id <= at /\ f[x].p \in Heirs(f, e)[n - 1]
  BY DEF ReadsUpTo
<1> HIDE DEF g, at
<1>5. u \in Seq(Piece(f)) /\ Len(u) = k + 1 /\ (\A i \in 1..k : u[i] = q[i]) /\ u[k + 1] = g
  BY <1>1, <1>2, AppendProperties
<1> HIDE DEF u, k
<1>6. \A i \in 1..Len(u) : i \in 1..k \/ i = k + 1
  BY <1>2, <1>5
<1>7. at \in Nat /\ at <= m
  BY DEF at
<1>8. Successive(u)
  <2>1. ASSUME NEW i \in 1..Len(u) PROVE u[i].min <= u[i].max
    BY <1>1, <1>2, <1>5, <1>6, <1>7 DEF Successive, k
  <2>2. ASSUME NEW i \in 1..Len(u), NEW j \in 1..Len(u), i < j PROVE u[i].max <= u[j].min
    <3>1. i \in 1..k
      BY <1>2, <1>6, <2>2
    <3>2. CASE j \in 1..k
      BY <1>2, <1>5, <2>2, <3>1, <3>2 DEF Successive, k
    <3>3. CASE j = k + 1
      BY <1>1, <1>3, <1>5, <3>1, <3>3
    <3> QED
      BY <1>6, <3>2, <3>3
  <2> QED
    BY <2>1, <2>2 DEF Successive
<1>9. ASSUME NEW i \in 1..Len(u) PROVE u[i].max <= m /\ Ends(f, x, u[i])
  <2>1. CASE i = k + 1
    BY <1>1, <1>5, <2>1 DEF Ends
  <2>2. CASE i \in 1..k
    <3>1. u[i].max <= at /\ u[i].max \in Nat
      BY <1>3, <1>5, <2>2
    <3> QED
      BY <1>7, <3>1 DEF Ends, at
  <2> QED
    BY <1>6, <2>1, <2>2
<1>10. ASSUME NEW e \in E PROVE WithinSome(u, e) <=> e.id <= m /\ x \in Heirs(f, e)[n]
  <2>1. e.id \in Nat \ {0} /\ e.s \in DOMAIN f
    BY DEF Events
  <2>2. WithinSome(u, e) <=> WithinSome(q, e) \/ Within(g, e)
    <3>1. ASSUME WithinSome(u, e) PROVE WithinSome(q, e) \/ Within(g, e)
      <4>1. PICK i \in 1..Len(u) : Within(u[i], e)
        BY <3>1 DEF WithinSome
      <4> QED
        BY <1>5, <1>6, <4>1 DEF WithinSome, k
    <3>2. ASSUME WithinSome(q, e) PROVE WithinSome(u, e)
      <4>1. PICK i \in 1..k : Within(q[i], e)
        BY <3>2 DEF WithinSome, k
      <4>2. i \in 1..Len(u) /\ u[i] = q[i]
        BY <1>2, <1>5, <4>1
      <4> QED
        BY <4>1, <4>2 DEF WithinSome
    <3>3. ASSUME Within(g, e) PROVE WithinSome(u, e)
      <4>1. k + 1 \in 1..Len(u)
        BY <1>2, <1>5
      <4> QED
        BY <1>5, <3>3, <4>1 DEF WithinSome
    <3> QED
      BY <3>1, <3>2, <3>3
  <2>3. Within(g, e) <=> e.s = x /\ e.id > at /\ e.id <= m
    BY <1>1 DEF Within
  <2>4. x \in Heirs(f, e)[n] <=> (x = e.s /\ e.id > at) \/ (f[x].p \in Heirs(f, e)[n - 1] /\ e.id <= at)
    BY <2>1, HeirsFacts DEF at
  <2>5. WithinSome(q, e) <=> e.id <= at /\ f[x].p \in Heirs(f, e)[n - 1]
    BY <1>4
  <2> QED
    BY <1>7, <2>1, <2>2, <2>3, <2>4, <2>5
<1>11. u = Append(q, [s |-> x, min |-> f[x].at, max |-> m])
  BY DEF u, g, at
<1> QED
  BY <1>2, <1>5, <1>8, <1>9, <1>10, <1>11 DEF ReadsUpTo

\* The segments a replay reads come one after the other and hold the stream's history.
LEMMA SegmentsFacts ==
    ASSUME NEW f, IsFiniteSet(DOMAIN f), NEW top \in Nat, NestedUpTo(f, top), NEW s \in DOMAIN f,
           NEW E, Events(f, E)
    PROVE  ReadsUpTo(f, Segments(f, s, top), Depth(f), s, top, E)
<1>1. PICK h : /\ h \in [0..Depth(f) -> Tables(f, top)]
               /\ h[0] = Shortest(f, top)
               /\ \A n \in 1..Depth(f) : h[n] = Unfolded(f, top, h[n - 1])
               /\ Segments(f, s, top) = h[Depth(f)][s][top]
  BY SegmentsUnfold
<1> DEFINE D == Depth(f)
           Read(n) == \A x \in DOMAIN f, m \in 0..top :
               (Forked(f, x) => f[x].at <= m) => ReadsUpTo(f, h[n][x][m], n, x, m, E)
           S == {n \in 0..D : Read(n)}
<1>2. D \in Nat
  BY FS_CardinalityType DEF Depth
<1> HIDE DEF D
<1>3. 0 \in S
  <2>1. ASSUME NEW x \in DOMAIN f, NEW m \in 0..top PROVE ReadsUpTo(f, h[0][x][m], 0, x, m, E)
    <3>1. m \in Nat /\ 0 \in 0..Depth(f)
      BY <1>2 DEF D
    <3>2. h[0][x][m] = StartsWith(x, m)
      BY <1>1 DEF Shortest
    <3>3. ReadsUpTo(f, StartsWith(x, m), 0, x, m, E)
      BY <3>1, FirstSegment
    <3> QED
      BY <3>2, <3>3
  <2> QED
    BY <1>2, <2>1
<1>4. ASSUME NEW n \in 0..D, n \in S, n < D PROVE n + 1 \in S
  <2>1. n + 1 \in 1..D /\ n + 1 \in 0..D /\ (n + 1) - 1 = n /\ Read(n)
    BY <1>2, <1>4
  <2>2. h[n + 1] = Unfolded(f, top, h[n])
    BY <1>1, <2>1 DEF D
  <2>3. ASSUME NEW x \in DOMAIN f, NEW m \in 0..top, Forked(f, x) => f[x].at <= m
        PROVE  ReadsUpTo(f, h[n + 1][x][m], n + 1, x, m, E)
    <3>1. m \in Nat
      OBVIOUS
    <3>2. h[n + 1][x][m] = IF ~ Forked(f, x) THEN StartsWith(x, m)
              ELSE Append(h[n][f[x].p][f[x].at], [s |-> x, min |-> f[x].at, max |-> m])
      BY <2>2 DEF Unfolded
    <3>3. CASE ~ Forked(f, x)
      <4>1. ReadsUpTo(f, StartsWith(x, m), n + 1, x, m, E)
        BY <2>1, <3>1, <3>3, FirstSegment DEF D
      <4> QED
        BY <3>2, <3>3, <4>1
    <3>4. CASE Forked(f, x)
      <4>1. /\ f[x].p \in DOMAIN f /\ f[x].at \in 0..top /\ f[x].at \in Nat
            /\ Forked(f, f[x].p) => f[f[x].p].at <= f[x].at
        BY <3>4 DEF NestedUpTo
      <4>2. ReadsUpTo(f, h[n][f[x].p][f[x].at], (n + 1) - 1, f[x].p, f[x].at, E)
        BY <2>1, <4>1
      <4>3. ReadsUpTo(f, Append(h[n][f[x].p][f[x].at], [s |-> x, min |-> f[x].at, max |-> m]), n + 1, x, m, E)
        BY <2>1, <2>3, <3>1, <3>4, <4>1, <4>2, NextSegment DEF D
      <4> QED
        BY <3>2, <3>4, <4>3
    <3> QED
      BY <3>3, <3>4
  <2> QED
    BY <2>1, <2>3
<1>5. D \in S
  <2>1. \A n \in 0..D : n \in S /\ n < D => n + 1 \in S
    BY <1>4
  <2> HIDE DEF S
  <2>2. 0..D \subseteq S
    BY <1>2, <1>3, <2>1, UpTo
  <2> QED
    BY <1>2, <2>2
<1>6. Forked(f, s) => f[s].at <= top
  BY DEF NestedUpTo
<1>7. ReadsUpTo(f, h[D][s][top], D, s, top, E)
  BY <1>5, <1>6
<1> QED
  BY <1>1, <1>7 DEF D

-----------------------------------------------------------------------------
(* The histories, while streams are forked and events stored.              *)

\* Stream s has event e in its history.
Has(f, s, e) == s \in Heirs(f, e)[Depth(f)]

\* A stream has its own events, those after its fork point.
LEMMA HasOwn ==
    ASSUME NEW f, IsFiniteSet(DOMAIN f), NEW e, e.s \in DOMAIN f, Forked(f, e.s) => e.id > f[e.s].at
    PROVE  Has(f, e.s, e)
<1>1. CASE Depth(f) = 0
  BY <1>1, HeirsFacts DEF Has
<1>2. CASE Depth(f) # 0
  <2>1. Depth(f) \in 1..Depth(f)
    BY <1>2, HeirsFacts
  <2> QED
    BY <2>1, HeirsFacts DEF Has
<1> QED
  BY <1>1, <1>2

\* Of a stream that was not forked there are no others.
LEMMA HasOnlyOwn ==
    ASSUME NEW f, IsFiniteSet(DOMAIN f), NEW e, e.s \in DOMAIN f, NEW s \in DOMAIN f, ~ Forked(f, s), Has(f, s, e)
    PROVE  e.s = s
<1>1. CASE Depth(f) = 0
  BY <1>1, HeirsFacts DEF Has
<1>2. CASE Depth(f) # 0
  <2>1. Depth(f) \in 1..Depth(f)
    BY <1>2, HeirsFacts
  <2> QED
    BY <2>1, HeirsFacts DEF Has
<1> QED
  BY <1>1, <1>2

\* Where two fork tables agree, the histories do.
LEMMA SameHeirs ==
    ASSUME NEW f, IsFiniteSet(DOMAIN f), NEW g, DOMAIN g = DOMAIN f, NEW S \in SUBSET DOMAIN f,
           \A x \in S : g[x] = f[x] /\ (Forked(f, x) => f[x].p \in S),
           NEW e, e.s \in DOMAIN f, NEW s \in S
    PROVE  Has(g, s, e) <=> Has(f, s, e)
<1> DEFINE D == Depth(f)
           T == {n \in 0..D : \A x \in S : x \in Heirs(g, e)[n] <=> x \in Heirs(f, e)[n]}
<1>1. Depth(g) = D /\ D \in Nat
  BY HeirsFacts DEF Depth
<1>2. \A x \in S : x \in DOMAIN f /\ (Forked(g, x) <=> Forked(f, x))
  BY DEF Forked
<1>3. 0 \in T
  BY <1>1, HeirsFacts
<1>4. ASSUME NEW n \in 0..D, n \in T, n < D PROVE n + 1 \in T
  <2>1. n + 1 \in 1..D /\ n + 1 \in 0..D /\ (n + 1) - 1 = n
    BY <1>1, <1>4
  <2>2. \A x \in S : x \in Heirs(g, e)[n] <=> x \in Heirs(f, e)[n]
    BY <1>4
  <2>3. ASSUME NEW x \in S PROVE x \in Heirs(g, e)[n + 1] <=> x \in Heirs(f, e)[n + 1]
    <3>1. x \in Heirs(f, e)[n + 1] <=>
            IF ~ Forked(f, x) THEN x = e.s
            ELSE \/ x = e.s /\ e.id > f[x].at
                 \/ f[x].p \in Heirs(f, e)[n] /\ e.id <= f[x].at
      BY <2>1, HeirsFacts
    <3>2. x \in Heirs(g, e)[n + 1] <=>
            IF ~ Forked(g, x) THEN x = e.s
            ELSE \/ x = e.s /\ e.id > g[x].at
                 \/ g[x].p \in Heirs(g, e)[n] /\ e.id <= g[x].at
      BY <1>1, <2>1, HeirsFacts
    <3> QED
      BY <1>2, <2>2, <3>1, <3>2
  <2> QED
    BY <2>1, <2>3
<1>5. D \in T
  <2>1. \A n \in 0..D : n \in T /\ n < D => n + 1 \in T
    BY <1>4
  <2> HIDE DEF T, D
  <2>2. 0..D \subseteq T
    BY <1>1, <1>3, <2>1, UpTo
  <2> QED
    BY <1>1, <2>2
<1> QED
  BY <1>1, <1>5 DEF Has

\* What is stored was numbered in the order it came; a stream is forked at an event of its
\* parent, and before it has events of its own.
Kinds == {"stores", "forks", "faults", "reads"}
Grown ==
    /\ used \in [Kinds -> Nat] /\ seq = used["stores"] /\ seq <= Top /\ Top \in Nat
    /\ \A x \in acked : x.id \in 1..seq /\ x.from = x.id /\ x.s \in Streams
    /\ Unique(acked) /\ hot \subseteq acked
    /\ \A s \in Streams : Forked(hotForks, s) =>
           /\ hotForks[s].p \in Streams /\ hotForks[s].at \in 1..seq
           /\ \E x \in acked : x.id = hotForks[s].at /\ x.s = hotForks[s].p
    /\ \A x \in acked : Forked(hotForks, x.s) => x.id > hotForks[x.s].at

LEMMA GrownInit == Init => Grown
<1> SUFFICES ASSUME Init PROVE Grown
  OBVIOUS
<1>1. \A s \in Streams : ~ Forked(hotForks, s)
  BY DEF Init, Root, Forked
<1>2. used \in [Kinds -> Nat] /\ used["stores"] = 0
  BY DEF Init, Kinds
<1>3. Top \in Nat
  BY TiersAssumption DEF Init, Top
<1> QED
  BY <1>1, <1>2, <1>3 DEF Init, Grown, Unique

\* A step that stores no event and forks no stream.
LEMMA GrownKept ==
    ASSUME Grown, UNCHANGED <<job, seq, acked, hotForks>>, hot' \subseteq hot,
           used' = used \/ \E c \in {"forks", "faults", "reads"} : Bump(c)
    PROVE  Grown'
<1>1. used' \in [Kinds -> Nat] /\ used'["stores"] = used["stores"]
  BY DEF Grown, Kinds, Bump
<1>2. Top' = Top
  BY DEF Top
<1> QED
  BY <1>1, <1>2 DEF Grown, Forked, Unique

LEMMA StoreGrown ==
    ASSUME Shape, Grown, NEW s \in Streams, NEW t, Store(s, t)
    PROVE  Grown'
<1> DEFINE x == [id |-> seq + 1, s |-> s, t |-> t, from |-> seq + 1]
<1>1. /\ hot' = hot \cup {x} /\ acked' = acked \cup {x} /\ seq' = seq + 1 /\ UNCHANGED <<job, hotForks>>
      /\ x.id = seq + 1 /\ x.from = seq + 1 /\ x.s = s
  BY DEF Store
<1> HIDE DEF x
<1>2. used["stores"] < Top /\ used' = [used EXCEPT !["stores"] = @ + 1]
  BY DEF Store, Bump, Top
<1>3. used' \in [Kinds -> Nat] /\ seq' = used'["stores"] /\ seq' <= Top' /\ Top' \in Nat
  BY <1>1, <1>2 DEF Grown, Kinds, Top
<1>4. \A y \in acked : y.id \in 1..seq /\ y.id \in 1..seq' /\ y.id # seq + 1 /\ y.from = y.id /\ y.s \in Streams
  BY <1>1 DEF Shape, Grown
<1>5. (\A y \in acked' : y.id \in 1..seq' /\ y.from = y.id /\ y.s \in Streams) /\ Unique(acked') /\ hot' \subseteq acked'
  <2>1. x.id \in 1..seq'
    BY <1>1 DEF Shape
  <2> QED
    BY <1>1, <1>4, <2>1 DEF Grown, Unique
<1>6. ASSUME NEW c \in Streams, Forked(hotForks', c)
      PROVE  /\ hotForks'[c].p \in Streams /\ hotForks'[c].at \in 1..seq'
             /\ \E y \in acked' : y.id = hotForks'[c].at /\ y.s = hotForks'[c].p
  <2>1. Forked(hotForks, c) /\ hotForks' = hotForks /\ \A n \in 1..seq : n \in 1..seq'
    BY <1>1, <1>6 DEF Shape
  <2> QED
    BY <1>1, <2>1 DEF Grown
<1>7. ASSUME NEW y \in acked', Forked(hotForks', y.s) PROVE y.id > hotForks'[y.s].at
  <2>1. Forked(hotForks, y.s) /\ hotForks' = hotForks
    BY <1>1, <1>7
  <2>2. CASE y = x
    <3>1. hotForks[s].at \in 1..seq
      BY <1>1, <2>1, <2>2 DEF Grown
    <3> QED
      BY <1>1, <2>1, <2>2, <3>1 DEF Shape
  <2>3. CASE y \in acked
    BY <2>1, <2>3 DEF Grown
  <2> QED
    BY <1>1, <2>2, <2>3
<1> QED
  BY <1>3, <1>5, <1>6, <1>7 DEF Grown

LEMMA ForkGrown ==
    ASSUME Shape, Grown, NEW c \in Streams, NEW p \in Streams, NEW at \in 1..seq, ForkHot(c, p, at)
    PROVE  Grown'
<1>1. /\ hotForks' = [hotForks EXCEPT ![c] = [p |-> p, at |-> at]]
      /\ UNCHANGED <<job, hot, seq, acked>>
      /\ Bump("forks") /\ (\A x \in acked : x.s # c) /\ \E x \in acked : x.id = at /\ x.s = p
  BY DEF ForkHot, Forkable
<1>2. used' \in [Kinds -> Nat] /\ used'["stores"] = used["stores"]
  BY <1>1 DEF Grown, Kinds, Bump
<1>3. hotForks \in [Streams -> Links(seq)]
  BY DEF Shape
<1>4. hotForks'[c] = [p |-> p, at |-> at] /\ \A x \in Streams \ {c} : hotForks'[x] = hotForks[x]
  BY <1>1, <1>3
<1>5. ASSUME NEW s \in Streams, Forked(hotForks', s)
      PROVE  /\ hotForks'[s].p \in Streams /\ hotForks'[s].at \in 1..seq'
             /\ \E x \in acked' : x.id = hotForks'[s].at /\ x.s = hotForks'[s].p
  <2>1. CASE s = c
    BY <1>1, <1>4, <2>1
  <2>2. CASE s # c
    <3>1. Forked(hotForks, s) /\ hotForks'[s] = hotForks[s]
      BY <1>4, <1>5, <2>2 DEF Forked
    <3> QED
      BY <1>1, <3>1 DEF Grown
  <2> QED
    BY <2>1, <2>2
<1>6. ASSUME NEW x \in acked', Forked(hotForks', x.s) PROVE x.id > hotForks'[x.s].at
  <2>1. x \in acked /\ x.s \in Streams \ {c}
    BY <1>1 DEF Grown
  <2>2. Forked(hotForks, x.s) /\ hotForks'[x.s] = hotForks[x.s]
    BY <1>4, <1>6, <2>1 DEF Forked
  <2> QED
    BY <2>1, <2>2 DEF Grown
<1>7. Top' = Top
  BY <1>1 DEF Top
<1> QED
  BY <1>1, <1>2, <1>5, <1>6, <1>7 DEF Grown, Unique

\* All other steps.
Quiet == UNCHANGED <<job, seq, acked, hotForks>> /\ hot' \subseteq hot /\ (used' = used \/ \E c \in {"forks", "faults", "reads"} : Bump(c))
LEMMA TierQuiet ==
    ASSUME \/ ForkCold \/ ForkColdFails \/ \E t : Ages(t)
           \/ \E a \in Archivers : Archive(a) \/ Fails(a)
           \/ \E r \in Readers : Reads(r)
    PROVE  Quiet
<1>1. CASE ForkCold \/ ForkColdFails \/ \E t : Ages(t)
  BY <1>1 DEF Quiet, ForkCold, ForkColdFails, Ages
<1>2. CASE \E a \in Archivers : Archive(a) \/ Fails(a)
  BY <1>2 DEF Quiet, Archive, Select, Copy, Delete, DeletesBatch, Removes, Fails
<1>3. ASSUME NEW r \in Readers, Reads(r) PROVE Quiet
  <2>1. CASE \E last \in 0..seq, s \in Streams \cup {Nobody} : AskFirst(r, last, s)
    BY <2>1 DEF Quiet, AskFirst
  <2>2. CASE AskSecond(r) \/ ReplayHot(r) \/ ReplayCold(r)
    BY <2>2 DEF Quiet, AskSecond, ReplayHot, ReplayCold
  <2>3. CASE ReadSegment(r) \/ Walk(r) \/ Answered(r)
    BY <2>3 DEF Quiet, ReadSegment, Walk, Answered
  <2> QED
    BY <1>3, <2>1, <2>2, <2>3 DEF Reads
<1> QED
  BY <1>1, <1>2, <1>3
LEMMA JobsQuiet ==
    ASSUME \/ Purge \/ PurgeGivesUp
           \/ Wakes \/ CycleEnds \/ PurgeBatch \/ PurgeFails \/ Record \/ RecordFails \/ Restarts
           \/ \E t \in Tenants : NextTenant(t)
           \/ Migrate \/ Fetch \/ Put \/ StreamDone \/ StreamFails
           \/ \E s \in Streams : NextStream(s)
    PROVE  Quiet
<1>1. CASE Purge \/ PurgeGivesUp
  BY <1>1 DEF Quiet, Purge, PurgeGivesUp
<1>2. CASE Wakes \/ CycleEnds \/ PurgeBatch \/ PurgeFails \/ Record
  BY <1>2 DEF Quiet, Wakes, CycleEnds, PurgeBatch, PurgeFails, Record
<1>3. CASE RecordFails \/ Restarts \/ \E t \in Tenants : NextTenant(t)
  BY <1>3 DEF Quiet, RecordFails, SinkFails, Restarts, NextTenant
<1>4. CASE Migrate \/ Fetch \/ Put
  BY <1>4 DEF Quiet, Migrate, Fetch, Put, PutAs
<1>5. CASE StreamDone \/ StreamFails \/ \E s \in Streams : NextStream(s)
  BY <1>5 DEF Quiet, StreamDone, StreamFails, NextStream
<1> QED
  BY <1>1, <1>2, <1>3, <1>4, <1>5

LEMMA GrownStep == Shape /\ Grown /\ [Next]_vars => Grown'
<1> SUFFICES ASSUME Shape, Grown, [Next]_vars PROVE Grown'
  OBVIOUS
<1>1. CASE UNCHANGED vars
  BY <1>1, GrownKept DEF vars, tiers
<1>2. CASE Quiet
  BY <1>2, GrownKept DEF Quiet
<1>3. CASE \E s \in Streams : \E t : Store(s, t)
  BY <1>3, StoreGrown
<1>4. CASE \E c, p \in Streams, at \in 1..seq : ForkHot(c, p, at)
  BY <1>4, ForkGrown
<1>5. CASE TierStep
  BY <1>2, <1>3, <1>4, <1>5, TierQuiet DEF TierStep, Reads
<1>6. CASE PurgeStep
  BY <1>2, <1>3, <1>6, TierQuiet, JobsQuiet DEF PurgeStep
<1>7. CASE RetentionStep
  BY <1>2, <1>3, <1>7, TierQuiet, JobsQuiet DEF RetentionStep
<1>8. CASE MigrationStep
  BY <1>2, <1>3, <1>4, <1>8, TierQuiet, JobsQuiet DEF MigrationStep
<1> QED
  BY <1>1, <1>5, <1>6, <1>7, <1>8 DEF Next

-----------------------------------------------------------------------------
(* Migration.                                                              *)

\* What the chain of a stream is read by holds the history of the stream.
LEMMA GrownFacts ==
    ASSUME Shape, Grown
    PROVE  /\ DOMAIN hotForks = Streams /\ IsFiniteSet(DOMAIN hotForks)
           /\ NestedUpTo(hotForks, Top) /\ Events(hotForks, acked)
           /\ \A e \in acked : Has(hotForks, e.s, e)
<1>1. DOMAIN hotForks = Streams
  BY DEF Shape
<1>2. IsFiniteSet(DOMAIN hotForks)
  BY <1>1, StreamsAssumption
<1>3. ASSUME NEW x \in Streams, Forked(hotForks, x)
      PROVE  /\ hotForks[x].p \in Streams /\ hotForks[x].at \in 1..Top
             /\ Forked(hotForks, hotForks[x].p) => hotForks[hotForks[x].p].at <= hotForks[x].at
  <2>1. hotForks[x].p \in Streams /\ hotForks[x].at \in 1..seq /\ seq \in Nat /\ seq <= Top /\ Top \in Nat
    BY <1>3 DEF Grown, Shape
  <2>2. PICK y \in acked : y.id = hotForks[x].at /\ y.s = hotForks[x].p
    BY <1>3 DEF Grown
  <2>3. CASE Forked(hotForks, hotForks[x].p)
    <3>1. y.id > hotForks[y.s].at
      BY <2>2, <2>3 DEF Grown
    <3>2. hotForks[y.s].at \in 1..seq
      BY <2>1, <2>2, <2>3 DEF Grown
    <3> QED
      BY <2>1, <2>2, <3>1, <3>2
  <2> QED
    BY <2>1, <2>3
<1>4. NestedUpTo(hotForks, Top)
  BY <1>1, <1>3 DEF NestedUpTo
<1>5. ASSUME NEW e \in acked PROVE e.id \in Nat \ {0} /\ e.s \in DOMAIN hotForks
  <2>1. e.id \in 1..seq /\ e.s \in Streams
    BY DEF Grown
  <2> QED
    BY <1>1, <2>1 DEF Shape
<1>6. ASSUME NEW e \in acked PROVE Has(hotForks, e.s, e)
  <2>1. Forked(hotForks, e.s) => e.id > hotForks[e.s].at
    BY DEF Grown
  <2> QED
    BY <1>2, <1>5, <2>1, HasOwn
<1> QED
  BY <1>1, <1>2, <1>4, <1>5, <1>6 DEF Events

\* The histories stay the same for what was stored, but for the stream that is forked.
LEMMA ForkHas ==
    ASSUME Shape, Grown, NEW c \in Streams, NEW p \in Streams, NEW at \in 1..seq, ForkHot(c, p, at),
           NEW s \in Streams, s # c, NEW e \in acked
    PROVE  Has(hotForks', s, e) <=> Has(hotForks, s, e)
<1> DEFINE S == Streams \ {c}
<1>1. hotForks' = [hotForks EXCEPT ![c] = [p |-> p, at |-> at]] /\ \A x \in acked : x.s # c
  BY DEF ForkHot, Forkable
<1>2. DOMAIN hotForks = Streams /\ DOMAIN hotForks' = Streams /\ IsFiniteSet(DOMAIN hotForks) /\ e.s \in DOMAIN hotForks
  BY <1>1, GrownFacts DEF Events
<1>3. \A x \in S : hotForks'[x] = hotForks[x]
  BY <1>1, <1>2
<1>4. ASSUME NEW x \in S, Forked(hotForks, x) PROVE hotForks[x].p \in S
  BY <1>1, <1>4 DEF Grown
<1>5. S \in SUBSET DOMAIN hotForks /\ s \in S
  BY <1>2
<1> HIDE DEF S
<1> QED
  BY <1>2, <1>3, <1>4, <1>5, SameHeirs

Pieces == [s : Streams, min : Nat, max : Nat]
From(C) == {x.from : x \in C}
Copies(s) == {x \in cold : x.s = s}

\* The copies C of a stream that has the events P in its history, and had those in W.
Faithful(C, P, W) ==
    /\ \A x, y \in C : x.id < y.id => x.from < y.from
    /\ From(C) \subseteq P
    /\ \A i \in W, j \in From(C) : i < j => i \in From(C)
\* The copying of a stream under way: what is left to be read and stored comes after the
\* copies, and is what is missing from them.
Waiting(o, C, f) ==
    /\ \A i \in 1..Len(o.queue) : Has(f, o.s, o.queue[i])
    /\ \A i, j \in 1..Len(o.queue) : i < j => o.queue[i].from < o.queue[j].from
    /\ \A i \in 1..Len(o.queue) : \A x \in C : x.from < o.queue[i].from
Unread(o, C, n) ==
    /\ Successive(o.segs)
    /\ \A g \in 1..Len(o.segs) :
          /\ o.segs[g].s = o.s \/ o.segs[g].max <= n
          /\ \A x \in C : x.from <= o.segs[g].min
          /\ \A i \in 1..Len(o.queue) : o.queue[i].from <= o.segs[g].min
InQueue(q, e) == \E i \in 1..Len(q) : q[i].from = e.id
Ahead(o, C, f, A, W) ==
    /\ \A e \in A : WithinSome(o.segs, e) => Has(f, o.s, e)
    /\ \A e \in W : Has(f, o.s, e) => e.id \in From(C) \/ InQueue(o.queue, e) \/ WithinSome(o.segs, e)
Halfway(o, C) ==
    /\ o.segs \in Seq(Pieces) /\ o.queue \in Seq(acked)
    /\ Waiting(o, C, hotForks) /\ Unread(o, C, seq) /\ Ahead(o, C, hotForks, acked, source)

Sources == {x.s : x \in source}
MigratorAt(o) ==
    \/ o = Idle /\ cold = {}
    \/ /\ o \in [k : {"next"}, left : SUBSET Sources, done : SUBSET Sources]
       /\ o.left \cap o.done = {}
    \/ /\ o \in [k : {"copy"}, left : SUBSET Sources, done : SUBSET Sources, s : Sources,
                 segs : Seq(Pieces), queue : Seq(acked)]
       /\ o.left \cap o.done = {} /\ o.s \notin o.left \cup o.done
       /\ Halfway(o, Copies(o.s))
HistoryIds(s, A) == {e.id : e \in {x \in A : Has(hotForks, s, x)}}
Copying ==
    Migrates =>
        /\ hot = acked /\ source \subseteq acked
        /\ MigratorAt(M)
        /\ \A x \in cold : x.s \in Sources /\ (M # Idle => x.s \notin M.left)
        /\ \A s \in Streams : Faithful(Copies(s), HistoryIds(s, acked), HistoryIds(s, source))
        /\ M # Idle => \A s \in M.done : HistoryIds(s, source) \subseteq From(Copies(s))

LEMMA SeqGrows ==
    ASSUME NEW A, NEW B, A \subseteq B, NEW q \in Seq(A)
    PROVE  q \in Seq(B)
<1>1. Len(q) \in Nat /\ q \in [1..Len(q) -> A]
  BY LenProperties
<1>2. q \in [1..Len(q) -> B]
  BY <1>1
<1> QED
  BY <1>1, <1>2

\* The first of a sequence, and the others.
LEMMA TailFacts ==
    ASSUME NEW T, NEW q \in Seq(T), q # <<>>
    PROVE  /\ Head(q) = q[1] /\ Head(q) \in T /\ Tail(q) \in Seq(T)
           /\ Len(q) \in Nat \ {0} /\ Len(Tail(q)) = Len(q) - 1
           /\ \A i \in 1..Len(Tail(q)) : i + 1 \in 1..Len(q) /\ Tail(q)[i] = q[i + 1]
           /\ \A i \in 1..Len(q) : i = 1 \/ (i - 1 \in 1..Len(Tail(q)) /\ Tail(q)[i - 1] = q[i])
<1>1. Len(q) \in Nat
  BY LenProperties
<1>2. Len(q) # 0
  BY EmptySeq
<1>3. Head(q) = q[1] /\ Head(q) \in T
  BY <1>1, <1>2, HeadTailProperties
<1>4. Tail(q) \in Seq(T) /\ Len(Tail(q)) = Len(q) - 1 /\ \A i \in 1..Len(Tail(q)) : Tail(q)[i] = q[i + 1]
  BY HeadTailProperties
<1> DEFINE n == Len(q)
           u == Tail(q)
<1>5. /\ \A i \in 1..(n - 1) : i + 1 \in 1..n /\ u[i] = q[i + 1]
      /\ \A i \in 1..n : i = 1 \/ (i - 1 \in 1..(n - 1) /\ u[i - 1] = q[i])
  <2>1. n \in Nat /\ \A i \in 1..(n - 1) : u[i] = q[i + 1]
    BY <1>1, <1>4
  <2> HIDE DEF n, u
  <2>2. ASSUME NEW i \in 1..n, i # 1 PROVE i - 1 \in 1..(n - 1) /\ u[i - 1] = q[i]
    <3>1. i - 1 \in 1..(n - 1) /\ (i - 1) + 1 = i
      BY <2>1, <2>2
    <3> QED
      BY <2>1, <3>1
  <2> QED
    BY <2>1, <2>2
<1> QED
  BY <1>1, <1>2, <1>3, <1>4, <1>5

\* Two sequences, one after the other.
LEMMA JoinFacts ==
    ASSUME NEW T, NEW q \in Seq(T), NEW u \in Seq(T)
    PROVE  /\ q \o u \in Seq(T) /\ Len(q) \in Nat /\ Len(u) \in Nat
           /\ \A i \in 1..Len(q \o u) : \/ i \in 1..Len(q) /\ (q \o u)[i] = q[i]
                                        \/ i - Len(q) \in 1..Len(u) /\ (q \o u)[i] = u[i - Len(q)] /\ i > Len(q)
           /\ \A i \in 1..Len(q) : i \in 1..Len(q \o u) /\ (q \o u)[i] = q[i]
           /\ \A i \in 1..Len(u) : Len(q) + i \in 1..Len(q \o u) /\ (q \o u)[Len(q) + i] = u[i]
<1> DEFINE m == Len(q)
           n == Len(u)
           w == q \o u
<1>1. m \in Nat /\ n \in Nat
  BY LenProperties
<1>2. w \in Seq(T) /\ Len(w) = m + n /\ \A i \in 1..(m + n) : w[i] = IF i <= m THEN q[i] ELSE u[i - m]
  BY ConcatProperties
<1> HIDE DEF m, n, w
<1>3. ASSUME NEW i \in 1..Len(w)
      PROVE  \/ i \in 1..m /\ w[i] = q[i]
             \/ i - m \in 1..n /\ w[i] = u[i - m] /\ i > m
  BY <1>1, <1>2
<1>4. ASSUME NEW i \in 1..m PROVE i \in 1..Len(w) /\ w[i] = q[i]
  BY <1>1, <1>2
<1>5. ASSUME NEW i \in 1..n PROVE m + i \in 1..Len(w) /\ w[m + i] = u[i]
  <2>1. m + i \in 1..(m + n) /\ ~ (m + i <= m) /\ (m + i) - m = i
    BY <1>1
  <2> QED
    BY <1>2, <2>1
<1>6. /\ w \in Seq(T) /\ m \in Nat /\ n \in Nat
      /\ \A i \in 1..Len(w) : \/ i \in 1..m /\ w[i] = q[i]
                              \/ i - m \in 1..n /\ w[i] = u[i - m] /\ i > m
      /\ \A i \in 1..m : i \in 1..Len(w) /\ w[i] = q[i]
      /\ \A i \in 1..n : m + i \in 1..Len(w) /\ w[m + i] = u[i]
  BY <1>1, <1>2, <1>3, <1>4, <1>5
<1> QED
  BY <1>6 DEF m, n, w

\* A new event belongs to what is left to be read only of the stream's own.
LEMMA StoreCopying ==
    ASSUME Shape, Grown, Migrates, Copying, NEW s0 \in Streams, NEW t, Store(s0, t), UNCHANGED upkeep
    PROVE  Copying'
<1> DEFINE x == [id |-> seq + 1, s |-> s0, t |-> t, from |-> seq + 1]
           B == acked \cup {x}
<1>1. /\ hot' = hot \cup {x} /\ acked' = B /\ seq' = seq + 1
      /\ UNCHANGED <<job, cold, hotForks, op, source>>
      /\ x.id = seq + 1 /\ x.s = s0
  BY DEF Store, upkeep
<1> HIDE DEF x
<1>2. hot' = acked' /\ source' \subseteq acked' /\ acked \subseteq B
  BY <1>1 DEF Copying
<1>3. Has(hotForks, s0, x)
  <2>1. x.s \in DOMAIN hotForks /\ IsFiniteSet(DOMAIN hotForks)
    BY <1>1, GrownFacts
  <2>2. Forked(hotForks, s0) => seq + 1 > hotForks[s0].at
    BY DEF Grown, Shape
  <2> QED
    BY <1>1, <2>1, <2>2, HasOwn
<1>4. M' = M /\ Copies(M.s)' = Copies(M.s) /\ Sources' = Sources
  BY <1>1 DEF M, Copies, Sources
<1>5. ASSUME NEW o, NEW C, Halfway(o, C)
      PROVE  /\ o.segs \in Seq(Pieces) /\ o.queue \in Seq(B)
             /\ Waiting(o, C, hotForks) /\ Unread(o, C, seq + 1) /\ Ahead(o, C, hotForks, B, source)
  <2>1. /\ o.segs \in Seq(Pieces) /\ o.queue \in Seq(acked)
        /\ Waiting(o, C, hotForks) /\ Unread(o, C, seq) /\ Ahead(o, C, hotForks, acked, source)
    BY <1>5 DEF Halfway
  <2>2. o.queue \in Seq(B)
    BY <1>2, <2>1, SeqGrows
  <2>3. \A g \in 1..Len(o.segs) : o.segs[g].max \in Nat
    <3>1. \A g \in 1..Len(o.segs) : o.segs[g] \in Pieces
      BY <2>1
    <3> QED
      BY <3>1 DEF Pieces
  <2>4. seq \in Nat
    BY DEF Shape
  <2>5. Unread(o, C, seq + 1)
    BY <2>1, <2>3, <2>4 DEF Unread
  <2>6. ASSUME WithinSome(o.segs, x) PROVE Has(hotForks, o.s, x)
    <3>1. PICK g \in 1..Len(o.segs) : Within(o.segs[g], x)
      BY <2>6 DEF WithinSome
    <3>2. o.segs[g].s = o.s
      BY <1>1, <2>1, <2>3, <2>4, <3>1 DEF Unread, Within
    <3> QED
      BY <1>1, <1>3, <3>1, <3>2 DEF Within
  <2>7. Ahead(o, C, hotForks, B, source)
    BY <2>1, <2>6 DEF Ahead
  <2> QED
    BY <2>1, <2>2, <2>5, <2>7
<1>6. MigratorAt(M)'
  <2>1. MigratorAt(M)
    BY DEF Copying
  <2>2. CASE M.k = "copy"
    <3>1. /\ M \in [k : {"copy"}, left : SUBSET Sources, done : SUBSET Sources, s : Sources,
                    segs : Seq(Pieces), queue : Seq(acked)]
          /\ M.left \cap M.done = {} /\ M.s \notin M.left \cup M.done
          /\ Halfway(M, Copies(M.s))
      BY <2>1, <2>2 DEF MigratorAt, Idle
    <3>2. M.queue \in Seq(B)
      BY <1>5, <3>1
    <3>3. M \in [k : {"copy"}, left : SUBSET Sources, done : SUBSET Sources, s : Sources,
                 segs : Seq(Pieces), queue : Seq(B)]
      BY <3>1, <3>2
    <3>4. Halfway(M, Copies(M.s))'
      BY <1>1, <1>4, <1>5, <3>1 DEF Halfway
    <3> QED
      BY <1>1, <1>4, <3>1, <3>3, <3>4 DEF MigratorAt
  <2>3. CASE M.k # "copy"
    BY <1>1, <1>4, <2>1, <2>3 DEF MigratorAt
  <2> QED
    BY <2>2, <2>3
<1>7. ASSUME NEW s PROVE Copies(s)' = Copies(s) /\ HistoryIds(s, source)' = HistoryIds(s, source)
                         /\ HistoryIds(s, acked) \subseteq HistoryIds(s, acked)'
  BY <1>1 DEF Copies, HistoryIds
<1>8. \A s \in Streams : Faithful(Copies(s)', HistoryIds(s, acked)', HistoryIds(s, source)')
  BY <1>7 DEF Copying, Faithful
<1> QED
  BY <1>1, <1>2, <1>4, <1>6, <1>7, <1>8 DEF Copying

\* A fork gives a history to a stream that has no events, and none that was copied.
LEMMA ForkCopying ==
    ASSUME Shape, Grown, Migrates, Copying, UNCHANGED upkeep,
           NEW c \in Streams, NEW p \in Streams, NEW at \in 1..seq, ForkHot(c, p, at)
    PROVE  Copying'
<1>1. /\ UNCHANGED <<job, hot, cold, seq, acked, source>> /\ \A x \in acked : x.s # c
      /\ \E o : op' = [op EXCEPT !["forker"] = o]
  BY DEF ForkHot, Forkable, Go, upkeep
<1>2. M' = M
  <2>1. "migrator" \in DOMAIN op /\ "migrator" # "forker"
    BY DEF Shape, Procs, Services
  <2> QED
    BY <1>1, <2>1 DEF M
<1>3. Sources' = Sources /\ Sources \subseteq Streams \ {c} /\ \A s : Copies(s)' = Copies(s)
  BY <1>1 DEF Sources, Copies, Copying, Grown
<1>4. ASSUME NEW s \in Streams, s # c, NEW e \in acked PROVE Has(hotForks', s, e) <=> Has(hotForks, s, e)
  BY <1>4, ForkHas
<1>5. source \subseteq acked /\ source' = source
  BY <1>1 DEF Copying
<1>6. ASSUME NEW s \in Streams, s # c
      PROVE  HistoryIds(s, acked)' = HistoryIds(s, acked) /\ HistoryIds(s, source)' = HistoryIds(s, source)
  BY <1>1, <1>4, <1>5, <1>6 DEF HistoryIds
<1>7. Copies(c) = {}
  BY <1>3 DEF Copying, Copies
<1>8. MigratorAt(M)'
  <2>1. MigratorAt(M)
    BY DEF Copying
  <2>2. CASE M.k = "copy"
    <3>1. /\ M \in [k : {"copy"}, left : SUBSET Sources, done : SUBSET Sources, s : Sources,
                    segs : Seq(Pieces), queue : Seq(acked)]
          /\ M.left \cap M.done = {} /\ M.s \notin M.left \cup M.done
          /\ Halfway(M, Copies(M.s))
      BY <2>1, <2>2 DEF MigratorAt, Idle
    <3>2. M.s \in Streams /\ M.s # c
      BY <1>3, <3>1
    <3>3. \A i \in 1..Len(M.queue) : M.queue[i] \in acked
      BY <3>1
    <3>4. Waiting(M, Copies(M.s), hotForks')
      BY <1>4, <3>1, <3>2, <3>3 DEF Halfway, Waiting
    <3>5. Ahead(M, Copies(M.s), hotForks', acked, source)
      BY <1>4, <1>5, <3>1, <3>2 DEF Halfway, Ahead
    <3>6. Halfway(M, Copies(M.s))'
      BY <1>1, <1>2, <1>3, <3>1, <3>4, <3>5 DEF Halfway
    <3> QED
      BY <1>1, <1>2, <1>3, <3>1, <3>6 DEF MigratorAt
  <2>3. CASE M.k # "copy"
    BY <1>1, <1>2, <1>3, <2>1, <2>3 DEF MigratorAt
  <2> QED
    BY <2>2, <2>3
<1>9. ASSUME NEW s \in Streams PROVE Faithful(Copies(s)', HistoryIds(s, acked)', HistoryIds(s, source)')
  <2>1. CASE s = c
    BY <1>3, <1>7, <2>1 DEF Faithful, From
  <2>2. CASE s # c
    BY <1>3, <1>6, <2>2 DEF Copying
  <2> QED
    BY <2>1, <2>2
<1>10. M # Idle => M.done \subseteq Sources
  BY DEF Copying, MigratorAt
<1>11. M # Idle => \A s \in M.done : HistoryIds(s, source)' \subseteq From(Copies(s)')
  BY <1>3, <1>6, <1>10 DEF Copying
<1>12. Migrates' /\ hot' = acked' /\ source' \subseteq acked'
  BY <1>1, <1>5 DEF Copying, Migrates
<1>13. \A x \in cold' : x.s \in Sources' /\ (M' # Idle => x.s \notin M'.left)
  BY <1>1, <1>2, <1>3 DEF Copying
<1> QED
  BY <1>2, <1>8, <1>9, <1>11, <1>12, <1>13 DEF Copying

\* The other steps that leave the stores and the migrator alone.
LEMMA OthersCopying ==
    ASSUME Copying, UNCHANGED <<job, hot, cold, hotForks, seq, acked, source>>, M' = M
    PROVE  Copying'
<1>1. Migrates' = Migrates /\ Sources' = Sources /\ \A s : Copies(s)' = Copies(s)
  BY DEF Migrates, Sources, Copies
<1>2. \A s : HistoryIds(s, acked)' = HistoryIds(s, acked) /\ HistoryIds(s, source)' = HistoryIds(s, source)
  BY DEF HistoryIds
<1>3. MigratorAt(M)' <=> MigratorAt(M)
  BY <1>1 DEF MigratorAt, Halfway
<1> QED
  BY <1>1, <1>2, <1>3 DEF Copying

\* The migration starts: nothing was copied, and all streams that have rows are left.
LEMMA MigrateCopying ==
    ASSUME Shape, Copying, Migrates, Migrate
    PROVE  Copying'
<1>1. /\ UNCHANGED <<job, hot, cold, hotForks, seq, acked>> /\ source' = hot /\ M = Idle
      /\ M' = [k |-> "next", left |-> StreamsWithRows, done |-> {}]
  <2>1. "migrator" \in DOMAIN op
    BY DEF Shape, Procs, Services
  <2> QED
    BY <2>1 DEF Migrate, Go, M
<1>2. cold = {}
  BY <1>1 DEF Copying, MigratorAt, Idle
<1>3. hot' = acked' /\ source' \subseteq acked' /\ Migrates'
  BY <1>1 DEF Copying, Migrates
<1>4. \A s : Copies(s)' = {}
  BY <1>1, <1>2 DEF Copies
<1>5. StreamsWithRows = Sources'
  BY <1>1 DEF StreamsWithRows, Sources
<1>6. M' \in [k : {"next"}, left : SUBSET Sources', done : SUBSET Sources'] /\ M'.left \cap M'.done = {} /\ M'.done = {}
  BY <1>1, <1>5
<1>7. MigratorAt(M)'
  BY <1>6 DEF MigratorAt
<1>8. \A s \in Streams : Faithful(Copies(s)', HistoryIds(s, acked)', HistoryIds(s, source)')
  BY <1>4 DEF Faithful, From
<1>9. cold' = {}
  BY <1>1, <1>2
<1> QED
  BY <1>3, <1>6, <1>7, <1>8, <1>9 DEF Copying

\* A stream is done, or failed: what holds of its copies stays so.
LEMMA EndCopying ==
    ASSUME Shape, Copying, Migrates, StreamDone \/ StreamFails
    PROVE  Copying'
<1>1. /\ UNCHANGED <<job, hot, cold, hotForks, seq, acked, source>> /\ M.k = "copy"
      /\ \/ M' = [k |-> "next", left |-> M.left, done |-> M.done]
         \/ M' = [k |-> "next", left |-> M.left, done |-> M.done \cup {M.s}] /\ M.segs = <<>> /\ M.queue = <<>>
  <2>1. "migrator" \in DOMAIN op
    BY DEF Shape, Procs, Services
  <2>2. CASE StreamDone
    BY <2>1, <2>2 DEF StreamDone, Go, M, upkeep
  <2>3. CASE StreamFails
    BY <2>1, <2>3 DEF StreamFails, Go, M, upkeep
  <2> QED
    BY <2>2, <2>3
<1>2. /\ M \in [k : {"copy"}, left : SUBSET Sources, done : SUBSET Sources, s : Sources,
                segs : Seq(Pieces), queue : Seq(acked)]
      /\ M.left \cap M.done = {} /\ M.s \notin M.left \cup M.done
      /\ Halfway(M, Copies(M.s)) /\ M # Idle
  BY <1>1 DEF Copying, MigratorAt, Idle
<1>3. Migrates' = Migrates /\ Sources' = Sources /\ \A s : Copies(s)' = Copies(s)
  BY <1>1 DEF Migrates, Sources, Copies
<1>4. \A s : HistoryIds(s, acked)' = HistoryIds(s, acked) /\ HistoryIds(s, source)' = HistoryIds(s, source)
  BY <1>1 DEF HistoryIds
<1>5. M' \in [k : {"next"}, left : SUBSET Sources, done : SUBSET Sources] /\ M'.left = M.left /\ M'.left \cap M'.done = {}
  BY <1>1, <1>2
<1>6. MigratorAt(M)'
  BY <1>3, <1>5 DEF MigratorAt
<1>7. ASSUME NEW s \in M'.done PROVE HistoryIds(s, source) \subseteq From(Copies(s))
  <2>1. CASE s \in M.done
    BY <1>2, <2>1 DEF Copying
  <2>2. CASE s \notin M.done
    <3>1. s = M.s /\ M.segs = <<>> /\ M.queue = <<>>
      BY <1>1, <1>7, <2>2
    <3>2. (\A e \in source : ~ WithinSome(M.segs, e)) /\ (\A e \in source : ~ InQueue(M.queue, e))
      BY <3>1 DEF WithinSome, InQueue
    <3> QED
      BY <1>2, <3>1, <3>2 DEF Halfway, Ahead, HistoryIds
  <2> QED
    BY <2>1, <2>2
<1>8. \A x \in cold' : x.s \in Sources' /\ x.s \notin M'.left
  BY <1>1, <1>2, <1>3, <1>5 DEF Copying
<1> QED
  BY <1>1, <1>3, <1>4, <1>6, <1>7, <1>8 DEF Copying

\* A stream's copying starts with all of its history left to be read.
LEMMA NextCopying ==
    ASSUME Shape, Grown, Copying, Migrates, NEW s \in Streams, NextStream(s)
    PROVE  Copying'
<1> DEFINE segs == Segments(hotForks, s, Top)
           o == [k |-> "copy", left |-> M.left \ {s}, done |-> M.done, s |-> s, segs |-> segs, queue |-> <<>>]
<1>1. /\ UNCHANGED <<job, hot, cold, hotForks, seq, acked, source>> /\ M.k = "next" /\ s \in M.left
      /\ M' = o
  <2>1. "migrator" \in DOMAIN op
    BY DEF Shape, Procs, Services
  <2> QED
    BY <2>1 DEF NextStream, Go, M, upkeep
<1>2. /\ M \in [k : {"next"}, left : SUBSET Sources, done : SUBSET Sources]
      /\ M.left \cap M.done = {} /\ M # Idle
  BY <1>1 DEF Copying, MigratorAt, Idle
<1>3. Migrates' = Migrates /\ Sources' = Sources /\ \A u : Copies(u)' = Copies(u)
  BY <1>1 DEF Migrates, Sources, Copies
<1>4. \A u : HistoryIds(u, acked)' = HistoryIds(u, acked) /\ HistoryIds(u, source)' = HistoryIds(u, source)
  BY <1>1 DEF HistoryIds
<1>5. Copies(s) = {}
  BY <1>1, <1>2 DEF Copying, Copies
<1>6. /\ DOMAIN hotForks = Streams /\ Top \in Nat /\ seq \in Nat /\ seq <= Top
      /\ ReadsUpTo(hotForks, segs, Depth(hotForks), s, Top, acked)
  <2>1. Top \in Nat
    BY DEF Grown
  <2> QED
    BY <2>1, GrownFacts, SegmentsFacts DEF Grown, Shape
<1> HIDE DEF segs
<1>7. segs \in Seq(Pieces) /\ Successive(segs)
  BY <1>6 DEF ReadsUpTo, Piece, Pieces
<1>8. \A g \in 1..Len(segs) : segs[g].s = s \/ segs[g].max <= seq
  <2>1. ASSUME NEW g \in 1..Len(segs), NEW y \in Streams, Forked(hotForks, y), segs[g].max <= hotForks[y].at
        PROVE  segs[g].max <= seq
    <3>1. hotForks[y].at \in 1..seq
      BY <2>1 DEF Grown
    <3>2. segs[g] \in Pieces
      BY <1>7
    <3>3. segs[g].max \in Nat
      BY <3>2 DEF Pieces
    <3> QED
      BY <1>6, <2>1, <3>1, <3>3
  <2> QED
    BY <1>6, <2>1 DEF ReadsUpTo, Ends
<1>9. \A e \in acked : WithinSome(segs, e) <=> Has(hotForks, s, e)
  <2>1. \A e \in acked : e.id <= Top
    BY <1>6 DEF Grown
  <2> QED
    BY <1>6, <2>1 DEF ReadsUpTo, Has
<1>10. /\ o.segs = segs /\ o.queue = <<>> /\ Len(o.queue) = 0 /\ o.s = s /\ o.left = M.left \ {s} /\ o.done = M.done
       /\ o \in [k : {"copy"}, left : SUBSET Sources, done : SUBSET Sources, s : Sources,
                 segs : Seq(Pieces), queue : Seq(acked)]
  BY <1>1, <1>2, <1>7
<1> HIDE DEF o
<1>11. Waiting(o, {}, hotForks)
  BY <1>10 DEF Waiting
<1>12. Unread(o, {}, seq)
  BY <1>7, <1>8, <1>10 DEF Unread
<1>13. Ahead(o, {}, hotForks, acked, source)
  BY <1>9, <1>10 DEF Ahead, Copying
<1>14. Halfway(o, Copies(s))
  BY <1>5, <1>7, <1>10, <1>11, <1>12, <1>13 DEF Halfway
<1>15. Halfway(M, Copies(M.s))'
  BY <1>1, <1>3, <1>10, <1>14 DEF Halfway
<1>16. MigratorAt(M)'
  BY <1>1, <1>2, <1>3, <1>10, <1>15 DEF MigratorAt
<1>17. \A x \in cold' : x.s \in Sources' /\ x.s \notin M'.left
  BY <1>1, <1>2, <1>3, <1>10 DEF Copying
<1>18. \A u \in M'.done : HistoryIds(u, source) \subseteq From(Copies(u))
  BY <1>1, <1>2, <1>10 DEF Copying
<1> QED
  BY <1>1, <1>3, <1>4, <1>16, <1>17, <1>18 DEF Copying

\* A segment that is read joins the queue.
LEMMA FetchCopying ==
    ASSUME Shape, Grown, Copying, Migrates, Fetch
    PROVE  Copying'
<1> DEFINE g == Head(M.segs)
           ev == EventsOf(g)
           S == {x \in hot : Within(g, x)}
           o == [M EXCEPT !.segs = Tail(@), !.queue = @ \o ev]
           C == Copies(M.s)
<1>1. /\ UNCHANGED <<job, hot, cold, hotForks, seq, acked, source>> /\ M.k = "copy" /\ M.segs # <<>>
      /\ M' = o
  <2>1. "migrator" \in DOMAIN op
    BY DEF Shape, Procs, Services
  <2> QED
    BY <2>1 DEF Fetch, Go, M, upkeep
<1>2. /\ M \in [k : {"copy"}, left : SUBSET Sources, done : SUBSET Sources, s : Sources,
                segs : Seq(Pieces), queue : Seq(acked)]
      /\ M.left \cap M.done = {} /\ M.s \notin M.left \cup M.done
      /\ Halfway(M, C) /\ M # Idle
  BY <1>1 DEF Copying, MigratorAt, Idle
<1>3. Migrates' = Migrates /\ Sources' = Sources /\ \A u : Copies(u)' = Copies(u)
  BY <1>1 DEF Migrates, Sources, Copies
<1>4. \A u : HistoryIds(u, acked)' = HistoryIds(u, acked) /\ HistoryIds(u, source)' = HistoryIds(u, source)
  BY <1>1 DEF HistoryIds
<1> DEFINE segs == M.segs
           q == M.queue
           rest == Tail(segs)
           w == q \o ev
<1>5. ev = Sorted(S)
  BY DEF EventsOf, Within
<1>6. hot = acked /\ source \subseteq acked /\ \A x \in acked : x.id \in 1..seq /\ x.id \in Nat /\ x.from = x.id
  BY DEF Copying, Grown
<1>7. /\ ev \in Seq(acked)
      /\ \A i \in 1..Len(ev) : ev[i] \in acked /\ Within(g, ev[i])
      /\ \A i, j \in 1..Len(ev) : i < j => ev[i].id < ev[j].id
      /\ \A x \in acked : Within(g, x) => \E i \in 1..Len(ev) : ev[i].id = x.id
  <2>1. S \in SUBSET acked /\ seq \in Nat /\ \A x \in S : x.id \in 1..seq
    BY <1>6 DEF Shape
  <2>2. \A x \in S : x \in acked /\ Within(g, x)
    BY <1>6
  <2>3. \A x \in acked : Within(g, x) => x \in S
    BY <1>6
  <2> HIDE DEF S, ev
  <2> QED
    BY <1>5, <2>1, <2>2, <2>3, SortedFacts
<1> HIDE DEF ev, S
<1>8. /\ q \in Seq(acked) /\ segs \in Seq(Pieces) /\ Waiting(M, C, hotForks) /\ Unread(M, C, seq)
      /\ Ahead(M, C, hotForks, acked, source)
  BY <1>2 DEF Halfway
<1>9. /\ g = segs[1] /\ g \in Pieces /\ rest \in Seq(Pieces) /\ Len(segs) \in Nat \ {0} /\ 1 \in 1..Len(segs)
      /\ Len(rest) = Len(segs) - 1
      /\ \A i \in 1..Len(rest) : i + 1 \in 1..Len(segs) /\ rest[i] = segs[i + 1]
      /\ \A i \in 1..Len(segs) : i = 1 \/ (i - 1 \in 1..Len(rest) /\ rest[i - 1] = segs[i])
  <2>1. segs # <<>>
    BY <1>1
  <2> HIDE DEF segs
  <2>2. Len(segs) \in Nat \ {0}
    BY <1>8, <2>1, TailFacts
  <2> QED
    BY <1>8, <2>1, <2>2, TailFacts DEF g, rest, segs
<1>10. /\ w \in Seq(acked)
       /\ \A i \in 1..Len(w) : \/ i \in 1..Len(q) /\ w[i] = q[i]
                               \/ i - Len(q) \in 1..Len(ev) /\ w[i] = ev[i - Len(q)] /\ i > Len(q)
       /\ \A i \in 1..Len(q) : i \in 1..Len(w) /\ w[i] = q[i]
       /\ \A i \in 1..Len(ev) : Len(q) + i \in 1..Len(w) /\ w[Len(q) + i] = ev[i]
       /\ Len(q) \in Nat /\ Len(ev) \in Nat
  BY <1>7, <1>8, JoinFacts
<1>11. /\ o.segs = rest /\ o.queue = w /\ o.s = M.s /\ o.left = M.left /\ o.done = M.done
       /\ o \in [k : {"copy"}, left : SUBSET Sources, done : SUBSET Sources, s : Sources,
                 segs : Seq(Pieces), queue : Seq(acked)]
  BY <1>2, <1>9, <1>10
<1> HIDE DEF o, w, rest, g, C, q, segs
<1>12. /\ \A i \in 1..Len(q) : q[i] \in acked /\ q[i].from \in Nat
       /\ g.min \in Nat /\ g.max \in Nat
       /\ \A i \in 1..Len(ev) : ev[i].from \in Nat /\ ev[i].from > g.min /\ ev[i].from <= g.max
  <2>1. \A i \in 1..Len(q) : q[i] \in acked
    BY <1>8
  <2> QED
    BY <1>6, <1>7, <1>9, <2>1 DEF Pieces, Within
<1>13. /\ \A i \in 1..Len(q) : q[i].from <= g.min
       /\ \A x \in C : x.from <= g.min /\ x.from \in Nat
  <2>1. \A x \in C : x.from \in Nat
    <3>1. From(C) \subseteq HistoryIds(M.s, acked)
      <4>1. M.s \in Streams
        BY <1>2 DEF Sources, Copying, Grown
      <4> QED
        BY <4>1 DEF Copying, Faithful, C
    <3> QED
      BY <1>6, <3>1 DEF From, HistoryIds
  <2> QED
    BY <1>8, <1>9, <2>1 DEF Unread, q, segs
<1>14. Waiting(o, C, hotForks)
  <2>1. ASSUME NEW i \in 1..Len(ev) PROVE Has(hotForks, M.s, ev[i])
    <3>1. WithinSome(segs, ev[i])
      BY <1>7, <1>9 DEF WithinSome
    <3> QED
      BY <1>7, <1>8, <3>1 DEF Ahead, segs
  <2>2. ASSUME NEW i \in 1..Len(w) PROVE Has(hotForks, M.s, w[i]) /\ \A x \in C : x.from < w[i].from
    <3>1. CASE i \in 1..Len(q) /\ w[i] = q[i]
      BY <1>8, <3>1 DEF Waiting, q
    <3>2. CASE i - Len(q) \in 1..Len(ev) /\ w[i] = ev[i - Len(q)]
      BY <1>12, <1>13, <2>1, <3>2
    <3> QED
      BY <1>10, <3>1, <3>2
  <2>3. ASSUME NEW i \in 1..Len(w), NEW j \in 1..Len(w), i < j PROVE w[i].from < w[j].from
    <3>1. CASE j \in 1..Len(q) /\ w[j] = q[j]
      <4>1. i \in 1..Len(q)
        BY <1>10, <2>3, <3>1
      <4> QED
        BY <1>8, <1>10, <2>3, <3>1, <4>1 DEF Waiting, q
    <3>2. CASE j - Len(q) \in 1..Len(ev) /\ w[j] = ev[j - Len(q)]
      <4>1. CASE i \in 1..Len(q) /\ w[i] = q[i]
        BY <1>12, <1>13, <3>2, <4>1
      <4>2. CASE i - Len(q) \in 1..Len(ev) /\ w[i] = ev[i - Len(q)]
        <5>1. i - Len(q) < j - Len(q)
          BY <1>10, <2>3
        <5>2. ev[i - Len(q)].id < ev[j - Len(q)].id
          BY <1>7, <3>2, <4>2, <5>1
        <5> QED
          BY <1>6, <1>7, <3>2, <4>2, <5>2
      <4> QED
        BY <1>10, <4>1, <4>2
    <3> QED
      BY <1>10, <3>1, <3>2
  <2> QED
    BY <1>11, <2>2, <2>3 DEF Waiting
<1>15. Unread(o, C, seq)
  <2>1. Successive(rest)
    <3>1. Successive(segs) /\ \A i \in 1..Len(rest) : i \in Nat
      BY <1>8 DEF Unread, segs
    <3>2. \A i, j \in 1..Len(rest) : i < j => i + 1 < j + 1
      BY <3>1
    <3> QED
      BY <1>9, <3>1, <3>2 DEF Successive
  <2>2. ASSUME NEW j \in 1..Len(rest)
        PROVE  /\ rest[j].s = M.s \/ rest[j].max <= seq
               /\ \A x \in C : x.from <= rest[j].min
    BY <1>8, <1>9 DEF Unread, segs
  <2>3. ASSUME NEW j \in 1..Len(rest), NEW i \in 1..Len(w) PROVE w[i].from <= rest[j].min
    <3>1. CASE i \in 1..Len(q) /\ w[i] = q[i]
      BY <1>8, <1>9, <3>1 DEF Unread, segs, q
    <3>2. CASE i - Len(q) \in 1..Len(ev) /\ w[i] = ev[i - Len(q)]
      <4>1. g.max <= rest[j].min
        <5>1. j + 1 \in 1..Len(segs) /\ 1 < j + 1 /\ rest[j] = segs[j + 1]
          BY <1>9
        <5> QED
          BY <1>8, <1>9, <5>1 DEF Unread, Successive, segs
      <4>2. rest[j].min \in Nat
        <5>1. rest[j] \in Pieces
          BY <1>9
        <5> QED
          BY <5>1 DEF Pieces
      <4>3. ev[i - Len(q)].from \in Nat /\ ev[i - Len(q)].from <= g.max /\ g.max \in Nat
        BY <1>12, <3>2
      <4>4. ev[i - Len(q)].from <= rest[j].min
        BY <4>1, <4>2, <4>3
      <4> QED
        BY <3>2, <4>4
    <3> QED
      BY <1>10, <3>1, <3>2
  <2> QED
    BY <1>11, <2>1, <2>2, <2>3 DEF Unread
<1>16. Ahead(o, C, hotForks, acked, source)
  <2>1. ASSUME NEW e, WithinSome(rest, e) PROVE WithinSome(segs, e)
    BY <1>9, <2>1 DEF WithinSome
  <2>2. ASSUME NEW e, InQueue(q, e) PROVE InQueue(w, e)
    BY <1>10, <2>2 DEF InQueue
  <2>3. ASSUME NEW e \in acked, WithinSome(segs, e) PROVE InQueue(w, e) \/ WithinSome(rest, e)
    <3>1. PICK i \in 1..Len(segs) : Within(segs[i], e)
      BY <2>3 DEF WithinSome
    <3>2. CASE i = 1
      <4>1. PICK n \in 1..Len(ev) : ev[n].id = e.id
        BY <1>7, <1>9, <3>1, <3>2
      <4>2. ev[n].from = e.id
        BY <1>6, <1>7, <4>1
      <4> QED
        BY <1>10, <4>2 DEF InQueue
    <3>3. CASE i # 1
      BY <1>9, <3>1, <3>3 DEF WithinSome
    <3> QED
      BY <3>2, <3>3
  <2> QED
    BY <1>6, <1>8, <1>11, <2>1, <2>2, <2>3 DEF Ahead, q, segs
<1>17. Halfway(o, C)
  BY <1>9, <1>10, <1>11, <1>14, <1>15, <1>16 DEF Halfway
<1>18. MigratorAt(M)'
  BY <1>1, <1>2, <1>3, <1>11, <1>17 DEF MigratorAt, Halfway, C
<1>19. \A x \in cold' : x.s \in Sources' /\ x.s \notin M'.left
  BY <1>1, <1>2, <1>3, <1>11 DEF Copying
<1>20. \A u \in M'.done : HistoryIds(u, source) \subseteq From(Copies(u))
  BY <1>1, <1>2, <1>11 DEF Copying
<1> QED
  BY <1>1, <1>3, <1>4, <1>18, <1>19, <1>20 DEF Copying

\* What is copied is the next event of the stream's history.
LEMMA PutCopying ==
    ASSUME Shape, Grown, Copying, Migrates, Put
    PROVE  Copying'
<1> DEFINE q == M.queue
           h == Head(q)
           x == [id |-> coldSeq + 1, s |-> M.s, t |-> NoTenant, from |-> h.from]
           o == [M EXCEPT !.queue = Tail(@)]
           C == Copies(M.s)
           B == C \cup {x}
           segs == M.segs
           w == Tail(q)
<1>1. /\ UNCHANGED <<job, hot, hotForks, seq, acked, source>> /\ M.k = "copy" /\ q # <<>>
      /\ M' = o /\ cold' = cold \cup {x} /\ x.s = M.s /\ x.id = coldSeq + 1 /\ x.from = h.from
  <2>1. "migrator" \in DOMAIN op
    BY DEF Shape, Procs, Services
  <2> QED
    BY <2>1 DEF Put, PutAs, Go, M, upkeep
<1>2. /\ M \in [k : {"copy"}, left : SUBSET Sources, done : SUBSET Sources, s : Sources,
                segs : Seq(Pieces), queue : Seq(acked)]
      /\ M.left \cap M.done = {} /\ M.s \notin M.left \cup M.done
      /\ Halfway(M, C) /\ M # Idle
  BY <1>1 DEF Copying, MigratorAt, Idle
<1>3. Migrates' = Migrates /\ Sources' = Sources /\ C' = B /\ \A u : u # M.s => Copies(u)' = Copies(u)
  <2> HIDE DEF x
  <2>1. M'.s = M.s
    BY <1>1, <1>2
  <2> QED
    BY <1>1, <2>1 DEF Migrates, Sources, Copies
<1>4. \A u : HistoryIds(u, acked)' = HistoryIds(u, acked) /\ HistoryIds(u, source)' = HistoryIds(u, source)
  BY <1>1 DEF HistoryIds
<1>5. \A y \in acked : y.id \in 1..seq /\ y.id \in Nat /\ y.from = y.id
  BY DEF Grown
<1>6. source \subseteq acked /\ M.s \in Streams
  BY <1>2 DEF Copying, Sources, Grown
<1>7. /\ q \in Seq(acked) /\ segs \in Seq(Pieces) /\ Waiting(M, C, hotForks) /\ Unread(M, C, seq)
      /\ Ahead(M, C, hotForks, acked, source)
  BY <1>2 DEF Halfway
<1>8. /\ h = q[1] /\ h \in acked /\ w \in Seq(acked) /\ 1 \in 1..Len(q) /\ Len(q) \in Nat
      /\ \A i \in 1..Len(w) : i + 1 \in 1..Len(q) /\ w[i] = q[i + 1]
      /\ \A i \in 1..Len(q) : i = 1 \/ (i - 1 \in 1..Len(w) /\ w[i - 1] = q[i])
  <2> HIDE DEF q
  <2>1. Len(q) \in Nat \ {0}
    BY <1>1, <1>7, TailFacts
  <2>2. 1 \in 1..Len(q) /\ Len(q) \in Nat
    BY <2>1
  <2> QED
    BY <1>1, <1>7, <2>2, TailFacts
<1>9. /\ o.segs = segs /\ o.queue = w /\ o.s = M.s /\ o.left = M.left /\ o.done = M.done
      /\ o \in [k : {"copy"}, left : SUBSET Sources, done : SUBSET Sources, s : Sources,
                segs : Seq(Pieces), queue : Seq(acked)]
  BY <1>2, <1>8
<1>10. From(B) = From(C) \cup {h.from}
  BY <1>1 DEF From
<1> HIDE DEF o, w, q, h, x, C, B, segs
<1>11. h.from \in Nat /\ h.from = h.id /\ h \in acked
  BY <1>5, <1>8
<1>12. \A y \in B : y \in C \/ y = x
  BY DEF B
<1>13. Faithful(C, HistoryIds(M.s, acked), HistoryIds(M.s, source))
  BY <1>6 DEF Copying, C
<1>14. \A i \in 1..Len(w) : h.from < w[i].from
  <2>1. ASSUME NEW i \in 1..Len(w) PROVE h.from < w[i].from
    <3>1. i + 1 \in 1..Len(q) /\ 1 < i + 1
      BY <1>8
    <3> QED
      BY <1>7, <1>8, <3>1 DEF Waiting, q
  <2> QED
    BY <2>1
<1>15. Waiting(o, B, hotForks)
  <2>1. ASSUME NEW i \in 1..Len(w) PROVE Has(hotForks, M.s, w[i]) /\ \A y \in C : y.from < w[i].from
    BY <1>7, <1>8 DEF Waiting, q
  <2>2. ASSUME NEW i \in 1..Len(w), NEW j \in 1..Len(w), i < j PROVE w[i].from < w[j].from
    <3>1. i + 1 < j + 1
      BY <2>2
    <3> QED
      BY <1>7, <1>8, <3>1 DEF Waiting, q
  <2>3. \A i \in 1..Len(w) : x.from < w[i].from
    BY <1>1, <1>14
  <2> QED
    BY <1>9, <1>12, <2>1, <2>2, <2>3 DEF Waiting
<1>16. Unread(o, B, seq)
  <2>1. ASSUME NEW g \in 1..Len(segs)
        PROVE  /\ segs[g].s = M.s \/ segs[g].max <= seq
               /\ \A y \in C : y.from <= segs[g].min
               /\ x.from <= segs[g].min
    BY <1>1, <1>7, <1>8 DEF Unread, segs, q
  <2>2. ASSUME NEW g \in 1..Len(segs), NEW i \in 1..Len(w) PROVE w[i].from <= segs[g].min
    BY <1>7, <1>8 DEF Unread, segs, q
  <2>3. Successive(segs)
    BY <1>7 DEF Unread, segs
  <2> QED
    BY <1>9, <1>12, <2>1, <2>2, <2>3 DEF Unread
<1>17. Ahead(o, B, hotForks, acked, source)
  <2>1. ASSUME NEW e, InQueue(q, e) PROVE InQueue(w, e) \/ e.id \in From(B)
    <3>1. PICK i \in 1..Len(q) : q[i].from = e.id
      BY <2>1 DEF InQueue
    <3> QED
      BY <1>8, <1>10, <3>1 DEF InQueue
  <2> QED
    BY <1>7, <1>9, <1>10, <2>1 DEF Ahead, q, segs
<1>18. Halfway(o, B)
  BY <1>7, <1>8, <1>9, <1>15, <1>16, <1>17 DEF Halfway
<1>19. Faithful(B, HistoryIds(M.s, acked), HistoryIds(M.s, source))
  <2>1. ASSUME NEW y \in B, NEW z \in B, y.id < z.id PROVE y.from < z.from
    <3>1. \A u \in C : u.id \in 1..coldSeq /\ u.id < x.id
      BY <1>1 DEF Shape, C, Copies
    <3>2. CASE z = x
      <4>1. y \in C
        BY <1>1, <1>12, <2>1, <3>2 DEF Shape
      <4> QED
        BY <1>1, <1>7, <1>8, <3>2, <4>1 DEF Waiting, q
    <3>3. CASE z \in C
      <4>1. y \in C
        BY <1>1, <1>12, <2>1, <3>1, <3>3 DEF Shape
      <4> QED
        BY <1>13, <2>1, <3>3, <4>1 DEF Faithful
    <3> QED
      BY <1>12, <3>2, <3>3
  <2>2. h.from \in HistoryIds(M.s, acked)
    <3>1. Has(hotForks, M.s, h)
      BY <1>7, <1>8 DEF Waiting, q
    <3> QED
      BY <1>11, <3>1 DEF HistoryIds
  <2>3. From(B) \subseteq HistoryIds(M.s, acked)
    BY <1>10, <1>13, <2>2 DEF Faithful
  <2>4. ASSUME NEW i \in HistoryIds(M.s, source), NEW j \in From(B), i < j PROVE i \in From(B)
    <3>1. CASE j \in From(C)
      BY <1>10, <1>13, <2>4, <3>1 DEF Faithful
    <3>2. CASE j = h.from
      <4>1. PICK e \in source : Has(hotForks, M.s, e) /\ e.id = i
        BY DEF HistoryIds
      <4>2. ~ InQueue(w, e)
        <5>1. \A n \in 1..Len(w) : w[n] \in acked
          BY <1>8
        <5>2. \A n \in 1..Len(w) : h.from < w[n].from /\ w[n].from \in Nat
          BY <1>5, <1>14, <5>1
        <5>3. e.id \in Nat /\ e.id < h.from
          BY <1>5, <1>6, <2>4, <3>2, <4>1
        <5> QED
          BY <1>11, <5>2, <5>3 DEF InQueue
      <4>3. ~ WithinSome(segs, e)
        <5>1. SUFFICES ASSUME NEW g \in 1..Len(segs), Within(segs[g], e) PROVE FALSE
          BY DEF WithinSome
        <5>2. h.from <= segs[g].min
          BY <1>7, <1>8 DEF Unread, segs, q
        <5>3. segs[g] \in Pieces
          BY <1>7
        <5>4. e.id \in Nat /\ e.id < h.from /\ segs[g].min \in Nat
          BY <1>5, <1>6, <2>4, <3>2, <4>1, <5>3 DEF Pieces
        <5> QED
          BY <1>11, <5>1, <5>2, <5>4 DEF Within
      <4> QED
        BY <1>9, <1>17, <4>1, <4>2, <4>3 DEF Ahead
    <3> QED
      BY <1>10, <3>1, <3>2
  <2> QED
    BY <2>1, <2>3, <2>4 DEF Faithful
<1>20. MigratorAt(M)'
  BY <1>1, <1>2, <1>3, <1>9, <1>18 DEF MigratorAt, Halfway, C
<1>21. \A y \in cold' : y.s \in Sources' /\ y.s \notin M'.left
  BY <1>1, <1>2, <1>3, <1>9 DEF Copying
<1>22. ASSUME NEW u \in Streams PROVE Faithful(Copies(u)', HistoryIds(u, acked), HistoryIds(u, source))
  <2>1. CASE u = M.s
    <3>1. Copies(u)' = B
      BY <1>1, <1>12, <2>1 DEF Copies, B, C
    <3> QED
      BY <1>19, <2>1, <3>1
  <2>2. CASE u # M.s
    BY <1>3, <2>2 DEF Copying
  <2> QED
    BY <2>1, <2>2
<1>23. \A u \in M'.done : HistoryIds(u, source) \subseteq From(Copies(u)')
  <2>1. \A u \in M'.done : u # M.s /\ u \in M.done
    BY <1>1, <1>2, <1>9
  <2> QED
    BY <1>2, <1>3, <2>1 DEF Copying
<1> QED
  BY <1>1, <1>3, <1>4, <1>20, <1>21, <1>22, <1>23 DEF Copying

LEMMA CopyingInit == Init => Copying
<1> SUFFICES ASSUME Init PROVE Copying
  OBVIOUS
<1>1. M = Idle
  BY DEF Init, M, Procs, Services
<1>2. hot = {} /\ cold = {} /\ acked = {} /\ source = {} /\ \A s : Copies(s) = {}
  BY DEF Init, Copies
<1> QED
  BY <1>1, <1>2 DEF Copying, MigratorAt, Faithful, From

LEMMA CopyingStep == Shape /\ Grown /\ Copying /\ [Next]_vars => Copying'
<1> SUFFICES ASSUME Shape, Grown, Copying, [Next]_vars PROVE Copying'
  OBVIOUS
<1>1. CASE UNCHANGED vars
  <2>1. UNCHANGED <<job, hot, cold, hotForks, seq, acked, source>> /\ M' = M
    BY <1>1 DEF vars, tiers, upkeep, M
  <2> QED
    BY <2>1, OthersCopying
<1>2. CASE Next /\ ~ Migrates
  <2>1. CASE Quiet
    BY <1>2, <2>1 DEF Quiet, Migrates, Copying
  <2>2. CASE \E s \in Streams : \E t : Store(s, t)
    BY <1>2, <2>2 DEF Store, Migrates, Copying
  <2>3. CASE \E c, p \in Streams, at \in 1..seq : ForkHot(c, p, at)
    BY <1>2, <2>3 DEF ForkHot, Migrates, Copying
  <2>4. CASE TierStep
    BY <2>1, <2>2, <2>3, <2>4, TierQuiet DEF TierStep, Reads
  <2>5. CASE PurgeStep
    BY <2>1, <2>2, <2>5, TierQuiet, JobsQuiet DEF PurgeStep
  <2>6. CASE RetentionStep
    BY <2>1, <2>2, <2>6, TierQuiet, JobsQuiet DEF RetentionStep
  <2>7. ~ MigrationStep
    BY <1>2 DEF MigrationStep
  <2> QED
    BY <1>2, <2>4, <2>5, <2>6, <2>7 DEF Next
<1>3. CASE MigrationStep
  <2>1. Migrates
    BY <1>3 DEF MigrationStep
  <2>2. CASE \E s \in Streams : Store(s, NoTenant) /\ UNCHANGED upkeep
    BY <2>1, <2>2, StoreCopying
  <2>3. CASE \E c, p \in Streams, at \in 1..seq : ForkHot(c, p, at) /\ UNCHANGED upkeep
    BY <2>1, <2>3, ForkCopying
  <2>4. CASE (ForkCold \/ ForkColdFails) /\ UNCHANGED upkeep
    <3>1. /\ UNCHANGED <<job, hot, cold, hotForks, seq, acked, source>>
          /\ \E o : op' = [op EXCEPT !["forker"] = o]
      BY <2>4 DEF ForkCold, ForkColdFails, Go, upkeep
    <3>2. M' = M
      <4>1. "migrator" \in DOMAIN op /\ "migrator" # "forker"
        BY DEF Shape, Procs, Services
      <4> QED
        BY <3>1, <4>1 DEF M
    <3> QED
      BY <3>1, <3>2, OthersCopying
  <2>5. CASE Migrate \/ Fetch \/ Put \/ StreamDone \/ StreamFails
    BY <2>1, <2>5, MigrateCopying, FetchCopying, PutCopying, EndCopying
  <2>6. CASE \E s \in Streams : NextStream(s)
    BY <2>1, <2>6, NextCopying
  <2> QED
    BY <1>3, <2>2, <2>3, <2>4, <2>5, <2>6 DEF MigrationStep
<1>4. Migrates => ~ (TierStep \/ PurgeStep \/ RetentionStep)
  BY DEF Migrates, TierStep, Tiered, PurgeStep, RetentionStep, Retains
<1> QED
  BY <1>1, <1>2, <1>3, <1>4 DEF Next

LEMMA CopyingAlways == Spec => [](Shape /\ Grown /\ Copying)
<1>1. Init => Shape /\ Grown /\ Copying
  BY ShapeInit, GrownInit, CopyingInit
<1>2. TierInv /\ (Shape /\ Grown /\ Copying) /\ [Next]_vars => (Shape /\ Grown /\ Copying)'
  BY ShapeStep, GrownStep, CopyingStep
<1>3. Spec => []TierInv
  BY TierInvInit, TierInvStep, PTL DEF Spec
<1> QED
  BY <1>1, <1>2, <1>3, PTL DEF Spec

\* A stream migrated without an error has in the destination the whole history it had when
\* the migration started, its ancestors' part included, in the order of the source; one that
\* failed, or is under way, has a prefix of it without a hole.  So for any number of streams,
\* events, forks made before or meanwhile, and failures, and also by way of a dump, which
\* reads the whole stream before it stores any of it (migrate_one, migration.py:137;
\* export_stream, portability.py:57).
THEOREM MigrationKeepsHistories == Spec => []MigrationFaithful
<1>1. Grown /\ Copying => MigrationFaithful
  <2> SUFFICES ASSUME Grown, Copying, Migrates, NEW s \in Streams
               PROVE  LET copies == {x \in cold : x.s = s}
                          copied == {x.from : x \in copies}
                          wanted == Ids(History(hotForks, s, source))
                      IN  /\ \A x, y \in copies : x.id < y.id => x.from < y.from
                          /\ copied \subseteq Ids(History(hotForks, s, acked))
                          /\ \A i \in wanted, j \in copied : i < j => i \in copied
                          /\ M # Idle /\ s \in M.done => wanted \subseteq copied
    BY DEF MigrationFaithful
  <2>1. \A A : Ids(History(hotForks, s, A)) = HistoryIds(s, A)
    BY DEF HistoryIds, History, Ids, Has
  <2>2. Copies(s) = {x \in cold : x.s = s} /\ From(Copies(s)) = {x.from : x \in Copies(s)}
    BY DEF Copies, From
  <2>3. Faithful(Copies(s), HistoryIds(s, acked), HistoryIds(s, source))
        /\ (M # Idle /\ s \in M.done => HistoryIds(s, source) \subseteq From(Copies(s)))
    BY DEF Copying
  <2> QED
    BY <2>1, <2>2, <2>3 DEF Faithful
<1> QED
  BY <1>1, CopyingAlways, PTL

-----------------------------------------------------------------------------
(* Replays across the tiers.                                               *)

\* The cold store has the oldest events, the hot one the newest; what has left it was
\* expired.  A batch is the oldest of hot when it is selected.
OldestOfHot(o) ==
    o.k \in {"copy", "delete"} =>
        /\ o.k = "copy" => o.left \subseteq o.batch
        /\ \A y \in o.batch : y.id \in old /\ \A x \in acked : x.id < y.id => x \in o.batch \/ x \notin hot
Tiering ==
    Tiered =>
        /\ \A x \in acked : x.t = NoTenant
        /\ \A x \in acked, y \in cold : x.id <= y.id => x \in cold
        /\ \A x \in acked, y \in hot : y.id <= x.id => x \in hot
        /\ old \subseteq 1..seq /\ \A x, y \in acked : x.id < y.id /\ y.id \in old => x.id \in old
        /\ \A x \in acked \ hot : x.id \in old
        /\ \A a \in Archivers : OldestOfHot(op[a])

\* A fork reaches the cold store later, or never.
LateForks ==
    Tiered =>
        /\ coldForks \in [Streams -> Links(seq)] /\ \A s \in Streams : coldForks[s] \in {Root, hotForks[s]}
        /\ op["forker"] = Idle \/ (op["forker"].k = "fork" /\ op["forker"].s \in Streams)

Resumes(A) ==
    [k : {"ask", "hot", "cold", "read", "walk", "done"}, last : Nat, s : Streams \cup {Nobody},
     has : SUBSET {"hot", "cold"}, tier : {"hot", "cold", "rest"}, segs : Seq(Pieces), from : Nat,
     cut : SUBSET Nat, out : Seq(A), moved : SUBSET Nat, must : SUBSET Nat]
\* The events a replay is for, before it has resolved the stream.
Belongs(f, o, e, A) == IF o.s = Nobody THEN \E y \in A : y.id = o.last /\ y.s = e.s ELSE Has(f, o.s, e)
\* An event was sent, or it need not be.
Got(o, e) == e.id \in o.moved \/ e.id \in o.cut \/ \E j \in 1..Len(o.out) : o.out[j].id = e.id
\* What the replays see.
View == [hot |-> hot, cold |-> cold, hotForks |-> hotForks, coldForks |-> coldForks, acked |-> acked, seq |-> seq]
\* Where a replay will find it otherwise.
Asking(o) == o.k \in {"ask", "hot", "cold"}
\* Found in hot, and gone when hot was to resolve its stream.
Unresolved(o) == o.k = "done" /\ "hot" \in o.has /\ o.s = Nobody
Pending(o, e, w) ==
    \/ Asking(o) /\ "hot" \in o.has /\ e \in w.hot /\ Belongs(w.hotForks, o, e, w.acked)
    \/ Asking(o) /\ "hot" \notin o.has /\ o.last \in Ids(w.cold) /\ Belongs(w.coldForks, o, e, w.acked)
    \/ o.k = "read" /\ o.tier # "cold" /\ e \in w.hot /\ WithinSome(o.segs, e) /\ e.id > o.from
    \/ o.k = "read" /\ o.tier = "cold" /\ Has(w.hotForks, o.s, e) /\ (e \in w.cold => WithinSome(o.segs, e))
    \/ /\ o.k = "walk" /\ Has(w.hotForks, o.s, e) /\ e \in w.hot
       /\ \A j \in 1..Len(o.out) : o.out[j].id < e.id
    \/ Unresolved(o)
Complete(o, w) == \A i \in o.must : \E e \in w.acked : e.id = i /\ i > o.last /\ (Got(o, e) \/ Pending(o, e, w))
Sound(o, w) ==
    /\ \A j \in 1..Len(o.out) : Has(w.hotForks, o.s, o.out[j]) /\ o.out[j].id > o.last
    /\ \A i, j \in 1..Len(o.out) : i < j => o.out[i].id < o.out[j].id
\* The segments left to be read come after what was sent.
Onward(o, w) ==
    /\ o.s \in Streams /\ Successive(o.segs) /\ Len(o.segs) # 0
    /\ \A g \in 1..Len(o.segs) :
          /\ o.segs[g].s = o.s \/ o.segs[g].max <= w.seq
          /\ \A j \in 1..Len(o.out) : o.out[j].id <= o.from \/ o.out[j].id <= o.segs[g].min
    /\ \A e \in w.acked : WithinSome(o.segs, e) => Has(w.hotForks, o.s, e)
AtStage(o, w) ==
    /\ o.k = "hot" => "hot" \in o.has
    /\ o.k = "cold" => "hot" \notin o.has
    /\ Asking(o) => o.out = <<>> /\ o.tier = "hot"
    /\ Asking(o) /\ "hot" \in o.has => o.last \in Ids(w.hot) \/ o.last \in o.moved
    /\ o.last <= o.from /\ (o.tier # "rest" => o.from = o.last)
    /\ o.k = "read" => Onward(o, w)
    /\ o.k = "read" /\ o.tier = "hot" => "hot" \in o.has
    /\ o.k = "walk" => o.s \in Streams /\ o.tier = "cold"
    /\ o.tier # "hot" \/ Asking(o) => o.cut = {}
    /\ Unresolved(o) => o.last \in o.moved /\ o.out = <<>>
    /\ o.k \in {"read", "walk"} /\ o.tier = "cold" => \A j \in 1..Len(o.out) : o.out[j] \in w.cold
ReaderAt(o, w) == o = Idle \/ (o \in Resumes(w.acked) /\ Complete(o, w) /\ Sound(o, w) /\ AtStage(o, w))
Resuming ==
    /\ Tiered => \A r \in Readers : ReaderAt(op[r], View)
    /\ ~ Tiered => \A r \in Readers : op[r] = Idle

LEMMA JobKept == [Next]_vars => job' = job
<1> SUFFICES ASSUME [Next]_vars PROVE job' = job
  OBVIOUS
<1>1. CASE UNCHANGED vars
  BY <1>1 DEF vars, tiers
<1>2. CASE Quiet
  BY <1>2 DEF Quiet
<1>3. CASE \E s \in Streams : \E t : Store(s, t)
  BY <1>3 DEF Store
<1>4. CASE \E c, p \in Streams, at \in 1..seq : ForkHot(c, p, at)
  BY <1>4 DEF ForkHot
<1>5. CASE TierStep
  BY <1>2, <1>3, <1>4, <1>5, TierQuiet DEF TierStep, Reads
<1>6. CASE PurgeStep
  BY <1>2, <1>3, <1>6, TierQuiet, JobsQuiet DEF PurgeStep
<1>7. CASE RetentionStep
  BY <1>2, <1>3, <1>7, TierQuiet, JobsQuiet DEF RetentionStep
<1>8. CASE MigrationStep
  BY <1>2, <1>3, <1>4, <1>8, TierQuiet, JobsQuiet DEF MigrationStep
<1> QED
  BY <1>1, <1>5, <1>6, <1>7, <1>8 DEF Next

\* A fork takes nothing from a history that the stream's own events had come after.
LEMMA MoreHeirs ==
    ASSUME NEW f, IsFiniteSet(DOMAIN f), NEW g, DOMAIN g = DOMAIN f,
           \A x \in DOMAIN f : g[x] = f[x] \/ ~ Forked(f, x),
           NEW e, e.s \in DOMAIN f, Forked(g, e.s) => e.id > g[e.s].at,
           NEW s \in DOMAIN f, Has(f, s, e)
    PROVE  Has(g, s, e)
<1> DEFINE D == Depth(f)
           T == {n \in 0..D : \A x \in DOMAIN f : x \in Heirs(f, e)[n] => x \in Heirs(g, e)[n]}
<1>1. Depth(g) = D /\ D \in Nat
  BY HeirsFacts DEF Depth
<1>2. 0 \in T
  BY <1>1, HeirsFacts
<1>3. ASSUME NEW n \in 0..D, n \in T, n < D PROVE n + 1 \in T
  <2>1. n + 1 \in 1..D /\ n + 1 \in 0..D /\ (n + 1) - 1 = n
    BY <1>1, <1>3
  <2>2. \A x \in DOMAIN f : x \in Heirs(f, e)[n] => x \in Heirs(g, e)[n]
    BY <1>3
  <2>3. ASSUME NEW x \in DOMAIN f, x \in Heirs(f, e)[n + 1] PROVE x \in Heirs(g, e)[n + 1]
    <3>1. IF ~ Forked(f, x) THEN x = e.s
          ELSE \/ x = e.s /\ e.id > f[x].at
               \/ f[x].p \in Heirs(f, e)[n] /\ e.id <= f[x].at
      BY <2>1, <2>3, HeirsFacts
    <3>2. x \in Heirs(g, e)[n + 1] <=>
            IF ~ Forked(g, x) THEN x = e.s
            ELSE \/ x = e.s /\ e.id > g[x].at
                 \/ g[x].p \in Heirs(g, e)[n] /\ e.id <= g[x].at
      BY <1>1, <2>1, HeirsFacts
    <3>3. CASE ~ Forked(f, x)
      BY <3>1, <3>2, <3>3
    <3>4. CASE Forked(f, x)
      <4>1. g[x] = f[x] /\ Forked(g, x)
        BY <3>4 DEF Forked
      <4>2. Heirs(f, e)[n] \subseteq DOMAIN f
        BY <1>3, HeirsFacts
      <4> QED
        BY <2>2, <3>1, <3>2, <3>4, <4>1, <4>2
    <3> QED
      BY <3>3, <3>4
  <2> QED
    BY <2>1, <2>3
<1>4. D \in T
  <2>1. \A n \in 0..D : n \in T /\ n < D => n + 1 \in T
    BY <1>3
  <2> HIDE DEF T, D
  <2>2. 0..D \subseteq T
    BY <1>1, <1>2, <2>1, UpTo
  <2> QED
    BY <1>1, <2>2
<1> QED
  BY <1>1, <1>4 DEF Has

\* Readers, archivers and services are different coroutines.
LEMMA Disjoint ==
    /\ "forker" \in Procs /\ "forker" \notin Readers /\ "forker" \notin Archivers
    /\ Readers \subseteq Procs /\ Archivers \subseteq Procs /\ Readers \cap Archivers = {}
    /\ \A r \in Readers : r \notin Services
BY TiersAssumption DEF Procs, Services

\* A step of a replay is nobody else's.
LEMMA ReadsOnly ==
    ASSUME NEW r \in Readers, Reads(r)
    PROVE  /\ UNCHANGED <<job, hot, cold, hotForks, coldForks, seq, old, acked>>
           /\ \E o : op' = [op EXCEPT ![r] = o]
<1>1. CASE \E last \in 0..seq, s \in Streams \cup {Nobody} : AskFirst(r, last, s)
  BY <1>1 DEF AskFirst, Go
<1>2. CASE AskSecond(r) \/ ReplayHot(r)
  BY <1>2 DEF AskSecond, ReplayHot, Go
<1>3. CASE ReplayCold(r)
  BY <1>3 DEF ReplayCold, Go
<1>4. CASE ReadSegment(r)
  BY <1>4 DEF ReadSegment, Go
<1>5. CASE Walk(r) \/ Answered(r)
  BY <1>5 DEF Walk, Answered, Go
<1> QED
  BY <1>1, <1>2, <1>3, <1>4, <1>5 DEF Reads

LEMMA ForksKept ==
    ASSUME Shape, LateForks, UNCHANGED <<job, hotForks, coldForks>>, op'["forker"] = op["forker"],
           seq' \in Nat, seq <= seq'
    PROVE  LateForks'
<1>1. Links(seq) \subseteq Links(seq')
  <2>1. 1..seq \subseteq 1..seq'
    BY DEF Shape
  <2>2. [p : Streams, at : 1..seq] \subseteq [p : Streams, at : 1..seq']
    BY <2>1
  <2> QED
    BY <2>2 DEF Links
<1> QED
  BY <1>1 DEF LateForks, Tiered

LEMMA LateForksInit == Init => LateForks
<1> SUFFICES ASSUME Init PROVE LateForks
  OBVIOUS
<1>1. coldForks = [s \in Streams |-> Root] /\ hotForks = [s \in Streams |-> Root]
  BY DEF Init
<1>2. coldForks \in [Streams -> Links(seq)]
  BY <1>1 DEF Links
<1>3. op["forker"] = Idle
  BY Disjoint DEF Init
<1> QED
  BY <1>1, <1>2, <1>3 DEF LateForks

LEMMA ForkHotLate ==
    ASSUME Shape, LateForks, Tiered, NEW c \in Streams, NEW p \in Streams, NEW at \in 1..seq, ForkHot(c, p, at)
    PROVE  LateForks'
<1>1. /\ hotForks' = [hotForks EXCEPT ![c] = [p |-> p, at |-> at]] /\ hotForks[c] = Root
      /\ UNCHANGED <<job, coldForks, seq>> /\ op' = [op EXCEPT !["forker"] = [k |-> "fork", s |-> c]]
  BY DEF ForkHot, Forkable, Go
<1>2. op'["forker"] = [k |-> "fork", s |-> c]
  BY <1>1, Disjoint DEF Shape
<1>3. \A s \in Streams : coldForks'[s] \in {Root, hotForks'[s]}
  BY <1>1 DEF LateForks, Shape
<1> QED
  BY <1>1, <1>2, <1>3 DEF LateForks, Links

LEMMA ForkColdLate ==
    ASSUME Shape, LateForks, Tiered, ForkCold
    PROVE  LateForks'
<1> DEFINE c == op["forker"].s
<1>1. /\ coldForks' = [coldForks EXCEPT ![c] = hotForks[c]]
      /\ UNCHANGED <<job, hotForks, seq>> /\ op' = [op EXCEPT !["forker"] = Idle]
      /\ op["forker"].k = "fork"
  BY DEF ForkCold, Go
<1>2. op'["forker"] = Idle
  BY <1>1, Disjoint DEF Shape
<1>3. c \in Streams
  BY <1>1 DEF LateForks, Idle
<1> HIDE DEF c
<1>4. coldForks' \in [Streams -> Links(seq)]
  BY <1>1, <1>3 DEF LateForks, Shape
<1>5. \A s \in Streams : coldForks'[s] \in {Root, hotForks[s]}
  BY <1>1, <1>3 DEF LateForks
<1> QED
  BY <1>1, <1>2, <1>4, <1>5 DEF LateForks

LEMMA LateForksStep == Shape /\ Grown /\ LateForks /\ [Next]_vars => LateForks'
<1> SUFFICES ASSUME Shape, Grown, LateForks, [Next]_vars PROVE LateForks'
  OBVIOUS
<1>1. seq \in Nat
  BY DEF Shape
<1>2. CASE UNCHANGED vars
  BY <1>1, <1>2, ForksKept DEF vars, tiers
<1>3. CASE ~ Tiered
  BY <1>3, JobKept DEF LateForks, Tiered
<1>4. CASE Tiered /\ TierStep
  <2>1. CASE \E s \in Streams : Store(s, NoTenant)
    <3>1. UNCHANGED <<job, hotForks, coldForks, op>> /\ seq' = seq + 1
      BY <2>1 DEF Store
    <3>2. seq' \in Nat /\ seq <= seq'
      BY <1>1, <3>1
    <3> QED
      BY <3>1, <3>2, ForksKept
  <2>2. CASE Ages(NoTenant)
    BY <1>1, <2>2, ForksKept DEF Ages
  <2>3. ASSUME NEW a \in Archivers, Archive(a) \/ Fails(a) PROVE LateForks'
    <3>1. UNCHANGED <<job, hotForks, coldForks, seq>>
      BY <2>3 DEF Archive, Select, Copy, Delete, DeletesBatch, Fails
    <3>2. op["forker"].k \in {"idle", "fork"} /\ a # "forker" /\ "forker" \in DOMAIN op
      BY <1>4, Disjoint DEF LateForks, Idle, Shape
    <3>3. op'["forker"] = op["forker"]
      <4>1. CASE Select(a) \/ Fails(a)
        BY <3>2, <4>1 DEF Select, Fails, Go
      <4>2. CASE Copy(a)
        BY <3>2, <4>2, Disjoint DEF Copy
      <4>3. CASE Delete(a)
        BY <3>2, <4>3, Disjoint DEF Delete, DeletesBatch, Removes
      <4> QED
        BY <2>3, <4>1, <4>2, <4>3 DEF Archive
    <3> QED
      BY <1>1, <3>1, <3>3, ForksKept
  <2>4. CASE \E c, p \in Streams, at \in 1..seq : ForkHot(c, p, at)
    BY <1>4, <2>4, ForkHotLate
  <2>5. CASE ForkCold
    BY <1>4, <2>5, ForkColdLate
  <2>6. CASE ForkColdFails
    <3>1. op'["forker"] = Idle /\ UNCHANGED <<job, hotForks, coldForks, seq>>
      BY <2>6, Disjoint DEF ForkColdFails, Go, Shape
    <3> QED
      BY <3>1 DEF LateForks, Tiered
  <2>7. ASSUME NEW r \in Readers, Reads(r) PROVE LateForks'
    <3>1. UNCHANGED <<job, hotForks, coldForks, seq>> /\ \E o : op' = [op EXCEPT ![r] = o]
      BY <2>7, ReadsOnly
    <3>2. op'["forker"] = op["forker"]
      BY <3>1, Disjoint DEF Shape
    <3> QED
      BY <1>1, <3>1, <3>2, ForksKept
  <2> QED
    BY <1>4, <2>1, <2>2, <2>3, <2>4, <2>5, <2>6, <2>7 DEF TierStep, Reads
<1> QED
  BY <1>2, <1>3, <1>4 DEF Next, Tiered, PurgeStep, RetentionStep, Retains, MigrationStep, Migrates

LEMMA TieringInit == Init => Tiering
<1> SUFFICES ASSUME Init PROVE Tiering
  OBVIOUS
<1>1. \A a \in Archivers : op[a] = Idle
  BY Disjoint DEF Init
<1>2. \A a \in Archivers : OldestOfHot(op[a])
  BY <1>1 DEF OldestOfHot, Idle
<1>3. seq = 0 /\ old = {} /\ acked = {} /\ hot = {} /\ cold = {}
  BY DEF Init
<1> QED
  BY <1>2, <1>3 DEF Tiering

LEMMA TieringKept ==
    ASSUME Tiering, UNCHANGED <<job, hot, cold, seq, acked, old>>, \A a \in Archivers : op'[a] = op[a]
    PROVE  Tiering'
<1>1. Tiered' = Tiered /\ \A a \in Archivers : OldestOfHot(op[a]) => OldestOfHot(op[a])'
  BY DEF Tiered, OldestOfHot
<1> QED
  BY <1>1 DEF Tiering

LEMMA StoreTiering ==
    ASSUME Shape, Grown, TierInv, Tiered, Tiering, NEW s \in Streams, Store(s, NoTenant)
    PROVE  Tiering'
<1> DEFINE x == [id |-> seq + 1, s |-> s, t |-> NoTenant, from |-> seq + 1]
<1>1. /\ hot' = hot \cup {x} /\ acked' = acked \cup {x} /\ seq' = seq + 1
      /\ UNCHANGED <<job, cold, old, op>> /\ x.id = seq + 1 /\ x.t = NoTenant
  BY DEF Store
<1> HIDE DEF x
<1>2. seq \in Nat /\ \A y \in acked : y.id \in Nat /\ y.id <= seq
  BY DEF Shape, Grown
<1>3. hot \subseteq acked /\ cold \subseteq acked
  BY DEF TierInv, Numbered
<1>4. \A y \in acked' : y.t = NoTenant
  BY <1>1 DEF Tiering
<1>5. \A y \in acked', z \in cold' : y.id <= z.id => y \in cold'
  BY <1>1, <1>2, <1>3 DEF Tiering
<1>6. \A y \in acked', z \in hot' : z.id <= y.id => y \in hot'
  BY <1>1, <1>2, <1>3 DEF Tiering
<1>7. old' \subseteq 1..seq' /\ \A y, z \in acked' : y.id < z.id /\ z.id \in old' => y.id \in old'
  <2>1. \A n \in old : n \in 1..seq /\ n # seq + 1 /\ n \in 1..(seq + 1)
    BY <1>2 DEF Tiering
  <2> QED
    BY <1>1, <1>2, <2>1 DEF Tiering
<1>8. \A y \in acked' \ hot' : y.id \in old'
  BY <1>1 DEF Tiering
<1>9. ASSUME NEW a \in Archivers PROVE OldestOfHot(op[a])'
  <2>1. CASE op[a].k \in {"copy", "delete"}
    <3>1. op[a].batch \subseteq acked
      BY <2>1 DEF TierInv, ArchiverAt, Idle
    <3> QED
      BY <1>1, <1>2, <2>1, <3>1 DEF Tiering, OldestOfHot
  <2> QED
    BY <1>1, <2>1 DEF OldestOfHot
<1> QED
  BY <1>4, <1>5, <1>6, <1>7, <1>8, <1>9 DEF Tiering

LEMMA AgesTiering ==
    ASSUME Shape, Grown, TierInv, Tiered, Tiering, Ages(NoTenant)
    PROVE  Tiering'
<1> DEFINE young == {x \in hot : x.t = NoTenant /\ x.id \notin old}
           S == SmallestOf(young, 1)
<1>1. old' = old \cup Ids(S) /\ UNCHANGED <<job, hot, cold, seq, acked, op>>
  BY DEF Ages
<1>2. seq \in Nat /\ Unique(acked) /\ hot \subseteq acked /\ \A y \in acked : y.id \in 1..seq /\ y.id \in Nat
  BY DEF Shape, Grown
<1>3. S \subseteq young /\ \A e \in young \ S : \A x \in S : x.id < e.id
  <2>1. (\A x \in young : x.id \in 1..seq) /\ (\A x, y \in young : x.id = y.id => x = y)
    BY <1>2 DEF Unique
  <2> HIDE DEF young
  <2> QED
    BY <1>2, <2>1, SmallestOfFacts
<1>4. \A y \in acked : y.id \notin old => y \in young
  BY DEF Tiering
<1>5. S \subseteq acked
  BY <1>2, <1>3
<1> HIDE DEF S, young
<1>6. old' \subseteq 1..seq'
  BY <1>1, <1>2, <1>5 DEF Tiering, Ids
<1>7. ASSUME NEW y \in acked, NEW z \in acked, y.id < z.id, z.id \in old' PROVE y.id \in old'
  <2>1. CASE z.id \in old
    BY <1>1, <1>7, <2>1 DEF Tiering
  <2>2. CASE z.id \in Ids(S)
    <3>1. z \in S
      BY <1>2, <1>5, <2>2 DEF Ids, Unique
    <3>2. CASE y.id \notin old
      <4>1. y \in young /\ ~ (z.id < y.id)
        BY <1>2, <1>4, <1>7, <3>2
      <4>2. y \in S
        BY <1>3, <3>1, <4>1
      <4> QED
        BY <1>1, <4>2 DEF Ids
    <3> QED
      BY <1>1, <3>2
  <2> QED
    BY <1>1, <1>7, <2>1, <2>2
<1>8. \A a \in Archivers : OldestOfHot(op[a])'
  BY <1>1 DEF Tiering, OldestOfHot
<1>9. \A y \in acked \ hot : y.id \in old'
  BY <1>1 DEF Tiering
<1> QED
  BY <1>1, <1>6, <1>7, <1>8, <1>9 DEF Tiering, Tiered

LEMMA SelectTiering ==
    ASSUME Shape, Grown, TierInv, Tiered, Tiering, NEW a \in Archivers, Select(a)
    PROVE  Tiering'
<1> DEFINE S == SmallestOf(Expired, Batch)
<1>1. /\ UNCHANGED <<job, hot, cold, seq, acked, old>>
      /\ op' = [op EXCEPT ![a] = IF S = {} THEN Idle ELSE [k |-> "copy", batch |-> S, left |-> S]]
  BY DEF Select, Go
<1>2. seq \in Nat /\ Unique(acked) /\ hot \subseteq acked /\ \A y \in acked : y.id \in 1..seq /\ y.id \in Nat
  BY DEF Shape, Grown
<1>3. S \subseteq Expired /\ \A e \in Expired \ S : \A x \in S : x.id < e.id
  <2>1. (\A x \in Expired : x.id \in 1..seq) /\ (\A x, y \in Expired : x.id = y.id => x = y)
    BY <1>2 DEF Unique, Expired
  <2>2. Batch \in Nat
    BY TiersAssumption
  <2> QED
    BY <1>2, <2>1, <2>2, SmallestOfFacts
<1> HIDE DEF S
<1>4. ASSUME NEW y \in S PROVE y.id \in old /\ \A x \in acked : x.id < y.id => x \in S \/ x \notin hot
  <2>1. y \in acked /\ y.id \in old
    BY <1>2, <1>3 DEF Expired
  <2>2. ASSUME NEW x \in acked, x.id < y.id, x \in hot PROVE x \in S
    <3>1. x \in Expired
      BY <2>1, <2>2 DEF Tiering, Expired
    <3>2. ~ (y.id < x.id)
      BY <1>2, <2>1, <2>2
    <3> QED
      BY <1>3, <3>1, <3>2
  <2> QED
    BY <2>1, <2>2
<1>5. ASSUME NEW b \in Archivers PROVE OldestOfHot(op[b])'
  <2>1. CASE b # a
    <3>1. op'[b] = op[b]
      BY <1>1, <2>1
    <3> QED
      BY <1>1, <3>1 DEF Tiering, OldestOfHot
  <2>2. CASE b = a
    <3>1. op'[a] = Idle \/ op'[a] = [k |-> "copy", batch |-> S, left |-> S]
      BY <1>1, Disjoint DEF Shape
    <3>2. CASE op'[a] = Idle
      BY <2>2, <3>2 DEF OldestOfHot, Idle
    <3>3. CASE op'[a] = [k |-> "copy", batch |-> S, left |-> S]
      <4>1. op'[a].batch = S /\ op'[a].left = S
        BY <3>3
      <4> QED
        BY <1>1, <1>4, <2>2, <4>1 DEF OldestOfHot
    <3> QED
      BY <3>1, <3>2, <3>3
  <2> QED
    BY <2>1, <2>2
<1> QED
  BY <1>1, <1>5 DEF Tiering, Tiered

\* The first of ORDER BY event_id.
LEMMA FirstRow ==
    ASSUME NEW L, NEW N \in Nat, \A y \in L : y.id \in 1..N, \A y, z \in L : y.id = z.id => y = z,
           NEW x \in SmallestOf(L, 1)
    PROVE  x \in L /\ \A e \in L \ {x} : x.id < e.id
<1> DEFINE B == {y \in L : y.id < x.id}
<1>1. x \in L /\ Cardinality(B) < 1
  BY DEF SmallestOf
<1>2. IsFiniteSet(B)
  <2>1. IsFiniteSet(L) /\ B \subseteq L
    BY NumberedFinite
  <2> QED
    BY <2>1, FS_Subset
<1>3. B = {}
  <2> HIDE DEF B
  <2>1. Cardinality(B) \in Nat
    BY <1>2, FS_CardinalityType
  <2>2. Cardinality(B) = 0
    BY <1>1, <2>1
  <2> QED
    BY <1>2, <2>2, FS_EmptySet
<1>4. ASSUME NEW e \in L \ {x} PROVE x.id < e.id
  <2>1. e.id # x.id /\ e.id \in Nat /\ x.id \in Nat /\ ~ (e.id < x.id)
    BY <1>1, <1>3
  <2> QED
    BY <2>1
<1> QED
  BY <1>1, <1>4

\* A copy is noted by the replays under way.
Copied(o, i) == IF o.k = "read" THEN [o EXCEPT !.moved = @ \cup {i}] ELSE o
LEMMA CopyFacts ==
    ASSUME Shape, Grown, TierInv, Tiered, NEW a \in Archivers, Copy(a)
    PROVE  \E x \in acked :
              /\ op[a].k = "copy" /\ x \in op[a].left /\ (\A e \in op[a].left : e = x \/ x.id < e.id)
              /\ op[a].batch \subseteq acked /\ op[a].batch \ op[a].left \subseteq cold /\ op[a].left \subseteq acked
              /\ cold' = cold \cup {x} /\ UNCHANGED <<job, hot, hotForks, coldForks, seq, old, acked>>
              /\ op'[a].k \in {"copy", "delete"} /\ op'[a].batch = op[a].batch /\ op'[a].left \subseteq op[a].left
              /\ \A q \in Procs \ {a} : op'[q] = Copied(op[q], x.id)
<1>1. PICK x \in SmallestOf(op[a].left, 1) :
        /\ cold' = Upsert(cold, x)
        /\ LET left == op[a].left \ {x}
           IN  op' = [q \in Procs |->
                       CASE q = a -> [op[a] EXCEPT !.left = left, !.k = IF left = {} THEN "delete" ELSE "copy"]
                         [] op[q].k = "read" -> [op[q] EXCEPT !.moved = @ \cup {x.id}]
                         [] OTHER -> op[q]]
  BY DEF Copy
<1>2. UNCHANGED <<job, hot, hotForks, coldForks, seq, old, acked>> /\ op[a].k = "copy"
  BY DEF Copy
<1>3. seq \in Nat /\ Unique(acked) /\ cold \subseteq acked /\ \A y \in acked : y.id \in 1..seq
  BY DEF Shape, Grown, TierInv, Numbered
<1>4. /\ op[a] \in [k : {"copy", "delete"}, batch : SUBSET acked, left : SUBSET acked]
      /\ op[a].batch \ op[a].left \subseteq cold
  BY <1>2 DEF TierInv, ArchiverAt, Idle
<1>5. x \in op[a].left /\ \A e \in op[a].left \ {x} : x.id < e.id
  <2> DEFINE L == op[a].left
  <2>1. (\A y \in L : y.id \in 1..seq) /\ (\A y, z \in L : y.id = z.id => y = z) /\ x \in SmallestOf(L, 1)
    BY <1>1, <1>3, <1>4 DEF Unique
  <2> HIDE DEF L
  <2>2. x \in L /\ \A e \in L \ {x} : x.id < e.id
    BY <1>3, <2>1, FirstRow
  <2> QED
    BY <2>2 DEF L
<1>6. x \in acked /\ cold' = cold \cup {x}
  BY <1>1, <1>3, <1>4, <1>5, UpsertAdds DEF Unique
<1>7. op'[a].k \in {"copy", "delete"} /\ op'[a].batch = op[a].batch /\ op'[a].left \subseteq op[a].left
  <2> DEFINE left == op[a].left \ {x}
             o == [op[a] EXCEPT !.left = left, !.k = IF left = {} THEN "delete" ELSE "copy"]
  <2>1. op'[a] = o
    <3>1. op'[a] = CASE a = a -> [op[a] EXCEPT !.left = op[a].left \ {x}, !.k = IF op[a].left \ {x} = {} THEN "delete" ELSE "copy"]
                     [] op[a].k = "read" -> [op[a] EXCEPT !.moved = @ \cup {x.id}]
                     [] OTHER -> op[a]
      BY <1>1, Disjoint
    <3>2. op[a].k # "read"
      BY <1>2
    <3> QED
      BY ONLY <3>1, <3>2
  <2>2. left \subseteq op[a].left
    OBVIOUS
  <2> HIDE DEF left
  <2>3. o.k \in {"copy", "delete"} /\ o.batch = op[a].batch /\ o.left = left
    BY <1>4
  <2> QED
    BY <2>1, <2>2, <2>3
<1>8. \A q \in Procs \ {a} : op'[q] = Copied(op[q], x.id)
  BY <1>1 DEF Copied
<1> QED
  BY <1>2, <1>4, <1>5, <1>6, <1>7, <1>8

\* What an archiver copies next is the oldest event that is not in cold.
LEMMA CopyTiering ==
    ASSUME Shape, Grown, TierInv, Tiered, Tiering, NEW a \in Archivers, Copy(a)
    PROVE  Tiering'
<1>1. PICK x \in acked :
        /\ op[a].k = "copy" /\ x \in op[a].left /\ (\A e \in op[a].left : e = x \/ x.id < e.id)
        /\ op[a].batch \subseteq acked /\ op[a].batch \ op[a].left \subseteq cold /\ op[a].left \subseteq acked
        /\ cold' = cold \cup {x} /\ UNCHANGED <<job, hot, hotForks, coldForks, seq, old, acked>>
        /\ op'[a].k \in {"copy", "delete"} /\ op'[a].batch = op[a].batch /\ op'[a].left \subseteq op[a].left
        /\ \A q \in Procs \ {a} : op'[q] = Copied(op[q], x.id)
  BY CopyFacts
<1>2. acked \subseteq hot \cup cold /\ Unique(acked) /\ \A y \in acked : y.id \in Nat
  BY DEF TierInv, NothingLost, Grown
<1>3. ASSUME NEW y \in acked, NEW z \in cold', y.id <= z.id PROVE y \in cold'
  <2>1. CASE z \in cold
    BY <1>1, <1>3, <2>1 DEF Tiering
  <2>2. CASE z = x
    <3>1. CASE y.id = x.id
      BY <1>1, <1>2, <3>1 DEF Unique
    <3>2. CASE y.id < x.id
      <4>1. y \notin op[a].left
        BY <1>1, <1>2, <3>2
      <4>2. CASE y \in op[a].batch
        BY <1>1, <4>1, <4>2
      <4>3. CASE y \notin op[a].batch
        <5>1. OldestOfHot(op[a]) /\ x \in op[a].batch
          BY <1>1 DEF Tiering, OldestOfHot
        <5> QED
          BY <1>1, <1>2, <2>2, <3>2, <4>3, <5>1 DEF OldestOfHot
      <4> QED
        BY <4>2, <4>3
    <3> QED
      BY <1>2, <1>3, <2>2, <3>1, <3>2
  <2> QED
    BY <1>1, <2>1, <2>2
<1>4. ASSUME NEW b \in Archivers PROVE OldestOfHot(op[b])'
  <2>1. CASE b = a
    <3>1. OldestOfHot(op[a])
      BY DEF Tiering
    <3> QED
      BY <1>1, <2>1, <3>1 DEF OldestOfHot
  <2>2. CASE b # a
    <3>1. op[b].k # "read" /\ op'[b] = op[b] /\ OldestOfHot(op[b])
      <4>1. op[b].k # "read"
        BY DEF TierInv, ArchiverAt, Idle
      <4>2. op'[b] = Copied(op[b], x.id)
        BY <1>1, <2>2, Disjoint
      <4> QED
        BY <4>1, <4>2 DEF Copied, Tiering
    <3> QED
      BY <1>1, <3>1 DEF OldestOfHot
  <2> QED
    BY <2>1, <2>2
<1>5. /\ \A y \in acked' : y.t = NoTenant
      /\ \A y \in acked', z \in hot' : z.id <= y.id => y \in hot'
      /\ old' \subseteq 1..seq' /\ \A y, z \in acked' : y.id < z.id /\ z.id \in old' => y.id \in old'
      /\ \A y \in acked' \ hot' : y.id \in old'
  BY <1>1 DEF Tiering
<1> QED
  BY <1>1, <1>3, <1>4, <1>5 DEF Tiering

\* A batch is deleted: these were the oldest of hot, and are in cold.
Noted(o, q, S) == IF q \in Readers /\ Exposed(o) THEN [o EXCEPT !.moved = @ \cup Ids(S)] ELSE o
LEMMA DeleteFacts ==
    ASSUME Shape, Grown, TierInv, Tiered, NEW a \in Archivers, Delete(a)
    PROVE  \E S \in SUBSET hot :
              /\ op[a].k = "delete" /\ S \subseteq op[a].batch /\ op[a].batch \cap hot \subseteq S
              /\ hot' = hot \ S /\ UNCHANGED <<job, cold, hotForks, coldForks, seq, old, acked>>
              /\ op'[a] \in {Idle, [k |-> "again"]}
              /\ \A q \in Procs \ {a} : op'[q] = Noted(op[q], q, S)
<1> DEFINE S == {x \in hot : x.id \in Ids(op[a].batch)}
           next == IF Cardinality(op[a].batch) < Batch THEN Idle ELSE [k |-> "again"]
<1>1. /\ op[a].k = "delete" /\ Removes(a, S, next)
      /\ UNCHANGED <<job, cold, hotForks, coldForks, seq, old, acked>>
  BY DEF Delete, DeletesBatch
<1>2. Unique(acked) /\ hot \subseteq acked
  BY DEF Grown
<1>3. op[a].batch \subseteq acked
  BY <1>1 DEF TierInv, ArchiverAt, Idle
<1>4. S \subseteq op[a].batch /\ op[a].batch \cap hot \subseteq S
  BY <1>2, <1>3 DEF Ids, Unique
<1>5. next \in {Idle, [k |-> "again"]} /\ S \in SUBSET hot
  OBVIOUS
<1> HIDE DEF S, next
<1>6. hot' = hot \ S
  BY <1>1 DEF Removes
<1>7. op'[a] = next
  BY <1>1, Disjoint DEF Removes
<1>8. \A q \in Procs \ {a} : op'[q] = Noted(op[q], q, S)
  BY <1>1 DEF Removes, Noted
<1> QED
  BY <1>1, <1>4, <1>5, <1>6, <1>7, <1>8

LEMMA DeleteTiering ==
    ASSUME Shape, Grown, TierInv, Tiered, Tiering, NEW a \in Archivers, Delete(a)
    PROVE  Tiering'
<1>1. PICK S \in SUBSET hot :
         /\ op[a].k = "delete" /\ S \subseteq op[a].batch /\ op[a].batch \cap hot \subseteq S
         /\ hot' = hot \ S /\ UNCHANGED <<job, cold, hotForks, coldForks, seq, old, acked>>
         /\ op'[a] \in {Idle, [k |-> "again"]}
         /\ \A q \in Procs \ {a} : op'[q] = Noted(op[q], q, S)
  BY DeleteFacts
<1>2. Unique(acked) /\ hot \subseteq acked /\ \A y \in acked : y.id \in Nat
  BY DEF Grown
<1>3. ASSUME NEW x \in acked, NEW y \in hot', y.id <= x.id PROVE x \in hot'
  <2>1. y \in hot /\ y \in acked /\ y \notin S /\ x \in hot
    BY <1>1, <1>2, <1>3 DEF Tiering
  <2>2. CASE x \in S
    <3>1. x # y /\ y.id < x.id
      BY <1>2, <1>3, <2>1, <2>2 DEF Unique
    <3>2. y \in op[a].batch
      BY <1>1, <2>1, <2>2, <3>1 DEF Tiering, OldestOfHot
    <3> QED
      BY <1>1, <2>1, <3>2
  <2> QED
    BY <1>1, <2>1, <2>2
<1>4. \A x \in acked \ hot' : x.id \in old
  BY <1>1 DEF Tiering, OldestOfHot
<1>5. ASSUME NEW b \in Archivers PROVE OldestOfHot(op[b])'
  <2>1. CASE b = a
    BY <1>1, <2>1 DEF OldestOfHot, Idle
  <2>2. CASE b # a
    <3>1. op'[b] = op[b] /\ OldestOfHot(op[b])
      BY <1>1, <2>2, Disjoint DEF Noted, Tiering
    <3> QED
      BY <1>1, <3>1 DEF OldestOfHot
  <2> QED
    BY <2>1, <2>2
<1> QED
  BY <1>1, <1>3, <1>4, <1>5 DEF Tiering

LEMMA FailTiering ==
    ASSUME Shape, Tiering, NEW a \in Archivers, Fails(a)
    PROVE  Tiering'
<1>1. UNCHANGED <<job, hot, cold, seq, acked, old>> /\ op'[a] = Idle /\ \A b \in Archivers \ {a} : op'[b] = op[b]
  BY Disjoint DEF Fails, Go, Shape
<1>2. Tiered' = Tiered /\ OldestOfHot(op[a])' /\ \A b \in Archivers \ {a} : OldestOfHot(op[b]) => OldestOfHot(op[b])'
  BY <1>1 DEF Tiered, OldestOfHot, Idle
<1>3. Tiering => \A b \in Archivers : Tiered => OldestOfHot(op[b])'
  BY <1>2 DEF Tiering
<1> QED
  BY <1>1, <1>2, <1>3 DEF Tiering

LEMMA TieringStep == Shape /\ Grown /\ TierInv /\ Tiering /\ [Next]_vars => Tiering'
<1> SUFFICES ASSUME Shape, Grown, TierInv, Tiering, [Next]_vars PROVE Tiering'
  OBVIOUS
<1>1. CASE UNCHANGED vars
  BY <1>1, TieringKept DEF vars, tiers
<1>2. CASE ~ Tiered
  BY <1>2, JobKept DEF Tiering, Tiered
<1>3. CASE Tiered /\ TierStep
  <2>1. ASSUME NEW s \in Streams, Store(s, NoTenant) PROVE Tiering'
    BY <1>3, <2>1, StoreTiering
  <2>2. CASE Ages(NoTenant)
    BY <1>3, <2>2, AgesTiering
  <2>3. ASSUME NEW a \in Archivers, Archive(a) \/ Fails(a) PROVE Tiering'
    BY <1>3, <2>3, SelectTiering, CopyTiering, DeleteTiering, FailTiering DEF Archive
  <2>4. CASE (\E c, p \in Streams, at \in 1..seq : ForkHot(c, p, at)) \/ ForkCold \/ ForkColdFails
    <3>1. UNCHANGED <<job, hot, cold, seq, acked, old>> /\ \E o : op' = [op EXCEPT !["forker"] = o]
      BY <2>4 DEF ForkHot, ForkCold, ForkColdFails, Go
    <3>2. \A a \in Archivers : op'[a] = op[a]
      BY <3>1, Disjoint DEF Shape
    <3> QED
      BY <3>1, <3>2, TieringKept
  <2>5. ASSUME NEW r \in Readers, Reads(r) PROVE Tiering'
    <3>1. UNCHANGED <<job, hot, cold, seq, acked, old>> /\ \E o : op' = [op EXCEPT ![r] = o]
      BY <2>5, ReadsOnly
    <3>2. \A a \in Archivers : op'[a] = op[a]
      BY <3>1, Disjoint DEF Shape
    <3> QED
      BY <3>1, <3>2, TieringKept
  <2> QED
    BY <1>3, <2>1, <2>2, <2>3, <2>4, <2>5 DEF TierStep, Reads
<1> QED
  BY <1>1, <1>2, <1>3 DEF Next, Tiered, PurgeStep, RetentionStep, Retains, MigrationStep, Migrates

-----------------------------------------------------------------------------
(* What the others do while a replay is under way.                         *)

\* Events are added, to the histories too; each step notes what a replay may miss by it.
Widens(w, v) ==
    /\ w.seq \in Nat /\ v.seq \in Nat /\ w.seq <= v.seq /\ w.acked \subseteq v.acked /\ w.cold \subseteq v.cold
    /\ \A e \in v.acked : e.id \in Nat
    /\ \A s : \A e \in w.acked :
          /\ Has(w.hotForks, s, e) => Has(v.hotForks, s, e)
          /\ Has(w.coldForks, s, e) => Has(v.coldForks, s, e)
    /\ \A e \in v.acked \ w.acked : e.id > w.seq /\ Has(v.hotForks, e.s, e)
Noting(o, m, w, v) ==
    /\ m \subseteq Nat /\ o.moved \subseteq m
    /\ Exposed(o) => \A x \in w.hot \ v.hot : x.id \in m
    /\ o.k = "read" => \A x \in v.cold \ w.cold : x.id \in m

LEMMA PendingKept ==
    ASSUME NEW w, NEW v, Widens(w, v), NEW o \in Resumes(w.acked), NEW m, Noting(o, m, w, v), AtStage(o, w),
           NEW e \in w.acked, Got(o, e) \/ Pending(o, e, w),
           NEW p, p = [o EXCEPT !.moved = m]
    PROVE  Got(p, e) \/ Pending(p, e, v)
<1>1. /\ p.k = o.k /\ p.last = o.last /\ p.s = o.s /\ p.has = o.has /\ p.tier = o.tier /\ p.segs = o.segs
      /\ p.from = o.from /\ p.cut = o.cut /\ p.out = o.out /\ p.moved = m
  BY DEF Resumes
<1>2. Belongs(w.hotForks, o, e, w.acked) => Belongs(v.hotForks, p, e, v.acked)
  BY <1>1 DEF Belongs, Widens
<1>3. Belongs(w.coldForks, o, e, w.acked) => Belongs(v.coldForks, p, e, v.acked)
  BY <1>1 DEF Belongs, Widens
<1>4. Exposed(o) /\ e \in w.hot => e \in v.hot \/ Got(p, e)
  BY <1>1 DEF Noting, Got
<1>5. CASE Got(o, e)
  BY <1>1, <1>5 DEF Got, Noting
<1>6. CASE Asking(o) /\ "hot" \in o.has /\ e \in w.hot /\ Belongs(w.hotForks, o, e, w.acked)
  <2>1. Exposed(o)
    BY <1>6 DEF Asking, Exposed, AtStage
  <2> QED
    BY <1>1, <1>2, <1>4, <1>6, <2>1 DEF Pending, Asking
<1>7. CASE Asking(o) /\ "hot" \notin o.has /\ o.last \in Ids(w.cold) /\ Belongs(w.coldForks, o, e, w.acked)
  <2>1. o.last \in Ids(v.cold)
    BY <1>7 DEF Ids, Widens
  <2> QED
    BY <1>1, <1>3, <1>7, <2>1 DEF Pending, Asking
<1>8. CASE o.k = "read" /\ o.tier # "cold" /\ e \in w.hot /\ WithinSome(o.segs, e) /\ e.id > o.from
  BY <1>1, <1>4, <1>8 DEF Pending, Exposed
<1>9. CASE o.k = "read" /\ o.tier = "cold" /\ Has(w.hotForks, o.s, e) /\ (e \in w.cold => WithinSome(o.segs, e))
  <2>1. Has(v.hotForks, o.s, e)
    BY <1>9 DEF Widens
  <2>2. e \in v.cold /\ e \notin w.cold => Got(p, e)
    BY <1>1, <1>9 DEF Noting, Got
  <2> QED
    BY <1>1, <1>9, <2>1, <2>2 DEF Pending
<1>10. CASE /\ o.k = "walk" /\ Has(w.hotForks, o.s, e) /\ e \in w.hot
            /\ \A j \in 1..Len(o.out) : o.out[j].id < e.id
  <2>1. Has(v.hotForks, o.s, e)
    BY <1>10 DEF Widens
  <2> QED
    BY <1>1, <1>4, <1>10, <2>1 DEF Pending, Exposed
<1>11. CASE Unresolved(o)
  BY <1>1, <1>11 DEF Pending, Unresolved
<1> QED
  BY <1>5, <1>6, <1>7, <1>8, <1>9, <1>10, <1>11 DEF Pending

LEMMA ReaderKept ==
    ASSUME NEW w, NEW v, Widens(w, v), NEW o, ReaderAt(o, w), o # Idle, NEW m, Noting(o, m, w, v)
    PROVE  ReaderAt([o EXCEPT !.moved = m], v)
<1> DEFINE p == [o EXCEPT !.moved = m]
<1>1. o \in Resumes(w.acked) /\ Complete(o, w) /\ Sound(o, w) /\ AtStage(o, w)
  BY DEF ReaderAt
<1>2. /\ p.k = o.k /\ p.last = o.last /\ p.s = o.s /\ p.has = o.has /\ p.tier = o.tier /\ p.segs = o.segs
      /\ p.from = o.from /\ p.cut = o.cut /\ p.out = o.out /\ p.moved = m /\ p.must = o.must
  BY <1>1 DEF Resumes
<1>3. w.acked \subseteq v.acked /\ w.cold \subseteq v.cold /\ w.seq \in Nat /\ v.seq \in Nat /\ w.seq <= v.seq
  BY DEF Widens
<1>4. o.out \in Seq(w.acked) /\ Len(o.out) \in Nat /\ \A j \in 1..Len(o.out) : o.out[j] \in w.acked
  <2>1. o.out \in Seq(w.acked)
    BY <1>1 DEF Resumes
  <2> QED
    BY <2>1, LenProperties
<1>5. p \in Resumes(v.acked)
  <2>1. o.out \in Seq(v.acked)
    BY <1>3, <1>4, SeqGrows
  <2>2. m \in SUBSET Nat
    BY DEF Noting
  <2> QED
    BY <1>1, <2>1, <2>2 DEF Resumes
<1>6. p = [o EXCEPT !.moved = m]
  OBVIOUS
<1> HIDE DEF p
<1>7. \A e \in w.acked : Got(o, e) \/ Pending(o, e, w) => Got(p, e) \/ Pending(p, e, v)
  BY <1>1, <1>6, PendingKept
<1>8. Complete(p, v)
  BY <1>1, <1>2, <1>3, <1>7 DEF Complete
<1>9. Sound(p, v)
  BY <1>1, <1>2, <1>4 DEF Sound, Widens
<1>10. ASSUME Onward(o, w) PROVE Onward(p, v)
  <2>1. \A g \in 1..Len(o.segs) : o.segs[g] \in Pieces
    <3>1. o.segs \in Seq(Pieces)
      BY <1>1 DEF Resumes
    <3> QED
      BY <3>1, LenProperties
  <2>2. \A g \in 1..Len(o.segs) : o.segs[g].s = o.s \/ o.segs[g].max <= v.seq
    BY <1>3, <1>10, <2>1 DEF Onward, Pieces
  <2>3. ASSUME NEW e \in v.acked, WithinSome(o.segs, e) PROVE Has(v.hotForks, o.s, e)
    <3>1. CASE e \in w.acked
      BY <1>10, <2>3, <3>1 DEF Onward, Widens
    <3>2. CASE e \notin w.acked
      <4>1. e.id > w.seq /\ Has(v.hotForks, e.s, e) /\ e.id \in Nat
        BY <3>2 DEF Widens
      <4>2. PICK g \in 1..Len(o.segs) : Within(o.segs[g], e)
        BY <2>3 DEF WithinSome
      <4>3. o.segs[g].max \in Nat /\ e.id <= o.segs[g].max /\ e.s = o.segs[g].s
        BY <2>1, <4>2 DEF Within, Pieces
      <4>4. e.s = o.s
        BY <1>3, <1>10, <4>1, <4>3 DEF Onward
      <4> QED
        BY <4>1, <4>4
    <3> QED
      BY <3>1, <3>2
  <2> QED
    BY <1>2, <1>10, <2>2, <2>3 DEF Onward
<1>11. AtStage(p, v)
  <2>1. Asking(o) /\ "hot" \in o.has => o.last \in Ids(v.hot) \/ o.last \in m
    <3>1. Asking(o) /\ "hot" \in o.has => Exposed(o)
      BY <1>1 DEF AtStage, Asking, Exposed
    <3> QED
      BY <1>1, <3>1 DEF AtStage, Noting, Ids
  <2> QED
    BY <1>1, <1>2, <1>3, <1>10, <2>1 DEF AtStage, Asking, Unresolved, Noting
<1> QED
  BY <1>5, <1>8, <1>9, <1>11 DEF ReaderAt, p

\* A step that takes no replay further.
Overtaken(o, p, w, v) ==
    \/ p = o /\ (o = Idle \/ Noting(o, o.moved, w, v))
    \/ \E m : p = [o EXCEPT !.moved = m] /\ o # Idle /\ Noting(o, m, w, v)
LEMMA ReplayKept ==
    ASSUME NEW w, NEW v, Widens(w, v), NEW o, ReaderAt(o, w), NEW p, Overtaken(o, p, w, v)
    PROVE  ReaderAt(p, v)
<1>1. CASE o = Idle /\ p = o
  BY <1>1 DEF ReaderAt
<1>2. CASE o # Idle /\ p = o /\ Noting(o, o.moved, w, v)
  <2>1. o \in Resumes(w.acked)
    BY <1>2 DEF ReaderAt
  <2>2. o = [o EXCEPT !.moved = o.moved]
    BY <2>1 DEF Resumes
  <2>3. ReaderAt([o EXCEPT !.moved = o.moved], v)
    BY <1>2, ReaderKept
  <2> QED
    BY <1>2, <2>2, <2>3
<1>3. ASSUME NEW m, p = [o EXCEPT !.moved = m], o # Idle, Noting(o, m, w, v) PROVE ReaderAt(p, v)
  BY <1>3, ReaderKept
<1> QED
  BY <1>1, <1>2, <1>3 DEF Overtaken

LEMMA ReplaysKept ==
    ASSUME Tiered, UNCHANGED job, Resuming, Widens(View, View'), \A r \in Readers : Overtaken(op[r], op'[r], View, View')
    PROVE  Resuming'
<1>1. \A r \in Readers : ReaderAt(op[r], View)
  BY DEF Resuming
<1>2. \A r \in Readers : ReaderAt(op'[r], View')
  BY <1>1, ReplayKept
<1>3. Tiered' = Tiered
  BY DEF Tiered
<1> QED
  BY <1>2, <1>3 DEF Resuming

LEMMA StoreResuming ==
    ASSUME Shape, Grown, Tiered, Resuming, NEW s \in Streams, Store(s, NoTenant)
    PROVE  Resuming'
<1> DEFINE x == [id |-> seq + 1, s |-> s, t |-> NoTenant, from |-> seq + 1]
<1>1. /\ hot' = hot \cup {x} /\ acked' = acked \cup {x} /\ seq' = seq + 1
      /\ UNCHANGED <<job, cold, hotForks, coldForks, op>> /\ x.id = seq + 1 /\ x.s = s
  BY DEF Store
<1> HIDE DEF x
<1>2. seq \in Nat /\ \A y \in acked : y.id \in Nat
  BY DEF Shape, Grown
<1>3. Has(hotForks, x.s, x)
  <2>1. DOMAIN hotForks = Streams /\ IsFiniteSet(DOMAIN hotForks)
    BY GrownFacts
  <2>2. Forked(hotForks, s) => seq + 1 > hotForks[s].at
    BY <1>2 DEF Grown
  <2> QED
    BY <1>1, <2>1, <2>2, HasOwn
<1>4. Widens(View, View')
  BY <1>1, <1>2, <1>3 DEF Widens, View
<1>5. ASSUME NEW r \in Readers PROVE Overtaken(op[r], op'[r], View, View')
  <2>1. op[r] = Idle \/ op[r].moved \in SUBSET Nat
    BY DEF Resuming, ReaderAt, Resumes
  <2> QED
    BY <1>1, <2>1 DEF Overtaken, Noting, View
<1> QED
  BY <1>1, <1>4, <1>5, ReplaysKept

LEMMA CopyResuming ==
    ASSUME Shape, Grown, TierInv, Tiered, Resuming, NEW a \in Archivers, Copy(a)
    PROVE  Resuming'
<1>1. PICK x \in acked :
        /\ cold' = cold \cup {x} /\ UNCHANGED <<job, hot, hotForks, coldForks, seq, old, acked>>
        /\ \A q \in Procs \ {a} : op'[q] = Copied(op[q], x.id)
  BY CopyFacts
<1>2. seq \in Nat /\ \A y \in acked : y.id \in Nat
  BY DEF Shape, Grown
<1>3. Widens(View, View')
  BY <1>1, <1>2 DEF Widens, View
<1>4. ASSUME NEW r \in Readers PROVE Overtaken(op[r], op'[r], View, View')
  <2>1. op[r] = Idle \/ op[r] \in Resumes(acked)
    BY DEF Resuming, ReaderAt, View
  <2>2. op'[r] = Copied(op[r], x.id)
    BY <1>1, Disjoint
  <2>3. CASE op[r].k = "read"
    <3> DEFINE m == op[r].moved \cup {x.id}
    <3>1. op[r].moved \in SUBSET Nat /\ op[r] # Idle
      BY <2>1, <2>3 DEF Resumes, Idle
    <3>2. op'[r] = [op[r] EXCEPT !.moved = m]
      BY <2>2, <2>3 DEF Copied
    <3>3. Noting(op[r], m, View, View')
      BY <1>1, <1>2, <3>1 DEF Noting, View
    <3> HIDE DEF m
    <3> QED
      BY <3>1, <3>2, <3>3 DEF Overtaken
  <2>4. CASE op[r].k # "read"
    <3>1. op[r] = Idle \/ op[r].moved \in SUBSET Nat
      BY <2>1 DEF Resumes
    <3> QED
      BY <1>1, <2>2, <2>4, <3>1 DEF Overtaken, Noting, View, Copied
  <2> QED
    BY <2>3, <2>4
<1> QED
  BY <1>1, <1>3, <1>4, ReplaysKept

LEMMA DeleteResuming ==
    ASSUME Shape, Grown, TierInv, Tiered, Resuming, NEW a \in Archivers, Delete(a)
    PROVE  Resuming'
<1>1. PICK S \in SUBSET hot :
         /\ hot' = hot \ S /\ UNCHANGED <<job, cold, hotForks, coldForks, seq, old, acked>>
         /\ \A q \in Procs \ {a} : op'[q] = Noted(op[q], q, S)
  BY DeleteFacts
<1>2. seq \in Nat /\ hot \subseteq acked /\ \A y \in acked : y.id \in Nat
  BY DEF Shape, Grown
<1>3. Widens(View, View')
  BY <1>1, <1>2 DEF Widens, View
<1>4. ASSUME NEW r \in Readers PROVE Overtaken(op[r], op'[r], View, View')
  <2>1. op[r] = Idle \/ op[r] \in Resumes(acked)
    BY DEF Resuming, ReaderAt, View
  <2>2. op'[r] = Noted(op[r], r, S)
    BY <1>1, Disjoint
  <2>3. CASE Exposed(op[r])
    <3> DEFINE m == op[r].moved \cup Ids(S)
    <3>1. op[r].moved \in SUBSET Nat /\ op[r] # Idle
      BY <2>1, <2>3 DEF Resumes, Idle, Exposed
    <3>2. op'[r] = [op[r] EXCEPT !.moved = m]
      BY <2>2, <2>3 DEF Noted
    <3>3. Noting(op[r], m, View, View')
      BY <1>1, <1>2, <3>1 DEF Noting, View, Ids
    <3> HIDE DEF m
    <3> QED
      BY <3>1, <3>2, <3>3 DEF Overtaken
  <2>4. CASE ~ Exposed(op[r])
    <3>1. op[r] = Idle \/ op[r].moved \in SUBSET Nat
      BY <2>1 DEF Resumes
    <3> QED
      BY <1>1, <2>2, <2>4, <3>1 DEF Overtaken, Noting, View, Noted
  <2> QED
    BY <2>3, <2>4
<1> QED
  BY <1>1, <1>3, <1>4, ReplaysKept

\* A fork, in either store, takes no stored event from a history.
LEMMA LinkKeeps ==
    ASSUME NEW f, NEW g, NEW A, IsFiniteSet(DOMAIN f), DOMAIN g = DOMAIN f,
           \A x \in DOMAIN f : g[x] = f[x] \/ ~ Forked(f, x),
           \A e \in A : e.s \in DOMAIN f /\ (Forked(g, e.s) => e.id > g[e.s].at)
    PROVE  \A s : \A e \in A : Has(f, s, e) => Has(g, s, e)
<1> SUFFICES ASSUME NEW s, NEW e \in A, Has(f, s, e) PROVE Has(g, s, e)
  OBVIOUS
<1>1. s \in DOMAIN f
  <2>1. Depth(f) \in Nat
    BY FS_CardinalityType DEF Depth
  <2>2. Depth(f) \in 0..Depth(f)
    BY <2>1
  <2>3. Heirs(f, e)[Depth(f)] \subseteq DOMAIN f
    BY <2>2, HeirsFacts
  <2> QED
    BY <2>3 DEF Has
<1> QED
  BY <1>1, MoreHeirs

LEMMA ForkResuming ==
    ASSUME Shape, Grown, LateForks, Tiered, Resuming,
           (\E c, p \in Streams, at \in 1..seq : ForkHot(c, p, at)) \/ ForkCold
    PROVE  Resuming'
<1>1. DOMAIN hotForks = Streams /\ IsFiniteSet(Streams) /\ DOMAIN coldForks = Streams
  BY GrownFacts DEF LateForks
<1>2. seq \in Nat /\ \A e \in acked : e.id \in Nat /\ e.s \in Streams /\ (Forked(hotForks, e.s) => e.id > hotForks[e.s].at)
  BY DEF Shape, Grown
<1>3. \A r \in Readers : op[r] = Idle \/ op[r].moved \in SUBSET Nat
  BY DEF Resuming, ReaderAt, Resumes
<1>4. UNCHANGED <<job, hot, cold, seq, acked>> /\ \A r \in Readers : op'[r] = op[r]
  <2>1. UNCHANGED <<job, hot, cold, seq, acked>> /\ \E o : op' = [op EXCEPT !["forker"] = o]
    BY DEF ForkHot, ForkCold, Go
  <2> QED
    BY <2>1, Disjoint DEF Shape
<1>5. /\ \A s : \A e \in acked : Has(hotForks, s, e) => Has(hotForks', s, e)
      /\ \A s : \A e \in acked : Has(coldForks, s, e) => Has(coldForks', s, e)
  <2>1. ASSUME NEW c \in Streams, NEW p \in Streams, NEW at \in 1..seq, ForkHot(c, p, at)
        PROVE  /\ UNCHANGED coldForks
               /\ \A s : \A e \in acked : Has(hotForks, s, e) => Has(hotForks', s, e)
    <3> DEFINE f == hotForks
               g == hotForks'
    <3>1. g = [f EXCEPT ![c] = [p |-> p, at |-> at]] /\ f[c] = Root /\ UNCHANGED coldForks /\ \A e \in acked : e.s # c
      BY <2>1 DEF ForkHot, Forkable
    <3>2. DOMAIN g = DOMAIN f /\ IsFiniteSet(DOMAIN f) /\ DOMAIN f = Streams
      BY <1>1, <3>1
    <3>3. \A x \in DOMAIN f : g[x] = f[x] \/ ~ Forked(f, x)
      BY <3>1, <3>2 DEF Forked, Root
    <3>4. \A e \in acked : e.s \in DOMAIN f /\ (Forked(g, e.s) => e.id > g[e.s].at)
      BY <1>2, <3>1, <3>2 DEF Forked
    <3> HIDE DEF f, g
    <3>5. \A s : \A e \in acked : Has(f, s, e) => Has(g, s, e)
      BY <3>2, <3>3, <3>4, LinkKeeps
    <3> QED
      BY <3>1, <3>5 DEF f, g
  <2>2. CASE ForkCold
    <3> DEFINE f == coldForks
               g == coldForks'
               c == op["forker"].s
    <3>1. g = [f EXCEPT ![c] = hotForks[c]] /\ UNCHANGED hotForks /\ op["forker"].k = "fork"
      BY <2>2 DEF ForkCold
    <3>2. DOMAIN g = DOMAIN f /\ IsFiniteSet(DOMAIN f) /\ DOMAIN f = Streams
      BY <1>1, <3>1
    <3>3. \A x \in Streams : f[x] \in {Root, hotForks[x]} /\ (g[x] = f[x] \/ (x = c /\ g[x] = hotForks[c]))
      BY <3>1, <3>2 DEF LateForks
    <3> HIDE DEF f, g, c
    <3>4. \A x \in DOMAIN f : g[x] = f[x] \/ ~ Forked(f, x)
      BY <3>2, <3>3 DEF Forked, Root
    <3>5. \A e \in acked : e.s \in DOMAIN f /\ (Forked(g, e.s) => e.id > g[e.s].at)
      BY <1>2, <3>2, <3>3 DEF Forked, Root
    <3>6. \A s : \A e \in acked : Has(f, s, e) => Has(g, s, e)
      BY <3>2, <3>4, <3>5, LinkKeeps
    <3> QED
      BY <3>1, <3>6 DEF f, g
  <2> QED
    BY <2>1, <2>2
<1>6. Widens(View, View')
  BY <1>2, <1>4, <1>5 DEF Widens, View
<1>7. \A r \in Readers : Overtaken(op[r], op'[r], View, View')
  BY <1>3, <1>4 DEF Overtaken, Noting, View
<1> QED
  BY <1>4, <1>6, <1>7, ReplaysKept

-----------------------------------------------------------------------------
(* The steps of a replay.                                                  *)

LEMMA GoesOn ==
    ASSUME Shape, Tiered, Resuming, NEW r \in Readers, NEW p, op' = [op EXCEPT ![r] = p],
           UNCHANGED <<job, hot, cold, hotForks, coldForks, seq, old, acked>>, ReaderAt(p, View)
    PROVE  Resuming'
<1>1. op'[r] = p /\ \A q \in Readers \ {r} : op'[q] = op[q]
  BY Disjoint DEF Shape
<1>2. View' = View /\ Tiered' = Tiered
  BY DEF View, Tiered
<1>3. ASSUME NEW q \in Readers PROVE ReaderAt(op'[q], View')
  BY <1>1, <1>2 DEF Resuming
<1> QED
  BY <1>2, <1>3 DEF Resuming

\* What hot has of it.
LEMMA TierFacts ==
    ASSUME Shape, Grown, TierInv, Tiered, Tiering
    PROVE  /\ hot \cup cold = acked /\ Unique(acked) /\ seq \in Nat /\ seq <= Top /\ Top \in Nat
           /\ \A x \in acked : x.id \in 1..seq /\ x.id \in Nat /\ x.s \in Streams
           /\ \A x \in acked, y \in hot : y.id <= x.id => x \in hot
           /\ \A x \in acked, y \in cold : x.id <= y.id => x \in cold
           /\ old \in SUBSET Nat
BY DEF TierInv, Numbered, NothingLost, Tiering, Grown, Shape

LEMMA AskFirstResuming ==
    ASSUME Shape, Grown, TierInv, Tiered, Tiering, Resuming,
           NEW r \in Readers, NEW last \in 0..seq, NEW s \in Streams \cup {Nobody}, AskFirst(r, last, s)
    PROVE  Resuming'
<1> DEFINE p == [k |-> "ask", last |-> last, s |-> s, has |-> Found("hot", last), tier |-> "hot", segs |-> <<>>,
                 from |-> last, cut |-> {}, out |-> <<>>, moved |-> {}, must |-> Wanted(last, s)]
           f == IF last \in Ids(hot) THEN hotForks ELSE coldForks
<1>1. op' = [op EXCEPT ![r] = p] /\ UNCHANGED <<job, hot, cold, hotForks, coldForks, seq, old, acked>>
  BY DEF AskFirst, Go, Lookups
<1>2. /\ p.k = "ask" /\ p.last = last /\ p.s = s /\ p.has = Found("hot", last) /\ p.tier = "hot" /\ p.segs = <<>>
      /\ p.from = last /\ p.cut = {} /\ p.out = <<>> /\ p.moved = {} /\ p.must = Wanted(last, s)
  OBVIOUS
<1>3. Found("hot", last) = IF last \in Ids(hot) THEN {"hot"} ELSE {}
  BY DEF Found, Tier
<1>4. last \in Nat /\ seq \in Nat
  BY DEF Shape
<1>5. ASSUME NEW i \in Wanted(last, s)
      PROVE  \E e \in acked : e.id = i /\ i > last /\ last \in Ids(acked) /\ Belongs(f, p, e, acked)
  <2> DEFINE past == IF s = Nobody THEN {x \in acked : \E y \in acked : y.id = last /\ x.s = y.s} ELSE History(f, s, acked)
  <2>1. hot \cup cold = acked
    BY TierFacts
  <2>2. Wanted(last, s) = IF last \in Ids(acked) THEN Ids({x \in past : x.id > last}) ELSE {}
    BY <2>1 DEF Wanted
  <2> HIDE DEF past
  <2>3. last \in Ids(acked) /\ i \in Ids({x \in past : x.id > last})
    BY <1>5, <2>2
  <2>4. PICK e \in past : e.id = i /\ e.id > last
    BY <2>3 DEF Ids
  <2> HIDE DEF f
  <2>5. e \in acked /\ Belongs(f, p, e, acked)
    <3>1. CASE s = Nobody
      BY <2>4, <3>1 DEF past, Belongs
    <3>2. CASE s # Nobody
      BY <2>4, <3>2 DEF past, Belongs, History, Has
    <3> QED
      BY <3>1, <3>2
  <2> QED
    BY <2>3, <2>4, <2>5
<1> HIDE DEF p, f
<1>6. ASSUME NEW e \in acked, e.id > last, last \in Ids(acked), Belongs(f, p, e, acked) PROVE Pending(p, e, View)
  <2>1. CASE last \in Ids(hot)
    <3>1. e \in hot
      BY <1>4, <1>6, <2>1, TierFacts DEF Ids
    <3> QED
      BY <1>2, <1>3, <1>6, <2>1, <3>1 DEF Pending, Asking, View, f
  <2>2. CASE last \notin Ids(hot)
    <3>1. last \in Ids(cold)
      BY <1>6, <2>2, TierFacts DEF Ids
    <3> QED
      BY <1>2, <1>3, <1>6, <2>2, <3>1 DEF Pending, Asking, View, f
  <2> QED
    BY <2>1, <2>2
<1>7. Complete(p, View)
  BY <1>2, <1>5, <1>6 DEF Complete, View
<1>8. Sound(p, View)
  BY <1>2 DEF Sound
<1>9. AtStage(p, View)
  BY <1>2, <1>3, <1>4 DEF AtStage, Asking, View, Unresolved
<1>10. p \in Resumes(acked)
  <2>1. Wanted(last, s) \in SUBSET Nat
    <3>1. \A i \in Wanted(last, s) : i \in Nat
      BY <1>5, TierFacts
    <3> QED
      BY <3>1
  <2>2. <<>> \in Seq(Pieces) /\ <<>> \in Seq(acked)
    OBVIOUS
  <2> QED
    BY <1>3, <1>4, <2>1, <2>2 DEF Resumes, p
<1>11. ReaderAt(p, View)
  BY <1>7, <1>8, <1>9, <1>10 DEF ReaderAt, View
<1> QED
  BY <1>1, <1>11, GoesOn

LEMMA AskSecondResuming ==
    ASSUME Shape, Grown, TierInv, Tiered, Tiering, Resuming, NEW r \in Readers, AskSecond(r)
    PROVE  Resuming'
<1> DEFINE o == op[r]
           has == o.has \cup Found("cold", o.last)
           k == IF "hot" \in has THEN "hot" ELSE IF "cold" \in has THEN "cold" ELSE "done"
           p == [o EXCEPT !.has = has, !.k = k]
<1>1. o.k = "ask" /\ op' = [op EXCEPT ![r] = p] /\ UNCHANGED <<job, hot, cold, hotForks, coldForks, seq, old, acked>>
  BY DEF AskSecond, Go, Lookups
<1>2. o \in Resumes(acked) /\ Complete(o, View) /\ Sound(o, View) /\ AtStage(o, View)
  BY <1>1 DEF Resuming, ReaderAt, Idle, View
<1>3. Found("cold", o.last) = IF o.last \in Ids(cold) THEN {"cold"} ELSE {}
  BY DEF Found, Tier
<1> HIDE DEF o
<1>4. /\ p.k = k /\ p.last = o.last /\ p.s = o.s /\ p.has = has /\ p.tier = o.tier /\ p.segs = o.segs
      /\ p.from = o.from /\ p.cut = o.cut /\ p.out = o.out /\ p.moved = o.moved /\ p.must = o.must
  BY <1>2 DEF Resumes
<1>5. has \in SUBSET {"hot", "cold"} /\ ("hot" \in has <=> "hot" \in o.has) /\ (o.last \in Ids(cold) => "cold" \in has)
  BY <1>2, <1>3 DEF Resumes
<1>6. k \in {"hot", "cold", "done"} /\ (k = "hot" <=> "hot" \in has) /\ (k = "cold" => "hot" \notin has)
      /\ ("cold" \in has => k \in {"hot", "cold"})
  OBVIOUS
<1>7. p \in Resumes(acked)
  BY <1>2, <1>5 DEF Resumes
<1> HIDE DEF has, k, p
<1>8. ASSUME NEW e, Got(o, e) \/ Pending(o, e, View) PROVE Got(p, e) \/ Pending(p, e, View)
  <2>1. Got(o, e) => Got(p, e)
    BY <1>4 DEF Got
  <2>2. \A f, A : Belongs(f, o, e, A) => Belongs(f, p, e, A)
    BY <1>4 DEF Belongs
  <2>3. CASE Asking(o) /\ "hot" \in o.has /\ e \in View.hot /\ Belongs(View.hotForks, o, e, View.acked)
    BY <1>4, <1>5, <1>6, <2>2, <2>3 DEF Pending, Asking
  <2>4. CASE Asking(o) /\ "hot" \notin o.has /\ o.last \in Ids(View.cold) /\ Belongs(View.coldForks, o, e, View.acked)
    <3>1. o.last \in Ids(cold)
      BY <2>4 DEF View
    <3> QED
      BY <1>4, <1>5, <1>6, <2>2, <2>4, <3>1 DEF Pending, Asking
  <2> QED
    BY <1>1, <1>8, <2>1, <2>3, <2>4 DEF Pending, Unresolved
<1>9. Complete(p, View)
  BY <1>2, <1>4, <1>8 DEF Complete
<1>10. Sound(p, View)
  BY <1>2, <1>4 DEF Sound
<1>11. AtStage(p, View)
  BY <1>1, <1>2, <1>4, <1>5, <1>6 DEF AtStage, Asking, Unresolved
<1>12. ReaderAt(p, View)
  BY <1>7, <1>9, <1>10, <1>11 DEF ReaderAt, View
<1> QED
  BY <1>1, <1>12, GoesOn

LEMMA AnsweredResuming ==
    ASSUME Shape, Tiered, Resuming, NEW r \in Readers, Answered(r)
    PROVE  Resuming'
<1>1. op' = [op EXCEPT ![r] = Idle] /\ UNCHANGED <<job, hot, cold, hotForks, coldForks, seq, old, acked>>
  BY DEF Answered, Go
<1>2. ReaderAt(Idle, View)
  BY DEF ReaderAt
<1> QED
  BY <1>1, <1>2, GoesOn

\* The segments by the forks of either tier.
LEMMA SegmentsOf ==
    ASSUME Shape, Grown, NEW f, DOMAIN f = Streams, \A x \in Streams : f[x] \in {Root, hotForks[x]}, NEW s \in Streams
    PROVE  /\ Segments(f, s, Top) \in Seq(Pieces) /\ Len(Segments(f, s, Top)) \in Nat \ {0}
           /\ Successive(Segments(f, s, Top))
           /\ \A g \in 1..Len(Segments(f, s, Top)) : Segments(f, s, Top)[g].s = s \/ Segments(f, s, Top)[g].max <= seq
           /\ \A e \in acked : WithinSome(Segments(f, s, Top), e) <=> Has(f, s, e)
           /\ \A e \in acked : /\ Has(f, s, e) => Has(hotForks, s, e)
                               /\ Has(f, e.s, e)
<1> DEFINE segs == Segments(f, s, Top)
<1>1. /\ DOMAIN hotForks = Streams /\ IsFiniteSet(DOMAIN hotForks) /\ NestedUpTo(hotForks, Top) /\ Events(hotForks, acked)
  BY GrownFacts
<1>2. seq \in Nat /\ Top \in Nat /\ seq <= Top /\ \A e \in acked : e.id \in 1..seq /\ e.id \in Nat /\ e.s \in Streams
  BY DEF Grown, Shape
<1>3. \A x \in Streams : Forked(f, x) => f[x] = hotForks[x] /\ Forked(hotForks, x)
  BY DEF Forked, Root
<1>4. IsFiniteSet(DOMAIN f) /\ NestedUpTo(f, Top) /\ Events(f, acked)
  BY <1>1, <1>3 DEF NestedUpTo, Events
<1>5. ReadsUpTo(f, segs, Depth(f), s, Top, acked)
  BY <1>2, <1>4, SegmentsFacts
<1>6. segs \in Seq(Pieces) /\ Len(segs) \in Nat \ {0} /\ Successive(segs)
  BY <1>5 DEF ReadsUpTo, Piece, Pieces
<1>7. ASSUME NEW g \in 1..Len(segs) PROVE segs[g].s = s \/ segs[g].max <= seq
  <2>1. CASE segs[g].s = s
    BY <2>1
  <2>2. ASSUME NEW y \in Streams, Forked(f, y), segs[g].max <= f[y].at PROVE segs[g].max <= seq
    <3>1. f[y].at \in 1..seq
      BY <1>3, <2>2 DEF Grown
    <3>2. segs[g] \in Pieces
      BY <1>6, LenProperties
    <3>3. segs[g].max \in Nat
      BY <3>2 DEF Pieces
    <3> QED
      BY <1>2, <2>2, <3>1, <3>3
  <2>3. Ends(f, s, segs[g])
    BY <1>5 DEF ReadsUpTo
  <2> QED
    BY <2>1, <2>2, <2>3 DEF Ends
<1>8. ASSUME NEW e \in acked PROVE WithinSome(segs, e) <=> Has(f, s, e)
  <2>1. WithinSome(segs, e) <=> e.id <= Top /\ s \in Heirs(f, e)[Depth(f)]
    BY <1>5 DEF ReadsUpTo
  <2>2. e.id <= Top
    BY <1>2
  <2> QED
    BY <2>1, <2>2 DEF Has
<1>9. \A e \in acked : Has(f, s, e) => Has(hotForks, s, e)
  <2>1. \A x \in DOMAIN f : hotForks[x] = f[x] \/ ~ Forked(f, x)
    BY <1>3
  <2>2. \A e \in acked : e.s \in DOMAIN f /\ (Forked(hotForks, e.s) => e.id > hotForks[e.s].at)
    BY <1>2 DEF Grown
  <2> QED
    BY <1>1, <1>4, <2>1, <2>2, LinkKeeps
<1>10. ASSUME NEW e \in acked PROVE Has(f, e.s, e)
  <2>1. Forked(f, e.s) => e.id > f[e.s].at
    BY <1>2, <1>3 DEF Grown
  <2> QED
    BY <1>2, <1>4, <2>1, HasOwn
<1> HIDE DEF segs
<1>11. /\ segs \in Seq(Pieces) /\ Len(segs) \in Nat \ {0} /\ Successive(segs)
       /\ \A g \in 1..Len(segs) : segs[g].s = s \/ segs[g].max <= seq
       /\ \A e \in acked : WithinSome(segs, e) <=> Has(f, s, e)
       /\ \A e \in acked : /\ Has(f, s, e) => Has(hotForks, s, e)
                           /\ Has(f, e.s, e)
  BY <1>6, <1>7, <1>8, <1>9, <1>10
<1> QED
  BY <1>11 DEF segs

\* A replay that begins to read.
LEMMA StartsReading ==
    ASSUME Shape, Grown, NEW f, DOMAIN f = Streams, \A x \in Streams : f[x] \in {Root, hotForks[x]},
           NEW o \in Resumes(acked), o.k = "hot" \/ o.k = "cold", Complete(o, View), AtStage(o, View),
           NEW tier \in {"hot", "cold"}, NEW s \in Streams, NEW cut \in SUBSET Nat,
           IF o.s = Nobody THEN \E x \in acked : x.id = o.last /\ x.s = s ELSE o.s = s,
           tier = o.k, f = (IF tier = "hot" THEN hotForks ELSE coldForks), tier = "cold" => cut = {},
           \A e \in acked : Pending(o, e, View) => Belongs(f, o, e, acked) /\ (tier = "hot" => e \in hot)
    PROVE  ReaderAt([o EXCEPT !.k = "read", !.tier = tier, !.s = s, !.segs = Segments(f, s, Top), !.cut = cut], View)
<1> DEFINE segs == Segments(f, s, Top)
           p == [o EXCEPT !.k = "read", !.tier = tier, !.s = s, !.segs = segs, !.cut = cut]
<1>1. /\ segs \in Seq(Pieces) /\ Len(segs) \in Nat \ {0} /\ Successive(segs)
      /\ \A g \in 1..Len(segs) : segs[g].s = s \/ segs[g].max <= seq
      /\ \A e \in acked : WithinSome(segs, e) <=> Has(f, s, e)
      /\ \A e \in acked : /\ Has(f, s, e) => Has(hotForks, s, e)
                          /\ Has(f, e.s, e)
  BY SegmentsOf
<1> HIDE DEF segs
<1>2. p \in Resumes(acked)
  BY <1>1 DEF Resumes
<1>3. /\ p.k = "read" /\ p.last = o.last /\ p.s = s /\ p.has = o.has /\ p.tier = tier /\ p.segs = segs
      /\ p.from = o.from /\ p.cut = cut /\ p.out = o.out /\ p.moved = o.moved /\ p.must = o.must
  BY DEF Resumes
<1> HIDE DEF p
<1>4. o.out = <<>> /\ Len(o.out) = 0 /\ o.cut = {} /\ o.from = o.last /\ o.last \in Nat
  BY DEF AtStage, Asking, Resumes
<1>5. Unique(acked) /\ \A e \in acked : e.id \in Nat
  BY DEF Grown, Shape
<1>6. ASSUME NEW e \in acked, e.id > o.last, Got(o, e) \/ Pending(o, e, View) PROVE Got(p, e) \/ Pending(p, e, View)
  <2>1. CASE Got(o, e)
    BY <1>3, <1>4, <2>1 DEF Got
  <2>2. CASE Pending(o, e, View)
    <3>1. Has(f, s, e)
      <4>1. CASE o.s = Nobody
        <5>1. \E y \in acked : y.id = o.last /\ y.s = e.s
          BY <2>2, <4>1 DEF Belongs
        <5>2. e.s = s
          BY <1>5, <4>1, <5>1 DEF Unique
        <5> QED
          BY <1>1, <5>2
      <4>2. CASE o.s # Nobody
        BY <2>2, <4>2 DEF Belongs
      <4> QED
        BY <4>1, <4>2
    <3>2. WithinSome(segs, e) /\ Has(hotForks, s, e)
      BY <1>1, <3>1
    <3>3. CASE tier = "hot"
      BY <1>3, <1>4, <1>6, <2>2, <3>2, <3>3 DEF Pending, View
    <3>4. CASE tier = "cold"
      BY <1>3, <3>2, <3>4 DEF Pending, View
    <3> QED
      BY <3>3, <3>4
  <2> QED
    BY <1>6, <2>1, <2>2
<1>7. Complete(p, View)
  BY <1>3, <1>6 DEF Complete, View
<1>8. Sound(p, View)
  BY <1>3, <1>4 DEF Sound
<1>9. Onward(p, View)
  BY <1>1, <1>3, <1>4 DEF Onward, View
<1>10. AtStage(p, View)
  BY <1>3, <1>4, <1>9 DEF AtStage, Asking, View, Unresolved
<1>11. ReaderAt(p, View)
  BY <1>2, <1>7, <1>8, <1>10 DEF ReaderAt, View
<1> QED
  BY <1>11 DEF p, segs

LEMMA ReplayHotResuming ==
    ASSUME Shape, Grown, TierInv, Tiered, Tiering, Resuming, NEW r \in Readers, ReplayHot(r)
    PROVE  Resuming'
<1> DEFINE o == op[r]
           s == CHOOSE x \in StreamsOf(o, hot) : TRUE
           q == [o EXCEPT !.k = "read", !.s = s, !.segs = Segments(hotForks, s, Top), !.cut = old]
           p == IF StreamsOf(o, hot) = {} THEN [o EXCEPT !.k = "done"] ELSE q
<1>1. o.k = "hot" /\ op' = [op EXCEPT ![r] = p] /\ UNCHANGED <<job, hot, cold, hotForks, coldForks, seq, old, acked>>
  BY DEF ReplayHot, Go
<1>2. o \in Resumes(acked) /\ Complete(o, View) /\ Sound(o, View) /\ AtStage(o, View)
  BY <1>1 DEF Resuming, ReaderAt, Idle, View
<1>3. "hot" \in o.has /\ o.out = <<>> /\ o.tier = "hot" /\ (o.last \in Ids(hot) \/ o.last \in o.moved)
  BY <1>1, <1>2 DEF AtStage, Asking, View
<1>4. StreamsOf(o, hot) = IF o.s # Nobody THEN {o.s} ELSE {x.s : x \in {y \in hot : y.id = o.last}}
  BY DEF StreamsOf
<1>5. \A x \in acked : x.s \in Streams
  BY DEF Grown
<1>6. hot \subseteq acked /\ old \in SUBSET Nat
  BY TierFacts
<1> HIDE DEF o
<1>7. CASE StreamsOf(o, hot) = {}
  <2> DEFINE d == [o EXCEPT !.k = "done"]
  <2>1. /\ d.k = "done" /\ d.last = o.last /\ d.s = o.s /\ d.has = o.has /\ d.tier = o.tier /\ d.segs = o.segs
        /\ d.from = o.from /\ d.cut = o.cut /\ d.out = o.out /\ d.moved = o.moved /\ d.must = o.must
        /\ d \in Resumes(acked)
    BY <1>2 DEF Resumes
  <2>2. p = d
    BY <1>7
  <2> HIDE DEF d, p
  <2>3. o.last \in o.moved
    BY <1>3, <1>4, <1>7 DEF Ids
  <2>9. o.s = Nobody
    BY <1>4, <1>7
  <2>4. \A e : Pending(d, e, View)
    BY <1>3, <2>1, <2>9 DEF Pending, Unresolved
  <2>5. Complete(d, View)
    BY <1>2, <2>1, <2>4 DEF Complete
  <2>6. Sound(d, View)
    BY <1>2, <2>1 DEF Sound
  <2>7. AtStage(d, View)
    BY <1>1, <1>2, <1>3, <2>1, <2>3 DEF AtStage, Asking, Unresolved
  <2>8. ReaderAt(p, View)
    BY <2>1, <2>2, <2>5, <2>6, <2>7 DEF ReaderAt, View
  <2> QED
    BY <1>1, <2>8, GoesOn
<1>8. CASE StreamsOf(o, hot) # {}
  <2>1. s \in StreamsOf(o, hot)
    BY <1>8
  <2>2. p = q
    BY <1>8
  <2>3. q = [o EXCEPT !.k = "read", !.tier = "hot", !.s = s, !.segs = Segments(hotForks, s, Top), !.cut = old]
    BY <1>2, <1>3 DEF Resumes
  <2> HIDE DEF s, p, q
  <2>4. IF o.s = Nobody THEN \E x \in acked : x.id = o.last /\ x.s = s ELSE o.s = s
    BY <1>4, <1>6, <2>1
  <2>5. s \in Streams
    BY <1>2, <1>5, <2>4 DEF Resumes
  <2>6. ASSUME NEW e \in acked, Pending(o, e, View) PROVE Belongs(hotForks, o, e, acked) /\ e \in hot
    BY <1>1, <1>3, <2>6 DEF Pending, Asking, View, Unresolved
  <2>7. DOMAIN hotForks = Streams /\ \A x \in Streams : hotForks[x] \in {Root, hotForks[x]}
    BY GrownFacts
  <2> DEFINE f == hotForks
             tier == "hot"
  <2>8. /\ DOMAIN f = Streams /\ \A x \in Streams : f[x] \in {Root, hotForks[x]}
        /\ tier \in {"hot", "cold"} /\ tier = o.k /\ f = (IF tier = "hot" THEN hotForks ELSE coldForks) /\ (tier = "cold" => old = {})
        /\ \A e \in acked : Pending(o, e, View) => Belongs(f, o, e, acked) /\ (tier = "hot" => e \in hot)
    BY <1>1, <2>6, <2>7
  <2>9. o.k = "hot" \/ o.k = "cold"
    BY <1>1
  <2> HIDE DEF f, tier
  <2>10. ReaderAt([o EXCEPT !.k = "read", !.tier = tier, !.s = s, !.segs = Segments(f, s, Top), !.cut = old], View)
    BY <1>2, <1>6, <2>4, <2>5, <2>8, <2>9, StartsReading
  <2>11. ReaderAt(p, View)
    BY <2>2, <2>3, <2>10 DEF f, tier
  <2> QED
    BY <1>1, <2>11, GoesOn
<1> QED
  BY <1>7, <1>8

LEMMA ReplayColdResuming ==
    ASSUME Shape, Grown, LateForks, TierInv, Tiered, Tiering, Resuming, NEW r \in Readers, ReplayCold(r)
    PROVE  Resuming'
<1> DEFINE o == op[r]
<1>1. PICK s \in StreamsOf(o, cold) :
        op' = [op EXCEPT ![r] = [o EXCEPT !.k = "read", !.tier = "cold", !.s = s, !.segs = Segments(coldForks, s, Top)]]
  BY DEF ReplayCold, Go
<1> DEFINE p == [o EXCEPT !.k = "read", !.tier = "cold", !.s = s, !.segs = Segments(coldForks, s, Top)]
<1>2. o.k = "cold" /\ UNCHANGED <<job, hot, cold, hotForks, coldForks, seq, old, acked>>
  BY DEF ReplayCold
<1>3. o \in Resumes(acked) /\ Complete(o, View) /\ AtStage(o, View)
  BY <1>2 DEF Resuming, ReaderAt, Idle, View
<1>4. "hot" \notin o.has /\ o.cut = {}
  BY <1>2, <1>3 DEF AtStage, Asking
<1>5. op' = [op EXCEPT ![r] = p]
  BY <1>1
<1>6. cold \subseteq acked /\ \A x \in acked : x.s \in Streams
  BY TierFacts
<1>7. IF o.s = Nobody THEN \E x \in acked : x.id = o.last /\ x.s = s ELSE o.s = s
  BY <1>1, <1>6 DEF StreamsOf
<1> HIDE DEF o
<1>8. s \in Streams
  BY <1>3, <1>6, <1>7 DEF Resumes
<1> DEFINE f == coldForks
           tier == "cold"
           cut == {}
<1>9. ASSUME NEW e \in acked, Pending(o, e, View) PROVE Belongs(f, o, e, acked)
  BY <1>2, <1>4, <1>9 DEF Pending, Asking, View, Unresolved
<1>10. /\ DOMAIN f = Streams /\ \A x \in Streams : f[x] \in {Root, hotForks[x]}
       /\ tier \in {"hot", "cold"} /\ tier = o.k /\ f = (IF tier = "hot" THEN hotForks ELSE coldForks) /\ tier # "hot"
       /\ cut \in SUBSET Nat /\ cut = {}
  BY <1>2 DEF LateForks
<1>11. o.k = "hot" \/ o.k = "cold"
  BY <1>2
<1>12. p = [o EXCEPT !.k = "read", !.tier = tier, !.s = s, !.segs = Segments(f, s, Top), !.cut = cut]
  BY <1>3, <1>4 DEF Resumes
<1> HIDE DEF f, tier, cut, p
<1>13. \A e \in acked : Pending(o, e, View) => Belongs(f, o, e, acked) /\ (tier = "hot" => e \in hot)
  BY <1>9, <1>10
<1>14. ReaderAt([o EXCEPT !.k = "read", !.tier = tier, !.s = s, !.segs = Segments(f, s, Top), !.cut = cut], View)
  BY <1>3, <1>7, <1>8, <1>10, <1>11, <1>13, StartsReading
<1>15. ReaderAt(p, View)
  BY <1>12, <1>14
<1> QED
  BY <1>2, <1>5, <1>15, GoesOn

LEMMA WalkResuming ==
    ASSUME Shape, Grown, TierInv, Tiered, Tiering, Resuming, NEW r \in Readers, Walk(r)
    PROVE  Resuming'
<1> DEFINE o == op[r]
           segs == Segments(hotForks, o.s, Top)
           from == IF o.out = <<>> THEN o.last ELSE o.out[Len(o.out)].id
           p == [o EXCEPT !.k = "read", !.tier = "rest", !.segs = segs, !.from = from]
<1>1. o.k = "walk" /\ op' = [op EXCEPT ![r] = p] /\ UNCHANGED <<job, hot, cold, hotForks, coldForks, seq, old, acked>>
  BY DEF Walk, Go
<1>2. o \in Resumes(acked) /\ Complete(o, View) /\ Sound(o, View) /\ AtStage(o, View)
  BY <1>1 DEF Resuming, ReaderAt, Idle, View
<1>3. o.s \in Streams /\ o.tier = "cold" /\ o.cut = {}
  BY <1>1, <1>2 DEF AtStage
<1> HIDE DEF o
<1>4. /\ segs \in Seq(Pieces) /\ Len(segs) \in Nat \ {0} /\ Successive(segs)
      /\ \A g \in 1..Len(segs) : segs[g].s = o.s \/ segs[g].max <= seq
      /\ \A e \in acked : WithinSome(segs, e) <=> Has(hotForks, o.s, e)
  <2>1. DOMAIN hotForks = Streams /\ \A x \in Streams : hotForks[x] \in {Root, hotForks[x]}
    BY GrownFacts
  <2> QED
    BY <1>3, <2>1, SegmentsOf
<1>5. /\ o.out \in Seq(acked) /\ Len(o.out) \in Nat /\ (o.out # <<>> => Len(o.out) # 0) /\ o.last \in Nat
      /\ \A j \in 1..Len(o.out) : o.out[j] \in acked /\ o.out[j].id \in Nat
  <2>1. o.out \in Seq(acked) /\ o.last \in Nat
    BY <1>2 DEF Resumes
  <2>2. Len(o.out) \in Nat /\ \A j \in 1..Len(o.out) : o.out[j] \in acked
    BY <2>1, LenProperties
  <2>3. o.out # <<>> => Len(o.out) # 0
    BY <2>1, EmptySeq
  <2> QED
    BY <2>1, <2>2, <2>3, TierFacts
<1>6. from \in Nat /\ o.last <= from /\ \A j \in 1..Len(o.out) : o.out[j].id <= from
  <2>1. CASE o.out = <<>>
    BY <1>5, <2>1
  <2>2. CASE o.out # <<>>
    <3>1. from = o.out[Len(o.out)].id /\ Len(o.out) \in 1..Len(o.out)
      BY <1>5, <2>2
    <3> HIDE DEF from
    <3>2. o.out[Len(o.out)].id > o.last
      BY <1>2, <3>1 DEF Sound
    <3>3. ASSUME NEW j \in 1..Len(o.out) PROVE o.out[j].id <= from
      <4>1. j = Len(o.out) \/ j < Len(o.out)
        BY <1>5
      <4> QED
        BY <1>2, <1>5, <3>1, <4>1 DEF Sound
    <3> QED
      BY <1>5, <3>1, <3>2, <3>3
  <2> QED
    BY <2>1, <2>2
<1>7. ASSUME NEW e, e.id > o.last, \A j \in 1..Len(o.out) : o.out[j].id < e.id PROVE e.id > from
  <2>1. CASE o.out = <<>>
    BY <1>7, <2>1
  <2>2. CASE o.out # <<>>
    BY <1>5, <1>7, <2>2
  <2> QED
    BY <2>1, <2>2
<1> HIDE DEF segs, from
<1>8. p \in Resumes(acked)
  BY <1>2, <1>4, <1>6 DEF Resumes
<1>9. /\ p.k = "read" /\ p.last = o.last /\ p.s = o.s /\ p.has = o.has /\ p.tier = "rest" /\ p.segs = segs
      /\ p.from = from /\ p.cut = o.cut /\ p.out = o.out /\ p.moved = o.moved /\ p.must = o.must
  BY <1>2 DEF Resumes
<1> HIDE DEF p
<1>10. ASSUME NEW e \in acked, e.id > o.last, Got(o, e) \/ Pending(o, e, View) PROVE Got(p, e) \/ Pending(p, e, View)
  <2>1. CASE Got(o, e)
    BY <1>9, <2>1 DEF Got
  <2>2. CASE Pending(o, e, View)
    <3>1. Has(hotForks, o.s, e) /\ e \in hot /\ \A j \in 1..Len(o.out) : o.out[j].id < e.id
      BY <1>1, <2>2 DEF Pending, View, Asking, Unresolved
    <3>2. WithinSome(segs, e) /\ e.id > from
      BY <1>4, <1>7, <1>10, <3>1
    <3> QED
      BY <1>9, <3>1, <3>2 DEF Pending, View
  <2> QED
    BY <1>10, <2>1, <2>2
<1>11. Complete(p, View)
  BY <1>2, <1>9, <1>10 DEF Complete, View
<1>12. Sound(p, View)
  BY <1>2, <1>9 DEF Sound
<1>13. Onward(p, View)
  BY <1>3, <1>4, <1>6, <1>9 DEF Onward, View
<1>14. AtStage(p, View)
  BY <1>3, <1>6, <1>9, <1>13 DEF AtStage, Asking, View, Unresolved
<1>15. ReaderAt(p, View)
  BY <1>8, <1>11, <1>12, <1>14 DEF ReaderAt, View
<1> QED
  BY <1>1, <1>15, GoesOn

\* What tier T has of segment g, and the same in the order of the ids.
RowsOf(S, T, g, from, cut) ==
    /\ \A x \in S : x \in T /\ Within(g, x) /\ x.id > from
    /\ \A x \in T : Within(g, x) /\ x.id > from /\ x.id \notin cut => x \in S
ReadFrom(ev, T, g, from, cut) ==
    /\ Len(ev) \in Nat
    /\ \A i \in 1..Len(ev) : ev[i] \in T /\ Within(g, ev[i]) /\ ev[i].id > from
    /\ \A i, j \in 1..Len(ev) : i < j => ev[i].id < ev[j].id
    /\ \A x \in T : Within(g, x) /\ x.id > from /\ x.id \notin cut => \E i \in 1..Len(ev) : ev[i].id = x.id
LEMMA SegmentRead ==
    ASSUME Grown, Shape, NEW T \in SUBSET acked, NEW g, NEW from, NEW cut, NEW S, RowsOf(S, T, g, from, cut)
    PROVE  Sorted(S) \in Seq(acked) /\ ReadFrom(Sorted(S), T, g, from, cut)
<1>1. seq \in Nat /\ \A x \in acked : x.id \in 1..seq
  BY DEF Grown, Shape
<1>2. S \in SUBSET acked /\ \A x \in S : x.id \in 1..seq
  BY <1>1 DEF RowsOf
<1> DEFINE ev == Sorted(S)
<1>3. /\ ev \in Seq(acked) /\ Len(ev) \in Nat
      /\ \A i \in 1..Len(ev) : ev[i] \in S
      /\ \A i, j \in 1..Len(ev) : i < j => ev[i].id < ev[j].id
      /\ \A x \in S : \E i \in 1..Len(ev) : ev[i].id = x.id
  BY <1>1, <1>2, SortedFacts
<1> HIDE DEF ev
<1>4. ReadFrom(ev, T, g, from, cut)
  BY <1>3 DEF RowsOf, ReadFrom
<1> QED
  BY <1>3, <1>4 DEF ev

LEMMA ReadSegmentResuming ==
    ASSUME Shape, Grown, TierInv, Tiered, Tiering, Resuming, NEW r \in Readers, ReadSegment(r)
    PROVE  Resuming'
<1> DEFINE o == op[r]
           segs == o.segs
           g == Head(segs)
           rest == Tail(segs)
           S == {x \in Tier(o.tier) : x.s = g.s /\ x.id > g.min /\ x.id <= g.max /\ x.id > o.from /\ x.id \notin o.cut}
           ev == Sorted(S)
           out == o.out
           sent == out \o ev
           k == IF Len(segs) = 1 THEN (IF o.tier = "cold" THEN "walk" ELSE "done") ELSE "read"
           p == [o EXCEPT !.out = sent, !.segs = rest, !.k = k]
<1>1. o.k = "read" /\ op' = [op EXCEPT ![r] = p] /\ UNCHANGED <<job, hot, cold, hotForks, coldForks, seq, old, acked>>
  BY DEF ReadSegment, Go
<1>2. o \in Resumes(acked) /\ Complete(o, View) /\ Sound(o, View) /\ AtStage(o, View) /\ Onward(o, View)
  BY <1>1 DEF Resuming, ReaderAt, Idle, View, AtStage
<1>3. /\ ev \in Seq(acked) /\ Len(ev) \in Nat
      /\ \A i \in 1..Len(ev) : ev[i] \in acked /\ ev[i] \in Tier(o.tier) /\ Within(g, ev[i]) /\ ev[i].id > o.from
      /\ \A i, j \in 1..Len(ev) : i < j => ev[i].id < ev[j].id
      /\ \A x \in Tier(o.tier) : Within(g, x) /\ x.id > o.from /\ x.id \notin o.cut => \E i \in 1..Len(ev) : ev[i].id = x.id
  <2>1. RowsOf(S, Tier(o.tier), g, o.from, o.cut)
    BY DEF RowsOf, Within
  <2>2. Tier(o.tier) \in SUBSET acked
    BY TierFacts DEF Tier
  <2> HIDE DEF S, g, o
  <2>3. ev \in Seq(acked) /\ ReadFrom(ev, Tier(o.tier), g, o.from, o.cut)
    BY <2>1, <2>2, SegmentRead
  <2> QED
    BY <2>2, <2>3 DEF ReadFrom
<1> HIDE DEF o, S, ev
<1>4. /\ segs \in Seq(Pieces) /\ g = segs[1] /\ g \in Pieces /\ rest \in Seq(Pieces) /\ Len(segs) \in Nat \ {0}
      /\ 1 \in 1..Len(segs) /\ Len(rest) = Len(segs) - 1
      /\ \A i \in 1..Len(rest) : i + 1 \in 1..Len(segs) /\ rest[i] = segs[i + 1]
      /\ \A i \in 1..Len(segs) : i = 1 \/ (i - 1 \in 1..Len(rest) /\ rest[i - 1] = segs[i])
  <2>1. segs \in Seq(Pieces) /\ Len(segs) # 0
    BY <1>2 DEF Resumes, Onward
  <2> HIDE DEF segs
  <2>2. segs # <<>>
    BY <2>1
  <2>3. Len(segs) \in Nat \ {0}
    BY <2>1, <2>2, TailFacts
  <2> QED
    BY <2>1, <2>2, <2>3, TailFacts DEF g, rest
<1>5. /\ out \in Seq(acked) /\ \A j \in 1..Len(out) : out[j] \in acked
      /\ sent \in Seq(acked) /\ Len(out) \in Nat /\ Len(ev) \in Nat
      /\ \A i \in 1..Len(sent) : \/ i \in 1..Len(out) /\ sent[i] = out[i]
                                 \/ i - Len(out) \in 1..Len(ev) /\ sent[i] = ev[i - Len(out)] /\ i > Len(out)
      /\ \A i \in 1..Len(out) : i \in 1..Len(sent) /\ sent[i] = out[i]
      /\ \A i \in 1..Len(ev) : Len(out) + i \in 1..Len(sent) /\ sent[Len(out) + i] = ev[i]
  <2>1. out \in Seq(acked)
    BY <1>2 DEF Resumes
  <2>2. \A j \in 1..Len(out) : out[j] \in acked
    BY <2>1, LenProperties
  <2> HIDE DEF out
  <2> QED
    BY <1>3, <2>1, <2>2, JoinFacts
<1>6. /\ \A e \in acked : e.id \in Nat
      /\ hot \cup cold = acked /\ \A x \in acked, y \in cold : x.id <= y.id => x \in cold
  BY TierFacts
<1>7. o.last \in Nat /\ o.from \in Nat /\ o.last <= o.from
  BY <1>2 DEF Resumes, AtStage
<1>8. \A j \in 1..Len(out) : out[j].id <= o.from \/ out[j].id <= g.min
  BY <1>2, <1>4 DEF Onward
<1> HIDE DEF rest, g, sent
<1>9. k \in {"walk", "done", "read"}
  OBVIOUS
<1>10. p \in Resumes(acked)
  <2> HIDE DEF k
  <2> QED
    BY <1>2, <1>4, <1>5, <1>9 DEF Resumes
<1>11. /\ p.k = k /\ p.last = o.last /\ p.s = o.s /\ p.has = o.has /\ p.tier = o.tier /\ p.segs = rest
       /\ p.from = o.from /\ p.cut = o.cut /\ p.out = sent /\ p.moved = o.moved /\ p.must = o.must
  <2> HIDE DEF k
  <2> QED
    BY <1>2 DEF Resumes
<1>12. (Len(segs) = 1 => k = IF o.tier = "cold" THEN "walk" ELSE "done") /\ (Len(segs) # 1 => k = "read")
  OBVIOUS
<1> HIDE DEF p, k, segs, out
<1>13. Sound(p, View)
  <2>1. ASSUME NEW i \in 1..Len(sent) PROVE Has(hotForks, o.s, sent[i]) /\ sent[i].id > o.last
    <3>1. CASE i \in 1..Len(out) /\ sent[i] = out[i]
      BY <1>2, <3>1 DEF Sound, View, out
    <3>2. CASE i - Len(out) \in 1..Len(ev) /\ sent[i] = ev[i - Len(out)]
      <4>1. WithinSome(segs, sent[i]) /\ sent[i] \in acked /\ sent[i].id > o.from
        BY <1>3, <1>4, <3>2 DEF WithinSome
      <4>2. Has(hotForks, o.s, sent[i])
        BY <1>2, <4>1 DEF Onward, View, segs
      <4> QED
        BY <1>6, <1>7, <4>1, <4>2
    <3> QED
      BY <1>5, <2>1, <3>1, <3>2
  <2>2. ASSUME NEW i \in 1..Len(sent), NEW j \in 1..Len(sent), i < j PROVE sent[i].id < sent[j].id
    <3>1. CASE j \in 1..Len(out) /\ sent[j] = out[j]
      <4>1. i \in 1..Len(out)
        BY <1>5, <2>2, <3>1
      <4> QED
        BY <1>2, <1>5, <2>2, <3>1, <4>1 DEF Sound, out
    <3>2. CASE j - Len(out) \in 1..Len(ev) /\ sent[j] = ev[j - Len(out)]
      <4>1. CASE i \in 1..Len(out) /\ sent[i] = out[i]
        <5>1. ev[j - Len(out)].id > g.min /\ ev[j - Len(out)].id > o.from /\ ev[j - Len(out)].id \in Nat /\ g.min \in Nat
          BY <1>3, <1>4, <1>6, <3>2 DEF Within, Pieces
        <5>2. out[i].id \in Nat
          BY <1>5, <1>6, <4>1
        <5> QED
          BY <1>7, <1>8, <3>2, <4>1, <5>1, <5>2
      <4>2. CASE i - Len(out) \in 1..Len(ev) /\ sent[i] = ev[i - Len(out)]
        <5>1. i - Len(out) < j - Len(out)
          BY <1>5, <2>2
        <5> QED
          BY <1>3, <3>2, <4>2, <5>1
      <4> QED
        BY <1>5, <4>1, <4>2
    <3> QED
      BY <1>5, <3>1, <3>2
  <2> QED
    BY <1>11, <2>1, <2>2 DEF Sound, View
<1>14. ASSUME k = "read" PROVE Onward(p, View)
  <2>1. Successive(rest)
    <3>1. Successive(segs) /\ \A i \in 1..Len(rest) : i \in Nat
      BY <1>2 DEF Onward, segs
    <3>2. \A i, j \in 1..Len(rest) : i < j => i + 1 < j + 1
      BY <3>1
    <3> QED
      BY <1>4, <3>1, <3>2 DEF Successive
  <2>2. Len(rest) # 0
    <3>1. Len(segs) # 1
      BY <1>12, <1>14
    <3> QED
      BY <1>4, <3>1
  <2>3. \A j \in 1..Len(rest) : rest[j].s = o.s \/ rest[j].max <= seq
    BY <1>2, <1>4 DEF Onward, View, segs
  <2>4. ASSUME NEW j \in 1..Len(rest), NEW i \in 1..Len(sent) PROVE sent[i].id <= o.from \/ sent[i].id <= rest[j].min
    <3>1. CASE i \in 1..Len(out) /\ sent[i] = out[i]
      BY <1>2, <1>4, <3>1 DEF Onward, segs, out
    <3>2. CASE i - Len(out) \in 1..Len(ev) /\ sent[i] = ev[i - Len(out)]
      <4>1. g.max <= rest[j].min
        <5>1. j + 1 \in 1..Len(segs) /\ 1 < j + 1 /\ rest[j] = segs[j + 1]
          BY <1>4
        <5> QED
          BY <1>2, <1>4, <5>1 DEF Onward, Successive, segs
      <4>2. rest[j].min \in Nat /\ g.max \in Nat
        <5>1. rest[j] \in Pieces
          BY <1>4
        <5> QED
          BY <1>4, <5>1 DEF Pieces
      <4>3. ev[i - Len(out)].id \in Nat /\ ev[i - Len(out)].id <= g.max
        BY <1>3, <1>6, <3>2 DEF Within
      <4>4. ev[i - Len(out)].id <= rest[j].min
        BY <4>1, <4>2, <4>3
      <4> QED
        BY <3>2, <4>4
    <3> QED
      BY <1>5, <3>1, <3>2
  <2>5. ASSUME NEW e \in acked, WithinSome(rest, e) PROVE Has(hotForks, o.s, e)
    <3>1. WithinSome(segs, e)
      BY <1>4, <2>5 DEF WithinSome
    <3> QED
      BY <1>2, <3>1 DEF Onward, View, segs
  <2>6. o.s \in Streams
    BY <1>2 DEF Onward
  <2> QED
    BY <1>11, <2>1, <2>2, <2>3, <2>4, <2>5, <2>6 DEF Onward, View
<1>15. ASSUME o.tier = "cold" PROVE \A i \in 1..Len(sent) : sent[i] \in cold
  <2>1. \A i \in 1..Len(out) : out[i] \in cold
    BY <1>1, <1>2, <1>15 DEF AtStage, View, out
  <2>2. \A i \in 1..Len(ev) : ev[i] \in cold
    BY <1>3, <1>15 DEF Tier
  <2> QED
    BY <1>5, <2>1, <2>2
<1>16. ASSUME NEW e \in acked, e.id > o.last, Got(o, e) \/ Pending(o, e, View) PROVE Got(p, e) \/ Pending(p, e, View)
  <2>1. CASE Got(o, e)
    BY <1>5, <1>11, <2>1 DEF Got, out
  \* It is in the segment that is read, or in one of the others.
  <2>2. ASSUME e \in Tier(o.tier), WithinSome(segs, e), e.id > o.from PROVE Got(p, e) \/ (WithinSome(rest, e) /\ k = "read")
    <3>1. PICK i \in 1..Len(segs) : Within(segs[i], e)
      BY <2>2 DEF WithinSome
    <3>2. CASE i = 1
      <4>1. e.id \in o.cut \/ \E n \in 1..Len(ev) : ev[n].id = e.id
        BY <1>3, <1>4, <2>2, <3>1, <3>2
      <4>2. CASE e.id \in o.cut
        BY <1>11, <4>2 DEF Got
      <4>3. CASE \E n \in 1..Len(ev) : ev[n].id = e.id
        BY <1>5, <1>11, <4>3 DEF Got
      <4> QED
        BY <4>1, <4>2, <4>3
    <3>3. CASE i # 1
      <4>1. i - 1 \in 1..Len(rest) /\ rest[i - 1] = segs[i]
        BY <1>4, <3>3
      <4>2. Len(segs) # 1
        BY <1>4, <4>1
      <4> QED
        BY <1>12, <3>1, <4>1, <4>2 DEF WithinSome
    <3> QED
      BY <3>2, <3>3
  <2>3. CASE o.tier # "cold" /\ e \in hot /\ WithinSome(segs, e) /\ e.id > o.from
    <3>1. e \in Tier(o.tier)
      BY <2>3 DEF Tier
    <3>2. Got(p, e) \/ (WithinSome(rest, e) /\ k = "read")
      BY <2>2, <2>3, <3>1
    <3> QED
      BY <1>11, <2>3, <3>2 DEF Pending, View
  <2>4. CASE o.tier = "cold" /\ Has(hotForks, o.s, e) /\ (e \in cold => WithinSome(segs, e))
    <3>1. CASE e \in cold
      <4>1. e.id > o.from
        BY <1>2, <1>16, <2>4 DEF AtStage
      <4>2. e \in Tier(o.tier)
        BY <2>4, <3>1 DEF Tier
      <4>3. Got(p, e) \/ (WithinSome(rest, e) /\ k = "read")
        BY <2>2, <2>4, <3>1, <4>1, <4>2
      <4> QED
        BY <1>11, <2>4, <4>3 DEF Pending, View
    <3>2. CASE e \notin cold
      <4>1. e \in hot
        BY <1>6, <3>2
      <4>2. \A j \in 1..Len(sent) : sent[j].id < e.id
        <5>1. \A j \in 1..Len(sent) : sent[j] \in cold /\ sent[j] \in acked
          BY <1>6, <1>15, <2>4
        <5>2. \A j \in 1..Len(sent) : ~ (e.id <= sent[j].id)
          BY <1>6, <3>2, <5>1
        <5> QED
          BY <1>6, <5>1, <5>2
      <4>3. k = "read" \/ k = "walk"
        BY <1>12, <2>4
      <4> QED
        BY <1>11, <2>4, <3>2, <4>1, <4>2, <4>3 DEF Pending, View
    <3> QED
      BY <3>1, <3>2
  <2> QED
    BY <1>1, <1>16, <2>1, <2>3, <2>4 DEF Pending, View, Asking, segs, Unresolved
<1>17. Complete(p, View)
  BY <1>2, <1>11, <1>16 DEF Complete, View
<1>18. AtStage(p, View)
  <2>1. o.s \in Streams
    BY <1>2 DEF Onward
  <2>2. k = "walk" => o.tier = "cold"
    BY <1>9, <1>12
  <2> QED
    BY <1>1, <1>2, TiersAssumption, <1>9, <1>11, <1>14, <1>15, <2>1, <2>2 DEF AtStage, Asking, View, Unresolved
<1>19. ReaderAt(p, View)
  BY <1>10, <1>13, <1>17, <1>18 DEF ReaderAt, View
<1> QED
  BY <1>1, <1>19, GoesOn

-----------------------------------------------------------------------------

LEMMA ResumingInit == Init => Resuming
<1> SUFFICES ASSUME Init PROVE Resuming
  OBVIOUS
<1>1. \A r \in Readers : op[r] = Idle
  BY Disjoint DEF Init
<1> QED
  BY <1>1 DEF Resuming, ReaderAt

\* Nobody resumes where another job is done.
LEMMA OthersResuming ==
    ASSUME Shape, Resuming, ~ Tiered, [Next]_vars
    PROVE  Resuming'
<1>1. op' = op \/ \E p \in Services : \E o : op' = [op EXCEPT ![p] = o]
  <2>1. {"forker", "purger", "retainer", "migrator"} \subseteq Services
    BY DEF Services
  <2>2. CASE UNCHANGED vars
    BY <2>2 DEF vars, tiers
  <2>3. CASE PurgeStep
    <3>1. CASE (\E s \in Streams : Store(s, NoTenant)) \/ Ages(NoTenant)
      BY <3>1 DEF Store, Ages
    <3>2. CASE Purge \/ PurgeGivesUp
      BY <2>1, <3>2 DEF Purge, PurgeGivesUp, Go
    <3> QED
      BY <2>3, <3>1, <3>2 DEF PurgeStep
  <2>4. CASE RetentionStep
    <3>1. CASE (\E s \in Streams, t \in Tenants : Store(s, t)) \/ (\E t \in Tenants : Ages(t))
      BY <3>1 DEF Store, Ages
    <3>2. CASE Wakes \/ CycleEnds \/ PurgeFails \/ Record \/ Restarts
      BY <2>1, <3>2 DEF Wakes, CycleEnds, PurgeFails, Record, Restarts, Go
    <3>3. CASE PurgeBatch \/ RecordFails \/ (\E t \in Tenants : NextTenant(t))
      BY <2>1, <3>3 DEF PurgeBatch, RecordFails, SinkFails, NextTenant, Go
    <3> QED
      BY <2>4, <3>1, <3>2, <3>3 DEF RetentionStep
  <2>5. CASE MigrationStep
    <3>1. CASE \E s \in Streams : Store(s, NoTenant)
      BY <3>1 DEF Store
    <3>2. CASE (\E c, p \in Streams, at \in 1..seq : ForkHot(c, p, at)) \/ ForkCold \/ ForkColdFails
      BY <2>1, <3>2 DEF ForkHot, ForkCold, ForkColdFails, Go
    <3>3. CASE Migrate \/ Fetch \/ Put \/ StreamDone \/ StreamFails
      BY <2>1, <3>3 DEF Migrate, Fetch, Put, PutAs, StreamDone, StreamFails, Go
    <3>4. CASE \E s \in Streams : NextStream(s)
      BY <2>1, <3>4 DEF NextStream, Go
    <3> QED
      BY <2>5, <3>1, <3>2, <3>3, <3>4 DEF MigrationStep
  <2>6. CASE TierStep
    BY <2>6 DEF TierStep
  <2> QED
    BY <2>2, <2>3, <2>4, <2>5, <2>6 DEF Next
<1>2. \A r \in Readers : op'[r] = op[r]
  BY <1>1, Disjoint DEF Shape
<1>3. Tiered' = Tiered
  BY JobKept DEF Tiered
<1> QED
  BY <1>2, <1>3 DEF Resuming

LEMMA ResumingStep == Shape /\ Grown /\ LateForks /\ TierInv /\ Tiering /\ Resuming /\ [Next]_vars => Resuming'
<1> SUFFICES ASSUME Shape, Grown, LateForks, TierInv, Tiering, Resuming, [Next]_vars PROVE Resuming'
  OBVIOUS
<1>1. CASE ~ Tiered
  BY <1>1, OthersResuming
<1>2. ASSUME Tiered, UNCHANGED <<job, hot, cold, hotForks, coldForks, seq, acked>>, \A r \in Readers : op'[r] = op[r]
      PROVE  Resuming'
  <2>1. View' = View /\ Tiered' = Tiered
    BY <1>2 DEF View, Tiered
  <2> QED
    BY <1>2, <2>1 DEF Resuming
<1>3. CASE Tiered /\ UNCHANGED vars
  BY <1>2, <1>3 DEF vars, tiers
<1>4. CASE Tiered /\ TierStep
  <2>1. ASSUME NEW s \in Streams, Store(s, NoTenant) PROVE Resuming'
    BY <1>4, <2>1, StoreResuming
  <2>2. CASE Ages(NoTenant)
    BY <1>2, <1>4, <2>2 DEF Ages
  <2>3. ASSUME NEW a \in Archivers, Archive(a) \/ Fails(a) PROVE Resuming'
    <3>1. CASE Copy(a) \/ Delete(a)
      BY <1>4, <3>1, CopyResuming, DeleteResuming
    <3>2. CASE Select(a) \/ Fails(a)
      <4>1. UNCHANGED <<job, hot, cold, hotForks, coldForks, seq, acked>> /\ \E o : op' = [op EXCEPT ![a] = o]
        BY <3>2 DEF Select, Fails, Go
      <4>2. \A r \in Readers : op'[r] = op[r]
        BY <4>1, Disjoint DEF Shape
      <4> QED
        BY <1>2, <1>4, <4>1, <4>2
    <3> QED
      BY <2>3, <3>1, <3>2 DEF Archive
  <2>4. CASE (\E c, p \in Streams, at \in 1..seq : ForkHot(c, p, at)) \/ ForkCold
    BY <1>4, <2>4, ForkResuming
  <2>5. CASE ForkColdFails
    <3>1. UNCHANGED <<job, hot, cold, hotForks, coldForks, seq, acked>> /\ \E o : op' = [op EXCEPT !["forker"] = o]
      BY <2>5 DEF ForkColdFails, Go
    <3>2. \A r \in Readers : op'[r] = op[r]
      BY <3>1, Disjoint DEF Shape
    <3> QED
      BY <1>2, <1>4, <3>1, <3>2
  <2>6. ASSUME NEW r \in Readers, NEW last \in 0..seq, NEW s \in Streams \cup {Nobody}, AskFirst(r, last, s)
        PROVE  Resuming'
    BY <1>4, <2>6, AskFirstResuming
  <2>7. ASSUME NEW r \in Readers, AskSecond(r) \/ Answered(r) PROVE Resuming'
    BY <1>4, <2>7, AskSecondResuming, AnsweredResuming
  <2>8. ASSUME NEW r \in Readers, ReplayHot(r) \/ ReplayCold(r) PROVE Resuming'
    BY <1>4, <2>8, ReplayHotResuming, ReplayColdResuming
  <2>9. ASSUME NEW r \in Readers, ReadSegment(r) \/ Walk(r) PROVE Resuming'
    BY <1>4, <2>9, ReadSegmentResuming, WalkResuming
  <2> QED
    BY <1>4, <2>1, <2>2, <2>3, <2>4, <2>5, <2>6, <2>7, <2>8, <2>9 DEF TierStep
<1> QED
  BY <1>1, <1>3, <1>4 DEF Next, Tiered, PurgeStep, RetentionStep, Retains, MigrationStep, Migrates

LEMMA ResumingAlways == Spec => [](Shape /\ Grown /\ LateForks /\ TierInv /\ Tiering /\ Resuming)
<1> DEFINE I == Shape /\ Grown /\ LateForks /\ TierInv /\ Tiering /\ Resuming
<1>1. Init => I
  BY ShapeInit, GrownInit, LateForksInit, TierInvInit, TieringInit, ResumingInit
<1>2. I /\ [Next]_vars => I'
  BY ShapeStep, GrownStep, LateForksStep, TierInvStep, TieringStep, ResumingStep
<1> QED
  BY <1>1, <1>2, PTL DEF Spec

\* What a replay across the tiers sent is all it should have when it is done.
LEMMA ResumingFaithful == Grown /\ Resuming => ReplayFaithful
<1> SUFFICES ASSUME Grown, Resuming, NEW r \in Readers, op[r].k = "done"
             PROVE  LET o == op[r]
                    IN  /\ \A i \in DOMAIN o.out : o.out[i] \in History(hotForks, o.s, acked) /\ o.out[i].id > o.last
                        /\ \A i, j \in DOMAIN o.out : i < j => o.out[i].id < o.out[j].id
                        /\ IF o.s = Nobody /\ "hot" \in o.has
                           THEN o.last \in o.moved /\ o.out = <<>>
                           ELSE o.must \ (o.moved \cup o.cut) \subseteq Ids(ToSet(o.out))
  BY DEF ReplayFaithful
<1> DEFINE o == op[r]
<1>1. o \in Resumes(acked) /\ Complete(o, View) /\ Sound(o, View) /\ AtStage(o, View)
  BY DEF Resuming, ReaderAt, Idle, View
<1> HIDE DEF o
<1>2. o.k = "done"
  BY DEF o
<1>3. /\ o.out \in Seq(acked) /\ Len(o.out) \in Nat /\ DOMAIN o.out = 1..Len(o.out)
      /\ \A i \in 1..Len(o.out) : o.out[i] \in acked /\ o.out[i] \in ToSet(o.out)
  <2>1. o.out \in Seq(acked)
    BY <1>1 DEF Resumes
  <2>2. Len(o.out) \in Nat /\ o.out \in [1..Len(o.out) -> acked]
    BY <2>1, LenProperties
  <2> QED
    BY <2>1, <2>2 DEF ToSet
<1>4. \A i \in DOMAIN o.out : o.out[i] \in History(hotForks, o.s, acked) /\ o.out[i].id > o.last
  BY <1>1, <1>3 DEF Sound, View, History, Has
<1>5. \A i, j \in DOMAIN o.out : i < j => o.out[i].id < o.out[j].id
  BY <1>1, <1>3 DEF Sound
<1>6. ASSUME ~ (o.s = Nobody /\ "hot" \in o.has), NEW i \in o.must \ (o.moved \cup o.cut)
      PROVE  i \in Ids(ToSet(o.out))
  <2>1. PICK e \in acked : e.id = i /\ (Got(o, e) \/ Pending(o, e, View))
    BY <1>1 DEF Complete, View
  <2>2. ~ Pending(o, e, View)
    BY <1>2, <1>6 DEF Pending, Asking, Unresolved
  <2>3. PICK j \in 1..Len(o.out) : o.out[j].id = i
    BY <1>6, <2>1, <2>2 DEF Got
  <2> QED
    BY <1>3, <2>3 DEF Ids
<1>7. o.s = Nobody /\ "hot" \in o.has => o.last \in o.moved /\ o.out = <<>>
  BY <1>1, <1>2 DEF AtStage, Unresolved
<1> QED
  BY <1>4, <1>5, <1>6, <1>7 DEF o

\* A client that resumes across the hot and the cold store, as ChainedEventStore serves it,
\* while events are stored, streams are forked, archivers copy and delete batches, and any of
\* their queries fails: it gets events of the stream's own history only, in the order of their
\* ids and each once.  It misses none that was stored when it asked, but for what was moved
\* while it read and, of a replay of the hot store, what had expired; or it named no stream,
\* its anchor was moved between its lookup in hot and hot's replay, and it gets nothing.
THEOREM ResumedAcrossTiers == Spec => []ReplayFaithful
BY ResumingAlways, ResumingFaithful, PTL
====
