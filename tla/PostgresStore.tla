---- MODULE PostgresStore ----
(***************************************************************************)
(* PostgresEventStore.  Every statement is a transaction of its own on a   *)
(* pooled connection: an INSERT takes its id from the identity sequence    *)
(* when it starts and becomes visible when it commits, so rows may become  *)
(* visible in another order than their ids.                                *)
(***************************************************************************)
EXTENDS EventTable

Postgres == backend = "postgres"

PgInsert(p, s, k) ==
    /\ Postgres /\ op[p] = Idle
    /\ Bump("stores")
    /\ seq' = seq + 1
    /\ Go(p, [k |-> "insert", row |-> NewRow(s, TenantOf[p], k)])
    /\ UNCHANGED <<backend, rows, index, forks, old, disk, acked, removed>>
PgCommits(p) ==
    /\ op[p].k = "insert"
    /\ rows' = rows \cup {op[p].row}
    /\ Go(p, [op[p] EXCEPT !.k = "publish"])
    /\ UNCHANGED <<backend, index, forks, seq, old, disk, acked, removed, used>>
\* A timeout or a lost connection: the caller gets the error, the row is there or is not.
PgFails(p) ==
    /\ op[p].k = "insert"
    /\ Bump("faults")
    /\ \E there \in BOOLEAN : rows' = IF there THEN rows \cup {op[p].row} ELSE rows
    /\ Go(p, Idle)
    /\ UNCHANGED <<backend, index, forks, seq, old, disk, acked, removed>>

PgFork(p, s, parent, at) ==
    /\ Postgres /\ op[p] = Idle /\ s # parent
    /\ Bump("forks")
    /\ ForkAt(s, parent, at)
    /\ UNCHANGED <<backend, rows, index, seq, old, disk, op, acked, removed>>

PgPurge(p, t, bound) ==
    /\ Postgres /\ op[p] = Idle
    /\ Purgeable([t |-> t, bound |-> bound, cut |-> old]) # {}
    /\ Go(p, [k |-> "purge", t |-> t, bound |-> bound, cut |-> old])
    /\ UNCHANGED <<backend, rows, index, forks, seq, old, disk, acked, removed, used>>
\* One batch, the rows with the oldest created_at, in whatever order that is.
PgPurgeBatch(p) ==
    LET o == op[p]
        P == Purgeable(o)
        n == IF Cardinality(P) < Batch THEN Cardinality(P) ELSE Batch
    IN  /\ Postgres /\ o.k = "purge"
        /\ \E D \in SUBSET P :
              /\ Cardinality(D) = n
              /\ rows' = rows \ D /\ removed' = removed \cup {x.id : x \in D}
        /\ Go(p, IF n < Batch THEN Idle ELSE o)
        /\ UNCHANGED <<backend, index, forks, seq, old, disk, acked, used>>

PgReplay(r, last, s, t) == Postgres /\ Resolvable(last, s, t) /\ Resolve(r, last, s, t)
PgSegments(r) == Postgres /\ Link(r)
\* One page of a segment; a short page, or one that reaches the fork point, is its last.
PgPage(r) ==
    LET o == op[r]
        R == SmallestOf({x \in InSegment(o, Own(o.t)) : x.id \notin o.cut}, Batch)
        end == IF R = {} THEN 0 ELSE (CHOOSE x \in R : \A y \in R : y.id <= x.id).id
    IN  /\ Postgres /\ o.k = "read"
        /\ Go(r, Emit(o, R, end, Cardinality(R) = Batch /\ end < Seg(o).max))
        /\ UNCHANGED <<backend, rows, index, forks, seq, old, disk, acked, removed, used>>

PgListen(r, s, t) ==
    /\ Postgres /\ op[r] = Idle
    /\ Bump("reads")
    /\ Go(r, Subscribed(s, t, 0))
    /\ UNCHANGED <<backend, rows, index, forks, seq, old, disk, acked, removed>>
PgDeliver(r) == Postgres /\ Deliver(r, Own(op[r].t))

PgNext ==
    \/ \E p \in Writers, s \in Streams, k \in Kinds : PgInsert(p, s, k)
    \/ \E p \in Writers : PgCommits(p) \/ PgFails(p) \/ PgPurgeBatch(p)
    \/ \E p \in Writers, s, parent \in Streams : \E at \in 1..seq : PgFork(p, s, parent, at)
    \/ \E p \in Writers, t \in Tenants, bound \in BOOLEAN : PgPurge(p, t, bound)
    \/ \E r \in Readers, s \in Streams, t \in Tenants :
          \/ \E last \in 0..seq : PgReplay(r, last, s, t)
          \/ PgListen(r, s, t)
    \/ \E r \in Readers : PgSegments(r) \/ PgPage(r) \/ PgDeliver(r)
====
