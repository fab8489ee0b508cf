---- MODULE RedisStore ----
(***************************************************************************)
(* RedisEventStore.  An event is a hash, `rows`, and a member of its       *)
(* stream's sorted set, `index`, which store_event trims to the newest     *)
(* MaxLength.  "script" writes both in one server-side step; "pipe" is the *)
(* fallback, an INCR and then a pipeline without MULTI, whose commands     *)
(* other clients' commands come between.                                   *)
(***************************************************************************)
EXTENDS EventTable

CONSTANT MaxLength     \* max_stream_length

ASSUME LengthAssumption == MaxLength \in Nat \ {0}

Redis == backend \in {"script", "pipe"}
Entry(x) == [s |-> x.s, id |-> x.id]
Members(s) == {e \in index : e.s = s}
\* ZREMRANGEBYRANK 0 -(MaxLength + 1) of a stream's members
Surplus(M) == SmallestOf(M, IF Cardinality(M) > MaxLength THEN Cardinality(M) - MaxLength ELSE 0)
Add(x) ==
    LET M == Members(x.s) \cup {Entry(x)}
    IN  /\ index' = (index \cup {Entry(x)}) \ Surplus(M)
        /\ removed' = removed \cup {e.id : e \in Surplus(M)}

RdStore(p, s, k) ==
    LET x == NewRow(s, NoTenant, k)
    IN  /\ backend = "script" /\ op[p] = Idle
        /\ Bump("stores")
        /\ seq' = seq + 1
        /\ rows' = rows \cup {x}
        /\ Add(x)
        /\ Go(p, [k |-> "publish", row |-> x])
        /\ UNCHANGED <<backend, forks, old, disk, acked>>

\* Mutant of RdIncr: the index entry is written ahead of the event hash.
RdIncrIndexed(p, s, k) ==
    /\ backend = "pipe" /\ op[p] = Idle
    /\ Bump("stores")
    /\ seq' = seq + 1
    /\ index' = index \cup {Entry(NewRow(s, NoTenant, k))}
    /\ Go(p, [k |-> "hset", row |-> NewRow(s, NoTenant, k)])
    /\ UNCHANGED <<backend, rows, forks, old, disk, acked, removed>>
RdIncr(p, s, k) ==
    /\ backend = "pipe" /\ op[p] = Idle
    /\ Bump("stores")
    /\ seq' = seq + 1
    /\ Go(p, [k |-> "hset", row |-> NewRow(s, NoTenant, k)])
    /\ UNCHANGED <<backend, rows, index, forks, old, disk, acked, removed>>
RdHset(p) ==
    /\ op[p].k = "hset"
    /\ rows' = rows \cup {op[p].row}
    /\ Go(p, [op[p] EXCEPT !.k = "zadd"])
    /\ UNCHANGED <<backend, index, forks, seq, old, disk, acked, removed, used>>
RdZadd(p) ==
    /\ op[p].k = "zadd"
    /\ index' = index \cup {Entry(op[p].row)}
    /\ Go(p, [op[p] EXCEPT !.k = "trim"])
    /\ UNCHANGED <<backend, rows, forks, seq, old, disk, acked, removed, used>>
RdTrim(p) ==
    LET T == Surplus(Members(op[p].row.s))
    IN  /\ op[p].k = "trim"
        /\ index' = index \ T
        /\ removed' = removed \cup {e.id : e \in T}
        /\ Go(p, [op[p] EXCEPT !.k = "publish"])
        /\ UNCHANGED <<backend, rows, forks, seq, old, disk, acked, used>>
\* The connection is lost in the middle of the pipeline; the caller gets the error.
RdBroken(p) ==
    /\ op[p].k \in {"hset", "zadd", "trim"}
    /\ Bump("faults")
    /\ Go(p, Idle)
    /\ UNCHANGED <<backend, rows, index, forks, seq, old, disk, acked, removed>>

\* The ttl: event hashes go oldest first, a stream's index with the last of them, a
\* fork when nothing of its parent's part is left.  A pipeline renews the index's ttl last:
\* when the old one runs out before that, the new member goes with the index.
Writing == {op[p].row.id : p \in {q \in Writers : op[q].k \in {"hset", "zadd", "trim"}}}
RdExpires ==
    /\ Redis
    /\ \E x \in rows : /\ x.id \notin Writing /\ \A y \in rows : y.id < x.id => y.id \in Writing
                       /\ rows' = rows \ {x} /\ removed' = removed \cup {x.id}
    /\ Bump("faults")
    /\ UNCHANGED <<backend, index, forks, seq, old, disk, op, acked>>
RdKeyExpires(s) ==
    /\ Redis
    /\ ~ \E x \in rows : x.s = s /\ x.id \notin Writing
    /\ \/ /\ \E e \in Members(s) : e.id \notin Writing
          /\ index' = index \ Members(s)
          /\ removed' = removed \cup {e.id : e \in Members(s)}
          /\ UNCHANGED forks
       \/ /\ forks[s] # Root /\ ~ \E x \in rows : x.s = forks[s].p /\ x.id <= forks[s].at
          /\ forks' = [forks EXCEPT ![s] = Root] /\ UNCHANGED <<index, removed>>
    /\ UNCHANGED <<backend, rows, seq, old, disk, op, acked, used>>

RdFork(p, s, parent, at) ==
    /\ Redis /\ op[p] = Idle /\ s # parent
    /\ Bump("forks")
    /\ ForkAt(s, parent, at)
    /\ UNCHANGED <<backend, rows, index, seq, old, disk, op, acked, removed>>

RdReplay(r, last, s) == Redis /\ Resolvable(last, s, NoTenant) /\ Resolve(r, last, s, NoTenant)
RdSegments(r) == Redis /\ Link(r)
\* What a read of the ids I emits, and the ids whose payload is gone
Found(I) == {x \in rows : x.id \in I}
Gone(s, I) == {[s |-> s, id |-> i] : i \in I \ {x.id : x \in rows}}
\* The replay script: a chunk of ids, each with its payload.
RdChunk(r) ==
    LET o == op[r]
        C == SmallestOf(InSegment(o, index), Batch)
        I == {e.id : e \in C}
        q == [o EXCEPT !.stale = @ \cup Gone(Seg(o).s, I)]
    IN  /\ backend = "script" /\ o.k = "read"
        /\ Go(r, Emit(q, Found(I), IF I = {} THEN 0 ELSE CHOOSE i \in I : \A j \in I : j <= i,
                      Cardinality(C) = Batch))
        /\ UNCHANGED <<backend, rows, index, forks, seq, old, disk, acked, removed, used>>
\* The pipelined read: the ids of the whole segment, then their payloads.
RdIds(r) ==
    LET o == op[r]
        I == {e.id : e \in InSegment(o, index)}
    IN  /\ backend = "pipe" /\ o.k = "read"
        /\ Go(r, IF I = {} THEN Emit(o, {}, 0, FALSE) ELSE [o EXCEPT !.k = "payloads", !.ids = I])
        /\ UNCHANGED <<backend, rows, index, forks, seq, old, disk, acked, removed, used>>
RdPayloads(r) ==
    LET o == op[r]
    IN  /\ o.k = "payloads"
        /\ Go(r, Emit([o EXCEPT !.stale = @ \cup Gone(Seg(o).s, o.ids)], Found(o.ids), 0, FALSE))
        /\ UNCHANGED <<backend, rows, index, forks, seq, old, disk, acked, removed, used>>
\* Index members without a payload are pruned once the replay is over.
RdPrune(r) ==
    /\ op[r].k = "prune"
    /\ index' = index \ op[r].stale
    /\ Go(r, [op[r] EXCEPT !.k = "done"])
    /\ UNCHANGED <<backend, rows, forks, seq, old, disk, acked, removed, used>>

RdSubscribe(r, s) ==
    /\ Redis /\ op[r] = Idle
    /\ Bump("reads")
    /\ Go(r, Subscribed(s, NoTenant, 0))
    /\ UNCHANGED <<backend, rows, index, forks, seq, old, disk, acked, removed>>
RdDeliver(r) == Redis /\ Deliver(r, rows)

RdNext ==
    \/ \E p \in Writers, s \in Streams, k \in Kinds : RdStore(p, s, k) \/ RdIncr(p, s, k)
    \/ \E p \in Writers : RdHset(p) \/ RdZadd(p) \/ RdTrim(p) \/ RdBroken(p)
    \/ RdExpires \/ \E s \in Streams : RdKeyExpires(s)
    \/ \E p \in Writers, s, parent \in Streams : \E at \in 1..seq : RdFork(p, s, parent, at)
    \/ \E r \in Readers, s \in Streams :
          \/ \E last \in 0..seq : RdReplay(r, last, s)
          \/ RdSubscribe(r, s)
    \/ \E r \in Readers : RdSegments(r) \/ RdChunk(r) \/ RdIds(r) \/ RdPayloads(r) \/ RdPrune(r) \/ RdDeliver(r)
====
