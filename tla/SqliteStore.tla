---- MODULE SqliteStore ----
(***************************************************************************)
(* SQLiteEventStore.  All statements of a server run on one connection,    *)
(* one after the other, in one transaction that any coroutine's commit     *)
(* ends: `disk` is what a crash leaves.  "sqlite" commits every event;     *)
(* "behind" is the write-behind mode (commit_interval with                 *)
(* commit_max_pending), where a counter of uncommitted rows decides        *)
(* whether a flush commits.                                                *)
(***************************************************************************)
EXTENDS EventTable

CONSTANT MaxPending    \* commit_max_pending

ASSUME PendingAssumption == MaxPending \in Nat \ {0}

VARIABLES pending, lock      \* _pending, the holder of _commit_lock

sqvars == <<pending, lock>>

Sqlite == backend \in {"sqlite", "behind"}
Now == [rows |-> rows, forks |-> forks, seq |-> seq]
Commit == disk' = Now

\* store_event without write-behind: INSERT, then commit, then the id is returned.
SqStore(p, s, k) ==
    /\ backend = "sqlite" /\ op[p] = Idle
    /\ Bump("stores")
    /\ rows' = rows \cup {NewRow(s, TenantOf[p], k)} /\ seq' = seq + 1
    /\ Go(p, [k |-> "commit1", row |-> NewRow(s, TenantOf[p], k)])
    /\ UNCHANGED <<backend, index, forks, old, disk, acked, removed, sqvars>>
SqStored(p) ==
    /\ op[p].k = "commit1"
    /\ Commit /\ Ack(p)
    /\ UNCHANGED <<backend, rows, index, forks, seq, old, removed, used, sqvars>>
\* The commit raises (the database is locked): the caller gets the error, the row stays
\* in the open transaction.
SqCommitFails(p) ==
    /\ op[p].k \in {"commit1", "commit2"}
    /\ Bump("faults")
    /\ Go(p, Idle)
    /\ UNCHANGED <<backend, rows, index, forks, seq, old, disk, acked, removed, sqvars>>
\* The commit of a fork or of a purge batch that was not the last.
SqDone(p) ==
    /\ op[p].k = "commit2"
    /\ Commit
    /\ Go(p, op[p].next)
    /\ UNCHANGED <<backend, rows, index, forks, seq, old, acked, removed, used, sqvars>>

---------------------------------------------------------------------------
(* Write-behind.                                                           *)

\* Mutant of SqInsert: the commit lock is not taken for the INSERT and its count.
SqInsertUnlocked(p, s, k) ==
    /\ backend = "behind" /\ op[p] = Idle /\ op["closer"] = Idle
    /\ Bump("stores")
    /\ rows' = rows \cup {NewRow(s, TenantOf[p], k)} /\ seq' = seq + 1
    /\ op' = [op EXCEPT ![p] = [k |-> "count", row |-> NewRow(s, TenantOf[p], k)],
                        !["flusher"] = IF @ = Idle THEN [k |-> "sleep"] ELSE @]
    /\ UNCHANGED <<backend, index, forks, old, disk, acked, removed, pending, lock>>
\* Under the commit lock the row is inserted; its first store starts the commit loop.
SqInsert(p, s, k) ==
    /\ backend = "behind" /\ op[p] = Idle /\ op["closer"] = Idle
    /\ lock = Nobody
    /\ Bump("stores")
    /\ lock' = p
    /\ rows' = rows \cup {NewRow(s, TenantOf[p], k)} /\ seq' = seq + 1
    /\ op' = [op EXCEPT ![p] = [k |-> "count", row |-> NewRow(s, TenantOf[p], k)],
                        !["flusher"] = IF @ = Idle THEN [k |-> "sleep"] ELSE @]
    /\ UNCHANGED <<backend, index, forks, old, disk, acked, removed, pending>>
\* ... counted, the lock released, and a full buffer flushed before the id is returned.
SqCount(p) ==
    /\ op[p].k = "count"
    /\ pending' = pending + 1 /\ lock' = Nobody
    /\ IF pending + 1 >= MaxPending THEN Go(p, [op[p] EXCEPT !.k = "flush"]) /\ UNCHANGED acked
       ELSE Ack(p)
    /\ UNCHANGED <<backend, rows, index, forks, seq, old, disk, removed, used>>
\* The store is cancelled between its INSERT and the count: the row stays, uncounted.
SqCancel(p) ==
    /\ op[p].k = "count"
    /\ Bump("faults")
    /\ lock' = Nobody
    /\ Go(p, Idle)
    /\ UNCHANGED <<backend, rows, index, forks, seq, old, disk, acked, removed, pending>>

Wakes ==
    /\ op["flusher"].k = "sleep"
    /\ Go("flusher", [k |-> "flush"])
    /\ UNCHANGED <<backend, rows, index, forks, seq, old, disk, acked, removed, used, sqvars>>
\* Where _flush leaves its caller: a store returns its id, the loop sleeps, aclose goes on.
Flushed(p) ==
    IF p \in Writers THEN Ack(p)
    ELSE Go(p, [k |-> IF p = "flusher" THEN "sleep" ELSE "close"]) /\ UNCHANGED acked
\* _flush: nothing pending is nothing to do, else commit and reset under the lock.
SqFlush(p) ==
    /\ op[p].k = "flush" /\ lock = Nobody
    /\ IF pending = 0 THEN Flushed(p) /\ UNCHANGED lock
       ELSE lock' = p /\ Go(p, [op[p] EXCEPT !.k = "commit"]) /\ UNCHANGED acked
    /\ UNCHANGED <<backend, rows, index, forks, seq, old, disk, removed, used, pending>>
SqCommitted(p) ==
    /\ op[p].k = "commit"
    /\ Commit
    /\ Go(p, [op[p] EXCEPT !.k = "reset"])
    /\ UNCHANGED <<backend, rows, index, forks, seq, old, acked, removed, used, sqvars>>
SqFlushed(p) ==
    /\ op[p].k = "reset"
    /\ pending' = 0 /\ lock' = Nobody
    /\ Flushed(p)
    /\ UNCHANGED <<backend, rows, index, forks, seq, old, disk, removed, used>>
\* The commit of a flush fails: the store raises, the loop retries at its next interval,
\* aclose logs it and goes on.
SqFlushFails(p) ==
    /\ op[p].k = "commit"
    /\ Bump("faults")
    /\ lock' = Nobody
    /\ Go(p, IF p \in Writers THEN Idle ELSE [k |-> IF p = "flusher" THEN "sleep" ELSE "closed"])
    /\ UNCHANGED <<backend, rows, index, forks, seq, old, disk, acked, removed, pending>>

\* aclose after the server stopped serving: the loop is cancelled (a commit it had issued
\* still runs, its reset does not), what is pending flushed; then the connection closes,
\* which drops the open transaction, and the next start finds what was committed.
SqClose ==
    /\ backend = "behind" /\ op["closer"] = Idle /\ \A p \in Writers : op[p] = Idle
    /\ IF op["flusher"].k = "commit" THEN Commit ELSE UNCHANGED disk
    /\ lock' = IF lock = "flusher" THEN Nobody ELSE lock
    /\ op' = [op EXCEPT !["flusher"] = Idle, !["closer"] = [k |-> "flush"]]
    /\ Bump("faults")
    /\ UNCHANGED <<backend, rows, index, forks, seq, old, acked, removed, pending>>
\* Mutant of Reopen: the id sequence starts again.
ReopenFromZero ==
    /\ rows' = disk.rows /\ forks' = disk.forks /\ seq' = 0
    /\ old' = old \cap {x.id : x \in disk.rows}
    /\ pending' = 0 /\ lock' = Nobody
    /\ op' = [p \in Procs |-> Idle]
Reopen ==
    /\ rows' = disk.rows /\ forks' = disk.forks /\ seq' = disk.seq
    /\ old' = old \cap {x.id : x \in disk.rows}
    /\ pending' = 0 /\ lock' = Nobody
    /\ op' = [p \in Procs |-> Idle]
SqClosed ==
    /\ op["closer"].k \in {"close", "closed"}
    /\ Reopen
    /\ UNCHANGED <<backend, index, disk, acked, removed, used>>
SqCrash ==
    /\ Sqlite
    /\ Bump("faults")
    /\ Reopen
    /\ UNCHANGED <<backend, index, disk, acked, removed>>

---------------------------------------------------------------------------
(* Forks, purges, replay and subscriptions.                                *)

SqFork(p, s, parent, at) ==
    /\ Sqlite /\ op[p] = Idle /\ s # parent
    /\ Bump("forks")
    /\ ForkAt(s, parent, at)
    /\ Go(p, [k |-> "commit2", next |-> Idle])
    /\ UNCHANGED <<backend, rows, index, seq, old, disk, acked, removed, sqvars>>

\* purge_expired of a store (bound: the rows it sees) and purge_tenant (the rows of exactly
\* that tenant): the cutoff is taken once, then batches are deleted until a short one.
SqPurge(p, t, bound) ==
    /\ Sqlite /\ op[p] = Idle
    /\ Purgeable([t |-> t, bound |-> bound, cut |-> old]) # {}
    /\ Go(p, [k |-> "purge", t |-> t, bound |-> bound, cut |-> old])
    /\ UNCHANGED <<backend, rows, index, forks, seq, old, disk, acked, removed, used, sqvars>>
SqPurgeBatch(p) ==
    LET D == SmallestOf(Purgeable(op[p]), Batch)
    IN  /\ Sqlite /\ op[p].k = "purge"
        /\ rows' = rows \ D /\ removed' = removed \cup {x.id : x \in D}
        /\ Go(p, [k |-> "commit2", next |-> IF Cardinality(D) < Batch THEN Idle ELSE op[p]])
        /\ UNCHANGED <<backend, index, forks, seq, old, disk, acked, used, sqvars>>

SqReplay(r, last, s, t) ==
    /\ Sqlite /\ Resolvable(last, s, t) /\ Resolve(r, last, s, t)
    /\ UNCHANGED sqvars
SqSegments(r) == Sqlite /\ Link(r) /\ UNCHANGED sqvars
\* One query per segment, without the rows older than the cutoff.
SqRead(r) ==
    LET o == op[r]
    IN  /\ Sqlite /\ o.k = "read"
        /\ Go(r, Emit(o, {x \in InSegment(o, Own(o.t)) : x.id \notin o.cut}, 0, FALSE))
        /\ UNCHANGED <<backend, rows, index, forks, seq, old, disk, acked, removed, used, sqvars>>

\* subscribe: from the newest event of the stream, by polling.
NewestOf(S) == IF S = {} THEN 0 ELSE (CHOOSE x \in S : \A y \in S : y.id <= x.id).id
SqSubscribe(r, s, t) ==
    /\ Sqlite /\ op[r] = Idle
    /\ Bump("reads")
    /\ Go(r, Subscribed(s, t, NewestOf({x \in Own(t) : x.s = s})))
    /\ UNCHANGED <<backend, rows, index, forks, seq, old, disk, acked, removed, sqvars>>
\* Mutant of SqPoll: the newest event seen is asked for again.
SqPollAgain(r) ==
    LET o == op[r]
        new == {x \in Own(o.t) : x.s = o.s /\ x.id >= o.at}
    IN  /\ Sqlite /\ o.k = "sub" /\ new # {}
        /\ Go(r, [o EXCEPT !.at = NewestOf(new), !.got = @ \o Sorted({x \in new : x.k = "msg"})])
        /\ UNCHANGED <<backend, rows, index, forks, seq, old, disk, acked, removed, used, sqvars>>
SqPoll(r) ==
    LET o == op[r]
        new == {x \in Own(o.t) : x.s = o.s /\ x.id > o.at}
    IN  /\ Sqlite /\ o.k = "sub" /\ new # {}
        /\ Go(r, [o EXCEPT !.at = NewestOf(new), !.got = @ \o Sorted({x \in new : x.k = "msg"})])
        /\ UNCHANGED <<backend, rows, index, forks, seq, old, disk, acked, removed, used, sqvars>>

SqNext ==
    \/ \E p \in Writers, s \in Streams, k \in Kinds :
          SqStore(p, s, k) \/ SqInsert(p, s, k)
    \/ \E p \in Writers : \/ SqStored(p) \/ SqCommitFails(p) \/ SqDone(p) \/ SqCount(p)
                          \/ SqCancel(p) \/ SqPurgeBatch(p)
    \/ \E p \in Writers \cup Services : SqFlush(p) \/ SqCommitted(p) \/ SqFlushed(p) \/ SqFlushFails(p)
    \/ Wakes \/ SqClose \/ SqClosed \/ SqCrash
    \/ \E p \in Writers, s, parent \in Streams : \E at \in 1..seq : SqFork(p, s, parent, at)
    \/ \E p \in Writers, t \in Tenants, bound \in BOOLEAN : SqPurge(p, t, bound)
    \/ \E r \in Readers, s \in Streams, t \in Tenants :
          \/ \E last \in 0..seq : SqReplay(r, last, s, t)
          \/ SqSubscribe(r, s, t)
    \/ \E r \in Readers : SqSegments(r) \/ SqRead(r) \/ SqPoll(r)
====
