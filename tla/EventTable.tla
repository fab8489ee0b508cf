---- MODULE EventTable ----
(***************************************************************************)
(* What the three event stores have in common: a table of events numbered  *)
(* by one sequence, a table of forks, and the replay that walks the chain  *)
(* of forks of a stream and reads it segment by segment.  SqliteStore,     *)
(* RedisStore and PostgresStore add the writes and the reads of each       *)
(* backend, EventStores composes them.                                     *)
(***************************************************************************)
EXTENDS EventHistory

CONSTANTS
    Backends,    \* the deployments checked, of the five below
    TenantOf,    \* the tenant of the store a writer was given
    Writers,     \* coroutines that store, fork and purge
    Readers,     \* coroutines that replay and subscribe
    Kinds,       \* "msg", and "prime": a priming event, with an empty payload
    Bound,       \* per backend, how many stores, forks, faults and reads, and operations in all
    Batch        \* rows per page, chunk or purge batch

Services == {"flusher", "closer"}         \* SQLite's commit loop, and aclose
Procs == Writers \cup Readers \cup Services

ASSUME TableAssumption ==
    /\ Backends \subseteq {"sqlite", "behind", "script", "pipe", "postgres"}
    /\ Bound \in [Backends -> [{"stores", "forks", "faults", "reads", "all"} -> Nat]] /\ Batch \in Nat \ {0}
    /\ Writers \cap Readers = {} /\ Services \cap (Writers \cup Readers) = {} /\ Nobody \notin Procs
    /\ TenantOf \in [Writers -> Tenants] /\ NoTenant \in Tenants

VARIABLES
    backend,     \* which store the server was started with
    rows,        \* the events a query sees (Redis: the event hashes)
    index,       \* Redis: the members of the streams' sorted sets
    forks,       \* child stream -> its parent and the event it forked at
    seq,         \* the id sequence: AUTOINCREMENT, IDENTITY or the INCR counter
    old,         \* ids whose created_at lies before the ttl cutoff
    disk,        \* SQLite: rows, forks and seq as last committed
    op,          \* what each coroutine is doing
    acked,       \* history: the events store_event returned an id for
    removed,     \* history: ids purged, expired or trimmed
    used         \* history: operations spent of each bounded kind

common == <<backend, rows, index, forks, seq, old, disk, op, acked, removed, used>>

MaxStores == Bound[backend].stores
NoMax == MaxStores + 1                    \* stands for the None of max_id

Sql == backend \notin {"script", "pipe"}
Bump(c) ==
    /\ used[c] < Bound[backend][c]
    /\ used.stores + used.forks + used.faults + used.reads < Bound[backend].all
    /\ used' = [used EXCEPT ![c] = @ + 1]
Go(p, o) == op' = [op EXCEPT ![p] = o]
Ack(p) == /\ acked' = acked \cup {op[p].row}
          /\ Go(p, Idle)

\* The row the next store_event of a stream writes; every call has a content of its own.
NewRow(s, t, k) == [id |-> seq + 1, s |-> s, t |-> t, k |-> k, call |-> used.stores + 1]

\* Mutant of Own: the tenant filter is left out.
OwnAll(t) == {x \in rows : t = t}
\* What a store bound to tenant t sees.
Own(t) == {x \in rows : Sees(t, x)}

---------------------------------------------------------------------------
(* Replay.                                                                 *)

\* The ids a replay that starts now has to return: returned to a caller, still
\* stored, not expired, after the anchor.
Wanted(s, t, last) ==
    {e.id : e \in {x \in History(forks, s, acked) : x \in rows /\ Sees(t, x) /\ x.k = "msg"
                                                    /\ x.id > last /\ x.id \notin old}}

\* replay_events_after(last, stream): without a stream the anchor's own one is used,
\* and an anchor that is not stored (any more) is answered with None.
Resolve(r, last, s, t) ==
    /\ op[r] = Idle
    /\ Bump("reads")
    /\ Go(r, [k |-> "link", s |-> s, t |-> t, last |-> last, cur |-> s, max |-> NoMax, seen |-> {},
              segs |-> <<>>, cut |-> {}, at |-> 0, ids |-> {}, out |-> <<>>, stale |-> {},
              must |-> Wanted(s, t, last), fk |-> forks, at0 |-> used.forks])
    /\ UNCHANGED <<backend, rows, index, forks, seq, old, disk, acked, removed>>
Resolvable(last, s, t) == \/ s \in Streams
                          \/ \E x \in Own(t) : x.id = last /\ s = x.s

\* One lookup of the fork table: the walk ends at a stream that was not forked, or
\* at one it has already visited.
SegmentAt(o, end) == [s |-> o.cur, min |-> IF end THEN 0 ELSE forks[o.cur].at, max |-> o.max]
LinkBy(r, end, segs) ==
    LET go == [op[r] EXCEPT !.segs = segs, !.seen = @ \cup {op[r].cur}]
    IN  /\ op[r].k = "link"
        /\ Go(r, IF end THEN [go EXCEPT !.k = "read", !.cut = old]
                 ELSE [go EXCEPT !.cur = forks[op[r].cur].p, !.max = forks[op[r].cur].at])
        /\ UNCHANGED <<backend, rows, index, forks, seq, old, disk, acked, removed, used>>
LastLink(o) == forks[o.cur] = Root \/ o.cur \in o.seen
\* The segments so far, the parent's put in front of its child's.
Extended(o, end) == <<SegmentAt(o, end)>> \o o.segs
\* Mutants of Link: visited streams are not noticed, or the segments are not reversed.
LinkForever(r) == LinkBy(r, forks[op[r].cur] = Root, Extended(op[r], forks[op[r].cur] = Root))
LinkUnreversed(r) == LinkBy(r, LastLink(op[r]), Append(op[r].segs, SegmentAt(op[r], LastLink(op[r]))))
Link(r) == LinkBy(r, LastLink(op[r]), Extended(op[r], LastLink(op[r])))

Seg(o) == Head(o.segs)
Low(o) == LET m == IF Seg(o).min > o.last THEN Seg(o).min ELSE o.last
          IN  IF o.at > m THEN o.at ELSE m
\* Mutant of InSegment: the event at the fork point is left out.
InSegmentOpen(o, S) == {x \in S : x.s = Seg(o).s /\ x.id > Low(o) /\ x.id < Seg(o).max}
InSegment(o, S) == {x \in S : x.s = Seg(o).s /\ x.id > Low(o) /\ x.id <= Seg(o).max}
\* The operation after it emitted the rows R; `more` of the segment is left or not.
Emit(o, R, at, more) ==
    LET rest == IF more THEN o.segs ELSE Tail(o.segs)
    IN  [o EXCEPT !.out = @ \o Sorted({x \in R : x.k = "msg"}), !.segs = rest,
                  !.at = IF more THEN at ELSE 0,
                  !.k = IF rest # <<>> THEN "read" ELSE IF o.stale # {} THEN "prune" ELSE "done"]

\* The caller has the answer of its replay and goes on.
Answered(r) ==
    /\ op[r].k = "done"
    /\ Go(r, Idle)
    /\ UNCHANGED <<backend, rows, index, forks, seq, old, disk, acked, removed, used>>

---------------------------------------------------------------------------
(* Forks, age and subscriptions.                                           *)

\* Mutant of ForkAt: the fork point is one too low.
ForkBefore(s, parent, at) == forks' = [forks EXCEPT ![s] = [p |-> parent, at |-> at - 1]]
ForkAt(s, parent, at) == forks' = [forks EXCEPT ![s] = [p |-> parent, at |-> at]]

\* A stored event grows older than the ttl; the oldest first.
Ages ==
    /\ Sql
    /\ \E x \in rows : /\ x.id \notin old
                       /\ \A y \in rows : y.id < x.id => y.id \in old
                       /\ old' = old \cup {x.id}
    /\ Bump("faults")
    /\ UNCHANGED <<backend, rows, index, forks, seq, disk, op, acked, removed>>

\* What a purge may take: of the rows before its cutoff those its store sees
\* (purge_expired) or those of exactly one tenant (purge_tenant).
Purgeable(o) == {x \in rows : /\ x.id \in o.cut
                              /\ IF o.bound THEN Sees(o.t, x) ELSE x.t = o.t}

\* The server of a networked store restarts: the store keeps what it was sent.
Restart ==
    /\ backend \in {"script", "pipe", "postgres"}
    /\ Bump("faults")
    /\ op' = [p \in Procs |-> Idle]
    /\ UNCHANGED <<backend, rows, index, forks, seq, old, disk, acked, removed>>

\* The ids taken whose store_event is over, its notification sent or given up.
Over == 1..seq \ {op[p].row.id : p \in {q \in Writers : "row" \in DOMAIN op[q]}}
\* Mutant of Subscribed: a subscriber is told of what the stream holds already.
SubscribedWithBacklog(s, t, from) ==
    LET q == Sorted({x \in rows : x.s = s})
    IN  [k |-> "sub", s |-> s, t |-> t, from |-> from, before |-> Over, at |-> from,
         inbox |-> [i \in 1..Len(q) |-> q[i].id], got |-> <<>>]
\* A subscriber of a stream, what is over when it attaches (history), and the notification
\* of a write it may or may not get.
Subscribed(s, t, from) == [k |-> "sub", s |-> s, t |-> t, from |-> from, before |-> Over, at |-> from,
                           inbox |-> <<>>, got |-> <<>>]
Publish(p) ==
    LET x == op[p].row
        told == [r \in Readers |-> IF op[r].k = "sub" /\ op[r].s = x.s
                                   THEN [op[r] EXCEPT !.inbox = Append(@, x.id)] ELSE op[r]]
    IN  /\ op[p].k = "publish"
        /\ op' = [q \in Procs |-> IF q = p THEN Idle
                                  ELSE IF q \in Readers /\ x.k = "msg" THEN told[q] ELSE op[q]]
        /\ acked' = acked \cup {x}
        /\ UNCHANGED <<backend, rows, index, forks, seq, old, disk, removed, used>>
Unpublished(p) ==
    /\ op[p].k = "publish"
    /\ Ack(p)
    /\ Bump("faults")
    /\ UNCHANGED <<backend, rows, index, forks, seq, old, disk, removed>>
\* The subscriber looks the notified event up; it yields an event of its own stream only.
Deliver(r, found) ==
    LET o == op[r]
        hit == {x \in found : x.id = Head(o.inbox) /\ x.s = o.s /\ x.k = "msg"}
    IN  /\ o.k = "sub" /\ o.inbox # <<>>
        /\ Go(r, [o EXCEPT !.inbox = Tail(@), !.got = @ \o Sorted(hit)])
        /\ UNCHANGED <<backend, rows, index, forks, seq, old, disk, acked, removed, used>>
Unsubscribe(r) ==
    /\ op[r].k = "sub"
    /\ Go(r, Idle)
    /\ UNCHANGED <<backend, rows, index, forks, seq, old, disk, acked, removed, used>>
====
