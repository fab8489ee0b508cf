---- MODULE EventStores ----
(***************************************************************************)
(* A server with one of the event stores: SqliteStore in its two modes,    *)
(* RedisStore in its two modes, or PostgresStore, chosen at the start.     *)
(***************************************************************************)
EXTENDS SqliteStore, RedisStore, PostgresStore

vars == <<common, sqvars>>

Init ==
    /\ backend \in Backends
    /\ rows = {} /\ index = {} /\ seq = 0 /\ old = {}
    /\ forks = [s \in Streams |-> Root]
    /\ disk = [rows |-> rows, forks |-> forks, seq |-> seq]
    /\ op = [p \in Procs |-> Idle]
    /\ acked = {} /\ removed = {}
    /\ used = [stores |-> 0, forks |-> 0, faults |-> 0, reads |-> 0]
    /\ pending = 0 /\ lock = Nobody

Shared ==
    \/ Ages \/ Restart
    \/ \E p \in Writers : Publish(p) \/ Unpublished(p)
    \/ \E r \in Readers : Answered(r) \/ Unsubscribe(r)

Next == \/ SqNext
        \/ (RdNext \/ PgNext \/ Shared) /\ UNCHANGED sqvars

Spec == Init /\ [][Next]_vars

---------------------------------------------------------------------------

RowType == [id : 1..MaxStores, s : Streams, t : Tenants, k : Kinds, call : 1..MaxStores]

\* The table and its histories hold rows, the index the members of streams.
TypeOK ==
    /\ backend \in Backends
    /\ rows \subseteq RowType /\ acked \subseteq RowType /\ disk.rows \subseteq RowType
    /\ index \subseteq [s : Streams, id : 1..MaxStores]
    /\ forks \in [Streams -> {Root} \cup [p : Streams, at : 1..MaxStores]]
    /\ seq \in 0..MaxStores /\ old \subseteq 1..MaxStores /\ removed \subseteq 1..MaxStores
    /\ pending \in 0..MaxStores /\ lock \in Procs \cup {Nobody}

Done(r) == op[r].k = "done"
\* ... and the fork table is as it was when it began
Settled(r) == Done(r) /\ forks = op[r].fk /\ used.forks = op[r].at0 /\ Acyclic(forks)
OutIds(r) == {op[r].out[i].id : i \in DOMAIN op[r].out}

\* A finished replay returned every event the stream's history had when it began (its own
\* and those inherited through forks) that was acknowledged, is after the anchor and was
\* not removed or expired meanwhile: no page, chunk or segment boundary, and no write,
\* purge or crash between two queries, loses one (replay_events_after).
ReplayComplete ==
    \A r \in Readers :
        Settled(r) => op[r].must \ (removed \cup op[r].cut) \subseteq OutIds(r)

\* A finished replay returned each event once and in the order of the ids, although its parts
\* come from several streams and queries (the segments, root first), only events after the
\* anchor, of the history of the stream it asked for (of a parent nothing after the fork
\* point) and of the tenant its store is bound to.  A chain of forks that loops back on
\* itself is not walked forever (_get_stream_segments).
ReplayExact ==
    \A r \in Readers :
        /\ op[r].k = "link" => Len(op[r].segs) <= Cardinality(Streams)
        /\ Settled(r) =>
              LET out == op[r].out
              IN  /\ \A i, j \in DOMAIN out : i < j => out[i].id < out[j].id
                  /\ \A x \in ToSet(out) : /\ x.id > op[r].last /\ Sees(op[r].t, x)
                                          /\ x \in History(forks, op[r].s, {x})

\* SQLite that commits every event survives a crash with all it returned an id for; with
\* write-behind an event that was returned but not committed is always counted in
\* _pending, so the next flush commits it, whoever else used the connection meanwhile;
\* and aclose, if its commit worked, leaves nothing behind.  An event of Redis that was
\* stored and not trimmed or expired, by itself or with its stream's index, is in that
\* index: the pruning of a replay takes no member whose payload is about to be written.
AckedReachesDisk ==
    LET open == (acked \cap rows) \ disk.rows
    IN  /\ backend = "sqlite" => open = {}
        /\ backend = "behind" /\ open # {} => pending > 0 /\ op["closer"].k # "close"
        /\ Redis => \A x \in acked \cap rows : x.id \notin removed => Entry(x) \in index

\* Where the id is taken and the row made visible in one step (SQLite, the Redis script)
\* an event appears behind every event that is stored, and, but for write-behind, behind
\* every id that store_event returned, purged or not and whatever crashed meanwhile: a
\* client whose Last-Event-ID was returned misses no later event.  With write-behind a
\* crash gives returned ids out again (IdsNeverReused).
NoLateArrival ==
    [][\A x \in rows' \ (rows \cup disk.rows) :
          /\ backend \in {"sqlite", "behind", "script"} => \A y \in rows : y.id < x.id
          /\ backend \in {"sqlite", "script"} => \A y \in acked : y.id < x.id]_vars

\* A subscriber gets each event of its stream at most once.  Polling SQLite it gets none up
\* to the newest there was when it subscribed, the later ones in order, and skips none.  Of
\* a networked store it gets none whose store_event was over when it attached; one that was
\* stored but not announced yet it does get, so "written after the subscription is
\* established" (redis.py:1001, postgres.py:1176) holds of the notification only.
SubscriberSound ==
    \A r \in Readers : op[r].k = "sub" =>
        LET g == op[r].got
        IN  /\ \A i, j \in DOMAIN g : i # j => g[i].id # g[j].id
            /\ \A i \in DOMAIN g : g[i].s = op[r].s
            /\ ~ Sqlite => \A i \in DOMAIN g : g[i].id \notin op[r].before
            /\ Sqlite => /\ \A i \in DOMAIN g : g[i].id > op[r].from
                         /\ \A i, j \in DOMAIN g : i < j => g[i].id < g[j].id
                         /\ \A x \in Own(op[r].t) :
                              (x.s = op[r].s /\ x.k = "msg" /\ x.id > op[r].from /\ x.id <= op[r].at)
                                 => \E i \in DOMAIN g : g[i] = x

\* docs/backends.md:99 says of SQLite's ids "strictly increasing, never reused".  In the
\* write-behind mode the sequence is part of the transaction a crash drops.
IdsNeverReused == \A x, y \in acked : x.id = y.id => x = y

\* docs/api.md:429 lets a session be branched "at any point".  A stream forked from a fork
\* at an inherited event, before that fork's own fork point, gets more of the ancestor than
\* its past: an ancestor's segment ends at its own child's fork point, not at the lowest
\* one below it.
BranchHasItsPastOnly == ReplayExact
====
