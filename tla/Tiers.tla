---- MODULE Tiers ----
(***************************************************************************)
(* Tiered storage: a hot store that takes every new event, a cold store    *)
(* without a ttl, archivers that move expired events from one to the       *)
(* other, and ChainedEventStore, which resumes a client across both.  Each *)
(* query of a store is a step; EventStores looks inside the stores.        *)
(***************************************************************************)
EXTENDS EventHistory

CONSTANTS
    Jobs,        \* what the stores are used for: "archive", "resume", and the jobs of Upkeep
    Archivers,   \* servers that run an ArchiveScheduler over the same two stores
    Crew,        \* per job, those that do
    Readers,     \* clients that resume through a ChainedEventStore
    Batch,       \* batch_size
    Bound        \* per job, how many stores, forks, faults and reads are explored

Services == {"forker", "purger", "retainer", "migrator"}

ASSUME TiersAssumption ==
    /\ Batch \in Nat \ {0} /\ NoTenant \in Tenants /\ Nobody \notin Streams
    /\ Bound \in [Jobs -> [{"stores", "forks", "faults", "reads"} -> Nat]]
    /\ Crew \in [Jobs -> SUBSET Archivers]
    /\ Archivers \cap (Readers \cup Services) = {} /\ Readers \cap Services = {}

VARIABLES
    job,                  \* what this deployment does
    hot, cold,            \* the rows of the two stores
    hotForks, coldForks,
    seq, coldSeq,         \* their id sequences
    old,                  \* ids whose created_at lies before the cutoff
    op,                   \* what each coroutine is doing
    acked,                \* history: the events stored
    used                  \* history: operations spent of each bounded kind

tiers == <<job, hot, cold, hotForks, coldForks, seq, coldSeq, old, op, acked, used>>

Procs == Archivers \cup Readers \cup Services
Bump(c) == used[c] < Bound[job][c] /\ used' = [used EXCEPT ![c] = @ + 1]
Go(p, o) == op' = [op EXCEPT ![p] = o]
Tiered == job \in {"archive", "resume"}
Top == Bound[job].stores      \* no id is higher: stands for the None of max_id

\* store_event goes to hot only.
Store(s, t) ==
    LET x == [id |-> seq + 1, s |-> s, t |-> t, from |-> seq + 1]
    IN  /\ Bump("stores")
        /\ hot' = hot \cup {x} /\ acked' = acked \cup {x} /\ seq' = x.id
        /\ UNCHANGED <<job, cold, hotForks, coldForks, coldSeq, old, op>>
\* An event grows older than the ttl (the window) of its tenant; the oldest first.
Ages(t) ==
    LET young == {x \in hot : x.t = t /\ x.id \notin old}
    IN  /\ young # {}
        /\ old' = old \cup Ids(SmallestOf(young, 1))
        /\ UNCHANGED <<job, hot, cold, hotForks, coldForks, seq, coldSeq, op, acked, used>>

---------------------------------------------------------------------------
(* ArchiveScheduler and archive_expired_batch: select a batch, copy it row *)
(* by row, delete it, and go on as long as the batches are full.           *)

Expired == {x \in hot : x.id \in old}
Select(a) ==
    /\ a \in Crew[job] /\ op[a].k \in {"idle", "again"}
    /\ op[a] = Idle => Expired # {}
    /\ LET batch == SmallestOf(Expired, Batch)
       IN  Go(a, IF batch = {} THEN Idle ELSE [k |-> "copy", batch |-> batch, left |-> batch])
    /\ UNCHANGED <<job, hot, cold, hotForks, coldForks, seq, coldSeq, old, acked, used>>
\* _store_event_raw: an upsert by event id.
Upsert(S, x) == {y \in S : y.id # x.id} \cup {x}
\* Later ids of the store it goes to are issued above its id.
RaisedTo(current, id) == IF id > current THEN id ELSE current
\* A replay of cold under way may miss it: it may have passed the row's segment.
Copy(a) ==
    /\ op[a].k = "copy"
    /\ \E x \in SmallestOf(op[a].left, 1) :
       LET left == op[a].left \ {x}
       IN  /\ cold' = Upsert(cold, x)
           /\ coldSeq' = RaisedTo(coldSeq, x.id)
           /\ op' = [q \in Procs |->
                       CASE q = a -> [op[a] EXCEPT !.left = left, !.k = IF left = {} THEN "delete" ELSE "copy"]
                         [] op[q].k = "read" -> [op[q] EXCEPT !.moved = @ \cup {x.id}]
                         [] OTHER -> op[q]]
    /\ UNCHANGED <<job, hot, hotForks, coldForks, seq, old, acked, used>>

\* The rows of S leave hot.  A replay under way notes those it may miss: in the hot tier
\* since it looked its anchor up there, in cold since it began to read it.
Exposed(o) == o.k \in {"hot", "read", "walk"} \/ (o.k = "ask" /\ "hot" \in o.has)
Removes(p, S, next) ==
    /\ hot' = hot \ S
    /\ op' = [q \in Procs |->
                CASE q = p -> next
                  [] q \in Readers /\ Exposed(op[q]) -> [op[q] EXCEPT !.moved = @ \cup Ids(S)]
                  [] OTHER -> op[q]]
DeletesBatch(a, S) ==
    /\ op[a].k = "delete"
    /\ Removes(a, S, IF Cardinality(op[a].batch) < Batch THEN Idle ELSE [k |-> "again"])
    /\ UNCHANGED <<job, cold, hotForks, coldForks, seq, coldSeq, old, acked, used>>
\* Mutant of Delete: whatever is expired by now goes, not the batch that was copied.
DeleteExpired(a) == DeletesBatch(a, Expired)
\* delete_events of exactly the batch.
Delete(a) == DeletesBatch(a, {x \in hot : x.id \in Ids(op[a].batch)})
\* Mutant of Fails: an error ends the task.
FailsForGood(a) ==
    /\ op[a].k \in {"copy", "delete", "again"}
    /\ Bump("faults")
    /\ Go(a, [k |-> "ended"])
    /\ UNCHANGED <<job, hot, cold, hotForks, coldForks, seq, coldSeq, old, acked>>
\* A query fails and the cycle is given up until the next interval; or the server dies
\* and its successor starts a scheduler again.
Fails(a) ==
    /\ op[a].k \in {"copy", "delete", "again"}
    /\ Bump("faults")
    /\ Go(a, Idle)
    /\ UNCHANGED <<job, hot, cold, hotForks, coldForks, seq, coldSeq, old, acked>>
Archive(a) == Select(a) \/ Copy(a) \/ Delete(a)

---------------------------------------------------------------------------
(* ChainedEventStore.fork_stream: the hot store's, then the cold store's.  *)

Forkable(child, parent, at) ==
    /\ child # parent /\ hotForks[child] = Root /\ child \notin Ancestors(hotForks)[parent]
    /\ \A x \in acked : x.s # child
    /\ \E x \in acked : x.id = at /\ x.s = parent
ForkHot(child, parent, at) ==
    /\ op["forker"] = Idle /\ Forkable(child, parent, at)
    /\ Bump("forks")
    /\ hotForks' = [hotForks EXCEPT ![child] = [p |-> parent, at |-> at]]
    /\ Go("forker", [k |-> "fork", s |-> child])
    /\ UNCHANGED <<job, hot, cold, coldForks, seq, coldSeq, old, acked>>
ForkCold ==
    /\ op["forker"].k = "fork"
    /\ coldForks' = [coldForks EXCEPT ![op["forker"].s] = hotForks[op["forker"].s]]
    /\ Go("forker", Idle)
    /\ UNCHANGED <<job, hot, cold, hotForks, seq, coldSeq, old, acked, used>>
ForkColdFails ==
    /\ op["forker"].k = "fork"
    /\ Go("forker", Idle)
    /\ UNCHANGED <<job, hot, cold, hotForks, coldForks, seq, coldSeq, old, acked, used>>

---------------------------------------------------------------------------
(* ChainedEventStore.replay_events_after.                                  *)

\* What a replay that starts now is for: the later events of the stream's history in
\* either tier, by the forks of the tier its anchor is in; a fork that has not reached cold
\* hides its parent's part from a replay of cold.
Wanted(last, s) ==
    LET stored == hot \cup cold
        past == IF s = Nobody THEN {x \in stored : \E y \in stored : y.id = last /\ x.s = y.s}
                ELSE History(IF last \in Ids(hot) THEN hotForks ELSE coldForks, s, stored)
    IN  IF last \in Ids(stored) THEN Ids({x \in past : x.id > last}) ELSE {}

\* The tiers in the order the anchor is looked up in them; the mutant asks cold first.
LookupsSwapped == <<"cold", "hot">>
Lookups == <<"hot", "cold">>
Tier(t) == IF t = "cold" THEN cold ELSE hot
Found(t, id) == IF id \in Ids(Tier(t)) THEN {t} ELSE {}

AskFirst(r, last, s) ==
    /\ op[r] = Idle
    /\ Bump("reads")
    /\ Go(r, [k |-> "ask", last |-> last, s |-> s, has |-> Found(Lookups[1], last), tier |-> "hot", segs |-> <<>>,
              from |-> last, cut |-> {}, out |-> <<>>, moved |-> {}, must |-> Wanted(last, s)])
    /\ UNCHANGED <<job, hot, cold, hotForks, coldForks, seq, coldSeq, old, acked>>
\* An anchor that hot has is replayed from hot, else one that cold has from cold; what
\* neither has is answered with None.
AskSecond(r) ==
    LET o == op[r]
        has == o.has \cup Found(Lookups[2], o.last)
    IN  /\ o.k = "ask"
        /\ Go(r, [o EXCEPT !.has = has, !.k = IF "hot" \in has THEN "hot" ELSE IF "cold" \in has THEN "cold" ELSE "done"])
        /\ UNCHANGED <<job, hot, cold, hotForks, coldForks, seq, coldSeq, old, acked, used>>

\* The stream a tier reads: the one asked for, else the anchor's.
StreamsOf(o, S) == IF o.s # Nobody THEN {o.s} ELSE {x.s : x \in {y \in S : y.id = o.last}}
\* hot.replay_events_after: its ttl hides what is expired; an anchor that has left is None.
ReplayHot(r) ==
    LET o == op[r]
    IN  /\ o.k = "hot"
        /\ Go(r, IF StreamsOf(o, hot) = {} THEN [o EXCEPT !.k = "done"]
                 ELSE LET s == CHOOSE x \in StreamsOf(o, hot) : TRUE
                      IN  [o EXCEPT !.k = "read", !.s = s, !.segs = Segments(hotForks, s, Top), !.cut = old])
        /\ UNCHANGED <<job, hot, cold, hotForks, coldForks, seq, coldSeq, old, acked, used>>
\* cold.replay_events_after, of the stream that _stream_id_for_event of cold resolved.
ReplayCold(r) ==
    /\ op[r].k = "cold"
    /\ \E s \in StreamsOf(op[r], cold) :
          Go(r, [op[r] EXCEPT !.k = "read", !.tier = "cold", !.s = s, !.segs = Segments(coldForks, s, Top)])
    /\ UNCHANGED <<job, hot, cold, hotForks, coldForks, seq, coldSeq, old, acked, used>>
\* One segment read and sent.
ReadSegment(r) ==
    LET o == op[r]
        seg == Head(o.segs)
        R == {x \in Tier(o.tier) : x.s = seg.s /\ x.id > seg.min /\ x.id <= seg.max /\ x.id > o.from /\ x.id \notin o.cut}
        after == IF o.tier = "cold" THEN "walk" ELSE "done"
    IN  /\ o.k = "read"
        /\ Go(r, [o EXCEPT !.out = @ \o Sorted(R), !.segs = Tail(@),
                           !.k = IF Len(o.segs) = 1 THEN after ELSE "read"])
        /\ UNCHANGED <<job, hot, cold, hotForks, coldForks, seq, coldSeq, old, acked, used>>
\* _replay_stream_after: the hot events of the stream after the last one cold sent.
Walk(r) ==
    LET o == op[r]
    IN  /\ o.k = "walk"
        /\ Go(r, [o EXCEPT !.k = "read", !.tier = "rest", !.segs = Segments(hotForks, o.s, Top),
                           !.from = IF o.out = <<>> THEN o.last ELSE o.out[Len(o.out)].id])
        /\ UNCHANGED <<job, hot, cold, hotForks, coldForks, seq, coldSeq, old, acked, used>>
Answered(r) ==
    /\ op[r].k = "done"
    /\ Go(r, Idle)
    /\ UNCHANGED <<job, hot, cold, hotForks, coldForks, seq, coldSeq, old, acked, used>>

TierStep ==
    /\ Tiered
    /\ \/ \E s \in Streams : Store(s, NoTenant)
       \/ Ages(NoTenant)
       \/ \E a \in Archivers : Archive(a) \/ Fails(a)
       \/ \E c, p \in Streams, at \in 1..seq : ForkHot(c, p, at)
       \/ ForkCold \/ ForkColdFails
       \/ \E r \in Readers, last \in 0..seq, s \in Streams \cup {Nobody} : AskFirst(r, last, s)
       \/ \E r \in Readers : AskSecond(r) \/ ReplayHot(r) \/ ReplayCold(r) \/ ReadSegment(r) \/ Walk(r) \/ Answered(r)

---------------------------------------------------------------------------

\* Every event that was stored is in one of the two tiers, unchanged, whatever fails
\* between the copies and the delete of a batch and however two archivers overlap.
NothingLost == Tiered => acked \subseteq hot \cup cold

\* A resumed client gets only events of the stream's own history after its anchor, each once
\* and in id order, also those that were in both tiers when the replay passed.  It misses
\* nothing of what was stored when it asked, except what was moved to cold while it read,
\* and, when its anchor is still hot, what is expired; an anchor that is archived between
\* the two lookups is found.  One client gets nothing at all, expired or not: the one that
\* names no stream and whose anchor is moved after it was found in hot (tiered.py:98) and
\* before hot resolves it (tiered.py:105); nobody asks cold then, so its token does not stay
\* "valid across the move" (docs/tiered-storage.md:57).
ReplayFaithful ==
    \A r \in Readers : op[r].k = "done" =>
        LET o == op[r]
        IN  /\ \A i \in DOMAIN o.out : o.out[i] \in History(hotForks, o.s, acked) /\ o.out[i].id > o.last
            /\ \A i, j \in DOMAIN o.out : i < j => o.out[i].id < o.out[j].id
            /\ IF o.s = Nobody /\ "hot" \in o.has
               THEN o.last \in o.moved /\ o.out = <<>>
               ELSE o.must \ (o.moved \cup o.cut) \subseteq Ids(ToSet(o.out))

\* An archiver catches up, and so does a purge scheduler: however their cycles fail, once
\* events stop expiring the hot store ends up without an expired one.
Drained == job \in {"archive", "purge"} => <>[](Expired = {})
====
