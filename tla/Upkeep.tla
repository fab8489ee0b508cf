---- MODULE Upkeep ----
(***************************************************************************)
(* The other jobs done to a store: PurgeScheduler deletes what is expired; *)
(* RetentionScheduler deletes by tenant and has every deletion recorded by *)
(* an audit sink; migrate, export and import copy streams into another     *)
(* store, under new ids.  A behaviour runs one job; hot is the store, or   *)
(* the source, and cold the destination.                                   *)
(***************************************************************************)
EXTENDS Tiers

CONSTANTS
    Windows      \* the tenants the retention policy has a window for

ASSUME UpkeepAssumption ==
    /\ Jobs \subseteq {"archive", "resume", "purge", "strict", "lenient", "migrate", "dump"} /\ Windows \subseteq Tenants

VARIABLES
    audit,       \* what the sink recorded: the number of deletions, by tenant
    gone,        \* history: the rows purged
    amiss,       \* history: tenants of which a purge, or the process, failed halfway
    source       \* history: the source when the migration started

upkeep == <<audit, gone, amiss, source>>
vars == <<tiers, upkeep>>

---------------------------------------------------------------------------
(* PurgeScheduler: job "purge".                                            *)

\* purge_expired takes its cutoff and deletes batch by batch; a short one is the last.
Purge ==
    LET cut == IF op["purger"] = Idle THEN old ELSE op["purger"].cut
        S == SmallestOf({x \in hot : x.id \in cut}, Batch)
    IN  /\ job = "purge"
        /\ op["purger"] = Idle => Expired # {}
        /\ hot' = hot \ S /\ gone' = gone \cup S
        /\ Go("purger", IF Cardinality(S) < Batch THEN Idle ELSE [k |-> "purge", cut |-> cut])
        /\ UNCHANGED <<job, cold, hotForks, coldForks, seq, coldSeq, old, acked, used, audit, amiss, source>>
\* A DELETE fails and is logged, or the scheduler is stopped and started: the rest is left
\* to the next interval.
PurgeGivesUp ==
    /\ op["purger"] # Idle
    /\ Bump("faults")
    /\ Go("purger", Idle)
    /\ UNCHANGED <<job, hot, cold, hotForks, coldForks, seq, coldSeq, old, acked, upkeep>>
PurgeStep ==
    /\ job = "purge"
    /\ \/ \E s \in Streams : Store(s, NoTenant) /\ UNCHANGED upkeep
       \/ Ages(NoTenant) /\ UNCHANGED upkeep
       \/ Purge \/ PurgeGivesUp

---------------------------------------------------------------------------
(* RetentionScheduler: job "strict" or "lenient" (strict_audit).           *)

Retains == job \in {"strict", "lenient"}
R == op["retainer"]
TenantsWithRows == {x.t : x \in hot}
\* distinct_tenants, at each interval.
Wakes ==
    /\ Retains /\ R = Idle
    /\ hot # {}
    /\ Go("retainer", [k |-> "cycle", left |-> TenantsWithRows])
    /\ UNCHANGED <<job, hot, cold, hotForks, coldForks, seq, coldSeq, old, acked, used, upkeep>>
\* The next tenant: one without a window is skipped, else purge_tenant takes its cutoff.
NextTenant(t) ==
    /\ R.k = "cycle" /\ t \in R.left
    /\ Go("retainer", IF t \notin Windows THEN [R EXCEPT !.left = @ \ {t}]
                      ELSE [k |-> "purge", left |-> R.left \ {t}, t |-> t, cut |-> old, n |-> 0])
    /\ UNCHANGED <<job, hot, cold, hotForks, coldForks, seq, coldSeq, old, acked, used, upkeep>>
CycleEnds ==
    /\ R.k = "cycle" /\ R.left = {}
    /\ Go("retainer", Idle)
    /\ UNCHANGED <<job, hot, cold, hotForks, coldForks, seq, coldSeq, old, acked, used, upkeep>>
\* One DELETE of purge_tenant: a batch of the tenant's rows before the cutoff; after a
\* short one the purge has its count, and what deleted nothing is not audited.
PurgeBatch ==
    LET S == SmallestOf({x \in hot : x.t = R.t /\ x.id \in R.cut}, Batch)
        n == R.n + Cardinality(S)
    IN  /\ R.k = "purge"
        /\ hot' = hot \ S /\ gone' = gone \cup S
        /\ Go("retainer", IF Cardinality(S) = Batch THEN [R EXCEPT !.n = n]
                          ELSE IF n = 0 THEN [k |-> "cycle", left |-> R.left]
                          ELSE [R EXCEPT !.n = n, !.k = "record"])
        /\ UNCHANGED <<job, cold, hotForks, coldForks, seq, coldSeq, old, acked, used, audit, amiss, source>>
\* A DELETE fails: the cycle is given up, what was deleted before is not recorded.
PurgeFails ==
    /\ R.k = "purge"
    /\ Bump("faults")
    /\ amiss' = IF R.n > 0 THEN amiss \cup {R.t} ELSE amiss
    /\ Go("retainer", Idle)
    /\ UNCHANGED <<job, hot, cold, hotForks, coldForks, seq, coldSeq, old, acked, audit, gone, source>>
Record ==
    /\ R.k = "record"
    /\ audit' = [audit EXCEPT ![R.t] = @ + R.n]
    /\ Go("retainer", [k |-> "cycle", left |-> R.left])
    /\ UNCHANGED <<job, hot, cold, hotForks, coldForks, seq, coldSeq, old, acked, used, gone, amiss, source>>
\* The sink fails.  Strict: the task ends, until somebody starts it again.  Else the
\* failure is logged and the cycle goes on.
SinkFails(strict) ==
    /\ R.k = "record"
    /\ Bump("faults")
    /\ Go("retainer", IF strict THEN [k |-> "halted", t |-> R.t] ELSE [k |-> "cycle", left |-> R.left])
    /\ amiss' = IF job = "lenient" THEN amiss \cup {R.t} ELSE amiss
    /\ UNCHANGED <<job, hot, cold, hotForks, coldForks, seq, coldSeq, old, acked, audit, gone, source>>
\* Mutant of RecordFails: the failure of the sink is taken for one of the cycle.
RecordFailsQuietly == SinkFails(FALSE)
RecordFails == SinkFails(job = "strict")
\* The server stops, or dies, and starts again.
Restarts ==
    /\ Retains /\ R # Idle
    /\ Bump("faults")
    /\ amiss' = CASE R.k = "halted" -> amiss \cup {R.t}
                  [] R.k \in {"purge", "record"} /\ R.n > 0 -> amiss \cup {R.t}
                  [] OTHER -> amiss
    /\ Go("retainer", Idle)
    /\ UNCHANGED <<job, hot, cold, hotForks, coldForks, seq, coldSeq, old, acked, audit, gone, source>>

RetentionStep ==
    /\ Retains
    /\ \/ \E s \in Streams, t \in Tenants : Store(s, t) /\ UNCHANGED upkeep
       \/ \E t \in Tenants : Ages(t) /\ UNCHANGED upkeep
       \/ Wakes \/ CycleEnds \/ PurgeBatch \/ PurgeFails \/ Record \/ RecordFails \/ Restarts
       \/ \E t \in Tenants : NextTenant(t)

---------------------------------------------------------------------------
(* migrate, and export_stream followed by import_stream.                   *)

M == op["migrator"]
Dump == job = "dump"      \* by way of a dump document
Migrates == job \in {"migrate", "dump"}
\* list_streams: the streams that have rows of their own.
StreamsWithRows == {x.s : x \in hot}
Migrate ==
    /\ Migrates /\ M = Idle /\ source = {}
    /\ hot # {}
    /\ source' = hot
    /\ Go("migrator", [k |-> "next", left |-> StreamsWithRows, done |-> {}])
    /\ UNCHANGED <<job, hot, cold, hotForks, coldForks, seq, coldSeq, old, acked, used, audit, gone, amiss>>
\* The next stream: _iter_stream_events walks the forks it has by then.
NextStream(s) ==
    /\ M.k = "next" /\ s \in M.left
    /\ Go("migrator", [k |-> "copy", left |-> M.left \ {s}, done |-> M.done, s |-> s,
                       segs |-> Segments(hotForks, s, Top), queue |-> <<>>])
    /\ UNCHANGED <<job, hot, cold, hotForks, coldForks, seq, coldSeq, old, acked, used, upkeep>>
EventsOf(seg) == Sorted({x \in hot : x.s = seg.s /\ x.id > seg.min /\ x.id <= seg.max})
\* One segment is read (expired events too); a migration reads the next one when it has
\* stored this one, a dump holds the whole document before anything is stored.
Fetch ==
    /\ M.k = "copy" /\ M.segs # <<>>
    /\ Dump \/ M.queue = <<>>
    /\ Go("migrator", [M EXCEPT !.segs = Tail(@), !.queue = @ \o EventsOf(Head(M.segs))])
    /\ UNCHANGED <<job, hot, cold, hotForks, coldForks, seq, coldSeq, old, acked, used, upkeep>>
\* dest.store_event: under the id the destination gives it.
PutAs(id) ==
    /\ M.k = "copy" /\ M.queue # <<>>
    /\ Dump => M.segs = <<>>
    /\ cold' = cold \cup {[id |-> id, s |-> M.s, t |-> NoTenant, from |-> Head(M.queue).from]}
    /\ coldSeq' = id
    /\ Go("migrator", [M EXCEPT !.queue = Tail(@)])
    /\ UNCHANGED <<job, hot, hotForks, coldForks, seq, old, acked, used, upkeep>>
\* Mutant of Put: the source's id is kept.
PutOldId == PutAs(Head(M.queue).id)
Put == PutAs(coldSeq + 1)
StreamDone ==
    /\ M.k = "copy" /\ M.segs = <<>> /\ M.queue = <<>>
    /\ Go("migrator", [k |-> "next", left |-> M.left, done |-> M.done \cup {M.s}])
    /\ UNCHANGED <<job, hot, cold, hotForks, coldForks, seq, coldSeq, old, acked, used, upkeep>>
\* Mutant of StreamFails: the event that failed is skipped, not its stream.
SkipsEvent ==
    /\ M.k = "copy" /\ M.queue # <<>>
    /\ Bump("faults")
    /\ Go("migrator", [M EXCEPT !.queue = Tail(@)])
    /\ UNCHANGED <<job, hot, cold, hotForks, coldForks, seq, coldSeq, old, acked, upkeep>>
\* A read or a write fails: the stream is noted as failed, part of it copied.
StreamFails ==
    /\ M.k = "copy"
    /\ Bump("faults")
    /\ Go("migrator", [k |-> "next", left |-> M.left, done |-> M.done])
    /\ UNCHANGED <<job, hot, cold, hotForks, coldForks, seq, coldSeq, old, acked, upkeep>>

MigrationStep ==
    /\ Migrates
    /\ \/ \E s \in Streams : Store(s, NoTenant) /\ UNCHANGED upkeep
       \/ \E c, p \in Streams, at \in 1..seq : ForkHot(c, p, at) /\ UNCHANGED upkeep
       \/ (ForkCold \/ ForkColdFails) /\ UNCHANGED upkeep
       \/ Migrate \/ Fetch \/ Put \/ StreamDone \/ StreamFails
       \/ \E s \in Streams : NextStream(s)

---------------------------------------------------------------------------

Init ==
    /\ job \in Jobs
    /\ hot = {} /\ cold = {} /\ hotForks = [s \in Streams |-> Root] /\ coldForks = hotForks
    /\ seq = 0 /\ coldSeq = 0 /\ old = {} /\ acked = {}
    /\ op = [p \in Procs |-> Idle]
    /\ used = [c \in {"stores", "forks", "faults", "reads"} |-> 0]
    /\ audit = [t \in Tenants |-> 0] /\ gone = {} /\ amiss = {} /\ source = {}
Next == (TierStep /\ UNCHANGED upkeep) \/ PurgeStep \/ RetentionStep \/ MigrationStep
Spec == Init /\ [][Next]_vars
\* A scheduler goes on at every interval and its queries return; nothing else need happen.
FairSpec == Spec /\ WF_vars(Purge) /\ \A a \in Archivers : WF_vars(Archive(a) /\ UNCHANGED upkeep)

\* Rows are numbered once in each store, and never beyond its sequence, also where rows come
\* in with the id they had elsewhere.
TypeOK ==
    /\ job \in Jobs
    /\ \A S \in {hot, cold} : \A x, y \in S : x.id = y.id => x = y
    /\ Ids(hot) \subseteq 1..seq /\ Ids(cold) \subseteq 1..coldSeq
    /\ \A s \in Streams : hotForks[s] = Root \/ hotForks[s] \in [p : Streams, at : 1..seq]
    /\ \A p \in Procs : op[p].k \in {"idle", "copy", "delete", "again", "ended", "fork", "ask", "hot", "cold",
                                      "read", "walk", "done", "cycle", "purge", "record", "halted", "next"}
    /\ audit \in [Tenants -> 0..seq]

\* The audit trail: it never claims a deletion that was not made; as long as the scheduler
\* goes on, a tenant's recorded deletions are those made, unless a purge or the process
\* broke off halfway; and only what is past its tenant's window is ever deleted, by
\* PurgeScheduler too.
AuditMatches ==
    \A t \in Tenants :
        LET n == Cardinality({x \in gone : x.t = t})
        IN  /\ audit[t] <= n
            /\ Retains /\ R.k \in {"idle", "cycle"} /\ t \notin amiss => audit[t] = n
            /\ \A x \in gone : (Retains => x.t \in Windows) /\ x.id \in old

\* A stream migrated without an error has in the destination the whole history it had when
\* the migration started, its ancestors' part included, in the order of the source; one
\* that failed, or is under way, has a prefix of it without a hole.
MigrationFaithful ==
    Migrates =>
    \A s \in Streams :
        LET copies == {x \in cold : x.s = s}
            copied == {x.from : x \in copies}
            wanted == Ids(History(hotForks, s, source))
        IN  /\ \A x, y \in copies : x.id < y.id => x.from < y.from
            /\ copied \subseteq Ids(History(hotForks, s, acked))
            /\ \A i \in wanted, j \in copied : i < j => i \in copied
            /\ M # Idle /\ s \in M.done => wanted \subseteq copied
====
