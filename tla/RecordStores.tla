---- MODULE RecordStores ----
(***************************************************************************)
(* Where the recorder's records go (records.py): a table of SQLite or of   *)
(* Postgres, or in Redis a hash per record and an index scored by          *)
(* recorded_at, written, listed and purged by pipelines that are not       *)
(* transactions.  Composed with RecordFlusher, whose writer is the only    *)
(* one that stores; "other" is a RecordStore of the application's own,     *)
(* which may take any part of a batch.                                     *)
(*                                                                         *)
(* A record is its number; of two the higher is the newer.  Instants are   *)
(* whole seconds, and so is what EXPIRE is given: a hash may be reclaimed  *)
(* up to a second before its record has aged out, or up to a second later. *)
(* Rows a failed SQLite call leaves in the open transaction count as       *)
(* stored: its connection sees them, the next commit keeps them.           *)
(***************************************************************************)
EXTENDS RecordFlusher

CONSTANTS
    Backends,    \* explored: "sqlite", "postgres", "redis", "other"
    Ttl,         \* the record ttl of Redis, in seconds
    MinPage,     \* list_records reads the index in pages of at least 50
    Limits,      \* the limits of a listing explored
    Bound        \* per backend: records, starts, closes, faults, ticks, lists, purges explored

ASSUME RecordStoresAssumption ==
    /\ Backends \subseteq {"sqlite", "postgres", "redis", "other"}
    /\ Ttl \in Nat \ {0} /\ MinPage \in Nat \ {0} /\ Limits \subseteq Nat \ {0}
    /\ Bound \in [Backends -> SUBSET [{"records", "starts", "closes", "faults", "ticks", "lists", "purges"} -> Nat]]

VARIABLES
    backend,
    now,
    at,          \* recorded_at of each record submitted
    rows,        \* the records in the table, or those with a hash
    mortal,      \* the hashes that were given their expiry
    index,       \* the members of the ZSET
    pipe,        \* the writer's call: the records it stores, the commands still to be applied
    purging,     \* purge(): the hashes still to be deleted, the ids it read
    listing,     \* list_records()
    purged,      \* history: the records a purge chose
    used,        \* history: lists and purges made
    bound        \* the bounds this behaviour stays within

store == <<backend, bound, now, at, rows, mortal, index, pipe, purging, listing, purged, used>>

Redis == backend = "redis"
Sql == backend \in {"sqlite", "postgres"}
Nothing == [plan |-> {}, todo |-> <<>>]
NoPurge == [left |-> <<>>, ids |-> {}]
Over == [k |-> "idle"]
Spend(c) == used[c] < bound[c] /\ used' = [used EXCEPT ![c] = @ + 1]
Aged(r, t) == at[r] + Ttl <= t
\* EXPIRE takes whole seconds, and at least one (records.py:807): a hash may go up to a second
\* before its record ages out, and may stay up to a second longer.
Fading(r) == Aged(r, now + 1)

---------------------------------------------------------------------------
(* store_records().                                                        *)

\* Mutant of CommandsFor: the index first.
IndexesFirst(r) == <<<<"zadd", r>>, <<"hset", r>>, <<"expire", r>>>>
CommandsFor(r) == <<<<"hset", r>>, <<"expire", r>>, <<"zadd", r>>>>
Commands(rs) == [i \in 1..(3 * Len(rs)) |-> CommandsFor(rs[(i + 2) \div 3])[((i + 2) % 3) + 1]]
\* The pipeline leaves out what is already older than the ttl; then the index drops the
\* members that are by then.
Pipeline(b) ==
    LET fresh == Picked(b, {i \in DOMAIN b : ~ Aged(b[i], now)})
    IN  [plan |-> ToSet(fresh), todo |-> Commands(fresh) \o <<<<"evict", now>>>>]
\* The next command of the pipeline is applied.
Applies(command) ==
    /\ pipe.todo # <<>> /\ Head(pipe.todo)[1] = command
    /\ pipe' = [pipe EXCEPT !.todo = Tail(@)]
    /\ UNCHANGED <<vars, backend, bound, now, at, purging, listing, purged, used>>
Subject == Head(pipe.todo)[2]
Hset == Applies("hset") /\ rows' = rows \cup {Subject} /\ UNCHANGED <<mortal, index>>
Expire == Applies("expire") /\ mortal' = mortal \cup ({Subject} \cap rows) /\ UNCHANGED <<rows, index>>
Zadd == Applies("zadd") /\ index' = index \cup {Subject} /\ UNCHANGED <<rows, mortal>>
Evict == Applies("evict") /\ index' = {r \in index : ~ Aged(r, Subject)} /\ UNCHANGED <<rows, mortal>>

\* The call took S: the writer's own history of it, and the table.
Took(S) ==
    /\ stored' = stored \cup S
    /\ rows' = IF Sql THEN rows \cup S ELSE rows
    /\ pipe' = Nothing
    /\ UNCHANGED <<backend, bound, now, at, mortal, index, purging, listing, purged, used>>
\* What a call that returns has stored, and counts: all of it, or what the pipeline was for.
SqliteStores == backend = "sqlite" /\ Took(ToSet(batch))
PgStores == backend = "postgres" /\ Took(ToSet(batch))
RdStores == Redis /\ pipe.todo = <<>> /\ Took(pipe.plan)
\* And one that raises or is cancelled: executemany stops at a row, or the commit fails; the
\* answer of the INSERT is lost; the pipeline breaks off with the commands sent by then.
SqliteBreaks == backend = "sqlite" /\ \E n \in 0..Len(batch) : Took(ToSet(SubSeq(batch, 1, n)))
PgBreaks == backend = "postgres" /\ \E S \in {{}, ToSet(batch)} : Took(S)
Unsent == {r \in pipe.plan : \E command \in {"hset", "expire", "zadd"} : <<command, r>> \in ToSet(pipe.todo)}
RdBreaks == Redis /\ Took(pipe.plan \ Unsent)
\* What a store of the application's own takes is left to the flusher's steps.
Other == backend = "other" /\ UNCHANGED store
Answers == SqliteStores \/ PgStores \/ RdStores \/ Other
Breaks == SqliteBreaks \/ PgBreaks \/ RdBreaks \/ Other

---------------------------------------------------------------------------
(* list_records(), count(), purge().                                       *)

\* The calls of one of two methods, or (None) of all.
Matching(method) == {r \in DOMAIN at : method = "none" \/ (method = "a" <=> r % 2 = 0)}
NewestFirst(S) == Reverse(Ascending(S))
Slice(q, start, n) == SubSeq(q, start + 1, IF start + n < Len(q) THEN start + n ELSE Len(q))
Page(limit) == IF limit < MinPage THEN MinPage ELSE limit

\* What an answer is about: the records the store confirmed and no purge chose by now.
Must(method) == (stored \ purged) \cap Matching(method)
Asked(answer) ==
    /\ listing = Over
    /\ Spend("lists")
    /\ listing' = answer
    /\ UNCHANGED <<vars, backend, bound, now, at, rows, mortal, index, pipe, purging, purged>>
\* SQL answers with one query ...
Selected(method, limit) ==
    [k |-> "done", out |-> Slice(NewestFirst(rows \cap Matching(method)), 0, limit),
     method |-> method, limit |-> limit, must |-> Must(method)]
SqliteList(method, limit) == backend = "sqlite" /\ Asked(Selected(method, limit))
PgList(method, limit) == backend = "postgres" /\ Asked(Selected(method, limit))
\* ... Redis begins with the first page of the index.
RdList(method, limit) ==
    Redis /\ Asked([k |-> "get", ids |-> Slice(NewestFirst(index), 0, Page(limit)), start |-> Page(limit),
                    out |-> <<>>, stale |-> {}, method |-> method, limit |-> limit, must |-> Must(method)])
HasHash(r) == r \in rows
\* The next id of the page: a record whose hash is gone is stale, one of another method is
\* passed over.
ListGets ==
    LET r == Head(listing.ids) IN
    /\ listing.k = "get" /\ listing.ids # <<>> /\ Len(listing.out) < listing.limit
    /\ listing' = [listing EXCEPT !.ids = Tail(@),
                      !.stale = IF HasHash(r) THEN @ ELSE @ \cup {r},
                      !.out = IF HasHash(r) /\ r \in Matching(listing.method) THEN Append(@, r) ELSE @]
    /\ UNCHANGED <<vars, backend, bound, now, at, rows, mortal, index, pipe, purging, purged, used>>
\* The next page, by rank.
ListTurns ==
    /\ listing.k = "get" /\ listing.ids = <<>> /\ Len(listing.out) < listing.limit
    /\ LET ids == Slice(NewestFirst(index), listing.start, Page(listing.limit))
       IN  listing' = [listing EXCEPT !.ids = ids, !.start = @ + Page(listing.limit),
                                      !.k = IF ids = <<>> THEN "drop" ELSE "get"]
    /\ UNCHANGED <<vars, backend, bound, now, at, rows, mortal, index, pipe, purging, purged, used>>
\* Enough was found, or the index is at its end: the stale ids leave the index.
ListEnds ==
    /\ \/ listing.k = "drop"
       \/ listing.k = "get" /\ Len(listing.out) = listing.limit
    /\ index' = index \ listing.stale
    /\ listing' = [k |-> "done", out |-> listing.out, method |-> listing.method,
                   limit |-> listing.limit, must |-> listing.must]
    /\ UNCHANGED <<vars, backend, bound, now, at, rows, mortal, pipe, purging, purged, used>>
ListAnswered ==
    /\ listing.k = "done"
    /\ listing' = Over
    /\ UNCHANGED <<vars, backend, bound, now, at, rows, mortal, index, pipe, purging, purged, used>>

\* count() evicts before it counts.
Count ==
    /\ Redis
    /\ index' = {r \in index : ~ Aged(r, now)}
    /\ UNCHANGED <<vars, backend, bound, now, at, rows, mortal, pipe, purging, listing, purged, used>>

\* purge(): one DELETE of what is before the cutoff ...
SqlPurge(cutoff) ==
    LET S == {r \in rows : at[r] < cutoff}
    IN  /\ S # {} /\ Spend("purges")
        /\ rows' = rows \ S /\ purged' = purged \cup S
        /\ UNCHANGED <<vars, backend, bound, now, at, mortal, index, pipe, purging, listing>>
SqlitePurge(cutoff) == backend = "sqlite" /\ SqlPurge(cutoff)
PgPurge(cutoff) == backend = "postgres" /\ SqlPurge(cutoff)
\* ... or the ids up to it are read, and a pipeline deletes their hashes and then their members.
RdPurge(cutoff) ==
    LET S == {r \in index : at[r] <= cutoff}
        ids == NewestFirst(S)
    IN  /\ Redis /\ purging = NoPurge /\ S # {} /\ Spend("purges")
        /\ purging' = [left |-> ids, ids |-> S]
        /\ purged' = purged \cup S
        /\ UNCHANGED <<vars, backend, bound, now, at, rows, mortal, index, pipe, listing>>
PurgeDels ==
    /\ purging.left # <<>>
    /\ rows' = rows \ {Head(purging.left)} /\ mortal' = mortal \ {Head(purging.left)}
    /\ purging' = [purging EXCEPT !.left = Tail(@)]
    /\ UNCHANGED <<vars, backend, bound, now, at, index, pipe, listing, purged, used>>
PurgeZrem ==
    /\ purging.left = <<>> /\ purging.ids # {}
    /\ index' = index \ purging.ids
    /\ purging' = NoPurge
    /\ UNCHANGED <<vars, backend, bound, now, at, rows, mortal, pipe, listing, purged, used>>
PurgeBreaks ==
    /\ purging # NoPurge
    /\ purging' = NoPurge
    /\ UNCHANGED <<vars, backend, bound, now, at, rows, mortal, index, pipe, listing, purged, used>>

\* Redis reclaims a hash ...
Reclaims ==
    /\ \E r \in mortal : Fading(r) /\ rows' = rows \ {r} /\ mortal' = mortal \ {r}
    /\ UNCHANGED <<vars, backend, bound, now, at, index, pipe, purging, listing, purged, used>>
\* ... and a second goes by: those a second past their ttl are gone.
Tick ==
    /\ now < bound.ticks
    /\ now' = now + 1
    /\ LET dead == {r \in mortal : Aged(r, now)}
       IN  rows' = rows \ dead /\ mortal' = mortal \ dead
    /\ UNCHANGED <<vars, backend, bound, at, index, pipe, purging, listing, purged, used>>

---------------------------------------------------------------------------
(* The flusher's steps over this store.                                    *)

Records ==
    /\ Submit /\ submitted < bound.records
    /\ at' = Append(at, now)
    /\ UNCHANGED <<backend, bound, now, rows, mortal, index, pipe, purging, listing, purged, used>>
Collects ==
    /\ Collect
    /\ pipe' = IF Redis THEN Pipeline(batch') ELSE Nothing
    /\ UNCHANGED <<backend, bound, now, at, rows, mortal, index, purging, listing, purged, used>>
WriterStops == WriterCancelled /\ IF writer = "write" THEN Breaks ELSE UNCHANGED store
Lifespan ==
    /\ \/ StartCall /\ starts < bound.starts
       \/ (CancelWriter \/ CloseCancelled) /\ faults < bound.faults
       \/ CloseCall /\ bound.closes > 0
       \/ StartEnd \/ CloseTimeout \/ CloseDrained \/ CloseEnd
    /\ UNCHANGED store

StoreInit ==
    /\ Init
    /\ backend \in Backends /\ bound \in Bound[backend]
    /\ now = 0 /\ at = <<>> /\ rows = {} /\ mortal = {} /\ index = {}
    /\ pipe = Nothing /\ purging = NoPurge /\ listing = Over /\ purged = {}
    /\ used = [c \in {"lists", "purges"} |-> 0]
StoreNext ==
    \/ Records \/ Collects \/ (WriteOk /\ Answers) \/ (WriteFail /\ Breaks) \/ WriterStops \/ Lifespan
    \/ Hset \/ Expire \/ Zadd \/ Evict \/ Count \/ PurgeDels \/ PurgeZrem \/ PurgeBreaks
    \/ Reclaims \/ Tick
    \/ \E method \in {"none", "a"}, limit \in Limits :
          SqliteList(method, limit) \/ PgList(method, limit) \/ RdList(method, limit)
    \/ ListGets \/ ListTurns \/ ListEnds \/ ListAnswered
    \/ \E cutoff \in 0..now : SqlitePurge(cutoff) \/ PgPurge(cutoff) \/ RdPurge(cutoff)
StoreSpec == StoreInit /\ [][StoreNext]_<<vars, store>> /\ Fairness

---------------------------------------------------------------------------

\* list_records misses no record that the store had confirmed when it was called and that has
\* neither been purged since nor come to within a second of the end of its ttl, unless the
\* limit is used up; and it shows none before it has shown all newer ones of those: although a
\* record enters its index in a later command than its hash, other calls drop the members they
\* find stale, and the pages are read by rank while the index grows and shrinks.  What comes
\* in after the call may stand behind older records, or twice (records.py:344 says "newest
\* first").
ListComplete ==
    listing.k = "done" =>
        LET out == listing.out
            kept == {r \in listing.must \ purged : Redis => ~ Fading(r)}
        IN  /\ \A r \in kept : r \in ToSet(out) \/ Len(out) = listing.limit
            /\ \A j \in DOMAIN out, r \in kept : r > out[j] => \E i \in 1..j : out[i] = r
====
