---- MODULE SessionRegistries ----
(***************************************************************************)
(* sessions.py: the durable record of which session ids exist and who owns *)
(* them, for the three backends.  An SQL call is one statement; a Redis    *)
(* call is several commands, between which other callers' commands run.    *)
(* DurableSessions adds the session managers that make the calls.          *)
(***************************************************************************)
EXTENDS Naturals, FiniteSets

CONSTANTS
    Backends,     \* the registries checked: "sqlite", "postgres", "redis"
    Sessions, Principals,
    Nobody,       \* the principal of a request that carries no credential
    Absent,       \* a field that is not there
    Callers, Admin,     \* who makes registry calls; the command line and the purge
    Ttl           \* whether RedisSessionRegistry was given a ttl

ASSUME RegistryAssumption ==
    /\ Backends \subseteq {"sqlite", "postgres", "redis"}
    /\ Nobody \in Principals /\ Absent \notin Principals \cup BOOLEAN
    /\ Admin \in Callers /\ Ttl \in BOOLEAN

VARIABLES
    backend,
    reg,        \* the row, or the hash and its place in the index, of each session
    legacy,     \* SQLite: `terminated` of each copy a release before 2.1.1 left under a NULL tenant
    call,       \* the registry call each caller is in
    endWritten, \* history: the sessions whose termination reached the registry
    gone        \* history: the sessions purged or expired

registry == <<backend, reg, legacy, call, endWritten, gone>>

Rows == [exists : BOOLEAN, terminated : {Absent} \cup BOOLEAN, owner : {Absent} \cup Principals,
         handshake : BOOLEAN, created : BOOLEAN,
         recent : BOOLEAN,      \* seen within the purge's older_than
         expires : BOOLEAN,     \* Redis: the key has a ttl
         indexed : BOOLEAN]     \* Redis: a member of {prefix}sessions
NoRow == [exists |-> FALSE, terminated |-> Absent, owner |-> Absent, handshake |-> FALSE,
          created |-> FALSE, recent |-> FALSE, expires |-> FALSE, indexed |-> FALSE]
NoCall == [op |-> "none"]
Going(c) == call[c].op # "none"
\* A caller starts a registry call; `who` is the owner a register records.
Call(c, o, s, p) == call' = [call EXCEPT ![c] = [op |-> o, s |-> s, step |-> 1, who |-> p]]
Return(c) == call' = [call EXCEPT ![c] = NoCall]
NextStep(c) == call' = [call EXCEPT ![c].step = @ + 1]

-----------------------------------------------------------------------------
(* The SQL registries. *)

FreshRow(p) == [NoRow EXCEPT !.exists = TRUE, !.terminated = FALSE, !.owner = p,
                             !.handshake = TRUE, !.created = TRUE, !.recent = TRUE]
\* INSERT ... ON CONFLICT DO UPDATE: an existing row keeps its owner and stays terminated.
SqliteRegister(s, p) ==
    reg' = [reg EXCEPT ![s] = IF @.exists THEN [@ EXCEPT !.recent = TRUE, !.handshake = TRUE]
                                          ELSE FreshRow(p)]
SqliteTouch(s) == reg' = [reg EXCEPT ![s].recent = IF reg[s].exists THEN TRUE ELSE @]
SqliteTerminate(s) ==
    reg' = [reg EXCEPT ![s] = IF @.exists THEN [@ EXCEPT !.terminated = TRUE, !.recent = TRUE] ELSE @]
\* Postgres runs the same statements, each on a connection of the pool.
PgRegister(s, p) == SqliteRegister(s, p)
PgTouch(s) == SqliteTouch(s)
PgTerminate(s) == SqliteTerminate(s)

\* The copies under a NULL tenant become one row, terminated if any of them was.
Merged(s) == [FreshRow(Nobody) EXCEPT
                 !.terminated = TRUE \in legacy[s] \cup {reg[s].terminated},
                 !.owner = IF reg[s].exists THEN reg[s].owner ELSE Nobody,
                 !.handshake = reg[s].handshake]
MigrateNullTenants ==
    /\ \E s \in Sessions : legacy[s] # {}
    /\ reg' = [s \in Sessions |-> IF legacy[s] = {} THEN reg[s] ELSE Merged(s)]
    /\ legacy' = [s \in Sessions |-> {}]
    /\ UNCHANGED <<backend, call, endWritten, gone>>
\* Every call of the SQL registries awaits initialize() first.
Initialized == \A s \in Sessions : legacy[s] = {}

SqlCall(c) ==
    LET s == call[c].s
    IN  /\ backend # "redis" /\ Initialized
        /\ \/ /\ call[c].op = "register"
              /\ IF backend = "sqlite" THEN SqliteRegister(s, call[c].who) ELSE PgRegister(s, call[c].who)
              /\ UNCHANGED endWritten
           \/ /\ call[c].op = "touch"
              /\ IF backend = "sqlite" THEN SqliteTouch(s) ELSE PgTouch(s)
              /\ UNCHANGED endWritten
           \/ /\ call[c].op = "terminate"
              /\ IF backend = "sqlite" THEN SqliteTerminate(s) ELSE PgTerminate(s)
              /\ endWritten' = IF reg[s].exists THEN endWritten \cup {s} ELSE endWritten
        /\ Return(c)
        /\ UNCHANGED <<backend, legacy, gone>>

\* DELETE ... WHERE last_seen_at < cutoff, in one statement.
Old == {s \in Sessions : ~reg[s].recent}
SqlitePurge == /\ reg' = [s \in Sessions |-> IF s \in Old THEN NoRow ELSE reg[s]]
               /\ gone' = gone \cup {s \in Old : reg[s].exists}
PgPurge == SqlitePurge
SqlPurge ==
    /\ backend # "redis" /\ Initialized
    /\ \E s \in Old : reg[s].exists
    /\ IF backend = "sqlite" THEN SqlitePurge ELSE PgPurge
    /\ UNCHANGED <<backend, legacy, call, endWritten>>

-----------------------------------------------------------------------------
(* The Redis registry. *)

\* register: HSETNX field by field in a pipeline that is no transaction, then ZADD.
RdRegisterResets(s, p, n) ==
    reg' = [reg EXCEPT ![s] =
        CASE n = 1 -> [@ EXCEPT !.exists = TRUE]
          [] n = 2 -> [@ EXCEPT !.exists = TRUE, !.terminated = FALSE]
          [] n = 3 -> [@ EXCEPT !.exists = TRUE, !.owner = IF @ = Absent THEN p ELSE @]
          [] n = 4 -> [@ EXCEPT !.exists = TRUE, !.handshake = TRUE]
          [] n = 5 -> [@ EXCEPT !.exists = TRUE, !.created = TRUE]
          [] n = 6 -> [@ EXCEPT !.exists = TRUE, !.expires = Ttl]
          [] n = 7 -> [@ EXCEPT !.indexed = TRUE, !.recent = TRUE]]
RdRegister(s, p, n) ==
    reg' = [reg EXCEPT ![s] =
        CASE n = 1 -> [@ EXCEPT !.exists = TRUE]
          [] n = 2 -> [@ EXCEPT !.exists = TRUE, !.terminated = IF @ = Absent THEN FALSE ELSE @]
          [] n = 3 -> [@ EXCEPT !.exists = TRUE, !.owner = IF @ = Absent THEN p ELSE @]
          [] n = 4 -> [@ EXCEPT !.exists = TRUE, !.handshake = TRUE]
          [] n = 5 -> [@ EXCEPT !.exists = TRUE, !.created = TRUE]
          [] n = 6 -> [@ EXCEPT !.exists = TRUE, !.expires = Ttl]
          [] n = 7 -> [@ EXCEPT !.indexed = TRUE, !.recent = TRUE]]
RegisterSteps == 7
\* touch and terminate: EXISTS, and if the key is there the writes, which rebuild a fragment
\* of it when it has expired in between.
RdTouch(s) == reg' = [reg EXCEPT ![s].exists = TRUE, ![s].recent = TRUE,
                                 ![s].indexed = TRUE, ![s].expires = Ttl]
RdTerminate(s) == reg' = [reg EXCEPT ![s].exists = TRUE, ![s].recent = TRUE,
                                     ![s].indexed = TRUE, ![s].terminated = TRUE]
RdExists(c) ==
    /\ backend = "redis" /\ call[c].op \in {"touch", "terminate"} /\ call[c].step = 1
    /\ IF reg[call[c].s].exists THEN NextStep(c) ELSE Return(c)
    /\ UNCHANGED <<backend, reg, legacy, endWritten, gone>>
RdWrite(c) ==
    LET s == call[c].s
    IN  /\ backend = "redis"
        /\ \/ /\ call[c].op = "register"
              /\ RdRegister(s, call[c].who, call[c].step)
              /\ IF call[c].step = RegisterSteps THEN Return(c) ELSE NextStep(c)
              /\ UNCHANGED endWritten
           \/ /\ call[c].op = "touch" /\ call[c].step = 2
              /\ RdTouch(s) /\ Return(c)
              /\ UNCHANGED endWritten
           \/ /\ call[c].op = "terminate" /\ call[c].step = 2
              /\ RdTerminate(s) /\ Return(c)
              /\ endWritten' = endWritten \cup {s}
        /\ UNCHANGED <<backend, legacy, gone>>

\* A hash without created_at, owner or terminated is a fragment, not a session.
WholeAnyField(row) == row.exists
Whole(row) == row.created /\ row.owner # Absent /\ row.terminated # Absent
\* purge: the old members of the index, read first and deleted in a second round trip.
RdOldMembers == {s \in Sessions : reg[s].indexed /\ ~reg[s].recent}
RdPurgeRead ==
    /\ backend = "redis" /\ ~Going(Admin) /\ RdOldMembers # {}
    /\ call' = [call EXCEPT ![Admin] = [op |-> "purge", s |-> RdOldMembers]]
    /\ UNCHANGED <<backend, reg, legacy, endWritten, gone>>
RdPurgeDelete ==
    /\ call[Admin].op = "purge"
    /\ reg' = [s \in Sessions |-> IF s \in call[Admin].s THEN NoRow ELSE reg[s]]
    /\ gone' = gone \cup call[Admin].s
    /\ Return(Admin)
    /\ UNCHANGED <<backend, legacy, endWritten>>
\* list_sessions drops from the index the members it found no session for.
RdListRead ==
    /\ backend = "redis" /\ ~Going(Admin)
    /\ \E s \in Sessions :
        /\ reg[s].indexed /\ ~Whole(reg[s])
        /\ call' = [call EXCEPT ![Admin] = [op |-> "unlist", s |-> s]]
    /\ UNCHANGED <<backend, reg, legacy, endWritten, gone>>
RdListForgets ==
    /\ call[Admin].op = "unlist"
    /\ reg' = [reg EXCEPT ![call[Admin].s].indexed = FALSE, ![call[Admin].s].recent = FALSE]
    /\ Return(Admin)
    /\ UNCHANGED <<backend, legacy, endWritten, gone>>
\* The server drops a key whose ttl has run out; the index keeps its member.
Expire ==
    /\ backend = "redis"
    /\ \E s \in Sessions :
        /\ reg[s].expires /\ ~reg[s].recent
        /\ reg' = [reg EXCEPT ![s] = [NoRow EXCEPT !.indexed = reg[s].indexed]]
        /\ gone' = gone \cup {s}
    /\ UNCHANGED <<backend, legacy, call, endWritten>>

-----------------------------------------------------------------------------
\* get: the record of a session, if there is one.
Found(s) == IF backend = "redis" THEN Whole(reg[s]) ELSE reg[s].exists
OwnerOf(s) == IF reg[s].owner = Absent THEN Nobody ELSE reg[s].owner
\* A worker that reads this record may adopt the session.
Adoptable(s) == Found(s) /\ reg[s].terminated # TRUE

RegistryStep ==
    \/ \E c \in Callers : call[c].op \in {"register", "touch", "terminate"}
                          /\ (SqlCall(c) \/ RdExists(c) \/ RdWrite(c))
    \/ MigrateNullTenants \/ SqlPurge
    \/ RdPurgeRead \/ RdPurgeDelete \/ RdListRead \/ RdListForgets \/ Expire
====
