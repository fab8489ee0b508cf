---- MODULE DurableSessions ----
(***************************************************************************)
(* session_manager.py: workers whose ResumableSessionManager records the   *)
(* sessions it opens, and adopts from the registry those it does not hold. *)
(* The MCP SDK's own manager, which opens sessions, checks credentials and *)
(* answers requests, is external: it is modelled as session_manager.py     *)
(* uses it.                                                                *)
(***************************************************************************)
EXTENDS SessionRegistries

CONSTANTS
    Workers, Requests,   \* processes, and the requests in progress at one time
    MaxSessions,         \* the SDK's limit on the open sessions of one worker
    Bound                \* per backend, how many openings, requests, failures, restarts and passages of
                         \* time are explored together

ASSUME ManagerAssumption ==
    /\ Callers = Requests \cup (Workers \X Sessions) \cup {Admin}
    /\ Requests \cap (Workers \X Sessions) = {} /\ Admin \notin Requests \cup (Workers \X Sessions)
    /\ MaxSessions \in Nat \ {0} /\ Bound \in [Backends -> SUBSET [opens : 0..9, uses : 0..9, faults : 0..9, stops : 0..9, ages : 0..9]]

VARIABLES
    phase,       \* "up", "stopping" (_shutting_down is set), "down"
    table,       \* _server_instances: "none", "live", or "ended" (a terminated transport)
    transport,   \* of the session in the table: its owner, and whether it is hooked and initialized
    req,         \* the requests in progress
    creator,     \* history: who opened each session
    answered,    \* history: the sessions whose id was sent to a client
    causes,      \* history: the sessions something happened to that the registry is to be told of
    ended,       \* history: of those, the ones that ended on a worker and were not adopted since
    lost,        \* history: sessions the registry was not told of, because a call failed or a
                 \* process went away
    used         \* history: operations spent of each bounded kind

manager == <<phase, table, transport, req, creator, answered, causes, ended, lost, used>>
vars == <<registry, manager>>

NoTransport == [owner |-> Absent, hooked |-> FALSE, initialized |-> FALSE]
Free == [pc |-> "free"]
PCs == {"opening", "recording", "streaming", "lookup", "locking", "touching", "handling",
        "deleting", "reconcile", "reconciling", "last"}
On(w) == {r \in Requests : req[r].pc # "free" /\ req[r].w = w}
Within(u) == \E b \in Bound[backend] : \A k \in DOMAIN u : u[k] <= b[k]
Bump(k) == LET u == [used EXCEPT ![k] = @ + 1] IN Within(u) /\ used' = u
At(r, pc) == req' = [req EXCEPT ![r].pc = pc]
Ends(r) == req' = [req EXCEPT ![r] = Free]
Ended(s) == causes' = causes \cup {s} /\ ended' = ended \cup {s}
Cause(s) == causes' = causes \cup {s} /\ UNCHANGED ended
Full(w) == Cardinality({s \in Sessions : table[w][s] # "none"}) >= MaxSessions
Put(w, s, st, tr) == /\ table' = [table EXCEPT ![w][s] = st]
                     /\ transport' = [transport EXCEPT ![w][s] = tr]
PopKeepsOwner(w, s) == table' = [table EXCEPT ![w][s] = "none"] /\ UNCHANGED transport
Pop(w, s) == Put(w, s, "none", NoTransport)
Keep(w) == UNCHANGED <<table, transport>>
\* The registry is not told: for a session that has ended that is a loss.
Untold(S) == lost' = lost \cup (S \cap causes)

-----------------------------------------------------------------------------
(* A request without a session id opens one. *)

Opens(r, w, s, p) ==
    /\ req[r] = Free /\ phase[w] = "up" /\ creator[s] = Absent /\ ~Full(w) /\ Bump("opens")
    /\ Put(w, s, "live", [NoTransport EXCEPT !.owner = p, !.initialized = TRUE])
    /\ creator' = [creator EXCEPT ![s] = p]
    /\ req' = [req EXCEPT ![r] = [pc |-> "opening", w |-> w, s |-> s, who |-> p, kind |-> "open",
                  via |-> "sdk", known |-> FALSE, registered |-> FALSE, refused |-> FALSE,
                  handshake |-> TRUE]]
    /\ UNCHANGED <<registry, phase, answered, causes, ended, lost>>
\* send_once_registered: the response starts, and is held until the session is recorded.
ResponseStarts(r) ==
    /\ req[r].pc = "opening"
    /\ req' = [req EXCEPT ![r].pc = "recording", ![r].registered = TRUE]
    /\ Call(r, "register", req[r].s, req[r].who)
    /\ UNCHANGED <<backend, reg, legacy, endWritten, gone, phase, table, transport, creator,
                   answered, causes, ended, lost, used>>
AnswersAtOnce(r) ==
    /\ req[r].pc = "recording"
    /\ answered' = answered \cup {req[r].s}
    /\ At(r, "streaming")
    /\ UNCHANGED <<registry, phase, table, transport, creator, causes, ended, lost, used>>
Answers(r) ==
    /\ req[r].pc = "recording" /\ ~Going(r)
    /\ answered' = answered \cup {req[r].s}
    /\ At(r, "streaming")
    /\ UNCHANGED <<registry, phase, table, transport, creator, causes, ended, lost, used>>
\* The opening request ends; the SDK keeps its session.
Opened(r) ==
    /\ req[r].pc = "streaming"
    /\ At(r, "reconcile")
    /\ UNCHANGED <<registry, phase, table, transport, creator, answered, causes, ended, lost, used>>
\* It is cancelled or fails: the SDK before mcp 2.2 keeps the session, later ones discard it.
OpeningFails(r) ==
    /\ req[r].pc \in {"opening", "recording", "streaming"} /\ Bump("faults")
    /\ Return(r)
    /\ At(r, "reconcile")
    /\ \/ Keep(req[r].w) /\ UNCHANGED <<causes, ended>>
       \/ /\ Pop(req[r].w, req[r].s)
          /\ Ended(req[r].s)
    /\ UNCHANGED <<backend, reg, legacy, endWritten, gone, phase, creator, answered, lost>>

-----------------------------------------------------------------------------
(* A request for a session, one the worker holds or one it must look up. *)

\* The SDK's handler: 404 for an unknown id, a terminated transport or another principal.
SdkTakes(r, w, s, p, k) ==
    LET held == table[w][s] # "none"
        ok == table[w][s] = "live" /\ transport[w][s].owner = p
    IN  req' = [req EXCEPT ![r] = [pc |-> IF ok THEN "handling" ELSE "reconcile",
                  w |-> w, s |-> s, who |-> p, kind |-> k, via |-> "sdk", known |-> held,
                  registered |-> FALSE, refused |-> ~ok, handshake |-> FALSE]]
\* The client that opened a session learns its id from the response; others may try any id.
Arrives(r, w, s, p, k) ==
    /\ req[r] = Free /\ phase[w] = "up" /\ creator[s] # Absent /\ Bump("uses")
    /\ p = creator[s] => s \in answered
    /\ IF table[w][s] # "none" THEN SdkTakes(r, w, s, p, k)
       ELSE req' = [req EXCEPT ![r] = [pc |-> "lookup", w |-> w, s |-> s, who |-> p, kind |-> k,
                       via |-> "adopt", known |-> FALSE, registered |-> FALSE, refused |-> FALSE,
                       handshake |-> FALSE]]
    /\ UNCHANGED <<registry, phase, table, transport, creator, answered, causes, ended, lost>>
OwnerMatches(stored, p) == stored = p
LooksUp(r) ==
    /\ req[r].pc = "lookup" /\ Initialized
    /\ LET s == req[r].s IN
       IF Adoptable(s) /\ OwnerMatches(OwnerOf(s), req[r].who)
       THEN req' = [req EXCEPT ![r].pc = "locking", ![r].handshake = reg[s].handshake]
       ELSE SdkTakes(r, req[r].w, s, req[r].who, req[r].kind)
    /\ UNCHANGED <<registry, phase, table, transport, creator, answered, causes, ended, lost, used>>
LookupFails(r) ==
    /\ req[r].pc = "lookup" /\ Bump("faults")
    /\ SdkTakes(r, req[r].w, req[r].s, req[r].who, req[r].kind)
    /\ UNCHANGED <<registry, phase, table, transport, creator, answered, causes, ended, lost>>
AdoptedUnhooked(p, h) == [owner |-> p, hooked |-> FALSE, initialized |-> h]
Adopted(p, h) == [owner |-> p, hooked |-> TRUE, initialized |-> h]
\* Under the creation lock: another request may have adopted it meanwhile; at the limit, 503.
Adopts(r) ==
    LET w == req[r].w  s == req[r].s IN
    /\ req[r].pc = "locking"
    /\ \/ /\ table[w][s] # "none"
          /\ At(r, "handling")
          /\ Keep(w) /\ UNCHANGED <<call, ended>>
       \/ /\ table[w][s] = "none" /\ Full(w)
          /\ Ends(r)
          /\ Keep(w) /\ UNCHANGED <<call, ended>>
       \/ /\ table[w][s] = "none" /\ ~Full(w)
          /\ Put(w, s, "live", Adopted(req[r].who, req[r].handshake))
          /\ At(r, "touching")
          /\ Call(r, "touch", s, Absent)
          /\ ended' = ended \ {s}
    /\ UNCHANGED <<backend, reg, legacy, endWritten, gone, phase, creator, answered, causes, lost, used>>
Touched(r) ==
    /\ req[r].pc = "touching" /\ ~Going(r)
    /\ At(r, "handling")
    /\ UNCHANGED <<registry, phase, table, transport, creator, answered, causes, ended, lost, used>>

\* After the adopted transport handled the request: forget it if it has ended.
ForgetEnded(w, s) == IF table[w][s] = "ended" THEN Pop(w, s) ELSE Keep(w)
Leaves(r) ==
    IF req[r].via = "adopt" THEN ForgetEnded(req[r].w, req[r].s) /\ Ends(r)
    ELSE ForgetEnded(req[r].w, req[r].s) /\ At(r, "reconcile")
Handled(r) ==
    /\ req[r].pc = "handling"
    /\ req[r].kind = "use" \/ table[req[r].w][req[r].s] # "live"
    /\ Leaves(r)
    /\ UNCHANGED <<registry, phase, creator, answered, causes, ended, lost, used>>
\* DELETE terminates the transport, and through its hook the record.
Deletes(r) ==
    LET w == req[r].w  s == req[r].s IN
    /\ req[r].pc = "handling" /\ req[r].kind = "delete" /\ table[w][s] = "live"
    /\ table' = [table EXCEPT ![w][s] = "ended"] /\ UNCHANGED transport
    /\ Ended(s)
    /\ IF transport[w][s].hooked THEN Call(r, "hook", s, Absent) ELSE UNCHANGED call
    /\ At(r, "deleting")
    /\ UNCHANGED <<backend, reg, legacy, endWritten, gone, phase, creator, answered, lost, used>>
Deleted(r) ==
    /\ req[r].pc = "deleting" /\ ~Going(r)
    /\ Leaves(r)
    /\ UNCHANGED <<registry, phase, creator, answered, causes, ended, lost, used>>

-----------------------------------------------------------------------------
(* The bookkeeping after a request the SDK handled, and the termination hook. *)

Stopping(w) == phase[w] # "up"
\* The opening request's own session: hook it, record it if the response did not.
ReconcileCreated(r) ==
    LET w == req[r].w  s == req[r].s IN
    /\ req[r].pc = "reconcile" /\ req[r].kind = "open"
    /\ IF table[w][s] = "none" THEN UNCHANGED <<transport, call>>
       ELSE /\ transport' = [transport EXCEPT ![w][s].hooked = TRUE]
            /\ IF req[r].registered THEN UNCHANGED call ELSE Call(r, "register", s, req[r].who)
    /\ At(r, "reconciling")
    /\ UNCHANGED <<backend, reg, legacy, endWritten, gone, phase, table, creator, answered, causes, ended,
                   lost, used>>
\* Recorded as its response started, then gone before the request ended.
ReconcileVanished(r) ==
    LET w == req[r].w  s == req[r].s  vanished == req[r].registered /\ table[w][s] = "none" IN
    /\ req[r].pc = "reconciling" /\ ~Going(r)
    /\ IF vanished /\ ~Stopping(w) THEN Call(r, "terminate", s, Absent) ELSE UNCHANGED call
    /\ IF vanished /\ Stopping(w) THEN Untold({s}) ELSE UNCHANGED lost
    /\ At(r, "last")
    /\ UNCHANGED <<backend, reg, legacy, endWritten, gone, phase, table, transport, creator,
                   answered, causes, ended, used>>
\* Gone after handling, though this worker held it; or still there, and used.
EndedOrUnknown(r) ==
    LET w == req[r].w  s == req[r].s IN
    \/ table[w][s] = "none" /\ ~Stopping(w)
    \/ table[w][s] = "ended"
EndedHere(r) ==
    LET w == req[r].w  s == req[r].s IN
    \/ table[w][s] = "none" /\ req[r].known /\ ~Stopping(w)
    \/ table[w][s] = "ended"
ReconcileUsed(r) ==
    LET w == req[r].w  s == req[r].s IN
    /\ req[r].pc = "reconcile" /\ req[r].kind # "open"
    /\ IF EndedHere(r) THEN Call(r, "terminate", s, Absent)
       ELSE IF table[w][s] = "live" /\ ~req[r].refused THEN Call(r, "touch", s, Absent)
       ELSE UNCHANGED call
    /\ IF req[r].known /\ Stopping(w) THEN Untold({s}) ELSE UNCHANGED lost
    /\ At(r, "last")
    /\ UNCHANGED <<backend, reg, legacy, endWritten, gone, phase, table, transport, creator,
                   answered, causes, ended, used>>
Reconciled(r) ==
    /\ req[r].pc = "last" /\ ~Going(r)
    /\ Ends(r)
    /\ UNCHANGED <<registry, phase, table, transport, creator, answered, causes, ended, lost, used>>

\* terminate_and_record: once the transport's own terminate() is over.
HookRecords(c, w) ==
    /\ call[c].op = "hook"
    /\ IF Stopping(w) THEN Return(c) /\ Untold({call[c].s})
       ELSE Call(c, "terminate", call[c].s, Absent) /\ UNCHANGED lost
    /\ UNCHANGED <<backend, reg, legacy, endWritten, gone, phase, table, transport, req, creator,
                   answered, causes, ended, used>>

-----------------------------------------------------------------------------
(* What happens to sessions and workers on their own. *)

IdlesOut(w, s) ==
    /\ table[w][s] = "live" /\ phase[w] # "down" /\ ~Going(<<w, s>>)
    /\ Pop(w, s)
    /\ Ended(s)
    /\ IF transport[w][s].hooked THEN Call(<<w, s>>, "hook", s, Absent) ELSE UNCHANGED call
    /\ UNCHANGED <<backend, reg, legacy, endWritten, gone, phase, req, creator, answered, lost, used>>
\* The session's server task fails: the transport is dropped, not terminated, so its hook is
\* silent.  Only a request that had the session before and still has its bookkeeping to do
\* finds it gone (_reconcile); without one the registry is never told.
Missed(w, s) == \E r \in On(w) : req[r].s = s /\ req[r].pc # "last" /\ (req[r].kind = "open" \/ req[r].known)
ServerFails(w, s) ==
    /\ table[w][s] = "live" /\ phase[w] # "down" /\ Bump("faults")
    /\ Pop(w, s)
    /\ IF Missed(w, s) THEN Ended(s) ELSE UNCHANGED <<causes, ended>>
    /\ UNCHANGED <<registry, phase, req, creator, answered, lost>>
\* A registry call of a worker raises, or is given up after _RECONCILE_TIMEOUT_SECONDS.
CallFails(c) ==
    /\ call[c].op \in {"register", "touch", "terminate"} /\ c # Admin /\ Bump("faults")
    /\ Return(c)
    /\ lost' = IF call[c].op = "touch" THEN lost ELSE lost \cup {call[c].s}
    /\ UNCHANGED <<backend, reg, legacy, endWritten, gone, phase, table, transport, req, creator,
                   answered, causes, ended>>
\* No request and no registry call is about the session.
Quiet(s) == /\ \A r \in Requests : req[r].pc # "free" => req[r].s # s
            /\ \A c \in Callers : Going(c) => c = Admin \/ call[c].s # s
\* A session has not been seen for older_than, or for the ttl.
Ages ==
    /\ Bump("ages")
    /\ \E s \in Sessions : reg[s].recent /\ Quiet(s) /\ reg' = [reg EXCEPT ![s].recent = FALSE]
    /\ UNCHANGED <<backend, legacy, call, endWritten, gone, phase, table, transport, req, creator,
                   answered, causes, ended, lost>>
\* mcp-persist sessions terminate.
OperatorTerminates(s) ==
    /\ ~Going(Admin) /\ Found(s) /\ Initialized /\ Bump("faults")
    /\ Call(Admin, "terminate", s, Absent)
    /\ Cause(s)
    /\ UNCHANGED <<backend, reg, legacy, endWritten, gone, phase, table, transport, req, creator,
                   answered, lost>>
\* run() leaves its body: the flag first, then the SDK cancels every session, which
\* terminates its transport.
Stops(w) ==
    /\ phase[w] = "up" /\ Bump("stops")
    /\ phase' = [phase EXCEPT ![w] = "stopping"]
    /\ UNCHANGED <<registry, table, transport, req, creator, answered, causes, ended, lost>>
Cancels(w, s) ==
    /\ phase[w] = "stopping" /\ table[w][s] = "live" /\ ~Going(<<w, s>>)
    /\ Pop(w, s)
    /\ IF transport[w][s].hooked THEN Call(<<w, s>>, "hook", s, Absent) ELSE UNCHANGED call
    /\ UNCHANGED <<backend, reg, legacy, endWritten, gone, phase, req, creator, answered, causes, ended,
                   lost, used>>
\* The process is gone: at the end of a shutdown, or killed at any moment.
Dies(w) ==
    /\ \/ phase[w] = "stopping" /\ UNCHANGED used
       \/ phase[w] = "up" /\ Bump("stops")
    /\ phase' = [phase EXCEPT ![w] = "down"]
    /\ table' = [table EXCEPT ![w] = [s \in Sessions |-> "none"]]
    /\ transport' = [transport EXCEPT ![w] = [s \in Sessions |-> NoTransport]]
    /\ Untold({req[r].s : r \in On(w)} \cup {s \in Sessions : Going(<<w, s>>)})
    /\ req' = [r \in Requests |-> IF r \in On(w) THEN Free ELSE req[r]]
    /\ call' = [c \in Callers |-> IF c \in On(w) \cup {<<w, s>> : s \in Sessions} THEN NoCall ELSE call[c]]
    /\ UNCHANGED <<backend, reg, legacy, endWritten, gone, creator, answered, causes, ended>>
Starts(w) ==
    /\ phase[w] = "down"
    /\ phase' = [phase EXCEPT ![w] = "up"]
    /\ UNCHANGED <<registry, table, transport, req, creator, answered, causes, ended, lost, used>>

-----------------------------------------------------------------------------
\* Copies of a session an older release left behind: its id was given to a client.
Legacies == {[s \in Sessions |-> {}]} \cup
            (IF backend = "sqlite" THEN {[s \in Sessions |-> IF s = x THEN t ELSE {}] :
                                             x \in Sessions, t \in (SUBSET BOOLEAN) \ {{}}}
             ELSE {})
Init ==
    /\ backend \in Backends
    /\ legacy \in Legacies
    /\ reg \in [Sessions -> {NoRow} \cup {[FreshRow(Nobody) EXCEPT !.terminated = b] : b \in BOOLEAN}]
    /\ \A s \in Sessions : reg[s].exists => legacy[s] # {}
    /\ creator = [s \in Sessions |-> IF legacy[s] # {} THEN Nobody ELSE Absent]
    /\ answered = {s \in Sessions : legacy[s] # {}}
    /\ endWritten = {s \in Sessions : TRUE \in legacy[s] \cup {reg[s].terminated}}
    /\ causes = endWritten /\ ended = endWritten
    /\ call = [c \in Callers |-> NoCall]
    /\ phase = [w \in Workers |-> "up"]
    /\ table = [w \in Workers |-> [s \in Sessions |-> "none"]]
    /\ transport = [w \in Workers |-> [s \in Sessions |-> NoTransport]]
    /\ req = [r \in Requests |-> Free]
    /\ used = [k \in {"opens", "uses", "faults", "stops", "ages"} |->
                  IF k = "opens" THEN Cardinality(answered) ELSE 0]
    /\ gone = {} /\ lost = {}

RequestStep(r) ==
    \/ \E w \in Workers, s \in Sessions, p \in Principals :
           Opens(r, w, s, p) \/ \E k \in {"use", "delete"} : Arrives(r, w, s, p, k)
    \/ ResponseStarts(r) \/ Answers(r) \/ Opened(r) \/ OpeningFails(r)
    \/ LooksUp(r) \/ LookupFails(r) \/ Adopts(r) \/ Touched(r)
    \/ Handled(r) \/ Deletes(r) \/ Deleted(r)
    \/ ReconcileCreated(r) \/ ReconcileVanished(r) \/ ReconcileUsed(r) \/ Reconciled(r)
    \/ req[r].pc # "free" /\ HookRecords(r, req[r].w)
WorkerStep(w) ==
    \/ \E s \in Sessions : IdlesOut(w, s) \/ ServerFails(w, s) \/ Cancels(w, s) \/ HookRecords(<<w, s>>, w)
    \/ Stops(w) \/ Dies(w) \/ Starts(w)
Next ==
    \/ \E r \in Requests : RequestStep(r)
    \/ \E w \in Workers : WorkerStep(w)
    \/ \E c \in Callers : CallFails(c)
    \/ \E s \in Sessions : OperatorTerminates(s)
    \/ Ages
    \/ RegistryStep /\ UNCHANGED manager
Spec == Init /\ [][Next]_vars

-----------------------------------------------------------------------------
\* Rows, calls and requests are of their kinds, a transport stands exactly for a session that
\* is in its worker's table, and only a session that was given a reason to end has ended.
TypeOK ==
    /\ backend \in Backends /\ reg \in [Sessions -> Rows] /\ legacy \in [Sessions -> SUBSET BOOLEAN]
    /\ \A c \in Callers : call[c].op \in {"none", "hook", "register", "touch", "terminate"}
                                       \cup (IF c = Admin THEN {"purge", "unlist"} ELSE {})
    /\ phase \in [Workers -> {"up", "stopping", "down"}]
    /\ table \in [Workers -> [Sessions -> {"none", "live", "ended"}]]
    /\ transport \in [Workers -> [Sessions -> [owner : {Absent} \cup Principals, hooked : BOOLEAN,
                                                initialized : BOOLEAN]]]
    /\ \A w \in Workers, s \in Sessions : table[w][s] = "none" <=> transport[w][s] = NoTransport
    /\ \A r \in Requests : req[r].pc \in {"free"} \cup PCs
    /\ creator \in [Sessions -> {Absent} \cup Principals]
    /\ answered \cup causes \cup lost \cup gone \cup endWritten \subseteq Sessions
    /\ ended \subseteq causes

\* A transport answers only the principal that opened its session, and once the record holds
\* the client's handshake it runs with it: no worker adopts a half-written record
\* (sessions.py:538, 559, session_manager.py:350).
AdoptedWhole ==
    \A w \in Workers, s \in Sessions : table[w][s] # "none" =>
        /\ transport[w][s].owner = creator[s]
        /\ Found(s) /\ reg[s].handshake => transport[w][s].initialized

\* A session is recorded as terminated only when it was deleted, idled out, discarded by the
\* SDK, terminated by the operator, or found gone by a request that had it: not by a request
\* with a wrong id or credential, and not by a restart (session_manager.py:272, 318).  Nor by
\* a crash: one that no request meets leaves the session live in the registry
\* (session_manager.py:448), although docs/sessions.md:101 counts it a termination.
TerminatedForCause == \A s \in Sessions : reg[s].terminated = TRUE => s \in causes

\* A session that a client deleted, that idled out, that the SDK discarded with its opening
\* request, or that crashed under a request is soon no longer adoptable, whichever request or
\* task noticed, if no registry call failed and no process went away
\* (session_manager.py:206, 242, 257, 298).  It does not claim this of every crash.
EndIsRecorded ==
    \A s \in (answered \cap ended) \ lost : Quiet(s) /\ Initialized => ~Adoptable(s)

\* A session whose id was sent to a client has a record every worker can find, and as long as
\* nothing ended it list_sessions lists it (session_manager.py:188, sessions.py:538).
AnsweredIsRecorded ==
    \A s \in answered \ (lost \cup gone) : legacy[s] = {} =>
        Found(s) /\ (backend = "redis" /\ s \notin causes => reg[s].indexed)

\* A termination that reached the registry stays, through re-registration, migration and the
\* writes of other callers (sessions.py:249, 274, 538).
NeverRevived == \A s \in endWritten : Initialized => ~Adoptable(s)

\* What docs/sessions.md says of a terminated session: it is never adopted again.
NeverAdoptedAgain ==
    [][\A w \in Workers, s \in Sessions :
          (table[w][s] = "none" /\ table'[w][s] # "none") => s \notin endWritten]_vars
====
