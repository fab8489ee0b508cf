------------------------------- MODULE Batching -------------------------------
(***************************************************************************)
(* BatchingEventStore (src/src/mcp_persist/batching.py): a write-behind    *)
(* wrapper that answers store_event with a pre-allocated id and flushes    *)
(* the buffered events to the backend on a size or a latency threshold.    *)
(*                                                                         *)
(* One process runs asyncio tasks that interleave only where the code      *)
(* awaits: callers of store_event and of the reading operations, the       *)
(* background flusher, and aclose().  The backend may fail a write or an   *)
(* allocation, a task may be cancelled where it awaits, and the process    *)
(* may crash and start again with an empty buffer.                         *)
(*                                                                         *)
(* An event is its id; stream and payload do not matter here.  Time is     *)
(* not modelled: armed stands for "_next_flush_at is not None".            *)
(***************************************************************************)
EXTENDS Naturals, FiniteSets, SequencesExt, OrderedSequences

CONSTANTS
    Callers,         \* tasks calling store_event() or a reading operation
    Flushers,        \* slots for background tasks running _flush_loop()
    Closer,          \* the task calling aclose()
    NoTask,          \* None: no owner of a lock, no _flush_task
    FlushMaxEvents,  \* flush_max_events
    MaxPending,      \* max_pending
    Backends,        \* the kinds of inner store the wrapper may find, see below
    MaxId,           \* bound: ids the backend hands out
    MaxFaults,       \* bound: failed writes and cancellations of callers
    MaxCrashes       \* bound: crashes

Tasks == Callers \cup Flushers \cup {Closer}

ASSUME TaskAssumption ==
    /\ Callers \cap Flushers = {}
    /\ Closer \notin Callers \cup Flushers
    /\ NoTask \notin Tasks

(* postgres: one atomic executemany per batch; redis: one pipeline, whose   *)
(* commands apply one by one; single: only _store_event_with_id, per item.  *)
ASSUME BackendAssumption == Backends \subseteq {"postgres", "redis", "single"}

ASSUME LimitAssumption ==
    /\ FlushMaxEvents \in Nat \ {0}
    /\ MaxPending \in Nat
    /\ MaxPending >= FlushMaxEvents
    /\ MaxId \in Nat /\ MaxFaults \in Nat /\ MaxCrashes \in Nat

VARIABLES
    backend,     \* the kind of inner store
    pending,     \* _pending: ids accepted and waiting for a flush
    idBlock,     \* _id_block: ids allocated and not yet used
    lock,        \* owner of _lock while it awaits an allocation
    flushLock,   \* owner of _flush_lock
    flushTask,   \* _flush_task
    armed,       \* _next_flush_at is not None
    closed,      \* _closed
    batch,       \* the local `batch' of the flush that owns flushLock
    written,     \* its local `written'
    pc,          \* where each task stands
    cur,         \* the id a store_event in its flush will return, 0 if none
    doomed,      \* tasks with a cancel() not delivered yet
    nextId,      \* the backend's id counter
    persisted,   \* ids the backend holds
    accepted,    \* history: ids appended to _pending
    returned,    \* history: ids store_event returned
    due,         \* history: ids accepted, and not lost, when a task called flush()
    settled,     \* history: due ids of the flushes that returned normally
    crashLost,   \* history: ids lost in a crash
    dropped,     \* history: ids of a batch given up by a cancelled flush
    faults, crashes

buffer  == <<pending, idBlock, armed, closed>>
tasks   == <<lock, flushLock, flushTask, pc, cur, doomed>>
flight  == <<batch, written>>
history == <<accepted, returned, due, settled, crashLost, dropped>>
vars    == <<backend, buffer, tasks, flight, nextId, persisted, history, faults, crashes>>


FlushStages == {"wait", "take", "write", "requeue", "unwind", "finish"}
Stages == FlushStages \cup {"idle", "alloc", "dead", "check", "sleep", "join", "closed"}

lost == crashLost \cup dropped
(* The part of the batch in flight that a failure puts back. *)
Unwritten == SubSeq(batch, written + 1, Len(batch))

Bulk == backend # "single"
Atomic == backend = "postgres"

Init ==
    /\ backend \in Backends
    /\ pending = <<>> /\ idBlock = <<>> /\ armed = FALSE /\ closed = FALSE
    /\ lock = NoTask /\ flushLock = NoTask /\ flushTask = NoTask
    /\ batch = <<>> /\ written = 0
    /\ pc = [t \in Tasks |-> IF t \in Flushers THEN "dead" ELSE "idle"]
    /\ cur = [t \in Tasks |-> 0]
    /\ doomed = {}
    /\ nextId = 1 /\ persisted = {}
    /\ accepted = {} /\ returned = {} /\ settled = {}
    /\ due = [t \in Tasks |-> {}]
    /\ crashLost = {} /\ dropped = {}
    /\ faults = 0 /\ crashes = 0

-------------------------------------------------------------------------------
(* Where a task stands after a flush() that returned, raised, was cancelled. *)
AfterReturn(t) == IF t \in Flushers THEN "check" ELSE IF t = Closer THEN "closed" ELSE "idle"
AfterError(t)  == IF t \in Flushers THEN "check" ELSE "idle"
AfterCancel(t) == IF t \in Flushers THEN "dead"  ELSE "idle"

(* _ensure_flusher(), in a step that moves the tasks to the stages pcs. *)
EnsureFlusher(pcs) ==
    \/ /\ flushTask # NoTask
       /\ pcs[flushTask] # "dead"
       /\ pc' = pcs
       /\ UNCHANGED flushTask
    \/ /\ flushTask # NoTask => pcs[flushTask] = "dead"
       /\ \E f \in Flushers :
             /\ pcs[f] = "dead"
             /\ pc' = [pcs EXCEPT ![f] = "check"]
             /\ flushTask' = f

(* flush() by task t is over: it leaves _flush_lock. *)
LeaveFlush(t) ==
    /\ flushLock' = NoTask
    /\ cur' = [cur EXCEPT ![t] = 0]
    /\ due' = [due EXCEPT ![t] = {}]

(* A normal return: the caller goes on believing that `due' is durable. *)
ReturnFromFlush(t) ==
    /\ LeaveFlush(t)
    /\ settled' = settled \cup due[t]
    /\ returned' = IF cur[t] = 0 THEN returned ELSE returned \cup {cur[t]}

(* Mutants of PutBack: the tail replaces newer events, or lands behind them. *)
PutBackOver ==
    /\ pending' = Unwritten
    /\ armed' = TRUE
    /\ batch' = <<>> /\ written' = 0
PutBackBehind ==
    /\ pending' = pending \o Unwritten
    /\ armed' = TRUE
    /\ batch' = <<>> /\ written' = 0

(* The except branch: the unwritten tail goes back ahead of newer events. *)
PutBack ==
    /\ pending' = Unwritten \o pending
    /\ armed' = TRUE
    /\ batch' = <<>> /\ written' = 0

(* Mutant of FinishFlush: the timer is disarmed whatever came in meanwhile. *)
FinishAndDisarm(t) ==
    /\ batch' = <<>> /\ written' = 0
    /\ ReturnFromFlush(t)
    /\ armed' = FALSE
    /\ pc' = [pc EXCEPT ![t] = AfterReturn(t)]
    /\ UNCHANGED flushTask

(* The last critical section of flush(): re-arm the timer or disarm it. *)
FinishFlush(t) ==
    /\ batch' = <<>> /\ written' = 0
    /\ ReturnFromFlush(t)
    /\ LET pcs == [pc EXCEPT ![t] = AfterReturn(t)] IN
       IF pending = <<>>
       THEN /\ armed' = FALSE
            /\ pc' = pcs
            /\ UNCHANGED flushTask
       ELSE /\ armed' = TRUE
            /\ EnsureFlusher(pcs)

-------------------------------------------------------------------------------
(* store_event *)

(* store_event appends the head of the id block blk, under _lock. *)
Append1(t, blk) ==
    LET id   == Head(blk)
        full == Len(pending) + 1 >= FlushMaxEvents
        pcs  == [pc EXCEPT ![t] = IF full THEN "wait" ELSE "idle"]
    IN  /\ idBlock' = Tail(blk)
        /\ pending' = Append(pending, id)
        /\ accepted' = accepted \cup {id}
        /\ armed' = TRUE
        /\ IF armed THEN pc' = pcs /\ UNCHANGED flushTask ELSE EnsureFlusher(pcs)
        /\ cur' = IF full THEN [cur EXCEPT ![t] = id] ELSE cur
        /\ due' = IF full THEN [due EXCEPT ![t] = (accepted \ lost) \cup {id}] ELSE due
        /\ returned' = IF full THEN returned ELSE returned \cup {id}

(* A call is let in: not closed, and fewer than max_pending are waiting. *)
Admits(t) ==
    /\ pc[t] = "idle"
    /\ lock = NoTask
    /\ ~closed
    /\ Len(pending) < MaxPending

(* An id is at hand: the whole critical section runs without awaiting. *)
StoreFromBlock(t) ==
    /\ Admits(t)
    /\ idBlock # <<>>
    /\ Append1(t, idBlock)
    /\ UNCHANGED <<closed, lock, flushLock, doomed, flight, nextId, persisted,
                   settled, crashLost, dropped, faults, crashes>>

(* The block is used up: await an allocation while holding _lock. *)
StoreAwaitIds(t) ==
    /\ Admits(t)
    /\ idBlock = <<>>
    /\ nextId + FlushMaxEvents - 1 <= MaxId
    /\ lock' = t
    /\ pc' = [pc EXCEPT ![t] = "alloc"]
    /\ UNCHANGED <<buffer, flushLock, flushTask, cur, doomed, flight, nextId,
                   persisted, history, faults, crashes>>

(* Mutant of Block: the range is counted down from its start. *)
BlockDown(n) == [i \in 1..FlushMaxEvents |-> n - i]

(* The ids a block starting at n holds. *)
Block(n) == [i \in 1..FlushMaxEvents |-> n + i - 1]

(* The allocation answers; other processes may have taken ids in between. *)
AllocateOk(t) ==
    /\ pc[t] = "alloc"
    /\ \E first \in nextId..(nextId + 1) :
          /\ first + FlushMaxEvents - 1 <= MaxId \/ first = nextId
          /\ nextId' = first + FlushMaxEvents
          /\ Append1(t, Block(first))
    /\ lock' = NoTask
    /\ UNCHANGED <<closed, flushLock, doomed, flight, persisted, settled,
                   crashLost, dropped, faults, crashes>>

(* The allocation raises: store_event raises and nothing was appended. *)
AllocateFail(t) ==
    /\ pc[t] = "alloc"
    /\ pc' = [pc EXCEPT ![t] = "idle"]
    /\ lock' = NoTask
    /\ UNCHANGED <<buffer, flushLock, flushTask, cur, doomed, flight, nextId,
                   persisted, history, faults, crashes>>

-------------------------------------------------------------------------------
(* flush() *)

(* Every reading or administrative operation flushes before it delegates. *)
CallFlush(t) ==
    /\ t \in Callers
    /\ pc[t] = "idle"
    /\ pc' = [pc EXCEPT ![t] = "wait"]
    /\ due' = [due EXCEPT ![t] = accepted \ lost]
    /\ UNCHANGED <<buffer, lock, flushLock, flushTask, cur, doomed, flight, nextId,
                   persisted, accepted, returned, settled, crashLost, dropped,
                   faults, crashes>>

(* Mutant of EnterFlush: a flush under way is not waited for. *)
EnterFlushAtOnce(t) ==
    /\ pc[t] = "wait"
    /\ flushLock' = t
    /\ pc' = [pc EXCEPT ![t] = "take"]
    /\ UNCHANGED <<buffer, lock, flushTask, cur, doomed, flight, nextId, persisted,
                   history, faults, crashes>>

EnterFlush(t) ==
    /\ pc[t] = "wait"
    /\ flushLock = NoTask
    /\ flushLock' = t
    /\ pc' = [pc EXCEPT ![t] = "take"]
    /\ UNCHANGED <<buffer, lock, flushTask, cur, doomed, flight, nextId, persisted,
                   history, faults, crashes>>

(* Nothing is pending: flush() returns at once. *)
TakeNothing(t) ==
    /\ pc[t] = "take"
    /\ lock = NoTask
    /\ pending = <<>>
    /\ ReturnFromFlush(t)
    /\ pc' = [pc EXCEPT ![t] = AfterReturn(t)]
    /\ UNCHANGED <<buffer, lock, flushTask, doomed, flight, nextId, persisted,
                   accepted, crashLost, dropped, faults, crashes>>

TakeBatch(t) ==
    /\ pc[t] = "take"
    /\ lock = NoTask
    /\ pending # <<>>
    /\ batch' = pending
    /\ written' = 0
    /\ pending' = <<>>
    /\ pc' = [pc EXCEPT ![t] = "write"]
    /\ UNCHANGED <<idBlock, armed, closed, lock, flushLock, flushTask, cur, doomed,
                   nextId, persisted, history, faults, crashes>>

(* One call to the backend succeeds: the whole batch, or its next item. *)
WriteOk(t) ==
    LET n == IF Bulk THEN Len(batch) ELSE written + 1 IN
    /\ pc[t] = "write"
    /\ persisted' = persisted \cup ToSet(SubSeq(batch, written + 1, n))
    /\ CASE n < Len(batch) ->
              /\ written' = n
              /\ UNCHANGED <<armed, batch, flushLock, flushTask, pc, cur, due, settled, returned>>
         [] n = Len(batch) /\ lock = NoTask ->
              FinishFlush(t)
         [] OTHER ->
              /\ written' = n
              /\ pc' = [pc EXCEPT ![t] = "finish"]
              /\ UNCHANGED <<armed, batch, flushLock, flushTask, cur, due, settled, returned>>
    /\ UNCHANGED <<pending, idBlock, closed, lock, doomed, nextId, accepted,
                   crashLost, dropped, faults, crashes>>

(* What an interrupted backend call may have stored: a bulk write all or   *)
(* nothing when atomic, else any part; a single write that item or not.    *)
MayHaveApplied ==
    IF Bulk THEN IF Atomic THEN {{}, ToSet(batch)} ELSE SUBSET ToSet(batch)
            ELSE {{}, {batch[written + 1]}}

(* The backend call is interrupted by an error or a cancellation: put the  *)
(* tail back and leave, or queue for _lock first when it is taken.         *)
Interrupted(t, stage, after) ==
    /\ \E S \in MayHaveApplied : persisted' = persisted \cup S
    /\ IF lock = NoTask
       THEN /\ PutBack
            /\ LeaveFlush(t)
            /\ pc' = [pc EXCEPT ![t] = after]
       ELSE /\ pc' = [pc EXCEPT ![t] = stage]
            /\ UNCHANGED <<pending, armed, batch, written, flushLock, cur, due>>
    /\ faults' = faults + 1
    /\ UNCHANGED <<idBlock, closed, lock, flushTask, nextId, accepted, returned,
                   settled, crashLost, dropped, crashes>>

WriteFail(t) ==
    /\ pc[t] = "write"
    /\ faults < MaxFaults
    /\ Interrupted(t, "requeue", AfterError(t))
    /\ UNCHANGED doomed

(* The flush that had to queue for _lock gets it. *)
Requeue(t) ==
    /\ pc[t] \in {"requeue", "unwind"}
    /\ lock = NoTask
    /\ PutBack
    /\ LeaveFlush(t)
    /\ pc' = [pc EXCEPT ![t] = IF pc[t] = "requeue" THEN AfterError(t) ELSE AfterCancel(t)]
    /\ UNCHANGED <<idBlock, closed, lock, flushTask, doomed, nextId, persisted, accepted,
                   returned, settled, crashLost, dropped, faults, crashes>>

Finish(t) ==
    /\ pc[t] = "finish"
    /\ lock = NoTask
    /\ FinishFlush(t)
    /\ UNCHANGED <<pending, idBlock, closed, lock, doomed, nextId, persisted,
                   accepted, crashLost, dropped, faults, crashes>>

-------------------------------------------------------------------------------
(* _flush_loop() *)

FlusherCheck(f) ==
    /\ pc[f] = "check"
    /\ lock = NoTask
    /\ pc' = [pc EXCEPT ![f] = IF armed THEN "sleep" ELSE "dead"]
    /\ UNCHANGED <<buffer, lock, flushLock, flushTask, cur, doomed, flight, nextId,
                   persisted, history, faults, crashes>>

FlusherWake(f) ==
    /\ pc[f] = "sleep"
    /\ pc' = [pc EXCEPT ![f] = "wait"]
    /\ due' = [due EXCEPT ![f] = accepted \ lost]
    /\ UNCHANGED <<buffer, lock, flushLock, flushTask, cur, doomed, flight, nextId,
                   persisted, accepted, returned, settled, crashLost, dropped,
                   faults, crashes>>

-------------------------------------------------------------------------------
(* aclose() *)

(* Close the door, cancel the flusher if there is one, then await it. *)
CloseBegin ==
    /\ pc[Closer] = "idle"
    /\ lock = NoTask
    /\ closed' = TRUE
    /\ flushTask' = NoTask
    /\ doomed' = IF flushTask # NoTask /\ pc[flushTask] # "dead" THEN {flushTask} ELSE {}
    /\ pc' = [pc EXCEPT ![Closer] = "join"]
    /\ UNCHANGED <<pending, idBlock, armed, lock, flushLock, cur, flight, nextId, persisted,
                   history, faults, crashes>>

(* The cancelled flusher is over: flush what remains. *)
CloseFlush ==
    /\ pc[Closer] = "join"
    /\ doomed = {}
    /\ \A f \in Flushers : pc[f] # "unwind"
    /\ pc' = [pc EXCEPT ![Closer] = "wait"]
    /\ due' = [due EXCEPT ![Closer] = accepted \ lost]
    /\ UNCHANGED <<buffer, lock, flushLock, flushTask, cur, doomed, flight, nextId,
                   persisted, accepted, returned, settled, crashLost, dropped,
                   faults, crashes>>

-------------------------------------------------------------------------------
(* Cancellation at an await, and the end of the process *)

(* A cancelled flush already unwinding gives its batch up. *)
GiveUpBatch ==
    /\ dropped' = dropped \cup (ToSet(Unwritten) \ persisted)
    /\ batch' = <<>> /\ written' = 0

CancelInAlloc(t) ==
    /\ pc[t] = "alloc"
    /\ nextId' \in {nextId, nextId + FlushMaxEvents}
    /\ lock' = NoTask
    /\ pc' = [pc EXCEPT ![t] = "idle"]
    /\ faults' = faults + 1
    /\ UNCHANGED <<buffer, flushLock, flushTask, cur, flight, persisted, history, crashes>>

CancelOutsideWrite(t) ==
    /\ pc[t] \in {"check", "sleep", "wait", "take", "requeue", "unwind", "finish"}
    /\ IF pc[t] \in {"requeue", "unwind"} THEN GiveUpBatch
       ELSE IF pc[t] = "finish" THEN batch' = <<>> /\ written' = 0 /\ UNCHANGED dropped
       ELSE UNCHANGED <<batch, written, dropped>>
    /\ flushLock' = IF flushLock = t THEN NoTask ELSE flushLock
    /\ cur' = [cur EXCEPT ![t] = 0]
    /\ due' = [due EXCEPT ![t] = {}]
    /\ pc' = [pc EXCEPT ![t] = AfterCancel(t)]
    /\ faults' = faults + 1
    /\ UNCHANGED <<buffer, lock, flushTask, nextId, persisted, accepted, returned, settled,
                   crashLost, crashes>>

CancelInWrite(t) ==
    /\ pc[t] = "write"
    /\ Interrupted(t, "unwind", AfterCancel(t))

Cancel(t) == CancelInAlloc(t) \/ CancelOutsideWrite(t) \/ CancelInWrite(t)

(* A client disconnects, or the request's task group is torn down. *)
CallerCancelled(t) ==
    /\ t \in Callers
    /\ faults < MaxFaults
    /\ Cancel(t)
    /\ UNCHANGED doomed

(* The cancel() issued by aclose() reaches the flusher. *)
FlusherCancelled(f) ==
    /\ f \in doomed
    /\ Cancel(f)
    /\ doomed' = doomed \ {f}

(* The process dies and a new one starts over the same backend. *)
Crash ==
    /\ crashes < MaxCrashes
    /\ crashes' = crashes + 1
    /\ \E S \in IF \E t \in Tasks : pc[t] = "write" THEN MayHaveApplied ELSE {{}} :
          /\ persisted' = persisted \cup S
          /\ crashLost' = crashLost \cup ((ToSet(Unwritten) \cup ToSet(pending)) \ (persisted \cup S))
    /\ pending' = <<>> /\ idBlock' = <<>> /\ armed' = FALSE /\ closed' = FALSE
    /\ lock' = NoTask /\ flushLock' = NoTask /\ flushTask' = NoTask
    /\ batch' = <<>> /\ written' = 0
    /\ pc' = [t \in Tasks |-> IF t \in Flushers THEN "dead" ELSE "idle"]
    /\ cur' = [t \in Tasks |-> 0]
    /\ due' = [t \in Tasks |-> {}]
    /\ doomed' = {}
    /\ UNCHANGED <<nextId, accepted, returned, settled, dropped, faults>>

-------------------------------------------------------------------------------
Store(t) == t \in Callers /\ (StoreFromBlock(t) \/ StoreAwaitIds(t))
Allocate(t) == t \notin doomed /\ (AllocateOk(t) \/ AllocateFail(t))
FlushStep(t) ==
    /\ t \notin doomed
    /\ EnterFlush(t) \/ TakeNothing(t) \/ TakeBatch(t) \/ WriteOk(t) \/ WriteFail(t)
       \/ Requeue(t) \/ Finish(t)
FlusherStep(f) == f \notin doomed /\ (FlusherCheck(f) \/ FlusherWake(f))

Step ==
    \/ \E t \in Callers : Store(t) \/ Allocate(t) \/ CallFlush(t) \/ CallerCancelled(t)
    \/ \E t \in Tasks : FlushStep(t)
    \/ \E f \in Flushers : FlusherStep(f) \/ FlusherCancelled(f)
    \/ CloseBegin \/ CloseFlush
    \/ Crash

Next == Step /\ UNCHANGED backend

Spec == Init /\ [][Next]_vars

(* asyncio.Lock serves its waiters in order, so a task that keeps finding   *)
(* a lock free gets it; a backend call and a cancel() come to an end.       *)
Fairness ==
    /\ \A t \in Tasks : /\ SF_vars(FlushStep(t) /\ UNCHANGED backend)
                        /\ WF_vars(Allocate(t) /\ UNCHANGED backend)
    /\ \A f \in Flushers : /\ SF_vars(FlusherStep(f) /\ UNCHANGED backend)
                           /\ WF_vars(FlusherCancelled(f) /\ UNCHANGED backend)
    /\ WF_vars(CloseFlush /\ UNCHANGED backend)

FairSpec == Spec /\ Fairness

-------------------------------------------------------------------------------
(* Properties *)

(* Every variable holds a value of its kind. *)
TypeOK ==
    /\ backend \in Backends
    /\ pending \in Seq(Nat) /\ idBlock \in Seq(Nat) /\ batch \in Seq(Nat)
    /\ written \in Nat /\ nextId \in Nat /\ faults \in Nat /\ crashes \in Nat
    /\ lock \in Callers \cup {NoTask} /\ flushLock \in Tasks \cup {NoTask}
    /\ flushTask \in Flushers \cup {NoTask}
    /\ armed \in BOOLEAN /\ closed \in BOOLEAN
    /\ pc \in [Tasks -> Stages]
    /\ cur \in [Tasks -> Nat]
    /\ due \in [Tasks -> SUBSET Nat]
    /\ doomed \in SUBSET Flushers
    /\ persisted \in SUBSET Nat /\ accepted \in SUBSET Nat /\ returned \in SUBSET Nat
    /\ settled \in SUBSET Nat /\ crashLost \in SUBSET Nat /\ dropped \in SUBSET Nat

InFlight(t) == pc[t] \in {"write", "requeue", "unwind", "finish"}

(* Which task holds which lock, and where the batch in flight stands.      *)
StageInv ==
    /\ \A t \in Tasks : pc[t] = "alloc" <=> lock = t
    /\ \A t \in Tasks : pc[t] = "take" \/ InFlight(t) <=> flushLock = t
    /\ \A t \in Callers  : pc[t] \in FlushStages \cup {"idle", "alloc"}
    /\ \A f \in Flushers : pc[f] \in FlushStages \cup {"dead", "check", "sleep"}
    /\ pc[Closer] \in FlushStages \cup {"idle", "join", "closed"}
    /\ (\A t \in Tasks : ~InFlight(t)) => batch = <<>> /\ written = 0
    /\ \A t \in Tasks : pc[t] \in {"write", "requeue", "unwind"} =>
                            written < Len(batch) /\ (Bulk => written = 0)
    /\ \A t \in Tasks : pc[t] = "finish" => written = Len(batch)

(* Every id store_event took in is in the backend, in the batch being      *)
(* written, in the buffer, or lost with the process or with an abandoned   *)
(* batch; nothing else is ever written (batching.py:174-191).              *)
Conservation ==
    /\ accepted = persisted \cup ToSet(Unwritten) \cup ToSet(pending) \cup lost
    /\ lost \cap (persisted \cup ToSet(Unwritten) \cup ToSet(pending)) = {}
    /\ ToSet(Unwritten) \cap ToSet(pending) = {}


(* The batch in flight, the buffer and the unused ids stay in global id    *)
(* order through failures that put a tail back ahead of newer events       *)
(* ("preserving global event-ID order", batching.py:185-191).              *)
GlobalOrder == Increasing(Unwritten \o pending \o idBlock)

(* flush() is a barrier: once it returned normally to a reader, a store or *)
(* aclose(), whatever was accepted before the call is in the backend, even *)
(* when another task's flush was under way, failed or was retried          *)
(* (batching.py:241-245: "callers should never observe a partial view").   *)
(* Only a batch given up by a twice cancelled flush escapes it.            *)
FlushBarrier == settled \subseteq persisted \cup dropped

(* A backend whose failed writes are atomic, or that is written one event  *)
(* at a time, never holds an event without the earlier ones: a client      *)
(* that resumes after the last id it saw cannot skip one.                  *)
DurablePrefix ==
    Atomic \/ ~Bulk =>
        \A seen \in persisted, id \in accepted : id < seen => id \in persisted \cup lost

(* While the store is open, buffered events always have a live flusher     *)
(* that is going to look at them (_ensure_flusher, batching.py:142-145).   *)
NeverUnattended ==
    pending # <<>> /\ ~closed => armed /\ flushTask # NoTask /\ pc[flushTask] # "dead"

(* "the backlog is retained for retry" (batching.py:58-59): without a      *)
(* crash no accepted event disappears.                                     *)
BacklogRetained == dropped = {}

(* Every accepted event reaches the backend, is lost as above, or is left  *)
(* in the buffer by an aclose() whose last flush failed.                   *)
EventuallyResolved ==
    \A id \in 1..MaxId :
        id \in accepted ~> (id \in persisted \cup lost \/ (closed /\ pc[Closer] = "idle"))

(* The store keeps the promises of a write-behind log. *)
Log == INSTANCE WriteBehindLog WITH durable <- persisted, lost <- lost
LogSpec == Log!LogSpec
===============================================================================
