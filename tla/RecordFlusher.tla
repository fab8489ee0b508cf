---------------------------- MODULE RecordFlusher ----------------------------
(***************************************************************************)
(* RecordFlusher (src/src/mcp_persist/recorder.py): the request path puts  *)
(* records on a bounded queue without waiting, a background writer stores  *)
(* them in batches, and the application lifespan starts it and closes it   *)
(* within a time budget.  Loss is allowed but is counted.                  *)
(*                                                                         *)
(* One lifespan owns the flusher, as in fastmcp.py:358-364, and may run    *)
(* again on the same flusher.  A record is its number in the order of      *)
(* submission.  The in-flight count is the length of the batch.            *)
(***************************************************************************)
EXTENDS Naturals, FiniteSets, SequencesExt, OrderedSequences

CONSTANTS
    MaxQueue,     \* max_queue
    BatchSize,    \* batch_size
    MaxRecords,   \* bound: records submitted
    MaxStarts,    \* bound: calls of start()
    MaxFaults     \* bound: cancellations from outside

ASSUME LimitAssumption ==
    /\ MaxQueue \in Nat \ {0} /\ BatchSize \in Nat \ {0}
    /\ MaxRecords \in Nat /\ MaxStarts \in Nat /\ MaxFaults \in Nat

VARIABLES
    queue,        \* _queue: records waiting for the writer
    unfinished,   \* its count of items put and not yet task_done()
    task,         \* _task is not None
    writer,       \* where _run() stands
    batch,        \* the records _run() is writing
    cancelled,    \* cancel() was called on the writer and has not reached it
    life,         \* where the lifespan stands in start() or aclose()
    closing,      \* _closing
    accounted,    \* _accounted_at_shutdown
    written, dropped, failed,   \* the loss counters
    submitted,    \* history: records submitted
    stored,       \* history: records the backend holds
    charged,      \* history: queued records a close counted as dropped
    owed,         \* history: records unresolved when aclose() was called
    starts, faults

counters == <<written, dropped, failed>>
lifespan == <<task, life, closing, accounted, owed, starts>>
vars == <<queue, unfinished, writer, batch, cancelled, lifespan, counters,
          submitted, stored, charged, faults>>

Init ==
    /\ queue = <<>> /\ unfinished = 0 /\ batch = <<>>
    /\ task = FALSE /\ writer = "dead" /\ cancelled = FALSE
    /\ life = "idle" /\ closing = FALSE /\ accounted = FALSE
    /\ written = 0 /\ dropped = 0 /\ failed = 0
    /\ submitted = 0 /\ stored = {} /\ charged = 0 /\ owed = {}
    /\ starts = 0 /\ faults = 0

-------------------------------------------------------------------------------
(* The request path: submit() *)

(* Mutant of Submit: the queue is not bounded. *)
SubmitAlways ==
    /\ submitted < MaxRecords
    /\ submitted' = submitted + 1
    /\ queue' = Append(queue, submitted + 1)
    /\ unfinished' = unfinished + 1
    /\ UNCHANGED <<dropped, writer, batch, cancelled, lifespan, written, failed,
                   stored, charged, faults>>

(* put_nowait(), or a counted drop when the queue is full; nothing in it   *)
(* looks at whether a writer is running.                                   *)
Submit ==
    /\ submitted < MaxRecords
    /\ submitted' = submitted + 1
    /\ IF Len(queue) < MaxQueue
       THEN /\ queue' = Append(queue, submitted + 1)
            /\ unfinished' = unfinished + 1
            /\ UNCHANGED dropped
       ELSE /\ dropped' = dropped + 1
            /\ UNCHANGED <<queue, unfinished>>
    /\ UNCHANGED <<writer, batch, cancelled, lifespan, written, failed,
                   stored, charged, faults>>

-------------------------------------------------------------------------------
(* The writer: _run(), _collect() *)

(* Mutant of Collect: the batch is acknowledged as soon as it is taken. *)
CollectAndAcknowledge ==
    LET n == IF Len(queue) < BatchSize THEN Len(queue) ELSE BatchSize IN
    /\ writer = "get" /\ ~cancelled
    /\ queue # <<>>
    /\ batch' = SubSeq(queue, 1, n)
    /\ queue' = SubSeq(queue, n + 1, Len(queue))
    /\ writer' = "write"
    /\ life' = IF life = "joining" /\ queue' = <<>> THEN "joined" ELSE life
    /\ UNCHANGED <<unfinished, cancelled, task, closing, accounted, owed, starts, counters,
                   submitted, stored, charged, faults>>

(* Wait for one record, then take what else is there up to the batch size. *)
Collect ==
    LET n == IF Len(queue) < BatchSize THEN Len(queue) ELSE BatchSize IN
    /\ writer = "get" /\ ~cancelled
    /\ queue # <<>>
    /\ batch' = SubSeq(queue, 1, n)
    /\ queue' = SubSeq(queue, n + 1, Len(queue))
    /\ writer' = "write"
    /\ UNCHANGED <<unfinished, cancelled, lifespan, counters, submitted, stored,
                   charged, faults>>

(* The finally clause: every record of the batch is task_done(), and the   *)
(* count coming to 0 lets a waiting join() go.                             *)
BatchOver ==
    /\ unfinished' = unfinished - Len(batch)
    /\ life' = IF life = "joining" /\ unfinished' = 0 THEN "joined" ELSE life
    /\ batch' = <<>>
    /\ UNCHANGED <<task, closing, accounted, owed, starts>>

(* Mutant of WriteOk: the batch length is taken for the count. *)
WriteOkAssumed ==
    /\ writer = "write" /\ ~cancelled
    /\ \E S \in SUBSET ToSet(batch) : stored' = stored \cup S
    /\ written' = written + Len(batch)
    /\ writer' = "get"
    /\ BatchOver
    /\ UNCHANGED <<queue, cancelled, dropped, failed, submitted, charged, faults>>

(* store_records() answers how many of the batch it took. *)
WriteOk ==
    /\ writer = "write" /\ ~cancelled
    /\ \E S \in SUBSET ToSet(batch) :
          /\ stored' = stored \cup S
          /\ written' = written + Cardinality(S)
          /\ failed' = failed + (Len(batch) - Cardinality(S))
    /\ writer' = "get"
    /\ BatchOver
    /\ UNCHANGED <<queue, cancelled, dropped, submitted, charged, faults>>

(* store_records() raises; it may have stored some of the batch. *)
WriteFail ==
    /\ writer = "write" /\ ~cancelled
    /\ \E S \in SUBSET ToSet(batch) : stored' = stored \cup S
    /\ failed' = failed + Len(batch)
    /\ writer' = "get"
    /\ BatchOver
    /\ UNCHANGED <<queue, cancelled, written, dropped, submitted, charged, faults>>

(* Mutant of WriterCancelled: the guard set by a timed-out close is not read. *)
WriterCancelledAndCounted ==
    /\ cancelled
    /\ cancelled' = FALSE
    /\ writer' = "dead"
    /\ IF writer = "write"
       THEN /\ \E S \in SUBSET ToSet(batch) : stored' = stored \cup S
            /\ dropped' = dropped + Len(batch)
            /\ BatchOver
       ELSE UNCHANGED <<unfinished, batch, lifespan, dropped, stored>>
    /\ UNCHANGED <<queue, written, failed, submitted, charged, faults>>

(* A cancel() reaches the writer where it awaits.  A batch being written   *)
(* counts as dropped, unless the close that cancels has counted it.        *)
WriterCancelled ==
    /\ cancelled
    /\ cancelled' = FALSE
    /\ writer' = "dead"
    /\ IF writer = "write"
       THEN /\ \E S \in SUBSET ToSet(batch) : stored' = stored \cup S
            /\ dropped' = IF accounted THEN dropped ELSE dropped + Len(batch)
            /\ BatchOver
       ELSE UNCHANGED <<unfinished, batch, lifespan, dropped, stored>>
    /\ UNCHANGED <<queue, written, failed, submitted, charged, faults>>

(* Somebody else cancels the writer, as the end of the event loop does. *)
CancelWriter ==
    /\ faults < MaxFaults
    /\ writer # "dead" /\ ~cancelled
    /\ cancelled' = TRUE
    /\ faults' = faults + 1
    /\ UNCHANGED <<queue, unfinished, writer, batch, lifespan, counters,
                   submitted, stored, charged>>

-------------------------------------------------------------------------------
(* The lifespan: start() *)

StartCall ==
    /\ life = "idle"
    /\ ~task /\ ~closing
    /\ starts < MaxStarts
    /\ starts' = starts + 1
    /\ accounted' = FALSE
    /\ life' = "starting"
    /\ UNCHANGED <<queue, unfinished, writer, batch, cancelled, task, closing, owed,
                   counters, submitted, stored, charged, faults>>

(* The backend is initialised, or raises and no writer is created. *)
StartEnd ==
    /\ life = "starting"
    /\ life' = "idle"
    /\ \/ task' = TRUE /\ writer' = "get"
       \/ UNCHANGED <<task, writer>>
    /\ UNCHANGED <<queue, unfinished, batch, cancelled, closing, accounted, owed, starts,
                   counters, submitted, stored, charged, faults>>

-------------------------------------------------------------------------------
(* The lifespan: aclose() *)

(* aclose() waits for the queue's join(), which is over at once if nothing *)
(* is unfinished.                                                          *)
CloseCall ==
    /\ life = "idle"
    /\ task
    /\ closing' = TRUE
    /\ owed' = ToSet(batch \o queue)
    /\ life' = IF unfinished = 0 THEN "joined" ELSE "joining"
    /\ UNCHANGED <<queue, unfinished, writer, batch, cancelled, task, accounted, starts,
                   counters, submitted, stored, charged, faults>>

(* task.cancel(): nothing when the writer is over. *)
StopWriter ==
    /\ cancelled' = (writer # "dead")
    /\ life' = "stopping"

(* Mutant of CloseTimeout: the drain has no budget. *)
CloseTimeoutDrained ==
    /\ life = "joined"
    /\ dropped' = dropped + Len(queue) + Len(batch)
    /\ charged' = charged + Len(queue)
    /\ accounted' = TRUE
    /\ StopWriter
    /\ UNCHANGED <<queue, unfinished, writer, batch, task, closing, owed, starts,
                   written, failed, submitted, stored, faults>>

(* The budget is over, maybe just before join() is scheduled: what is       *)
(* queued or in flight is counted as dropped.  The queue keeps its part.    *)
CloseTimeout ==
    /\ life \in {"joining", "joined"}
    /\ dropped' = dropped + Len(queue) + Len(batch)
    /\ charged' = charged + Len(queue)
    /\ accounted' = TRUE
    /\ StopWriter
    /\ UNCHANGED <<queue, unfinished, writer, batch, task, closing, owed, starts,
                   written, failed, submitted, stored, faults>>

CloseDrained ==
    /\ life = "joined"
    /\ StopWriter
    /\ UNCHANGED <<queue, unfinished, writer, batch, task, closing, accounted, owed,
                   starts, counters, submitted, stored, charged, faults>>

(* The writer is over. *)
CloseEnd ==
    /\ life = "stopping"
    /\ writer = "dead"
    /\ life' = "idle"
    /\ task' = FALSE
    /\ closing' = FALSE
    /\ UNCHANGED <<queue, unfinished, writer, batch, cancelled, accounted, owed, starts,
                   counters, submitted, stored, charged, faults>>

(* aclose() is cancelled while it drains: the writer goes on, _closing     *)
(* stays set.  While it awaits the writer a cancellation is swallowed.     *)
CloseCancelled ==
    /\ life \in {"joining", "joined"}
    /\ faults < MaxFaults
    /\ faults' = faults + 1
    /\ life' = "idle"
    /\ UNCHANGED <<queue, unfinished, writer, batch, cancelled, task, closing, accounted,
                   owed, starts, counters, submitted, stored, charged>>

-------------------------------------------------------------------------------
Next ==
    \/ Submit
    \/ Collect \/ WriteOk \/ WriteFail \/ WriterCancelled \/ CancelWriter
    \/ StartCall \/ StartEnd
    \/ CloseCall \/ CloseTimeout \/ CloseDrained \/ CloseEnd \/ CloseCancelled

Spec == Init /\ [][Next]_vars

(* The event loop serves timers, cancellations and finished awaits.  Of    *)
(* the backend nothing is assumed: a write may never answer.               *)
Fairness ==
    /\ WF_vars(CloseTimeout) /\ WF_vars(CloseDrained) /\ WF_vars(CloseEnd)
    /\ WF_vars(WriterCancelled)

FairSpec == Spec /\ Fairness

-------------------------------------------------------------------------------
(* Properties *)

(* Every variable holds a value of its kind, and the queue its bound. *)
TypeOK ==
    /\ queue \in Seq(Nat) /\ Len(queue) <= MaxQueue
    /\ batch \in Seq(Nat) /\ Len(batch) <= BatchSize
    /\ unfinished \in Nat /\ submitted \in Nat /\ charged \in Nat
    /\ starts \in Nat /\ faults \in Nat
    /\ written \in Nat /\ dropped \in Nat /\ failed \in Nat
    /\ task \in BOOLEAN /\ cancelled \in BOOLEAN /\ closing \in BOOLEAN
    /\ accounted \in BOOLEAN
    /\ writer \in {"dead", "get", "write"}
    /\ life \in {"idle", "starting", "joining", "joined", "stopping"}
    /\ stored \in SUBSET Nat /\ owed \in SUBSET Nat

(* A batch whose loss the close in progress has already counted. *)
Excused == IF life = "stopping" /\ accounted THEN Len(batch) ELSE 0

(* No record is lost without being counted and none is counted twice, over *)
(* full queues, failed and partial writes, cancellations in the middle of  *)
(* a write, timed-out closes and restarts; the one exception is what a     *)
(* timed-out close counts and leaves in the queue (recorder.py:166-204).   *)
Accounting ==
    written + dropped + failed + Len(queue) + Len(batch)
        = submitted + charged + Excused

(* The written counter never says more than the backend holds: it is       *)
(* "confirmed by the store's own returned count" (docs/records.md:210).    *)
WrittenIsStored == written <= Cardinality(stored)

(* aclose() goes on before its budget is over only when each record that   *)
(* was queued or in flight at the call has been dealt with.                *)
DrainBarrier == life = "joined" => owed \cap ToSet(batch \o queue) = {}

(* aclose() comes back, even when the backend never answers and records    *)
(* keep coming (drain_timeout, recorder.py:164-186).                       *)
CloseReturns == life \in {"joining", "joined", "stopping"} ~> life = "idle"
===============================================================================
