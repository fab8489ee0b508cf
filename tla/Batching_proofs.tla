--------------------------- MODULE Batching_proofs ---------------------------
(***************************************************************************)
(* Proofs about Batching, for every number of tasks and every bound.       *)
(***************************************************************************)
EXTENDS Batching, OrderedSequences_proofs, TLAPS

(* What _ensure_flusher() does to the stages: at most one dead slot wakes, *)
(* and _flush_task is a live flusher afterwards.                           *)
LEMMA EnsureFlusherFacts ==
    ASSUME TypeOK, NEW pcs \in [Tasks -> Stages], EnsureFlusher(pcs)
    PROVE  /\ pc' \in [Tasks -> Stages]
           /\ flushTask' \in Flushers
           /\ pc'[flushTask'] # "dead"
           /\ \A t \in Tasks : \/ pc'[t] = pcs[t]
                               \/ t = flushTask' /\ pcs[t] = "dead" /\ pc'[t] = "check"
           /\ \/ flushTask' = flushTask /\ pc' = pcs
              \/ flushTask = NoTask
              \/ flushTask \in Flushers /\ pcs[flushTask] = "dead"
<1> USE TaskAssumption DEF Tasks
<1>1. CASE /\ flushTask # NoTask /\ pcs[flushTask] # "dead"
           /\ pc' = pcs /\ UNCHANGED flushTask
  BY <1>1 DEF TypeOK
<1>2. CASE /\ flushTask # NoTask => pcs[flushTask] = "dead"
           /\ \E f \in Flushers : /\ pcs[f] = "dead"
                                  /\ pc' = [pcs EXCEPT ![f] = "check"]
                                  /\ flushTask' = f
  <2>1. PICK f \in Flushers : /\ pcs[f] = "dead"
                              /\ pc' = [pcs EXCEPT ![f] = "check"]
                              /\ flushTask' = f
    BY <1>2
  <2>2. "check" \in Stages
    BY DEF Stages
  <2> QED
    BY <1>2, <2>1, <2>2 DEF TypeOK
<1> QED
  BY <1>1, <1>2 DEF EnsureFlusher

(* Where flush() leaves a task is one of the stages. *)
LEMMA AfterFlushFacts ==
    ASSUME NEW t \in Tasks
    PROVE  /\ AfterReturn(t) \in {"check", "closed", "idle"}
           /\ AfterError(t) \in {"check", "idle"}
           /\ AfterCancel(t) \in {"dead", "idle"}
           /\ t \in Flushers => AfterReturn(t) = "check" /\ AfterError(t) = "check" /\ AfterCancel(t) = "dead"
           /\ t \in Callers => AfterReturn(t) = "idle" /\ AfterError(t) = "idle" /\ AfterCancel(t) = "idle"
           /\ t = Closer => AfterReturn(t) = "closed" /\ AfterError(t) = "idle" /\ AfterCancel(t) = "idle"
BY TaskAssumption DEF AfterReturn, AfterError, AfterCancel, Tasks

(* The ids of a block: a non-empty sequence, increasing from its first. *)
LEMMA BlockFacts ==
    ASSUME NEW n \in Nat
    PROVE  /\ Block(n) \in Seq(Nat)
           /\ Block(n) # <<>>
           /\ Increasing(Block(n))
           /\ \A x \in ToSet(Block(n)) : n <= x /\ x < n + FlushMaxEvents
<1>1. FlushMaxEvents \in Nat \ {0}
  BY LimitAssumption
<1>2. \A i \in 1..FlushMaxEvents : n + i - 1 \in Nat
  BY <1>1
<1>3. Block(n) \in [1..FlushMaxEvents -> Nat]
  BY <1>2 DEF Block
<1>4. Block(n) \in Seq(Nat) /\ DOMAIN Block(n) = 1..FlushMaxEvents
  BY <1>1, <1>3, SeqDef
<1>5. \A i \in 1..FlushMaxEvents : Block(n)[i] = n + i - 1
  BY DEF Block
<1>6. Block(n) # <<>>
  <2>1. 1 \in DOMAIN Block(n)
    BY <1>1, <1>4
  <2> QED
    BY <2>1
<1>7. Increasing(Block(n))
  BY <1>1, <1>4, <1>5 DEF Increasing
<1>8. \A x \in ToSet(Block(n)) : n <= x /\ x < n + FlushMaxEvents
  BY <1>1, <1>4, <1>5 DEF ToSet
<1> QED
  BY <1>4, <1>6, <1>7, <1>8

-------------------------------------------------------------------------------
(* What the shared parts of the actions do to types and stages *)

(* How the stages move in a step of task t: others keep theirs, except     *)
(* that a dead flusher slot may start its loop.                            *)
OnlyMoves(t) ==
    \A u \in Tasks \ {t} : \/ pc'[u] = pc[u]
                           \/ u \in Flushers /\ pc[u] = "dead" /\ pc'[u] = "check"

LEMMA Append1Types ==
    ASSUME TypeOK, NEW t \in Callers, NEW blk \in Seq(Nat), blk # <<>>, Append1(t, blk)
    PROVE  /\ pending' \in Seq(Nat) /\ idBlock' \in Seq(Nat)
           /\ armed' \in BOOLEAN
           /\ flushTask' \in Flushers \cup {NoTask}
           /\ pc' \in [Tasks -> Stages] /\ pc'[t] \in {"wait", "idle"} /\ OnlyMoves(t)
           /\ cur' \in [Tasks -> Nat] /\ due' \in [Tasks -> SUBSET Nat]
           /\ accepted' \in SUBSET Nat /\ returned' \in SUBSET Nat
<1> DEFINE full == Len(pending) + 1 >= FlushMaxEvents
           pcs == [pc EXCEPT ![t] = IF full THEN "wait" ELSE "idle"]
<1>1. Head(blk) \in Nat /\ Tail(blk) \in Seq(Nat)
  BY HeadFacts
<1>2. t \in Tasks /\ t \notin Flushers
  BY TaskAssumption DEF Tasks
<1>3. pcs \in [Tasks -> Stages] /\ pcs[t] \in {"wait", "idle"}
      /\ \A u \in Tasks \ {t} : pcs[u] = pc[u]
  BY <1>2 DEF TypeOK, Stages, FlushStages
<1>4. (pc' = pcs /\ UNCHANGED flushTask) \/ EnsureFlusher(pcs)
  BY DEF Append1
<1>5. /\ pc' \in [Tasks -> Stages] /\ pc'[t] \in {"wait", "idle"} /\ OnlyMoves(t)
      /\ flushTask' \in Flushers \cup {NoTask}
  <2> HIDE DEF pcs
  <2>1. CASE pc' = pcs /\ UNCHANGED flushTask
    BY <1>3, <2>1 DEF TypeOK, OnlyMoves
  <2>2. CASE EnsureFlusher(pcs)
    BY <1>2, <1>3, <2>2, EnsureFlusherFacts DEF OnlyMoves
  <2> QED
    BY <1>4, <2>1, <2>2
<1>6. pending' = Append(pending, Head(blk)) /\ pending' \in Seq(Nat)
  BY <1>1, AppendFacts DEF Append1, TypeOK
<1>7. /\ idBlock' = Tail(blk)
      /\ armed' = TRUE
      /\ cur' = IF full THEN [cur EXCEPT ![t] = Head(blk)] ELSE cur
      /\ due' = IF full THEN [due EXCEPT ![t] = (accepted \ lost) \cup {Head(blk)}] ELSE due
      /\ accepted' = accepted \cup {Head(blk)}
      /\ returned' = IF full THEN returned ELSE returned \cup {Head(blk)}
  BY DEF Append1
<1> HIDE DEF full, pcs
<1>8. cur' \in [Tasks -> Nat] /\ due' \in [Tasks -> SUBSET Nat]
  BY <1>1, <1>7 DEF TypeOK
<1> QED
  BY <1>1, <1>5, <1>6, <1>7, <1>8 DEF TypeOK

LEMMA LeaveTypes ==
    ASSUME TypeOK, NEW t \in Tasks, LeaveFlush(t)
    PROVE  /\ flushLock' = NoTask
           /\ cur' \in [Tasks -> Nat] /\ due' \in [Tasks -> SUBSET Nat]
BY DEF LeaveFlush, TypeOK

LEMMA ReturnTypes ==
    ASSUME TypeOK, NEW t \in Tasks, ReturnFromFlush(t)
    PROVE  /\ flushLock' = NoTask
           /\ cur' \in [Tasks -> Nat] /\ due' \in [Tasks -> SUBSET Nat]
           /\ settled' \in SUBSET Nat /\ returned' \in SUBSET Nat
<1>1. due[t] \in SUBSET Nat /\ cur[t] \in Nat
  BY DEF TypeOK
<1> QED
  BY <1>1, LeaveTypes DEF ReturnFromFlush, TypeOK

LEMMA FinishTypes ==
    ASSUME TypeOK, NEW t \in Tasks, FinishFlush(t), pc[t] # "dead"
    PROVE  /\ batch' = <<>> /\ written' = 0
           /\ flushLock' = NoTask
           /\ armed' \in BOOLEAN
           /\ flushTask' \in Flushers \cup {NoTask}
           /\ pc' \in [Tasks -> Stages] /\ pc'[t] = AfterReturn(t) /\ OnlyMoves(t)
           /\ cur' \in [Tasks -> Nat] /\ due' \in [Tasks -> SUBSET Nat]
           /\ settled' \in SUBSET Nat /\ returned' \in SUBSET Nat
<1> DEFINE pcs == [pc EXCEPT ![t] = AfterReturn(t)]
<1>1. ReturnFromFlush(t) /\ batch' = <<>> /\ written' = 0
  BY DEF FinishFlush
<1>2. pcs \in [Tasks -> Stages] /\ pcs[t] = AfterReturn(t)
      /\ \A u \in Tasks \ {t} : pcs[u] = pc[u]
  BY AfterFlushFacts DEF TypeOK, Stages
<1>3. \/ armed' = FALSE /\ pc' = pcs /\ UNCHANGED flushTask
      \/ armed' = TRUE /\ EnsureFlusher(pcs)
  BY DEF FinishFlush
<1> HIDE DEF pcs
<1>4. /\ pc' \in [Tasks -> Stages] /\ pc'[t] = AfterReturn(t) /\ OnlyMoves(t)
      /\ flushTask' \in Flushers \cup {NoTask} /\ armed' \in BOOLEAN
  <2>1. CASE armed' = FALSE /\ pc' = pcs /\ UNCHANGED flushTask
    BY <1>2, <2>1 DEF TypeOK, OnlyMoves
  <2>2. CASE armed' = TRUE /\ EnsureFlusher(pcs)
    <3>1. AfterReturn(t) # "dead"
      BY AfterFlushFacts
    <3> QED
      BY <1>2, <2>2, <3>1, EnsureFlusherFacts DEF OnlyMoves, Tasks
  <2> QED
    BY <1>3, <2>1, <2>2
<1> QED
  BY <1>1, <1>4, ReturnTypes

(* The tail of the batch in flight that has not been written. *)
LEMMA UnwrittenTypes ==
    ASSUME TypeOK, written <= Len(batch)
    PROVE  /\ Unwritten \in Seq(Nat)
           /\ Len(Unwritten) = Len(batch) - written
           /\ \A i \in 1..(Len(batch) - written) : Unwritten[i] = batch[written + i]
           /\ ToSet(Unwritten) \subseteq ToSet(batch)
<1>1. /\ Unwritten \in Seq(Nat)
      /\ Len(Unwritten) = Len(batch) - written
      /\ \A i \in 1..(Len(batch) - written) : Unwritten[i] = batch[written + i]
  BY SuffixFacts DEF TypeOK, Unwritten
<1>2. ASSUME NEW x \in ToSet(Unwritten) PROVE x \in ToSet(batch)
  <2>1. PICK i \in 1..(Len(batch) - written) : x = Unwritten[i]
    BY <1>1, <1>2, ToSetDef
  <2>2. x = batch[written + i] /\ written + i \in 1..Len(batch)
    BY <1>1, <2>1, ToSetDef DEF TypeOK
  <2> QED
    BY <2>2, ToSetDef DEF TypeOK
<1> QED
  BY <1>1, <1>2

-------------------------------------------------------------------------------
(* Types, and which task holds which lock *)

Typed == TypeOK /\ StageInv

LEMMA TypedInit == Init => Typed
<1> SUFFICES ASSUME Init PROVE Typed
  OBVIOUS
<1>1. \A t \in Tasks : pc[t] = IF t \in Flushers THEN "dead" ELSE "idle"
  BY DEF Init
<1>2. TypeOK
  BY EmptyFacts, <1>1, TaskAssumption DEF Init, TypeOK, Stages, FlushStages, Tasks
<1>3. StageInv
  BY <1>1, TaskAssumption DEF Init, StageInv, InFlight, FlushStages, Tasks
<1> QED
  BY <1>2, <1>3 DEF Typed

(* A step that only moves task t. *)
LEMMA Move ==
    ASSUME TypeOK, NEW t \in Tasks, NEW v \in Stages, pc' = [pc EXCEPT ![t] = v]
    PROVE  pc' \in [Tasks -> Stages] /\ pc'[t] = v /\ OnlyMoves(t)
BY DEF TypeOK, OnlyMoves

(* A step of task t alone keeps StageInv when t's own stage agrees with    *)
(* the locks, and the batch is touched only under _flush_lock.             *)
LEMMA StageStep ==
    ASSUME StageInv, UNCHANGED backend, NEW t \in Tasks, OnlyMoves(t),
           pc'[t] = "alloc" <=> lock' = t,
           \A u \in Tasks \ {t} : lock' = u <=> lock = u,
           (pc'[t] = "take" \/ InFlight(t)') <=> flushLock' = t,
           \A u \in Tasks \ {t} : flushLock' = u <=> flushLock = u,
           t \in Callers  => pc'[t] \in FlushStages \cup {"idle", "alloc"},
           t \in Flushers => pc'[t] \in FlushStages \cup {"dead", "check", "sleep"},
           t = Closer     => pc'[t] \in FlushStages \cup {"idle", "join", "closed"},
           \/ UNCHANGED <<batch, written>> /\ ~InFlight(t) /\ ~InFlight(t)'
           \/ /\ flushLock = t
              /\ ~InFlight(t)' => batch' = <<>> /\ written' = 0
              /\ pc'[t] \in {"write", "requeue", "unwind"} =>
                        written' < Len(batch') /\ (Bulk => written' = 0)
              /\ pc'[t] = "finish" => written' = Len(batch')
    PROVE  StageInv'
<1> USE DEF InFlight, Bulk
<1>1. \A u \in Tasks \ {t} : \/ pc'[u] = pc[u]
                             \/ u \in Flushers /\ pc[u] = "dead" /\ pc'[u] = "check"
  BY DEF OnlyMoves
<1>2. /\ \A u \in Tasks : pc'[u] = "alloc" <=> lock' = u
      /\ \A u \in Tasks : (pc'[u] = "take" \/ InFlight(u)') <=> flushLock' = u
  BY <1>1 DEF StageInv
<1>3. /\ \A c \in Callers  : pc'[c] \in FlushStages \cup {"idle", "alloc"}
      /\ \A f \in Flushers : pc'[f] \in FlushStages \cup {"dead", "check", "sleep"}
      /\ pc'[Closer] \in FlushStages \cup {"idle", "join", "closed"}
  BY <1>1, TaskAssumption DEF StageInv, Tasks
<1>4. /\ (\A u \in Tasks : ~InFlight(u)') => batch' = <<>> /\ written' = 0
      /\ \A u \in Tasks : pc'[u] \in {"write", "requeue", "unwind"} =>
                              written' < Len(batch') /\ (Bulk => written' = 0)
      /\ \A u \in Tasks : pc'[u] = "finish" => written' = Len(batch')
  <2>1. CASE UNCHANGED <<batch, written>> /\ ~InFlight(t) /\ ~InFlight(t)'
    BY <1>1, <2>1 DEF StageInv
  <2>2. CASE /\ flushLock = t
             /\ ~InFlight(t)' => batch' = <<>> /\ written' = 0
             /\ pc'[t] \in {"write", "requeue", "unwind"} =>
                       written' < Len(batch') /\ (Bulk => written' = 0)
             /\ pc'[t] = "finish" => written' = Len(batch')
    <3>1. \A u \in Tasks \ {t} : ~InFlight(u)
      BY <2>2 DEF StageInv
    <3> QED
      BY <1>1, <2>2, <3>1
  <2> QED
    BY <2>1, <2>2
<1> QED
  BY <1>2, <1>3, <1>4 DEF StageInv

(* The two ways store_event appends keep types and stages. *)
LEMMA TypedStore ==
    ASSUME Typed, UNCHANGED backend, NEW t \in Callers, Store(t) \/ Allocate(t)
    PROVE  Typed'
<1> USE DEF Typed, Bulk
<1>1. t \in Tasks /\ t \notin Flushers /\ t # Closer /\ t # NoTask
  BY TaskAssumption DEF Tasks
<1>2. CASE StoreFromBlock(t)
  <2>1. Append1(t, idBlock) /\ idBlock \in Seq(Nat) /\ idBlock # <<>> /\ pc[t] = "idle"
    BY <1>2 DEF StoreFromBlock, Admits, TypeOK
  <2>2. UNCHANGED <<closed, lock, flushLock, doomed, batch, written, nextId, persisted,
                    settled, crashLost, dropped, faults, crashes>>
    BY <1>2 DEF StoreFromBlock, flight
  <2>3. TypeOK'
    BY <2>1, <2>2, Append1Types DEF TypeOK
  <2>4. pc'[t] \in {"wait", "idle"} /\ OnlyMoves(t)
    BY <2>1, Append1Types
  <2> QED
    <3>1. pc[t] # "alloc" /\ lock # t /\ flushLock # t /\ ~InFlight(t)
      BY <1>1, <2>1 DEF StageInv, InFlight
    <3>2. StageInv'
      BY <1>1, <2>2, <2>4, <3>1, StageStep DEF InFlight, FlushStages
    <3> QED
      BY <2>3, <3>2
<1>3. CASE StoreAwaitIds(t)
  <2>1. /\ pc[t] = "idle" /\ lock = NoTask /\ lock' = t
        /\ pc' = [pc EXCEPT ![t] = "alloc"]
        /\ UNCHANGED <<buffer, flushLock, flushTask, cur, doomed, flight, nextId,
                       persisted, history, faults, crashes>>
    BY <1>3 DEF StoreAwaitIds, Admits
  <2>2. pc' \in [Tasks -> Stages] /\ pc'[t] = "alloc" /\ OnlyMoves(t)
    BY <1>1, <2>1, Move DEF Stages
  <2>3. TypeOK'
    BY <2>1, <2>2 DEF TypeOK, buffer, flight, history
  <2>4. flushLock # t /\ ~InFlight(t)
    BY <1>1, <2>1 DEF StageInv, InFlight
  <2>5. StageInv'
    BY <1>1, <2>1, <2>2, <2>4, StageStep, TaskAssumption DEF InFlight, Tasks, flight
  <2> QED
    BY <2>3, <2>5
<1>4. CASE AllocateOk(t)
  <2>1. PICK first \in nextId..(nextId + 1) : nextId' = first + FlushMaxEvents
                                              /\ Append1(t, Block(first))
    BY <1>4 DEF AllocateOk
  <2>2. /\ pc[t] = "alloc" /\ lock' = NoTask
        /\ UNCHANGED <<closed, flushLock, doomed, batch, written, persisted, settled,
                       crashLost, dropped, faults, crashes>>
    BY <1>4 DEF AllocateOk, flight
  <2>3. first \in Nat /\ nextId' \in Nat
    BY <2>1, LimitAssumption DEF TypeOK
  <2>4. Block(first) \in Seq(Nat) /\ Block(first) # <<>>
    BY <2>3, BlockFacts
  <2>5. TypeOK'
    BY <2>1, <2>2, <2>3, <2>4, Append1Types DEF TypeOK
  <2>6. pc'[t] \in {"wait", "idle"} /\ OnlyMoves(t)
    BY <2>1, <2>4, Append1Types
  <2>7. lock = t /\ flushLock # t /\ ~InFlight(t)
    BY <1>1, <2>2 DEF StageInv, InFlight
  <2>8. StageInv'
    BY <1>1, <2>2, <2>6, <2>7, StageStep, TaskAssumption DEF InFlight, FlushStages, Tasks
  <2> QED
    BY <2>5, <2>8
<1>5. CASE AllocateFail(t)
  <2>1. /\ pc[t] = "alloc" /\ lock' = NoTask
        /\ pc' = [pc EXCEPT ![t] = "idle"]
        /\ UNCHANGED <<buffer, flushLock, flushTask, cur, doomed, flight, nextId,
                       persisted, history, faults, crashes>>
    BY <1>5 DEF AllocateFail
  <2>2. pc' \in [Tasks -> Stages] /\ pc'[t] = "idle" /\ OnlyMoves(t)
    BY <1>1, <2>1, Move DEF Stages
  <2>3. TypeOK'
    BY <2>1, <2>2 DEF TypeOK, buffer, flight, history
  <2>4. lock = t /\ flushLock # t /\ ~InFlight(t)
    BY <1>1, <2>1 DEF StageInv, InFlight
  <2>5. StageInv'
    BY <1>1, <2>1, <2>2, <2>4, StageStep, TaskAssumption DEF InFlight, Tasks, flight
  <2> QED
    BY <2>3, <2>5
<1> QED
  BY <1>2, <1>3, <1>4, <1>5 DEF Store, Allocate

(* A task that starts to wait for flush(), or looks at the timer. *)
LEMMA TypedWait ==
    ASSUME Typed, UNCHANGED backend, NEW t \in Tasks,
           CallFlush(t) \/ (t \in Flushers /\ (FlusherCheck(t) \/ FlusherWake(t)))
    PROVE  Typed'
<1> USE DEF Typed
<1>1. PICK v \in {"wait", "sleep", "dead"} :
         /\ pc' = [pc EXCEPT ![t] = v]
         /\ v # "wait" => t \in Flushers
         /\ pc[t] \in {"idle", "check", "sleep"}
         /\ UNCHANGED <<buffer, lock, flushLock, flushTask, cur, doomed, flight, nextId,
                        persisted, accepted, returned, settled, crashLost, dropped,
                        faults, crashes>>
         /\ due' = due \/ due' = [due EXCEPT ![t] = accepted \ lost]
  BY DEF CallFlush, FlusherCheck, FlusherWake, history
<1>2. pc' \in [Tasks -> Stages] /\ pc'[t] = v /\ OnlyMoves(t)
  BY <1>1, Move DEF Stages, FlushStages
<1>3. TypeOK'
  BY <1>1, <1>2 DEF TypeOK, buffer, flight
<1>4. lock # t /\ flushLock # t /\ ~InFlight(t)
  BY <1>1 DEF StageInv, InFlight
<1>5. StageInv'
  BY <1>1, <1>2, <1>4, StageStep, TaskAssumption DEF InFlight, Tasks, flight, FlushStages
<1> QED
  BY <1>3, <1>5

(* Taking the lock and the batch. *)
LEMMA TypedTake ==
    ASSUME Typed, UNCHANGED backend, NEW t \in Tasks,
           EnterFlush(t) \/ TakeNothing(t) \/ TakeBatch(t)
    PROVE  Typed'
<1> USE DEF Typed
<1>1. CASE EnterFlush(t)
  <2>1. /\ pc[t] = "wait" /\ flushLock = NoTask /\ flushLock' = t
        /\ pc' = [pc EXCEPT ![t] = "take"]
        /\ UNCHANGED <<buffer, lock, flushTask, cur, doomed, flight, nextId, persisted,
                       history, faults, crashes>>
    BY <1>1 DEF EnterFlush
  <2>2. pc' \in [Tasks -> Stages] /\ pc'[t] = "take" /\ OnlyMoves(t)
    BY <2>1, Move DEF Stages, FlushStages
  <2>3. TypeOK'
    BY <2>1, <2>2 DEF TypeOK, buffer, flight, history
  <2>4. lock # t /\ ~InFlight(t)
    BY <2>1 DEF StageInv, InFlight
  <2>5. StageInv'
    BY <2>1, <2>2, <2>4, StageStep, TaskAssumption DEF InFlight, Tasks, flight, FlushStages
  <2> QED
    BY <2>3, <2>5
<1>2. CASE TakeNothing(t)
  <2>1. /\ pc[t] = "take" /\ ReturnFromFlush(t)
        /\ pc' = [pc EXCEPT ![t] = AfterReturn(t)]
        /\ UNCHANGED <<buffer, lock, flushTask, doomed, flight, nextId, persisted,
                       accepted, crashLost, dropped, faults, crashes>>
    BY <1>2 DEF TakeNothing
  <2>2. AfterReturn(t) \in Stages
    BY AfterFlushFacts DEF Stages
  <2>3. pc' \in [Tasks -> Stages] /\ pc'[t] = AfterReturn(t) /\ OnlyMoves(t)
    BY <2>1, <2>2, Move
  <2>4. TypeOK'
    BY <2>1, <2>3, ReturnTypes DEF TypeOK, buffer, flight
  <2>5. lock # t /\ flushLock = t /\ flushLock' = NoTask
    BY <2>1, ReturnTypes DEF StageInv
  <2>6. batch = <<>> /\ written = 0
    <3>1. \A u \in Tasks : ~InFlight(u)
      BY <2>1, <2>5 DEF StageInv, InFlight
    <3> QED
      BY <3>1 DEF StageInv
  <2>7. StageInv'
    BY <2>1, <2>3, <2>5, <2>6, StageStep, AfterFlushFacts, TaskAssumption
       DEF InFlight, Tasks, flight, FlushStages
  <2> QED
    BY <2>4, <2>7
<1>3. CASE TakeBatch(t)
  <2>1. /\ pc[t] = "take" /\ pending # <<>>
        /\ batch' = pending /\ written' = 0 /\ pending' = <<>>
        /\ pc' = [pc EXCEPT ![t] = "write"]
        /\ UNCHANGED <<idBlock, armed, closed, lock, flushLock, flushTask, cur, doomed,
                       nextId, persisted, history, faults, crashes>>
    BY <1>3 DEF TakeBatch
  <2>2. pc' \in [Tasks -> Stages] /\ pc'[t] = "write" /\ OnlyMoves(t)
    BY <2>1, Move DEF Stages, FlushStages
  <2>3. TypeOK'
    BY <2>1, <2>2, EmptyFacts DEF TypeOK, history
  <2>4. lock # t /\ flushLock = t
    BY <2>1 DEF StageInv
  <2>5. written' < Len(batch')
    BY <2>1, EmptySeq DEF TypeOK
  <2>6. StageInv'
    BY <2>1, <2>2, <2>4, <2>5, StageStep DEF InFlight, FlushStages
  <2> QED
    BY <2>3, <2>6
<1> QED
  BY <1>1, <1>2, <1>3

(* What a call to the backend can add to it: ids of the batch. *)
LEMMA AppliedFacts ==
    ASSUME Typed, NEW t \in Tasks, pc[t] = "write"
    PROVE  /\ \A S \in MayHaveApplied : S \subseteq ToSet(Unwritten)
           /\ written + 1 \in 1..Len(batch)
           /\ batch[written + 1] \in ToSet(Unwritten)
           /\ Bulk => Unwritten = batch
           /\ ToSet(Unwritten) \subseteq Nat
<1> USE DEF Typed
<1>1. written < Len(batch) /\ (Bulk => written = 0)
  BY DEF StageInv
<1>2. written \in Nat /\ Len(batch) \in Nat /\ batch \in Seq(Nat)
  BY ToSetDef DEF TypeOK
<1>3. Bulk => Unwritten = batch
  BY <1>1, <1>2, SubSeqFull DEF Unwritten
<1>4. /\ Unwritten \in Seq(Nat) /\ Len(Unwritten) = Len(batch) - written
      /\ Unwritten[1] = batch[written + 1]
  <2>1. 1 \in 1..(Len(batch) - written)
    BY <1>1, <1>2
  <2> QED
    BY <1>1, <1>2, <2>1, UnwrittenTypes
<1>5. Unwritten[1] \in ToSet(Unwritten) /\ ToSet(Unwritten) \subseteq Nat
  <2>1. 1 \in 1..Len(Unwritten)
    BY <1>1, <1>2, <1>4
  <2> QED
    BY <1>4, <2>1, ToSetDef
<1> QED
  BY <1>1, <1>2, <1>3, <1>4, <1>5 DEF MayHaveApplied

(* A backend call that succeeds adds the batch, or its next event. *)
LEMMA WriteOkFacts ==
    ASSUME Typed, NEW t \in Tasks, WriteOk(t)
    PROVE  LET n == IF Bulk THEN Len(batch) ELSE written + 1 IN
           /\ pc[t] = "write" /\ flushLock = t /\ lock # t
           /\ n \in Nat /\ written < n /\ n <= Len(batch)
           /\ persisted' = persisted \cup (IF Bulk THEN ToSet(batch) ELSE {batch[written + 1]})
           /\ persisted' \in SUBSET Nat
           /\ UNCHANGED <<pending, idBlock, closed, lock, doomed, nextId, accepted,
                          crashLost, dropped, faults, crashes>>
           /\ \/ /\ ~Bulk /\ n < Len(batch) /\ written' = n
                 /\ UNCHANGED <<armed, batch, flushLock, flushTask, pc, cur, due, settled, returned>>
              \/ /\ n = Len(batch) /\ lock = NoTask
                 /\ FinishFlush(t)
              \/ /\ n = Len(batch) /\ lock # NoTask
                 /\ written' = n
                 /\ pc' = [pc EXCEPT ![t] = "finish"]
                 /\ UNCHANGED <<armed, batch, flushLock, flushTask, cur, due, settled, returned>>
<1> DEFINE n == IF Bulk THEN Len(batch) ELSE written + 1
<1> USE DEF Typed
<1>1. pc[t] = "write"
  BY DEF WriteOk
<1>2. flushLock = t /\ lock # t
  BY <1>1 DEF StageInv, InFlight
<1>3. written \in Nat /\ Len(batch) \in Nat /\ batch \in Seq(Nat)
  BY ToSetDef DEF TypeOK
<1>4. written < Len(batch) /\ (Bulk => written = 0)
  BY <1>1 DEF StageInv
<1>5. n \in Nat /\ written < n /\ n <= Len(batch) /\ (Bulk => n = Len(batch))
  BY <1>3, <1>4
<1>6. ToSet(SubSeq(batch, written + 1, n)) = IF Bulk THEN ToSet(batch) ELSE {batch[written + 1]}
  <2>1. CASE Bulk
    <3>1. n = Len(batch) /\ written + 1 = 1
      BY <1>3, <1>4, <2>1
    <3>2. SubSeq(batch, 1, Len(batch)) = batch
      BY <1>3, SubSeqFull
    <3> QED
      BY <2>1, <3>1, <3>2
  <2>2. CASE ~Bulk
    <3>1. written + 1 \in 1..Len(batch) /\ n = written + 1
      BY <1>3, <1>4, <2>2
    <3> QED
      BY <1>3, <2>2, <3>1, OneFacts
  <2> QED
    BY <2>1, <2>2
<1>7. persisted' = persisted \cup ToSet(SubSeq(batch, written + 1, n))
  BY DEF WriteOk
<1>8. batch[written + 1] \in Nat /\ ToSet(batch) \subseteq Nat
  BY <1>3, <1>4, ToSetDef
<1>9. persisted' \in SUBSET Nat
  BY <1>6, <1>7, <1>8 DEF TypeOK
<1>10. \/ /\ n < Len(batch) /\ written' = n
          /\ UNCHANGED <<armed, batch, flushLock, flushTask, pc, cur, due, settled, returned>>
       \/ /\ n = Len(batch) /\ lock = NoTask
          /\ FinishFlush(t)
       \/ /\ ~(n < Len(batch)) /\ ~(n = Len(batch) /\ lock = NoTask)
          /\ written' = n
          /\ pc' = [pc EXCEPT ![t] = "finish"]
          /\ UNCHANGED <<armed, batch, flushLock, flushTask, cur, due, settled, returned>>
  BY DEF WriteOk
<1>11. UNCHANGED <<pending, idBlock, closed, lock, doomed, nextId, accepted,
                   crashLost, dropped, faults, crashes>>
  BY DEF WriteOk
<1> HIDE DEF n
<1>12. n < Len(batch) \/ n = Len(batch)
  BY <1>3, <1>5
<1>13. \/ /\ ~Bulk /\ n < Len(batch) /\ written' = n
          /\ UNCHANGED <<armed, batch, flushLock, flushTask, pc, cur, due, settled, returned>>
       \/ /\ n = Len(batch) /\ lock = NoTask
          /\ FinishFlush(t)
       \/ /\ n = Len(batch) /\ lock # NoTask
          /\ written' = n
          /\ pc' = [pc EXCEPT ![t] = "finish"]
          /\ UNCHANGED <<armed, batch, flushLock, flushTask, cur, due, settled, returned>>
  BY <1>3, <1>5, <1>10, <1>12
<1> QED
  BY <1>1, <1>2, <1>5, <1>6, <1>7, <1>9, <1>11, <1>13 DEF n

(* A successful backend call keeps types and stages. *)
LEMMA TypedWrite ==
    ASSUME Typed, UNCHANGED backend, NEW t \in Tasks, WriteOk(t)
    PROVE  Typed'
<1> DEFINE n == IF Bulk THEN Len(batch) ELSE written + 1
<1> USE DEF Typed
<1>1. /\ pc[t] = "write" /\ flushLock = t /\ lock # t
      /\ n \in Nat /\ written < n /\ n <= Len(batch)
      /\ persisted' \in SUBSET Nat
      /\ UNCHANGED <<pending, idBlock, closed, lock, doomed, nextId, accepted,
                     crashLost, dropped, faults, crashes>>
  BY WriteOkFacts
<1> HIDE DEF n
<1>2. CASE /\ ~Bulk /\ n < Len(batch) /\ written' = n
           /\ UNCHANGED <<armed, batch, flushLock, flushTask, pc, cur, due, settled, returned>>
  <2>1. TypeOK'
    BY <1>1, <1>2 DEF TypeOK
  <2>2. StageInv'
    BY <1>1, <1>2, StageStep DEF StageInv, OnlyMoves, InFlight, Bulk
  <2> QED
    BY <2>1, <2>2
<1>3. CASE n = Len(batch) /\ lock = NoTask /\ FinishFlush(t)
  <2>1. /\ batch' = <<>> /\ written' = 0 /\ flushLock' = NoTask
        /\ armed' \in BOOLEAN /\ flushTask' \in Flushers \cup {NoTask}
        /\ pc' \in [Tasks -> Stages] /\ pc'[t] = AfterReturn(t) /\ OnlyMoves(t)
        /\ cur' \in [Tasks -> Nat] /\ due' \in [Tasks -> SUBSET Nat]
        /\ settled' \in SUBSET Nat /\ returned' \in SUBSET Nat
    BY <1>1, <1>3, FinishTypes
  <2>2. TypeOK'
    BY <1>1, <2>1, EmptyFacts DEF TypeOK
  <2>3. StageInv'
    BY <1>1, <2>1, StageStep, AfterFlushFacts, TaskAssumption DEF InFlight, Tasks, FlushStages
  <2> QED
    BY <2>2, <2>3
<1>4. CASE /\ n = Len(batch) /\ lock # NoTask
           /\ written' = n
           /\ pc' = [pc EXCEPT ![t] = "finish"]
           /\ UNCHANGED <<armed, batch, flushLock, flushTask, cur, due, settled, returned>>
  <2>1. pc' \in [Tasks -> Stages] /\ pc'[t] = "finish" /\ OnlyMoves(t)
    BY <1>4, Move DEF Stages, FlushStages
  <2>2. TypeOK'
    BY <1>1, <1>4, <2>1 DEF TypeOK
  <2>3. StageInv'
    BY <1>1, <1>4, <2>1, StageStep DEF InFlight, FlushStages
  <2> QED
    BY <2>2, <2>3
<1> QED
  BY <1>2, <1>3, <1>4, WriteOkFacts DEF n

(* An interrupted write: the tail goes back, or the flush queues for _lock. *)
LEMMA TypedInterrupted ==
    ASSUME Typed, UNCHANGED backend, NEW t \in Tasks, pc[t] = "write", doomed' \in SUBSET Flushers,
           WriteFail(t) \/ CancelInWrite(t)
    PROVE  Typed'
<1> USE DEF Typed
<1>1. PICK stage \in {"requeue", "unwind"}, after \in {AfterError(t), AfterCancel(t)} :
         Interrupted(t, stage, after)
  BY DEF WriteFail, CancelInWrite
<1>2. flushLock = t /\ lock # t /\ written < Len(batch) /\ (Bulk => written = 0)
  BY DEF StageInv, InFlight
<1>3. /\ persisted' \in SUBSET Nat /\ faults' \in Nat
      /\ UNCHANGED <<idBlock, closed, lock, flushTask, nextId, accepted, returned,
                     settled, crashLost, dropped, crashes>>
  <2>1. PICK S \in MayHaveApplied : persisted' = persisted \cup S
    BY <1>1 DEF Interrupted
  <2>2. S \in SUBSET Nat
    BY <2>1, AppliedFacts
  <2>3. /\ faults' = faults + 1
        /\ UNCHANGED <<idBlock, closed, lock, flushTask, nextId, accepted, returned,
                       settled, crashLost, dropped, crashes>>
    BY <1>1 DEF Interrupted
  <2> QED
    BY <2>1, <2>2, <2>3 DEF TypeOK
<1>4. CASE lock = NoTask
  <2>1. PutBack /\ LeaveFlush(t) /\ pc' = [pc EXCEPT ![t] = after]
    BY <1>1, <1>4 DEF Interrupted
  <2>2. after \in Stages /\ after \in {"check", "idle", "dead"}
        /\ (t \in Flushers => after \in {"check", "dead"})
        /\ (t \notin Flushers => after = "idle")
    BY AfterFlushFacts DEF Stages, AfterError, AfterCancel
  <2>3. pc' \in [Tasks -> Stages] /\ pc'[t] = after /\ OnlyMoves(t)
    BY <2>1, <2>2, Move
  <2>4. pending' \in Seq(Nat) /\ armed' = TRUE /\ batch' = <<>> /\ written' = 0
    <3>1. Unwritten \in Seq(Nat) /\ pending \in Seq(Nat)
      BY <1>2, UnwrittenTypes, SMTT(30) DEF TypeOK
    <3> QED
      BY <2>1, <3>1, ConcatDef DEF PutBack
  <2>5. TypeOK'
    BY <1>3, <2>1, <2>3, <2>4, LeaveTypes, EmptyFacts DEF TypeOK
  <2>6. StageInv'
    <3>1. flushLock' = NoTask
      BY <2>1 DEF LeaveFlush
    <3> QED
      BY <1>2, <1>3, <2>2, <2>3, <2>4, <3>1, StageStep, TaskAssumption DEF InFlight, Tasks, FlushStages
  <2> QED
    BY <2>5, <2>6
<1>5. CASE lock # NoTask
  <2>1. /\ pc' = [pc EXCEPT ![t] = stage]
        /\ UNCHANGED <<pending, armed, batch, written, flushLock, cur, due>>
    BY <1>1, <1>5 DEF Interrupted
  <2>2. pc' \in [Tasks -> Stages] /\ pc'[t] = stage /\ OnlyMoves(t)
    BY <2>1, Move DEF Stages, FlushStages
  <2>3. TypeOK'
    BY <1>3, <2>1, <2>2 DEF TypeOK
  <2>4. StageInv'
    BY <1>2, <1>3, <2>1, <2>2, StageStep DEF InFlight, FlushStages, Bulk
  <2> QED
    BY <2>3, <2>4
<1> QED
  BY <1>4, <1>5

(* The flushes that queued for _lock get it. *)
LEMMA TypedLeave ==
    ASSUME Typed, UNCHANGED backend, NEW t \in Tasks, Requeue(t) \/ Finish(t)
    PROVE  Typed'
<1> USE DEF Typed
<1>1. CASE Requeue(t)
  <2> DEFINE after == IF pc[t] = "requeue" THEN AfterError(t) ELSE AfterCancel(t)
  <2>1. /\ pc[t] \in {"requeue", "unwind"} /\ PutBack /\ LeaveFlush(t)
        /\ pc' = [pc EXCEPT ![t] = after]
        /\ UNCHANGED <<idBlock, closed, lock, flushTask, doomed, nextId, persisted, accepted,
                       returned, settled, crashLost, dropped, faults, crashes>>
    BY <1>1 DEF Requeue
  <2>2. flushLock = t /\ lock # t /\ written < Len(batch)
    BY <2>1 DEF StageInv, InFlight
  <2>3. after \in Stages
        /\ (t \in Flushers => after \in {"check", "dead"})
        /\ (t \notin Flushers => after = "idle")
    BY AfterFlushFacts DEF Stages, AfterError, AfterCancel
  <2> HIDE DEF after
  <2>4. pc' \in [Tasks -> Stages] /\ pc'[t] = after /\ OnlyMoves(t)
    BY <2>1, <2>3, Move
  <2>5. pending' \in Seq(Nat) /\ armed' = TRUE /\ batch' = <<>> /\ written' = 0
    <3>1. Unwritten \in Seq(Nat) /\ pending \in Seq(Nat)
      BY <2>2, UnwrittenTypes DEF TypeOK
    <3> QED
      BY <2>1, <3>1, ConcatDef DEF PutBack
  <2>6. TypeOK'
    BY <2>1, <2>4, <2>5, LeaveTypes, EmptyFacts DEF TypeOK
  <2>7. StageInv'
    <3>1. flushLock' = NoTask
      BY <2>1 DEF LeaveFlush
    <3> QED
      BY <2>1, <2>2, <2>3, <2>4, <2>5, <3>1, StageStep, TaskAssumption DEF InFlight, Tasks, FlushStages
  <2> QED
    BY <2>6, <2>7
<1>2. CASE Finish(t)
  <2>1. /\ pc[t] = "finish" /\ FinishFlush(t)
        /\ UNCHANGED <<pending, idBlock, closed, lock, doomed, nextId, persisted,
                       accepted, crashLost, dropped, faults, crashes>>
    BY <1>2 DEF Finish
  <2>2. flushLock = t /\ lock # t
    BY <2>1 DEF StageInv, InFlight
  <2>3. /\ batch' = <<>> /\ written' = 0 /\ flushLock' = NoTask
        /\ armed' \in BOOLEAN /\ flushTask' \in Flushers \cup {NoTask}
        /\ pc' \in [Tasks -> Stages] /\ pc'[t] = AfterReturn(t) /\ OnlyMoves(t)
        /\ cur' \in [Tasks -> Nat] /\ due' \in [Tasks -> SUBSET Nat]
        /\ settled' \in SUBSET Nat /\ returned' \in SUBSET Nat
    BY <2>1, FinishTypes
  <2>4. TypeOK'
    BY <2>1, <2>3, EmptyFacts DEF TypeOK
  <2>5. StageInv'
    BY <2>1, <2>2, <2>3, StageStep, AfterFlushFacts, TaskAssumption DEF InFlight, Tasks, FlushStages
  <2> QED
    BY <2>4, <2>5
<1> QED
  BY <1>1, <1>2

(* A cancellation delivered anywhere but in a backend write. *)
LEMMA TypedCancel ==
    ASSUME Typed, UNCHANGED backend, NEW t \in Tasks, doomed' \in SUBSET Flushers,
           CancelInAlloc(t) \/ CancelOutsideWrite(t)
    PROVE  Typed'
<1> USE DEF Typed
<1>1. /\ AfterCancel(t) \in Stages
      /\ t \in Flushers => AfterCancel(t) = "dead"
      /\ t \notin Flushers => AfterCancel(t) = "idle"
  BY AfterFlushFacts DEF Stages, AfterCancel
<1>2. CASE CancelInAlloc(t)
  <2>1. /\ pc[t] = "alloc" /\ lock' = NoTask
        /\ nextId' \in {nextId, nextId + FlushMaxEvents}
        /\ pc' = [pc EXCEPT ![t] = "idle"]
        /\ faults' = faults + 1
        /\ UNCHANGED <<buffer, flushLock, flushTask, cur, flight, persisted, history, crashes>>
    BY <1>2 DEF CancelInAlloc
  <2>2. pc' \in [Tasks -> Stages] /\ pc'[t] = "idle" /\ OnlyMoves(t)
    BY <2>1, Move DEF Stages
  <2>3. TypeOK'
    BY <2>1, <2>2, LimitAssumption DEF TypeOK, buffer, flight, history
  <2>4. lock = t /\ flushLock # t /\ ~InFlight(t) /\ t \in Callers
    BY <2>1, TaskAssumption DEF StageInv, InFlight, TypeOK, Tasks
  <2>5. StageInv'
    BY <2>1, <2>2, <2>4, StageStep, TaskAssumption DEF InFlight, Tasks, flight
  <2> QED
    BY <2>3, <2>5
<1>3. CASE CancelOutsideWrite(t)
  <2>1. /\ pc[t] \in {"check", "sleep", "wait", "take", "requeue", "unwind", "finish"}
        /\ flushLock' = IF flushLock = t THEN NoTask ELSE flushLock
        /\ cur' = [cur EXCEPT ![t] = 0]
        /\ due' = [due EXCEPT ![t] = {}]
        /\ pc' = [pc EXCEPT ![t] = AfterCancel(t)]
        /\ faults' = faults + 1
        /\ UNCHANGED <<buffer, lock, flushTask, nextId, persisted, accepted, returned, settled,
                       crashLost, crashes>>
    BY <1>3 DEF CancelOutsideWrite
  <2>2. pc' \in [Tasks -> Stages] /\ pc'[t] = AfterCancel(t) /\ OnlyMoves(t)
    BY <1>1, <2>1, Move
  <2>3. \/ /\ pc[t] \in {"requeue", "unwind"} /\ batch' = <<>> /\ written' = 0
           /\ dropped' = dropped \cup (ToSet(Unwritten) \ persisted)
        \/ pc[t] = "finish" /\ batch' = <<>> /\ written' = 0 /\ dropped' = dropped
        \/ /\ pc[t] \in {"check", "sleep", "wait", "take"}
           /\ UNCHANGED <<batch, written, dropped>>
    BY <1>3 DEF CancelOutsideWrite, GiveUpBatch
  <2>4. batch' \in Seq(Nat) /\ written' \in Nat /\ dropped' \in SUBSET Nat
    <3>1. CASE pc[t] \in {"requeue", "unwind"}
      <4>1. written < Len(batch)
        BY <3>1 DEF StageInv
      <4>2. Len(batch) \in Nat /\ Unwritten \in Seq(Nat)
        BY <4>1, UnwrittenTypes DEF TypeOK
      <4>3. ToSet(Unwritten) \subseteq Nat
        BY <4>2, ToSetDef
      <4>4. /\ batch' = <<>> /\ written' = 0
            /\ dropped' = dropped \cup (ToSet(Unwritten) \ persisted)
        BY <2>3, <3>1
      <4>5. dropped \subseteq Nat
        BY DEF TypeOK
      <4> QED
        BY <4>3, <4>4, <4>5, EmptyFacts
    <3>2. CASE pc[t] \notin {"requeue", "unwind"}
      <4>1. ((batch' = <<>> /\ written' = 0) \/ UNCHANGED <<batch, written>>) /\ dropped' = dropped
        BY <2>3, <3>2
      <4>2. batch \in Seq(Nat) /\ written \in Nat /\ dropped \in SUBSET Nat /\ 0 \in Nat
        BY DEF TypeOK
      <4>3. <<>> \in Seq(Nat)
        BY EmptyFacts
      <4> QED
        BY <4>1, <4>2, <4>3
    <3> QED
      BY <3>1, <3>2
  <2>5. TypeOK'
    BY <2>1, <2>2, <2>4, TaskAssumption DEF TypeOK, buffer
  <2>6. lock # t /\ lock' = lock
    BY <2>1 DEF StageInv
  <2>7. flushLock' # t /\ \A u \in Tasks \ {t} : flushLock' = u <=> flushLock = u
    BY <2>1, TaskAssumption DEF Tasks
  <2>8. \/ UNCHANGED <<batch, written>> /\ ~InFlight(t)
        \/ flushLock = t /\ batch' = <<>> /\ written' = 0
    BY <2>1, <2>3 DEF StageInv, InFlight
  <2>9. StageInv'
    BY <1>1, <2>1, <2>2, <2>6, <2>7, <2>8, StageStep, TaskAssumption
       DEF InFlight, Tasks, FlushStages
  <2> QED
    BY <2>5, <2>9
<1> QED
  BY <1>2, <1>3

(* aclose() moves only the closing task. *)
LEMMA TypedClose ==
    ASSUME Typed, UNCHANGED backend, CloseBegin \/ CloseFlush
    PROVE  Typed'
<1> USE DEF Typed
<1>1. Closer \in Tasks /\ Closer \notin Flushers /\ Closer \notin Callers /\ Closer # NoTask
  BY TaskAssumption DEF Tasks
<1>2. PICK v \in {"join", "wait"} :
         /\ pc' = [pc EXCEPT ![Closer] = v]
         /\ pc[Closer] \in {"idle", "join"}
         /\ UNCHANGED <<pending, idBlock, armed, lock, flushLock, cur, flight, nextId,
                        persisted, accepted, returned, settled, crashLost, dropped,
                        faults, crashes>>
         /\ closed' \in {TRUE, closed}
         /\ flushTask' \in {NoTask, flushTask}
         /\ doomed' \in {{flushTask}, {}, doomed}
         /\ flushTask = NoTask => doomed' \in {{}, doomed}
         /\ due' = due \/ due' = [due EXCEPT ![Closer] = accepted \ lost]
  BY DEF CloseBegin, CloseFlush, history, buffer
<1>3. pc' \in [Tasks -> Stages] /\ pc'[Closer] = v /\ OnlyMoves(Closer)
  BY <1>1, <1>2, Move DEF Stages, FlushStages
<1>4. doomed' \in SUBSET Flushers
  BY <1>2 DEF TypeOK
<1>5. due' \in [Tasks -> SUBSET Nat]
  BY <1>2 DEF TypeOK
<1>6. TypeOK'
  BY <1>2, <1>3, <1>4, <1>5 DEF TypeOK, flight
<1>7. lock # Closer /\ flushLock # Closer /\ ~InFlight(Closer)
  BY <1>1, <1>2 DEF StageInv, InFlight
<1>8. StageInv'
  BY <1>1, <1>2, <1>3, <1>7, StageStep DEF InFlight, flight, FlushStages
<1> QED
  BY <1>6, <1>8

(* A new process starts with an empty buffer. *)
LEMMA TypedCrash ==
    ASSUME Typed, UNCHANGED backend, Crash
    PROVE  Typed'
<1> USE DEF Typed
<1>1. /\ crashes' = crashes + 1
      /\ pending' = <<>> /\ idBlock' = <<>> /\ armed' = FALSE /\ closed' = FALSE
      /\ lock' = NoTask /\ flushLock' = NoTask /\ flushTask' = NoTask
      /\ batch' = <<>> /\ written' = 0
      /\ pc' = [t \in Tasks |-> IF t \in Flushers THEN "dead" ELSE "idle"]
      /\ cur' = [t \in Tasks |-> 0]
      /\ due' = [t \in Tasks |-> {}]
      /\ doomed' = {}
      /\ UNCHANGED <<nextId, accepted, returned, settled, dropped, faults>>
  BY DEF Crash
<1>2. \A t \in Tasks : pc'[t] = IF t \in Flushers THEN "dead" ELSE "idle"
  BY <1>1
<1>3. PICK S \in IF \E t \in Tasks : pc[t] = "write" THEN MayHaveApplied ELSE {{}} :
         /\ persisted' = persisted \cup S
         /\ crashLost' = crashLost \cup ((ToSet(Unwritten) \cup ToSet(pending)) \ (persisted \cup S))
  BY DEF Crash
<1>4. S \in SUBSET Nat
  <2>1. CASE \E t \in Tasks : pc[t] = "write"
    BY <1>3, <2>1, AppliedFacts
  <2>2. CASE ~ \E t \in Tasks : pc[t] = "write"
    BY <1>3, <2>2
  <2> QED
    BY <2>1, <2>2
<1>5. ToSet(Unwritten) \subseteq Nat /\ ToSet(pending) \subseteq Nat
  <2>1. written <= Len(batch)
    BY EmptyFacts DEF StageInv, TypeOK, InFlight
  <2> QED
    BY <2>1, UnwrittenTypes, ToSetDef DEF TypeOK
<1>6. TypeOK'
  <2>1. pc' \in [Tasks -> Stages] /\ cur' \in [Tasks -> Nat] /\ due' \in [Tasks -> SUBSET Nat]
    BY <1>1 DEF Stages
  <2>2. persisted \subseteq Nat /\ crashLost \subseteq Nat
    BY DEF TypeOK
  <2>3. persisted' \in SUBSET Nat /\ crashLost' \in SUBSET Nat
    BY <1>3, <1>4, <1>5, <2>2
  <2>4. <<>> \in Seq(Nat) /\ crashes' \in Nat
    BY <1>1, EmptyFacts DEF TypeOK
  <2> QED
    BY <1>1, <2>1, <2>3, <2>4 DEF TypeOK
<1>7. StageInv'
  BY <1>1, <1>2, TaskAssumption DEF StageInv, InFlight, FlushStages, Tasks
<1> QED
  BY <1>6, <1>7

(* Every step of the system keeps types and stages. *)
LEMMA TypedNext == Typed /\ [Next]_vars => Typed'
<1> SUFFICES ASSUME Typed, [Next]_vars PROVE Typed'
  OBVIOUS
<1>1. CASE UNCHANGED vars
  BY <1>1 DEF vars, buffer, tasks, flight, history, Typed, TypeOK, StageInv, InFlight, Bulk
<1>2. CASE Next
  <2>1. UNCHANGED backend /\ Step
    BY <1>2 DEF Next
  <2>2. CASE \E t \in Callers : Store(t) \/ Allocate(t) \/ CallFlush(t) \/ CallerCancelled(t)
    <3>1. PICK t \in Callers : Store(t) \/ Allocate(t) \/ CallFlush(t) \/ CallerCancelled(t)
      BY <2>2
    <3>2. t \in Tasks
      BY DEF Tasks
    <3>3. CASE CallerCancelled(t)
      <4>1. (CancelInAlloc(t) \/ CancelOutsideWrite(t) \/ CancelInWrite(t)) /\ doomed' \in SUBSET Flushers
        BY <3>3 DEF CallerCancelled, Cancel, Typed, TypeOK
      <4> QED
        BY <2>1, <3>2, <4>1, TypedCancel, TypedInterrupted DEF CancelInWrite
    <3> QED
      BY <2>1, <3>1, <3>2, <3>3, TypedStore, TypedWait
  <2>3. CASE \E t \in Tasks : FlushStep(t)
    <3>1. PICK t \in Tasks : FlushStep(t)
      BY <2>3
    <3>2. CASE WriteFail(t)
      <4>1. pc[t] = "write" /\ doomed' \in SUBSET Flushers
        BY <3>2 DEF WriteFail, Typed, TypeOK
      <4> QED
        BY <2>1, <3>2, <4>1, TypedInterrupted
    <3> QED
      BY <2>1, <3>1, <3>2, TypedTake, TypedWrite, TypedLeave DEF FlushStep
  <2>4. CASE \E f \in Flushers : FlusherStep(f) \/ FlusherCancelled(f)
    <3>1. PICK f \in Flushers : FlusherStep(f) \/ FlusherCancelled(f)
      BY <2>4
    <3>2. f \in Tasks
      BY DEF Tasks
    <3>3. CASE FlusherCancelled(f)
      <4>1. (CancelInAlloc(f) \/ CancelOutsideWrite(f) \/ CancelInWrite(f)) /\ doomed' \in SUBSET Flushers
        BY <3>3 DEF FlusherCancelled, Cancel, Typed, TypeOK
      <4> QED
        BY <2>1, <3>2, <4>1, TypedCancel, TypedInterrupted DEF CancelInWrite
    <3> QED
      BY <2>1, <3>1, <3>2, <3>3, TypedWait DEF FlusherStep
  <2> QED
    BY <2>1, <2>2, <2>3, <2>4, TypedClose, TypedCrash DEF Step
<1> QED
  BY <1>1, <1>2

(* Types are correct, and the locks agree with the stages, in every state. *)
THEOREM TypeCorrect == Spec => []TypeOK
<1>1. Typed => TypeOK
  BY DEF Typed
<1> QED
  BY <1>1, TypedInit, TypedNext, PTL DEF Spec

(* The same for the strengthened invariant, which later proofs cite. *)
THEOREM TypedAlways == Spec => []Typed
BY TypedInit, TypedNext, PTL DEF Spec

-------------------------------------------------------------------------------
(* Buffered events have a flusher *)

(* While the store is open, a timer that is armed has a live flusher, and  *)
(* it is armed as long as events are buffered or being written: a failed   *)
(* flush puts its batch back without looking for a flusher.  Only aclose() *)
(* cancels a flusher, so until then none dies while the timer is armed, and*)
(* none unwinds.                                                           *)
Attended ==
    ~closed =>
        /\ armed => flushTask # NoTask /\ pc[flushTask] # "dead"
        /\ pending # <<>> => armed
        /\ \A t \in Tasks : InFlight(t) => armed
        /\ doomed = {} /\ \A f \in Flushers : pc[f] # "unwind"

(* The step leaves the timer and the flusher alone, ... *)
Quiet ==
    /\ UNCHANGED <<armed, flushTask>>
    /\ \A u \in Tasks : pc[u] # "dead" /\ armed => pc'[u] # "dead"
    /\ pending' # <<>> => armed
    /\ \A u \in Tasks : InFlight(u)' => armed
    /\ \A f \in Flushers : pc'[f] # "unwind"
(* ... arms it and sees to a flusher, or disarms it when nothing is left. *)
Settles ==
    /\ \/ armed' /\ flushTask' # NoTask /\ pc'[flushTask'] # "dead"
       \/ ~armed' /\ pending' = <<>> /\ \A u \in Tasks : ~InFlight(u)'
    /\ \A f \in Flushers : pc'[f] # "unwind"

LEMMA AttendedKept ==
    ASSUME Typed, Attended, ~closed, doomed' = {}, Quiet \/ Settles
    PROVE  Attended'
<1>1. CASE Quiet
  <2>1. armed => flushTask \in Tasks
    BY DEF Attended, Typed, TypeOK, Tasks
  <2> QED
    BY <1>1, <2>1 DEF Attended, Quiet
<1>2. CASE Settles
  BY <1>2 DEF Attended, Settles
<1> QED
  BY <1>1, <1>2

(* A task moves to a stage at which it lives and has nothing in flight. *)
LEMMA QuietMove ==
    ASSUME Typed, Attended, ~closed, NEW t \in Tasks, NEW v \in Stages, pc' = [pc EXCEPT ![t] = v],
           UNCHANGED <<armed, flushTask>>, pending' # <<>> => pending # <<>>,
           v = "dead" => ~armed, v \in {"write", "requeue", "unwind", "finish"} => armed,
           v = "unwind" => t \notin Flushers
    PROVE  Quiet
<1>1. /\ pc'[t] = v /\ \A u \in Tasks \ {t} : pc'[u] = pc[u]
      /\ \A f \in Flushers : f \in Tasks /\ pc[f] # "unwind"
  BY DEF Typed, TypeOK, Attended, Tasks
<1>2. \A u \in Tasks : InFlight(u)' => armed
  BY <1>1 DEF Attended, InFlight
<1> QED
  BY <1>1, <1>2 DEF Quiet, Attended

LEMMA AppendAttended ==
    ASSUME Typed, Attended, ~closed, NEW t \in Callers, NEW blk, Append1(t, blk), pc[t] \in {"idle", "alloc"}
    PROVE  Quiet \/ Settles
<1> DEFINE pcs == [pc EXCEPT ![t] = IF Len(pending) + 1 >= FlushMaxEvents THEN "wait" ELSE "idle"]
<1>1. armed' = TRUE /\ IF armed THEN pc' = pcs /\ UNCHANGED flushTask ELSE EnsureFlusher(pcs)
  BY DEF Append1
<1>2. pcs \in [Tasks -> Stages] /\ pcs[t] # "dead" /\ \A u \in Tasks \ {t} : pcs[u] = pc[u]
  BY DEF Typed, TypeOK, Tasks, Stages, FlushStages
<1> HIDE DEF pcs
<1>0. \A f \in Flushers : f \in Tasks /\ pcs[f] # "unwind"
  BY <1>2, TaskAssumption DEF Attended, Tasks
<1>3. CASE armed
  <2>1. flushTask # NoTask /\ pc[flushTask] # "dead" /\ flushTask \in Tasks
    BY <1>3 DEF Attended, Typed, TypeOK, Tasks
  <2>2. pcs[flushTask] # "dead"
    BY <1>2, <2>1
  <2> QED
    BY <1>0, <1>1, <1>3, <2>1, <2>2 DEF Settles
<1>4. CASE ~armed
  <2>1. EnsureFlusher(pcs)
    BY <1>1, <1>4
  <2>2. /\ flushTask' \in Flushers /\ pc'[flushTask'] # "dead"
        /\ \A u \in Tasks : pc'[u] = pcs[u] \/ pc'[u] = "check"
    BY <1>2, <2>1, EnsureFlusherFacts DEF Typed
  <2>3. flushTask' # NoTask
    BY <2>2, TaskAssumption DEF Tasks
  <2> QED
    BY <1>0, <1>1, <2>2, <2>3 DEF Settles
<1> QED
  BY <1>3, <1>4

LEMMA FinishAttended ==
    ASSUME Typed, Typed', Attended, ~closed, NEW t \in Tasks, FinishFlush(t), UNCHANGED pending, pc[t] # "dead"
    PROVE  Settles
<1> DEFINE pcs == [pc EXCEPT ![t] = AfterReturn(t)]
<1>1. /\ flushLock' = NoTask
      /\ IF pending = <<>> THEN armed' = FALSE /\ pc' = pcs ELSE armed' = TRUE /\ EnsureFlusher(pcs)
  BY DEF FinishFlush, ReturnFromFlush, LeaveFlush
<1>2. pcs \in [Tasks -> Stages] /\ \A f \in Flushers : f \in Tasks /\ pcs[f] # "unwind"
  BY AfterFlushFacts DEF Typed, TypeOK, Stages, Attended, Tasks
<1> HIDE DEF pcs
<1>3. CASE pending = <<>>
  <2>1. \A u \in Tasks : flushLock' # u
    BY <1>1, TaskAssumption
  <2>2. \A u \in Tasks : ~InFlight(u)'
    BY <2>1 DEF Typed, StageInv
  <2> QED
    BY <1>1, <1>2, <1>3, <2>2 DEF Settles
<1>4. CASE pending # <<>>
  <2>1. armed' = TRUE /\ EnsureFlusher(pcs)
    BY <1>1, <1>4
  <2>2. /\ flushTask' \in Flushers /\ pc'[flushTask'] # "dead"
        /\ \A u \in Tasks : pc'[u] = pcs[u] \/ pc'[u] = "check"
    BY <1>2, <2>1, EnsureFlusherFacts DEF Typed
  <2>3. flushTask' # NoTask
    BY <2>2, TaskAssumption DEF Tasks
  <2> QED
    BY <1>2, <2>1, <2>2, <2>3 DEF Settles
<1> QED
  BY <1>3, <1>4

(* A flush that fails puts its batch back: the timer was armed, and stays. *)
LEMMA BackAttended ==
    ASSUME Typed, Attended, ~closed, NEW t \in Tasks, InFlight(t), PutBack, UNCHANGED flushTask,
           NEW v \in {"check", "idle"}, pc' = [pc EXCEPT ![t] = v]
    PROVE  Settles
<1>1. armed' = TRUE /\ armed /\ flushTask # NoTask /\ pc[flushTask] # "dead" /\ flushTask \in Tasks
  BY DEF PutBack, Attended, Typed, TypeOK, Tasks
<1>2. pc'[flushTask] # "dead" /\ \A f \in Flushers : pc'[f] # "unwind"
  BY <1>1 DEF Typed, TypeOK, Attended, Tasks
<1> QED
  BY <1>1, <1>2 DEF Settles

LEMMA InterruptedAttended ==
    ASSUME Typed, Attended, ~closed, NEW t \in Tasks, pc[t] = "write", NEW stage \in {"requeue", "unwind"},
           NEW v \in {"check", "idle"}, Interrupted(t, stage, v), stage = "unwind" => t \notin Flushers
    PROVE  Quiet \/ Settles
<1>1. InFlight(t) /\ armed
  BY DEF InFlight, Attended
<1>2. UNCHANGED flushTask
  BY DEF Interrupted
<1>3. CASE lock = NoTask
  <2>1. PutBack /\ pc' = [pc EXCEPT ![t] = v]
    BY <1>3 DEF Interrupted
  <2> QED
    BY <1>1, <1>2, <2>1, BackAttended
<1>4. CASE lock # NoTask
  <2>1. pc' = [pc EXCEPT ![t] = stage] /\ UNCHANGED <<pending, armed>>
    BY <1>4 DEF Interrupted
  <2>2. stage \in Stages /\ stage # "dead"
    BY DEF Stages, FlushStages
  <2> QED
    BY <1>1, <1>2, <2>1, <2>2, QuietMove
<1> QED
  BY <1>3, <1>4

LEMMA CallerAttended ==
    ASSUME Typed, Attended, ~closed, NEW t \in Callers,
           Store(t) \/ Allocate(t) \/ CallFlush(t) \/ CallerCancelled(t)
    PROVE  UNCHANGED <<closed, doomed>> /\ (Quiet \/ Settles)
<1>1. t \in Tasks /\ AfterCancel(t) = "idle" /\ "idle" \in Stages /\ "alloc" \in Stages /\ "wait" \in Stages
  BY AfterFlushFacts DEF Tasks, Stages, FlushStages
<1>2. CASE StoreFromBlock(t)
  BY <1>2, AppendAttended DEF StoreFromBlock, Admits
<1>3. CASE AllocateOk(t)
  BY <1>3, AppendAttended DEF AllocateOk
<1>4. CASE StoreAwaitIds(t)
  BY <1>1, <1>4, QuietMove DEF StoreAwaitIds, buffer
<1>5. CASE AllocateFail(t)
  BY <1>1, <1>5, QuietMove DEF AllocateFail, buffer
<1>6. CASE CallFlush(t)
  BY <1>1, <1>6, QuietMove DEF CallFlush, buffer
<1>7. CASE CallerCancelled(t)
  <2>1. CASE CancelInAlloc(t)
    BY <1>1, <1>7, <2>1, QuietMove DEF CallerCancelled, CancelInAlloc, buffer
  <2>2. CASE CancelOutsideWrite(t)
    BY <1>1, <1>7, <2>2, QuietMove DEF CallerCancelled, CancelOutsideWrite, buffer
  <2>3. CASE CancelInWrite(t)
    <3>1. /\ pc[t] = "write" /\ Interrupted(t, "unwind", "idle") /\ UNCHANGED <<closed, doomed>>
          /\ t \notin Flushers
      BY <1>1, <1>7, <2>3, TaskAssumption DEF CallerCancelled, CancelInWrite, Interrupted
    <3> QED
      BY <1>1, <3>1, InterruptedAttended
  <2> QED
    BY <1>7, <2>1, <2>2, <2>3 DEF CallerCancelled, Cancel
<1> QED
  BY <1>2, <1>3, <1>4, <1>5, <1>6, <1>7 DEF Store, Allocate

LEMMA FlushAttended ==
    ASSUME Typed, Typed', Attended, ~closed, NEW t \in Tasks, FlushStep(t)
    PROVE  UNCHANGED <<closed, doomed>> /\ (Quiet \/ Settles)
<1>1. /\ AfterReturn(t) \in Stages /\ AfterReturn(t) \notin {"dead", "write", "requeue", "unwind", "finish"}
      /\ AfterError(t) \in {"check", "idle"} /\ "take" \in Stages /\ "write" \in Stages /\ "finish" \in Stages
  BY AfterFlushFacts DEF Stages, FlushStages
<1>2. CASE EnterFlush(t)
  BY <1>1, <1>2, QuietMove DEF EnterFlush, buffer
<1>3. CASE TakeNothing(t)
  BY <1>1, <1>3, QuietMove DEF TakeNothing, buffer
<1>4. CASE TakeBatch(t)
  <2>1. armed
    BY <1>4 DEF TakeBatch, Attended
  <2> QED
    BY <1>1, <1>4, <2>1, QuietMove DEF TakeBatch
<1>5. CASE WriteOk(t)
  <2>1. pc[t] = "write" /\ InFlight(t) /\ armed /\ UNCHANGED <<pending, closed, doomed>>
    BY <1>5 DEF WriteOk, InFlight, Attended
  <2>2. \/ UNCHANGED <<armed, flushTask, pc>>
        \/ FinishFlush(t)
        \/ pc' = [pc EXCEPT ![t] = "finish"] /\ UNCHANGED <<armed, flushTask>>
    BY <1>5 DEF WriteOk
  <2>3. CASE UNCHANGED <<armed, flushTask, pc>>
    BY <2>1, <2>3 DEF Quiet, Attended, InFlight
  <2>4. CASE FinishFlush(t)
    BY <2>1, <2>4, FinishAttended
  <2>5. CASE pc' = [pc EXCEPT ![t] = "finish"] /\ UNCHANGED <<armed, flushTask>>
    BY <1>1, <2>1, <2>5, QuietMove
  <2> QED
    BY <2>1, <2>2, <2>3, <2>4, <2>5
<1>6. CASE WriteFail(t)
  <2>1. pc[t] = "write" /\ Interrupted(t, "requeue", AfterError(t)) /\ UNCHANGED <<closed, doomed>>
    BY <1>6 DEF WriteFail, Interrupted
  <2> QED
    BY <1>1, <2>1, InterruptedAttended
<1>7. CASE Requeue(t)
  <2>1. InFlight(t) /\ PutBack /\ UNCHANGED <<flushTask, closed, doomed>>
    BY <1>7 DEF Requeue, InFlight
  <2>2. pc' = [pc EXCEPT ![t] = IF pc[t] = "requeue" THEN AfterError(t) ELSE AfterCancel(t)]
    BY <1>7 DEF Requeue
  <2>3. pc[t] = "requeue" \/ AfterCancel(t) = "idle"
    BY <1>7, AfterFlushFacts DEF Requeue, Attended, AfterCancel
  <2> QED
    BY <1>1, <2>1, <2>2, <2>3, BackAttended
<1>8. CASE Finish(t)
  <2>1. pc[t] = "finish" /\ FinishFlush(t) /\ UNCHANGED <<pending, closed, doomed>>
    BY <1>8 DEF Finish
  <2> QED
    BY <2>1, FinishAttended
<1> QED
  BY <1>2, <1>3, <1>4, <1>5, <1>6, <1>7, <1>8 DEF FlushStep

LEMMA AttendedInit == Init => Attended
BY TaskAssumption DEF Init, Attended, InFlight, Tasks

LEMMA AttendedNext == Typed /\ Typed' /\ Attended /\ [Next]_vars => Attended'
<1> SUFFICES ASSUME Typed, Typed', Attended, [Next]_vars PROVE Attended'
  OBVIOUS
<1>1. CASE UNCHANGED vars
  BY <1>1 DEF vars, buffer, tasks, Attended, InFlight
<1>2. CASE CloseBegin \/ Crash
  <2>1. CASE CloseBegin
    BY <2>1 DEF CloseBegin, Attended
  <2>2. CASE Crash
    BY <2>2, TaskAssumption DEF Crash, Attended, InFlight, Tasks
  <2> QED
    BY <1>2, <2>1, <2>2
<1>3. CASE Step /\ closed /\ ~(CloseBegin \/ Crash)
  <2>1. closed' = closed
    <3>1. ASSUME NEW t \in Callers, Store(t) \/ Allocate(t) \/ CallFlush(t) \/ CallerCancelled(t)
          PROVE  closed' = closed
      BY <3>1 DEF Store, StoreFromBlock, StoreAwaitIds, Allocate, AllocateOk, AllocateFail, CallFlush,
                  CallerCancelled, Cancel, CancelInAlloc, CancelOutsideWrite, CancelInWrite, Interrupted, buffer
    <3>2. ASSUME NEW t \in Tasks, FlushStep(t) PROVE closed' = closed
      BY <3>2 DEF FlushStep, EnterFlush, TakeNothing, TakeBatch, WriteOk, WriteFail, Interrupted, Requeue,
                  Finish, buffer
    <3>3. ASSUME NEW f \in Flushers, FlusherStep(f) \/ FlusherCancelled(f) PROVE closed' = closed
      BY <3>3 DEF FlusherStep, FlusherCheck, FlusherWake, FlusherCancelled, Cancel, CancelInAlloc,
                  CancelOutsideWrite, CancelInWrite, Interrupted, buffer
    <3>4. CloseFlush => closed' = closed
      BY DEF CloseFlush, buffer
    <3> QED
      BY <1>3, <3>1, <3>2, <3>3, <3>4 DEF Step
  <2> QED
    BY <1>3, <2>1 DEF Attended
<1>4. CASE Step /\ ~closed /\ ~(CloseBegin \/ Crash)
  <2>1. doomed = {}
    BY <1>4 DEF Attended
  <2>2. UNCHANGED <<closed, doomed>> /\ (Quiet \/ Settles)
    <3>1. ASSUME NEW t \in Callers, Store(t) \/ Allocate(t) \/ CallFlush(t) \/ CallerCancelled(t)
          PROVE  UNCHANGED <<closed, doomed>> /\ (Quiet \/ Settles)
      BY <1>4, <3>1, CallerAttended
    <3>2. ASSUME NEW t \in Tasks, FlushStep(t)
          PROVE  UNCHANGED <<closed, doomed>> /\ (Quiet \/ Settles)
      BY <1>4, <3>2, FlushAttended
    <3>3. ASSUME NEW f \in Flushers, FlusherStep(f)
          PROVE  UNCHANGED <<closed, doomed>> /\ (Quiet \/ Settles)
      <4>1. f \in Tasks /\ "sleep" \in Stages /\ "dead" \in Stages /\ "wait" \in Stages
        BY DEF Tasks, Stages, FlushStages
      <4>2. CASE FlusherCheck(f)
        BY <1>4, <4>1, <4>2, QuietMove DEF FlusherCheck, buffer
      <4>3. CASE FlusherWake(f)
        BY <1>4, <4>1, <4>3, QuietMove DEF FlusherWake, buffer
      <4> QED
        BY <3>3, <4>2, <4>3 DEF FlusherStep
    <3>4. ASSUME NEW f \in Flushers, FlusherCancelled(f) PROVE FALSE
      BY <2>1, <3>4 DEF FlusherCancelled
    <3>5. ASSUME CloseFlush PROVE UNCHANGED <<closed, doomed>> /\ (Quiet \/ Settles)
      <4>1. Closer \in Tasks /\ "wait" \in Stages
        BY DEF Tasks, Stages, FlushStages
      <4> QED
        BY <1>4, <3>5, <4>1, QuietMove DEF CloseFlush, buffer
    <3> QED
      BY <1>4, <3>1, <3>2, <3>3, <3>4, <3>5 DEF Step
  <2> QED
    BY <1>4, <2>1, <2>2, AttendedKept
<1> QED
  BY <1>1, <1>2, <1>3, <1>4 DEF Next

(* While the store is open, buffered events have a live flusher that will  *)
(* look at them, also those a failed flush put back and those that came in *)
(* while another flush was under way (_ensure_flusher, batching.py:142-145,*)
(* 174-202).                                                               *)
THEOREM AlwaysAttended == Spec => []NeverUnattended
<1>1. Init => Typed /\ Attended
  BY TypedInit, AttendedInit
<1>2. Typed /\ Attended /\ [Next]_vars => (Typed /\ Attended)'
  BY TypedNext, AttendedNext
<1>3. Attended => NeverUnattended
  BY DEF Attended, NeverUnattended
<1> QED
  BY <1>1, <1>2, <1>3, PTL DEF Spec

-------------------------------------------------------------------------------
(***************************************************************************)
(* No accepted event disappears, and their order survives every failure:   *)
(* proofs of Conservation, GlobalOrder and DurablePrefix of Batching, then *)
(* of what rests on them: that flush() is a barrier, and that the store    *)
(* implements WriteBehindLog.                                              *)
(*                                                                         *)
(* Whatever a step does to the batch in flight and to the buffer, it       *)
(* either appends one new id, above all others, or it drains: part of what *)
(* was waiting becomes persisted or lost and the rest keeps its order.     *)
(***************************************************************************)

Below(A, B) == \A x \in A, y \in B : x < y

(* Ids still to be written. *)
Waiting == ToSet(Unwritten) \cup ToSet(pending)

Issued ==
    /\ \A x \in accepted \cup ToSet(idBlock) : x < nextId
    /\ Below(accepted, ToSet(idBlock))

IdsInOrder ==
    /\ Increasing(Unwritten) /\ Increasing(pending) /\ Increasing(idBlock)
    /\ Below(ToSet(Unwritten), ToSet(pending))

Accounted ==
    /\ accepted = persisted \cup Waiting \cup lost
    /\ lost \cap (persisted \cup Waiting) = {}

OrderInv == Issued /\ IdsInOrder /\ Accounted /\ DurablePrefix

-------------------------------------------------------------------------------
(* The ranges of the variables in use here, with the batch in bounds. *)
LEMMA Ranges ==
    ASSUME Typed
    PROVE  /\ Unwritten \in Seq(Nat) /\ pending \in Seq(Nat) /\ idBlock \in Seq(Nat)
           /\ ToSet(Unwritten) \subseteq Nat /\ ToSet(pending) \subseteq Nat
           /\ ToSet(idBlock) \subseteq Nat
           /\ accepted \subseteq Nat /\ persisted \subseteq Nat /\ lost \subseteq Nat
           /\ nextId \in Nat
           /\ written <= Len(batch) /\ Len(batch) \in Nat /\ written \in Nat
           /\ batch \in Seq(Nat)
<1> USE DEF Typed
<1>1. written <= Len(batch) /\ Len(batch) \in Nat /\ written \in Nat /\ batch \in Seq(Nat)
  BY EmptyFacts DEF StageInv, TypeOK, InFlight
<1>2. Unwritten \in Seq(Nat) /\ pending \in Seq(Nat) /\ idBlock \in Seq(Nat)
  BY <1>1, UnwrittenTypes DEF TypeOK
<1>3. /\ ToSet(Unwritten) \subseteq Nat /\ ToSet(pending) \subseteq Nat
      /\ ToSet(idBlock) \subseteq Nat
  BY <1>2, ToSetDef
<1>4. accepted \subseteq Nat /\ persisted \subseteq Nat /\ lost \subseteq Nat /\ nextId \in Nat
  BY DEF TypeOK, lost
<1> QED
  BY <1>1, <1>2, <1>3, <1>4

(* The tail still to be written depends on the batch and the count only. *)
LEMMA UnwrittenStays ==
    ASSUME UNCHANGED <<batch, written>>
    PROVE  Unwritten' = Unwritten
BY DEF Unwritten

(* Without a batch nothing is in flight. *)
LEMMA NothingUnwritten ==
    /\ batch = <<>> /\ written = 0 => Unwritten = <<>>
    /\ (batch = <<>> /\ written = 0 => Unwritten = <<>>)'
<1>1. SubSeq(<<>>, 0 + 1, Len(<<>>)) = <<>>
  OBVIOUS
<1> QED
  BY <1>1 DEF Unwritten

(* A draining step: the ids S become persisted, the ids L are lost, and    *)
(* what still waits was waiting before, in the same order.                 *)
LEMMA Drains ==
    ASSUME Typed, Typed', OrderInv, UNCHANGED <<backend, accepted>>,
           nextId <= nextId', idBlock' \in {idBlock, <<>>},
           Increasing(Unwritten)', Increasing(pending)',
           Below(ToSet(Unwritten), ToSet(pending))',
           Waiting' \subseteq Waiting,
           NEW S, NEW L, S \cup L \subseteq Waiting,
           persisted' = persisted \cup S, lost' = lost \cup L,
           L \cap (persisted \cup S \cup Waiting') = {},
           Waiting \subseteq Waiting' \cup persisted \cup S \cup L,
           Atomic \/ ~Bulk => \A x \in S, y \in Waiting : y < x => y \in S
    PROVE  OrderInv'
<1>1. IdsInOrder'
  <2>1. Increasing(idBlock)'
    BY EmptyFacts DEF IdsInOrder, OrderInv
  <2> QED
    BY <2>1 DEF IdsInOrder
<1>2. Accounted'
  BY DEF Accounted, OrderInv
<1>3. Issued'
  <2>1. ToSet(idBlock)' \subseteq ToSet(idBlock)
    BY EmptyFacts
  <2>2. nextId \in Nat /\ nextId' \in Nat /\ accepted \subseteq Nat /\ ToSet(idBlock) \subseteq Nat
    BY Ranges DEF Typed, TypeOK
  <2> QED
    BY <2>1, <2>2 DEF Issued, OrderInv, Below
<1>4. DurablePrefix'
  <2>1. (Atomic \/ ~Bulk) <=> (Atomic \/ ~Bulk)'
    BY DEF Atomic, Bulk
  <2>2. SUFFICES ASSUME Atomic \/ ~Bulk, NEW x \in persisted', NEW y \in accepted, y < x
                 PROVE  y \in persisted' \cup lost'
    BY <2>1 DEF DurablePrefix
  <2>3. CASE x \in persisted
    BY <2>2, <2>3 DEF OrderInv, DurablePrefix
  <2>4. CASE x \in S
    <3>1. y \in persisted \cup lost \/ y \in Waiting
      BY DEF OrderInv, Accounted
    <3> QED
      BY <2>2, <2>4, <3>1
  <2> QED
    BY <2>3, <2>4
<1> QED
  BY <1>1, <1>2, <1>3, <1>4 DEF OrderInv

(* A step that leaves events, buffer and ids alone. *)
LEMMA Stays ==
    ASSUME Typed, Typed', OrderInv,
           UNCHANGED <<backend, accepted, persisted, lost, pending, idBlock>>,
           nextId <= nextId', Unwritten' = Unwritten
    PROVE  OrderInv'
<1>1. Waiting' = Waiting
  BY DEF Waiting
<1>2. Below(ToSet(Unwritten), ToSet(pending))' /\ Increasing(Unwritten)' /\ Increasing(pending)'
  BY DEF OrderInv, IdsInOrder
<1>3. persisted' = persisted \cup {} /\ lost' = lost \cup {}
  OBVIOUS
<1> QED
  BY <1>1, <1>2, <1>3, Drains

-------------------------------------------------------------------------------
(* The initial state: nothing was accepted. *)
LEMMA OrderInit == Init => OrderInv
<1> SUFFICES ASSUME Init PROVE OrderInv
  OBVIOUS
<1>1. Unwritten = <<>> /\ pending = <<>> /\ idBlock = <<>>
  BY NothingUnwritten DEF Init
<1>2. accepted = {} /\ persisted = {} /\ lost = {}
  BY DEF Init, lost
<1> QED
  BY <1>1, <1>2, EmptyFacts
     DEF OrderInv, Issued, IdsInOrder, Accounted, Waiting, DurablePrefix, Below

(* An appended id lies above all earlier ones and below the rest of the    *)
(* block it was taken from.                                                *)
LEMMA AppendKeeps ==
    ASSUME Typed, Typed', OrderInv, NEW id \in Nat, NEW rest \in Seq(Nat),
           UNCHANGED <<backend, persisted, lost>>, Unwritten' = Unwritten,
           pending' = Append(pending, id), idBlock' = rest, accepted' = accepted \cup {id},
           nextId <= nextId', \A x \in accepted : x < id,
           \A x \in ToSet(rest) : id < x, Increasing(rest),
           \A x \in {id} \cup ToSet(rest) : x < nextId'
    PROVE  OrderInv'
<1>1. /\ ToSet(pending') = ToSet(pending) \cup {id}
      /\ Increasing(pending') <=> Increasing(pending) /\ \A x \in ToSet(pending) : x < id
      /\ ToSet(rest) \subseteq Nat
  BY AppendFacts, Ranges, ToSetDef
<1>2. ToSet(pending) \subseteq accepted /\ ToSet(Unwritten) \subseteq accepted
  BY DEF OrderInv, Accounted, Waiting
<1>3. IdsInOrder'
  BY <1>1, <1>2 DEF IdsInOrder, OrderInv, Below
<1>4. id \notin accepted
  BY Ranges
<1>5. Accounted'
  BY <1>1, <1>4 DEF Accounted, OrderInv, Waiting
<1>6. Issued'
  <2>1. nextId \in Nat /\ nextId' \in Nat /\ accepted \subseteq Nat
    BY Ranges DEF Typed, TypeOK
  <2>2. ASSUME NEW x \in accepted PROVE x < nextId' /\ \A y \in ToSet(rest) : x < y
    <3>1. x < nextId /\ x < id /\ x \in Nat
      BY <2>1, <2>2 DEF OrderInv, Issued
    <3> QED
      BY <1>1, <2>1, <3>1
  <2> QED
    BY <2>2 DEF Issued, Below
<1>7. DurablePrefix'
  <2>1. (Atomic \/ ~Bulk) <=> (Atomic \/ ~Bulk)'
    BY DEF Atomic, Bulk
  <2>2. SUFFICES ASSUME Atomic \/ ~Bulk, NEW x \in persisted, NEW y \in accepted', y < x
                 PROVE  y \in persisted \cup lost
    BY <2>1 DEF DurablePrefix
  <2>3. x \in accepted /\ x < id /\ x \in Nat
    BY Ranges DEF OrderInv, Accounted
  <2>4. y \in accepted
    BY <2>2, <2>3
  <2> QED
    BY <2>2, <2>4 DEF OrderInv, DurablePrefix
<1> QED
  BY <1>3, <1>5, <1>6, <1>7 DEF OrderInv

(* store_event: the head of the block at hand, or of a new one. *)
LEMMA OrderStore ==
    ASSUME Typed, Typed', OrderInv, UNCHANGED backend, NEW t \in Callers,
           Store(t) \/ Allocate(t)
    PROVE  OrderInv'
<1>1. CASE StoreFromBlock(t)
  <2>1. /\ idBlock # <<>> /\ Append1(t, idBlock)
        /\ UNCHANGED <<batch, written, nextId, persisted, crashLost, dropped>>
    BY <1>1 DEF StoreFromBlock, flight
  <2>2. /\ idBlock' = Tail(idBlock) /\ pending' = Append(pending, Head(idBlock))
        /\ accepted' = accepted \cup {Head(idBlock)}
    BY <2>1 DEF Append1
  <2>3. /\ Head(idBlock) \in Nat /\ Tail(idBlock) \in Seq(Nat)
        /\ ToSet(idBlock) = {Head(idBlock)} \cup ToSet(Tail(idBlock))
        /\ Increasing(Tail(idBlock)) /\ \A x \in ToSet(Tail(idBlock)) : Head(idBlock) < x
    BY <2>1, HeadFacts, Ranges DEF OrderInv, IdsInOrder
  <2>4. /\ \A x \in accepted : x < Head(idBlock)
        /\ \A x \in {Head(idBlock)} \cup ToSet(Tail(idBlock)) : x < nextId'
    BY <2>1, <2>3 DEF OrderInv, Issued, Below
  <2>5. Unwritten' = Unwritten /\ lost' = lost /\ nextId <= nextId'
    BY <2>1, UnwrittenStays, Ranges DEF lost
  <2> QED
    BY <2>1, <2>2, <2>3, <2>4, <2>5, AppendKeeps
<1>2. CASE StoreAwaitIds(t) \/ AllocateFail(t)
  <2>1. UNCHANGED <<buffer, flight, nextId, persisted, history>>
    BY <1>2 DEF StoreAwaitIds, AllocateFail
  <2>2. /\ UNCHANGED <<accepted, persisted, lost, pending, idBlock>>
        /\ nextId <= nextId' /\ Unwritten' = Unwritten
    BY <2>1, UnwrittenStays, Ranges DEF buffer, flight, history, lost
  <2> QED
    BY <2>2, Stays
<1>3. CASE AllocateOk(t)
  <2>1. PICK first \in nextId..(nextId + 1) : nextId' = first + FlushMaxEvents
                                              /\ Append1(t, Block(first))
    BY <1>3 DEF AllocateOk
  <2>2. UNCHANGED <<batch, written, persisted, crashLost, dropped>>
    BY <1>3 DEF AllocateOk, flight
  <2> DEFINE blk == Block(first)
  <2>3. nextId \in Nat /\ first \in Nat /\ nextId <= first /\ nextId <= nextId'
    BY <2>1, Ranges, LimitAssumption
  <2>4. /\ blk \in Seq(Nat) /\ blk # <<>> /\ Increasing(blk)
        /\ \A x \in ToSet(blk) : first <= x /\ x < nextId'
    BY <2>1, <2>3, BlockFacts
  <2>5. /\ idBlock' = Tail(blk) /\ pending' = Append(pending, Head(blk))
        /\ accepted' = accepted \cup {Head(blk)}
    BY <2>1 DEF Append1
  <2> HIDE DEF blk
  <2>6. /\ Head(blk) \in Nat /\ Tail(blk) \in Seq(Nat)
        /\ ToSet(blk) = {Head(blk)} \cup ToSet(Tail(blk))
        /\ Increasing(Tail(blk)) /\ \A x \in ToSet(Tail(blk)) : Head(blk) < x
    BY <2>4, HeadFacts
  <2>7. \A x \in accepted : x < Head(blk)
    <3>1. \A x \in accepted : x \in Nat /\ x < nextId
      BY Ranges DEF OrderInv, Issued
    <3>2. first <= Head(blk) /\ Head(blk) \in Nat
      BY <2>4, <2>6
    <3> QED
      BY <2>3, <3>1, <3>2
  <2>8. Unwritten' = Unwritten /\ lost' = lost
    BY <2>2, UnwrittenStays DEF lost
  <2> QED
    BY <2>2, <2>3, <2>4, <2>5, <2>6, <2>7, <2>8, AppendKeeps
<1> QED
  BY <1>1, <1>2, <1>3 DEF Store, Allocate

-------------------------------------------------------------------------------
(* The first id of the tail to be written, and the tail behind it. *)
LEMMA UnwrittenHead ==
    ASSUME Typed, written < Len(batch)
    PROVE  /\ Unwritten # <<>>
           /\ Head(Unwritten) = batch[written + 1]
           /\ Tail(Unwritten) = SubSeq(batch, written + 1 + 1, Len(batch))
<1>1. /\ Unwritten \in Seq(Nat) /\ Len(Unwritten) = Len(batch) - written
      /\ \A i \in 1..(Len(batch) - written) : Unwritten[i] = batch[written + i]
  BY UnwrittenTypes, Ranges DEF Typed
<1>2. batch \in Seq(Nat) /\ written \in Nat /\ Len(batch) \in Nat
  BY Ranges
<1>3. Unwritten # <<>>
  BY <1>1, <1>2, EmptyFacts
<1>4. Head(Unwritten) = batch[written + 1]
  BY <1>1, <1>2, <1>3
<1> DEFINE rest == SubSeq(batch, written + 1 + 1, Len(batch))
<1>5. /\ rest \in Seq(Nat) /\ Len(rest) = Len(batch) - (written + 1)
      /\ \A i \in 1..(Len(batch) - (written + 1)) : rest[i] = batch[written + 1 + i]
  <2>1. written + 1 \in Nat /\ written + 1 <= Len(batch)
    BY <1>2
  <2> QED
    BY <1>2, <2>1, SuffixFacts
<1>6. /\ Tail(Unwritten) \in Seq(Nat) /\ Len(Tail(Unwritten)) = Len(Unwritten) - 1
      /\ \A i \in 1..(Len(Unwritten) - 1) : Tail(Unwritten)[i] = Unwritten[i + 1]
  BY <1>1, <1>3
<1> HIDE DEF rest
<1>7. ASSUME NEW i \in 1..Len(rest) PROVE rest[i] = Tail(Unwritten)[i]
  <2>1. i \in 1..(Len(batch) - (written + 1)) /\ i \in 1..(Len(Unwritten) - 1)
        /\ i + 1 \in 1..(Len(batch) - written)
    BY <1>1, <1>2, <1>5
  <2>2. rest[i] = batch[written + 1 + i] /\ Tail(Unwritten)[i] = batch[written + (i + 1)]
    BY <1>1, <1>5, <1>6, <2>1
  <2>3. written + 1 + i = written + (i + 1)
    BY <1>2, <2>1
  <2> QED
    BY <2>2, <2>3
<1>8. Tail(Unwritten) = rest
  <2>1. Len(Tail(Unwritten)) = Len(rest)
    BY <1>1, <1>2, <1>5, <1>6
  <2> QED
    BY <1>5, <1>6, <1>7, <2>1, SeqEqual
<1> QED
  BY <1>3, <1>4, <1>8 DEF rest

(* What a call to the backend added is all of the tail, or a lowest part   *)
(* of it when the backend is atomic or written event by event.             *)
LEMMA AppliedLowest ==
    ASSUME Typed, OrderInv, NEW t \in Tasks, pc[t] = "write", NEW S \in MayHaveApplied
    PROVE  /\ S \subseteq Waiting
           /\ Atomic \/ ~Bulk => \A x \in S, y \in Waiting : y < x => y \in S
<1>1. S \subseteq ToSet(Unwritten) /\ (Bulk => Unwritten = batch)
  BY AppliedFacts
<1>2. \A x \in ToSet(Unwritten), y \in ToSet(pending) : x \in Nat /\ y \in Nat /\ x < y
  BY Ranges DEF OrderInv, IdsInOrder, Below
<1>3. ASSUME Atomic \/ ~Bulk, NEW x \in S, NEW y \in Waiting, y < x
      PROVE  y \in S
  <2>1. y \in ToSet(Unwritten)
    BY <1>1, <1>2, <1>3 DEF Waiting
  <2>2. CASE Bulk
    BY <1>1, <1>3, <2>1, <2>2 DEF MayHaveApplied
  <2>3. CASE ~Bulk
    <3>1. written < Len(batch)
      BY DEF Typed, StageInv
    <3>2. x = Head(Unwritten) /\ Unwritten # <<>>
      BY <1>3, <2>3, <3>1, UnwrittenHead DEF MayHaveApplied
    <3>3. y = x \/ x < y
      BY <2>1, <3>2, HeadFacts, Ranges DEF OrderInv, IdsInOrder
    <3> QED
      BY <1>2, <1>3, <2>1, <3>3, <1>1, Ranges
  <2> QED
    BY <2>2, <2>3
<1> QED
  BY <1>1, <1>3 DEF Waiting

(* A successful backend call: the ids written leave the tail. *)
LEMMA OrderWrite ==
    ASSUME Typed, Typed', OrderInv, UNCHANGED backend, NEW t \in Tasks, WriteOk(t)
    PROVE  OrderInv'
<1> DEFINE n == IF Bulk THEN Len(batch) ELSE written + 1
           S == IF Bulk THEN ToSet(batch) ELSE {batch[written + 1]}
<1>1. /\ pc[t] = "write" /\ n \in Nat /\ written < n /\ n <= Len(batch)
      /\ persisted' = persisted \cup S
      /\ UNCHANGED <<pending, idBlock, nextId, accepted, crashLost, dropped>>
  BY WriteOkFacts
<1>2. \/ ~Bulk /\ written' = n /\ batch' = batch
      \/ n = Len(batch) /\ written' = n /\ batch' = batch
      \/ n = Len(batch) /\ batch' = <<>> /\ written' = 0
  BY WriteOkFacts DEF FinishFlush
<1>3. written < Len(batch) /\ batch \in Seq(Nat) /\ Len(batch) \in Nat /\ written \in Nat
  BY <1>1, Ranges DEF Typed, StageInv
<1>4. /\ Unwritten # <<>> /\ Head(Unwritten) = batch[written + 1]
      /\ Tail(Unwritten) = SubSeq(batch, written + 1 + 1, Len(batch))
  BY <1>3, UnwrittenHead
<1>5. /\ ToSet(Unwritten) = {Head(Unwritten)} \cup ToSet(Tail(Unwritten))
      /\ Increasing(Tail(Unwritten)) /\ \A x \in ToSet(Tail(Unwritten)) : Head(Unwritten) < x
      /\ ToSet(Unwritten) \subseteq Nat
  BY <1>4, HeadFacts, Ranges DEF OrderInv, IdsInOrder
<1>6. SubSeq(batch, Len(batch) + 1, Len(batch)) = <<>>
  BY <1>3
<1>7. CASE Bulk
  <2>1. Unwritten = batch
    BY <1>1, <1>7, AppliedFacts
  <2>2. Unwritten' = <<>>
    BY <1>2, <1>6, <1>7, NothingUnwritten DEF Unwritten
  <2>3. S = ToSet(Unwritten)
    BY <1>7, <2>1
  <2> QED
    <3>1. S \in MayHaveApplied
      BY <1>7, <2>1 DEF MayHaveApplied
    <3> HIDE DEF S
    <3>2. S \subseteq Waiting /\ (Atomic \/ ~Bulk => \A x \in S, y \in Waiting : y < x => y \in S)
      BY <1>1, <3>1, AppliedLowest
    <3>3. /\ Waiting' = ToSet(pending) /\ Increasing(Unwritten)' /\ Increasing(pending)'
          /\ Below(ToSet(Unwritten), ToSet(pending))'
      BY <1>1, <2>2, EmptyFacts DEF Waiting, OrderInv, IdsInOrder, Below
    <3>4. Waiting' \subseteq Waiting /\ Waiting \subseteq Waiting' \cup S
      BY <2>3, <3>3 DEF Waiting
    <3>5. lost' = lost \cup {} /\ nextId <= nextId'
      BY <1>1, Ranges DEF lost
    <3> QED
      BY <1>1, <3>2, <3>3, <3>4, <3>5, Drains
<1>8. CASE ~Bulk
  <2>1. S = {Head(Unwritten)} /\ S \in MayHaveApplied /\ n = written + 1
    BY <1>4, <1>8 DEF MayHaveApplied
  <2>2. Unwritten' = Tail(Unwritten)
    <3>1. CASE written' = n /\ batch' = batch
      BY <1>4, <2>1, <3>1 DEF Unwritten
    <3>2. CASE n = Len(batch) /\ batch' = <<>> /\ written' = 0
      <4>1. Tail(Unwritten) = <<>>
        BY <1>4, <1>6, <2>1, <3>2
      <4> QED
        BY <3>2, <4>1, NothingUnwritten
    <3> QED
      BY <1>2, <3>1, <3>2
  <2> HIDE DEF S, n
  <2>3. S \subseteq Waiting /\ (Atomic \/ ~Bulk => \A x \in S, y \in Waiting : y < x => y \in S)
    BY <1>1, <2>1, AppliedLowest
  <2>4. Waiting' = ToSet(Tail(Unwritten)) \cup ToSet(pending)
    BY <1>1, <2>2 DEF Waiting
  <2>5. /\ Increasing(Unwritten)' /\ Increasing(pending)'
        /\ Below(ToSet(Unwritten), ToSet(pending))'
    BY <1>1, <1>5, <2>2 DEF OrderInv, IdsInOrder, Below
  <2>6. Waiting' \subseteq Waiting /\ Waiting \subseteq Waiting' \cup S
    BY <1>5, <2>1, <2>4 DEF Waiting
  <2>7. lost' = lost \cup {} /\ nextId <= nextId'
    BY <1>1, Ranges DEF lost
  <2> QED
    BY <1>1, <2>3, <2>5, <2>6, <2>7, Drains
<1> QED
  BY <1>7, <1>8

(* Putting the tail back: the same ids wait, in the same order. *)
LEMMA PutBackKeeps ==
    ASSUME Typed, Typed', OrderInv, PutBack,
           UNCHANGED <<backend, accepted, lost, idBlock, nextId>>,
           NEW S, S \subseteq Waiting, persisted' = persisted \cup S,
           Atomic \/ ~Bulk => \A x \in S, y \in Waiting : y < x => y \in S
    PROVE  OrderInv'
<1>1. pending' = Unwritten \o pending /\ Unwritten' = <<>>
  BY NothingUnwritten DEF PutBack
<1>2. ToSet(pending') = Waiting /\ Increasing(pending')
  BY <1>1, Ranges, ToSetConcat, IncreasingConcat DEF Waiting, OrderInv, IdsInOrder, Below
<1>3. Waiting' = Waiting
  BY <1>1, <1>2, EmptyFacts DEF Waiting
<1>4. Increasing(Unwritten)' /\ Increasing(pending)' /\ Below(ToSet(Unwritten), ToSet(pending))'
  BY <1>1, <1>2, EmptyFacts DEF Below
<1>5. lost' = lost \cup {} /\ nextId <= nextId'
  BY Ranges
<1>6. {} \cap (persisted \cup S \cup Waiting') = {}
  OBVIOUS
<1> QED
  BY <1>3, <1>4, <1>5, <1>6, Drains

(* An interrupted write may have stored part of its batch; the tail goes   *)
(* back now, or the flush first queues for _lock.                          *)
LEMMA OrderInterrupted ==
    ASSUME Typed, Typed', OrderInv, UNCHANGED backend, NEW t \in Tasks,
           WriteFail(t) \/ CancelInWrite(t)
    PROVE  OrderInv'
<1>1. PICK stage \in {"requeue", "unwind"}, after \in {AfterError(t), AfterCancel(t)} :
         pc[t] = "write" /\ Interrupted(t, stage, after)
  BY DEF WriteFail, CancelInWrite
<1>2. PICK S \in MayHaveApplied : persisted' = persisted \cup S
  BY <1>1 DEF Interrupted
<1>3. UNCHANGED <<accepted, lost, idBlock, nextId>>
  BY <1>1 DEF Interrupted, lost
<1>4. S \subseteq Waiting /\ (Atomic \/ ~Bulk => \A x \in S, y \in Waiting : y < x => y \in S)
  BY <1>1, <1>2, AppliedLowest
<1>5. CASE lock = NoTask
  <2>1. PutBack
    BY <1>1, <1>5 DEF Interrupted
  <2> QED
    BY <1>2, <1>3, <1>4, <2>1, PutBackKeeps
<1>6. CASE lock # NoTask
  <2>1. UNCHANGED <<pending, batch, written>>
    BY <1>1, <1>6 DEF Interrupted
  <2>2. Unwritten' = Unwritten /\ Waiting' = Waiting
    BY <2>1, UnwrittenStays DEF Waiting
  <2>3. /\ Increasing(Unwritten)' /\ Increasing(pending)'
        /\ Below(ToSet(Unwritten), ToSet(pending))'
    BY <2>1, <2>2 DEF OrderInv, IdsInOrder
  <2>4. lost' = lost \cup {} /\ nextId <= nextId'
    BY <1>3, Ranges
  <2> QED
    BY <1>2, <1>3, <1>4, <2>2, <2>3, <2>4, Drains
<1> QED
  BY <1>5, <1>6

(* The steps of flush() that take, return or put back a batch. *)
LEMMA OrderFlush ==
    ASSUME Typed, Typed', OrderInv, UNCHANGED backend, NEW t \in Tasks,
           EnterFlush(t) \/ TakeNothing(t) \/ TakeBatch(t) \/ Requeue(t) \/ Finish(t)
    PROVE  OrderInv'
<1>1. CASE EnterFlush(t) \/ TakeNothing(t)
  <2>1. UNCHANGED <<buffer, flight, nextId, persisted, accepted, crashLost, dropped>>
    BY <1>1 DEF EnterFlush, TakeNothing, history
  <2>2. /\ UNCHANGED <<persisted, accepted, lost, pending, idBlock>>
        /\ nextId <= nextId' /\ Unwritten' = Unwritten
    BY <2>1, UnwrittenStays, Ranges DEF buffer, flight, lost
  <2> QED
    BY <2>2, Stays
<1>2. CASE TakeBatch(t)
  <2>1. /\ pc[t] = "take" /\ batch' = pending /\ written' = 0 /\ pending' = <<>>
        /\ UNCHANGED <<idBlock, nextId, persisted, accepted, lost>>
    BY <1>2 DEF TakeBatch, history, lost
  <2>2. Unwritten = <<>>
    <3>1. flushLock = t
      BY <2>1 DEF Typed, StageInv
    <3>2. \A u \in Tasks : ~InFlight(u)
      BY <2>1, <3>1 DEF Typed, StageInv, InFlight
    <3> QED
      BY <3>2, NothingUnwritten DEF Typed, StageInv
  <2>3. Unwritten' = pending
    <3>1. SubSeq(pending, 0 + 1, Len(pending)) = pending
      BY Ranges
    <3> QED
      BY <2>1, <3>1 DEF Unwritten
  <2>4. Waiting' = Waiting
    BY <2>1, <2>2, <2>3 DEF Waiting
  <2>5. /\ Increasing(Unwritten)' /\ Increasing(pending)'
        /\ Below(ToSet(Unwritten), ToSet(pending))'
    BY <2>1, <2>3, EmptyFacts DEF OrderInv, IdsInOrder, Below
  <2>6. persisted' = persisted \cup {} /\ lost' = lost \cup {} /\ nextId <= nextId'
    BY <2>1, Ranges
  <2> QED
    BY <2>1, <2>4, <2>5, <2>6, Drains
<1>3. CASE Requeue(t)
  <2>1. PutBack /\ UNCHANGED <<accepted, lost, idBlock, nextId, persisted>>
    BY <1>3 DEF Requeue, lost
  <2> DEFINE S == {}
  <2>2. /\ S \subseteq Waiting /\ persisted' = persisted \cup S
        /\ \A x \in S, y \in Waiting : y < x => y \in S
    BY <2>1
  <2> HIDE DEF S
  <2> QED
    BY <2>1, <2>2, PutBackKeeps
<1>4. CASE Finish(t)
  <2>1. /\ pc[t] = "finish" /\ batch' = <<>> /\ written' = 0
        /\ UNCHANGED <<pending, idBlock, nextId, persisted, accepted, lost>>
    BY <1>4 DEF Finish, FinishFlush, lost
  <2>2. Unwritten = <<>> /\ Unwritten' = <<>>
    <3>1. written = Len(batch)
      BY <2>1 DEF Typed, StageInv
    <3>2. SubSeq(batch, Len(batch) + 1, Len(batch)) = <<>>
      BY Ranges
    <3> QED
      BY <2>1, <3>1, <3>2, NothingUnwritten DEF Unwritten
  <2>3. nextId <= nextId' /\ Unwritten' = Unwritten
    BY <2>1, <2>2, Ranges
  <2> QED
    BY <2>1, <2>3, Stays
<1> QED
  BY <1>1, <1>2, <1>3, <1>4

(* A cancellation outside a write gives up the batch it was putting back. *)
LEMMA OrderCancel ==
    ASSUME Typed, Typed', OrderInv, UNCHANGED backend, NEW t \in Tasks,
           CancelInAlloc(t) \/ CancelOutsideWrite(t)
    PROVE  OrderInv'
<1>1. CASE CancelInAlloc(t)
  <2>1. /\ nextId' \in {nextId, nextId + FlushMaxEvents}
        /\ UNCHANGED <<buffer, flight, persisted, history>>
    BY <1>1 DEF CancelInAlloc
  <2>2. /\ UNCHANGED <<accepted, persisted, lost, pending, idBlock>>
        /\ nextId <= nextId' /\ Unwritten' = Unwritten
    BY <2>1, UnwrittenStays, Ranges, LimitAssumption DEF buffer, flight, history, lost
  <2> QED
    BY <2>2, Stays
<1>2. CASE CancelOutsideWrite(t)
  <2>1. UNCHANGED <<buffer, nextId, persisted, accepted, crashLost>>
    BY <1>2 DEF CancelOutsideWrite
  <2>2. UNCHANGED <<persisted, accepted, pending, idBlock>> /\ nextId <= nextId'
    BY <2>1, Ranges DEF buffer
  <2>3. CASE pc[t] \in {"requeue", "unwind"}
    <3> DEFINE L == ToSet(Unwritten) \ persisted
    <3>1. dropped' = dropped \cup L /\ batch' = <<>> /\ written' = 0
      BY <1>2, <2>3 DEF CancelOutsideWrite, GiveUpBatch
    <3>2. Unwritten' = <<>>
      BY <3>1, NothingUnwritten
    <3>3. /\ lost' = lost \cup L
          /\ persisted' = persisted \cup {}
      BY <2>1, <2>2, <3>1 DEF lost
    <3>4. /\ Waiting' = ToSet(pending)
          /\ Increasing(Unwritten)' /\ Increasing(pending)'
          /\ Below(ToSet(Unwritten), ToSet(pending))'
      BY <2>2, <3>2, EmptyFacts DEF Waiting, OrderInv, IdsInOrder, Below
    <3>5. L \cap ToSet(pending) = {}
      BY Ranges DEF OrderInv, IdsInOrder, Below
    <3>6. /\ Waiting' \subseteq Waiting /\ {} \cup L \subseteq Waiting
          /\ L \cap (persisted \cup {} \cup Waiting') = {}
          /\ Waiting \subseteq Waiting' \cup persisted \cup {} \cup L
      BY <3>4, <3>5 DEF Waiting
    <3> HIDE DEF L
    <3> QED
      BY <2>2, <3>3, <3>4, <3>6, Drains
  <2>4. CASE pc[t] = "finish"
    <3>1. batch' = <<>> /\ written' = 0 /\ dropped' = dropped
      BY <1>2, <2>4 DEF CancelOutsideWrite
    <3>2. written = Len(batch) /\ SubSeq(batch, Len(batch) + 1, Len(batch)) = <<>>
      BY <2>4, Ranges DEF Typed, StageInv
    <3>3. Unwritten' = Unwritten /\ lost' = lost
      BY <2>1, <3>1, <3>2, NothingUnwritten DEF Unwritten, lost
    <3> QED
      BY <2>2, <3>3, Stays
  <2>5. CASE pc[t] \notin {"requeue", "unwind", "finish"}
    <3>1. UNCHANGED <<batch, written, dropped>>
      BY <1>2, <2>5 DEF CancelOutsideWrite
    <3>2. Unwritten' = Unwritten /\ lost' = lost
      BY <2>1, <3>1, UnwrittenStays DEF lost
    <3> QED
      BY <2>2, <3>2, Stays
  <2> QED
    BY <2>3, <2>4, <2>5
<1> QED
  BY <1>1, <1>2

(* A crash loses what was not persisted by then. *)
LEMMA OrderCrash ==
    ASSUME Typed, Typed', OrderInv, UNCHANGED backend, Crash
    PROVE  OrderInv'
<1>1. PICK S \in IF \E t \in Tasks : pc[t] = "write" THEN MayHaveApplied ELSE {{}} :
         /\ persisted' = persisted \cup S
         /\ crashLost' = crashLost \cup ((ToSet(Unwritten) \cup ToSet(pending)) \ (persisted \cup S))
  BY DEF Crash
<1> DEFINE L == Waiting \ (persisted \cup S)
<1>2. /\ pending' = <<>> /\ idBlock' = <<>> /\ batch' = <<>> /\ written' = 0
      /\ UNCHANGED <<nextId, accepted, dropped>>
  BY DEF Crash
<1>3. S \subseteq Waiting /\ (Atomic \/ ~Bulk => \A x \in S, y \in Waiting : y < x => y \in S)
  <2>1. CASE \E t \in Tasks : pc[t] = "write"
    BY <1>1, <2>1, AppliedLowest
  <2>2. CASE ~ \E t \in Tasks : pc[t] = "write"
    BY <1>1, <2>2
  <2> QED
    BY <2>1, <2>2
<1>4. lost' = lost \cup L
  BY <1>1, <1>2 DEF lost, Waiting
<1>5. Unwritten' = <<>> /\ Waiting' = {}
  BY <1>2, NothingUnwritten, EmptyFacts DEF Waiting
<1>6. Increasing(Unwritten)' /\ Increasing(pending)' /\ Below(ToSet(Unwritten), ToSet(pending))'
  BY <1>2, <1>5, EmptyFacts DEF Below
<1>7. nextId <= nextId'
  BY <1>2, Ranges
<1>8. /\ Waiting' \subseteq Waiting /\ S \cup L \subseteq Waiting
      /\ L \cap (persisted \cup S \cup Waiting') = {}
      /\ Waiting \subseteq Waiting' \cup persisted \cup S \cup L
  BY <1>3, <1>5
<1> HIDE DEF L
<1> QED
  BY <1>1, <1>2, <1>3, <1>4, <1>6, <1>7, <1>8, Drains

-------------------------------------------------------------------------------
(* Every step keeps the order and the accounts. *)
LEMMA OrderNext == Typed /\ Typed' /\ OrderInv /\ [Next]_vars => OrderInv'
<1> SUFFICES ASSUME Typed, Typed', OrderInv, [Next]_vars PROVE OrderInv'
  OBVIOUS
<1>1. ASSUME UNCHANGED <<backend, buffer, flight, nextId, persisted, accepted, crashLost, dropped>>
      PROVE  OrderInv'
  <2>1. /\ UNCHANGED <<backend, accepted, persisted, lost, pending, idBlock>>
        /\ nextId <= nextId' /\ Unwritten' = Unwritten
    BY <1>1, UnwrittenStays, Ranges DEF buffer, flight, lost
  <2> QED
    BY <2>1, Stays
<1>2. CASE UNCHANGED vars
  BY <1>1, <1>2 DEF vars, history
<1>3. CASE Next
  <2>1. UNCHANGED backend /\ Step
    BY <1>3 DEF Next
  <2>2. ASSUME NEW t \in Tasks, Cancel(t) PROVE OrderInv'
    BY <2>1, <2>2, OrderCancel, OrderInterrupted DEF Cancel
  <2>3. CASE \E t \in Callers : Store(t) \/ Allocate(t) \/ CallFlush(t) \/ CallerCancelled(t)
    <3>1. PICK t \in Callers : Store(t) \/ Allocate(t) \/ CallFlush(t) \/ CallerCancelled(t)
      BY <2>3
    <3>2. t \in Tasks
      BY DEF Tasks
    <3>3. CASE CallFlush(t)
      BY <1>1, <2>1, <3>3 DEF CallFlush
    <3>4. CASE CallerCancelled(t)
      BY <2>2, <3>2, <3>4 DEF CallerCancelled
    <3> QED
      BY <2>1, <3>1, <3>3, <3>4, OrderStore
  <2>4. CASE \E t \in Tasks : FlushStep(t)
    BY <2>1, <2>4, OrderFlush, OrderWrite, OrderInterrupted DEF FlushStep
  <2>5. CASE \E f \in Flushers : FlusherStep(f) \/ FlusherCancelled(f)
    <3>1. PICK f \in Flushers : FlusherStep(f) \/ FlusherCancelled(f)
      BY <2>5
    <3>2. CASE FlusherStep(f)
      BY <1>1, <2>1, <3>2 DEF FlusherStep, FlusherCheck, FlusherWake, history
    <3>3. CASE FlusherCancelled(f)
      BY <2>2, <3>3 DEF FlusherCancelled, Tasks
    <3> QED
      BY <3>1, <3>2, <3>3
  <2>6. CASE CloseFlush
    BY <1>1, <2>1, <2>6 DEF CloseFlush
  <2>7. CASE CloseBegin
    <3>1. /\ UNCHANGED <<backend, accepted, persisted, lost, pending, idBlock>>
          /\ nextId <= nextId' /\ Unwritten' = Unwritten
      BY <2>1, <2>7, UnwrittenStays, Ranges DEF CloseBegin, flight, history, lost
    <3> QED
      BY <3>1, Stays
  <2> QED
    BY <2>1, <2>3, <2>4, <2>5, <2>6, <2>7, OrderCrash DEF Step
<1> QED
  BY <1>2, <1>3

(* OrderInv says what Conservation and GlobalOrder say, and more. *)
LEMMA OrderImplies == Typed /\ OrderInv => Conservation /\ GlobalOrder /\ DurablePrefix
<1> SUFFICES ASSUME Typed, OrderInv PROVE Conservation /\ GlobalOrder /\ DurablePrefix
  OBVIOUS
<1>1. ToSet(Unwritten) \cap ToSet(pending) = {}
  BY Ranges DEF OrderInv, IdsInOrder, Below
<1>2. Conservation
  BY <1>1 DEF Conservation, OrderInv, Accounted, Waiting
<1>3. Increasing(Unwritten \o pending)
  BY Ranges, IncreasingConcat DEF OrderInv, IdsInOrder, Below
<1>4. Unwritten \o pending \in Seq(Nat) /\ ToSet(Unwritten \o pending) \subseteq accepted
  BY Ranges, ConcatDef, ToSetConcat DEF OrderInv, Accounted, Waiting
<1>5. GlobalOrder
  BY <1>3, <1>4, Ranges, IncreasingConcat DEF GlobalOrder, OrderInv, Issued, IdsInOrder, Below
<1> QED
  BY <1>2, <1>5 DEF OrderInv

(* The strengthened invariant holds in every reachable state. *)
LEMMA OrderAlways == Spec => [](Typed /\ OrderInv)
<1>1. Init => Typed /\ OrderInv
  BY TypedInit, OrderInit
<1>2. Typed /\ OrderInv /\ [Next]_vars => (Typed /\ OrderInv)'
  BY TypedNext, OrderNext
<1> QED
  BY <1>1, <1>2, PTL DEF Spec

(* Every accepted id is persisted, in flight, buffered or lost, never two  *)
(* of the last three, and nothing else is written (batching.py:174-191).   *)
THEOREM NothingDisappears == Spec => []Conservation
<1>1. Typed /\ OrderInv => Conservation
  BY OrderImplies
<1> QED
  BY <1>1, OrderAlways, PTL

(* Failures that put a tail back, retries and concurrent appends keep the  *)
(* batch, the buffer and the unused ids in id order (batching.py:185-191). *)
THEOREM OrderSurvivesFailures == Spec => []GlobalOrder
<1>1. Typed /\ OrderInv => GlobalOrder
  BY OrderImplies
<1> QED
  BY <1>1, OrderAlways, PTL

(* With atomic or one-by-one writes the backend always holds a prefix of   *)
(* the accepted events, whatever fails, is cancelled or crashes.           *)
THEOREM PrefixDurable == Spec => []DurablePrefix
<1>1. Typed /\ OrderInv => DurablePrefix
  BY OrderImplies
<1> QED
  BY <1>1, OrderAlways, PTL

-------------------------------------------------------------------------------
(* flush() is a barrier and the store implements a write-behind log:       *)
(* proofs of FlushBarrier and LogSpec of Batching.                         *)
(*                                                                         *)
(* A task in flush() carries the ids it must see written.  Those it waits  *)
(* for can never return to the buffer behind its back: whoever holds       *)
(* _flush_lock took all of them, and puts them back only on leaving with   *)
(* an exception.                                                           *)

BarrierInv ==
    /\ \A t \in Tasks : due[t] \subseteq accepted /\ due[t] \cap crashLost = {}
    /\ \A t \in Tasks : InFlight(t) => due[t] \cap ToSet(pending) = {}
    /\ settled \subseteq accepted
    /\ FlushBarrier

LogStep == Log!LogNext \/ UNCHANGED <<accepted, persisted, lost, settled>>

(* What a step of task t may tell a caller. *)
Answers(t) ==
    \/ settled' = settled
    \/ /\ settled' = settled \cup due[t]
       /\ dropped' = dropped
       /\ due[t] \subseteq persisted' \cup dropped

-------------------------------------------------------------------------------
(* A step of one task that persists, loses or reports nothing wrongly. *)
LEMMA BarrierStep ==
    ASSUME Typed, OrderInv, OrderInv', BarrierInv, NEW t \in Tasks, OnlyMoves(t),
           crashLost' = crashLost, persisted \subseteq persisted',
           dropped \subseteq dropped', accepted \subseteq accepted',
           \A u \in Tasks \ {t} : due'[u] = due[u],
           due'[t] \subseteq accepted', due'[t] \cap crashLost = {},
           InFlight(t)' => due'[t] \cap ToSet(pending') = {},
           flushLock = t \/ ToSet(pending') \cap accepted \subseteq ToSet(pending),
           Answers(t),
           accepted' = accepted \/ Log!Accept
    PROVE  BarrierInv' /\ LogStep
<1>1. \A u \in Tasks : due'[u] \subseteq accepted' /\ due'[u] \cap crashLost' = {}
  BY DEF BarrierInv
<1>2. ASSUME NEW u \in Tasks \ {t}, InFlight(u)'
      PROVE  due'[u] \cap ToSet(pending') = {}
  <2>1. InFlight(u)
    BY <1>2 DEF OnlyMoves, InFlight
  <2>2. flushLock = u /\ u # t
    BY <1>2, <2>1 DEF Typed, StageInv
  <2>3. due[u] \cap ToSet(pending) = {} /\ due[u] \subseteq accepted
    BY <1>2, <2>1 DEF BarrierInv
  <2> QED
    BY <2>2, <2>3
<1>3. settled' \subseteq accepted'
  BY DEF Answers, BarrierInv
<1>4. FlushBarrier'
  BY DEF Answers, BarrierInv, FlushBarrier
<1>5. BarrierInv'
  BY <1>1, <1>2, <1>3, <1>4 DEF BarrierInv
<1>6. LogStep
  <2>1. CASE Log!Accept
    BY <2>1 DEF LogStep, Log!LogNext
  <2>2. CASE accepted' = accepted
    <3>1. /\ persisted' \subseteq accepted /\ lost' \subseteq accepted
          /\ lost' \cap persisted' = {} /\ lost \subseteq lost'
      BY <2>2 DEF OrderInv, Accounted, lost
    <3>2. CASE settled' = settled
      <4>1. Log!Lose
        BY <2>2, <3>1, <3>2 DEF Log!Lose
      <4> QED
        BY <4>1 DEF LogStep, Log!LogNext
    <3>3. CASE settled' = settled \cup due[t] /\ dropped' = dropped
      <4>1. lost' = lost /\ settled' \subseteq persisted' \cup lost
        BY <1>4, <3>3 DEF lost, FlushBarrier
      <4>2. Log!Persist
        BY <1>3, <2>2, <3>1, <3>3, <4>1 DEF Log!Persist
      <4> QED
        BY <4>2 DEF LogStep, Log!LogNext
    <3> QED
      BY <3>2, <3>3 DEF Answers
  <2> QED
    BY <2>1, <2>2
<1> QED
  BY <1>5, <1>6

(* A step that stores nothing and reports nothing, and changes the set a   *)
(* task waits for to nothing or to what may still become durable.          *)
LEMMA BarrierQuiet ==
    ASSUME Typed, OrderInv, OrderInv', BarrierInv, NEW t \in Tasks, OnlyMoves(t),
           UNCHANGED <<accepted, settled, crashLost>>,
           persisted \subseteq persisted', dropped \subseteq dropped',
           \/ due' = due
           \/ due' = [due EXCEPT ![t] = {}]
           \/ due' = [due EXCEPT ![t] = accepted \ lost] /\ ~InFlight(t)',
           flushLock = t \/ pending' = pending,
           InFlight(t)' => pending' \in {pending, <<>>} /\ (InFlight(t) \/ pending' = <<>>)
    PROVE  BarrierInv' /\ LogStep
<1>1. due \in [Tasks -> SUBSET Nat] /\ due[t] \subseteq accepted /\ due[t] \cap crashLost = {}
  BY DEF BarrierInv, Typed, TypeOK
<1>2. \A u \in Tasks \ {t} : due'[u] = due[u]
  BY <1>1
<1>3. due'[t] \in {due[t], {}} \/ (due'[t] = accepted \ lost /\ ~InFlight(t)')
  <2>1. CASE due' = due
    BY <2>1
  <2>2. CASE due' = [due EXCEPT ![t] = {}]
    BY <1>1, <2>2
  <2>3. CASE due' = [due EXCEPT ![t] = accepted \ lost] /\ ~InFlight(t)'
    BY <1>1, <2>3
  <2> QED
    BY <2>1, <2>2, <2>3
<1>4. due'[t] \subseteq accepted' /\ due'[t] \cap crashLost = {}
  BY <1>1, <1>3 DEF lost
<1>5. InFlight(t)' => due'[t] \cap ToSet(pending') = {}
  BY <1>3, EmptyFacts DEF BarrierInv
<1>6. flushLock = t \/ ToSet(pending') \cap accepted \subseteq ToSet(pending)
  OBVIOUS
<1>7. Answers(t)
  BY DEF Answers
<1> QED
  BY <1>2, <1>4, <1>5, <1>6, <1>7, BarrierStep

(* store_event appends a new id and waits for it when the batch is full. *)
LEMMA BarrierAppend ==
    ASSUME Typed, OrderInv, OrderInv', BarrierInv, NEW t \in Callers, NEW blk \in Seq(Nat),
           blk # <<>>, Append1(t, blk), \A x \in accepted : x < Head(blk),
           UNCHANGED <<persisted, settled, crashLost, dropped>>
    PROVE  BarrierInv' /\ LogStep
<1> DEFINE id == Head(blk)
<1>1. id \in Nat
  BY HeadFacts
<1>2. /\ pending' = Append(pending, id) /\ accepted' = accepted \cup {id}
      /\ due' = due \/ due' = [due EXCEPT ![t] = (accepted \ lost) \cup {id}]
  BY DEF Append1
<1>3. id \notin accepted
  BY <1>1, Ranges
<1>4. t \in Tasks /\ pc'[t] \in {"wait", "idle"} /\ OnlyMoves(t)
  BY Append1Types DEF Tasks, Typed
<1> HIDE DEF id
<1>5. due \in [Tasks -> SUBSET Nat]
  BY DEF Typed, TypeOK
<1>6. \A u \in Tasks \ {t} : due'[u] = due[u]
  BY <1>2, <1>4, <1>5
<1>7. due'[t] \in {due[t], (accepted \ lost) \cup {id}}
  BY <1>2, <1>4, <1>5
<1>8. id \notin crashLost
  BY <1>3 DEF OrderInv, Accounted, lost
<1>9. due'[t] \subseteq accepted' /\ due'[t] \cap crashLost = {}
  BY <1>2, <1>4, <1>7, <1>8 DEF BarrierInv, lost
<1>10. ToSet(pending') \cap accepted \subseteq ToSet(pending)
  <2>1. ToSet(pending') = ToSet(pending) \cup {id}
    BY <1>1, <1>2, AppendFacts, Ranges
  <2> QED
    BY <1>3, <2>1
<1>11. Answers(t) /\ ~InFlight(t)'
  BY <1>4 DEF Answers, InFlight
<1>12. Log!Accept
  <2>1. lost' = lost
    BY DEF lost
  <2> QED
    BY <1>2, <2>1 DEF Log!Accept, id
<1>13. accepted \subseteq accepted'
  BY <1>2
<1> QED
  BY <1>4, <1>6, <1>9, <1>10, <1>11, <1>12, <1>13, BarrierStep

-------------------------------------------------------------------------------
(* store_event *)
LEMMA BarrierStore ==
    ASSUME Typed, OrderInv, OrderInv', BarrierInv, NEW t \in Callers, Store(t) \/ Allocate(t)
    PROVE  BarrierInv' /\ LogStep
<1>0. t \in Tasks
  BY DEF Tasks
<1>1. CASE StoreFromBlock(t)
  <2>1. /\ idBlock # <<>> /\ Append1(t, idBlock) /\ idBlock \in Seq(Nat)
        /\ UNCHANGED <<persisted, settled, crashLost, dropped>>
    BY <1>1, Ranges DEF StoreFromBlock
  <2>2. \A x \in accepted : x < Head(idBlock)
    BY <2>1, HeadFacts DEF OrderInv, Issued, Below
  <2> QED
    BY <2>1, <2>2, BarrierAppend
<1>2. CASE StoreAwaitIds(t) \/ AllocateFail(t)
  <2>1. /\ pc' = [pc EXCEPT ![t] = "alloc"] \/ pc' = [pc EXCEPT ![t] = "idle"]
        /\ UNCHANGED <<accepted, settled, crashLost, persisted, dropped, due, pending>>
    BY <1>2 DEF StoreAwaitIds, AllocateFail, history, buffer
  <2>2. OnlyMoves(t) /\ ~InFlight(t)'
    BY <1>0, <2>1, Move DEF Stages, Typed, InFlight
  <2> QED
    BY <1>0, <2>1, <2>2, BarrierQuiet
<1>3. CASE AllocateOk(t)
  <2>1. PICK first \in nextId..(nextId + 1) : Append1(t, Block(first))
    BY <1>3 DEF AllocateOk
  <2>2. UNCHANGED <<persisted, settled, crashLost, dropped>>
    BY <1>3 DEF AllocateOk
  <2>3. first \in Nat /\ nextId <= first /\ nextId \in Nat
    BY <2>1, Ranges
  <2>4. /\ Block(first) \in Seq(Nat) /\ Block(first) # <<>>
        /\ \A x \in ToSet(Block(first)) : first <= x
    BY <2>3, BlockFacts
  <2>5. Head(Block(first)) \in Nat /\ first <= Head(Block(first))
    BY <2>4, HeadFacts
  <2>6. \A x \in accepted : x < Head(Block(first))
    <3>1. \A x \in accepted : x \in Nat /\ x < nextId
      BY Ranges DEF OrderInv, Issued
    <3> QED
      BY <2>3, <2>5, <3>1
  <2> QED
    BY <2>1, <2>2, <2>4, <2>6, BarrierAppend
<1> QED
  BY <1>1, <1>2, <1>3 DEF Store, Allocate

(* Calls of flush() and its first steps. *)
LEMMA BarrierEnter ==
    ASSUME Typed, OrderInv, OrderInv', BarrierInv, NEW t \in Tasks,
           \/ CallFlush(t) \/ EnterFlush(t) \/ TakeBatch(t)
           \/ t \in Flushers /\ (FlusherCheck(t) \/ FlusherWake(t))
    PROVE  BarrierInv' /\ LogStep
<1>1. CASE CallFlush(t) \/ EnterFlush(t) \/ (t \in Flushers /\ (FlusherCheck(t) \/ FlusherWake(t)))
  <2>1. PICK v \in {"wait", "take", "sleep", "dead"} :
           /\ pc' = [pc EXCEPT ![t] = v]
           /\ UNCHANGED <<buffer, persisted, accepted, settled, crashLost, dropped>>
           /\ due' = due \/ due' = [due EXCEPT ![t] = accepted \ lost]
    BY <1>1 DEF CallFlush, EnterFlush, FlusherCheck, FlusherWake, history
  <2>2. OnlyMoves(t) /\ ~InFlight(t)'
    BY <2>1, Move DEF Stages, FlushStages, Typed, InFlight
  <2>3. pending' = pending
    BY <2>1 DEF buffer
  <2> QED
    BY <2>1, <2>2, <2>3, BarrierQuiet
<1>2. CASE TakeBatch(t)
  <2>1. /\ pc' = [pc EXCEPT ![t] = "write"] /\ pending' = <<>> /\ pc[t] = "take"
        /\ UNCHANGED <<persisted, accepted, settled, crashLost, dropped, due>>
    BY <1>2 DEF TakeBatch, history
  <2>2. OnlyMoves(t) /\ flushLock = t
    BY <2>1, Move DEF Stages, FlushStages, Typed, StageInv
  <2> QED
    BY <2>1, <2>2, BarrierQuiet
<1> QED
  BY <1>1, <1>2

(* A flush that returns: nothing its caller waits for is in the buffer any *)
(* more, so it is in the backend or was given up.                          *)
LEMMA BarrierReturn ==
    ASSUME Typed, OrderInv, OrderInv', BarrierInv, NEW t \in Tasks, OnlyMoves(t),
           ReturnFromFlush(t), flushLock = t,
           pc'[t] = AfterReturn(t), due[t] \cap ToSet(pending) = {},
           ToSet(Unwritten) \subseteq persisted', persisted \subseteq persisted',
           UNCHANGED <<accepted, crashLost, dropped>>
    PROVE  BarrierInv' /\ LogStep
<1>1. due \in [Tasks -> SUBSET Nat] /\ due[t] \subseteq accepted /\ due[t] \cap crashLost = {}
  BY DEF BarrierInv, Typed, TypeOK
<1>2. due[t] \subseteq persisted' \cup dropped
  BY <1>1 DEF OrderInv, Accounted, Waiting, lost
<1>3. settled' = settled \cup due[t] /\ due' = [due EXCEPT ![t] = {}]
  BY DEF ReturnFromFlush, LeaveFlush
<1>4. due'[t] = {} /\ \A u \in Tasks \ {t} : due'[u] = due[u]
  BY <1>1, <1>3
<1>5. Answers(t)
  BY <1>2, <1>3 DEF Answers
<1>6. ~InFlight(t)'
  BY AfterFlushFacts DEF InFlight
<1> QED
  BY <1>4, <1>5, <1>6, BarrierStep

(* The steps that may end a flush normally. *)
LEMMA BarrierEnd ==
    ASSUME Typed, OrderInv, OrderInv', BarrierInv, NEW t \in Tasks,
           TakeNothing(t) \/ WriteOk(t) \/ Finish(t)
    PROVE  BarrierInv' /\ LogStep
<1>1. CASE TakeNothing(t)
  <2>1. /\ pc[t] = "take" /\ pending = <<>> /\ ReturnFromFlush(t)
        /\ pc' = [pc EXCEPT ![t] = AfterReturn(t)]
        /\ UNCHANGED <<persisted, accepted, crashLost, dropped>>
    BY <1>1 DEF TakeNothing
  <2>2. AfterReturn(t) \in Stages
    BY AfterFlushFacts DEF Stages
  <2>3. OnlyMoves(t) /\ pc'[t] = AfterReturn(t) /\ flushLock = t
    BY <2>1, <2>2, Move DEF Typed, StageInv
  <2>4. Unwritten = <<>>
    <3>1. \A u \in Tasks : ~InFlight(u)
      BY <2>1, <2>3 DEF Typed, StageInv, InFlight
    <3> QED
      BY <3>1, NothingUnwritten DEF Typed, StageInv
  <2>5. ToSet(Unwritten) \subseteq persisted' /\ due[t] \cap ToSet(pending) = {}
    BY <2>1, <2>4, EmptyFacts
  <2> QED
    BY <2>1, <2>3, <2>5, BarrierReturn
<1>2. CASE WriteOk(t)
  <2> DEFINE n == IF Bulk THEN Len(batch) ELSE written + 1
             S == IF Bulk THEN ToSet(batch) ELSE {batch[written + 1]}
  <2>1. /\ pc[t] = "write" /\ flushLock = t /\ n \in Nat /\ written < n
        /\ persisted' = persisted \cup S
        /\ UNCHANGED <<pending, accepted, crashLost, dropped>>
        /\ \/ n < Len(batch) /\ UNCHANGED <<pc, due, settled>>
           \/ n = Len(batch) /\ FinishFlush(t)
           \/ pc' = [pc EXCEPT ![t] = "finish"] /\ UNCHANGED <<due, settled>>
    BY <1>2, WriteOkFacts
  <2>2. due[t] \cap ToSet(pending) = {}
    BY <2>1 DEF BarrierInv, InFlight
  <2>3. CASE n < Len(batch) /\ UNCHANGED <<pc, due, settled>>
    <3>1. OnlyMoves(t)
      BY <2>3 DEF OnlyMoves
    <3> HIDE DEF n, S
    <3> QED
      BY <2>1, <2>3, <3>1, BarrierQuiet DEF InFlight
  <2>4. CASE pc' = [pc EXCEPT ![t] = "finish"] /\ UNCHANGED <<due, settled>>
    <3>1. OnlyMoves(t)
      BY <2>4, Move DEF Stages, FlushStages, Typed
    <3> HIDE DEF n, S
    <3> QED
      BY <2>1, <2>4, <3>1, BarrierQuiet DEF InFlight
  <2>5. CASE n = Len(batch) /\ FinishFlush(t)
    <3>1. OnlyMoves(t) /\ pc'[t] = AfterReturn(t) /\ ReturnFromFlush(t)
      BY <2>1, <2>5, FinishTypes DEF Typed, FinishFlush
    <3>2. ToSet(Unwritten) \subseteq S
      <4>1. CASE Bulk
        BY <2>1, <4>1, AppliedFacts
      <4>2. CASE ~Bulk
        <5>1. written < Len(batch) /\ written + 1 = Len(batch)
          BY <2>1, <2>5, <4>2
        <5>2. /\ Unwritten # <<>> /\ Head(Unwritten) = batch[written + 1]
              /\ Tail(Unwritten) = SubSeq(batch, written + 1 + 1, Len(batch))
          BY <5>1, UnwrittenHead
        <5>3. Tail(Unwritten) = <<>>
          BY <5>1, <5>2, Ranges
        <5>4. ToSet(Unwritten) = {Head(Unwritten)} \cup ToSet(Tail(Unwritten))
          BY <5>2, HeadFacts, Ranges
        <5>5. ToSet(Unwritten) = {batch[written + 1]}
          BY <5>2, <5>3, <5>4, EmptyFacts
        <5> QED
          BY <4>2, <5>5
      <4> QED
        BY <4>1, <4>2
    <3> HIDE DEF n, S
    <3>3. ToSet(Unwritten) \subseteq persisted' /\ persisted \subseteq persisted'
      BY <2>1, <3>2
    <3> QED
      BY <2>1, <2>2, <3>1, <3>3, BarrierReturn
  <2> QED
    BY <2>1, <2>3, <2>4, <2>5
<1>3. CASE Finish(t)
  <2>1. /\ pc[t] = "finish" /\ FinishFlush(t) /\ ReturnFromFlush(t)
        /\ UNCHANGED <<pending, persisted, accepted, crashLost, dropped>>
    BY <1>3 DEF Finish, FinishFlush
  <2>2. flushLock = t /\ OnlyMoves(t) /\ pc'[t] = AfterReturn(t)
    BY <2>1, FinishTypes DEF Typed, StageInv, InFlight
  <2>3. due[t] \cap ToSet(pending) = {}
    BY <2>1 DEF BarrierInv, InFlight
  <2>4. Unwritten = <<>>
    <3>1. written = Len(batch)
      BY <2>1 DEF Typed, StageInv
    <3>2. SubSeq(batch, Len(batch) + 1, Len(batch)) = <<>>
      BY Ranges
    <3> QED
      BY <3>1, <3>2 DEF Unwritten
  <2>5. ToSet(Unwritten) \subseteq persisted'
    BY <2>4, EmptyFacts
  <2> QED
    BY <2>1, <2>2, <2>3, <2>5, BarrierReturn
<1> QED
  BY <1>1, <1>2, <1>3

(* A flush that is interrupted, and one that puts its tail back later. *)
LEMMA BarrierBack ==
    ASSUME Typed, OrderInv, OrderInv', BarrierInv, NEW t \in Tasks,
           WriteFail(t) \/ CancelInWrite(t) \/ Requeue(t)
    PROVE  BarrierInv' /\ LogStep
<1>0. /\ AfterError(t) \in Stages /\ AfterError(t) \in {"check", "idle"}
      /\ AfterCancel(t) \in Stages /\ AfterCancel(t) \in {"dead", "idle"}
  BY AfterFlushFacts DEF Stages
<1>1. CASE WriteFail(t) \/ CancelInWrite(t)
  <2>1. PICK stage \in {"requeue", "unwind"}, after \in {AfterError(t), AfterCancel(t)} :
           pc[t] = "write" /\ Interrupted(t, stage, after)
    BY <1>1 DEF WriteFail, CancelInWrite
  <2>2. UNCHANGED <<accepted, settled, crashLost, dropped>> /\ persisted \subseteq persisted'
    BY <2>1 DEF Interrupted
  <2>3. flushLock = t
    BY <2>1 DEF Typed, StageInv, InFlight
  <2>4. CASE lock = NoTask
    <3>1. LeaveFlush(t) /\ pc' = [pc EXCEPT ![t] = after]
      BY <2>1, <2>4 DEF Interrupted
    <3>2. OnlyMoves(t) /\ pc'[t] = after
      BY <1>0, <3>1, Move DEF Typed
    <3>3. ~InFlight(t)'
      BY <1>0, <3>2 DEF InFlight
    <3> QED
      BY <2>2, <2>3, <3>1, <3>2, <3>3, BarrierQuiet DEF LeaveFlush
  <2>5. CASE lock # NoTask
    <3>1. pc' = [pc EXCEPT ![t] = stage] /\ UNCHANGED <<pending, due>>
      BY <2>1, <2>5 DEF Interrupted
    <3>2. OnlyMoves(t)
      BY <3>1, Move DEF Stages, FlushStages, Typed
    <3>3. InFlight(t)
      BY <2>1 DEF InFlight
    <3> QED
      BY <2>2, <2>3, <3>1, <3>2, <3>3, BarrierQuiet
  <2> QED
    BY <2>4, <2>5
<1>2. CASE Requeue(t)
  <2>1. /\ pc[t] \in {"requeue", "unwind"} /\ LeaveFlush(t)
        /\ UNCHANGED <<accepted, settled, crashLost, dropped, persisted>>
    BY <1>2 DEF Requeue
  <2>2. PICK after \in {AfterError(t), AfterCancel(t)} : pc' = [pc EXCEPT ![t] = after]
    BY <1>2 DEF Requeue
  <2>3. flushLock = t
    BY <2>1 DEF Typed, StageInv, InFlight
  <2>4. OnlyMoves(t) /\ pc'[t] = after
    BY <1>0, <2>2, Move DEF Typed
  <2>5. ~InFlight(t)'
    BY <1>0, <2>4 DEF InFlight
  <2> QED
    BY <2>1, <2>3, <2>4, <2>5, BarrierQuiet DEF LeaveFlush
<1> QED
  BY <1>1, <1>2

(* A cancelled task waits for nothing any more. *)
LEMMA BarrierCancel ==
    ASSUME Typed, OrderInv, OrderInv', BarrierInv, NEW t \in Tasks,
           CancelInAlloc(t) \/ CancelOutsideWrite(t)
    PROVE  BarrierInv' /\ LogStep
<1>1. PICK v \in {"idle", AfterCancel(t)} : pc' = [pc EXCEPT ![t] = v]
  BY DEF CancelInAlloc, CancelOutsideWrite
<1>2. v \in Stages /\ v \in {"dead", "idle"}
  BY <1>1, AfterFlushFacts DEF Stages
<1>3. OnlyMoves(t) /\ ~InFlight(t)'
  BY <1>1, <1>2, Move DEF Typed, InFlight
<1>4. /\ UNCHANGED <<accepted, settled, crashLost, pending, persisted>>
      /\ dropped \subseteq dropped'
      /\ due' = due \/ due' = [due EXCEPT ![t] = {}]
  BY DEF CancelInAlloc, CancelOutsideWrite, GiveUpBatch, buffer, history
<1> QED
  BY <1>3, <1>4, BarrierQuiet

(* aclose() *)
LEMMA BarrierClose ==
    ASSUME Typed, OrderInv, OrderInv', BarrierInv, CloseBegin \/ CloseFlush
    PROVE  BarrierInv' /\ LogStep
<1>1. PICK v \in {"join", "wait"} :
         /\ pc' = [pc EXCEPT ![Closer] = v]
         /\ UNCHANGED <<pending, persisted, accepted, settled, crashLost, dropped>>
         /\ due' = due \/ due' = [due EXCEPT ![Closer] = accepted \ lost]
  BY DEF CloseBegin, CloseFlush, history, buffer
<1>2. Closer \in Tasks
  BY DEF Tasks
<1>3. OnlyMoves(Closer) /\ ~InFlight(Closer)'
  BY <1>1, <1>2, Move DEF Stages, FlushStages, Typed, InFlight
<1> QED
  BY <1>1, <1>2, <1>3, BarrierQuiet

(* After a crash nobody waits. *)
LEMMA BarrierCrash ==
    ASSUME Typed, OrderInv, OrderInv', BarrierInv, Crash
    PROVE  BarrierInv' /\ LogStep
<1>1. /\ \A t \in Tasks : due'[t] = {}
      /\ UNCHANGED <<accepted, settled, dropped>>
      /\ persisted \subseteq persisted' /\ crashLost \subseteq crashLost'
  BY DEF Crash
<1>2. BarrierInv'
  BY <1>1 DEF BarrierInv, FlushBarrier
<1>3. /\ persisted' \subseteq accepted /\ lost' \subseteq accepted
      /\ lost' \cap persisted' = {} /\ lost \subseteq lost'
  BY <1>1 DEF OrderInv, Accounted, lost
<1>4. Log!Lose
  BY <1>1, <1>3 DEF Log!Lose
<1> QED
  BY <1>2, <1>4 DEF LogStep, Log!LogNext

-------------------------------------------------------------------------------
(* Initially nobody was told anything. *)
LEMMA BarrierInit == Init => BarrierInv /\ Log!LogInit
BY DEF Init, BarrierInv, FlushBarrier, InFlight, lost, Log!LogInit

(* Every step keeps the barrier and is a step of the abstract log. *)
LEMMA BarrierNext ==
    Typed /\ OrderInv /\ OrderInv' /\ BarrierInv /\ [Next]_vars => BarrierInv' /\ LogStep
<1> SUFFICES ASSUME Typed, OrderInv, OrderInv', BarrierInv, [Next]_vars
             PROVE  BarrierInv' /\ LogStep
  OBVIOUS
<1>1. CASE UNCHANGED vars
  <2>1. BarrierInv'
    BY <1>1 DEF vars, tasks, buffer, history, BarrierInv, FlushBarrier, InFlight
  <2>2. UNCHANGED <<accepted, persisted, lost, settled>>
    BY <1>1 DEF vars, history, lost
  <2> QED
    BY <2>1, <2>2 DEF LogStep
<1>2. CASE Next
  <2>1. ASSUME NEW t \in Tasks, Cancel(t) PROVE BarrierInv' /\ LogStep
    BY <2>1, BarrierCancel, BarrierBack DEF Cancel
  <2>2. CASE \E t \in Callers : Store(t) \/ Allocate(t) \/ CallFlush(t) \/ CallerCancelled(t)
    <3>1. PICK t \in Callers : Store(t) \/ Allocate(t) \/ CallFlush(t) \/ CallerCancelled(t)
      BY <2>2
    <3>2. t \in Tasks
      BY DEF Tasks
    <3>3. CASE CallFlush(t)
      BY <3>2, <3>3, BarrierEnter
    <3>4. CASE CallerCancelled(t)
      BY <2>1, <3>2, <3>4 DEF CallerCancelled
    <3> QED
      BY <3>1, <3>3, <3>4, BarrierStore
  <2>3. CASE \E t \in Tasks : FlushStep(t)
    BY <2>3, BarrierEnter, BarrierEnd, BarrierBack DEF FlushStep
  <2>4. CASE \E f \in Flushers : FlusherStep(f) \/ FlusherCancelled(f)
    <3>1. PICK f \in Flushers : FlusherStep(f) \/ FlusherCancelled(f)
      BY <2>4
    <3>2. f \in Tasks
      BY DEF Tasks
    <3>3. CASE FlusherStep(f)
      BY <3>2, <3>3, BarrierEnter DEF FlusherStep
    <3>4. CASE FlusherCancelled(f)
      BY <2>1, <3>2, <3>4 DEF FlusherCancelled
    <3> QED
      BY <3>1, <3>3, <3>4
  <2> QED
    BY <1>2, <2>2, <2>3, <2>4, BarrierClose, BarrierCrash DEF Next, Step
<1> QED
  BY <1>1, <1>2

(* The whole strengthened invariant. *)
LEMMA BarrierAlways == Spec => [](Typed /\ OrderInv /\ BarrierInv)
<1>1. Init => Typed /\ OrderInv /\ BarrierInv
  BY TypedInit, OrderInit, BarrierInit
<1>2. Typed /\ OrderInv /\ BarrierInv /\ [Next]_vars => (Typed /\ OrderInv /\ BarrierInv)'
  BY TypedNext, OrderNext, BarrierNext
<1> QED
  BY <1>1, <1>2, PTL DEF Spec

(* A flush() that returned has everything accepted before its call in the  *)
(* backend, short of batches given up by a twice cancelled flush.          *)
THEOREM FlushIsBarrier == Spec => []FlushBarrier
<1>1. BarrierInv => FlushBarrier
  BY DEF BarrierInv
<1> QED
  BY <1>1, BarrierAlways, PTL

(* The batching store implements the write-behind log.                     *)
THEOREM ImplementsLog == Spec => LogSpec
<1>1. Init => Log!LogInit
  BY BarrierInit
<1>2. Typed /\ OrderInv /\ BarrierInv /\ [Next]_vars
         => Log!LogNext \/ UNCHANGED <<accepted, persisted, lost, settled>>
  BY TypedNext, OrderNext, BarrierNext DEF LogStep
<1>3. Typed /\ OrderInv /\ BarrierInv /\ [Next]_vars => [Log!LogNext]_(Log!logVars)
  BY <1>2 DEF Log!logVars
<1> QED
  BY <1>1, <1>3, BarrierAlways, PTL DEF Spec, LogSpec, Log!LogSpec

===============================================================================
