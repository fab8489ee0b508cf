----------------------------- MODULE StreamBuffer -----------------------------
(***************************************************************************)
(* StreamBuffer (src/src/mcp_persist/_stream_buffer.py): one upstream SSE  *)
(* stream, whose frames a background task stores and appends to a bounded  *)
(* window, and from which any number of clients read, each from the last   *)
(* event id it saw: cold from the store where the window no longer         *)
(* reaches, else from the window, parked when there is nothing to read.    *)
(*                                                                         *)
(* A step is what a task does between two awaits or yields.  The store is  *)
(* shared by all streams and numbers their events in one sequence, so an   *)
(* event's id is its position in it.                                       *)
(***************************************************************************)
EXTENDS Naturals, FiniteSets, SequencesExt, OrderedSequences

CONSTANTS
    Consumers,    \* clients that read the stream
    MaxLen,       \* maxlen of the live window
    MaxId,        \* bound: events in the store
    MaxConnects   \* bound: connections of one client

ASSUME WindowAssumption ==
    /\ MaxLen \in Nat \ {0}
    /\ MaxId \in Nat /\ MaxConnects \in Nat

VARIABLES
    log,        \* the store: of each event, is it this stream's, is it a message
    window,     \* _deque: ids of the newest events of this stream
    task,       \* where _consume() stands; "ended" is done = True
    failed,     \* _exc is not None
    frame,      \* is the frame being stored a message (else a priming event)
    taken,      \* id the store gave it
    pc,         \* where each consume_from() stands
    cursor,     \* its `cursor', 0 for None: also the client's Last-Event-ID
    items,      \* what it has still to yield of a replay or of a window snapshot
    delivered,  \* history: ids the client received, over all its connections
    owed,       \* history: the client is owed every message above this id, 0: none yet
    behind,     \* history: frames appended since the store answered its replay (to MaxLen + 1)
    overrun,    \* history: more than a window of frames came in during such a wait
    connects

producer == <<log, window, task, failed, frame, taken>>
reading  == <<cursor, items, delivered, owed, overrun>>
vars     == <<producer, pc, reading, behind, connects>>

Connected == {"top", "yield", "asking", "answered", "parked"}
Released  == {"away", "returned", "raised"}

done == task = "ended"

Init ==
    /\ \E n \in 0..1 : log \in [1..n -> [own : BOOLEAN, msg : {TRUE}]]
    /\ window = <<>> /\ task = "reading" /\ failed = FALSE
    /\ frame = FALSE /\ taken = 0
    /\ pc = [c \in Consumers |-> "away"]
    /\ cursor = [c \in Consumers |-> 0]
    /\ items = [c \in Consumers |-> <<>>]
    /\ delivered = [c \in Consumers |-> <<>>]
    /\ owed = [c \in Consumers |-> 0]
    /\ behind = [c \in Consumers |-> 0]
    /\ overrun = [c \in Consumers |-> FALSE]
    /\ connects = [c \in Consumers |-> 0]

-------------------------------------------------------------------------------
(* The producer: _consume(), _ingest() *)

(* Mutant of Notify: the waiters are left parked. *)
NotifyNobody == pc' = pc

(* _notify() resolves every waiter; its consumer starts another pass. *)
Notify == pc' = [c \in Consumers |-> IF pc[c] = "parked" THEN "top" ELSE pc[c]]

(* Mutant of Push: the window is not bounded. *)
PushUnbounded(id) == window' = Append(window, id)

(* deque(maxlen): the oldest entry falls out of a full window. *)
Push(id) == window' = Append(IF Len(window) = MaxLen THEN Tail(window) ELSE window, id)

(* A frame arrives; _ingest() skips one it cannot parse, else stores it. *)
Frame ==
    /\ task = "reading"
    /\ task' = "storing"
    /\ frame' \in BOOLEAN
    /\ UNCHANGED <<log, window, failed, taken, pc, reading, behind, connects>>

(* The store takes it, before store_event() answers. *)
Commit ==
    /\ task = "storing"
    /\ Len(log) < MaxId
    /\ log' = Append(log, [own |-> TRUE, msg |-> frame])
    /\ taken' = Len(log) + 1
    /\ task' = "stored"
    /\ UNCHANGED <<window, failed, frame, pc, reading, behind, connects>>

(* store_event() answers: the event enters the window. *)
Ingested ==
    /\ task = "stored"
    /\ Push(taken)
    /\ Notify
    /\ task' = "reading" /\ frame' = FALSE /\ taken' = 0
    /\ behind' = [c \in Consumers |-> IF pc[c] = "answered" /\ behind[c] <= MaxLen
                                      THEN behind[c] + 1 ELSE behind[c]]
    /\ UNCHANGED <<log, failed, reading, connects>>

(* The upstream ends or fails, the store raises (the event it was given    *)
(* may be stored all the same), or aclose() cancels the task.              *)
Ended ==
    /\ task # "ended"
    /\ task' = "ended" /\ frame' = FALSE /\ taken' = 0
    /\ failed' \in BOOLEAN
    /\ Notify
    /\ UNCHANGED <<log, window, reading, behind, connects>>

(* Another stream of the same store takes an id. *)
OtherStream ==
    /\ Len(log) < MaxId
    /\ log' = Append(log, [own |-> FALSE, msg |-> TRUE])
    /\ UNCHANGED <<window, task, failed, frame, taken, pc, reading, behind, connects>>

-------------------------------------------------------------------------------
(* A consumer: consume_from() *)

(* Mutant of ColdNeeded: the window is trusted whenever it holds anything. *)
ColdWhenEmpty(c) == cursor[c] # 0 /\ window = <<>>

(* _cold_needed(): the window does not reach back to the cursor. *)
ColdNeeded(c) ==
    /\ cursor[c] # 0
    /\ window = <<>> \/ cursor[c] < Head(window)

(* Mutant of Replay: whatever stream the cursor is of is replayed. *)
ReplayAny(c) ==
    Ascending({i \in DOMAIN log : i > cursor[c] /\ log[i].msg /\ log[i].own = log[cursor[c]].own})

(* replay_events_after(): the messages of the cursor's stream behind it,   *)
(* refused when that is another stream; priming events are not replayed.   *)
Replay(c) ==
    IF ~log[cursor[c]].own THEN <<>>
    ELSE Ascending({i \in DOMAIN log : i > cursor[c] /\ log[i].msg /\ log[i].own})

(* The client gets the first of the ids `next' of the pass it is in. *)
Yield(c, next) ==
    LET id == Head(next) IN
    /\ delivered' = [delivered EXCEPT ![c] = Append(@, id)]
    /\ cursor' = [cursor EXCEPT ![c] = id]
    /\ owed' = [owed EXCEPT ![c] = IF @ = 0 THEN id ELSE @]
    /\ items' = [items EXCEPT ![c] = Tail(next)]
    /\ pc' = [pc EXCEPT ![c] = IF Tail(next) = <<>> THEN "top" ELSE "yield"]

(* Mutant of Newer: the cursor is not looked at. *)
WholeWindow(c) == window

(* The events of the window a client at this cursor has not seen. *)
Newer(c) == Picked(window, {n \in DOMAIN window : window[n] > cursor[c]})

(* Read the window; with nothing new, end with the stream or park. *)
ReadWindow(c) ==
    IF Newer(c) # <<>> THEN Yield(c, Newer(c))
    ELSE /\ pc' = [pc EXCEPT ![c] = IF ~done THEN "parked"
                                    ELSE IF failed THEN "raised" ELSE "returned"]
         /\ UNCHANGED <<cursor, items, delivered, owed>>

(* A client connects: again with the id it saw last, or for the first time *)
(* without one, with one it saw on some stream, or with a malformed one,   *)
(* which stands for the newest event of the window.                        *)
Connect(c) ==
    /\ pc[c] \in Released
    /\ connects[c] < MaxConnects
    /\ connects' = [connects EXCEPT ![c] = @ + 1]
    /\ cursor' \in { [cursor EXCEPT ![c] = id] :
                        id \in IF cursor[c] # 0 THEN {cursor[c]}
                               ELSE {0} \cup DOMAIN log
                                        \cup (IF window = <<>> THEN {} ELSE {Last(window)}) }
    /\ owed' = [owed EXCEPT ![c] = IF @ = 0 /\ cursor'[c] # 0 /\ log[cursor'[c]].own
                                   THEN cursor'[c] ELSE @]
    /\ pc' = [pc EXCEPT ![c] = "top"]
    /\ UNCHANGED <<producer, items, delivered, overrun, behind>>

(* A pass starts: ask the store when the window does not reach back. *)
Pass(c) ==
    /\ pc[c] = "top"
    /\ IF ColdNeeded(c)
       THEN /\ pc' = [pc EXCEPT ![c] = "asking"]
            /\ UNCHANGED <<cursor, items, delivered, owed>>
       ELSE ReadWindow(c)
    /\ UNCHANGED <<producer, overrun, behind, connects>>

(* The client takes the next event of the pass. *)
YieldNext(c) ==
    /\ pc[c] = "yield"
    /\ Yield(c, items[c])
    /\ UNCHANGED <<producer, overrun, behind, connects>>

(* The store reads; the consumer has yet to be scheduled with the answer. *)
Answer(c) ==
    /\ pc[c] = "asking"
    /\ items' = [items EXCEPT ![c] = Replay(c)]
    /\ pc' = [pc EXCEPT ![c] = "answered"]
    /\ UNCHANGED <<producer, cursor, delivered, owed, overrun, behind, connects>>

(* The consumer goes on with the answer; an empty one means caught up. *)
Resume(c) ==
    /\ pc[c] = "answered"
    /\ IF items[c] # <<>>
       THEN Yield(c, items[c]) /\ UNCHANGED overrun
       ELSE /\ ReadWindow(c)
            /\ overrun' = [overrun EXCEPT ![c] = @ \/ behind[c] > MaxLen]
    /\ behind' = [behind EXCEPT ![c] = 0]
    /\ UNCHANGED <<producer, connects>>

(* The replay raises: so does consume_from(). *)
ReplayFails(c) ==
    /\ pc[c] = "asking"
    /\ pc' = [pc EXCEPT ![c] = "raised"]
    /\ UNCHANGED <<producer, reading, behind, connects>>

(* The client disconnects and its generator is closed. *)
Leave(c) ==
    /\ pc[c] \in Connected
    /\ pc' = [pc EXCEPT ![c] = "away"]
    /\ items' = [items EXCEPT ![c] = <<>>]
    /\ behind' = [behind EXCEPT ![c] = 0]
    /\ UNCHANGED <<producer, cursor, delivered, owed, overrun, connects>>

-------------------------------------------------------------------------------
Read(c) == Pass(c) \/ YieldNext(c) \/ Answer(c) \/ Resume(c)

Next ==
    \/ Frame \/ Commit \/ Ingested \/ Ended \/ OtherStream
    \/ \E c \in Consumers : Connect(c) \/ Read(c) \/ ReplayFails(c) \/ Leave(c)

Spec == Init /\ [][Next]_vars

(* A connected client keeps reading, and the store answers. *)
Fairness == \A c \in Consumers : WF_vars(Read(c))

FairSpec == Spec /\ Fairness

-------------------------------------------------------------------------------
(* Properties *)

(* Every variable holds a value of its kind, and the window its bound. *)
TypeOK ==
    /\ log \in Seq([own : BOOLEAN, msg : BOOLEAN]) /\ Len(log) <= MaxId + 1
    /\ window \in Seq(Nat) /\ Len(window) <= MaxLen
    /\ task \in {"reading", "storing", "stored", "ended"}
    /\ failed \in BOOLEAN /\ frame \in BOOLEAN /\ taken \in Nat
    /\ pc \in [Consumers -> Connected \cup Released]
    /\ cursor \in [Consumers -> Nat] /\ owed \in [Consumers -> Nat]
    /\ items \in [Consumers -> Seq(Nat)] /\ delivered \in [Consumers -> Seq(Nat)]
    /\ behind \in [Consumers -> Nat] /\ connects \in [Consumers -> Nat]
    /\ overrun \in [Consumers -> BOOLEAN]

(* A client receives each event at most once and in the order of the ids,  *)
(* through replays, window reads, evictions and reconnects, and none of    *)
(* another stream, whatever id it resumed from                             *)
(* (_stream_buffer.py:186-237).                                            *)
OnceInOrder ==
    \A c \in Consumers :
        /\ Increasing(delivered[c])
        /\ \A id \in ToSet(delivered[c]) : log[id].own

Skips(c) ==
    \E id \in (owed[c] + 1)..cursor[c] :
        log[id].own /\ log[id].msg /\ id \notin ToSet(delivered[c])

(* A client that resumed from an event of this stream, or has received its *)
(* first one, misses no message, unless more than maxlen frames came in    *)
(* while it waited for one empty replay (_stream_buffer.py:163-165).       *)
NoSkipWithinWindow ==
    \A c \in Consumers : owed[c] # 0 /\ ~overrun[c] => ~Skips(c)

(* Whoever is still reading when the stream ends is let go: no consumer    *)
(* stays parked on it (_stream_buffer.py:119-123).                         *)
EveryoneReleased == \A c \in Consumers : done ~> pc[c] \in Released
===============================================================================
