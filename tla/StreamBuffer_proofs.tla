-------------------------- MODULE StreamBuffer_proofs --------------------------
(***************************************************************************)
(* Proofs about StreamBuffer, for any number of clients, any size of the   *)
(* window, and with no bound on events and connections.                    *)
(*                                                                         *)
(* What a client misses can only lie between its cursor and the next event *)
(* it is given.  The proof keeps track of three things that close that gap:*)
(* the window holds every event of the stream between its ends, what a     *)
(* pass has still to yield holds every message up to its last one, and an  *)
(* empty replay leaves only frames that came in since, which are still in  *)
(* the window unless more than maxlen of them did.                         *)
(***************************************************************************)
EXTENDS StreamBuffer, OrderedSequences_proofs

Events == [own : BOOLEAN, msg : BOOLEAN]
Own(id) == id \in DOMAIN log /\ log[id].own
Message(id) == Own(id) /\ log[id].msg

(* The window is in order, without a gap, and ends with the newest frame   *)
(* that was ingested; only the first event may be older than the buffer.   *)
WindowSound ==
    /\ Increasing(window) /\ \A x \in ToSet(window) : Own(x)
    /\ \A x, y \in ToSet(window), id \in DOMAIN log : x <= id /\ id <= y /\ Own(id) => id \in ToSet(window)
    /\ \A id \in DOMAIN log : Own(id) /\ id > 1 /\ (\A x \in ToSet(window) : x < id) =>
           task = "ended" \/ (task = "stored" /\ id = taken)
    /\ task = "stored" => Own(taken) /\ \A x \in ToSet(window) : x < taken

(* What a client received lies at or below its cursor, what it is still to *)
(* be given lies above.                                                    *)
ReadingSound(c) ==
    /\ cursor[c] \in 0..Len(log)
    /\ Increasing(delivered[c]) /\ \A x \in ToSet(delivered[c]) : Own(x) /\ x <= cursor[c]
    /\ Increasing(items[c]) /\ \A x \in ToSet(items[c]) : Own(x) /\ x > cursor[c]
    /\ items[c] # <<>> => pc[c] \in {"yield", "answered"}
    /\ pc[c] = "yield" => items[c] # <<>>
    /\ pc[c] \in {"asking", "answered"} => cursor[c] # 0
    /\ pc[c] # "answered" => behind[c] = 0

(* The ids in `next' leave out no message between the cursor and the last. *)
Chain(c, next) ==
    \A x \in ToSet(next), id \in DOMAIN log : cursor[c] < id /\ id < x /\ Message(id) => id \in ToSet(next)
(* The last behind[c] entries of the window are those that came in since   *)
(* the store answered.                                                     *)
CaughtUp(c) ==
    pc[c] = "answered" /\ items[c] = <<>> /\ Own(cursor[c]) /\ behind[c] <= MaxLen =>
        /\ behind[c] <= Len(window)
        /\ \A id \in DOMAIN log : Message(id) /\ id > cursor[c] =>
               \/ \E k \in 1..Len(window) : window[k] = id /\ k + behind[c] > Len(window)
               \/ \A x \in ToSet(window) : x < id
Complete(c) ==
    overrun[c] \/ \A id \in DOMAIN log : owed[c] < id /\ id <= cursor[c] /\ Message(id) => id \in ToSet(delivered[c])
OwedSound(c) ==
    /\ owed[c] # 0 => Own(cursor[c]) /\ Complete(c)
    /\ Chain(c, items[c]) /\ CaughtUp(c)

Sound == TypeOK /\ WindowSound /\ \A c \in Consumers : ReadingSound(c) /\ OwedSound(c)

-------------------------------------------------------------------------------
(* The store numbers its events in one sequence, which only grows. *)

LogGrows ==
    /\ Len(log) \in Nat /\ Len(log') \in Nat /\ Len(log) <= Len(log')
    /\ DOMAIN log = 1..Len(log) /\ DOMAIN log' = 1..Len(log')
    /\ \A id \in 1..Len(log) : log'[id] = log[id]

LEMMA LogFacts ==
    ASSUME TypeOK, NEW e \in Events, log' = Append(log, e)
    PROVE  /\ log' \in Seq(Events) /\ Len(log') = Len(log) + 1 /\ LogGrows
           /\ log'[Len(log) + 1] = e
<1>1. log \in Seq(Events)
  BY DEF TypeOK, Events
<1>2. /\ log' \in Seq(Events) /\ Len(log') = Len(log) + 1
      /\ \A i \in 1..Len(log) : log'[i] = log[i]
      /\ log'[Len(log) + 1] = e
  BY <1>1, AppendProperties
<1>3. Len(log) \in Nat /\ DOMAIN log = 1..Len(log) /\ DOMAIN log' = 1..Len(log')
  BY <1>1, <1>2, LenProperties
<1> QED
  BY <1>2, <1>3 DEF LogGrows

LEMMA SameLog ==
    ASSUME TypeOK, log' = log
    PROVE  LogGrows
<1>1. Len(log) \in Nat /\ DOMAIN log = 1..Len(log)
  BY LenProperties DEF TypeOK
<1> QED
  BY <1>1 DEF LogGrows

(* What is known of an event stays so. *)
LEMMA OwnKept ==
    ASSUME LogGrows, NEW id
    PROVE  /\ Own(id) => Own(id)'
           /\ id \in DOMAIN log => id \in DOMAIN log' /\ (Own(id)' <=> Own(id)) /\ (Message(id)' <=> Message(id))
           /\ id \in DOMAIN log' \ DOMAIN log => id \in Nat /\ id > Len(log)
BY DEF LogGrows, Own, Message

LEMMA OwnFacts ==
    ASSUME TypeOK, NEW id, Own(id)
    PROVE  id \in Nat /\ id >= 1 /\ id <= Len(log) /\ id \in DOMAIN log
<1>1. DOMAIN log = 1..Len(log) /\ Len(log) \in Nat
  BY LenProperties DEF TypeOK
<1> QED
  BY <1>1 DEF Own

(* A consumer that only sees the store grow. *)
LEMMA ClientKept ==
    ASSUME TypeOK, WindowSound, NEW c \in Consumers, ReadingSound(c), OwedSound(c), LogGrows, window' = window,
           cursor'[c] = cursor[c], items'[c] = items[c], delivered'[c] = delivered[c], owed'[c] = owed[c],
           overrun'[c] = overrun[c], behind'[c] = behind[c],
           pc'[c] = pc[c] \/ (pc[c] = "parked" /\ pc'[c] = "top")
    PROVE  ReadingSound(c)' /\ OwedSound(c)'
<1>1. /\ cursor[c] \in 0..Len(log) /\ Len(log) \in Nat /\ Len(log') \in Nat /\ Len(log) <= Len(log')
      /\ DOMAIN log = 1..Len(log)
  BY DEF ReadingSound, LogGrows
<1>2. ReadingSound(c)'
  BY <1>1, OwnKept DEF ReadingSound
<1>3. owed[c] # 0 => Own(cursor[c])' /\ Complete(c)'
  <2> SUFFICES ASSUME owed[c] # 0 PROVE Own(cursor[c])' /\ Complete(c)'
    OBVIOUS
  <2>1. Own(cursor[c]) /\ Complete(c)
    BY DEF OwedSound
  <2>2. Own(cursor[c])'
    BY <2>1, OwnKept
  <2>3. ASSUME ~ overrun[c], NEW id \in DOMAIN log', owed[c] < id, id <= cursor[c], Message(id)'
        PROVE  id \in ToSet(delivered[c])
    <3>1. id \in DOMAIN log
      BY <1>1, <2>3, OwnKept
    <3> QED
      BY <2>1, <2>3, <3>1, OwnKept DEF Complete
  <2> QED
    BY <2>2, <2>3 DEF Complete
<1>4. Chain(c, items[c])'
  <2> SUFFICES ASSUME NEW x \in ToSet(items[c]), NEW id \in DOMAIN log', cursor[c] < id, id < x, Message(id)'
               PROVE  id \in ToSet(items[c])
    BY DEF Chain
  <2>1. Own(x)
    BY DEF ReadingSound
  <2>2. x \in Nat /\ x <= Len(log)
    BY <2>1, OwnFacts
  <2>3. id \in DOMAIN log
    BY <1>1, <2>2, OwnKept
  <2> QED
    BY <2>3, OwnKept DEF OwedSound, Chain
<1>5. CaughtUp(c)'
  <2> SUFFICES ASSUME pc[c] = "answered", items[c] = <<>>, Own(cursor[c])', behind[c] <= MaxLen
               PROVE  /\ behind[c] <= Len(window)
                      /\ \A id \in DOMAIN log' : Message(id)' /\ id > cursor[c] =>
                             \/ \E k \in 1..Len(window) : window[k] = id /\ k + behind[c] > Len(window)
                             \/ \A x \in ToSet(window) : x < id
    BY DEF CaughtUp
  <2>1. Own(cursor[c])
    BY <1>1, OwnKept DEF ReadingSound
  <2>2. /\ behind[c] <= Len(window)
        /\ \A id \in DOMAIN log : Message(id) /\ id > cursor[c] =>
               \/ \E k \in 1..Len(window) : window[k] = id /\ k + behind[c] > Len(window)
               \/ \A x \in ToSet(window) : x < id
    BY <2>1 DEF OwedSound, CaughtUp
  <2>3. ASSUME NEW id \in DOMAIN log', id \notin DOMAIN log, NEW x \in ToSet(window) PROVE x < id
    <3>1. Own(x)
      BY DEF WindowSound
    <3> QED
      BY <1>1, <2>3, <3>1, OwnFacts, OwnKept
  <2> QED
    BY <2>2, <2>3, OwnKept
<1>6. OwedSound(c)'
  <2>1. (owed[c] # 0)' <=> owed[c] # 0
    OBVIOUS
  <2>2. Own(cursor[c])' <=> (cursor[c] \in DOMAIN log' /\ log'[cursor[c]].own)
    BY DEF Own
  <2> QED
    BY <1>3, <1>4, <1>5, <2>1 DEF OwedSound
<1> QED
  BY <1>2, <1>6

-------------------------------------------------------------------------------
(* The producer. *)

(* Nothing of any consumer changes, but for the notification. *)
Undisturbed ==
    /\ UNCHANGED <<reading, connects>>
    /\ pc' \in [Consumers -> Connected \cup Released]
    /\ \A c \in Consumers : pc'[c] = pc[c] \/ (pc[c] = "parked" /\ pc'[c] = "top")

LEMMA NotifyFacts ==
    ASSUME TypeOK, Notify \/ UNCHANGED pc, UNCHANGED <<reading, connects>>
    PROVE  Undisturbed
<1>1. pc \in [Consumers -> Connected \cup Released] /\ "top" \in Connected
  BY DEF TypeOK, Connected
<1> QED
  BY <1>1 DEF Undisturbed, Notify

LEMMA LogStepSound ==
    ASSUME Sound, Frame \/ Commit \/ Ended \/ OtherStream
    PROVE  Sound'
<1>1. TypeOK /\ WindowSound /\ \A c \in Consumers : ReadingSound(c) /\ OwedSound(c)
  BY DEF Sound
<1>2. log' \in Seq(Events) /\ Len(log') <= MaxId + 1 /\ LogGrows
  <2>1. CASE UNCHANGED log
    BY <1>1, <2>1, SameLog DEF TypeOK, Events
  <2>2. CASE Commit
    <3>1. [own |-> TRUE, msg |-> frame] \in Events
      BY <1>1 DEF TypeOK, Events
    <3> QED
      BY <1>1, <2>2, <3>1, LogFacts, WindowAssumption DEF Commit, LogGrows
  <2>3. CASE OtherStream
    <3>1. [own |-> FALSE, msg |-> TRUE] \in Events
      BY DEF Events
    <3> QED
      BY <1>1, <2>3, <3>1, LogFacts, WindowAssumption DEF OtherStream, LogGrows
  <2> QED
    BY <2>1, <2>2, <2>3 DEF Frame, Ended
<1>3. Undisturbed /\ UNCHANGED <<window, behind, reading, connects>>
  BY <1>1, NotifyFacts DEF Frame, Commit, Ended, OtherStream
<1>4. /\ task' \in {"reading", "storing", "stored", "ended"}
      /\ failed' \in BOOLEAN /\ frame' \in BOOLEAN /\ taken' \in Nat
  <2>1. CASE Frame
    BY <1>1, <2>1 DEF TypeOK, Frame
  <2>2. CASE Commit
    BY <1>1, <1>2, <2>2 DEF TypeOK, Commit, LogGrows
  <2>3. CASE Ended
    BY <1>1, <2>3 DEF TypeOK, Ended
  <2>4. CASE OtherStream
    BY <1>1, <2>4 DEF TypeOK, OtherStream
  <2> QED
    BY <2>1, <2>2, <2>3, <2>4
<1>5. TypeOK'
  BY <1>1, <1>2, <1>3, <1>4 DEF TypeOK, Undisturbed, reading, Events
<1>6. \A c \in Consumers : ReadingSound(c)' /\ OwedSound(c)'
  BY <1>1, <1>2, <1>3, ClientKept DEF Undisturbed, reading
<1>7. \A x \in ToSet(window) : Own(x) /\ Own(x)' /\ x \in DOMAIN log /\ x <= Len(log) /\ x \in Nat
  BY <1>1, <1>2, OwnFacts, OwnKept DEF WindowSound
<1>8. task' = "stored" => Own(taken)' /\ \A x \in ToSet(window) : x < taken'
  <2>1. CASE Commit
    <3>1. [own |-> TRUE, msg |-> frame] \in Events
      BY <1>1 DEF TypeOK, Events
    <3>2. taken' = Len(log) + 1 /\ log'[Len(log) + 1].own /\ Len(log') = Len(log) + 1
      BY <1>1, <2>1, <3>1, LogFacts DEF Commit
    <3> QED
      BY <1>2, <1>7, <3>2 DEF Own, LogGrows
  <2>2. CASE OtherStream
    BY <1>1, <1>2, <2>2, OwnKept DEF OtherStream, WindowSound
  <2> QED
    BY <2>1, <2>2 DEF Frame, Ended, Commit, OtherStream
<1>9. ASSUME NEW id \in DOMAIN log', Own(id)', id > 1, \A x \in ToSet(window) : x < id
      PROVE  task' = "ended" \/ (task' = "stored" /\ id = taken')
  <2>1. CASE id \in DOMAIN log
    <3>1. Own(id)
      BY <1>2, <1>9, <2>1, OwnKept
    <3>2. task = "ended" \/ (task = "stored" /\ id = taken)
      BY <1>1, <1>9, <2>1, <3>1 DEF WindowSound
    <3> QED
      BY <3>2 DEF Frame, Commit, Ended, OtherStream
  <2>2. CASE id \notin DOMAIN log
    <3>1. CASE Commit
      <4>1. [own |-> TRUE, msg |-> frame] \in Events
        BY <1>1 DEF TypeOK, Events
      <4>2. Len(log') = Len(log) + 1
        BY <1>1, <3>1, <4>1, LogFacts DEF Commit
      <4>3. id = Len(log) + 1
        BY <1>2, <1>9, <2>2, <4>2 DEF LogGrows
      <4> QED
        BY <3>1, <4>3 DEF Commit
    <3>2. CASE OtherStream
      <4>1. [own |-> FALSE, msg |-> TRUE] \in Events
        BY DEF Events
      <4>2. Len(log') = Len(log) + 1 /\ ~ log'[Len(log) + 1].own
        BY <1>1, <3>2, <4>1, LogFacts DEF OtherStream
      <4>3. id = Len(log) + 1
        BY <1>2, <1>9, <2>2, <4>2 DEF LogGrows
      <4> QED
        BY <1>9, <4>2, <4>3 DEF Own
    <3> QED
      BY <2>2, <3>1, <3>2 DEF Frame, Ended
  <2> QED
    BY <2>1, <2>2
<1>10. WindowSound'
  <2>1. ASSUME NEW x \in ToSet(window), NEW y \in ToSet(window), NEW id \in DOMAIN log', x <= id, id <= y, Own(id)'
        PROVE  id \in ToSet(window)
    <3>1. id \in DOMAIN log
      BY <1>2, <1>7, <2>1, OwnKept DEF LogGrows
    <3>2. Own(id)
      BY <1>2, <2>1, <3>1, OwnKept
    <3> QED
      BY <1>1, <2>1, <3>1, <3>2 DEF WindowSound
  <2>2. Increasing(window)
    BY <1>1 DEF WindowSound
  <2> QED
    BY <1>3, <1>7, <1>8, <1>9, <2>1, <2>2 DEF WindowSound
<1> QED
  BY <1>5, <1>6, <1>10 DEF Sound

(* What pushing a new event leaves of the window. *)
LEMMA PushFacts ==
    ASSUME TypeOK, Increasing(window), NEW id \in Nat, \A x \in ToSet(window) : x < id, Push(id)
    PROVE  /\ window' \in Seq(Nat) /\ Len(window') <= MaxLen /\ Increasing(window')
           /\ id \in ToSet(window') /\ ToSet(window') \subseteq ToSet(window) \cup {id}
           /\ \A x \in ToSet(window) : x \in ToSet(window') \/ \A y \in ToSet(window') : x < y
           /\ \A n \in Nat : n < MaxLen /\ n <= Len(window) => n + 1 <= Len(window')
           /\ \A n \in Nat, k \in 1..Len(window) : n < MaxLen /\ n <= Len(window) /\ k + n > Len(window) =>
                  \E i \in 1..Len(window') : window'[i] = window[k] /\ i + n + 1 > Len(window')
           /\ Len(window') \in Nat /\ Len(window') >= 1 /\ window'[Len(window')] = id
<1>1. window \in Seq(Nat) /\ Len(window) \in Nat /\ Len(window) <= MaxLen /\ MaxLen \in Nat /\ MaxLen >= 1
  BY WindowAssumption, LenProperties DEF TypeOK
<1>2. CASE Len(window) = MaxLen
  <2>1. window # <<>> /\ window' = Append(Tail(window), id)
    BY <1>1, <1>2 DEF Push
  <2>2. /\ Head(window) \in Nat /\ Tail(window) \in Seq(Nat) /\ Len(Tail(window)) = Len(window) - 1
        /\ ToSet(window) = {Head(window)} \cup ToSet(Tail(window))
        /\ Increasing(Tail(window)) /\ \A x \in ToSet(Tail(window)) : Head(window) < x
    BY <1>1, <2>1, HeadFacts
  <2>3. \A i \in 1..(Len(window) - 1) : Tail(window)[i] = window[i + 1]
    BY <1>1, <2>1, HeadTailProperties
  <2>4. /\ window' \in Seq(Nat) /\ Len(window') = Len(window)
        /\ ToSet(window') = ToSet(Tail(window)) \cup {id} /\ Increasing(window')
    <3> DEFINE q == Tail(window)
    <3>1. q \in Seq(Nat) /\ Increasing(q) /\ (\A x \in ToSet(q) : x < id) /\ window' = Append(q, id)
      BY <2>1, <2>2
    <3>2. Len(q) = Len(window) - 1
      BY <2>2
    <3> HIDE DEF q
    <3>3. /\ Append(q, id) \in Seq(Nat) /\ Len(Append(q, id)) = Len(q) + 1
          /\ ToSet(Append(q, id)) = ToSet(q) \cup {id} /\ Increasing(Append(q, id))
      BY <3>1, AppendFacts
    <3>4. Len(q) + 1 = Len(window)
      BY <1>1, <3>2
    <3> QED
      BY <3>1, <3>3, <3>4 DEF q
  <2>5. /\ \A i \in 1..(Len(window) - 1) : window'[i] = window[i + 1]
        /\ window'[Len(window')] = id
    BY <1>1, <2>1, <2>2, <2>3, <2>4, AppendProperties
  <2>6. ASSUME NEW n \in Nat, NEW k \in 1..Len(window), n < MaxLen, k + n > Len(window)
        PROVE  \E i \in 1..Len(window') : window'[i] = window[k] /\ i + n + 1 > Len(window')
    <3>1. k - 1 \in 1..(Len(window) - 1) /\ (k - 1) + 1 = k
      BY <1>1, <1>2, <2>6
    <3>2. window'[k - 1] = window[k]
      BY <2>5, <3>1
    <3> QED
      BY <1>1, <2>4, <2>6, <3>1, <3>2
  <2>7. \A x \in ToSet(window) : x \in ToSet(window') \/ \A y \in ToSet(window') : x < y
    BY <2>2, <2>4
  <2>8. Len(window') \in Nat /\ Len(window') >= 1 /\ Len(window') <= MaxLen
    BY <1>1, <1>2, <2>4
  <2>9. ToSet(window') \subseteq ToSet(window) \cup {id} /\ id \in ToSet(window')
    BY <2>2, <2>4
  <2>10. \A n \in Nat : n < MaxLen => n + 1 <= Len(window')
    BY <1>1, <1>2, <2>4
  <2> QED
    BY <2>4, <2>5, <2>6, <2>7, <2>8, <2>9, <2>10
<1>3. CASE Len(window) # MaxLen
  <2>1. window' = Append(window, id)
    BY <1>3 DEF Push
  <2>2. /\ window' \in Seq(Nat) /\ Len(window') = Len(window) + 1
        /\ ToSet(window') = ToSet(window) \cup {id} /\ Increasing(window')
    BY <1>1, <2>1, AppendFacts
  <2>3. (\A i \in 1..Len(window) : window'[i] = window[i]) /\ window'[Len(window')] = id
    BY <1>1, <2>1, <2>2, AppendProperties
  <2>4. ASSUME NEW n \in Nat, NEW k \in 1..Len(window), k + n > Len(window)
        PROVE  \E i \in 1..Len(window') : window'[i] = window[k] /\ i + n + 1 > Len(window')
    BY <1>1, <2>2, <2>3, <2>4
  <2> QED
    BY <1>1, <1>3, <2>2, <2>3, <2>4
<1> QED
  BY <1>2, <1>3

LEMMA IngestedSound ==
    ASSUME Sound, Ingested
    PROVE  Sound'
<1>1. TypeOK /\ WindowSound /\ \A c \in Consumers : ReadingSound(c) /\ OwedSound(c)
  BY DEF Sound
<1>2. /\ UNCHANGED <<log, failed, reading, connects>> /\ task = "stored" /\ task' = "reading"
      /\ taken \in Nat /\ Own(taken) /\ Push(taken) /\ Increasing(window) /\ taken' = 0 /\ frame' = FALSE
      /\ \A x \in ToSet(window) : x < taken
  BY <1>1 DEF Ingested, WindowSound, TypeOK
<1>3. Undisturbed
  BY <1>1, NotifyFacts DEF Ingested
<1>4. /\ behind' \in [Consumers -> Nat]
      /\ \A c \in Consumers : behind'[c] = IF pc[c] = "answered" /\ behind[c] <= MaxLen THEN behind[c] + 1
                                                                                    ELSE behind[c]
  BY <1>1 DEF Ingested, TypeOK
<1>5. /\ window' \in Seq(Nat) /\ Len(window') <= MaxLen /\ Increasing(window')
      /\ taken \in ToSet(window') /\ ToSet(window') \subseteq ToSet(window) \cup {taken}
      /\ \A x \in ToSet(window) : x \in ToSet(window') \/ \A y \in ToSet(window') : x < y
      /\ \A n \in Nat : n < MaxLen /\ n <= Len(window) => n + 1 <= Len(window')
      /\ \A n \in Nat, k \in 1..Len(window) : n < MaxLen /\ n <= Len(window) /\ k + n > Len(window) =>
             \E i \in 1..Len(window') : window'[i] = window[k] /\ i + n + 1 > Len(window')
      /\ Len(window') \in Nat /\ Len(window') >= 1 /\ window'[Len(window')] = taken
  BY <1>1, <1>2, PushFacts
<1>6. \A id : (Own(id)' <=> Own(id)) /\ (Message(id)' <=> Message(id))
  BY <1>2 DEF Own, Message
<1>7. DOMAIN log = 1..Len(log) /\ \A x \in ToSet(window') : Own(x) /\ x \in Nat /\ x >= 1
  BY <1>1, <1>2, <1>5, OwnFacts, LenProperties DEF WindowSound, TypeOK
<1>8. TypeOK'
  BY <1>1, <1>2, <1>3, <1>4, <1>5 DEF TypeOK, Undisturbed, reading
<1>9. WindowSound'
  <2>1. ASSUME NEW x \in ToSet(window'), NEW y \in ToSet(window'), NEW id \in DOMAIN log, x <= id, id <= y, Own(id)
        PROVE  id \in ToSet(window')
    <3>1. CASE id \in ToSet(window)
      BY <1>5, <1>7, <2>1, <3>1
    <3>2. CASE id \notin ToSet(window) /\ \A z \in ToSet(window) : z < id
      <4>1. CASE id = 1
        BY <1>7, <2>1, <4>1
      <4>2. CASE id # 1
        <5>1. id > 1
          BY <1>7, <4>2
        <5>2. id = taken
          BY <1>1, <1>2, <2>1, <3>2, <5>1 DEF WindowSound
        <5> QED
          BY <1>5, <5>2
      <4> QED
        BY <4>1, <4>2
    <3>3. CASE id \notin ToSet(window) /\ \E z \in ToSet(window) : ~ (z < id)
      <4>1. PICK z \in ToSet(window) : ~ (z < id)
        BY <3>3
      <4>2. z \in Nat /\ z < taken /\ id \in Nat
        BY <1>1, <1>2, <1>7, <4>1, OwnFacts DEF WindowSound
      <4>3. id <= z /\ x # taken
        BY <1>2, <1>7, <2>1, <4>1, <4>2
      <4>4. x \in ToSet(window)
        BY <1>5, <2>1, <4>3
      <4> QED
        BY <1>1, <2>1, <3>3, <4>1, <4>3, <4>4 DEF WindowSound
    <3> QED
      BY <3>1, <3>2, <3>3
  <2>2. ASSUME NEW id \in DOMAIN log, Own(id), id > 1, \A x \in ToSet(window') : x < id PROVE FALSE
    <3>1. taken < id /\ id \in Nat
      BY <1>5, <1>7, <2>2
    <3>2. \A x \in ToSet(window) : x < id
      BY <1>1, <1>2, <3>1, OwnFacts DEF WindowSound
    <3>3. id = taken
      BY <1>1, <1>2, <2>2, <3>2 DEF WindowSound
    <3> QED
      BY <1>2, <3>1, <3>3
  <2> QED
    BY <1>2, <1>5, <1>6, <1>7, <2>1, <2>2 DEF WindowSound
<1>10. ASSUME NEW c \in Consumers PROVE ReadingSound(c)' /\ OwedSound(c)'
  <2>1. /\ cursor'[c] = cursor[c] /\ items'[c] = items[c] /\ delivered'[c] = delivered[c]
        /\ owed'[c] = owed[c] /\ overrun'[c] = overrun[c] /\ log' = log
        /\ pc'[c] = pc[c] \/ (pc[c] = "parked" /\ pc'[c] = "top")
        /\ ReadingSound(c) /\ OwedSound(c)
    BY <1>1, <1>2, <1>3 DEF Undisturbed, reading
  <2>2. ReadingSound(c)'
    BY <1>4, <1>6, <2>1 DEF ReadingSound
  <2>3. (owed[c] # 0 => Own(cursor[c])' /\ Complete(c)') /\ Chain(c, items[c])'
    BY <1>6, <2>1 DEF OwedSound, Complete, Chain
  <2>4. CaughtUp(c)'
    <3> SUFFICES ASSUME pc[c] = "answered", items[c] = <<>>, Own(cursor[c]), behind'[c] <= MaxLen
                 PROVE  /\ behind'[c] <= Len(window')
                        /\ \A id \in DOMAIN log : Message(id) /\ id > cursor[c] =>
                               \/ \E k \in 1..Len(window') : window'[k] = id /\ k + behind'[c] > Len(window')
                               \/ \A x \in ToSet(window') : x < id
      BY <1>2, <1>6, <2>1 DEF CaughtUp
    <3>1. behind[c] \in Nat /\ MaxLen \in Nat /\ Len(window) \in Nat /\ cursor[c] \in Nat /\ cursor[c] # 0
      BY <1>1, WindowAssumption, LenProperties DEF TypeOK, ReadingSound
    <3>2. behind'[c] = behind[c] + 1 /\ behind[c] < MaxLen
      BY <1>4, <3>1
    <3>3. /\ behind[c] <= Len(window)
          /\ \A id \in DOMAIN log : Message(id) /\ id > cursor[c] =>
                 \/ \E k \in 1..Len(window) : window[k] = id /\ k + behind[c] > Len(window)
                 \/ \A x \in ToSet(window) : x < id
      BY <2>1, <3>1, <3>2 DEF OwedSound, CaughtUp
    <3>4. ASSUME NEW id \in DOMAIN log, Message(id), id > cursor[c]
          PROVE  \E k \in 1..Len(window') : window'[k] = id /\ k + behind'[c] > Len(window')
      <4>1. CASE \E k \in 1..Len(window) : window[k] = id /\ k + behind[c] > Len(window)
        <5>1. PICK k \in 1..Len(window) : window[k] = id /\ k + behind[c] > Len(window)
          BY <4>1
        <5>2. PICK i \in 1..Len(window') : window'[i] = window[k] /\ i + behind[c] + 1 > Len(window')
          BY <1>5, <3>1, <3>2, <3>3, <5>1
        <5>3. i + behind'[c] > Len(window')
          BY <1>5, <3>1, <3>2, <5>2
        <5> QED
          BY <5>1, <5>2, <5>3
      <4>2. CASE \A x \in ToSet(window) : x < id
        <5>1. Own(id) /\ id > 1
          BY <1>7, <3>1, <3>4 DEF Message
        <5>2. id = taken
          BY <1>1, <1>2, <3>4, <4>2, <5>1 DEF WindowSound
        <5>3. Len(window') \in 1..Len(window') /\ Len(window') + behind'[c] > Len(window')
          BY <1>5, <3>1, <3>2
        <5> QED
          BY <1>5, <5>2, <5>3
      <4> QED
        BY <3>3, <3>4, <4>1, <4>2
    <3> QED
      BY <1>5, <3>1, <3>2, <3>3, <3>4
  <2> QED
    BY <2>1, <2>2, <2>3, <2>4 DEF OwedSound
<1> QED
  BY <1>8, <1>9, <1>10 DEF Sound

-------------------------------------------------------------------------------
(* A consumer. *)

LEMMA NewerFacts ==
    ASSUME TypeOK, WindowSound, NEW c \in Consumers
    PROVE  /\ Newer(c) \in Seq(Nat) /\ Increasing(Newer(c))
           /\ \A x : x \in ToSet(Newer(c)) <=> x \in ToSet(window) /\ x > cursor[c]
           /\ Newer(c) = <<>> <=> \A x \in ToSet(window) : ~ (x > cursor[c])
<1>1. window \in Seq(Nat) /\ Increasing(window)
  BY DEF TypeOK, WindowSound
<1> DEFINE I == {n \in DOMAIN window : window[n] > cursor[c]}
<1>2. DOMAIN window = 1..Len(window)
  BY <1>1, LenProperties
<1>3. /\ Picked(window, I) \in Seq(Nat) /\ Increasing(Picked(window, I))
      /\ ToSet(Picked(window, I)) = {window[n] : n \in I}
      /\ Picked(window, I) = <<>> <=> I = {}
  BY <1>1, PickedFacts
<1>4. \A x : x \in ToSet(window) <=> \E n \in DOMAIN window : x = window[n]
  BY <1>1, <1>2, ToSetDef
<1> QED
  BY <1>3, <1>4 DEF Newer

LEMMA ReplayFacts ==
    ASSUME TypeOK, NEW c \in Consumers
    PROVE  /\ Replay(c) \in Seq(Nat) /\ Increasing(Replay(c))
           /\ \A x \in ToSet(Replay(c)) : Own(x) /\ x > cursor[c]
           /\ Own(cursor[c]) => \A x : x \in ToSet(Replay(c)) <=> Message(x) /\ x > cursor[c]
           /\ ToSet(Replay(c)) = {} \/ \A x : x \in ToSet(Replay(c)) <=> Message(x) /\ x > cursor[c]
<1> DEFINE M == {i \in DOMAIN log : i > cursor[c] /\ log[i].msg /\ log[i].own}
<1>1. DOMAIN log = 1..Len(log) /\ Len(log) \in Nat
  BY LenProperties DEF TypeOK
<1>2. M \in SUBSET Nat /\ IsFiniteSet(M)
  <2>1. IsFiniteSet(1..Len(log))
    BY <1>1, FS_Interval
  <2>2. M \subseteq 1..Len(log)
    BY <1>1
  <2> QED
    BY <2>1, <2>2, FS_Subset
<1>3. Ascending(M) \in Seq(Nat) /\ ToSet(Ascending(M)) = M /\ Increasing(Ascending(M))
  BY <1>2, AscendingFacts
<1>4. \A x : x \in M <=> Message(x) /\ x > cursor[c]
  BY DEF Message, Own
<1>5. CASE log[cursor[c]].own
  <2>1. Replay(c) = Ascending(M)
    BY <1>5 DEF Replay
  <2> QED
    BY <1>3, <1>4, <2>1 DEF Message
<1>6. CASE ~ log[cursor[c]].own
  <2>1. Replay(c) = <<>>
    BY <1>6 DEF Replay
  <2> QED
    BY <1>6, <2>1, EmptyFacts DEF Own
<1> QED
  BY <1>5, <1>6

(* What a step of the consumer c leaves of the others. *)
OthersKeep(c) ==
    \A d \in Consumers : d # c =>
        /\ pc'[d] = pc[d] /\ cursor'[d] = cursor[d] /\ items'[d] = items[d] /\ delivered'[d] = delivered[d]
        /\ owed'[d] = owed[d] /\ overrun'[d] = overrun[d] /\ behind'[d] = behind[d]
ReadingTyped ==
    /\ pc \in [Consumers -> Connected \cup Released]
    /\ cursor \in [Consumers -> Nat] /\ owed \in [Consumers -> Nat]
    /\ items \in [Consumers -> Seq(Nat)] /\ delivered \in [Consumers -> Seq(Nat)]
    /\ behind \in [Consumers -> Nat] /\ connects \in [Consumers -> Nat]
    /\ overrun \in [Consumers -> BOOLEAN]

LEMMA ConsumerSound ==
    ASSUME Sound, NEW c \in Consumers, UNCHANGED producer, OthersKeep(c), ReadingTyped',
           ReadingSound(c)', OwedSound(c)'
    PROVE  Sound'
<1>1. TypeOK /\ WindowSound /\ \A d \in Consumers : ReadingSound(d) /\ OwedSound(d)
  BY DEF Sound
<1>2. UNCHANGED <<log, window, task, failed, frame, taken>>
  BY DEF producer
<1>3. TypeOK'
  BY <1>1, <1>2 DEF TypeOK, ReadingTyped
<1>4. WindowSound'
  BY <1>1, <1>2 DEF WindowSound, Own
<1>5. ASSUME NEW d \in Consumers PROVE ReadingSound(d)' /\ OwedSound(d)'
  <2>1. CASE d = c
    BY <2>1
  <2>2. CASE d # c
    BY <1>1, <1>2, <2>2, SameLog, ClientKept DEF OthersKeep
  <2> QED
    BY <2>1, <2>2
<1> QED
  BY <1>3, <1>4, <1>5 DEF Sound

(* The ids in `next' leave out no message between the first and the last. *)
Dense(next) ==
    \A x, y \in ToSet(next), id \in DOMAIN log : y < id /\ id < x /\ Message(id) => id \in ToSet(next)

LEMMA YieldSound ==
    ASSUME Sound, NEW c \in Consumers, NEW next \in Seq(Nat), next # <<>>, Increasing(next), Dense(next),
           \A x \in ToSet(next) : Own(x) /\ x > cursor[c], Yield(c, next), UNCHANGED <<producer, connects>>,
           owed[c] = 0 \/ overrun'[c] \/ Chain(c, next), overrun[c] => overrun'[c], behind'[c] = 0,
           overrun' \in [Consumers -> BOOLEAN], behind' \in [Consumers -> Nat],
           \A d \in Consumers : d # c => overrun'[d] = overrun[d] /\ behind'[d] = behind[d]
    PROVE  Sound'
<1>1. TypeOK /\ WindowSound /\ ReadingSound(c) /\ OwedSound(c) /\ ReadingTyped
  BY DEF Sound, TypeOK, ReadingTyped
<1> DEFINE id == Head(next)
<1>2. /\ id \in Nat /\ Tail(next) \in Seq(Nat) /\ ToSet(next) = {id} \cup ToSet(Tail(next))
      /\ Increasing(Tail(next)) /\ \A x \in ToSet(Tail(next)) : id < x
  BY HeadFacts
<1>3. /\ delivered' = [delivered EXCEPT ![c] = Append(delivered[c], id)]
      /\ cursor' = [cursor EXCEPT ![c] = id]
      /\ owed' = [owed EXCEPT ![c] = IF owed[c] = 0 THEN id ELSE owed[c]]
      /\ items' = [items EXCEPT ![c] = Tail(next)]
      /\ pc' = [pc EXCEPT ![c] = IF Tail(next) = <<>> THEN "top" ELSE "yield"]
  BY DEF Yield
<1> HIDE DEF id
<1>4. /\ delivered'[c] = Append(delivered[c], id) /\ cursor'[c] = id /\ items'[c] = Tail(next)
      /\ owed'[c] = (IF owed[c] = 0 THEN id ELSE owed[c])
      /\ pc'[c] = (IF Tail(next) = <<>> THEN "top" ELSE "yield")
  BY <1>1, <1>3 DEF ReadingTyped
<1>5. OthersKeep(c)
  BY <1>1, <1>3 DEF ReadingTyped, OthersKeep
<1>6. Own(id) /\ id > cursor[c] /\ id <= Len(log) /\ id >= 1 /\ cursor[c] \in Nat /\ Len(log) \in Nat
  BY <1>1, <1>2, OwnFacts, LenProperties DEF ReadingTyped, TypeOK
<1>7. /\ delivered[c] \in Seq(Nat) /\ Increasing(delivered[c])
      /\ \A x \in ToSet(delivered[c]) : x \in Nat /\ Own(x) /\ x <= cursor[c]
  BY <1>1, OwnFacts DEF ReadingTyped, ReadingSound
<1>8. /\ Append(delivered[c], id) \in Seq(Nat) /\ ToSet(Append(delivered[c], id)) = ToSet(delivered[c]) \cup {id}
      /\ Increasing(Append(delivered[c], id))
  <2>1. \A x \in ToSet(delivered[c]) : x < id
    BY <1>2, <1>6, <1>7
  <2> QED
    BY <1>2, <1>7, <2>1, AppendFacts
<1>9. ReadingTyped'
  <2>1. "top" \in Connected /\ "yield" \in Connected
    BY DEF Connected
  <2>2. pc' \in [Consumers -> Connected \cup Released]
    BY <1>1, <1>3, <2>1 DEF ReadingTyped
  <2>3. delivered' \in [Consumers -> Seq(Nat)] /\ items' \in [Consumers -> Seq(Nat)]
    BY <1>1, <1>2, <1>3, <1>8 DEF ReadingTyped
  <2>4. cursor' \in [Consumers -> Nat] /\ owed' \in [Consumers -> Nat]
    BY <1>1, <1>2, <1>3 DEF ReadingTyped
  <2>5. connects' \in [Consumers -> Nat]
    BY <1>1 DEF ReadingTyped
  <2> QED
    BY <2>2, <2>3, <2>4, <2>5 DEF ReadingTyped
<1>10. log' = log /\ \A x : (Own(x)' <=> Own(x)) /\ (Message(x)' <=> Message(x))
  BY DEF producer, Own, Message
<1>11. ReadingSound(c)'
  <2>1. \A x \in ToSet(delivered'[c]) : Own(x) /\ x <= id
    BY <1>2, <1>4, <1>6, <1>7, <1>8
  <2>2. \A x \in ToSet(items'[c]) : Own(x) /\ x > id
    BY <1>2, <1>4
  <2>3. id \in 0..Len(log)
    BY <1>2, <1>6
  <2> QED
    BY <1>2, <1>4, <1>8, <1>10, <2>1, <2>2, <2>3 DEF ReadingSound
<1>12. OwedSound(c)'
  <2>1. Complete(c)'
    <3> SUFFICES ASSUME ~ overrun'[c], NEW j \in DOMAIN log, owed'[c] < j, j <= id, Message(j)
                 PROVE  j \in ToSet(delivered'[c])
      BY <1>4, <1>10 DEF Complete
    <3>1. j \in Nat
      BY <1>1, OwnFacts DEF Message
    <3>2. owed[c] # 0 /\ owed'[c] = owed[c] /\ Chain(c, next)
      BY <1>2, <1>4, <3>1
    <3>3. CASE j <= cursor[c]
      BY <1>1, <1>4, <1>8, <3>2, <3>3 DEF OwedSound, Complete
    <3>4. CASE cursor[c] < j /\ j < id
      <4>1. j \in ToSet(next)
        BY <1>2, <3>2, <3>4 DEF Chain
      <4> QED
        BY <1>2, <3>1, <3>4, <4>1
    <3>5. CASE j = id
      BY <1>4, <1>8, <3>5
    <3> QED
      BY <1>2, <1>6, <3>1, <3>3, <3>4, <3>5
  <2>2. Chain(c, items[c])'
    <3> SUFFICES ASSUME NEW x \in ToSet(Tail(next)), NEW j \in DOMAIN log, id < j, j < x, Message(j)
                 PROVE  j \in ToSet(Tail(next))
      BY <1>4, <1>10 DEF Chain
    <3>1. j \in ToSet(next)
      BY <1>2 DEF Dense
    <3>2. j \in Nat
      BY <1>1, OwnFacts DEF Message
    <3> QED
      BY <1>2, <3>1, <3>2
  <2>3. CaughtUp(c)'
    BY <1>4 DEF CaughtUp
  <2>4. Own(cursor[c])'
    BY <1>4, <1>6, <1>10
  <2> QED
    BY <2>1, <2>2, <2>3, <2>4 DEF OwedSound
<1> QED
  BY <1>5, <1>9, <1>11, <1>12, ConsumerSound

(* A consumer that is given nothing: it waits, asks the store or leaves. *)
LEMMA PauseSound ==
    ASSUME Sound, NEW c \in Consumers, UNCHANGED producer, OthersKeep(c), ReadingTyped',
           cursor'[c] = cursor[c], delivered'[c] = delivered[c], owed'[c] = owed[c], items'[c] = <<>>,
           behind'[c] = 0, pc'[c] \notin {"yield", "answered"}, pc'[c] = "asking" => cursor[c] # 0,
           overrun[c] => overrun'[c]
    PROVE  Sound'
<1>1. ReadingSound(c) /\ OwedSound(c)
  BY DEF Sound
<1>2. log' = log /\ \A x : (Own(x)' <=> Own(x)) /\ (Message(x)' <=> Message(x))
  BY DEF producer, Own, Message
<1>3. ReadingSound(c)'
  BY <1>1, <1>2, EmptyFacts DEF ReadingSound
<1>4. owed'[c] # 0 => Own(cursor[c])' /\ Complete(c)'
  <2>1. Own(cursor[c])' <=> Own(cursor[c])
    BY <1>2 DEF Own
  <2> QED
    BY <1>1, <1>2, <2>1 DEF OwedSound, Complete
<1>5. Chain(c, items[c])' /\ CaughtUp(c)'
  BY EmptyFacts DEF Chain, CaughtUp
<1>6. OwedSound(c)'
  BY <1>4, <1>5 DEF OwedSound
<1> QED
  BY <1>3, <1>6, ConsumerSound

(* A read of the window, from which no message above the cursor is gone. *)
LEMMA ReadWindowSound ==
    ASSUME Sound, NEW c \in Consumers, ReadWindow(c), UNCHANGED <<producer, connects>>,
           items[c] = <<>>, owed[c] = 0 \/ overrun'[c] \/ Chain(c, Newer(c)),
           overrun[c] => overrun'[c], behind'[c] = 0,
           overrun' \in [Consumers -> BOOLEAN], behind' \in [Consumers -> Nat],
           \A d \in Consumers : d # c => overrun'[d] = overrun[d] /\ behind'[d] = behind[d]
    PROVE  Sound'
<1>1. TypeOK /\ WindowSound /\ ReadingTyped
  BY DEF Sound, TypeOK, ReadingTyped
<1>2. /\ Newer(c) \in Seq(Nat) /\ Increasing(Newer(c))
      /\ \A x : x \in ToSet(Newer(c)) <=> x \in ToSet(window) /\ x > cursor[c]
  BY <1>1, NewerFacts
<1>3. CASE Newer(c) # <<>>
  <2>1. Yield(c, Newer(c))
    BY <1>3 DEF ReadWindow
  <2>2. \A x \in ToSet(window) : Own(x) /\ x \in Nat
    BY <1>1, OwnFacts DEF WindowSound
  <2>3. \A x \in ToSet(Newer(c)) : Own(x) /\ x > cursor[c]
    BY <1>2, <2>2
  <2>4. Dense(Newer(c))
    <3> SUFFICES ASSUME NEW x \in ToSet(Newer(c)), NEW y \in ToSet(Newer(c)), NEW id \in DOMAIN log,
                        y < id, id < x, Message(id)
                 PROVE  id \in ToSet(Newer(c))
      BY DEF Dense
    <3>1. id \in Nat /\ x \in Nat /\ y \in Nat /\ cursor[c] \in Nat /\ Own(id)
      BY <1>1, <1>2, <2>2, OwnFacts DEF Message, ReadingTyped
    <3>2. id \in ToSet(window)
      BY <1>1, <1>2, <3>1 DEF WindowSound
    <3> QED
      BY <1>2, <3>1, <3>2
  <2> QED
    BY <1>2, <1>3, <2>1, <2>3, <2>4, YieldSound
<1>4. CASE Newer(c) = <<>>
  <2>1. /\ pc' = [pc EXCEPT ![c] = IF ~done THEN "parked" ELSE IF failed THEN "raised" ELSE "returned"]
        /\ UNCHANGED <<cursor, items, delivered, owed>>
    BY <1>4 DEF ReadWindow
  <2>2. PICK p \in {"parked", "raised", "returned"} : pc' = [pc EXCEPT ![c] = p]
    BY <2>1
  <2>3. pc' \in [Consumers -> Connected \cup Released] /\ pc'[c] = p
    BY <1>1, <2>2 DEF ReadingTyped, Connected, Released
  <2>4. \A d \in Consumers : d # c => pc'[d] = pc[d]
    BY <1>1, <2>2 DEF ReadingTyped
  <2>5. OthersKeep(c) /\ ReadingTyped'
    BY <1>1, <2>1, <2>3, <2>4 DEF OthersKeep, ReadingTyped
  <2> QED
    BY <2>1, <2>3, <2>5, PauseSound
<1> QED
  BY <1>3, <1>4

LEMMA PassSound ==
    ASSUME Sound, NEW c \in Consumers, Pass(c)
    PROVE  Sound'
<1>1. /\ TypeOK /\ WindowSound /\ ReadingSound(c) /\ OwedSound(c) /\ ReadingTyped
      /\ UNCHANGED <<producer, overrun, behind, connects>> /\ pc[c] = "top"
  BY DEF Sound, TypeOK, ReadingTyped, Pass
<1>2. items[c] = <<>> /\ behind[c] = 0
  BY <1>1 DEF ReadingSound
<1>3. CASE ColdNeeded(c)
  <2>1. pc' = [pc EXCEPT ![c] = "asking"] /\ UNCHANGED <<cursor, items, delivered, owed>>
    BY <1>3 DEF Pass
  <2>2. pc' \in [Consumers -> Connected \cup Released] /\ pc'[c] = "asking"
    BY <1>1, <2>1 DEF ReadingTyped, Connected
  <2>3. OthersKeep(c) /\ ReadingTyped'
    BY <1>1, <2>1, <2>2 DEF OthersKeep, ReadingTyped
  <2> QED
    BY <1>1, <1>2, <1>3, <2>1, <2>2, <2>3, PauseSound DEF ColdNeeded
<1>4. CASE ~ ColdNeeded(c)
  <2>1. ReadWindow(c)
    BY <1>4 DEF Pass
  <2>2. owed[c] = 0 \/ Chain(c, Newer(c))
    <3> SUFFICES ASSUME owed[c] # 0, NEW x \in ToSet(Newer(c)), NEW id \in DOMAIN log,
                        cursor[c] < id, id < x, Message(id)
                 PROVE  id \in ToSet(Newer(c))
      BY DEF Chain
    <3>1. Own(cursor[c]) /\ cursor[c] \in Nat /\ cursor[c] # 0
      BY <1>1, OwnFacts DEF OwedSound
    <3>2. window # <<>> /\ window \in Seq(Nat) /\ ~ (cursor[c] < Head(window))
      BY <1>1, <1>4, <3>1 DEF ColdNeeded, TypeOK
    <3>3. Head(window) \in ToSet(window) /\ Head(window) \in Nat
      BY <3>2, HeadFacts
    <3>4. x \in ToSet(window) /\ x \in Nat
      BY <1>1, NewerFacts, OwnFacts DEF WindowSound
    <3>5. id \in Nat /\ Own(id)
      BY <1>1, OwnFacts DEF Message
    <3>6. Head(window) <= id /\ id <= x
      BY <3>1, <3>2, <3>3, <3>4, <3>5
    <3>7. id \in ToSet(window)
      BY <1>1, <3>3, <3>4, <3>5, <3>6 DEF WindowSound
    <3> QED
      BY <1>1, <3>1, <3>5, <3>7, NewerFacts
  <2> QED
    BY <1>1, <1>2, <2>1, <2>2, ReadWindowSound DEF ReadingTyped
<1> QED
  BY <1>3, <1>4

LEMMA YieldNextSound ==
    ASSUME Sound, NEW c \in Consumers, YieldNext(c)
    PROVE  Sound'
<1>1. /\ TypeOK /\ ReadingSound(c) /\ OwedSound(c) /\ ReadingTyped
      /\ UNCHANGED <<producer, overrun, behind, connects>> /\ pc[c] = "yield" /\ Yield(c, items[c])
  BY DEF Sound, TypeOK, ReadingTyped, YieldNext
<1>2. /\ items[c] \in Seq(Nat) /\ items[c] # <<>> /\ Increasing(items[c]) /\ behind[c] = 0
      /\ (\A x \in ToSet(items[c]) : Own(x) /\ x > cursor[c]) /\ Chain(c, items[c])
  BY <1>1 DEF ReadingSound, ReadingTyped, OwedSound
<1>3. Dense(items[c])
  <2> SUFFICES ASSUME NEW x \in ToSet(items[c]), NEW y \in ToSet(items[c]), NEW id \in DOMAIN log,
                      y < id, id < x, Message(id)
               PROVE  id \in ToSet(items[c])
    BY DEF Dense
  <2>1. id \in Nat /\ y \in Nat /\ cursor[c] \in Nat
    BY <1>1, <1>2, OwnFacts DEF Message, ReadingTyped
  <2>2. cursor[c] < id
    BY <1>2, <2>1
  <2> QED
    BY <1>2, <2>2 DEF Chain
<1> QED
  BY <1>1, <1>2, <1>3, YieldSound DEF ReadingTyped

LEMMA AnswerSound ==
    ASSUME Sound, NEW c \in Consumers, Answer(c)
    PROVE  Sound'
<1>1. /\ TypeOK /\ ReadingSound(c) /\ OwedSound(c) /\ ReadingTyped /\ pc[c] = "asking"
      /\ UNCHANGED <<producer, cursor, delivered, owed, overrun, behind, connects>>
      /\ items' = [items EXCEPT ![c] = Replay(c)] /\ pc' = [pc EXCEPT ![c] = "answered"]
  BY DEF Sound, TypeOK, ReadingTyped, Answer
<1>2. /\ Replay(c) \in Seq(Nat) /\ Increasing(Replay(c))
      /\ \A x \in ToSet(Replay(c)) : Own(x) /\ x > cursor[c]
      /\ Own(cursor[c]) => \A x : x \in ToSet(Replay(c)) <=> Message(x) /\ x > cursor[c]
      /\ ToSet(Replay(c)) = {} \/ \A x : x \in ToSet(Replay(c)) <=> Message(x) /\ x > cursor[c]
  BY <1>1, ReplayFacts
<1>3. items'[c] = Replay(c) /\ pc'[c] = "answered"
  BY <1>1 DEF ReadingTyped
<1>4. OthersKeep(c)
  BY <1>1 DEF OthersKeep, ReadingTyped
<1>5. ReadingTyped'
  BY <1>1, <1>2 DEF ReadingTyped, Connected
<1>6. log' = log /\ window' = window /\ \A x : (Own(x)' <=> Own(x)) /\ (Message(x)' <=> Message(x))
  BY <1>1 DEF producer, Own, Message
<1>7. ReadingSound(c)'
  BY <1>1, <1>2, <1>3, <1>6 DEF ReadingSound
<1>8. owed'[c] # 0 => Own(cursor[c])' /\ Complete(c)'
  <2>1. Own(cursor[c])' <=> Own(cursor[c])
    BY <1>1, <1>6
  <2> QED
    BY <1>1, <1>6, <2>1 DEF OwedSound, Complete
<1>9. Chain(c, items[c])'
  <2> SUFFICES ASSUME NEW x \in ToSet(Replay(c)), NEW id \in DOMAIN log, cursor[c] < id, id < x, Message(id)
               PROVE  id \in ToSet(Replay(c))
    BY <1>1, <1>3, <1>6 DEF Chain
  <2>1. id \in Nat /\ cursor[c] \in Nat
    BY <1>1, OwnFacts DEF Message, ReadingTyped
  <2> QED
    BY <1>2, <2>1
<1>10. CaughtUp(c)'
  <2> SUFFICES ASSUME Replay(c) = <<>>, Own(cursor[c]), NEW id \in DOMAIN log, Message(id), id > cursor[c]
               PROVE  FALSE
    <3>1. behind'[c] = 0 /\ 0 <= Len(window)
      BY <1>1, LenProperties DEF ReadingSound, TypeOK
    <3> QED
      BY <1>1, <1>3, <1>6, <3>1 DEF CaughtUp
  <2> QED
    BY <1>2, EmptyFacts
<1>11. OwedSound(c)'
  BY <1>8, <1>9, <1>10 DEF OwedSound
<1> QED
  BY <1>1, <1>4, <1>5, <1>7, <1>11, ConsumerSound

LEMMA ResumeSound ==
    ASSUME Sound, NEW c \in Consumers, Resume(c)
    PROVE  Sound'
<1>1. /\ TypeOK /\ WindowSound /\ ReadingSound(c) /\ OwedSound(c) /\ ReadingTyped /\ pc[c] = "answered"
      /\ UNCHANGED <<producer, connects>> /\ behind' = [behind EXCEPT ![c] = 0]
  BY DEF Sound, TypeOK, ReadingTyped, Resume
<1>2. /\ behind' \in [Consumers -> Nat] /\ behind'[c] = 0
      /\ \A d \in Consumers : d # c => behind'[d] = behind[d]
  BY <1>1 DEF ReadingTyped
<1>3. CASE items[c] # <<>>
  <2>1. Yield(c, items[c]) /\ UNCHANGED overrun
    BY <1>3 DEF Resume
  <2>2. /\ items[c] \in Seq(Nat) /\ Increasing(items[c])
        /\ (\A x \in ToSet(items[c]) : Own(x) /\ x > cursor[c]) /\ Chain(c, items[c])
    BY <1>1 DEF ReadingSound, ReadingTyped, OwedSound
  <2>3. Dense(items[c])
    <3> SUFFICES ASSUME NEW x \in ToSet(items[c]), NEW y \in ToSet(items[c]), NEW id \in DOMAIN log,
                        y < id, id < x, Message(id)
                 PROVE  id \in ToSet(items[c])
      BY DEF Dense
    <3>1. id \in Nat /\ y \in Nat /\ cursor[c] \in Nat
      BY <1>1, <2>2, OwnFacts DEF Message, ReadingTyped
    <3>2. cursor[c] < id
      BY <2>2, <3>1
    <3> QED
      BY <2>2, <3>2 DEF Chain
  <2>4. overrun' \in [Consumers -> BOOLEAN] /\ (overrun[c] => overrun'[c])
        /\ \A d \in Consumers : d # c => overrun'[d] = overrun[d]
    BY <1>1, <2>1 DEF ReadingTyped
  <2> QED
    BY <1>1, <1>2, <1>3, <2>1, <2>2, <2>3, <2>4, YieldSound
<1>4. CASE items[c] = <<>>
  <2>1. ReadWindow(c) /\ overrun' = [overrun EXCEPT ![c] = overrun[c] \/ behind[c] > MaxLen]
    BY <1>4 DEF Resume
  <2>2. /\ overrun' \in [Consumers -> BOOLEAN] /\ overrun'[c] = (overrun[c] \/ behind[c] > MaxLen)
        /\ \A d \in Consumers : d # c => overrun'[d] = overrun[d]
    BY <1>1, <2>1 DEF ReadingTyped
  <2>3. owed[c] = 0 \/ overrun'[c] \/ Chain(c, Newer(c))
    <3> SUFFICES ASSUME owed[c] # 0, ~ overrun'[c], NEW x \in ToSet(Newer(c)), NEW id \in DOMAIN log,
                        cursor[c] < id, id < x, Message(id)
                 PROVE  id \in ToSet(Newer(c))
      BY DEF Chain
    <3>1. Own(cursor[c]) /\ id \in Nat /\ cursor[c] \in Nat /\ id > cursor[c]
      BY <1>1, OwnFacts DEF OwedSound, Message
    <3>2. behind[c] <= MaxLen
      <4>1. ~ (behind[c] > MaxLen)
        BY <2>2, Zenon
      <4> QED
        BY <1>1, <4>1, WindowAssumption DEF ReadingTyped
    <3>3. \/ \E k \in 1..Len(window) : window[k] = id /\ k + behind[c] > Len(window)
          \/ \A y \in ToSet(window) : y < id
      BY <1>1, <1>4, <3>1, <3>2 DEF OwedSound, CaughtUp
    <3>4. x \in ToSet(window) /\ x \in Nat /\ window \in Seq(Nat)
      BY <1>1, NewerFacts, OwnFacts DEF WindowSound, TypeOK
    <3>5. ~ (x < id)
      BY <3>1, <3>4
    <3>6. id \in ToSet(window)
      BY <3>3, <3>4, <3>5, ToSetDef
    <3> QED
      BY <1>1, <3>1, <3>6, NewerFacts
  <2>4. overrun[c] => overrun'[c]
    BY <2>2
  <2> QED
    BY <1>1, <1>2, <1>4, <2>1, <2>2, <2>3, <2>4, ReadWindowSound
<1> QED
  BY <1>3, <1>4

LEMMA ConnectSound ==
    ASSUME Sound, NEW c \in Consumers, Connect(c)
    PROVE  Sound'
<1>1. /\ TypeOK /\ WindowSound /\ ReadingSound(c) /\ OwedSound(c) /\ ReadingTyped /\ pc[c] \in Released
      /\ UNCHANGED <<producer, items, delivered, overrun, behind>>
      /\ connects' = [connects EXCEPT ![c] = connects[c] + 1] /\ pc' = [pc EXCEPT ![c] = "top"]
      /\ owed' = [owed EXCEPT ![c] = IF owed[c] = 0 /\ cursor'[c] # 0 /\ log[cursor'[c]].own
                                     THEN cursor'[c] ELSE owed[c]]
  BY DEF Sound, TypeOK, ReadingTyped, Connect
<1>2. PICK k \in (IF cursor[c] # 0 THEN {cursor[c]}
                  ELSE {0} \cup DOMAIN log \cup (IF window = <<>> THEN {} ELSE {Last(window)})) :
          cursor' = [cursor EXCEPT ![c] = k]
  BY DEF Connect
<1>3. /\ cursor[c] \in 0..Len(log) /\ DOMAIN log = 1..Len(log) /\ Len(log) \in Nat
      /\ items[c] = <<>> /\ behind[c] = 0
  BY <1>1, LenProperties DEF ReadingSound, TypeOK, Released
<1>4. k \in 0..Len(log) /\ (cursor[c] # 0 => k = cursor[c])
  <2>1. window # <<>> => Last(window) \in 1..Len(log)
    <3> SUFFICES ASSUME window # <<>> PROVE Last(window) \in 1..Len(log)
      OBVIOUS
    <3>1. window[Len(window)] \in ToSet(window)
      BY <1>1, LastFacts DEF TypeOK, WindowSound
    <3> QED
      BY <1>1, <1>3, <3>1 DEF WindowSound, Own, Last
  <2> QED
    BY <1>2, <1>3, <2>1
<1>5. /\ cursor'[c] = k /\ pc'[c] = "top"
      /\ owed'[c] = (IF owed[c] = 0 /\ k # 0 /\ log[k].own THEN k ELSE owed[c])
  <2>1. cursor'[c] = k
    BY <1>1, <1>2 DEF ReadingTyped
  <2> QED
    BY <1>1, <2>1 DEF ReadingTyped
<1>6. OthersKeep(c)
  BY <1>1, <1>2 DEF OthersKeep, ReadingTyped
<1>7. ReadingTyped'
  <2>1. owed'[c] \in Nat
    BY <1>1, <1>4, <1>5 DEF ReadingTyped
  <2>2. owed' \in [Consumers -> Nat]
    BY <1>1, <1>3, <1>4, <1>5 DEF ReadingTyped
  <2>3. cursor' \in [Consumers -> Nat] /\ connects' \in [Consumers -> Nat]
    BY <1>1, <1>2, <1>3, <1>4 DEF ReadingTyped
  <2>4. pc' \in [Consumers -> Connected \cup Released]
    BY <1>1 DEF ReadingTyped, Connected
  <2> QED
    BY <1>1, <2>2, <2>3, <2>4 DEF ReadingTyped
<1>8. log' = log /\ \A x : (Own(x)' <=> Own(x)) /\ (Message(x)' <=> Message(x))
  BY <1>1 DEF producer, Own, Message
<1>9. ReadingSound(c)'
  <2>1. \A x \in ToSet(delivered[c]) : Own(x) /\ x <= k
    <3> SUFFICES ASSUME NEW x \in ToSet(delivered[c]) PROVE Own(x) /\ x <= k
      OBVIOUS
    <3>1. Own(x) /\ x <= cursor[c] /\ x >= 1 /\ x \in Nat
      BY <1>1, OwnFacts DEF ReadingSound
    <3>2. cursor[c] # 0
      BY <3>1
    <3> QED
      BY <1>4, <3>1, <3>2
  <2> QED
    BY <1>1, <1>3, <1>4, <1>5, <1>8, <2>1, EmptyFacts DEF ReadingSound
<1>10. owed'[c] # 0 => Own(k) /\ Complete(c)'
  <2> SUFFICES ASSUME owed'[c] # 0 PROVE Own(k) /\ Complete(c)'
    OBVIOUS
  <2>1. CASE owed[c] # 0
    <3>1. Own(cursor[c]) /\ Complete(c) /\ cursor[c] # 0
      BY <1>1, <2>1, OwnFacts DEF OwedSound
    <3>2. k = cursor[c] /\ owed'[c] = owed[c]
      BY <1>4, <1>5, <2>1, <3>1
    <3> QED
      BY <1>1, <1>5, <1>8, <3>1, <3>2 DEF Complete
  <2>2. CASE owed[c] = 0
    <3>1. k # 0 /\ log[k].own /\ owed'[c] = k
      BY <1>5, <2>2
    <3>2. Own(k)
      BY <1>3, <1>4, <3>1 DEF Own
    <3>3. \A id \in DOMAIN log : ~ (k < id /\ id <= k)
      BY <1>3, <1>4
    <3>4. Complete(c)'
      BY <1>5, <1>8, <3>1, <3>3 DEF Complete
    <3> QED
      BY <3>2, <3>4
  <2> QED
    BY <2>1, <2>2
<1>11. Own(cursor[c])' <=> Own(k)
  BY <1>5, <1>8 DEF Own
<1>12. Chain(c, items[c])' /\ CaughtUp(c)'
  BY <1>1, <1>3, <1>5, EmptyFacts DEF Chain, CaughtUp
<1>13. OwedSound(c)'
  BY <1>10, <1>11, <1>12 DEF OwedSound
<1> QED
  BY <1>1, <1>6, <1>7, <1>9, <1>13, ConsumerSound

LEMMA AwaySound ==
    ASSUME Sound, NEW c \in Consumers, ReplayFails(c) \/ Leave(c)
    PROVE  Sound'
<1>1. ReadingSound(c) /\ ReadingTyped
  BY DEF Sound, TypeOK, ReadingTyped
<1>2. CASE ReplayFails(c)
  <2>1. /\ pc[c] = "asking" /\ pc' = [pc EXCEPT ![c] = "raised"]
        /\ UNCHANGED <<producer, cursor, items, delivered, owed, overrun, behind, connects>>
    BY <1>2 DEF ReplayFails, reading
  <2>2. pc' \in [Consumers -> Connected \cup Released] /\ pc'[c] = "raised"
    BY <1>1, <2>1 DEF ReadingTyped, Released
  <2>3. OthersKeep(c) /\ ReadingTyped'
    BY <1>1, <2>1, <2>2 DEF OthersKeep, ReadingTyped
  <2>4. items[c] = <<>> /\ behind[c] = 0
    BY <1>1, <2>1 DEF ReadingSound
  <2> QED
    BY <2>1, <2>2, <2>3, <2>4, PauseSound
<1>3. CASE Leave(c)
  <2>1. /\ pc' = [pc EXCEPT ![c] = "away"] /\ items' = [items EXCEPT ![c] = <<>>]
        /\ behind' = [behind EXCEPT ![c] = 0]
        /\ UNCHANGED <<producer, cursor, delivered, owed, overrun, connects>>
    BY <1>3 DEF Leave
  <2>2. /\ pc' \in [Consumers -> Connected \cup Released] /\ pc'[c] = "away"
        /\ behind' \in [Consumers -> Nat] /\ behind'[c] = 0
    BY <1>1, <2>1 DEF ReadingTyped, Released
  <2>3. items' \in [Consumers -> Seq(Nat)] /\ items'[c] = <<>>
    BY <1>1, <2>1, EmptyFacts DEF ReadingTyped
  <2>4. OthersKeep(c) /\ ReadingTyped'
    BY <1>1, <2>1, <2>2, <2>3 DEF OthersKeep, ReadingTyped
  <2> QED
    BY <2>1, <2>2, <2>3, <2>4, PauseSound
<1> QED
  BY <1>2, <1>3

-------------------------------------------------------------------------------
(* The specification. *)

LEMMA SoundInit == Init => Sound
<1> SUFFICES ASSUME Init PROVE Sound
  OBVIOUS
<1>1. PICK n \in 0..1 : log \in [1..n -> [own : BOOLEAN, msg : {TRUE}]]
  BY DEF Init
<1>2. log \in Seq(Events) /\ Len(log) = n /\ DOMAIN log = 1..n
  <2>1. log \in [1..n -> Events] /\ n \in Nat
    <3>1. [own : BOOLEAN, msg : {TRUE}] \subseteq Events
      BY DEF Events
    <3>2. (\A i \in 1..n : log[i] \in Events) /\ log = [i \in 1..n |-> log[i]]
      BY <1>1, <3>1
    <3> QED
      BY <3>2
  <2>2. log \in Seq(Events)
    BY <2>1, SeqDef
  <2> QED
    BY <2>1, <2>2, LenProperties
<1>3. TypeOK
  <2>1. log \in Seq([own : BOOLEAN, msg : BOOLEAN]) /\ Len(log) <= MaxId + 1
    BY <1>2, WindowAssumption DEF Events
  <2>2. window \in Seq(Nat) /\ Len(window) <= MaxLen
    BY WindowAssumption, EmptyFacts DEF Init
  <2>3. "away" \in Connected \cup Released
    BY DEF Released
  <2> QED
    BY <2>1, <2>2, <2>3, EmptyFacts DEF Init, TypeOK
<1>4. WindowSound
  BY <1>2, EmptyFacts DEF Init, WindowSound
<1>5. ASSUME NEW c \in Consumers PROVE ReadingSound(c) /\ OwedSound(c)
  BY <1>2, EmptyFacts DEF Init, ReadingSound, OwedSound, Complete, Chain, CaughtUp
<1> QED
  BY <1>3, <1>4, <1>5 DEF Sound

LEMMA SoundStep == Sound /\ [Next]_vars => Sound'
<1> SUFFICES ASSUME Sound, [Next]_vars PROVE Sound'
  OBVIOUS
<1>1. CASE Frame \/ Commit \/ Ended \/ OtherStream
  BY <1>1, LogStepSound
<1>2. CASE Ingested
  BY <1>2, IngestedSound
<1>3. ASSUME NEW c \in Consumers, Connect(c) \/ Read(c) \/ ReplayFails(c) \/ Leave(c) PROVE Sound'
  BY <1>3, ConnectSound, PassSound, YieldNextSound, AnswerSound, ResumeSound, AwaySound DEF Read
<1>4. CASE UNCHANGED vars
  <2>1. UNCHANGED <<log, window, task, failed, frame, taken, pc, cursor, items, delivered, owed, overrun,
                    behind, connects>>
    BY <1>4 DEF vars, producer, reading
  <2>2. TypeOK' /\ WindowSound'
    BY <2>1 DEF Sound, TypeOK, WindowSound, Own
  <2>3. ASSUME NEW c \in Consumers PROVE ReadingSound(c)' /\ OwedSound(c)'
    BY <2>1 DEF Sound, ReadingSound, OwedSound, Complete, Chain, CaughtUp, Own, Message
  <2> QED
    BY <2>2, <2>3 DEF Sound
<1> QED
  BY <1>1, <1>2, <1>3, <1>4 DEF Next

LEMMA AlwaysSound == Spec => []Sound
BY SoundInit, SoundStep, PTL DEF Spec

(* Every variable of the buffer and of its readers keeps to its kind, and  *)
(* the window never holds more than maxlen events, whatever the store, the *)
(* upstream and the clients do (_stream_buffer.py:92-123, 186-237).        *)
THEOREM StreamTyped == Spec => []TypeOK
<1>1. Sound => TypeOK
  BY DEF Sound
<1> QED
  BY <1>1, AlwaysSound, PTL

(* However often a client reconnects, and with whatever id, and whether an *)
(* event reaches it by a replay or from the window, it is given each event *)
(* of the stream once and in order (_stream_buffer.py:186-237).            *)
THEOREM ReadsOnceInOrder == Spec => []OnceInOrder
<1>1. Sound => OnceInOrder
  BY DEF Sound, ReadingSound, OnceInOrder, Own
<1> QED
  BY <1>1, AlwaysSound, PTL

(* A client that is owed the messages from some event on misses none of    *)
(* them, for every size of the window: the switch from replay to window    *)
(* loses a message only after more than maxlen frames came in unread       *)
(* (_stream_buffer.py:163-165, 186-237).                                   *)
THEOREM NothingMissed == Spec => []NoSkipWithinWindow
<1>1. Sound => NoSkipWithinWindow
  <2> SUFFICES ASSUME Sound, NEW c \in Consumers, owed[c] # 0, ~ overrun[c], Skips(c) PROVE FALSE
    BY DEF NoSkipWithinWindow
  <2>1. PICK id \in (owed[c] + 1)..cursor[c] : log[id].own /\ log[id].msg /\ id \notin ToSet(delivered[c])
    BY DEF Skips
  <2>2. /\ owed[c] \in Nat /\ cursor[c] \in 0..Len(log) /\ DOMAIN log = 1..Len(log) /\ Len(log) \in Nat
        /\ Complete(c)
    BY LenProperties DEF Sound, TypeOK, ReadingSound, OwedSound
  <2>3. id \in DOMAIN log /\ owed[c] < id /\ id <= cursor[c]
    BY <2>1, <2>2
  <2> QED
    BY <2>1, <2>2, <2>3 DEF Complete, Message, Own
<1> QED
  BY <1>1, AlwaysSound, PTL
===============================================================================
