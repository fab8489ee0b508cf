------------------------- MODULE RecordStores_proofs -------------------------
(***************************************************************************)
(* Proofs about RecordFlusher, for every queue and batch size and with no  *)
(* bound on records, restarts and cancellations, and about RecordStores    *)
(* over it: any ttl, page size and limit of a listing.                     *)
(***************************************************************************)
EXTENDS RecordStores, OrderedSequences_proofs, FiniteSetTheorems

(* Where the lifespan and the writer can be at the same time, and what the *)
(* queue's count of unfinished items counts.                               *)
Phases ==
    /\ writer # "write" => batch = <<>>
    /\ cancelled => writer # "dead"
    /\ ~task => writer = "dead"
    /\ life \in {"joining", "joined", "stopping"} => task
    /\ life = "starting" => ~task /\ ~accounted
    /\ accounted => life = "stopping" \/ ~task
    /\ life = "stopping" => cancelled \/ writer = "dead"
    /\ unfinished = Len(queue) + Len(batch)

(* Records move in order from the queue to the batch to the backend, and   *)
(* none is in two places.                                                  *)
Places ==
    /\ IsFiniteSet(stored)
    /\ Increasing(batch \o queue)
    /\ \A x \in ToSet(batch \o queue) : x <= submitted /\ x \notin stored
    /\ \A x \in stored \cup owed : x <= submitted

FlusherInv == TypeOK /\ Phases /\ Places /\ Accounting

-------------------------------------------------------------------------------
(* A batch taken off the queue and what stays make up the queue. *)
LEMMA SplitFacts ==
    ASSUME NEW s \in Seq(Nat), NEW n \in 0..Len(s)
    PROVE  /\ SubSeq(s, 1, n) \in Seq(Nat) /\ Len(SubSeq(s, 1, n)) = n
           /\ SubSeq(s, n + 1, Len(s)) \in Seq(Nat)
           /\ Len(SubSeq(s, n + 1, Len(s))) = Len(s) - n
           /\ SubSeq(s, 1, n) \o SubSeq(s, n + 1, Len(s)) = s
<1>1. Len(s) \in Nat /\ \A i \in 1..Len(s) : s[i] \in Nat
  BY ToSetDef
<1>2. SubSeq(s, 1, n) \in Seq(Nat) /\ Len(SubSeq(s, 1, n)) = n
  <2>1. \A i \in 1..n : s[i] \in Nat
    BY <1>1
  <2>2. /\ SubSeq(s, 1, n) \in Seq(Nat)
        /\ Len(SubSeq(s, 1, n)) = IF 1 <= n THEN n - 1 + 1 ELSE 0
    BY <1>1, <2>1, SubSeqProperties
  <2> QED
    BY <1>1, <2>2
<1>3. SubSeq(s, 1, n) \o SubSeq(s, n + 1, Len(s)) = SubSeq(s, 1, Len(s))
  <2>1. 1 \in 1..(Len(s) + 1) /\ n \in (1 - 1)..Len(s) /\ Len(s) \in n..Len(s)
    BY <1>1
  <2> QED
    BY ONLY <2>1, s \in Seq(Nat), ConcatAdjacentSubSeq
<1>4. SubSeq(s, 1, Len(s)) = s
  BY SubSeqFull
<1> QED
  <2>1. n \in Nat /\ n <= Len(s)
    BY <1>1
  <2> QED
    BY <1>2, <1>3, <1>4, <2>1, SuffixFacts

(* A set of records of a batch is finite and no larger than the batch. *)
LEMMA PartFacts ==
    ASSUME NEW s \in Seq(Nat), NEW S \in SUBSET ToSet(s)
    PROVE  /\ S \subseteq Nat /\ IsFiniteSet(S)
           /\ Cardinality(S) \in Nat /\ Cardinality(S) <= Len(s)
<1>1. Len(s) \in Nat /\ s \in [1..Len(s) -> Nat] /\ DOMAIN s = 1..Len(s)
  BY LenProperties
<1>2. IsFiniteSet(1..Len(s)) /\ Cardinality(1..Len(s)) = Len(s)
  <2>1. 1 \in Int /\ Len(s) \in Int
    BY <1>1
  <2>2. /\ IsFiniteSet(1..Len(s))
        /\ Cardinality(1..Len(s)) = IF 1 > Len(s) THEN 0 ELSE Len(s) - 1 + 1
    BY <2>1, FS_Interval
  <2> QED
    BY <1>1, <2>2
<1>3. s \in Surjection(1..Len(s), ToSet(s))
  BY <1>1 DEF Surjection, ToSet
<1>4. IsFiniteSet(ToSet(s)) /\ Cardinality(ToSet(s)) <= Len(s)
  BY <1>2, <1>3, FS_Surjection
<1>5. IsFiniteSet(S) /\ Cardinality(S) <= Cardinality(ToSet(s))
  BY <1>4, FS_Subset
<1>6. Cardinality(S) \in Nat /\ Cardinality(ToSet(s)) \in Nat
  BY <1>4, <1>5, FS_CardinalityType
<1> QED
  BY <1>1, <1>4, <1>5, <1>6, ToSetDef

-------------------------------------------------------------------------------
(* The initial state satisfies the invariant. *)
LEMMA FlusherInit == Init => FlusherInv
<1> SUFFICES ASSUME Init PROVE FlusherInv
  OBVIOUS
<1>1. /\ <<>> \in Seq(Nat) /\ Len(<<>>) = 0 /\ ToSet(<<>>) = {}
      /\ Increasing(<<>>) /\ <<>> \o <<>> = <<>>
  BY EmptyFacts
<1>2. IsFiniteSet({})
  BY FS_EmptySet
<1>3. TypeOK
  <2>1. 0 \in Nat /\ 0 <= MaxQueue /\ 0 <= BatchSize
    BY LimitAssumption
  <2> QED
    BY <1>1, <2>1 DEF Init, TypeOK
<1> QED
  BY <1>1, <1>2, <1>3 DEF Init, FlusherInv, Phases, Places, Accounting, Excused

(* A record is queued behind all others, or counted as dropped. *)
LEMMA SubmitStep == FlusherInv /\ Submit => FlusherInv'
<1> SUFFICES ASSUME FlusherInv, Submit PROVE FlusherInv'
  OBVIOUS
<1> USE DEF lifespan
<1>1. CASE Len(queue) < MaxQueue
  <2>1. /\ queue' = Append(queue, submitted + 1) /\ unfinished' = unfinished + 1
        /\ submitted' = submitted + 1
        /\ UNCHANGED <<writer, batch, cancelled, lifespan, counters, stored, charged, faults>>
    BY <1>1 DEF Submit, counters
  <2>2. /\ queue \in Seq(Nat) /\ batch \in Seq(Nat) /\ submitted \in Nat
        /\ Len(queue) \in Nat /\ Len(batch) \in Nat
    BY ToSetDef DEF FlusherInv, TypeOK
  <2>3. /\ queue' \in Seq(Nat) /\ Len(queue') = Len(queue) + 1
        /\ ToSet(queue') = ToSet(queue) \cup {submitted + 1}
        /\ Increasing(queue') <=> Increasing(queue) /\ \A x \in ToSet(queue) : x < submitted + 1
    BY <2>1, <2>2, AppendFacts
  <2>4. TypeOK'
    BY <1>1, <2>1, <2>2, <2>3, LimitAssumption DEF FlusherInv, TypeOK, counters
  <2>5. Phases'
    BY <2>1, <2>2, <2>3 DEF FlusherInv, Phases, TypeOK
  <2>6. Places'
    <3>1. /\ ToSet(batch \o queue) = ToSet(batch) \cup ToSet(queue)
          /\ ToSet(batch \o queue') = ToSet(batch) \cup ToSet(queue')
      BY <2>2, <2>3, ToSetConcat
    <3>2. /\ Increasing(batch \o queue) <=>
                /\ Increasing(batch) /\ Increasing(queue)
                /\ \A x \in ToSet(batch), y \in ToSet(queue) : x < y
          /\ Increasing(batch \o queue') <=>
                /\ Increasing(batch) /\ Increasing(queue')
                /\ \A x \in ToSet(batch), y \in ToSet(queue') : x < y
      BY <2>2, <2>3, IncreasingConcat
    <3>3. ToSet(batch) \subseteq Nat /\ ToSet(queue) \subseteq Nat
      BY <2>2, ToSetDef
    <3>4. stored \subseteq Nat /\ owed \subseteq Nat /\ stored' = stored /\ owed' = owed /\ batch' = batch
      BY <2>1 DEF FlusherInv, TypeOK
    <3>5. Increasing(batch \o queue')
      BY <2>2, <2>3, <3>1, <3>2, <3>3 DEF FlusherInv, Places
    <3>6. \A x \in ToSet(batch \o queue') : x <= submitted + 1 /\ x \notin stored
      BY <2>2, <2>3, <3>1, <3>3, <3>4 DEF FlusherInv, Places
    <3>7. \A x \in stored \cup owed : x <= submitted + 1
      BY <2>2, <3>4 DEF FlusherInv, Places
    <3> QED
      BY <2>1, <3>4, <3>5, <3>6, <3>7 DEF FlusherInv, Places
  <2>7. Accounting'
    <3>1. Excused' = Excused
      BY <2>1 DEF Excused
    <3>2. Excused \in Nat
      BY <2>2 DEF Excused
    <3> QED
      BY <2>1, <2>2, <2>3, <3>1, <3>2 DEF FlusherInv, Accounting, TypeOK, counters
  <2> QED
    BY <2>4, <2>5, <2>6, <2>7 DEF FlusherInv
<1>2. CASE ~(Len(queue) < MaxQueue)
  <2>1. /\ dropped' = dropped + 1 /\ submitted' = submitted + 1
        /\ UNCHANGED <<queue, unfinished, writer, batch, cancelled, lifespan, written,
                       failed, stored, charged, faults>>
    BY <1>2 DEF Submit
  <2>2. /\ Len(queue) \in Nat /\ Len(batch) \in Nat
    BY ToSetDef DEF FlusherInv, TypeOK
  <2>3. TypeOK'
    BY <2>1 DEF FlusherInv, TypeOK
  <2>4. Phases'
    BY <2>1 DEF FlusherInv, Phases
  <2>5. Places'
    <3>1. batch \o queue \in Seq(Nat)
      BY ConcatDef DEF FlusherInv, TypeOK
    <3>2. ToSet(batch \o queue) \subseteq Nat /\ stored \cup owed \subseteq Nat /\ submitted \in Nat
      BY <3>1, ToSetDef DEF FlusherInv, TypeOK
    <3> QED
      BY <2>1, <3>2 DEF FlusherInv, Places
  <2>6. Accounting'
    <3>1. Excused' = Excused
      BY <2>1 DEF Excused
    <3>2. Excused \in Nat
      BY <2>2 DEF Excused
    <3> QED
      BY <2>1, <2>2, <3>1, <3>2 DEF FlusherInv, Accounting, TypeOK
  <2> QED
    BY <2>3, <2>4, <2>5, <2>6 DEF FlusherInv
<1> QED
  BY <1>1, <1>2

(* The writer takes records off the head of the queue. *)
LEMMA CollectStep == FlusherInv /\ Collect => FlusherInv'
<1> SUFFICES ASSUME FlusherInv, Collect PROVE FlusherInv'
  OBVIOUS
<1> DEFINE n == IF Len(queue) < BatchSize THEN Len(queue) ELSE BatchSize
<1>1. /\ batch' = SubSeq(queue, 1, n) /\ queue' = SubSeq(queue, n + 1, Len(queue))
      /\ writer = "get" /\ ~cancelled /\ writer' = "write"
      /\ UNCHANGED <<unfinished, cancelled, lifespan, counters, submitted, stored,
                     charged, faults>>
  BY DEF Collect
<1>9. /\ unfinished' = unfinished /\ written' = written /\ dropped' = dropped
      /\ failed' = failed /\ submitted' = submitted /\ charged' = charged
  BY <1>1 DEF counters
<1>2. queue \in Seq(Nat) /\ Len(queue) \in Nat /\ BatchSize \in Nat /\ n \in 0..Len(queue)
      /\ n <= BatchSize
  BY ToSetDef, LimitAssumption DEF FlusherInv, TypeOK
<1> HIDE DEF n
<1>3. /\ batch' \in Seq(Nat) /\ Len(batch') = n
      /\ queue' \in Seq(Nat) /\ Len(queue') = Len(queue) - n
      /\ batch' \o queue' = queue
  BY <1>1, <1>2, SplitFacts
<1>4. batch = <<>> /\ Len(batch) = 0 /\ batch \o queue = queue
  BY <1>1, <1>2, EmptyFacts, ConcatEmptySeq DEF FlusherInv, Phases
<1>5. TypeOK'
  <2>1. Len(queue') <= MaxQueue /\ Len(batch') <= BatchSize
    BY <1>2, <1>3, LimitAssumption DEF FlusherInv, TypeOK
  <2> QED
    BY <1>1, <1>3, <2>1 DEF FlusherInv, TypeOK, lifespan, counters
<1>6. Phases'
  <2>1. unfinished' = Len(queue') + Len(batch')
    <3>1. unfinished = Len(queue) + Len(batch)
      BY DEF FlusherInv, Phases
    <3> QED
      BY <1>2, <1>3, <1>4, <1>9, <3>1
  <2> QED
    BY <1>1, <2>1 DEF FlusherInv, Phases, lifespan
<1>7. Places'
  BY <1>1, <1>3, <1>4 DEF FlusherInv, Places, lifespan
<1>8. Accounting'
  <2>1. life # "stopping"
    BY <1>1 DEF FlusherInv, Phases
  <2>2. Excused = 0 /\ Excused' = 0
    BY <1>1, <2>1 DEF Excused, lifespan
  <2>3. Len(queue') + Len(batch') = Len(queue) + Len(batch)
    BY <1>2, <1>3, <1>4
  <2>4. /\ Len(queue') \in Nat /\ Len(batch') \in Nat /\ Len(queue) \in Nat /\ Len(batch) \in Nat
        /\ written \in Nat /\ dropped \in Nat /\ failed \in Nat
        /\ submitted \in Nat /\ charged \in Nat
    BY <1>2, <1>3, <1>4 DEF FlusherInv, TypeOK
  <2>5. written + dropped + failed + Len(queue) + Len(batch) = submitted + charged
    BY <2>2, <2>4 DEF FlusherInv, Accounting
  <2>6. written + dropped + failed + Len(queue') + Len(batch') = submitted + charged
    BY ONLY <2>3, <2>4, <2>5
  <2> QED
    BY <1>9, <2>2, <2>4, <2>6 DEF Accounting
<1> QED
  BY <1>5, <1>6, <1>7, <1>8 DEF FlusherInv

(* The end of a batch, whatever became of it: some of its records are in   *)
(* the backend, none is left in the writer.                                *)
LEMMA BatchOverFacts ==
    ASSUME FlusherInv, BatchOver, NEW S \in SUBSET ToSet(batch), stored' = stored \cup S,
           queue' = queue, submitted' = submitted
    PROVE  /\ batch' = <<>> /\ batch' \in Seq(Nat) /\ Len(batch') = 0
           /\ unfinished' \in Nat /\ unfinished' = Len(queue')
           /\ \/ life' = life
              \/ life = "joining" /\ life' = "joined"
           /\ UNCHANGED <<task, closing, accounted, owed, starts>>
           /\ stored' \in SUBSET Nat
           /\ Places'
<1>1. /\ queue \in Seq(Nat) /\ batch \in Seq(Nat) /\ stored \subseteq Nat /\ owed \subseteq Nat
      /\ submitted \in Nat /\ Len(queue) \in Nat /\ Len(batch) \in Nat
  BY ToSetDef DEF FlusherInv, TypeOK
<1>2. /\ batch' = <<>> /\ batch' \in Seq(Nat) /\ Len(batch') = 0
      /\ UNCHANGED <<task, closing, accounted, owed, starts>>
      /\ (life' = life \/ (life = "joining" /\ life' = "joined"))
  BY EmptyFacts DEF BatchOver
<1>3. unfinished' \in Nat /\ unfinished' = Len(queue')
  <2>1. unfinished = Len(queue) + Len(batch) /\ unfinished' = unfinished - Len(batch)
    BY DEF FlusherInv, Phases, BatchOver
  <2> QED
    BY <1>1, <2>1
<1>4. S \subseteq Nat /\ IsFiniteSet(S) /\ stored' \in SUBSET Nat
  BY <1>1, PartFacts
<1>5. Places'
  <2>1. batch' \o queue' = queue
    BY <1>1, <1>2, ConcatEmptySeq
  <2>2. ToSet(batch \o queue) = ToSet(batch) \cup ToSet(queue)
    BY <1>1, ToSetConcat
  <2>3. /\ Increasing(batch) /\ Increasing(queue)
        /\ \A x \in ToSet(batch), y \in ToSet(queue) : x < y
    BY <1>1, IncreasingConcat DEF FlusherInv, Places
  <2>4. ToSet(batch) \subseteq Nat /\ ToSet(queue) \subseteq Nat
    BY <1>1, ToSetDef
  <2>5. IsFiniteSet(stored \cup S)
    BY <1>4, FS_Union DEF FlusherInv, Places
  <2>6. \A x \in ToSet(queue) : x <= submitted /\ x \notin stored \cup S
    BY <2>2, <2>3, <2>4 DEF FlusherInv, Places
  <2>7. \A x \in stored \cup S \cup owed : x <= submitted
    BY <2>2 DEF FlusherInv, Places
  <2> QED
    BY <1>2, <2>1, <2>3, <2>5, <2>6, <2>7 DEF Places
<1> QED
  BY <1>2, <1>3, <1>4, <1>5

(* The backend takes some of the batch, or raises after taking some. *)
LEMMA AnswerStep == FlusherInv /\ (WriteOk \/ WriteFail) => FlusherInv'
<1> SUFFICES ASSUME FlusherInv, WriteOk \/ WriteFail PROVE FlusherInv'
  OBVIOUS
<1>1. /\ writer = "write" /\ ~cancelled /\ writer' = "get" /\ BatchOver
      /\ UNCHANGED <<queue, cancelled, dropped, submitted, charged, faults>>
  BY DEF WriteOk, WriteFail
<1>2. PICK S \in SUBSET ToSet(batch) :
            /\ stored' = stored \cup S
            /\ \/ /\ written' = written + Cardinality(S)
                  /\ failed' = failed + (Len(batch) - Cardinality(S))
               \/ written' = written /\ failed' = failed + Len(batch)
  BY DEF WriteOk, WriteFail
<1>3. /\ batch' = <<>> /\ batch' \in Seq(Nat) /\ Len(batch') = 0
      /\ unfinished' \in Nat /\ unfinished' = Len(queue')
      /\ (life' = life \/ (life = "joining" /\ life' = "joined"))
      /\ UNCHANGED <<task, closing, accounted, owed, starts>>
      /\ stored' \in SUBSET Nat
      /\ Places'
  BY <1>1, <1>2, BatchOverFacts
<1>4. /\ batch \in Seq(Nat) /\ Len(batch) \in Nat /\ Len(queue) \in Nat
      /\ Cardinality(S) \in Nat /\ Cardinality(S) <= Len(batch)
  BY PartFacts, ToSetDef DEF FlusherInv, TypeOK
<1>5. /\ written \in Nat /\ failed \in Nat /\ dropped \in Nat /\ submitted \in Nat /\ charged \in Nat
  BY DEF FlusherInv, TypeOK
<1>6. /\ written' \in Nat /\ failed' \in Nat
      /\ written' + failed' = written + failed + Len(batch)
  BY <1>2, <1>4, <1>5
<1>7. TypeOK'
  <2>1. Len(batch') <= BatchSize
    BY <1>3, LimitAssumption
  <2> QED
    BY <1>1, <1>3, <1>6, <2>1 DEF FlusherInv, TypeOK
<1>8. Phases'
  <2>1. unfinished' = Len(queue') + Len(batch')
    BY <1>1, <1>3, <1>4
  <2>2. life # "stopping" /\ task
    BY <1>1 DEF FlusherInv, Phases
  <2> QED
    BY <1>1, <1>3, <2>1, <2>2 DEF FlusherInv, Phases
<1>9. Accounting'
  <2>1. life # "stopping" /\ life' # "stopping"
    BY <1>1, <1>3 DEF FlusherInv, Phases
  <2>2. Excused = 0 /\ Excused' = 0
    BY <2>1 DEF Excused
  <2>3. written + dropped + failed + Len(queue) + Len(batch) = submitted + charged
    BY <1>4, <1>5, <2>2 DEF FlusherInv, Accounting
  <2>4. written' + dropped + failed' + Len(queue) + 0 = submitted + charged
    <3>1. \A w, f \in Nat :
              w + f = written + failed + Len(batch)
                  => w + dropped + f + Len(queue) + 0 = submitted + charged
      BY <1>4, <1>5, <2>3
    <3> QED
      BY <1>6, <3>1
  <2> QED
    BY <1>1, <1>3, <1>5, <2>2, <2>4 DEF Accounting
<1> QED
  BY <1>3, <1>7, <1>8, <1>9 DEF FlusherInv

(* A cancellation reaches the writer, between batches or within one. *)
LEMMA CancelledStep == FlusherInv /\ WriterCancelled => FlusherInv'
<1> SUFFICES ASSUME FlusherInv, WriterCancelled PROVE FlusherInv'
  OBVIOUS
<1>1. /\ cancelled /\ cancelled' = FALSE /\ writer' = "dead"
      /\ UNCHANGED <<queue, written, failed, submitted, charged, faults>>
  BY DEF WriterCancelled
<1>2. /\ batch \in Seq(Nat) /\ Len(batch) \in Nat /\ Len(queue) \in Nat
      /\ written \in Nat /\ failed \in Nat /\ dropped \in Nat /\ submitted \in Nat /\ charged \in Nat
  BY ToSetDef DEF FlusherInv, TypeOK
<1>3. CASE writer # "write"
  <2>1. UNCHANGED <<unfinished, batch, task, life, closing, accounted, owed, starts, dropped, stored>>
    BY <1>3 DEF WriterCancelled, lifespan
  <2>2. TypeOK'
    BY <1>1, <2>1 DEF FlusherInv, TypeOK
  <2>3. Phases'
    BY <1>1, <1>3, <2>1 DEF FlusherInv, Phases
  <2>4. Places'
    BY <1>1, <2>1 DEF FlusherInv, Places
  <2>5. Excused' = Excused
    BY <2>1 DEF Excused
  <2>6. Accounting'
    BY <1>1, <2>1, <2>5 DEF FlusherInv, Accounting
  <2> QED
    BY <2>2, <2>3, <2>4, <2>6 DEF FlusherInv
<1>4. CASE writer = "write"
  <2>1. PICK S \in SUBSET ToSet(batch) : stored' = stored \cup S
    BY <1>4 DEF WriterCancelled
  <2>2. BatchOver /\ dropped' = IF accounted THEN dropped ELSE dropped + Len(batch)
    BY <1>4 DEF WriterCancelled
  <2>3. /\ batch' = <<>> /\ batch' \in Seq(Nat) /\ Len(batch') = 0
        /\ unfinished' \in Nat /\ unfinished' = Len(queue')
        /\ (life' = life \/ (life = "joining" /\ life' = "joined"))
        /\ UNCHANGED <<task, closing, accounted, owed, starts>>
        /\ stored' \in SUBSET Nat
        /\ Places'
    BY <1>1, <2>1, <2>2, BatchOverFacts
  <2>4. TypeOK'
    <3>1. Len(batch') <= BatchSize /\ dropped' \in Nat
      BY <1>2, <2>2, <2>3, LimitAssumption
    <3> QED
      BY <1>1, <2>3, <3>1 DEF FlusherInv, TypeOK
  <2>5. Phases'
    <3>1. unfinished' = Len(queue') + Len(batch')
      BY <1>1, <1>2, <2>3
    <3>2. task
      BY <1>4 DEF FlusherInv, Phases
    <3> QED
      BY <1>1, <2>3, <3>1, <3>2 DEF FlusherInv, Phases
  <2>6. Accounting'
    <3>1. Excused' = 0
      BY <2>3 DEF Excused
    <3>2. CASE accounted
      <4>1. life = "stopping" /\ dropped' = dropped
        BY <1>4, <2>2, <3>2 DEF FlusherInv, Phases
      <4>2. Excused = Len(batch)
        BY <3>2, <4>1 DEF Excused
      <4>3. written + dropped + failed + Len(queue) + Len(batch) = submitted + charged + Len(batch)
        BY <4>2 DEF FlusherInv, Accounting
      <4>4. written + dropped + failed + Len(queue) + 0 = submitted + charged + 0
        BY ONLY <1>2, <4>3
      <4> QED
        BY <1>1, <2>3, <3>1, <4>1, <4>4 DEF Accounting
    <3>3. CASE ~accounted
      <4>1. Excused = 0 /\ dropped' = dropped + Len(batch)
        BY <2>2, <3>3 DEF Excused
      <4>2. written + dropped + failed + Len(queue) + Len(batch) = submitted + charged + 0
        BY <4>1 DEF FlusherInv, Accounting
      <4>3. written + (dropped + Len(batch)) + failed + Len(queue) + 0 = submitted + charged + 0
        BY ONLY <1>2, <4>2
      <4> QED
        BY <1>1, <2>3, <3>1, <4>1, <4>3 DEF Accounting
    <3> QED
      BY <3>2, <3>3
  <2> QED
    BY <2>3, <2>4, <2>5, <2>6 DEF FlusherInv
<1> QED
  BY <1>3, <1>4

(* cancel() from outside, start() and the uneventful steps of aclose():    *)
(* neither records nor counters move.                                      *)
LEMMA QuietStep ==
    FlusherInv /\ (CancelWriter \/ StartCall \/ StartEnd \/ CloseCall \/ CloseDrained
                   \/ CloseEnd \/ CloseCancelled) => FlusherInv'
<1> SUFFICES ASSUME FlusherInv,
                    CancelWriter \/ StartCall \/ StartEnd \/ CloseCall \/ CloseDrained
                    \/ CloseEnd \/ CloseCancelled
             PROVE  FlusherInv'
  OBVIOUS
<1>1. UNCHANGED <<queue, unfinished, batch, written, dropped, failed, submitted, stored, charged>>
  BY DEF CancelWriter, StartCall, StartEnd, CloseCall, CloseDrained, CloseEnd,
         CloseCancelled, counters
<1>2. owed' = owed \/ owed' = ToSet(batch \o queue)
  BY DEF CancelWriter, StartCall, StartEnd, CloseCall, CloseDrained, CloseEnd,
         CloseCancelled, lifespan
<1>3. /\ batch \o queue \in Seq(Nat) /\ ToSet(batch \o queue) \subseteq Nat
      /\ Len(batch) \in Nat /\ Len(queue) \in Nat
  BY ConcatDef, ToSetDef DEF FlusherInv, TypeOK
<1>4. owed' \subseteq Nat
  BY <1>2, <1>3 DEF FlusherInv, TypeOK
<1>5. Places'
  BY <1>1, <1>2 DEF FlusherInv, Places
<1>6. TypeOK'
  <2>1. CASE CancelWriter
    BY <1>1, <1>4, <2>1 DEF FlusherInv, TypeOK, CancelWriter, lifespan
  <2>2. CASE StartCall
    <3>1. /\ accounted' = FALSE /\ life' = "starting" /\ starts' = starts + 1
          /\ UNCHANGED <<writer, cancelled, task, closing, owed, faults>>
      BY <2>2 DEF StartCall
    <3>2. starts' \in Nat
      BY <3>1 DEF FlusherInv, TypeOK
    <3> QED
      BY <1>1, <3>1, <3>2 DEF FlusherInv, TypeOK
  <2>3. CASE StartEnd
    BY <1>1, <1>4, <2>3 DEF FlusherInv, TypeOK, StartEnd, lifespan
  <2>4. CASE CloseCall
    BY <1>1, <1>4, <2>4 DEF FlusherInv, TypeOK, CloseCall, lifespan
  <2>5. CASE CloseDrained
    BY <1>1, <1>4, <2>5 DEF FlusherInv, TypeOK, CloseDrained, lifespan, StopWriter
  <2>6. CASE CloseEnd
    BY <1>1, <1>4, <2>6 DEF FlusherInv, TypeOK, CloseEnd, lifespan
  <2>7. CASE CloseCancelled
    BY <1>1, <1>4, <2>7 DEF FlusherInv, TypeOK, CloseCancelled, lifespan
  <2> QED
    BY <2>1, <2>2, <2>3, <2>4, <2>5, <2>6, <2>7
<1>7. Phases'
  <2>1. CASE CancelWriter
    BY <1>1, <2>1 DEF FlusherInv, Phases, CancelWriter, lifespan
  <2>2. CASE StartCall
    BY <1>1, <2>2 DEF FlusherInv, Phases, StartCall, lifespan
  <2>3. CASE StartEnd
    BY <1>1, <2>3 DEF FlusherInv, Phases, StartEnd, lifespan
  <2>4. CASE CloseCall
    BY <1>1, <2>4 DEF FlusherInv, Phases, CloseCall, lifespan
  <2>5. CASE CloseDrained
    BY <1>1, <2>5 DEF FlusherInv, Phases, CloseDrained, lifespan, StopWriter
  <2>6. CASE CloseEnd
    BY <1>1, <2>6 DEF FlusherInv, Phases, CloseEnd, lifespan
  <2>7. CASE CloseCancelled
    BY <1>1, <2>7 DEF FlusherInv, Phases, CloseCancelled, lifespan
  <2> QED
    BY <2>1, <2>2, <2>3, <2>4, <2>5, <2>6, <2>7
<1>8. (Excused = 0 /\ Excused' = 0) \/ Excused' = Excused
  <2>1. CASE CancelWriter
    BY <1>1, <2>1 DEF CancelWriter, lifespan, Excused
  <2>2. CASE StartCall \/ StartEnd \/ CloseCall \/ CloseCancelled
    BY <2>2 DEF StartCall, StartEnd, CloseCall, CloseCancelled, Excused
  <2>3. CASE CloseDrained
    BY <2>3 DEF CloseDrained, Excused, FlusherInv, Phases
  <2>4. CASE CloseEnd
    <3>1. batch = <<>> /\ Len(batch) = 0
      BY <2>4, EmptyFacts DEF CloseEnd, FlusherInv, Phases
    <3> QED
      BY <2>4, <3>1 DEF CloseEnd, Excused
  <2> QED
    BY <2>1, <2>2, <2>3, <2>4
<1>9. Accounting'
  BY <1>1, <1>8 DEF FlusherInv, Accounting
<1> QED
  BY <1>5, <1>6, <1>7, <1>9 DEF FlusherInv

(* The budget of aclose() is over. *)
LEMMA TimeoutStep == FlusherInv /\ CloseTimeout => FlusherInv'
<1> SUFFICES ASSUME FlusherInv, CloseTimeout PROVE FlusherInv'
  OBVIOUS
<1>1. /\ life \in {"joining", "joined"} /\ life' = "stopping" /\ accounted' = TRUE
      /\ cancelled' = (writer # "dead")
      /\ dropped' = dropped + Len(queue) + Len(batch)
      /\ charged' = charged + Len(queue)
      /\ UNCHANGED <<queue, unfinished, writer, batch, task, closing, owed, starts,
                     written, failed, submitted, stored, faults>>
  BY DEF CloseTimeout, StopWriter
<1>2. /\ Len(queue) \in Nat /\ Len(batch) \in Nat
      /\ written \in Nat /\ failed \in Nat /\ dropped \in Nat /\ submitted \in Nat /\ charged \in Nat
  BY ToSetDef DEF FlusherInv, TypeOK
<1>3. dropped' \in Nat /\ charged' \in Nat
  BY <1>1, <1>2
<1>4. TypeOK'
  BY <1>1, <1>3 DEF FlusherInv, TypeOK
<1>5. Phases'
  BY <1>1 DEF FlusherInv, Phases
<1>6. Places'
  BY <1>1 DEF FlusherInv, Places
<1>7. Accounting'
  <2>1. Excused = 0 /\ Excused' = Len(batch)
    BY <1>1 DEF Excused
  <2>2. written + dropped + failed + Len(queue) + Len(batch) = submitted + charged + 0
    BY <2>1 DEF FlusherInv, Accounting
  <2>3. written + (dropped + Len(queue) + Len(batch)) + failed + Len(queue) + Len(batch)
            = submitted + (charged + Len(queue)) + Len(batch)
    BY ONLY <1>2, <2>2
  <2> QED
    BY <1>1, <2>1, <2>3 DEF Accounting
<1> QED
  BY <1>4, <1>5, <1>6, <1>7 DEF FlusherInv

(* The invariant is inductive. *)
LEMMA FlusherNext == FlusherInv /\ [Next]_vars => FlusherInv'
<1> SUFFICES ASSUME FlusherInv, [Next]_vars PROVE FlusherInv'
  OBVIOUS
<1>1. CASE UNCHANGED vars
  BY <1>1 DEF vars, lifespan, counters, FlusherInv, TypeOK, Phases, Places, Accounting, Excused
<1>2. CASE Next
  BY <1>2, SubmitStep, CollectStep, AnswerStep, CancelledStep, QuietStep, TimeoutStep DEF Next
<1> QED
  BY <1>1, <1>2

(* The inductive invariant holds in every reachable state. *)
LEMMA FlusherAlways == Spec => []FlusherInv
<1> QED
  BY FlusherInit, FlusherNext, PTL DEF Spec

-------------------------------------------------------------------------------
(* Every variable keeps its kind and the queue its bound, whatever submit, *)
(* the writer and the lifespan do (recorder.py:104-124, 188-242).          *)
THEOREM FlusherTypeCorrect == Spec => []TypeOK
<1>1. FlusherInv => TypeOK
  BY DEF FlusherInv
<1> QED
  BY <1>1, FlusherAlways, PTL

(* The loss counters account for each record submitted, but for what a     *)
(* timed-out close counts and leaves in the queue (recorder.py:166-204).   *)
THEOREM LossIsCounted == Spec => []Accounting
<1>1. FlusherInv => Accounting
  BY DEF FlusherInv
<1> QED
  BY <1>1, FlusherAlways, PTL

-------------------------------------------------------------------------------
(* What an answer adds to the counter of written records the backend holds. *)
LEMMA WrittenStep == FlusherInv /\ WrittenIsStored /\ [Next]_vars => WrittenIsStored'
<1> SUFFICES ASSUME FlusherInv, WrittenIsStored, [Next]_vars PROVE WrittenIsStored'
  OBVIOUS
<1>1. /\ written \in Nat /\ Cardinality(stored) \in Nat /\ IsFiniteSet(stored)
      /\ batch \in Seq(Nat) /\ queue \in Seq(Nat)
  BY FS_CardinalityType DEF FlusherInv, TypeOK, Places
<1>2. ASSUME NEW S \in SUBSET ToSet(batch), stored' = stored \cup S
      PROVE  /\ Cardinality(S) \in Nat
             /\ Cardinality(stored') = Cardinality(stored) + Cardinality(S)
  <2>1. S \cap stored = {}
    BY <1>1, ToSetConcat DEF FlusherInv, Places
  <2>2. IsFiniteSet(S) /\ Cardinality(S) \in Nat
    BY <1>1, PartFacts
  <2>3. Cardinality(stored \cap S) = 0
    BY <2>1, FS_EmptySet
  <2>4. Cardinality(stored \cup S)
            = Cardinality(stored) + Cardinality(S) - Cardinality(stored \cap S)
    BY <1>1, <2>2, FS_Union
  <2> QED
    BY <1>1, <1>2, <2>2, <2>3, <2>4
<1>3. CASE WriteOk
  <2>1. PICK S \in SUBSET ToSet(batch) :
              stored' = stored \cup S /\ written' = written + Cardinality(S)
    BY <1>3 DEF WriteOk
  <2> QED
    <3>1. Cardinality(S) \in Nat /\ Cardinality(stored') = Cardinality(stored) + Cardinality(S)
      BY <1>2, <2>1
    <3>2. written <= Cardinality(stored)
      BY DEF WrittenIsStored
    <3>3. written + Cardinality(S) <= Cardinality(stored) + Cardinality(S)
      BY <1>1, <3>1, <3>2
    <3> QED
      BY <2>1, <3>1, <3>3 DEF WrittenIsStored
<1>4. CASE WriteFail \/ (WriterCancelled /\ writer = "write")
  <2>1. PICK S \in SUBSET ToSet(batch) : stored' = stored \cup S
    BY <1>4 DEF WriteFail, WriterCancelled
  <2>2. written' = written
    BY <1>4 DEF WriteFail, WriterCancelled
  <2> QED
    <3>1. Cardinality(S) \in Nat /\ Cardinality(stored') = Cardinality(stored) + Cardinality(S)
      BY <1>2, <2>1
    <3>2. written <= Cardinality(stored)
      BY DEF WrittenIsStored
    <3>3. written <= Cardinality(stored) + Cardinality(S)
      BY <1>1, <3>1, <3>2
    <3> QED
      BY <2>2, <3>1, <3>3 DEF WrittenIsStored
<1>5. CASE WriterCancelled /\ writer # "write"
  BY <1>5 DEF WriterCancelled, WrittenIsStored
<1>6. CASE Submit \/ Collect \/ CancelWriter \/ StartCall \/ StartEnd \/ CloseCall
           \/ CloseTimeout \/ CloseDrained \/ CloseEnd \/ CloseCancelled \/ UNCHANGED vars
  <2>1. written' = written /\ stored' = stored
    BY <1>6 DEF Submit, Collect, CancelWriter, StartCall, StartEnd, CloseCall, CloseTimeout,
           CloseDrained, CloseEnd, CloseCancelled, vars, counters
  <2> QED
    BY <2>1 DEF WrittenIsStored
<1> QED
  BY <1>3, <1>4, <1>5, <1>6 DEF Next

(* The written counter is never ahead of the backend: a partial or failed  *)
(* write, or one cut off by a cancellation, is not reported as written     *)
(* (recorder.py:213-228, docs/records.md:210).                             *)
THEOREM WrittenIsConfirmed == Spec => []WrittenIsStored
<1>1. Init => WrittenIsStored
  BY FS_EmptySet DEF Init, WrittenIsStored
<1> QED
  BY <1>1, WrittenStep, FlusherAlways, PTL DEF Spec

-------------------------------------------------------------------------------
(* join() lets aclose() go when the count of unfinished items comes to 0,  *)
(* and only newer records can be there afterwards.                         *)
LEMMA DrainStep == FlusherInv /\ FlusherInv' /\ DrainBarrier /\ [Next]_vars => DrainBarrier'
<1> SUFFICES ASSUME FlusherInv, FlusherInv', DrainBarrier, [Next]_vars, life' = "joined"
             PROVE  owed' \cap ToSet(batch' \o queue') = {}
  BY DEF DrainBarrier
<1>1. /\ queue \in Seq(Nat) /\ batch \in Seq(Nat) /\ submitted \in Nat
      /\ owed \subseteq Nat /\ \A x \in owed : x <= submitted
  BY DEF FlusherInv, TypeOK, Places
<1>2. /\ queue' \in Seq(Nat) /\ batch' \in Seq(Nat)
      /\ unfinished' = Len(queue') + Len(batch')
  BY DEF FlusherInv, TypeOK, Phases
<1>3. ToSet(batch \o queue) = ToSet(batch) \cup ToSet(queue)
  BY <1>1, ToSetConcat
<1>4. ToSet(batch' \o queue') = ToSet(batch') \cup ToSet(queue')
  BY <1>2, ToSetConcat
<1>5. unfinished' = 0 => ToSet(batch' \o queue') = {}
  <2> SUFFICES ASSUME unfinished' = 0 PROVE ToSet(batch' \o queue') = {}
    OBVIOUS
  <2>1. Len(queue') \in Nat /\ Len(batch') \in Nat
    BY <1>2, ToSetDef
  <2>2. Len(queue') = 0 /\ Len(batch') = 0
    BY <1>2, <2>1
  <2>3. ToSet(queue') = {} /\ ToSet(batch') = {}
    <3>1. queue' = <<>> /\ batch' = <<>>
      BY <1>2, <2>2, EmptySeq
    <3> QED
      BY <3>1, EmptyFacts
  <2> QED
    BY <1>4, <2>3
<1>6. CASE Submit
  <2>1. life = "joined" /\ owed' = owed /\ batch' = batch
    BY <1>6 DEF Submit, lifespan
  <2>2. queue' = Append(queue, submitted + 1) \/ queue' = queue
    BY <1>6 DEF Submit
  <2>3. ToSet(queue') \subseteq ToSet(queue) \cup {submitted + 1}
    <3>1. submitted + 1 \in Nat
      BY <1>1
    <3>2. ToSet(Append(queue, submitted + 1)) = ToSet(queue) \cup {submitted + 1}
      BY <1>1, <3>1, AppendFacts
    <3> QED
      BY <2>2, <3>2
  <2>4. submitted + 1 \notin owed
    BY <1>1
  <2> QED
    BY <1>3, <1>4, <2>1, <2>3, <2>4 DEF DrainBarrier
<1>7. CASE Collect
  <2>1. life = "joined" /\ owed' = owed
    BY <1>7 DEF Collect, lifespan
  <2>2. ToSet(batch' \o queue') \subseteq ToSet(batch \o queue)
    <3> DEFINE n == IF Len(queue) < BatchSize THEN Len(queue) ELSE BatchSize
    <3>1. Len(queue) \in Nat /\ n \in 0..Len(queue)
      BY <1>1, ToSetDef, LimitAssumption
    <3>2. batch' = SubSeq(queue, 1, n) /\ queue' = SubSeq(queue, n + 1, Len(queue))
      BY <1>7 DEF Collect
    <3> HIDE DEF n
    <3>3. batch' \o queue' = queue
      BY <1>1, <3>1, <3>2, SplitFacts
    <3> QED
      BY <1>3, <3>3
  <2> QED
    BY <2>1, <2>2 DEF DrainBarrier
<1>8. CASE BatchOver /\ queue' = queue
  <2>1. owed' = owed
    BY <1>8 DEF BatchOver
  <2>2. CASE life = "joined"
    <3>1. ToSet(batch') = {}
      BY <1>8, EmptyFacts DEF BatchOver
    <3> QED
      BY <1>3, <1>4, <1>8, <2>1, <2>2, <3>1 DEF DrainBarrier
  <2>3. CASE life # "joined"
    <3>1. unfinished' = 0
      BY <1>8, <2>3 DEF BatchOver
    <3> QED
      BY <1>5, <3>1
  <2> QED
    BY <2>2, <2>3
<1>9. CASE CloseCall
  <2>1. unfinished' = 0
    BY <1>9 DEF CloseCall
  <2> QED
    BY <1>5, <2>1
<1>10. CASE \/ WriterCancelled /\ writer # "write"
            \/ CancelWriter
            \/ UNCHANGED vars
  <2>1. UNCHANGED <<life, owed, batch, queue>>
    BY <1>10 DEF WriterCancelled, CancelWriter, lifespan, vars
  <2> QED
    BY <2>1 DEF DrainBarrier
<1>11. CASE StartCall \/ StartEnd \/ CloseTimeout \/ CloseDrained \/ CloseEnd \/ CloseCancelled
  BY <1>11 DEF StartCall, StartEnd, CloseTimeout, CloseDrained, CloseEnd, CloseCancelled, StopWriter
<1>12. WriteOk \/ WriteFail \/ (WriterCancelled /\ writer = "write") => BatchOver /\ queue' = queue
  BY DEF WriteOk, WriteFail, WriterCancelled
<1> QED
  BY <1>6, <1>7, <1>8, <1>9, <1>10, <1>11, <1>12 DEF Next

(* An aclose() that goes on before its budget is over leaves no record     *)
(* behind that was queued or being written when it was called              *)
(* (recorder.py:164-166).                                                  *)
THEOREM CloseDrains == Spec => []DrainBarrier
<1>1. Init => DrainBarrier
  BY DEF Init, DrainBarrier
<1> QED
  BY <1>1, DrainStep, FlusherAlways, PTL DEF Spec

-------------------------------------------------------------------------------
(* Listings: the index read from its newest member, by rank.               *)

(* How many members of S are newer than r: the rank at which r is read. *)
Above(S, r) == Cardinality({x \in S : x > r})

(* The members up to r and those above it are all members. *)
LEMMA AboveRank ==
    ASSUME NEW S \in SUBSET Nat, IsFiniteSet(S), NEW r \in S
    PROVE  Above(S, r) \in Nat /\ Above(S, r) = Cardinality(S) - Rank(S, r)
<1> DEFINE A == {x \in S : x > r}
           B == {x \in S : x <= r}
<1>1. S = A \cup B /\ A \cap B = {}
  <2>1. \A x \in S : (x > r \/ x <= r) /\ ~ (x > r /\ x <= r)
    OBVIOUS
  <2> QED
    BY <2>1
<1>2. A \in SUBSET S /\ B \in SUBSET S
  OBVIOUS
<1> HIDE DEF A, B
<1>3. IsFiniteSet(A) /\ IsFiniteSet(B)
  BY <1>2, FS_Subset
<1>4. Cardinality(A \cup B) = Cardinality(A) + Cardinality(B) - Cardinality(A \cap B)
  BY <1>3, FS_Union
<1>5. Cardinality(A \cap B) = 0
  BY <1>1, FS_EmptySet
<1>6. Cardinality(A) \in Nat /\ Cardinality(B) \in Nat
  BY <1>3, FS_CardinalityType
<1>7. Cardinality(S) = Cardinality(A) + Cardinality(B)
  BY <1>1, <1>4, <1>5, <1>6
<1> QED
  BY <1>6, <1>7 DEF Above, Rank, A, B

(* A member is read no earlier when no newer member leaves. *)
LEMMA AboveGrows ==
    ASSUME NEW S, NEW T \in SUBSET Nat, IsFiniteSet(T), NEW r \in Nat,
           \A x \in S : x > r => x \in T
    PROVE  /\ Above(T, r) \in Nat /\ Above(S, r) \in Nat
           /\ Above(S, r) <= Above(T, r)
<1> DEFINE A == {x \in S : x > r}
           B == {x \in T : x > r}
<1>1. A \in SUBSET B /\ B \in SUBSET T
  OBVIOUS
<1> HIDE DEF A, B
<1>2. IsFiniteSet(B)
  BY <1>1, FS_Subset
<1>3. IsFiniteSet(A) /\ Cardinality(A) <= Cardinality(B)
  BY <1>1, <1>2, FS_Subset
<1> QED
  BY <1>2, <1>3, FS_CardinalityType DEF Above, A, B

(* The order in which the index is read. *)
LEMMA NewestFirstFacts ==
    ASSUME NEW S \in SUBSET Nat, IsFiniteSet(S)
    PROVE  /\ NewestFirst(S) \in Seq(Nat) /\ Len(NewestFirst(S)) = Cardinality(S)
           /\ Cardinality(S) \in Nat
           /\ \A i \in 1..Cardinality(S) : NewestFirst(S)[i] \in S
           /\ \A i, j \in 1..Cardinality(S) : i < j => NewestFirst(S)[i] > NewestFirst(S)[j]
           /\ \A r \in S : /\ Above(S, r) + 1 \in 1..Cardinality(S)
                           /\ NewestFirst(S)[Above(S, r) + 1] = r
<1> DEFINE c == Cardinality(S)
           up == Ascending(S)
<1>1. c \in Nat
  BY FS_CardinalityType
<1>2. up \in Seq(Nat) /\ Len(up) = c /\ ToSet(up) = S /\ Increasing(up)
  BY AscendingFacts
<1>3. \A n \in 1..c : up[n] \in S /\ Rank(S, up[n]) = n
  BY EveryRankTaken DEF Ascending
<1>4. NewestFirst(S) = [i \in 1..c |-> up[(c - i) + 1]]
  BY <1>2 DEF NewestFirst, Reverse
<1> HIDE DEF up
<1>5. \A i \in 1..c : (c - i) + 1 \in 1..c /\ NewestFirst(S)[i] = up[(c - i) + 1]
  BY <1>1, <1>4
<1>6. \A i \in 1..c : NewestFirst(S)[i] \in S
  BY <1>3, <1>5
<1>7. NewestFirst(S) \in Seq(Nat) /\ Len(NewestFirst(S)) = c
  <2>1. NewestFirst(S) \in [1..c -> Nat]
    BY <1>4, <1>5, <1>6
  <2> QED
    BY <1>1, <2>1
<1>8. ASSUME NEW i \in 1..c, NEW j \in 1..c, i < j
      PROVE  NewestFirst(S)[i] > NewestFirst(S)[j]
  <2>1. (c - j) + 1 < (c - i) + 1 /\ (c - j) + 1 \in 1..Len(up) /\ (c - i) + 1 \in 1..Len(up)
    BY <1>1, <1>2, <1>8
  <2>2. up[(c - j) + 1] < up[(c - i) + 1]
    BY <1>2, <2>1, IncreasingDef
  <2>3. NewestFirst(S)[j] < NewestFirst(S)[i]
    BY <1>5, <2>2
  <2>4. NewestFirst(S)[j] \in Nat /\ NewestFirst(S)[i] \in Nat
    BY <1>6
  <2> QED
    BY <2>3, <2>4
<1>9. ASSUME NEW r \in S
      PROVE  Above(S, r) + 1 \in 1..c /\ NewestFirst(S)[Above(S, r) + 1] = r
  <2>1. Rank(S, r) \in 1..c /\ Above(S, r) = c - Rank(S, r)
    BY RankFacts, AboveRank
  <2>2. Above(S, r) + 1 \in 1..c /\ (c - (Above(S, r) + 1)) + 1 = Rank(S, r)
    BY <1>1, <2>1
  <2>3. NewestFirst(S)[Above(S, r) + 1] = up[Rank(S, r)]
    BY <1>5, <2>2
  <2>4. up[Rank(S, r)] \in S /\ Rank(S, up[Rank(S, r)]) = Rank(S, r)
    BY <1>3, <2>1
  <2>5. \A y \in S : Rank(S, y) = Rank(S, r) => y = r
    <3>1. \A y \in S : (r < y \/ y < r) => Rank(S, y) # Rank(S, r)
      BY RankFacts, <1>1
    <3>2. \A y \in S : y # r => r < y \/ y < r
      OBVIOUS
    <3> QED
      BY <3>1, <3>2
  <2> QED
    BY <2>2, <2>3, <2>4, <2>5
<1> QED
  BY <1>1, <1>6, <1>7, <1>8, <1>9

(* A page holds, in the order of the index, the members read at its ranks; *)
(* a member read behind it is older than all of it.                        *)
LEMMA SliceFacts ==
    ASSUME NEW S \in SUBSET Nat, IsFiniteSet(S), NEW start \in Nat, NEW n \in Nat \ {0}
    PROVE  LET page == Slice(NewestFirst(S), start, n) IN
           /\ page \in Seq(Nat)
           /\ ToSet(page) \subseteq S
           /\ \A i, j \in 1..Len(page) : i < j => page[i] > page[j]
           /\ \A r \in S : Above(S, r) >= start =>
                 \/ r \in ToSet(page)
                 \/ /\ Above(S, r) >= start + n
                    /\ \A x \in ToSet(page) : r < x
           /\ page = <<>> => \A r \in S : Above(S, r) < start
           /\ Len(page) \in Nat /\ Len(page) <= n
           /\ \A r \in S : Above(S, r) >= start + n => Len(page) = n
<1> DEFINE q == NewestFirst(S)
           c == Cardinality(S)
           last == IF start + n < c THEN start + n ELSE c
           page == Slice(q, start, n)
<1>1. /\ q \in Seq(Nat) /\ Len(q) = c /\ c \in Nat
      /\ \A i \in 1..c : q[i] \in S
      /\ \A i, j \in 1..c : i < j => q[i] > q[j]
      /\ \A r \in S : Above(S, r) + 1 \in 1..c /\ q[Above(S, r) + 1] = r
  BY NewestFirstFacts
<1>2. page = SubSeq(q, start + 1, last)
  BY <1>1 DEF Slice
<1> HIDE DEF q, c, page
<1>3. last \in Nat /\ last <= c /\ start + 1 \in Nat \ {0}
  BY <1>1
<1>4. \A i \in (start + 1)..last : q[i] \in Nat
  <2>1. \A i \in (start + 1)..last : i \in 1..c
    BY <1>1, <1>3
  <2> QED
    BY <1>1, <2>1
<1>5. /\ page \in Seq(Nat)
      /\ Len(page) = IF start + 1 <= last THEN last - (start + 1) + 1 ELSE 0
      /\ \A i \in 1..(last - (start + 1) + 1) : page[i] = q[(start + 1) + i - 1]
  <2> HIDE DEF last
  <2>1. start + 1 \in Int /\ last \in Int
    BY <1>3
  <2> QED
    BY <1>2, <1>4, <2>1, SubSeqProperties
<1>6. /\ Len(page) \in Nat
      /\ \A i \in 1..Len(page) : page[i] = q[start + i] /\ start + i \in 1..c
  BY <1>1, <1>3, <1>5
<1>7. ToSet(page) \subseteq S
  <2>1. ASSUME NEW x \in ToSet(page) PROVE x \in S
    <3>1. PICK i \in 1..Len(page) : x = page[i]
      BY <1>5, ToSetDef
    <3> QED
      BY <1>1, <1>6, <3>1
  <2> QED
    BY <2>1
<1>8. ASSUME NEW i \in 1..Len(page), NEW j \in 1..Len(page), i < j PROVE page[i] > page[j]
  <2>1. start + i < start + j /\ start + i \in 1..c /\ start + j \in 1..c
    BY <1>6, <1>8
  <2> QED
    BY <1>1, <1>6, <2>1
<1>9. ASSUME NEW r \in S, Above(S, r) >= start
      PROVE  \/ r \in ToSet(page)
             \/ /\ Above(S, r) >= start + n
                /\ \A x \in ToSet(page) : r < x
  <2> DEFINE p == Above(S, r) + 1
  <2>1. p \in 1..c /\ q[p] = r /\ p >= start + 1
    <3>1. Above(S, r) \in Nat
      BY AboveRank
    <3> QED
      BY <1>1, <1>9, <3>1
  <2>0. Above(S, r) \in Nat /\ p = Above(S, r) + 1
    BY AboveRank
  <2> HIDE DEF p
  <2>2. CASE p <= start + n
    <3>1. p <= last /\ p - start \in 1..Len(page)
      BY <1>1, <1>3, <1>5, <2>1, <2>2
    <3>2. page[p - start] = q[start + (p - start)]
      BY <1>6, <3>1
    <3>3. start + (p - start) = p
      BY <1>1, <2>1
    <3> QED
      BY <1>5, <2>1, <3>1, <3>2, <3>3, ToSetDef
  <2>3. CASE p > start + n
    <3>1. ASSUME NEW x \in ToSet(page) PROVE r < x
      <4>1. PICK i \in 1..Len(page) : x = page[i]
        BY <1>5, ToSetDef
      <4>2. start + i <= start + n
        BY <1>1, <1>3, <1>5, <4>1
      <4>3. start + i < p /\ start + i \in 1..c /\ x = q[start + i]
        BY <1>1, <1>6, <2>1, <2>3, <4>1, <4>2
      <4>4. q[start + i] > q[p]
        BY <1>1, <2>1, <4>3
      <4>5. x \in Nat /\ r \in Nat
        BY <1>1, <4>3
      <4> QED
        BY <2>1, <4>3, <4>4, <4>5
    <3>2. Above(S, r) >= start + n
      BY <2>0, <2>3
    <3> QED
      BY <3>1, <3>2
  <2> QED
    BY <1>1, <2>1, <2>2, <2>3
<1>10. ASSUME page = <<>>, NEW r \in S PROVE Above(S, r) < start
  <2>1. Len(page) = 0 /\ ToSet(page) = {}
    BY <1>10, EmptyFacts
  <2>2. Above(S, r) \in Nat /\ Above(S, r) + 1 \in 1..c
    BY <1>1, AboveRank
  <2>3. c <= start
    BY <1>1, <1>3, <1>5, <2>1
  <2> QED
    BY <1>1, <2>2, <2>3
<1>11. Len(page) \in Nat /\ Len(page) <= n
  BY <1>1, <1>3, <1>5
<1>12. ASSUME NEW r \in S, Above(S, r) >= start + n PROVE Len(page) = n
  <2>1. Above(S, r) \in Nat /\ Above(S, r) + 1 \in 1..c
    BY <1>1, AboveRank
  <2>2. start + n < c
    BY <1>1, <1>12, <2>1
  <2> QED
    BY <1>1, <1>5, <2>2
<1> QED
  BY <1>5, <1>7, <1>8, <1>9, <1>10, <1>11, <1>12 DEF page, q

-------------------------------------------------------------------------------
(* The commands of a pipeline, applied one by one from the front.          *)

CommandKinds == {"hset", "expire", "zadd", "evict"}

(* The commands are about records of P, the last drops what was due by t. *)
Ordered(todo, P, t) ==
    /\ todo \in Seq(CommandKinds \X Nat)
    /\ \A k \in 1..Len(todo) :
          /\ todo[k][1] # "evict" => todo[k][2] \in P
          /\ todo[k][1] = "evict" => todo[k][2] <= t
    /\ \A j, k \in 1..Len(todo) :
          j < k /\ todo[j][1] = "zadd" /\ todo[k][1] = "zadd" => todo[j][2] < todo[k][2]

(* The records still to enter the index have a hash (are in H), or get it first. *)
HashFirst(todo, H) ==
    \A k \in 1..Len(todo) : todo[k][1] = "zadd" =>
        \/ todo[k][2] \in H
        \/ \E j \in 1..(k - 1) : todo[j] = <<"hset", todo[k][2]>>

(* The records still to enter the index. *)
DueIn(todo) == {r \in Nat : \E k \in 1..Len(todo) : todo[k] = <<"zadd", r>>}

(* What holds of a pipeline with no command applied. *)
LEMMA CommandsFacts ==
    ASSUME NEW rs \in Seq(Nat), Increasing(rs), NEW t \in Nat
    PROVE  LET todo == Commands(rs) \o <<<<"evict", t>>>> IN
           /\ Ordered(todo, ToSet(rs), t)
           /\ HashFirst(todo, {})
           /\ ToSet(rs) \subseteq DueIn(todo)
<1> DEFINE n == Len(rs)
           cs == Commands(rs)
           todo == cs \o <<<<"evict", t>>>>
<1>1. n \in Nat /\ \A i \in 1..n : rs[i] \in Nat /\ rs[i] \in ToSet(rs)
  BY ToSetDef
<1>2. \A i, j \in 1..n : i < j => rs[i] < rs[j]
  BY IncreasingDef
<1>3. \A x \in ToSet(rs) : \E i \in 1..n : x = rs[i]
  BY ToSetDef
<1>4. cs = [i \in 1..(3 * n) |-> CommandsFor(rs[(i + 2) \div 3])[((i + 2) % 3) + 1]]
  BY DEF Commands
<1> HIDE DEF n, cs
<1>5. ASSUME NEW i \in 1..n
      PROVE  /\ 3 * i - 2 \in 1..(3 * n) /\ 3 * i - 1 \in 1..(3 * n) /\ 3 * i \in 1..(3 * n)
             /\ cs[3 * i - 2] = <<"hset", rs[i]>>
             /\ cs[3 * i - 1] = <<"expire", rs[i]>>
             /\ cs[3 * i] = <<"zadd", rs[i]>>
  <2>1. 3 * i - 2 \in 1..(3 * n) /\ 3 * i - 1 \in 1..(3 * n) /\ 3 * i \in 1..(3 * n)
    BY <1>1
  <2>2. /\ ((3 * i - 2) + 2) \div 3 = i /\ ((3 * i - 2) + 2) % 3 = 0
        /\ ((3 * i - 1) + 2) \div 3 = i /\ ((3 * i - 1) + 2) % 3 = 1
        /\ (3 * i + 2) \div 3 = i /\ (3 * i + 2) % 3 = 2
    BY <1>1
  <2>3. /\ CommandsFor(rs[i])[1] = <<"hset", rs[i]>>
        /\ CommandsFor(rs[i])[2] = <<"expire", rs[i]>>
        /\ CommandsFor(rs[i])[3] = <<"zadd", rs[i]>>
    BY DEF CommandsFor
  <2>4. cs[3 * i - 2] = CommandsFor(rs[i])[0 + 1]
    BY <1>4, <2>1, <2>2
  <2>5. cs[3 * i - 1] = CommandsFor(rs[i])[1 + 1]
    BY <1>4, <2>1, <2>2
  <2>6. cs[3 * i] = CommandsFor(rs[i])[2 + 1]
    BY <1>4, <2>1, <2>2
  <2> QED
    BY <2>1, <2>3, <2>4, <2>5, <2>6
<1>6. ASSUME NEW k \in 1..(3 * n)
      PROVE  \E i \in 1..n : k = 3 * i - 2 \/ k = 3 * i - 1 \/ k = 3 * i
  <2> DEFINE i == (k + 2) \div 3
  <2>1. i \in 1..n /\ (k = 3 * i - 2 \/ k = 3 * i - 1 \/ k = 3 * i)
    BY <1>1
  <2> QED
    BY <2>1
<1>7. /\ DOMAIN cs = 1..(3 * n)
      /\ \A k \in 1..(3 * n) : cs[k] \in CommandKinds \X Nat
  <2>1. DOMAIN cs = 1..(3 * n)
    BY <1>4
  <2>2. ASSUME NEW k \in 1..(3 * n) PROVE cs[k] \in CommandKinds \X Nat
    <3>1. PICK i \in 1..n : k = 3 * i - 2 \/ k = 3 * i - 1 \/ k = 3 * i
      BY <1>6
    <3>2. cs[k] = <<"hset", rs[i]>> \/ cs[k] = <<"expire", rs[i]>> \/ cs[k] = <<"zadd", rs[i]>>
      BY <1>5, <3>1
    <3>3. /\ <<"hset", rs[i]>> \in CommandKinds \X Nat
          /\ <<"expire", rs[i]>> \in CommandKinds \X Nat
          /\ <<"zadd", rs[i]>> \in CommandKinds \X Nat
      BY <1>1 DEF CommandKinds
    <3> QED
      BY <3>2, <3>3
  <2> QED
    BY <2>1, <2>2
<1>8. cs \in Seq(CommandKinds \X Nat) /\ Len(cs) = 3 * n
  <2>1. cs \in [1..(3 * n) -> CommandKinds \X Nat]
    BY <1>4, <1>7
  <2> QED
    BY <1>1, <2>1
<1>9. /\ todo \in Seq(CommandKinds \X Nat) /\ Len(todo) = 3 * n + 1
      /\ \A k \in 1..(3 * n) : todo[k] = cs[k]
      /\ todo[3 * n + 1] = <<"evict", t>>
  <2>1. <<<<"evict", t>>>> \in Seq(CommandKinds \X Nat) /\ Len(<<<<"evict", t>>>>) = 1
    BY DEF CommandKinds
  <2> QED
    BY <1>1, <1>8, <2>1, ConcatProperties
<1> HIDE DEF todo
<1>10. ASSUME NEW k \in 1..(3 * n + 1)
       PROVE  \/ k = 3 * n + 1 /\ todo[k] = <<"evict", t>>
              \/ \E i \in 1..n : \/ k = 3 * i - 2 /\ todo[k] = <<"hset", rs[i]>>
                                 \/ k = 3 * i - 1 /\ todo[k] = <<"expire", rs[i]>>
                                 \/ k = 3 * i /\ todo[k] = <<"zadd", rs[i]>>
  <2>1. CASE k = 3 * n + 1
    BY <1>9, <2>1
  <2>2. CASE k \in 1..(3 * n)
    <3>1. PICK i \in 1..n : k = 3 * i - 2 \/ k = 3 * i - 1 \/ k = 3 * i
      BY <1>6, <2>2
    <3> QED
      BY <1>5, <1>9, <2>2, <3>1
  <2> QED
    BY <1>1, <2>1, <2>2
<1>11. \A k \in 1..(3 * n + 1) :
          /\ todo[k][1] # "evict" => todo[k][2] \in ToSet(rs)
          /\ todo[k][1] = "evict" => todo[k][2] <= t
  <2> SUFFICES ASSUME NEW k \in 1..(3 * n + 1)
               PROVE  /\ todo[k][1] # "evict" => todo[k][2] \in ToSet(rs)
                      /\ todo[k][1] = "evict" => todo[k][2] <= t
    OBVIOUS
  <2>1. CASE todo[k] = <<"evict", t>>
    BY <2>1
  <2>2. ASSUME NEW i \in 1..n,
               \/ todo[k] = <<"hset", rs[i]>>
               \/ todo[k] = <<"expire", rs[i]>>
               \/ todo[k] = <<"zadd", rs[i]>>
        PROVE  todo[k][1] # "evict" /\ todo[k][2] \in ToSet(rs)
    BY <1>1, <2>2
  <2> QED
    BY <1>10, <2>1, <2>2
<1>12. ASSUME NEW k \in 1..(3 * n + 1), todo[k][1] = "zadd"
       PROVE  \E i \in 1..n : k = 3 * i /\ todo[k] = <<"zadd", rs[i]>>
  BY <1>10, <1>12
<1>13. \A j, k \in 1..(3 * n + 1) :
          j < k /\ todo[j][1] = "zadd" /\ todo[k][1] = "zadd" => todo[j][2] < todo[k][2]
  <2> SUFFICES ASSUME NEW j \in 1..(3 * n + 1), NEW k \in 1..(3 * n + 1),
                      j < k, todo[j][1] = "zadd", todo[k][1] = "zadd"
               PROVE  todo[j][2] < todo[k][2]
    OBVIOUS
  <2>1. PICK i \in 1..n : j = 3 * i /\ todo[j] = <<"zadd", rs[i]>>
    BY <1>12
  <2>2. PICK m \in 1..n : k = 3 * m /\ todo[k] = <<"zadd", rs[m]>>
    BY <1>12
  <2>3. i < m
    BY <1>1, <2>1, <2>2
  <2> QED
    BY <1>2, <2>1, <2>2, <2>3
<1>14. HashFirst(todo, {})
  <2> SUFFICES ASSUME NEW k \in 1..(3 * n + 1), todo[k][1] = "zadd"
               PROVE  \E j \in 1..(k - 1) : todo[j] = <<"hset", todo[k][2]>>
    BY <1>9 DEF HashFirst
  <2>1. PICK i \in 1..n : k = 3 * i /\ todo[k] = <<"zadd", rs[i]>>
    BY <1>12
  <2>2. 3 * i - 2 \in 1..(3 * n) /\ 3 * i - 2 \in 1..(k - 1)
    BY <1>1, <2>1
  <2>3. todo[3 * i - 2] = <<"hset", rs[i]>>
    BY <1>5, <1>9, <2>2
  <2> QED
    BY <2>1, <2>2, <2>3
<1>15. ToSet(rs) \subseteq DueIn(todo)
  <2> SUFFICES ASSUME NEW i \in 1..n PROVE rs[i] \in DueIn(todo)
    BY <1>3
  <2>1. todo[3 * i] = <<"zadd", rs[i]>> /\ 3 * i \in 1..(3 * n + 1)
    BY <1>1, <1>5, <1>9
  <2> QED
    BY <1>1, <1>9, <2>1 DEF DueIn
<1>16. Ordered(todo, ToSet(rs), t)
  BY <1>9, <1>11, <1>13 DEF Ordered
<1> QED
  BY <1>14, <1>15, <1>16 DEF todo, cs

(* What is left once the first command is applied. *)
LEMMA NextCommand ==
    ASSUME NEW todo, NEW P \in SUBSET Nat, NEW t \in Nat, NEW H, Ordered(todo, P, t),
           HashFirst(todo, H), todo # <<>>
    PROVE  /\ Head(todo) \in CommandKinds \X Nat
           /\ Head(todo)[1] # "evict" => Head(todo)[2] \in P
           /\ Head(todo)[1] = "evict" => Head(todo)[2] <= t
           /\ Head(todo)[1] = "zadd" => Head(todo)[2] \in H /\ Head(todo)[2] \in DueIn(todo)
           /\ Ordered(Tail(todo), P, t)
           /\ \A G : H \subseteq G /\ (Head(todo)[1] = "hset" => Head(todo)[2] \in G)
                        => HashFirst(Tail(todo), G)
           /\ DueIn(Tail(todo)) \subseteq DueIn(todo)
           /\ Head(todo)[1] = "zadd" => \A r \in DueIn(Tail(todo)) : Head(todo)[2] < r
           /\ \A r \in DueIn(todo) : r \in DueIn(Tail(todo)) \/ Head(todo) = <<"zadd", r>>
<1> DEFINE rest == Tail(todo)
           n == Len(todo)
<1>1. /\ todo \in Seq(CommandKinds \X Nat)
      /\ \A k \in 1..n : /\ todo[k][1] # "evict" => todo[k][2] \in P
                         /\ todo[k][1] = "evict" => todo[k][2] <= t
      /\ \A j, k \in 1..n :
            j < k /\ todo[j][1] = "zadd" /\ todo[k][1] = "zadd" => todo[j][2] < todo[k][2]
  BY DEF Ordered
<1>2. /\ n \in Nat /\ n >= 1 /\ Head(todo) = todo[1] /\ Head(todo) \in CommandKinds \X Nat
      /\ rest \in Seq(CommandKinds \X Nat) /\ Len(rest) = n - 1
      /\ \A k \in 1..(n - 1) : rest[k] = todo[k + 1]
  BY <1>1, EmptySeq, LenProperties, HeadTailProperties
<1> HIDE DEF rest, n
<1>3. /\ 1 \in 1..n
      /\ \A k \in 1..(n - 1) : k + 1 \in 1..n /\ 1 < k + 1
  BY <1>2
<1>4. /\ Head(todo)[1] # "evict" => Head(todo)[2] \in P
      /\ Head(todo)[1] = "evict" => Head(todo)[2] <= t
  BY <1>1, <1>2, <1>3
<1>5. Head(todo)[1] = "zadd" => Head(todo)[2] \in H
  <2>1. \A j \in 1..(1 - 1) : FALSE
    OBVIOUS
  <2> QED
    BY <1>2, <1>3, <2>1 DEF HashFirst, n
<1>6. Ordered(rest, P, t)
  <2>1. \A j, k \in 1..(n - 1) :
          j < k /\ rest[j][1] = "zadd" /\ rest[k][1] = "zadd" => rest[j][2] < rest[k][2]
    <3>1. \A j, k \in 1..(n - 1) : j < k => j + 1 < k + 1
      BY <1>2
    <3> QED
      BY <1>1, <1>2, <1>3, <3>1
  <2> QED
    BY <1>1, <1>2, <1>3, <2>1 DEF Ordered
<1>7. ASSUME NEW G, H \subseteq G, Head(todo)[1] = "hset" => Head(todo)[2] \in G
      PROVE  HashFirst(rest, G)
  <2> SUFFICES ASSUME NEW k \in 1..(n - 1), rest[k][1] = "zadd", rest[k][2] \notin G
               PROVE  \E j \in 1..(k - 1) : rest[j] = <<"hset", rest[k][2]>>
    BY <1>2 DEF HashFirst
  <2>1. PICK j \in 1..((k + 1) - 1) : todo[j] = <<"hset", rest[k][2]>>
    <3>1. k + 1 \in 1..Len(todo) /\ todo[k + 1] = rest[k]
      BY <1>2, <1>3 DEF n
    <3>2. rest[k][2] \notin H
      BY <1>7
    <3> QED
      BY ONLY <3>1, <3>2, HashFirst(todo, H), rest[k][1] = "zadd" DEF HashFirst
  <2>2. j # 1
    BY <1>2, <1>7, <2>1
  <2>3. j - 1 \in 1..(k - 1) /\ j - 1 \in 1..(n - 1) /\ (j - 1) + 1 = j
    BY <1>2, <2>1, <2>2
  <2>4. rest[j - 1] = todo[j]
    BY <1>2, <2>3
  <2> QED
    BY <2>1, <2>3, <2>4
<1>8. DueIn(rest) \subseteq DueIn(todo)
  BY <1>2, <1>3 DEF DueIn, n
<1>9. ASSUME Head(todo)[1] = "zadd", NEW r \in DueIn(rest) PROVE Head(todo)[2] < r
  <2>1. PICK k \in 1..(n - 1) : rest[k] = <<"zadd", r>>
    BY <1>2 DEF DueIn
  <2>2. todo[k + 1] = <<"zadd", r>> /\ todo[k + 1][1] = "zadd" /\ todo[k + 1][2] = r
    BY <1>2, <2>1
  <2> QED
    BY <1>1, <1>2, <1>3, <1>9, <2>2
<1>10. ASSUME NEW r \in DueIn(todo) PROVE r \in DueIn(rest) \/ Head(todo) = <<"zadd", r>>
  <2>1. PICK k \in 1..n : todo[k] = <<"zadd", r>> /\ r \in Nat
    BY DEF DueIn, n
  <2>2. CASE k = 1
    BY <1>2, <2>1, <2>2
  <2>3. CASE k # 1
    <3>1. k - 1 \in 1..(n - 1) /\ (k - 1) + 1 = k
      BY <1>2, <2>3
    <3>2. rest[k - 1] = <<"zadd", r>>
      BY <1>2, <2>1, <3>1
    <3> QED
      BY <1>2, <2>1, <3>1, <3>2 DEF DueIn
  <2> QED
    BY <2>2, <2>3
<1>11. ASSUME Head(todo)[1] = "zadd" PROVE Head(todo)[2] \in DueIn(todo)
  <2>1. Head(todo) = <<"zadd", Head(todo)[2]>> /\ Head(todo)[2] \in Nat
    BY <1>2, <1>11
  <2>2. todo[1] = <<"zadd", Head(todo)[2]>>
    BY <1>2, <2>1
  <2> QED
    BY <1>3, <2>1, <2>2 DEF DueIn, n
<1> QED
  BY <1>2, <1>4, <1>5, <1>6, <1>7, <1>8, <1>9, <1>10, <1>11 DEF rest

-------------------------------------------------------------------------------
(* The invariant of the stores.                                            *)

Numbers == 1..submitted

(* A record nobody is owed an answer about: too old, within a second, or   *)
(* chosen by a purge.                                                      *)
Gone(r) == r \in purged \/ Fading(r)
Safe == {r \in Numbers : r \in rows \/ Gone(r)}

(* Records are stamped in the order of their numbers. *)
Clocks ==
    /\ now \in Nat /\ at \in Seq(Nat) /\ Len(at) = submitted
    /\ \A r \in Numbers : at[r] <= now
    /\ \A r, q \in Numbers : r <= q => at[r] <= at[q]
    /\ backend \in {"sqlite", "postgres", "redis", "other"}

(* Only records are anywhere; a SQL table has what is stored and not purged. *)
Contents ==
    /\ index \subseteq Numbers /\ rows \subseteq Numbers /\ purged \subseteq Numbers
    /\ stored \subseteq Numbers /\ ToSet(batch) \subseteq Numbers /\ ToSet(queue) \subseteq Numbers
    /\ Sql => stored \subseteq rows \cup purged /\ mortal = {}

(* The writer's pipeline is about its batch, and gives a record its hash first. *)
Piped ==
    /\ pipe \in [plan : SUBSET Nat, todo : Seq(CommandKinds \X Nat)]
    /\ pipe # Nothing => writer = "write" /\ Redis
    /\ pipe.plan \subseteq ToSet(batch)
    /\ Ordered(pipe.todo, pipe.plan, now)
    /\ HashFirst(pipe.todo, Safe)

(* The records that are, or by the answer of the writer's call will be,    *)
(* confirmed with no command to come; the ones still to enter the index.   *)
Settled == stored \cup (pipe.plan \ DueIn(pipe.todo))
Pending == DueIn(pipe.todo) \cup ToSet(queue)

(* What is confirmed stands in the index with its hash, and what enters    *)
(* the index is newer than all that is in it or was chosen from it.        *)
Indexed ==
    /\ Redis => \A r \in Settled : (r \in index /\ r \in rows) \/ Gone(r)
    /\ index \subseteq Safe
    /\ \A x \in index \cup purging.ids, y \in Pending : x < y

(* A purge takes the oldest of the index and all that is confirmed below. *)
Purging ==
    /\ purging \in [left : Seq(Nat), ids : SUBSET Nat]
    /\ ToSet(purging.left) \subseteq purging.ids
    /\ purging.ids \subseteq purged
    /\ purging.ids # {} => Redis
    /\ \A x \in purging.ids, r \in Settled : r <= x => Gone(r)

(* What a listing owes, what it shows, and that it shows the newest first. *)
Kept == {r \in listing.must \ purged : Redis => ~ Fading(r)}
Shown == ToSet(listing.out)
NewerShown ==
    \A j \in DOMAIN listing.out, r \in Kept :
        r > listing.out[j] => \E i \in 1..j : listing.out[i] = r
Asking ==
    /\ listing.must \subseteq stored /\ listing.must \subseteq Matching(listing.method)
    /\ listing.limit \in Nat \ {0}
    /\ listing.out \in Seq(Nat) /\ Len(listing.out) <= listing.limit
    /\ NewerShown

(* A walk of the index: the rest of its page is in order, and an owed      *)
(* record is shown, on the page, or will be read on a later one.           *)
Fields == {"k", "ids", "start", "out", "stale", "method", "limit", "must"}
Walking ==
    /\ DOMAIN listing = Fields
    /\ Redis
    /\ listing.stale \subseteq Numbers /\ \A r \in listing.stale : Gone(r)
    /\ listing.start \in Nat
    /\ listing.ids \in Seq(Nat) /\ ToSet(listing.ids) \subseteq Safe
    /\ \A i, j \in 1..Len(listing.ids) : i < j => listing.ids[i] > listing.ids[j]
Behind(r) == Above(index, r) >= listing.start /\ \A x \in ToSet(listing.ids) : r < x

Listed ==
    /\ listing.k \in {"idle", "get", "drop", "done"}
    /\ listing.k # "idle" => Asking
    /\ listing.k \in {"get", "drop"} => Walking
    /\ listing.k = "get" => \A r \in Kept : r \in Shown \/ r \in ToSet(listing.ids) \/ Behind(r)
    /\ listing.k = "drop" => Kept \subseteq Shown
    /\ listing.k = "done" => \A r \in Kept : r \in Shown \/ Len(listing.out) = listing.limit

StoreInv == Clocks /\ Contents /\ Piped /\ Indexed /\ Purging /\ Listed

-------------------------------------------------------------------------------
(* What steps leave in place.                                              *)

(* Time, submissions and purges only go on. *)
Onward ==
    /\ backend' = backend
    /\ Numbers \subseteq Numbers' /\ purged \subseteq purged'
    /\ now' \in Nat /\ now <= now'
    /\ \A r \in Numbers : at'[r] = at[r]
    /\ DOMAIN at \subseteq DOMAIN at'

LEMMA ClockFacts ==
    ASSUME Clocks
    PROVE  /\ DOMAIN at = Numbers /\ now \in Nat /\ Ttl \in Nat
           /\ \A r \in Numbers : r \in Nat /\ at[r] \in Nat /\ at[r] <= now
<1>1. /\ Len(at) = submitted /\ DOMAIN at = 1..Len(at)
      /\ \A i \in 1..Len(at) : at[i] \in Nat
  BY LenProperties, ToSetDef DEF Clocks
<1>2. \A r \in Numbers : r \in Nat
  BY DEF Numbers
<1> QED
  BY <1>1, <1>2, RecordStoresAssumption DEF Clocks, Numbers

LEMMA GoneStays ==
    ASSUME Clocks, Onward, NEW r \in Numbers, Gone(r)
    PROVE  Gone(r)'
<1>1. /\ at'[r] = at[r] /\ at[r] \in Nat /\ now \in Nat /\ now' \in Nat /\ now <= now'
      /\ Ttl \in Nat /\ purged \subseteq purged'
  BY ClockFacts DEF Onward
<1>2. CASE r \in purged
  BY <1>1, <1>2 DEF Gone
<1>3. CASE at[r] + Ttl <= now + 1
  <2>1. at'[r] + Ttl <= now' + 1
    BY <1>1, <1>3
  <2> QED
    BY <2>1 DEF Gone, Fading, Aged
<1> QED
  BY <1>2, <1>3 DEF Gone, Fading, Aged

LEMMA SafeStays ==
    ASSUME Clocks, Onward, \A r \in rows \ rows' : Gone(r)'
    PROVE  Safe \subseteq Safe'
<1> SUFFICES ASSUME NEW r \in Safe PROVE r \in Safe'
  OBVIOUS
<1>1. r \in Numbers /\ r \in Numbers' /\ (r \in rows \/ Gone(r))
  BY DEF Safe, Onward
<1>2. r \in rows' \/ Gone(r)'
  BY <1>1, GoneStays
<1> QED
  BY <1>1, <1>2 DEF Safe

(* An older record is past its ttl no later than a newer one. *)
LEMMA OlderAges ==
    ASSUME Clocks, NEW x \in Numbers, NEW r \in Numbers, r <= x, NEW t \in Nat, t <= now,
           Aged(x, t)
    PROVE  Gone(r)
<1>1. at[r] <= at[x] /\ at[r] \in Nat /\ at[x] \in Nat /\ now \in Nat /\ Ttl \in Nat
  BY ClockFacts DEF Clocks
<1>2. at[x] + Ttl <= t
  BY DEF Aged
<1>3. at[r] + Ttl <= now + 1
  BY <1>1, <1>2
<1> QED
  BY <1>3 DEF Gone, Fading, Aged

(* A listing goes on as it is while records come, and go that are not owed. *)
LEMMA ListedStays ==
    ASSUME StoreInv, Onward, Contents', listing' = listing, stored \subseteq stored',
           submitted' \in Nat,
           \A r \in rows \ rows' : Gone(r)',
           \A x \in index \ index', r \in stored : r <= x => Gone(r)'
    PROVE  Listed'
<1>1. Clocks /\ Listed /\ stored \subseteq Numbers
  BY DEF StoreInv, Contents
<1>2. Redis' = Redis
  BY DEF Onward, Redis
<1>3. ASSUME listing.k # "idle"
      PROVE  Asking' /\ Kept' \subseteq Kept /\ listing.must \subseteq Numbers
  <2>1. /\ listing.must \subseteq stored /\ listing.must \subseteq Matching(listing.method)
        /\ listing.limit \in Nat \ {0}
        /\ listing.out \in Seq(Nat) /\ Len(listing.out) <= listing.limit
        /\ NewerShown
    BY <1>1, <1>3 DEF Listed, Asking
  <2>2. Kept' \subseteq Kept
    <3> SUFFICES ASSUME NEW r \in Kept' PROVE r \in Kept
      OBVIOUS
    <3>1. r \in listing.must /\ r \notin purged' /\ (Redis => ~ Fading(r)')
      BY <1>2 DEF Kept
    <3>2. r \in Numbers /\ r \notin purged
      BY <1>1, <2>1, <3>1 DEF Onward
    <3>3. Redis => ~ Fading(r)
      BY <1>1, <3>1, <3>2, GoneStays DEF Gone
    <3> QED
      BY <3>1, <3>2, <3>3 DEF Kept
  <2>3. NewerShown'
    BY <2>1, <2>2 DEF NewerShown
  <2>4. Matching(listing.method) \subseteq Matching(listing.method)'
    BY DEF Matching, Onward
  <2> QED
    BY <1>1, <2>1, <2>2, <2>3, <2>4 DEF Asking
<1>4. ASSUME listing.k \in {"get", "drop"}
      PROVE  Walking'
  <2>1. Walking
    BY <1>1, <1>4 DEF Listed
  <2>2. \A r \in listing.stale : r \in Numbers' /\ Gone(r)'
    BY <1>1, <2>1, GoneStays DEF Walking, Onward
  <2>3. ToSet(listing.ids) \subseteq Safe'
    BY <1>1, <2>1, SafeStays DEF Walking
  <2> QED
    BY <1>2, <2>1, <2>2, <2>3 DEF Walking
<1>5. ASSUME listing.k = "get", NEW r \in Kept'
      PROVE  (r \in Shown \/ r \in ToSet(listing.ids) \/ Behind(r))'
  <2>1. r \in Kept /\ r \in listing.must /\ Redis /\ Redis'
    BY <1>1, <1>2, <1>3, <1>5 DEF Listed, Walking, Kept
  <2>2. r \in stored /\ ~ Gone(r)' /\ r \in Nat
    <3>1. listing.must \subseteq stored
      BY <1>1, <1>5 DEF Listed, Asking
    <3>2. r \notin purged' /\ ~ Fading(r)'
      BY <2>1 DEF Kept
    <3>3. ~ Gone(r)'
      BY <3>2 DEF Gone
    <3>4. r \in Numbers
      BY <1>1, <2>1, <3>1
    <3> QED
      BY <2>1, <3>1, <3>3, <3>4, ClockFacts, <1>1
  <2>3. CASE Behind(r)
    <3>1. \A x \in index : x > r => x \in index'
      <4> SUFFICES ASSUME NEW x \in index, x > r, x \notin index' PROVE FALSE
        OBVIOUS
      <4>1. x \in Nat /\ r <= x
        BY <2>2 DEF StoreInv, Contents, Numbers
      <4> QED
        BY <2>2, <4>1
    <3>2. index' \in SUBSET Nat /\ IsFiniteSet(index')
      <4>1. index' \in SUBSET (1..submitted')
        BY DEF Contents, Numbers
      <4>2. IsFiniteSet(1..submitted')
        BY FS_Interval
      <4>3. \A x \in 1..submitted' : x \in Nat
        OBVIOUS
      <4> QED
        BY <4>1, <4>2, <4>3, FS_Subset
    <3>3. /\ Above(index', r) \in Nat /\ Above(index, r) \in Nat
          /\ Above(index, r) <= Above(index', r)
      BY <2>2, <3>1, <3>2, AboveGrows
    <3>4. listing.start \in Nat
      BY <1>1, <1>5 DEF Listed, Walking
    <3> QED
      BY <2>3, <3>3, <3>4 DEF Behind
  <2> QED
    BY <1>1, <1>5, <2>1, <2>3 DEF Listed, Shown
<1>6. listing.k = "drop" => Kept' \subseteq Shown'
  BY <1>1, <1>3 DEF Listed, Shown
<1>7. listing.k = "done" => \A r \in Kept' : r \in Shown' \/ Len(listing.out) = listing.limit
  BY <1>1, <1>3 DEF Listed, Shown
<1> QED
  BY <1>1, <1>3, <1>4, <1>5, <1>6, <1>7 DEF Listed

(* What is settled or chosen by a purge is a record. *)
LEMMA SettledFacts ==
    ASSUME StoreInv
    PROVE  /\ Settled \subseteq Numbers /\ stored \subseteq Settled
           /\ purging.ids \subseteq Numbers /\ index \subseteq Numbers
           /\ pipe.plan \in SUBSET Nat /\ pipe.plan \subseteq Numbers
           /\ pipe.plan \subseteq ToSet(batch)
<1>1. pipe.plan \in SUBSET Nat /\ pipe.plan \subseteq ToSet(batch)
  BY DEF StoreInv, Piped
<1>2. stored \subseteq Numbers /\ ToSet(batch) \subseteq Numbers /\ purged \subseteq Numbers
      /\ index \subseteq Numbers
  BY DEF StoreInv, Contents
<1>3. purging.ids \subseteq purged
  BY DEF StoreInv, Purging
<1> QED
  BY <1>1, <1>2, <1>3 DEF Settled

LEMMA IndexedStays ==
    ASSUME StoreInv, Onward,
           \A r \in rows \ rows' : Gone(r)',
           \A x \in index \ index' : x \in Settled => Gone(x)',
           Redis => \A r \in Settled' : r \in Settled \/ (r \in index' /\ r \in Safe'),
           index' \subseteq index \cup Safe',
           \A x \in index' \cup purging'.ids, y \in Pending' :
               (x \in index \cup purging.ids /\ y \in Pending) \/ x < y
    PROVE  Indexed'
<1>1. /\ Clocks /\ Indexed /\ Settled \subseteq Numbers /\ index \subseteq Numbers
      /\ Redis' = Redis /\ Numbers \subseteq Numbers'
  BY SettledFacts DEF StoreInv, Onward, Redis
<1>2. ASSUME Redis, NEW r \in Settled'
      PROVE  (r \in index' /\ r \in rows') \/ Gone(r)'
  <2>1. CASE r \in Settled
    <3>1. (r \in index /\ r \in rows) \/ Gone(r)
      BY <1>1, <1>2, <2>1 DEF Indexed
    <3>2. r \in Numbers /\ (Gone(r) => Gone(r)')
      BY <1>1, <2>1, GoneStays
    <3>3. r \in index \ index' => Gone(r)'
      BY <1>1, <2>1
    <3> QED
      BY <3>1, <3>2, <3>3
  <2>2. CASE r \in index' /\ r \in Safe'
    BY <2>2 DEF Safe
  <2> QED
    BY <1>2, <2>1, <2>2
<1>3. index' \subseteq Safe'
  BY <1>1, SafeStays DEF Indexed
<1>4. \A x \in index' \cup purging'.ids, y \in Pending' : x < y
  BY <1>1 DEF Indexed
<1> QED
  BY <1>1, <1>2, <1>3, <1>4 DEF Indexed

LEMMA PurgingStays ==
    ASSUME StoreInv, Onward, purging' = purging,
           \A r \in Settled' : r \in Settled \/ (r \in Nat /\ \A x \in purging.ids : x < r)
    PROVE  Purging'
<1>1. /\ Clocks /\ Purging /\ Settled \subseteq Numbers /\ purging.ids \subseteq Numbers
      /\ Redis' = Redis /\ purged \subseteq purged'
  BY SettledFacts DEF StoreInv, Onward, Redis
<1>2. ASSUME NEW x \in purging.ids, NEW r \in Settled', r <= x PROVE Gone(r)'
  <2>1. CASE r \in Settled
    BY <1>1, <1>2, <2>1, GoneStays DEF Purging
  <2>2. CASE x < r /\ r \in Nat
    <3>1. x \in Nat
      BY <1>1, ClockFacts
    <3> QED
      BY <1>2, <2>2, <3>1
  <2> QED
    BY <1>2, <2>1, <2>2
<1> QED
  BY <1>1, <1>2 DEF Purging

(* No call in progress. *)
LEMMA NoPipe ==
    /\ Ordered(<<>>, {}, now) /\ DueIn(<<>>) = {} /\ \A H : HashFirst(<<>>, H)
    /\ Nothing \in [plan : SUBSET Nat, todo : Seq(CommandKinds \X Nat)]
    /\ Nothing.plan = {} /\ Nothing.todo = <<>>
<1>1. Len(<<>>) = 0 /\ <<>> \in Seq(CommandKinds \X Nat) /\ 1..0 = {}
  OBVIOUS
<1> QED
  BY <1>1 DEF Ordered, DueIn, HashFirst, Nothing

LEMMA PipedStays ==
    ASSUME StoreInv, Onward, pipe' = pipe, \A r \in rows \ rows' : Gone(r)',
           pipe = Nothing \/ (writer' = writer /\ batch' = batch)
    PROVE  Piped' /\ Safe \subseteq Safe'
<1>1. /\ Clocks /\ Piped /\ Redis' = Redis /\ now \in Nat /\ now' \in Nat /\ now <= now'
  BY ClockFacts DEF StoreInv, Onward, Redis
<1>2. Safe \subseteq Safe'
  BY <1>1, SafeStays
<1>3. Ordered(pipe.todo, pipe.plan, now')
  <2>1. ASSUME NEW k \in 1..Len(pipe.todo), pipe.todo[k][1] = "evict"
        PROVE  pipe.todo[k][2] <= now'
    <3>1. pipe.todo[k][2] <= now /\ pipe.todo \in Seq(CommandKinds \X Nat)
      BY <1>1, <2>1 DEF Piped, Ordered
    <3>2. pipe.todo[k] \in CommandKinds \X Nat
      BY <3>1, LenProperties
    <3>3. pipe.todo[k][2] \in Nat
      BY <3>2
    <3> QED
      BY <1>1, <3>1, <3>3
  <2> QED
    BY <1>1, <2>1 DEF Piped, Ordered
<1>4. HashFirst(pipe.todo, Safe')
  BY <1>1, <1>2 DEF Piped, HashFirst
<1>5. pipe.plan \subseteq ToSet(batch')
  BY <1>1, NoPipe DEF Piped
<1>6. pipe # Nothing => writer' = "write" /\ Redis'
  BY <1>1 DEF Piped
<1> QED
  BY <1>1, <1>2, <1>3, <1>4, <1>5, <1>6 DEF Piped

(* The next command of the pipeline is applied. *)
LEMMA PipeAdvances ==
    ASSUME StoreInv, Onward, now' = now, pipe.todo # <<>>,
           pipe' = [pipe EXCEPT !.todo = Tail(@)],
           writer' = writer, batch' = batch, queue' = queue, stored' = stored,
           Safe \subseteq Safe',
           Head(pipe.todo)[1] = "hset" => Subject \in Safe'
    PROVE  /\ Piped' /\ Redis /\ writer = "write"
           /\ Subject \in Nat
           /\ Head(pipe.todo)[1] # "evict" => Subject \in pipe.plan
           /\ Head(pipe.todo)[1] = "evict" => Subject <= now
           /\ Head(pipe.todo)[1] = "zadd" => /\ Subject \in Safe /\ Subject \in DueIn(pipe.todo)
                                            /\ \A y \in DueIn(pipe'.todo) : Subject < y
           /\ Pending' \subseteq Pending
           /\ \A r \in Settled' : r \in Settled \/ Head(pipe.todo) = <<"zadd", r>>
<1> DEFINE P == pipe.plan
           todo == pipe.todo
<1>1. /\ Piped /\ now \in Nat /\ Redis' = Redis
      /\ pipe \in [plan : SUBSET Nat, todo : Seq(CommandKinds \X Nat)]
      /\ Ordered(todo, P, now) /\ HashFirst(todo, Safe) /\ P \in SUBSET Nat
      /\ P \subseteq ToSet(batch)
  BY ClockFacts DEF StoreInv, Onward, Redis, Piped
<1>2. pipe' = [plan |-> P, todo |-> Tail(todo)]
  BY <1>1
<1>3. writer = "write" /\ Redis
  <2>1. pipe # Nothing
    BY NoPipe
  <2> QED
    BY <1>1, <2>1 DEF Piped
<1> HIDE DEF P, todo
<1>4. todo # <<>> /\ Subject = Head(todo)[2]
  BY DEF Subject, todo
<1>5. /\ Head(todo) \in CommandKinds \X Nat
      /\ Head(todo)[1] # "evict" => Head(todo)[2] \in P
      /\ Head(todo)[1] = "evict" => Head(todo)[2] <= now
      /\ Head(todo)[1] = "zadd" => Head(todo)[2] \in Safe /\ Head(todo)[2] \in DueIn(todo)
      /\ Ordered(Tail(todo), P, now)
      /\ HashFirst(Tail(todo), Safe')
      /\ DueIn(Tail(todo)) \subseteq DueIn(todo)
      /\ Head(todo)[1] = "zadd" => \A r \in DueIn(Tail(todo)) : Head(todo)[2] < r
      /\ \A r \in DueIn(todo) : r \in DueIn(Tail(todo)) \/ Head(todo) = <<"zadd", r>>
  <2>1. Head(todo)[1] = "hset" => Head(todo)[2] \in Safe'
    BY <1>4 DEF todo
  <2> QED
    BY <1>1, <1>4, <2>1, NextCommand
<1>6. Tail(todo) \in Seq(CommandKinds \X Nat)
  BY <1>5 DEF Ordered
<1>7. pipe'.plan = P /\ pipe'.todo = Tail(todo)
  BY <1>2
<1>8. Piped'
  <2>1. pipe' \in [plan : SUBSET Nat, todo : Seq(CommandKinds \X Nat)]
    <3>1. P \in SUBSET Nat
      BY <1>1
    <3> HIDE DEF CommandKinds
    <3> QED
      BY ONLY <1>2, <1>6, <3>1
  <2>2. pipe'.plan \subseteq ToSet(batch')
    BY <1>1, <1>7
  <2>3. Ordered(pipe'.todo, pipe'.plan, now') /\ HashFirst(pipe'.todo, Safe')
    BY <1>5, <1>7
  <2>4. writer' = "write" /\ Redis'
    BY <1>1, <1>3
  <2> QED
    BY <2>1, <2>2, <2>3, <2>4 DEF Piped
<1>9. Pending' \subseteq Pending
  BY <1>5, <1>7 DEF Pending, todo
<1>10. \A r \in Settled' : r \in Settled \/ Head(todo) = <<"zadd", r>>
  BY <1>5, <1>7 DEF Settled, todo, P
<1>11. Head(todo)[2] \in Nat
  BY <1>5
<1> QED
  BY <1>3, <1>4, <1>5, <1>7, <1>8, <1>9, <1>10, <1>11 DEF todo, P

-------------------------------------------------------------------------------
(* The steps.                                                              *)

(* A step that lets neither time pass nor a record come in. *)
LEMMA TimeStays ==
    ASSUME Clocks, UNCHANGED <<backend, now, at, submitted>>, purged \subseteq purged'
    PROVE  Onward /\ Clocks' /\ Numbers' = Numbers /\ Redis' = Redis /\ Sql' = Sql
<1>1. now \in Nat /\ now <= now
  BY ClockFacts
<1>2. Numbers' = Numbers
  BY DEF Numbers
<1> QED
  BY <1>1, <1>2 DEF Onward, Clocks, Redis, Sql

(* A record in the writer's hands is older than those in the queue. *)
LEMMA BatchFirst ==
    ASSUME FlusherInv, NEW x \in ToSet(batch), NEW y \in ToSet(queue)
    PROVE  x < y
<1>1. batch \in Seq(Nat) /\ queue \in Seq(Nat) /\ Increasing(batch \o queue)
  BY DEF FlusherInv, TypeOK, Places
<1> QED
  BY <1>1, IncreasingConcat

(* A command of the pipeline. *)
LEMMA ApplyStep ==
    ASSUME FlusherInv, StoreInv, Hset \/ Expire \/ Zadd \/ Evict
    PROVE  StoreInv'
<1> DEFINE command == Head(pipe.todo)[1]
<1>1. /\ pipe.todo # <<>> /\ pipe' = [pipe EXCEPT !.todo = Tail(@)]
      /\ UNCHANGED <<vars, backend, bound, now, at, purging, listing, purged, used>>
  BY DEF Hset, Expire, Zadd, Evict, Applies
<1>2. \/ command = "hset" /\ rows' = rows \cup {Subject} /\ index' = index
      \/ command = "expire" /\ rows' = rows /\ index' = index
      \/ command = "zadd" /\ rows' = rows /\ index' = index \cup {Subject}
      \/ command = "evict" /\ rows' = rows /\ index' = {r \in index : ~ Aged(r, Subject)}
  BY DEF Hset, Expire, Zadd, Evict, Applies
<1>3. /\ writer' = writer /\ batch' = batch /\ queue' = queue /\ stored' = stored
      /\ submitted' = submitted /\ now' = now /\ purging' = purging /\ listing' = listing
      /\ purged' = purged
  BY <1>1 DEF vars
<1>4. Clocks /\ Onward /\ Clocks' /\ Numbers' = Numbers /\ Redis' = Redis /\ Sql' = Sql
  BY <1>1, <1>3, TimeStays DEF StoreInv
<1> HIDE DEF command
<1>5. rows \ rows' = {} /\ Safe \subseteq Safe' /\ \A r \in Numbers : Gone(r)' <=> Gone(r)
  <2>1. rows \ rows' = {}
    BY <1>2
  <2> QED
    BY <1>1, <1>3, <1>4, <2>1, SafeStays DEF Gone, Fading, Aged
<1>6. command = "hset" => Subject \in Numbers /\ Subject \in Safe'
  <2> SUFFICES ASSUME command = "hset" PROVE Subject \in Numbers /\ Subject \in Safe'
    OBVIOUS
  <2>1. Subject \in pipe.plan
    <3>1. /\ Ordered(pipe.todo, pipe.plan, now) /\ HashFirst(pipe.todo, Safe)
          /\ pipe.plan \in SUBSET Nat /\ now \in Nat
      BY ClockFacts, <1>4 DEF StoreInv, Piped
    <3>2. Head(pipe.todo)[1] # "evict" => Head(pipe.todo)[2] \in pipe.plan
      BY <1>1, <3>1, NextCommand
    <3> QED
      BY <3>2 DEF Subject, command
  <2>2. Subject \in Numbers
    BY <2>1, SettledFacts
  <2> QED
    BY <1>2, <1>4, <2>2 DEF Safe
<1>7. /\ Piped' /\ Redis /\ writer = "write"
      /\ Subject \in Nat
      /\ command # "evict" => Subject \in pipe.plan
      /\ command = "evict" => Subject <= now
      /\ command = "zadd" => /\ Subject \in Safe /\ Subject \in DueIn(pipe.todo)
                             /\ \A y \in DueIn(pipe'.todo) : Subject < y
      /\ Pending' \subseteq Pending
      /\ \A r \in Settled' : r \in Settled \/ Head(pipe.todo) = <<"zadd", r>>
  BY <1>1, <1>3, <1>4, <1>5, <1>6, PipeAdvances DEF command
<1>8. command # "evict" => Subject \in Numbers /\ Subject \in ToSet(batch)
  BY <1>7, SettledFacts
<1>9. \A r \in Settled' : r \in Settled \/ (command = "zadd" /\ r = Subject)
  BY <1>7 DEF command, Subject
<1>10. Contents'
  <2>1. Contents
    BY DEF StoreInv
  <2>2. index' \subseteq Numbers /\ rows' \subseteq Numbers
    BY <1>2, <1>8, <2>1 DEF Contents
  <2> QED
    BY <1>3, <1>4, <1>7, <2>1, <2>2 DEF Contents, Redis, Sql
<1>11. \A x \in index \ index', r \in Settled : r <= x => Gone(r)'
  <2> SUFFICES ASSUME NEW x \in index \ index', NEW r \in Settled, r <= x PROVE Gone(r)'
    OBVIOUS
  <2>1. command = "evict" /\ Aged(x, Subject) /\ Subject \in Nat /\ Subject <= now
    BY <1>2, <1>7
  <2>2. x \in Numbers /\ r \in Numbers
    BY SettledFacts
  <2>3. Gone(r)
    BY <1>4, <2>1, <2>2, OlderAges
  <2> QED
    BY <1>5, <2>2, <2>3
<1>12. Purging'
  <2>1. ASSUME NEW r \in Settled', r \notin Settled
        PROVE  r \in Nat /\ \A x \in purging.ids : x < r
    <3>1. r = Subject /\ Subject \in DueIn(pipe.todo) /\ Subject \in Nat
      BY <1>7, <1>9, <2>1
    <3>2. r \in Pending
      BY <3>1 DEF Pending
    <3> QED
      BY <3>1, <3>2 DEF StoreInv, Indexed
  <2> QED
    BY <1>3, <1>4, <2>1, PurgingStays
<1>13. Indexed'
  <2>1. \A r \in Settled' : r \in Settled \/ (r \in index' /\ r \in Safe')
    BY <1>2, <1>5, <1>7, <1>9
  <2>2. index' \subseteq index \cup Safe'
    BY <1>2, <1>5, <1>7
  <2>3. ASSUME NEW x \in index' \cup purging'.ids, NEW y \in Pending'
        PROVE  (x \in index \cup purging.ids /\ y \in Pending) \/ x < y
    <3>1. y \in Pending
      BY <1>7, <2>3
    <3>2. CASE x \in index \cup purging.ids
      BY <3>1, <3>2
    <3>3. CASE x \notin index \cup purging.ids
      <4>1. command = "zadd" /\ x = Subject
        BY <1>2, <1>3, <2>3, <3>3
      <4>2. y \in DueIn(pipe'.todo) \/ y \in ToSet(queue)
        BY <1>3, <2>3 DEF Pending
      <4> QED
        BY <1>7, <1>8, <4>1, <4>2, BatchFirst
    <3> QED
      BY <3>2, <3>3
  <2>4. \A x \in index \ index' : x \in Settled => Gone(x)'
    BY <1>11, SettledFacts, <1>4, ClockFacts
  <2> QED
    BY <1>4, <1>5, <2>1, <2>2, <2>3, <2>4, IndexedStays
<1>14. Listed'
  <2>1. \A x \in index \ index', r \in stored : r <= x => Gone(r)'
    BY <1>11, SettledFacts
  <2>2. submitted' \in Nat
    BY <1>3 DEF FlusherInv, TypeOK
  <2> QED
    BY <1>3, <1>4, <1>5, <1>10, <2>1, <2>2, ListedStays
<1> QED
  BY <1>4, <1>7, <1>10, <1>12, <1>13, <1>14 DEF StoreInv

(* A step of the store alone, with no command of the pipeline: the writer  *)
(* and its call stay as they are.                                          *)
LEMMA AsideFacts ==
    ASSUME FlusherInv, StoreInv, Onward, UNCHANGED <<vars, pipe>>, \A r \in rows \ rows' : Gone(r)'
    PROVE  /\ Piped' /\ Settled' = Settled /\ Pending' = Pending /\ Safe \subseteq Safe'
           /\ submitted' = submitted /\ submitted' \in Nat /\ Numbers' = Numbers
           /\ stored' = stored /\ batch' = batch /\ queue' = queue
<1>1. /\ writer' = writer /\ batch' = batch /\ queue' = queue /\ stored' = stored
      /\ submitted' = submitted /\ pipe' = pipe
  BY DEF vars
<1>2. Piped' /\ Safe \subseteq Safe'
  BY <1>1, PipedStays
<1>3. Settled' = Settled /\ Pending' = Pending /\ Numbers' = Numbers
  BY <1>1 DEF Settled, Pending, Numbers
<1> QED
  BY <1>1, <1>2, <1>3 DEF FlusherInv, TypeOK

(* Members leave the index that nobody is owed. *)
LEMMA LeaveStep ==
    ASSUME FlusherInv, StoreInv, UNCHANGED <<vars, pipe, backend, now, at, rows, mortal, purged>>,
           index' \subseteq index,
           \A x \in index \ index' : x \in Settled => Gone(x),
           purging' = purging \/ purging' = NoPurge
    PROVE  /\ Clocks' /\ Contents' /\ Piped' /\ Indexed' /\ Purging'
           /\ listing' = listing /\ (\A x \in index \ index', r \in stored : r <= x => Gone(r))
                => Listed'
<1>1. Clocks /\ Contents /\ Purging
  BY DEF StoreInv
<1>2. /\ submitted' = submitted /\ purged' = purged /\ rows' = rows /\ now' = now /\ at' = at
  BY DEF vars
<1>3. Onward /\ Clocks' /\ Numbers' = Numbers /\ Redis' = Redis /\ Sql' = Sql
  BY <1>1, <1>2, TimeStays
<1>4. rows \ rows' = {} /\ \A r \in Numbers : Gone(r)' <=> Gone(r)
  BY <1>2 DEF Gone, Fading, Aged
<1>5. /\ Piped' /\ Settled' = Settled /\ Pending' = Pending /\ Safe \subseteq Safe'
      /\ submitted' \in Nat /\ stored' = stored /\ batch' = batch /\ queue' = queue
  BY <1>3, <1>4, AsideFacts
<1>6. Contents'
  <2>1. mortal' = mortal
    OBVIOUS
  <2> QED
    BY <1>1, <1>2, <1>3, <1>5, <2>1 DEF Contents
<1>7. \A x \in index \ index' : x \in Settled => Gone(x)'
  BY <1>4, SettledFacts
<1>8. purging'.ids \subseteq purging.ids /\ Purging'
  <2>1. CASE purging' = purging
    BY <1>3, <1>5, <2>1, PurgingStays
  <2>2. CASE purging' = NoPurge
    <3>1. purging'.ids = {} /\ purging'.left = <<>>
      BY <2>2 DEF NoPurge
    <3>2. purging' \in [left : Seq(Nat), ids : SUBSET Nat]
      BY <2>2, EmptyFacts DEF NoPurge
    <3> QED
      BY <3>1, <3>2, EmptyFacts DEF Purging
  <2> QED
    BY <2>1, <2>2
<1>9. Indexed'
  BY <1>3, <1>4, <1>5, <1>7, <1>8, IndexedStays
<1>10. ASSUME listing' = listing, \A x \in index \ index', r \in stored : r <= x => Gone(r)
       PROVE  Listed'
  <2>1. \A x \in index \ index', r \in stored : r <= x => Gone(r)'
    BY <1>4, <1>10, SettledFacts
  <2> QED
    BY <1>3, <1>4, <1>5, <1>6, <1>10, <2>1, ListedStays
<1> QED
  BY <1>3, <1>5, <1>6, <1>8, <1>9, <1>10

(* count() drops what is past its ttl. *)
LEMMA CountStep == ASSUME FlusherInv, StoreInv, Count PROVE StoreInv'
<1>1. /\ index' = {r \in index : ~ Aged(r, now)}
      /\ UNCHANGED <<vars, backend, bound, now, at, rows, mortal, pipe, purging, listing, purged, used>>
  BY DEF Count
<1>2. ASSUME NEW x \in index \ index', NEW r \in Settled, r <= x PROVE Gone(r)
  <2>1. Clocks /\ now \in Nat /\ now <= now
    BY ClockFacts DEF StoreInv
  <2>2. x \in Numbers /\ r \in Numbers /\ Aged(x, now)
    BY <1>1, SettledFacts
  <2> QED
    BY <1>2, <2>1, <2>2, OlderAges
<1>3. Clocks' /\ Contents' /\ Piped' /\ Indexed' /\ Purging' /\ Listed'
  <2>1. index \subseteq Numbers /\ \A x \in Numbers : x <= x
    BY SettledFacts, ClockFacts DEF StoreInv
  <2>2. \A x \in index \ index' : x \in Settled => Gone(x)
    BY <1>2, <2>1
  <2>3. \A x \in index \ index', r \in stored : r <= x => Gone(r)
    BY <1>2, SettledFacts
  <2> QED
    BY <1>1, <2>2, <2>3, LeaveStep
<1> QED
  BY <1>3 DEF StoreInv

(* A purge's members leave the index; it may also break off. *)
LEMMA PurgeEnds == ASSUME FlusherInv, StoreInv, PurgeZrem \/ PurgeBreaks PROVE StoreInv'
<1>1. /\ index' = index \ purging.ids \/ index' = index
      /\ purging' = NoPurge
      /\ UNCHANGED <<vars, backend, bound, now, at, rows, mortal, pipe, listing, purged, used>>
  BY DEF PurgeZrem, PurgeBreaks
<1>2. ASSUME NEW x \in index \ index', NEW r \in Settled, r <= x PROVE Gone(r)
  BY <1>1, <1>2 DEF StoreInv, Purging
<1>3. Clocks' /\ Contents' /\ Piped' /\ Indexed' /\ Purging' /\ Listed'
  <2>1. index \subseteq Numbers /\ \A x \in Numbers : x <= x
    BY SettledFacts, ClockFacts DEF StoreInv
  <2>2. \A x \in index \ index' : x \in Settled => Gone(x)
    BY <1>2, <2>1
  <2>3. \A x \in index \ index', r \in stored : r <= x => Gone(r)
    BY <1>2, SettledFacts
  <2> QED
    BY <1>1, <2>2, <2>3, LeaveStep
<1> QED
  BY <1>3 DEF StoreInv

(* A purge deletes a hash. *)
LEMMA PurgeDelStep == ASSUME FlusherInv, StoreInv, PurgeDels PROVE StoreInv'
<1> DEFINE h == Head(purging.left)
<1>1. /\ purging.left # <<>> /\ rows' = rows \ {h}
      /\ purging' = [purging EXCEPT !.left = Tail(@)]
      /\ UNCHANGED <<vars, backend, bound, now, at, index, pipe, listing, purged, used>>
  BY DEF PurgeDels
<1>0. mortal' = mortal \ {h}
  BY DEF PurgeDels
<1>2. /\ Clocks /\ Contents /\ Purging /\ purging \in [left : Seq(Nat), ids : SUBSET Nat]
  BY DEF StoreInv, Purging
<1>3. h \in purging.ids /\ Tail(purging.left) \in Seq(Nat) /\ ToSet(Tail(purging.left)) \subseteq purging.ids
  <2>1. purging.left \in Seq(Nat)
    BY <1>2
  <2>2. Tail(purging.left) \in Seq(Nat) /\ ToSet(purging.left) = {h} \cup ToSet(Tail(purging.left))
    BY <1>1, <2>1, HeadFacts
  <2> QED
    BY <1>2, <2>2 DEF Purging
<1> HIDE DEF h
<1>4. /\ submitted' = submitted /\ purged' = purged /\ now' = now /\ at' = at
      /\ index' = index /\ listing' = listing
  BY <1>1 DEF vars
<1>5. Onward /\ Clocks' /\ Numbers' = Numbers /\ Redis' = Redis /\ Sql' = Sql
  BY <1>1, <1>2, <1>4, TimeStays
<1>6. \A r \in rows \ rows' : Gone(r)'
  BY <1>1, <1>2, <1>3, <1>4 DEF Gone, Purging
<1>7. /\ Piped' /\ Settled' = Settled /\ Pending' = Pending /\ Safe \subseteq Safe'
      /\ submitted' \in Nat /\ stored' = stored /\ batch' = batch /\ queue' = queue
  BY <1>1, <1>5, <1>6, AsideFacts
<1>8. Contents'
  <2>1. h \in purged
    BY <1>2, <1>3 DEF Purging
  <2> QED
    BY <1>0, <1>1, <1>2, <1>4, <1>5, <1>7, <2>1 DEF Contents
<1>9. purging' = [left |-> Tail(purging.left), ids |-> purging.ids]
  BY <1>1, <1>2
<1>10. Purging'
  <2>1. purging' \in [left : Seq(Nat), ids : SUBSET Nat]
    BY <1>2, <1>3, <1>9
  <2>2. purging'.left = Tail(purging.left) /\ purging'.ids = purging.ids
    BY <1>9
  <2>3. \A x \in purging.ids, r \in Settled : r <= x => Gone(r)'
    BY <1>2, <1>5, SettledFacts, GoneStays DEF Purging
  <2> QED
    BY <1>2, <1>3, <1>4, <1>5, <1>7, <2>1, <2>2, <2>3 DEF Purging
<1>11. Indexed'
  <2>1. purging'.ids = purging.ids
    BY <1>9
  <2> QED
    BY <1>4, <1>5, <1>6, <1>7, <2>1, IndexedStays
<1>12. Listed'
  BY <1>4, <1>5, <1>6, <1>7, <1>8, ListedStays
<1> QED
  BY <1>5, <1>7, <1>8, <1>10, <1>11, <1>12 DEF StoreInv

(* A hash is reclaimed that is within a second of its ttl. *)
LEMMA ReclaimStep == ASSUME FlusherInv, StoreInv, Reclaims PROVE StoreInv'
<1>0. PICK r \in mortal : Fading(r) /\ rows' = rows \ {r} /\ mortal' = mortal \ {r}
  BY DEF Reclaims
<1>1. UNCHANGED <<vars, backend, bound, now, at, index, pipe, purging, listing, purged, used>>
  BY DEF Reclaims
<1>2. Clocks /\ Contents
  BY DEF StoreInv
<1>3. /\ submitted' = submitted /\ purged' = purged /\ now' = now /\ at' = at
      /\ index' = index /\ listing' = listing /\ purging' = purging /\ backend' = backend
  BY <1>1 DEF vars
<1>4. Onward /\ Clocks' /\ Numbers' = Numbers /\ Redis' = Redis /\ Sql' = Sql
  BY <1>1, <1>2, <1>3, TimeStays
<1>5. \A x \in rows \ rows' : Gone(x)'
  BY <1>0, <1>3 DEF Gone, Fading, Aged
<1>6. /\ Piped' /\ Settled' = Settled /\ Pending' = Pending /\ Safe \subseteq Safe'
      /\ submitted' \in Nat /\ stored' = stored /\ batch' = batch /\ queue' = queue
  BY <1>1, <1>4, <1>5, AsideFacts
<1>7. Contents'
  <2>1. Sql => stored' \subseteq rows' \cup purged' /\ mortal' = {}
    BY <1>0, <1>2, <1>4 DEF Contents
  <2> QED
    BY <1>0, <1>2, <1>3, <1>4, <1>6, <2>1 DEF Contents
<1>8. Purging'
  BY <1>3, <1>4, <1>6, PurgingStays
<1>9. Indexed'
  BY <1>3, <1>4, <1>5, <1>6, IndexedStays
<1>10. Listed'
  BY <1>3, <1>4, <1>5, <1>6, <1>7, ListedStays
<1> QED
  BY <1>4, <1>6, <1>7, <1>8, <1>9, <1>10 DEF StoreInv

(* A second goes by, and hashes with it. *)
LEMMA TickStep == ASSUME FlusherInv, StoreInv, Tick PROVE StoreInv'
<1>1. /\ now' = now + 1
      /\ rows' = rows \ {r \in mortal : Aged(r, now)} /\ mortal' = mortal \ {r \in mortal : Aged(r, now)}
      /\ UNCHANGED <<vars, backend, bound, at, index, pipe, purging, listing, purged, used>>
  BY DEF Tick
<1>2. Clocks /\ Contents /\ now \in Nat /\ now <= now + 1 /\ now + 1 \in Nat
  BY ClockFacts DEF StoreInv
<1>3. /\ submitted' = submitted /\ purged' = purged /\ at' = at
      /\ index' = index /\ listing' = listing /\ purging' = purging /\ backend' = backend
  BY <1>1 DEF vars
<1>4. Numbers' = Numbers /\ Redis' = Redis /\ Sql' = Sql
  BY <1>3 DEF Numbers, Redis, Sql
<1>5. Onward
  BY <1>1, <1>2, <1>3, <1>4 DEF Onward
<1>6. Clocks'
  <2>1. \A r \in Numbers : at[r] <= now'
    BY <1>1, <1>2, ClockFacts
  <2> QED
    BY <1>1, <1>2, <1>3, <1>4, <2>1 DEF Clocks
<1>7. \A r \in rows \ rows' : Gone(r)'
  <2> SUFFICES ASSUME NEW r \in rows \ rows' PROVE Gone(r)'
    OBVIOUS
  <2>1. Aged(r, now) /\ r \in Numbers
    BY <1>1, <1>2 DEF Contents
  <2>2. r <= r
    BY <1>2, <2>1, ClockFacts
  <2> QED
    BY <1>2, <1>5, <2>1, <2>2, OlderAges, GoneStays
<1>8. /\ Piped' /\ Settled' = Settled /\ Pending' = Pending /\ Safe \subseteq Safe'
      /\ submitted' \in Nat /\ stored' = stored /\ batch' = batch /\ queue' = queue
  BY <1>1, <1>5, <1>7, AsideFacts
<1>9. Sql => stored' \subseteq rows' \cup purged' /\ mortal' = {}
  BY <1>1, <1>2, <1>3, <1>8 DEF Contents
<1>10. Contents'
  BY <1>1, <1>2, <1>3, <1>4, <1>8, <1>9 DEF Contents
<1>11. Purging'
  BY <1>3, <1>5, <1>8, PurgingStays
<1>12. Indexed'
  BY <1>3, <1>5, <1>7, <1>8, IndexedStays
<1>13. Listed'
  BY <1>3, <1>5, <1>7, <1>8, <1>10, ListedStays
<1> QED
  BY <1>6, <1>8, <1>10, <1>11, <1>12, <1>13 DEF StoreInv

(* The DELETE of a SQL purge. *)
LEMMA SqlPurgeStep ==
    ASSUME FlusherInv, StoreInv, NEW cutoff, SqlitePurge(cutoff) \/ PgPurge(cutoff)
    PROVE  StoreInv'
<1> DEFINE S == {r \in rows : at[r] < cutoff}
<1>1. /\ rows' = rows \ S /\ purged' = purged \cup S
      /\ UNCHANGED <<vars, backend, bound, now, at, mortal, index, pipe, purging, listing>>
  BY DEF SqlitePurge, PgPurge, SqlPurge
<1>2. Clocks /\ Contents /\ S \subseteq rows /\ S \subseteq Numbers
  BY DEF StoreInv, Contents
<1> HIDE DEF S
<1>3. /\ submitted' = submitted /\ now' = now /\ at' = at /\ mortal' = mortal
      /\ index' = index /\ listing' = listing /\ purging' = purging
  BY <1>1 DEF vars
<1>4. Onward /\ Clocks' /\ Numbers' = Numbers /\ Redis' = Redis /\ Sql' = Sql
  BY <1>1, <1>2, <1>3, TimeStays
<1>5. \A r \in rows \ rows' : Gone(r)'
  BY <1>1 DEF Gone
<1>6. /\ Piped' /\ Settled' = Settled /\ Pending' = Pending /\ Safe \subseteq Safe'
      /\ submitted' \in Nat /\ stored' = stored /\ batch' = batch /\ queue' = queue
  BY <1>1, <1>4, <1>5, AsideFacts
<1>7. Contents'
  BY <1>1, <1>2, <1>3, <1>4, <1>6 DEF Contents
<1>8. Purging'
  BY <1>3, <1>4, <1>6, PurgingStays
<1>9. Indexed'
  BY <1>3, <1>4, <1>5, <1>6, IndexedStays
<1>10. Listed'
  BY <1>3, <1>4, <1>5, <1>6, <1>7, ListedStays
<1> QED
  BY <1>4, <1>6, <1>7, <1>8, <1>9, <1>10 DEF StoreInv

(* A purge of Redis reads the oldest part of the index. *)
LEMMA RdPurgeStep ==
    ASSUME FlusherInv, StoreInv, NEW cutoff \in 0..now, RdPurge(cutoff)
    PROVE  StoreInv'
<1> DEFINE S == {r \in index : at[r] <= cutoff}
<1>1. /\ Redis /\ purging' = [left |-> NewestFirst(S), ids |-> S]
      /\ purged' = purged \cup S
      /\ UNCHANGED <<vars, backend, bound, now, at, rows, mortal, index, pipe, listing>>
  BY DEF RdPurge
<1>2. Clocks /\ Contents /\ Purging /\ Indexed /\ S \subseteq index /\ index \subseteq Numbers
  BY DEF StoreInv, Contents
<1>3. /\ submitted' = submitted /\ now' = now /\ at' = at /\ mortal' = mortal /\ rows' = rows
      /\ index' = index /\ listing' = listing
  BY <1>1 DEF vars
<1>4. Onward /\ Clocks' /\ Numbers' = Numbers /\ Redis' = Redis /\ Sql' = Sql
  BY <1>1, <1>2, <1>3, TimeStays
<1>5. rows \ rows' = {}
  BY <1>3
<1>6. /\ Piped' /\ Settled' = Settled /\ Pending' = Pending /\ Safe \subseteq Safe'
      /\ submitted' \in Nat /\ stored' = stored /\ batch' = batch /\ queue' = queue
  BY <1>1, <1>4, <1>5, AsideFacts
<1>7. NewestFirst(S) \in Seq(Nat) /\ ToSet(NewestFirst(S)) \subseteq S /\ S \in SUBSET Nat
  <2>1. S \in SUBSET (1..submitted) /\ submitted \in Nat
    BY <1>2 DEF Numbers, FlusherInv, TypeOK
  <2> HIDE DEF S
  <2>2. IsFiniteSet(S)
    <3>1. IsFiniteSet(1..submitted)
      BY <2>1, FS_Interval
    <3> QED
      BY <2>1, <3>1, FS_Subset
  <2>3. S \in SUBSET Nat
    BY <2>1
  <2>4. /\ NewestFirst(S) \in Seq(Nat) /\ Len(NewestFirst(S)) = Cardinality(S)
        /\ \A i \in 1..Cardinality(S) : NewestFirst(S)[i] \in S
    BY <2>2, <2>3, NewestFirstFacts
  <2> QED
    BY <2>3, <2>4, ToSetDef
<1>8. \A x \in S, r \in Settled : r <= x => Gone(r)'
  <2> SUFFICES ASSUME NEW x \in S, NEW r \in Settled, r <= x PROVE Gone(r)'
    OBVIOUS
  <2>1. x \in Numbers /\ r \in Numbers
    BY <1>2, SettledFacts
  <2>2. CASE Gone(r)
    BY <1>2, <1>4, <2>1, <2>2, GoneStays
  <2>3. CASE r \in index
    <3>1. at[r] <= at[x] /\ at[x] <= cutoff
      BY <1>2, <2>1 DEF Clocks
    <3>2. at[r] \in Nat /\ at[x] \in Nat /\ now \in Nat
      BY <1>2, <2>1, ClockFacts
    <3>3. at[r] <= cutoff
      BY <3>1, <3>2
    <3> QED
      BY <1>1, <2>3, <3>3 DEF Gone
  <2> QED
    BY <1>1, <1>2, <2>2, <2>3 DEF Indexed
<1> HIDE DEF S
<1>9. purging'.left = NewestFirst(S) /\ purging'.ids = S
  BY <1>1
<1>10. Contents'
  BY <1>1, <1>2, <1>3, <1>4, <1>6 DEF Contents
<1>11. Purging'
  <2>1. purging' \in [left : Seq(Nat), ids : SUBSET Nat]
    BY <1>1, <1>7
  <2> QED
    BY <1>1, <1>4, <1>6, <1>7, <1>8, <1>9, <2>1 DEF Purging
<1>12. Indexed'
  BY <1>2, <1>3, <1>4, <1>5, <1>6, <1>9, IndexedStays
<1>13. Listed'
  BY <1>3, <1>4, <1>5, <1>6, <1>10, ListedStays
<1> QED
  BY <1>4, <1>6, <1>10, <1>11, <1>12, <1>13 DEF StoreInv

-------------------------------------------------------------------------------
(* The steps of a listing.                                                 *)

(* Nothing but the listing moves. *)
LEMMA OnlyListing ==
    ASSUME FlusherInv, StoreInv,
           UNCHANGED <<vars, backend, now, at, rows, mortal, index, pipe, purging, purged>>
    PROVE  /\ Clocks' /\ Contents' /\ Piped' /\ Indexed' /\ Purging'
           /\ stored' = stored /\ Numbers' = Numbers /\ Redis' = Redis /\ Safe' = Safe
           /\ \A r : Gone(r)' <=> Gone(r)
           /\ \A m : Matching(m)' = Matching(m)
<1>1. Clocks' /\ Contents' /\ Piped' /\ Indexed' /\ Purging'
  BY LeaveStep
<1>2. submitted' = submitted /\ stored' = stored
  BY DEF vars
<1>3. /\ Numbers' = Numbers /\ Redis' = Redis
      /\ \A r : Gone(r)' <=> Gone(r)
      /\ \A m : Matching(m)' = Matching(m)
  BY <1>2 DEF Numbers, Redis, Gone, Fading, Aged, Matching
<1>4. Safe' = Safe
  BY <1>3 DEF Safe
<1> QED
  BY <1>1, <1>2, <1>3, <1>4

(* Asking: a listing of a SQL table is its answer at once. *)
LEMMA SqlListStep ==
    ASSUME FlusherInv, StoreInv, NEW method \in {"none", "a"}, NEW limit \in Limits,
           SqliteList(method, limit) \/ PgList(method, limit)
    PROVE  StoreInv'
<1> DEFINE R == rows \cap Matching(method)
           out == Slice(NewestFirst(R), 0, limit)
           must == Must(method)
<1>1. /\ backend \in {"sqlite", "postgres"}
      /\ listing' = [k |-> "done", out |-> out, method |-> method, limit |-> limit, must |-> must]
      /\ UNCHANGED <<vars, backend, bound, now, at, rows, mortal, index, pipe, purging, purged>>
  BY DEF SqliteList, PgList, Selected, Asked
<1>2. /\ Clocks' /\ Contents' /\ Piped' /\ Indexed' /\ Purging'
      /\ stored' = stored /\ Numbers' = Numbers /\ Redis' = Redis /\ purged' = purged
      /\ Matching(method)' = Matching(method)
  BY <1>1, OnlyListing
<1>3. R \in SUBSET Nat /\ IsFiniteSet(R)
  <2>1. R \in SUBSET (1..submitted) /\ submitted \in Nat
    BY DEF StoreInv, Contents, Numbers, FlusherInv, TypeOK
  <2> HIDE DEF R
  <2>2. IsFiniteSet(1..submitted)
    BY <2>1, FS_Interval
  <2>3. R \in SUBSET Nat
    BY <2>1
  <2> QED
    BY <2>1, <2>2, <2>3, FS_Subset
<1>4. limit \in Nat \ {0} /\ 0 \in Nat
  BY RecordStoresAssumption
<1>5. must \subseteq stored /\ must \subseteq Matching(method) /\ \A r \in must \ purged : r \in R
  <2>1. Sql
    BY <1>1 DEF Sql
  <2> QED
    BY <2>1 DEF StoreInv, Contents, Must
<1> HIDE DEF R
<1>6. /\ out \in Seq(Nat)
      /\ \A i, j \in 1..Len(out) : i < j => out[i] > out[j]
      /\ \A r \in R : Above(R, r) >= 0 =>
            \/ r \in ToSet(out)
            \/ Above(R, r) >= 0 + limit /\ \A x \in ToSet(out) : r < x
      /\ Len(out) \in Nat /\ Len(out) <= limit
      /\ \A r \in R : Above(R, r) >= 0 + limit => Len(out) = limit
  BY <1>3, <1>4, SliceFacts
<1>7. ASSUME NEW r \in must \ purged
      PROVE  r \in Nat /\ (r \in ToSet(out) \/ (Len(out) = limit /\ \A x \in ToSet(out) : r < x))
  <2>1. r \in R /\ Above(R, r) \in Nat
    BY <1>3, <1>5, <1>7, AboveRank
  <2> QED
    BY <1>3, <1>6, <2>1
<1> HIDE DEF out, must
<1>8. /\ listing'.k = "done" /\ listing'.out = out /\ listing'.method = method
      /\ listing'.limit = limit /\ listing'.must = must
  BY <1>1
<1>9. Kept' \subseteq must \ purged
  BY <1>2, <1>8 DEF Kept
<1>10. NewerShown'
  <2> SUFFICES ASSUME NEW j \in DOMAIN out, NEW r \in must \ purged, r > out[j]
               PROVE  \E i \in 1..j : out[i] = r
    BY <1>8, <1>9 DEF NewerShown
  <2>1. j \in 1..Len(out) /\ out[j] \in ToSet(out) /\ out[j] \in Nat /\ r \in Nat
    BY <1>6, <1>7, ToSetDef
  <2>2. r \in ToSet(out)
    BY <1>7, <2>1
  <2>3. PICK i \in 1..Len(out) : out[i] = r
    BY <1>6, <2>2, ToSetDef
  <2>4. ~ (j < i)
    BY <1>6, <2>1, <2>3
  <2>5. i \in 1..j
    BY <1>6, <2>1, <2>3, <2>4
  <2> QED
    BY <2>3, <2>5
<1>11. Asking'
  BY <1>2, <1>4, <1>5, <1>6, <1>8, <1>10 DEF Asking
<1>12. Listed'
  BY <1>7, <1>8, <1>9, <1>11 DEF Listed, Shown
<1> QED
  BY <1>2, <1>12 DEF StoreInv

LEMMA IndexFinite ==
    ASSUME FlusherInv, StoreInv
    PROVE  index \in SUBSET Nat /\ IsFiniteSet(index)
<1>1. index \in SUBSET (1..submitted) /\ submitted \in Nat
  BY DEF StoreInv, Contents, Numbers, FlusherInv, TypeOK
<1>2. IsFiniteSet(1..submitted)
  BY <1>1, FS_Interval
<1>3. index \in SUBSET Nat
  BY <1>1
<1> QED
  BY <1>1, <1>2, <1>3, FS_Subset

(* Asking: the walk of the Redis index begins. *)
LEMMA RdListStep ==
    ASSUME FlusherInv, StoreInv, NEW method \in {"none", "a"}, NEW limit \in Limits,
           RdList(method, limit)
    PROVE  StoreInv'
<1> DEFINE page == Slice(NewestFirst(index), 0, Page(limit))
           must == Must(method)
<1>1. /\ Redis
      /\ listing' = [k |-> "get", ids |-> page, start |-> Page(limit), out |-> <<>>, stale |-> {},
                     method |-> method, limit |-> limit, must |-> must]
      /\ UNCHANGED <<vars, backend, bound, now, at, rows, mortal, index, pipe, purging, purged>>
  BY DEF RdList, Asked
<1>2. /\ Clocks' /\ Contents' /\ Piped' /\ Indexed' /\ Purging'
      /\ stored' = stored /\ Numbers' = Numbers /\ Redis' = Redis /\ purged' = purged
      /\ index' = index /\ Safe' = Safe
      /\ Matching(method)' = Matching(method)
      /\ \A r : Gone(r)' <=> Gone(r)
  BY <1>1, OnlyListing
<1>3. limit \in Nat \ {0} /\ Page(limit) \in Nat \ {0} /\ 0 \in Nat
  BY RecordStoresAssumption DEF Page
<1>4. must \subseteq stored /\ must \subseteq Matching(method)
  BY DEF Must
<1>5. index \in SUBSET Nat /\ IsFiniteSet(index)
  BY IndexFinite
<1>6. /\ page \in Seq(Nat) /\ ToSet(page) \subseteq index
      /\ \A i, j \in 1..Len(page) : i < j => page[i] > page[j]
      /\ \A r \in index : Above(index, r) >= 0 =>
            \/ r \in ToSet(page)
            \/ Above(index, r) >= 0 + Page(limit) /\ \A x \in ToSet(page) : r < x
  BY <1>3, <1>5, SliceFacts
<1> HIDE DEF page, must
<1>7. /\ DOMAIN listing' = Fields
      /\ listing'.k = "get" /\ listing'.out = <<>> /\ listing'.method = method
      /\ listing'.limit = limit /\ listing'.must = must /\ listing'.ids = page
      /\ listing'.start = Page(limit) /\ listing'.stale = {}
  BY <1>1 DEF Fields
<1>8. Asking'
  <2>1. <<>> \in Seq(Nat) /\ Len(<<>>) = 0 /\ DOMAIN <<>> = {}
    BY EmptyFacts
  <2>2. NewerShown'
    BY <1>7, <2>1 DEF NewerShown
  <2> QED
    BY <1>2, <1>3, <1>4, <1>7, <2>1, <2>2 DEF Asking
<1>9. Walking'
  <2>1. ToSet(page) \subseteq Safe'
    BY <1>2, <1>6 DEF StoreInv, Indexed
  <2> QED
    BY <1>1, <1>2, <1>3, <1>6, <1>7, <2>1 DEF Walking
<1>10. ASSUME NEW r \in Kept' PROVE r \in ToSet(page) \/ Behind(r)'
  <2>1. r \in must /\ r \notin purged' /\ ~ Fading(r)'
    BY <1>1, <1>2, <1>7 DEF Kept
  <2>2. ~ Gone(r)'
    BY <2>1 DEF Gone
  <2>3. r \in index
    <3>1. r \in Settled
      BY <1>4, <2>1, SettledFacts
    <3> QED
      BY <1>1, <1>2, <2>2, <3>1 DEF StoreInv, Indexed
  <2>4. Above(index, r) \in Nat
    BY <1>5, <2>3, AboveRank
  <2>5. \/ r \in ToSet(page)
        \/ Above(index, r) >= Page(limit) /\ \A x \in ToSet(page) : r < x
    BY <1>3, <1>6, <2>3, <2>4
  <2> QED
    BY <1>2, <1>7, <2>5 DEF Behind
<1>11. Listed'
  BY <1>7, <1>8, <1>9, <1>10 DEF Listed
<1> QED
  BY <1>2, <1>11 DEF StoreInv

(* What the walk needs of its state. *)
LEMMA WalkFacts ==
    ASSUME StoreInv, listing.k = "get"
    PROVE  /\ Asking /\ Walking /\ Redis
           /\ \A r \in Kept : r \in Shown \/ r \in ToSet(listing.ids) \/ Behind(r)
           /\ \A r \in Kept : /\ r \in Nat /\ r \in index /\ r \in rows
                              /\ r \in Matching(listing.method) /\ ~ Gone(r)
<1>1. /\ Asking /\ Walking /\ Redis
      /\ \A r \in Kept : r \in Shown \/ r \in ToSet(listing.ids) \/ Behind(r)
  BY DEF StoreInv, Listed, Walking
<1>2. ASSUME NEW r \in Kept
      PROVE  /\ r \in Nat /\ r \in index /\ r \in rows
             /\ r \in Matching(listing.method) /\ ~ Gone(r)
  <2>1. r \in listing.must /\ r \notin purged /\ ~ Fading(r)
    BY <1>1 DEF Kept
  <2>2. r \in stored /\ r \in Matching(listing.method) /\ ~ Gone(r)
    BY <1>1, <2>1 DEF Asking, Gone
  <2>3. r \in Settled /\ r \in Numbers
    BY <2>2, SettledFacts
  <2>4. r \in Nat
    BY <2>3, ClockFacts DEF StoreInv
  <2> QED
    BY <1>1, <2>2, <2>3, <2>4 DEF StoreInv, Indexed
<1> QED
  BY <1>1, <1>2

(* The next id of the page. *)
LEMMA GetStep == ASSUME FlusherInv, StoreInv, ListGets PROVE StoreInv'
<1> DEFINE h == Head(listing.ids)
           out == listing.out
           hit == h \in rows /\ h \in Matching(listing.method)
           outs == IF hit THEN Append(out, h) ELSE out
           gone == IF h \in rows THEN listing.stale ELSE listing.stale \cup {h}
<1>1. /\ listing.k = "get" /\ listing.ids # <<>> /\ Len(out) < listing.limit
      /\ listing' = [listing EXCEPT !.ids = Tail(@), !.stale = gone, !.out = outs]
      /\ UNCHANGED <<vars, backend, bound, now, at, rows, mortal, index, pipe, purging, purged, used>>
  BY DEF ListGets, HasHash
<1>2. /\ Clocks' /\ Contents' /\ Piped' /\ Indexed' /\ Purging'
      /\ stored' = stored /\ Numbers' = Numbers /\ Redis' = Redis /\ purged' = purged
      /\ index' = index /\ Safe' = Safe
      /\ \A m : Matching(m)' = Matching(m)
      /\ \A r : Gone(r)' <=> Gone(r)
  BY <1>1, OnlyListing
<1>3. /\ Asking /\ Walking /\ Redis
      /\ \A r \in Kept : r \in Shown \/ r \in ToSet(listing.ids) \/ Behind(r)
      /\ \A r \in Kept : /\ r \in Nat /\ r \in index /\ r \in rows
                         /\ r \in Matching(listing.method) /\ ~ Gone(r)
  BY <1>1, WalkFacts
<1>4. DOMAIN listing = Fields
  BY <1>3 DEF Walking
<1> HIDE DEF gone, outs
<1>5. /\ DOMAIN listing' = Fields
      /\ listing'.k = "get" /\ listing'.out = outs /\ listing'.method = listing.method
      /\ listing'.limit = listing.limit /\ listing'.must = listing.must
      /\ listing'.ids = Tail(listing.ids)
      /\ listing'.start = listing.start /\ listing'.stale = gone
  BY <1>1, <1>4 DEF Fields
<1>6. /\ h \in Nat /\ Tail(listing.ids) \in Seq(Nat)
      /\ ToSet(listing.ids) = {h} \cup ToSet(Tail(listing.ids))
      /\ h \in Safe
      /\ \A i, j \in 1..Len(Tail(listing.ids)) :
            i < j => Tail(listing.ids)[i] > Tail(listing.ids)[j]
      /\ \A x \in ToSet(Tail(listing.ids)) : x < h
  <2> DEFINE ids == listing.ids
             rest == Tail(ids)
  <2>1. /\ ids \in Seq(Nat) /\ ids # <<>> /\ ToSet(ids) \subseteq Safe
        /\ \A i, j \in 1..Len(ids) : i < j => ids[i] > ids[j]
    BY <1>1, <1>3 DEF Walking
  <2> HIDE DEF ids
  <2>2. /\ Head(ids) \in Nat /\ rest \in Seq(Nat) /\ Len(rest) = Len(ids) - 1
        /\ ToSet(ids) = {Head(ids)} \cup ToSet(rest)
    BY <2>1, HeadFacts
  <2>3. /\ Len(ids) \in Nat /\ Len(ids) >= 1 /\ Head(ids) = ids[1]
        /\ \A i \in 1..Len(rest) : rest[i] = ids[i + 1] /\ i + 1 \in 1..Len(ids) /\ 1 < i + 1
    BY <2>1, <2>2, EmptySeq, HeadTailProperties, ToSetDef
  <2>4. \A i, j \in 1..Len(rest) : i < j => rest[i] > rest[j]
    <3>1. \A i, j \in 1..Len(rest) : i < j => i + 1 < j + 1
      BY <2>2, <2>3
    <3> QED
      BY <2>1, <2>3, <3>1
  <2>5. ASSUME NEW x \in ToSet(rest) PROVE x < Head(ids)
    <3>1. PICK i \in 1..Len(rest) : x = rest[i]
      BY <2>2, ToSetDef
    <3>2. ids[1] > ids[i + 1] /\ x = ids[i + 1] /\ 1 \in 1..Len(ids)
      BY <2>1, <2>3, <3>1
    <3>3. x \in Nat
      BY <2>2, ToSetDef
    <3> QED
      BY <2>2, <2>3, <3>2, <3>3
  <2> QED
    BY <2>1, <2>2, <2>4, <2>5 DEF ids
<1> HIDE DEF h, out
<1>7. Kept' = Kept
  BY <1>1, <1>2, <1>5 DEF Kept, Redis, Fading, Aged
<1>8. /\ out \in Seq(Nat) /\ Len(out) \in Nat /\ Shown = ToSet(out)
      /\ listing.limit \in Nat \ {0} /\ Len(out) < listing.limit
  BY <1>1, <1>3, ToSetDef DEF Asking, out, Shown
<1>9. /\ outs \in Seq(Nat) /\ Len(outs) <= listing.limit
      /\ ToSet(out) \subseteq ToSet(outs)
      /\ h \in Kept => h \in ToSet(outs)
  <2>1. CASE hit
    <3>1. outs = Append(out, h)
      BY <2>1 DEF outs
    <3> QED
      BY <1>6, <1>8, <3>1, AppendFacts
  <2>2. CASE ~ hit
    <3>1. outs = out
      BY <2>2 DEF outs
    <3> QED
      BY <1>3, <1>8, <2>2, <3>1
  <2> QED
    BY <2>1, <2>2
<1>10. ASSUME NEW r \in Kept, r > h PROVE r \in ToSet(out)
  <2>1. r \in Nat
    BY <1>3
  <2>2. r \notin ToSet(listing.ids)
    BY <1>6, <1>10, <2>1, ToSetDef
  <2>3. ~ Behind(r)
    <3>1. Behind(r) => r < h
      BY <1>6 DEF Behind
    <3> QED
      BY <1>6, <1>10, <2>1, <3>1
  <2> QED
    BY <1>3, <1>8, <2>2, <2>3
<1>11. NewerShown'
  <2>1. \A j \in 1..Len(out), r \in Kept : r > out[j] => \E i \in 1..j : out[i] = r
    BY <1>3, <1>8, ToSetDef DEF Asking, NewerShown, out
  <2>2. CASE outs = out
    <3>1. DOMAIN out = 1..Len(out) /\ listing'.out = out
      BY <1>5, <1>8, <2>2, ToSetDef
    <3> QED
      BY <1>7, <2>1, <3>1 DEF NewerShown
  <2>3. CASE outs = Append(out, h)
    <3>1. /\ Len(outs) = Len(out) + 1 /\ DOMAIN outs = 1..Len(outs)
          /\ outs[Len(out) + 1] = h
          /\ \A i \in 1..Len(out) : outs[i] = out[i]
      BY <1>6, <1>8, <2>3, AppendProperties
    <3>2. ASSUME NEW j \in 1..Len(outs), NEW r \in Kept, r > outs[j]
          PROVE  \E i \in 1..j : outs[i] = r
      <4>1. CASE j \in 1..Len(out)
        <5>1. PICK i \in 1..j : out[i] = r
          BY <2>1, <3>1, <3>2, <4>1
        <5>2. i \in 1..Len(out)
          BY <1>8, <4>1
        <5> QED
          BY <3>1, <5>1, <5>2
      <4>2. CASE j = Len(out) + 1
        <5>1. r \in ToSet(out)
          BY <1>10, <3>1, <3>2, <4>2
        <5>2. PICK i \in 1..Len(out) : out[i] = r
          BY <1>8, <5>1, ToSetDef
        <5>3. i \in 1..j
          BY <1>8, <4>2
        <5> QED
          BY <3>1, <5>2, <5>3
      <4> QED
        BY <1>8, <3>1, <4>1, <4>2
    <3> QED
      BY <1>5, <1>7, <3>1, <3>2 DEF NewerShown
  <2> QED
    BY <2>2, <2>3 DEF outs
<1>12. Asking'
  BY <1>2, <1>3, <1>5, <1>8, <1>9, <1>11 DEF Asking
<1>13. Walking'
  <2>1. gone \subseteq Numbers /\ \A r \in gone : Gone(r)
    BY <1>3, <1>6 DEF Walking, gone, Safe
  <2> QED
    BY <1>2, <1>3, <1>5, <1>6, <2>1 DEF Walking
<1>14. ASSUME NEW r \in Kept
       PROVE  r \in ToSet(outs) \/ r \in ToSet(Tail(listing.ids)) \/ Behind(r)'
  <2>1. CASE r \in Shown
    BY <1>8, <1>9, <2>1
  <2>2. CASE r \in ToSet(listing.ids)
    BY <1>6, <1>9, <2>2
  <2>3. CASE Behind(r)
    BY <1>2, <1>5, <1>6, <2>3 DEF Behind
  <2> QED
    BY <1>3, <2>1, <2>2, <2>3
<1>15. Listed'
  BY <1>5, <1>7, <1>12, <1>13, <1>14 DEF Listed, Shown
<1> QED
  BY <1>2, <1>15 DEF StoreInv

(* The next page, or the end of the index. *)
LEMMA TurnStep == ASSUME FlusherInv, StoreInv, ListTurns PROVE StoreInv'
<1> DEFINE n == Page(listing.limit)
           page == Slice(NewestFirst(index), listing.start, n)
           k == IF page = <<>> THEN "drop" ELSE "get"
<1>1. /\ listing.k = "get" /\ listing.ids = <<>>
      /\ listing' = [listing EXCEPT !.ids = page, !.start = @ + n, !.k = k]
      /\ UNCHANGED <<vars, backend, bound, now, at, rows, mortal, index, pipe, purging, purged, used>>
  BY DEF ListTurns
<1>2. /\ Clocks' /\ Contents' /\ Piped' /\ Indexed' /\ Purging'
      /\ stored' = stored /\ Numbers' = Numbers /\ Redis' = Redis /\ purged' = purged
      /\ index' = index /\ Safe' = Safe
      /\ \A m : Matching(m)' = Matching(m)
      /\ \A r : Gone(r)' <=> Gone(r)
  BY <1>1, OnlyListing
<1>3. /\ Asking /\ Walking /\ Redis
      /\ \A r \in Kept : r \in Shown \/ r \in ToSet(listing.ids) \/ Behind(r)
      /\ \A r \in Kept : /\ r \in Nat /\ r \in index /\ r \in rows
                         /\ r \in Matching(listing.method) /\ ~ Gone(r)
  BY <1>1, WalkFacts
<1>4. /\ DOMAIN listing = Fields /\ listing.start \in Nat /\ listing.limit \in Nat \ {0}
      /\ n \in Nat \ {0}
  BY <1>3, RecordStoresAssumption DEF Walking, Asking, Page
<1>5. index \in SUBSET Nat /\ IsFiniteSet(index)
  BY IndexFinite
<1> HIDE DEF n
<1>6. /\ page \in Seq(Nat) /\ ToSet(page) \subseteq index
      /\ \A i, j \in 1..Len(page) : i < j => page[i] > page[j]
      /\ \A r \in index : Above(index, r) >= listing.start =>
            \/ r \in ToSet(page)
            \/ Above(index, r) >= listing.start + n /\ \A x \in ToSet(page) : r < x
      /\ page = <<>> => \A r \in index : Above(index, r) < listing.start
  BY <1>4, <1>5, SliceFacts
<1> HIDE DEF page
<1>7. /\ DOMAIN listing' = Fields
      /\ listing'.k = k /\ listing'.out = listing.out /\ listing'.method = listing.method
      /\ listing'.limit = listing.limit /\ listing'.must = listing.must /\ listing'.ids = page
      /\ listing'.start = listing.start + n /\ listing'.stale = listing.stale
  <2> HIDE DEF k
  <2> QED
    BY <1>1, <1>4 DEF Fields
<1>8. Kept' = Kept /\ Shown' = Shown
  BY <1>1, <1>2, <1>7 DEF Kept, Redis, Fading, Aged, Shown
<1>9. Asking'
  <2>1. NewerShown'
    <3>1. NewerShown
      BY <1>3 DEF Asking
    <3> QED
      BY ONLY <1>7, <1>8, <3>1 DEF NewerShown
  <2> QED
    BY <1>2, <1>3, <1>7, <2>1 DEF Asking
<1>10. Walking'
  <2>1. ToSet(page) \subseteq Safe'
    BY <1>2, <1>6 DEF StoreInv, Indexed
  <2>2. listing.start + n \in Nat
    BY <1>4
  <2> QED
    BY <1>2, <1>3, <1>6, <1>7, <2>1, <2>2 DEF Walking
<1>11. ASSUME NEW r \in Kept, r \notin Shown
       PROVE  r \in index /\ Above(index, r) \in Nat /\ Above(index, r) >= listing.start
  <2>1. ToSet(listing.ids) = {}
    BY <1>1, EmptyFacts
  <2>2. Behind(r)
    BY <1>3, <1>11, <2>1
  <2> QED
    BY <1>3, <1>5, <1>11, <2>2, AboveRank DEF Behind
<1>12. CASE page = <<>>
  <2>1. Kept \subseteq Shown
    <3> SUFFICES ASSUME NEW r \in Kept, r \notin Shown PROVE FALSE
      OBVIOUS
    <3> QED
      BY <1>4, <1>6, <1>11, <1>12
  <2> QED
    BY <1>2, <1>7, <1>8, <1>9, <1>10, <1>12, <2>1 DEF Listed, StoreInv
<1>13. CASE page # <<>>
  <2>1. ASSUME NEW r \in Kept, r \notin Shown, r \notin ToSet(page) PROVE Behind(r)'
    <3>1. Above(index, r) >= listing.start + n /\ \A x \in ToSet(page) : r < x
      BY <1>6, <1>11, <2>1
    <3> QED
      BY <1>2, <1>7, <3>1 DEF Behind
  <2> QED
    BY <1>2, <1>7, <1>8, <1>9, <1>10, <1>13, <2>1 DEF Listed, StoreInv
<1> QED
  BY <1>12, <1>13

(* The walk is over: the ids without a hash leave the index. *)
LEMMA EndStep == ASSUME FlusherInv, StoreInv, ListEnds PROVE StoreInv'
<1>1. /\ \/ listing.k = "drop"
         \/ listing.k = "get" /\ Len(listing.out) = listing.limit
      /\ index' = index \ listing.stale
      /\ listing' = [k |-> "done", out |-> listing.out, method |-> listing.method,
                     limit |-> listing.limit, must |-> listing.must]
      /\ UNCHANGED <<vars, backend, bound, now, at, rows, mortal, pipe, purging, purged, used>>
  BY DEF ListEnds
<1>2. /\ Asking /\ Walking
      /\ listing.k = "drop" => Kept \subseteq Shown
  BY <1>1 DEF StoreInv, Listed
<1>3. \A x \in index \ index' : Gone(x)
  BY <1>1, <1>2 DEF Walking
<1>4. /\ Clocks' /\ Contents' /\ Piped' /\ Indexed' /\ Purging'
  BY <1>1, <1>3, LeaveStep
<1>5. /\ stored' = stored /\ Redis' = Redis /\ purged' = purged /\ submitted' = submitted
      /\ \A m : Matching(m)' = Matching(m)
  BY <1>1 DEF vars, Redis, Matching
<1>6. /\ listing'.k = "done" /\ listing'.out = listing.out /\ listing'.method = listing.method
      /\ listing'.limit = listing.limit /\ listing'.must = listing.must
  BY <1>1
<1>7. Kept' = Kept /\ Shown' = Shown
  BY <1>1, <1>5, <1>6 DEF Kept, Redis, Fading, Aged, Shown
<1>8. Asking'
  <2>1. NewerShown'
    BY <1>2, <1>6, <1>7 DEF Asking, NewerShown
  <2> QED
    BY <1>2, <1>5, <1>6, <2>1 DEF Asking
<1>9. Listed'
  BY <1>1, <1>2, <1>6, <1>7, <1>8 DEF Listed
<1> QED
  BY <1>4, <1>9 DEF StoreInv

(* The answer has been given. *)
LEMMA AnsweredStep == ASSUME FlusherInv, StoreInv, ListAnswered PROVE StoreInv'
<1>1. /\ listing' = Over
      /\ UNCHANGED <<vars, backend, bound, now, at, rows, mortal, index, pipe, purging, purged, used>>
  BY DEF ListAnswered
<1>2. Clocks' /\ Contents' /\ Piped' /\ Indexed' /\ Purging'
  BY <1>1, OnlyListing
<1>3. listing'.k = "idle"
  BY <1>1 DEF Over
<1> QED
  BY <1>2, <1>3 DEF StoreInv, Listed

-------------------------------------------------------------------------------
(* The steps of the flusher.                                               *)

LEMMA StoreStart == StoreInit => StoreInv
<1> SUFFICES ASSUME StoreInit PROVE StoreInv
  OBVIOUS
<1>1. /\ queue = <<>> /\ batch = <<>> /\ submitted = 0 /\ stored = {}
      /\ now = 0 /\ at = <<>> /\ rows = {} /\ mortal = {} /\ index = {}
      /\ pipe = Nothing /\ purging = NoPurge /\ listing = Over /\ purged = {}
      /\ backend \in {"sqlite", "postgres", "redis", "other"}
  BY RecordStoresAssumption DEF StoreInit, Init
<1>2. /\ <<>> \in Seq(Nat) /\ Len(<<>>) = 0 /\ ToSet(<<>>) = {} /\ Numbers = {}
  BY <1>1, EmptyFacts DEF Numbers
<1>3. Clocks /\ Contents
  BY <1>1, <1>2 DEF Clocks, Contents
<1>4. Piped /\ DueIn(pipe.todo) = {} /\ pipe.plan = {}
  BY <1>1, <1>2, NoPipe DEF Piped
<1>5. NoPurge.left = <<>> /\ NoPurge.ids = {} /\ NoPurge \in [left : Seq(Nat), ids : SUBSET Nat]
  BY <1>2 DEF NoPurge
<1>6. Indexed /\ Purging
  BY <1>1, <1>2, <1>4, <1>5 DEF Indexed, Purging, Settled, Pending
<1>7. Listed
  BY <1>1 DEF Listed, Over
<1> QED
  BY <1>3, <1>4, <1>6, <1>7 DEF StoreInv

(* The store does not move, and the flusher moves no record. *)
LEMMA StillStep ==
    ASSUME FlusherInv, StoreInv, UNCHANGED <<store, queue, batch, stored, submitted>>,
           writer' = writer \/ writer # "write"
    PROVE  StoreInv'
<1>1. /\ UNCHANGED <<backend, now, at, rows, mortal, index, pipe, purging, listing, purged>>
      /\ UNCHANGED <<queue, batch, stored, submitted>>
  BY DEF store
<1>2. Clocks /\ Contents
  BY DEF StoreInv
<1>3. Onward /\ Clocks' /\ Numbers' = Numbers /\ Redis' = Redis /\ Sql' = Sql
  BY <1>1, <1>2, TimeStays
<1>4. Piped' /\ Safe \subseteq Safe'
  <2>1. pipe = Nothing \/ (writer' = writer /\ batch' = batch)
    BY <1>1 DEF StoreInv, Piped
  <2> QED
    BY <1>1, <1>3, <2>1, PipedStays
<1>5. Settled' = Settled /\ Pending' = Pending
  BY <1>1 DEF Settled, Pending
<1>6. Contents'
  BY <1>1, <1>2, <1>3 DEF Contents
<1>7. Purging' /\ Indexed'
  BY <1>1, <1>3, <1>5, PurgingStays, IndexedStays
<1>8. Listed'
  <2>1. submitted' \in Nat
    BY <1>1 DEF FlusherInv, TypeOK
  <2> QED
    BY <1>1, <1>3, <1>6, <2>1, ListedStays
<1> QED
  BY <1>3, <1>4, <1>6, <1>7, <1>8 DEF StoreInv

(* A record is submitted. *)
LEMMA RecordStep == ASSUME FlusherInv, FlusherInv', StoreInv, Records PROVE StoreInv'
<1>1. /\ submitted' = submitted + 1
      /\ queue' = queue \/ queue' = Append(queue, submitted + 1)
      /\ UNCHANGED <<writer, batch, stored>>
      /\ at' = Append(at, now)
      /\ UNCHANGED <<backend, now, rows, mortal, index, pipe, purging, listing, purged>>
  BY DEF Records, Submit
<1>2. Clocks /\ Contents /\ submitted \in Nat /\ submitted' \in Nat
  BY DEF StoreInv, FlusherInv, TypeOK
<1>3. /\ Numbers \subseteq Numbers' /\ submitted + 1 \in Numbers' /\ Redis' = Redis /\ Sql' = Sql
      /\ Numbers' = Numbers \cup {submitted + 1} /\ \A x \in Numbers : x < submitted + 1
  BY <1>1, <1>2 DEF Numbers, Redis, Sql
<1>4. /\ at \in Seq(Nat) /\ Len(at) = submitted /\ now \in Nat
      /\ at' \in Seq(Nat) /\ Len(at') = submitted + 1 /\ at'[submitted + 1] = now
      /\ \A r \in Numbers : at'[r] = at[r] /\ at[r] \in Nat /\ at[r] <= now
      /\ DOMAIN at = Numbers /\ DOMAIN at' = Numbers'
  <2>1. at \in Seq(Nat) /\ Len(at) = submitted /\ now \in Nat
    BY <1>2 DEF Clocks
  <2>2. /\ at' \in Seq(Nat) /\ Len(at') = Len(at) + 1 /\ at'[Len(at) + 1] = now
        /\ \A r \in 1..Len(at) : at'[r] = at[r]
    BY <1>1, <2>1, AppendProperties
  <2>3. DOMAIN at' = 1..Len(at')
    BY <2>2, LenProperties
  <2> QED
    BY <1>1, <1>2, <2>1, <2>2, <2>3, ClockFacts DEF Numbers
<1>5. Onward
  BY <1>1, <1>3, <1>4 DEF Onward
<1>6. Clocks'
  <2>1. ASSUME NEW r \in Numbers' PROVE at'[r] <= now
    <3>1. CASE r \in Numbers
      BY <1>4, <3>1
    <3>2. CASE r = submitted + 1
      BY <1>4, <3>2
    <3> QED
      BY <1>3, <3>1, <3>2
  <2>2. ASSUME NEW r \in Numbers', NEW q \in Numbers', r <= q PROVE at'[r] <= at'[q]
    <3>1. CASE q = submitted + 1
      BY <1>4, <2>1, <3>1
    <3>2. CASE q \in Numbers
      <4>1. r \in Numbers
        BY <1>2, <1>3, <2>2, <3>2 DEF Numbers
      <4> QED
        BY <1>2, <1>4, <2>2, <3>2, <4>1 DEF Clocks
    <3> QED
      BY <1>3, <3>1, <3>2
  <2> QED
    BY <1>1, <1>2, <1>4, <2>1, <2>2 DEF Clocks
<1>7. rows \ rows' = {} /\ Settled' = Settled
  BY <1>1 DEF Settled
<1>8. ToSet(queue') \subseteq ToSet(queue) \cup {submitted + 1}
  <2>1. queue \in Seq(Nat) /\ submitted + 1 \in Nat
    BY <1>2 DEF FlusherInv, TypeOK
  <2>2. ToSet(Append(queue, submitted + 1)) = ToSet(queue) \cup {submitted + 1}
    BY <2>1, AppendFacts
  <2> QED
    BY <1>1, <2>2
<1>9. Contents'
  BY <1>1, <1>2, <1>3, <1>8 DEF Contents
<1>10. Piped'
  BY <1>1, <1>5, <1>7, PipedStays
<1>11. Purging'
  BY <1>1, <1>5, <1>7, PurgingStays
<1>12. Indexed'
  <2>1. ASSUME NEW x \in index' \cup purging'.ids, NEW y \in Pending'
        PROVE  (x \in index \cup purging.ids /\ y \in Pending) \/ x < y
    <3>1. y \in Pending \/ y = submitted + 1
      BY <1>1, <1>8 DEF Pending
    <3>2. x \in index \cup purging.ids /\ x \in Numbers
      BY <1>1, SettledFacts
    <3> QED
      BY <1>3, <3>1, <3>2
  <2> QED
    BY <1>1, <1>5, <1>7, <2>1, IndexedStays
<1>13. Listed'
  BY <1>1, <1>2, <1>5, <1>7, <1>9, ListedStays
<1> QED
  BY <1>6, <1>9, <1>10, <1>11, <1>12, <1>13 DEF StoreInv

(* The writer takes a batch and begins its call. *)
LEMMA CollectsStep == ASSUME FlusherInv, FlusherInv', StoreInv, Collects PROVE StoreInv'
<1> DEFINE n == IF Len(queue) < BatchSize THEN Len(queue) ELSE BatchSize
           I == {i \in DOMAIN batch' : ~ Aged(batch'[i], now)}
           fresh == Picked(batch', I)
           todo == Commands(fresh) \o <<<<"evict", now>>>>
<1>1. /\ batch' = SubSeq(queue, 1, n) /\ queue' = SubSeq(queue, n + 1, Len(queue))
      /\ writer = "get" /\ writer' = "write"
      /\ UNCHANGED <<submitted, stored>>
      /\ pipe' = (IF Redis THEN [plan |-> ToSet(fresh), todo |-> todo] ELSE Nothing)
      /\ UNCHANGED <<backend, bound, now, at, rows, mortal, index, purging, listing, purged, used>>
  BY DEF Collects, Collect, Pipeline
<1>2. Clocks /\ Contents /\ now \in Nat /\ submitted \in Nat
  BY ClockFacts DEF StoreInv, FlusherInv, TypeOK
<1>3. Onward /\ Clocks' /\ Numbers' = Numbers /\ Redis' = Redis /\ Sql' = Sql
  BY <1>1, <1>2, TimeStays
<1>4. pipe = Nothing /\ pipe.plan = {} /\ DueIn(pipe.todo) = {}
  BY <1>1, NoPipe DEF StoreInv, Piped
<1>5. /\ batch' \in Seq(Nat) /\ queue' \in Seq(Nat) /\ ToSet(queue) = ToSet(batch') \cup ToSet(queue')
      /\ Increasing(batch')
  <2>1. queue \in Seq(Nat) /\ Len(queue) \in Nat /\ n \in 0..Len(queue)
    <3>1. queue \in Seq(Nat)
      BY DEF FlusherInv, TypeOK
    <3>2. Len(queue) \in Nat /\ BatchSize \in Nat
      BY ONLY <3>1, LimitAssumption, ToSetDef
    <3> QED
      BY ONLY <3>1, <3>2 DEF n
  <2> HIDE DEF n
  <2>2. batch' \in Seq(Nat) /\ queue' \in Seq(Nat) /\ batch' \o queue' = queue
    BY <1>1, <2>1, SplitFacts
  <2>3. ToSet(batch' \o queue') = ToSet(batch') \cup ToSet(queue')
    BY <2>2, ToSetConcat
  <2>4. Increasing(batch' \o queue')
    BY DEF FlusherInv, Places
  <2> QED
    BY <2>2, <2>3, <2>4, IncreasingConcat
<1>6. fresh \in Seq(Nat) /\ ToSet(fresh) \subseteq ToSet(batch') /\ Increasing(fresh)
  <2>1. I \in SUBSET DOMAIN batch'
    OBVIOUS
  <2> HIDE DEF I
  <2>2. /\ fresh \in Seq(Nat) /\ ToSet(fresh) = {batch'[i] : i \in I}
        /\ Increasing(batch') => Increasing(fresh)
    BY <1>5, <2>1, PickedFacts
  <2>3. \A i \in I : batch'[i] \in ToSet(batch')
    BY <1>5, <2>1, ToSetDef
  <2> QED
    BY <1>5, <2>2, <2>3
<1> HIDE DEF fresh, n
<1>7. Ordered(todo, ToSet(fresh), now) /\ HashFirst(todo, {}) /\ ToSet(fresh) \subseteq DueIn(todo)
  BY <1>2, <1>6, CommandsFacts
<1> HIDE DEF todo
<1>8. todo \in Seq(CommandKinds \X Nat) /\ ToSet(fresh) \in SUBSET Nat /\ DueIn(todo) \subseteq ToSet(fresh)
  <2>1. ToSet(fresh) \in SUBSET Nat
    BY <1>6, ToSetDef
  <2>2. ASSUME NEW r \in DueIn(todo) PROVE r \in ToSet(fresh)
    <3>1. PICK k \in 1..Len(todo) : todo[k] = <<"zadd", r>>
      BY DEF DueIn
    <3>2. todo[k][1] # "evict" /\ todo[k][2] = r
      BY <3>1
    <3> QED
      BY <1>7, <3>2 DEF Ordered
  <2> QED
    BY <1>7, <2>1, <2>2 DEF Ordered
<1>9. /\ pipe' \in [plan : SUBSET Nat, todo : Seq(CommandKinds \X Nat)]
      /\ Redis => pipe'.plan = ToSet(fresh) /\ pipe'.todo = todo
      /\ ~ Redis => pipe' = Nothing
  <2>1. CASE Redis
    <3>1. pipe' = [plan |-> ToSet(fresh), todo |-> todo]
      BY <1>1, <2>1
    <3> HIDE DEF CommandKinds
    <3>2. pipe' \in [plan : SUBSET Nat, todo : Seq(CommandKinds \X Nat)]
      BY ONLY <1>8, <3>1
    <3>3. pipe'.plan = ToSet(fresh) /\ pipe'.todo = todo
      BY ONLY <3>1
    <3> QED
      BY <2>1, <3>2, <3>3
  <2>2. CASE ~ Redis
    BY <1>1, <2>2, NoPipe
  <2> QED
    BY <2>1, <2>2
<1>10. Piped'
  <2>1. CASE Redis
    <3>1. HashFirst(todo, Safe')
      BY <1>7 DEF HashFirst
    <3> QED
      BY <1>1, <1>3, <1>6, <1>7, <1>9, <2>1, <3>1 DEF Piped
  <2>2. CASE ~ Redis
    <3>1. Ordered(<<>>, {}, now) /\ HashFirst(<<>>, Safe') /\ Nothing.plan = {} /\ Nothing.todo = <<>>
      BY NoPipe
    <3> QED
      BY <1>1, <1>9, <2>2, <3>1 DEF Piped
  <2> QED
    BY <2>1, <2>2
<1>11. Settled' = Settled /\ Pending' \subseteq Pending
  <2>1. CASE Redis
    BY <1>1, <1>4, <1>5, <1>6, <1>7, <1>8, <1>9, <2>1 DEF Settled, Pending
  <2>2. CASE ~ Redis
    BY <1>1, <1>4, <1>5, <1>9, <2>2, NoPipe DEF Settled, Pending
  <2> QED
    BY <2>1, <2>2
<1>12. Contents'
  BY <1>1, <1>2, <1>3, <1>5 DEF Contents
<1>13. Purging' /\ Indexed'
  BY <1>1, <1>3, <1>11, PurgingStays, IndexedStays
<1>14. Listed'
  BY <1>1, <1>2, <1>3, <1>12, ListedStays
<1> QED
  BY <1>3, <1>10, <1>12, <1>13, <1>14 DEF StoreInv

(* The writer's call is over: some of the batch is stored, of Redis what   *)
(* has all its commands applied.                                           *)
LEMMA CallEnds ==
    ASSUME FlusherInv, FlusherInv', StoreInv,
           UNCHANGED <<backend, now, at, mortal, index, purging, listing, purged, queue, submitted>>,
           pipe' = Nothing, batch' = <<>>,
           stored \subseteq stored', stored' \subseteq stored \cup ToSet(batch),
           rows \subseteq rows', rows' \subseteq rows \cup stored',
           Redis => stored' \subseteq Settled,
           Sql => stored' \ stored \subseteq rows'
    PROVE  StoreInv'
<1>1. Clocks /\ Contents /\ submitted' \in Nat
  BY DEF StoreInv, FlusherInv, TypeOK
<1>2. Onward /\ Clocks' /\ Numbers' = Numbers /\ Redis' = Redis /\ Sql' = Sql
  BY <1>1, TimeStays
<1>3. Contents'
  BY <1>1, <1>2, EmptyFacts DEF Contents
<1>4. Piped'
  <2>1. Ordered(<<>>, {}, now) /\ HashFirst(<<>>, Safe')
    BY NoPipe
  <2> QED
    BY <2>1, NoPipe DEF Piped
<1>5. Settled' = stored' /\ Pending' \subseteq Pending
  BY NoPipe DEF Settled, Pending
<1>6. rows \ rows' = {} /\ Numbers \subseteq Nat
  BY <1>1, ClockFacts
<1>7. Purging'
  <2>1. ASSUME NEW r \in Settled', r \notin Settled
        PROVE  r \in Nat /\ \A x \in purging.ids : x < r
    <3>1. ~ Redis /\ r \in Nat
      BY <1>1, <1>3, <1>5, <1>6, <2>1, <1>2 DEF Contents
    <3>2. purging.ids = {}
      BY <3>1 DEF StoreInv, Purging
    <3> QED
      BY <3>1, <3>2
  <2> QED
    BY <1>2, <2>1, PurgingStays
<1>8. Indexed'
  BY <1>2, <1>5, <1>6, IndexedStays
<1>9. Listed'
  BY <1>1, <1>2, <1>3, <1>6, ListedStays
<1> QED
  BY <1>2, <1>3, <1>4, <1>7, <1>8, <1>9 DEF StoreInv

(* One of the calls of the store ends, as it should or not. *)
LEMMA CallStep ==
    ASSUME FlusherInv, FlusherInv', StoreInv,
           \/ WriteOk /\ Answers
           \/ WriteFail /\ Breaks
           \/ WriterCancelled /\ writer = "write" /\ Breaks
    PROVE  StoreInv'
<1>1. /\ batch' = <<>> /\ queue' = queue /\ submitted' = submitted
      /\ stored \subseteq stored' /\ stored' \subseteq stored \cup ToSet(batch)
  BY DEF WriteOk, WriteFail, WriterCancelled, BatchOver
<1>2. \/ \E S : Took(S) /\ (Redis => S \subseteq pipe.plan \ DueIn(pipe.todo))
      \/ Other
  <2>1. ASSUME SqliteStores \/ PgStores \/ SqliteBreaks \/ PgBreaks
        PROVE  \E S : Took(S) /\ ~ Redis
    BY <2>1 DEF SqliteStores, PgStores, SqliteBreaks, PgBreaks, Redis
  <2>2. ASSUME RdStores PROVE \E S : Took(S) /\ S \subseteq pipe.plan \ DueIn(pipe.todo)
    BY <2>2, NoPipe DEF RdStores
  <2>3. ASSUME RdBreaks PROVE \E S : Took(S) /\ S \subseteq pipe.plan \ DueIn(pipe.todo)
    <3>1. ASSUME NEW r \in pipe.plan, r \in DueIn(pipe.todo) PROVE r \in Unsent
      <4>1. PICK k \in 1..Len(pipe.todo) : pipe.todo[k] = <<"zadd", r>>
        BY <3>1 DEF DueIn
      <4>2. DOMAIN pipe.todo = 1..Len(pipe.todo)
        BY LenProperties DEF StoreInv, Piped
      <4>3. <<"zadd", r>> \in ToSet(pipe.todo)
        BY <4>1, <4>2 DEF ToSet
      <4> QED
        BY <3>1, <4>3 DEF Unsent
    <3> QED
      BY <2>3, <3>1 DEF RdBreaks
  <2> QED
    BY <2>1, <2>2, <2>3 DEF Answers, Breaks
<1>3. CASE Other
  <2>1. /\ UNCHANGED <<backend, now, at, rows, mortal, index, purging, listing, purged, pipe>>
        /\ ~ Redis /\ ~ Sql
    BY <1>3 DEF Other, store, Redis, Sql
  <2>2. pipe' = Nothing
    BY <2>1 DEF StoreInv, Piped
  <2> QED
    BY <1>1, <2>1, <2>2, CallEnds
<1>4. ASSUME NEW S, Took(S), Redis => S \subseteq pipe.plan \ DueIn(pipe.todo)
      PROVE  StoreInv'
  <2>1. /\ stored' = stored \cup S /\ pipe' = Nothing
        /\ rows' = (IF Sql THEN rows \cup S ELSE rows)
        /\ UNCHANGED <<backend, now, at, mortal, index, purging, listing, purged>>
    BY <1>4 DEF Took
  <2>2. Redis => stored' \subseteq Settled
    BY <1>4, <2>1 DEF Settled
  <2> QED
    BY <1>1, <2>1, <2>2, CallEnds
<1> QED
  BY <1>2, <1>3, <1>4

(* The steps that move no record. *)
LEMMA LifespanStep == ASSUME FlusherInv, StoreInv, Lifespan PROVE StoreInv'
<1>1. UNCHANGED <<store, queue, batch, stored, submitted>>
  BY DEF Lifespan, StartCall, CancelWriter, CloseCancelled, CloseCall, StartEnd, CloseTimeout,
         CloseDrained, CloseEnd, StopWriter
<1>2. writer' = writer \/ writer # "write"
  <2>1. CASE StartEnd
    BY <2>1 DEF StartEnd, FlusherInv, Phases
  <2>2. CASE ~ StartEnd
    BY <2>2 DEF Lifespan, StartCall, CancelWriter, CloseCancelled, CloseCall, CloseTimeout,
                CloseDrained, CloseEnd, StopWriter
  <2> QED
    BY <2>1, <2>2
<1> QED
  BY <1>1, <1>2, StillStep

LEMMA WriterStopsStep == ASSUME FlusherInv, FlusherInv', StoreInv, WriterStops PROVE StoreInv'
<1>1. CASE writer = "write"
  BY <1>1, CallStep DEF WriterStops
<1>2. CASE writer # "write"
  <2>1. UNCHANGED <<store, queue, batch, stored, submitted>>
    BY <1>2 DEF WriterStops, WriterCancelled
  <2> QED
    BY <1>2, <2>1, StillStep
<1> QED
  BY <1>1, <1>2

(* Each step of the stores is one of the flusher, or leaves the flusher. *)
LEMMA FlusherSteps == [StoreNext]_<<vars, store>> => [Next]_vars
<1> SUFFICES ASSUME StoreNext, vars' # vars PROVE Next
  BY DEF store
<1>1. ASSUME \/ Hset \/ Expire \/ Zadd \/ Evict \/ Count \/ PurgeDels \/ PurgeZrem \/ PurgeBreaks
             \/ Reclaims \/ Tick \/ ListGets \/ ListTurns \/ ListEnds \/ ListAnswered
      PROVE  FALSE
  BY <1>1 DEF Hset, Expire, Zadd, Evict, Applies, Count, PurgeDels, PurgeZrem, PurgeBreaks, Reclaims,
              Tick, ListGets, ListTurns, ListEnds, ListAnswered
<1>2. ASSUME NEW method, NEW limit,
             SqliteList(method, limit) \/ PgList(method, limit) \/ RdList(method, limit)
      PROVE  FALSE
  BY <1>2 DEF SqliteList, PgList, RdList, Asked
<1>3. ASSUME NEW cutoff, SqlitePurge(cutoff) \/ PgPurge(cutoff) \/ RdPurge(cutoff)
      PROVE  FALSE
  BY <1>3 DEF SqlitePurge, PgPurge, SqlPurge, RdPurge
<1>4. Records => Submit
  BY DEF Records
<1>5. Collects => Collect
  BY DEF Collects
<1>6. WriterStops => WriterCancelled
  BY DEF WriterStops
<1>7. Lifespan => \/ StartCall \/ CancelWriter \/ CloseCancelled \/ CloseCall \/ StartEnd
                  \/ CloseTimeout \/ CloseDrained \/ CloseEnd
  BY DEF Lifespan
<1> QED
  BY <1>1, <1>2, <1>3, <1>4, <1>5, <1>6, <1>7 DEF StoreNext, Next

LEMMA StoreStep == FlusherInv /\ FlusherInv' /\ StoreInv /\ [StoreNext]_<<vars, store>> => StoreInv'
<1> SUFFICES ASSUME FlusherInv, FlusherInv', StoreInv, [StoreNext]_<<vars, store>> PROVE StoreInv'
  OBVIOUS
<1>1. CASE UNCHANGED <<vars, store>>
  <2>1. UNCHANGED <<store, queue, batch, stored, submitted>> /\ writer' = writer
    BY <1>1 DEF vars
  <2> QED
    BY <2>1, StillStep
<1>2. CASE Records \/ Collects
  BY <1>2, RecordStep, CollectsStep
<1>3. CASE (WriteOk /\ Answers) \/ (WriteFail /\ Breaks) \/ WriterStops \/ Lifespan
  BY <1>3, CallStep, WriterStopsStep, LifespanStep
<1>4. CASE Hset \/ Expire \/ Zadd \/ Evict
  BY <1>4, ApplyStep
<1>5. CASE Count \/ PurgeDels \/ PurgeZrem \/ PurgeBreaks \/ Reclaims \/ Tick
  BY <1>5, CountStep, PurgeDelStep, PurgeEnds, ReclaimStep, TickStep
<1>6. ASSUME NEW method \in {"none", "a"}, NEW limit \in Limits,
             SqliteList(method, limit) \/ PgList(method, limit) \/ RdList(method, limit)
      PROVE  StoreInv'
  BY <1>6, SqlListStep, RdListStep
<1>7. CASE ListGets \/ ListTurns \/ ListEnds \/ ListAnswered
  BY <1>7, GetStep, TurnStep, EndStep, AnsweredStep
<1>8. ASSUME NEW cutoff \in 0..now, SqlitePurge(cutoff) \/ PgPurge(cutoff) \/ RdPurge(cutoff)
      PROVE  StoreInv'
  BY <1>8, SqlPurgeStep, RdPurgeStep
<1> QED
  BY <1>1, <1>2, <1>3, <1>4, <1>5, <1>6, <1>7, <1>8 DEF StoreNext

-------------------------------------------------------------------------------
(* The flusher over a table or over Redis is a flusher over a store that   *)
(* may take any part of a batch: what is proved of RecordFlusher holds of  *)
(* it (records.py:464-483, 655-668, 785-818).                              *)
THEOREM StoresAreBackends == StoreSpec => Spec
<1>1. StoreInit => Init
  BY DEF StoreInit
<1> QED
  BY <1>1, FlusherSteps, PTL DEF StoreSpec, Spec

LEMMA StoreAlways == StoreSpec => []StoreInv
<1>1. StoreSpec => []FlusherInv
  BY StoresAreBackends, FlusherAlways, PTL
<1> QED
  BY <1>1, StoreStart, StoreStep, PTL DEF StoreSpec

(* A listing misses no confirmed record, but for its limit, purges and     *)
(* what is within a second of its ttl, and shows none before a newer one   *)
(* of those, although in Redis hash and index are written, expired,        *)
(* evicted, purged and walked in separate commands (records.py:785-902).   *)
THEOREM ListingsAreComplete == StoreSpec => []ListComplete
<1>1. StoreInv => ListComplete
  <2> SUFFICES ASSUME StoreInv, listing.k = "done" PROVE ListComplete
    BY DEF ListComplete
  <2>1. /\ NewerShown
        /\ \A r \in Kept : r \in Shown \/ Len(listing.out) = listing.limit
    BY DEF StoreInv, Listed, Asking
  <2> QED
    BY <2>1 DEF ListComplete, NewerShown, Kept, Shown
<1> QED
  BY <1>1, StoreAlways, PTL
===============================================================================
