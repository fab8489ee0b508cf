----------------------- MODULE OrderedSequences_proofs ------------------------
(***************************************************************************)
(* Lemmas about buffers of event ids: what appending an event, putting a   *)
(* tail back, or taking the head leaves in a sequence and in what order;   *)
(* and about rows and forks: the first rows of a table, and which streams  *)
(* have an event in their history.                                         *)
(***************************************************************************)
EXTENDS ForkHistory, SequenceTheorems, FiniteSetTheorems, TLAPS

(* The elements of a sequence are the values at 1..Len. *)
LEMMA ToSetDef ==
    ASSUME NEW s \in Seq(Nat)
    PROVE  /\ Len(s) \in Nat
           /\ DOMAIN s = 1..Len(s)
           /\ \A i \in 1..Len(s) : s[i] \in Nat /\ s[i] \in ToSet(s)
           /\ \A x \in ToSet(s) : \E i \in 1..Len(s) : x = s[i]
           /\ ToSet(s) \subseteq Nat
<1>1. Len(s) \in Nat /\ DOMAIN s = 1..Len(s) /\ s \in [1..Len(s) -> Nat]
  BY LenProperties
<1> QED
  BY <1>1 DEF ToSet

(* Strict order read off 1..Len. *)
LEMMA IncreasingDef ==
    ASSUME NEW s \in Seq(Nat)
    PROVE  Increasing(s) <=> \A i, j \in 1..Len(s) : i < j => s[i] < s[j]
BY ToSetDef DEF Increasing

(* The empty buffer. *)
LEMMA EmptyFacts ==
    /\ <<>> \in Seq(Nat)
    /\ Len(<<>>) = 0
    /\ ToSet(<<>>) = {}
    /\ Increasing(<<>>)
BY DEF ToSet, Increasing

(* A concatenation, element by element. *)
LEMMA ConcatDef ==
    ASSUME NEW s \in Seq(Nat), NEW u \in Seq(Nat)
    PROVE  /\ s \o u \in Seq(Nat)
           /\ Len(s \o u) = Len(s) + Len(u)
           /\ \A i \in 1..Len(s) : (s \o u)[i] = s[i]
           /\ \A i \in 1..Len(u) : (s \o u)[Len(s) + i] = u[i]
           /\ \A i \in 1..(Len(s) + Len(u)) :
                 \/ i \in 1..Len(s)
                 \/ i - Len(s) \in 1..Len(u) /\ (s \o u)[i] = u[i - Len(s)]
<1>1. Len(s) \in Nat /\ Len(u) \in Nat
  BY ToSetDef
<1>2. /\ s \o u \in Seq(Nat)
      /\ Len(s \o u) = Len(s) + Len(u)
      /\ \A i \in 1..(Len(s) + Len(u)) :
            (s \o u)[i] = IF i <= Len(s) THEN s[i] ELSE u[i - Len(s)]
  BY ConcatProperties
<1> QED
  BY <1>1, <1>2

(* A put-back tail and the newer events hold together the ids of both. *)
LEMMA ToSetConcat ==
    ASSUME NEW s \in Seq(Nat), NEW u \in Seq(Nat)
    PROVE  ToSet(s \o u) = ToSet(s) \cup ToSet(u)
<1>1. ASSUME NEW x \in ToSet(s \o u) PROVE x \in ToSet(s) \cup ToSet(u)
  <2>1. PICK i \in 1..(Len(s) + Len(u)) : x = (s \o u)[i]
    <3>1. s \o u \in Seq(Nat) /\ Len(s \o u) = Len(s) + Len(u)
      BY ConcatDef
    <3> QED
      BY <1>1, <3>1, ToSetDef
  <2>2. CASE i \in 1..Len(s)
    BY <2>1, <2>2, ToSetDef, ConcatDef
  <2>3. CASE i \notin 1..Len(s)
    <3>1. i - Len(s) \in 1..Len(u) /\ x = u[i - Len(s)]
      BY <2>1, <2>3, ConcatDef
    <3> QED
      BY <3>1, ToSetDef
  <2> QED
    BY <2>2, <2>3
<1>2. ASSUME NEW x \in ToSet(s) PROVE x \in ToSet(s \o u)
  <2>1. PICK i \in 1..Len(s) : x = s[i]
    BY <1>2, ToSetDef
  <2>2. x = (s \o u)[i]
    BY <2>1, ConcatDef
  <2>3. i \in 1..Len(s \o u) /\ s \o u \in Seq(Nat)
    BY <2>1, ConcatDef, ToSetDef
  <2> QED
    BY <2>2, <2>3, ToSetDef
<1>3. ASSUME NEW x \in ToSet(u) PROVE x \in ToSet(s \o u)
  <2>1. PICK i \in 1..Len(u) : x = u[i]
    BY <1>3, ToSetDef
  <2>2. x = (s \o u)[Len(s) + i]
    BY <2>1, ConcatDef
  <2>3. Len(s) + i \in 1..Len(s \o u) /\ s \o u \in Seq(Nat)
    BY <2>1, ConcatDef, ToSetDef
  <2> QED
    BY <2>2, <2>3, ToSetDef
<1> QED
  BY <1>1, <1>2, <1>3

(* Concatenating keeps the order exactly when the left ids are all smaller. *)
LEMMA IncreasingConcat ==
    ASSUME NEW s \in Seq(Nat), NEW u \in Seq(Nat)
    PROVE  Increasing(s \o u) <=> /\ Increasing(s)
                                  /\ Increasing(u)
                                  /\ \A x \in ToSet(s), y \in ToSet(u) : x < y
<1>1. Len(s) \in Nat /\ Len(u) \in Nat
  BY ToSetDef
<1>2. Increasing(s \o u) <=>
        \A i, j \in 1..(Len(s) + Len(u)) : i < j => (s \o u)[i] < (s \o u)[j]
  BY ConcatDef, IncreasingDef
<1>3. ASSUME Increasing(s \o u)
      PROVE  Increasing(s) /\ Increasing(u) /\ \A x \in ToSet(s), y \in ToSet(u) : x < y
  <2>1. ASSUME NEW i \in 1..Len(s), NEW j \in 1..Len(s), i < j PROVE s[i] < s[j]
    <3>1. i \in 1..(Len(s) + Len(u)) /\ j \in 1..(Len(s) + Len(u))
      BY <1>1
    <3>2. (s \o u)[i] = s[i] /\ (s \o u)[j] = s[j]
      BY ConcatDef
    <3> QED
      BY <1>2, <1>3, <2>1, <3>1, <3>2
  <2>2. ASSUME NEW i \in 1..Len(u), NEW j \in 1..Len(u), i < j PROVE u[i] < u[j]
    <3>1. /\ Len(s) + i \in 1..(Len(s) + Len(u)) /\ Len(s) + j \in 1..(Len(s) + Len(u))
          /\ Len(s) + i < Len(s) + j
      BY <1>1, <2>2
    <3>2. (s \o u)[Len(s) + i] = u[i] /\ (s \o u)[Len(s) + j] = u[j]
      BY ConcatDef
    <3> QED
      BY <1>2, <1>3, <3>1, <3>2
  <2>3. ASSUME NEW x \in ToSet(s), NEW y \in ToSet(u) PROVE x < y
    <3>1. PICK i \in 1..Len(s) : x = s[i]
      BY ToSetDef
    <3>2. PICK j \in 1..Len(u) : y = u[j]
      BY ToSetDef
    <3>3. i \in 1..(Len(s) + Len(u)) /\ Len(s) + j \in 1..(Len(s) + Len(u)) /\ i < Len(s) + j
      BY <1>1
    <3>4. (s \o u)[i] = x /\ (s \o u)[Len(s) + j] = y
      BY <3>1, <3>2, ConcatDef
    <3> QED
      BY <1>2, <1>3, <3>3, <3>4
  <2> QED
    BY <2>1, <2>2, <2>3, IncreasingDef
<1>4. ASSUME Increasing(s), Increasing(u), \A x \in ToSet(s), y \in ToSet(u) : x < y,
             NEW i \in 1..(Len(s) + Len(u)), NEW j \in 1..(Len(s) + Len(u)), i < j
      PROVE  (s \o u)[i] < (s \o u)[j]
  <2>1. CASE j \in 1..Len(s)
    <3>1. i \in 1..Len(s)
      BY <1>1, <1>4, <2>1
    <3> QED
      BY <1>4, <2>1, <3>1, ConcatDef, IncreasingDef
  <2>2. CASE i \notin 1..Len(s)
    <3>1. /\ i - Len(s) \in 1..Len(u) /\ j - Len(s) \in 1..Len(u)
          /\ i - Len(s) < j - Len(s)
      BY <1>1, <1>4, <2>2
    <3>2. (s \o u)[i] = u[i - Len(s)] /\ (s \o u)[j] = u[j - Len(s)]
      BY <1>1, <1>4, <2>2, ConcatDef
    <3> QED
      BY <1>4, <3>1, <3>2, IncreasingDef
  <2>3. CASE i \in 1..Len(s) /\ j \notin 1..Len(s)
    <3>1. (s \o u)[i] = s[i] /\ (s \o u)[j] = u[j - Len(s)] /\ j - Len(s) \in 1..Len(u)
      BY <1>1, <2>3, ConcatDef
    <3>2. s[i] \in ToSet(s) /\ u[j - Len(s)] \in ToSet(u)
      BY <2>3, <3>1, ToSetDef
    <3> QED
      BY <1>4, <3>1, <3>2
  <2> QED
    BY <2>1, <2>2, <2>3
<1> QED
  BY <1>2, <1>3, <1>4

(* Appending an event adds its id, and keeps the order if the id is new. *)
LEMMA AppendFacts ==
    ASSUME NEW s \in Seq(Nat), NEW e \in Nat
    PROVE  /\ Append(s, e) \in Seq(Nat)
           /\ Append(s, e) # <<>>
           /\ Len(Append(s, e)) = Len(s) + 1
           /\ ToSet(Append(s, e)) = ToSet(s) \cup {e}
           /\ Increasing(Append(s, e)) <=> Increasing(s) /\ \A x \in ToSet(s) : x < e
<1>1. /\ Append(s, e) = s \o <<e>>
      /\ Append(s, e) \in Seq(Nat)
      /\ Append(s, e) # <<>>
      /\ Len(Append(s, e)) = Len(s) + 1
  BY AppendIsConcat, AppendProperties
<1>2. <<e>> \in Seq(Nat) /\ ToSet(<<e>>) = {e} /\ Increasing(<<e>>)
  BY DEF ToSet, Increasing
<1>3. ToSet(Append(s, e)) = ToSet(s) \cup {e}
  BY <1>1, <1>2, ToSetConcat
<1>4. Increasing(s \o <<e>>) <=> /\ Increasing(s)
                                /\ Increasing(<<e>>)
                                /\ \A x \in ToSet(s), y \in ToSet(<<e>>) : x < y
  BY <1>2, IncreasingConcat
<1> QED
  BY <1>1, <1>2, <1>3, <1>4

(* What remains of a batch of which the first n events are written. *)
LEMMA SuffixFacts ==
    ASSUME NEW s \in Seq(Nat), NEW n \in Nat, n <= Len(s)
    PROVE  /\ SubSeq(s, n + 1, Len(s)) \in Seq(Nat)
           /\ Len(SubSeq(s, n + 1, Len(s))) = Len(s) - n
           /\ \A i \in 1..(Len(s) - n) : SubSeq(s, n + 1, Len(s))[i] = s[n + i]
<1>1. Len(s) \in Nat /\ \A i \in (n + 1)..Len(s) : s[i] \in Nat
  BY ToSetDef
<1> QED
  BY <1>1, SubSeqProperties

(* Taking the head of a non-empty buffer. *)
LEMMA HeadFacts ==
    ASSUME NEW s \in Seq(Nat), s # <<>>
    PROVE  /\ Head(s) \in Nat
           /\ Tail(s) \in Seq(Nat)
           /\ Len(Tail(s)) = Len(s) - 1
           /\ ToSet(s) = {Head(s)} \cup ToSet(Tail(s))
           /\ Increasing(s) <=> /\ Increasing(Tail(s))
                                /\ \A x \in ToSet(Tail(s)) : Head(s) < x
<1>1. /\ Head(s) \in Nat
      /\ Tail(s) \in Seq(Nat)
      /\ Len(Tail(s)) = Len(s) - 1
  BY HeadTailProperties
<1>2. s = <<Head(s)>> \o Tail(s)
  BY <1>1
<1>3. <<Head(s)>> \in Seq(Nat) /\ ToSet(<<Head(s)>>) = {Head(s)} /\ Increasing(<<Head(s)>>)
  BY <1>1 DEF ToSet, Increasing
<1> QED
  BY <1>1, <1>2, <1>3, ToSetConcat, IncreasingConcat, ZenonT(30)

(* One event out of a batch. *)
LEMMA OneFacts ==
    ASSUME NEW s \in Seq(Nat), NEW i \in 1..Len(s)
    PROVE  ToSet(SubSeq(s, i, i)) = {s[i]}
<1>1. i \in Int /\ s[i] \in Nat
  BY ToSetDef
<1>2. \A j \in i..i : s[j] \in Nat
  BY <1>1
<1>3. /\ SubSeq(s, i, i) \in Seq(Nat)
      /\ Len(SubSeq(s, i, i)) = IF i <= i THEN i - i + 1 ELSE 0
      /\ \A j \in 1..(i - i + 1) : SubSeq(s, i, i)[j] = s[i + j - 1]
  BY <1>1, <1>2, SubSeqProperties
<1>4. Len(SubSeq(s, i, i)) = 1 /\ SubSeq(s, i, i)[1] = s[i]
  BY <1>1, <1>3
<1>5. DOMAIN SubSeq(s, i, i) = {1}
  BY <1>3, <1>4, LenProperties
<1> QED
  BY <1>4, <1>5 DEF ToSet

-------------------------------------------------------------------------------
(* Selections: the numbers of a set in order, and a sequence's elements at *)
(* some of its positions.                                                  *)

(* The rank of a member of a finite set grows with the member. *)
LEMMA RankFacts ==
    ASSUME NEW S \in SUBSET Nat, IsFiniteSet(S)
    PROVE  /\ \A x \in S : Rank(S, x) \in 1..Cardinality(S)
           /\ \A x, y \in S : x < y => Rank(S, x) < Rank(S, y)
<1> DEFINE Below(x) == {y \in S : y <= x}
<1>1. ASSUME NEW x \in S
      PROVE  IsFiniteSet(Below(x)) /\ Cardinality(Below(x)) \in 1..Cardinality(S)
  <2>1. /\ IsFiniteSet(Below(x)) /\ Cardinality(Below(x)) <= Cardinality(S)
        /\ Cardinality(Below(x)) \in Nat /\ Cardinality(S) \in Nat
    <3>1. Below(x) \in SUBSET S
      OBVIOUS
    <3> HIDE DEF Below
    <3> QED
      BY <3>1, FS_Subset, FS_CardinalityType
  <2>2. Below(x) # {}
    OBVIOUS
  <2> HIDE DEF Below
  <2>3. Cardinality(Below(x)) # 0
    BY <2>1, <2>2, FS_EmptySet
  <2> QED
    BY <2>1, <2>3
<1>2. ASSUME NEW x \in S, NEW y \in S, x < y
      PROVE  Cardinality(Below(x)) < Cardinality(Below(y))
  <2>1. Below(x) \in SUBSET Below(y) /\ y \in Below(y) /\ y \notin Below(x)
    <3>1. x \in Nat /\ y \in Nat /\ \A z \in S : z \in Nat
      OBVIOUS
    <3>2. \A z \in S : z <= x => z <= y
      BY <1>2, <3>1
    <3>3. Below(x) \in SUBSET Below(y)
      BY <3>2
    <3>4. y \in Below(y) /\ y \notin Below(x)
      BY <1>2, <3>1
    <3> QED
      BY <3>3, <3>4
  <2>2. IsFiniteSet(Below(y))
    BY <1>1
  <2>3. Cardinality(Below(x)) \in Nat /\ Cardinality(Below(y)) \in Nat
    BY <1>1
  <2> HIDE DEF Below
  <2>4. Cardinality(Below(x)) <= Cardinality(Below(y)) /\ Cardinality(Below(x)) # Cardinality(Below(y))
    BY <2>1, <2>2, FS_Subset
  <2> QED
    BY <2>3, <2>4
<1> QED
  BY <1>1, <1>2 DEF Rank

(* Every rank up to the size of the set is taken by one of its members. *)
LEMMA EveryRankTaken ==
    ASSUME NEW S \in SUBSET Nat, IsFiniteSet(S), NEW n \in 1..Cardinality(S)
    PROVE  \E x \in S : Rank(S, x) = n
<1> DEFINE f == [x \in S |-> Rank(S, x)]
           T == 1..Cardinality(S)
<1>1. Cardinality(S) \in Nat
  BY FS_CardinalityType
<1>2. f \in Injection(S, T)
  <2>1. f \in [S -> T]
    BY RankFacts
  <2>2. ASSUME NEW x \in S, NEW y \in S, f[x] = f[y] PROVE x = y
    <3>1. ~ (x < y) /\ ~ (y < x)
      BY <2>2, RankFacts, <1>1
    <3>2. x \in Nat /\ y \in Nat
      OBVIOUS
    <3> QED
      BY <3>1, <3>2
  <2> QED
    BY <2>1, <2>2 DEF Injection, IsInjective
<1>3. IsFiniteSet(T) /\ Cardinality(T) = Cardinality(S)
  BY <1>1, FS_Interval
<1> HIDE DEF f, T
<1>4. f \in Surjection(S, T)
  BY <1>2, <1>3, FS_Injection
<1>5. n \in T
  BY DEF T
<1>6. \E x \in S : f[x] = n
  BY <1>4, <1>5 DEF Surjection
<1> QED
  BY <1>6 DEF f

(* Ascending lists the set, its smallest number first. *)
LEMMA AscendingFacts ==
    ASSUME NEW S \in SUBSET Nat, IsFiniteSet(S)
    PROVE  /\ Ascending(S) \in Seq(Nat)
           /\ Len(Ascending(S)) = Cardinality(S)
           /\ ToSet(Ascending(S)) = S
           /\ Increasing(Ascending(S))
           /\ Ascending(S) = <<>> <=> S = {}
<1>1. Cardinality(S) \in Nat
  BY FS_CardinalityType
<1>2. \A n \in 1..Cardinality(S) : Ascending(S)[n] \in S /\ Rank(S, Ascending(S)[n]) = n
  BY EveryRankTaken DEF Ascending
<1>3. Ascending(S) \in [1..Cardinality(S) -> Nat]
  BY <1>2 DEF Ascending
<1>4. Ascending(S) \in Seq(Nat) /\ Len(Ascending(S)) = Cardinality(S)
  BY <1>1, <1>3
<1>5. ToSet(Ascending(S)) = S
  <2>1. ASSUME NEW x \in S PROVE x \in ToSet(Ascending(S))
    <3> DEFINE n == Rank(S, x)
    <3>1. n \in 1..Cardinality(S)
      BY RankFacts
    <3>2. Ascending(S)[n] \in S /\ Rank(S, Ascending(S)[n]) = Rank(S, x)
      BY <1>2, <3>1
    <3>3. \A y \in S : Rank(S, y) = Rank(S, x) => y = x
      <4>1. \A y \in S : (x < y \/ y < x) => Rank(S, y) # Rank(S, x)
        BY RankFacts, <1>1
      <4>2. \A y \in S : y # x => x < y \/ y < x
        OBVIOUS
      <4> QED
        BY <4>1, <4>2
    <3> QED
      BY <1>4, <3>1, <3>2, <3>3, ToSetDef
  <2> QED
    BY <1>2, <1>4, <2>1, ToSetDef
<1>6. Increasing(Ascending(S))
  <2>1. ASSUME NEW i \in 1..Cardinality(S), NEW j \in 1..Cardinality(S), i < j
        PROVE  Ascending(S)[i] < Ascending(S)[j]
    <3> DEFINE x == Ascending(S)[i]
               y == Ascending(S)[j]
    <3>1. x \in S /\ y \in S /\ Rank(S, x) = i /\ Rank(S, y) = j
      BY <1>2
    <3> HIDE DEF x, y
    <3>2. ~ (y < x) /\ x # y /\ x \in Nat /\ y \in Nat
      BY <1>1, <2>1, <3>1, RankFacts
    <3>3. x < y
      BY <3>2
    <3> QED
      BY <3>3 DEF x, y
  <2> QED
    BY <1>4, <2>1, IncreasingDef
<1>7. Ascending(S) = <<>> <=> S = {}
  BY <1>4, FS_EmptySet, EmptySeq
<1> QED
  BY <1>4, <1>5, <1>6, <1>7

(* A selection keeps the order and holds the elements at the positions. *)
LEMMA PickedFacts ==
    ASSUME NEW q \in Seq(Nat), NEW I \in SUBSET DOMAIN q
    PROVE  /\ Picked(q, I) \in Seq(Nat)
           /\ ToSet(Picked(q, I)) = {q[n] : n \in I}
           /\ Increasing(q) => Increasing(Picked(q, I))
           /\ Picked(q, I) = <<>> <=> I = {}
<1> DEFINE at == Ascending(I)
<1>1. DOMAIN q = 1..Len(q) /\ Len(q) \in Nat /\ \A n \in DOMAIN q : q[n] \in Nat
  BY ToSetDef
<1>2. IsFiniteSet(DOMAIN q)
  BY <1>1, FS_Interval
<1>3. IsFiniteSet(I) /\ I \in SUBSET Nat
  BY <1>1, <1>2, FS_Subset
<1>4. /\ at \in Seq(Nat) /\ ToSet(at) = I /\ Increasing(at)
      /\ at = <<>> <=> I = {}
  BY <1>3, AscendingFacts
<1> HIDE DEF at
<1>5. /\ Len(at) \in Nat /\ DOMAIN at = 1..Len(at)
      /\ \A n \in 1..Len(at) : at[n] \in I
      /\ \A x \in I : \E n \in 1..Len(at) : x = at[n]
  BY <1>4, ToSetDef
<1>6. Picked(q, I) = [n \in 1..Len(at) |-> q[at[n]]]
  BY <1>5 DEF Picked, at
<1>7. Picked(q, I) \in Seq(Nat) /\ Len(Picked(q, I)) = Len(at)
  <2>1. Picked(q, I) \in [1..Len(at) -> Nat]
    BY <1>1, <1>5, <1>6
  <2> QED
    BY <1>5, <2>1
<1>8. ToSet(Picked(q, I)) = {q[n] : n \in I}
  <2>1. ASSUME NEW n \in I PROVE q[n] \in ToSet(Picked(q, I))
    <3>1. PICK k \in 1..Len(at) : n = at[k]
      BY <1>5
    <3>2. Picked(q, I)[k] = q[n]
      BY <1>6, <3>1
    <3> QED
      BY <1>7, <3>2, ToSetDef
  <2>2. ASSUME NEW x \in ToSet(Picked(q, I)) PROVE x \in {q[n] : n \in I}
    <3>1. PICK k \in 1..Len(at) : x = Picked(q, I)[k]
      BY <1>7, ToSetDef
    <3>2. x = q[at[k]] /\ at[k] \in I
      BY <1>5, <1>6, <3>1
    <3> QED
      BY <3>2
  <2> QED
    BY <2>1, <2>2
<1>9. ASSUME Increasing(q) PROVE Increasing(Picked(q, I))
  <2>1. ASSUME NEW i \in 1..Len(at), NEW j \in 1..Len(at), i < j
        PROVE  Picked(q, I)[i] < Picked(q, I)[j]
    <3>1. at[i] < at[j] /\ at[i] \in 1..Len(q) /\ at[j] \in 1..Len(q)
      BY <1>1, <1>4, <1>5, <2>1, IncreasingDef
    <3>2. q[at[i]] < q[at[j]]
      BY <1>9, <3>1, IncreasingDef
    <3> QED
      BY <1>6, <3>2
  <2> QED
    BY <1>7, <2>1, IncreasingDef
<1>10. Picked(q, I) = <<>> <=> I = {}
  BY <1>4, <1>7, EmptySeq
<1> QED
  BY <1>7, <1>8, <1>9, <1>10

(* The last element of an ordered sequence is the greatest. *)
LEMMA LastFacts ==
    ASSUME NEW s \in Seq(Nat), Increasing(s), s # <<>>
    PROVE  /\ s[Len(s)] \in ToSet(s) /\ s[Len(s)] \in Nat
           /\ \A x \in ToSet(s) : x <= s[Len(s)]
<1>1. Len(s) \in Nat /\ Len(s) # 0
  BY EmptySeq
<1>2. Len(s) \in 1..Len(s)
  BY <1>1
<1>3. ASSUME NEW x \in ToSet(s) PROVE x <= s[Len(s)]
  <2>1. PICK i \in 1..Len(s) : x = s[i]
    BY ToSetDef
  <2>2. i = Len(s) \/ i < Len(s)
    BY <1>1
  <2>3. s[i] \in Nat /\ s[Len(s)] \in Nat
    BY <1>2, ToSetDef
  <2>4. CASE i = Len(s)
    BY <2>1, <2>3, <2>4
  <2>5. CASE i < Len(s)
    BY <1>2, <2>1, <2>3, <2>5, IncreasingDef
  <2> QED
    BY <2>2, <2>4, <2>5
<1> QED
  BY <1>2, <1>3, ToSetDef

-----------------------------------------------------------------------------
(* Rows and forks.                                                         *)

(* A nonempty set of numbers that stays below a bound has a smallest one. *)
LEMMA SmallestNumber ==
    ASSUME NEW N \in Nat, NEW T \in SUBSET (0..N), T # {}
    PROVE  \E x \in T : \A y \in T : x <= y
<1>1. IsFiniteSet(T) /\ T \in SUBSET Nat
  <2>1. IsFiniteSet(0..N)
    BY FS_Interval
  <2>2. IsFiniteSet(T)
    BY <2>1, FS_Subset
  <2> QED
    BY <2>2
<1>2. Ascending(T) \in Seq(Nat) /\ ToSet(Ascending(T)) = T /\ Increasing(Ascending(T)) /\ Ascending(T) # <<>>
  BY <1>1, AscendingFacts
<1> DEFINE at == Ascending(T)
<1> HIDE DEF at
<1>3. Len(at) \in Nat /\ Len(at) # 0
  BY <1>2, ToSetDef, EmptySeq DEF at
<1>4. 1 \in 1..Len(at)
  BY <1>3
<1>5. at[1] \in T
  BY <1>2, <1>4, ToSetDef DEF at
<1>6. ASSUME NEW y \in T PROVE at[1] <= y
  <2>1. PICK i \in 1..Len(at) : y = at[i]
    BY <1>2, ToSetDef DEF at
  <2>2. at[1] \in Nat /\ at[i] \in Nat
    BY <1>2, <1>4, ToSetDef DEF at
  <2>3. CASE i = 1
    BY <2>1, <2>2, <2>3
  <2>4. CASE i # 1
    <3>1. 1 < i /\ 1 \in 1..Len(at)
      BY <1>3, <2>4
    <3>2. at[1] < at[i]
      BY <1>2, <3>1, IncreasingDef DEF at
    <3> QED
      BY <2>1, <2>2, <3>2
  <2> QED
    BY <2>3, <2>4
<1> QED
  BY <1>5, <1>6

(* ... and a largest one. *)
LEMMA LargestNumber ==
    ASSUME NEW N \in Nat, NEW T \in SUBSET (0..N), T # {}
    PROVE  \E x \in T : \A y \in T : y <= x
<1>1. IsFiniteSet(T) /\ T \in SUBSET Nat
  <2>1. IsFiniteSet(0..N)
    BY FS_Interval
  <2>2. IsFiniteSet(T)
    BY <2>1, FS_Subset
  <2> QED
    BY <2>2
<1> DEFINE at == Ascending(T)
<1>2. at \in Seq(Nat) /\ ToSet(at) = T /\ Increasing(at) /\ at # <<>>
  BY <1>1, AscendingFacts
<1> HIDE DEF at
<1> QED
  BY <1>2, LastFacts

(* Induction up to a bound. *)
LEMMA UpTo ==
    ASSUME NEW N \in Nat, NEW S, 0 \in S, \A n \in 0..N : n \in S /\ n < N => n + 1 \in S
    PROVE  0..N \subseteq S
<1> SUFFICES ASSUME (0..N) \ S # {} PROVE FALSE
  OBVIOUS
<1>1. PICK x \in (0..N) \ S : \A y \in (0..N) \ S : x <= y
  BY SmallestNumber
<1>2. x # 0 /\ x \in Nat /\ x <= N
  OBVIOUS
<1>3. x - 1 \in 0..N /\ x - 1 < N /\ ~ (x <= x - 1)
  BY <1>2
<1>4. x - 1 \in S
  BY <1>1, <1>3
<1>5. (x - 1) + 1 \in S
  BY <1>3, <1>4
<1>6. (x - 1) + 1 = x
  BY <1>2
<1> QED
  BY <1>5, <1>6

(* What a function makes of a value when it is applied again and again. *)
LEMMA Iterates ==
    ASSUME NEW N \in Nat, NEW V, NEW b \in V, NEW F \in [V -> V]
    PROVE  \E h : h \in [0..N -> V] /\ h[0] = b /\ \A n \in 1..N : h[n] = F[h[n - 1]]
<1> DEFINE Upto(m, h) == h \in [0..m -> V] /\ h[0] = b /\ \A n \in 1..m : h[n] = F[h[n - 1]]
           S == {m \in 0..N : \E h : Upto(m, h)}
<1>1. 0 \in S
  <2>1. Upto(0, [n \in 0..0 |-> b])
    OBVIOUS
  <2> HIDE DEF Upto
  <2> QED
    BY <2>1
<1>2. ASSUME NEW m \in 0..N, m \in S, m < N PROVE m + 1 \in S
  <2>1. PICK h : Upto(m, h)
    BY <1>2
  <2> DEFINE g == [n \in 0..(m + 1) |-> IF n <= m THEN h[n] ELSE F[h[m]]]
  <2>2. h \in [0..m -> V] /\ h[0] = b /\ \A n \in 1..m : h[n] = F[h[n - 1]]
    BY <2>1
  <2>3. g \in [0..(m + 1) -> V]
    BY <1>2, <2>2
  <2>4. g[0] = b
    BY <1>2, <2>2
  <2>5. ASSUME NEW n \in 1..(m + 1) PROVE g[n] = F[g[n - 1]]
    <3>1. n \in 0..(m + 1) /\ n - 1 \in 0..(m + 1) /\ n - 1 <= m
      OBVIOUS
    <3>2. g[n - 1] = h[n - 1]
      BY <3>1
    <3>3. CASE n <= m
      <4>1. n \in 1..m /\ g[n] = h[n]
        BY <3>1, <3>3
      <4> HIDE DEF g
      <4> QED
        BY <2>2, <3>2, <4>1
    <3>4. CASE ~ (n <= m)
      <4>1. n - 1 = m /\ g[n] = F[h[m]]
        BY <3>1, <3>4
      <4> HIDE DEF g
      <4> QED
        BY <3>2, <4>1
    <3> QED
      BY <3>3, <3>4
  <2> HIDE DEF g
  <2>6. Upto(m + 1, g)
    BY <2>3, <2>4, <2>5
  <2> HIDE DEF Upto
  <2> QED
    BY <1>2, <2>6
<1> HIDE DEF S
<1>3. 0..N \subseteq S
  BY <1>1, <1>2, UpTo
<1>4. N \in S
  BY <1>3
<1> QED
  BY <1>4 DEF S

(* The streams that have an event in their history, fork by fork. *)
LEMMA HeirsFacts ==
    ASSUME NEW f, IsFiniteSet(DOMAIN f), NEW e, e.s \in DOMAIN f
    PROVE  /\ Depth(f) \in Nat
           /\ Heirs(f, e) \in [0..Depth(f) -> SUBSET DOMAIN f]
           /\ Heirs(f, e)[0] = {e.s}
           /\ \A n \in 1..Depth(f) : \A x \in DOMAIN f :
                 x \in Heirs(f, e)[n] <=>
                    IF ~ Forked(f, x) THEN x = e.s
                    ELSE \/ x = e.s /\ e.id > f[x].at
                         \/ f[x].p \in Heirs(f, e)[n - 1] /\ e.id <= f[x].at
<1> DEFINE V == SUBSET DOMAIN f
           Next(W) == {x \in DOMAIN f : IF ~ Forked(f, x) THEN x = e.s
                                 ELSE \/ x = e.s /\ e.id > f[x].at
                                      \/ f[x].p \in W /\ e.id <= f[x].at}
           F == [W \in V |-> Next(W)]
           D == Depth(f)
           E(H) == H = [n \in 0..D |-> IF n = 0 THEN {e.s} ELSE Next(H[n - 1])]
<1>1. D \in Nat
  BY FS_CardinalityType DEF Depth
<1>2. {e.s} \in V /\ F \in [V -> V]
  OBVIOUS
<1> HIDE DEF D
<1>3. PICK h : h \in [0..D -> V] /\ h[0] = {e.s} /\ \A n \in 1..D : h[n] = F[h[n - 1]]
  <2> DEFINE b == {e.s}
  <2>1. b \in V
    OBVIOUS
  <2> HIDE DEF F, V, b
  <2>2. \E h : h \in [0..D -> V] /\ h[0] = b /\ \A n \in 1..D : h[n] = F[h[n - 1]]
    <3>1. F \in [V -> V]
      BY <1>2
    <3> QED
      BY ONLY <1>1, <3>1, <2>1, Iterates, SMTT(30)
  <2> QED
    BY <2>2 DEF b
<1>4. ASSUME NEW n \in 1..D PROVE h[n] = Next(h[n - 1])
  <2>1. n - 1 \in 0..D
    BY <1>1
  <2>2. h[n - 1] \in V
    <3> HIDE DEF V
    <3> QED
      BY <1>3, <2>1
  <2> HIDE DEF Next
  <2> QED
    BY <1>3, <2>2
<1>5. E(h)
  <2> HIDE DEF Next
  <2>1. \A n \in 0..D : h[n] = IF n = 0 THEN {e.s} ELSE Next(h[n - 1])
    BY <1>1, <1>3, <1>4
  <2>2. h = [n \in 0..D |-> h[n]]
    BY <1>3
  <2>3. [n \in 0..D |-> h[n]] = [n \in 0..D |-> IF n = 0 THEN {e.s} ELSE Next(h[n - 1])]
    BY <2>1
  <2> QED
    BY <2>2, <2>3
<1>6. Heirs(f, e) = CHOOSE H : E(H)
  BY DEF Heirs, D
<1>7. E(Heirs(f, e))
  <2> HIDE DEF E
  <2> QED
    BY <1>5, <1>6
<1> DEFINE H == Heirs(f, e)
<1> HIDE DEF H
<1>8. H = [n \in 0..D |-> IF n = 0 THEN {e.s} ELSE Next(H[n - 1])]
  BY <1>7 DEF H
<1>9. H \in [0..D -> V]
  <2>1. \A W : Next(W) \in V
    OBVIOUS
  <2> HIDE DEF Next
  <2>2. \A n \in 0..D : (IF n = 0 THEN {e.s} ELSE Next(H[n - 1])) \in V
    BY <1>2, <2>1
  <2> QED
    BY <1>8, <2>2
<1>10. H[0] = {e.s}
  <2>1. 0 \in 0..D
    BY <1>1
  <2> HIDE DEF Next
  <2> QED
    BY <1>8, <2>1
<1>11. \A n \in 1..D : H[n] = Next(H[n - 1])
  <2>1. \A n \in 1..D : n \in 0..D /\ n # 0
    BY <1>1
  <2> HIDE DEF Next
  <2> QED
    BY <1>8, <2>1
<1> QED
  BY <1>1, <1>9, <1>10, <1>11 DEF H, D

\* Rows with an id of their own below a bound are finitely many.
LEMMA NumberedFinite ==
    ASSUME NEW S, NEW N \in Nat, \A x \in S : x.id \in 1..N, \A x, y \in S : x.id = y.id => x = y
    PROVE  IsFiniteSet(S)
<1> DEFINE I == {x.id : x \in S}
           g == [i \in I |-> CHOOSE x \in S : x.id = i]
<1>1. IsFiniteSet(I)
  <2>1. I \subseteq 1..N /\ IsFiniteSet(1..N)
    BY FS_Interval
  <2> QED
    BY <2>1, FS_Subset
<1>2. \A x \in S : g[x.id] = x
  OBVIOUS
<1>3. S = {g[i] : i \in I}
  <2> HIDE DEF g
  <2>1. \A i \in I : g[i] \in S
    BY <1>2
  <2> QED
    BY <1>2, <2>1
<1>4. g \in [I -> S]
  OBVIOUS
<1> QED
  <2> HIDE DEF g, I
  <2>1. g \in Surjection(I, S)
    BY <1>2, <1>3, <1>4 DEF Surjection
  <2> QED
    BY <1>1, <2>1, FS_Surjection

(* The first n rows in the order of their ids: who is left out comes after all of them, and *)
(* then there are n. *)
LEMMA SmallestOfFacts ==
    ASSUME NEW S, NEW N \in Nat, \A x \in S : x.id \in 1..N, \A x, y \in S : x.id = y.id => x = y, NEW n \in Nat
    PROVE  /\ SmallestOf(S, n) \subseteq S
           /\ \A e \in S \ SmallestOf(S, n) : \A x \in SmallestOf(S, n) : x.id < e.id
           /\ S \ SmallestOf(S, n) # {} => Cardinality(SmallestOf(S, n)) = n
<1> DEFINE Below(x) == {y \in S : y.id < x.id}
           T == SmallestOf(S, n)
<1>1. IsFiniteSet(S)
  BY NumberedFinite
<1>2. \A x \in S : IsFiniteSet(Below(x)) /\ Cardinality(Below(x)) \in Nat
  <2>1. \A x \in S : Below(x) \subseteq S
    OBVIOUS
  <2> QED
    BY <1>1, <2>1, FS_Subset, FS_CardinalityType
<1>3. T = {x \in S : Cardinality(Below(x)) < n}
  BY DEF SmallestOf
<1>4. T \subseteq S /\ IsFiniteSet(T) /\ Cardinality(T) \in Nat
  BY <1>1, <1>3, FS_Subset, FS_CardinalityType
<1> HIDE DEF T
<1>5. ASSUME NEW x \in T, NEW y \in S, y.id < x.id PROVE y \in T
  <2>1. x \in S /\ x.id \in Nat /\ y.id \in Nat
    BY <1>4
  <2>2. Below(y) \subseteq Below(x)
    BY <1>5, <2>1
  <2>3. Cardinality(Below(y)) <= Cardinality(Below(x))
    BY <1>2, <2>1, <2>2, FS_Subset
  <2>4. Cardinality(Below(x)) < n
    BY <1>3
  <2>5. Cardinality(Below(y)) < n
    <3> HIDE DEF Below
    <3> QED
      BY <1>2, <2>1, <2>3, <2>4
  <2> QED
    BY <1>3, <2>5
<1>6. ASSUME NEW e \in S \ T, NEW x \in T PROVE x.id < e.id
  <2>1. x \in S /\ x.id \in Nat /\ e.id \in Nat /\ x # e
    BY <1>4
  <2>2. x.id # e.id /\ ~ (e.id < x.id)
    BY <1>5, <2>1
  <2> QED
    BY <2>1, <2>2
<1>7. ASSUME S \ T # {} PROVE Cardinality(T) = n
  <2> DEFINE I == {x.id : x \in S \ T}
  <2>1. I \in SUBSET (0..N) /\ I # {}
    BY <1>7
  <2>2. PICK m \in I : \A i \in I : m <= i
    BY <2>1, SmallestNumber
  <2>3. PICK e \in S \ T : e.id = m
    BY <2>2
  <2>4. \A x \in S \ T : e.id <= x.id
    BY <2>2, <2>3
  <2>5. T = Below(e)
    <3>1. \A x \in T : x \in Below(e)
      BY <1>4, <1>6
    <3>2. \A x \in Below(e) : x \in T
      BY <2>4
    <3> QED
      BY <3>1, <3>2
  <2>6. ~ (Cardinality(T) < n)
    BY <1>3, <2>3, <2>5
  <2>7. Cardinality(T) <= n
    <3>1. CASE T = {}
      <4>1. Cardinality(T) = 0
        BY <3>1, FS_EmptySet
      <4> QED
        BY <4>1
    <3>2. CASE T # {}
      <4>1. {x.id : x \in T} \in SUBSET (0..N) /\ {x.id : x \in T} # {}
        BY <1>4, <3>2
      <4>2. PICK k \in {x.id : x \in T} : \A i \in {x.id : x \in T} : i <= k
        BY <4>1, LargestNumber
      <4>3. PICK z \in T : z.id = k
        BY <4>2
      <4>4. \A x \in T : x.id <= z.id
        BY <4>2, <4>3
      <4>5. Below(z) = T \ {z}
        <5>1. \A x \in Below(z) : x \in T /\ x # z
          BY <1>4, <1>5
        <5>2. \A x \in T : x # z => x.id < z.id
          BY <1>4, <4>4
        <5> QED
          BY <1>4, <5>1, <5>2
      <4>6. Cardinality(T \ {z}) = Cardinality(T) - 1
        BY <1>4, FS_RemoveElement
      <4>7. Cardinality(Below(z)) < n
        BY <1>3, <4>3
      <4>8. Cardinality(T) - 1 < n
        BY <4>5, <4>6, <4>7
      <4> QED
        BY <1>4, <4>8
    <3> QED
      BY <3>1, <3>2
  <2> QED
    BY <1>4, <2>6, <2>7
<1> QED
  BY <1>4, <1>6, <1>7 DEF T

(* ORDER BY event_id: each of the rows once, in the order of their ids. *)
LEMMA SortedFacts ==
    ASSUME NEW T, NEW S \in SUBSET T, NEW n \in Nat, \A x \in S : x.id \in 1..n
    PROVE  /\ Sorted(S) \in Seq(T) /\ Len(Sorted(S)) \in Nat
           /\ \A i \in 1..Len(Sorted(S)) : Sorted(S)[i] \in S
           /\ \A i, j \in 1..Len(Sorted(S)) : i < j => Sorted(S)[i].id < Sorted(S)[j].id
           /\ \A x \in S : \E i \in 1..Len(Sorted(S)) : Sorted(S)[i].id = x.id
<1> DEFINE at == Ascending(Ids(S))
           m == Len(at)
<1>1. Ids(S) \in SUBSET Nat /\ IsFiniteSet(Ids(S))
  <2>1. Ids(S) \in SUBSET (1..n)
    BY DEF Ids
  <2>2. IsFiniteSet(1..n)
    BY FS_Interval
  <2> QED
    BY <2>1, <2>2, FS_Subset
<1>2. at \in Seq(Nat) /\ ToSet(at) = Ids(S) /\ Increasing(at)
  BY <1>1, AscendingFacts
<1>3. Sorted(S) = [i \in DOMAIN at |-> CHOOSE x \in S : x.id = at[i]]
  BY DEF Sorted
<1> HIDE DEF at
<1>4. m \in Nat /\ DOMAIN at = 1..m /\ (\A i \in 1..m : at[i] \in Ids(S)) /\ (\A x \in Ids(S) : \E i \in 1..m : x = at[i])
  BY <1>2, ToSetDef
<1>5. \A i, j \in 1..m : i < j => at[i] < at[j]
  BY <1>2, IncreasingDef
<1> HIDE DEF m
<1>6. ASSUME NEW i \in 1..m PROVE Sorted(S)[i] \in S /\ Sorted(S)[i].id = at[i]
  <2>1. \E x \in S : x.id = at[i]
    BY <1>4 DEF Ids
  <2>2. Sorted(S)[i] = CHOOSE x \in S : x.id = at[i]
    BY <1>3, <1>4
  <2> QED
    BY <2>1, <2>2
<1>7. Sorted(S) = [i \in 1..m |-> Sorted(S)[i]]
  BY <1>3, <1>4
<1>8. \A i \in 1..m : Sorted(S)[i] \in T
  BY <1>6
<1> DEFINE q == Sorted(S)
<1> HIDE DEF q
<1>9. q \in [1..m -> T]
  BY <1>7, <1>8 DEF q
<1>10. q \in Seq(T) /\ Len(q) = m
  BY <1>4, <1>9
<1>11. \A x \in S : \E i \in 1..m : Sorted(S)[i].id = x.id
  BY <1>4, <1>6 DEF Ids
<1> QED
  BY <1>4, <1>5, <1>6, <1>10, <1>11 DEF q
===============================================================================
