----------------------------- MODULE Proxy_proofs -----------------------------
(***************************************************************************)
(* Proofs about Proxy, for any number of clients, sessions, credentials    *)
(* and requests, and with no bound on buffers and events.                  *)
(***************************************************************************)
EXTENDS Proxy, OrderedSequences_proofs

Standalone(s) == <<s, "get">>

(* What a StreamBuffer, and a request in progress, are made of. *)
BufferRecords == [s : Streams, cred : Credentials, window : Seq(Nat),
                  open : BOOLEAN, done : BOOLEAN, shared : BOOLEAN]
Asking  == [k : {"ask", "replay"}, sess : Sessions, cred : Credentials, last : Nat, got : {<<>>}, live : Nat]
Serving == [k : {"live", "over"}, sess : Sessions, cred : Credentials, last : Nat, got : Seq(Nat),
            b : Nat, cursor : Nat, upto : Nat]
Scoped  == [k : {"look", "collect", "owned", "over"}, sess : Sessions, cred : Credentials, last : Nat,
            got : Seq(Nat), b : {0}]

(* The store, the buffers and the registry. *)
Registry ==
    /\ log \in Seq(Streams)
    /\ bufs \in Seq(BufferRecords)
    /\ buffers \in [Streams -> 0..Len(bufs)]
    /\ \A s \in Streams : buffers[s] # 0 => bufs[buffers[s]].s = s
    /\ \A i \in DOMAIN bufs : bufs[i].s[2] = "get" /\ bufs[i].open => buffers[bufs[i].s] = i

Requesting == conn \in [Clients -> {Away} \cup Asking \cup Serving \cup Scoped]

(* A buffer was opened with the credential of its session, and its window  *)
(* holds events of its stream in their order.                              *)
BufferSound(i) ==
    /\ bufs[i].cred \in Accepts[bufs[i].s[1]]
    /\ Increasing(bufs[i].window)
    /\ \A id \in ToSet(bufs[i].window) : id \in DOMAIN log /\ log[id] = bufs[i].s

(* What a client was sent is in order and of the session it named.         *)
SentSound(c) ==
    /\ Increasing(conn[c].got)
    /\ \A id \in ToSet(conn[c].got) : id \in DOMAIN log /\ log[id][1] = conn[c].sess

(* A request in progress is served only on the session it named and with a *)
(* credential accepted there, from its buffers, and what it has to read    *)
(* lies above all it was sent.                                             *)
AskingSound(c) ==
    /\ front = "proxy"
    /\ conn[c].k = "ask" => conn[c].live \in {0} \cup DOMAIN bufs
    /\ conn[c].k = "replay" => conn[c].live \in DOMAIN bufs /\ conn[c].cred \in Accepts[conn[c].sess]
    /\ conn[c].live # 0 => bufs[conn[c].live].s = Standalone(conn[c].sess)
ServingSound(c) ==
    /\ front = "proxy" /\ conn[c].b \in DOMAIN bufs
    /\ conn[c].cred \in Accepts[conn[c].sess] /\ SentSound(c)
    /\ conn[c].cursor <= Len(log) /\ conn[c].upto <= Len(log)
    /\ bufs[conn[c].b].s[1] = conn[c].sess
    /\ conn[c].last # 0 => bufs[conn[c].b].s = Standalone(conn[c].sess)
    /\ \A id \in ToSet(conn[c].got) : id <= conn[c].cursor \/ id <= conn[c].upto
ScopedSound(c) ==
    /\ conn[c].cred \in Accepts[conn[c].sess] /\ SentSound(c)
    /\ conn[c].k # "over" => conn[c].got = <<>>
    /\ conn[c].k = "owned" => conn[c].last \in DOMAIN log /\ Owns(log[conn[c].last], conn[c].sess)
RequestSound(c) ==
    \/ conn[c] = Away
    \/ /\ conn[c].last <= Len(log)
       /\ \/ conn[c] \in Asking /\ AskingSound(c)
          \/ conn[c] \in Serving /\ ServingSound(c)
          \/ conn[c] \in Scoped /\ ScopedSound(c)

Sound ==
    /\ Registry /\ Requesting
    /\ \A i \in DOMAIN bufs : BufferSound(i)
    /\ \A c \in Clients : RequestSound(c)

-------------------------------------------------------------------------------
(* The store and the list of buffers, as sequences. *)

LEMMA SeqFacts ==
    ASSUME Registry
    PROVE  /\ Len(log) \in Nat /\ DOMAIN log = 1..Len(log)
           /\ Len(bufs) \in Nat /\ DOMAIN bufs = 1..Len(bufs)
           /\ \A id \in DOMAIN log : log[id] \in Streams
           /\ \A i \in DOMAIN bufs : bufs[i] \in BufferRecords
<1>1. log \in Seq(Streams) /\ bufs \in Seq(BufferRecords)
  BY DEF Registry
<1> QED
  BY <1>1, LenProperties, ElementOfSeq

(* Nothing that is stored or opened is taken away. *)
Extended ==
    /\ front' = front
    /\ Len(log) <= Len(log')
    /\ \A id \in DOMAIN log : id \in DOMAIN log' /\ log'[id] = log[id]
    /\ \A i \in DOMAIN bufs : i \in DOMAIN bufs' /\ bufs'[i].s = bufs[i].s

(* A request nothing happens to stays sound. *)
LEMMA RequestKeeps ==
    ASSUME Sound, Extended, Len(log') \in Nat, NEW c \in Clients, conn'[c] = conn[c]
    PROVE  RequestSound(c)'
<1>1. Len(log) \in Nat /\ RequestSound(c)
  BY SeqFacts DEF Sound
<1>2. SentSound(c) => SentSound(c)'
  BY DEF SentSound, Extended
<1>3. conn[c] \in Asking /\ AskingSound(c) => AskingSound(c)'
  BY DEF AskingSound, Extended, Asking
<1>4. conn[c] \in Serving /\ ServingSound(c) => ServingSound(c)'
  BY <1>1, <1>2 DEF ServingSound, Extended, Serving
<1>5. conn[c] \in Scoped /\ ScopedSound(c) => ScopedSound(c)'
  BY <1>2 DEF ScopedSound, Extended
<1>6. conn[c] # Away => conn[c].last \in Nat
  BY DEF Sound, Requesting, Asking, Serving, Scoped
<1>7. conn[c] # Away /\ conn[c].last <= Len(log) => conn[c].last <= Len(log')
  BY <1>1, <1>6 DEF Extended
<1> QED
  BY <1>1, <1>3, <1>4, <1>5, <1>7 DEF RequestSound

(* A buffer whose window nothing enters stays sound. *)
LEMMA BufferKeeps ==
    ASSUME Sound, Extended, NEW i \in DOMAIN bufs,
           bufs'[i].cred = bufs[i].cred, bufs'[i].window = bufs[i].window
    PROVE  BufferSound(i)'
BY DEF Sound, BufferSound, Extended

(* A step of one client's request, which leaves the store alone. *)
LEMMA RequestStep ==
    ASSUME Sound, Extended, NEW c \in Clients, NEW o \in {Away} \cup Asking \cup Serving \cup Scoped,
           Go(c, o), Len(log') \in Nat
    PROVE  /\ Requesting'
           /\ conn'[c] = o
           /\ \A d \in Clients : d # c => RequestSound(d)'
<1>1. conn \in [Clients -> {Away} \cup Asking \cup Serving \cup Scoped]
  BY DEF Sound, Requesting
<1>2. Requesting' /\ conn'[c] = o
  BY <1>1 DEF Go, Requesting
<1>3. ASSUME NEW d \in Clients, d # c PROVE RequestSound(d)'
  <2>1. conn'[d] = conn[d]
    BY <1>1, <1>3 DEF Go
  <2> QED
    BY <2>1, RequestKeeps
<1> QED
  BY <1>2, <1>3

(* A step that changes neither the store nor a buffer. *)
LEMMA NothingStored ==
    ASSUME Sound, UNCHANGED <<front, log, bufs, buffers>>
    PROVE  /\ Registry' /\ Extended /\ Len(log') \in Nat
           /\ \A i \in DOMAIN bufs' : BufferSound(i)'
<1>1. Registry'
  BY DEF Sound, Registry
<1>2. Extended /\ Len(log') \in Nat
  BY SeqFacts DEF Sound, Extended
<1>3. \A i \in DOMAIN bufs' : BufferSound(i)'
  BY DEF Sound, BufferSound
<1> QED
  BY <1>1, <1>2, <1>3

(* A new buffer, of a stream that has no open one at the upstream or may   *)
(* have several.                                                           *)
LEMMA OpensSound ==
    ASSUME Sound, NEW sess \in Sessions, NEW method \in {"get", "post"}, NEW cred \in Accepts[sess],
           method = "get" => ~ Busy(sess),
           Opens(<<sess, method>>, cred), UNCHANGED <<front, log>>
    PROVE  /\ Registry' /\ Extended /\ Len(log') \in Nat
           /\ \A i \in DOMAIN bufs' : BufferSound(i)'
           /\ Len(bufs) + 1 \in DOMAIN bufs' /\ bufs'[Len(bufs) + 1].s = <<sess, method>>
           /\ \A i \in DOMAIN bufs : bufs'[i] = bufs[i]
           /\ ~ bufs'[Len(bufs) + 1].done /\ ~ bufs'[Len(bufs) + 1].shared
           /\ bufs'[Len(bufs) + 1].window = <<>>
<1> DEFINE s == <<sess, method>>
           b == [s |-> s, cred |-> cred, window |-> <<>>, open |-> TRUE, done |-> FALSE,
                 shared |-> FALSE]
<1>1. /\ log \in Seq(Streams) /\ bufs \in Seq(BufferRecords) /\ buffers \in [Streams -> 0..Len(bufs)]
      /\ Len(log) \in Nat /\ Len(bufs) \in Nat /\ DOMAIN bufs = 1..Len(bufs)
      /\ \A i \in DOMAIN bufs : bufs[i] \in BufferRecords
  BY SeqFacts DEF Sound, Registry
<1>2. s \in Streams /\ s[1] = sess /\ s[2] = method
  BY DEF Streams
<1>3. b \in BufferRecords
  <2>1. cred \in Credentials
    BY ProxyAssumption
  <2> QED
    BY <1>2, <2>1 DEF BufferRecords
<1>4. /\ bufs' = Append(bufs, b) /\ buffers' = [buffers EXCEPT ![s] = Len(bufs) + 1]
  BY DEF Opens
<1> HIDE DEF b
<1>5. /\ bufs' \in Seq(BufferRecords) /\ Len(bufs') = Len(bufs) + 1
      /\ \A i \in DOMAIN bufs : bufs'[i] = bufs[i]
      /\ bufs'[Len(bufs) + 1] = b
      /\ DOMAIN bufs' = 1..(Len(bufs) + 1)
  BY <1>1, <1>3, <1>4, AppendProperties
<1>6. Extended /\ Len(log') \in Nat
  BY <1>1, <1>5 DEF Extended
<1>7. \A i \in DOMAIN bufs' : i = Len(bufs) + 1 \/ i \in DOMAIN bufs
  BY <1>1, <1>5
<1>8. Registry'
  <2>1. buffers' \in [Streams -> 0..Len(bufs')]
    BY <1>1, <1>2, <1>4, <1>5
  <2>2. ASSUME NEW t \in Streams, buffers'[t] # 0 PROVE bufs'[buffers'[t]].s = t
    <3>1. CASE t = s
      BY <1>1, <1>2, <1>4, <1>5, <3>1 DEF b
    <3>2. CASE t # s
      BY <1>1, <1>2, <1>4, <1>5, <2>2, <3>2 DEF Sound, Registry
    <3> QED
      BY <3>1, <3>2
  <2>3. ASSUME NEW i \in DOMAIN bufs', bufs'[i].s[2] = "get", bufs'[i].open
        PROVE  buffers'[bufs'[i].s] = i
    <3>1. CASE i = Len(bufs) + 1
      BY <1>1, <1>2, <1>4, <1>5, <3>1 DEF b
    <3>2. CASE i \in DOMAIN bufs
      <4>1. bufs'[i] = bufs[i] /\ bufs[i].s \in Streams
        BY <1>1, <1>5, <3>2 DEF BufferRecords
      <4>2. bufs[i].s # s
        BY <1>2, <2>3, <3>2, <4>1 DEF Busy
      <4>3. buffers'[bufs[i].s] = buffers[bufs[i].s]
        BY <1>1, <1>4, <4>1, <4>2
      <4> QED
        BY <2>3, <3>2, <4>1, <4>3 DEF Sound, Registry
    <3> QED
      BY <1>7, <3>1, <3>2
  <2>4. log' \in Seq(Streams)
    BY <1>1
  <2> QED
    BY <1>5, <2>1, <2>2, <2>3, <2>4 DEF Registry
<1>9. ASSUME NEW i \in DOMAIN bufs' PROVE BufferSound(i)'
  <2>1. CASE i \in DOMAIN bufs
    BY <1>5, <1>6, <2>1, BufferKeeps
  <2>2. CASE i = Len(bufs) + 1
    <3>1. bufs'[i] = b /\ b.cred \in Accepts[b.s[1]] /\ b.window = <<>>
      BY <1>2, <1>5, <2>2 DEF b
    <3> QED
      BY <3>1, EmptyFacts DEF BufferSound
  <2> QED
    BY <1>7, <2>1, <2>2
<1> QED
  BY <1>5, <1>6, <1>8, <1>9 DEF b

-------------------------------------------------------------------------------
(* The upstream and the buffers. *)

(* The registry stays right when buffers keep their streams and open none. *)
LEMMA RegistryKeeps ==
    ASSUME Sound, log' \in Seq(Streams), bufs' \in Seq(BufferRecords), UNCHANGED buffers,
           Len(bufs') = Len(bufs), DOMAIN bufs' = DOMAIN bufs,
           \A i \in DOMAIN bufs : bufs'[i].s = bufs[i].s /\ (bufs'[i].open => bufs[i].open)
    PROVE  Registry'
<1>1. Len(bufs) \in Nat /\ DOMAIN bufs = 1..Len(bufs) /\ buffers \in [Streams -> 0..Len(bufs)]
  BY SeqFacts DEF Sound, Registry
<1>2. ASSUME NEW s \in Streams, buffers[s] # 0 PROVE bufs'[buffers[s]].s = s
  <2>1. buffers[s] \in DOMAIN bufs
    BY <1>1, <1>2
  <2>2. bufs[buffers[s]].s = s
    BY <1>2 DEF Sound, Registry
  <2> QED
    BY <2>1, <2>2
<1>3. ASSUME NEW i \in DOMAIN bufs', bufs'[i].s[2] = "get", bufs'[i].open PROVE buffers[bufs'[i].s] = i
  <2>1. i \in DOMAIN bufs /\ bufs[i].s[2] = "get" /\ bufs[i].open
    BY <1>3
  <2>2. buffers[bufs[i].s] = i
    BY <2>1 DEF Sound, Registry
  <2> QED
    BY <2>1, <2>2
<1> QED
  BY <1>1, <1>2, <1>3 DEF Registry

(* A step of the streams leaves every request sound. *)
LEMMA StreamStep ==
    ASSUME Sound, Registry', Extended, Len(log') \in Nat, UNCHANGED conn,
           \A i \in DOMAIN bufs' : BufferSound(i)'
    PROVE  Sound'
<1>1. Requesting'
  BY DEF Sound, Requesting
<1>2. \A c \in Clients : RequestSound(c)'
  BY RequestKeeps
<1> QED
  BY <1>1, <1>2 DEF Sound

(* What a frame changes: the store and one window grow by one event. *)
LEMMA FrameFacts ==
    ASSUME Sound, NEW i \in DOMAIN bufs, Frame(i)
    PROVE  /\ log' \in Seq(Streams) /\ Len(log') = Len(log) + 1 /\ Len(log) \in Nat
           /\ DOMAIN log = 1..Len(log) /\ DOMAIN log' = 1..(Len(log) + 1)
           /\ \A id \in DOMAIN log : log'[id] = log[id]
           /\ log'[Len(log) + 1] = bufs[i].s
           /\ bufs' \in Seq(BufferRecords) /\ Len(bufs') = Len(bufs) /\ DOMAIN bufs' = DOMAIN bufs
           /\ \A j \in DOMAIN bufs : /\ bufs'[j].s = bufs[j].s /\ bufs'[j].cred = bufs[j].cred
                                     /\ bufs'[j].open = bufs[j].open /\ bufs'[j].done = bufs[j].done
                                     /\ j # i => bufs'[j].window = bufs[j].window
                                     /\ j # i /\ bufs[j].s = bufs[i].s /\ ~ bufs[j].done => bufs'[j].shared
                                     /\ bufs[j].shared => bufs'[j].shared
           /\ bufs[i].window \in Seq(Nat)
           /\ bufs'[i].window = Append(bufs[i].window, Len(log) + 1)
<1>1. /\ log \in Seq(Streams) /\ bufs \in Seq(BufferRecords)
      /\ Len(log) \in Nat /\ Len(bufs) \in Nat
      /\ DOMAIN log = 1..Len(log) /\ DOMAIN bufs = 1..Len(bufs)
      /\ \A j \in DOMAIN bufs : bufs[j] \in BufferRecords
  BY SeqFacts DEF Sound, Registry
<1>2. /\ log' = Append(log, bufs[i].s)
      /\ bufs' = [j \in DOMAIN bufs |->
                  IF j = i THEN [bufs[i] EXCEPT !.window = Append(@, Len(log) + 1)]
                  ELSE IF bufs[j].s = bufs[i].s /\ ~ bufs[j].done THEN [bufs[j] EXCEPT !.shared = TRUE]
                  ELSE bufs[j]]
  BY DEF Frame
<1>3. bufs[i].s \in Streams /\ bufs[i].window \in Seq(Nat)
  BY <1>1 DEF BufferRecords
<1>4. /\ log' \in Seq(Streams) /\ Len(log') = Len(log) + 1
      /\ \A id \in DOMAIN log : log'[id] = log[id]
      /\ log'[Len(log) + 1] = bufs[i].s
      /\ DOMAIN log' = 1..(Len(log) + 1)
  BY <1>1, <1>2, <1>3, AppendProperties
<1>5. bufs'[i] = [bufs[i] EXCEPT !.window = Append(@, Len(log) + 1)] /\ DOMAIN bufs' = DOMAIN bufs
  BY <1>2
<1>6. ASSUME NEW j \in DOMAIN bufs, j # i
      PROVE  bufs'[j] = IF bufs[j].s = bufs[i].s /\ ~ bufs[j].done THEN [bufs[j] EXCEPT !.shared = TRUE]
                        ELSE bufs[j]
  BY <1>2, <1>6
<1>7. Append(bufs[i].window, Len(log) + 1) \in Seq(Nat)
  BY <1>1, <1>3, AppendProperties
<1>8. ASSUME NEW j \in DOMAIN bufs
      PROVE  /\ bufs'[j] \in BufferRecords
             /\ bufs'[j].s = bufs[j].s /\ bufs'[j].cred = bufs[j].cred
             /\ bufs'[j].open = bufs[j].open /\ bufs'[j].done = bufs[j].done
             /\ j # i => bufs'[j].window = bufs[j].window
             /\ j # i /\ bufs[j].s = bufs[i].s /\ ~ bufs[j].done => bufs'[j].shared
             /\ bufs[j].shared => bufs'[j].shared
  <2>1. CASE j = i
    BY <1>1, <1>5, <1>7, <2>1 DEF BufferRecords
  <2>2. CASE j # i
    BY <1>1, <1>6, <2>2 DEF BufferRecords
  <2> QED
    BY <2>1, <2>2
<1>9. bufs'[i].window = Append(bufs[i].window, Len(log) + 1)
  BY <1>1, <1>5 DEF BufferRecords
<1>10. bufs' \in Seq(BufferRecords) /\ Len(bufs') = Len(bufs)
  <2>1. bufs' \in [1..Len(bufs) -> BufferRecords]
    BY <1>1, <1>2, <1>8
  <2> QED
    BY <1>1, <2>1
<1> QED
  BY <1>1, <1>3, <1>4, <1>5, <1>8, <1>9, <1>10

LEMMA FrameSound ==
    ASSUME Sound, UNCHANGED front, NEW i \in DOMAIN bufs, Frame(i)
    PROVE  Sound'
<1>1. Extended /\ Len(log') \in Nat
  BY FrameFacts DEF Extended
<1>2. Registry'
  BY FrameFacts, RegistryKeeps DEF Frame
<1>3. ASSUME NEW j \in DOMAIN bufs' PROVE BufferSound(j)'
  <2>1. j \in DOMAIN bufs
    BY FrameFacts
  <2>2. CASE j # i
    BY <1>1, <2>1, <2>2, FrameFacts, BufferKeeps
  <2>3. CASE j = i
    <3> DEFINE w == bufs[i].window
    <3>1. w \in Seq(Nat) /\ bufs'[j].window = Append(w, Len(log) + 1) /\ Len(log) + 1 \in Nat
      BY <2>3, FrameFacts
    <3>2. /\ bufs[i].cred \in Accepts[bufs[i].s[1]] /\ Increasing(w)
          /\ \A id \in ToSet(w) : id \in DOMAIN log /\ log[id] = bufs[i].s
      BY DEF Sound, BufferSound
    <3>3. /\ bufs'[j].s = bufs[i].s /\ bufs'[j].cred = bufs[i].cred
          /\ \A id \in DOMAIN log : id \in DOMAIN log' /\ log'[id] = log[id] /\ id < Len(log) + 1
          /\ Len(log) + 1 \in DOMAIN log' /\ log'[Len(log) + 1] = bufs[i].s
      BY <2>3, FrameFacts
    <3> HIDE DEF w
    <3>4. /\ ToSet(bufs'[j].window) = ToSet(w) \cup {Len(log) + 1}
          /\ Increasing(bufs'[j].window)
      BY <3>1, <3>2, <3>3, AppendFacts
    <3> QED
      BY <3>2, <3>3, <3>4 DEF BufferSound
  <2> QED
    BY <2>2, <2>3
<1>4. UNCHANGED conn
  BY DEF Frame
<1> QED
  BY <1>1, <1>2, <1>3, <1>4, StreamStep

(* Buffers end, alone or all together: their windows stay.                 *)
LEMMA EndsFacts ==
    ASSUME Sound,
           \/ \E i \in DOMAIN bufs : UpstreamEnds(i) \/ BufferEnds(i)
           \/ CloseAll
    PROVE  /\ DOMAIN bufs' = DOMAIN bufs /\ Len(bufs') = Len(bufs) /\ bufs' \in Seq(BufferRecords)
           /\ \A j \in DOMAIN bufs : /\ bufs'[j].s = bufs[j].s /\ bufs'[j].cred = bufs[j].cred
                                     /\ bufs'[j].window = bufs[j].window /\ bufs'[j].shared = bufs[j].shared
                                     /\ bufs'[j].open => bufs[j].open
                                     /\ bufs[j].done => bufs'[j].done
           /\ UNCHANGED <<log, conn>>
<1>1. /\ bufs \in Seq(BufferRecords) /\ Len(bufs) \in Nat /\ DOMAIN bufs = 1..Len(bufs)
      /\ \A j \in DOMAIN bufs : bufs[j] \in BufferRecords
  BY SeqFacts DEF Sound, Registry
<1>2. ASSUME DOMAIN bufs' = DOMAIN bufs, bufs' = [j \in DOMAIN bufs |-> bufs'[j]],
             \A j \in DOMAIN bufs : bufs'[j] \in BufferRecords
      PROVE  bufs' \in Seq(BufferRecords) /\ Len(bufs') = Len(bufs)
  <2>1. bufs' \in [1..Len(bufs) -> BufferRecords]
    BY <1>1, <1>2
  <2> QED
    BY <1>1, <2>1
<1>3. CASE \E i \in DOMAIN bufs : UpstreamEnds(i)
  <2>1. PICK i \in DOMAIN bufs : UpstreamEnds(i)
    BY <1>3
  <2>2. bufs' = [bufs EXCEPT ![i].open = FALSE] /\ UNCHANGED <<log, conn>>
    BY <2>1 DEF UpstreamEnds
  <2> QED
    BY <1>1, <1>2, <2>2 DEF BufferRecords
<1>4. CASE \E i \in DOMAIN bufs : BufferEnds(i)
  <2>1. PICK i \in DOMAIN bufs : BufferEnds(i)
    BY <1>4
  <2>2. bufs' = [bufs EXCEPT ![i].done = TRUE] /\ UNCHANGED <<log, conn>>
    BY <2>1 DEF BufferEnds
  <2> QED
    BY <1>1, <1>2, <2>2 DEF BufferRecords
<1>5. CASE CloseAll
  <2>1. /\ bufs' = [i \in DOMAIN bufs |-> IF \E s \in Streams : buffers[s] = i
                                      THEN [bufs[i] EXCEPT !.open = FALSE, !.done = TRUE] ELSE bufs[i]]
        /\ UNCHANGED <<log, conn>>
    BY <1>5 DEF CloseAll
  <2>2. ASSUME NEW j \in DOMAIN bufs
        PROVE  bufs'[j] \in {bufs[j], [bufs[j] EXCEPT !.open = FALSE, !.done = TRUE]}
    BY <2>1
  <2>3. DOMAIN bufs' = DOMAIN bufs /\ bufs' = [j \in DOMAIN bufs |-> bufs'[j]]
    BY <2>1
  <2> QED
    <3>1. ASSUME NEW j \in DOMAIN bufs
          PROVE  /\ bufs'[j] \in BufferRecords
                 /\ bufs'[j].s = bufs[j].s /\ bufs'[j].cred = bufs[j].cred
                 /\ bufs'[j].window = bufs[j].window /\ bufs'[j].shared = bufs[j].shared
                 /\ bufs'[j].open => bufs[j].open
                 /\ bufs[j].done => bufs'[j].done
      BY <1>1, <2>2, ZenonT(30) DEF BufferRecords
    <3> QED
      BY <1>2, <2>1, <2>3, <3>1
<1> QED
  BY <1>3, <1>4, <1>5

LEMMA EndsSound ==
    ASSUME Sound, UNCHANGED front,
           \/ \E i \in DOMAIN bufs : UpstreamEnds(i) \/ BufferEnds(i)
           \/ CloseAll
    PROVE  Sound'
<1>1. Extended /\ Len(log') \in Nat
  BY SeqFacts, EndsFacts DEF Sound, Extended
<1>2. \A j \in DOMAIN bufs' : BufferSound(j)'
  BY <1>1, EndsFacts, BufferKeeps
<1>3. Registry'
  <2>1. CASE UNCHANGED buffers
    <3>1. log' \in Seq(Streams)
      BY EndsFacts DEF Sound, Registry
    <3> QED
      BY <2>1, <3>1, EndsFacts, RegistryKeeps
  <2>2. CASE CloseAll
    <3>1. /\ buffers' = [s \in Streams |-> 0]
          /\ bufs' = [i \in DOMAIN bufs |-> IF \E s \in Streams : buffers[s] = i
                                      THEN [bufs[i] EXCEPT !.open = FALSE, !.done = TRUE] ELSE bufs[i]]
      BY <2>2 DEF CloseAll
    <3>2. ASSUME NEW i \in DOMAIN bufs', bufs'[i].s[2] = "get", bufs'[i].open PROVE FALSE
      <4>1. i \in DOMAIN bufs /\ bufs[i].open /\ bufs[i].s[2] = "get" /\ bufs[i] \in BufferRecords
        BY <3>2, EndsFacts, SeqFacts DEF Sound
      <4>2. buffers[bufs[i].s] = i /\ bufs[i].s \in Streams
        BY <4>1 DEF Sound, Registry, BufferRecords
      <4>3. bufs'[i] = [bufs[i] EXCEPT !.open = FALSE, !.done = TRUE]
        BY <3>1, <4>1, <4>2
      <4> QED
        BY <3>2, <4>1, <4>3 DEF BufferRecords
    <3>3. Len(bufs') \in Nat
      BY EndsFacts, SeqFacts DEF Sound
    <3>4. buffers' \in [Streams -> 0..Len(bufs')] /\ \A s \in Streams : buffers'[s] = 0
      <4>1. 0 \in 0..Len(bufs')
        BY <3>3
      <4> QED
        BY <3>1, <4>1
    <3> QED
      BY <3>2, <3>4, EndsFacts DEF Sound, Registry
  <2> QED
    BY <2>1, <2>2 DEF UpstreamEnds, BufferEnds
<1> QED
  BY <1>1, <1>2, <1>3, EndsFacts, StreamStep

-------------------------------------------------------------------------------
(* What a replay, and a read of a window, send. *)

LEMMA ReplayFacts ==
    ASSUME Registry, NEW last \in Nat, NEW streams
    PROVE  /\ ReplayOf(last, streams) \in Seq(Nat) /\ Increasing(ReplayOf(last, streams))
           /\ ToSet(ReplayOf(last, streams)) =
                 IF last \in DOMAIN log /\ log[last] \in streams
                 THEN {i \in DOMAIN log : i > last /\ log[i] = log[last]} ELSE {}
           /\ ReplayOf(last, streams) = <<>> <=> ToSet(ReplayOf(last, streams)) = {}
<1> DEFINE S == {i \in DOMAIN log : i > last /\ log[i] = log[last]}
<1>1. S \in SUBSET Nat /\ IsFiniteSet(S)
  <2>1. DOMAIN log = 1..Len(log) /\ Len(log) \in Nat
    BY SeqFacts
  <2>2. IsFiniteSet(DOMAIN log)
    BY <2>1, FS_Interval
  <2>3. S \in SUBSET DOMAIN log /\ DOMAIN log \in SUBSET Nat
    BY <2>1
  <2> HIDE DEF S
  <2> QED
    BY <2>2, <2>3, FS_Subset
<1>2. CASE last \in DOMAIN log /\ log[last] \in streams
  <2>1. ReplayOf(last, streams) = Ascending(S)
    BY <1>2 DEF ReplayOf
  <2> HIDE DEF S
  <2>2. /\ ReplayOf(last, streams) \in Seq(Nat) /\ Increasing(ReplayOf(last, streams))
        /\ ToSet(ReplayOf(last, streams)) = S
        /\ ReplayOf(last, streams) = <<>> <=> ToSet(ReplayOf(last, streams)) = {}
    BY <1>1, <2>1, AscendingFacts
  <2> QED
    BY <1>2, <2>2 DEF S
<1>3. CASE ~ (last \in DOMAIN log /\ log[last] \in streams)
  <2>1. ReplayOf(last, streams) = <<>>
    BY <1>3 DEF ReplayOf
  <2> QED
    BY <1>3, <2>1, EmptyFacts
<1> QED
  BY <1>2, <1>3

LEMMA AboveFacts ==
    ASSUME NEW q \in Seq(Nat), NEW id \in Nat
    PROVE  /\ Above(q, id) \in Seq(Nat)
           /\ ToSet(Above(q, id)) = {x \in ToSet(q) : x > id}
           /\ Increasing(q) => Increasing(Above(q, id))
           /\ Above(q, id) = <<>> <=> ToSet(Above(q, id)) = {}
<1> DEFINE I == {n \in DOMAIN q : q[n] > id}
<1>1. I \in SUBSET DOMAIN q /\ Above(q, id) = Picked(q, I)
  BY DEF Above
<1>2. {x \in ToSet(q) : x > id} = {q[n] : n \in I}
  BY ToSetDef
<1>3. I = {} <=> {q[n] : n \in I} = {}
  OBVIOUS
<1> HIDE DEF I
<1>4. /\ Picked(q, I) \in Seq(Nat)
      /\ ToSet(Picked(q, I)) = {q[n] : n \in I}
      /\ Increasing(q) => Increasing(Picked(q, I))
      /\ Picked(q, I) = <<>> <=> I = {}
  BY <1>1, PickedFacts
<1> QED
  BY <1>1, <1>2, <1>3, <1>4

(* One more batch of events is sent to a client. *)
LEMMA SendsFacts ==
    ASSUME NEW got \in Seq(Nat), NEW more \in Seq(Nat), Increasing(got), Increasing(more),
           \A x \in ToSet(got), y \in ToSet(more) : x < y
    PROVE  /\ got \o more \in Seq(Nat) /\ Increasing(got \o more)
           /\ ToSet(got \o more) = ToSet(got) \cup ToSet(more)
BY ConcatDef, ToSetConcat, IncreasingConcat

LEMMA LastOfFacts ==
    ASSUME NEW q \in Seq(Nat), Increasing(q)
    PROVE  /\ LastOf(q, 0) \in Nat
           /\ q # <<>> => LastOf(q, 0) \in ToSet(q)
           /\ \A x \in ToSet(q) : x <= LastOf(q, 0)
<1>1. CASE q = <<>>
  BY <1>1, EmptyFacts DEF LastOf
<1>2. CASE q # <<>>
  BY <1>2, LastFacts DEF LastOf
<1> QED
  BY <1>1, <1>2

-------------------------------------------------------------------------------
(* Requests. *)

(* A client goes away. *)
LEMMA AwaySound ==
    ASSUME Sound, NEW c \in Clients, Go(c, Away), UNCHANGED <<front, log, bufs, buffers>>
    PROVE  Sound'
<1>1. /\ Registry' /\ Extended /\ Len(log') \in Nat
      /\ \A i \in DOMAIN bufs' : BufferSound(i)'
  BY NothingStored
<1>2. Requesting' /\ conn'[c] = Away /\ \A d \in Clients : d # c => RequestSound(d)'
  BY <1>1, RequestStep
<1>3. RequestSound(c)'
  BY <1>2 DEF RequestSound
<1> QED
  BY <1>1, <1>2, <1>3 DEF Sound

(* A request that starts to read a buffer. *)
LEMMA AttachedSound ==
    ASSUME Sound, Extended, Registry', Len(log') \in Nat, UNCHANGED log,
           \A i \in DOMAIN bufs' : BufferSound(i)',
           NEW c \in Clients, NEW o, NEW b \in DOMAIN bufs',
           NEW after \in Nat, NEW upto \in Nat, after <= Len(log), upto <= Len(log),
           Go(c, Attached(o, b, after, upto)), front = "proxy",
           o.sess \in Sessions, o.cred \in Accepts[o.sess], o.last \in Nat, o.last <= Len(log),
           o.got \in Seq(Nat), Increasing(o.got),
           \A id \in ToSet(o.got) : id \in DOMAIN log /\ log[id][1] = o.sess /\ id <= upto,
           bufs'[b].s[1] = o.sess, o.last # 0 => bufs'[b].s = Standalone(o.sess)
    PROVE  Sound'
<1> DEFINE a == Attached(o, b, after, upto)
<1>1. a \in Serving
  <2>1. o.cred \in Credentials
    BY ProxyAssumption
  <2>2. b \in Nat
    <3>1. DOMAIN bufs' = 1..Len(bufs')
      BY LenProperties DEF Registry
    <3> QED
      BY <3>1
  <2> QED
    BY <2>1, <2>2 DEF Serving, Attached
<1>2. /\ a.sess = o.sess /\ a.cred = o.cred /\ a.last = o.last /\ a.got = o.got
      /\ a.b = b /\ a.cursor = after /\ a.upto = upto
  BY DEF Attached
<1>3. Go(c, a)
  OBVIOUS
<1> HIDE DEF a
<1>4. Requesting' /\ conn'[c] = a /\ \A d \in Clients : d # c => RequestSound(d)'
  BY <1>1, <1>3, RequestStep
<1>5. RequestSound(c)'
  <2>1. SentSound(c)'
    BY <1>2, <1>4 DEF SentSound
  <2>2. ServingSound(c)'
    BY <1>2, <1>4, <2>1 DEF ServingSound, Extended
  <2> QED
    BY <1>1, <1>2, <1>4, <2>2 DEF RequestSound
<1> QED
  BY <1>4, <1>5 DEF Sound

(* The same, for a client that was sent nothing yet. *)
LEMMA AttachedFirst ==
    ASSUME Sound, Extended, Registry', Len(log') \in Nat, UNCHANGED log,
           \A i \in DOMAIN bufs' : BufferSound(i)',
           NEW c \in Clients, NEW o, NEW b \in DOMAIN bufs', NEW after \in Nat, after <= Len(log),
           Go(c, Attached(o, b, after, 0)), front = "proxy",
           o.sess \in Sessions, o.cred \in Accepts[o.sess], o.last \in Nat, o.last <= Len(log), o.got = <<>>,
           bufs'[b].s[1] = o.sess, o.last # 0 => bufs'[b].s = Standalone(o.sess)
    PROVE  Sound'
<1>1. o.got \in Seq(Nat) /\ Increasing(o.got)
  BY EmptyFacts
<1>2. \A id \in ToSet(o.got) : FALSE
  BY EmptyFacts
<1>3. 0 \in Nat /\ 0 <= Len(log)
  BY SeqFacts DEF Sound
<1> QED
  BY <1>1, <1>2, <1>3, AttachedSound

LEMMA PostSound ==
    ASSUME Sound, UNCHANGED front, NEW c \in Clients, NEW sess \in Sessions, NEW cred \in Credentials,
           Post(c, sess, cred)
    PROVE  Sound'
<1> DEFINE o == [sess |-> sess, cred |-> cred, last |-> 0, got |-> <<>>]
<1>1. CASE cred \in Accepts[sess]
  <2>1. /\ Opens(<<sess, "post">>, cred) /\ UNCHANGED log /\ front = "proxy"
        /\ Go(c, Attached(o, Len(bufs) + 1, 0, 0))
    BY <1>1 DEF Post
  <2>2. /\ Registry' /\ Extended /\ Len(log') \in Nat
        /\ \A i \in DOMAIN bufs' : BufferSound(i)'
        /\ Len(bufs) + 1 \in DOMAIN bufs' /\ bufs'[Len(bufs) + 1].s = <<sess, "post">>
    BY <1>1, <2>1, OpensSound
  <2>3. Len(log) \in Nat
    BY <2>1, <2>2
  <2>4. /\ o.sess = sess /\ o.cred \in Accepts[sess] /\ o.last = 0 /\ o.got = <<>>
    BY <1>1
  <2> HIDE DEF o
  <2> QED
    BY <2>1, <2>2, <2>3, <2>4, AttachedFirst
<1>2. CASE cred \notin Accepts[sess]
  <2>1. UNCHANGED <<log, bufs, buffers, conn>>
    BY <1>2 DEF Post
  <2>2. UNCHANGED <<front, log, bufs, buffers>>
    BY <2>1
  <2> QED
    BY <2>1, <2>2, NothingStored, StreamStep
<1> QED
  BY <1>1, <1>2

LEMMA GetSound ==
    ASSUME Sound, UNCHANGED front, NEW c \in Clients, NEW sess \in Sessions, NEW cred \in Credentials,
           NEW last \in 0..Len(log), Get(c, sess, cred, last)
    PROVE  Sound'
<1> DEFINE b == buffers[<<sess, "get">>]
           live == IF b # 0 /\ ~ bufs[b].done THEN b ELSE 0
           o == [k |-> "ask", sess |-> sess, cred |-> cred, last |-> last, got |-> <<>>, live |-> live]
<1>1. /\ front = "proxy" /\ Go(c, IF Shares(live, cred) THEN Attached(o, live, last, 0) ELSE o)
      /\ UNCHANGED <<front, log, bufs, buffers>>
  BY DEF Get
<1>2. /\ Registry' /\ Extended /\ Len(log') \in Nat
      /\ \A i \in DOMAIN bufs' : BufferSound(i)'
  BY <1>1, NothingStored
<1>3. /\ Len(log) \in Nat /\ Len(bufs) \in Nat /\ DOMAIN bufs = 1..Len(bufs) /\ last \in Nat /\ last <= Len(log)
  BY SeqFacts DEF Sound
<1>4. /\ live \in {0} \cup DOMAIN bufs
      /\ live # 0 => bufs[live].s = Standalone(sess)
  <2>1. <<sess, "get">> \in Streams
    BY DEF Streams
  <2>2. b \in 0..Len(bufs) /\ (b # 0 => bufs[b].s = <<sess, "get">>)
    BY <2>1 DEF Sound, Registry
  <2> HIDE DEF b
  <2> QED
    BY <1>3, <2>2 DEF Standalone
<1>5. /\ o.k = "ask" /\ o.sess = sess /\ o.cred = cred /\ o.last = last /\ o.got = <<>> /\ o.live = live
      /\ o \in Asking
  <2>1. live \in Nat
    BY <1>3, <1>4
  <2> HIDE DEF live
  <2> QED
    BY <1>3, <2>1 DEF Asking
<1> HIDE DEF live, o
<1>6. CASE Shares(live, cred)
  <2>1. live # 0 /\ bufs[live].cred = cred /\ Go(c, Attached(o, live, last, 0))
    BY <1>1, <1>6 DEF Shares
  <2>2. live \in DOMAIN bufs' /\ bufs'[live].s = Standalone(sess) /\ Standalone(sess)[1] = sess
    BY <1>1, <1>4, <2>1 DEF Standalone
  <2>3. cred \in Accepts[sess]
    BY <1>4, <2>1 DEF Sound, BufferSound, Standalone
  <2>4. UNCHANGED log
    BY <1>1
  <2> QED
    BY <1>1, <1>2, <1>3, <1>5, <2>1, <2>2, <2>3, <2>4, AttachedFirst
<1>7. CASE ~ Shares(live, cred)
  <2>1. Go(c, o)
    BY <1>1, <1>7
  <2>2. Requesting' /\ conn'[c] = o /\ \A d \in Clients : d # c => RequestSound(d)'
    BY <1>2, <1>5, <2>1, RequestStep
  <2>3. AskingSound(c)'
    BY <1>1, <1>4, <1>5, <2>2 DEF AskingSound
  <2>4. RequestSound(c)'
    BY <1>1, <1>3, <1>5, <2>2, <2>3 DEF RequestSound
  <2> QED
    BY <1>2, <2>2, <2>4 DEF Sound
<1> QED
  BY <1>6, <1>7

(* A request that asks the upstream, or waits for a replay. *)
LEMMA AskingFacts ==
    ASSUME Sound, NEW c \in Clients, conn[c].k \in {"ask", "replay"}
    PROVE  /\ conn[c] \in Asking /\ AskingSound(c)
           /\ conn[c].sess \in Sessions /\ conn[c].cred \in Credentials
           /\ conn[c].last \in Nat /\ conn[c].last <= Len(log) /\ conn[c].got = <<>>
           /\ front = "proxy"
           /\ Len(log) \in Nat
<1>1. conn[c] # Away /\ conn[c] \notin Serving /\ conn[c] \notin Scoped
  BY DEF Away, Serving, Scoped
<1>2. conn[c] \in Asking /\ AskingSound(c) /\ conn[c].last <= Len(log)
  BY <1>1 DEF Sound, RequestSound
<1> QED
  BY <1>2, SeqFacts DEF Asking, AskingSound, Sound

LEMMA ConflictSound ==
    ASSUME Sound, UNCHANGED front, NEW c \in Clients, Conflict(c)
    PROVE  Sound'
<1> DEFINE o == conn[c]
<1>1. /\ o.k = "ask" /\ o.cred \in Accepts[o.sess] /\ o.live # 0
      /\ Go(c, Attached(o, o.live, o.last, 0))
      /\ UNCHANGED <<front, log, bufs, buffers>>
  BY DEF Conflict
<1>2. /\ Registry' /\ Extended /\ Len(log') \in Nat
      /\ \A i \in DOMAIN bufs' : BufferSound(i)'
  BY <1>1, NothingStored
<1>3. /\ o \in Asking /\ AskingSound(c) /\ o.sess \in Sessions
      /\ o.last \in Nat /\ o.last <= Len(log) /\ o.got = <<>> /\ front = "proxy" /\ Len(log) \in Nat
  BY <1>1, AskingFacts
<1>4. o.live \in DOMAIN bufs' /\ bufs'[o.live].s = Standalone(o.sess) /\ Standalone(o.sess)[1] = o.sess
  BY <1>1, <1>3 DEF AskingSound, Standalone
<1>5. UNCHANGED log
  BY <1>1
<1> HIDE DEF o
<1> QED
  BY <1>1, <1>2, <1>3, <1>4, <1>5, AttachedFirst

LEMMA AcceptedSound ==
    ASSUME Sound, UNCHANGED front, NEW c \in Clients, Accepted(c)
    PROVE  Sound'
<1> DEFINE o == conn[c]
           new == Len(bufs) + 1
           waiting == [o EXCEPT !.k = "replay", !.live = new]
<1>1. /\ o.k = "ask" /\ o.cred \in Accepts[o.sess] /\ ~ Busy(o.sess)
      /\ Opens(<<o.sess, "get">>, o.cred)
      /\ Go(c, IF o.live = 0 /\ o.last # 0 THEN waiting ELSE Attached(o, new, o.last, 0))
      /\ UNCHANGED <<front, log>>
  BY DEF Accepted
<1>2. /\ o \in Asking /\ AskingSound(c) /\ o.sess \in Sessions
      /\ o.last \in Nat /\ o.last <= Len(log) /\ o.got = <<>> /\ front = "proxy" /\ Len(log) \in Nat
  BY <1>1, AskingFacts
<1>3. /\ Registry' /\ Extended /\ Len(log') \in Nat
      /\ \A i \in DOMAIN bufs' : BufferSound(i)'
      /\ new \in DOMAIN bufs' /\ bufs'[new].s = <<o.sess, "get">>
  BY <1>1, <1>2, OpensSound
<1>4. UNCHANGED log /\ <<o.sess, "get">> = Standalone(o.sess) /\ Standalone(o.sess)[1] = o.sess
  BY <1>1 DEF Standalone
<1>5. CASE o.live = 0 /\ o.last # 0
  <2>1. new \in Nat
    BY SeqFacts DEF Sound
  <2>2. /\ waiting \in Asking /\ waiting.k = "replay" /\ waiting.live = new /\ waiting.sess = o.sess
        /\ waiting.cred = o.cred /\ waiting.last = o.last
    BY <1>2, <2>1 DEF Asking
  <2>3. Go(c, waiting)
    BY <1>1, <1>5
  <2> HIDE DEF waiting
  <2>4. Requesting' /\ conn'[c] = waiting /\ \A d \in Clients : d # c => RequestSound(d)'
    BY <1>3, <2>2, <2>3, RequestStep
  <2> HIDE DEF o, new
  <2>5. AskingSound(c)'
    BY <1>1, <1>2, <1>3, <1>4, <2>2, <2>4 DEF AskingSound
  <2>6. RequestSound(c)'
    BY <1>2, <1>4, <2>2, <2>4, <2>5 DEF RequestSound
  <2> QED
    BY <1>3, <2>4, <2>6 DEF Sound
<1>6. CASE ~ (o.live = 0 /\ o.last # 0)
  <2>1. Go(c, Attached(o, new, o.last, 0))
    BY <1>1, <1>6
  <2> HIDE DEF o, new
  <2> QED
    BY <1>1, <1>2, <1>3, <1>4, <2>1, AttachedFirst
<1> QED
  BY <1>5, <1>6

LEMMA ReplayedSound ==
    ASSUME Sound, UNCHANGED front, NEW c \in Clients, Replayed(c)
    PROVE  Sound'
<1> DEFINE o == conn[c]
           sent == ReplayOf(o.last, OwnedBy(o.sess))
           p == [o EXCEPT !.got = sent]
<1>1. /\ o.k = "replay"
      /\ Go(c, Attached(p, o.live, 0, LastOf(sent, 0)))
      /\ UNCHANGED <<front, log, bufs, buffers>>
  BY DEF Replayed
<1>2. /\ Registry' /\ Extended /\ Len(log') \in Nat /\ UNCHANGED log
      /\ \A i \in DOMAIN bufs' : BufferSound(i)'
  BY <1>1, NothingStored
<1>3. /\ o \in Asking /\ AskingSound(c) /\ o.sess \in Sessions
      /\ o.last \in Nat /\ o.last <= Len(log) /\ front = "proxy" /\ Len(log) \in Nat
  BY <1>1, AskingFacts
<1>4. o.live \in Nat /\ o.live \in DOMAIN bufs' /\ o.live # 0 /\ o.cred \in Accepts[o.sess]
  <2>1. o.live \in DOMAIN bufs /\ DOMAIN bufs = 1..Len(bufs) /\ Len(bufs) \in Nat
    BY <1>1, <1>3, SeqFacts DEF AskingSound, Sound
  <2> QED
    BY <1>1, <1>3, <2>1 DEF AskingSound
<1>5. bufs'[o.live].s = Standalone(o.sess) /\ bufs'[o.live].s[1] = o.sess
  BY <1>1, <1>3, <1>4 DEF AskingSound, Standalone
<1>6. /\ sent \in Seq(Nat) /\ Increasing(sent)
      /\ ToSet(sent) = IF o.last \in DOMAIN log /\ log[o.last] \in OwnedBy(o.sess)
                       THEN {i \in DOMAIN log : i > o.last /\ log[i] = log[o.last]} ELSE {}
  BY <1>3, ReplayFacts DEF Sound
<1>7. p.sess = o.sess /\ p.cred = o.cred /\ p.last = o.last /\ p.got = sent
  BY <1>3 DEF Asking
<1> HIDE DEF sent, p, o
<1>8. /\ LastOf(sent, 0) \in Nat /\ LastOf(sent, 0) <= Len(log)
      /\ \A id \in ToSet(sent) : id <= LastOf(sent, 0)
  <2>1. /\ LastOf(sent, 0) \in Nat
        /\ sent # <<>> => LastOf(sent, 0) \in ToSet(sent)
        /\ \A id \in ToSet(sent) : id <= LastOf(sent, 0)
    BY <1>6, LastOfFacts
  <2>2. \A id \in ToSet(sent) : id <= Len(log)
    BY <1>6, SeqFacts DEF Sound
  <2>3. sent = <<>> => LastOf(sent, 0) = 0
    BY DEF LastOf
  <2> QED
    BY <1>3, <2>1, <2>2, <2>3
<1>9. \A id \in ToSet(sent) : id \in DOMAIN log /\ log[id][1] = p.sess
  BY <1>4, <1>6, <1>7 DEF OwnedBy, Owns
<1> QED
  BY <1>1, <1>2, <1>3, <1>4, <1>5, <1>6, <1>7, <1>8, <1>9, AttachedSound

(* A request that reads a buffer. *)
LEMMA ServingFacts ==
    ASSUME Sound, NEW c \in Clients, conn[c].k = "live"
    PROVE  /\ conn[c] \in Serving /\ ServingSound(c)
           /\ conn[c].last <= Len(log) /\ Len(log) \in Nat
           /\ bufs[conn[c].b] \in BufferRecords /\ BufferSound(conn[c].b)
<1>1. conn[c] # Away /\ conn[c] \notin Asking /\ conn[c] \notin Scoped
  BY DEF Away, Asking, Scoped
<1>2. conn[c] \in Serving /\ ServingSound(c) /\ conn[c].last <= Len(log)
  BY <1>1 DEF Sound, RequestSound
<1>3. conn[c].b \in DOMAIN bufs
  BY <1>2 DEF ServingSound
<1> QED
  BY <1>2, <1>3, SeqFacts DEF Sound

(* What a client reads next of a buffer: nothing at or below its cursor,   *)
(* and of the buffer's stream only.                                        *)
NextCold(c) ==
    /\ conn[c].cursor # 0
    /\ bufs[conn[c].b].window = <<>> \/ conn[c].cursor < Head(bufs[conn[c].b].window)
NextReplay(c) == IF NextCold(c) THEN ReplayOf(conn[c].cursor, {bufs[conn[c].b].s}) ELSE <<>>
NextRead(c) ==
    IF NextReplay(c) # <<>> THEN NextReplay(c) ELSE Above(bufs[conn[c].b].window, conn[c].cursor)

LEMMA NextReadFacts ==
    ASSUME Sound, NEW c \in Clients, conn[c].k = "live"
    PROVE  /\ NextRead(c) \in Seq(Nat) /\ Increasing(NextRead(c))
           /\ \A id \in ToSet(NextRead(c)) : /\ id \in DOMAIN log /\ conn[c].cursor < id
                                             /\ log[id] = bufs[conn[c].b].s
<1> DEFINE w == bufs[conn[c].b].window
           cur == conn[c].cursor
<1>1. /\ w \in Seq(Nat) /\ cur \in Nat /\ Increasing(w)
      /\ \A id \in ToSet(w) : id \in DOMAIN log /\ log[id] = bufs[conn[c].b].s
  BY ServingFacts DEF Serving, BufferRecords, BufferSound
<1>2. CASE NextReplay(c) # <<>>
  <2>1. NextRead(c) = ReplayOf(cur, {bufs[conn[c].b].s})
    BY <1>2 DEF NextRead, NextReplay
  <2> DEFINE streams == {bufs[conn[c].b].s}
  <2> HIDE DEF cur, streams
  <2>4. /\ ReplayOf(cur, streams) \in Seq(Nat) /\ Increasing(ReplayOf(cur, streams))
        /\ ToSet(ReplayOf(cur, streams)) = IF cur \in DOMAIN log /\ log[cur] \in streams
                                THEN {i \in DOMAIN log : i > cur /\ log[i] = log[cur]} ELSE {}
    BY <1>1, ReplayFacts DEF Sound
  <2>2. /\ NextRead(c) \in Seq(Nat) /\ Increasing(NextRead(c))
        /\ ToSet(NextRead(c)) = IF cur \in DOMAIN log /\ log[cur] \in {bufs[conn[c].b].s}
                                THEN {i \in DOMAIN log : i > cur /\ log[i] = log[cur]} ELSE {}
    BY <2>1, <2>4 DEF streams
  <2>3. \A id \in DOMAIN log : id \in Nat
    BY SeqFacts DEF Sound
  <2> QED
    BY <1>1, <2>2, <2>3 DEF cur
<1>3. CASE NextReplay(c) = <<>>
  <2>1. NextRead(c) = Above(w, cur)
    BY <1>3 DEF NextRead
  <2>2. /\ NextRead(c) \in Seq(Nat) /\ Increasing(NextRead(c))
        /\ ToSet(NextRead(c)) = {x \in ToSet(w) : x > cur}
    BY <1>1, <2>1, AboveFacts
  <2>3. \A id \in ToSet(w) : id \in Nat
    BY <1>1, ToSetDef
  <2> QED
    BY <1>1, <2>2, <2>3
<1> QED
  BY <1>2, <1>3

LEMMA ConsumesFacts ==
    ASSUME Sound, NEW c \in Clients, Consumes(c)
    PROVE  LET o == conn[c]  next == NextRead(c) IN
           /\ o.k = "live" /\ UNCHANGED <<log, bufs, buffers, requests>>
           /\ next = <<>> => Go(c, [o EXCEPT !.k = "over"])
           /\ next # <<>> => Go(c, [o EXCEPT !.cursor = LastOf(next, 0), !.got = o.got \o Above(next, o.upto)])
<1>1. conn[c].k = "live" /\ UNCHANGED <<log, bufs, buffers, requests>>
  BY DEF Consumes
<1>2. conn[c] \in Serving
  BY <1>1, ServingFacts
<1> QED
  BY <1>1, <1>2 DEF Consumes, NextRead, NextReplay, NextCold, Serving

LEMMA ConsumesSound ==
    ASSUME Sound, UNCHANGED front, NEW c \in Clients, Consumes(c)
    PROVE  Sound'
<1> DEFINE o == conn[c]
           next == NextRead(c)
           more == Above(next, o.upto)
           over == [o EXCEPT !.k = "over"]
           on == [o EXCEPT !.cursor = LastOf(next, 0), !.got = o.got \o more]
<1>1. /\ o.k = "live" /\ UNCHANGED <<front, log, bufs, buffers>>
      /\ next = <<>> => Go(c, over)
      /\ next # <<>> => Go(c, on)
  BY ConsumesFacts
<1>2. /\ Registry' /\ Extended /\ Len(log') \in Nat /\ UNCHANGED <<log, bufs, front>>
      /\ \A i \in DOMAIN bufs' : BufferSound(i)'
  BY <1>1, NothingStored
<1>3. /\ o \in Serving /\ ServingSound(c) /\ o.last <= Len(log) /\ Len(log) \in Nat
      /\ bufs[o.b] \in BufferRecords /\ BufferSound(o.b)
  BY <1>1, ServingFacts
<1>4. /\ next \in Seq(Nat) /\ Increasing(next)
      /\ \A id \in ToSet(next) : id \in DOMAIN log /\ o.cursor < id /\ log[id] = bufs[o.b].s
  BY <1>1, NextReadFacts
<1>5. CASE next = <<>>
  <2>1. /\ over \in Serving /\ over.k = "over" /\ over.sess = o.sess /\ over.cred = o.cred
        /\ over.last = o.last /\ over.got = o.got /\ over.b = o.b /\ over.cursor = o.cursor
        /\ over.upto = o.upto
    BY <1>3 DEF Serving
  <2>2. Go(c, over)
    BY <1>1, <1>5
  <2> HIDE DEF over
  <2>3. Requesting' /\ conn'[c] = over /\ \A d \in Clients : d # c => RequestSound(d)'
    BY <1>2, <2>1, <2>2, RequestStep
  <2>4. SentSound(c)' /\ ServingSound(c)'
    BY <1>2, <1>3, <2>1, <2>3 DEF ServingSound, SentSound
  <2>5. RequestSound(c)'
    BY <1>2, <1>3, <2>1, <2>3, <2>4 DEF RequestSound
  <2> QED
    BY <1>2, <2>3, <2>5 DEF Sound
<1>6. CASE next # <<>>
  <2>1. /\ o.sess \in Sessions /\ o.cred \in Accepts[o.sess] /\ o.last \in Nat /\ o.got \in Seq(Nat)
        /\ o.cursor \in Nat /\ o.upto \in Nat /\ o.b \in DOMAIN bufs
        /\ o.cursor <= Len(log) /\ o.upto <= Len(log)
        /\ Increasing(o.got) /\ bufs[o.b].s[1] = o.sess
        /\ \A id \in ToSet(o.got) : id \in DOMAIN log /\ log[id][1] = o.sess
        /\ \A id \in ToSet(o.got) : id <= o.cursor \/ id <= o.upto
        /\ DOMAIN log = 1..Len(log)
    BY <1>3, SeqFacts DEF ServingSound, SentSound, Serving, Sound
  <2>2. /\ more \in Seq(Nat) /\ Increasing(more)
        /\ ToSet(more) = {x \in ToSet(next) : x > o.upto}
    BY <1>4, <2>1, AboveFacts
  <2>3. /\ LastOf(next, 0) \in Nat /\ LastOf(next, 0) \in ToSet(next)
        /\ \A x \in ToSet(next) : x <= LastOf(next, 0)
    BY <1>4, <1>6, LastOfFacts
  <2>4. o.cursor < LastOf(next, 0) /\ LastOf(next, 0) <= Len(log)
    BY <1>4, <2>1, <2>3
  <2>5. \A x \in ToSet(o.got), y \in ToSet(more) : x < y
    <3>1. \A x \in ToSet(o.got) : x \in Nat
      BY <2>1
    <3>2. \A y \in ToSet(more) : y \in Nat /\ o.cursor < y /\ o.upto < y
      BY <1>4, <2>1, <2>2
    <3> QED
      BY <2>1, <3>1, <3>2
  <2>6. /\ o.got \o more \in Seq(Nat) /\ Increasing(o.got \o more)
        /\ ToSet(o.got \o more) = ToSet(o.got) \cup ToSet(more)
    <3> HIDE DEF more, o
    <3> QED
      BY <2>1, <2>2, <2>5, SendsFacts
  <2>7. /\ on \in Serving /\ on.k = "live" /\ on.sess = o.sess /\ on.cred = o.cred
        /\ on.last = o.last /\ on.got = o.got \o more /\ on.b = o.b /\ on.cursor = LastOf(next, 0)
        /\ on.upto = o.upto
    <3> HIDE DEF more, next
    <3> QED
      BY <1>1, <1>3, <2>3, <2>6 DEF Serving
  <2>8. Go(c, on)
    BY <1>1, <1>6
  <2> HIDE DEF on
  <2>9. Requesting' /\ conn'[c] = on /\ \A d \in Clients : d # c => RequestSound(d)'
    BY <1>2, <2>7, <2>8, RequestStep
  <2> HIDE DEF more, next, o
  <2>10. \A id \in ToSet(on.got) : /\ id \in DOMAIN log /\ log[id][1] = o.sess
                                   /\ id <= on.cursor \/ id <= on.upto
    <3>1. ASSUME NEW id \in ToSet(o.got) PROVE id <= on.cursor \/ id <= on.upto
      <4>1. id \in Nat
        BY <2>1
      <4> QED
        BY <2>1, <2>3, <2>4, <2>7, <4>1
    <3>2. ASSUME NEW id \in ToSet(more)
          PROVE  id \in DOMAIN log /\ log[id][1] = o.sess /\ id <= on.cursor
      BY <1>4, <2>1, <2>2, <2>3, <2>7
    <3> QED
      BY <2>1, <2>6, <2>7, <3>1, <3>2
  <2>11. SentSound(c)'
    BY <1>2, <2>6, <2>7, <2>9, <2>10 DEF SentSound
  <2>12. ServingSound(c)'
    <3>1. o.last # 0 => bufs[o.b].s = Standalone(o.sess)
      BY <1>3 DEF ServingSound, o
    <3>2. front = "proxy"
      BY <1>3 DEF ServingSound
    <3> QED
      BY <1>2, <2>1, <2>4, <2>7, <2>9, <2>10, <2>11, <3>1, <3>2 DEF ServingSound
  <2>13. RequestSound(c)'
    BY <1>2, <1>3, <2>7, <2>9, <2>12 DEF RequestSound
  <2> QED
    BY <1>2, <2>9, <2>13 DEF Sound
<1> QED
  BY <1>5, <1>6

-------------------------------------------------------------------------------
(* The scoped front. *)

LEMMA ScopedStoreSound ==
    ASSUME Sound, UNCHANGED front, NEW s \in Streams, ScopedStore(s)
    PROVE  Sound'
<1>1. log' = Append(log, s) /\ UNCHANGED <<bufs, buffers, conn>>
  BY DEF ScopedStore
<1>2. log \in Seq(Streams) /\ Len(log) \in Nat /\ DOMAIN log = 1..Len(log)
  BY SeqFacts DEF Sound, Registry
<1>3. /\ log' \in Seq(Streams) /\ Len(log') = Len(log) + 1
      /\ \A id \in DOMAIN log : log'[id] = log[id]
      /\ DOMAIN log' = 1..(Len(log) + 1)
  BY <1>1, <1>2, AppendProperties
<1>4. Extended /\ Len(log') \in Nat
  BY <1>1, <1>2, <1>3 DEF Extended
<1>5. Registry'
  BY <1>1, <1>3 DEF Sound, Registry
<1>6. \A i \in DOMAIN bufs' : BufferSound(i)'
  BY <1>1, <1>4, BufferKeeps
<1> QED
  BY <1>1, <1>4, <1>5, <1>6, StreamStep

(* A client's request in the scoped front goes on. *)
LEMMA ScopedStep ==
    ASSUME Sound, UNCHANGED <<front, log, bufs, buffers>>, NEW c \in Clients, NEW o \in Scoped, Go(c, o),
           o.last <= Len(log), o.cred \in Accepts[o.sess], Increasing(o.got),
           \A id \in ToSet(o.got) : id \in DOMAIN log /\ log[id][1] = o.sess,
           o.k # "over" => o.got = <<>>,
           o.k = "owned" => o.last \in DOMAIN log /\ Owns(log[o.last], o.sess)
    PROVE  Sound'
<1>1. /\ Registry' /\ Extended /\ Len(log') \in Nat /\ UNCHANGED log
      /\ \A i \in DOMAIN bufs' : BufferSound(i)'
  BY NothingStored
<1>2. Requesting' /\ conn'[c] = o /\ \A d \in Clients : d # c => RequestSound(d)'
  BY <1>1, RequestStep
<1>3. SentSound(c)'
  BY <1>1, <1>2 DEF SentSound
<1>4. ScopedSound(c)'
  BY <1>1, <1>2, <1>3 DEF ScopedSound
<1>5. RequestSound(c)'
  BY <1>1, <1>2, <1>4 DEF RequestSound
<1> QED
  BY <1>1, <1>2, <1>5 DEF Sound

LEMMA ScopedResumeSound ==
    ASSUME Sound, UNCHANGED front, NEW c \in Clients, NEW sess \in Sessions, NEW last \in 1..Len(log),
           ScopedResume(c, sess, last)
    PROVE  Sound'
<1>1. PICK known \in BOOLEAN, cred \in Accepts[sess] :
          Go(c, [k |-> IF known THEN "look" ELSE "collect", sess |-> sess, cred |-> cred,
                 last |-> last, got |-> <<>>, b |-> 0])
  BY DEF ScopedResume
<1> DEFINE o == [k |-> IF known THEN "look" ELSE "collect", sess |-> sess, cred |-> cred,
                 last |-> last, got |-> <<>>, b |-> 0]
<1>2. UNCHANGED <<front, log, bufs, buffers>>
  BY DEF ScopedResume
<1>3. cred \in Credentials /\ Len(log) \in Nat
  BY ProxyAssumption, SeqFacts DEF Sound
<1>4. <<>> \in Seq(Nat) /\ ToSet(<<>>) = {} /\ Increasing(<<>>)
  BY EmptyFacts
<1>5. /\ o \in Scoped /\ o.k \in {"look", "collect"} /\ o.last <= Len(log) /\ o.cred \in Accepts[o.sess]
      /\ o.got = <<>> /\ Go(c, o)
  BY <1>1, <1>3, <1>4 DEF Scoped
<1> HIDE DEF o
<1>6. Increasing(o.got) /\ \A id \in ToSet(o.got) : FALSE
  BY <1>4, <1>5
<1> QED
  BY <1>2, <1>5, <1>6, ScopedStep

(* A request of the scoped front that is not answered yet. *)
LEMMA ScopedFacts ==
    ASSUME Sound, NEW c \in Clients, conn[c].k \in {"look", "owned", "collect"}
    PROVE  /\ conn[c] \in Scoped /\ ScopedSound(c)
           /\ conn[c].last <= Len(log) /\ conn[c].last \in Nat
<1>1. conn[c] # Away /\ conn[c] \notin Asking /\ conn[c] \notin Serving
  BY DEF Away, Asking, Serving
<1> QED
  BY <1>1 DEF Sound, RequestSound, Scoped

LEMMA ScopedLookSound ==
    ASSUME Sound, UNCHANGED front, NEW c \in Clients, ScopedLook(c)
    PROVE  Sound'
<1> DEFINE o == conn[c]
           p == [o EXCEPT !.k = IF o.last \in DOMAIN log /\ Owns(log[o.last], o.sess) THEN "owned" ELSE "over"]
<1>1. o.k = "look" /\ Go(c, p) /\ UNCHANGED <<front, log, bufs, buffers>>
  BY DEF ScopedLook
<1>2. o \in Scoped /\ ScopedSound(c) /\ o.last <= Len(log)
  BY <1>1, ScopedFacts
<1>3. /\ p \in Scoped /\ p.last = o.last /\ p.sess = o.sess /\ p.cred = o.cred /\ p.got = o.got
      /\ p.k = IF o.last \in DOMAIN log /\ Owns(log[o.last], o.sess) THEN "owned" ELSE "over"
  BY <1>2 DEF Scoped
<1>4. o.cred \in Accepts[o.sess] /\ o.got = <<>>
  BY <1>1, <1>2 DEF ScopedSound
<1>5. Increasing(<<>>) /\ ToSet(<<>>) = {}
  BY EmptyFacts
<1> HIDE DEF p, o
<1>6. p.k = "owned" => p.last \in DOMAIN log /\ Owns(log[p.last], p.sess)
  BY <1>3
<1>7. Increasing(p.got) /\ \A id \in ToSet(p.got) : FALSE
  BY <1>3, <1>4, <1>5
<1> QED
  BY <1>1, <1>2, <1>3, <1>4, <1>6, <1>7, ScopedStep

LEMMA ScopedReplaySound ==
    ASSUME Sound, UNCHANGED front, NEW c \in Clients, ScopedReplay(c)
    PROVE  Sound'
<1> DEFINE o == conn[c]
           asked == IF o.k = "owned" THEN Streams ELSE OwnedBy(o.sess)
           sent == ReplayOf(o.last, asked)
           p == [o EXCEPT !.k = "over", !.got = sent]
<1>1. o.k \in {"owned", "collect"} /\ Go(c, p) /\ UNCHANGED <<front, log, bufs, buffers>>
  BY DEF ScopedReplay
<1>2. o \in Scoped /\ ScopedSound(c) /\ o.last <= Len(log) /\ o.last \in Nat
  BY <1>1, ScopedFacts
<1>3. o.last \in DOMAIN log /\ log[o.last] \in asked => Owns(log[o.last], o.sess)
  BY <1>1, <1>2 DEF ScopedSound, OwnedBy
<1>4. o.cred \in Accepts[o.sess]
  BY <1>2 DEF ScopedSound
<1> HIDE DEF asked
<1>5. /\ sent \in Seq(Nat) /\ Increasing(sent)
      /\ ToSet(sent) = IF o.last \in DOMAIN log /\ log[o.last] \in asked
                       THEN {i \in DOMAIN log : i > o.last /\ log[i] = log[o.last]} ELSE {}
  BY <1>2, ReplayFacts DEF Sound
<1> HIDE DEF sent
<1>6. /\ p \in Scoped /\ p.last = o.last /\ p.sess = o.sess /\ p.cred = o.cred /\ p.got = sent /\ p.k = "over"
  BY <1>2, <1>5 DEF Scoped
<1> HIDE DEF p, o
<1>7. \A id \in ToSet(sent) : id \in DOMAIN log /\ log[id][1] = p.sess
  BY <1>3, <1>4, <1>5, <1>6 DEF Owns
<1> QED
  BY <1>1, <1>2, <1>4, <1>5, <1>6, <1>7, ScopedStep

-------------------------------------------------------------------------------
(* The invariant. *)

LEMMA SoundInit == Init => Sound
<1> SUFFICES ASSUME Init PROVE Sound
  OBVIOUS
<1>1. /\ log = <<>> /\ bufs = <<>> /\ buffers = [s \in Streams |-> 0]
      /\ conn = [c \in Clients |-> Away]
  BY DEF Init
<1>2. /\ <<>> \in Seq(Streams) /\ <<>> \in Seq(BufferRecords)
      /\ Len(<<>>) = 0 /\ DOMAIN <<>> = {}
  BY EmptySeq
<1>3. Registry /\ Requesting
  BY <1>1, <1>2 DEF Registry, Requesting
<1>4. \A i \in DOMAIN bufs : BufferSound(i)
  BY <1>1, <1>2
<1>5. \A c \in Clients : RequestSound(c)
  BY <1>1 DEF RequestSound
<1> QED
  BY <1>3, <1>4, <1>5 DEF Sound

LEMMA SoundStep == Sound /\ [Next]_vars => Sound'
<1> SUFFICES ASSUME Sound, [Next]_vars PROVE Sound'
  OBVIOUS
<1>1. CASE UNCHANGED vars
  <2>1. UNCHANGED <<front, log, bufs, buffers>> /\ UNCHANGED conn
    BY <1>1 DEF vars
  <2> QED
    BY <2>1, NothingStored, StreamStep
<1>2. CASE Next
  <2> USE <1>2 DEF Next
  <2>1. UNCHANGED front
    OBVIOUS
  <2>2. CASE \E i \in DOMAIN bufs : Frame(i) \/ UpstreamEnds(i) \/ BufferEnds(i)
    BY <2>1, <2>2, FrameSound, EndsSound
  <2>3. CASE CloseAll
    BY <2>1, <2>3, EndsSound
  <2>4. CASE \E c \in Clients, sess \in Sessions, cred \in Credentials : Post(c, sess, cred)
    BY <2>1, <2>4, PostSound
  <2>5. CASE \E c \in Clients, sess \in Sessions, cred \in Credentials, last \in 0..Len(log) :
                 Get(c, sess, cred, last)
    BY <2>1, <2>5, GetSound
  <2>6. CASE \E c \in Clients : Refused(c) \/ Leaves(c)
    <3>1. PICK c \in Clients : Refused(c) \/ Leaves(c)
      BY <2>6
    <3>2. Go(c, Away) /\ UNCHANGED <<front, log, bufs, buffers>>
      BY <2>1, <3>1 DEF Refused, Leaves
    <3> QED
      BY <3>2, AwaySound
  <2>7. CASE \E c \in Clients : Conflict(c) \/ Accepted(c) \/ Replayed(c) \/ Consumes(c)
    BY <2>1, <2>7, ConflictSound, AcceptedSound, ReplayedSound, ConsumesSound
  <2>8. CASE \E s \in Streams : ScopedStore(s)
    BY <2>1, <2>8, ScopedStoreSound
  <2>9. CASE \E c \in Clients, sess \in Sessions, last \in 1..Len(log) : ScopedResume(c, sess, last)
    BY <2>1, <2>9, ScopedResumeSound
  <2>10. CASE \E c \in Clients : ScopedLook(c) \/ ScopedReplay(c)
    BY <2>1, <2>10, ScopedLookSound, ScopedReplaySound
  <2> QED
    BY <2>2, <2>3, <2>4, <2>5, <2>6, <2>7, <2>8, <2>9, <2>10 DEF ProxyNext, ScopedNext
<1> QED
  BY <1>1, <1>2

LEMMA SoundAlways == Spec => []Sound
BY SoundInit, SoundStep, PTL DEF Spec

(* A request of a sound state that is not away has been sent a sequence    *)
(* in order, of the session its credential opened.                         *)
LEMMA SentFacts ==
    ASSUME Sound, NEW c \in Clients, conn[c] # Away
    PROVE  conn[c].got \in Seq(Nat) /\ SentSound(c)
<1>1. CASE conn[c] \in Asking
  <2>1. conn[c].got = <<>>
    BY <1>1 DEF Asking
  <2> QED
    BY <2>1, EmptyFacts DEF SentSound
<1>2. CASE conn[c] \in Serving /\ ServingSound(c)
  BY <1>2 DEF Serving, ServingSound
<1>3. CASE conn[c] \in Scoped /\ ScopedSound(c)
  BY <1>3 DEF Scoped, ScopedSound
<1> QED
  BY <1>1, <1>2, <1>3 DEF Sound, RequestSound

(* The store, the buffers and the registry are what the proxy takes them   *)
(* for: the standalone stream that is open upstream is the registered one, *)
(* and a window holds events of its own stream (proxy.py, _register_buffer *)
(* and _consume).                                                          *)
THEOREM BuffersTyped == Spec => []TypeOK
<1>1. Sound => TypeOK
  <2> SUFFICES ASSUME Sound PROVE TypeOK
    OBVIOUS
  <2>1. \A i \in DOMAIN bufs : \A n \in DOMAIN bufs[i].window : log[bufs[i].window[n]] = bufs[i].s
    <3>1. ASSUME NEW i \in DOMAIN bufs, NEW n \in DOMAIN bufs[i].window
          PROVE  log[bufs[i].window[n]] = bufs[i].s
      <4>1. bufs[i].window \in Seq(Nat) /\ BufferSound(i)
        BY SeqFacts DEF Sound, BufferRecords
      <4>2. bufs[i].window[n] \in ToSet(bufs[i].window)
        BY <4>1, ToSetDef
      <4> QED
        BY <4>1, <4>2 DEF BufferSound
    <3> QED
      BY <3>1
  <2> QED
    BY <2>1 DEF TypeOK, Sound, Registry
<1> QED
  BY <1>1, SoundAlways, PTL

(* Nobody is sent an event of another session than the one it named, or of *)
(* one that does not accept its credential, over the proxy's shared live   *)
(* streams (shared at once, or after the upstream's 409 with a credential  *)
(* that was rotated meanwhile), its replays and the scoped store's         *)
(* (proxy.py, _handle_get and _session_owns).                              *)
THEOREM NobodyReadsOthers == Spec => []OwnSessionOnly
<1>1. Sound => OwnSessionOnly
  <2> SUFFICES ASSUME Sound, NEW c \in Clients, conn[c] # Away, NEW n \in DOMAIN conn[c].got
               PROVE  /\ log[conn[c].got[n]][1] = conn[c].sess
                      /\ conn[c].cred \in Accepts[conn[c].sess]
    BY DEF OwnSessionOnly
  <2>1. conn[c].got \in Seq(Nat) /\ SentSound(c)
    BY SentFacts
  <2>3. conn[c].cred \in Accepts[conn[c].sess]
    <3>1. conn[c] \notin Asking
      BY <2>1, EmptyFacts DEF Asking
    <3> QED
      BY <3>1 DEF Sound, RequestSound, ServingSound, ScopedSound
  <2>2. conn[c].got[n] \in ToSet(conn[c].got)
    BY <2>1, ToSetDef
  <2> QED
    BY <2>1, <2>2, <2>3 DEF SentSound
<1> QED
  BY <1>1, SoundAlways, PTL

(* On one connection no event is sent twice or out of order, across the    *)
(* seam of replay and live stream (proxy.py, _replay_then_live).           *)
THEOREM NothingTwice == Spec => []SentInOrder
<1>1. Sound => SentInOrder
  BY SentFacts DEF SentInOrder, SentSound
<1> QED
  BY <1>1, SoundAlways, PTL

-------------------------------------------------------------------------------
(* No gap on resume. *)

(* An event a buffer that is done did not miss, or any while it is not. *)
Within(i, id) == bufs[i].done => \E y \in ToSet(bufs[i].window) : id <= y
(* The window of a buffer that alone feeds its stream has no hole. *)
NoHole(i) ==
    ~ bufs[i].shared =>
        \A x \in ToSet(bufs[i].window), id \in DOMAIN log :
            x <= id /\ log[id] = bufs[i].s /\ Within(i, id) => id \in ToSet(bufs[i].window)

(* A client that resumed the standalone stream was sent everything up to   *)
(* where it reads from; before its first read, what is above the replay is *)
(* in the window of its buffer.                                            *)
Resumed(c) == conn[c].last # 0 /\ log[conn[c].last] = Standalone(conn[c].sess)
Covered(c) ==
    /\ conn[c].cursor # 0 => log[conn[c].cursor] = log[conn[c].last]
    /\ \A id \in DOMAIN log :
          conn[c].last < id /\ log[id] = log[conn[c].last] =>
              /\ id <= conn[c].cursor \/ id <= conn[c].upto => id \in ToSet(conn[c].got)
              /\ conn[c].cursor = 0 /\ conn[c].upto < id /\ Within(conn[c].b, id)
                 => id \in ToSet(bufs[conn[c].b].window)
(* Nothing of the resumed stream is missing below an event that was sent. *)
Complete(c) ==
    \A id \in DOMAIN log :
        /\ conn[c].last < id /\ log[id] = log[conn[c].last]
        /\ \E y \in ToSet(conn[c].got) : id <= y
        => id \in ToSet(conn[c].got)
NoGap(c) ==
    conn[c] # Away /\ Resumed(c) =>
        /\ conn[c] \in Serving /\ ~ bufs[conn[c].b].shared =>
              IF conn[c].k = "live" THEN Covered(c) ELSE Complete(c)
        /\ conn[c] \in Scoped => Complete(c)

Gapless ==
    /\ front # "proxy" => bufs = <<>>
    /\ \A i \in DOMAIN bufs : NoHole(i)
    /\ \A c \in Clients : NoGap(c)

(* Windows only grow, and a buffer that still feeds its stream alone holds *)
(* what was stored of that stream since.                                   *)
Grown ==
    \A i \in DOMAIN bufs :
        /\ ToSet(bufs[i].window) \subseteq ToSet(bufs'[i].window)
        /\ \A x \in ToSet(bufs'[i].window) : x \in ToSet(bufs[i].window) \/ (x \in Nat /\ Len(log) < x)
        /\ bufs[i].shared => bufs'[i].shared
        /\ ~ bufs'[i].shared =>
              \A id \in DOMAIN log' :
                  log'[id] = bufs[i].s /\ Within(i, id)' =>
                      (id \in DOMAIN log /\ Within(i, id)) \/ id \in ToSet(bufs'[i].window)

LEMMA HoleKeeps ==
    ASSUME Sound, Gapless, Extended, Grown, NEW i \in DOMAIN bufs, \A id \in DOMAIN log' : id \in Nat
    PROVE  NoHole(i)'
<1>1. Len(log) \in Nat /\ DOMAIN log = 1..Len(log)
  BY SeqFacts DEF Sound
<1>2. NoHole(i)
  BY DEF Gapless
<1>3. bufs'[i].s = bufs[i].s /\ \A id \in DOMAIN log : log'[id] = log[id]
  BY DEF Extended
<1>4. ASSUME ~ bufs'[i].shared, NEW x \in ToSet(bufs'[i].window), NEW id \in DOMAIN log',
             x <= id, log'[id] = bufs'[i].s, Within(i, id)'
      PROVE  id \in ToSet(bufs'[i].window)
  <2>1. (id \in DOMAIN log /\ Within(i, id)) \/ id \in ToSet(bufs'[i].window)
    BY <1>3, <1>4 DEF Grown
  <2>2. CASE id \in DOMAIN log /\ Within(i, id)
    <3>1. ~ bufs[i].shared /\ (x \in ToSet(bufs[i].window) \/ (x \in Nat /\ Len(log) < x))
      BY <1>4 DEF Grown
    <3>2. x \in Nat
      <4>1. \/ x \in ToSet(bufs[i].window) /\ bufs[i].window \in Seq(Nat)
            \/ x \notin ToSet(bufs[i].window)
        BY SeqFacts DEF Sound, BufferRecords
      <4>2. CASE x \in ToSet(bufs[i].window) /\ bufs[i].window \in Seq(Nat)
        BY <4>2, ToSetDef
      <4>3. CASE x \notin ToSet(bufs[i].window)
        BY <4>3, <3>1
      <4> QED
        BY <4>1, <4>2, <4>3
    <3>3. x \in ToSet(bufs[i].window)
      BY <1>1, <1>4, <2>2, <3>1, <3>2
    <3> QED
      BY <1>2, <1>3, <1>4, <2>2, <3>1, <3>3 DEF NoHole, Grown
  <2> QED
    BY <2>1, <2>2
<1> QED
  BY <1>4 DEF NoHole

LEMMA GapKeeps ==
    ASSUME Sound, Gapless, Extended, Grown, NEW c \in Clients, conn'[c] = conn[c],
           DOMAIN log' \subseteq Nat, \A id \in DOMAIN log' : id \in DOMAIN log \/ Len(log) < id
    PROVE  NoGap(c)'
<1> DEFINE o == conn[c]
<1> SUFFICES ASSUME o # Away, Resumed(c)' PROVE (NoGap(c))'
  BY DEF NoGap, Resumed
<1>1. Len(log) \in Nat /\ DOMAIN log = 1..Len(log)
  BY SeqFacts DEF Sound
<1>2. o.last \in Nat /\ o.last <= Len(log)
  BY DEF Sound, RequestSound, Requesting, Asking, Serving, Scoped
<1>3. o.last # 0 /\ o.last \in DOMAIN log
  BY <1>1, <1>2 DEF Resumed
<1>4. \A id \in DOMAIN log : id \in DOMAIN log' /\ log'[id] = log[id]
  BY DEF Extended
<1>5. Resumed(c) /\ log'[o.last] = log[o.last] /\ log[o.last] = Standalone(o.sess)
  BY <1>3, <1>4 DEF Resumed
<1>6. NoGap(c)
  BY DEF Gapless
<1>7. conn[c].got \in Seq(Nat) /\ SentSound(c)
  BY SentFacts
<1>8. \A y \in ToSet(o.got) : y \in DOMAIN log /\ y <= Len(log)
  BY <1>1, <1>7 DEF SentSound
<1>9. ASSUME Complete(c) PROVE Complete(c)'
  <2> SUFFICES ASSUME NEW id \in DOMAIN log', o.last < id, log'[id] = log'[o.last],
                      NEW y \in ToSet(o.got), id <= y
               PROVE  id \in ToSet(o.got)
    BY DEF Complete
  <2>1. id \in DOMAIN log
    BY <1>1, <1>8
  <2> QED
    BY <1>4, <1>5, <1>9, <2>1 DEF Complete
<1>10. ASSUME o \in Serving, ~ bufs'[o.b].shared
       PROVE  IF o.k = "live" THEN Covered(c)' ELSE Complete(c)'
  <2>2. CASE o.k # "live"
    <3>1. Complete(c)
      <4>1. CASE o \in Scoped
        BY <1>5, <1>6, <4>1 DEF NoGap
      <4>2. CASE o \notin Scoped
        <5>1. ServingSound(c)
          BY <1>10, <4>2 DEF Sound, RequestSound, Asking, Serving
        <5> QED
          BY <1>5, <1>6, <1>10, <2>2, <5>1 DEF NoGap, Grown, ServingSound
      <4> QED
        BY <4>1, <4>2
    <3> QED
      BY <1>9, <2>2, <3>1
  <2>3. CASE o.k = "live"
    <3>1. ServingSound(c)
      BY <2>3, ServingFacts
    <3>2. /\ o.b \in DOMAIN bufs /\ o.cursor <= Len(log) /\ o.upto <= Len(log)
          /\ bufs[o.b].s = Standalone(o.sess) /\ o.cursor \in Nat /\ o.upto \in Nat
      BY <1>3, <1>10, <3>1 DEF ServingSound, Serving
    <3>3. Covered(c)
      BY <1>5, <1>6, <1>10, <2>3, <3>2 DEF NoGap, Grown
    <3>4. o.cursor # 0 => log'[o.cursor] = log'[o.last]
      BY <1>1, <1>4, <1>5, <3>2, <3>3 DEF Covered
    <3>5. ASSUME NEW id \in DOMAIN log', o.last < id, log'[id] = log'[o.last]
          PROVE  /\ id <= o.cursor \/ id <= o.upto => id \in ToSet(o.got)
                 /\ o.cursor = 0 /\ o.upto < id /\ Within(o.b, id)' => id \in ToSet(bufs'[o.b].window)
      <4>1. ASSUME id <= o.cursor \/ id <= o.upto PROVE id \in ToSet(o.got)
        <5>1. id \in DOMAIN log
          BY <1>1, <3>2, <4>1
        <5> QED
          BY <1>4, <1>5, <3>3, <3>5, <4>1, <5>1 DEF Covered
      <4>2. ASSUME o.cursor = 0, o.upto < id, Within(o.b, id)'
            PROVE  id \in ToSet(bufs'[o.b].window)
        <5>1. Within(conn[c].b, id)'
          BY <4>2
        <5>2. (id \in DOMAIN log /\ Within(o.b, id)) \/ id \in ToSet(bufs'[o.b].window)
          BY <1>5, <1>10, <3>2, <3>5, <4>2 DEF Grown
        <5>3. CASE id \in DOMAIN log /\ Within(o.b, id)
          BY <1>4, <1>5, <3>2, <3>3, <3>5, <4>2, <5>3 DEF Covered, Grown
        <5> QED
          BY <5>2, <5>3
      <4> QED
        BY <4>1, <4>2
    <3>6. Covered(c)'
      BY <3>4, <3>5 DEF Covered
    <3> QED
      BY <2>3, <3>6
  <2> QED
    BY <2>2, <2>3
<1>11. ASSUME o \in Scoped PROVE Complete(c)'
  BY <1>5, <1>6, <1>9, <1>11 DEF NoGap
<1> QED
  BY <1>10, <1>11 DEF NoGap

(* The steps that change neither the store nor a window. *)
LEMMA GrownSame ==
    ASSUME Sound, UNCHANGED log,
           \A i \in DOMAIN bufs : /\ bufs'[i].window = bufs[i].window /\ bufs'[i].shared = bufs[i].shared
                                  /\ bufs[i].done => bufs'[i].done
    PROVE  /\ Grown /\ DOMAIN log' \subseteq Nat
           /\ \A id \in DOMAIN log' : id \in DOMAIN log \/ Len(log) < id
<1>1. Len(log) \in Nat /\ DOMAIN log = 1..Len(log)
  BY SeqFacts DEF Sound
<1>2. Grown
  <2> SUFFICES ASSUME NEW i \in DOMAIN bufs
               PROVE  \A id \in DOMAIN log' : Within(i, id)' => Within(i, id)
    BY DEF Grown
  <2> QED
    BY DEF Within
<1> QED
  BY <1>1, <1>2

LEMMA GrownFrame ==
    ASSUME Sound, NEW i \in DOMAIN bufs, Frame(i)
    PROVE  /\ Grown /\ DOMAIN log' \subseteq Nat
           /\ \A id \in DOMAIN log' : id \in DOMAIN log \/ Len(log) < id
<1>1. /\ Len(log) \in Nat /\ DOMAIN log = 1..Len(log) /\ DOMAIN log' = 1..(Len(log) + 1)
      /\ \A id \in DOMAIN log : log'[id] = log[id]
      /\ log'[Len(log) + 1] = bufs[i].s
      /\ ~ bufs[i].done
  BY FrameFacts DEF Frame
<1>2. /\ bufs[i].window \in Seq(Nat)
      /\ ToSet(bufs'[i].window) = ToSet(bufs[i].window) \cup {Len(log) + 1}
  <2> DEFINE w == bufs[i].window
  <2>1. w \in Seq(Nat) /\ bufs'[i].window = Append(w, Len(log) + 1) /\ Len(log) + 1 \in Nat
    BY <1>1, FrameFacts
  <2> HIDE DEF w
  <2>2. ToSet(bufs'[i].window) = ToSet(w) \cup {Len(log) + 1}
    BY <2>1, AppendFacts
  <2> QED
    BY <2>1, <2>2 DEF w
<1>3. ASSUME NEW j \in DOMAIN bufs
      PROVE  /\ ToSet(bufs[j].window) \subseteq ToSet(bufs'[j].window)
             /\ \A x \in ToSet(bufs'[j].window) : x \in ToSet(bufs[j].window) \/ (x \in Nat /\ Len(log) < x)
             /\ bufs[j].shared => bufs'[j].shared
  <2>1. bufs[j].shared => bufs'[j].shared
    BY FrameFacts
  <2>2. CASE j = i
    BY <1>1, <1>2, <2>1, <2>2
  <2>3. CASE j # i
    BY <2>1, <2>3, FrameFacts
  <2> QED
    BY <2>2, <2>3
<1>4. ASSUME NEW j \in DOMAIN bufs, ~ bufs'[j].shared, NEW id \in DOMAIN log',
             log'[id] = bufs[j].s, Within(j, id)'
      PROVE  (id \in DOMAIN log /\ Within(j, id)) \/ id \in ToSet(bufs'[j].window)
  <2>1. bufs'[j].done = bufs[j].done
    BY FrameFacts
  <2>2. id \in DOMAIN log \/ id = Len(log) + 1
    BY <1>1
  <2>3. CASE j = i
    BY <1>1, <1>2, <2>2, <2>3 DEF Within
  <2>4. CASE j # i
    <3>1. bufs'[j].window = bufs[j].window
      BY <2>4, FrameFacts
    <3>2. Within(j, id)
      BY <1>4, <2>1, <3>1 DEF Within
    <3>3. CASE id = Len(log) + 1
      <4>1. bufs[j].done
        BY <1>1, <1>4, <2>4, <3>3, FrameFacts
      <4>2. PICK y \in ToSet(bufs[j].window) : id <= y
        BY <3>2, <4>1 DEF Within
      <4>3. y \in DOMAIN log
        BY DEF Sound, BufferSound
      <4> QED
        BY <1>1, <3>3, <4>2, <4>3
    <3> QED
      BY <2>2, <3>2, <3>3
  <2> QED
    BY <2>3, <2>4
<1> QED
  BY <1>1, <1>3, <1>4 DEF Grown

(* A step of the streams: no request moves. *)
LEMMA GapStream ==
    ASSUME Sound, Gapless, Extended, Grown, UNCHANGED conn,
           bufs = <<>> => bufs' = <<>>, DOMAIN bufs' = DOMAIN bufs,
           DOMAIN log' \subseteq Nat, \A id \in DOMAIN log' : id \in DOMAIN log \/ Len(log) < id
    PROVE  Gapless'
<1>1. front' # "proxy" => bufs' = <<>>
  BY DEF Gapless, Extended
<1>2. \A i \in DOMAIN bufs' : NoHole(i)'
  BY HoleKeeps
<1>3. \A c \in Clients : NoGap(c)'
  BY GapKeeps
<1> QED
  BY <1>1, <1>2, <1>3 DEF Gapless

(* A step of one request, which stores nothing. *)
LEMMA GapRequest ==
    ASSUME Sound, Gapless, NEW c \in Clients, NEW o, Go(c, o), UNCHANGED <<front, log, bufs, buffers>>,
           NoGap(c)'
    PROVE  Gapless'
<1>1. Extended
  BY NothingStored
<1>2. /\ Grown /\ DOMAIN log' \subseteq Nat
      /\ \A id \in DOMAIN log' : id \in DOMAIN log \/ Len(log) < id
  BY GrownSame
<1>3. \A i \in DOMAIN bufs' : NoHole(i)'
  BY <1>1, <1>2, HoleKeeps
<1>4. ASSUME NEW d \in Clients, d # c PROVE NoGap(d)'
  <2>1. conn'[d] = conn[d]
    BY <1>4 DEF Go, Sound, Requesting
  <2> QED
    BY <1>1, <1>2, <2>1, GapKeeps
<1>5. front' # "proxy" => bufs' = <<>>
  BY DEF Gapless
<1>6. \A d \in Clients : NoGap(d)'
  BY <1>4
<1> QED
  BY <1>3, <1>5, <1>6 DEF Gapless

(* A step of one request, which opens a buffer. *)
LEMMA GapOpens ==
    ASSUME Sound, Gapless, NEW c \in Clients, NEW o, Go(c, o), UNCHANGED <<front, log>>, front = "proxy",
           Extended, Registry', NoGap(c)',
           \A i \in DOMAIN bufs : bufs'[i] = bufs[i],
           \A i \in DOMAIN bufs' : i \in DOMAIN bufs \/ bufs'[i].window = <<>>
    PROVE  Gapless'
<1>1. /\ Grown /\ DOMAIN log' \subseteq Nat
      /\ \A id \in DOMAIN log' : id \in DOMAIN log \/ Len(log) < id
  BY GrownSame
<1>2. \A i \in DOMAIN bufs' : NoHole(i)'
  <2>1. \A i \in DOMAIN bufs : NoHole(i)'
    BY <1>1, HoleKeeps
  <2>2. ASSUME NEW i \in DOMAIN bufs', bufs'[i].window = <<>> PROVE NoHole(i)'
    BY <2>2, EmptyFacts DEF NoHole
  <2> QED
    BY <2>1, <2>2
<1>3. ASSUME NEW d \in Clients, d # c PROVE NoGap(d)'
  <2>1. conn'[d] = conn[d]
    BY <1>3 DEF Go, Sound, Requesting
  <2> QED
    BY <1>1, <2>1, GapKeeps
<1>4. \A d \in Clients : NoGap(d)'
  BY <1>3
<1> QED
  BY <1>2, <1>4 DEF Gapless

(* A request that starts to read a buffer where the client left off, or    *)
(* that of a client which did not say, has no gap.                         *)
LEMMA AttachedGapless ==
    ASSUME Sound, Sound', NEW c \in Clients, NEW o, NEW b, NEW after, NEW upto,
           Go(c, Attached(o, b, after, upto)), after = o.last, upto = 0
    PROVE  NoGap(c)'
<1> DEFINE a == Attached(o, b, after, upto)
<1>1. a.k = "live" /\ a.cursor = a.last /\ a.upto = 0
  BY DEF Attached
<1>2. conn'[c] = a
  BY DEF Go, Sound, Requesting
<1> HIDE DEF a
<1>3. a \in Serving /\ a.last \in Nat /\ a \notin Scoped /\ a # Away
  <2>1. a \in {Away} \cup Asking \cup Serving \cup Scoped
    BY <1>2 DEF Sound, Requesting
  <2> QED
    BY <1>1, <2>1 DEF Away, Asking, Serving, Scoped
<1>4. \A id \in DOMAIN log' : id \in Nat
  <2>1. log' \in Seq(Streams)
    BY DEF Sound, Registry
  <2>2. DOMAIN log' = 1..Len(log') /\ Len(log') \in Nat
    BY <2>1, LenProperties
  <2> QED
    BY <2>2
<1>5. ASSUME Resumed(c)' PROVE Covered(c)'
  <2>1. a.last # 0
    BY <1>2, <1>5 DEF Resumed
  <2>2. \A id \in DOMAIN log' : a.last < id => ~ (id <= a.cursor \/ id <= a.upto)
    <3>1. ASSUME NEW id \in DOMAIN log', a.last < id, id <= a.last \/ id <= 0 PROVE FALSE
      BY <1>3, <1>4, <2>1, <3>1
    <3> QED
      BY <1>1, <3>1
  <2> QED
    BY <1>1, <1>2, <2>1, <2>2 DEF Covered
<1> QED
  BY <1>1, <1>2, <1>3, <1>5 DEF NoGap

LEMMA FrameGapless ==
    ASSUME Sound, Gapless, UNCHANGED front, NEW i \in DOMAIN bufs, Frame(i)
    PROVE  Gapless'
<1>1. Extended /\ UNCHANGED conn
  BY FrameFacts DEF Extended, Frame
<1>2. bufs # <<>> /\ DOMAIN bufs' = DOMAIN bufs
  BY FrameFacts
<1> QED
  BY <1>1, <1>2, GrownFrame, GapStream

LEMMA EndsGapless ==
    ASSUME Sound, Gapless, UNCHANGED front,
           \/ \E i \in DOMAIN bufs : UpstreamEnds(i) \/ BufferEnds(i)
           \/ CloseAll
    PROVE  Gapless'
<1>1. Extended /\ UNCHANGED <<log, conn>>
  BY SeqFacts, EndsFacts DEF Sound, Extended
<1>2. DOMAIN bufs' = DOMAIN bufs /\ (bufs = <<>> => bufs' = <<>>)
  <2>1. bufs' \in Seq(BufferRecords) /\ bufs \in Seq(BufferRecords) /\ Len(bufs') = Len(bufs)
        /\ DOMAIN bufs' = DOMAIN bufs
    BY EndsFacts DEF Sound, Registry
  <2> QED
    BY <2>1, EmptySeq
<1>3. /\ Grown /\ DOMAIN log' \subseteq Nat
      /\ \A id \in DOMAIN log' : id \in DOMAIN log \/ Len(log) < id
  BY EndsFacts, GrownSame
<1> QED
  BY <1>1, <1>2, <1>3, GapStream

LEMMA ScopedStoreGapless ==
    ASSUME Sound, Gapless, UNCHANGED front, NEW s \in Streams, ScopedStore(s)
    PROVE  Gapless'
<1>1. log' = Append(log, s) /\ UNCHANGED <<bufs, buffers, conn>> /\ bufs = <<>>
  BY DEF ScopedStore, Gapless
<1>2. log \in Seq(Streams) /\ Len(log) \in Nat /\ DOMAIN log = 1..Len(log)
  BY SeqFacts DEF Sound, Registry
<1>3. /\ log' \in Seq(Streams) /\ Len(log') = Len(log) + 1
      /\ \A id \in DOMAIN log : log'[id] = log[id]
      /\ DOMAIN log' = 1..(Len(log) + 1)
  BY <1>1, <1>2, AppendProperties
<1>4. Extended
  BY <1>1, <1>2, <1>3 DEF Extended
<1>5. Grown
  BY <1>1 DEF Grown
<1>6. DOMAIN log' \subseteq Nat /\ \A id \in DOMAIN log' : id \in DOMAIN log \/ Len(log) < id
  BY <1>2, <1>3
<1> QED
  BY <1>1, <1>4, <1>5, <1>6, GapStream

LEMMA PostGapless ==
    ASSUME Sound, Gapless, Sound', UNCHANGED front, NEW c \in Clients, NEW sess \in Sessions,
           NEW cred \in Credentials, Post(c, sess, cred)
    PROVE  Gapless'
<1> DEFINE o == [sess |-> sess, cred |-> cred, last |-> 0, got |-> <<>>]
<1>1. CASE cred \in Accepts[sess]
  <2>1. /\ Opens(<<sess, "post">>, cred) /\ UNCHANGED log /\ front = "proxy"
        /\ Go(c, Attached(o, Len(bufs) + 1, 0, 0))
    BY <1>1 DEF Post
  <2>2. o.last = 0
    OBVIOUS
  <2> HIDE DEF o
  <2>3. NoGap(c)'
    BY <2>1, <2>2, AttachedGapless
  <2>4. /\ Registry' /\ Extended
        /\ \A i \in DOMAIN bufs : bufs'[i] = bufs[i]
        /\ bufs'[Len(bufs) + 1].window = <<>>
    BY <1>1, <2>1, OpensSound
  <2>5. \A i \in DOMAIN bufs' : i \in DOMAIN bufs \/ i = Len(bufs) + 1
    BY <2>1, SeqFacts DEF Opens, Sound, Registry
  <2> QED
    BY <2>1, <2>3, <2>4, <2>5, GapOpens
<1>2. CASE cred \notin Accepts[sess]
  <2>1. UNCHANGED <<log, bufs, buffers, conn>>
    BY <1>2 DEF Post
  <2>2. UNCHANGED <<front, log, bufs, buffers>>
    BY <2>1
  <2>3. /\ Grown /\ DOMAIN log' \subseteq Nat
        /\ \A id \in DOMAIN log' : id \in DOMAIN log \/ Len(log) < id
    BY <2>1, GrownSame
  <2> QED
    BY <2>1, <2>2, <2>3, NothingStored, GapStream
<1> QED
  BY <1>1, <1>2

(* A client whose request is not served has no gap. *)
LEMMA AskingGapless ==
    ASSUME Sound, NEW c \in Clients, NEW o, Go(c, o), o = Away \/ o.k = "ask" \/ o.k = "replay"
    PROVE  NoGap(c)'
<1>1. conn'[c] = o
  BY DEF Go, Sound, Requesting
<1>2. o # Away => o \notin Serving /\ o \notin Scoped
  BY DEF Serving, Scoped
<1> QED
  BY <1>1, <1>2 DEF NoGap

LEMMA GetGapless ==
    ASSUME Sound, Gapless, Sound', UNCHANGED front, NEW c \in Clients, NEW sess \in Sessions,
           NEW cred \in Credentials, NEW last \in 0..Len(log), Get(c, sess, cred, last)
    PROVE  Gapless'
<1> DEFINE b == buffers[<<sess, "get">>]
           live == IF b # 0 /\ ~ bufs[b].done THEN b ELSE 0
           o == [k |-> "ask", sess |-> sess, cred |-> cred, last |-> last, got |-> <<>>, live |-> live]
<1>1. /\ Go(c, IF Shares(live, cred) THEN Attached(o, live, last, 0) ELSE o)
      /\ UNCHANGED <<front, log, bufs, buffers>>
  BY DEF Get
<1>2. o.last = last /\ o.k = "ask"
  OBVIOUS
<1> HIDE DEF live, o
<1>3. CASE Shares(live, cred)
  <2>1. Go(c, Attached(o, live, last, 0))
    BY <1>1, <1>3
  <2> QED
    BY <1>1, <1>2, <2>1, AttachedGapless, GapRequest
<1>4. CASE ~ Shares(live, cred)
  <2>1. Go(c, o)
    BY <1>1, <1>4
  <2> QED
    BY <1>1, <1>2, <2>1, AskingGapless, GapRequest
<1> QED
  BY <1>3, <1>4

LEMMA ConflictGapless ==
    ASSUME Sound, Gapless, Sound', UNCHANGED front, NEW c \in Clients, Conflict(c)
    PROVE  Gapless'
<1> DEFINE o == conn[c]
<1>1. /\ Go(c, Attached(o, o.live, o.last, 0))
      /\ UNCHANGED <<front, log, bufs, buffers>>
  BY DEF Conflict
<1> HIDE DEF o
<1> QED
  BY <1>1, AttachedGapless, GapRequest

LEMMA AcceptedGapless ==
    ASSUME Sound, Gapless, Sound', UNCHANGED front, NEW c \in Clients, Accepted(c)
    PROVE  Gapless'
<1> DEFINE o == conn[c]
           new == Len(bufs) + 1
           waiting == [o EXCEPT !.k = "replay", !.live = new]
<1>1. /\ o.k = "ask" /\ o.cred \in Accepts[o.sess] /\ ~ Busy(o.sess)
      /\ Opens(<<o.sess, "get">>, o.cred)
      /\ Go(c, IF o.live = 0 /\ o.last # 0 THEN waiting ELSE Attached(o, new, o.last, 0))
      /\ UNCHANGED <<front, log>>
  BY DEF Accepted
<1>2. o.sess \in Sessions /\ front = "proxy"
  BY <1>1, AskingFacts
<1>3. /\ Registry' /\ Extended
      /\ \A i \in DOMAIN bufs : bufs'[i] = bufs[i]
      /\ bufs'[Len(bufs) + 1].window = <<>>
  BY <1>1, <1>2, OpensSound
<1>4. \A i \in DOMAIN bufs' : i \in DOMAIN bufs \/ i = Len(bufs) + 1
  BY <1>1, SeqFacts DEF Opens, Sound, Registry
<1>5. waiting.k = "replay"
  BY <1>1, AskingFacts DEF Asking
<1> HIDE DEF waiting, new, o
<1>6. CASE o.live = 0 /\ o.last # 0
  <2>1. Go(c, waiting)
    BY <1>1, <1>6
  <2> QED
    BY <1>1, <1>2, <1>3, <1>4, <1>5, <2>1, AskingGapless, GapOpens
<1>7. CASE ~ (o.live = 0 /\ o.last # 0)
  <2>1. Go(c, Attached(o, new, o.last, 0))
    BY <1>1, <1>7
  <2> QED
    BY <1>1, <1>2, <1>3, <1>4, <2>1, AttachedGapless, GapOpens
<1> QED
  BY <1>6, <1>7

LEMMA ReplayedGapless ==
    ASSUME Sound, Gapless, Sound', UNCHANGED front, NEW c \in Clients, Replayed(c)
    PROVE  Gapless'
<1> DEFINE o == conn[c]
           sent == ReplayOf(o.last, OwnedBy(o.sess))
           p == [o EXCEPT !.got = sent]
           a == Attached(p, o.live, 0, LastOf(sent, 0))
<1>1. /\ o.k = "replay" /\ Go(c, a)
      /\ UNCHANGED <<front, log, bufs, buffers>>
  BY DEF Replayed
<1>2. o \in Asking /\ o.last \in Nat /\ o.last <= Len(log) /\ o.sess \in Sessions /\ Len(log) \in Nat
  BY <1>1, AskingFacts
<1>3. /\ a.k = "live" /\ a.last = o.last /\ a.sess = o.sess /\ a.got = sent /\ a.cursor = 0
      /\ a.upto = LastOf(sent, 0)
  BY <1>2 DEF Attached, Asking
<1>4. a # Away /\ a \notin Scoped
  BY <1>3 DEF Away, Scoped
<1>5. conn'[c] = a
  BY <1>1 DEF Go, Sound, Requesting
<1>6. DOMAIN log = 1..Len(log) /\ \A id \in DOMAIN log : id \in Nat
  BY SeqFacts DEF Sound
<1>7. /\ sent \in Seq(Nat) /\ Increasing(sent)
      /\ ToSet(sent) = IF o.last \in DOMAIN log /\ log[o.last] \in OwnedBy(o.sess)
                       THEN {i \in DOMAIN log : i > o.last /\ log[i] = log[o.last]} ELSE {}
  BY <1>2, ReplayFacts DEF Sound
<1>8. LastOf(sent, 0) \in Nat /\ \A id \in ToSet(sent) : id <= LastOf(sent, 0)
  <2> HIDE DEF sent
  <2> QED
    BY <1>7, LastOfFacts
<1> HIDE DEF sent, p, a, o
<1>9. ASSUME Resumed(c)' PROVE Covered(c)'
  <2>1. o.last # 0 /\ log[o.last] = Standalone(o.sess)
    BY <1>1, <1>3, <1>5, <1>9 DEF Resumed
  <2>2. o.last \in DOMAIN log /\ log[o.last] \in OwnedBy(o.sess)
    BY <1>2, <1>6, <2>1 DEF OwnedBy, Owns, Standalone, Streams
  <2>3. \A id \in DOMAIN log : o.last < id /\ log[id] = log[o.last] =>
             id \in ToSet(sent) /\ id <= LastOf(sent, 0)
    BY <1>2, <1>6, <1>7, <1>8, <2>2
  <2>4. UNCHANGED log
    BY <1>1
  <2> QED
    BY <1>3, <1>5, <1>6, <1>8, <2>3, <2>4 DEF Covered
<1>10. NoGap(c)'
  BY <1>3, <1>4, <1>5, <1>9 DEF NoGap
<1> QED
  BY <1>1, <1>10, GapRequest

(* What a client has still to read of a stream is above what it has read,  *)
(* and all of it up to the last event it reads next.                       *)
LEMMA NextReadComplete ==
    ASSUME Sound, Gapless, NEW c \in Clients, conn[c].k = "live", Resumed(c), ~ bufs[conn[c].b].shared,
           NEW id \in DOMAIN log, log[id] = log[conn[c].last], conn[c].last < id,
           NEW y \in ToSet(NextRead(c)), id <= y
    PROVE  id \in ToSet(conn[c].got) \/ (id \in ToSet(NextRead(c)) /\ conn[c].upto < id)
<1> DEFINE o == conn[c]
           w == bufs[o.b].window
           cur == o.cursor
<1>1. /\ o \in Serving /\ ServingSound(c) /\ bufs[o.b] \in BufferRecords /\ BufferSound(o.b)
      /\ o.b \in DOMAIN bufs /\ NoHole(o.b)
  BY ServingFacts DEF ServingSound, Gapless
<1>2. /\ cur \in Nat /\ o.upto \in Nat /\ w \in Seq(Nat) /\ Increasing(w) /\ id \in Nat /\ o.last \in Nat
      /\ \A x \in ToSet(w) : x \in DOMAIN log /\ x \in Nat
      /\ bufs[o.b].s = log[o.last] /\ y \in DOMAIN log /\ y \in Nat
      /\ cur <= Len(log) /\ Len(log) \in Nat /\ DOMAIN log = 1..Len(log)
  <2>1. DOMAIN log = 1..Len(log) /\ Len(log) \in Nat
    BY SeqFacts DEF Sound
  <2>2. y \in DOMAIN log
    BY NextReadFacts
  <2> QED
    BY <1>1, <2>1, <2>2 DEF Serving, BufferRecords, BufferSound, ServingSound, Resumed
<1>3. Covered(c)
  <2>1. NoGap(c) /\ o # Away
    BY DEF Gapless, Away
  <2> QED
    BY <1>1, <2>1 DEF NoGap
<1>4. CASE id <= cur \/ id <= o.upto
  BY <1>3, <1>4 DEF Covered
<1>5. CASE cur < id /\ o.upto < id
  <2>1. CASE NextReplay(c) # <<>>
    <3> DEFINE streams == {bufs[o.b].s}
    <3>1. NextRead(c) = ReplayOf(cur, streams)
      BY <2>1 DEF NextRead, NextReplay
    <3>2. cur # 0
      BY <2>1 DEF NextReplay, NextCold
    <3>3. cur \in DOMAIN log /\ log[cur] = log[o.last] /\ log[cur] \in streams
      BY <1>2, <1>3, <3>2 DEF Covered
    <3> HIDE DEF streams, cur
    <3>4. ToSet(ReplayOf(cur, streams)) = IF cur \in DOMAIN log /\ log[cur] \in streams
                                THEN {i \in DOMAIN log : i > cur /\ log[i] = log[cur]} ELSE {}
      BY <1>2, ReplayFacts DEF Sound
    <3> QED
      BY <1>2, <1>5, <3>1, <3>3, <3>4
  <2>2. CASE NextReplay(c) = <<>>
    <3>1. NextRead(c) = Above(w, cur)
      BY <2>2 DEF NextRead
    <3> HIDE DEF w, cur
    <3>2. ToSet(NextRead(c)) = {x \in ToSet(w) : x > cur}
      BY <1>2, <3>1, AboveFacts
    <3>3. Within(o.b, id)
      BY <3>2 DEF Within, w
    <3>4. y \in ToSet(w) /\ cur < y
      BY <1>2, <3>2
    <3>5. id \in ToSet(w)
      <4>1. CASE cur = 0
        BY <1>3, <1>5, <3>3, <4>1 DEF Covered, w, cur
      <4>2. CASE cur # 0 /\ w # <<>> /\ ~ (cur < Head(w))
        <5>1. Head(w) \in ToSet(w) /\ Head(w) <= id
          <6>1. Head(w) \in Nat /\ ToSet(w) = {Head(w)} \cup ToSet(Tail(w))
            BY <1>2, <4>2, HeadFacts
          <6> QED
            BY <1>2, <1>5, <4>2, <6>1
        <5> QED
          BY <1>1, <1>2, <3>3, <5>1 DEF NoHole, w
      <4>3. CASE cur # 0 /\ (w = <<>> \/ cur < Head(w))
        <5> DEFINE streams == {bufs[o.b].s}
        <5>1. NextCold(c)
          BY <4>3 DEF NextCold, w, cur
        <5>2. ReplayOf(cur, streams) = <<>>
          BY <2>2, <5>1 DEF NextReplay, cur
        <5>3. cur \in DOMAIN log /\ log[cur] = log[o.last] /\ log[cur] \in streams
          BY <1>2, <1>3, <4>3 DEF Covered, cur
        <5> HIDE DEF streams
        <5>4. /\ ToSet(ReplayOf(cur, streams)) = IF cur \in DOMAIN log /\ log[cur] \in streams
                                THEN {i \in DOMAIN log : i > cur /\ log[i] = log[cur]} ELSE {}
              /\ ReplayOf(cur, streams) = <<>> <=> ToSet(ReplayOf(cur, streams)) = {}
          BY <1>2, ReplayFacts DEF Sound
        <5> QED
          BY <1>2, <1>5, <5>2, <5>3, <5>4
      <4> QED
        BY <4>1, <4>2, <4>3
    <3> QED
      BY <1>2, <1>5, <3>2, <3>5
  <2> QED
    BY <1>5, <2>1, <2>2
<1> QED
  BY <1>2, <1>4, <1>5

LEMMA ConsumesGapless ==
    ASSUME Sound, Gapless, UNCHANGED front, NEW c \in Clients, Consumes(c)
    PROVE  Gapless'
<1> DEFINE o == conn[c]
           next == NextRead(c)
           more == Above(next, o.upto)
           over == [o EXCEPT !.k = "over"]
           on == [o EXCEPT !.cursor = LastOf(next, 0), !.got = o.got \o more]
<1>1. /\ o.k = "live" /\ UNCHANGED <<front, log, bufs, buffers>>
      /\ next = <<>> => Go(c, over)
      /\ next # <<>> => Go(c, on)
  BY ConsumesFacts
<1>2. /\ o \in Serving /\ ServingSound(c) /\ o # Away /\ o \notin Scoped
  BY <1>1, ServingFacts DEF Away, Serving, Scoped
<1>3. /\ o.last \in Nat /\ o.got \in Seq(Nat) /\ o.cursor \in Nat /\ o.upto \in Nat
      /\ \A x \in ToSet(o.got) : x \in Nat /\ (x <= o.cursor \/ x <= o.upto)
      /\ \A id \in DOMAIN log : id \in Nat
      /\ Increasing(o.got)
  BY <1>2, SeqFacts, ToSetDef DEF Serving, ServingSound, SentSound, Sound
<1>4. /\ next \in Seq(Nat) /\ Increasing(next)
      /\ \A id \in ToSet(next) : id \in DOMAIN log /\ o.cursor < id /\ log[id] = bufs[o.b].s
  BY <1>1, NextReadFacts
<1>5. Resumed(c) /\ ~ bufs[o.b].shared => Covered(c) /\ bufs[o.b].s = log[o.last]
  BY <1>1, <1>2 DEF Gapless, NoGap, ServingSound, Resumed
<1>6. CASE next = <<>>
  <2>1. Go(c, over) /\ conn'[c] = over
    BY <1>1, <1>6 DEF Go, Sound, Requesting
  <2>2. /\ over.k = "over" /\ over.last = o.last /\ over.sess = o.sess /\ over.got = o.got /\ over.b = o.b
        /\ over # Away /\ over \notin Scoped
    <3>1. o.b # 0
      BY <1>2, SeqFacts DEF ServingSound, Sound
    <3>2. over.k = "over" /\ over.last = o.last /\ over.sess = o.sess /\ over.got = o.got /\ over.b = o.b
      BY <1>2 DEF Serving
    <3> QED
      BY <3>1, <3>2 DEF Scoped, Away
  <2> HIDE DEF over
  <2>3. ASSUME Resumed(c), ~ bufs[o.b].shared PROVE Complete(c)'
    <3> SUFFICES ASSUME NEW id \in DOMAIN log, o.last < id, log[id] = log[o.last],
                        NEW y \in ToSet(o.got), id <= y
                 PROVE  id \in ToSet(o.got)
      BY <1>1, <2>1, <2>2 DEF Complete
    <3> QED
      BY <1>3, <1>5, <2>3 DEF Covered
  <2>4. NoGap(c)'
    BY <1>1, <2>1, <2>2, <2>3 DEF NoGap, Resumed
  <2> QED
    BY <1>1, <2>1, <2>4, GapRequest
<1>7. CASE next # <<>>
  <2>1. Go(c, on) /\ conn'[c] = on
    BY <1>1, <1>7 DEF Go, Sound, Requesting
  <2>2. /\ on.k = "live" /\ on.last = o.last /\ on.sess = o.sess /\ on.got = o.got \o more /\ on.b = o.b
        /\ on.cursor = LastOf(next, 0) /\ on.upto = o.upto /\ on # Away /\ on \notin Scoped
    BY <1>1, <1>2 DEF Serving, Scoped, Away
  <2>3. /\ more \in Seq(Nat) /\ ToSet(more) = {x \in ToSet(next) : x > o.upto}
    BY <1>3, <1>4, AboveFacts
  <2>4. ToSet(o.got \o more) = ToSet(o.got) \cup ToSet(more)
    <3> HIDE DEF more, o
    <3> QED
      BY <1>3, <2>3, ToSetConcat
  <2>5. /\ LastOf(next, 0) \in Nat /\ LastOf(next, 0) \in ToSet(next)
        /\ \A x \in ToSet(next) : x <= LastOf(next, 0)
    BY <1>4, <1>7, LastOfFacts
  <2>6. LastOf(next, 0) # 0 /\ o.cursor < LastOf(next, 0)
    BY <1>3, <1>4, <2>5
  <2> HIDE DEF on, more
  <2>7. ASSUME Resumed(c), ~ bufs[o.b].shared PROVE Covered(c)'
    <3>1. log[LastOf(next, 0)] = log[o.last]
      BY <1>4, <1>5, <2>5, <2>7
    <3>2. ASSUME NEW id \in DOMAIN log, o.last < id, log[id] = log[o.last],
                 id <= LastOf(next, 0) \/ id <= o.upto
          PROVE  id \in ToSet(o.got) \cup ToSet(more)
      <4>1. CASE id <= o.upto
        BY <1>5, <2>7, <3>2, <4>1 DEF Covered
      <4>2. CASE id <= LastOf(next, 0)
        <5>1. id \in ToSet(o.got) \/ (id \in ToSet(next) /\ o.upto < id)
          BY <1>1, <2>5, <2>7, <3>2, <4>2, NextReadComplete
        <5> QED
          BY <1>3, <2>3, <5>1
      <4> QED
        BY <3>2, <4>1, <4>2
    <3> QED
      BY <1>1, <2>1, <2>2, <2>4, <2>6, <3>1, <3>2 DEF Covered
  <2>8. NoGap(c)'
    BY <1>1, <2>1, <2>2, <2>7 DEF NoGap, Resumed
  <2> QED
    BY <1>1, <2>1, <2>8, GapRequest
<1> QED
  BY <1>6, <1>7

LEMMA ScopedGapless ==
    ASSUME Sound, Gapless, UNCHANGED front, NEW c \in Clients,
           \/ \E sess \in Sessions, last \in 1..Len(log) : ScopedResume(c, sess, last)
           \/ ScopedLook(c) \/ ScopedReplay(c)
    PROVE  Gapless'
<1>1. CASE \E sess \in Sessions, last \in 1..Len(log) : ScopedResume(c, sess, last)
  <2>1. PICK sess \in Sessions, last \in 1..Len(log) : ScopedResume(c, sess, last)
    BY <1>1
  <2>2. PICK known \in BOOLEAN, cred \in Accepts[sess] :
          Go(c, [k |-> IF known THEN "look" ELSE "collect", sess |-> sess, cred |-> cred,
                 last |-> last, got |-> <<>>, b |-> 0])
    BY <2>1 DEF ScopedResume
  <2> DEFINE o == [k |-> IF known THEN "look" ELSE "collect", sess |-> sess, cred |-> cred,
                   last |-> last, got |-> <<>>, b |-> 0]
  <2>3. o.got = <<>> /\ o \notin Serving
    BY DEF Serving
  <2>4. conn'[c] = o /\ Go(c, o)
    BY <2>2 DEF Go, Sound, Requesting
  <2> HIDE DEF o
  <2>5. NoGap(c)'
    BY <2>3, <2>4, EmptyFacts DEF NoGap, Complete
  <2>6. UNCHANGED <<front, log, bufs, buffers>>
    BY <2>1 DEF ScopedResume
  <2> QED
    BY <2>4, <2>5, <2>6, GapRequest
<1>2. CASE ScopedLook(c)
  <2> DEFINE o == [conn[c] EXCEPT !.k = IF conn[c].last \in DOMAIN log /\ Owns(log[conn[c].last], conn[c].sess)
                                        THEN "owned" ELSE "over"]
  <2>1. conn[c].k = "look" /\ Go(c, o) /\ UNCHANGED <<front, log, bufs, buffers>>
    BY <1>2 DEF ScopedLook
  <2>2. conn[c] \in Scoped /\ conn[c].got = <<>>
    BY <2>1, ScopedFacts DEF ScopedSound
  <2>3. o.got = <<>> /\ o \in Scoped
    BY <2>2 DEF Scoped
  <2>4. conn'[c] = o /\ o \notin Serving
    BY <2>1, <2>3 DEF Go, Sound, Requesting, Scoped, Serving
  <2> HIDE DEF o
  <2>5. NoGap(c)'
    BY <2>3, <2>4, EmptyFacts DEF NoGap, Complete
  <2> QED
    BY <2>1, <2>5, GapRequest
<1>3. CASE ScopedReplay(c)
  <2> DEFINE o == conn[c]
             asked == IF o.k = "owned" THEN Streams ELSE OwnedBy(o.sess)
             sent == ReplayOf(o.last, asked)
             p == [o EXCEPT !.k = "over", !.got = sent]
  <2>1. o.k \in {"owned", "collect"} /\ Go(c, p) /\ UNCHANGED <<front, log, bufs, buffers>>
    BY <1>3 DEF ScopedReplay
  <2>2. o \in Scoped /\ o.last \in Nat /\ o.last <= Len(log) /\ o.sess \in Sessions
    BY <2>1, ScopedFacts DEF Scoped
  <2>3. Resumed(c) => o.last \in DOMAIN log /\ log[o.last] \in asked
    <3>1. DOMAIN log = 1..Len(log) /\ Len(log) \in Nat
      BY SeqFacts DEF Sound
    <3> QED
      BY <2>2, <3>1 DEF Resumed, Standalone, OwnedBy, Owns, Streams
  <2> HIDE DEF asked
  <2>4. ToSet(sent) = IF o.last \in DOMAIN log /\ log[o.last] \in asked
                      THEN {i \in DOMAIN log : i > o.last /\ log[i] = log[o.last]} ELSE {}
    BY <2>2, ReplayFacts DEF Sound
  <2> HIDE DEF sent
  <2>5. /\ p.last = o.last /\ p.sess = o.sess /\ p.got = sent /\ p.b = 0 /\ p.k = "over"
        /\ p # Away /\ p \notin Serving
    BY <2>2 DEF Scoped, Serving, Away
  <2>6. conn'[c] = p
    BY <2>1 DEF Go, Sound, Requesting
  <2> HIDE DEF p, o
  <2>7. ASSUME Resumed(c)' PROVE Complete(c)'
    <3>1. o.last # 0 /\ log[o.last] = Standalone(o.sess)
      BY <2>1, <2>5, <2>6, <2>7 DEF Resumed
    <3>2. o.last \in DOMAIN log /\ log[o.last] \in asked
      BY <2>3, <3>1 DEF Resumed, o
    <3>3. \A id \in DOMAIN log : id \in Nat
      BY SeqFacts DEF Sound
    <3> QED
      BY <2>1, <2>2, <2>4, <2>5, <2>6, <3>2, <3>3 DEF Complete
  <2>8. NoGap(c)'
    BY <2>5, <2>6, <2>7 DEF NoGap
  <2> QED
    BY <2>1, <2>8, GapRequest
<1> QED
  BY <1>1, <1>2, <1>3

LEMMA GaplessInit == Init => Gapless
<1> SUFFICES ASSUME Init PROVE Gapless
  OBVIOUS
<1>1. bufs = <<>> /\ \A c \in Clients : conn[c] = Away
  BY DEF Init
<1>2. DOMAIN bufs = {}
  BY <1>1
<1> QED
  BY <1>1, <1>2 DEF Gapless, NoGap

LEMMA GaplessStep == Sound /\ Gapless /\ Sound' /\ [Next]_vars => Gapless'
<1> SUFFICES ASSUME Sound, Gapless, Sound', [Next]_vars PROVE Gapless'
  OBVIOUS
<1>1. CASE UNCHANGED vars
  <2>1. UNCHANGED <<front, log, bufs, buffers>> /\ UNCHANGED conn
    BY <1>1 DEF vars
  <2>2. Extended
    BY <2>1, NothingStored
  <2>3. /\ Grown /\ DOMAIN log' \subseteq Nat
        /\ \A id \in DOMAIN log' : id \in DOMAIN log \/ Len(log) < id
    BY <2>1, GrownSame
  <2> QED
    BY <2>1, <2>2, <2>3, GapStream
<1>2. CASE Next
  <2> USE <1>2 DEF Next
  <2>1. UNCHANGED front
    OBVIOUS
  <2>2. CASE \E i \in DOMAIN bufs : Frame(i) \/ UpstreamEnds(i) \/ BufferEnds(i)
    BY <2>1, <2>2, FrameGapless, EndsGapless
  <2>3. CASE CloseAll
    BY <2>1, <2>3, EndsGapless
  <2>4. CASE \E c \in Clients, sess \in Sessions, cred \in Credentials : Post(c, sess, cred)
    BY <2>1, <2>4, PostGapless
  <2>5. CASE \E c \in Clients, sess \in Sessions, cred \in Credentials, last \in 0..Len(log) :
                 Get(c, sess, cred, last)
    BY <2>1, <2>5, GetGapless
  <2>6. CASE \E c \in Clients : Refused(c) \/ Leaves(c)
    <3>1. PICK c \in Clients : Refused(c) \/ Leaves(c)
      BY <2>6
    <3>2. Go(c, Away) /\ UNCHANGED <<front, log, bufs, buffers>>
      BY <2>1, <3>1 DEF Refused, Leaves
    <3> QED
      BY <3>2, AskingGapless, GapRequest
  <2>7. CASE \E c \in Clients : Conflict(c) \/ Accepted(c) \/ Replayed(c) \/ Consumes(c)
    BY <2>1, <2>7, ConflictGapless, AcceptedGapless, ReplayedGapless, ConsumesGapless
  <2>8. CASE \E s \in Streams : ScopedStore(s)
    BY <2>1, <2>8, ScopedStoreGapless
  <2>9. CASE \/ \E c \in Clients, sess \in Sessions, last \in 1..Len(log) : ScopedResume(c, sess, last)
             \/ \E c \in Clients : ScopedLook(c) \/ ScopedReplay(c)
    BY <2>1, <2>9, ScopedGapless
  <2> QED
    BY <2>2, <2>3, <2>4, <2>5, <2>6, <2>7, <2>8, <2>9 DEF ProxyNext, ScopedNext
<1> QED
  BY <1>1, <1>2

LEMMA GaplessAlways == Spec => [](Sound /\ Gapless)
<1>1. Init => Sound /\ Gapless
  BY SoundInit, GaplessInit
<1>2. (Sound /\ Gapless) /\ [Next]_vars => (Sound /\ Gapless)'
  BY SoundStep, GaplessStep
<1> QED
  BY <1>1, <1>2, PTL DEF Spec

(* A request that has ended, or is being served, and resumed the           *)
(* standalone stream.                                                      *)
LEMMA SentComplete ==
    ASSUME Sound, Gapless, NEW c \in Clients, conn[c].k \in {"live", "over"}, Resumed(c),
           ~ (front = "proxy" /\ bufs[conn[c].b].shared)
    PROVE  Complete(c)
<1>1. conn[c] # Away /\ conn[c] \notin Asking /\ NoGap(c) /\ RequestSound(c)
  BY DEF Away, Asking, Gapless, Sound
<1>2. CASE conn[c] \in Scoped
  BY <1>1, <1>2 DEF NoGap
<1>3. CASE conn[c] \in Serving /\ ServingSound(c) /\ conn[c].k = "over"
  BY <1>1, <1>3 DEF NoGap, ServingSound
<1>4. CASE conn[c] \in Serving /\ ServingSound(c) /\ conn[c].k = "live"
  <2>1. Covered(c)
    BY <1>1, <1>4 DEF NoGap, ServingSound
  <2>2. \A id \in DOMAIN log : id \in Nat
    BY SeqFacts DEF Sound
  <2>3. \A y \in ToSet(conn[c].got) : y \in Nat /\ (y <= conn[c].cursor \/ y <= conn[c].upto)
    BY <1>4, <2>2 DEF ServingSound, SentSound
  <2>4. conn[c].cursor \in Nat /\ conn[c].upto \in Nat
    BY <1>4 DEF Serving
  <2> SUFFICES ASSUME NEW id \in DOMAIN log, conn[c].last < id, log[id] = log[conn[c].last],
                      NEW y \in ToSet(conn[c].got), id <= y
               PROVE  id \in ToSet(conn[c].got)
    BY DEF Complete
  <2>5. id <= conn[c].cursor \/ id <= conn[c].upto
    BY <2>2, <2>3, <2>4
  <2> QED
    BY <2>1, <2>5 DEF Covered
<1> QED
  BY <1>1, <1>2, <1>3, <1>4 DEF RequestSound

(* A client that resumed the standalone stream of its session misses no    *)
(* event of it below one it was sent, through the request that asked the   *)
(* upstream, the replay, the window and the store behind the window        *)
(* (proxy.py, _handle_get, _replay_then_live; stream_buffer.py,            *)
(* consume_from), unless two buffers fed the stream at once.               *)
THEOREM NothingSkipped == Spec => []NoGapOnResume
<1>1. Sound /\ Gapless => NoGapOnResume
  <2> SUFFICES ASSUME Sound, Gapless, NEW c \in Clients,
                      conn[c].k \in {"live", "over"}, conn[c].last # 0,
                      log[conn[c].last] = <<conn[c].sess, "get">>,
                      ~ (front = "proxy" /\ bufs[conn[c].b].shared),
                      NEW i \in (conn[c].last + 1)..LastOf(conn[c].got, 0),
                      log[i] = log[conn[c].last]
               PROVE  \E n \in DOMAIN conn[c].got : conn[c].got[n] = i
    BY DEF NoGapOnResume
  <2>1. conn[c] # Away
    BY DEF Away
  <2>2. conn[c].got \in Seq(Nat) /\ SentSound(c)
    BY <2>1, SentFacts
  <2>3. Complete(c)
    BY SentComplete DEF Resumed, Standalone
  <2>4. conn[c].last \in Nat /\ DOMAIN log = 1..Len(log) /\ Len(log) \in Nat
    BY <2>1, SeqFacts DEF Sound, Requesting, Asking, Serving, Scoped
  <2>5. conn[c].got # <<>>
    BY <2>4 DEF LastOf
  <2>6. LastOf(conn[c].got, 0) \in Nat /\ LastOf(conn[c].got, 0) \in ToSet(conn[c].got)
    BY <2>2, <2>5, LastOfFacts DEF SentSound
  <2>7. LastOf(conn[c].got, 0) \in DOMAIN log
    BY <2>2, <2>6 DEF SentSound
  <2>8. i \in DOMAIN log /\ conn[c].last < i /\ i <= LastOf(conn[c].got, 0)
    BY <2>4, <2>6, <2>7
  <2>9. i \in ToSet(conn[c].got)
    BY <2>3, <2>6, <2>8 DEF Complete
  <2> QED
    BY <2>2, <2>9, ToSetDef
<1> QED
  BY <1>1, GaplessAlways, PTL
===============================================================================
