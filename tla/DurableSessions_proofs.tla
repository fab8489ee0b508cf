------------------------ MODULE DurableSessions_proofs ------------------------
(***************************************************************************)
(* Proofs about DurableSessions, for any number of workers, sessions,      *)
(* requests and principals, on each of the three registries.               *)
(***************************************************************************)
EXTENDS DurableSessions, TLAPS

(* What a registry call and a request in progress are made of. *)
Calls == [op : {"hook", "register", "touch", "terminate"}, s : Sessions, step : 1..RegisterSteps,
          who : {Absent} \cup Principals]
AdminCalls == [op : {"purge"}, s : SUBSET Sessions] \cup [op : {"unlist"}, s : Sessions]
Kept == [pc : PCs, w : Workers, s : Sessions, who : Principals, kind : {"open", "use", "delete"},
         via : {"sdk", "adopt"}, known : BOOLEAN, registered : BOOLEAN, refused : BOOLEAN,
         handshake : BOOLEAN]
Transports == [owner : {Absent} \cup Principals, hooked : BOOLEAN, initialized : BOOLEAN]

EntriesTyped == \A w \in Workers, s \in Sessions : table[w][s] = "none" <=> transport[w][s] = NoTransport
RequestsTyped == req \in [Requests -> {Free} \cup Kept]
CallsTyped == /\ call \in [Callers -> {NoCall} \cup Calls \cup AdminCalls]
              /\ \A c \in Callers : c # Admin => call[c] \in {NoCall} \cup Calls
TablesTyped == /\ table \in [Workers -> [Sessions -> {"none", "live", "ended"}]]
               /\ transport \in [Workers -> [Sessions -> Transports]]
               /\ EntriesTyped
HistoryTyped == /\ creator \in [Sessions -> {Absent} \cup Principals]
                /\ answered \in SUBSET Sessions /\ causes \in SUBSET Sessions /\ lost \in SUBSET Sessions
                /\ gone \in SUBSET Sessions /\ endWritten \in SUBSET Sessions
                /\ ended \subseteq causes
StoreTyped == backend \in Backends /\ reg \in [Sessions -> Rows] /\ legacy \in [Sessions -> SUBSET BOOLEAN]

Typed == /\ StoreTyped /\ CallsTyped /\ TablesTyped /\ RequestsTyped /\ HistoryTyped
         /\ phase \in [Workers -> {"up", "stopping", "down"}]

-------------------------------------------------------------------------------
(* What the parts of a step do. *)

Busy(r) == req[r].pc # "free"

LEMMA BusyFacts ==
    ASSUME Typed, NEW r \in Requests, Busy(r)
    PROVE  req[r] \in Kept
BY DEF Typed, RequestsTyped, Busy, Free

(* The request of r is the only one that moves. *)
OnlyRequest(r) == \A q \in Requests : q # r => req'[q] = req[q]
OnlyCall(c) == \A d \in Callers : d # c => call'[d] = call[d]

LEMMA AtFacts ==
    ASSUME Typed, NEW r \in Requests, Busy(r), NEW pc \in PCs, At(r, pc)
    PROVE  /\ req' \in [Requests -> {Free} \cup Kept] /\ OnlyRequest(r)
           /\ req'[r] = [req[r] EXCEPT !.pc = pc] /\ req'[r] \in Kept
           /\ req'[r].pc = pc
           /\ req'[r].w = req[r].w /\ req'[r].s = req[r].s /\ req'[r].who = req[r].who
           /\ req'[r].kind = req[r].kind /\ req'[r].via = req[r].via /\ req'[r].known = req[r].known
           /\ req'[r].registered = req[r].registered /\ req'[r].refused = req[r].refused
           /\ req'[r].handshake = req[r].handshake
<1>1. req \in [Requests -> {Free} \cup Kept] /\ req[r] \in Kept
  BY BusyFacts DEF Typed, RequestsTyped
<1>2. req' = [req EXCEPT ![r] = [req[r] EXCEPT !.pc = pc]]
  BY DEF At
<1>3. [req[r] EXCEPT !.pc = pc] \in Kept
  BY <1>1 DEF Kept
<1>4. /\ req' \in [Requests -> {Free} \cup Kept] /\ OnlyRequest(r)
      /\ req'[r] = [req[r] EXCEPT !.pc = pc] /\ req'[r] \in Kept
  BY <1>1, <1>2, <1>3 DEF OnlyRequest
<1> QED
  BY <1>1, <1>4 DEF Kept

LEMMA EndsFacts ==
    ASSUME Typed, NEW r \in Requests, Ends(r)
    PROVE  /\ req' \in [Requests -> {Free} \cup Kept] /\ OnlyRequest(r) /\ req'[r] = Free
BY DEF Typed, RequestsTyped, Ends, OnlyRequest

LEMMA CallFacts ==
    ASSUME Typed, NEW c \in Callers, NEW op \in {"hook", "register", "touch", "terminate"},
           NEW s \in Sessions, NEW p \in {Absent} \cup Principals, Call(c, op, s, p)
    PROVE  /\ call' \in [Callers -> {NoCall} \cup Calls \cup AdminCalls] /\ OnlyCall(c)
           /\ \A d \in Callers : d # Admin => call'[d] \in {NoCall} \cup Calls
           /\ call'[c] = [op |-> op, s |-> s, step |-> 1, who |-> p]
           /\ call'[c].op = op /\ call'[c].s = s /\ call'[c].step = 1 /\ call'[c].who = p
<1>1. call' = [call EXCEPT ![c] = [op |-> op, s |-> s, step |-> 1, who |-> p]]
  BY DEF Call
<1>2. [op |-> op, s |-> s, step |-> 1, who |-> p] \in Calls
  BY DEF Calls, RegisterSteps
<1> QED
  BY <1>1, <1>2 DEF Typed, CallsTyped, OnlyCall

LEMMA CallDoes ==
    ASSUME Typed, NEW c \in Callers, NEW op, NEW s, NEW p, Call(c, op, s, p)
    PROVE  /\ OnlyCall(c)
           /\ call'[c].op = op /\ call'[c].s = s /\ call'[c].step = 1 /\ call'[c].who = p
BY DEF Typed, CallsTyped, Call, OnlyCall

LEMMA CallKeepsTyped ==
    ASSUME CallsTyped, NEW c \in Callers, NEW op \in {"hook", "register", "touch", "terminate"},
           NEW s \in Sessions, NEW p \in {Absent} \cup Principals, Call(c, op, s, p)
    PROVE  CallsTyped'
<1>1. call' = [call EXCEPT ![c] = [op |-> op, s |-> s, step |-> 1, who |-> p]]
  BY DEF Call
<1>2. [op |-> op, s |-> s, step |-> 1, who |-> p] \in Calls
  BY DEF Calls, RegisterSteps
<1> QED
  BY <1>1, <1>2 DEF CallsTyped

LEMMA ReturnFacts ==
    ASSUME Typed, NEW c \in Callers, Return(c)
    PROVE  /\ call' \in [Callers -> {NoCall} \cup Calls \cup AdminCalls] /\ OnlyCall(c)
           /\ \A d \in Callers : d # Admin => call'[d] \in {NoCall} \cup Calls
           /\ call'[c] = NoCall /\ call'[c].op = "none"
BY DEF Typed, CallsTyped, Return, OnlyCall, NoCall

LEMMA NextStepFacts ==
    ASSUME Typed, NEW c \in Callers, call[c] \in Calls, call[c].step # RegisterSteps, NextStep(c)
    PROVE  /\ call' \in [Callers -> {NoCall} \cup Calls \cup AdminCalls] /\ OnlyCall(c)
           /\ \A d \in Callers : d # Admin => call'[d] \in {NoCall} \cup Calls
           /\ call'[c] \in Calls
           /\ call'[c].op = call[c].op /\ call'[c].s = call[c].s /\ call'[c].who = call[c].who
           /\ call'[c].step = call[c].step + 1
<1>1. call' = [call EXCEPT ![c] = [call[c] EXCEPT !.step = call[c].step + 1]]
  BY DEF NextStep
<1>2. [call[c] EXCEPT !.step = call[c].step + 1] \in Calls
  BY DEF Calls, RegisterSteps
<1>3. /\ call' \in [Callers -> {NoCall} \cup Calls \cup AdminCalls] /\ OnlyCall(c)
      /\ \A d \in Callers : d # Admin => call'[d] \in {NoCall} \cup Calls
      /\ call'[c] = [call[c] EXCEPT !.step = call[c].step + 1] /\ call'[c] \in Calls
  BY <1>1, <1>2 DEF Typed, CallsTyped, OnlyCall
<1> QED
  BY <1>3 DEF Calls

(* A session's place in one worker's table is all that changes. *)
OnlyEntry(w, s) ==
    \A v \in Workers, t \in Sessions :
        v # w \/ t # s => table'[v][t] = table[v][t] /\ transport'[v][t] = transport[v][t]

LEMMA PutFacts ==
    ASSUME Typed, NEW w \in Workers, NEW s \in Sessions, NEW st \in {"none", "live", "ended"},
           NEW tr \in Transports, Put(w, s, st, tr)
    PROVE  /\ table' \in [Workers -> [Sessions -> {"none", "live", "ended"}]]
           /\ transport' \in [Workers -> [Sessions -> Transports]]
           /\ OnlyEntry(w, s) /\ table'[w][s] = st /\ transport'[w][s] = tr
BY DEF Typed, TablesTyped, Put, OnlyEntry

LEMMA PopFacts ==
    ASSUME Typed, NEW w \in Workers, NEW s \in Sessions, Pop(w, s)
    PROVE  /\ table' \in [Workers -> [Sessions -> {"none", "live", "ended"}]]
           /\ transport' \in [Workers -> [Sessions -> Transports]]
           /\ OnlyEntry(w, s) /\ table'[w][s] = "none" /\ transport'[w][s] = NoTransport
<1>1. NoTransport \in Transports
  BY DEF NoTransport, Transports
<1> QED
  BY <1>1, PutFacts DEF Pop

LEMMA CallerFacts ==
    /\ \A r \in Requests : r \in Callers /\ r # Admin
    /\ \A w \in Workers, s \in Sessions : <<w, s>> \in Callers /\ <<w, s>> # Admin
    /\ Admin \in Callers
    /\ \A r \in Requests, w \in Workers, s \in Sessions : r # <<w, s>>
    /\ \A v, w \in Workers, s, t \in Sessions : <<v, t>> = <<w, s>> <=> v = w /\ t = s
    /\ \A c \in Callers : \/ c \in Requests \/ c = Admin
                          \/ \E w \in Workers, s \in Sessions : c = <<w, s>>
<1>1. Callers = Requests \cup (Workers \X Sessions) \cup {Admin} /\ Requests \cap (Workers \X Sessions) = {}
      /\ Admin \notin Requests \cup (Workers \X Sessions)
  BY ManagerAssumption
<1> QED
  BY <1>1

(* What SdkTakes makes of the request of r. *)
LEMMA SdkFacts ==
    ASSUME Typed, NEW r \in Requests, NEW w \in Workers, NEW s \in Sessions, NEW p \in Principals,
           NEW k \in {"use", "delete"}, SdkTakes(r, w, s, p, k)
    PROVE  /\ req' \in [Requests -> {Free} \cup Kept] /\ OnlyRequest(r) /\ req'[r] \in Kept
           /\ req'[r].pc \in {"handling", "reconcile"}
           /\ req'[r].pc = "handling" <=> table[w][s] = "live" /\ transport[w][s].owner = p
           /\ req'[r].w = w /\ req'[r].s = s /\ req'[r].who = p /\ req'[r].kind = k
           /\ req'[r].via = "sdk" /\ ~ req'[r].registered
           /\ req'[r].known <=> table[w][s] # "none"
           /\ req'[r].refused <=> req'[r].pc = "reconcile"
<1> DEFINE ok == table[w][s] = "live" /\ transport[w][s].owner = p
           o == [pc |-> IF ok THEN "handling" ELSE "reconcile", w |-> w, s |-> s, who |-> p, kind |-> k,
                 via |-> "sdk", known |-> table[w][s] # "none", registered |-> FALSE, refused |-> ~ok,
                 handshake |-> FALSE]
<1>1. req' = [req EXCEPT ![r] = o]
  BY DEF SdkTakes
<1>2. o \in Kept
  BY DEF Kept, PCs
<1>3. /\ o.pc \in {"handling", "reconcile"}
      /\ o.pc = "handling" <=> ok
      /\ o.w = w /\ o.s = s /\ o.who = p /\ o.kind = k /\ o.via = "sdk" /\ ~ o.registered
      /\ o.known <=> table[w][s] # "none"
      /\ o.refused <=> o.pc = "reconcile"
  OBVIOUS
<1> HIDE DEF o
<1>4. req' \in [Requests -> {Free} \cup Kept] /\ OnlyRequest(r) /\ req'[r] = o
  BY <1>1, <1>2 DEF Typed, RequestsTyped, OnlyRequest
<1> QED
  BY <1>2, <1>3, <1>4

-------------------------------------------------------------------------------
(* The variables keep their kinds. *)

LEMMA EntryTyped ==
    ASSUME Typed, NEW w \in Workers, NEW s \in Sessions, OnlyEntry(w, s),
           table'[w][s] = "none" <=> transport'[w][s] = NoTransport
    PROVE  EntriesTyped'
BY DEF Typed, TablesTyped, OnlyEntry, EntriesTyped

LEMMA PopTyped ==
    ASSUME Typed, NEW w \in Workers, NEW s \in Sessions, Pop(w, s)
    PROVE  TablesTyped'
BY PopFacts, EntryTyped DEF TablesTyped

LEMMA ForgetFacts ==
    ASSUME Typed, NEW w \in Workers, NEW s \in Sessions, ForgetEnded(w, s)
    PROVE  /\ TablesTyped' /\ OnlyEntry(w, s)
           /\ table[w][s] = "ended" => table'[w][s] = "none" /\ transport'[w][s] = NoTransport
           /\ table[w][s] # "ended" => UNCHANGED <<table, transport>>
<1>1. CASE table[w][s] = "ended"
  BY <1>1, PopTyped, PopFacts DEF ForgetEnded
<1>2. CASE table[w][s] # "ended"
  BY <1>2 DEF ForgetEnded, Keep, Typed, TablesTyped, EntriesTyped, OnlyEntry
<1> QED
  BY <1>1, <1>2

LEMMA OpeningTyped ==
    ASSUME Typed, NEW r \in Requests,
           \/ \E w \in Workers, s \in Sessions, p \in Principals : Opens(r, w, s, p)
           \/ ResponseStarts(r) \/ Answers(r) \/ Opened(r) \/ OpeningFails(r)
    PROVE  Typed'
<1> USE CallerFacts DEF Typed
<1>1. CASE \E w \in Workers, s \in Sessions, p \in Principals : Opens(r, w, s, p)
  <2>1. PICK w \in Workers, s \in Sessions, p \in Principals : Opens(r, w, s, p)
    BY <1>1
  <2> DEFINE tr == [NoTransport EXCEPT !.owner = p, !.initialized = TRUE]
             o == [pc |-> "opening", w |-> w, s |-> s, who |-> p, kind |-> "open",
                   via |-> "sdk", known |-> FALSE, registered |-> FALSE, refused |-> FALSE,
                   handshake |-> TRUE]
  <2>2. tr \in Transports /\ tr.owner = p
    BY DEF NoTransport, Transports
  <2>3. tr # NoTransport
    BY <2>2, RegistryAssumption DEF NoTransport
  <2>a. Put(w, s, "live", tr)
    BY <2>1 DEF Opens
  <2> HIDE DEF tr
  <2>4. TablesTyped'
    BY <2>a, <2>2, <2>3, PutFacts, EntryTyped DEF TablesTyped
  <2>5. o \in Kept
    BY DEF Kept, PCs
  <2> HIDE DEF o
  <2>6. RequestsTyped'
    BY <2>1, <2>5 DEF Opens, RequestsTyped, o
  <2>7. HistoryTyped' /\ StoreTyped' /\ CallsTyped'
    BY <2>1 DEF Opens, HistoryTyped, StoreTyped, CallsTyped, registry
  <2> QED
    BY <2>1, <2>4, <2>6, <2>7 DEF Opens
<1>2. CASE ResponseStarts(r)
  <2>1. req[r] \in Kept
    BY <1>2, BusyFacts DEF ResponseStarts, Busy
  <2>2. req' = [req EXCEPT ![r] = [req[r] EXCEPT !.pc = "recording", !.registered = TRUE]]
    BY <1>2 DEF ResponseStarts, RequestsTyped
  <2>3. [req[r] EXCEPT !.pc = "recording", !.registered = TRUE] \in Kept
    BY <2>1 DEF Kept, PCs
  <2>4. RequestsTyped'
    BY <2>2, <2>3 DEF RequestsTyped
  <2>5. req[r].s \in Sessions /\ req[r].who \in Principals
    BY <2>1 DEF Kept
  <2>6. CallsTyped'
    <3>1. Call(r, "register", req[r].s, req[r].who)
      BY <1>2 DEF ResponseStarts
    <3>2. r \in Callers /\ req[r].who \in {Absent} \cup Principals
      BY <2>5
    <3> QED
      BY <2>5, <3>1, <3>2, CallFacts, ZenonT(60) DEF CallsTyped
  <2>7. HistoryTyped' /\ StoreTyped' /\ TablesTyped'
    BY <1>2 DEF ResponseStarts, HistoryTyped, StoreTyped, TablesTyped, EntriesTyped
  <2> QED
    BY <1>2, <2>4, <2>6, <2>7 DEF ResponseStarts
<1>3. CASE Answers(r)
  <2>1. req[r] \in Kept
    BY <1>3, BusyFacts DEF Answers, Busy
  <2>2. RequestsTyped'
    BY <1>3, AtFacts DEF Answers, Busy, PCs, RequestsTyped
  <2>3. HistoryTyped'
    BY <1>3, <2>1 DEF Answers, HistoryTyped, registry, Kept
  <2>4. CallsTyped' /\ StoreTyped' /\ TablesTyped'
    BY <1>3 DEF Answers, registry, CallsTyped, StoreTyped, TablesTyped, EntriesTyped
  <2> QED
    BY <1>3, <2>2, <2>3, <2>4 DEF Answers
<1>4. CASE Opened(r)
  <2>1. RequestsTyped'
    BY <1>4, AtFacts DEF Opened, Busy, PCs, RequestsTyped
  <2>2. CallsTyped' /\ StoreTyped' /\ TablesTyped' /\ HistoryTyped'
    BY <1>4 DEF Opened, registry, CallsTyped, StoreTyped, TablesTyped, EntriesTyped, HistoryTyped
  <2> QED
    BY <1>4, <2>1, <2>2 DEF Opened
<1>5. CASE OpeningFails(r)
  <2>1. Busy(r) /\ req[r].w \in Workers /\ req[r].s \in Sessions
    BY <1>5, BusyFacts DEF OpeningFails, Busy, Kept
  <2>2. RequestsTyped'
    BY <1>5, <2>1, AtFacts DEF OpeningFails, PCs, RequestsTyped
  <2>3. CallsTyped'
    BY <1>5, ReturnFacts DEF OpeningFails, CallsTyped
  <2>4. TablesTyped'
    <3>1. CASE Keep(req[r].w)
      BY <3>1 DEF Keep, TablesTyped, EntriesTyped
    <3>2. CASE Pop(req[r].w, req[r].s)
      BY <2>1, <3>2, PopTyped
    <3> QED
      BY <1>5, <3>1, <3>2 DEF OpeningFails
  <2>5. HistoryTyped' /\ StoreTyped'
    BY <1>5, <2>1 DEF OpeningFails, HistoryTyped, StoreTyped, Ended
  <2> QED
    BY <1>5, <2>2, <2>3, <2>4, <2>5 DEF OpeningFails
<1> QED
  BY <1>1, <1>2, <1>3, <1>4, <1>5

LEMMA UsingTyped ==
    ASSUME Typed, NEW r \in Requests,
           \/ \E w \in Workers, s \in Sessions, p \in Principals, k \in {"use", "delete"} : Arrives(r, w, s, p, k)
           \/ LooksUp(r) \/ LookupFails(r) \/ Adopts(r) \/ Touched(r)
    PROVE  Typed'
<1> USE CallerFacts DEF Typed
<1>1. CASE \E w \in Workers, s \in Sessions, p \in Principals, k \in {"use", "delete"} : Arrives(r, w, s, p, k)
  <2>1. PICK w \in Workers, s \in Sessions, p \in Principals, k \in {"use", "delete"} : Arrives(r, w, s, p, k)
    BY <1>1
  <2>2. RequestsTyped'
    <3> DEFINE o == [pc |-> "lookup", w |-> w, s |-> s, who |-> p, kind |-> k, via |-> "adopt", known |-> FALSE,
                     registered |-> FALSE, refused |-> FALSE, handshake |-> FALSE]
    <3>1. o \in Kept
      BY DEF Kept, PCs
    <3>2. SdkTakes(r, w, s, p, k) \/ req' = [req EXCEPT ![r] = o]
      BY <2>1 DEF Arrives
    <3> HIDE DEF o
    <3> QED
      BY <3>1, <3>2, SdkFacts DEF RequestsTyped
  <2>3. CallsTyped' /\ StoreTyped' /\ TablesTyped' /\ HistoryTyped'
    BY <2>1 DEF Arrives, registry, CallsTyped, StoreTyped, TablesTyped, EntriesTyped, HistoryTyped
  <2> QED
    BY <2>1, <2>2, <2>3 DEF Arrives
<1>2. ASSUME LooksUp(r) \/ LookupFails(r) PROVE Typed'
  <2>1. req[r] \in Kept /\ req[r].pc = "lookup"
    BY <1>2, BusyFacts DEF LooksUp, LookupFails, Busy
  <2>2. RequestsTyped'
    <3>1. CASE SdkTakes(r, req[r].w, req[r].s, req[r].who, req[r].kind)
      <4>1. req[r].w \in Workers /\ req[r].s \in Sessions /\ req[r].who \in Principals
        BY <2>1 DEF Kept
      <4>2. DOMAIN req = Requests
        BY DEF RequestsTyped
      <4> DEFINE w == req[r].w  s == req[r].s
                 ok == table[w][s] = "live" /\ transport[w][s].owner = req[r].who
                 o == [pc |-> IF ok THEN "handling" ELSE "reconcile", w |-> w, s |-> s, who |-> req[r].who,
                       kind |-> req[r].kind, via |-> "sdk", known |-> table[w][s] # "none",
                       registered |-> FALSE, refused |-> ~ok, handshake |-> FALSE]
      <4>3. o \in Kept
        BY <2>1 DEF Kept, PCs
      <4>4. req' = [req EXCEPT ![r] = o]
        BY <3>1 DEF SdkTakes
      <4> HIDE DEF o
      <4> QED
        BY <4>3, <4>4 DEF RequestsTyped
    <3>2. CASE req' = [req EXCEPT ![r].pc = "locking", ![r].handshake = reg[req[r].s].handshake]
      <4>1. reg[req[r].s].handshake \in BOOLEAN
        BY <2>1 DEF Kept, StoreTyped, Rows
      <4>2. [req[r] EXCEPT !.pc = "locking", !.handshake = reg[req[r].s].handshake] \in Kept
        BY <2>1, <4>1 DEF Kept, PCs
      <4>3. req' = [req EXCEPT ![r] = [req[r] EXCEPT !.pc = "locking", !.handshake = reg[req[r].s].handshake]]
        BY <3>2 DEF RequestsTyped
      <4> QED
        BY <4>2, <4>3 DEF RequestsTyped
    <3> QED
      BY <1>2, <3>1, <3>2 DEF LooksUp, LookupFails
  <2>3. CallsTyped' /\ StoreTyped' /\ TablesTyped' /\ HistoryTyped' /\ phase' = phase
    BY <1>2 DEF LooksUp, LookupFails, registry, CallsTyped, StoreTyped, TablesTyped, EntriesTyped, HistoryTyped
  <2> QED
    BY <2>2, <2>3
<1>3. CASE Adopts(r)
  <2> DEFINE w == req[r].w  s == req[r].s
  <2>1. Busy(r) /\ w \in Workers /\ s \in Sessions /\ req[r].who \in Principals /\ req[r].handshake \in BOOLEAN
    BY <1>3, BusyFacts DEF Adopts, Busy, Kept
  <2>2. HistoryTyped' /\ StoreTyped' /\ phase' = phase
    BY <1>3 DEF Adopts, HistoryTyped, StoreTyped
  <2>3. CASE At(r, "handling") /\ Keep(w) /\ UNCHANGED call
    <3>1. RequestsTyped'
      BY <2>1, <2>3, AtFacts DEF PCs, RequestsTyped
    <3> QED
      BY <2>2, <2>3, <3>1 DEF Keep, CallsTyped, TablesTyped, EntriesTyped
  <2>4. CASE Ends(r) /\ Keep(w) /\ UNCHANGED call
    <3>1. RequestsTyped'
      BY <2>4, EndsFacts DEF RequestsTyped
    <3> QED
      BY <2>2, <2>4, <3>1 DEF Keep, CallsTyped, TablesTyped, EntriesTyped
  <2>5. CASE Put(w, s, "live", Adopted(req[r].who, req[r].handshake)) /\ At(r, "touching") /\ Call(r, "touch", s, Absent)
    <3> DEFINE tr == Adopted(req[r].who, req[r].handshake)
    <3>1. RequestsTyped'
      BY <2>1, <2>5, AtFacts DEF PCs, RequestsTyped
    <3>2. CallsTyped'
      <4>1. r \in Callers /\ Absent \in {Absent} \cup Principals /\ Call(r, "touch", req[r].s, Absent)
        BY <2>5
      <4> QED
        BY ONLY <2>1, <4>1, CallsTyped, CallKeepsTyped
    <3>3. tr \in Transports /\ tr.owner = req[r].who
      BY <2>1 DEF Adopted, Transports
    <3>4. tr # NoTransport
      BY <2>1, <3>3, RegistryAssumption DEF NoTransport
    <3>5. Put(w, s, "live", tr)
      BY <2>5
    <3> HIDE DEF tr
    <3>6. TablesTyped'
      BY <2>1, <3>3, <3>4, <3>5, PutFacts, EntryTyped DEF TablesTyped
    <3> QED
      BY <2>2, <3>1, <3>2, <3>6
  <2> QED
    BY <1>3, <2>3, <2>4, <2>5 DEF Adopts
<1>4. CASE Touched(r)
  <2>1. RequestsTyped'
    BY <1>4, AtFacts DEF Touched, Busy, PCs, RequestsTyped
  <2> QED
    BY <1>4, <2>1 DEF Touched, registry, CallsTyped, StoreTyped, TablesTyped, EntriesTyped, HistoryTyped
<1> QED
  BY <1>1, <1>2, <1>3, <1>4

LEMMA LeavesTyped ==
    ASSUME Typed, NEW r \in Requests, Busy(r), Leaves(r)
    PROVE  TablesTyped' /\ RequestsTyped'
<1>1. req[r].w \in Workers /\ req[r].s \in Sessions
  BY BusyFacts DEF Kept
<1>2. ForgetEnded(req[r].w, req[r].s) /\ (Ends(r) \/ At(r, "reconcile"))
  BY DEF Leaves
<1>3. TablesTyped'
  BY <1>1, <1>2, ForgetFacts
<1>4. RequestsTyped'
  BY <1>2, EndsFacts, AtFacts DEF PCs, RequestsTyped
<1> QED
  BY <1>3, <1>4

LEMMA HandlingTyped ==
    ASSUME Typed, NEW r \in Requests, Handled(r) \/ Deletes(r) \/ Deleted(r)
    PROVE  Typed'
<1> USE CallerFacts DEF Typed
<1>1. Busy(r) /\ req[r].w \in Workers /\ req[r].s \in Sessions
  BY BusyFacts DEF Handled, Deletes, Deleted, Busy, Kept
<1>2. ASSUME Handled(r) \/ Deleted(r) PROVE Typed'
  <2>1. TablesTyped' /\ RequestsTyped'
    BY <1>1, <1>2, LeavesTyped DEF Handled, Deleted
  <2> QED
    BY <1>2, <2>1 DEF Handled, Deleted, registry, CallsTyped, StoreTyped, HistoryTyped
<1>3. CASE Deletes(r)
  <2> DEFINE w == req[r].w  s == req[r].s
  <2>1. RequestsTyped'
    BY <1>1, <1>3, AtFacts DEF Deletes, PCs, RequestsTyped
  <2>2. CallsTyped'
    <3>1. Call(r, "hook", s, Absent) \/ UNCHANGED call
      BY <1>3 DEF Deletes
    <3> QED
      BY <1>1, <3>1, CallFacts, ZenonT(60) DEF CallsTyped
  <2>3. TablesTyped'
    <3>1. table' = [table EXCEPT ![w][s] = "ended"] /\ transport' = transport /\ table[w][s] = "live"
      BY <1>3 DEF Deletes
    <3>2. table' \in [Workers -> [Sessions -> {"none", "live", "ended"}]]
      BY <1>1, <3>1 DEF TablesTyped
    <3>3. EntriesTyped'
      BY <1>1, <3>1 DEF TablesTyped, EntriesTyped
    <3> QED
      BY <3>1, <3>2, <3>3 DEF TablesTyped
  <2>4. HistoryTyped' /\ StoreTyped' /\ phase' = phase
    BY <1>1, <1>3 DEF Deletes, Ended, HistoryTyped, StoreTyped
  <2> QED
    BY <2>1, <2>2, <2>3, <2>4
<1> QED
  BY <1>2, <1>3

LEMMA ReconcileTyped ==
    ASSUME Typed, NEW r \in Requests,
           ReconcileCreated(r) \/ ReconcileVanished(r) \/ ReconcileUsed(r) \/ Reconciled(r)
    PROVE  Typed'
<1> USE CallerFacts DEF Typed
<1> DEFINE w == req[r].w  s == req[r].s
<1>1. /\ Busy(r) /\ w \in Workers /\ s \in Sessions /\ req[r].who \in {Absent} \cup Principals
      /\ r \in Callers /\ Absent \in {Absent} \cup Principals
  BY BusyFacts DEF ReconcileCreated, ReconcileVanished, ReconcileUsed, Reconciled, Busy, Kept
<1>2. RequestsTyped'
  BY <1>1, AtFacts, EndsFacts
     DEF ReconcileCreated, ReconcileVanished, ReconcileUsed, Reconciled, PCs, RequestsTyped
<1>3. CallsTyped'
  <2>1. \/ Call(r, "register", s, req[r].who) \/ Call(r, "terminate", s, Absent) \/ Call(r, "touch", s, Absent)
        \/ UNCHANGED call
    BY DEF ReconcileCreated, ReconcileVanished, ReconcileUsed, Reconciled, registry
  <2>2. CASE UNCHANGED call
    BY <2>2 DEF CallsTyped
  <2> QED
    BY ONLY <1>1, <2>1, <2>2, CallsTyped, CallKeepsTyped
<1>4. TablesTyped'
  <2>1. CASE UNCHANGED <<table, transport>>
    BY <2>1 DEF TablesTyped, EntriesTyped
  <2>2. CASE ReconcileCreated(r) /\ table[w][s] # "none"
    <3>1. /\ transport' = [transport EXCEPT ![w] = [transport[w] EXCEPT ![s] = [transport[w][s] EXCEPT !.hooked = TRUE]]]
          /\ table' = table
      BY <2>2 DEF ReconcileCreated
    <3> DEFINE tr == [transport[w][s] EXCEPT !.hooked = TRUE]
    <3>2. transport[w][s] \in Transports
      BY <1>1 DEF TablesTyped
    <3>3. tr \in Transports /\ tr # NoTransport
      BY <3>2 DEF Transports, NoTransport
    <3> HIDE DEF tr
    <3>4. transport' \in [Workers -> [Sessions -> Transports]]
      BY <1>1, <3>1, <3>3 DEF TablesTyped, tr
    <3>5. EntriesTyped'
      <4>1. transport'[w][s] = tr /\ OnlyEntry(w, s)
        <5>1. transport \in [Workers -> [Sessions -> Transports]]
          BY DEF TablesTyped
        <5> HIDE DEF w, s
        <5> QED
          BY <1>1, <3>1, <5>1, ZenonT(60) DEF tr, OnlyEntry
      <4> QED
        BY <1>1, <2>2, <3>1, <3>3, <4>1, EntryTyped
    <3> QED
      BY <3>1, <3>4, <3>5 DEF TablesTyped
  <2> QED
    BY <2>1, <2>2 DEF ReconcileCreated, ReconcileVanished, ReconcileUsed, Reconciled
<1>5. HistoryTyped' /\ StoreTyped' /\ phase' = phase
  BY <1>1 DEF ReconcileCreated, ReconcileVanished, ReconcileUsed, Reconciled, HistoryTyped, StoreTyped, registry, Untold
<1> QED
  BY <1>2, <1>3, <1>4, <1>5

LEMMA HookTyped ==
    ASSUME Typed, NEW c \in Callers, NEW w \in Workers, c # Admin, HookRecords(c, w)
    PROVE  Typed'
<1> USE CallerFacts DEF Typed
<1>1. call[c] \in Calls
  BY DEF HookRecords, CallsTyped, NoCall
<1>2. call[c].s \in Sessions
  BY <1>1 DEF Calls
<1>3. CallsTyped'
  <2>1. Return(c) \/ Call(c, "terminate", call[c].s, Absent)
    BY DEF HookRecords
  <2> QED
    BY <1>2, <2>1, ReturnFacts, CallFacts, ZenonT(60) DEF CallsTyped
<1>4. /\ HistoryTyped' /\ StoreTyped' /\ TablesTyped' /\ RequestsTyped' /\ phase' = phase
  BY <1>2 DEF HookRecords, Untold, HistoryTyped, StoreTyped, TablesTyped, EntriesTyped, RequestsTyped
<1> QED
  BY <1>3, <1>4

LEMMA WorkerTyped ==
    ASSUME Typed, NEW w \in Workers,
           \/ \E s \in Sessions : IdlesOut(w, s) \/ ServerFails(w, s) \/ Cancels(w, s)
           \/ Stops(w) \/ Dies(w) \/ Starts(w)
    PROVE  Typed'
<1> USE CallerFacts DEF Typed
<1>1. CASE \E s \in Sessions : IdlesOut(w, s) \/ ServerFails(w, s) \/ Cancels(w, s)
  <2>1. PICK s \in Sessions : IdlesOut(w, s) \/ ServerFails(w, s) \/ Cancels(w, s)
    BY <1>1
  <2>2. TablesTyped'
    BY <2>1, PopTyped DEF IdlesOut, ServerFails, Cancels
  <2>3. CallsTyped'
    <3>1. Call(<<w, s>>, "hook", s, Absent) \/ UNCHANGED call
      BY <2>1 DEF IdlesOut, ServerFails, Cancels, registry
    <3>2. <<w, s>> \in Callers /\ Absent \in {Absent} \cup Principals
      OBVIOUS
    <3> QED
      BY <3>1, <3>2, CallFacts DEF CallsTyped
  <2>4. HistoryTyped' /\ StoreTyped' /\ RequestsTyped' /\ phase' = phase
    BY <2>1 DEF IdlesOut, ServerFails, Cancels, Ended, Cause, HistoryTyped, StoreTyped, RequestsTyped, registry
  <2> QED
    BY <2>2, <2>3, <2>4
<1>2. CASE Stops(w) \/ Starts(w)
  <2>1. phase' \in [Workers -> {"up", "stopping", "down"}]
    BY <1>2 DEF Stops, Starts
  <2> QED
    BY <1>2, <2>1
       DEF Stops, Starts, registry, HistoryTyped, StoreTyped, CallsTyped, TablesTyped, EntriesTyped, RequestsTyped
<1>3. CASE Dies(w)
  <2>1. phase' \in [Workers -> {"up", "stopping", "down"}]
    BY <1>3 DEF Dies
  <2>2. TablesTyped'
    <3>1. /\ table' = [table EXCEPT ![w] = [s \in Sessions |-> "none"]]
          /\ transport' = [transport EXCEPT ![w] = [s \in Sessions |-> NoTransport]]
      BY <1>3 DEF Dies
    <3>2. NoTransport \in Transports
      BY DEF NoTransport, Transports
    <3> QED
      BY <3>1, <3>2 DEF TablesTyped, EntriesTyped
  <2>3. RequestsTyped'
    BY <1>3 DEF Dies, RequestsTyped
  <2>4. CallsTyped'
    <3>1. call' = [c \in Callers |-> IF c \in On(w) \cup {<<w, s>> : s \in Sessions} THEN NoCall ELSE call[c]]
      BY <1>3 DEF Dies
    <3> QED
      BY <3>1 DEF CallsTyped
  <2>5. HistoryTyped' /\ StoreTyped'
    <3>1. \A r \in On(w) : req[r].s \in Sessions
      BY BusyFacts DEF On, Kept, Busy
    <3> QED
      BY <1>3, <3>1 DEF Dies, Untold, HistoryTyped, StoreTyped
  <2> QED
    BY <2>1, <2>2, <2>3, <2>4, <2>5
<1> QED
  BY <1>1, <1>2, <1>3

LEMMA OutsideTyped ==
    ASSUME Typed,
           \/ \E c \in Callers : CallFails(c)
           \/ \E s \in Sessions : OperatorTerminates(s)
           \/ Ages
    PROVE  Typed'
<1> USE CallerFacts DEF Typed
<1>1. CASE \E c \in Callers : CallFails(c)
  <2>1. PICK c \in Callers : CallFails(c)
    BY <1>1
  <2>2. CallsTyped'
    BY <2>1, ReturnFacts DEF CallFails, CallsTyped
  <2>3. call[c].s \in Sessions
    BY <2>1 DEF CallFails, CallsTyped, NoCall, Calls
  <2>4. HistoryTyped' /\ StoreTyped' /\ TablesTyped' /\ RequestsTyped' /\ phase' = phase
    BY <2>1, <2>3 DEF CallFails, HistoryTyped, StoreTyped, TablesTyped, EntriesTyped, RequestsTyped
  <2> QED
    BY <2>2, <2>4
<1>2. CASE \E s \in Sessions : OperatorTerminates(s)
  <2>1. PICK s \in Sessions : OperatorTerminates(s)
    BY <1>2
  <2>2. CallsTyped'
    <3>1. Call(Admin, "terminate", s, Absent) /\ Absent \in {Absent} \cup Principals
      BY <2>1 DEF OperatorTerminates
    <3> QED
      BY <3>1, CallFacts DEF CallsTyped
  <2>3. HistoryTyped' /\ StoreTyped' /\ TablesTyped' /\ RequestsTyped' /\ phase' = phase
    BY <2>1 DEF OperatorTerminates, Cause, HistoryTyped, StoreTyped, TablesTyped, EntriesTyped, RequestsTyped
  <2> QED
    BY <2>2, <2>3
<1>3. CASE Ages
  <2>1. PICK s \in Sessions : reg' = [reg EXCEPT ![s].recent = FALSE]
    BY <1>3 DEF Ages
  <2>2. [reg[s] EXCEPT !.recent = FALSE] \in Rows
    <3>1. reg[s] \in Rows
      BY DEF StoreTyped
    <3> QED
      BY ONLY <3>1 DEF Rows
  <2>3. reg' \in [Sessions -> Rows]
    BY <2>1, <2>2 DEF StoreTyped
  <2> QED
    BY <1>3, <2>3 DEF Ages, HistoryTyped, StoreTyped, CallsTyped, TablesTyped, EntriesTyped, RequestsTyped
<1> QED
  BY <1>1, <1>2, <1>3

-------------------------------------------------------------------------------
(* What the registry's statements and commands do to a row. *)

OnlyRow(s) == \A t \in Sessions : t # s => reg'[t] = reg[t]
RegTyped == reg \in [Sessions -> Rows]

LEMMA RowFields ==
    ASSUME NEW row \in Rows
    PROVE  /\ row.exists \in BOOLEAN /\ row.terminated \in {Absent} \cup BOOLEAN
           /\ row.owner \in {Absent} \cup Principals /\ row.handshake \in BOOLEAN
           /\ row.created \in BOOLEAN /\ row.recent \in BOOLEAN /\ row.expires \in BOOLEAN
           /\ row.indexed \in BOOLEAN
BY DEF Rows

LEMMA NoRowFacts ==
    /\ NoRow \in Rows /\ NoRow.terminated = Absent /\ NoRow.owner = Absent
    /\ ~ NoRow.exists /\ ~ NoRow.handshake /\ ~ NoRow.created /\ ~ NoRow.recent
    /\ ~ NoRow.expires /\ ~ NoRow.indexed
BY DEF NoRow, Rows

LEMMA FreshFacts ==
    ASSUME NEW p \in {Absent} \cup Principals
    PROVE  /\ FreshRow(p) \in Rows /\ FreshRow(p).terminated = FALSE /\ FreshRow(p).owner = p
           /\ FreshRow(p).exists /\ FreshRow(p).handshake /\ FreshRow(p).created /\ FreshRow(p).recent
           /\ ~ FreshRow(p).expires /\ ~ FreshRow(p).indexed
BY DEF FreshRow, NoRow, Rows

(* What is not about one row of the registry. *)
LEMMA RowUpdate ==
    ASSUME RegTyped, NEW s \in Sessions, NEW row \in Rows, reg' = [reg EXCEPT ![s] = row]
    PROVE  RegTyped' /\ OnlyRow(s) /\ reg'[s] = row
BY DEF RegTyped, OnlyRow

LEMMA SqliteRegisterFacts ==
    ASSUME RegTyped, NEW s \in Sessions, NEW p \in {Absent} \cup Principals, SqliteRegister(s, p)
    PROVE  /\ RegTyped' /\ OnlyRow(s)
           /\ reg'[s].exists /\ reg'[s].handshake
           /\ reg'[s].owner = IF reg[s].exists THEN reg[s].owner ELSE p
           /\ reg'[s].terminated = IF reg[s].exists THEN reg[s].terminated ELSE FALSE
<1>1. reg[s] \in Rows
  BY DEF RegTyped
<1>2. CASE reg[s].exists
  <2> DEFINE row == [reg[s] EXCEPT !.recent = TRUE, !.handshake = TRUE]
  <2>1. /\ row \in Rows /\ row.exists /\ row.handshake
        /\ row.owner = reg[s].owner /\ row.terminated = reg[s].terminated
    BY ONLY <1>1, <1>2 DEF Rows
  <2>2. reg' = [reg EXCEPT ![s] = row]
    BY <1>2 DEF SqliteRegister
  <2> HIDE DEF row
  <2> QED
    BY <1>2, <2>1, <2>2, RowUpdate
<1>3. CASE ~ reg[s].exists
  <2>1. reg' = [reg EXCEPT ![s] = FreshRow(p)]
    BY <1>3 DEF SqliteRegister
  <2>2. FreshRow(p) \in Rows
    BY FreshFacts
  <2>3. RegTyped' /\ OnlyRow(s) /\ reg'[s] = FreshRow(p)
    BY <2>1, <2>2, RowUpdate
  <2> QED
    BY <1>3, <2>3, FreshFacts
<1> QED
  BY <1>2, <1>3

LEMMA SqliteTouchFacts ==
    ASSUME RegTyped, NEW s \in Sessions, SqliteTouch(s)
    PROVE  /\ RegTyped' /\ OnlyRow(s)
           /\ reg'[s].exists = reg[s].exists /\ reg'[s].owner = reg[s].owner
           /\ reg'[s].terminated = reg[s].terminated /\ reg'[s].handshake = reg[s].handshake
<1>1. reg[s] \in Rows
  BY DEF RegTyped
<1> DEFINE row == [reg[s] EXCEPT !.recent = IF reg[s].exists THEN TRUE ELSE reg[s].recent]
<1>2. /\ row \in Rows /\ row.exists = reg[s].exists /\ row.owner = reg[s].owner
      /\ row.terminated = reg[s].terminated /\ row.handshake = reg[s].handshake
  BY ONLY <1>1 DEF Rows
<1>3. reg' = [reg EXCEPT ![s] = row]
  BY DEF SqliteTouch
<1> HIDE DEF row
<1> QED
  BY <1>2, <1>3, RowUpdate

LEMMA SqliteTerminateFacts ==
    ASSUME RegTyped, NEW s \in Sessions, SqliteTerminate(s)
    PROVE  /\ RegTyped' /\ OnlyRow(s)
           /\ reg'[s].exists = reg[s].exists /\ reg'[s].owner = reg[s].owner
           /\ reg'[s].terminated = (IF reg[s].exists THEN TRUE ELSE reg[s].terminated)
           /\ reg'[s].handshake = reg[s].handshake
<1>1. reg[s] \in Rows
  BY DEF RegTyped
<1> DEFINE row == IF reg[s].exists THEN [reg[s] EXCEPT !.terminated = TRUE, !.recent = TRUE] ELSE reg[s]
<1>2. /\ row \in Rows /\ row.exists = reg[s].exists /\ row.owner = reg[s].owner
      /\ row.terminated = (IF reg[s].exists THEN TRUE ELSE reg[s].terminated)
      /\ row.handshake = reg[s].handshake
  BY ONLY <1>1 DEF Rows
<1>3. reg' = [reg EXCEPT ![s] = row]
  BY DEF SqliteTerminate
<1> HIDE DEF row
<1> QED
  BY <1>2, <1>3, RowUpdate

(* The row after the n-th command of register. *)
Commanded(o, p, n) ==
                    CASE n = 1 -> [o EXCEPT !.exists = TRUE]
                    [] n = 2 -> [o EXCEPT !.exists = TRUE, !.terminated = IF @ = Absent THEN FALSE ELSE @]
                    [] n = 3 -> [o EXCEPT !.exists = TRUE, !.owner = IF @ = Absent THEN p ELSE @]
                    [] n = 4 -> [o EXCEPT !.exists = TRUE, !.handshake = TRUE]
                    [] n = 5 -> [o EXCEPT !.exists = TRUE, !.created = TRUE]
                    [] n = 6 -> [o EXCEPT !.exists = TRUE, !.expires = Ttl]
                    [] n = 7 -> [o EXCEPT !.indexed = TRUE, !.recent = TRUE]

LEMMA RegisterRow ==
    ASSUME NEW o \in Rows, NEW p \in {Absent} \cup Principals, NEW n \in 1..7
    PROVE  Commanded(o, p, n) \in Rows
<1>1. CASE n = 1
  <2>1. Commanded(o, p, n) = [o EXCEPT !.exists = TRUE]
    BY <1>1 DEF Commanded
  <2>2. [o EXCEPT !.exists = TRUE] \in Rows
    BY ONLY o \in Rows DEF Rows
  <2> QED
    BY ONLY <2>1, <2>2
<1>2. CASE n = 2
  <2>1. Commanded(o, p, n) = [o EXCEPT !.exists = TRUE, !.terminated = IF @ = Absent THEN FALSE ELSE @]
    BY <1>2 DEF Commanded
  <2>2. [o EXCEPT !.exists = TRUE, !.terminated = IF @ = Absent THEN FALSE ELSE @] \in Rows
    BY ONLY o \in Rows DEF Rows
  <2> QED
    BY ONLY <2>1, <2>2
<1>3. CASE n = 3
  <2>1. Commanded(o, p, n) = [o EXCEPT !.exists = TRUE, !.owner = IF @ = Absent THEN p ELSE @]
    BY <1>3 DEF Commanded
  <2>2. [o EXCEPT !.exists = TRUE, !.owner = IF @ = Absent THEN p ELSE @] \in Rows
    BY ONLY o \in Rows, p \in {Absent} \cup Principals DEF Rows
  <2> QED
    BY ONLY <2>1, <2>2
<1>4. CASE n = 4
  <2>1. Commanded(o, p, n) = [o EXCEPT !.exists = TRUE, !.handshake = TRUE]
    BY <1>4 DEF Commanded
  <2>2. [o EXCEPT !.exists = TRUE, !.handshake = TRUE] \in Rows
    BY ONLY o \in Rows DEF Rows
  <2> QED
    BY ONLY <2>1, <2>2
<1>5. CASE n = 5
  <2>1. Commanded(o, p, n) = [o EXCEPT !.exists = TRUE, !.created = TRUE]
    BY <1>5 DEF Commanded
  <2>2. [o EXCEPT !.exists = TRUE, !.created = TRUE] \in Rows
    BY ONLY o \in Rows DEF Rows
  <2> QED
    BY ONLY <2>1, <2>2
<1>6. CASE n = 6
  <2>1. Commanded(o, p, n) = [o EXCEPT !.exists = TRUE, !.expires = Ttl]
    BY <1>6 DEF Commanded
  <2>2. [o EXCEPT !.exists = TRUE, !.expires = Ttl] \in Rows
    BY ONLY o \in Rows, RegistryAssumption DEF Rows
  <2> QED
    BY ONLY <2>1, <2>2
<1>7. CASE n = 7
  <2>1. Commanded(o, p, n) = [o EXCEPT !.indexed = TRUE, !.recent = TRUE]
    BY <1>7 DEF Commanded
  <2>2. [o EXCEPT !.indexed = TRUE, !.recent = TRUE] \in Rows
    BY ONLY o \in Rows DEF Rows
  <2> QED
    BY ONLY <2>1, <2>2
<1> QED
  BY <1>1, <1>2, <1>3, <1>4, <1>5, <1>6, <1>7

LEMMA RdRegisterFacts ==
    ASSUME RegTyped, NEW s \in Sessions, NEW p \in {Absent} \cup Principals, NEW n \in 1..7, RdRegister(s, p, n)
    PROVE  /\ RegTyped' /\ OnlyRow(s)
           /\ reg'[s].exists = (IF n = 7 THEN reg[s].exists ELSE TRUE)
           /\ reg'[s].terminated = (IF n = 2 /\ reg[s].terminated = Absent THEN FALSE ELSE reg[s].terminated)
           /\ reg'[s].owner = (IF n = 3 /\ reg[s].owner = Absent THEN p ELSE reg[s].owner)
           /\ reg'[s].handshake = (IF n = 4 THEN TRUE ELSE reg[s].handshake)
           /\ reg'[s].created = (IF n = 5 THEN TRUE ELSE reg[s].created)
           /\ n # 6 => reg'[s].expires = reg[s].expires
           /\ reg'[s].indexed = (IF n = 7 THEN TRUE ELSE reg[s].indexed)
           /\ reg'[s].recent = (IF n = 7 THEN TRUE ELSE reg[s].recent)
<1> DEFINE o == reg[s]
           q == reg'[s]
<1>1. o \in Rows
  BY DEF RegTyped
<1>2. reg' = [reg EXCEPT ![s] = Commanded(o, p, n)]
  BY DEF RdRegister, Commanded
<1>3. Commanded(o, p, n) \in Rows
  BY <1>1, RegisterRow
<1>4. RegTyped' /\ OnlyRow(s) /\ q = Commanded(o, p, n)
  BY <1>2, <1>3, RowUpdate
<1> HIDE DEF o, q
<1>5. /\ q.exists = (IF n = 7 THEN o.exists ELSE TRUE)
      /\ q.terminated = (IF n = 2 /\ o.terminated = Absent THEN FALSE ELSE o.terminated)
      /\ q.owner = (IF n = 3 /\ o.owner = Absent THEN p ELSE o.owner)
      /\ q.handshake = (IF n = 4 THEN TRUE ELSE o.handshake)
      /\ q.created = (IF n = 5 THEN TRUE ELSE o.created)
      /\ n # 6 => q.expires = o.expires
      /\ q.indexed = (IF n = 7 THEN TRUE ELSE o.indexed)
      /\ q.recent = (IF n = 7 THEN TRUE ELSE o.recent)
  <2>1. CASE n = 1
    <3>1. q = [o EXCEPT !.exists = TRUE]
      BY ONLY <1>4, <2>1 DEF Commanded
    <3> QED
      BY ONLY <1>1, <2>1, <3>1 DEF Rows
  <2>2. CASE n = 2
    <3>1. q = [o EXCEPT !.exists = TRUE, !.terminated = IF @ = Absent THEN FALSE ELSE @]
      BY ONLY <1>4, <2>2 DEF Commanded
    <3> QED
      BY ONLY <1>1, <2>2, <3>1 DEF Rows
  <2>3. CASE n = 3
    <3>1. q = [o EXCEPT !.exists = TRUE, !.owner = IF @ = Absent THEN p ELSE @]
      BY ONLY <1>4, <2>3 DEF Commanded
    <3> QED
      BY ONLY <1>1, <2>3, <3>1 DEF Rows
  <2>4. CASE n = 4
    <3>1. q = [o EXCEPT !.exists = TRUE, !.handshake = TRUE]
      BY ONLY <1>4, <2>4 DEF Commanded
    <3> QED
      BY ONLY <1>1, <2>4, <3>1 DEF Rows
  <2>5. CASE n = 5
    <3>1. q = [o EXCEPT !.exists = TRUE, !.created = TRUE]
      BY ONLY <1>4, <2>5 DEF Commanded
    <3> QED
      BY ONLY <1>1, <2>5, <3>1 DEF Rows
  <2>6. CASE n = 6
    <3>1. q = [o EXCEPT !.exists = TRUE, !.expires = Ttl]
      BY ONLY <1>4, <2>6 DEF Commanded
    <3> QED
      BY ONLY <1>1, <2>6, <3>1 DEF Rows
  <2>7. CASE n = 7
    <3>1. q = [o EXCEPT !.indexed = TRUE, !.recent = TRUE]
      BY ONLY <1>4, <2>7 DEF Commanded
    <3> QED
      BY ONLY <1>1, <2>7, <3>1 DEF Rows
  <2>8. n = 1 \/ n = 2 \/ n = 3 \/ n = 4 \/ n = 5 \/ n = 6 \/ n = 7
    BY ONLY n \in 1..7
  <2> QED
    BY ONLY <2>1, <2>2, <2>3, <2>4, <2>5, <2>6, <2>7, <2>8, ZenonT(60)
<1> QED
  BY ONLY <1>4, <1>5 DEF o, q

LEMMA RdTouchFacts ==
    ASSUME RegTyped, NEW s \in Sessions, RdTouch(s)
    PROVE  /\ RegTyped' /\ OnlyRow(s)
           /\ reg'[s].exists /\ reg'[s].recent /\ reg'[s].indexed
           /\ reg'[s].owner = reg[s].owner /\ reg'[s].terminated = reg[s].terminated
           /\ reg'[s].handshake = reg[s].handshake /\ reg'[s].created = reg[s].created
<1> DEFINE row == [reg[s] EXCEPT !.exists = TRUE, !.recent = TRUE, !.indexed = TRUE, !.expires = Ttl]
<1>1. reg[s] \in Rows
  BY DEF RegTyped
<1>2. reg' = [reg EXCEPT ![s] = row]
  BY DEF RdTouch, RegTyped
<1>3. row \in Rows
  BY ONLY <1>1, RegistryAssumption DEF Rows
<1>4. /\ row.exists /\ row.recent /\ row.indexed
      /\ row.owner = reg[s].owner /\ row.terminated = reg[s].terminated
      /\ row.handshake = reg[s].handshake /\ row.created = reg[s].created
  BY ONLY <1>1 DEF Rows
<1> HIDE DEF row
<1> QED
  BY <1>2, <1>3, <1>4, RowUpdate

LEMMA RdTerminateFacts ==
    ASSUME RegTyped, NEW s \in Sessions, RdTerminate(s)
    PROVE  /\ RegTyped' /\ OnlyRow(s)
           /\ reg'[s].exists /\ reg'[s].recent /\ reg'[s].indexed /\ reg'[s].terminated = TRUE
           /\ reg'[s].owner = reg[s].owner /\ reg'[s].expires = reg[s].expires
           /\ reg'[s].handshake = reg[s].handshake /\ reg'[s].created = reg[s].created
<1> DEFINE row == [reg[s] EXCEPT !.exists = TRUE, !.recent = TRUE, !.indexed = TRUE, !.terminated = TRUE]
<1>1. reg[s] \in Rows
  BY DEF RegTyped
<1>2. reg' = [reg EXCEPT ![s] = row]
  BY DEF RdTerminate, RegTyped
<1>3. row \in Rows
  BY ONLY <1>1 DEF Rows
<1>4. /\ row.exists /\ row.recent /\ row.indexed /\ row.terminated = TRUE
      /\ row.owner = reg[s].owner /\ row.expires = reg[s].expires
      /\ row.handshake = reg[s].handshake /\ row.created = reg[s].created
  BY ONLY <1>1 DEF Rows
<1> HIDE DEF row
<1> QED
  BY <1>2, <1>3, <1>4, RowUpdate

LEMMA RecentFacts ==
    ASSUME RegTyped, NEW s \in Sessions, reg' = [reg EXCEPT ![s].recent = FALSE]
    PROVE  /\ RegTyped' /\ OnlyRow(s)
           /\ ~ reg'[s].recent /\ reg'[s].exists = reg[s].exists
           /\ reg'[s].owner = reg[s].owner /\ reg'[s].terminated = reg[s].terminated
           /\ reg'[s].handshake = reg[s].handshake /\ reg'[s].created = reg[s].created
           /\ reg'[s].expires = reg[s].expires /\ reg'[s].indexed = reg[s].indexed
<1> DEFINE row == [reg[s] EXCEPT !.recent = FALSE]
<1>1. reg[s] \in Rows
  BY DEF RegTyped
<1>2. reg' = [reg EXCEPT ![s] = row]
  OBVIOUS
<1>3. row \in Rows
  BY ONLY <1>1 DEF Rows
<1>4. /\ ~ row.recent /\ row.exists = reg[s].exists
      /\ row.owner = reg[s].owner /\ row.terminated = reg[s].terminated
      /\ row.handshake = reg[s].handshake /\ row.created = reg[s].created
      /\ row.expires = reg[s].expires /\ row.indexed = reg[s].indexed
  BY ONLY <1>1 DEF Rows
<1> HIDE DEF row
<1> QED
  BY <1>2, <1>3, <1>4, RowUpdate

LEMMA ForgetsFacts ==
    ASSUME RegTyped, NEW s \in Sessions, reg' = [reg EXCEPT ![s].indexed = FALSE, ![s].recent = FALSE]
    PROVE  /\ RegTyped' /\ OnlyRow(s)
           /\ ~ reg'[s].recent /\ ~ reg'[s].indexed /\ reg'[s].exists = reg[s].exists
           /\ reg'[s].owner = reg[s].owner /\ reg'[s].terminated = reg[s].terminated
           /\ reg'[s].handshake = reg[s].handshake /\ reg'[s].created = reg[s].created
           /\ reg'[s].expires = reg[s].expires
<1> DEFINE row == [reg[s] EXCEPT !.indexed = FALSE, !.recent = FALSE]
<1>1. reg[s] \in Rows
  BY DEF RegTyped
<1>2. reg' = [reg EXCEPT ![s] = row]
  BY DEF RegTyped
<1>3. row \in Rows
  BY ONLY <1>1 DEF Rows
<1>4. /\ ~ row.recent /\ ~ row.indexed /\ row.exists = reg[s].exists
      /\ row.owner = reg[s].owner /\ row.terminated = reg[s].terminated
      /\ row.handshake = reg[s].handshake /\ row.created = reg[s].created
      /\ row.expires = reg[s].expires
  BY ONLY <1>1 DEF Rows
<1> HIDE DEF row
<1> QED
  BY <1>2, <1>3, <1>4, RowUpdate

(* The row of a session copied from under a NULL tenant. *)
LEMMA MergedFacts ==
    ASSUME RegTyped, NEW s \in Sessions
    PROVE  /\ Merged(s) \in Rows
           /\ Merged(s).exists
           /\ Merged(s).terminated = TRUE <=> TRUE \in legacy[s] \cup {reg[s].terminated}
           /\ Merged(s).terminated # TRUE => Merged(s).terminated = FALSE
           /\ Merged(s).owner = IF reg[s].exists THEN reg[s].owner ELSE Nobody
           /\ Merged(s).handshake = reg[s].handshake
<1>1. reg[s] \in Rows
  BY DEF RegTyped
<1> DEFINE t == TRUE \in legacy[s] \cup {reg[s].terminated}
           p == IF reg[s].exists THEN reg[s].owner ELSE Nobody
           h == reg[s].handshake
           f == FreshRow(Nobody)
<1>2. f \in Rows /\ f.exists
  BY FreshFacts, RegistryAssumption
<1>3. t \in BOOLEAN
  OBVIOUS
<1>4. p \in {Absent} \cup Principals /\ h \in BOOLEAN
  BY <1>1, RowFields, RegistryAssumption
<1>5. Merged(s) = [f EXCEPT !.terminated = t, !.owner = p, !.handshake = h]
  BY DEF Merged
<1> HIDE DEF t, p, h, f
<1>6. Merged(s) \in Rows
  BY ONLY <1>2, <1>3, <1>4, <1>5 DEF Rows
<1>7. /\ Merged(s).exists /\ Merged(s).terminated = t /\ Merged(s).owner = p /\ Merged(s).handshake = h
  BY ONLY <1>2, <1>3, <1>5 DEF Rows
<1>8. /\ Merged(s).terminated = TRUE <=> t
      /\ Merged(s).terminated # TRUE => Merged(s).terminated = FALSE
  BY ONLY <1>3, <1>7
<1> QED
  BY <1>6, <1>7, <1>8 DEF t, p, h

(* Calls of requests, tasks and the command line. *)
LEMMA CallKinds ==
    ASSUME CallsTyped, NEW c \in Callers, call[c].op \in {"hook", "register", "touch", "terminate"}
    PROVE  /\ call[c] \in Calls
           /\ call[c].s \in Sessions /\ call[c].step \in 1..7 /\ call[c].who \in {Absent} \cup Principals
<1>1. call[c] \in Calls
  BY DEF CallsTyped, NoCall, AdminCalls
<1> QED
  BY <1>1 DEF Calls, RegisterSteps

LEMMA AdminKinds ==
    ASSUME CallsTyped
    PROVE  /\ call[Admin].op = "purge" => call[Admin].s \in SUBSET Sessions
           /\ call[Admin].op = "unlist" => call[Admin].s \in Sessions
<1>1. call[Admin] \in {NoCall} \cup Calls \cup AdminCalls
  BY RegistryAssumption DEF CallsTyped
<1> QED
  BY <1>1 DEF NoCall, Calls, AdminCalls

LEMMA PurgedFacts ==
    ASSUME RegTyped, NEW S, reg' = [s \in Sessions |-> IF s \in S THEN NoRow ELSE reg[s]]
    PROVE  /\ RegTyped'
           /\ \A s \in Sessions : reg'[s] = IF s \in S THEN NoRow ELSE reg[s]
BY NoRowFacts DEF RegTyped

LEMMA ExpireFacts ==
    ASSUME RegTyped, NEW s \in Sessions, reg' = [reg EXCEPT ![s] = [NoRow EXCEPT !.indexed = reg[s].indexed]]
    PROVE  /\ RegTyped' /\ OnlyRow(s)
           /\ reg'[s].terminated = Absent /\ reg'[s].owner = Absent
           /\ ~ reg'[s].exists /\ ~ reg'[s].handshake /\ ~ reg'[s].created /\ ~ reg'[s].recent
           /\ ~ reg'[s].expires /\ reg'[s].indexed = reg[s].indexed
<1> DEFINE row == [NoRow EXCEPT !.indexed = reg[s].indexed]
<1>1. reg[s].indexed \in BOOLEAN
  BY RowFields DEF RegTyped
<1>2. reg' = [reg EXCEPT ![s] = row]
  OBVIOUS
<1>3. row \in Rows
  BY ONLY <1>1, NoRowFacts DEF Rows
<1>4. /\ row.terminated = Absent /\ row.owner = Absent
      /\ ~ row.exists /\ ~ row.handshake /\ ~ row.created /\ ~ row.recent
      /\ ~ row.expires /\ row.indexed = reg[s].indexed
  BY ONLY <1>1, NoRowFacts DEF Rows
<1> HIDE DEF row
<1> QED
  BY <1>2, <1>3, <1>4, RowUpdate

LEMMA MigrateFacts ==
    ASSUME RegTyped, MigrateNullTenants
    PROVE  /\ RegTyped'
           /\ \A s \in Sessions : reg'[s] = IF legacy[s] = {} THEN reg[s] ELSE Merged(s)
           /\ legacy' = [s \in Sessions |-> {}]
BY MergedFacts DEF RegTyped, MigrateNullTenants

LEMMA RegistryTyped ==
    ASSUME Typed, RegistryStep, UNCHANGED manager
    PROVE  Typed'
<1> USE CallerFacts DEF Typed
<1>1. RegTyped /\ CallsTyped
  BY DEF StoreTyped, RegTyped
<1>2. /\ TablesTyped' /\ RequestsTyped' /\ phase' = phase /\ UNCHANGED <<creator, answered, causes, ended, lost>>
  BY DEF manager, TablesTyped, EntriesTyped, RequestsTyped
<1>3. ASSUME NEW c \in Callers, call[c].op \in {"register", "touch", "terminate"}, SqlCall(c) \/ RdExists(c) \/ RdWrite(c)
      PROVE  Typed'
  <2> DEFINE s == call[c].s
  <2>1. s \in Sessions /\ call[c] \in Calls /\ call[c].step \in 1..7 /\ call[c].who \in {Absent} \cup Principals
    BY <1>3, CallKinds
  <2>2. RegTyped'
    <3>1. CASE SqlCall(c)
      <4>1. SqliteRegister(s, call[c].who) \/ SqliteTouch(s) \/ SqliteTerminate(s)
        BY <3>1 DEF SqlCall, PgRegister, PgTouch, PgTerminate
      <4> HIDE DEF s
      <4> QED
        BY ONLY <1>1, <2>1, <4>1, SqliteRegisterFacts, SqliteTouchFacts, SqliteTerminateFacts
    <3>2. CASE RdExists(c)
      BY <1>1, <3>2 DEF RdExists, RegTyped
    <3>3. CASE RdWrite(c)
      <4>1. RdRegister(s, call[c].who, call[c].step) \/ RdTouch(s) \/ RdTerminate(s)
        BY <3>3 DEF RdWrite
      <4> HIDE DEF s
      <4> QED
        BY ONLY <1>1, <2>1, <4>1, RdRegisterFacts, RdTouchFacts, RdTerminateFacts
    <3> QED
      BY <1>3, <3>1, <3>2, <3>3
  <2>3. CallsTyped'
    <3>1. Return(c) \/ (NextStep(c) /\ call[c].step # RegisterSteps)
      BY <1>3 DEF SqlCall, RdExists, RdWrite, RegisterSteps
    <3> QED
      BY <2>1, <3>1, ReturnFacts, NextStepFacts DEF CallsTyped
  <2>4. HistoryTyped'
    <3>1. gone' = gone /\ (endWritten' = endWritten \/ endWritten' = endWritten \cup {s})
      BY <1>3 DEF SqlCall, RdExists, RdWrite
    <3> QED
      BY <1>2, <2>1, <3>1 DEF HistoryTyped
  <2>5. StoreTyped'
    BY <1>3, <2>2 DEF SqlCall, RdExists, RdWrite, StoreTyped, RegTyped
  <2> QED
    BY <1>2, <2>3, <2>4, <2>5
<1>4. CASE MigrateNullTenants
  <2>1. StoreTyped'
    BY <1>1, <1>4, MigrateFacts DEF MigrateNullTenants, StoreTyped, RegTyped
  <2> QED
    BY <1>2, <1>4, <2>1 DEF MigrateNullTenants, CallsTyped, HistoryTyped
<1>5. CASE SqlPurge
  <2>1. SqlitePurge /\ UNCHANGED <<backend, legacy, call, endWritten>>
    BY <1>5 DEF SqlPurge, PgPurge
  <2>2. StoreTyped'
    BY <1>1, <2>1, PurgedFacts DEF SqlitePurge, StoreTyped, RegTyped
  <2>3. HistoryTyped'
    BY <1>2, <2>1 DEF SqlitePurge, Old, HistoryTyped
  <2> QED
    BY <1>2, <2>1, <2>2, <2>3 DEF CallsTyped
<1>6. CASE RdPurgeRead \/ RdListRead
  <2>1. UNCHANGED <<backend, reg, legacy, endWritten, gone>>
    BY <1>6 DEF RdPurgeRead, RdListRead
  <2>2. \E k \in AdminCalls : call' = [call EXCEPT ![Admin] = k]
    <3>1. CASE RdPurgeRead
      <4>1. [op |-> "purge", s |-> RdOldMembers] \in AdminCalls
        BY DEF AdminCalls, RdOldMembers
      <4> QED
        BY <3>1, <4>1 DEF RdPurgeRead
    <3>2. CASE RdListRead
      BY <3>2 DEF RdListRead, AdminCalls
    <3> QED
      BY <1>6, <3>1, <3>2
  <2>3. CallsTyped'
    BY <2>2 DEF CallsTyped
  <2> QED
    BY <1>2, <2>1, <2>3 DEF StoreTyped, HistoryTyped
<1>7. CASE RdPurgeDelete
  <2>1. /\ reg' = [s \in Sessions |-> IF s \in call[Admin].s THEN NoRow ELSE reg[s]]
        /\ gone' = gone \cup call[Admin].s /\ Return(Admin) /\ UNCHANGED <<backend, legacy, endWritten>>
    BY <1>7 DEF RdPurgeDelete
  <2>2. StoreTyped'
    BY <1>1, <2>1, PurgedFacts DEF StoreTyped, RegTyped
  <2>3. HistoryTyped'
    BY <1>2, <1>7, <2>1, AdminKinds DEF HistoryTyped, RdPurgeDelete
  <2>4. CallsTyped'
    BY <2>1, ReturnFacts DEF CallsTyped
  <2> QED
    BY <1>2, <2>2, <2>3, <2>4
<1>8. CASE RdListForgets
  <2>1. /\ reg' = [reg EXCEPT ![call[Admin].s].indexed = FALSE, ![call[Admin].s].recent = FALSE]
        /\ Return(Admin) /\ UNCHANGED <<backend, legacy, endWritten, gone>> /\ call[Admin].s \in Sessions
    BY <1>8, AdminKinds DEF RdListForgets
  <2>2. StoreTyped'
    BY <1>1, <2>1, ForgetsFacts DEF StoreTyped, RegTyped
  <2>3. CallsTyped'
    BY <2>1, ReturnFacts DEF CallsTyped
  <2> QED
    BY <1>2, <2>1, <2>2, <2>3 DEF HistoryTyped
<1>9. CASE Expire
  <2>1. PICK s \in Sessions : /\ reg' = [reg EXCEPT ![s] = [NoRow EXCEPT !.indexed = reg[s].indexed]]
                              /\ gone' = gone \cup {s} /\ UNCHANGED <<backend, legacy, call, endWritten>>
    BY <1>9 DEF Expire
  <2>2. StoreTyped'
    BY <1>1, <2>1, ExpireFacts DEF StoreTyped, RegTyped
  <2> QED
    BY <1>2, <2>1, <2>2 DEF HistoryTyped, CallsTyped
<1> QED
  BY <1>3, <1>4, <1>5, <1>6, <1>7, <1>8, <1>9 DEF RegistryStep

LEMMA TypedInit == Init => Typed
<1> SUFFICES ASSUME Init PROVE Typed
  OBVIOUS
<1>1. StoreTyped
  <2>1. \A b \in BOOLEAN : [FreshRow(Nobody) EXCEPT !.terminated = b] \in Rows
    <3>1. FreshRow(Nobody) \in Rows
      BY FreshFacts, RegistryAssumption
    <3> QED
      BY ONLY <3>1 DEF Rows
  <2>2. reg \in [Sessions -> Rows]
    <3>1. reg \in [Sessions -> {NoRow} \cup {[FreshRow(Nobody) EXCEPT !.terminated = b] : b \in BOOLEAN}]
      BY DEF Init
    <3> QED
      BY <2>1, <3>1, NoRowFacts
  <2>3. legacy \in [Sessions -> SUBSET BOOLEAN]
    BY DEF Init, Legacies
  <2> QED
    BY <2>2, <2>3 DEF Init, StoreTyped
<1>2. CallsTyped /\ RequestsTyped
  BY DEF Init, CallsTyped, RequestsTyped
<1>3. TablesTyped
  <2>1. NoTransport \in Transports
    BY DEF NoTransport, Transports
  <2> QED
    BY <2>1 DEF Init, TablesTyped, EntriesTyped
<1>4. HistoryTyped
  BY RegistryAssumption DEF Init, HistoryTyped
<1> QED
  BY <1>1, <1>2, <1>3, <1>4 DEF Typed, Init

LEMMA TypedStep == Typed /\ [Next]_vars => Typed'
<1> SUFFICES ASSUME Typed, [Next]_vars PROVE Typed'
  OBVIOUS
<1>1. CASE UNCHANGED vars
  BY <1>1 DEF vars, registry, manager, Typed, StoreTyped, CallsTyped, TablesTyped, EntriesTyped, RequestsTyped,
              HistoryTyped
<1>2. ASSUME NEW r \in Requests, RequestStep(r) PROVE Typed'
  <2>1. CASE \E w \in Workers, s \in Sessions, p \in Principals :
               Opens(r, w, s, p) \/ \E k \in {"use", "delete"} : Arrives(r, w, s, p, k)
    BY <2>1, OpeningTyped, UsingTyped
  <2>2. CASE ResponseStarts(r) \/ Answers(r) \/ Opened(r) \/ OpeningFails(r)
    BY <2>2, OpeningTyped
  <2>3. CASE LooksUp(r) \/ LookupFails(r) \/ Adopts(r) \/ Touched(r)
    BY <2>3, UsingTyped
  <2>4. CASE Handled(r) \/ Deletes(r) \/ Deleted(r)
    BY <2>4, HandlingTyped
  <2>5. CASE ReconcileCreated(r) \/ ReconcileVanished(r) \/ ReconcileUsed(r) \/ Reconciled(r)
    BY <2>5, ReconcileTyped
  <2>6. CASE req[r].pc # "free" /\ HookRecords(r, req[r].w)
    <3>1. req[r].w \in Workers
      BY <2>6, BusyFacts DEF Busy, Kept
    <3> QED
      BY <2>6, <3>1, HookTyped, CallerFacts
  <2> QED
    BY <1>2, <2>1, <2>2, <2>3, <2>4, <2>5, <2>6 DEF RequestStep
<1>3. ASSUME NEW w \in Workers, WorkerStep(w) PROVE Typed'
  BY <1>3, WorkerTyped, HookTyped, CallerFacts DEF WorkerStep
<1> QED
  BY <1>1, <1>2, <1>3, OutsideTyped, RegistryTyped DEF Next

(* Every variable keeps its kind, a transport stands exactly for a session *)
(* of its worker's table, and what ended had a reason to                   *)
(* (session_manager.py, sessions.py).                                      *)
THEOREM SessionsTyped == Spec => []TypeOK
<1>1. Typed => TypeOK
  <2> SUFFICES ASSUME Typed PROVE TypeOK
    OBVIOUS
  <2>1. \A c \in Callers : call[c].op \in {"none", "hook", "register", "touch", "terminate"}
                                          \cup (IF c = Admin THEN {"purge", "unlist"} ELSE {})
    BY DEF Typed, CallsTyped, NoCall, Calls, AdminCalls
  <2>2. \A r \in Requests : req[r].pc \in {"free"} \cup PCs
    BY DEF Typed, RequestsTyped, Free, Kept
  <2>3. answered \cup causes \cup lost \cup gone \cup endWritten \subseteq Sessions
    BY DEF Typed, HistoryTyped
  <2> QED
    BY <2>1, <2>2, <2>3 DEF TypeOK, Typed, StoreTyped, TablesTyped, EntriesTyped, HistoryTyped, Transports
<1> QED
  BY <1>1, TypedInit, TypedStep, PTL DEF Spec

-------------------------------------------------------------------------------
(* Who is who: a session has one opener, and whatever the registry, a      *)
(* transport or an accepted request says of its principal is what its      *)
(* opener was.                                                             *)

Opening(r) == Busy(r) /\ req[r].kind = "open"
Alone == \A q, r \in Requests : Opening(q) /\ Opening(r) /\ req[q].s = req[r].s => q = r

(* The SDK or the registry accepted the request's credential. *)
Accepted(r) == \/ req[r].pc \in {"locking", "touching", "handling", "deleting"}
               \/ req[r].pc \in {"reconcile", "last"} /\ ~ req[r].refused
RequestWho(r) ==
    Busy(r) =>
        /\ phase[req[r].w] # "down" /\ creator[req[r].s] # Absent
        /\ req[r].kind = "open" =>
              /\ req[r].who = creator[req[r].s] /\ req[r].via = "sdk" /\ legacy[req[r].s] = {}
              /\ req[r].pc \in {"opening", "recording", "streaming", "reconcile", "reconciling", "last"}
              /\ req[r].pc = "opening" => ~ req[r].registered
              /\ req[r].pc \in {"recording", "streaming"} => req[r].registered
              /\ req[r].pc = "recording" \/ ~ req[r].registered => req[r].s \notin answered
        /\ req[r].kind # "open" =>
              /\ req[r].pc \notin {"opening", "recording", "streaming", "reconciling"} /\ ~ req[r].registered
              /\ req[r].who = creator[req[r].s] => req[r].s \in answered
              /\ Accepted(r) => req[r].who = creator[req[r].s]
        /\ req[r].pc = "locking" => legacy[req[r].s] = {}
RequestCall(r) ==
    Going(r) =>
        /\ Busy(r) /\ call[r].s = req[r].s
        /\ call[r].op = "register" =>
              /\ req[r].kind = "open" /\ call[r].who = creator[req[r].s]
              /\ req[r].pc = "recording" \/ (req[r].pc = "reconciling" /\ ~ req[r].registered)
        /\ call[r].op = "touch" => req[r].pc \in {"touching", "last"} /\ req[r].s \in answered
        /\ call[r].op \in {"hook", "terminate"} => req[r].pc \in {"deleting", "last"}
TaskCall(w, s) ==
    Going(<<w, s>>) =>
        /\ phase[w] # "down" /\ creator[s] # Absent
        /\ call[<<w, s>>].s = s /\ call[<<w, s>>].op \in {"hook", "terminate"}
AdminCall ==
    /\ call[Admin].op \in {"none", "terminate", "purge", "unlist"}
    /\ call[Admin].op \in {"terminate", "unlist"} => creator[call[Admin].s] # Absent
    /\ call[Admin].op = "purge" => \A s \in call[Admin].s : creator[s] # Absent
EntryWho(w, s) ==
    table[w][s] # "none" =>
        /\ phase[w] # "down" /\ creator[s] # Absent /\ legacy[s] = {}
        /\ transport[w][s].owner = creator[s]
RowWho(s) ==
    /\ reg[s].owner # Absent => reg[s].owner = creator[s]
    /\ backend # "redis" /\ reg[s].exists => reg[s].owner # Absent
    /\ legacy[s] # {} => creator[s] = Nobody
    /\ backend = "redis" => legacy[s] = {}
    /\ creator[s] = Absent => reg[s] = NoRow /\ s \notin answered

Who ==
    /\ Alone /\ AdminCall
    /\ \A r \in Requests : RequestWho(r) /\ RequestCall(r)
    /\ \A w \in Workers, s \in Sessions : EntryWho(w, s) /\ TaskCall(w, s)
    /\ \A s \in Sessions : RowWho(s)

LEMMA RequestKeepsWho ==
    ASSUME Typed, Who, NEW r \in Requests, req'[r] = req[r],
           Busy(r) => phase'[req[r].w] # "down" /\ creator'[req[r].s] = creator[req[r].s],
           answered \subseteq answered',
           Opening(r) /\ req[r].s \notin answered => req[r].s \notin answered',
           \A s \in Sessions : legacy[s] = {} => legacy'[s] = {}
    PROVE  RequestWho(r)'
<1>1. RequestWho(r) /\ (Busy(r) => req[r] \in Kept /\ req[r].s \in Sessions)
  BY BusyFacts DEF Who, Kept
<1>2. Busy(r)' <=> Busy(r)
  BY DEF Busy
<1> QED
  BY <1>1, <1>2 DEF RequestWho, Opening, Accepted

LEMMA RequestKeepsCall ==
    ASSUME Typed, Who, NEW r \in Requests, req'[r] = req[r], call'[r] = call[r],
           Busy(r) => creator'[req[r].s] = creator[req[r].s],
           answered \subseteq answered'
    PROVE  RequestCall(r)'
BY DEF Who, RequestCall, Going, Busy

(* A step of one request, or one of the registry's for it, in which no     *)
(* session is opened or answered, or taken into a table.                   *)
Shrinks == \A w \in Workers, s \in Sessions :
               table'[w][s] # "none" =>
                   table[w][s] # "none" /\ transport'[w][s].owner = transport[w][s].owner
LEMMA EntriesKeepWho ==
    ASSUME Typed, Who, Shrinks, UNCHANGED <<legacy, phase, creator>>
    PROVE  \A w \in Workers, s \in Sessions : EntryWho(w, s)'
BY DEF Who, EntryWho, Shrinks

LEMMA TasksKeepWho ==
    ASSUME Typed, Who, UNCHANGED <<phase, creator>>,
           NEW w \in Workers, NEW s \in Sessions, call'[<<w, s>>] = call[<<w, s>>]
    PROVE  TaskCall(w, s)'
BY DEF Who, TaskCall, Going

LEMMA RequestMoves ==
    ASSUME Typed, Who, NEW r \in Requests, OnlyRequest(r), OnlyCall(r), Shrinks,
           UNCHANGED <<backend, reg, legacy, phase, creator, answered>>,
           Opening(r)' => Opening(r) /\ req'[r].s = req[r].s,
           RequestWho(r)', RequestCall(r)'
    PROVE  Who'
<1>1. \A q \in Requests : q # r => RequestWho(q)' /\ RequestCall(q)'
  <2> SUFFICES ASSUME NEW q \in Requests, q # r PROVE RequestWho(q)' /\ RequestCall(q)'
    OBVIOUS
  <2>1. req'[q] = req[q] /\ call'[q] = call[q]
    BY CallerFacts DEF OnlyRequest, OnlyCall
  <2>2. Busy(q) => phase'[req[q].w] # "down"
    BY DEF Who, RequestWho
  <2> QED
    BY <2>1, <2>2, RequestKeepsWho, RequestKeepsCall
<1>2. Alone'
  BY DEF Who, Alone, Opening, Busy, OnlyRequest
<1>3. \A w \in Workers, s \in Sessions : TaskCall(w, s)'
  <2> SUFFICES ASSUME NEW w \in Workers, NEW s \in Sessions PROVE TaskCall(w, s)'
    OBVIOUS
  <2>1. call'[<<w, s>>] = call[<<w, s>>]
    BY CallerFacts DEF OnlyCall
  <2> QED
    BY <2>1, TasksKeepWho
<1>4. AdminCall'
  BY CallerFacts DEF Who, AdminCall, OnlyCall
<1>5. \A s \in Sessions : RowWho(s)'
  BY DEF Who, RowWho
<1> QED
  BY <1>1, <1>2, <1>3, <1>4, <1>5, EntriesKeepWho DEF Who

LEMMA OpensWho ==
    ASSUME Typed, Who, NEW r \in Requests, NEW w \in Workers, NEW s \in Sessions, NEW p \in Principals,
           Opens(r, w, s, p)
    PROVE  Who'
<1>1. /\ req[r] = Free /\ phase[w] = "up" /\ creator[s] = Absent
      /\ creator' = [creator EXCEPT ![s] = p]
      /\ UNCHANGED <<backend, reg, legacy, call, endWritten, gone, phase, answered, causes, ended, lost>>
  BY DEF Opens, registry
<1>2. /\ OnlyRequest(r)
      /\ req'[r] = [pc |-> "opening", w |-> w, s |-> s, who |-> p, kind |-> "open",
                    via |-> "sdk", known |-> FALSE, registered |-> FALSE, refused |-> FALSE,
                    handshake |-> TRUE]
  BY DEF Opens, OnlyRequest, Typed, RequestsTyped
<1>3. OnlyEntry(w, s) /\ transport'[w][s].owner = p
  <2> DEFINE tr == [NoTransport EXCEPT !.owner = p, !.initialized = TRUE]
  <2>1. tr \in Transports /\ tr.owner = p
    BY DEF NoTransport, Transports
  <2>2. Put(w, s, "live", tr)
    BY DEF Opens
  <2> HIDE DEF tr
  <2> QED
    BY <2>1, <2>2, PutFacts
<1>4. p # Absent /\ creator'[s] = p /\ \A t \in Sessions : t # s => creator'[t] = creator[t]
  BY <1>1, RegistryAssumption DEF Typed, HistoryTyped
<1>5. \A q \in Requests : Busy(q) => req[q].s \in Sessions /\ req[q].s # s
  BY <1>1, BusyFacts DEF Who, RequestWho, Kept
<1>6. legacy[s] = {} /\ s \notin answered /\ reg[s].owner = Absent /\ (backend # "redis" => ~ reg[s].exists)
  BY <1>1, NoRowFacts, RegistryAssumption DEF Who, RowWho
<1>7. \A q \in Requests : RequestWho(q)' /\ RequestCall(q)'
  <2>1. ASSUME NEW q \in Requests, q # r PROVE RequestWho(q)' /\ RequestCall(q)'
    <3>1. req'[q] = req[q] /\ call'[q] = call[q]
      BY <1>1, <1>2, <2>1 DEF OnlyRequest
    <3>2. Busy(q) => phase'[req[q].w] # "down" /\ creator'[req[q].s] = creator[req[q].s]
      BY <1>1, <1>4, <1>5 DEF Who, RequestWho
    <3> QED
      BY <1>1, <3>1, <3>2, RequestKeepsWho, RequestKeepsCall
  <2>2. RequestWho(r)'
    BY <1>1, <1>2, <1>4, <1>6 DEF RequestWho, Accepted, Busy
  <2>3. RequestCall(r)'
    BY <1>1 DEF Who, RequestCall, Busy, Free, Going
  <2> QED
    BY <2>1, <2>2, <2>3
<1>8. Alone'
  BY <1>2, <1>5 DEF Who, Alone, Opening, Busy, OnlyRequest
<1>9. \A v \in Workers, t \in Sessions : EntryWho(v, t)' /\ TaskCall(v, t)'
  <2> SUFFICES ASSUME NEW v \in Workers, NEW t \in Sessions PROVE EntryWho(v, t)' /\ TaskCall(v, t)'
    OBVIOUS
  <2>1. TaskCall(v, t)'
    BY <1>1, <1>4 DEF Who, TaskCall, Going
  <2>2. EntryWho(v, t)'
    <3>1. CASE v = w /\ t = s
      BY <1>1, <1>3, <1>4, <1>6, <3>1 DEF EntryWho
    <3>2. CASE ~ (v = w /\ t = s)
      BY <1>1, <1>3, <1>4, <3>2 DEF Who, EntryWho, OnlyEntry
    <3> QED
      BY <3>1, <3>2
  <2> QED
    BY <2>1, <2>2
<1>10. AdminCall'
  <2>1. /\ call[Admin].op = "purge" => call[Admin].s \in SUBSET Sessions
        /\ call[Admin].op = "unlist" => call[Admin].s \in Sessions
        /\ call[Admin].op = "terminate" => call[Admin].s \in Sessions
    BY AdminKinds, CallKinds, CallerFacts DEF Typed
  <2> QED
    BY <1>1, <1>4, <2>1 DEF Who, AdminCall
<1>11. \A t \in Sessions : RowWho(t)'
  <2> SUFFICES ASSUME NEW t \in Sessions PROVE RowWho(t)'
    OBVIOUS
  <2>1. CASE t = s
    BY <1>1, <1>4, <1>6, <2>1 DEF RowWho, Who
  <2>2. CASE t # s
    BY <1>1, <1>4, <2>2 DEF RowWho, Who
  <2> QED
    BY <2>1, <2>2
<1> QED
  BY <1>7, <1>8, <1>9, <1>10, <1>11 DEF Who

LEMMA AnswersWho ==
    ASSUME Typed, Who, NEW r \in Requests, Answers(r)
    PROVE  Who'
<1>1. /\ req[r].pc = "recording" /\ ~ Going(r) /\ answered' = answered \cup {req[r].s}
      /\ At(r, "streaming")
      /\ UNCHANGED <<backend, reg, legacy, call, phase, table, transport, creator>>
  BY DEF Answers, registry
<1>2. Busy(r) /\ req[r] \in Kept /\ req[r].s \in Sessions
  BY <1>1, BusyFacts DEF Busy, Kept
<1>3. /\ OnlyRequest(r) /\ req'[r].pc = "streaming"
      /\ req'[r].w = req[r].w /\ req'[r].s = req[r].s /\ req'[r].who = req[r].who
      /\ req'[r].kind = req[r].kind /\ req'[r].via = req[r].via
      /\ req'[r].registered = req[r].registered
  BY <1>1, <1>2, AtFacts DEF PCs
<1>4. Opening(r) /\ req[r].registered /\ RequestWho(r)
  BY <1>1, <1>2 DEF Who, RequestWho, Opening
<1>5. \A q \in Requests : RequestWho(q)' /\ RequestCall(q)'
  <2>1. ASSUME NEW q \in Requests, q # r PROVE RequestWho(q)' /\ RequestCall(q)'
    <3>1. req'[q] = req[q] /\ call'[q] = call[q]
      BY <1>1, <1>3, <2>1 DEF OnlyRequest
    <3>2. Busy(q) => phase'[req[q].w] # "down" /\ creator'[req[q].s] = creator[req[q].s]
      BY <1>1 DEF Who, RequestWho
    <3>3. Opening(q) => req[q].s # req[r].s
      BY <1>4, <2>1 DEF Who, Alone
    <3> QED
      BY <1>1, <3>1, <3>2, <3>3, RequestKeepsWho, RequestKeepsCall
  <2>2. RequestWho(r)'
    BY <1>1, <1>2, <1>3, <1>4 DEF RequestWho, Accepted, Busy, Opening
  <2>3. RequestCall(r)'
    BY <1>1 DEF RequestCall, Going
  <2> QED
    BY <2>1, <2>2, <2>3
<1>6. Alone'
  BY <1>2, <1>3 DEF Who, Alone, Opening, Busy, OnlyRequest
<1>7. ASSUME NEW w \in Workers, NEW s \in Sessions PROVE EntryWho(w, s)' /\ TaskCall(w, s)'
  <2>1. EntryWho(w, s) /\ TaskCall(w, s)
    BY DEF Who
  <2>2. EntryWho(w, s)'
    BY <1>1, <2>1 DEF EntryWho
  <2>3. TaskCall(w, s)'
    BY <1>1, <2>1 DEF TaskCall, Going
  <2> QED
    BY <2>2, <2>3
<1>8. AdminCall'
  BY <1>1 DEF Who, AdminCall
<1>9. \A s \in Sessions : RowWho(s)'
  BY <1>1, <1>4 DEF Who, RowWho, RequestWho, Opening
<1> QED
  BY <1>5, <1>6, <1>7, <1>8, <1>9 DEF Who

(* What goes on in a request of which only the step is known. *)
LEMMA RequestParts ==
    ASSUME Typed, Who, NEW r \in Requests, Busy(r)
    PROVE  /\ req[r] \in Kept /\ req[r].w \in Workers /\ req[r].s \in Sessions /\ req[r].who \in Principals
           /\ req[r].who \in {Absent} \cup Principals /\ req[r].pc \in PCs
           /\ req[r].kind \in {"open", "use", "delete"}
           /\ r \in Callers /\ r # Admin /\ Absent \in {Absent} \cup Principals
           /\ RequestWho(r) /\ RequestCall(r)
<1>1. req[r] \in Kept
  BY BusyFacts
<1> QED
  BY <1>1, CallerFacts DEF Kept, Who

LEMMA PopShrinks ==
    ASSUME Typed, NEW w \in Workers, NEW s \in Sessions, Pop(w, s)
    PROVE  Shrinks
BY PopFacts DEF Shrinks, OnlyEntry

LEMMA SameShrinks ==
    ASSUME UNCHANGED <<table, transport>>
    PROVE  Shrinks
BY DEF Shrinks

LEMMA OpeningWho ==
    ASSUME Typed, Who, NEW r \in Requests, ResponseStarts(r) \/ Opened(r) \/ OpeningFails(r)
    PROVE  Who'
<1>1. /\ Busy(r) /\ req[r].pc \in {"opening", "recording", "streaming"}
      /\ UNCHANGED <<backend, reg, legacy, phase, creator, answered>>
  BY DEF Busy, ResponseStarts, Opened, OpeningFails, registry
<1>2. /\ Opening(r) /\ RequestWho(r) /\ RequestCall(r) /\ req[r] \in Kept
  BY <1>1, RequestParts DEF RequestWho, Opening
<1>3. CASE ResponseStarts(r)
  <2>1. /\ req' = [req EXCEPT ![r].pc = "recording", ![r].registered = TRUE]
        /\ Call(r, "register", req[r].s, req[r].who) /\ req[r].pc = "opening"
        /\ UNCHANGED <<table, transport>>
    BY <1>3 DEF ResponseStarts
  <2>2. /\ OnlyRequest(r) /\ req'[r].pc = "recording" /\ req'[r].registered
        /\ req'[r].w = req[r].w /\ req'[r].s = req[r].s /\ req'[r].who = req[r].who
        /\ req'[r].kind = req[r].kind /\ req'[r].via = req[r].via
    BY <1>2, <2>1 DEF Typed, RequestsTyped, OnlyRequest, Kept
  <2>3. OnlyCall(r) /\ call'[r].op = "register" /\ call'[r].s = req[r].s /\ call'[r].who = req[r].who
    <3>1. r \in Callers /\ Call(r, "register", req[r].s, req[r].who)
      BY <1>1, <2>1, RequestParts
    <3> QED
      BY ONLY Typed, <3>1, CallDoes
  <2>4. RequestWho(r)'
    <3>1. legacy'[req'[r].s] = {} /\ phase'[req'[r].w] # "down" /\ creator'[req'[r].s] # Absent
      BY <1>1, <1>2, <2>2 DEF RequestWho, Opening
    <3> QED
      <4>1. /\ req[r].kind = "open" /\ req[r].who = creator[req[r].s] /\ req[r].via = "sdk" /\ req[r].s \notin answered
            /\ ~ req[r].registered
        BY <1>1, <1>2, <2>1 DEF RequestWho, Opening
      <4>2. /\ req'[r].kind = "open" /\ req'[r].who = creator'[req'[r].s] /\ req'[r].via = "sdk"
            /\ req'[r].s \notin answered' /\ req'[r].registered /\ req'[r].pc = "recording"
        BY <1>1, <2>2, <4>1
      <4> QED
        BY <3>1, <4>2 DEF RequestWho
  <2>5. RequestCall(r)'
    BY <1>1, <1>2, <2>1, <2>2, <2>3 DEF RequestCall, RequestWho, Opening, Busy
  <2> QED
    BY <1>1, <1>2, <2>1, <2>2, <2>3, <2>4, <2>5, SameShrinks, RequestMoves DEF Opening
<1>4. CASE Opened(r) \/ OpeningFails(r)
  <2>1. At(r, "reconcile") /\ (Return(r) \/ (UNCHANGED call /\ req[r].pc = "streaming"))
    BY <1>4 DEF Opened, OpeningFails, registry
  <2>2. /\ OnlyRequest(r) /\ req'[r].pc = "reconcile" /\ req'[r].registered = req[r].registered
        /\ req'[r].w = req[r].w /\ req'[r].s = req[r].s /\ req'[r].who = req[r].who
        /\ req'[r].kind = req[r].kind /\ req'[r].via = req[r].via
    BY <1>1, <2>1, AtFacts DEF PCs
  <2>3. OnlyCall(r) /\ call'[r].op = "none"
    <3>1. CASE Return(r)
      BY <3>1, ReturnFacts, CallerFacts
    <3>2. CASE UNCHANGED call /\ req[r].pc = "streaming"
      <4>1. ~ Going(r)
        <5>1. Going(r) => call[r] \in Calls
          BY CallerFacts DEF Typed, CallsTyped, Going, NoCall
        <5> QED
          BY <1>2, <3>2, <5>1 DEF RequestCall, Calls
      <4> QED
        BY <3>2, <4>1 DEF OnlyCall, Going
    <3> QED
      BY <2>1, <3>1, <3>2
  <2>4. RequestWho(r)'
    BY <1>1, <1>2, <2>2 DEF RequestWho, Opening, Busy, Accepted
  <2>5. RequestCall(r)'
    BY <2>3 DEF RequestCall, Going
  <2>6. Shrinks
    <3>1. Pop(req[r].w, req[r].s) \/ UNCHANGED <<table, transport>>
      BY <1>4 DEF Opened, OpeningFails, Keep
    <3>2. req[r].w \in Workers /\ req[r].s \in Sessions
      BY <1>2 DEF Kept
    <3> QED
      BY <3>1, <3>2, PopShrinks, SameShrinks
  <2> QED
    BY <1>1, <1>2, <2>2, <2>3, <2>4, <2>5, <2>6, RequestMoves DEF Opening
<1> QED
  BY <1>3, <1>4

(* A request that makes no call and is in none. *)
LEMMA NotCalling ==
    ASSUME Typed, Who, NEW r \in Requests,
           Busy(r) => req[r].pc \in {"opening", "streaming", "lookup", "locking", "handling", "reconcile"}
    PROVE  ~ Going(r)
<1>1. Going(r) => call[r] \in Calls
  BY CallerFacts DEF Typed, CallsTyped, Going, NoCall
<1>2. RequestCall(r)
  BY DEF Who
<1> QED
  BY <1>1, <1>2 DEF RequestCall, Calls

LEMMA ArrivesWho ==
    ASSUME Typed, Who, NEW r \in Requests, NEW w \in Workers, NEW s \in Sessions, NEW p \in Principals,
           NEW k \in {"use", "delete"}, Arrives(r, w, s, p, k)
    PROVE  Who'
<1>1. /\ req[r] = Free /\ phase[w] = "up" /\ creator[s] # Absent /\ (p = creator[s] => s \in answered)
      /\ UNCHANGED <<backend, reg, legacy, call, phase, table, transport, creator, answered>>
  BY DEF Arrives, registry
<1> DEFINE o == [pc |-> "lookup", w |-> w, s |-> s, who |-> p, kind |-> k, via |-> "adopt", known |-> FALSE,
                 registered |-> FALSE, refused |-> FALSE, handshake |-> FALSE]
<1>2. ~ Going(r)
  BY <1>1, NotCalling DEF Busy, Free
<1>3. CASE req' = [req EXCEPT ![r] = o]
  <2>1. OnlyRequest(r) /\ req'[r] = o
    BY <1>3 DEF Typed, RequestsTyped, OnlyRequest
  <2>2. RequestWho(r)' /\ ~ Opening(r)'
    BY <1>1, <2>1 DEF RequestWho, Accepted, Opening
  <2>3. RequestCall(r)' /\ OnlyCall(r)
    BY <1>1, <1>2 DEF RequestCall, Going, OnlyCall
  <2> QED
    BY <1>1, <2>1, <2>2, <2>3, SameShrinks, RequestMoves
<1>4. CASE SdkTakes(r, w, s, p, k)
  <2>1. /\ OnlyRequest(r) /\ req'[r].pc \in {"handling", "reconcile"}
        /\ req'[r].pc = "handling" <=> table[w][s] = "live" /\ transport[w][s].owner = p
        /\ req'[r].w = w /\ req'[r].s = s /\ req'[r].who = p /\ req'[r].kind = k
        /\ req'[r].via = "sdk" /\ ~ req'[r].registered
        /\ req'[r].refused <=> req'[r].pc = "reconcile"
    BY <1>4, SdkFacts
  <2>2. req'[r].pc = "handling" => p = creator[s]
    BY <2>1 DEF Who, EntryWho
  <2>3. RequestWho(r)' /\ ~ Opening(r)'
    BY <1>1, <2>1, <2>2 DEF RequestWho, Accepted, Opening
  <2>4. RequestCall(r)' /\ OnlyCall(r)
    BY <1>1, <1>2 DEF RequestCall, Going, OnlyCall
  <2> QED
    BY <1>1, <2>1, <2>3, <2>4, SameShrinks, RequestMoves
<1> QED
  BY <1>3, <1>4 DEF Arrives

LEMMA LooksUpWho ==
    ASSUME Typed, Who, NEW r \in Requests, LooksUp(r) \/ LookupFails(r)
    PROVE  Who'
<1> DEFINE w == req[r].w  s == req[r].s
<1>1. /\ Busy(r) /\ req[r].pc = "lookup"
      /\ UNCHANGED <<backend, reg, legacy, call, phase, table, transport, creator, answered>>
  BY DEF Busy, LooksUp, LookupFails, registry
<1>2. /\ RequestWho(r) /\ req[r] \in Kept /\ w \in Workers /\ s \in Sessions /\ req[r].who \in Principals
      /\ req[r].kind \in {"use", "delete"}
  BY <1>1, RequestParts DEF RequestWho
<1>3. ~ Going(r)
  BY <1>1, NotCalling
<1>4. RequestCall(r)' /\ OnlyCall(r)
  BY <1>1, <1>3 DEF RequestCall, Going, OnlyCall
<1>5. CASE SdkTakes(r, w, s, req[r].who, req[r].kind)
  <2>1. /\ OnlyRequest(r) /\ req'[r].pc \in {"handling", "reconcile"}
        /\ req'[r].pc = "handling" <=> table[w][s] = "live" /\ transport[w][s].owner = req[r].who
        /\ req'[r].w = w /\ req'[r].s = s /\ req'[r].who = req[r].who /\ req'[r].kind = req[r].kind
        /\ req'[r].via = "sdk" /\ ~ req'[r].registered
        /\ req'[r].refused <=> req'[r].pc = "reconcile"
    <3> HIDE DEF w, s
    <3> QED
      BY <1>2, <1>5, SdkFacts
  <2>2. req'[r].pc = "handling" => req[r].who = creator[s]
    BY <1>2, <2>1 DEF Who, EntryWho
  <2>3. RequestWho(r)' /\ ~ Opening(r)'
    BY <1>1, <1>2, <2>1, <2>2 DEF RequestWho, Accepted, Opening
  <2> QED
    BY <1>1, <1>4, <2>1, <2>3, SameShrinks, RequestMoves
<1>6. CASE /\ Initialized /\ Adoptable(s) /\ OwnerMatches(OwnerOf(s), req[r].who)
           /\ req' = [req EXCEPT ![r].pc = "locking", ![r].handshake = reg[s].handshake]
  <2>1. /\ OnlyRequest(r) /\ req'[r].pc = "locking" /\ req'[r].registered = req[r].registered
        /\ req'[r].w = req[r].w /\ req'[r].s = req[r].s /\ req'[r].who = req[r].who
        /\ req'[r].kind = req[r].kind /\ req'[r].via = req[r].via
    BY <1>2, <1>6 DEF Typed, RequestsTyped, OnlyRequest, Kept
  <2>2. reg[s].owner = creator[s] /\ reg[s].owner # Absent
    BY <1>2, <1>6 DEF Who, RowWho, Adoptable, Found, Whole
  <2>3. req[r].who = creator[s]
    BY <1>6, <2>2 DEF OwnerMatches, OwnerOf
  <2>4. legacy[s] = {}
    BY <1>2, <1>6 DEF Initialized
  <2>5. RequestWho(r)' /\ ~ Opening(r)'
    BY <1>1, <1>2, <2>1, <2>3, <2>4 DEF RequestWho, Accepted, Opening, Busy
  <2> QED
    BY <1>1, <1>4, <2>1, <2>5, SameShrinks, RequestMoves
<1> QED
  BY <1>5, <1>6 DEF LooksUp, LookupFails

LEMMA AdoptsWho ==
    ASSUME Typed, Who, NEW r \in Requests, Adopts(r)
    PROVE  Who'
<1> DEFINE w == req[r].w  s == req[r].s
<1>1. /\ Busy(r) /\ req[r].pc = "locking"
      /\ UNCHANGED <<backend, reg, legacy, phase, creator, answered>>
  BY DEF Busy, Adopts
<1>2. /\ RequestWho(r) /\ req[r] \in Kept /\ w \in Workers /\ s \in Sessions
      /\ req[r].who \in Principals /\ req[r].handshake \in BOOLEAN
      /\ r \in Callers /\ Absent \in {Absent} \cup Principals
  BY <1>1, RequestParts DEF Kept
<1>3. ~ Going(r)
  BY <1>1, NotCalling
<1>4. CASE At(r, "handling") /\ UNCHANGED <<call, table, transport>>
  <2>1. /\ OnlyRequest(r) /\ req'[r].pc = "handling" /\ req'[r].registered = req[r].registered
        /\ req'[r].w = req[r].w /\ req'[r].s = req[r].s /\ req'[r].who = req[r].who
        /\ req'[r].kind = req[r].kind /\ req'[r].via = req[r].via
    BY <1>1, <1>4, AtFacts DEF PCs
  <2>2. RequestWho(r)' /\ ~ Opening(r)'
    BY <1>1, <1>2, <2>1 DEF RequestWho, Accepted, Opening, Busy
  <2>3. RequestCall(r)' /\ OnlyCall(r)
    BY <1>3, <1>4 DEF RequestCall, Going, OnlyCall
  <2> QED
    BY <1>1, <1>4, <2>1, <2>2, <2>3, SameShrinks, RequestMoves
<1>5. CASE Ends(r) /\ UNCHANGED <<call, table, transport>>
  <2>1. OnlyRequest(r) /\ req'[r] = Free
    BY <1>5, EndsFacts
  <2>2. RequestWho(r)' /\ ~ Opening(r)'
    BY <2>1 DEF RequestWho, Opening, Busy, Free
  <2>3. RequestCall(r)' /\ OnlyCall(r)
    BY <1>3, <1>5 DEF RequestCall, Going, OnlyCall
  <2> QED
    BY <1>1, <1>5, <2>1, <2>2, <2>3, SameShrinks, RequestMoves
<1>6. CASE /\ Put(w, s, "live", Adopted(req[r].who, req[r].handshake))
           /\ At(r, "touching") /\ Call(r, "touch", s, Absent)
  <2>1. /\ OnlyRequest(r) /\ req'[r].pc = "touching" /\ req'[r].registered = req[r].registered
        /\ req'[r].w = req[r].w /\ req'[r].s = req[r].s /\ req'[r].who = req[r].who
        /\ req'[r].kind = req[r].kind /\ req'[r].via = req[r].via
    BY <1>1, <1>6, AtFacts DEF PCs
  <2>2. OnlyCall(r) /\ call'[r].op = "touch" /\ call'[r].s = s
    BY ONLY Typed, <1>2, <1>6, CallDoes
  <2>3. OnlyEntry(w, s) /\ transport'[w][s].owner = req[r].who
    <3> DEFINE tr == Adopted(req[r].who, req[r].handshake)
    <3>1. tr \in Transports /\ tr.owner = req[r].who
      BY <1>2 DEF Adopted, Transports
    <3>2. Put(w, s, "live", tr)
      BY <1>6
    <3> HIDE DEF tr, w, s
    <3> QED
      BY <1>2, <3>1, <3>2, PutFacts
  <2>4. req[r].who = creator[s] /\ creator[s] # Absent /\ s \in answered /\ legacy[s] = {} /\ phase[w] # "down"
        /\ req[r].kind # "open"
    BY <1>1, <1>2 DEF RequestWho, Accepted
  <2>5. \A q \in Requests : RequestWho(q)' /\ RequestCall(q)'
    <3>1. ASSUME NEW q \in Requests, q # r PROVE RequestWho(q)' /\ RequestCall(q)'
      <4>1. req'[q] = req[q] /\ call'[q] = call[q]
        BY <2>1, <2>2, <3>1, CallerFacts DEF OnlyRequest, OnlyCall
      <4>2. Busy(q) => phase'[req[q].w] # "down"
        BY <1>1 DEF Who, RequestWho
      <4> QED
        BY <1>1, <4>1, <4>2, RequestKeepsWho, RequestKeepsCall
    <3>2. RequestWho(r)'
      BY <1>1, <1>2, <2>1, <2>4 DEF RequestWho, Accepted, Busy
    <3>3. RequestCall(r)'
      BY <1>1, <2>1, <2>2, <2>4 DEF RequestCall, Busy
    <3> QED
      BY <3>1, <3>2, <3>3
  <2>6. Alone'
    BY <2>1, <2>4 DEF Who, Alone, Opening, Busy, OnlyRequest
  <2>7. \A v \in Workers, t \in Sessions : EntryWho(v, t)' /\ TaskCall(v, t)'
    <3> SUFFICES ASSUME NEW v \in Workers, NEW t \in Sessions PROVE EntryWho(v, t)' /\ TaskCall(v, t)'
      OBVIOUS
    <3>1. TaskCall(v, t)'
      <4>1. call'[<<v, t>>] = call[<<v, t>>]
        BY <2>2, CallerFacts DEF OnlyCall
      <4> QED
        BY <1>1, <4>1, TasksKeepWho
    <3>2. CASE v = w /\ t = s
      BY <1>1, <2>3, <2>4, <3>1, <3>2 DEF EntryWho
    <3>3. CASE ~ (v = w /\ t = s)
      BY <1>1, <2>3, <3>1, <3>3 DEF Who, EntryWho, OnlyEntry
    <3> QED
      BY <3>2, <3>3
  <2>8. AdminCall'
    BY <1>1, <2>2, CallerFacts DEF Who, AdminCall, OnlyCall
  <2>9. \A t \in Sessions : RowWho(t)'
    BY <1>1 DEF Who, RowWho
  <2> QED
    BY <2>5, <2>6, <2>7, <2>8, <2>9 DEF Who
<1> QED
  BY <1>4, <1>5, <1>6 DEF Adopts, Keep

LEMMA ForgetShrinks ==
    ASSUME Typed, NEW w \in Workers, NEW s \in Sessions, ForgetEnded(w, s)
    PROVE  Shrinks
BY PopShrinks, SameShrinks DEF ForgetEnded, Keep

LEMMA HandlingWho ==
    ASSUME Typed, Who, NEW r \in Requests, Touched(r) \/ Handled(r) \/ Deletes(r) \/ Deleted(r)
    PROVE  Who'
<1> DEFINE w == req[r].w  s == req[r].s
<1>1. /\ Busy(r) /\ req[r].pc \in {"touching", "handling", "deleting"}
      /\ UNCHANGED <<backend, reg, legacy, phase, creator, answered>>
  BY DEF Busy, Touched, Handled, Deletes, Deleted, registry
<1>2. /\ RequestWho(r) /\ req[r] \in Kept /\ w \in Workers /\ s \in Sessions
      /\ r \in Callers /\ Absent \in {Absent} \cup Principals
  BY <1>1, RequestParts DEF Kept
<1>3. req[r].kind # "open" /\ req[r].who = creator[s]
  BY <1>1, <1>2 DEF RequestWho, Accepted
<1>4. ~ Going(r)
  BY NotCalling DEF Touched, Handled, Deletes, Deleted
<1>5. CASE Touched(r) \/ Handled(r) \/ Deleted(r)
  <2>1. UNCHANGED call /\ Shrinks
    <3> HIDE DEF w, s
    <3>1. ForgetEnded(w, s) \/ UNCHANGED <<table, transport>>
      BY <1>5 DEF Touched, Handled, Deleted, Leaves, w, s
    <3>2. UNCHANGED call
      BY <1>5 DEF Touched, Handled, Deleted, registry
    <3> QED
      BY <1>2, <3>1, <3>2, ForgetShrinks, SameShrinks
  <2>2. RequestCall(r)' /\ OnlyCall(r)
    BY <1>4, <2>1 DEF RequestCall, Going, OnlyCall
  <2>3. CASE \E pc \in {"handling", "reconcile"} : At(r, pc)
    <3>1. PICK pc \in {"handling", "reconcile"} : At(r, pc)
      BY <2>3
    <3>2. /\ OnlyRequest(r) /\ req'[r].pc = pc /\ req'[r].registered = req[r].registered
          /\ req'[r].w = req[r].w /\ req'[r].s = req[r].s /\ req'[r].who = req[r].who
          /\ req'[r].kind = req[r].kind /\ req'[r].via = req[r].via
      BY <1>1, <3>1, AtFacts DEF PCs
    <3>3. RequestWho(r)' /\ ~ Opening(r)'
      BY <1>1, <1>2, <1>3, <3>2 DEF RequestWho, Accepted, Opening, Busy
    <3> QED
      BY <1>1, <2>1, <2>2, <3>2, <3>3, RequestMoves
  <2>4. CASE Ends(r)
    <3>1. OnlyRequest(r) /\ req'[r] = Free
      BY <2>4, EndsFacts
    <3>2. RequestWho(r)' /\ ~ Opening(r)'
      BY <3>1 DEF RequestWho, Opening, Busy, Free
    <3> QED
      BY <1>1, <2>1, <2>2, <3>1, <3>2, RequestMoves
  <2> QED
    BY <1>5, <2>3, <2>4 DEF Touched, Handled, Deleted, Leaves
<1>6. CASE Deletes(r)
  <2>1. /\ At(r, "deleting") /\ transport' = transport /\ table[w][s] = "live"
        /\ table' = [table EXCEPT ![w][s] = "ended"]
        /\ Call(r, "hook", s, Absent) \/ UNCHANGED call
    BY <1>6 DEF Deletes
  <2>2. /\ OnlyRequest(r) /\ req'[r].pc = "deleting" /\ req'[r].registered = req[r].registered
        /\ req'[r].w = req[r].w /\ req'[r].s = req[r].s /\ req'[r].who = req[r].who
        /\ req'[r].kind = req[r].kind /\ req'[r].via = req[r].via
    BY <1>1, <2>1, AtFacts DEF PCs
  <2>3. OnlyCall(r) /\ (~ Going(r)' \/ (call'[r].op = "hook" /\ call'[r].s = s))
    <3>1. CASE Call(r, "hook", s, Absent)
      BY ONLY Typed, <1>2, <3>1, CallDoes
    <3>2. CASE UNCHANGED call
      BY <1>4, <3>2 DEF OnlyCall, Going
    <3> QED
      BY <2>1, <3>1, <3>2
  <2>4. RequestWho(r)' /\ ~ Opening(r)'
    BY <1>1, <1>2, <1>3, <2>2 DEF RequestWho, Accepted, Opening, Busy
  <2>5. RequestCall(r)'
    BY <2>2, <2>3 DEF RequestCall, Busy
  <2>6. Shrinks
    BY <1>2, <2>1 DEF Typed, TablesTyped, Shrinks
  <2> QED
    BY <1>1, <2>2, <2>3, <2>4, <2>5, <2>6, RequestMoves
<1> QED
  BY <1>5, <1>6

(* A request of which only the step, its flags or its call changes. *)
LEMMA SamePerson ==
    ASSUME Typed, Who, NEW r \in Requests, Busy(r), NEW pc \in {"reconciling", "last"}, At(r, pc),
           UNCHANGED <<legacy, phase, creator, answered>>,
           pc = "reconciling" => req[r].kind = "open",
           pc = "last" => req[r].kind = "open" \/ req[r].pc = "reconcile"
    PROVE  /\ OnlyRequest(r) /\ RequestWho(r)' /\ (Opening(r)' => Opening(r) /\ req'[r].s = req[r].s)
           /\ Busy(r)' /\ req'[r].pc = pc /\ req'[r].s = req[r].s /\ req'[r].kind = req[r].kind
           /\ req'[r].registered = req[r].registered /\ req'[r].w = req[r].w
<1>1. /\ OnlyRequest(r) /\ req'[r].pc = pc /\ req'[r].registered = req[r].registered
      /\ req'[r].w = req[r].w /\ req'[r].s = req[r].s /\ req'[r].who = req[r].who
      /\ req'[r].kind = req[r].kind /\ req'[r].via = req[r].via /\ req'[r].refused = req[r].refused
  BY AtFacts DEF PCs
<1>2. RequestWho(r) /\ Busy(r)'
  BY <1>1, RequestParts DEF Busy
<1>3. RequestWho(r)'
  BY <1>1, <1>2 DEF RequestWho, Accepted, Busy
<1> QED
  BY <1>1, <1>2, <1>3 DEF Opening

LEMMA ReconcileWho ==
    ASSUME Typed, Who, NEW r \in Requests,
           ReconcileCreated(r) \/ ReconcileVanished(r) \/ ReconcileUsed(r)
    PROVE  Who'
<1> DEFINE w == req[r].w  s == req[r].s
<1>1. /\ Busy(r) /\ UNCHANGED <<backend, reg, legacy, phase, creator, answered>>
  BY DEF Busy, ReconcileCreated, ReconcileVanished, ReconcileUsed
<1>2. /\ RequestWho(r) /\ req[r] \in Kept /\ w \in Workers /\ s \in Sessions /\ r \in Callers
  BY <1>1, RequestParts
<1>3. ~ Going(r)
  BY NotCalling DEF ReconcileCreated, ReconcileVanished, ReconcileUsed
<1>4. Shrinks
  <2>1. CASE UNCHANGED <<table, transport>>
    BY <2>1, SameShrinks
  <2>2. CASE table' = table /\ transport' = [transport EXCEPT ![w][s].hooked = TRUE]
    <3>1. transport \in [Workers -> [Sessions -> Transports]]
      BY DEF Typed, TablesTyped
    <3>2. transport[w][s] \in Transports
      BY <1>2, <3>1
    <3> DEFINE tr == [transport[w][s] EXCEPT !.hooked = TRUE]
    <3>3. tr.owner = transport[w][s].owner
      BY <3>2 DEF Transports
    <3>4. transport' = [transport EXCEPT ![w] = [transport[w] EXCEPT ![s] = tr]]
      BY <2>2
    <3> HIDE DEF tr, w, s
    <3> QED
      BY <1>2, <2>2, <3>1, <3>3, <3>4 DEF Shrinks
  <2> QED
    BY <2>1, <2>2 DEF ReconcileCreated, ReconcileVanished, ReconcileUsed
<1>5. CASE ReconcileCreated(r)
  <2>1. /\ At(r, "reconciling") /\ req[r].kind = "open"
        /\ UNCHANGED call \/ (~ req[r].registered /\ Call(r, "register", s, req[r].who))
    BY <1>5 DEF ReconcileCreated
  <2>2. /\ OnlyRequest(r) /\ RequestWho(r)' /\ (Opening(r)' => Opening(r) /\ req'[r].s = req[r].s)
        /\ Busy(r)' /\ req'[r].pc = "reconciling" /\ req'[r].s = s /\ req'[r].kind = "open"
        /\ req'[r].registered = req[r].registered
    BY <1>1, <2>1, SamePerson
  <2>3. /\ OnlyCall(r)
        /\ ~ Going(r)' \/ (/\ call'[r].op = "register" /\ call'[r].s = s /\ call'[r].who = req[r].who
                           /\ ~ req[r].registered)
    <3>1. CASE UNCHANGED call
      BY <1>3, <3>1 DEF OnlyCall, Going
    <3>2. CASE Call(r, "register", s, req[r].who) /\ ~ req[r].registered
      BY ONLY Typed, <1>2, <3>2, CallDoes
    <3> QED
      BY <2>1, <3>1, <3>2
  <2>4. RequestCall(r)'
    BY <1>1, <1>2, <2>1, <2>2, <2>3 DEF RequestCall, RequestWho
  <2> QED
    BY <1>1, <1>4, <2>2, <2>3, <2>4, RequestMoves
<1>6. CASE ReconcileVanished(r) \/ ReconcileUsed(r)
  <2>1. /\ At(r, "last")
        /\ \/ UNCHANGED call
           \/ Call(r, "terminate", s, Absent)
           \/ Call(r, "touch", s, Absent) /\ req[r].pc = "reconcile" /\ req[r].kind # "open" /\ ~ req[r].refused
        /\ req[r].kind = "open" \/ req[r].pc = "reconcile"
    BY <1>2, <1>6 DEF ReconcileVanished, ReconcileUsed, RequestWho, Busy
  <2>2. /\ OnlyRequest(r) /\ RequestWho(r)' /\ (Opening(r)' => Opening(r) /\ req'[r].s = req[r].s)
        /\ Busy(r)' /\ req'[r].pc = "last" /\ req'[r].s = s
    BY <1>1, <2>1, SamePerson
  <2>3. /\ OnlyCall(r)
        /\ \/ ~ Going(r)'
           \/ call'[r].s = s /\ call'[r].op = "terminate"
           \/ call'[r].s = s /\ call'[r].op = "touch" /\ s \in answered
    <3>1. CASE UNCHANGED call
      BY <1>3, <3>1 DEF OnlyCall, Going
    <3>2. CASE Call(r, "terminate", s, Absent)
      BY ONLY Typed, <1>2, <3>2, CallDoes
    <3>3. CASE Call(r, "touch", s, Absent) /\ req[r].pc = "reconcile" /\ req[r].kind # "open" /\ ~ req[r].refused
      <4>1. s \in answered
        BY <1>1, <1>2, <3>3 DEF RequestWho, Accepted
      <4> QED
        BY ONLY Typed, <1>2, <3>3, <4>1, CallDoes
    <3> QED
      BY <2>1, <3>1, <3>2, <3>3
  <2>4. RequestCall(r)'
    BY <1>1, <2>2, <2>3 DEF RequestCall
  <2> QED
    BY <1>1, <1>4, <2>2, <2>3, <2>4, RequestMoves
<1> QED
  BY <1>5, <1>6

LEMMA ReconciledWho ==
    ASSUME Typed, Who, NEW r \in Requests, Reconciled(r)
    PROVE  Who'
<1>1. /\ Ends(r) /\ ~ Going(r)
      /\ UNCHANGED <<backend, reg, legacy, call, phase, table, transport, creator, answered>>
  BY DEF Reconciled, registry
<1>2. OnlyRequest(r) /\ req'[r] = Free
  BY <1>1, EndsFacts
<1>3. RequestWho(r)' /\ ~ Opening(r)'
  BY <1>2 DEF RequestWho, Opening, Busy, Free
<1>4. RequestCall(r)' /\ OnlyCall(r)
  BY <1>1 DEF RequestCall, Going, OnlyCall
<1> QED
  BY <1>1, <1>2, <1>3, <1>4, SameShrinks, RequestMoves

(* Requests stay where they are, calls end or go on, and tasks may start one. *)
GoesOn(c) == \/ ~ Going(c)'
             \/ /\ Going(c)
                /\ call'[c].op = call[c].op \/ (call[c].op = "hook" /\ call'[c].op = "terminate")
                /\ call'[c].s = call[c].s /\ (call'[c].op = "register" => call'[c].who = call[c].who)
LEMMA CallsMove ==
    ASSUME Typed, Who, UNCHANGED <<req, phase, creator, answered>>, Shrinks,
           \A s \in Sessions : legacy[s] = {} => legacy'[s] = {},
           \A r \in Requests : GoesOn(r),
           \A w \in Workers, s \in Sessions : GoesOn(<<w, s>>) \/ TaskCall(w, s)',
           AdminCall', \A s \in Sessions : RowWho(s)'
    PROVE  Who'
<1>1. \A r \in Requests : RequestWho(r)'
  <2> SUFFICES ASSUME NEW r \in Requests PROVE RequestWho(r)'
    OBVIOUS
  <2>1. Busy(r) => phase'[req[r].w] # "down"
    BY DEF Who, RequestWho
  <2> QED
    BY <2>1, RequestKeepsWho
<1>2. \A r \in Requests : RequestCall(r)'
  BY DEF Who, RequestCall, GoesOn, Going, Busy
<1>3. \A w \in Workers, s \in Sessions : EntryWho(w, s)'
  BY DEF Who, EntryWho, Shrinks
<1>4. \A w \in Workers, s \in Sessions : TaskCall(w, s)'
  <2> SUFFICES ASSUME NEW w \in Workers, NEW s \in Sessions, GoesOn(<<w, s>>) PROVE TaskCall(w, s)'
    OBVIOUS
  <2>1. TaskCall(w, s)
    BY DEF Who
  <2> QED
    BY <2>1 DEF TaskCall, GoesOn, Going
<1>5. Alone'
  BY DEF Who, Alone, Opening, Busy
<1> QED
  BY <1>1, <1>2, <1>3, <1>4, <1>5 DEF Who

LEMMA StaysGoesOn ==
    ASSUME NEW c \in Callers, call'[c] = call[c]
    PROVE  GoesOn(c)
BY DEF GoesOn, Going

(* Only one caller's call changes. *)
LEMMA CallMoves ==
    ASSUME Typed, Who, UNCHANGED <<req, phase, creator, answered>>, Shrinks,
           \A s \in Sessions : legacy[s] = {} => legacy'[s] = {},
           NEW c \in Callers, OnlyCall(c),
           c # Admin => GoesOn(c) \/ \E w \in Workers, s \in Sessions : c = <<w, s>> /\ TaskCall(w, s)',
           c = Admin => AdminCall',
           \A s \in Sessions : RowWho(s)'
    PROVE  Who'
<1>1. \A r \in Requests : GoesOn(r)
  BY CallerFacts, StaysGoesOn DEF OnlyCall
<1>2. \A w \in Workers, s \in Sessions : GoesOn(<<w, s>>) \/ TaskCall(w, s)'
  <2> SUFFICES ASSUME NEW w \in Workers, NEW s \in Sessions PROVE GoesOn(<<w, s>>) \/ TaskCall(w, s)'
    OBVIOUS
  <2>1. <<w, s>> \in Callers /\ <<w, s>> # Admin
    BY CallerFacts
  <2>2. CASE <<w, s>> # c
    BY <2>1, <2>2, StaysGoesOn DEF OnlyCall
  <2>3. CASE <<w, s>> = c
    <3>1. GoesOn(c) \/ \E v \in Workers, t \in Sessions : c = <<v, t>> /\ TaskCall(v, t)'
      BY <2>1, <2>3
    <3>2. ASSUME NEW v \in Workers, NEW t \in Sessions, c = <<v, t>>, TaskCall(v, t)' PROVE TaskCall(w, s)'
      <4>1. v = w /\ t = s
        BY <2>3, <3>2
      <4> QED
        BY <3>2, <4>1
    <3> QED
      BY <2>3, <3>1, <3>2
  <2> QED
    BY <2>2, <2>3
<1>3. AdminCall'
  BY CallerFacts DEF Who, AdminCall, OnlyCall
<1> QED
  BY <1>1, <1>2, <1>3, CallsMove

LEMMA RowsKeepWho ==
    ASSUME Typed, Who, UNCHANGED <<backend, reg, legacy, creator, answered>>
    PROVE  \A s \in Sessions : RowWho(s)'
BY DEF Who, RowWho

LEMMA HookWho ==
    ASSUME Typed, Who, NEW c \in Callers, c # Admin, NEW w \in Workers, HookRecords(c, w)
    PROVE  Who'
<1>1. /\ call[c].op = "hook" /\ (Return(c) \/ Call(c, "terminate", call[c].s, Absent))
      /\ UNCHANGED <<backend, reg, legacy, phase, table, transport, req, creator, answered>>
  BY DEF HookRecords
<1>2. OnlyCall(c) /\ GoesOn(c)
  <2>1. CASE Return(c)
    BY <2>1, ReturnFacts DEF GoesOn, Going
  <2>2. CASE Call(c, "terminate", call[c].s, Absent)
    <3>1. OnlyCall(c) /\ call'[c].op = "terminate" /\ call'[c].s = call[c].s
      BY ONLY Typed, c \in Callers, <2>2, CallDoes
    <3> QED
      BY <1>1, <3>1 DEF GoesOn, Going
  <2> QED
    BY <1>1, <2>1, <2>2
<1> QED
  BY <1>1, <1>2, RowsKeepWho, SameShrinks, CallMoves

LEMMA CallFailsWho ==
    ASSUME Typed, Who, NEW c \in Callers, CallFails(c)
    PROVE  Who'
<1>1. /\ c # Admin /\ Return(c)
      /\ UNCHANGED <<backend, reg, legacy, phase, table, transport, req, creator, answered>>
  BY DEF CallFails
<1>2. OnlyCall(c) /\ GoesOn(c)
  BY <1>1, ReturnFacts DEF GoesOn, Going
<1> QED
  BY <1>1, <1>2, RowsKeepWho, SameShrinks, CallMoves

LEMMA TerminatesWho ==
    ASSUME Typed, Who, NEW s \in Sessions, OperatorTerminates(s)
    PROVE  Who'
<1>1. /\ Call(Admin, "terminate", s, Absent) /\ Found(s) /\ Initialized
      /\ UNCHANGED <<backend, reg, legacy, phase, table, transport, req, creator, answered>>
  BY DEF OperatorTerminates
<1>2. OnlyCall(Admin) /\ call'[Admin].op = "terminate" /\ call'[Admin].s = s
  BY ONLY Typed, <1>1, CallerFacts, CallDoes
<1>3. creator[s] # Absent
  BY <1>1, NoRowFacts DEF Found, Whole, Who, RowWho
<1>4. AdminCall'
  BY <1>1, <1>2, <1>3 DEF AdminCall
<1> QED
  BY <1>1, <1>2, <1>4, CallerFacts, RowsKeepWho, SameShrinks, CallMoves

(* A session leaves a table, and its task may make the hook's call. *)
LEMMA DropsWho ==
    ASSUME Typed, Who, NEW w \in Workers, NEW s \in Sessions,
           IdlesOut(w, s) \/ ServerFails(w, s) \/ Cancels(w, s)
    PROVE  Who'
<1>1. /\ table[w][s] = "live" /\ Pop(w, s)
      /\ UNCHANGED call \/ (Call(<<w, s>>, "hook", s, Absent) /\ phase[w] # "down")
      /\ UNCHANGED <<backend, reg, legacy, phase, req, creator, answered>>
  BY DEF IdlesOut, ServerFails, Cancels, registry
<1>2. creator[s] # Absent
  BY <1>1 DEF Who, EntryWho
<1>3. <<w, s>> \in Callers /\ <<w, s>> # Admin
  BY CallerFacts
<1>4. OnlyCall(<<w, s>>) /\ (GoesOn(<<w, s>>) \/ TaskCall(w, s)')
  <2>1. CASE UNCHANGED call
    BY <1>3, <2>1, StaysGoesOn DEF OnlyCall
  <2>2. CASE Call(<<w, s>>, "hook", s, Absent) /\ phase[w] # "down"
    <3>1. OnlyCall(<<w, s>>) /\ call'[<<w, s>>].op = "hook" /\ call'[<<w, s>>].s = s
      BY ONLY Typed, <1>3, <2>2, CallDoes
    <3> QED
      BY <1>1, <1>2, <2>2, <3>1 DEF TaskCall
  <2> QED
    BY <1>1, <2>1, <2>2
<1> QED
  BY <1>1, <1>3, <1>4, RowsKeepWho, PopShrinks, CallMoves

LEMMA AgesWho ==
    ASSUME Typed, Who, Ages
    PROVE  Who'
<1>1. PICK s \in Sessions : reg[s].recent /\ reg' = [reg EXCEPT ![s].recent = FALSE]
  BY DEF Ages
<1>2. UNCHANGED <<backend, legacy, call, phase, table, transport, req, creator, answered>>
  BY DEF Ages
<1>3. /\ OnlyRow(s) /\ reg'[s].exists = reg[s].exists /\ reg'[s].owner = reg[s].owner
  BY <1>1, RecentFacts DEF Typed, StoreTyped, RegTyped
<1>4. creator[s] # Absent
  BY <1>1, NoRowFacts DEF Who, RowWho
<1>5. \A t \in Sessions : RowWho(t)'
  BY <1>2, <1>3, <1>4 DEF Who, RowWho, OnlyRow
<1>6. \A c \in Callers : GoesOn(c)
  BY <1>2, StaysGoesOn
<1>7. AdminCall'
  BY <1>2 DEF Who, AdminCall
<1> QED
  BY <1>2, <1>5, <1>6, <1>7, CallerFacts, SameShrinks, CallsMove

(* A worker stops, goes down, comes up. *)
LEMMA StopsWho ==
    ASSUME Typed, Who, NEW w \in Workers, Stops(w) \/ Starts(w)
    PROVE  Who'
<1>1. /\ \A v \in Workers : phase[v] # "down" => phase'[v] # "down"
      /\ UNCHANGED <<backend, reg, legacy, call, table, transport, req, creator, answered>>
  BY DEF Stops, Starts, registry, Typed
<1>2. \A r \in Requests : RequestWho(r)' /\ RequestCall(r)'
  <2> SUFFICES ASSUME NEW r \in Requests PROVE RequestWho(r)' /\ RequestCall(r)'
    OBVIOUS
  <2>1. Busy(r) => phase'[req[r].w] # "down"
    BY <1>1, RequestParts DEF RequestWho
  <2> QED
    BY <1>1, <2>1, RequestKeepsWho, RequestKeepsCall
<1>3. \A v \in Workers, s \in Sessions : EntryWho(v, s)' /\ TaskCall(v, s)'
  <2> SUFFICES ASSUME NEW v \in Workers, NEW s \in Sessions PROVE EntryWho(v, s)' /\ TaskCall(v, s)'
    OBVIOUS
  <2>1. EntryWho(v, s)'
    BY <1>1 DEF Who, EntryWho
  <2>2. TaskCall(v, s)'
    BY <1>1 DEF Who, TaskCall, Going
  <2> QED
    BY <2>1, <2>2
<1>4. Alone' /\ AdminCall'
  BY <1>1 DEF Who, Alone, AdminCall, Opening, Busy
<1> QED
  BY <1>1, <1>2, <1>3, <1>4, RowsKeepWho DEF Who

LEMMA DiesFacts ==
    ASSUME Typed, Who, NEW w \in Workers, Dies(w)
    PROVE  /\ phase'[w] = "down" /\ \A v \in Workers : v # w => phase'[v] = phase[v]
           /\ \A s \in Sessions : table'[w][s] = "none"
           /\ \A v \in Workers : v # w => table'[v] = table[v] /\ transport'[v] = transport[v]
           /\ \A r \in Requests : \/ req'[r] = Free /\ call'[r] = NoCall
                                  \/ Busy(r) /\ req[r].w # w /\ req'[r] = req[r] /\ call'[r] = call[r]
           /\ \A s \in Sessions : call'[<<w, s>>] = NoCall
           /\ \A v \in Workers, s \in Sessions : v # w => call'[<<v, s>>] = call[<<v, s>>]
           /\ call'[Admin] = call[Admin]
<1>1. /\ phase' = [phase EXCEPT ![w] = "down"]
      /\ table' = [table EXCEPT ![w] = [s \in Sessions |-> "none"]]
      /\ transport' = [transport EXCEPT ![w] = [s \in Sessions |-> NoTransport]]
      /\ req' = [r \in Requests |-> IF r \in On(w) THEN Free ELSE req[r]]
      /\ call' = [c \in Callers |-> IF c \in On(w) \cup {<<w, s>> : s \in Sessions} THEN NoCall ELSE call[c]]
  BY DEF Dies
<1>2. \A r \in Requests : r \in On(w) <=> Busy(r) /\ req[r].w = w
  BY DEF On, Busy
<1>3. On(w) \subseteq Requests
  BY DEF On
<1>4. \A r \in Requests : \/ req'[r] = Free /\ call'[r] = NoCall
                          \/ Busy(r) /\ req[r].w # w /\ req'[r] = req[r] /\ call'[r] = call[r]
  <2> SUFFICES ASSUME NEW r \in Requests
               PROVE  \/ req'[r] = Free /\ call'[r] = NoCall
                      \/ Busy(r) /\ req[r].w # w /\ req'[r] = req[r] /\ call'[r] = call[r]
    OBVIOUS
  <2>1. r \in Callers /\ \A s \in Sessions : r # <<w, s>>
    BY CallerFacts
  <2>2. CASE r \in On(w)
    BY <1>1, <2>1, <2>2
  <2>3. CASE r \notin On(w)
    <3>1. req'[r] = req[r] /\ call'[r] = call[r]
      BY <1>1, <2>1, <2>3
    <3>2. CASE Busy(r)
      BY <1>2, <2>3, <3>1, <3>2
    <3>3. CASE ~ Busy(r)
      <4>1. req[r] = Free
        BY <3>3 DEF Typed, RequestsTyped, Busy, Kept, PCs
      <4>2. ~ Going(r)
        BY <3>3 DEF Who, RequestCall
      <4>3. call[r] = NoCall
        BY <2>1, <4>2 DEF Typed, CallsTyped, Going, Calls, AdminCalls
      <4> QED
        BY <3>1, <4>1, <4>3
    <3> QED
      BY <3>2, <3>3
  <2> QED
    BY <2>2, <2>3
<1>5. \A v \in Workers, s \in Sessions : call'[<<v, s>>] = IF v = w THEN NoCall ELSE call[<<v, s>>]
  <2> SUFFICES ASSUME NEW v \in Workers, NEW s \in Sessions
               PROVE  call'[<<v, s>>] = IF v = w THEN NoCall ELSE call[<<v, s>>]
    OBVIOUS
  <2>1. <<v, s>> \in Callers /\ <<v, s>> \notin On(w)
    BY <1>3, CallerFacts
  <2>2. <<v, s>> \in {<<w, t>> : t \in Sessions} <=> v = w
    OBVIOUS
  <2> QED
    BY <1>1, <2>1, <2>2
<1>6. call'[Admin] = call[Admin]
  <2>1. Admin \in Callers /\ Admin \notin On(w) /\ Admin \notin {<<w, s>> : s \in Sessions}
    BY <1>3, CallerFacts
  <2> QED
    BY <1>1, <2>1
<1> QED
  BY <1>1, <1>4, <1>5, <1>6 DEF Typed, TablesTyped

LEMMA DiesWho ==
    ASSUME Typed, Who, NEW w \in Workers, Dies(w)
    PROVE  Who'
<1>1. UNCHANGED <<backend, reg, legacy, creator, answered>>
  BY DEF Dies
<1>2. \A r \in Requests : RequestWho(r)' /\ RequestCall(r)'
  <2> SUFFICES ASSUME NEW r \in Requests PROVE RequestWho(r)' /\ RequestCall(r)'
    OBVIOUS
  <2>1. CASE req'[r] = Free /\ call'[r] = NoCall
    BY <2>1 DEF RequestWho, RequestCall, Busy, Free, Going, NoCall
  <2>2. CASE Busy(r) /\ req[r].w # w /\ req'[r] = req[r] /\ call'[r] = call[r]
    <3>1. phase'[req[r].w] # "down"
      BY <2>2, RequestParts, DiesFacts DEF RequestWho
    <3> QED
      BY <1>1, <2>2, <3>1, RequestKeepsWho, RequestKeepsCall
  <2> QED
    BY <2>1, <2>2, DiesFacts
<1>3. \A v \in Workers, s \in Sessions : EntryWho(v, s)' /\ TaskCall(v, s)'
  <2> SUFFICES ASSUME NEW v \in Workers, NEW s \in Sessions PROVE EntryWho(v, s)' /\ TaskCall(v, s)'
    OBVIOUS
  <2>1. CASE v = w
    BY <2>1, DiesFacts DEF EntryWho, TaskCall, Going, NoCall
  <2>2. CASE v # w
    BY <1>1, <2>2, DiesFacts DEF Who, EntryWho, TaskCall, Going
  <2> QED
    BY <2>1, <2>2
<1>4. Alone'
  BY DiesFacts DEF Who, Alone, Opening, Busy, Free
<1>5. AdminCall'
  BY <1>1, DiesFacts DEF Who, AdminCall
<1> QED
  BY <1>1, <1>2, <1>3, <1>4, <1>5, RowsKeepWho DEF Who

(* What one statement, or one round trip, of a registry call does. *)
SqlServed(c) ==
    LET s == call[c].s  o == reg[s]  n == reg'[s]  op == call[c].op IN
    /\ backend # "redis" /\ Initialized
    /\ call'[c] = NoCall
    /\ n.exists = (o.exists \/ op = "register")
    /\ n.owner = (IF op = "register" /\ ~ o.exists THEN call[c].who ELSE o.owner)
    /\ n.handshake = (o.handshake \/ op = "register")
    /\ n.terminated = (IF op = "register" /\ ~ o.exists THEN FALSE
                       ELSE IF op = "terminate" /\ o.exists THEN TRUE ELSE o.terminated)
    /\ endWritten' = (IF op = "terminate" /\ o.exists THEN endWritten \cup {s} ELSE endWritten)
RdLooked(c) ==
    /\ backend = "redis" /\ call[c].op \in {"touch", "terminate"} /\ call[c].step = 1
    /\ UNCHANGED <<reg, endWritten>>
    /\ IF reg[call[c].s].exists
       THEN /\ call'[c].op = call[c].op /\ call'[c].s = call[c].s /\ call'[c].who = call[c].who
            /\ call'[c].step = 2
       ELSE call'[c] = NoCall
RdServed(c) ==
    LET s == call[c].s  o == reg[s]  n == reg'[s]  op == call[c].op  k == call[c].step IN
    /\ backend = "redis" /\ (op # "register" => k = 2)
    /\ IF op = "register" /\ k # RegisterSteps
       THEN call'[c].op = op /\ call'[c].s = s /\ call'[c].who = call[c].who /\ call'[c].step = k + 1
       ELSE call'[c] = NoCall
    /\ n.exists = (o.exists \/ op # "register" \/ k # RegisterSteps)
    /\ n.owner = (IF op = "register" /\ k = 3 /\ o.owner = Absent THEN call[c].who ELSE o.owner)
    /\ n.handshake = (o.handshake \/ (op = "register" /\ k = 4))
    /\ n.created = (o.created \/ (op = "register" /\ k = 5))
    /\ n.terminated = (IF op = "terminate" THEN TRUE
                       ELSE IF op = "register" /\ k = 2 /\ o.terminated = Absent THEN FALSE
                       ELSE o.terminated)
    /\ n.indexed = (o.indexed \/ op # "register" \/ k = RegisterSteps)
    /\ n.recent = (o.recent \/ op # "register" \/ k = RegisterSteps)
    /\ op = "terminate" \/ (op = "register" /\ k # 6) => n.expires = o.expires
    /\ endWritten' = (IF op = "terminate" THEN endWritten \cup {s} ELSE endWritten)
Served(c) == /\ SqlServed(c) \/ RdLooked(c) \/ RdServed(c)
             /\ OnlyRow(call[c].s) /\ OnlyCall(c) /\ UNCHANGED <<backend, legacy, gone>>

LEMMA Serves ==
    ASSUME Typed, NEW c \in Callers, call[c].op \in {"register", "touch", "terminate"},
           SqlCall(c) \/ RdExists(c) \/ RdWrite(c)
    PROVE  Served(c)
<1> DEFINE s == call[c].s
<1>1. /\ s \in Sessions /\ call[c] \in Calls /\ call[c].step \in 1..7 /\ call[c].who \in {Absent} \cup Principals
      /\ RegTyped /\ reg[s] \in Rows
  BY CallKinds DEF Typed, StoreTyped, RegTyped
<1>2. UNCHANGED <<backend, legacy, gone>>
  BY DEF SqlCall, RdExists, RdWrite
<1>3. CASE SqlCall(c)
  <2>1. Return(c) /\ backend # "redis" /\ Initialized
    BY <1>3 DEF SqlCall
  <2>2. call'[c] = NoCall /\ OnlyCall(c)
    BY <2>1, ReturnFacts
  <2>3. \/ call[c].op = "register" /\ SqliteRegister(s, call[c].who) /\ UNCHANGED endWritten
        \/ call[c].op = "touch" /\ SqliteTouch(s) /\ UNCHANGED endWritten
        \/ /\ call[c].op = "terminate" /\ SqliteTerminate(s)
           /\ endWritten' = IF reg[s].exists THEN endWritten \cup {s} ELSE endWritten
    BY <1>3 DEF SqlCall, PgRegister, PgTouch, PgTerminate
  <2> HIDE DEF s
  <2>4. /\ reg[s].exists \in BOOLEAN /\ reg[s].handshake \in BOOLEAN
    BY <1>1, RowFields
  <2>5. CASE call[c].op = "register" /\ SqliteRegister(s, call[c].who) /\ UNCHANGED endWritten
    <3>1. /\ OnlyRow(s) /\ reg'[s].exists = TRUE /\ reg'[s].handshake = TRUE
          /\ reg'[s].owner = IF reg[s].exists THEN reg[s].owner ELSE call[c].who
          /\ reg'[s].terminated = IF reg[s].exists THEN reg[s].terminated ELSE FALSE
      <4>1. RegTyped' /\ OnlyRow(s) /\ reg'[s].exists /\ reg'[s].handshake
            /\ reg'[s].owner = (IF reg[s].exists THEN reg[s].owner ELSE call[c].who)
            /\ reg'[s].terminated = (IF reg[s].exists THEN reg[s].terminated ELSE FALSE)
        BY ONLY <1>1, <2>5, SqliteRegisterFacts
      <4>2. reg'[s] \in Rows
        BY ONLY <1>1, <4>1 DEF RegTyped
      <4> QED
        BY <4>1, <4>2, RowFields
    <3> QED
      BY <1>2, <2>1, <2>2, <2>4, <2>5, <3>1 DEF Served, SqlServed, s
  <2>6. CASE call[c].op = "touch" /\ SqliteTouch(s) /\ UNCHANGED endWritten
    <3>1. /\ OnlyRow(s) /\ reg'[s].exists = reg[s].exists /\ reg'[s].owner = reg[s].owner
          /\ reg'[s].terminated = reg[s].terminated /\ reg'[s].handshake = reg[s].handshake
      BY ONLY <1>1, <2>6, SqliteTouchFacts
    <3> QED
      BY <1>2, <2>1, <2>2, <2>4, <2>6, <3>1 DEF Served, SqlServed, s
  <2>7. CASE /\ call[c].op = "terminate" /\ SqliteTerminate(s)
             /\ endWritten' = IF reg[s].exists THEN endWritten \cup {s} ELSE endWritten
    <3>1. /\ OnlyRow(s) /\ reg'[s].exists = reg[s].exists /\ reg'[s].owner = reg[s].owner
          /\ reg'[s].terminated = (IF reg[s].exists THEN TRUE ELSE reg[s].terminated)
          /\ reg'[s].handshake = reg[s].handshake
      BY ONLY <1>1, <2>7, SqliteTerminateFacts
    <3> QED
      BY <1>2, <2>1, <2>2, <2>4, <2>7, <3>1 DEF Served, SqlServed, s
  <2> QED
    BY <2>3, <2>5, <2>6, <2>7
<1>4. CASE RdExists(c)
  <2>1. /\ backend = "redis" /\ call[c].op \in {"touch", "terminate"} /\ call[c].step = 1
        /\ UNCHANGED <<reg, endWritten>>
        /\ IF reg[call[c].s].exists THEN NextStep(c) ELSE Return(c)
    BY <1>4 DEF RdExists
  <2>2. /\ OnlyCall(c)
        /\ IF reg[call[c].s].exists
           THEN /\ call'[c].op = call[c].op /\ call'[c].s = call[c].s /\ call'[c].who = call[c].who
                /\ call'[c].step = 2
           ELSE call'[c] = NoCall
    BY <1>1, <2>1, NextStepFacts, ReturnFacts DEF RegisterSteps
  <2>3. RdLooked(c) /\ OnlyRow(call[c].s)
    BY <2>1, <2>2 DEF RdLooked, OnlyRow
  <2> QED
    BY <1>2, <2>2, <2>3 DEF Served
<1>5. CASE RdWrite(c)
  <2>1. /\ backend = "redis"
        /\ \/ /\ call[c].op = "register" /\ RdRegister(s, call[c].who, call[c].step) /\ UNCHANGED endWritten
              /\ IF call[c].step = RegisterSteps THEN Return(c) ELSE NextStep(c)
           \/ call[c].op = "touch" /\ call[c].step = 2 /\ RdTouch(s) /\ Return(c) /\ UNCHANGED endWritten
           \/ /\ call[c].op = "terminate" /\ call[c].step = 2 /\ RdTerminate(s) /\ Return(c)
              /\ endWritten' = endWritten \cup {s}
    BY <1>5 DEF RdWrite
  <2>2. /\ OnlyCall(c)
        /\ IF call[c].op = "register" /\ call[c].step # RegisterSteps
           THEN /\ call'[c].op = call[c].op /\ call'[c].s = s /\ call'[c].who = call[c].who
                /\ call'[c].step = call[c].step + 1
           ELSE call'[c] = NoCall
    BY <1>1, <2>1, NextStepFacts, ReturnFacts DEF RegisterSteps
  <2> HIDE DEF s
  <2>3. /\ reg[s].exists \in BOOLEAN /\ reg[s].handshake \in BOOLEAN /\ reg[s].created \in BOOLEAN
        /\ reg[s].indexed \in BOOLEAN /\ reg[s].recent \in BOOLEAN
    BY <1>1, RowFields
  <2>4. CASE call[c].op = "register" /\ RdRegister(s, call[c].who, call[c].step) /\ UNCHANGED endWritten
    <3> DEFINE n == call[c].step  p == call[c].who
    <3>1. n \in 1..7 /\ p \in {Absent} \cup Principals /\ s \in Sessions /\ RegTyped
      BY <1>1 DEF s
    <3>2. RdRegister(s, p, n)
      BY <2>4
    <3> HIDE DEF n, p
    <3>3. /\ RegTyped' /\ OnlyRow(s)
          /\ reg'[s].exists = (IF n = 7 THEN reg[s].exists ELSE TRUE)
          /\ reg'[s].terminated = (IF n = 2 /\ reg[s].terminated = Absent THEN FALSE ELSE reg[s].terminated)
          /\ reg'[s].owner = (IF n = 3 /\ reg[s].owner = Absent THEN p ELSE reg[s].owner)
          /\ reg'[s].handshake = (IF n = 4 THEN TRUE ELSE reg[s].handshake)
          /\ reg'[s].created = (IF n = 5 THEN TRUE ELSE reg[s].created)
          /\ n # 6 => reg'[s].expires = reg[s].expires
          /\ reg'[s].indexed = (IF n = 7 THEN TRUE ELSE reg[s].indexed)
          /\ reg'[s].recent = (IF n = 7 THEN TRUE ELSE reg[s].recent)
      BY ONLY <3>1, <3>2, RdRegisterFacts
    <3>4. RdServed(c)
      BY <1>1, <2>1, <2>2, <2>3, <2>4, <3>3 DEF RdServed, RegisterSteps, s, n, p
    <3> QED
      BY <1>2, <2>2, <3>3, <3>4 DEF Served, s
  <2>5. CASE call[c].op = "touch" /\ call[c].step = 2 /\ RdTouch(s) /\ UNCHANGED endWritten
    <3>1. /\ OnlyRow(s)
          /\ reg'[s].exists /\ reg'[s].recent /\ reg'[s].indexed
          /\ reg'[s].owner = reg[s].owner /\ reg'[s].terminated = reg[s].terminated
          /\ reg'[s].handshake = reg[s].handshake /\ reg'[s].created = reg[s].created /\ reg'[s] \in Rows
      BY ONLY <1>1, <2>5, RdTouchFacts DEF RegTyped
    <3>2. /\ reg'[s].exists = TRUE /\ reg'[s].recent = TRUE /\ reg'[s].indexed = TRUE
      BY <3>1, RowFields
    <3>3. RdServed(c)
      BY <1>1, <2>1, <2>2, <2>3, <2>5, <3>1, <3>2 DEF RdServed, RegisterSteps, s
    <3> QED
      BY <1>2, <2>2, <3>1, <3>3 DEF Served, s
  <2>6. CASE /\ call[c].op = "terminate" /\ call[c].step = 2 /\ RdTerminate(s)
             /\ endWritten' = endWritten \cup {s}
    <3>1. /\ OnlyRow(s)
          /\ reg'[s].exists /\ reg'[s].recent /\ reg'[s].indexed /\ reg'[s].terminated = TRUE
          /\ reg'[s].owner = reg[s].owner /\ reg'[s].expires = reg[s].expires
          /\ reg'[s].handshake = reg[s].handshake /\ reg'[s].created = reg[s].created /\ reg'[s] \in Rows
      BY ONLY <1>1, <2>6, RdTerminateFacts DEF RegTyped
    <3>2. /\ reg'[s].exists = TRUE /\ reg'[s].recent = TRUE /\ reg'[s].indexed = TRUE
      BY <3>1, RowFields
    <3>3. RdServed(c)
      BY <1>1, <2>1, <2>2, <2>3, <2>6, <3>1, <3>2 DEF RdServed, RegisterSteps, s
    <3> QED
      BY <1>2, <2>2, <3>1, <3>3 DEF Served, s
  <2> QED
    BY <2>1, <2>4, <2>5, <2>6
<1> QED
  BY <1>3, <1>4, <1>5

LEMMA CalledWho ==
    ASSUME Typed, Who, NEW c \in Callers, call[c].op \in {"hook", "register", "touch", "terminate"}
    PROVE  /\ call[c].s \in Sessions /\ creator[call[c].s] # Absent
           /\ call[c].op = "register" => c \in Requests /\ call[c].who = creator[call[c].s]
<1>1. call[c].s \in Sessions /\ Going(c)
  BY CallKinds DEF Typed, Going
<1>2. CASE c \in Requests
  BY <1>1, <1>2, RequestParts DEF Who, RequestCall, RequestWho
<1>3. CASE c = Admin
  BY <1>1, <1>3 DEF Who, AdminCall
<1>4. CASE \E w \in Workers, s \in Sessions : c = <<w, s>>
  <2>1. PICK w \in Workers, s \in Sessions : c = <<w, s>>
    BY <1>4
  <2>2. TaskCall(w, s)
    BY DEF Who
  <2> QED
    BY <1>1, <2>1, <2>2 DEF TaskCall
<1> QED
  BY <1>2, <1>3, <1>4, CallerFacts

LEMMA ServedWho ==
    ASSUME Typed, Who, NEW c \in Callers, call[c].op \in {"register", "touch", "terminate"}, Served(c),
           UNCHANGED manager
    PROVE  Who'
<1>0. PICK s \in Sessions : s = call[c].s
  BY CalledWho
<1>1. /\ OnlyRow(s) /\ OnlyCall(c) /\ UNCHANGED <<backend, legacy, gone>>
      /\ UNCHANGED <<phase, table, transport, req, creator, answered>>
  BY <1>0 DEF Served, manager
<1>2. /\ s \in Sessions /\ creator[s] # Absent
      /\ call[c].op = "register" => c \in Requests /\ call[c].who = creator[s]
  BY <1>0, CalledWho
<1>3. GoesOn(c)
  <2>1. Going(c)
    BY DEF Going
  <2>2. \/ call'[c] = NoCall
        \/ call'[c].op = call[c].op /\ call'[c].s = call[c].s /\ call'[c].who = call[c].who
    BY DEF Served, SqlServed, RdLooked, RdServed
  <2> QED
    BY <2>1, <2>2 DEF GoesOn, Going, NoCall
<1>4. c = Admin => AdminCall'
  <2>1. c = Admin => call[c].op # "register" /\ ~ (call[c].op = "hook")
    BY <1>2, CallerFacts
  <2> QED
    BY <1>1, <1>2, <1>3, <2>1 DEF Who, AdminCall, GoesOn, Going
<1>5. RowWho(s)'
  <2>1. RowWho(s) /\ reg[s].exists \in BOOLEAN
    BY <1>2, RowFields DEF Who, Typed, StoreTyped
  <2>2. reg'[s].owner = reg[s].owner \/ reg'[s].owner = creator[s]
    BY <1>0, <1>2 DEF Served, SqlServed, RdLooked, RdServed
  <2>3. backend # "redis" /\ reg'[s].exists => reg'[s].owner # Absent
    BY <1>0, <1>2, <2>1, <2>2, RegistryAssumption DEF Served, SqlServed, RdLooked, RdServed, RowWho
  <2> QED
    BY <1>1, <1>2, <2>1, <2>2, <2>3 DEF RowWho
<1>6. \A t \in Sessions : RowWho(t)'
  BY <1>1, <1>5 DEF Who, RowWho, OnlyRow
<1> QED
  BY <1>1, <1>3, <1>4, <1>6, SameShrinks, CallMoves

(* Rows go, or are merged, or lose their place in the index. *)
LEMMA RegistryWho ==
    ASSUME Typed, Who, RegistryStep, UNCHANGED manager
    PROVE  Who'
<1>1. UNCHANGED <<phase, table, transport, req, creator, answered>> /\ Shrinks
  BY SameShrinks DEF manager
<1>2. RegTyped
  BY DEF Typed, StoreTyped, RegTyped
<1>3. CASE \E c \in Callers : call[c].op \in {"register", "touch", "terminate"}
                              /\ (SqlCall(c) \/ RdExists(c) \/ RdWrite(c))
  BY <1>3, Serves, ServedWho
<1>4. ASSUME UNCHANGED call, UNCHANGED <<backend, legacy>>,
             \A s \in Sessions : reg'[s] = reg[s] \/ (reg'[s].owner = Absent /\ ~ reg'[s].exists /\ creator[s] # Absent)
                                 \/ reg'[s] = NoRow
      PROVE  Who'
  <2>1. \A c \in Callers : GoesOn(c)
    BY <1>4, StaysGoesOn
  <2>2. AdminCall'
    BY <1>1, <1>4 DEF Who, AdminCall
  <2>3. \A s \in Sessions : RowWho(s)'
    BY <1>1, <1>4, NoRowFacts DEF Who, RowWho
  <2> QED
    BY <1>1, <1>4, <2>1, <2>2, <2>3, CallerFacts, CallsMove
<1>5. CASE MigrateNullTenants
  <2>1. /\ \A s \in Sessions : reg'[s] = IF legacy[s] = {} THEN reg[s] ELSE Merged(s)
        /\ (\A s \in Sessions : legacy'[s] = {}) /\ UNCHANGED <<backend, call>>
    BY <1>2, <1>5, MigrateFacts DEF MigrateNullTenants
  <2>2. ASSUME NEW s \in Sessions PROVE RowWho(s)'
    <3>1. RowWho(s) /\ (legacy[s] # {} => backend # "redis" /\ creator[s] = Nobody)
      BY DEF Who, RowWho
    <3>2. CASE legacy[s] = {}
      BY <1>1, <2>1, <3>1, <3>2 DEF RowWho
    <3>3. CASE legacy[s] # {}
      <4>1. reg'[s].owner = IF reg[s].exists THEN reg[s].owner ELSE Nobody
        BY <1>2, <2>1, <3>3, MergedFacts
      <4>2. reg'[s].owner = Nobody
        BY <3>1, <3>3, <4>1 DEF RowWho
      <4> QED
        BY <1>1, <2>1, <3>1, <3>3, <4>2, RegistryAssumption DEF RowWho
    <3> QED
      BY <3>2, <3>3
  <2>3. \A c \in Callers : GoesOn(c)
    BY <2>1, StaysGoesOn
  <2>4. AdminCall'
    BY <1>1, <2>1 DEF Who, AdminCall
  <2> QED
    BY <1>1, <2>1, <2>2, <2>3, <2>4, CallerFacts, CallsMove
<1>6. CASE SqlPurge
  <2>1. /\ UNCHANGED <<backend, legacy, call>>
        /\ \A s \in Sessions : reg'[s] = IF s \in Old THEN NoRow ELSE reg[s]
    BY <1>2, <1>6, PurgedFacts DEF SqlPurge, PgPurge, SqlitePurge
  <2> QED
    BY <1>4, <2>1
<1>7. CASE RdPurgeRead
  <2>1. /\ call' = [call EXCEPT ![Admin] = [op |-> "purge", s |-> RdOldMembers]]
        /\ UNCHANGED <<backend, reg, legacy>>
    BY <1>7 DEF RdPurgeRead
  <2>2. OnlyCall(Admin) /\ call'[Admin] = [op |-> "purge", s |-> RdOldMembers]
    BY <2>1, CallerFacts DEF Typed, CallsTyped, OnlyCall
  <2>3. \A s \in RdOldMembers : creator[s] # Absent
    BY NoRowFacts DEF Who, RowWho, RdOldMembers
  <2>4. AdminCall'
    BY <1>1, <2>2, <2>3 DEF AdminCall
  <2> QED
    BY <1>1, <2>1, <2>2, <2>4, CallerFacts, RowsKeepWho, CallMoves
<1>8. CASE RdListRead
  <2>1. PICK s \in Sessions : reg[s].indexed /\ call' = [call EXCEPT ![Admin] = [op |-> "unlist", s |-> s]]
    BY <1>8 DEF RdListRead
  <2>2. UNCHANGED <<backend, reg, legacy>>
    BY <1>8 DEF RdListRead
  <2>3. OnlyCall(Admin) /\ call'[Admin] = [op |-> "unlist", s |-> s]
    BY <2>1, CallerFacts DEF Typed, CallsTyped, OnlyCall
  <2>4. creator[s] # Absent
    BY <2>1, NoRowFacts DEF Who, RowWho
  <2>5. AdminCall'
    BY <1>1, <2>3, <2>4 DEF AdminCall
  <2> QED
    BY <1>1, <2>2, <2>3, <2>5, CallerFacts, RowsKeepWho, CallMoves
<1>9. CASE RdPurgeDelete
  <2>1. /\ \A s \in Sessions : reg'[s] = IF s \in call[Admin].s THEN NoRow ELSE reg[s]
        /\ Return(Admin) /\ UNCHANGED <<backend, legacy>>
    BY <1>2, <1>9, PurgedFacts DEF RdPurgeDelete
  <2>2. OnlyCall(Admin) /\ AdminCall'
    BY <2>1, ReturnFacts, CallerFacts DEF AdminCall
  <2>3. \A s \in Sessions : RowWho(s)'
    BY <1>1, <2>1, NoRowFacts DEF Who, RowWho
  <2> QED
    BY <1>1, <2>1, <2>2, <2>3, CallerFacts, CallMoves
<1>10. CASE RdListForgets
  <2> DEFINE s == call[Admin].s
  <2>1. /\ s \in Sessions /\ creator[s] # Absent
        /\ reg' = [reg EXCEPT ![s].indexed = FALSE, ![s].recent = FALSE]
        /\ Return(Admin) /\ UNCHANGED <<backend, legacy>>
    BY <1>10, AdminKinds DEF RdListForgets, Typed, Who, AdminCall
  <2>2. OnlyCall(Admin) /\ AdminCall'
    BY <2>1, ReturnFacts, CallerFacts DEF AdminCall
  <2> HIDE DEF s
  <2>3. OnlyRow(s) /\ reg'[s].owner = reg[s].owner /\ reg'[s].exists = reg[s].exists
    BY <1>2, <2>1, ForgetsFacts
  <2>4. \A t \in Sessions : RowWho(t)'
    BY <1>1, <2>1, <2>3 DEF Who, RowWho, OnlyRow
  <2> QED
    BY <1>1, <2>1, <2>2, <2>4, CallerFacts, CallMoves
<1>11. CASE Expire
  <2>1. PICK s \in Sessions : reg[s].expires /\ reg' = [reg EXCEPT ![s] = [NoRow EXCEPT !.indexed = reg[s].indexed]]
    BY <1>11 DEF Expire
  <2>2. UNCHANGED <<backend, legacy, call>>
    BY <1>11 DEF Expire
  <2>3. OnlyRow(s) /\ reg'[s].owner = Absent /\ ~ reg'[s].exists
    BY <1>2, <2>1, ExpireFacts
  <2>4. creator[s] # Absent
    BY <2>1, NoRowFacts DEF Who, RowWho
  <2> QED
    BY <1>4, <2>2, <2>3, <2>4 DEF OnlyRow
<1> QED
  BY <1>3, <1>5, <1>6, <1>7, <1>8, <1>9, <1>10, <1>11 DEF RegistryStep

LEMMA WhoInit == Init => Who
<1> SUFFICES ASSUME Init PROVE Who
  OBVIOUS
<1>1. /\ \A r \in Requests : req[r] = Free
      /\ \A c \in Callers : call[c] = NoCall
      /\ \A w \in Workers, s \in Sessions : table[w][s] = "none"
  BY DEF Init
<1>2. Alone /\ AdminCall
  BY <1>1, CallerFacts DEF Alone, Opening, Busy, Free, AdminCall, NoCall
<1>3. \A r \in Requests : RequestWho(r) /\ RequestCall(r)
  BY <1>1, CallerFacts DEF RequestWho, RequestCall, Busy, Free, Going, NoCall
<1>4. \A w \in Workers, s \in Sessions : EntryWho(w, s) /\ TaskCall(w, s)
  <2> SUFFICES ASSUME NEW w \in Workers, NEW s \in Sessions PROVE EntryWho(w, s) /\ TaskCall(w, s)
    OBVIOUS
  <2>1. EntryWho(w, s)
    BY <1>1 DEF EntryWho
  <2>2. ~ Going(<<w, s>>)
    BY <1>1, CallerFacts DEF Going, NoCall
  <2> QED
    BY <2>1, <2>2 DEF TaskCall
<1>5. ASSUME NEW s \in Sessions PROVE RowWho(s)
  <2>1. reg[s] = NoRow \/ reg[s].owner = Nobody
    <3>1. reg[s] = NoRow \/ \E b \in BOOLEAN : reg[s] = [FreshRow(Nobody) EXCEPT !.terminated = b]
      BY DEF Init
    <3> QED
      BY <3>1, FreshFacts, RegistryAssumption DEF FreshRow, NoRow
  <2>2. /\ creator[s] = (IF legacy[s] # {} THEN Nobody ELSE Absent)
        /\ answered = {t \in Sessions : legacy[t] # {}}
        /\ reg[s].exists => legacy[s] # {}
        /\ backend = "redis" => legacy[s] = {}
    BY DEF Init, Legacies
  <2>3. reg[s] # NoRow => reg[s].exists
    <3>1. reg[s] = NoRow \/ \E b \in BOOLEAN : reg[s] = [FreshRow(Nobody) EXCEPT !.terminated = b]
      BY DEF Init
    <3> QED
      BY <3>1 DEF FreshRow, NoRow
  <2> QED
    BY <2>1, <2>2, <2>3, NoRowFacts, RegistryAssumption DEF RowWho
<1> QED
  BY <1>2, <1>3, <1>4, <1>5 DEF Who

LEMMA WhoStep == Typed /\ Who /\ [Next]_vars => Who'
<1> SUFFICES ASSUME Typed, Who, [Next]_vars PROVE Who'
  OBVIOUS
<1>1. CASE UNCHANGED vars
  <2>1. \A c \in Callers : GoesOn(c)
    BY <1>1, StaysGoesOn DEF vars, registry
  <2>2. AdminCall' /\ Shrinks
    BY <1>1, SameShrinks DEF vars, registry, manager, Who, AdminCall
  <2> QED
    BY <1>1, <2>1, <2>2, CallerFacts, RowsKeepWho, CallsMove DEF vars, registry, manager
<1>2. ASSUME NEW r \in Requests, RequestStep(r) PROVE Who'
  <2>1. CASE \E w \in Workers, s \in Sessions, p \in Principals :
               Opens(r, w, s, p) \/ \E k \in {"use", "delete"} : Arrives(r, w, s, p, k)
    BY <2>1, OpensWho, ArrivesWho
  <2>2. CASE req[r].pc # "free" /\ HookRecords(r, req[r].w)
    BY <2>2, RequestParts, HookWho DEF Busy
  <2> QED
    BY <1>2, <2>1, <2>2, OpeningWho, AnswersWho, LooksUpWho, AdoptsWho, HandlingWho, ReconcileWho, ReconciledWho
       DEF RequestStep
<1>3. ASSUME NEW w \in Workers, WorkerStep(w) PROVE Who'
  BY <1>3, DropsWho, HookWho, StopsWho, DiesWho, CallerFacts DEF WorkerStep
<1> QED
  BY <1>1, <1>2, <1>3, CallFailsWho, TerminatesWho, AgesWho, RegistryWho DEF Next

-------------------------------------------------------------------------------
(* Why a session is said to have ended: a call to terminate it, the        *)
(* transport's own end and the record of it each go back to something that *)
(* ended it, save the end every transport gets when its worker stops.      *)

CallReason(c) ==
    /\ call[c].op = "terminate" => call[c].s \in causes
    /\ call[c].op = "hook" =>
          call[c].s \in causes \/ \E w \in Workers : c = <<w, call[c].s>> /\ phase[w] = "stopping"
(* A session its opener, or a worker that held it, no longer finds. *)
RequestReason(r) ==
    /\ Busy(r) /\ req[r].pc # "last" /\ phase[req[r].w] = "up" /\ table[req[r].w][req[r].s] = "none"
    /\ req[r].kind = "open" \/ req[r].known
    => req[r].s \in causes
Reasons ==
    /\ \A c \in Callers : CallReason(c)
    /\ \A r \in Requests : RequestReason(r)
    /\ \A w \in Workers, s \in Sessions : table[w][s] = "ended" => s \in causes
    /\ \A s \in Sessions : TRUE \in legacy[s] \cup {reg[s].terminated} => s \in causes

(* What a step that keeps the reasons does to each of these. *)
Removes == \A w \in Workers, s \in Sessions :
    /\ table'[w][s] = "none" => table[w][s] = "none" \/ s \in causes' \/ phase'[w] # "up" \/ ~ Missed(w, s)
    /\ table'[w][s] = "ended" => table[w][s] = "ended" \/ s \in causes'
Phases == \A w \in Workers :
    phase[w] = "stopping" =>
        \/ phase'[w] = "stopping"
        \/ phase'[w] = "down" /\ \A s \in Sessions : ~ Going(<<w, s>>)'
SameSession(r) ==
    Busy(r)' => /\ Busy(r) /\ req'[r].w = req[r].w /\ req'[r].s = req[r].s
                /\ req'[r].kind = req[r].kind /\ req'[r].known = req[r].known
                /\ req[r].pc = "last" => req'[r].pc = "last"
SameCall(c) == call'[c].op \in {"hook", "terminate"} => call'[c].op = call[c].op /\ call'[c].s = call[c].s
RowsReasons == \A s \in Sessions :
    TRUE \in legacy'[s] \cup {reg'[s].terminated} => TRUE \in legacy[s] \cup {reg[s].terminated} \/ s \in causes'

LEMMA ReasonsKept ==
    ASSUME Typed, Who, Reasons, causes \subseteq causes', Removes, Phases, RowsReasons,
           \A r \in Requests : SameSession(r) \/ RequestReason(r)',
           \A c \in Callers : SameCall(c) \/ CallReason(c)'
    PROVE  Reasons'
<1>1. ASSUME NEW c \in Callers PROVE CallReason(c)'
  <2>1. CASE SameCall(c)
    <3>1. call'[c].op = "terminate" => call'[c].s \in causes'
      BY <2>1 DEF SameCall, Reasons, CallReason
    <3>2. ASSUME call'[c].op = "hook", call'[c].s \notin causes'
          PROVE  \E w \in Workers : c = <<w, call'[c].s>> /\ phase'[w] = "stopping"
      <4>1. call[c].op = "hook" /\ call'[c].s = call[c].s /\ call[c].s \notin causes
        BY <2>1, <3>2 DEF SameCall
      <4>2. PICK w \in Workers : c = <<w, call[c].s>> /\ phase[w] = "stopping"
        BY <4>1 DEF Reasons, CallReason
      <4>3. call[c].s \in Sessions /\ Going(c)'
        BY <3>2, <4>1, CallKinds DEF Typed, Going
      <4>4. phase'[w] = "stopping"
        BY <4>2, <4>3 DEF Phases
      <4> QED
        BY <4>1, <4>2, <4>4
    <3> QED
      BY <3>1, <3>2 DEF CallReason
  <2> QED
    BY <1>1, <2>1
<1>2. ASSUME NEW r \in Requests PROVE RequestReason(r)'
  <2>1. CASE SameSession(r)
    <3> SUFFICES ASSUME Busy(r)', req'[r].pc # "last", phase'[req'[r].w] = "up", table'[req'[r].w][req'[r].s] = "none",
                        req'[r].kind = "open" \/ req'[r].known
                 PROVE  req'[r].s \in causes'
      BY DEF RequestReason
    <3>1. /\ Busy(r) /\ req[r].pc # "last" /\ req'[r].w = req[r].w /\ req'[r].s = req[r].s
          /\ req[r].kind = "open" \/ req[r].known
      BY <2>1 DEF SameSession
    <3>2. req[r].w \in Workers /\ req[r].s \in Sessions /\ phase[req[r].w] # "down"
      BY <3>1, RequestParts DEF RequestWho
    <3>3. phase[req[r].w] = "up"
      BY <3>1, <3>2 DEF Phases, Typed
    <3>5. Missed(req[r].w, req[r].s)
      BY <3>1 DEF Missed, On, Busy
    <3>4. table[req[r].w][req[r].s] = "none" \/ req[r].s \in causes'
      BY <3>1, <3>2, <3>3, <3>5 DEF Removes
    <3> QED
      BY <3>1, <3>2, <3>3, <3>4 DEF Reasons, RequestReason
  <2> QED
    BY <1>2, <2>1
<1>3. \A w \in Workers, s \in Sessions : table'[w][s] = "ended" => s \in causes'
  BY DEF Reasons, Removes
<1>4. \A s \in Sessions : TRUE \in legacy'[s] \cup {reg'[s].terminated} => s \in causes'
  BY DEF Reasons, RowsReasons
<1> QED
  BY <1>1, <1>2, <1>3, <1>4 DEF Reasons

LEMMA OthersSame ==
    ASSUME NEW r \in Requests, OnlyRequest(r), SameSession(r) \/ RequestReason(r)'
    PROVE  \A q \in Requests : SameSession(q) \/ RequestReason(q)'
BY DEF OnlyRequest, SameSession, Busy

LEMMA OtherCalls ==
    ASSUME NEW c \in Callers, OnlyCall(c), SameCall(c) \/ CallReason(c)'
    PROVE  \A d \in Callers : SameCall(d) \/ CallReason(d)'
BY DEF OnlyCall, SameCall

LEMMA SamePlace ==
    /\ UNCHANGED req => \A r \in Requests : SameSession(r) \/ RequestReason(r)'
    /\ UNCHANGED call => \A c \in Callers : SameCall(c) \/ CallReason(c)'
    /\ UNCHANGED phase => Phases
    /\ UNCHANGED <<reg, legacy>> => RowsReasons
    /\ UNCHANGED table => Removes
<1>1. UNCHANGED req => \A r \in Requests : SameSession(r) \/ RequestReason(r)'
  BY DEF SameSession, Busy
<1>2. UNCHANGED call => \A c \in Callers : SameCall(c) \/ CallReason(c)'
  BY DEF SameCall
<1>3. UNCHANGED phase => Phases
  BY DEF Phases
<1>4. UNCHANGED <<reg, legacy>> => RowsReasons
  BY DEF RowsReasons
<1>5. UNCHANGED table => Removes
  BY DEF Removes
<1> QED
  BY <1>1, <1>2, <1>3, <1>4, <1>5

(* A request that goes to another place, or ends. *)
LEMMA MovesSame ==
    ASSUME Typed, NEW r \in Requests, Busy(r),
           Ends(r) \/ (req[r].pc # "last" /\ \E pc \in PCs : At(r, pc))
    PROVE  \A q \in Requests : SameSession(q) \/ RequestReason(q)'
<1>1. CASE Ends(r)
  <2>1. OnlyRequest(r) /\ req'[r] = Free
    BY <1>1, EndsFacts
  <2>2. SameSession(r)
    BY <2>1 DEF SameSession, Busy, Free
  <2> QED
    BY <2>1, <2>2, OthersSame
<1>2. CASE req[r].pc # "last" /\ \E pc \in PCs : At(r, pc)
  <2>1. PICK pc \in PCs : At(r, pc)
    BY <1>2
  <2>2. OnlyRequest(r) /\ SameSession(r)
    BY <1>2, <2>1, AtFacts DEF SameSession
  <2> QED
    BY <2>2, OthersSame
<1> QED
  BY <1>1, <1>2

LEMMA PopRemoves ==
    ASSUME Typed, NEW w \in Workers, NEW s \in Sessions, Pop(w, s),
           s \in causes' \/ phase'[w] # "up" \/ ~ Missed(w, s)
    PROVE  Removes
BY PopFacts DEF Removes, OnlyEntry

LEMMA PutRemoves ==
    ASSUME Typed, NEW w \in Workers, NEW s \in Sessions, NEW tr \in Transports, Put(w, s, "live", tr)
    PROVE  Removes
BY PutFacts DEF Removes, OnlyEntry

LEMMA ForgetRemoves ==
    ASSUME Typed, Reasons, NEW w \in Workers, NEW s \in Sessions, ForgetEnded(w, s), causes \subseteq causes'
    PROVE  Removes
<1>1. CASE table[w][s] = "ended"
  BY <1>1, PopRemoves DEF ForgetEnded, Reasons
<1>2. CASE table[w][s] # "ended"
  BY <1>2, SamePlace DEF ForgetEnded, Keep
<1> QED
  BY <1>1, <1>2

LEMMA OpensReasons ==
    ASSUME Typed, Who, Reasons, NEW r \in Requests, NEW w \in Workers, NEW s \in Sessions, NEW p \in Principals,
           Opens(r, w, s, p)
    PROVE  Reasons'
<1>1. UNCHANGED <<reg, legacy, call, phase, causes>>
  BY DEF Opens, registry
<1> DEFINE tr == [NoTransport EXCEPT !.owner = p, !.initialized = TRUE]
<1>2. Put(w, s, "live", tr) /\ tr \in Transports
  BY DEF Opens, NoTransport, Transports
<1> HIDE DEF tr
<1>3. table'[w][s] = "live"
  BY <1>2, PutFacts
<1>4. OnlyRequest(r) /\ req'[r].w = w /\ req'[r].s = s
  BY DEF Opens, OnlyRequest, Typed, RequestsTyped
<1>5. RequestReason(r)'
  BY <1>3, <1>4 DEF RequestReason
<1> QED
  BY <1>1, <1>2, <1>4, <1>5, OthersSame, SamePlace, PutRemoves, ReasonsKept

LEMMA OpeningReasons ==
    ASSUME Typed, Who, Reasons, NEW r \in Requests,
           ResponseStarts(r) \/ Answers(r) \/ Opened(r) \/ OpeningFails(r)
    PROVE  Reasons'
<1>1. /\ Busy(r) /\ UNCHANGED <<reg, legacy, phase>> /\ causes \subseteq causes'
  BY DEF Busy, ResponseStarts, Answers, Opened, OpeningFails, registry, Ended
<1>2. req[r] \in Kept /\ req[r].w \in Workers /\ req[r].s \in Sessions /\ r \in Callers
  BY <1>1, RequestParts
<1>3. \A q \in Requests : SameSession(q) \/ RequestReason(q)'
  <2>1. CASE ResponseStarts(r)
    <3>1. req' = [req EXCEPT ![r].pc = "recording", ![r].registered = TRUE]
      BY <2>1 DEF ResponseStarts
    <3>2. OnlyRequest(r) /\ req'[r] = [req[r] EXCEPT !.pc = "recording", !.registered = TRUE]
      BY <3>1 DEF Typed, RequestsTyped, OnlyRequest
    <3>4. req[r].pc # "last"
      BY <2>1 DEF ResponseStarts
    <3>3. SameSession(r)
      BY <1>1, <1>2, <3>2, <3>4 DEF SameSession, Kept
    <3> QED
      BY <3>2, <3>3, OthersSame
  <2>2. CASE Answers(r) \/ Opened(r) \/ OpeningFails(r)
    BY <1>1, <2>2, MovesSame DEF Answers, Opened, OpeningFails, PCs
  <2> QED
    BY <2>1, <2>2
<1>4. \A c \in Callers : SameCall(c) \/ CallReason(c)'
  <2>1. UNCHANGED call \/ Return(r) \/ Call(r, "register", req[r].s, req[r].who)
    BY DEF ResponseStarts, Answers, Opened, OpeningFails, registry
  <2>2. CASE Return(r)
    BY <1>2, <2>2, ReturnFacts, OtherCalls DEF SameCall
  <2>3. CASE Call(r, "register", req[r].s, req[r].who)
    <3>1. OnlyCall(r) /\ call'[r].op = "register"
      BY ONLY Typed, <1>2, <2>3, CallDoes
    <3> QED
      BY <1>2, <3>1, OtherCalls DEF SameCall
  <2> QED
    BY <2>1, <2>2, <2>3, SamePlace
<1>5. Removes
  <2>1. CASE UNCHANGED table
    BY <2>1, SamePlace
  <2>2. CASE Pop(req[r].w, req[r].s) /\ Ended(req[r].s)
    <3>1. req[r].s \in causes'
      BY <2>2 DEF Ended
    <3> QED
      BY ONLY Typed, <1>2, <2>2, <3>1, PopRemoves
  <2> QED
    BY <2>1, <2>2 DEF ResponseStarts, Answers, Opened, OpeningFails, Keep
<1> QED
  BY <1>1, <1>3, <1>4, <1>5, SamePlace, ReasonsKept

LEMMA SdkReasons ==
    ASSUME Typed, NEW r \in Requests, NEW w \in Workers, NEW s \in Sessions, NEW p \in Principals,
           NEW k \in {"use", "delete"}, SdkTakes(r, w, s, p, k), UNCHANGED table
    PROVE  OnlyRequest(r) /\ RequestReason(r)'
<1>1. /\ OnlyRequest(r)
      /\ req'[r].w = w /\ req'[r].s = s /\ req'[r].kind = k
      /\ req'[r].known <=> table[w][s] # "none"
  BY SdkFacts
<1> QED
  BY <1>1 DEF RequestReason

LEMMA LookupReasons ==
    ASSUME Typed, Who, Reasons, NEW r \in Requests,
           \/ \E w \in Workers, s \in Sessions, p \in Principals, k \in {"use", "delete"} : Arrives(r, w, s, p, k)
           \/ LooksUp(r) \/ LookupFails(r)
    PROVE  Reasons'
<1>1. UNCHANGED <<reg, legacy, call, phase, table, causes>>
  BY DEF Arrives, LooksUp, LookupFails, registry
<1>2. \A q \in Requests : SameSession(q) \/ RequestReason(q)'
  <2>1. CASE \E w \in Workers, s \in Sessions, p \in Principals, k \in {"use", "delete"} : Arrives(r, w, s, p, k)
    <3>1. PICK w \in Workers, s \in Sessions, p \in Principals, k \in {"use", "delete"} : Arrives(r, w, s, p, k)
      BY <2>1
    <3> DEFINE o == [pc |-> "lookup", w |-> w, s |-> s, who |-> p, kind |-> k, via |-> "adopt", known |-> FALSE,
                     registered |-> FALSE, refused |-> FALSE, handshake |-> FALSE]
    <3>2. CASE req' = [req EXCEPT ![r] = o]
      <4>1. OnlyRequest(r) /\ req'[r] = o
        BY <3>2 DEF Typed, RequestsTyped, OnlyRequest
      <4>2. RequestReason(r)'
        BY <4>1 DEF RequestReason
      <4> QED
        BY <4>1, <4>2, OthersSame
    <3>3. CASE SdkTakes(r, w, s, p, k)
      BY <1>1, <3>3, SdkReasons, OthersSame
    <3> QED
      BY <3>1, <3>2, <3>3 DEF Arrives
  <2>2. CASE LooksUp(r) \/ LookupFails(r)
    <3>1. /\ Busy(r) /\ \/ SdkTakes(r, req[r].w, req[r].s, req[r].who, req[r].kind)
                        \/ req' = [req EXCEPT ![r].pc = "locking", ![r].handshake = reg[req[r].s].handshake]
          /\ req[r].pc = "lookup"
      BY <2>2 DEF LooksUp, LookupFails, Busy
    <3>2. req[r] \in Kept /\ req[r].kind \in {"use", "delete"}
      BY <3>1, RequestParts DEF RequestWho
    <3>3. CASE SdkTakes(r, req[r].w, req[r].s, req[r].who, req[r].kind)
      <4> DEFINE w == req[r].w  s == req[r].s  p == req[r].who  k == req[r].kind
      <4>1. w \in Workers /\ s \in Sessions /\ p \in Principals /\ k \in {"use", "delete"}
        BY <3>2 DEF Kept
      <4>2. SdkTakes(r, w, s, p, k) /\ UNCHANGED table
        BY <1>1, <3>3
      <4> HIDE DEF w, s, p, k
      <4> QED
        BY <4>1, <4>2, SdkReasons, OthersSame
    <3>4. CASE req' = [req EXCEPT ![r].pc = "locking", ![r].handshake = reg[req[r].s].handshake]
      <4>1. OnlyRequest(r) /\ SameSession(r)
        BY <3>1, <3>2, <3>4 DEF Typed, RequestsTyped, OnlyRequest, SameSession, Kept
      <4> QED
        BY <4>1, OthersSame
    <3> QED
      BY <3>1, <3>3, <3>4
  <2> QED
    BY <2>1, <2>2
<1> QED
  BY <1>1, <1>2, SamePlace, ReasonsKept

LEMMA UsingReasons ==
    ASSUME Typed, Who, Reasons, NEW r \in Requests,
           Adopts(r) \/ Touched(r) \/ Handled(r) \/ Deletes(r) \/ Deleted(r)
    PROVE  Reasons'
<1> DEFINE w == req[r].w  s == req[r].s
<1>1. /\ Busy(r) /\ UNCHANGED <<reg, legacy, phase>> /\ causes \subseteq causes'
  BY DEF Busy, Adopts, Touched, Handled, Deletes, Deleted, registry, Ended
<1>2. req[r] \in Kept /\ w \in Workers /\ s \in Sessions /\ r \in Callers
  BY <1>1, RequestParts
<1>3. \A q \in Requests : SameSession(q) \/ RequestReason(q)'
  BY <1>1, MovesSame DEF Adopts, Touched, Handled, Deletes, Deleted, Leaves, PCs
<1>4. \A c \in Callers : SameCall(c) \/ CallReason(c)'
  <2>1. \/ UNCHANGED call
        \/ Call(r, "touch", s, Absent)
        \/ Call(r, "hook", s, Absent) /\ s \in causes'
    BY DEF Adopts, Touched, Handled, Deletes, Deleted, registry, Ended
  <2>2. CASE Call(r, "touch", s, Absent)
    <3>1. OnlyCall(r) /\ call'[r].op = "touch"
      BY ONLY Typed, <1>2, <2>2, CallDoes
    <3> QED
      BY <1>2, <3>1, OtherCalls DEF SameCall
  <2>3. CASE Call(r, "hook", s, Absent) /\ s \in causes'
    <3>1. OnlyCall(r) /\ call'[r].op = "hook" /\ call'[r].s = s
      BY ONLY Typed, <1>2, <2>3, CallDoes
    <3>2. CallReason(r)'
      BY <2>3, <3>1 DEF CallReason
    <3> QED
      BY <1>2, <3>1, <3>2, OtherCalls
  <2> QED
    BY <2>1, <2>2, <2>3, SamePlace
<1>5. Removes
  <2>1. \/ UNCHANGED table \/ ForgetEnded(w, s)
        \/ Put(w, s, "live", Adopted(req[r].who, req[r].handshake))
        \/ table' = [table EXCEPT ![w][s] = "ended"] /\ s \in causes'
    BY DEF Adopts, Touched, Handled, Deletes, Deleted, Leaves, Ended, Keep
  <2>2. Adopted(req[r].who, req[r].handshake) \in Transports
    BY <1>2 DEF Adopted, Transports, Kept
  <2> HIDE DEF w, s
  <2>3. CASE ForgetEnded(w, s)
    BY <1>1, <1>2, <2>3, ForgetRemoves
  <2>4. CASE table' = [table EXCEPT ![w][s] = "ended"] /\ s \in causes'
    BY <1>2, <2>4 DEF Typed, TablesTyped, Removes
  <2>5. CASE Put(w, s, "live", Adopted(req[r].who, req[r].handshake))
    BY <1>2, <2>2, <2>5, PutRemoves
  <2> QED
    BY <2>1, <2>3, <2>4, <2>5, SamePlace
<1> QED
  BY <1>1, <1>3, <1>4, <1>5, SamePlace, ReasonsKept

LEMMA ReconcileReasons ==
    ASSUME Typed, Who, Reasons, NEW r \in Requests,
           ReconcileCreated(r) \/ ReconcileVanished(r) \/ ReconcileUsed(r) \/ Reconciled(r)
    PROVE  Reasons'
<1> DEFINE w == req[r].w  s == req[r].s
<1>1. /\ Busy(r) /\ UNCHANGED <<reg, legacy, phase, causes, table>>
  BY DEF Busy, ReconcileCreated, ReconcileVanished, ReconcileUsed, Reconciled, registry
<1>2. req[r] \in Kept /\ w \in Workers /\ s \in Sessions /\ r \in Callers
  BY <1>1, RequestParts
<1>3. \A q \in Requests : SameSession(q) \/ RequestReason(q)'
  BY <1>1, MovesSame DEF ReconcileCreated, ReconcileVanished, ReconcileUsed, Reconciled, PCs
<1>4. \A c \in Callers : SameCall(c) \/ CallReason(c)'
  <2>1. \/ UNCHANGED call
        \/ Call(r, "touch", s, Absent) \/ Call(r, "register", s, req[r].who)
        \/ Call(r, "terminate", s, Absent) /\ s \in causes
    <3>1. RequestReason(r) /\ RequestWho(r) /\ (table[w][s] = "ended" => s \in causes)
      BY <1>1, <1>2, RequestParts DEF Reasons
    <3>2. CASE ReconcileVanished(r)
      BY <1>1, <3>1, <3>2 DEF ReconcileVanished, Stopping, RequestReason, RequestWho
    <3>3. CASE ReconcileUsed(r)
      BY <1>1, <3>1, <3>3 DEF ReconcileUsed, EndedHere, Stopping, RequestReason
    <3>4. CASE ReconcileCreated(r)
      BY <3>4 DEF ReconcileCreated
    <3>5. CASE Reconciled(r)
      BY <3>5 DEF Reconciled, registry
    <3> QED
      BY <3>2, <3>3, <3>4, <3>5
  <2>2. CASE Call(r, "touch", s, Absent)
    <3>1. OnlyCall(r) /\ call'[r].op = "touch"
      BY ONLY Typed, <1>2, <2>2, CallDoes
    <3> QED
      BY <1>2, <3>1, OtherCalls DEF SameCall
  <2>3. CASE Call(r, "register", s, req[r].who)
    <3>1. OnlyCall(r) /\ call'[r].op = "register"
      BY ONLY Typed, <1>2, <2>3, CallDoes
    <3> QED
      BY <1>2, <3>1, OtherCalls DEF SameCall
  <2>4. CASE Call(r, "terminate", s, Absent) /\ s \in causes
    <3>1. OnlyCall(r) /\ call'[r].op = "terminate" /\ call'[r].s = s
      BY ONLY Typed, <1>2, <2>4, CallDoes
    <3>2. CallReason(r)'
      BY <1>1, <2>4, <3>1 DEF CallReason
    <3> QED
      BY <1>2, <3>1, <3>2, OtherCalls
  <2> QED
    BY <2>1, <2>2, <2>3, <2>4, SamePlace
<1> QED
  BY <1>1, <1>3, <1>4, SamePlace, ReasonsKept

LEMMA HookReasons ==
    ASSUME Typed, Who, Reasons, NEW c \in Callers, NEW w \in Workers, HookRecords(c, w),
           \A v \in Workers, s \in Sessions : c = <<v, s>> => v = w
    PROVE  Reasons'
<1>1. /\ call[c].op = "hook" /\ UNCHANGED <<reg, legacy, phase, causes, table, req>>
      /\ Return(c) \/ (~ Stopping(w) /\ Call(c, "terminate", call[c].s, Absent))
  BY DEF HookRecords
<1>2. SameCall(c) \/ CallReason(c)'
  <2>1. CASE Return(c)
    BY <2>1, ReturnFacts DEF SameCall
  <2>2. CASE ~ Stopping(w) /\ Call(c, "terminate", call[c].s, Absent)
    <3>1. OnlyCall(c) /\ call'[c].op = "terminate" /\ call'[c].s = call[c].s
      BY ONLY Typed, c \in Callers, <2>2, CallDoes
    <3>2. call[c].s \in Sessions
      BY <1>1, CallKinds DEF Typed
    <3>3. call[c].s \in causes
      BY <1>1, <2>2, <3>2 DEF Reasons, CallReason, Stopping
    <3> QED
      BY <1>1, <3>1, <3>3 DEF CallReason
  <2> QED
    BY <1>1, <2>1, <2>2
<1>3. OnlyCall(c)
  <2>1. CASE Return(c)
    BY <2>1, ReturnFacts
  <2>2. CASE Call(c, "terminate", call[c].s, Absent)
    BY ONLY Typed, c \in Callers, <2>2, CallDoes
  <2> QED
    BY <1>1, <2>1, <2>2
<1> QED
  BY <1>1, <1>2, <1>3, OtherCalls, SamePlace, ReasonsKept

LEMMA DropsReasons ==
    ASSUME Typed, Who, Reasons, NEW w \in Workers, NEW s \in Sessions,
           IdlesOut(w, s) \/ ServerFails(w, s) \/ Cancels(w, s)
    PROVE  Reasons'
<1>1. /\ UNCHANGED <<reg, legacy, phase, req>> /\ causes \subseteq causes' /\ Pop(w, s)
      /\ UNCHANGED call \/ (Call(<<w, s>>, "hook", s, Absent) /\ (s \in causes' \/ phase'[w] = "stopping"))
      /\ s \in causes' \/ phase'[w] = "stopping" \/ ~ Missed(w, s)
  BY DEF IdlesOut, ServerFails, Cancels, registry, Ended
<1>2. Removes
  BY <1>1, PopRemoves
<1>3. \A c \in Callers : SameCall(c) \/ CallReason(c)'
  <2>1. CASE Call(<<w, s>>, "hook", s, Absent) /\ (s \in causes' \/ phase'[w] = "stopping")
    <3>1. <<w, s>> \in Callers
      BY CallerFacts
    <3>2. OnlyCall(<<w, s>>) /\ call'[<<w, s>>].op = "hook" /\ call'[<<w, s>>].s = s
      BY ONLY Typed, <2>1, <3>1, CallDoes
    <3>3. CallReason(<<w, s>>)'
      BY <2>1, <3>2 DEF CallReason
    <3> QED
      BY <3>1, <3>2, <3>3, OtherCalls
  <2> QED
    BY <1>1, <2>1, SamePlace
<1> QED
  BY <1>1, <1>2, <1>3, SamePlace, ReasonsKept

LEMMA PhaseReasons ==
    ASSUME Typed, Who, Reasons, NEW w \in Workers, Stops(w) \/ Starts(w) \/ Dies(w)
    PROVE  Reasons'
<1>1. UNCHANGED <<reg, legacy, causes>>
  BY DEF Stops, Starts, Dies, registry
<1>2. CASE Stops(w) \/ Starts(w)
  <2>1. UNCHANGED <<call, table, req>> /\ Phases
    BY <1>2 DEF Stops, Starts, registry, Phases, Typed
  <2> QED
    BY <1>1, <2>1, SamePlace, ReasonsKept
<1>3. CASE Dies(w)
  <2>1. Phases
    BY <1>3, DiesFacts DEF Phases, Going, NoCall
  <2>2. Removes
    BY <1>3, DiesFacts DEF Removes
  <2>3. \A r \in Requests : SameSession(r)
    BY <1>3, DiesFacts DEF SameSession, Busy, Free
  <2>4. \A c \in Callers : SameCall(c)
    <3>1. \A r \in Requests : SameCall(r)
      BY <1>3, DiesFacts DEF SameCall, NoCall
    <3>2. \A v \in Workers, s \in Sessions : SameCall(<<v, s>>)
      BY <1>3, DiesFacts DEF SameCall, NoCall
    <3>3. SameCall(Admin)
      BY <1>3, DiesFacts DEF SameCall
    <3> QED
      BY <3>1, <3>2, <3>3, CallerFacts
  <2> QED
    BY <1>1, <2>1, <2>2, <2>3, <2>4, SamePlace, ReasonsKept
<1> QED
  BY <1>2, <1>3

LEMMA OutsideReasons ==
    ASSUME Typed, Who, Reasons,
           \/ \E c \in Callers : CallFails(c)
           \/ \E s \in Sessions : OperatorTerminates(s)
           \/ Ages
    PROVE  Reasons'
<1>1. UNCHANGED <<legacy, phase, req, table>> /\ causes \subseteq causes'
  BY DEF CallFails, OperatorTerminates, Ages, Cause
<1>2. CASE \E c \in Callers : CallFails(c)
  <2>1. PICK c \in Callers : Return(c) /\ UNCHANGED reg
    BY <1>2 DEF CallFails
  <2>2. OnlyCall(c) /\ SameCall(c)
    BY <2>1, ReturnFacts DEF SameCall
  <2> QED
    BY <1>1, <2>1, <2>2, OtherCalls, SamePlace, ReasonsKept
<1>3. CASE \E s \in Sessions : OperatorTerminates(s)
  <2>1. PICK s \in Sessions : Call(Admin, "terminate", s, Absent) /\ s \in causes' /\ UNCHANGED reg
    BY <1>3 DEF OperatorTerminates, Cause
  <2>2. OnlyCall(Admin) /\ call'[Admin].op = "terminate" /\ call'[Admin].s = s
    BY ONLY Typed, <2>1, CallerFacts, CallDoes
  <2>3. CallReason(Admin)'
    BY <2>1, <2>2 DEF CallReason
  <2> QED
    BY <1>1, <2>1, <2>2, <2>3, CallerFacts, OtherCalls, SamePlace, ReasonsKept
<1>4. CASE Ages
  <2>1. PICK s \in Sessions : reg' = [reg EXCEPT ![s].recent = FALSE] /\ UNCHANGED call
    BY <1>4 DEF Ages
  <2>2. OnlyRow(s) /\ reg'[s].terminated = reg[s].terminated
    BY <2>1, RecentFacts DEF Typed, StoreTyped, RegTyped
  <2>3. RowsReasons
    BY <1>1, <2>2 DEF RowsReasons, OnlyRow
  <2> QED
    BY <1>1, <2>1, <2>3, SamePlace, ReasonsKept
<1> QED
  BY <1>2, <1>3, <1>4

LEMMA RegistryReasons ==
    ASSUME Typed, Who, Reasons, RegistryStep, UNCHANGED manager
    PROVE  Reasons'
<1>1. UNCHANGED <<phase, table, req, causes>> /\ RegTyped
  BY DEF manager, Typed, StoreTyped, RegTyped
<1>2. ASSUME RowsReasons, NEW c \in Callers, OnlyCall(c), SameCall(c)
      PROVE  Reasons'
  BY <1>1, <1>2, OtherCalls, SamePlace, ReasonsKept
<1>3. CASE \E c \in Callers : call[c].op \in {"register", "touch", "terminate"}
                              /\ (SqlCall(c) \/ RdExists(c) \/ RdWrite(c))
  <2>1. PICK c \in Callers : call[c].op \in {"register", "touch", "terminate"} /\ Served(c)
    BY <1>3, Serves
  <2>2. PICK s \in Sessions : s = call[c].s
    BY <2>1, CallKinds DEF Typed
  <2>3. SameCall(c) /\ OnlyCall(c) /\ OnlyRow(s) /\ UNCHANGED legacy
    <3>1. \/ call'[c] = NoCall
          \/ call'[c].op = call[c].op /\ call'[c].s = call[c].s /\ call'[c].who = call[c].who
      BY <2>1 DEF Served, SqlServed, RdLooked, RdServed
    <3>2. SameCall(c)
      BY <3>1 DEF SameCall, NoCall
    <3> QED
      BY <2>1, <2>2, <3>2 DEF Served
  <2>4. reg'[s].terminated = TRUE => reg[s].terminated = TRUE \/ call[c].op = "terminate"
    BY <2>1, <2>2 DEF Served, SqlServed, RdLooked, RdServed
  <2>5. RowsReasons
    BY <1>1, <2>2, <2>3, <2>4 DEF Reasons, CallReason, RowsReasons, OnlyRow
  <2> QED
    BY <1>2, <2>3, <2>5
<1>4. CASE MigrateNullTenants
  <2>1. /\ \A s \in Sessions : reg'[s] = IF legacy[s] = {} THEN reg[s] ELSE Merged(s)
        /\ (\A s \in Sessions : legacy'[s] = {}) /\ UNCHANGED call
    BY <1>1, <1>4, MigrateFacts DEF MigrateNullTenants
  <2>2. RowsReasons
    BY <1>1, <2>1, MergedFacts DEF RowsReasons
  <2> QED
    BY <1>1, <2>1, <2>2, SamePlace, ReasonsKept
<1>5. CASE SqlPurge
  <2>1. /\ UNCHANGED <<legacy, call>>
        /\ \A s \in Sessions : reg'[s] = IF s \in Old THEN NoRow ELSE reg[s]
    BY <1>1, <1>5, PurgedFacts DEF SqlPurge, PgPurge, SqlitePurge
  <2>2. RowsReasons
    BY <2>1, NoRowFacts, RegistryAssumption DEF RowsReasons
  <2> QED
    BY <1>1, <2>1, <2>2, SamePlace, ReasonsKept
<1>6. CASE RdPurgeRead \/ RdListRead
  <2>1. UNCHANGED <<reg, legacy>> /\ \E k : call' = [call EXCEPT ![Admin] = k] /\ k.op \notin {"hook", "terminate"}
    <3>1. ASSUME NEW k, call' = [call EXCEPT ![Admin] = k], k.op \in {"purge", "unlist"}, UNCHANGED <<reg, legacy>>
          PROVE  UNCHANGED <<reg, legacy>> /\ \E j : call' = [call EXCEPT ![Admin] = j] /\ j.op \notin {"hook", "terminate"}
      BY <3>1
    <3>2. CASE RdPurgeRead
      BY <3>1, <3>2 DEF RdPurgeRead
    <3>3. CASE RdListRead
      BY <3>1, <3>3 DEF RdListRead
    <3> QED
      BY <1>6, <3>2, <3>3
  <2>2. OnlyCall(Admin) /\ SameCall(Admin)
    BY <2>1, CallerFacts DEF Typed, CallsTyped, OnlyCall, SameCall
  <2> QED
    BY <1>2, <2>1, <2>2, SamePlace, CallerFacts
<1>7. CASE RdPurgeDelete
  <2>1. /\ \A s \in Sessions : reg'[s] = IF s \in call[Admin].s THEN NoRow ELSE reg[s]
        /\ Return(Admin) /\ UNCHANGED legacy
    BY <1>1, <1>7, PurgedFacts DEF RdPurgeDelete
  <2>2. RowsReasons
    BY <2>1, NoRowFacts, RegistryAssumption DEF RowsReasons
  <2> QED
    BY <1>2, <2>1, <2>2, ReturnFacts, CallerFacts DEF SameCall
<1>8. CASE RdListForgets
  <2>1. PICK s \in Sessions : /\ reg' = [reg EXCEPT ![s].indexed = FALSE, ![s].recent = FALSE]
                              /\ Return(Admin) /\ UNCHANGED legacy
    BY <1>8, AdminKinds DEF RdListForgets, Typed
  <2>2. RowsReasons
    BY <1>1, <2>1, ForgetsFacts DEF RowsReasons, OnlyRow
  <2> QED
    BY <1>2, <2>1, <2>2, ReturnFacts, CallerFacts DEF SameCall
<1>9. CASE Expire
  <2>1. PICK s \in Sessions : reg' = [reg EXCEPT ![s] = [NoRow EXCEPT !.indexed = reg[s].indexed]]
    BY <1>9 DEF Expire
  <2>2. UNCHANGED <<legacy, call>>
    BY <1>9 DEF Expire
  <2>3. RowsReasons
    BY <1>1, <2>1, <2>2, ExpireFacts, RegistryAssumption DEF RowsReasons, OnlyRow
  <2> QED
    BY <1>1, <2>2, <2>3, SamePlace, ReasonsKept
<1> QED
  BY <1>3, <1>4, <1>5, <1>6, <1>7, <1>8, <1>9 DEF RegistryStep

LEMMA ReasonsInit == Init => Reasons
<1> SUFFICES ASSUME Init PROVE Reasons
  OBVIOUS
<1>1. /\ \A r \in Requests : req[r] = Free
      /\ \A c \in Callers : call[c] = NoCall
      /\ \A w \in Workers, s \in Sessions : table[w][s] = "none"
      /\ causes = {s \in Sessions : TRUE \in legacy[s] \cup {reg[s].terminated}}
  BY DEF Init
<1>2. \A c \in Callers : CallReason(c)
  <2>1. \A c \in Callers : call[c].op = "none"
    BY <1>1 DEF NoCall
  <2> QED
    BY ONLY <2>1 DEF CallReason
<1>3. \A r \in Requests : RequestReason(r)
  BY <1>1 DEF RequestReason, Busy, Free
<1> QED
  BY <1>1, <1>2, <1>3 DEF Reasons

LEMMA ReasonsStep == Typed /\ Who /\ Reasons /\ [Next]_vars => Reasons'
<1> SUFFICES ASSUME Typed, Who, Reasons, [Next]_vars PROVE Reasons'
  OBVIOUS
<1>1. CASE UNCHANGED vars
  BY <1>1, SamePlace, ReasonsKept DEF vars, registry, manager
<1>2. ASSUME NEW r \in Requests, RequestStep(r) PROVE Reasons'
  <2>1. CASE \E w \in Workers, s \in Sessions, p \in Principals :
               Opens(r, w, s, p) \/ \E k \in {"use", "delete"} : Arrives(r, w, s, p, k)
    BY <2>1, OpensReasons, LookupReasons
  <2>2. CASE req[r].pc # "free" /\ HookRecords(r, req[r].w)
    BY <2>2, RequestParts, CallerFacts, HookReasons DEF Busy
  <2> QED
    BY <1>2, <2>1, <2>2, OpeningReasons, LookupReasons, UsingReasons, ReconcileReasons DEF RequestStep
<1>3. ASSUME NEW w \in Workers, WorkerStep(w) PROVE Reasons'
  <2>1. CASE \E s \in Sessions : HookRecords(<<w, s>>, w)
    BY <2>1, HookReasons, CallerFacts
  <2> QED
    BY <1>3, <2>1, DropsReasons, PhaseReasons DEF WorkerStep
<1> QED
  BY <1>1, <1>2, <1>3, OutsideReasons, RegistryReasons DEF Next

(* What the layers so far say of every reachable state. *)
LEMMA WhoAlways == Spec => [](Typed /\ Who /\ Reasons)
BY TypedInit, TypedStep, WhoInit, WhoStep, ReasonsInit, ReasonsStep, PTL DEF Spec

(* The registry calls a session terminated only when something ended it:   *)
(* not for a request that was refused, nor for the stop of a worker, nor   *)
(* for a crash that no request met (_hook_termination, _reconcile and      *)
(* run_server of session_manager.py).                                      *)
THEOREM EndsForCause == Spec => []TerminatedForCause
<1>1. Reasons => TerminatedForCause
  BY DEF Reasons, TerminatedForCause
<1> QED
  BY <1>1, WhoAlways, PTL


-------------------------------------------------------------------------------
(* Whose end a registration could undo: until the opener's register has    *)
(* written its expiry, nothing removes what the registry holds of the      *)
(* session, so an end written meanwhile is still there when the register   *)
(* comes to the terminated field.                                          *)

ToRegister(r) == req[r].pc = "opening" \/ (req[r].pc = "reconcile" /\ ~ req[r].registered)
InRegister(r) == call[r].op = "register" /\ (backend = "redis" => call[r].step <= 6)
Early(r) == Opening(r) /\ (ToRegister(r) \/ InRegister(r))
Unregistered(s) == creator[s] = Absent \/ \E r \in Requests : Early(r) /\ req[r].s = s

Untouched(s) == Unregistered(s) =>
    /\ legacy[s] = {} /\ s \notin answered /\ s \notin gone
    /\ backend = "redis" => ~ reg[s].expires /\ (reg[s].indexed => reg[s].recent)
    /\ call[Admin].op = "purge" => s \notin call[Admin].s
    /\ s \in endWritten => backend = "redis" /\ reg[s].terminated = TRUE
    /\ backend # "redis" => ~ reg[s].exists
EndKept(s) == s \in endWritten =>
    /\ legacy[s] # {} => TRUE \in legacy[s] \cup {reg[s].terminated}
    /\ legacy[s] = {} => IF backend = "redis" THEN reg[s].terminated # FALSE
                                              ELSE reg[s].exists => reg[s].terminated = TRUE
(* The fields a register has come past are there, unless the row has gone. *)
Commands(r) == call[r].op = "register" /\ backend = "redis" /\ call[r].s \notin gone =>
    /\ call[r].step > 2 => reg[call[r].s].terminated # Absent
    /\ call[r].step > 3 => reg[call[r].s].owner # Absent
    /\ call[r].step > 4 => reg[call[r].s].handshake
    /\ call[r].step > 5 => reg[call[r].s].created
Lasting == /\ \A s \in Sessions : Untouched(s) /\ EndKept(s)
           /\ \A r \in Requests : Commands(r)
           /\ call[Admin].op \in {"purge", "unlist"} => backend = "redis"

(* Nobody gets ready to register a session that is not new. *)
NoNewRegister(r) == Early(r)' => \/ Early(r) /\ req'[r].s = req[r].s
                                 \/ creator[req'[r].s] = Absent
NoNewCall(r) == call'[r].op = "register" => call'[r] = call[r] \/ call'[r].step = 1

LEMMA UnregisteredShrinks ==
    ASSUME Typed, \A r \in Requests : NoNewRegister(r),
           \A s \in Sessions : creator'[s] = Absent => creator[s] = Absent
    PROVE  \A s \in Sessions : Unregistered(s)' => Unregistered(s)
<1> SUFFICES ASSUME NEW s \in Sessions, Unregistered(s)' PROVE Unregistered(s)
  OBVIOUS
<1>1. CASE creator'[s] = Absent
  BY <1>1 DEF Unregistered
<1>2. CASE \E r \in Requests : Early(r)' /\ req'[r].s = s
  <2>1. PICK r \in Requests : Early(r)' /\ req'[r].s = s
    BY <1>2
  <2>2. (Early(r) /\ req[r].s = s) \/ creator[s] = Absent
    BY <2>1 DEF NoNewRegister
  <2> QED
    BY <2>2 DEF Unregistered
<1> QED
  BY <1>1, <1>2 DEF Unregistered

LEMMA LastingKept ==
    ASSUME Typed, Who, Lasting, UNCHANGED <<backend, reg, legacy, endWritten, gone>>,
           \A r \in Requests : NoNewRegister(r) /\ NoNewCall(r),
           \A s \in Sessions : creator'[s] = Absent => creator[s] = Absent,
           call'[Admin] = call[Admin] \/ call'[Admin].op \notin {"purge", "unlist"},
           \A s \in answered' : s \in answered \/ ~ Unregistered(s)'
    PROVE  Lasting'
<1>1. \A s \in Sessions : Unregistered(s)' => Unregistered(s)
  BY UnregisteredShrinks
<1>2. \A s \in Sessions : Untouched(s)'
  BY <1>1 DEF Lasting, Untouched
<1>3. \A s \in Sessions : EndKept(s)'
  BY DEF Lasting, EndKept
<1>4. ASSUME NEW r \in Requests PROVE Commands(r)'
  <2>1. CASE call'[r] = call[r]
    BY <2>1 DEF Lasting, Commands
  <2>2. CASE call'[r].op # "register" \/ call'[r].step = 1
    BY <2>2 DEF Commands
  <2> QED
    BY <2>1, <2>2 DEF NoNewCall
<1>5. call'[Admin].op \in {"purge", "unlist"} => backend' = "redis"
  BY DEF Lasting
<1> QED
  BY <1>2, <1>3, <1>4, <1>5 DEF Lasting

LEMMA OthersNoNew ==
    ASSUME NEW r \in Requests, OnlyRequest(r), OnlyCall(r), UNCHANGED backend, NoNewRegister(r), NoNewCall(r)
    PROVE  \A q \in Requests : NoNewRegister(q) /\ NoNewCall(q)
<1> SUFFICES ASSUME NEW q \in Requests, q # r PROVE NoNewRegister(q) /\ NoNewCall(q)
  OBVIOUS
<1>1. req'[q] = req[q] /\ call'[q] = call[q]
  BY CallerFacts DEF OnlyRequest, OnlyCall
<1>2. Early(q)' <=> Early(q)
  BY <1>1 DEF Early, Opening, Busy, ToRegister, InRegister
<1> QED
  BY <1>1, <1>2 DEF NoNewRegister, NoNewCall

LEMMA SameRequests ==
    ASSUME UNCHANGED <<req, backend>>, \A r \in Requests : call'[r] = call[r] \/ call'[r].op # "register"
    PROVE  \A q \in Requests : NoNewRegister(q) /\ NoNewCall(q)
<1> SUFFICES ASSUME NEW q \in Requests PROVE NoNewRegister(q) /\ NoNewCall(q)
  OBVIOUS
<1>1. Early(q)' => Early(q)
  BY DEF Early, Opening, Busy, ToRegister, InRegister
<1> QED
  BY <1>1 DEF NoNewRegister, NoNewCall

(* A step of the request r, by what becomes of its place and its call. *)
LEMMA MovesLasting ==
    ASSUME Typed, Who, Lasting, NEW r \in Requests, OnlyRequest(r), OnlyCall(r),
           UNCHANGED <<backend, reg, legacy, endWritten, gone, creator, answered>>,
           \/ ~ Opening(r)' /\ call'[r].op # "register"
           \/ Early(r)' => Early(r) /\ req'[r].s = req[r].s,
           NoNewCall(r)
    PROVE  Lasting'
<1>1. NoNewRegister(r)
  BY DEF NoNewRegister, Early
<1>2. call'[Admin] = call[Admin]
  BY CallerFacts DEF OnlyCall
<1> QED
  BY <1>1, <1>2, OthersNoNew, LastingKept

LEMMA OpensLasting ==
    ASSUME Typed, Who, Lasting, NEW r \in Requests, NEW w \in Workers, NEW s \in Sessions, NEW p \in Principals,
           Opens(r, w, s, p)
    PROVE  Lasting'
<1>1. /\ UNCHANGED <<backend, reg, legacy, call, endWritten, gone, answered>> /\ creator[s] = Absent
      /\ creator' = [creator EXCEPT ![s] = p]
  BY DEF Opens, registry
<1>2. OnlyRequest(r) /\ req'[r].s = s
  BY DEF Opens, OnlyRequest, Typed, RequestsTyped
<1>3. \A t \in Sessions : creator'[t] = Absent => creator[t] = Absent
  BY <1>1, RegistryAssumption DEF Typed, HistoryTyped
<1>4. NoNewRegister(r) /\ NoNewCall(r) /\ OnlyCall(r)
  BY <1>1, <1>2 DEF NoNewRegister, NoNewCall, OnlyCall
<1> QED
  BY <1>1, <1>2, <1>3, <1>4, OthersNoNew, LastingKept

LEMMA OpeningLasting ==
    ASSUME Typed, Who, Lasting, NEW r \in Requests,
           ResponseStarts(r) \/ Opened(r) \/ OpeningFails(r)
    PROVE  Lasting'
<1>1. /\ Busy(r) /\ req[r].pc \in {"opening", "recording", "streaming"}
      /\ UNCHANGED <<backend, reg, legacy, endWritten, gone, creator, answered>>
  BY DEF Busy, ResponseStarts, Opened, OpeningFails, registry
<1>2. /\ Opening(r) /\ req[r] \in Kept /\ r \in Callers
      /\ req[r].pc \in {"recording", "streaming"} => req[r].registered
  BY <1>1, RequestParts DEF RequestWho, Opening
<1>3. CASE ResponseStarts(r)
  <2>1. /\ req' = [req EXCEPT ![r].pc = "recording", ![r].registered = TRUE] /\ req[r].pc = "opening"
        /\ Call(r, "register", req[r].s, req[r].who)
    BY <1>3 DEF ResponseStarts
  <2>2. OnlyRequest(r) /\ req'[r].s = req[r].s
    BY <1>2, <2>1 DEF Typed, RequestsTyped, OnlyRequest, Kept
  <2>3. OnlyCall(r) /\ call'[r].step = 1
    BY ONLY Typed, <1>2, <2>1, CallDoes
  <2>4. Early(r) /\ NoNewCall(r)
    BY <1>2, <2>1, <2>3 DEF Early, ToRegister, NoNewCall
  <2> QED
    BY <1>1, <2>2, <2>3, <2>4, MovesLasting
<1>4. CASE Opened(r) \/ OpeningFails(r)
  <2>1. At(r, "reconcile") /\ (Return(r) \/ (UNCHANGED call /\ req[r].pc = "streaming"))
    BY <1>4 DEF Opened, OpeningFails, registry
  <2>2. /\ OnlyRequest(r) /\ req'[r].pc = "reconcile" /\ req'[r].registered = req[r].registered
        /\ req'[r].s = req[r].s
    BY <1>1, <2>1, AtFacts DEF PCs
  <2>3. OnlyCall(r) /\ call'[r].op = "none"
    <3>1. CASE Return(r)
      BY <1>2, <3>1, ReturnFacts
    <3>2. CASE UNCHANGED call /\ req[r].pc = "streaming"
      BY <1>1, <3>2, NotCalling DEF OnlyCall, Going
    <3> QED
      BY <2>1, <3>1, <3>2
  <2>4. Early(r)' => Early(r)
    BY <1>1, <1>2, <2>2, <2>3 DEF Early, ToRegister, InRegister
  <2>5. NoNewCall(r)
    BY <2>3 DEF NoNewCall
  <2> QED
    BY <1>1, <2>2, <2>3, <2>4, <2>5, MovesLasting
<1> QED
  BY <1>3, <1>4

LEMMA AnswersLasting ==
    ASSUME Typed, Who, Lasting, NEW r \in Requests, Answers(r)
    PROVE  Lasting'
<1>1. /\ req[r].pc = "recording" /\ ~ Going(r) /\ answered' = answered \cup {req[r].s}
      /\ At(r, "streaming") /\ Busy(r)
      /\ UNCHANGED <<backend, reg, legacy, call, endWritten, gone, creator>>
  BY DEF Answers, registry, Busy
<1>2. /\ OnlyRequest(r) /\ req'[r].pc = "streaming" /\ req'[r].s = req[r].s /\ req'[r].kind = req[r].kind
  BY <1>1, AtFacts DEF PCs
<1>3. ~ Early(r)'
  BY <1>1, <1>2 DEF Early, ToRegister, InRegister, Going
<1>4. NoNewRegister(r) /\ NoNewCall(r) /\ OnlyCall(r)
  BY <1>1, <1>3 DEF NoNewRegister, NoNewCall, OnlyCall
<1>5. \A q \in Requests : Early(q)' => Early(q) /\ req'[q].s = req[q].s /\ q # r
  BY <1>1, <1>2, <1>3 DEF OnlyRequest, Early, Opening, Busy, ToRegister, InRegister
<1>6. Opening(r) /\ creator[req[r].s] # Absent
  BY <1>1, RequestParts DEF RequestWho, Opening
<1>7. \A s \in answered' : s \in answered \/ ~ Unregistered(s)'
  <2> SUFFICES ASSUME Unregistered(req[r].s)' PROVE FALSE
    <3>1. PICK t : t = req[r].s
      OBVIOUS
    <3> QED
      BY <1>1, <1>2, <3>1
  <2>1. PICK s : s = req[r].s
    OBVIOUS
  <2>2. Unregistered(s)'
    BY <1>2, <2>1
  <2>3. PICK q \in Requests : Early(q)' /\ req'[q].s = s
    BY <1>1, <1>6, <2>1, <2>2 DEF Unregistered
  <2>4. Opening(q) /\ req[q].s = req[r].s /\ q # r
    BY <1>5, <2>1, <2>3 DEF Early
  <2> QED
    BY <1>6, <2>4 DEF Who, Alone
<1> QED
  BY <1>1, <1>2, <1>4, <1>7, OthersNoNew, LastingKept

LEMMA UsesLasting ==
    ASSUME Typed, Who, Lasting, NEW r \in Requests,
           \/ \E w \in Workers, s \in Sessions, p \in Principals, k \in {"use", "delete"} : Arrives(r, w, s, p, k)
           \/ LooksUp(r) \/ LookupFails(r) \/ Adopts(r) \/ Touched(r) \/ Handled(r) \/ Deletes(r) \/ Deleted(r)
           \/ ReconcileUsed(r)
    PROVE  Lasting'
<1>1. UNCHANGED <<backend, reg, legacy, endWritten, gone, creator, answered>>
  BY DEF Arrives, LooksUp, LookupFails, Adopts, Touched, Handled, Deletes, Deleted, ReconcileUsed, registry
<1>2. ~ Going(r)
  <2>1. Busy(r) => req[r].pc \in {"opening", "streaming", "lookup", "locking", "handling", "reconcile"} \/ ~ Going(r)
    BY DEF Arrives, LooksUp, LookupFails, Adopts, Touched, Handled, Deletes, Deleted, ReconcileUsed, Busy, Free
  <2> QED
    BY <2>1, NotCalling
<1>3. r \in Callers
  BY CallerFacts
<1>4. OnlyCall(r) /\ call'[r].op # "register"
  <2>1. UNCHANGED call \/ \E op \in {"touch", "hook", "terminate"} : Call(r, op, req[r].s, Absent)
    BY DEF Arrives, LooksUp, LookupFails, Adopts, Touched, Handled, Deletes, Deleted, ReconcileUsed, registry
  <2>2. CASE UNCHANGED call
    BY <1>2, <2>2 DEF OnlyCall, Going
  <2>3. ASSUME NEW op \in {"touch", "hook", "terminate"}, Call(r, op, req[r].s, Absent)
        PROVE  OnlyCall(r) /\ call'[r].op # "register"
    <3>1. OnlyCall(r) /\ call'[r].op = op
      BY ONLY Typed, <1>3, <2>3, CallDoes
    <3> QED
      BY <2>3, <3>1
  <2> QED
    BY <2>1, <2>2, <2>3
<1>5. OnlyRequest(r) /\ ~ Opening(r)'
  <2>1. CASE \E w \in Workers, s \in Sessions, p \in Principals, k \in {"use", "delete"} : Arrives(r, w, s, p, k)
    <3>1. PICK w \in Workers, s \in Sessions, p \in Principals, k \in {"use", "delete"} : Arrives(r, w, s, p, k)
      BY <2>1
    <3> DEFINE o == [pc |-> "lookup", w |-> w, s |-> s, who |-> p, kind |-> k, via |-> "adopt", known |-> FALSE,
                     registered |-> FALSE, refused |-> FALSE, handshake |-> FALSE]
    <3>2. CASE req' = [req EXCEPT ![r] = o]
      <4>1. OnlyRequest(r) /\ req'[r] = o
        BY <3>2 DEF Typed, RequestsTyped, OnlyRequest
      <4> QED
        BY <4>1 DEF Opening
    <3>3. CASE SdkTakes(r, w, s, p, k)
      BY <3>3, SdkFacts DEF Opening
    <3> QED
      BY <3>1, <3>2, <3>3 DEF Arrives
  <2>2. CASE LooksUp(r) \/ LookupFails(r)
    <3> DEFINE w == req[r].w  s == req[r].s  p == req[r].who  k == req[r].kind
    <3>1. Busy(r) /\ req[r].pc = "lookup"
      BY <2>2 DEF LooksUp, LookupFails, Busy
    <3>2. w \in Workers /\ s \in Sessions /\ p \in Principals /\ k \in {"use", "delete"} /\ req[r] \in Kept
      BY <3>1, RequestParts DEF RequestWho
    <3>3. CASE SdkTakes(r, w, s, p, k)
      <4>1. k # "open"
        BY <3>2
      <4> HIDE DEF w, s, p, k
      <4> QED
        BY <3>2, <3>3, <4>1, SdkFacts DEF Opening
    <3>4. CASE req' = [req EXCEPT ![r].pc = "locking", ![r].handshake = reg[s].handshake]
      BY <3>2, <3>4 DEF Typed, RequestsTyped, OnlyRequest, Opening, Kept
    <3> QED
      BY <2>2, <3>3, <3>4 DEF LooksUp, LookupFails
  <2>3. CASE Adopts(r) \/ Touched(r) \/ Handled(r) \/ Deletes(r) \/ Deleted(r) \/ ReconcileUsed(r)
    <3>1. Busy(r) /\ req[r].kind # "open"
      BY <2>3, RequestParts DEF Adopts, Touched, Handled, Deletes, Deleted, ReconcileUsed, Busy, RequestWho
    <3>2. Ends(r) \/ \E pc \in PCs : At(r, pc)
      BY <2>3 DEF Adopts, Touched, Handled, Deletes, Deleted, ReconcileUsed, Leaves, PCs
    <3>3. CASE Ends(r)
      BY <3>3, EndsFacts DEF Opening, Busy, Free
    <3>4. CASE \E pc \in PCs : At(r, pc)
      BY <3>1, <3>4, AtFacts DEF Opening
    <3> QED
      BY <3>2, <3>3, <3>4
  <2> QED
    BY <2>1, <2>2, <2>3
<1>6. NoNewCall(r)
  BY <1>4 DEF NoNewCall
<1> QED
  BY <1>1, <1>4, <1>5, <1>6, MovesLasting

LEMMA ReconcileLasting ==
    ASSUME Typed, Who, Lasting, NEW r \in Requests,
           ReconcileCreated(r) \/ ReconcileVanished(r) \/ Reconciled(r)
    PROVE  Lasting'
<1>1. /\ Busy(r) /\ ~ Going(r)
      /\ UNCHANGED <<backend, reg, legacy, endWritten, gone, creator, answered>>
  <2>1. CASE ReconcileCreated(r)
    BY <2>1, NotCalling DEF ReconcileCreated, Busy
  <2> QED
    BY <2>1 DEF ReconcileCreated, ReconcileVanished, Reconciled, registry, Busy
<1>2. req[r] \in Kept /\ r \in Callers
  BY <1>1, RequestParts
<1>3. CASE ReconcileCreated(r)
  <2>1. /\ At(r, "reconciling") /\ req[r].kind = "open" /\ req[r].pc = "reconcile"
        /\ UNCHANGED call \/ (~ req[r].registered /\ Call(r, "register", req[r].s, req[r].who))
    BY <1>3 DEF ReconcileCreated
  <2>2. OnlyRequest(r) /\ req'[r].pc = "reconciling" /\ req'[r].s = req[r].s
    BY <1>1, <2>1, AtFacts DEF PCs
  <2>3. OnlyCall(r) /\ (call'[r].op = "none" \/ (call'[r].step = 1 /\ ~ req[r].registered))
    <3>1. CASE UNCHANGED call
      BY <1>1, <3>1 DEF OnlyCall, Going
    <3>2. CASE ~ req[r].registered /\ Call(r, "register", req[r].s, req[r].who)
      BY ONLY Typed, <1>2, <3>2, CallDoes
    <3> QED
      BY <2>1, <3>1, <3>2
  <2>4. Early(r)' => Early(r)
    BY <1>1, <2>1, <2>2, <2>3 DEF Early, Opening, ToRegister, InRegister
  <2>5. NoNewCall(r)
    BY <2>3 DEF NoNewCall
  <2> QED
    BY <1>1, <2>2, <2>3, <2>4, <2>5, MovesLasting
<1>4. CASE ReconcileVanished(r) \/ Reconciled(r)
  <2>1. /\ At(r, "last") \/ Ends(r)
        /\ UNCHANGED call \/ Call(r, "terminate", req[r].s, Absent)
    BY <1>4 DEF ReconcileVanished, Reconciled, registry
  <2>2. OnlyRequest(r) /\ req'[r].pc \in {"last", "free"}
    <3>1. CASE At(r, "last")
      BY <1>1, <3>1, AtFacts DEF PCs
    <3>2. CASE Ends(r)
      BY <3>2, EndsFacts DEF Free
    <3> QED
      BY <2>1, <3>1, <3>2
  <2>3. OnlyCall(r) /\ call'[r].op \in {"none", "terminate"}
    <3>1. CASE UNCHANGED call
      BY <1>1, <3>1 DEF OnlyCall, Going
    <3>2. CASE Call(r, "terminate", req[r].s, Absent)
      BY ONLY Typed, <1>2, <3>2, CallDoes
    <3> QED
      BY <2>1, <3>1, <3>2
  <2>4. ~ Early(r)' /\ NoNewCall(r)
    BY <2>2, <2>3 DEF Early, ToRegister, InRegister, NoNewCall
  <2> QED
    BY <1>1, <2>2, <2>3, <2>4, MovesLasting
<1> QED
  BY <1>3, <1>4

(* Requests stay where they are; their calls go on, or end. *)
LEMMA CallsLasting ==
    ASSUME Typed, Who, Lasting,
           UNCHANGED <<backend, reg, legacy, endWritten, gone, creator, answered, req>>,
           NEW c \in Callers, OnlyCall(c), call'[c].op \notin {"register", "purge", "unlist"}
    PROVE  Lasting'
<1>1. \A r \in Requests : call'[r] = call[r] \/ call'[r].op # "register"
  BY CallerFacts DEF OnlyCall
<1>2. call'[Admin] = call[Admin] \/ call'[Admin].op \notin {"purge", "unlist"}
  BY CallerFacts DEF OnlyCall
<1> QED
  BY <1>1, <1>2, SameRequests, LastingKept

LEMMA HookLasting ==
    ASSUME Typed, Who, Lasting, NEW c \in Callers, NEW w \in Workers, HookRecords(c, w)
    PROVE  Lasting'
<1>1. /\ UNCHANGED <<backend, reg, legacy, endWritten, gone, creator, answered, req>>
      /\ Return(c) \/ Call(c, "terminate", call[c].s, Absent)
  BY DEF HookRecords
<1>2. OnlyCall(c) /\ call'[c].op \notin {"register", "purge", "unlist"}
  <2>1. CASE Return(c)
    BY <2>1, ReturnFacts
  <2>2. CASE Call(c, "terminate", call[c].s, Absent)
    <3>1. OnlyCall(c) /\ call'[c].op = "terminate"
      BY ONLY Typed, c \in Callers, <2>2, CallDoes
    <3> QED
      BY <3>1
  <2> QED
    BY <1>1, <2>1, <2>2
<1> QED
  BY <1>1, <1>2, CallsLasting

LEMMA DropsLasting ==
    ASSUME Typed, Who, Lasting, NEW w \in Workers, NEW s \in Sessions,
           IdlesOut(w, s) \/ ServerFails(w, s) \/ Cancels(w, s)
    PROVE  Lasting'
<1>1. /\ UNCHANGED <<backend, reg, legacy, endWritten, gone, creator, answered, req>>
      /\ UNCHANGED call \/ Call(<<w, s>>, "hook", s, Absent)
  BY DEF IdlesOut, ServerFails, Cancels, registry
<1>2. CASE UNCHANGED call
  BY <1>1, <1>2, SameRequests, LastingKept
<1>3. CASE Call(<<w, s>>, "hook", s, Absent)
  <2>1. <<w, s>> \in Callers
    BY CallerFacts
  <2>2. OnlyCall(<<w, s>>) /\ call'[<<w, s>>].op = "hook"
    BY ONLY Typed, <1>3, <2>1, CallDoes
  <2>3. call'[<<w, s>>].op \notin {"register", "purge", "unlist"}
    BY <2>2
  <2> QED
    BY <1>1, <2>1, <2>2, <2>3, CallsLasting
<1> QED
  BY <1>1, <1>2, <1>3

LEMMA PhaseLasting ==
    ASSUME Typed, Who, Lasting, NEW w \in Workers, Stops(w) \/ Starts(w) \/ Dies(w)
    PROVE  Lasting'
<1>1. UNCHANGED <<backend, reg, legacy, endWritten, gone, creator, answered>>
  BY DEF Stops, Starts, Dies, registry
<1>2. CASE Stops(w) \/ Starts(w)
  <2>1. UNCHANGED <<call, req>>
    BY <1>2 DEF Stops, Starts, registry
  <2> QED
    BY <1>1, <2>1, SameRequests, LastingKept
<1>3. CASE Dies(w)
  <2>1. ASSUME NEW r \in Requests PROVE NoNewRegister(r) /\ NoNewCall(r)
    <3>1. CASE req'[r] = Free /\ call'[r] = NoCall
      BY <3>1 DEF NoNewRegister, NoNewCall, Early, Opening, Busy, Free, NoCall
    <3>2. CASE req'[r] = req[r] /\ call'[r] = call[r]
      BY <1>1, <3>2 DEF NoNewRegister, NoNewCall, Early, Opening, Busy, ToRegister, InRegister
    <3> QED
      BY <1>3, <3>1, <3>2, DiesFacts
  <2>2. call'[Admin] = call[Admin]
    BY <1>3, DiesFacts
  <2> QED
    BY <1>1, <2>1, <2>2, LastingKept
<1> QED
  BY <1>2, <1>3

LEMMA OutsideLasting ==
    ASSUME Typed, Who, Lasting,
           \/ \E c \in Callers : CallFails(c)
           \/ \E s \in Sessions : OperatorTerminates(s)
    PROVE  Lasting'
<1>1. UNCHANGED <<backend, reg, legacy, endWritten, gone, creator, answered, req>>
  BY DEF CallFails, OperatorTerminates
<1>2. CASE \E c \in Callers : CallFails(c)
  <2>1. PICK c \in Callers : Return(c)
    BY <1>2 DEF CallFails
  <2>2. OnlyCall(c) /\ call'[c].op \notin {"register", "purge", "unlist"}
    BY <2>1, ReturnFacts
  <2> QED
    BY <1>1, <2>2, CallsLasting
<1>3. CASE \E s \in Sessions : OperatorTerminates(s)
  <2>1. PICK s \in Sessions : Call(Admin, "terminate", s, Absent)
    BY <1>3 DEF OperatorTerminates
  <2>2. OnlyCall(Admin) /\ call'[Admin].op = "terminate"
    BY ONLY Typed, <2>1, CallerFacts, CallDoes
  <2>3. call'[Admin].op \notin {"register", "purge", "unlist"}
    BY <2>2
  <2> QED
    BY <1>1, <2>2, <2>3, CallerFacts, CallsLasting
<1> QED
  BY <1>2, <1>3

LEMMA AgesLasting ==
    ASSUME Typed, Who, Lasting, Ages
    PROVE  Lasting'
<1>1. PICK s \in Sessions : reg[s].recent /\ Quiet(s) /\ reg' = [reg EXCEPT ![s].recent = FALSE]
  BY DEF Ages
<1>2. UNCHANGED <<backend, legacy, call, endWritten, gone, creator, answered, req>>
  BY DEF Ages
<1>3. /\ OnlyRow(s) /\ reg'[s].terminated = reg[s].terminated /\ reg'[s].exists = reg[s].exists
      /\ reg'[s].owner = reg[s].owner /\ reg'[s].handshake = reg[s].handshake
      /\ reg'[s].created = reg[s].created
  BY <1>1, RecentFacts DEF Typed, StoreTyped, RegTyped
<1>4. ~ Unregistered(s)
  <2>1. creator[s] # Absent
    BY <1>1, NoRowFacts DEF Who, RowWho
  <2>2. \A r \in Requests : Early(r) => req[r].s # s
    BY <1>1 DEF Quiet, Early, Opening, Busy
  <2> QED
    BY <2>1, <2>2 DEF Unregistered
<1>5. \A t \in Sessions : Unregistered(t)' => Unregistered(t)
  BY <1>2, SameRequests, UnregisteredShrinks
<1>6. \A t \in Sessions : Untouched(t)'
  BY <1>2, <1>3, <1>4, <1>5 DEF Lasting, Untouched, OnlyRow
<1>7. \A t \in Sessions : EndKept(t)'
  BY <1>2, <1>3 DEF Lasting, EndKept, OnlyRow
<1>8. ASSUME NEW r \in Requests PROVE Commands(r)'
  <2>1. Commands(r) /\ call'[r] = call[r]
    BY <1>2 DEF Lasting
  <2>2. call[r].op = "register" => call[r].s \in Sessions
    BY CallerFacts, CallKinds DEF Typed
  <2> QED
    BY <1>2, <1>3, <2>1, <2>2 DEF Commands, OnlyRow
<1> QED
  BY <1>2, <1>6, <1>7, <1>8 DEF Lasting

(* A statement or a round trip of a registry call. *)
LEMMA ServedLasting ==
    ASSUME Typed, Who, Lasting, NEW c \in Callers, call[c].op \in {"register", "touch", "terminate"}, Served(c),
           UNCHANGED manager
    PROVE  Lasting'
<1>0. PICK s \in Sessions : s = call[c].s
  BY CalledWho
<1>1. /\ OnlyRow(s) /\ OnlyCall(c) /\ UNCHANGED <<backend, legacy, gone>>
      /\ UNCHANGED <<phase, table, transport, req, creator, answered>>
  BY <1>0 DEF Served, manager
<1>2. /\ creator[s] # Absent
      /\ call[c].op = "register" => c \in Requests /\ call[c].who = creator[s] /\ Opening(c) /\ ~ ToRegister(c)
      /\ call[c].op = "touch" => s \in answered
      /\ call[c].op # "terminate" => c # Admin
      /\ req[c].s = s \/ c \notin Requests
  <2>1. creator[s] # Absent /\ (call[c].op = "register" => c \in Requests /\ call[c].who = creator[s])
    BY <1>0, CalledWho
  <2>2. CASE c \in Requests
    <3>1. Going(c) /\ RequestCall(c) /\ c # Admin
      BY <2>2, CallerFacts DEF Who, Going
    <3> QED
      BY <1>0, <2>1, <2>2, <3>1 DEF RequestCall, Opening, ToRegister
  <2>3. CASE c \notin Requests
    <3>1. call[c].op # "register"
      BY <2>1, <2>3
    <3>2. call[c].op # "touch"
      <4>1. CASE c = Admin
        BY <4>1 DEF Who, AdminCall
      <4>2. CASE \E w \in Workers, t \in Sessions : c = <<w, t>>
        <5>1. PICK w \in Workers, t \in Sessions : c = <<w, t>>
          BY <4>2
        <5>2. TaskCall(w, t)
          BY DEF Who
        <5> QED
          BY <5>1, <5>2 DEF TaskCall, Going
      <4> QED
        BY <2>3, <4>1, <4>2, CallerFacts
    <3> QED
      BY <2>1, <2>3, <3>1, <3>2
  <2> QED
    BY <2>2, <2>3
<1>3. \/ call'[c] = NoCall
      \/ call'[c].op = call[c].op /\ call'[c].s = s /\ call'[c].who = call[c].who /\ call'[c].step = call[c].step + 1
  <2>1. CASE SqlServed(c)
    BY <2>1 DEF SqlServed
  <2>2. CASE RdLooked(c)
    BY <1>0, <2>2 DEF RdLooked
  <2>3. CASE RdServed(c)
    BY <1>0, <2>3 DEF RdServed
  <2> QED
    BY <2>1, <2>2, <2>3 DEF Served
<1>4. \A q \in Requests : q # c => call'[q] = call[q]
  BY <1>1, CallerFacts DEF OnlyCall
<1>5. call[c].op = "register" => call[c].step \in 1..7
  BY CallKinds DEF Typed
<1>6. \A t \in Sessions : Unregistered(t)' => Unregistered(t)
  <2>1. ASSUME NEW q \in Requests, Early(q)' PROVE Early(q)
    <3>1. CASE q # c
      BY <1>1, <1>4, <2>1, <3>1 DEF Early, Opening, Busy, ToRegister, InRegister
    <3>2. CASE q = c
      <4>1. Opening(q) /\ (ToRegister(q) \/ InRegister(q)')
        BY <1>1, <2>1 DEF Early, Opening, Busy, ToRegister
      <4>2. InRegister(q)' => InRegister(q)
        BY <1>1, <1>3, <1>5, <3>2 DEF InRegister, NoCall
      <4> QED
        BY <4>1, <4>2 DEF Early
    <3> QED
      BY <3>1, <3>2
  <2> QED
    BY <1>1, <2>1 DEF Unregistered
<1>7. RegTyped /\ reg[s] \in Rows
  BY DEF Typed, StoreTyped, RegTyped
<1>8. /\ reg[s].exists \in BOOLEAN /\ reg[s].handshake \in BOOLEAN /\ reg[s].created \in BOOLEAN
      /\ reg[s].indexed \in BOOLEAN /\ reg[s].recent \in BOOLEAN
      /\ reg[s].terminated \in {Absent} \cup BOOLEAN
  BY <1>7, RowFields
<1>9. call[c].op = "register" => (Unregistered(s) <=> Early(c))
  <2> SUFFICES ASSUME call[c].op = "register" PROVE Unregistered(s) <=> Early(c)
    OBVIOUS
  <2>1. \A q \in Requests : Early(q) /\ req[q].s = s => q = c
    BY <1>2 DEF Who, Alone, Early
  <2> QED
    BY <1>2, <2>1 DEF Unregistered
<1>10. call[c].op = "register" => (Unregistered(s)' => InRegister(c)')
  <2> SUFFICES ASSUME call[c].op = "register", Unregistered(s)' PROVE InRegister(c)'
    OBVIOUS
  <2>1. PICK q \in Requests : Early(q)' /\ req[q].s = s
    BY <1>1, <1>2 DEF Unregistered
  <2>2. Opening(q) /\ (ToRegister(q) \/ InRegister(q)')
    BY <1>1, <2>1 DEF Early, Opening, Busy, ToRegister
  <2>3. q = c
    BY <1>2, <2>1, <2>2 DEF Who, Alone
  <2> QED
    BY <1>2, <2>2, <2>3
<1>11. Untouched(s)'
  <2> SUFFICES ASSUME Unregistered(s)'
               PROVE  /\ legacy'[s] = {} /\ s \notin answered' /\ s \notin gone'
                      /\ backend' = "redis" => ~ reg'[s].expires /\ (reg'[s].indexed => reg'[s].recent)
                      /\ call'[Admin].op = "purge" => s \notin call'[Admin].s
                      /\ s \in endWritten' => backend' = "redis" /\ reg'[s].terminated = TRUE
                      /\ backend' # "redis" => ~ reg'[s].exists
    BY DEF Untouched
  <2>1. Unregistered(s) /\ Untouched(s)
    BY <1>6 DEF Lasting
  <2>2. /\ legacy[s] = {} /\ s \notin answered /\ s \notin gone
        /\ backend = "redis" => ~ reg[s].expires /\ (reg[s].indexed => reg[s].recent)
        /\ call[Admin].op = "purge" => s \notin call[Admin].s
        /\ s \in endWritten => backend = "redis" /\ reg[s].terminated = TRUE
        /\ backend # "redis" => ~ reg[s].exists
    BY <2>1 DEF Untouched
  <2>3. call'[Admin].op = "purge" => s \notin call'[Admin].s
    <3>1. CASE c = Admin
      BY <1>2, <1>3, <3>1 DEF NoCall
    <3>2. CASE c # Admin
      BY <1>1, <2>2, <3>2, CallerFacts DEF OnlyCall
    <3> QED
      BY <3>1, <3>2
  <2>4. CASE call[c].op = "touch"
    BY <1>2, <2>2, <2>4
  <2>5. CASE call[c].op = "register"
    <3>1. InRegister(c)' /\ InRegister(c)
      BY <1>1, <1>2, <1>9, <1>10, <2>1, <2>5 DEF Early
    <3>2. call'[c].op = "register"
      BY <3>1 DEF InRegister
    <3>3. RdServed(c) /\ backend = "redis" /\ call[c].step # 7
      <4>1. call'[c] # NoCall
        BY <3>2 DEF NoCall
      <4>2. RdServed(c)
        BY <2>5, <4>1 DEF Served, SqlServed, RdLooked
      <4> QED
        BY <2>5, <4>1, <4>2 DEF RdServed, RegisterSteps
    <3>4. call'[c].step = call[c].step + 1
      BY <2>5, <3>3 DEF RdServed, RegisterSteps
    <3>5. call[c].step # 6
      BY <1>1, <3>1, <3>3, <3>4 DEF InRegister
    <3>6. /\ reg'[s].expires = reg[s].expires /\ reg'[s].indexed = reg[s].indexed /\ reg'[s].recent = reg[s].recent
          /\ endWritten' = endWritten
      BY <1>0, <1>8, <2>5, <3>3, <3>5 DEF RdServed, RegisterSteps
    <3>7. reg[s].terminated = TRUE => reg'[s].terminated = TRUE
      BY <1>0, <2>5, <3>3, RegistryAssumption DEF RdServed
    <3> QED
      BY <1>1, <2>2, <2>3, <3>3, <3>6, <3>7
  <2>6. CASE call[c].op = "terminate"
    <3>1. CASE SqlServed(c)
      BY <1>0, <1>1, <1>8, <2>2, <2>3, <2>6, <3>1 DEF SqlServed
    <3>2. CASE RdLooked(c)
      BY <1>1, <2>2, <2>3, <3>2 DEF RdLooked
    <3>3. CASE RdServed(c)
      BY <1>0, <1>1, <1>8, <2>2, <2>3, <2>6, <3>3 DEF RdServed, RegisterSteps
    <3> QED
      BY <3>1, <3>2, <3>3 DEF Served
  <2> QED
    BY <2>4, <2>5, <2>6
<1>12. EndKept(s)'
  <2> SUFFICES ASSUME s \in endWritten'
               PROVE  /\ legacy'[s] # {} => TRUE \in legacy'[s] \cup {reg'[s].terminated}
                      /\ legacy'[s] = {} => IF backend' = "redis" THEN reg'[s].terminated # FALSE
                                            ELSE reg'[s].exists => reg'[s].terminated = TRUE
    BY DEF EndKept
  <2>1. EndKept(s)
    BY DEF Lasting
  <2>2. CASE SqlServed(c)
    <3>1. legacy[s] = {} /\ backend # "redis"
      BY <2>2 DEF SqlServed, Initialized
    <3>2. call[c].op = "register" => ~ Early(c) \/ s \notin endWritten
      BY <1>9, <3>1 DEF Lasting, Untouched
    <3>3. call[c].op = "register" => Early(c)
      BY <1>2, <3>1 DEF Early, InRegister
    <3> QED
      BY <1>0, <1>1, <1>8, <2>1, <2>2, <3>1, <3>2, <3>3 DEF SqlServed, EndKept
  <2>3. CASE RdLooked(c)
    BY <1>1, <2>1, <2>3 DEF RdLooked, EndKept
  <2>4. CASE RdServed(c)
    <3>1. legacy[s] = {} /\ backend = "redis"
      BY <2>4 DEF RdServed, Who, RowWho
    <3>2. call[c].op = "register" /\ call[c].step = 2 /\ s \in endWritten => reg[s].terminated = TRUE
      <4>1. call[c].op = "register" /\ call[c].step = 2 => Unregistered(s)
        BY <1>2, <1>9, <3>1 DEF Early, InRegister
      <4> QED
        BY <4>1 DEF Lasting, Untouched
    <3> QED
      BY <1>0, <1>1, <1>8, <2>1, <2>4, <3>1, <3>2, RegistryAssumption DEF RdServed, EndKept
  <2> QED
    BY <2>2, <2>3, <2>4 DEF Served
<1>13. ASSUME NEW t \in Sessions, t # s PROVE Untouched(t)' /\ EndKept(t)'
  <2>1. /\ reg'[t] = reg[t] /\ (t \in endWritten' <=> t \in endWritten)
    BY <1>0, <1>1, <1>13 DEF OnlyRow, Served, SqlServed, RdLooked, RdServed
  <2>2. call'[Admin].op = "purge" => call'[Admin] = call[Admin]
    <3>1. CASE c = Admin
      BY <1>2, <1>3, <3>1 DEF NoCall
    <3>2. CASE c # Admin
      BY <1>1, <3>2, CallerFacts DEF OnlyCall
    <3> QED
      BY <3>1, <3>2
  <2>3. Untouched(t)'
    BY <1>1, <1>6, <2>1, <2>2 DEF Lasting, Untouched
  <2>4. EndKept(t)'
    BY <1>1, <2>1 DEF Lasting, EndKept
  <2> QED
    BY <2>3, <2>4
<1>14. /\ reg[s].terminated # Absent => reg'[s].terminated # Absent
       /\ reg[s].owner # Absent => reg'[s].owner # Absent
       /\ reg[s].handshake => reg'[s].handshake
       /\ backend = "redis" /\ reg[s].created => reg'[s].created
  BY <1>0, <1>1, <1>2, <1>8, RegistryAssumption DEF Served, SqlServed, RdLooked, RdServed
<1>15. \A t \in Sessions :
          /\ reg[t].terminated # Absent => reg'[t].terminated # Absent
          /\ reg[t].owner # Absent => reg'[t].owner # Absent
          /\ reg[t].handshake => reg'[t].handshake
          /\ backend = "redis" /\ reg[t].created => reg'[t].created
  BY <1>1, <1>14 DEF OnlyRow
<1>16. ASSUME NEW q \in Requests PROVE Commands(q)'
  <2>1. CASE q # c
    <3>1. call'[q] = call[q] /\ Commands(q) /\ (call[q].op = "register" => call[q].s \in Sessions)
      BY <1>4, <2>1, CallerFacts, CallKinds DEF Lasting, Typed
    <3> QED
      BY <1>1, <1>15, <3>1 DEF Commands
  <2>2. CASE q = c
    <3> SUFFICES ASSUME call'[c].op = "register", backend = "redis", s \notin gone
                 PROVE  /\ call'[c].step > 2 => reg'[s].terminated # Absent
                        /\ call'[c].step > 3 => reg'[s].owner # Absent
                        /\ call'[c].step > 4 => reg'[s].handshake
                        /\ call'[c].step > 5 => reg'[s].created
      BY <1>1, <1>3, <2>2 DEF Commands, NoCall
    <3>1. call[c].op = "register" /\ call'[c].step = call[c].step + 1
      BY <1>3 DEF NoCall
    <3>2. RdServed(c)
      BY <3>1 DEF Served, SqlServed, RdLooked
    <3>3. /\ call[c].step > 2 => reg[s].terminated # Absent
          /\ call[c].step > 3 => reg[s].owner # Absent
          /\ call[c].step > 4 => reg[s].handshake
          /\ call[c].step > 5 => reg[s].created
      BY <1>0, <2>2, <3>1 DEF Lasting, Commands
    <3>4. /\ call[c].step = 2 => reg'[s].terminated # Absent
          /\ call[c].step = 3 => reg'[s].owner # Absent
          /\ call[c].step = 4 => reg'[s].handshake
          /\ call[c].step = 5 => reg'[s].created
      BY <1>0, <1>2, <1>8, <3>1, <3>2, RegistryAssumption DEF RdServed
    <3> QED
      BY <1>5, <1>14, <3>1, <3>3, <3>4
  <2> QED
    BY <2>1, <2>2
<1>17. call'[Admin].op \in {"purge", "unlist"} => backend' = "redis"
  <2>1. CASE c = Admin
    BY <1>3, <2>1 DEF NoCall
  <2>2. CASE c # Admin
    BY <1>1, <2>2, CallerFacts DEF OnlyCall, Lasting
  <2> QED
    BY <2>1, <2>2
<1> QED
  BY <1>11, <1>12, <1>13, <1>16, <1>17 DEF Lasting

(* The registry rewrites rows on its own account, or for the command line. *)
LEMMA RewrittenLasting ==
    ASSUME Typed, Who, Lasting, UNCHANGED manager, UNCHANGED <<backend, endWritten>>,
           \A c \in Callers : c # Admin => call'[c] = call[c],
           \A s \in Sessions : (Unregistered(s) => Untouched(s)') /\ EndKept(s)',
           \A s \in Sessions : backend = "redis" /\ s \notin gone' =>
               /\ s \notin gone /\ reg'[s].terminated = reg[s].terminated /\ reg'[s].owner = reg[s].owner
               /\ reg'[s].handshake = reg[s].handshake /\ reg'[s].created = reg[s].created,
           call'[Admin].op \in {"purge", "unlist"} => backend = "redis"
    PROVE  Lasting'
<1>1. \A q \in Requests : call'[q] = call[q]
  BY CallerFacts
<1>2. \A t \in Sessions : Unregistered(t)' => Unregistered(t)
  BY <1>1, SameRequests, UnregisteredShrinks DEF manager
<1>3. \A t \in Sessions : Untouched(t)'
  <2> SUFFICES ASSUME NEW t \in Sessions, ~ Unregistered(t) PROVE Untouched(t)'
    OBVIOUS
  <2>1. ~ Unregistered(t)'
    BY <1>2
  <2> QED
    BY <2>1 DEF Untouched
<1>4. ASSUME NEW q \in Requests PROVE Commands(q)'
  <2>1. Commands(q) /\ call'[q] = call[q] /\ (call[q].op = "register" => call[q].s \in Sessions)
    BY <1>1, CallerFacts, CallKinds DEF Typed, Lasting
  <2> QED
    BY <2>1 DEF Commands
<1> QED
  BY <1>3, <1>4 DEF Lasting

LEMMA RegistryLasting ==
    ASSUME Typed, Who, Lasting, RegistryStep, UNCHANGED manager
    PROVE  Lasting'
<1>1. RegTyped /\ answered' = answered
  BY DEF Typed, StoreTyped, RegTyped, manager
<1>2. \A s \in Sessions : Untouched(s) /\ EndKept(s)
  BY DEF Lasting
<1>3. CASE \E c \in Callers : call[c].op \in {"register", "touch", "terminate"}
                              /\ (SqlCall(c) \/ RdExists(c) \/ RdWrite(c))
  BY <1>3, Serves, ServedLasting
<1>4. CASE MigrateNullTenants
  <2>1. /\ \A s \in Sessions : reg'[s] = IF legacy[s] = {} THEN reg[s] ELSE Merged(s)
        /\ (\A s \in Sessions : legacy'[s] = {}) /\ UNCHANGED <<backend, call, gone, endWritten>>
    BY <1>1, <1>4, MigrateFacts DEF MigrateNullTenants
  <2>2. backend # "redis"
    BY <1>4 DEF MigrateNullTenants, Who, RowWho
  <2>3. ASSUME NEW s \in Sessions, Unregistered(s) PROVE Untouched(s)'
    <3>1. legacy[s] = {} /\ reg'[s] = reg[s]
      BY <1>2, <2>1, <2>3 DEF Untouched
    <3> QED
      BY <1>1, <1>2, <2>1, <2>2, <2>3, <3>1 DEF Untouched
  <2>4. ASSUME NEW s \in Sessions PROVE EndKept(s)'
    <3>1. CASE legacy[s] = {}
      BY <1>2, <2>1, <2>2, <3>1 DEF EndKept
    <3>2. CASE legacy[s] # {}
      BY <1>1, <1>2, <2>1, <2>2, <3>2, MergedFacts DEF EndKept
    <3> QED
      BY <3>1, <3>2
  <2>5. call'[Admin].op \in {"purge", "unlist"} => backend = "redis"
    BY <2>1 DEF Lasting
  <2> QED
    BY <2>1, <2>2, <2>3, <2>4, <2>5, RewrittenLasting
<1>5. CASE SqlPurge
  <2>1. /\ backend # "redis" /\ UNCHANGED <<backend, legacy, call, endWritten>>
        /\ \A s \in Sessions : reg'[s] = IF s \in Old THEN NoRow ELSE reg[s]
        /\ gone' = gone \cup {s \in Old : reg[s].exists}
    BY <1>1, <1>5, PurgedFacts DEF SqlPurge, PgPurge, SqlitePurge
  <2>2. ASSUME NEW s \in Sessions, Unregistered(s) PROVE Untouched(s)'
    <3>1. ~ reg[s].exists /\ ~ reg'[s].exists
      BY <1>2, <2>1, <2>2, NoRowFacts DEF Untouched
    <3> QED
      BY <1>1, <1>2, <2>1, <2>2, <3>1 DEF Untouched
  <2>3. ASSUME NEW s \in Sessions PROVE EndKept(s)'
    <3>1. legacy[s] = {}
      BY <1>5 DEF SqlPurge, Initialized
    <3> QED
      BY <1>2, <2>1, <3>1, NoRowFacts DEF EndKept
  <2>4. call'[Admin].op \in {"purge", "unlist"} => backend = "redis"
    BY <2>1 DEF Lasting
  <2> QED
    BY <2>1, <2>2, <2>3, <2>4, RewrittenLasting
<1>6. CASE RdPurgeRead
  <2>1. /\ call' = [call EXCEPT ![Admin] = [op |-> "purge", s |-> RdOldMembers]]
        /\ backend = "redis" /\ UNCHANGED <<backend, reg, legacy, endWritten, gone>>
    BY <1>6 DEF RdPurgeRead
  <2>2. OnlyCall(Admin) /\ call'[Admin] = [op |-> "purge", s |-> RdOldMembers]
    BY <2>1, CallerFacts DEF Typed, CallsTyped, OnlyCall
  <2>3. ASSUME NEW s \in Sessions, Unregistered(s) PROVE Untouched(s)'
    <3>1. s \notin RdOldMembers
      BY <1>2, <2>1, <2>3 DEF Untouched, RdOldMembers
    <3> QED
      BY <1>1, <1>2, <2>1, <2>2, <2>3, <3>1 DEF Untouched
  <2>4. \A s \in Sessions : EndKept(s)'
    BY <1>2, <2>1 DEF EndKept
  <2> QED
    BY <2>1, <2>2, <2>3, <2>4, RewrittenLasting DEF OnlyCall
<1>7. CASE RdPurgeDelete
  <2>1. /\ \A s \in Sessions : reg'[s] = IF s \in call[Admin].s THEN NoRow ELSE reg[s]
        /\ Return(Admin) /\ UNCHANGED <<backend, legacy, endWritten>> /\ gone' = gone \cup call[Admin].s
    BY <1>1, <1>7, PurgedFacts DEF RdPurgeDelete
  <2>2. OnlyCall(Admin) /\ call'[Admin] = NoCall /\ backend = "redis"
    BY <1>7, <2>1, ReturnFacts, CallerFacts DEF RdPurgeDelete, Lasting
  <2>3. ASSUME NEW s \in Sessions, Unregistered(s) PROVE Untouched(s)'
    <3>1. s \notin call[Admin].s
      BY <1>2, <1>7, <2>3 DEF Untouched, RdPurgeDelete
    <3> QED
      BY <1>1, <1>2, <2>1, <2>2, <2>3, <3>1 DEF Untouched, NoCall
  <2>4. \A s \in Sessions : EndKept(s)'
    BY <1>2, <2>1, <2>2, NoRowFacts, RegistryAssumption DEF EndKept, Who, RowWho
  <2>5. call'[Admin].op \in {"purge", "unlist"} => backend = "redis"
    BY <2>2
  <2> QED
    BY <2>1, <2>2, <2>3, <2>4, <2>5, RewrittenLasting DEF OnlyCall
<1>8. CASE RdListRead
  <2>1. PICK s \in Sessions : call' = [call EXCEPT ![Admin] = [op |-> "unlist", s |-> s]]
    BY <1>8 DEF RdListRead
  <2>2. backend = "redis" /\ UNCHANGED <<backend, reg, legacy, endWritten, gone>>
    BY <1>8 DEF RdListRead
  <2>3. OnlyCall(Admin) /\ call'[Admin].op = "unlist"
    BY <2>1, CallerFacts DEF Typed, CallsTyped, OnlyCall
  <2>4. \A t \in Sessions : (Unregistered(t) => Untouched(t)') /\ EndKept(t)'
    BY <1>1, <1>2, <2>2, <2>3 DEF Untouched, EndKept
  <2> QED
    BY <2>2, <2>3, <2>4, RewrittenLasting DEF OnlyCall
<1>9. CASE RdListForgets
  <2>1. PICK s \in Sessions : /\ reg' = [reg EXCEPT ![s].indexed = FALSE, ![s].recent = FALSE]
                              /\ Return(Admin) /\ UNCHANGED <<backend, legacy, endWritten, gone>>
    BY <1>9, AdminKinds DEF RdListForgets, Typed
  <2>2. OnlyCall(Admin) /\ call'[Admin] = NoCall /\ backend = "redis"
    BY <1>9, <2>1, ReturnFacts, CallerFacts DEF RdListForgets, Lasting
  <2>3. /\ OnlyRow(s)
        /\ ~ reg'[s].recent /\ ~ reg'[s].indexed /\ reg'[s].exists = reg[s].exists
        /\ reg'[s].owner = reg[s].owner /\ reg'[s].terminated = reg[s].terminated
        /\ reg'[s].handshake = reg[s].handshake /\ reg'[s].created = reg[s].created
        /\ reg'[s].expires = reg[s].expires
    BY ONLY <1>1, <2>1, ForgetsFacts
  <2>4. ASSUME NEW t \in Sessions, Unregistered(t) PROVE Untouched(t)'
    <3>1. /\ reg'[t].expires = reg[t].expires /\ reg'[t].terminated = reg[t].terminated
          /\ reg'[t].indexed => reg'[t] = reg[t]
          /\ call'[Admin].op # "purge"
      BY <2>2, <2>3 DEF OnlyRow, NoCall
    <3> QED
      BY <1>1, <1>2, <2>1, <2>2, <2>4, <3>1 DEF Untouched
  <2>5. \A t \in Sessions : EndKept(t)'
    BY <1>2, <2>1, <2>3 DEF EndKept, OnlyRow
  <2>6. call'[Admin].op \in {"purge", "unlist"} => backend = "redis"
    BY <2>2
  <2> QED
    BY <2>1, <2>2, <2>3, <2>4, <2>5, <2>6, RewrittenLasting DEF OnlyCall, OnlyRow
<1>10. CASE Expire
  <2>1. PICK s \in Sessions : /\ reg[s].expires /\ gone' = gone \cup {s}
                              /\ reg' = [reg EXCEPT ![s] = [NoRow EXCEPT !.indexed = reg[s].indexed]]
    BY <1>10 DEF Expire
  <2>2. backend = "redis" /\ UNCHANGED <<backend, legacy, call, endWritten>>
    BY <1>10 DEF Expire
  <2>3. OnlyRow(s) /\ reg'[s].terminated = Absent
    BY <1>1, <2>1, ExpireFacts
  <2>4. ~ Unregistered(s)
    BY <1>2, <2>1, <2>2 DEF Untouched
  <2>5. \A t \in Sessions : Unregistered(t) => Untouched(t)'
    BY <1>1, <1>2, <2>1, <2>2, <2>3, <2>4 DEF Untouched, OnlyRow
  <2>6. legacy[s] = {}
    BY <2>2 DEF Who, RowWho
  <2>7. \A t \in Sessions : EndKept(t)'
    BY <1>2, <2>2, <2>3, <2>6, RegistryAssumption DEF EndKept, OnlyRow
  <2> QED
    BY <2>1, <2>2, <2>3, <2>5, <2>7, RewrittenLasting DEF OnlyRow
<1> QED
  BY <1>3, <1>4, <1>5, <1>6, <1>7, <1>8, <1>9, <1>10 DEF RegistryStep

LEMMA LastingInit == Init => Lasting
<1> SUFFICES ASSUME Init PROVE Lasting
  OBVIOUS
<1>1. /\ \A r \in Requests : req[r] = Free
      /\ \A c \in Callers : call[c] = NoCall
      /\ gone = {}
      /\ answered = {s \in Sessions : legacy[s] # {}}
      /\ endWritten = {s \in Sessions : TRUE \in legacy[s] \cup {reg[s].terminated}}
      /\ \A s \in Sessions : reg[s].exists => legacy[s] # {}
      /\ creator = [s \in Sessions |-> IF legacy[s] # {} THEN Nobody ELSE Absent]
  BY DEF Init
<1>2. call[Admin].op = "none" /\ \A r \in Requests : call[r].op = "none"
  BY <1>1, CallerFacts DEF NoCall
<1>3. ASSUME NEW s \in Sessions, legacy[s] = {} PROVE reg[s] = NoRow
  <2>1. reg[s] = NoRow \/ \E b \in BOOLEAN : reg[s] = [FreshRow(Nobody) EXCEPT !.terminated = b]
    BY DEF Init
  <2>2. (\E b \in BOOLEAN : reg[s] = [FreshRow(Nobody) EXCEPT !.terminated = b]) => reg[s].exists
    BY DEF FreshRow, NoRow
  <2> QED
    BY <1>1, <1>3, <2>1, <2>2
<1>4. ASSUME NEW s \in Sessions PROVE EndKept(s)
  <2>1. CASE legacy[s] # {}
    BY <1>1, <2>1 DEF EndKept
  <2>2. CASE legacy[s] = {}
    <3>1. s \notin endWritten
      BY <1>1, <1>3, <2>2, NoRowFacts, RegistryAssumption
    <3> QED
      BY <3>1 DEF EndKept
  <2> QED
    BY <2>1, <2>2
<1>5. ASSUME NEW s \in Sessions PROVE Untouched(s)
  <2> SUFFICES ASSUME Unregistered(s) PROVE Untouched(s)
    BY DEF Untouched
  <2>1. creator[s] = Absent
    BY <1>1 DEF Unregistered, Early, Opening, Busy, Free
  <2>2. legacy[s] = {} /\ reg[s] = NoRow
    BY <1>1, <1>3, <2>1, RegistryAssumption
  <2>3. s \notin endWritten /\ s \notin answered /\ s \notin gone
    BY <1>1, <2>2, NoRowFacts, RegistryAssumption
  <2> QED
    BY <1>2, <2>2, <2>3, NoRowFacts DEF Untouched
<1>6. \A r \in Requests : Commands(r)
  BY <1>2 DEF Commands
<1> QED
  BY <1>2, <1>4, <1>5, <1>6 DEF Lasting

LEMMA LastingStep == Typed /\ Who /\ Lasting /\ [Next]_vars => Lasting'
<1> SUFFICES ASSUME Typed, Who, Lasting, [Next]_vars PROVE Lasting'
  OBVIOUS
<1>1. CASE UNCHANGED vars
  <2>1. UNCHANGED <<backend, reg, legacy, endWritten, gone, creator, answered, req, call>>
    BY <1>1 DEF vars, registry, manager
  <2> QED
    BY <2>1, SameRequests, LastingKept
<1>2. ASSUME NEW r \in Requests, RequestStep(r) PROVE Lasting'
  <2>1. CASE \E w \in Workers, s \in Sessions, p \in Principals :
               Opens(r, w, s, p) \/ \E k \in {"use", "delete"} : Arrives(r, w, s, p, k)
    BY <2>1, OpensLasting, UsesLasting
  <2>2. CASE req[r].pc # "free" /\ HookRecords(r, req[r].w)
    BY <2>2, RequestParts, CallerFacts, HookLasting DEF Busy
  <2> QED
    BY <1>2, <2>1, <2>2, OpeningLasting, AnswersLasting, UsesLasting, ReconcileLasting DEF RequestStep
<1>3. ASSUME NEW w \in Workers, WorkerStep(w) PROVE Lasting'
  <2>1. CASE \E s \in Sessions : HookRecords(<<w, s>>, w)
    BY <2>1, HookLasting, CallerFacts
  <2> QED
    BY <1>3, <2>1, DropsLasting, PhaseLasting DEF WorkerStep
<1> QED
  BY <1>1, <1>2, <1>3, OutsideLasting, AgesLasting, RegistryLasting DEF Next

LEMMA LastingAlways == Spec => [](Typed /\ Who /\ Lasting)
BY TypedInit, TypedStep, WhoInit, WhoStep, LastingInit, LastingStep, PTL DEF Spec

(* A termination the registry has written is never undone: not by the      *)
(* opener's register running late, nor by a write that rebuilds a fragment *)
(* of a record that is gone, nor by the migration (sessions.py:249, 274,   *)
(* 538).                                                                   *)
THEOREM EndsLast == Spec => []NeverRevived
<1>1. ASSUME Typed, Lasting PROVE NeverRevived
  <2> SUFFICES ASSUME NEW s \in endWritten, Initialized, Found(s) PROVE reg[s].terminated = TRUE
    BY DEF NeverRevived, Adoptable
  <2>1. s \in Sessions /\ legacy[s] = {} /\ EndKept(s)
    BY <1>1 DEF Typed, HistoryTyped, Lasting, Initialized
  <2>2. reg[s].terminated \in {Absent} \cup BOOLEAN
    BY <1>1, <2>1, RowFields DEF Typed, StoreTyped
  <2> QED
    BY <2>1, <2>2 DEF EndKept, Found, Whole
<1> QED
  BY <1>1, LastingAlways, PTL

-------------------------------------------------------------------------------
(* What a worker adopts: in Redis only a record with the client's          *)
(* handshake, for the register writes it before the fields that make the   *)
(* record whole; in SQL one without it only if an older release wrote the  *)
(* record, which no opener of the session registers any more.              *)

HalfWritten(s) == backend # "redis" /\ s \in answered /\ ~ (reg[s].exists /\ reg[s].handshake)
Handshakes ==
    /\ \A w \in Workers, s \in Sessions :
          table[w][s] # "none" /\ ~ transport[w][s].initialized => HalfWritten(s)
    /\ \A r \in Requests : req[r].pc = "locking" /\ ~ req[r].handshake => HalfWritten(req[r].s)
    /\ backend = "redis" => \A s \in Sessions : reg[s].created => reg[s].handshake

(* The tables of a step that starts no transport without a handshake. *)
EntriesKeep == \A w \in Workers, s \in Sessions :
    table'[w][s] # "none" =>
        \/ table[w][s] # "none" /\ transport'[w][s].initialized = transport[w][s].initialized
        \/ transport'[w][s].initialized
        \/ HalfWritten(s)'
NoNewLock(r) == req'[r].pc = "locking" =>
    \/ req[r].pc = "locking" /\ req'[r].s = req[r].s /\ req'[r].handshake = req[r].handshake
    \/ req'[r].handshake
    \/ HalfWritten(req[r].s)'
RowsKeepHalf == \A s \in Sessions :
    /\ legacy[s] = {} /\ HalfWritten(s) => HalfWritten(s)'
    /\ backend = "redis" /\ reg'[s].created => reg'[s].handshake

LEMMA HandshakesKept ==
    ASSUME Typed, Who, Handshakes, UNCHANGED backend, EntriesKeep, RowsKeepHalf,
           \A r \in Requests : NoNewLock(r)
    PROVE  Handshakes'
<1>1. ASSUME NEW w \in Workers, NEW s \in Sessions, table'[w][s] # "none", ~ transport'[w][s].initialized
      PROVE  HalfWritten(s)'
  <2>1. CASE table[w][s] # "none" /\ ~ transport[w][s].initialized
    <3>1. HalfWritten(s) /\ legacy[s] = {}
      BY <2>1 DEF Handshakes, Who, EntryWho
    <3> QED
      BY <3>1 DEF RowsKeepHalf
  <2> QED
    BY <1>1, <2>1 DEF EntriesKeep
<1>2. ASSUME NEW r \in Requests, req'[r].pc = "locking", ~ req'[r].handshake
      PROVE  HalfWritten(req[r].s)'
  <2>1. CASE req[r].pc = "locking" /\ req'[r].s = req[r].s /\ req'[r].handshake = req[r].handshake
    <3>1. Busy(r)
      BY <2>1 DEF Busy
    <3>2. HalfWritten(req[r].s) /\ legacy[req[r].s] = {} /\ req[r].s \in Sessions
      BY <1>2, <2>1, <3>1, RequestParts DEF Handshakes, RequestWho
    <3>3. PICK s \in Sessions : s = req[r].s
      BY <3>2
    <3>4. HalfWritten(s)' /\ req'[r].s = s
      BY <2>1, <3>2, <3>3 DEF RowsKeepHalf
    <3> QED
      BY <3>4
  <2> QED
    BY <1>2, <2>1 DEF NoNewLock
<1>3. backend' = "redis" => \A s \in Sessions : reg'[s].created => reg'[s].handshake
  BY DEF RowsKeepHalf
<1>4. \A r \in Requests : (req[r].pc = "locking" /\ ~ req[r].handshake => HalfWritten(req[r].s))'
  BY <1>2
<1>5. \A w \in Workers, s \in Sessions :
         (table[w][s] # "none" /\ ~ transport[w][s].initialized => HalfWritten(s))'
  BY <1>1
<1> QED
  BY <1>3, <1>4, <1>5 DEF Handshakes

LEMMA HandshakesSame ==
    /\ UNCHANGED <<table, transport>> => EntriesKeep
    /\ UNCHANGED req => \A r \in Requests : NoNewLock(r)
    /\ Handshakes /\ UNCHANGED <<backend, reg>> /\ answered \subseteq answered' => RowsKeepHalf
<1>1. UNCHANGED <<table, transport>> => EntriesKeep
  BY DEF EntriesKeep
<1>2. UNCHANGED req => \A r \in Requests : NoNewLock(r)
  BY DEF NoNewLock
<1>3. Handshakes /\ UNCHANGED <<backend, reg>> /\ answered \subseteq answered' => RowsKeepHalf
  BY DEF Handshakes, RowsKeepHalf, HalfWritten
<1> QED
  BY <1>1, <1>2, <1>3

LEMMA NoLock ==
    ASSUME NEW r \in Requests, OnlyRequest(r), req'[r].pc # "locking" \/ NoNewLock(r)
    PROVE  \A q \in Requests : NoNewLock(q)
BY DEF OnlyRequest, NoNewLock

LEMMA MovesNoLock ==
    ASSUME Typed, NEW r \in Requests, Busy(r), Ends(r) \/ \E pc \in PCs \ {"locking"} : At(r, pc)
    PROVE  \A q \in Requests : NoNewLock(q)
<1>1. CASE Ends(r)
  <2>1. OnlyRequest(r) /\ req'[r] = Free
    BY <1>1, EndsFacts
  <2> QED
    BY <2>1, NoLock DEF Free
<1>2. CASE \E pc \in PCs \ {"locking"} : At(r, pc)
  <2>1. PICK pc \in PCs \ {"locking"} : At(r, pc)
    BY <1>2
  <2>2. OnlyRequest(r) /\ req'[r].pc = pc
    BY <2>1, AtFacts
  <2> QED
    BY <2>1, <2>2, NoLock
<1> QED
  BY <1>1, <1>2

LEMMA PopKeeps ==
    ASSUME Typed, NEW w \in Workers, NEW s \in Sessions, Pop(w, s) \/ ForgetEnded(w, s)
    PROVE  EntriesKeep
<1>1. CASE Pop(w, s)
  BY <1>1, PopFacts DEF EntriesKeep, OnlyEntry
<1>2. CASE UNCHANGED <<table, transport>>
  BY <1>2, HandshakesSame
<1> QED
  BY <1>1, <1>2 DEF ForgetEnded, Keep

LEMMA PutKeeps ==
    ASSUME Typed, NEW w \in Workers, NEW s \in Sessions, NEW tr \in Transports, Put(w, s, "live", tr),
           tr.initialized \/ HalfWritten(s)'
    PROVE  EntriesKeep
<1>1. OnlyEntry(w, s) /\ table'[w][s] = "live" /\ transport'[w][s] = tr
  BY PutFacts
<1> QED
  BY <1>1 DEF EntriesKeep, OnlyEntry

(* A request opens a session, or is let into one. *)
LEMMA RequestHandshakes ==
    ASSUME Typed, Who, Handshakes, NEW r \in Requests, RequestStep(r)
    PROVE  Handshakes'
<1>1. UNCHANGED <<backend, reg>> /\ answered \subseteq answered'
  BY ZenonT(60) DEF RequestStep, Opens, Arrives, ResponseStarts, Answers, Opened, OpeningFails, LooksUp, LookupFails, Adopts,
         Touched, Handled, Deletes, Deleted, ReconcileCreated, ReconcileVanished, ReconcileUsed, Reconciled,
         HookRecords, registry
<1>2. RowsKeepHalf
  BY <1>1, HandshakesSame
<1>3. ASSUME EntriesKeep, \A q \in Requests : NoNewLock(q) PROVE Handshakes'
  BY <1>1, <1>2, <1>3, HandshakesKept
<1>4. ASSUME NEW w \in Workers, NEW s \in Sessions, NEW p \in Principals, Opens(r, w, s, p) PROVE Handshakes'
  <2> DEFINE tr == [NoTransport EXCEPT !.owner = p, !.initialized = TRUE]
  <2>1. Put(w, s, "live", tr) /\ tr \in Transports /\ tr.initialized
    BY <1>4 DEF Opens, NoTransport, Transports
  <2> HIDE DEF tr
  <2>2. OnlyRequest(r) /\ req'[r].pc = "opening"
    BY <1>4 DEF Opens, OnlyRequest, Typed, RequestsTyped
  <2> QED
    BY <1>3, <2>1, <2>2, PutKeeps, NoLock
<1>5. ASSUME NEW w \in Workers, NEW s \in Sessions, NEW p \in Principals, NEW k \in {"use", "delete"},
             Arrives(r, w, s, p, k)
      PROVE  Handshakes'
  <2> DEFINE o == [pc |-> "lookup", w |-> w, s |-> s, who |-> p, kind |-> k, via |-> "adopt", known |-> FALSE,
                   registered |-> FALSE, refused |-> FALSE, handshake |-> FALSE]
  <2>1. CASE req' = [req EXCEPT ![r] = o]
    <3>1. OnlyRequest(r) /\ req'[r].pc = "lookup"
      BY <2>1 DEF Typed, RequestsTyped, OnlyRequest
    <3> QED
      BY <1>3, <1>5, <3>1, HandshakesSame, NoLock DEF Arrives
  <2>2. CASE SdkTakes(r, w, s, p, k)
    <3>1. OnlyRequest(r) /\ req'[r].pc # "locking"
      BY <2>2, SdkFacts
    <3> QED
      BY <1>3, <1>5, <3>1, HandshakesSame, NoLock DEF Arrives
  <2> QED
    BY <1>5, <2>1, <2>2 DEF Arrives
<1>6. CASE LooksUp(r) \/ LookupFails(r)
  <2> DEFINE w == req[r].w  s == req[r].s  p == req[r].who  k == req[r].kind
  <2>1. Busy(r) /\ req[r].pc = "lookup" /\ UNCHANGED <<table, transport, answered>>
    BY <1>6 DEF LooksUp, LookupFails, Busy
  <2>2. w \in Workers /\ s \in Sessions /\ p \in Principals /\ k \in {"use", "delete"} /\ RequestWho(r) /\ req[r] \in Kept
    BY <2>1, RequestParts DEF RequestWho
  <2>3. CASE SdkTakes(r, w, s, p, k)
    <3> HIDE DEF w, s, p, k
    <3>1. OnlyRequest(r) /\ req'[r].pc # "locking"
      BY <2>2, <2>3, SdkFacts
    <3> QED
      BY <1>3, <2>1, <3>1, HandshakesSame, NoLock
  <2>4. CASE /\ Adoptable(s) /\ OwnerMatches(OwnerOf(s), p)
             /\ req' = [req EXCEPT ![r].pc = "locking", ![r].handshake = reg[s].handshake]
    <3>1. OnlyRequest(r) /\ req'[r].handshake = reg[s].handshake /\ req'[r].s = s
      BY <2>2, <2>4 DEF Typed, RequestsTyped, OnlyRequest, Kept
    <3>2. reg[s].owner = creator[s] /\ reg[s].owner # Absent
      BY <2>2, <2>4 DEF Who, RowWho, Adoptable, Found, Whole
    <3>3. s \in answered
      BY <2>1, <2>2, <2>4, <3>2 DEF OwnerMatches, OwnerOf, RequestWho
    <3>4. reg[s].handshake \/ HalfWritten(s)
      BY <2>2, <2>4, <3>3 DEF Handshakes, HalfWritten, Adoptable, Found, Whole
    <3>5. HalfWritten(s) => HalfWritten(req[r].s)'
      <4>1. PICK t \in Sessions : t = s
        BY <2>2
      <4>2. req'[r].s = t /\ (HalfWritten(t) => HalfWritten(t)')
        BY <1>1, <2>1, <3>1, <4>1 DEF HalfWritten
      <4> QED
        BY <3>1, <4>1, <4>2
    <3>6. NoNewLock(r)
      BY <3>1, <3>4, <3>5 DEF NoNewLock
    <3> QED
      BY <1>3, <2>1, <3>1, <3>6, HandshakesSame, NoLock
  <2> QED
    BY <1>6, <2>3, <2>4 DEF LooksUp, LookupFails
<1>7. CASE Adopts(r)
  <2> DEFINE w == req[r].w
  <2>0. PICK s \in Sessions : s = req[r].s
    BY <1>7, RequestParts DEF Adopts, Busy
  <2>1. Busy(r) /\ req[r].pc = "locking" /\ w \in Workers /\ req[r] \in Kept
    BY <1>7, RequestParts DEF Adopts, Busy
  <2>2. \A q \in Requests : NoNewLock(q)
    BY <1>7, <2>1, MovesNoLock DEF Adopts, PCs
  <2>3. \/ UNCHANGED <<table, transport>>
        \/ Put(w, s, "live", Adopted(req[r].who, req[r].handshake))
    BY <1>7, <2>0 DEF Adopts, Keep
  <2> DEFINE tr == Adopted(req[r].who, req[r].handshake)
  <2>4. tr \in Transports /\ tr.initialized = req[r].handshake
    BY <2>1 DEF Adopted, Transports, Kept
  <2>5. ~ req[r].handshake => HalfWritten(s)
    BY <2>0, <2>1 DEF Handshakes
  <2>6. HalfWritten(s) => HalfWritten(s)'
    BY <1>1 DEF HalfWritten
  <2>7. Put(w, s, "live", tr) => EntriesKeep
    <3> HIDE DEF tr, w
    <3> QED
      BY <2>1, <2>4, <2>5, <2>6, PutKeeps
  <2> QED
    BY <1>3, <2>2, <2>3, <2>7, HandshakesSame
<1>8. CASE \/ ResponseStarts(r) \/ Answers(r) \/ Opened(r) \/ OpeningFails(r) \/ Touched(r)
           \/ Handled(r) \/ Deletes(r) \/ Deleted(r)
           \/ ReconcileCreated(r) \/ ReconcileVanished(r) \/ ReconcileUsed(r) \/ Reconciled(r)
  <2> DEFINE w == req[r].w  s == req[r].s
  <2>1. Busy(r)
    BY <1>8 DEF Busy, ResponseStarts, Answers, Opened, OpeningFails, Touched, Handled, Deletes, Deleted,
                ReconcileCreated, ReconcileVanished, ReconcileUsed, Reconciled
  <2>2. w \in Workers /\ s \in Sessions /\ req[r] \in Kept
    BY <2>1, RequestParts
  <2>3. \A q \in Requests : NoNewLock(q)
    <3>1. CASE ResponseStarts(r)
      <4>1. req' = [req EXCEPT ![r].pc = "recording", ![r].registered = TRUE]
        BY <3>1 DEF ResponseStarts
      <4>2. OnlyRequest(r) /\ req'[r].pc = "recording"
        BY <2>2, <4>1 DEF Typed, RequestsTyped, OnlyRequest, Kept
      <4> QED
        BY <4>2, NoLock
    <3>2. CASE ~ ResponseStarts(r)
      BY <1>8, <2>1, <3>2, MovesNoLock
         DEF Answers, Opened, OpeningFails, Touched, Handled, Deletes, Deleted, Leaves,
             ReconcileCreated, ReconcileVanished, ReconcileUsed, Reconciled, PCs
    <3> QED
      BY <3>1, <3>2
  <2>4. EntriesKeep
    <3>1. \/ UNCHANGED <<table, transport>> \/ Pop(w, s) \/ ForgetEnded(w, s)
          \/ table' = [table EXCEPT ![w][s] = "ended"] /\ transport' = transport /\ table[w][s] = "live"
          \/ table' = table /\ transport' = [transport EXCEPT ![w][s].hooked = TRUE]
      BY <1>8 DEF ResponseStarts, Answers, Opened, OpeningFails, Touched, Handled, Deletes, Deleted, Leaves,
                  ReconcileCreated, ReconcileVanished, ReconcileUsed, Reconciled, Keep
    <3>2. CASE table' = [table EXCEPT ![w][s] = "ended"] /\ transport' = transport /\ table[w][s] = "live"
      BY <2>2, <3>2 DEF EntriesKeep, Typed, TablesTyped
    <3>3. CASE table' = table /\ transport' = [transport EXCEPT ![w][s].hooked = TRUE]
      <4>1. transport \in [Workers -> [Sessions -> Transports]] /\ transport[w][s] \in Transports
        BY <2>2 DEF Typed, TablesTyped
      <4> DEFINE tr == [transport[w][s] EXCEPT !.hooked = TRUE]
      <4>2. tr.initialized = transport[w][s].initialized
        BY <4>1 DEF Transports
      <4>3. transport' = [transport EXCEPT ![w] = [transport[w] EXCEPT ![s] = tr]]
        BY <3>3
      <4> HIDE DEF tr, w, s
      <4> QED
        BY <2>2, <3>3, <4>1, <4>2, <4>3 DEF EntriesKeep
    <3> HIDE DEF w, s
    <3> QED
      BY <2>2, <3>1, <3>2, <3>3, PopKeeps, HandshakesSame
  <2> QED
    BY <1>3, <2>3, <2>4
<1>9. CASE req[r].pc # "free" /\ HookRecords(r, req[r].w)
  BY <1>3, <1>9, HandshakesSame DEF HookRecords
<1> QED
  BY <1>4, <1>5, <1>6, <1>7, <1>8, <1>9 DEF RequestStep

LEMMA OthersHandshakes ==
    ASSUME Typed, Who, Handshakes,
           \/ \E w \in Workers : WorkerStep(w)
           \/ \E c \in Callers : CallFails(c)
           \/ \E s \in Sessions : OperatorTerminates(s)
           \/ Ages
    PROVE  Handshakes'
<1>1. ASSUME NEW w \in Workers, NEW s \in Sessions,
             IdlesOut(w, s) \/ ServerFails(w, s) \/ Cancels(w, s)
      PROVE  Handshakes'
  <2>1. Pop(w, s) /\ UNCHANGED <<backend, reg, answered, req>>
    BY <1>1 DEF IdlesOut, ServerFails, Cancels, registry
  <2> QED
    BY <2>1, PopKeeps, HandshakesSame, HandshakesKept
<1>2. ASSUME NEW w \in Workers, Dies(w) PROVE Handshakes'
  <2>1. UNCHANGED <<backend, reg, answered>>
    BY <1>2 DEF Dies
  <2>2. \A r \in Requests : NoNewLock(r)
    BY <1>2, DiesFacts DEF NoNewLock, Free
  <2>3. EntriesKeep
    BY <1>2, DiesFacts DEF EntriesKeep
  <2> QED
    BY <2>1, <2>2, <2>3, HandshakesSame, HandshakesKept
<1>3. CASE UNCHANGED <<backend, reg, answered, req, table, transport>>
  BY <1>3, HandshakesSame, HandshakesKept
<1>4. ASSUME NEW c, NEW w \in Workers, HookRecords(c, w) \/ Stops(w) \/ Starts(w) PROVE Handshakes'
  BY <1>3, <1>4 DEF HookRecords, Stops, Starts, registry
<1>5. CASE (\E c \in Callers : CallFails(c)) \/ (\E s \in Sessions : OperatorTerminates(s))
  BY <1>3, <1>5 DEF CallFails, OperatorTerminates
<1>6. CASE Ages
  <2>1. UNCHANGED <<backend, answered, req, table, transport>>
    BY <1>6 DEF Ages
  <2>2. PICK s \in Sessions : reg' = [reg EXCEPT ![s].recent = FALSE]
    BY <1>6 DEF Ages
  <2>3. /\ OnlyRow(s) /\ reg'[s].exists = reg[s].exists
        /\ reg'[s].handshake = reg[s].handshake /\ reg'[s].created = reg[s].created
    BY <2>2, RecentFacts DEF Typed, StoreTyped, RegTyped
  <2>4. RowsKeepHalf
    BY <2>1, <2>3 DEF RowsKeepHalf, HalfWritten, Handshakes, OnlyRow
  <2> QED
    BY <2>1, <2>4, HandshakesSame, HandshakesKept
<1>7. ASSUME NEW w \in Workers, WorkerStep(w) PROVE Handshakes'
  BY <1>1, <1>2, <1>4, <1>7 DEF WorkerStep
<1> QED
  BY <1>5, <1>6, <1>7

LEMMA RegistryHandshakes ==
    ASSUME Typed, Who, Lasting, Handshakes, RegistryStep, UNCHANGED manager
    PROVE  Handshakes'
<1>1. UNCHANGED <<answered, req, table, transport>> /\ RegTyped
  BY DEF manager, Typed, StoreTyped, RegTyped
<1>2. ASSUME RowsKeepHalf, UNCHANGED backend PROVE Handshakes'
  BY <1>1, <1>2, HandshakesSame, HandshakesKept
<1>3. ASSUME UNCHANGED backend,
             \A s \in Sessions : \/ ~ reg'[s].exists /\ ~ reg'[s].created
                                 \/ reg'[s] = reg[s] \/ (legacy[s] # {} /\ backend # "redis")
      PROVE  Handshakes'
  <2>1. RowsKeepHalf
    BY <1>1, <1>3 DEF RowsKeepHalf, HalfWritten, Handshakes
  <2> QED
    BY <1>2, <1>3, <2>1
<1>4. CASE \E c \in Callers : call[c].op \in {"register", "touch", "terminate"}
                              /\ (SqlCall(c) \/ RdExists(c) \/ RdWrite(c))
  <2>1. PICK c \in Callers : call[c].op \in {"register", "touch", "terminate"} /\ Served(c)
    BY <1>4, Serves
  <2>2. PICK s \in Sessions : s = call[c].s
    BY <2>1, CallKinds DEF Typed
  <2>3. OnlyRow(s) /\ UNCHANGED backend
    BY <2>1, <2>2 DEF Served
  <2>4. call[c].op = "register" => /\ c \in Requests /\ req[c].s = s /\ Opening(c)
                                   /\ req[c].pc = "recording" \/ ~ req[c].registered
    <3> SUFFICES ASSUME call[c].op = "register"
                 PROVE  /\ c \in Requests /\ req[c].s = s /\ Opening(c)
                        /\ req[c].pc = "recording" \/ ~ req[c].registered
      OBVIOUS
    <3>1. c \in Requests
      BY CalledWho
    <3>2. RequestCall(c) /\ Going(c)
      BY <3>1 DEF Who, Going
    <3> QED
      BY <2>2, <3>1, <3>2 DEF RequestCall, Opening
  <2>5. call[c].op = "register" => s \notin answered
    <3>1. c \in Requests => RequestWho(c)
      BY DEF Who
    <3> QED
      BY <2>4, <3>1 DEF RequestWho, Opening
  <2>6. reg[s].exists \in BOOLEAN /\ reg[s].handshake \in BOOLEAN /\ reg[s].created \in BOOLEAN
    BY <1>1, RowFields DEF RegTyped
  <2>7. HalfWritten(s) => HalfWritten(s)'
    BY <1>1, <2>1, <2>2, <2>3, <2>5, <2>6 DEF HalfWritten, Served, SqlServed, RdLooked, RdServed
  <2>8. backend = "redis" /\ reg'[s].created => reg'[s].handshake
    <3> SUFFICES ASSUME backend = "redis", reg'[s].created PROVE reg'[s].handshake
      OBVIOUS
    <3>1. reg[s].created => reg[s].handshake
      BY DEF Handshakes
    <3>2. CASE RdLooked(c)
      BY <3>1, <3>2 DEF RdLooked
    <3>3. CASE RdServed(c)
      <4>1. CASE call[c].op = "register" /\ call[c].step = 5
        <5>1. Early(c)
          BY <2>4, <4>1 DEF Early, InRegister
        <5>2. s \notin gone
          BY <2>4, <4>1, <5>1 DEF Lasting, Untouched, Unregistered
        <5>3. reg[s].handshake
          BY <2>2, <2>4, <4>1, <5>2 DEF Lasting, Commands
        <5> QED
          BY <2>2, <2>6, <3>3, <5>3 DEF RdServed
      <4>2. CASE ~ (call[c].op = "register" /\ call[c].step = 5)
        BY <2>2, <2>6, <3>1, <3>3, <4>2 DEF RdServed
      <4> QED
        BY <4>1, <4>2
    <3> QED
      BY <2>1, <3>2, <3>3 DEF Served, SqlServed
  <2>9. RowsKeepHalf
    BY <1>1, <2>3, <2>7, <2>8 DEF RowsKeepHalf, HalfWritten, Handshakes, OnlyRow
  <2> QED
    BY <1>2, <2>3, <2>9
<1>5. CASE MigrateNullTenants
  <2>1. /\ \A s \in Sessions : reg'[s] = IF legacy[s] = {} THEN reg[s] ELSE Merged(s)
        /\ UNCHANGED backend
    BY <1>1, <1>5, MigrateFacts DEF MigrateNullTenants
  <2>2. backend # "redis"
    BY <1>5 DEF MigrateNullTenants, Who, RowWho
  <2> QED
    BY <1>3, <2>1, <2>2
<1>6. CASE SqlPurge
  <2>1. /\ UNCHANGED backend
        /\ \A s \in Sessions : reg'[s] = IF s \in Old THEN NoRow ELSE reg[s]
    BY <1>1, <1>6, PurgedFacts DEF SqlPurge, PgPurge, SqlitePurge
  <2> QED
    BY <1>3, <2>1, NoRowFacts
<1>7. CASE RdPurgeRead \/ RdListRead
  BY <1>3, <1>7 DEF RdPurgeRead, RdListRead
<1>8. CASE RdPurgeDelete
  <2>1. /\ \A s \in Sessions : reg'[s] = IF s \in call[Admin].s THEN NoRow ELSE reg[s]
        /\ UNCHANGED backend
    BY <1>1, <1>8, PurgedFacts DEF RdPurgeDelete
  <2> QED
    BY <1>3, <2>1, NoRowFacts
<1>9. CASE RdListForgets
  <2>1. PICK s \in Sessions : /\ reg' = [reg EXCEPT ![s].indexed = FALSE, ![s].recent = FALSE]
                              /\ UNCHANGED backend
    BY <1>9, AdminKinds DEF RdListForgets, Typed
  <2>2. /\ OnlyRow(s) /\ reg'[s].exists = reg[s].exists
        /\ reg'[s].handshake = reg[s].handshake /\ reg'[s].created = reg[s].created
    BY <1>1, <2>1, ForgetsFacts
  <2>3. RowsKeepHalf
    BY <1>1, <2>1, <2>2 DEF RowsKeepHalf, HalfWritten, Handshakes, OnlyRow
  <2> QED
    BY <1>2, <2>1, <2>3
<1>10. CASE Expire
  <2>1. PICK s \in Sessions : reg' = [reg EXCEPT ![s] = [NoRow EXCEPT !.indexed = reg[s].indexed]]
    BY <1>10 DEF Expire
  <2>2. UNCHANGED backend
    BY <1>10 DEF Expire
  <2>3. OnlyRow(s) /\ ~ reg'[s].exists /\ ~ reg'[s].created
    BY <1>1, <2>1, ExpireFacts
  <2> QED
    BY <1>3, <2>2, <2>3 DEF OnlyRow
<1> QED
  BY <1>4, <1>5, <1>6, <1>7, <1>8, <1>9, <1>10 DEF RegistryStep

LEMMA HandshakesInit == Init => Handshakes
<1> SUFFICES ASSUME Init PROVE Handshakes
  OBVIOUS
<1>1. /\ \A r \in Requests : req[r] = Free
      /\ \A w \in Workers, s \in Sessions : table[w][s] = "none"
  BY DEF Init
<1>2. ASSUME backend = "redis", NEW s \in Sessions PROVE ~ reg[s].created
  <2>1. legacy[s] = {}
    BY <1>2 DEF Init, Legacies
  <2>2. reg[s] = NoRow \/ \E b \in BOOLEAN : reg[s] = [FreshRow(Nobody) EXCEPT !.terminated = b]
    BY DEF Init
  <2>3. (\E b \in BOOLEAN : reg[s] = [FreshRow(Nobody) EXCEPT !.terminated = b]) => reg[s].exists
    BY DEF FreshRow, NoRow
  <2>4. reg[s] = NoRow
    BY <2>1, <2>2, <2>3 DEF Init
  <2> QED
    BY <2>4, NoRowFacts
<1> QED
  BY <1>1, <1>2 DEF Handshakes, Free

LEMMA HandshakesStep == Typed /\ Who /\ Lasting /\ Handshakes /\ [Next]_vars => Handshakes'
<1> SUFFICES ASSUME Typed, Who, Lasting, Handshakes, [Next]_vars PROVE Handshakes'
  OBVIOUS
<1>1. CASE UNCHANGED vars
  <2>1. UNCHANGED <<backend, reg, answered, req, table, transport>>
    BY <1>1 DEF vars, registry, manager
  <2> QED
    BY <2>1, HandshakesSame, HandshakesKept
<1> QED
  BY <1>1, RequestHandshakes, OthersHandshakes, RegistryHandshakes DEF Next

(* A worker serves a session only to the principal that opened it, and one *)
(* that it adopted from the record of a finished handshake it serves as    *)
(* past the handshake: the register writes the fields in that order, and a *)
(* record found without the handshake is never completed afterwards        *)
(* (sessions.py:538, 559, session_manager.py:350).                         *)
THEOREM AdoptsWhole == Spec => []AdoptedWhole
<1>1. ASSUME Typed, Who, Handshakes PROVE AdoptedWhole
  <2> SUFFICES ASSUME NEW w \in Workers, NEW s \in Sessions, table[w][s] # "none"
               PROVE  /\ transport[w][s].owner = creator[s]
                      /\ Found(s) /\ reg[s].handshake => transport[w][s].initialized
    BY DEF AdoptedWhole
  <2>1. transport[w][s].owner = creator[s]
    BY <1>1 DEF Who, EntryWho
  <2>2. ~ transport[w][s].initialized => HalfWritten(s)
    BY <1>1 DEF Handshakes
  <2> QED
    BY <2>1, <2>2 DEF HalfWritten, Found
<1> QED
  BY <1>1, TypedInit, TypedStep, WhoInit, WhoStep, LastingInit, LastingStep, HandshakesInit, HandshakesStep,
     PTL DEF Spec

-------------------------------------------------------------------------------
(* A session whose id a client was sent: the register that came before the *)
(* answer has written the whole record, and only a purge or an expiry      *)
(* takes it away.  A listing drops members of the index that look like     *)
(* fragments, and those are never of a session that is still in use.       *)

Over(s) == s \in causes \cup gone \cup lost
Recorded(s) == s \in lost \cup gone \/ (Found(s) /\ (backend = "redis" /\ s \notin causes => reg[s].indexed))
ToAnswer(r) == req[r].pc = "recording" /\ ~ Going(r)
Listed ==
    /\ \A s \in answered : legacy[s] = {} => Recorded(s)
    /\ \A r \in Requests : ToAnswer(r) => Recorded(req[r].s)
    /\ backend = "redis" => \A s \in Sessions : reg[s].indexed /\ ~ Whole(reg[s]) => Over(s)
    /\ call[Admin].op = "unlist" => Over(call[Admin].s)

Grows == causes \subseteq causes' /\ gone \subseteq gone' /\ lost \subseteq lost'
RowsListed == \A s \in Sessions :
    /\ Found(s) => Found(s)' \/ s \in gone'
    /\ backend = "redis" /\ reg[s].indexed => reg'[s].indexed \/ Over(s)'
    /\ legacy'[s] = {} => legacy[s] = {} \/ (backend # "redis" /\ Found(s)')
    /\ backend = "redis" /\ reg'[s].indexed /\ ~ Whole(reg'[s]) => (reg[s].indexed /\ ~ Whole(reg[s])) \/ Over(s)'
NoNewAnswer(r) == ToAnswer(r)' =>
    \/ ToAnswer(r) /\ req'[r].s = req[r].s
    \/ \E s \in Sessions : s = req'[r].s /\ Recorded(s)'

LEMMA RecordedKept ==
    ASSUME UNCHANGED backend, Grows, RowsListed, NEW s \in Sessions, Recorded(s)
    PROVE  Recorded(s)'
BY DEF Recorded, Grows, RowsListed, Over

LEMMA ListedKept ==
    ASSUME Typed, Who, Listed, UNCHANGED backend, Grows, RowsListed,
           \A s \in answered' : s \in answered \/ (s \in Sessions /\ Recorded(s)),
           \A r \in Requests : NoNewAnswer(r),
           call'[Admin].op = "unlist" => call'[Admin] = call[Admin] \/ Over(call'[Admin].s)
    PROVE  Listed'
<1>1. ASSUME NEW s \in answered', s \in Sessions, legacy'[s] = {} PROVE Recorded(s)'
  <2>1. CASE legacy[s] = {}
    BY <1>1, <2>1, RecordedKept DEF Listed
  <2>2. CASE legacy[s] # {}
    BY <1>1, <2>2 DEF RowsListed, Recorded
  <2> QED
    BY <2>1, <2>2
<1>2. ASSUME NEW r \in Requests, ToAnswer(r)' PROVE Recorded(req[r].s)'
  <2>1. CASE ToAnswer(r) /\ req'[r].s = req[r].s
    <3>1. Busy(r)
      BY <2>1 DEF ToAnswer, Busy
    <3>2. PICK s \in Sessions : s = req[r].s
      BY <3>1, RequestParts
    <3>3. Recorded(s)' /\ req'[r].s = s
      BY <2>1, <3>2, RecordedKept DEF Listed
    <3> QED
      BY <3>3
  <2>2. CASE \E s \in Sessions : s = req'[r].s /\ Recorded(s)'
    BY <2>2
  <2> QED
    BY <1>2, <2>1, <2>2 DEF NoNewAnswer
<1>3. backend' = "redis" => \A s \in Sessions : reg'[s].indexed /\ ~ Whole(reg'[s]) => Over(s)'
  BY DEF Listed, RowsListed, Over, Grows
<1>4. call'[Admin].op = "unlist" => Over(call[Admin].s)'
  BY DEF Listed, Over, Grows
<1>5. answered' \subseteq Sessions
  BY DEF Typed, HistoryTyped
<1>6. \A s \in answered' : legacy'[s] = {} => Recorded(s)'
  BY <1>1, <1>5
<1> QED
  BY <1>2, <1>3, <1>4, <1>5, <1>6 DEF Listed

LEMMA RowsSame == UNCHANGED <<backend, reg, legacy>> => RowsListed
BY DEF RowsListed, Found

LEMMA AnswersSame ==
    ASSUME NEW r \in Requests, req'[r] = req[r], call'[r] = call[r]
    PROVE  NoNewAnswer(r)
BY DEF NoNewAnswer, ToAnswer, Going

(* Whatever a request does, the calls of the others go on as they were. *)
LEMMA RequestOnlyCall ==
    ASSUME Typed, Who, NEW r \in Requests, RequestStep(r)
    PROVE  OnlyCall(r)
<1>1. ASSUME \E k : call' = [call EXCEPT ![r] = k] PROVE OnlyCall(r)
  BY <1>1 DEF Typed, CallsTyped, OnlyCall
<1>2. ASSUME UNCHANGED call PROVE OnlyCall(r)
  BY <1>2 DEF OnlyCall
<1>3. ASSUME NEW o, NEW s, NEW p, Call(r, o, s, p) PROVE OnlyCall(r)
  BY <1>1, <1>3 DEF Call
<1>4. ASSUME Return(r) PROVE OnlyCall(r)
  BY <1>1, <1>4 DEF Return
<1>5. CASE \E w \in Workers, s \in Sessions, p \in Principals :
               Opens(r, w, s, p) \/ \E k \in {"use", "delete"} : Arrives(r, w, s, p, k)
  BY <1>2, <1>5 DEF Opens, Arrives, registry
<1>6. CASE \/ ResponseStarts(r) \/ Answers(r) \/ Opened(r) \/ OpeningFails(r)
           \/ LooksUp(r) \/ LookupFails(r) \/ Touched(r)
  BY <1>2, <1>3, <1>4, <1>6 DEF ResponseStarts, Answers, Opened, OpeningFails, LooksUp, LookupFails, Touched, registry
<1>7. CASE Adopts(r) \/ Handled(r) \/ Deletes(r) \/ Deleted(r)
  BY <1>2, <1>3, <1>7 DEF Adopts, Handled, Deletes, Deleted, registry
<1>8. CASE ReconcileCreated(r) \/ ReconcileVanished(r) \/ ReconcileUsed(r) \/ Reconciled(r)
  BY <1>2, <1>3, <1>8 DEF ReconcileCreated, ReconcileVanished, ReconcileUsed, Reconciled, registry
<1>9. CASE req[r].pc # "free" /\ HookRecords(r, req[r].w)
  BY <1>3, <1>4, <1>9 DEF HookRecords
<1> QED
  BY <1>5, <1>6, <1>7, <1>8, <1>9 DEF RequestStep

LEMMA RequestListed ==
    ASSUME Typed, Who, Listed, NEW r \in Requests, RequestStep(r)
    PROVE  Listed'
<1>1. UNCHANGED <<backend, reg, legacy, gone>>
  BY ZenonT(60) DEF RequestStep, Opens, Arrives, ResponseStarts, Answers, Opened, OpeningFails, LooksUp, LookupFails, Adopts,
         Touched, Handled, Deletes, Deleted, ReconcileCreated, ReconcileVanished, ReconcileUsed, Reconciled,
         HookRecords, registry
<1>2. Grows
  <2>1. causes \subseteq causes'
    BY ZenonT(60) DEF RequestStep, Opens, Arrives, ResponseStarts, Answers, Opened, OpeningFails, LooksUp, LookupFails, Adopts,
           Touched, Handled, Deletes, Deleted, ReconcileCreated, ReconcileVanished, ReconcileUsed, Reconciled,
           HookRecords, Ended, Cause
  <2>2. lost \subseteq lost'
    BY ZenonT(60) DEF RequestStep, Opens, Arrives, ResponseStarts, Answers, Opened, OpeningFails, LooksUp, LookupFails, Adopts,
           Touched, Handled, Deletes, Deleted, ReconcileCreated, ReconcileVanished, ReconcileUsed, Reconciled,
           HookRecords, Untold
  <2> QED
    BY <1>1, <2>1, <2>2 DEF Grows
<1>3. OnlyCall(r)
  BY RequestOnlyCall
<1>4. \A s \in answered' : s \in answered \/ (s \in Sessions /\ Recorded(s))
  <2>1. CASE Answers(r)
    <3>1. answered' = answered \cup {req[r].s} /\ ToAnswer(r) /\ Busy(r)
      BY <2>1 DEF Answers, ToAnswer, Busy
    <3>2. req[r].s \in Sessions
      BY <3>1, RequestParts
    <3> QED
      BY <3>1, <3>2 DEF Listed
  <2>2. CASE ~ Answers(r)
    <3>1. answered' = answered
      BY <2>2, ZenonT(60)
         DEF RequestStep, Opens, Arrives, ResponseStarts, Opened, OpeningFails, LooksUp, LookupFails, Adopts,
             Touched, Handled, Deletes, Deleted, ReconcileCreated, ReconcileVanished, ReconcileUsed, Reconciled,
             HookRecords
    <3> QED
      BY <3>1
  <2> QED
    BY <2>1, <2>2
<1>5. ASSUME OnlyRequest(r), req'[r].pc # "recording" \/ NoNewAnswer(r) PROVE Listed'
  <2>1. \A q \in Requests : NoNewAnswer(q)
    <3>1. NoNewAnswer(r)
      BY <1>5 DEF NoNewAnswer, ToAnswer
    <3> QED
      BY <1>3, <1>5, <3>1, AnswersSame, CallerFacts DEF OnlyRequest, OnlyCall
  <2>2. call'[Admin] = call[Admin]
    BY <1>3, CallerFacts DEF OnlyCall
  <2> QED
    BY <1>1, <1>2, <1>4, <2>1, <2>2, RowsSame, ListedKept
<1>6. ASSUME Busy(r), Ends(r) \/ \E pc \in PCs \ {"recording"} : At(r, pc) PROVE Listed'
  <2>1. CASE Ends(r)
    <3>1. OnlyRequest(r) /\ req'[r] = Free
      BY <2>1, EndsFacts
    <3> QED
      BY <1>5, <3>1 DEF Free
  <2>2. CASE \E pc \in PCs \ {"recording"} : At(r, pc)
    <3>1. PICK pc \in PCs \ {"recording"} : At(r, pc)
      BY <2>2
    <3>2. OnlyRequest(r) /\ req'[r].pc = pc
      BY <1>6, <3>1, AtFacts
    <3> QED
      BY <1>5, <3>1, <3>2
  <2> QED
    BY <1>6, <2>1, <2>2
<1>7. ASSUME NEW w \in Workers, NEW s \in Sessions, NEW p \in Principals, NEW k, SdkTakes(r, w, s, p, k) PROVE Listed'
  <2>1. OnlyRequest(r) /\ req'[r].pc # "recording"
    BY <1>7 DEF SdkTakes, Typed, RequestsTyped, OnlyRequest
  <2> QED
    BY <1>5, <2>1
<1>8. ASSUME NEW w \in Workers, NEW s \in Sessions, NEW p \in Principals, Opens(r, w, s, p) PROVE Listed'
  <2>1. OnlyRequest(r) /\ req'[r].pc = "opening"
    BY <1>8 DEF Opens, OnlyRequest, Typed, RequestsTyped
  <2> QED
    BY <1>5, <2>1
<1>9. ASSUME NEW w \in Workers, NEW s \in Sessions, NEW p \in Principals, NEW k \in {"use", "delete"},
             Arrives(r, w, s, p, k)
      PROVE  Listed'
  <2> DEFINE o == [pc |-> "lookup", w |-> w, s |-> s, who |-> p, kind |-> k, via |-> "adopt", known |-> FALSE,
                   registered |-> FALSE, refused |-> FALSE, handshake |-> FALSE]
  <2>1. CASE req' = [req EXCEPT ![r] = o]
    <3>1. OnlyRequest(r) /\ req'[r].pc = "lookup"
      BY <2>1 DEF Typed, RequestsTyped, OnlyRequest
    <3> QED
      BY <1>5, <3>1
  <2> QED
    BY <1>7, <1>9, <2>1 DEF Arrives
<1>10. CASE LooksUp(r) \/ LookupFails(r)
  <2> DEFINE w == req[r].w  s == req[r].s  p == req[r].who  k == req[r].kind
  <2>1. Busy(r) /\ w \in Workers /\ s \in Sessions /\ p \in Principals /\ req[r] \in Kept
    BY <1>10, RequestParts DEF LooksUp, LookupFails, Busy
  <2>2. CASE req' = [req EXCEPT ![r].pc = "locking", ![r].handshake = reg[s].handshake]
    <3>1. OnlyRequest(r) /\ req'[r].pc = "locking"
      BY <2>1, <2>2 DEF Typed, RequestsTyped, OnlyRequest, Kept
    <3> QED
      BY <1>5, <3>1
  <2> QED
    BY <1>7, <1>10, <2>1, <2>2 DEF LooksUp, LookupFails
<1>11. CASE ResponseStarts(r)
  <2>1. Busy(r) /\ req' = [req EXCEPT ![r].pc = "recording", ![r].registered = TRUE]
        /\ Call(r, "register", req[r].s, req[r].who)
    BY <1>11 DEF ResponseStarts, Busy
  <2>2. OnlyRequest(r)
    BY <2>1 DEF Typed, RequestsTyped, OnlyRequest
  <2>3. r \in Callers
    BY CallerFacts
  <2>4. call'[r].op = "register"
    BY ONLY Typed, <2>1, <2>3, CallDoes
  <2>5. NoNewAnswer(r)
    BY <2>4 DEF NoNewAnswer, ToAnswer, Going
  <2> QED
    BY <1>5, <2>2, <2>5
<1>12. CASE \/ Answers(r) \/ Opened(r) \/ OpeningFails(r) \/ Touched(r)
            \/ Handled(r) \/ Deletes(r) \/ Deleted(r) \/ Adopts(r)
            \/ ReconcileCreated(r) \/ ReconcileVanished(r) \/ ReconcileUsed(r) \/ Reconciled(r)
  <2>1. Busy(r)
    BY <1>12 DEF Busy, Answers, Opened, OpeningFails, Touched, Handled, Deletes, Deleted, Adopts,
                 ReconcileCreated, ReconcileVanished, ReconcileUsed, Reconciled
  <2>2. Ends(r) \/ \E pc \in PCs \ {"recording"} : At(r, pc)
    BY <1>12 DEF Answers, Opened, OpeningFails, Touched, Handled, Deletes, Deleted, Leaves, Adopts,
                 ReconcileCreated, ReconcileVanished, ReconcileUsed, Reconciled, PCs
  <2> QED
    BY <1>6, <2>1, <2>2
<1>13. CASE req[r].pc # "free" /\ HookRecords(r, req[r].w)
  <2>1. UNCHANGED req /\ call[r].op = "hook" /\ Busy(r)
    BY <1>13 DEF HookRecords, Busy
  <2>2. req[r].pc # "recording"
    BY <2>1, RequestParts DEF RequestCall, Going
  <2>3. NoNewAnswer(r) /\ OnlyRequest(r)
    BY <2>1, <2>2 DEF NoNewAnswer, ToAnswer, OnlyRequest
  <2> QED
    BY <1>5, <2>3
<1> QED
  BY <1>8, <1>9, <1>10, <1>11, <1>12, <1>13 DEF RequestStep

LEMMA OthersListed ==
    ASSUME Typed, Who, Listed,
           \/ \E w \in Workers : WorkerStep(w)
           \/ \E c \in Callers : CallFails(c)
           \/ \E s \in Sessions : OperatorTerminates(s)
           \/ Ages
    PROVE  Listed'
<1>1. ASSUME UNCHANGED <<backend, reg, legacy, gone, answered>>, Grows, \A r \in Requests : NoNewAnswer(r),
             call'[Admin] = call[Admin] \/ call'[Admin].op # "unlist"
      PROVE  Listed'
  BY <1>1, RowsSame, ListedKept
<1>2. ASSUME NEW c \in Callers, OnlyCall(c), UNCHANGED req, c \in Requests => NoNewAnswer(c)
      PROVE  \A r \in Requests : NoNewAnswer(r)
  BY <1>2, AnswersSame, CallerFacts DEF OnlyCall
<1>3. ASSUME NEW w \in Workers, NEW s \in Sessions,
             IdlesOut(w, s) \/ ServerFails(w, s) \/ Cancels(w, s)
      PROVE  Listed'
  <2>1. /\ UNCHANGED <<backend, reg, legacy, gone, answered, req>> /\ Grows
        /\ UNCHANGED call \/ Call(<<w, s>>, "hook", s, Absent)
    BY <1>3 DEF IdlesOut, ServerFails, Cancels, registry, Grows, Ended, Cause
  <2>2. OnlyCall(<<w, s>>) /\ <<w, s>> \in Callers /\ <<w, s>> # Admin /\ <<w, s>> \notin Requests
    <3>1. <<w, s>> \in Callers /\ <<w, s>> # Admin /\ <<w, s>> \notin Requests
      BY CallerFacts
    <3>2. CASE UNCHANGED call
      BY <3>1, <3>2 DEF OnlyCall
    <3>3. CASE Call(<<w, s>>, "hook", s, Absent)
      BY <3>1, <3>3, CallDoes
    <3> QED
      BY <2>1, <3>1, <3>2, <3>3
  <2>3. call'[Admin] = call[Admin]
    BY <2>2, CallerFacts DEF OnlyCall
  <2> QED
    BY <1>1, <1>2, <2>1, <2>2, <2>3
<1>4. ASSUME NEW w \in Workers, NEW s \in Sessions, HookRecords(<<w, s>>, w) PROVE Listed'
  <2>1. /\ UNCHANGED <<backend, reg, legacy, gone, answered, req>> /\ Grows
        /\ Return(<<w, s>>) \/ Call(<<w, s>>, "terminate", call[<<w, s>>].s, Absent)
    BY <1>4 DEF HookRecords, Grows, Untold
  <2>2. OnlyCall(<<w, s>>) /\ <<w, s>> \in Callers /\ <<w, s>> # Admin /\ <<w, s>> \notin Requests
    <3>1. <<w, s>> \in Callers /\ <<w, s>> # Admin /\ <<w, s>> \notin Requests
      BY CallerFacts
    <3>2. CASE Return(<<w, s>>)
      BY <3>1, <3>2, ReturnFacts
    <3>3. CASE Call(<<w, s>>, "terminate", call[<<w, s>>].s, Absent)
      BY <3>1, <3>3, CallDoes
    <3> QED
      BY <2>1, <3>1, <3>2, <3>3
  <2>3. call'[Admin] = call[Admin]
    BY <2>2, CallerFacts DEF OnlyCall
  <2> QED
    BY <1>1, <1>2, <2>1, <2>2, <2>3
<1>5. ASSUME NEW w \in Workers, Stops(w) \/ Starts(w) PROVE Listed'
  <2>1. UNCHANGED <<backend, reg, legacy, gone, answered, req, call>> /\ Grows
    BY <1>5 DEF Stops, Starts, registry, Grows
  <2> QED
    BY <1>1, <2>1, AnswersSame
<1>6. ASSUME NEW w \in Workers, Dies(w) PROVE Listed'
  <2>1. UNCHANGED <<backend, reg, legacy, gone, answered>> /\ Grows
    BY <1>6 DEF Dies, Grows, Untold
  <2>2. \A r \in Requests : NoNewAnswer(r)
    BY <1>6, DiesFacts, AnswersSame DEF NoNewAnswer, ToAnswer, Free
  <2> QED
    BY <1>1, <1>6, <2>1, <2>2, DiesFacts
<1>7. ASSUME NEW c \in Callers, CallFails(c) PROVE Listed'
  <2>1. /\ UNCHANGED <<backend, reg, legacy, gone, answered, req>> /\ Grows
        /\ call[c].op \in {"register", "touch", "terminate"} /\ c # Admin /\ Return(c)
        /\ lost' = IF call[c].op = "touch" THEN lost ELSE lost \cup {call[c].s}
    BY <1>7 DEF CallFails, Grows
  <2>2. OnlyCall(c)
    BY <2>1, ReturnFacts
  <2>3. c \in Requests => NoNewAnswer(c)
    <3> SUFFICES ASSUME c \in Requests, req[c].pc = "recording"
                 PROVE  \E s \in Sessions : s = req'[c].s /\ Recorded(s)'
      BY <2>1 DEF NoNewAnswer, ToAnswer
    <3>1. RequestCall(c) /\ Going(c) /\ Busy(c)
      BY <2>1 DEF Who, Going, Busy
    <3>2. call[c].op # "touch" /\ call[c].s = req[c].s /\ req[c].s \in Sessions
      BY <2>1, <3>1, RequestParts DEF RequestCall
    <3>3. PICK s \in Sessions : s = req[c].s
      BY <3>2
    <3>4. s = req'[c].s /\ s \in lost'
      BY <2>1, <3>2, <3>3
    <3>5. Recorded(s)'
      BY <3>4 DEF Recorded
    <3> QED
      BY <3>4, <3>5
  <2>4. call'[Admin] = call[Admin]
    BY <2>1, <2>2, CallerFacts DEF OnlyCall
  <2>5. \A r \in Requests : NoNewAnswer(r)
    BY <1>2, <2>1, <2>2, <2>3
  <2> QED
    BY <1>1, <2>1, <2>4, <2>5
<1>8. ASSUME NEW s \in Sessions, OperatorTerminates(s) PROVE Listed'
  <2>1. /\ UNCHANGED <<backend, reg, legacy, gone, answered, req>> /\ Grows
        /\ Call(Admin, "terminate", s, Absent)
    BY <1>8 DEF OperatorTerminates, Grows, Cause
  <2>2. OnlyCall(Admin) /\ call'[Admin].op = "terminate"
    BY <2>1, CallerFacts, CallDoes
  <2>3. \A r \in Requests : NoNewAnswer(r)
    BY <1>2, <2>1, <2>2, CallerFacts
  <2> QED
    BY <1>1, <2>1, <2>2, <2>3
<1>9. CASE Ages
  <2>1. UNCHANGED <<backend, legacy, gone, answered, req, call>> /\ Grows
    BY <1>9 DEF Ages, Grows
  <2>2. PICK s \in Sessions : reg' = [reg EXCEPT ![s].recent = FALSE]
    BY <1>9 DEF Ages
  <2>3. /\ OnlyRow(s) /\ reg'[s].exists = reg[s].exists /\ reg'[s].owner = reg[s].owner
        /\ reg'[s].terminated = reg[s].terminated /\ reg'[s].created = reg[s].created
        /\ reg'[s].indexed = reg[s].indexed
    BY <2>2, RecentFacts DEF Typed, StoreTyped, RegTyped
  <2>4. RowsListed
    BY <2>1, <2>3 DEF RowsListed, Found, Whole, OnlyRow
  <2> QED
    BY <2>1, <2>4, AnswersSame, ListedKept
<1>10. ASSUME NEW w \in Workers, WorkerStep(w) PROVE Listed'
  BY <1>3, <1>4, <1>5, <1>6, <1>10 DEF WorkerStep
<1> QED
  BY <1>7, <1>8, <1>9, <1>10

(* A statement or a round trip of a registry call. *)
LEMMA ServedListed ==
    ASSUME Typed, Who, Reasons, Lasting, Listed, NEW c \in Callers,
           call[c].op \in {"register", "touch", "terminate"}, Served(c), UNCHANGED manager
    PROVE  Listed'
<1>0. PICK s \in Sessions : s = call[c].s
  BY CalledWho
<1>1. /\ OnlyRow(s) /\ OnlyCall(c) /\ UNCHANGED <<backend, legacy, gone, req, answered, causes, lost>>
      /\ Grows
  BY <1>0 DEF Served, manager, Grows
<1>2. reg[s].exists \in BOOLEAN /\ reg[s].indexed \in BOOLEAN /\ reg[s].created \in BOOLEAN
      /\ reg[s].terminated \in {Absent} \cup BOOLEAN
  BY RowFields DEF Typed, StoreTyped
<1>3. call[c].op = "register" => c \in Requests /\ call[c].who # Absent /\ call[c].step \in 1..7
  BY CalledWho, CallKinds DEF Typed
<1>4. call[c].op = "register" /\ backend = "redis" /\ call[c].step = 7 => s \in gone \/ Whole(reg[s])
  BY <1>0, <1>3 DEF Lasting, Commands, Whole
<1>5. call[c].op = "touch" /\ backend = "redis" => Whole(reg[s]) \/ Over(s)
  <2> SUFFICES ASSUME call[c].op = "touch", backend = "redis" PROVE Whole(reg[s]) \/ Over(s)
    OBVIOUS
  <2>1. c \in Requests
    <3>1. c # Admin
      BY DEF Who, AdminCall
    <3>2. \A w \in Workers, t \in Sessions : c # <<w, t>>
      <4> SUFFICES ASSUME NEW w \in Workers, NEW t \in Sessions, c = <<w, t>> PROVE FALSE
        OBVIOUS
      <4>1. TaskCall(w, t)
        BY DEF Who
      <4> QED
        BY <4>1 DEF TaskCall, Going
    <3> QED
      BY <3>1, <3>2, CallerFacts
  <2>2. RequestCall(c) /\ Going(c)
    BY <2>1 DEF Who, Going
  <2>3. s \in answered
    BY <1>0, <2>2 DEF RequestCall
  <2>4. legacy[s] = {}
    BY DEF Who, RowWho
  <2> QED
    BY <2>3, <2>4 DEF Listed, Recorded, Found, Over
<1>6. call[c].op = "terminate" => Over(s)
  BY <1>0 DEF Reasons, CallReason, Over
<1>7. /\ Found(s) => Found(s)'
      /\ backend = "redis" => (Whole(reg[s]) => Whole(reg'[s])) /\ (reg[s].indexed => reg'[s].indexed)
  <2>1. CASE SqlServed(c)
    BY <1>0, <1>1, <1>2, <2>1 DEF SqlServed, Found
  <2>2. CASE RdLooked(c)
    BY <1>1, <2>2 DEF RdLooked, Found
  <2>3. CASE RdServed(c)
    BY <1>0, <1>1, <1>2, <1>3, <2>3, RegistryAssumption DEF RdServed, Found, Whole
  <2> QED
    BY <2>1, <2>2, <2>3 DEF Served
<1>8. backend = "redis" /\ reg'[s].indexed /\ ~ reg[s].indexed => Over(s) \/ Whole(reg'[s])
  <2> SUFFICES ASSUME backend = "redis", reg'[s].indexed, ~ reg[s].indexed PROVE Over(s) \/ Whole(reg'[s])
    OBVIOUS
  <2>1. RdServed(c)
    BY DEF Served, SqlServed, RdLooked
  <2>2. call[c].op # "register" \/ call[c].step = 7
    BY <1>0, <1>2, <2>1 DEF RdServed, RegisterSteps
  <2> QED
    BY <1>4, <1>5, <1>6, <1>7, <2>2 DEF Over
<1>9. RowsListed
  <2>1. /\ Found(s) => Found(s)' \/ s \in gone'
        /\ backend = "redis" /\ reg[s].indexed => reg'[s].indexed \/ Over(s)'
        /\ legacy'[s] = {} => legacy[s] = {} \/ (backend # "redis" /\ Found(s)')
        /\ backend = "redis" /\ reg'[s].indexed /\ ~ Whole(reg'[s]) => (reg[s].indexed /\ ~ Whole(reg[s])) \/ Over(s)'
    BY <1>1, <1>7, <1>8 DEF Over
  <2>2. ASSUME NEW t \in Sessions, t # s
        PROVE  /\ Found(t) => Found(t)' \/ t \in gone'
               /\ backend = "redis" /\ reg[t].indexed => reg'[t].indexed \/ Over(t)'
               /\ legacy'[t] = {} => legacy[t] = {} \/ (backend # "redis" /\ Found(t)')
               /\ backend = "redis" /\ reg'[t].indexed /\ ~ Whole(reg'[t]) => (reg[t].indexed /\ ~ Whole(reg[t])) \/ Over(t)'
    BY <1>1, <2>2 DEF OnlyRow, Found
  <2> QED
    BY <2>1, <2>2 DEF RowsListed
<1>10. c \in Requests => NoNewAnswer(c)
  <2> SUFFICES ASSUME c \in Requests, req[c].pc = "recording", ~ Going(c)'
               PROVE  \E t \in Sessions : t = req'[c].s /\ Recorded(t)'
    BY <1>1 DEF NoNewAnswer, ToAnswer
  <2>1. RequestCall(c) /\ Going(c)
    BY DEF Who, Going
  <2>2. call[c].op = "register" /\ s = req'[c].s
    BY <1>0, <1>1, <2>1 DEF RequestCall
  <2>3. CASE SqlServed(c)
    <3>1. backend' # "redis" /\ reg'[s].exists
      BY <1>0, <1>1, <1>2, <2>2, <2>3 DEF SqlServed
    <3>2. Recorded(s)'
      BY <3>1 DEF Recorded, Found
    <3> QED
      BY <2>2, <3>2
  <2>4. CASE RdServed(c)
    <3>1. backend = "redis" /\ call[c].step = 7
      BY <2>2, <2>4 DEF RdServed, Going, RegisterSteps
    <3>2. reg'[s].indexed
      BY <1>0, <1>2, <2>2, <2>4, <3>1 DEF RdServed, RegisterSteps
    <3>3. Recorded(s)'
      BY <1>1, <1>4, <1>7, <2>2, <3>1, <3>2 DEF Recorded, Found
    <3> QED
      BY <2>2, <3>3
  <2> QED
    BY <2>2, <2>3, <2>4 DEF Served, RdLooked
<1>11. \A r \in Requests : NoNewAnswer(r)
  BY <1>1, <1>10, AnswersSame, CallerFacts DEF OnlyCall
<1>12. call'[Admin].op = "unlist" => call'[Admin] = call[Admin]
  <2>1. CASE c = Admin
    <3>1. call'[c] = NoCall \/ call'[c].op = call[c].op
      BY DEF Served, SqlServed, RdLooked, RdServed
    <3> QED
      BY <2>1, <3>1 DEF NoCall
  <2>2. CASE c # Admin
    BY <1>1, <2>2, CallerFacts DEF OnlyCall
  <2> QED
    BY <2>1, <2>2
<1> QED
  BY <1>1, <1>9, <1>11, <1>12, ListedKept

LEMMA RegistryListed ==
    ASSUME Typed, Who, Reasons, Lasting, Listed, RegistryStep, UNCHANGED manager
    PROVE  Listed'
<1>1. UNCHANGED <<answered, req, causes, lost>> /\ RegTyped
  BY DEF manager, Typed, StoreTyped, RegTyped
<1>2. ASSUME RowsListed, UNCHANGED backend, gone \subseteq gone', \A r \in Requests : call'[r] = call[r],
             call'[Admin].op = "unlist" => call'[Admin] = call[Admin] \/ Over(call'[Admin].s)
      PROVE  Listed'
  BY <1>1, <1>2, AnswersSame, ListedKept DEF Grows
<1>3. CASE \E c \in Callers : call[c].op \in {"register", "touch", "terminate"}
                              /\ (SqlCall(c) \/ RdExists(c) \/ RdWrite(c))
  BY <1>3, Serves, ServedListed
<1>4. CASE MigrateNullTenants
  <2>1. /\ \A s \in Sessions : reg'[s] = IF legacy[s] = {} THEN reg[s] ELSE Merged(s)
        /\ UNCHANGED <<backend, call, gone>>
    BY <1>1, <1>4, MigrateFacts DEF MigrateNullTenants
  <2>2. backend # "redis"
    BY <1>4 DEF MigrateNullTenants, Who, RowWho
  <2>3. RowsListed
    BY <1>1, <2>1, <2>2, MergedFacts DEF RowsListed, Found
  <2> QED
    BY <1>2, <2>1, <2>3
<1>5. CASE SqlPurge
  <2>1. /\ backend # "redis" /\ UNCHANGED <<backend, legacy, call>>
        /\ \A s \in Sessions : reg'[s] = IF s \in Old THEN NoRow ELSE reg[s]
        /\ gone' = gone \cup {s \in Old : reg[s].exists}
    BY <1>1, <1>5, PurgedFacts DEF SqlPurge, PgPurge, SqlitePurge
  <2>2. RowsListed
    BY <2>1 DEF RowsListed, Found
  <2> QED
    BY <1>2, <2>1, <2>2
<1>6. CASE RdPurgeRead
  <2>1. /\ call' = [call EXCEPT ![Admin] = [op |-> "purge", s |-> RdOldMembers]]
        /\ UNCHANGED <<backend, reg, legacy, gone>>
    BY <1>6 DEF RdPurgeRead
  <2>2. OnlyCall(Admin) /\ call'[Admin].op = "purge"
    BY <2>1, CallerFacts DEF Typed, CallsTyped, OnlyCall
  <2> QED
    BY <1>2, <2>1, <2>2, RowsSame, CallerFacts DEF OnlyCall
<1>7. CASE RdPurgeDelete
  <2>1. /\ \A s \in Sessions : reg'[s] = IF s \in call[Admin].s THEN NoRow ELSE reg[s]
        /\ Return(Admin) /\ UNCHANGED <<backend, legacy>> /\ gone' = gone \cup call[Admin].s
    BY <1>1, <1>7, PurgedFacts DEF RdPurgeDelete
  <2>2. OnlyCall(Admin) /\ call'[Admin].op = "none"
    BY <2>1, ReturnFacts, CallerFacts
  <2>3. RowsListed
    BY <2>1, NoRowFacts DEF RowsListed, Found, Over
  <2> QED
    BY <1>2, <2>1, <2>2, <2>3, CallerFacts DEF OnlyCall
<1>8. CASE RdListRead
  <2>1. PICK s \in Sessions : /\ reg[s].indexed /\ ~ Whole(reg[s])
                              /\ call' = [call EXCEPT ![Admin] = [op |-> "unlist", s |-> s]]
    BY <1>8 DEF RdListRead
  <2>2. backend = "redis" /\ UNCHANGED <<backend, reg, legacy, gone>>
    BY <1>8 DEF RdListRead
  <2>3. OnlyCall(Admin) /\ call'[Admin].s = s
    BY <2>1, CallerFacts DEF Typed, CallsTyped, OnlyCall
  <2>4. Over(s)
    BY <2>1, <2>2 DEF Listed
  <2> QED
    BY <1>2, <2>2, <2>3, <2>4, RowsSame, CallerFacts DEF OnlyCall
<1>9. CASE RdListForgets
  <2>1. PICK s \in Sessions : s = call[Admin].s
    BY <1>9, AdminKinds DEF RdListForgets, Typed
  <2>2. /\ reg' = [reg EXCEPT ![s].indexed = FALSE, ![s].recent = FALSE]
        /\ Return(Admin) /\ UNCHANGED <<backend, legacy, gone>>
    BY <1>9, <2>1 DEF RdListForgets
  <2>3. OnlyCall(Admin) /\ call'[Admin].op = "none"
    BY <2>2, ReturnFacts, CallerFacts
  <2>4. Over(s)
    BY <1>9, <2>1 DEF RdListForgets, Listed
  <2>5. /\ OnlyRow(s)
        /\ ~ reg'[s].indexed /\ reg'[s].exists = reg[s].exists
        /\ reg'[s].owner = reg[s].owner /\ reg'[s].terminated = reg[s].terminated
        /\ reg'[s].created = reg[s].created
    BY ONLY <1>1, <2>2, ForgetsFacts
  <2>6. RowsListed
    BY <1>1, <2>2, <2>4, <2>5 DEF RowsListed, Found, Whole, OnlyRow, Over
  <2> QED
    BY <1>2, <2>2, <2>3, <2>6, CallerFacts DEF OnlyCall
<1>10. CASE Expire
  <2>1. PICK s \in Sessions : /\ gone' = gone \cup {s}
                              /\ reg' = [reg EXCEPT ![s] = [NoRow EXCEPT !.indexed = reg[s].indexed]]
    BY <1>10 DEF Expire
  <2>2. UNCHANGED <<backend, legacy, call>>
    BY <1>10 DEF Expire
  <2>3. OnlyRow(s)
    BY <1>1, <2>1, ExpireFacts
  <2>4. RowsListed
    BY <2>1, <2>2, <2>3 DEF RowsListed, Found, OnlyRow, Over
  <2> QED
    BY <1>2, <2>1, <2>2, <2>4
<1> QED
  BY <1>3, <1>4, <1>5, <1>6, <1>7, <1>8, <1>9, <1>10 DEF RegistryStep

LEMMA ListedInit == Init => Listed
<1> SUFFICES ASSUME Init PROVE Listed
  OBVIOUS
<1>1. /\ \A r \in Requests : req[r] = Free
      /\ \A c \in Callers : call[c] = NoCall
      /\ answered = {s \in Sessions : legacy[s] # {}}
  BY DEF Init
<1>2. call[Admin].op # "unlist"
  BY <1>1, CallerFacts DEF NoCall
<1>3. \A s \in Sessions : ~ reg[s].indexed
  <2> SUFFICES ASSUME NEW s \in Sessions PROVE ~ reg[s].indexed
    OBVIOUS
  <2>1. reg[s] = NoRow \/ \E b \in BOOLEAN : reg[s] = [FreshRow(Nobody) EXCEPT !.terminated = b]
    BY DEF Init
  <2>2. ASSUME NEW b \in BOOLEAN, reg[s] = [FreshRow(Nobody) EXCEPT !.terminated = b] PROVE ~ reg[s].indexed
    <3> DEFINE f == FreshRow(Nobody)
    <3>1. f \in Rows /\ ~ f.indexed /\ reg[s] = [f EXCEPT !.terminated = b]
      BY <2>2, FreshFacts, RegistryAssumption
    <3> HIDE DEF f
    <3> QED
      BY <3>1 DEF Rows
  <2> QED
    BY <2>1, <2>2, NoRowFacts
<1> QED
  BY <1>1, <1>2, <1>3 DEF Listed, ToAnswer, Free

LEMMA ListedStep == Typed /\ Who /\ Reasons /\ Lasting /\ Listed /\ [Next]_vars => Listed'
<1> SUFFICES ASSUME Typed, Who, Reasons, Lasting, Listed, [Next]_vars PROVE Listed'
  OBVIOUS
<1>1. CASE UNCHANGED vars
  <2>1. UNCHANGED <<backend, reg, legacy, gone, answered, causes, lost, req, call>>
    BY <1>1 DEF vars, registry, manager
  <2> QED
    BY <2>1, RowsSame, AnswersSame, ListedKept DEF Grows
<1> QED
  BY <1>1, RequestListed, OthersListed, RegistryListed DEF Next

(* Once its id is on the way to a client, a session has a record that      *)
(* every worker finds, and in Redis one that list_sessions shows for as    *)
(* long as nothing ended it: only the failed call, the purge, the expiry   *)
(* and the death of its worker are excepted (session_manager.py:188,       *)
(* sessions.py:538).                                                       *)
THEOREM AnsweredStays == Spec => []AnsweredIsRecorded
<1>1. Listed => AnsweredIsRecorded
  BY DEF Listed, AnsweredIsRecorded, Recorded
<1> QED
  BY <1>1, TypedInit, TypedStep, WhoInit, WhoStep, ReasonsInit, ReasonsStep, LastingInit, LastingStep,
     ListedInit, ListedStep, PTL DEF Spec

-------------------------------------------------------------------------------
(* The end of a session, a crash that no request met aside, reaches the    *)
(* registry: until it has, a call is on its way, or some request has yet   *)
(* to notice that its session is gone and will make that call.             *)

EndCall(c) == call[c].op \in {"hook", "terminate"}
(* The opener whose recorded session vanished, and the user of a session   *)
(* this worker held, find so in the bookkeeping that follows (_reconcile). *)
Notices(r) ==
    \/ /\ Opening(r) /\ req[r].pc \in {"streaming", "reconcile", "reconciling"} /\ req[r].registered
       /\ table[req[r].w][req[r].s] = "none"
    \/ /\ Busy(r) /\ req[r].kind # "open" /\ req[r].pc \in {"handling", "deleting", "reconcile"}
       /\ req[r].via = "sdk" /\ req[r].known /\ table[req[r].w][req[r].s] # "live"
Pending(s) == \/ \E c \in Callers : c # Admin /\ EndCall(c) /\ call[c].s = s
              \/ \E r \in Requests : Notices(r) /\ req[r].s = s
Settled(s) == s \in (answered \cap ended) \ lost /\ legacy[s] = {} => ~ Adoptable(s) \/ Pending(s)

(* A transport is hooked by the bookkeeping of the request that opened it. *)
HookDue(r) == Opening(r) /\ req[r].pc \in {"opening", "recording", "streaming", "reconcile"}
EntryEnding(w, s) == table[w][s] = "live" /\ ~ transport[w][s].hooked =>
    \E r \in Requests : HookDue(r) /\ req[r].s = s /\ req[r].w = w
RequestEnding(r) == Busy(r) =>
    /\ req[r].kind = "open" /\ req[r].pc \in {"opening", "recording"} /\ req[r].s \in ended =>
          table[req[r].w][req[r].s] = "none"
    /\ req[r].kind = "open" /\ req[r].s \notin answered =>
          \A v \in Workers : table[v][req[r].s] # "none" => v = req[r].w
    /\ req[r].via = "adopt" =>
          table[req[r].w][req[r].s] = "none" \/ transport[req[r].w][req[r].s].hooked
    /\ req[r].pc \in {"lookup", "locking", "touching"} => req[r].via = "adopt"
    /\ req[r].via = "sdk" /\ req[r].pc \in {"handling", "deleting"} => req[r].known
    /\ req[r].known => req[r].via = "sdk"
RowEnding(s) ==
    /\ legacy[s] # {} /\ s \in ended => s \in endWritten
    /\ creator[s] = Absent => s \notin ended
    /\ backend = "redis" /\ reg[s].created => reg[s].exists
Ending == /\ \A s \in Sessions : Settled(s) /\ RowEnding(s)
          /\ \A r \in Requests : RequestEnding(r)
          /\ \A w \in Workers, s \in Sessions : EntryEnding(w, s)

(* What a step may do to the tables, to a request and to a call. *)
EntryOn(v, t) ==
    /\ table'[v][t] # "none" =>
          \/ table[v][t] # "none" /\ (transport[v][t].hooked => transport'[v][t].hooked)
          \/ transport'[v][t].hooked /\ t \in answered /\ t \notin ended'
    /\ table'[v][t] = "live" => table[v][t] = "live" \/ (transport'[v][t].hooked /\ t \notin ended')
EntriesOn == \A v \in Workers, t \in Sessions : EntryOn(v, t) \/ (creator[t] = Absent /\ EntryEnding(v, t)')
Moved(q) ==
    /\ Busy(q) /\ req'[q].w = req[q].w /\ req'[q].s = req[q].s /\ req'[q].kind = req[q].kind
    /\ req'[q].via = req[q].via /\ req'[q].known = req[q].known
    /\ req'[q].pc \in {"opening", "recording"} => req[q].pc \in {"opening", "recording"}
    /\ req'[q].pc \in {"lookup", "locking", "touching"} => req[q].via = "adopt"
    /\ req'[q].pc \in {"handling", "deleting"} /\ req[q].via = "sdk" => req[q].known
EndSeen(q) == Opening(q) /\ req[q].s \in ended' /\ req[q].s \notin answered =>
    req[q].s \in ended \/ table'[req[q].w][req[q].s] = "none"
NoticesOn(q) == Notices(q) /\ req[q].s \in ended' =>
    \/ Notices(q)' /\ req'[q].s = req[q].s
    \/ req[q].s \in lost'
    \/ EndCall(q)' /\ call'[q].s = req[q].s
HookStaysDue(q) == HookDue(q) =>
    \/ HookDue(q)' /\ req'[q].s = req[q].s /\ req'[q].w = req[q].w
    \/ table'[req[q].w][req[q].s] # "live" \/ transport'[req[q].w][req[q].s].hooked
RequestOn(q) == /\ Busy(q)' => RequestEnding(q)' \/ (Moved(q) /\ EndSeen(q))
                /\ NoticesOn(q) /\ HookStaysDue(q)
CallOn(c) == EndCall(c) /\ call[c].s \in ended' =>
    (EndCall(c)' /\ call'[c].s = call[c].s) \/ call[c].s \in lost'
NewEnds == \A s \in (answered' \cap ended') \ lost' : s \in answered \cap ended \/ Pending(s)'

LEMMA MovedEnding ==
    ASSUME Typed, Who, Ending, EntriesOn, NEW q \in Requests, Moved(q), EndSeen(q), answered \subseteq answered'
    PROVE  RequestEnding(q)'
<1>1. PICK s \in Sessions, w \in Workers : s = req[q].s /\ w = req[q].w
  BY RequestParts DEF Moved
<1>2. /\ Busy(q) /\ req'[q].s = s /\ req'[q].w = w /\ RequestEnding(q) /\ RequestWho(q)
      /\ req'[q].kind = req[q].kind /\ req'[q].via = req[q].via /\ req'[q].known = req[q].known
  BY <1>1 DEF Moved, Ending, Who
<1>3. creator[s] # Absent
  BY <1>1, <1>2 DEF RequestWho
<1>4. \A v \in Workers : EntryOn(v, s)
  BY <1>3 DEF EntriesOn
<1>5. ASSUME req[q].kind = "open", req'[q].pc \in {"opening", "recording"}, s \in ended'
      PROVE  table'[w][s] = "none"
  <2>1. req[q].pc \in {"opening", "recording"}
    BY <1>5 DEF Moved
  <2>2. s \notin answered
    BY <1>1, <1>2, <1>5, <2>1 DEF RequestWho
  <2>3. s \in ended => table[w][s] = "none"
    BY <1>1, <1>2, <1>5, <2>1 DEF RequestEnding
  <2>4. s \in ended \/ table'[w][s] = "none"
    BY <1>1, <1>2, <1>5, <2>2 DEF EndSeen, Opening
  <2> QED
    BY <1>4, <1>5, <2>3, <2>4 DEF EntryOn
<1>6. ASSUME req[q].kind = "open", s \notin answered', NEW v \in Workers, table'[v][s] # "none"
      PROVE  v = w
  BY <1>1, <1>2, <1>4, <1>6 DEF RequestEnding, EntryOn
<1>7. ASSUME req[q].via = "adopt"
      PROVE  table'[w][s] = "none" \/ transport'[w][s].hooked
  BY <1>1, <1>2, <1>4, <1>7 DEF RequestEnding, EntryOn
<1> QED
  BY <1>2, <1>5, <1>6, <1>7 DEF RequestEnding, Moved

LEMMA NoticesMoved ==
    ASSUME Typed, Who, EntriesOn, NEW q \in Requests, Moved(q),
           IF req[q].kind = "open"
           THEN req'[q].pc \in {"streaming", "reconcile", "reconciling"} /\ req'[q].registered = req[q].registered
           ELSE req'[q].pc \in {"handling", "deleting", "reconcile"}
    PROVE  NoticesOn(q)
<1>1. PICK s \in Sessions, w \in Workers : s = req[q].s /\ w = req[q].w
  BY RequestParts DEF Moved
<1>2. /\ Busy(q) /\ req'[q].s = s /\ req'[q].w = w /\ RequestWho(q)
      /\ req'[q].kind = req[q].kind /\ req'[q].via = req[q].via /\ req'[q].known = req[q].known
  BY <1>1 DEF Moved, Who
<1>3. EntryOn(w, s)
  BY <1>1, <1>2 DEF EntriesOn, RequestWho
<1> SUFFICES ASSUME Notices(q), s \in ended' PROVE Notices(q)'
  BY <1>1, <1>2 DEF NoticesOn
<1>4. Busy(q)'
  BY DEF Busy
<1>5. CASE req[q].kind = "open"
  <2>1. table[w][s] = "none" /\ req[q].registered
    BY <1>1, <1>5 DEF Notices, Opening
  <2>2. table'[w][s] = "none"
    BY <1>3, <2>1 DEF EntryOn
  <2> QED
    BY <1>2, <1>4, <1>5, <2>1, <2>2 DEF Notices, Opening
<1>6. CASE req[q].kind # "open"
  <2>1. table[w][s] # "live" /\ req[q].via = "sdk" /\ req[q].known
    BY <1>1, <1>6 DEF Notices, Opening
  <2>2. table'[w][s] # "live"
    BY <1>3, <2>1 DEF EntryOn
  <2> QED
    BY <1>2, <1>4, <1>6, <2>1, <2>2 DEF Notices, Opening
<1> QED
  BY <1>5, <1>6

(* A request that stays where it is. *)
LEMMA StaysOn ==
    ASSUME Typed, Who, Ending, EntriesOn, NEW q \in Requests, req'[q] = req[q], EndSeen(q)
    PROVE  RequestOn(q)
<1>1. RequestEnding(q) /\ (Busy(q)' <=> Busy(q))
  BY DEF Ending, Busy
<1>2. Busy(q) => Moved(q)
  BY <1>1 DEF Moved, RequestEnding
<1>3. NoticesOn(q)
  <2>1. CASE Notices(q)
    <3>1. Moved(q)
      BY <1>2, <2>1 DEF Notices, Opening
    <3> QED
      BY <2>1, <3>1, NoticesMoved DEF Notices, Opening
  <2>2. CASE ~ Notices(q)
    BY <2>2 DEF NoticesOn
  <2> QED
    BY <2>1, <2>2
<1>4. HookStaysDue(q)
  BY DEF HookStaysDue, HookDue, Opening, Busy
<1> QED
  BY <1>1, <1>2, <1>3, <1>4 DEF RequestOn

LEMMA PendingKept ==
    ASSUME Typed, \A q \in Requests : NoticesOn(q), \A c \in Callers : c # Admin => CallOn(c),
           NEW s \in ended', Pending(s), s \notin lost'
    PROVE  Pending(s)'
<1>1. CASE \E c \in Callers : c # Admin /\ EndCall(c) /\ call[c].s = s
  BY <1>1 DEF CallOn, Pending
<1>2. CASE \E r \in Requests : Notices(r) /\ req[r].s = s
  BY <1>2, CallerFacts DEF NoticesOn, Pending
<1> QED
  BY <1>1, <1>2 DEF Pending

LEMMA EndingKept ==
    ASSUME Typed, Who, Ending, UNCHANGED <<backend, reg, legacy, endWritten>>,
           answered \subseteq answered', lost \subseteq lost', answered' \subseteq Sessions,
           \A s \in Sessions : creator'[s] = Absent => creator[s] = Absent,
           \A s \in ended' : s \in ended \/ (legacy[s] = {} /\ creator[s] # Absent),
           EntriesOn, \A q \in Requests : RequestOn(q), \A c \in Callers : c # Admin => CallOn(c), NewEnds
    PROVE  Ending'
<1>1. ASSUME NEW s \in Sessions PROVE Settled(s)'
  <2> SUFFICES ASSUME s \in (answered' \cap ended') \ lost', legacy[s] = {}, Adoptable(s)
               PROVE  Pending(s)'
    BY DEF Settled, Adoptable, Found
  <2>1. CASE s \in answered \cap ended
    <3>1. Pending(s)
      BY <2>1 DEF Ending, Settled
    <3> QED
      BY <3>1, PendingKept DEF RequestOn
  <2> QED
    BY <2>1 DEF NewEnds
<1>2. ASSUME NEW s \in Sessions PROVE RowEnding(s)'
  BY DEF Ending, RowEnding
<1>3. ASSUME NEW r \in Requests PROVE RequestEnding(r)'
  <2>1. CASE Busy(r)'
    BY <2>1, MovedEnding DEF RequestOn
  <2>2. CASE ~ Busy(r)'
    BY <2>2 DEF RequestEnding
  <2> QED
    BY <2>1, <2>2
<1>4. ASSUME NEW w \in Workers, NEW s \in Sessions PROVE EntryEnding(w, s)'
  <2> SUFFICES ASSUME EntryOn(w, s), table'[w][s] = "live", ~ transport'[w][s].hooked
               PROVE  \E r \in Requests : HookDue(r)' /\ req'[r].s = s /\ req'[r].w = w
    BY DEF EntriesOn, EntryEnding
  <2>1. table[w][s] = "live" /\ ~ transport[w][s].hooked
    BY DEF EntryOn
  <2>2. PICK r \in Requests : HookDue(r) /\ req[r].s = s /\ req[r].w = w
    BY <2>1 DEF Ending, EntryEnding
  <2> QED
    BY <2>2 DEF RequestOn, HookStaysDue
<1> QED
  BY <1>1, <1>2, <1>3, <1>4 DEF Ending

(* What a session must be when a step of a request ends it. *)
Settles(s) == s \in answered \/ \A w \in Workers : table'[w][s] = "none"

(* A step of the request r. *)
LEMMA OneEnding ==
    ASSUME Typed, Who, Ending, NEW r \in Requests, OnlyRequest(r), OnlyCall(r),
           UNCHANGED <<backend, reg, legacy, endWritten>>,
           answered \subseteq answered', lost \subseteq lost', answered' \subseteq Sessions,
           \A s \in Sessions : creator'[s] = Absent => creator[s] = Absent,
           \A s \in ended' : s \in ended \/ (Settles(s) /\ legacy[s] = {} /\ creator[s] # Absent),
           EntriesOn, RequestOn(r), CallOn(r), NewEnds
    PROVE  Ending'
<1>1. ASSUME NEW q \in Requests PROVE RequestOn(q)
  <2>1. CASE q = r
    BY <2>1
  <2>2. CASE q # r
    <3>1. Opening(q) => req[q].w \in Workers
      BY RequestParts DEF Opening
    <3>2. EndSeen(q)
      BY <3>1 DEF EndSeen, Settles
    <3> QED
      BY <2>2, <3>2, StaysOn DEF OnlyRequest
  <2> QED
    BY <2>1, <2>2
<1>2. ASSUME NEW c \in Callers, c # Admin PROVE CallOn(c)
  <2>1. CASE c = r
    BY <2>1
  <2>2. CASE c # r
    <3>1. call'[c] = call[c]
      BY <2>2 DEF OnlyCall
    <3> QED
      BY <3>1 DEF CallOn, EndCall
  <2> QED
    BY <2>1, <2>2
<1>3. \A s \in ended' : s \in ended \/ (legacy[s] = {} /\ creator[s] # Absent)
  OBVIOUS
<1> QED
  BY <1>1, <1>2, <1>3, EndingKept

LEMMA SameEntries == UNCHANGED <<table, transport>> => EntriesOn
BY DEF EntriesOn, EntryOn

LEMMA PopEntries ==
    ASSUME Typed, NEW w \in Workers, NEW s \in Sessions, Pop(w, s) \/ ForgetEnded(w, s)
    PROVE  EntriesOn
<1>1. CASE Pop(w, s)
  BY <1>1, PopFacts DEF EntriesOn, EntryOn, OnlyEntry
<1>2. CASE UNCHANGED <<table, transport>>
  BY <1>2, SameEntries
<1> QED
  BY <1>1, <1>2 DEF ForgetEnded, Keep

LEMMA NoEndCall ==
    ASSUME Typed, Who, NEW r \in Requests, ~ Busy(r) \/ req[r].pc \notin {"deleting", "last"} \/ ~ Going(r)
    PROVE  CallOn(r)
<1>1. EndCall(r) => Busy(r) /\ req[r].pc \in {"deleting", "last"} /\ Going(r)
  BY DEF Who, RequestCall, EndCall, Going
<1> QED
  BY <1>1 DEF CallOn

LEMMA SameEnds ==
    ASSUME answered' = answered, ended' \subseteq ended
    PROVE  NewEnds /\ \A s \in ended' : s \in ended \/ (Settles(s) /\ legacy[s] = {} /\ creator[s] # Absent)
BY DEF NewEnds

LEMMA OpensEnding ==
    ASSUME Typed, Who, Ending, NEW r \in Requests, NEW w \in Workers, NEW s \in Sessions, NEW p \in Principals,
           Opens(r, w, s, p)
    PROVE  Ending'
<1>1. /\ UNCHANGED <<backend, reg, legacy, endWritten, call, answered, ended, lost>> /\ creator[s] = Absent
      /\ creator' = [creator EXCEPT ![s] = p] /\ ~ Busy(r)
  BY DEF Opens, registry, Busy, Free
<1> DEFINE o == [pc |-> "opening", w |-> w, s |-> s, who |-> p, kind |-> "open",
                  via |-> "sdk", known |-> FALSE, registered |-> FALSE, refused |-> FALSE, handshake |-> TRUE]
<1>2. OnlyRequest(r) /\ req'[r] = o
  BY DEF Opens, OnlyRequest, Typed, RequestsTyped
<1>3. /\ Busy(r)' /\ Opening(r)' /\ req'[r].s = s /\ req'[r].w = w /\ req'[r].pc = "opening"
      /\ req'[r].kind = "open" /\ req'[r].via = "sdk"
  BY <1>2 DEF Busy, Opening
<1>4. \A t \in Sessions : creator'[t] = Absent => creator[t] = Absent
  BY <1>1, RegistryAssumption DEF Typed, HistoryTyped
<1> DEFINE tr == [NoTransport EXCEPT !.owner = p, !.initialized = TRUE]
<1>5. Put(w, s, "live", tr) /\ tr \in Transports
  BY DEF Opens, NoTransport, Transports
<1> HIDE DEF tr, o
<1>6. OnlyEntry(w, s) /\ table'[w][s] = "live"
  BY <1>5, PutFacts
<1>7. \A v \in Workers : table[v][s] = "none"
  BY <1>1 DEF Who, EntryWho
<1>8. s \notin ended
  BY <1>1 DEF Ending, RowEnding
<1>9. EntriesOn
  <2>1. EntryEnding(w, s)'
    BY <1>3 DEF EntryEnding, HookDue
  <2>2. ASSUME NEW v \in Workers, NEW t \in Sessions, v # w \/ t # s PROVE EntryOn(v, t)
    BY <1>6, <2>2 DEF OnlyEntry, EntryOn
  <2> QED
    BY <1>1, <2>1, <2>2 DEF EntriesOn
<1>10. RequestEnding(r)'
  <2>1. \A v \in Workers : table'[v][s] # "none" => v = w
    BY <1>6, <1>7 DEF OnlyEntry
  <2> QED
    BY <1>1, <1>3, <1>8, <2>1 DEF RequestEnding
<1>11. RequestOn(r)
  BY <1>1, <1>10 DEF RequestOn, NoticesOn, Notices, HookStaysDue, HookDue, Opening
<1>12. CallOn(r) /\ OnlyCall(r)
  BY <1>1, NoEndCall DEF OnlyCall
<1>13. answered \in SUBSET Sessions
  BY DEF Typed, HistoryTyped
<1> QED
  BY <1>1, <1>2, <1>4, <1>9, <1>11, <1>12, <1>13, SameEnds, OneEnding

LEMMA OpeningEnding ==
    ASSUME Typed, Who, Ending, NEW r \in Requests,
           ResponseStarts(r) \/ Answers(r) \/ Opened(r) \/ OpeningFails(r)
    PROVE  Ending'
<1>1. /\ Busy(r) /\ req[r].pc \in {"opening", "recording", "streaming"}
      /\ UNCHANGED <<backend, reg, legacy, endWritten, creator, lost>>
  BY DEF Busy, ResponseStarts, Answers, Opened, OpeningFails, registry
<1>2. PICK s \in Sessions, w \in Workers : s = req[r].s /\ w = req[r].w
  BY <1>1, RequestParts
<1>14. ended' = ended \/ (OpeningFails(r) /\ Pop(w, s) /\ ended' = ended \cup {s} /\ answered' = answered)
  BY <1>2 DEF ResponseStarts, Answers, Opened, OpeningFails, Ended
<1>3. /\ req[r] \in Kept /\ RequestWho(r) /\ req[r].kind = "open" /\ Opening(r)
      /\ req[r].pc = "opening" => ~ req[r].registered
      /\ req[r].pc \in {"recording", "streaming"} => req[r].registered
  BY <1>1, RequestParts DEF RequestWho, Opening
<1>4. CallOn(r) /\ OnlyCall(r)
  <2>1. OnlyCall(r)
    BY RequestOnlyCall DEF RequestStep
  <2> QED
    BY <1>1, <2>1, NoEndCall
<1>5. /\ answered' = answered \/ (Answers(r) /\ answered' = answered \cup {s})
      /\ answered' \subseteq Sessions
  BY <1>2 DEF ResponseStarts, Answers, Opened, OpeningFails, Typed, HistoryTyped
<1>6. EntriesOn
  <2>1. UNCHANGED <<table, transport>> \/ Pop(w, s)
    BY <1>2 DEF ResponseStarts, Answers, Opened, OpeningFails, Keep
  <2> QED
    BY <2>1, SameEntries, PopEntries
<1>7. /\ OnlyRequest(r) /\ req'[r].w = w /\ req'[r].s = s /\ req'[r].kind = "open" /\ req'[r].via = req[r].via
      /\ req'[r].known = req[r].known
      /\ req'[r].pc = IF ResponseStarts(r) THEN "recording" ELSE IF Answers(r) THEN "streaming" ELSE "reconcile"
      /\ ~ ResponseStarts(r) => req'[r].registered = req[r].registered
  <2>1. CASE ResponseStarts(r)
    <3>1. req' = [req EXCEPT ![r].pc = "recording", ![r].registered = TRUE]
      BY <2>1 DEF ResponseStarts
    <3>2. OnlyRequest(r) /\ req'[r] = [req[r] EXCEPT !.pc = "recording", !.registered = TRUE]
      BY <3>1 DEF Typed, RequestsTyped, OnlyRequest
    <3> QED
      BY <1>2, <1>3, <2>1, <3>2 DEF Kept
  <2>2. CASE ~ ResponseStarts(r)
    <3>1. At(r, IF Answers(r) THEN "streaming" ELSE "reconcile")
      <4>1. CASE Answers(r)
        BY <4>1 DEF Answers
      <4>2. CASE ~ Answers(r)
        BY <2>2, <4>2 DEF Opened, OpeningFails
      <4> QED
        BY <4>1, <4>2
    <3> DEFINE pc == IF Answers(r) THEN "streaming" ELSE "reconcile"
    <3>2. pc \in PCs /\ At(r, pc)
      BY <3>1 DEF PCs
    <3> HIDE DEF pc
    <3>3. /\ OnlyRequest(r) /\ req'[r].pc = pc /\ req'[r].w = req[r].w /\ req'[r].s = req[r].s
          /\ req'[r].kind = req[r].kind /\ req'[r].via = req[r].via /\ req'[r].known = req[r].known
          /\ req'[r].registered = req[r].registered
      BY ONLY Typed, r \in Requests, <1>1, <3>2, AtFacts
    <3> QED
      BY <1>2, <1>3, <2>2, <3>3 DEF pc
  <2> QED
    BY <2>1, <2>2
<1>8. Moved(r)
  <2>1. req'[r].pc \in {"opening", "recording"} => req[r].pc \in {"opening", "recording"}
    BY <1>7 DEF ResponseStarts
  <2> QED
    BY <1>1, <1>2, <1>3, <1>7, <2>1 DEF Moved
<1>9. NoticesOn(r)
  <2>1. CASE ResponseStarts(r)
    BY <1>3, <2>1 DEF ResponseStarts, NoticesOn, Notices, Opening
  <2>2. CASE ~ ResponseStarts(r)
    BY <1>3, <1>6, <1>7, <1>8, <2>2, NoticesMoved
  <2> QED
    BY <2>1, <2>2
<1>10. HookStaysDue(r)
  <2>1. HookDue(r)' /\ req'[r].s = req[r].s /\ req'[r].w = req[r].w
    BY <1>2, <1>7 DEF HookDue, Opening, Busy
  <2> QED
    BY <2>1 DEF HookStaysDue
<1>11. RequestOn(r)
  <2>1. EndSeen(r)
    BY <1>2, <1>14, PopFacts DEF EndSeen
  <2> QED
    BY <1>1, <1>8, <1>9, <1>10, <2>1 DEF RequestOn
<1>15. ASSUME OpeningFails(r), Pop(w, s) PROVE s \in answered => Pending(s)'
  <2>1. req'[r].pc = "reconcile" /\ (s \in answered => req'[r].registered)
    BY <1>1, <1>2, <1>3, <1>7, <1>15 DEF OpeningFails, ResponseStarts, Answers, RequestWho, Busy, At
  <2>2. table'[w][s] = "none"
    BY <1>15, PopFacts
  <2> QED
    BY <1>2, <1>7, <2>1, <2>2 DEF Pending, Notices, Opening, Busy
<1>16. ASSUME ended' = ended PROVE NewEnds
  <2> SUFFICES ASSUME Answers(r), s \in ended PROVE Pending(s)'
    BY <1>5, <1>16 DEF NewEnds
  <2>1. req[r].pc = "recording" /\ table' = table /\ ~ ResponseStarts(r)
    BY DEF Answers, ResponseStarts
  <2>2. table[w][s] = "none"
    BY <1>1, <1>2, <1>3, <2>1 DEF Ending, RequestEnding
  <2>3. Notices(r)'
    BY <1>2, <1>3, <1>7, <2>1, <2>2 DEF Notices, Opening, Busy
  <2> QED
    BY <1>7, <2>3 DEF Pending
<1>12. NewEnds
  BY <1>14, <1>15, <1>16 DEF NewEnds
<1>17. ASSUME OpeningFails(r), Pop(w, s) PROVE Settles(s) /\ legacy[s] = {} /\ creator[s] # Absent
  <2>1. legacy[s] = {} /\ creator[s] # Absent
    BY <1>1, <1>2, <1>3 DEF RequestWho
  <2>2. ASSUME s \notin answered, NEW v \in Workers PROVE table'[v][s] = "none"
    <3>1. table[v][s] # "none" => v = w
      BY <1>1, <1>2, <1>3, <2>2 DEF Ending, RequestEnding
    <3> QED
      BY <1>17, <3>1, PopFacts DEF OnlyEntry
  <2> QED
    BY <2>1, <2>2 DEF Settles
<1>13. \A t \in ended' : t \in ended \/ (Settles(t) /\ legacy[t] = {} /\ creator[t] # Absent)
  BY <1>14, <1>17
<1> QED
  BY <1>1, <1>4, <1>5, <1>6, <1>7, <1>11, <1>12, <1>13, OneEnding

(* The SDK takes a request, or it is let in from the registry. *)
LEMMA SdkEnding ==
    ASSUME Typed, Who, NEW r \in Requests, NEW w \in Workers, NEW s \in Sessions, NEW p \in Principals,
           NEW k \in {"use", "delete"}, SdkTakes(r, w, s, p, k)
    PROVE  OnlyRequest(r) /\ RequestEnding(r)'
<1>1. /\ OnlyRequest(r) /\ req'[r].pc \in {"handling", "reconcile"}
      /\ req'[r].pc = "handling" <=> (table[w][s] = "live" /\ transport[w][s].owner = p)
      /\ req'[r].kind = k /\ req'[r].via = "sdk" /\ (req'[r].known <=> table[w][s] # "none")
  BY SdkFacts
<1>2. req'[r].pc = "handling" => req'[r].known
  BY <1>1
<1> QED
  BY <1>1, <1>2 DEF RequestEnding

LEMMA ArrivesEnding ==
    ASSUME Typed, Who, Ending, NEW r \in Requests, NEW w \in Workers, NEW s \in Sessions, NEW p \in Principals,
           NEW k \in {"use", "delete"}, Arrives(r, w, s, p, k)
    PROVE  Ending'
<1>1. /\ UNCHANGED <<backend, reg, legacy, endWritten, call, answered, ended, lost, creator, table, transport>>
      /\ ~ Busy(r) /\ answered \in SUBSET Sessions
  BY DEF Arrives, registry, Busy, Free, Typed, HistoryTyped
<1>2. OnlyRequest(r) /\ RequestEnding(r)'
  <2> DEFINE o == [pc |-> "lookup", w |-> w, s |-> s, who |-> p, kind |-> k, via |-> "adopt", known |-> FALSE,
                   registered |-> FALSE, refused |-> FALSE, handshake |-> FALSE]
  <2>1. CASE req' = [req EXCEPT ![r] = o] /\ table[w][s] = "none"
    <3>1. OnlyRequest(r) /\ req'[r] = o
      BY <2>1 DEF Typed, RequestsTyped, OnlyRequest
    <3>2. /\ req'[r].pc = "lookup" /\ req'[r].via = "adopt" /\ req'[r].kind = k
          /\ req'[r].w = w /\ req'[r].s = s /\ ~ req'[r].known
      BY <3>1
    <3> HIDE DEF o
    <3>3. table'[w][s] = "none"
      BY <1>1, <2>1
    <3> QED
      BY <3>1, <3>2, <3>3 DEF RequestEnding
  <2>2. CASE SdkTakes(r, w, s, p, k)
    BY <2>2, SdkEnding
  <2> QED
    BY <2>1, <2>2 DEF Arrives
<1>3. RequestOn(r)
  BY <1>1, <1>2 DEF RequestOn, NoticesOn, Notices, HookStaysDue, HookDue, Opening
<1>4. CallOn(r) /\ OnlyCall(r) /\ EntriesOn
  BY <1>1, NoEndCall, SameEntries DEF OnlyCall
<1> QED
  BY <1>1, <1>2, <1>3, <1>4, SameEnds, OneEnding

LEMMA LooksUpEnding ==
    ASSUME Typed, Who, Ending, NEW r \in Requests, LooksUp(r) \/ LookupFails(r)
    PROVE  Ending'
<1>1. /\ UNCHANGED <<backend, reg, legacy, endWritten, call, answered, ended, lost, creator, table, transport>>
      /\ Busy(r) /\ req[r].pc = "lookup" /\ answered \in SUBSET Sessions
  BY DEF LooksUp, LookupFails, registry, Busy, Typed, HistoryTyped
<1> DEFINE w == req[r].w  s == req[r].s  p == req[r].who  k == req[r].kind
<1>2. /\ w \in Workers /\ s \in Sessions /\ p \in Principals /\ k \in {"use", "delete"} /\ req[r] \in Kept
      /\ RequestEnding(r)
  BY <1>1, RequestParts DEF RequestWho, Ending
<1>3. OnlyRequest(r) /\ (RequestEnding(r)' \/ (Moved(r) /\ EndSeen(r)))
  <2>1. CASE req' = [req EXCEPT ![r].pc = "locking", ![r].handshake = reg[s].handshake]
    <3>1. OnlyRequest(r) /\ req'[r] = [req[r] EXCEPT !.pc = "locking", !.handshake = reg[s].handshake]
      BY <2>1 DEF Typed, RequestsTyped, OnlyRequest
    <3>2. /\ req'[r].pc = "locking" /\ req'[r].w = w /\ req'[r].s = s /\ req'[r].kind = k
          /\ req'[r].via = req[r].via /\ req'[r].known = req[r].known
      BY <1>2, <3>1 DEF Kept
    <3>3. Moved(r) /\ EndSeen(r)
      BY <1>1, <1>2, <3>2 DEF Moved, EndSeen, RequestEnding
    <3> QED
      BY <3>1, <3>3
  <2>2. CASE SdkTakes(r, w, s, p, k)
    <3> HIDE DEF w, s, p, k
    <3> QED
      BY <1>2, <2>2, SdkEnding
  <2> QED
    BY <2>1, <2>2 DEF LooksUp, LookupFails
<1>4. RequestOn(r)
  BY <1>1, <1>2, <1>3 DEF RequestOn, NoticesOn, Notices, HookStaysDue, HookDue, Opening
<1>5. CallOn(r) /\ OnlyCall(r) /\ EntriesOn
  BY <1>1, NoEndCall, SameEntries DEF OnlyCall
<1> QED
  BY <1>1, <1>3, <1>4, <1>5, SameEnds, OneEnding

LEMMA AdoptsEnding ==
    ASSUME Typed, Who, Ending, NEW r \in Requests, Adopts(r) \/ Touched(r)
    PROVE  Ending'
<1>1. /\ UNCHANGED <<backend, reg, legacy, endWritten, answered, lost, creator>>
      /\ Busy(r) /\ req[r].pc \in {"locking", "touching"} /\ answered \in SUBSET Sessions /\ ended' \subseteq ended
  BY DEF Adopts, Touched, registry, Busy, Typed, HistoryTyped
<1>2. PICK s \in Sessions, w \in Workers : s = req[r].s /\ w = req[r].w
  BY <1>1, RequestParts
<1>3. /\ req[r] \in Kept /\ RequestWho(r) /\ req[r].kind # "open" /\ req[r].via = "adopt" /\ s \in answered
  <2>1. req[r] \in Kept /\ RequestWho(r) /\ RequestEnding(r)
    BY <1>1, RequestParts DEF Ending
  <2> QED
    BY <1>1, <1>2, <2>1 DEF RequestWho, Accepted, RequestEnding
<1>4. CallOn(r) /\ OnlyCall(r)
  <2>1. OnlyCall(r)
    BY RequestOnlyCall DEF RequestStep
  <2> QED
    BY <1>1, <2>1, NoEndCall
<1>5. EntriesOn
  <2>1. CASE UNCHANGED <<table, transport>>
    BY <2>1, SameEntries
  <2>2. CASE ended' = ended \ {s} /\ Put(w, s, "live", Adopted(req[r].who, req[r].handshake))
    <3> DEFINE tr == Adopted(req[r].who, req[r].handshake)
    <3>1. tr \in Transports /\ tr.hooked
      BY <1>3 DEF Adopted, Transports, Kept
    <3> HIDE DEF tr
    <3>2. OnlyEntry(w, s) /\ table'[w][s] = "live" /\ transport'[w][s] = tr
      BY <2>2, <3>1, PutFacts DEF tr
    <3> QED
      BY <1>3, <2>2, <3>1, <3>2 DEF EntriesOn, EntryOn, OnlyEntry
  <2> QED
    BY <1>2, <2>1, <2>2 DEF Adopts, Touched, Keep
<1>6. OnlyRequest(r) /\ (~ Busy(r)' \/ Moved(r))
  <2>1. CASE Ends(r)
    BY <2>1, EndsFacts DEF Free, Busy
  <2>2. CASE \E pc \in {"handling", "touching"} : At(r, pc)
    <3>1. PICK pc \in {"handling", "touching"} : At(r, pc)
      BY <2>2
    <3>2. pc \in PCs
      BY DEF PCs
    <3>3. /\ OnlyRequest(r) /\ req'[r].pc = pc /\ req'[r].w = req[r].w /\ req'[r].s = req[r].s
          /\ req'[r].kind = req[r].kind /\ req'[r].via = req[r].via /\ req'[r].known = req[r].known
      BY ONLY Typed, r \in Requests, <1>1, <3>1, <3>2, AtFacts
    <3> QED
      BY <1>1, <1>3, <3>3 DEF Moved
  <2> QED
    BY <2>1, <2>2 DEF Adopts, Touched
<1>7. RequestOn(r)
  BY <1>1, <1>3, <1>6 DEF RequestOn, EndSeen, NoticesOn, Notices, HookStaysDue, HookDue, Opening
<1> QED
  BY <1>1, <1>4, <1>5, <1>6, <1>7, SameEnds, OneEnding

LEMMA HandlingEnding ==
    ASSUME Typed, Who, Ending, NEW r \in Requests, Handled(r) \/ Deletes(r) \/ Deleted(r)
    PROVE  Ending'
<1>1. /\ UNCHANGED <<backend, reg, legacy, endWritten, answered, lost, creator>>
      /\ Busy(r) /\ req[r].pc \in {"handling", "deleting"} /\ answered \in SUBSET Sessions
      /\ req[r].pc = "deleting" => ~ Going(r)
  BY DEF Handled, Deletes, Deleted, registry, Busy, Typed, HistoryTyped
<1>2. PICK s \in Sessions, w \in Workers : s = req[r].s /\ w = req[r].w
  BY <1>1, RequestParts
<1>3. /\ req[r] \in Kept /\ RequestWho(r) /\ req[r].kind # "open" /\ s \in answered
      /\ req[r].via \in {"adopt", "sdk"} /\ (req[r].via = "sdk" => req[r].known)
      /\ req[r].via = "adopt" => table[w][s] = "none" \/ transport[w][s].hooked
  <2>1. req[r] \in Kept /\ RequestWho(r) /\ RequestEnding(r)
    BY <1>1, RequestParts DEF Ending
  <2> QED
    BY <1>1, <1>2, <2>1 DEF RequestWho, Accepted, RequestEnding, Kept
<1>4. CallOn(r) /\ OnlyCall(r)
  <2>1. OnlyCall(r)
    BY RequestOnlyCall DEF RequestStep
  <2> QED
    BY <1>1, <2>1, NoEndCall
<1>5. EntriesOn
  <2>1. CASE Deletes(r)
    <3>1. table' = [table EXCEPT ![w][s] = "ended"] /\ transport' = transport /\ table[w][s] = "live"
      BY <1>2, <2>1 DEF Deletes
    <3>2. /\ table'[w][s] = "ended"
          /\ \A v \in Workers, t \in Sessions : v # w \/ t # s => table'[v][t] = table[v][t]
      BY <3>1 DEF Typed, TablesTyped
    <3> QED
      BY <3>1, <3>2 DEF EntriesOn, EntryOn
  <2>2. CASE Handled(r) \/ Deleted(r)
    BY <1>2, <2>2, PopEntries DEF Handled, Deleted, Leaves
  <2> QED
    BY <2>1, <2>2
<1>6. /\ OnlyRequest(r)
      /\ \/ req'[r] = Free /\ req[r].via = "adopt" /\ ~ Deletes(r)
         \/ /\ req'[r].pc \in {"deleting", "reconcile"} /\ (Deletes(r) => req'[r].pc = "deleting")
            /\ req'[r].w = w /\ req'[r].s = s
            /\ req'[r].kind = req[r].kind /\ req'[r].via = req[r].via /\ req'[r].known = req[r].known
  <2>1. CASE Ends(r) /\ req[r].via = "adopt" /\ ~ Deletes(r)
    BY <2>1, EndsFacts
  <2>2. CASE \E pc \in {"deleting", "reconcile"} : At(r, pc) /\ (Deletes(r) => pc = "deleting")
    <3>1. PICK pc \in {"deleting", "reconcile"} : At(r, pc) /\ (Deletes(r) => pc = "deleting")
      BY <2>2
    <3>2. pc \in PCs
      BY DEF PCs
    <3>3. /\ OnlyRequest(r) /\ req'[r].pc = pc /\ req'[r].w = req[r].w /\ req'[r].s = req[r].s
          /\ req'[r].kind = req[r].kind /\ req'[r].via = req[r].via /\ req'[r].known = req[r].known
      BY ONLY Typed, r \in Requests, <1>1, <3>1, <3>2, AtFacts
    <3> QED
      BY <1>2, <3>1, <3>3
  <2>3. CASE Deletes(r)
    <3>1. At(r, "deleting")
      BY <2>3 DEF Deletes
    <3> QED
      BY <2>2, <3>1
  <2>4. CASE ~ Deletes(r)
    <3>1. (Ends(r) /\ req[r].via = "adopt") \/ At(r, "reconcile")
      BY <2>4 DEF Handled, Deleted, Leaves
    <3> QED
      BY <2>1, <2>2, <2>4, <3>1
  <2> QED
    BY <2>3, <2>4
<1>7. ~ Busy(r)' \/ Moved(r)
  <2>1. CASE req'[r] = Free
    BY <2>1 DEF Busy, Free
  <2>2. CASE req'[r] # Free
    BY <1>1, <1>2, <1>3, <1>6, <2>2 DEF Moved
  <2> QED
    BY <2>1, <2>2
<1>8. NoticesOn(r)
  <2>1. CASE req[r].via = "adopt"
    BY <1>3, <2>1 DEF NoticesOn, Notices, Opening
  <2>2. CASE req[r].via # "adopt"
    <3>1. Moved(r) /\ req'[r].pc \in {"deleting", "reconcile"}
      BY <1>1, <1>2, <1>3, <1>6, <2>2 DEF Moved
    <3> QED
      BY <1>3, <1>5, <3>1, NoticesMoved
  <2> QED
    BY <2>1, <2>2
<1>9. RequestOn(r)
  BY <1>1, <1>2, <1>3, <1>7, <1>8 DEF RequestOn, EndSeen, HookStaysDue, HookDue, Opening
<1>10. NewEnds /\ \A t \in ended' : t \in ended \/ (t \in answered /\ legacy[t] = {} /\ creator[t] # Absent)
  <2>1. CASE Deletes(r)
    <3>1. ended' = ended \cup {s} /\ table[w][s] = "live"
      BY <1>2, <2>1 DEF Deletes, Ended
    <3>2. legacy[s] = {} /\ creator[s] # Absent
      BY <3>1 DEF Who, EntryWho
    <3>3. Pending(s)'
      <4>1. CASE transport[w][s].hooked
        <5>1. Call(r, "hook", s, Absent) /\ r \in Callers /\ r # Admin
          BY <1>2, <2>1, <4>1, CallerFacts DEF Deletes
        <5>2. call'[r].op = "hook" /\ call'[r].s = s
          BY ONLY Typed, <5>1, CallDoes
        <5> QED
          BY <5>1, <5>2 DEF Pending, EndCall
      <4>2. CASE ~ transport[w][s].hooked
        <5>1. req[r].via = "sdk" /\ req[r].known
          BY <1>3, <3>1, <4>2
        <5>2. table'[w][s] = "ended"
          BY <1>2, <2>1 DEF Deletes, Typed, TablesTyped
        <5>3. /\ req'[r].pc = "deleting" /\ req'[r].w = w /\ req'[r].s = s
              /\ req'[r].kind # "open" /\ req'[r].via = "sdk" /\ req'[r].known
          BY <1>3, <1>6, <2>1, <5>1
        <5>4. Notices(r)'
          BY <5>2, <5>3 DEF Notices, Busy
        <5> QED
          BY <5>3, <5>4 DEF Pending
      <4> QED
        BY <4>1, <4>2
    <3> QED
      BY <1>1, <1>3, <3>1, <3>2, <3>3 DEF NewEnds
  <2>2. CASE Handled(r) \/ Deleted(r)
    BY <1>1, <2>2, SameEnds DEF Handled, Deleted
  <2> QED
    BY <2>1, <2>2
<1> QED
  BY <1>1, <1>4, <1>5, <1>6, <1>9, <1>10, OneEnding DEF Settles

LEMMA ReconcileEnding ==
    ASSUME Typed, Who, Ending, NEW r \in Requests,
           ReconcileCreated(r) \/ ReconcileVanished(r) \/ ReconcileUsed(r) \/ Reconciled(r)
    PROVE  Ending'
<1>1. /\ UNCHANGED <<backend, reg, legacy, endWritten, answered, creator, ended, table>>
      /\ Busy(r) /\ req[r].pc \in {"reconcile", "reconciling", "last"} /\ answered \in SUBSET Sessions
      /\ req[r].pc = "last" => ~ Going(r)
      /\ lost \subseteq lost'
  BY DEF ReconcileCreated, ReconcileVanished, ReconcileUsed, Reconciled, registry, Busy, Typed, HistoryTyped, Untold
<1>2. PICK s \in Sessions, w \in Workers : s = req[r].s /\ w = req[r].w
  BY <1>1, RequestParts
<1>3. /\ req[r] \in Kept /\ RequestWho(r)
      /\ table[w][s] \in {"none", "live", "ended"} /\ ended \subseteq causes
  BY <1>1, RequestParts DEF Typed, TablesTyped, HistoryTyped
<1>4. CallOn(r) /\ OnlyCall(r)
  <2>1. OnlyCall(r)
    BY RequestOnlyCall DEF RequestStep
  <2> QED
    BY <1>1, <2>1, NoEndCall
<1>5. EntriesOn /\ (table[w][s] # "none" /\ ReconcileCreated(r) => transport'[w][s].hooked)
  <2>1. CASE transport' = transport /\ ~ (ReconcileCreated(r) /\ table[w][s] # "none")
    BY <1>1, <2>1, SameEntries
  <2>2. CASE transport' = [transport EXCEPT ![w][s].hooked = TRUE]
    <3>1. transport \in [Workers -> [Sessions -> Transports]] /\ transport[w][s] \in Transports
      BY DEF Typed, TablesTyped
    <3> DEFINE tr == [transport[w][s] EXCEPT !.hooked = TRUE]
    <3>2. tr.hooked
      BY <3>1 DEF Transports
    <3>3. transport' = [transport EXCEPT ![w] = [transport[w] EXCEPT ![s] = tr]]
      BY <2>2
    <3> HIDE DEF tr
    <3>4. transport'[w][s] = tr
      BY <3>1, <3>3
    <3>5. \A v \in Workers, t \in Sessions : v # w \/ t # s => transport'[v][t] = transport[v][t]
      BY <3>1, <3>3
    <3>6. EntriesOn
      BY <1>1, <3>2, <3>4, <3>5 DEF EntriesOn, EntryOn
    <3> QED
      BY <3>2, <3>4, <3>6
  <2> QED
    BY <1>2, <2>1, <2>2 DEF ReconcileCreated, ReconcileVanished, ReconcileUsed, Reconciled
<1>6. /\ OnlyRequest(r)
      /\ \/ req'[r] = Free /\ req[r].pc = "last"
         \/ /\ req'[r].pc = (IF ReconcileCreated(r) THEN "reconciling" ELSE "last")
            /\ req'[r].w = w /\ req'[r].s = s
            /\ req'[r].kind = req[r].kind /\ req'[r].via = req[r].via /\ req'[r].known = req[r].known
            /\ req'[r].registered = req[r].registered
  <2>1. CASE Ends(r) /\ req[r].pc = "last"
    BY <2>1, EndsFacts
  <2> DEFINE pc == IF ReconcileCreated(r) THEN "reconciling" ELSE "last"
  <2>2. CASE At(r, pc)
    <3>1. pc \in PCs
      BY DEF PCs
    <3> HIDE DEF pc
    <3>2. /\ OnlyRequest(r) /\ req'[r].pc = pc /\ req'[r].w = req[r].w /\ req'[r].s = req[r].s
          /\ req'[r].kind = req[r].kind /\ req'[r].via = req[r].via /\ req'[r].known = req[r].known
          /\ req'[r].registered = req[r].registered
      BY ONLY Typed, r \in Requests, <1>1, <2>2, <3>1, AtFacts
    <3> QED
      BY <1>2, <3>2 DEF pc
  <2>3. (Ends(r) /\ req[r].pc = "last") \/ At(r, pc)
    <3>1. CASE ReconcileCreated(r)
      BY <3>1 DEF ReconcileCreated
    <3>2. CASE ~ ReconcileCreated(r)
      BY <3>2 DEF ReconcileVanished, ReconcileUsed, Reconciled
    <3> QED
      BY <3>1, <3>2
  <2> QED
    BY <2>1, <2>2, <2>3
<1>7. ~ Busy(r)' \/ Moved(r)
  <2>1. CASE req'[r] = Free
    BY <2>1 DEF Busy, Free
  <2>2. CASE req'[r] # Free
    BY <1>1, <1>2, <1>6, <2>2 DEF Moved
  <2> QED
    BY <2>1, <2>2
<1>8. NoticesOn(r)
  <2> SUFFICES ASSUME Notices(r), s \in ended
               PROVE  \/ Notices(r)' /\ req'[r].s = req[r].s
                      \/ s \in lost'
                      \/ EndCall(r)' /\ call'[r].s = s
    BY <1>1, <1>2 DEF NoticesOn
  <2>0. ASSUME Call(r, "terminate", s, Absent) PROVE EndCall(r)' /\ call'[r].s = s
    <3>1. r \in Callers
      BY CallerFacts
    <3>2. call'[r].op = "terminate" /\ call'[r].s = s
      BY ONLY Typed, <2>0, <3>1, CallDoes
    <3> QED
      BY <3>2 DEF EndCall
  <2>1. CASE ReconcileCreated(r)
    <3>1. req[r].kind = "open" /\ req[r].pc = "reconcile"
      BY <2>1 DEF ReconcileCreated
    <3>2. req'[r].pc = "reconciling" /\ req'[r].registered = req[r].registered /\ Moved(r)
      BY <1>6, <1>7, <2>1, <3>1 DEF Busy, Free
    <3>3. NoticesOn(r)
      BY <1>5, <3>1, <3>2, NoticesMoved
    <3> QED
      BY <1>1, <1>2, <3>3 DEF NoticesOn
  <2>2. CASE ReconcileVanished(r)
    <3>1. req[r].pc = "reconciling"
      BY <2>2 DEF ReconcileVanished
    <3>2. req[r].registered /\ table[w][s] = "none"
      BY <1>2, <3>1 DEF Notices
    <3>3. CASE Stopping(w)
      BY <1>2, <1>3, <2>2, <3>2, <3>3 DEF ReconcileVanished, Untold
    <3>4. CASE ~ Stopping(w)
      BY <1>2, <2>0, <2>2, <3>2, <3>4 DEF ReconcileVanished
    <3> QED
      BY <3>3, <3>4
  <2>3. CASE ReconcileUsed(r)
    <3>1. req[r].pc = "reconcile" /\ req[r].kind # "open"
      BY <2>3 DEF ReconcileUsed
    <3>2. req[r].known /\ table[w][s] # "live"
      BY <1>2, <3>1 DEF Notices, Opening
    <3>3. CASE EndedHere(r)
      BY <1>2, <2>0, <2>3, <3>3 DEF ReconcileUsed
    <3>4. CASE ~ EndedHere(r)
      <4>1. Stopping(w)
        BY <1>2, <1>3, <3>2, <3>4 DEF EndedHere
      <4> QED
        BY <1>2, <1>3, <2>3, <3>2, <4>1 DEF ReconcileUsed, Untold
    <3> QED
      BY <3>3, <3>4
  <2>4. CASE Reconciled(r)
    BY <2>4 DEF Reconciled, Notices
  <2> QED
    BY <2>1, <2>2, <2>3, <2>4
<1>9. HookStaysDue(r)
  <2> SUFFICES ASSUME HookDue(r), table'[w][s] = "live" PROVE transport'[w][s].hooked
    BY <1>2 DEF HookStaysDue
  <2>1. ReconcileCreated(r)
    BY DEF HookDue, Opening, ReconcileVanished, ReconcileUsed, Reconciled
  <2> QED
    BY <1>1, <1>5, <2>1
<1>10. RequestOn(r)
  BY <1>1, <1>7, <1>8, <1>9 DEF RequestOn, EndSeen
<1> QED
  BY <1>1, <1>4, <1>5, <1>6, <1>10, SameEnds, OneEnding

(* Requests stay where they are. *)
LEMMA StillEnding ==
    ASSUME Typed, Who, Ending, UNCHANGED <<req, backend, reg, legacy, endWritten, answered, creator>>,
           lost \subseteq lost', EntriesOn, \A q \in Requests : EndSeen(q),
           \A s \in ended' : s \in ended \/ (legacy[s] = {} /\ creator[s] # Absent),
           \A c \in Callers : c # Admin => CallOn(c), NewEnds
    PROVE  Ending'
<1>1. \A q \in Requests : RequestOn(q)
  BY StaysOn
<1>2. answered' \subseteq Sessions
  BY DEF Typed, HistoryTyped
<1> QED
  BY <1>1, <1>2, EndingKept

LEMMA OthersOn ==
    ASSUME NEW c \in Callers, OnlyCall(c), CallOn(c)
    PROVE  \A d \in Callers : CallOn(d)
<1> SUFFICES ASSUME NEW d \in Callers, d # c PROVE CallOn(d)
  OBVIOUS
<1>1. call'[d] = call[d]
  BY DEF OnlyCall
<1> QED
  BY <1>1 DEF CallOn, EndCall

LEMMA HookEnding ==
    ASSUME Typed, Who, Ending, NEW c \in Callers, NEW w \in Workers, HookRecords(c, w)
    PROVE  Ending'
<1>1. /\ UNCHANGED <<req, backend, reg, legacy, endWritten, answered, creator, ended, table, transport>>
      /\ lost \subseteq lost' /\ ended \subseteq causes
  BY DEF HookRecords, Untold, Typed, HistoryTyped
<1>2. OnlyCall(c) /\ CallOn(c)
  <2>1. CASE Return(c) /\ Untold({call[c].s})
    BY <1>1, <2>1, ReturnFacts DEF CallOn, Untold
  <2>2. CASE Call(c, "terminate", call[c].s, Absent)
    <3>1. OnlyCall(c) /\ call'[c].op = "terminate" /\ call'[c].s = call[c].s
      BY ONLY Typed, c \in Callers, <2>2, CallDoes
    <3> QED
      BY <3>1 DEF CallOn, EndCall
  <2> QED
    BY <2>1, <2>2 DEF HookRecords
<1> QED
  BY <1>1, <1>2, OthersOn, SameEntries, SameEnds, StillEnding DEF EndSeen

LEMMA DropsEnding ==
    ASSUME Typed, Who, Ending, NEW w \in Workers, NEW s \in Sessions,
           IdlesOut(w, s) \/ ServerFails(w, s) \/ Cancels(w, s)
    PROVE  Ending'
<1>1. /\ UNCHANGED <<req, backend, reg, legacy, endWritten, answered, creator, lost>> /\ Pop(w, s)
      /\ table[w][s] = "live" /\ <<w, s>> \in Callers /\ <<w, s>> # Admin
  BY CallerFacts DEF IdlesOut, ServerFails, Cancels, registry
<1>2. EntriesOn /\ table'[w][s] = "none"
  BY <1>1, PopEntries, PopFacts
<1>3. legacy[s] = {} /\ creator[s] # Absent
  BY <1>1 DEF Who, EntryWho
<1>4. OnlyCall(<<w, s>>) /\ CallOn(<<w, s>>)
  <2>1. CASE UNCHANGED call
    BY <2>1 DEF OnlyCall, CallOn, EndCall
  <2>2. CASE Call(<<w, s>>, "hook", s, Absent) /\ ~ Going(<<w, s>>)
    <3>1. OnlyCall(<<w, s>>)
      BY <1>1, <2>2, CallDoes
    <3> QED
      BY <2>2, <3>1 DEF CallOn, EndCall, Going
  <2> QED
    BY <2>1, <2>2 DEF IdlesOut, ServerFails, Cancels, registry
<1>5. CASE ended' = ended
  BY <1>1, <1>2, <1>4, <1>5, OthersOn, SameEnds, StillEnding DEF EndSeen
<1>6. CASE IdlesOut(w, s) \/ (ServerFails(w, s) /\ Missed(w, s))
  <2>1. ended' = ended \cup {s}
    BY <1>6 DEF IdlesOut, ServerFails, Ended
  <2>2. ASSUME NEW q \in Requests PROVE EndSeen(q)
    <3> SUFFICES ASSUME Opening(q), req[q].s = s, s \notin answered PROVE req[q].w = w
      BY <1>2, <2>1 DEF EndSeen
    <3> QED
      BY <1>1 DEF Ending, RequestEnding, Opening
  <2>3. NewEnds
    <3> SUFFICES ASSUME s \in answered PROVE Pending(s)'
      BY <1>1, <2>1 DEF NewEnds
    <3>3. CASE Missed(w, s)
      <4>1. PICK q \in Requests : /\ Busy(q) /\ req[q].w = w /\ req[q].s = s /\ req[q].pc # "last"
                                  /\ req[q].kind = "open" \/ req[q].known
        BY <3>3 DEF Missed, On, Busy
      <4>2. /\ req[q].kind = "open" => req[q].pc \in {"streaming", "reconcile", "reconciling"} /\ req[q].registered
            /\ req[q].kind # "open" => req[q].pc \in {"handling", "deleting", "reconcile"} /\ req[q].via = "sdk"
        BY <4>1, BusyFacts DEF Who, RequestWho, Kept, PCs, Ending, RequestEnding
      <4>3. Notices(q)'
        BY <1>1, <1>2, <4>1, <4>2 DEF Notices, Opening, Busy
      <4> QED
        BY <1>1, <4>1, <4>3 DEF Pending
    <3>1. CASE IdlesOut(w, s) /\ transport[w][s].hooked
      <4>1. Call(<<w, s>>, "hook", s, Absent)
        BY <3>1 DEF IdlesOut
      <4>2. call'[<<w, s>>].op = "hook" /\ call'[<<w, s>>].s = s
        BY ONLY Typed, <1>1, <4>1, CallDoes
      <4> QED
        BY <1>1, <4>2 DEF Pending, EndCall
    <3>2. CASE ~ transport[w][s].hooked
      <4>1. PICK q \in Requests : HookDue(q) /\ req[q].s = s /\ req[q].w = w
        BY <1>1, <3>2 DEF Ending, EntryEnding
      <4>2. req[q].pc \in {"streaming", "reconcile"} /\ req[q].registered
        BY <4>1 DEF Who, RequestWho, HookDue, Opening
      <4>3. Notices(q)'
        BY <1>1, <1>2, <4>1, <4>2 DEF Notices, HookDue, Opening, Busy
      <4> QED
        BY <1>1, <4>1, <4>3 DEF Pending
    <3> QED
      BY <1>6, <3>1, <3>2, <3>3
  <2> QED
    BY <1>1, <1>2, <1>3, <1>4, <2>1, <2>2, <2>3, OthersOn, StillEnding
<1> QED
  BY <1>5, <1>6 DEF ServerFails, Cancels

LEMMA PhaseEnding ==
    ASSUME Typed, Who, Ending, NEW w \in Workers, Stops(w) \/ Starts(w) \/ Dies(w)
    PROVE  Ending'
<1>1. CASE Stops(w) \/ Starts(w)
  <2>1. UNCHANGED <<req, call, backend, reg, legacy, endWritten, answered, creator, ended, lost, table, transport>>
    BY <1>1 DEF Stops, Starts, registry
  <2> QED
    BY <2>1, SameEntries, SameEnds, StillEnding DEF EndSeen, CallOn, EndCall
<1>2. CASE Dies(w)
  <2>1. /\ UNCHANGED <<backend, reg, legacy, endWritten, answered, creator, ended>>
        /\ lost' = lost \cup (({req[r].s : r \in On(w)} \cup {s \in Sessions : Going(<<w, s>>)}) \cap causes)
        /\ ended \subseteq causes
    BY <1>2 DEF Dies, Untold, Typed, HistoryTyped
  <2>2. EntriesOn
    <3>1. ASSUME NEW v \in Workers, NEW t \in Sessions PROVE EntryOn(v, t)
      <4>1. CASE v = w
        BY <1>2, <4>1, DiesFacts DEF EntryOn
      <4>2. CASE v # w
        BY <1>2, <4>2, DiesFacts DEF EntryOn
      <4> QED
        BY <4>1, <4>2
    <3> QED
      BY <3>1 DEF EntriesOn
  <2>3. ASSUME NEW q \in Requests, Busy(q), ~ Busy(q)' PROVE q \in On(w)
    <3>1. req' = [r \in Requests |-> IF r \in On(w) THEN Free ELSE req[r]]
      BY <1>2 DEF Dies
    <3> QED
      BY <2>3, <3>1 DEF Busy
  <2>4. ASSUME NEW q \in Requests, req'[q] = Free, Busy(q) PROVE req[q].s \in ended => req[q].s \in lost'
    BY <2>1, <2>3, <2>4 DEF Busy, Free
  <2>5. ASSUME NEW q \in Requests PROVE RequestOn(q)
    <3>1. CASE req'[q] = req[q]
      BY <2>1, <3>1, <2>2, StaysOn DEF EndSeen
    <3>2. CASE req'[q] = Free /\ Busy(q)
      <4>1. q \in On(w)
        BY <2>3, <3>2 DEF Busy, Free
      <4>2. req[q].w = w /\ req[q].s \in Sessions
        BY <3>2, <4>1, RequestParts DEF On
      <4>3. table'[req[q].w][req[q].s] # "live"
        BY <1>2, <4>2, DiesFacts
      <4> QED
        BY <2>1, <2>4, <3>2, <4>3 DEF RequestOn, Busy, Free, NoticesOn, HookStaysDue
    <3>3. (req'[q] = Free /\ call'[q] = NoCall) \/ req'[q] = req[q]
      BY <1>2, DiesFacts
    <3>4. CASE ~ Busy(q)
      <4>1. req[q] \notin Kept
        BY <3>4 DEF Busy, Kept, PCs
      <4>2. req[q] = Free
        BY <4>1 DEF Typed, RequestsTyped
      <4> QED
        BY <3>1, <3>3, <4>2
    <3> QED
      BY <3>1, <3>2, <3>3, <3>4
  <2>6. ASSUME NEW c \in Callers, c # Admin PROVE CallOn(c)
    <3>1. CASE c \in Requests
      <4>1. CASE call'[c] = call[c]
        BY <4>1 DEF CallOn, EndCall
      <4>2. CASE req'[c] = Free /\ EndCall(c)
        <5>1. Busy(c) /\ call[c].s = req[c].s
          BY <3>1, <4>2 DEF Who, RequestCall, EndCall, Going
        <5> QED
          BY <2>1, <2>4, <3>1, <4>2, <5>1 DEF CallOn
      <4> QED
        BY <1>2, <3>1, <4>1, <4>2, DiesFacts DEF CallOn
    <3>2. CASE \E v \in Workers, s \in Sessions : c = <<v, s>>
      <4>1. PICK v \in Workers, s \in Sessions : c = <<v, s>>
        BY <3>2
      <4>2. CASE v # w
        <5>1. call'[c] = call[c]
          BY <1>2, <4>1, <4>2, DiesFacts
        <5> QED
          BY <5>1 DEF CallOn, EndCall
      <4>3. CASE v = w
        <5>1. EndCall(c) => Going(<<w, s>>) /\ call[c].s = s
          BY <4>1, <4>3 DEF Who, TaskCall, EndCall, Going
        <5> QED
          BY <2>1, <5>1 DEF CallOn
      <4> QED
        BY <4>2, <4>3
    <3> QED
      BY <2>6, <3>1, <3>2, CallerFacts
  <2>7. NewEnds /\ answered' \subseteq Sessions
    BY <2>1, SameEnds DEF Typed, HistoryTyped
  <2>8. \A s \in ended' : s \in ended \/ (legacy[s] = {} /\ creator[s] # Absent)
    BY <2>1
  <2>9. answered \subseteq answered' /\ lost \subseteq lost'
    BY <2>1
  <2> QED
    BY <2>1, <2>2, <2>5, <2>6, <2>7, <2>8, <2>9, EndingKept
<1> QED
  BY <1>1, <1>2

LEMMA OutsideEnding ==
    ASSUME Typed, Who, Ending,
           \/ \E c \in Callers : CallFails(c)
           \/ \E s \in Sessions : OperatorTerminates(s)
    PROVE  Ending'
<1>1. /\ UNCHANGED <<req, backend, reg, legacy, endWritten, answered, creator, ended, table, transport>>
      /\ lost \subseteq lost'
  BY DEF CallFails, OperatorTerminates, Cause
<1>2. \A c \in Callers : c # Admin => CallOn(c)
  <2>1. CASE \E c \in Callers : CallFails(c)
    <3>1. PICK c \in Callers : CallFails(c)
      BY <2>1
    <3>2. OnlyCall(c) /\ (call[c].op = "terminate" => call[c].s \in lost')
      BY <3>1, ReturnFacts DEF CallFails
    <3>3. CallOn(c)
      BY <3>1, <3>2 DEF CallOn, EndCall, CallFails
    <3> QED
      BY <3>2, <3>3, OthersOn
  <2>2. CASE \E s \in Sessions : OperatorTerminates(s)
    <3>1. PICK s \in Sessions : Call(Admin, "terminate", s, Absent)
      BY <2>2 DEF OperatorTerminates
    <3>2. OnlyCall(Admin)
      BY ONLY Typed, <3>1, CallerFacts, CallDoes
    <3> QED
      BY <3>2 DEF OnlyCall, CallOn, EndCall
  <2> QED
    BY <2>1, <2>2
<1> QED
  BY <1>1, <1>2, SameEntries, SameEnds, StillEnding DEF EndSeen

(* A step of the registry: no row that an end is owed to becomes adoptable, *)
(* and a call that owes it goes on until the row is not.                    *)
LEMMA RowsEnding ==
    ASSUME Typed, Ending, UNCHANGED <<table, transport, req, creator, answered, ended, lost>>,
           \A c \in Callers, s \in Sessions : c # Admin /\ EndCall(c) /\ call[c].s = s =>
               (EndCall(c)' /\ call'[c].s = s) \/ ~ Adoptable(s)',
           \A s \in Sessions : RowEnding(s)',
           \A s \in Sessions : s \in answered /\ s \in ended /\ legacy'[s] = {} =>
               ~ Adoptable(s)' \/ (legacy[s] = {} /\ Adoptable(s))
    PROVE  Ending'
<1>1. ASSUME NEW s \in Sessions PROVE Settled(s)'
  <2> SUFFICES ASSUME s \in (answered \cap ended) \ lost, legacy'[s] = {}, Adoptable(s)' PROVE Pending(s)'
    BY DEF Settled
  <2>1. Pending(s)
    BY DEF Ending, Settled
  <2>2. CASE \E c \in Callers : c # Admin /\ EndCall(c) /\ call[c].s = s
    <3>1. PICK c \in Callers : c # Admin /\ EndCall(c) /\ call[c].s = s
      BY <2>2
    <3>2. EndCall(c)' /\ call'[c].s = s
      BY <3>1
    <3> QED
      BY <3>1, <3>2 DEF Pending
  <2>3. CASE \E r \in Requests : Notices(r) /\ req[r].s = s
    <3>1. PICK r \in Requests : Notices(r) /\ req[r].s = s
      BY <2>3
    <3>2. Notices(r)' /\ req'[r].s = s
      BY <3>1 DEF Notices, Opening, Busy
    <3> QED
      BY <3>2 DEF Pending
  <2> QED
    BY <2>1, <2>2, <2>3 DEF Pending
<1>2. ASSUME NEW r \in Requests PROVE RequestEnding(r)'
  BY DEF Ending, RequestEnding, Busy
<1>3. ASSUME NEW w \in Workers, NEW s \in Sessions PROVE EntryEnding(w, s)'
  BY DEF Ending, EntryEnding, HookDue, Opening, Busy
<1> QED
  BY <1>1, <1>2, <1>3 DEF Ending

LEMMA AgesEnding ==
    ASSUME Typed, Ending, Ages
    PROVE  Ending'
<1>1. PICK s \in Sessions : reg' = [reg EXCEPT ![s].recent = FALSE]
  BY DEF Ages
<1>2. UNCHANGED <<backend, legacy, call, endWritten, table, transport, req, creator, answered, ended, lost>>
  BY DEF Ages
<1>3. /\ OnlyRow(s) /\ reg'[s].terminated = reg[s].terminated /\ reg'[s].exists = reg[s].exists
      /\ reg'[s].owner = reg[s].owner /\ reg'[s].created = reg[s].created
  BY <1>1, RecentFacts DEF Typed, StoreTyped, RegTyped
<1>4. ASSUME NEW t \in Sessions PROVE (Adoptable(t)' <=> Adoptable(t)) /\ RowEnding(t)'
  <2>1. /\ reg'[t].terminated = reg[t].terminated /\ reg'[t].exists = reg[t].exists
        /\ reg'[t].owner = reg[t].owner /\ reg'[t].created = reg[t].created
    BY <1>3 DEF OnlyRow
  <2>2. RowEnding(t)
    BY DEF Ending
  <2> QED
    BY <1>2, <2>1, <2>2 DEF Adoptable, Found, Whole, RowEnding
<1>5. \A c \in Callers : EndCall(c)' <=> EndCall(c)
  BY <1>2 DEF EndCall
<1> QED
  BY <1>2, <1>4, <1>5, RowsEnding

LEMMA ServedEnding ==
    ASSUME Typed, Who, Ending, NEW c \in Callers, call[c].op \in {"register", "touch", "terminate"}, Served(c),
           UNCHANGED manager
    PROVE  Ending'
<1>0. PICK s \in Sessions : s = call[c].s
  BY CalledWho
<1>1. /\ OnlyRow(s) /\ OnlyCall(c) /\ UNCHANGED <<backend, legacy>>
      /\ UNCHANGED <<table, transport, req, creator, answered, ended, lost>>
  BY <1>0 DEF Served, manager
<1>2. reg[s].exists \in BOOLEAN /\ reg[s].created \in BOOLEAN /\ RowEnding(s)
  BY RowFields DEF Typed, StoreTyped, Ending
<1>3. call[c].op = "register" => s \notin answered
  <2> SUFFICES ASSUME call[c].op = "register" PROVE s \notin answered
    OBVIOUS
  <2>1. c \in Requests
    BY CalledWho
  <2>2. RequestCall(c) /\ RequestWho(c) /\ Going(c)
    BY <2>1 DEF Who, Going
  <2> QED
    BY <1>0, <2>2 DEF RequestCall, RequestWho
<1>4. call[c].op = "touch" => (Adoptable(s)' <=> Adoptable(s))
  <2>1. CASE SqlServed(c)
    BY <1>0, <1>1, <1>2, <2>1 DEF SqlServed, Adoptable, Found
  <2>2. CASE RdLooked(c)
    BY <1>1, <2>2 DEF RdLooked, Adoptable, Found
  <2>3. CASE RdServed(c)
    BY <1>0, <1>1, <1>2, <2>3 DEF RdServed, Adoptable, Found, Whole
  <2> QED
    BY <2>1, <2>2, <2>3 DEF Served
<1>5. call[c].op = "terminate" => (EndCall(c)' /\ call'[c].s = s) \/ ~ Adoptable(s)'
  <2>1. CASE SqlServed(c)
    BY <1>0, <1>1, <1>2, <2>1 DEF SqlServed, Adoptable, Found
  <2>2. CASE RdLooked(c)
    <3>1. CASE reg[s].exists
      BY <1>0, <2>2, <3>1 DEF RdLooked, EndCall
    <3>2. CASE ~ reg[s].exists
      BY <1>1, <1>2, <2>2, <3>2 DEF RdLooked, Adoptable, Found, Whole, RowEnding
    <3> QED
      BY <3>1, <3>2
  <2>3. CASE RdServed(c)
    BY <1>0, <2>3 DEF RdServed, Adoptable
  <2> QED
    BY <2>1, <2>2, <2>3 DEF Served
<1>6. call[c].op = "terminate" => ~ Adoptable(s)' \/ Adoptable(s)
  <2>1. CASE SqlServed(c)
    BY <1>0, <1>1, <1>2, <2>1 DEF SqlServed, Adoptable, Found
  <2>2. CASE RdLooked(c)
    BY <1>1, <2>2 DEF RdLooked, Adoptable, Found
  <2>3. CASE RdServed(c)
    BY <1>0, <2>3 DEF RdServed, Adoptable
  <2> QED
    BY <2>1, <2>2, <2>3 DEF Served
<1>7. endWritten \subseteq endWritten' /\ (backend = "redis" /\ reg'[s].created => reg'[s].exists)
  <2>1. CASE SqlServed(c)
    BY <2>1 DEF SqlServed
  <2>2. CASE RdLooked(c)
    BY <1>2, <2>2 DEF RdLooked, RowEnding
  <2>3. CASE RdServed(c)
    BY <1>0, <1>2, <2>3 DEF RdServed, RowEnding, RegisterSteps
  <2> QED
    BY <2>1, <2>2, <2>3 DEF Served
<1>8. ASSUME NEW t \in Sessions PROVE RowEnding(t)'
  <2>1. RowEnding(t) /\ (t # s => reg'[t] = reg[t])
    BY <1>1 DEF Ending, OnlyRow
  <2> QED
    BY <1>1, <1>7, <2>1 DEF RowEnding
<1>9. ASSUME NEW d \in Callers, NEW t \in Sessions, EndCall(d), call[d].s = t
      PROVE  (EndCall(d)' /\ call'[d].s = t) \/ ~ Adoptable(t)'
  <2>1. CASE d = c
    BY <1>0, <1>5, <1>9, <2>1 DEF EndCall
  <2>2. CASE d # c
    <3>1. call'[d] = call[d]
      BY <1>1, <2>2 DEF OnlyCall
    <3> QED
      BY <1>9, <3>1 DEF EndCall
  <2> QED
    BY <2>1, <2>2
<1>10. ASSUME NEW t \in Sessions, t \in answered, t \in ended, legacy'[t] = {}
       PROVE  ~ Adoptable(t)' \/ (legacy[t] = {} /\ Adoptable(t))
  <2>1. CASE t = s
    BY <1>1, <1>3, <1>4, <1>6, <1>10, <2>1
  <2>2. CASE t # s
    <3>1. reg'[t] = reg[t]
      BY <1>1, <2>2 DEF OnlyRow
    <3> QED
      BY <1>1, <1>10, <3>1 DEF Adoptable, Found
  <2> QED
    BY <2>1, <2>2
<1> QED
  BY <1>1, <1>8, <1>9, <1>10, RowsEnding

LEMMA RegistryEnding ==
    ASSUME Typed, Who, Lasting, Ending, RegistryStep, UNCHANGED manager
    PROVE  Ending'
<1>1. RegTyped /\ UNCHANGED <<table, transport, req, creator, answered, ended, lost>>
  BY DEF Typed, StoreTyped, RegTyped, manager
<1>2. ASSUME \A c \in Callers : c # Admin => call'[c] = call[c], endWritten' = endWritten,
             \A s \in Sessions : RowEnding(s)',
             \A s \in Sessions : s \in answered /\ s \in ended /\ legacy'[s] = {} =>
                 ~ Adoptable(s)' \/ (legacy[s] = {} /\ Adoptable(s))
      PROVE  Ending'
  <2>1. \A c \in Callers : c # Admin /\ EndCall(c) => EndCall(c)' /\ call'[c].s = call[c].s
    BY <1>2 DEF EndCall
  <2> QED
    BY <1>1, <1>2, <2>1, RowsEnding
<1>3. ASSUME \A c \in Callers : c # Admin => call'[c] = call[c], UNCHANGED <<backend, legacy, endWritten>>,
             \A s \in Sessions : \/ /\ reg'[s].exists = reg[s].exists /\ reg'[s].owner = reg[s].owner
                                    /\ reg'[s].terminated = reg[s].terminated /\ reg'[s].created = reg[s].created
                                 \/ ~ reg'[s].exists /\ ~ reg'[s].created
      PROVE  Ending'
  <2>1. ASSUME NEW s \in Sessions PROVE RowEnding(s)' /\ (Adoptable(s)' => Adoptable(s))
    <3>1. CASE /\ reg'[s].exists = reg[s].exists /\ reg'[s].owner = reg[s].owner
               /\ reg'[s].terminated = reg[s].terminated /\ reg'[s].created = reg[s].created
      BY <1>1, <1>3, <3>1 DEF Ending, RowEnding, Adoptable, Found, Whole
    <3>2. CASE ~ reg'[s].exists /\ ~ reg'[s].created
      BY <1>1, <1>3, <3>2 DEF Ending, RowEnding, Adoptable, Found, Whole
    <3> QED
      BY <1>3, <3>1, <3>2
  <2> QED
    BY <1>2, <1>3, <2>1
<1>4. CASE \E c \in Callers : call[c].op \in {"register", "touch", "terminate"}
                              /\ (SqlCall(c) \/ RdExists(c) \/ RdWrite(c))
  BY <1>4, Serves, ServedEnding
<1>5. CASE MigrateNullTenants
  <2>1. /\ \A s \in Sessions : reg'[s] = IF legacy[s] = {} THEN reg[s] ELSE Merged(s)
        /\ (\A s \in Sessions : legacy'[s] = {}) /\ UNCHANGED <<backend, call, endWritten>>
    BY <1>1, <1>5, MigrateFacts DEF MigrateNullTenants
  <2>2. backend # "redis"
    BY <1>5 DEF MigrateNullTenants, Who, RowWho
  <2>3. ASSUME NEW s \in Sessions PROVE RowEnding(s)'
    BY <1>1, <2>1, <2>2 DEF Ending, RowEnding
  <2>4. ASSUME NEW s \in Sessions, s \in ended PROVE ~ Adoptable(s)' \/ (legacy[s] = {} /\ Adoptable(s))
    <3>1. CASE legacy[s] = {}
      BY <2>1, <3>1 DEF Adoptable, Found
    <3>2. CASE legacy[s] # {}
      <4>1. s \in endWritten
        BY <2>4, <3>2 DEF Ending, RowEnding
      <4>2. TRUE \in legacy[s] \cup {reg[s].terminated}
        BY <3>2, <4>1 DEF Lasting, EndKept
      <4>3. reg'[s].terminated = TRUE
        BY <1>1, <2>1, <3>2, <4>2, MergedFacts
      <4> QED
        BY <4>3 DEF Adoptable
    <3> QED
      BY <3>1, <3>2
  <2> QED
    BY <1>2, <2>1, <2>3, <2>4
<1>6. CASE SqlPurge
  <2>1. /\ UNCHANGED <<backend, legacy, call, endWritten>>
        /\ \A s \in Sessions : reg'[s] = IF s \in Old THEN NoRow ELSE reg[s]
    BY <1>1, <1>6, PurgedFacts DEF SqlPurge, PgPurge, SqlitePurge
  <2> QED
    BY <1>3, <2>1, NoRowFacts
<1>7. CASE RdPurgeRead \/ RdListRead
  <2>1. UNCHANGED <<backend, reg, legacy, endWritten>> /\ \A c \in Callers : c # Admin => call'[c] = call[c]
    BY <1>7 DEF RdPurgeRead, RdListRead, Typed, CallsTyped
  <2> QED
    BY <1>3, <2>1
<1>8. CASE RdPurgeDelete
  <2>1. /\ \A s \in Sessions : reg'[s] = IF s \in call[Admin].s THEN NoRow ELSE reg[s]
        /\ Return(Admin) /\ UNCHANGED <<backend, legacy, endWritten>>
    BY <1>1, <1>8, PurgedFacts DEF RdPurgeDelete
  <2>2. \A c \in Callers : c # Admin => call'[c] = call[c]
    BY <2>1, ReturnFacts, CallerFacts DEF OnlyCall
  <2> QED
    BY <1>3, <2>1, <2>2, NoRowFacts
<1>9. CASE RdListForgets
  <2>1. PICK s \in Sessions : /\ reg' = [reg EXCEPT ![s].indexed = FALSE, ![s].recent = FALSE]
                              /\ Return(Admin) /\ UNCHANGED <<backend, legacy, endWritten>>
    BY <1>9, AdminKinds DEF RdListForgets, Typed
  <2>2. \A c \in Callers : c # Admin => call'[c] = call[c]
    BY <2>1, ReturnFacts, CallerFacts DEF OnlyCall
  <2>3. /\ OnlyRow(s) /\ reg'[s].exists = reg[s].exists /\ reg'[s].owner = reg[s].owner
        /\ reg'[s].terminated = reg[s].terminated /\ reg'[s].created = reg[s].created
    BY ONLY <1>1, <2>1, ForgetsFacts
  <2> QED
    BY <1>3, <2>1, <2>2, <2>3 DEF OnlyRow
<1>10. CASE Expire
  <2>1. PICK s \in Sessions : reg' = [reg EXCEPT ![s] = [NoRow EXCEPT !.indexed = reg[s].indexed]]
    BY <1>10 DEF Expire
  <2>2. UNCHANGED <<backend, legacy, call, endWritten>>
    BY <1>10 DEF Expire
  <2>3. OnlyRow(s) /\ ~ reg'[s].exists /\ ~ reg'[s].created
    BY <1>1, <2>1, ExpireFacts
  <2> QED
    BY <1>3, <2>2, <2>3 DEF OnlyRow
<1> QED
  BY <1>4, <1>5, <1>6, <1>7, <1>8, <1>9, <1>10 DEF RegistryStep

LEMMA EndingInit == Init => Ending
<1> SUFFICES ASSUME Init PROVE Ending
  OBVIOUS
<1>1. /\ \A r \in Requests : req[r] = Free
      /\ \A w \in Workers, s \in Sessions : table[w][s] = "none"
      /\ ended = endWritten
      /\ endWritten = {s \in Sessions : TRUE \in legacy[s] \cup {reg[s].terminated}}
      /\ answered = {s \in Sessions : legacy[s] # {}}
      /\ \A s \in Sessions : reg[s].exists => legacy[s] # {}
      /\ creator = [s \in Sessions |-> IF legacy[s] # {} THEN Nobody ELSE Absent]
  BY DEF Init
<1>2. ASSUME NEW s \in Sessions PROVE Settled(s)
  BY <1>1 DEF Settled
<1>3. ASSUME NEW s \in Sessions PROVE reg[s] = NoRow \/ reg[s].exists
  <2>1. reg[s] = NoRow \/ \E b \in BOOLEAN : reg[s] = [FreshRow(Nobody) EXCEPT !.terminated = b]
    BY DEF Init
  <2>2. (\E b \in BOOLEAN : reg[s] = [FreshRow(Nobody) EXCEPT !.terminated = b]) => reg[s].exists
    BY DEF FreshRow, NoRow
  <2> QED
    BY <2>1, <2>2
<1>4. ASSUME NEW s \in Sessions PROVE RowEnding(s)
  <2>1. creator[s] = Absent => s \notin ended
    <3> SUFFICES ASSUME creator[s] = Absent PROVE s \notin ended
      OBVIOUS
    <3>1. legacy[s] = {}
      BY <1>1, RegistryAssumption
    <3>2. reg[s] = NoRow
      BY <1>1, <1>3, <3>1
    <3> QED
      BY <1>1, <3>1, <3>2, NoRowFacts, RegistryAssumption
  <2>2. reg[s].created => reg[s].exists
    BY <1>3, NoRowFacts
  <2> QED
    BY <1>1, <2>1, <2>2 DEF RowEnding
<1>5. ASSUME NEW r \in Requests PROVE RequestEnding(r)
  BY <1>1 DEF RequestEnding, Busy, Free
<1>6. ASSUME NEW w \in Workers, NEW s \in Sessions PROVE EntryEnding(w, s)
  BY <1>1 DEF EntryEnding
<1> QED
  BY <1>2, <1>4, <1>5, <1>6 DEF Ending

LEMMA EndingStep == Typed /\ Who /\ Lasting /\ Ending /\ [Next]_vars => Ending'
<1> SUFFICES ASSUME Typed, Who, Lasting, Ending, [Next]_vars PROVE Ending'
  OBVIOUS
<1>1. CASE UNCHANGED vars
  <2>1. UNCHANGED <<backend, reg, legacy, call, endWritten, table, transport, req, creator, answered, ended, lost>>
    BY <1>1 DEF vars, registry, manager
  <2> QED
    BY <2>1, SameEntries, SameEnds, StillEnding DEF EndSeen, CallOn, EndCall
<1>2. ASSUME NEW r \in Requests, RequestStep(r) PROVE Ending'
  <2>1. CASE \E w \in Workers, s \in Sessions, p \in Principals : Opens(r, w, s, p)
    BY <2>1, OpensEnding
  <2>2. CASE \E w \in Workers, s \in Sessions, p \in Principals, k \in {"use", "delete"} : Arrives(r, w, s, p, k)
    BY <2>2, ArrivesEnding
  <2>3. CASE req[r].pc # "free" /\ HookRecords(r, req[r].w)
    BY <2>3, RequestParts, CallerFacts, HookEnding DEF Busy
  <2>4. CASE ResponseStarts(r) \/ Answers(r) \/ Opened(r) \/ OpeningFails(r)
    BY <2>4, OpeningEnding
  <2>5. CASE LooksUp(r) \/ LookupFails(r)
    BY <2>5, LooksUpEnding
  <2>6. CASE Adopts(r) \/ Touched(r)
    BY <2>6, AdoptsEnding
  <2>7. CASE Handled(r) \/ Deletes(r) \/ Deleted(r)
    BY <2>7, HandlingEnding
  <2>8. CASE ReconcileCreated(r) \/ ReconcileVanished(r) \/ ReconcileUsed(r) \/ Reconciled(r)
    BY <2>8, ReconcileEnding
  <2> QED
    BY <1>2, <2>1, <2>2, <2>3, <2>4, <2>5, <2>6, <2>7, <2>8 DEF RequestStep
<1>3. ASSUME NEW w \in Workers, WorkerStep(w) PROVE Ending'
  <2>1. CASE \E s \in Sessions : HookRecords(<<w, s>>, w)
    BY <2>1, HookEnding, CallerFacts
  <2> QED
    BY <1>3, <2>1, DropsEnding, PhaseEnding DEF WorkerStep
<1> QED
  BY <1>1, <1>2, <1>3, OutsideEnding, AgesEnding, RegistryEnding DEF Next

(* The end of a session that a client deleted, that idled out, that was    *)
(* discarded with its opening request or that crashed while a request had  *)
(* it is recorded once nothing is going on about the session, whichever of *)
(* the hook, the vanishing check and the end-of-request bookkeeping had to *)
(* record it, unless a call failed or a process went away                  *)
(* (session_manager.py:206, 242, 257, 298).  A crash that no request met   *)
(* is not among these: EndsForCause says that it stays unrecorded.         *)
THEOREM EndsReach == Spec => []EndIsRecorded
<1>1. ASSUME Typed, Ending PROVE EndIsRecorded
  <2> SUFFICES ASSUME NEW s \in Sessions, s \in (answered \cap ended) \ lost, Quiet(s), Initialized
               PROVE  ~ Adoptable(s)
    BY <1>1 DEF EndIsRecorded, Typed, HistoryTyped
  <2>1. Settled(s) /\ legacy[s] = {}
    BY <1>1 DEF Ending, Initialized
  <2>2. ~ Pending(s)
    BY DEF Quiet, Pending, EndCall, Going, Notices, Opening, Busy
  <2> QED
    BY <2>1, <2>2 DEF Settled
<1> QED
  BY <1>1, TypedInit, TypedStep, WhoInit, WhoStep, LastingInit, LastingStep, EndingInit, EndingStep, PTL DEF Spec

===============================================================================
