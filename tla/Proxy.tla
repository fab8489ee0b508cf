---- MODULE Proxy ----
(***************************************************************************)
(* PersistenceProxy: it forwards requests upstream, stores every event of  *)
(* an SSE answer and serves it from a buffer, which later requests of the  *)
(* session may share, and resumes a client from the store.  The inside of  *)
(* a buffer is StreamBuffer's; here its window is never too small.  The    *)
(* upstream server is external: it refuses a credential that is not one it *)
(* accepts for the session, and answers 409 to a second standalone stream. *)
(* The other front, without a proxy, is a server whose sessions share a    *)
(* store through SessionScopedEventStore, under the same stream names.     *)
(***************************************************************************)
EXTENDS Naturals, FiniteSets, SequencesExt, OrderedSequences

CONSTANTS
    Fronts,                            \* explored: "proxy", "scoped"
    Clients, Sessions, Credentials,
    Accepts,                           \* the credentials the upstream accepts for a session: a token
                                       \* may have been rotated, and serve several sessions
    MaxId, MaxBuffers, MaxRequests     \* bounds: events stored, buffers, requests made

ASSUME ProxyAssumption ==
    /\ Accepts \in [Sessions -> SUBSET Credentials]
    /\ MaxId \in Nat /\ MaxBuffers \in Nat /\ MaxRequests \in Nat

VARIABLES
    front,
    log,        \* the store: the stream of each event; its id is its position
    bufs,       \* every StreamBuffer made, the oldest first
    buffers,    \* _buffers: stream -> its buffer, or 0
    conn,       \* what each client's request is doing
    requests    \* history: requests made

vars == <<front, log, bufs, buffers, conn, requests>>

\* GET_STREAM_KEY, and the id of the one JSON-RPC request a session makes.
Streams == Sessions \X {"get", "post"}
Away == [k |-> "away"]
Go(c, o) == conn' = [conn EXCEPT ![c] = o]

Init ==
    /\ front \in Fronts
    /\ log = <<>> /\ bufs = <<>>
    /\ buffers = [s \in Streams |-> 0]
    /\ conn = [c \in Clients |-> Away]
    /\ requests = 0

---------------------------------------------------------------------------
(* The upstream and the buffers.                                           *)

\* The session's standalone stream is open at the upstream.
Busy(s) == \E i \in DOMAIN bufs : bufs[i].s = <<s, "get">> /\ bufs[i].open
\* A frame arrives, is stored under the buffer's stream and enters its window.  What had
\* been received when the upstream ended the stream may still be stored after.
Frame(i) ==
    /\ ~ bufs[i].done /\ Len(log) < MaxId
    /\ log' = Append(log, bufs[i].s)
    /\ bufs' = [j \in DOMAIN bufs |->
                  IF j = i THEN [bufs[i] EXCEPT !.window = Append(@, Len(log) + 1)]
                  ELSE IF bufs[j].s = bufs[i].s /\ ~ bufs[j].done THEN [bufs[j] EXCEPT !.shared = TRUE]
                  ELSE bufs[j]]
    /\ UNCHANGED <<buffers, conn, requests>>
UpstreamEnds(i) ==
    /\ bufs[i].open
    /\ bufs' = [bufs EXCEPT ![i].open = FALSE]
    /\ UNCHANGED <<log, buffers, conn, requests>>
BufferEnds(i) ==
    /\ ~ bufs[i].open /\ ~ bufs[i].done
    /\ bufs' = [bufs EXCEPT ![i].done = TRUE]
    /\ UNCHANGED <<log, buffers, conn, requests>>
\* close_all at the shutdown: the registry is emptied and its buffers cancelled.
CloseAll ==
    /\ \E s \in Streams : buffers[s] # 0
    /\ bufs' = [i \in DOMAIN bufs |-> IF \E s \in Streams : buffers[s] = i
                                      THEN [bufs[i] EXCEPT !.open = FALSE, !.done = TRUE] ELSE bufs[i]]
    /\ buffers' = [s \in Streams |-> 0]
    /\ UNCHANGED <<log, conn, requests>>

\* Mutant of Opens: the buffer is not registered.
OpensUnregistered(s, cred) ==
    /\ Len(bufs) < MaxBuffers
    /\ bufs' = Append(bufs, [s |-> s, cred |-> cred, window |-> <<>>, open |-> TRUE, done |-> FALSE,
                             shared |-> FALSE])
    /\ UNCHANGED buffers
\* A new buffer under the name of its stream (_register_buffer, start).  No eviction is
\* scheduled: that asks for a task, which start() makes afterwards.
Opens(s, cred) ==
    /\ Len(bufs) < MaxBuffers
    /\ bufs' = Append(bufs, [s |-> s, cred |-> cred, window |-> <<>>, open |-> TRUE, done |-> FALSE,
                             shared |-> FALSE])
    /\ buffers' = [buffers EXCEPT ![s] = Len(bufs) + 1]

---------------------------------------------------------------------------
(* Requests.                                                               *)

Request(c) == conn[c] = Away /\ requests < MaxRequests /\ requests' = requests + 1
\* The client reads buffer b from `after` on, leaving out what is not above `upto`.
Attached(o, b, after, upto) ==
    [k |-> "live", sess |-> o.sess, cred |-> o.cred, last |-> o.last, got |-> o.got, b |-> b, cursor |-> after, upto |-> upto]

\* _handle_post: the upstream refuses the request, or answers with a stream.
Post(c, sess, cred) ==
    LET o == [sess |-> sess, cred |-> cred, last |-> 0, got |-> <<>>]
    IN  /\ front = "proxy" /\ Request(c)
        /\ IF cred \in Accepts[sess]
           THEN Opens(<<sess, "post">>, cred) /\ Go(c, Attached(o, Len(bufs) + 1, 0, 0))
           ELSE UNCHANGED <<bufs, buffers, conn>>
        /\ UNCHANGED log

\* Mutant of Shares: a live stream is shared with whoever names its session.
SharesWithAll(b, cred) == b # 0
\* A live stream is shared at once with the credential the upstream accepted for it.
Shares(b, cred) == b # 0 /\ bufs[b].cred = cred
\* _handle_get: the live buffer of the session's standalone stream, if it is not done.
Get(c, sess, cred, last) ==
    LET b == buffers[<<sess, "get">>]
        live == IF b # 0 /\ ~ bufs[b].done THEN b ELSE 0
        o == [k |-> "ask", sess |-> sess, cred |-> cred, last |-> last, got |-> <<>>, live |-> live]
    IN  /\ front = "proxy" /\ Request(c)
        /\ Go(c, IF Shares(live, cred) THEN Attached(o, live, last, 0) ELSE o)
        /\ UNCHANGED <<log, bufs, buffers>>
\* The upstream was asked, and refuses ...
Refused(c) ==
    LET o == conn[c]
    IN  /\ o.k = "ask"
        /\ o.cred \notin Accepts[o.sess] \/ (o.live = 0 /\ Busy(o.sess))
        /\ Go(c, Away)
        /\ UNCHANGED <<log, bufs, buffers, requests>>
\* ... or answers 409, having accepted session and credential: the live buffer found before
\* is shared ...
Conflict(c) ==
    LET o == conn[c]
    IN  /\ o.k = "ask" /\ o.cred \in Accepts[o.sess] /\ Busy(o.sess) /\ o.live # 0
        /\ Go(c, Attached(o, o.live, o.last, 0))
        /\ UNCHANGED <<log, bufs, buffers, requests>>
\* Mutant of Accepted: the new stream is served without the replay.
AcceptedAtOnce(c) ==
    LET o == conn[c]
    IN  /\ o.k = "ask" /\ o.cred \in Accepts[o.sess] /\ ~ Busy(o.sess)
        /\ Opens(<<o.sess, "get">>, o.cred)
        /\ Go(c, Attached(o, Len(bufs) + 1, 0, 0))
        /\ UNCHANGED <<log, requests>>
\* ... or opens a new stream: with a Last-Event-ID and no live buffer found before, the
\* store is replayed first.
Accepted(c) ==
    LET o == conn[c]
        new == Len(bufs) + 1
    IN  /\ o.k = "ask" /\ o.cred \in Accepts[o.sess] /\ ~ Busy(o.sess)
        /\ Opens(<<o.sess, "get">>, o.cred)
        /\ Go(c, IF o.live = 0 /\ o.last # 0 THEN [o EXCEPT !.k = "replay", !.live = new]
                 ELSE Attached(o, new, o.last, 0))
        /\ UNCHANGED <<log, requests>>

---------------------------------------------------------------------------
(* What the client is sent.                                                *)

Above(q, id) == Picked(q, {n \in DOMAIN q : q[n] > id})
\* The events of `last`'s stream after it, if that stream is one of those asked for.
ReplayOf(last, streams) ==
    IF last \in DOMAIN log /\ log[last] \in streams
    THEN Ascending({i \in DOMAIN log : i > last /\ log[i] = log[last]})
    ELSE <<>>
\* Mutant of Owns: the owner of the resumed stream is not looked at.
OwnsAny(stream, sess) == sess \in Sessions
\* _session_owns: the stream carries the session's prefix.
Owns(stream, sess) == stream[1] = sess
OwnedBy(sess) == {s \in Streams : Owns(s, sess)}
LastOf(q, else) == IF q = <<>> THEN else ELSE q[Len(q)]

\* Mutant of Replayed: the events that arrive meanwhile are all sent again.
ReplayedNoMark(c) ==
    LET o == conn[c]
        sent == ReplayOf(o.last, OwnedBy(o.sess))
    IN  /\ o.k = "replay"
        /\ Go(c, Attached([o EXCEPT !.got = sent], o.live, 0, 0))
        /\ UNCHANGED <<log, bufs, buffers, requests>>
\* _replay_then_live: the replay, then the new buffer from its start, without what is not
\* above the last event replayed.
Replayed(c) ==
    LET o == conn[c]
        sent == ReplayOf(o.last, OwnedBy(o.sess))
    IN  /\ o.k = "replay"
        /\ Go(c, Attached([o EXCEPT !.got = sent], o.live, 0, LastOf(sent, 0)))
        /\ UNCHANGED <<log, bufs, buffers, requests>>

\* consume_from: the store as long as the window does not reach back to the cursor and the
\* store has more of the buffer's own stream, else the window; with nothing new in a buffer
\* that is done, the answer ends.
Consumes(c) ==
    LET o == conn[c]
        b == bufs[o.b]
        cold == o.cursor # 0 /\ (b.window = <<>> \/ o.cursor < Head(b.window))
        replay == IF cold THEN ReplayOf(o.cursor, {b.s}) ELSE <<>>
        next == IF replay # <<>> THEN replay ELSE Above(b.window, o.cursor)
    IN  /\ o.k = "live"
        /\ next # <<>> \/ b.done
        /\ Go(c, IF next = <<>> THEN [o EXCEPT !.k = "over"]
                 ELSE [o EXCEPT !.cursor = LastOf(next, 0), !.got = @ \o Above(next, o.upto)])
        /\ UNCHANGED <<log, bufs, buffers, requests>>
\* The client disconnects, or leaves after the end.
Leaves(c) ==
    /\ conn[c].k \in {"live", "over", "replay"}
    /\ Go(c, Away)
    /\ UNCHANGED <<log, bufs, buffers, requests>>

---------------------------------------------------------------------------
(* The scoped front.  A session's transport stores under its own prefix,   *)
(* whatever a request of another session is called; it is external that    *)
(* the transport only serves who presents the session's credential.        *)

ScopedStore(s) ==
    /\ front = "scoped" /\ Len(log) < MaxId
    /\ log' = Append(log, s)
    /\ UNCHANGED <<bufs, buffers, conn, requests>>
\* A client resumes its session after `last`; the store may be one that can say up front
\* whose event that is.
ScopedResume(c, sess, last) ==
    /\ front = "scoped" /\ Request(c)
    /\ \E known \in BOOLEAN, cred \in Accepts[sess] :
          Go(c, [k |-> IF known THEN "look" ELSE "collect", sess |-> sess, cred |-> cred,
                 last |-> last, got |-> <<>>, b |-> 0])
    /\ UNCHANGED <<log, bufs, buffers>>
\* _owning_stream: an unknown id, or one of another session, is answered with nothing ...
ScopedLook(c) ==
    LET o == conn[c]
    IN  /\ o.k = "look"
        /\ Go(c, [o EXCEPT !.k = IF o.last \in DOMAIN log /\ Owns(log[o.last], o.sess) THEN "owned" ELSE "over"])
        /\ UNCHANGED <<log, bufs, buffers, requests>>
\* ... an owned one with its stream; a replay made without asking is only passed on once it
\* has said which stream it was of.
ScopedReplay(c) ==
    LET o == conn[c]
    IN  /\ o.k \in {"owned", "collect"}
        /\ Go(c, [o EXCEPT !.k = "over",
                    !.got = ReplayOf(o.last, IF o.k = "owned" THEN Streams ELSE OwnedBy(o.sess))])
        /\ UNCHANGED <<log, bufs, buffers, requests>>

ProxyNext ==
    \/ \E i \in DOMAIN bufs : Frame(i) \/ UpstreamEnds(i) \/ BufferEnds(i)
    \/ CloseAll
    \/ \E c \in Clients, sess \in Sessions, cred \in Credentials :
          \/ Post(c, sess, cred)
          \/ \E last \in 0..Len(log) : Get(c, sess, cred, last)
    \/ \E c \in Clients : Refused(c) \/ Conflict(c) \/ Accepted(c) \/ Replayed(c) \/ Consumes(c) \/ Leaves(c)

ScopedNext ==
    \/ \E s \in Streams : ScopedStore(s)
    \/ \E c \in Clients, sess \in Sessions, last \in 1..Len(log) : ScopedResume(c, sess, last)
    \/ \E c \in Clients : ScopedLook(c) \/ ScopedReplay(c)
Next == (ProxyNext \/ ScopedNext) /\ UNCHANGED front
Spec == Init /\ [][Next]_vars

---------------------------------------------------------------------------

\* A registered buffer is one made for that stream; the standalone stream that is open at
\* the upstream is the registered one, or nobody could share it.
TypeOK ==
    /\ log \in Seq(Streams) /\ buffers \in [Streams -> 0..Len(bufs)]
    /\ \A s \in Streams : buffers[s] # 0 => bufs[buffers[s]].s = s
    /\ \A i \in DOMAIN bufs : bufs[i].s[2] = "get" /\ bufs[i].open => buffers[bufs[i].s] = i
    /\ \A i \in DOMAIN bufs : \A n \in DOMAIN bufs[i].window : log[bufs[i].window[n]] = bufs[i].s

\* Nobody is sent an event of another session than the one it named, or of a session for
\* which the upstream does not accept its credential, whatever Last-Event-ID it names and
\* whichever live stream it is let into: at once, as its credential opened it, or after the
\* upstream's 409 (proxy.py:287, 302, 423).
OwnSessionOnly ==
    \A c \in Clients : conn[c] # Away =>
        \A n \in DOMAIN conn[c].got : /\ log[conn[c].got[n]][1] = conn[c].sess
                                      /\ conn[c].cred \in Accepts[conn[c].sess]

\* On one connection no event is sent twice or out of order, where the replay and the live
\* stream it continues with overlap.
SentInOrder == \A c \in Clients : conn[c] # Away => Increasing(conn[c].got)

\* A client that resumes from an event of the session's standalone stream is sent every
\* later event of it, up to the last one sent, though the event came in while the
\* upstream was asked or the store replayed; unless two buffers fed the stream at once.
NoGapOnResume ==
    \A c \in Clients :
        LET o == conn[c]
        IN  /\ o.k \in {"live", "over"} /\ o.last # 0
            /\ log[o.last] = <<o.sess, "get">> /\ ~ (front = "proxy" /\ bufs[o.b].shared)
            => \A i \in (o.last + 1)..LastOf(o.got, 0) :
                  log[i] = log[o.last] => \E n \in DOMAIN o.got : o.got[n] = i
====
