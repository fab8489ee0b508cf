---- MODULE ForkHistory ----
(***************************************************************************)
(* Rows of events and forks of streams, whatever store holds them.  A row  *)
(* has an id and a stream.  A fork table f maps a stream to its parent p   *)
(* and the id of the event it was forked at; ids start at 1, and `at' is 0 *)
(* for a stream that was not forked.                                       *)
(***************************************************************************)
EXTENDS OrderedSequences, SequencesExt

Ids(R) == {x.id : x \in R}
\* ORDER BY event_id.
Sorted(S) == LET at == Ascending(Ids(S)) IN [n \in DOMAIN at |-> CHOOSE x \in S : x.id = at[n]]
\* The first n rows of ORDER BY event_id.
SmallestOf(S, n) == {x \in S : Cardinality({y \in S : y.id < x.id}) < n}

Forked(f, x) == f[x].at # 0
\* No chain of forks loops back on itself: each set of streams has one that was not forked
\* from a stream of the set.
Acyclic(f) ==
    \A S \in (SUBSET DOMAIN f) \ {{}} : \E x \in S : ~ Forked(f, x) \/ f[x].p \notin S

\* A chain that does not loop is no longer than there are streams.
Depth(f) == Cardinality(DOMAIN f)
Ancestors(f) ==
    LET Up[n \in 0..Depth(f)] ==
          IF n = 0 THEN [s \in DOMAIN f |-> {s}]
          ELSE [s \in DOMAIN f |-> {s} \cup IF Forked(f, s) THEN Up[n - 1][f[s].p] ELSE {}]
    IN  Up[Depth(f)]

\* The history a stream is meant to have: its own events and, up to the fork point, the
\* history of the stream it was forked from.  The streams that have event e in theirs, within
\* n forks of the one it was stored to:
Heirs(f, e) ==
    LET H[n \in 0..Depth(f)] ==
          IF n = 0 THEN {e.s}
          ELSE {x \in DOMAIN f : IF ~ Forked(f, x) THEN x = e.s
                                 ELSE \/ x = e.s /\ e.id > f[x].at
                                      \/ f[x].p \in H[n - 1] /\ e.id <= f[x].at}
    IN  H
History(f, s, R) == {e \in R : s \in Heirs(f, e)[Depth(f)]}

\* The segments a replay reads, the oldest ancestor first: of each stream of the chain the
\* events after its own fork point and up to that of its child.
Segments(f, s, top) ==
    LET W[n \in 0..Depth(f)] ==
          [x \in DOMAIN f |-> [m \in 0..top |->
             IF n = 0 \/ ~ Forked(f, x) THEN <<[s |-> x, min |-> 0, max |-> m]>>
             ELSE Append(W[n - 1][f[x].p][f[x].at], [s |-> x, min |-> f[x].at, max |-> m])]]
    IN  W[Depth(f)][s][top]
====
