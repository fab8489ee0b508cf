---------------------------- MODULE WriteBehindLog ----------------------------
(***************************************************************************)
(* What a write-behind event store promises its callers, without locks,    *)
(* tasks or batches.  Ids are issued in increasing order; an accepted      *)
(* event becomes durable later, never becomes undurable, and may be lost   *)
(* only while it is not durable.  `settled' collects what some caller was  *)
(* told is in the backend: the events accepted before a flush() that       *)
(* returned normally (a replay, a full-batch store_event, a close).  That  *)
(* answer must be true of every such event that was not lost first.        *)
(***************************************************************************)
EXTENDS Naturals

VARIABLES accepted, durable, lost, settled

logVars == <<accepted, durable, lost, settled>>

LogInit ==
    /\ accepted = {}
    /\ durable = {}
    /\ lost = {}
    /\ settled = {}

(* store_event takes an event in, under an id above every earlier one. *)
Accept ==
    /\ \E id \in accepted' : /\ \A earlier \in accepted : earlier < id
                             /\ accepted' = accepted \cup {id}
    /\ UNCHANGED <<durable, lost, settled>>

(* Events reach the backend, and a caller may be told so in the same step. *)
Persist ==
    /\ durable \subseteq durable'
    /\ durable' \ durable \subseteq accepted \ lost
    /\ settled \subseteq settled'
    /\ settled' \subseteq accepted
    /\ settled' \ settled \subseteq durable' \cup lost
    /\ UNCHANGED <<accepted, lost>>

(* Undurable events are lost; those the dying write still reached are not. *)
Lose ==
    /\ durable \subseteq durable'
    /\ durable' \ durable \subseteq accepted \ lost
    /\ lost \subseteq lost'
    /\ lost' \ lost \subseteq accepted \ durable'
    /\ UNCHANGED <<accepted, settled>>

LogNext == Accept \/ Persist \/ Lose

LogSpec == LogInit /\ [][LogNext]_logVars
===============================================================================
