---- MODULE EventHistory ----
(***************************************************************************)
(* Rows of events, the tenant filter and forks, as every module about      *)
(* stored events uses them.  A row has an id, a stream and a tenant; a     *)
(* fork table maps a stream to its parent and the event it forked at, or   *)
(* to Root.                                                                *)
(***************************************************************************)
EXTENDS ForkHistory

CONSTANTS
    Streams, Nobody,
    Tenants, NoTenant    \* NoTenant: a store bound to no tenant, which sees every row

ASSUME StreamsAssumption == IsFiniteSet(Streams)

Root == [p |-> Nobody, at |-> 0]
Idle == [k |-> "idle"]
\* The tenant filter: a store bound to a tenant sees that tenant's rows only.
Sees(t, x) == t = NoTenant \/ x.t = t
====
