----------------------------- MODULE MCPlanDiff -----------------------------
(* Two clients of one hostname, with the desires that collide: a root and  *)
(* an L4 key that paths can be mistaken for, and switches between L4 and   *)
(* L7, from a table that is empty, or that a Kubernetes bridge wrote and   *)
(* that has the record a client asks for, disabled by hand.                *)
EXTENDS PlanDiff, TLC

CONSTANTS c1, c2

MCMaxPlans == [c \in Clients |-> IF c = c1 THEN 3 ELSE 1]

Root == <<"/">>
PathL4 == <<"/", "L4">>
PathRoot == <<"/", "root">>

MCLower == "L4" :> "l4"

Record(v) == [id |-> NoID, key |-> <<>>, value |-> v, enabled |-> FALSE]

MCDesires ==
    c1 :> {AsL4TLSTermination(NewBuilder, "a"),
           Route(Route(AsL7(NewBuilder, "https"), Root, "a"), PathL4, "b"),
           WantDNS(Route(AsL7(NewBuilder, "http"), <<>>, "b"), Record("v"))}
    @@
    c2 :> {Removal,
           AsL7(AsL4TLSPassthrough(NewBuilder, "a"), "http"),
           Route(Route(AsL7(NewBuilder, "both"), Root, "a"), PathRoot, "b")}

EmptyTable ==
    [domain |-> NoDomain, routes |-> Empty, backends |-> Empty, dns |-> Empty]

K8s == <<"k8s">>

K8sTable ==
    [domain |-> [type |-> "passthrough", need |-> FALSE, bound |-> K8s],
     routes |-> Empty, backends |-> K8s :> "c",
     dns |-> <<"dns">> :> [value |-> "w", enabled |-> FALSE, stamped |-> TRUE]]

MCInitial == {EmptyTable, K8sTable}

MCPuts ==
    {[kind |-> "routes", id |-> <<"root">>,
      row |-> [path |-> PathRoot, ref |-> <<"l4">>]],
     [kind |-> "domain", id |-> NoID,
      row |-> [type |-> "http", need |-> FALSE, bound |-> NoID]]}
=============================================================================
