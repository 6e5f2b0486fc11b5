---------------------------- MODULE MCDNSRuntime ----------------------------
(* Small instances of DNSRuntime for TLC. *)
EXTENDS DNSRuntime

Rec(id, name, v) == [id |-> id, fqdn |-> name, type |-> "TXT", enabled |-> TRUE, value |-> v]

Same(S) == [x \in S |-> x]
MCCanonName == Same(Names)
MCCanonType == Same(Types)
MCReplicated == {Rec("r1", "a", 1), Rec("r2", "b", 1)}
MCKeys == {1}
MCSpecs == [k \in Keys |-> {<<Rec("k1", "b", 1)>>, <<Rec("k1", "c", 1)>>}]

=============================================================================
