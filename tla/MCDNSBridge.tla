----------------------------- MODULE MCDNSBridge -----------------------------
(* Small instances of DNSBridge for TLC.                                   *)
EXTENDS DNSBridge

Lists == {<<"v">>, <<BadEntry, "w">>, <<"w", "v">>}

Manual == {[id |-> <<"manual", 1>>, value |-> "v"]}
=============================================================================
