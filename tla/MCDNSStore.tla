----------------------------- MODULE MCDNSStore -----------------------------
(* Small instances of DNSStore for TLC. *)
EXTENDS DNSStore

\* "A" is another spelling of "a", "txt" of "TXT".
MCCanonName == [n \in Names |-> IF n = "A" THEN "a" ELSE n]
MCCanonType == [t \in Types |-> IF t = "txt" THEN "TXT" ELSE t]

=============================================================================
