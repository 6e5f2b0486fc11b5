----------------------------- MODULE MCDNSQuery -----------------------------
(* Small instances of DNSQuery for TLC. *)
EXTENDS DNSQuery

V(form, dist) == [form |-> form, dist |-> dist]
R(address, values) == [address |-> address, values |-> values]
RR(kind, dist) == [kind |-> kind, dist |-> dist]

\* Distance 2 stands for an unknown place.
MCFound ==
  { <<>>,
    <<R(TRUE, <<V("good", 2), V("good", 1), V("blank", 0), V("good", 0)>>)>>,
    <<R(FALSE, <<V("good", 1), V("good", 0)>>), R(TRUE, <<V("good", 0)>>)>>,
    <<R(TRUE, <<V("good", 0)>>), R(TRUE, <<V("good", 1), V("bad", 2)>>)>>,
    <<R(TRUE, <<V("blank", 2)>>)>> }

MCUpstream ==
  { <<RR("same", 1), RR("same", 0)>>, <<RR("alias", 2), RR("same", 0)>>, <<RR("other", 2)>> }

=============================================================================
