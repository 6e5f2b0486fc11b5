--------------------------- MODULE MCIngressBridge ---------------------------
(* A small instance of IngressBridge for TLC.                              *)
EXTENDS IngressBridge

Handlers == {"ingress", "service"}

Paths(svc) == <<[path |-> "/", svc |-> svc]>>

Rule(h, paths) == [host |-> h, paths |-> paths]

Ing(rules, tls) == [class |-> TRUE, rules |-> rules, tls |-> tls]

PlainA == Ing(<<Rule("a", Paths("s")), Rule(NoHost, Paths("s"))>>, {})
PlainB == Ing(<<Rule("b", Paths("s"))>>, {})
SecureA == Ing(<<Rule("a", <<[path |-> "/", svc |-> NoService],
                             [path |-> "/x", svc |-> "s"]>>)>>, {"a"})
OtherClass == [PlainA EXCEPT !.class = FALSE]

(* One Ingress changes its host, its paths and TLS, or its class; another  *)
(* may share its first host.                                               *)
MCSpecs == [i \in Ingresses |-> IF i = "i" THEN {PlainB, SecureA, OtherClass} ELSE {}]
MCInitial == [i \in Ingresses |-> IF i = "i" THEN {PlainA} ELSE {Absent, PlainA}]
=============================================================================
