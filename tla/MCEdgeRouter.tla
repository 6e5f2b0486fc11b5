---------------------------- MODULE MCEdgeRouter ----------------------------
(* A small instance of EdgeRouter for TLC: two Ingresses that may claim    *)
(* the same path, a Gateway with an HTTP and a TLS listener and a route    *)
(* for each, and a replica that knows two hosts.                           *)
EXTENDS EdgeRouter

A == <<"/", "a">>
AB == <<"/", "a", "b">>
ACME == ACMEPrefix \o <<"a">>

MCRank == [grpc |-> 1, http |-> 2, https |-> 3, ingress |-> 4, tcp |-> 5,
           tls |-> 6, udp |-> 7, i |-> 1, j |-> 2, r |-> 3, t |-> 4,
           x |-> 1, y |-> 2, s1 |-> 3, s2 |-> 4]

MCRouteKind == [r |-> "http", t |-> "tls"]

Path(path, exact, svc) == [path |-> path, exact |-> exact, svc |-> svc]
Ingress(host, paths) ==
    [matches |-> TRUE, rules |-> <<[host |-> host, paths |-> paths]>>]
IngressI == Ingress("x", <<Path(A, FALSE, "s1")>>)
IngressJ == Ingress("x", <<Path(AB, FALSE, NoService), Path(A, FALSE, "s2"),
                          Path(<<>>, TRUE, "s1")>>)
OtherClass == [IngressI EXCEPT !.matches = FALSE]

Ls(name, protocol, host, port, passthrough) ==
    [name |-> name, protocol |-> protocol, host |-> host, port |-> port,
     passthrough |-> passthrough]
Web == Ls("web", "HTTP", "x", 80, FALSE)
Secure == Ls("websecure", "HTTPS", NoHost, 443, FALSE)
Ended1 == Ls("tls", "TLS", "x", 443, FALSE)
Passed1 == Ls("pass", "TLS", "x", 443, TRUE)

Attach == <<[gw |-> "g", section |-> AnySection]>>
RouteR == [hosts |-> <<"x">>, parents |-> Attach,
           rules |-> <<Path(A, FALSE, "s2"), Path(A, TRUE, NoService)>>]
RouteT(svc) == [hosts |-> <<>>, parents |-> Attach, svc |-> svc]

MCSpecs == [ing |-> [i |-> {Absent.ing, OtherClass}, j |-> {}],
            svc |-> [s1 |-> {"external"}, s2 |-> {}],
            gw |-> [g |-> {{}, {Web, Secure, Ended1}, {Ended1, Passed1}}],
            route |-> [r |-> {Absent.route}, t |-> {RouteT(NoService)}]]

MCInitialObjs ==
    {[ing |-> [i |-> IngressI, j |-> IngressJ],
      svc |-> [s1 |-> "plain", s2 |-> "none"],
      gw |-> [g |-> {Web, Ended1}],
      route |-> [r |-> RouteR, t |-> RouteT("s1")]]}

Route(id, path, priority, address) ==
    [id |-> id, path |-> path, priority |-> priority, address |-> address]
MCEntries ==
    {[there |-> TRUE,
      routes |-> <<Route(<<"r1">>, Root, 1, <<"service", "s1">>),
                   Route(<<"r2">>, A, 1, <<"service", "s2">>)>>]}
Unaddressed ==
    [there |-> TRUE, routes |-> <<Route(<<"r3">>, Root, 1, NoAddress)>>]
Unbacked ==
    [there |-> TRUE, routes |-> <<Route(<<"r4">>, A, 2, NoBackend),
                                  Route(<<"r5">>, Root, 1, <<"service", "s1">>)>>]
MCInitialSlaves ==
    {[replica |-> [x |-> e, y |-> NoEntry], acme |-> TRUE] : e \in MCEntries}
    \cup {[replica |-> [x |-> Unaddressed, y |-> Unbacked], acme |-> FALSE]}
MCHosts == {"x", "y"}

Asked(host, path, kind, tls) ==
    [host |-> host, path |-> path, kind |-> kind, tls |-> tls]
MCRequests ==
    {Asked("x", A, "http", FALSE), Asked("x", AB, "http", FALSE),
     Asked("y", A, "http", FALSE), Asked("x", ACME, "http", FALSE),
     Asked("x", A, "https", TRUE), Asked(NoHost, A, "http", FALSE),
     Asked(NoHost, A, "https", TRUE)}
=============================================================================
