--------------------------- MODULE MCGatewayBridge ---------------------------
(* A small instance of GatewayBridge for TLC.                              *)
EXTENDS GatewayBridge

LS(name, protocol, host, pass) ==
    [name |-> name, protocol |-> protocol, host |-> host, passthrough |-> pass]

Parents(section) == <<[gw |-> "g", section |-> section]>>

Rules == <<[path |-> "/", svc |-> "s"]>>

(* Listeners for any host and for one, of every protocol.                  *)
Mixed == <<LS("web", "HTTP", NoHost, FALSE), LS("pass", "TLS", NoHost, TRUE),
           LS("term", "TLS", "b", FALSE)>>
WebB == <<LS("web", "HTTPS", "b", FALSE)>>

RouteA == [hosts |-> <<"a">>, parents |-> Parents("web"), rules |-> Rules]
RouteB == [RouteA EXCEPT !.hosts = <<"b">>]
RouteAny == [hosts |-> <<>>, parents |-> Parents(AnySection),
             rules |-> Rules \o <<[path |-> "/x", svc |-> "s"]>>]
TLSA == [hosts |-> <<"a">>, parents |-> Parents(AnySection), svc |-> "s"]
TLSAny == [hosts |-> <<>>, parents |-> Parents("term"), svc |-> "s"]
TLSInvalid == [TLSAny EXCEPT !.svc = NoService]

MCGateways == {Mixed, WebB}
MCHTTP == {RouteA, RouteB, RouteAny}
MCTLS == {TLSA, TLSAny, TLSInvalid}
FirstGateways == {NoGateway, Mixed}
FirstHTTP == {RouteA, RouteAny}
FirstTLS == {NoTLS}
=============================================================================
