------------------------------ MODULE EdgeBridge ------------------------------
(***************************************************************************)
(* The Kubernetes bridge of the ingress on a slave (src/ingress/           *)
(* k8s_bridge.go, k8s_bridge_ingress.go, k8s_bridge_gateway.go): maps of   *)
(* Ingresses, Services, Gateways and routes, and a table of routes that    *)
(* every handler rebuilds from all of them under the bridge's mutex.  The  *)
(* maps are Go maps: each rebuild may go through them in another order.    *)
(*                                                                         *)
(* A path is the sequence of its characters.  Namespaces and the numbers   *)
(* of service ports are left out.                                          *)
(***************************************************************************)
EXTENDS Integers, Sequences, FiniteSets, SequencesExt, FiniteSetsExt, Functions

CONSTANTS Ingresses, Services, Gateways, Routes,  \* names of objects
          RouteKind,      \* [Routes -> {"http", "grpc", "tls", "tcp", "udp"}]
          Specs,          \* kind -> object -> what it may become
          InitialObjs,    \* clusters to start from
          Rank,           \* the order of the names in a binding's ID
          MaxChanges,     \* bound on changes of the cluster and the replica
          MaxFaults       \* bound on lists that fail and on crashes

VARIABLES objs,     \* the cluster: ing, svc, gw, route
          seen,     \* what the informers last handed over
          maps,     \* the bridge's maps
          table,    \* the materialized routes, a set of rows
          phase, changes, faults

bridgeVars == <<objs, seen, maps, table, phase, changes, faults>>

(* An Ingress is [matches, rules], a rule [host, paths], a path [path,     *)
(* exact, svc].  A Gateway is a set of listeners [name, protocol, host,    *)
(* port, passthrough] with distinct names.  An HTTP or GRPC route is       *)
(* [hosts, parents, rules], a TLS, TCP or UDP route [hosts, parents, svc]; *)
(* a parent is [gw, section].                                              *)
NoHost == "no host"
NoService == "no service"
AnySection == "any section"
Absent == [ing |-> [matches |-> FALSE, rules |-> <<>>],
           svc |-> "none",
           gw |-> {},
           route |-> [hosts |-> <<>>, parents |-> <<>>]]

Root == <<"/">>

normalizeIngressPath(path) ==
    IF path = <<>> \/ path[1] # "/" THEN Root ELSE path

-----------------------------------------------------------------------------
(* Materializing.                                                          *)

routeKindFromListener(ls) ==
    CASE ls.name = "web" -> "http"
      [] ls.name = "websecure" -> "https"
      [] OTHER -> CASE ls.protocol = "HTTPS" -> "https"
                    [] ls.protocol = "GRPC" -> "grpc"
                    [] ls.protocol = "TLS" -> "tls"
                    [] ls.protocol = "TCP" -> "tcp"
                    [] ls.protocol = "UDP" -> "udp"
                    [] OTHER -> "http"

(* The listeners a route of a kind is attached to; an HTTPRoute takes part *)
(* in http and https, a GRPCRoute also in http.                            *)
listenerAllowsKind(ls, kind) ==
    routeKindFromListener(ls) \in
        CASE kind = "http" -> {"http", "https"}
          [] kind = "grpc" -> {"grpc", "http"}
          [] OTHER -> {kind}

effectiveHosts(hosts, ls) ==
    IF hosts # <<>> THEN Range(hosts) ELSE {ls.host} \ {NoHost}

serviceAddress(s) == <<"service", s>>

(* An ExternalName Service is addressed by that name, for Ingresses only.  *)
ingressAddress(m, s) ==
    IF m.svc[s] = "external" THEN <<"external", s>> ELSE serviceAddress(s)

(* A row of the table carries its place in the list it is appended to: no  *)
(* two rows with different bindings of one host have the same.             *)
newMaterializedRoute(kind, r, host, ls, svc, order, at) ==
    [kind |-> kind, host |-> host, port |-> ls.port, path |-> Root,
     exact |-> FALSE, order |-> order, at |-> at,
     binding |-> [id |-> <<Rank[kind], Rank[r], Rank[svc], order>>,
                  host |-> host, address |-> serviceAddress(svc), path |-> <<>>,
                  protocol |-> IF kind = "https" THEN "http" ELSE kind,
                  priority |-> 0]]

rebuildIngressRoutesLocked(m, i, at) ==
    LET rules == m.ing[i].rules
        row(n, k) ==
            LET host == rules[n].host
                p == rules[n].paths[k]
                path == normalizeIngressPath(p.path)
            IN  [kind |-> "http", host |-> host, port |-> 80, path |-> path,
                 exact |-> p.exact, order |-> 0, at |-> <<at, n, k>>,
                 binding |->
                   [id |-> <<Rank["ingress"], Rank[i], Rank[host], k - 1>>,
                    host |-> host, address |-> ingressAddress(m, p.svc),
                    path |-> path, protocol |-> "http", priority |-> 0]]
        backed(paths) == {k \in DOMAIN paths : paths[k].svc # NoService}
    IN  UNION {{row(n, k) : k \in backed(rules[n].paths)} :
                 n \in {x \in DOMAIN rules : rules[x].host # NoHost}}

(* The listeners of the parents of a route that take it.                   *)
Attached(m, r) ==
    UNION {{ls \in m.gw[parent.gw] :
               /\ parent.section \in {AnySection, ls.name}
               /\ listenerAllowsKind(ls, RouteKind[r])} :
             parent \in Range(m.route[r].parents)}

(* HTTP and GRPC.                                                          *)
materializeHTTPFamilyLocked(m, r, at) ==
    LET route == m.route[r]
        kind(ls) == IF RouteKind[r] = "grpc" THEN "grpc"
                    ELSE routeKindFromListener(ls)
        row(ls, host, n) ==
            [newMaterializedRoute(kind(ls), r, host, ls, route.rules[n].svc,
                                  n - 1, <<at, n, 0>>)
               EXCEPT !.path = route.rules[n].path,
                      !.exact = route.rules[n].exact]
    IN  UNION {{row(ls, host, n) : host \in effectiveHosts(route.hosts, ls),
                                   n \in DOMAIN route.rules} :
                 ls \in Attached(m, r)}

materializeL4Locked(m, r, at) ==
    LET route == m.route[r]
        hosts(ls) == IF effectiveHosts(route.hosts, ls) = {} THEN {ls.host}
                     ELSE effectiveHosts(route.hosts, ls)
        row(ls, host) ==
            [newMaterializedRoute(RouteKind[r], r, host, ls, route.svc,
                                  0, <<at, 0, 0>>)
               EXCEPT !.kind = IF @ = "tls" /\ ls.passthrough
                               THEN "tls-passthrough" ELSE @]
    IN  UNION {{row(ls, host) : host \in hosts(ls)} : ls \in Attached(m, r)}

RouteRows(m, r, at) ==
    CASE m.route[r] = Absent.route -> {}
      [] RouteKind[r] \in {"http", "grpc"}
           -> materializeHTTPFamilyLocked(m, r, at)
      [] OTHER -> materializeL4Locked(m, r, at)

(* The routes of a kind, like the Ingresses, come in any order; those of   *)
(* different kinds are in different lists.                                 *)
IngressOrders == Bijection(Ingresses, 1 .. Cardinality(Ingresses))

RouteOrders ==
    {at \in [Routes -> 1 .. Cardinality(Routes)] :
        \A r \in Routes :
            LET alike == {x \in Routes : RouteKind[x] = RouteKind[r]}
            IN  {at[x] : x \in alike} = 1 .. Cardinality(alike)}

Rows(m, is, rs) ==
    UNION {rebuildIngressRoutesLocked(m, i, is[i]) : i \in Ingresses}
    \cup UNION {RouteRows(m, r, Cardinality(Ingresses) + rs[r]) : r \in Routes}

rebuildRoutesLocked(m) ==
    {Rows(m, is, rs) : is \in IngressOrders, rs \in RouteOrders}

-----------------------------------------------------------------------------
(* Resolving.                                                              *)

(* A prefix ends where a segment of the path ends.                         *)
k8sPathMatches(row, requestPath) ==
    \/ requestPath = row.path
    \/ ~row.exact /\ row.path = Root
    \/ ~row.exact /\ IsPrefix(row.path \o Root, requestPath)

(* The first position in which two different IDs differ decides.           *)
LaterID(x, y) ==
    \E n \in DOMAIN x : x[n] > y[n] /\ \A k \in 1 .. n - 1 : x[k] = y[k]

(* Mutant: routes alike but for their binding are left as they come.       *)
PriorityWithoutID(left, right) ==
    CASE left.exact # right.exact -> left.exact
      [] Len(left.path) # Len(right.path) -> Len(left.path) > Len(right.path)
      [] OTHER -> left.order < right.order

(* compareK8sRoutePriority(left, right) > 0                                *)
compareK8sRoutePriority(left, right) ==
    CASE left.exact # right.exact -> left.exact
      [] Len(left.path) # Len(right.path) -> Len(left.path) > Len(right.path)
      [] left.order # right.order -> left.order < right.order
      [] OTHER -> LaterID(left.binding.id, right.binding.id)

NoBinding == [id |-> <<>>]

(* The first of a set of rows in the order of the list.                    *)
First(rows) == CHOOSE x \in rows : \A y \in rows : ~LaterID(x.at, y.at)

(* The first of the rows that match and that no other goes before.         *)
selectK8sRoute(rows, requestPath, kind) ==
    LET asked == {x \in rows : x.kind = kind /\ k8sPathMatches(x, requestPath)}
        best == {x \in asked : \A y \in asked : ~compareK8sRoutePriority(y, x)}
    IN  IF best = {} THEN NoBinding ELSE First(best).binding

(* A query is [kind, host, path].                                          *)
resolveHostPath(tab, q) ==
    selectK8sRoute({x \in tab : x.host = q.host},
                   normalizeIngressPath(q.path), q.kind)

-----------------------------------------------------------------------------
(* The objects and the informers, as in module GatewayBridge.              *)

Names(kind) == CASE kind = "ing" -> Ingresses [] kind = "svc" -> Services
                 [] kind = "gw" -> Gateways [] OTHER -> Routes

Nothing == [kind \in DOMAIN Absent |-> [x \in Names(kind) |-> Absent[kind]]]

BridgeInit ==
    /\ objs \in InitialObjs
    /\ seen = Nothing
    /\ maps = Nothing
    /\ table = {}
    /\ phase = "down"
    /\ changes = 0
    /\ faults = {}

Faults(fs) == faults' = faults \cup fs /\ Cardinality(faults') <= MaxFaults

(* The cluster, outside the program.  What is deleted after LoadInitial    *)
(* and before Listen is in no event.                                       *)
ChangeObject ==
    /\ changes < MaxChanges
    /\ \E kind \in DOMAIN Absent : \E x \in Names(kind) :
       \E spec \in Specs[kind][x] :
          /\ spec # objs[kind][x]
          /\ phase = "up" => seen[kind][x] = objs[kind][x]
          /\ objs' = [objs EXCEPT ![kind][x] = spec]
          /\ faults' = IF phase = "loaded" /\ spec = Absent[kind]
                       THEN faults \cup {"loading"} ELSE faults
    /\ changes' = changes + 1
    /\ UNCHANGED <<seen, maps, table, phase>>

(* What the maps hold of an object.  An Ingress of another class is taken  *)
(* out.                                                                    *)
StoredIngress(obj) == IF obj.matches THEN obj ELSE Absent.ing

(* A rule without a backend is left out.                                   *)
parseHTTPRouteState(obj) ==
    [obj EXCEPT !.rules =
        LET kept == SelectSeq(@, LAMBDA rule : rule.svc # NoService)
        IN  [n \in DOMAIN kept |->
               [kept[n] EXCEPT !.path = normalizeIngressPath(@)]]]

(* A route without a backend is not parsed, and the map keeps what it had. *)
parseL4RouteState(obj, old) == IF obj.svc = NoService THEN old ELSE obj

StoredRoute(r, obj, old) ==
    CASE obj = Absent.route -> obj
      [] RouteKind[r] \in {"http", "grpc"} -> parseHTTPRouteState(obj)
      [] OTHER -> parseL4RouteState(obj, old)

Rebuilt(new) == \E m \in {new} : maps' = m /\ table' \in rebuildRoutesLocked(m)

(* LoadInitial: lists of Ingresses and Services, whose errors end the      *)
(* process (Crash), and of Gateways and routes, whose errors are ignored.  *)
LoadInitial ==
    /\ phase = "down"
    /\ phase' = "loaded"
    /\ \E missed \in SUBSET {"gateways", "routes"} :
          /\ Faults(missed)
          /\ Rebuilt([ing |-> [i \in Ingresses |-> StoredIngress(objs.ing[i])],
                      svc |-> objs.svc,
                      gw |-> IF "gateways" \in missed THEN Nothing.gw
                             ELSE objs.gw,
                      route |-> [r \in Routes |->
                        IF "routes" \in missed THEN Absent.route
                        ELSE StoredRoute(r, objs.route[r], Absent.route)]])
    /\ UNCHANGED <<objs, seen, changes>>

Listen ==
    /\ phase = "loaded"
    /\ phase' = "up"
    /\ seen' = [kind \in DOMAIN objs |-> [x \in DOMAIN objs[kind] |->
                  IF maps[kind][x] = objs[kind][x] THEN objs[kind][x]
                  ELSE Absent[kind]]]
    /\ UNCHANGED <<objs, maps, table, changes, faults>>

(* Every event rebuilds the whole table.                                   *)
Handled(kind, x, new) ==
    /\ phase = "up"
    /\ objs[kind][x] # seen[kind][x]
    /\ Rebuilt([maps EXCEPT ![kind][x] = new])
    /\ seen' = [seen EXCEPT ![kind][x] = objs[kind][x]]
    /\ UNCHANGED <<objs, phase, changes, faults>>

HandleIngress(i) == Handled("ing", i, StoredIngress(objs.ing[i]))

HandleService(s) == Handled("svc", s, objs.svc[s])

(* Mutant: a deleted Gateway stays.                                        *)
HandleGatewayUnlessGone(g) ==
    Handled("gw", g, IF objs.gw[g] = {} THEN maps.gw[g] ELSE objs.gw[g])

HandleGateway(g) == Handled("gw", g, objs.gw[g])

HandleRoute(r) ==
    Handled("route", r, StoredRoute(r, objs.route[r], maps.route[r]))

(* Every 30 seconds the handlers get each object again, as it is.          *)
Resync ==
    /\ phase = "up"
    /\ seen # Nothing
    /\ Rebuilt(maps)
    /\ UNCHANGED <<objs, seen, phase, changes, faults>>

HandleAny ==
    \/ \E i \in Ingresses : HandleIngress(i)
    \/ \E s \in Services : HandleService(s)
    \/ \E g \in Gateways : HandleGateway(g)
    \/ \E r \in Routes : HandleRoute(r)
    \/ Resync
=============================================================================
