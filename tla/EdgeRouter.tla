------------------------------ MODULE EdgeRouter ------------------------------
(***************************************************************************)
(* How the ingress on a slave answers a client (src/ingress/engine.go,     *)
(* engine_http.go, engine_tls.go, store.go).  A TLS connection is passed   *)
(* on, ended here and passed on, or ended here and read as HTTP.  An HTTP  *)
(* request is routed by the bridge, by the bindings remembered from        *)
(* earlier answers, or by the replica's entry for the host.  The lookups   *)
(* of one connection take their locks one after the other: handlers of     *)
(* the bridge, the subscriber and other connections come in between.       *)
(***************************************************************************)
EXTENDS EdgeBridge

CONSTANTS Hosts,
          Requests,       \* [host, path, kind, tls] that clients make
          Entries,        \* what the replica may hold of a host
          InitialSlaves,  \* [replica, acme]: slaves to start from
          Conns,          \* connections at a time
          MaxRequests     \* bound on connections accepted

VARIABLES memory,     \* host -> bindings answered with, oldest first
          replica,    \* host -> entry [there, routes], a route being [id, path,
                      \* priority, address]
          acme,       \* the slave knows where to send ACME challenges to
          conn,       \* the connections
          requests,
          given       \* host -> bindings the bridge or the replica gave since
                      \* the process was started

routing == <<memory, conn, requests>>
vars == <<bridgeVars, routing, replica, acme, given>>

NoEntry == [there |-> FALSE, routes |-> <<>>]
NoAddress == <<>>        \* of a backend that names neither service nor endpoint
NoBackend == <<"none">>  \* the route's backend row is gone: BackendRef is nil
ACMEPrefix == <<"/", "acme", "/">>

(* Where a connection is, what it asks, its answer; calm: since it began,  *)
(* neither the bridge's maps nor the replica changed; known: the bindings  *)
(* remembered of the host when it was answered from them, else <<>>.       *)
Idle == [pc |-> "idle"]

-----------------------------------------------------------------------------
(* The bindings remembered.                                                *)

bindingPath(binding) == IF binding.path = <<>> THEN Root ELSE binding.path

bindingMatchesPath(binding, path) ==
    bindingPath(binding) = Root \/ IsPrefix(bindingPath(binding), path)

(* A longer path goes before one that matches.                             *)
betterBinding(left, right, path) ==
    CASE left.priority # right.priority -> left.priority > right.priority
      [] Len(bindingPath(left)) # Len(bindingPath(right))
           -> Len(bindingPath(left)) > Len(bindingPath(right))
      [] OTHER -> /\ bindingMatchesPath(left, path)
                  /\ ~bindingMatchesPath(right, path)

(* Mutant: the host is not looked at.                                      *)
BindingsOfAll(h) == FlattenSeq(SetToSeq(Range(memory)))

BindingsOf(h) == memory[h]

(* The first of those no other is better than.                             *)
selectLocked(h, path, allowed) ==
    LET list == SelectSeq(BindingsOf(h), LAMBDA b : b.protocol \in allowed)
        best == {n \in DOMAIN list : \A k \in DOMAIN list :
                    ~betterBinding(list[k], list[n], path)}
    IN  IF best = {} THEN NoBinding ELSE list[Min(best)]

AnyProtocol == {"http", "grpc", "tls", "tcp", "udp"}

-----------------------------------------------------------------------------
(* The replica's entry.                                                    *)

httpRouteMatches(path, requestPath) ==
    path = Root \/ IsPrefix(path, requestPath)

(* Mutant: only the priority counts.                                       *)
RouteByPriority(left, right) == left.priority > right.priority

RouteBefore(left, right) ==
    \/ left.priority > right.priority
    \/ left.priority = right.priority /\ Len(left.path) > Len(right.path)

(* The first of the routes that match and that none goes before, as a set. *)
selectHTTPRoute(routes, requestPath) ==
    LET asked == {n \in DOMAIN routes :
                    httpRouteMatches(routes[n].path, requestPath)}
        best == {n \in asked :
                    \A k \in asked : ~RouteBefore(routes[k], routes[n])}
    IN  {routes[n] : n \in {x \in best : \A k \in best : x <= k}}

bindingFromProjection(h, entry, requestPath) ==
    LET found == selectHTTPRoute(entry.routes, requestPath)
        route == CHOOSE x \in found : TRUE
    IN  IF found = {} \/ route.address = NoBackend THEN NoBinding
        ELSE [id |-> route.id, host |-> h, address |-> route.address,
              path |-> route.path, protocol |-> "http",
              priority |-> route.priority]

-----------------------------------------------------------------------------

Ended(c, answer) == conn' = [conn EXCEPT ![c].pc = "done", ![c].answer = answer]

At(c, pc) == conn[c].pc = pc

Goto(c, pc) == conn' = [conn EXCEPT ![c].pc = pc]

Query(c, kind) == [kind |-> kind, host |-> conn[c].host, path |-> conn[c].path]

TLSQuery(c, kind) == [kind |-> kind, host |-> conn[c].host, path |-> Root]

trimMatchedPrefix(prefix, path) ==
    LET rest == IF prefix # Root /\ IsPrefix(prefix, path)
                THEN SubSeq(path, Len(prefix) + 1, Len(path)) ELSE path
    IN  IF rest = <<>> \/ rest[1] # "/" THEN Root \o rest ELSE rest

(* resultFromBinding, and the request that serveHTTP sends on; known is    *)
(* what was remembered if the binding is from there.                       *)
resultFromBinding(c, binding, known) ==
    IF binding.address = NoAddress
    THEN Ended(c, [is |-> "error"]) /\ UNCHANGED memory
    ELSE /\ memory' = [memory EXCEPT ![binding.host] = Append(@, binding)]
         /\ conn' = [conn EXCEPT ![c].pc = "done", ![c].known = known,
               ![c].answer = [is |-> "proxied", binding |-> binding,
                              path |-> trimMatchedPrefix(
                                  normalizeIngressPath(binding.path),
                                  conn[c].path)]]

(* kind is the list a request is looked up in: "https" for what comes by   *)
(* TLS and for a request on port 80 whose X-Forwarded-Proto says so.       *)
Accept(c) ==
    /\ phase # "down"
    /\ conn[c].pc \in {"idle", "done"}
    /\ requests < MaxRequests
    /\ requests' = requests + 1
    /\ \E q \in Requests :
          conn' = [conn EXCEPT ![c] =
              [pc |-> IF q.tls THEN "hello" ELSE "serve",
               host |-> q.host, path |-> q.path, kind |-> q.kind, tls |-> q.tls,
               calm |-> TRUE, known |-> <<>>, answer |-> [is |-> "none"]]]
    /\ UNCHANGED memory

Streamed(c, how, binding) == Ended(c, [is |-> how, binding |-> binding])

(* The bridge, else the memory, in which no binding has such a protocol.   *)
resolveBackend(c, kind, protocol) ==
    LET binding == resolveHostPath(table, TLSQuery(c, kind))
    IN  IF binding # NoBinding THEN binding
        ELSE selectLocked(conn[c].host, Root, {protocol})

(* A client that names no host is turned away.                             *)
resolveTLSPassthroughBackend(c) ==
    /\ At(c, "hello")
    /\ IF conn[c].host = NoHost THEN Ended(c, [is |-> "closed"])
       ELSE LET binding ==
                    resolveBackend(c, "tls-passthrough", "tls-passthrough")
            IN  IF binding # NoBinding THEN Streamed(c, "passed", binding)
                ELSE Goto(c, "handshake")
    /\ UNCHANGED <<memory, requests>>

(* The certificate is module CertResolver's; without one it fails.         *)
Handshake(c) ==
    /\ At(c, "handshake")
    /\ Goto(c, "tls route") \/ Ended(c, [is |-> "closed"])
    /\ UNCHANGED <<memory, requests>>

(* Mutant: the HTTP handler is asked before the TLS routes.                *)
HTTPBeforeTLSRoute(c) ==
    /\ At(c, "tls route")
    /\ LET binding == resolveBackend(c, "tls", "tls")
       IN  IF /\ binding # NoBinding
              /\ resolveHostPath(table, Query(c, "https")) = NoBinding
           THEN Streamed(c, "ended here", binding) ELSE Goto(c, "serve")
    /\ UNCHANGED <<memory, requests>>

resolveTLSRouteBackend(c) ==
    /\ At(c, "tls route")
    /\ LET binding == resolveBackend(c, "tls", "tls")
       IN  IF binding # NoBinding THEN Streamed(c, "ended here", binding)
           ELSE Goto(c, "serve")
    /\ UNCHANGED <<memory, requests>>

(* serveHTTP and routeByKind, up to the bridge's answer.                   *)
serveHTTP(c) ==
    /\ At(c, "serve")
    /\ IF acme /\ IsPrefix(ACMEPrefix, conn[c].path)
       THEN Ended(c, [is |-> "master"]) /\ UNCHANGED memory
       ELSE IF conn[c].host = NoHost
       THEN Ended(c, [is |-> "error"]) /\ UNCHANGED memory
       ELSE LET binding == resolveHostPath(table, Query(c, conn[c].kind))
            IN  IF binding # NoBinding THEN resultFromBinding(c, binding, <<>>)
                ELSE Goto(c, "remembered") /\ UNCHANGED memory
    /\ UNCHANGED requests

(* memoryStore.Get: any binding of the host, whether its path matches.     *)
RouteFromMemory(c) ==
    /\ At(c, "remembered")
    /\ LET binding == selectLocked(conn[c].host, conn[c].path, AnyProtocol)
       IN  IF binding # NoBinding THEN resultFromBinding(c, binding, BindingsOf(conn[c].host))
           ELSE Goto(c, "replica") /\ UNCHANGED memory
    /\ UNCHANGED requests

(* A host that is not in the cache is an error, not a 404.                 *)
RouteFromReplica(c) ==
    /\ At(c, "replica")
    /\ LET h == conn[c].host
           binding == bindingFromProjection(h, replica[h], conn[c].path)
       IN  IF replica[h] = NoEntry
           THEN Ended(c, [is |-> "error"]) /\ UNCHANGED memory
           ELSE IF binding = NoBinding
           THEN Ended(c, [is |-> "not found"]) /\ UNCHANGED memory
           ELSE resultFromBinding(c, binding, <<>>)
    /\ UNCHANGED requests

ConnStep(c) ==
    /\ \/ Accept(c) \/ resolveTLSPassthroughBackend(c)
       \/ Handshake(c) \/ resolveTLSRouteBackend(c) \/ serveHTTP(c)
       \/ RouteFromMemory(c) \/ RouteFromReplica(c)
    /\ UNCHANGED <<bridgeVars, replica, acme, given>>

-----------------------------------------------------------------------------

Paths == {q.path : q \in Requests}

FromBridge(h, tab) ==
    {row.binding : row \in {x \in tab : x.host = h}}

FromReplica(h, entry) ==
    {bindingFromProjection(h, entry, path) : path \in Paths}

Given(tab, entries) ==
    [h \in Hosts |-> FromBridge(h, tab) \cup FromReplica(h, entries[h])]

Recorded == given' = [h \in Hosts |-> given[h] \cup Given(table', replica')[h]]

Disturbed ==
    conn' = [c \in Conns |->
        IF conn[c].pc = "idle" THEN conn[c]
        ELSE [conn[c] EXCEPT !.calm = @ /\ maps' = maps /\ replica' = replica]]

Init ==
    /\ BridgeInit
    /\ memory = [h \in Hosts |-> <<>>]
    /\ \E s \in InitialSlaves : replica = s.replica /\ acme = s.acme
    /\ conn = [c \in Conns |-> Idle]
    /\ requests = 0
    /\ given = Given({}, replica)

(* The subscriber, module Replication, writes or deletes an entry.         *)
ReplicaChanges ==
    /\ changes < MaxChanges
    /\ \E h \in Hosts, entry \in Entries \cup {NoEntry} :
          entry # replica[h] /\ replica' = [replica EXCEPT ![h] = entry]
    /\ changes' = changes + 1
    /\ UNCHANGED <<objs, seen, maps, table, phase, faults, memory, requests, acme>>
    /\ Disturbed /\ Recorded

BridgeStep ==
    /\ ChangeObject \/ LoadInitial \/ Listen \/ HandleAny
    /\ UNCHANGED <<memory, replica, requests, acme>>
    /\ Disturbed /\ Recorded

(* The process ends, at any time or by an error in LoadInitial, and is     *)
(* started again.                                                          *)
Crash ==
    /\ phase # "down"
    /\ Faults({"crash"})
    /\ phase' = "down"
    /\ seen' = Nothing /\ maps' = Nothing /\ table' = {}
    /\ memory' = [h \in Hosts |-> <<>>]
    /\ conn' = [c \in Conns |-> Idle]
    /\ given' = Given({}, replica)
    /\ UNCHANGED <<objs, changes, replica, requests, acme>>

Next == BridgeStep \/ ReplicaChanges \/ Crash \/ \E c \in Conns : ConnStep(c)

Spec == Init /\ [][Next]_vars

-----------------------------------------------------------------------------

HostQueries ==
    [kind : {"http", "https"}, host : Hosts, path : Paths] \cup
    [kind : {"tls", "tls-passthrough"}, host : Hosts, path : {Root}]

(* What rows say about a query, whatever their order: the bindings of      *)
(* those no other goes before.                                             *)
Best(rows, q) ==
    LET asked == {x \in rows : /\ x.kind = q.kind /\ x.host = q.host
                               /\ k8sPathMatches(x, q.path)}
        best == {x \in asked : \A y \in asked : ~compareK8sRoutePriority(y, x)}
    IN  IF best = {} THEN {NoBinding} ELSE {x.binding : x \in best}

Declared(m) == Rows(m, [i \in Ingresses |-> 1], [r \in Routes |-> 1])

ClusterMaps ==
    [ing |-> [i \in Ingresses |-> StoredIngress(objs.ing[i])],
     svc |-> objs.svc, gw |-> objs.gw,
     route |-> [r \in Routes |-> StoredRoute(r, objs.route[r], Absent.route)]]

Unparsed == \E r \in Routes : /\ RouteKind[r] \notin {"http", "grpc"}
                              /\ objs.route[r] # Absent.route
                              /\ objs.route[r].svc = NoService

(* As long as the bridge's maps are the same, it gives the same answer to  *)
(* every request for a host: a resync rebuilds the table in another order, *)
(* and compareK8sRoutePriority leaves no two bindings alike.               *)
ResyncKeepsAnswers ==
    [][maps' = maps /\ table' # table =>
         \A q \in HostQueries :
             resolveHostPath(table', q) = resolveHostPath(table, q)]_vars

(* Whenever the informers have handed over every object as it is, the      *)
(* bridge answers every query as the objects say, in whichever order their *)
(* events came and whichever list LoadInitial missed.  Left out: an object *)
(* deleted between LoadInitial and Listen, and a TLS, TCP or UDP route     *)
(* that lost its backend, stay in the maps.                                *)
AnswersFollowObjects ==
    phase = "up" /\ seen = objs =>
        \/ "loading" \in faults \/ Unparsed
        \/ LET rows == Declared(ClusterMaps)
           IN  \A q \in HostQueries :
                   resolveHostPath(table, q) \in Best(rows, q)

(* A connection to port 443 during which nothing changed is passed on if   *)
(* the host has a passthrough route, else ended here and passed on if it   *)
(* has a TLS route, and else read as HTTP (ingress/README.md).             *)
TLSOrder ==
    \A c \in Conns : At(c, "done") /\ conn[c].tls /\ conn[c].calm =>
        LET answer == conn[c].answer
            passed == Best(Declared(maps), TLSQuery(c, "tls-passthrough"))
            ended == Best(Declared(maps), TLSQuery(c, "tls"))
        IN  CASE passed # {NoBinding}
                   -> answer.is = "passed" /\ answer.binding \in passed
              [] ended # {NoBinding} /\ passed = {NoBinding}
                   -> \/ answer.is = "closed"
                      \/ answer.is = "ended here" /\ answer.binding \in ended
              [] OTHER -> answer.is \notin {"passed", "ended here"}

Routed(c) == At(c, "done") /\ conn[c].calm
             /\ conn[c].answer.is \in {"proxied", "not found", "error"}

FromCluster(c) == Best(Declared(maps), Query(c, conn[c].kind))

(* The replica's routes for the request that no other goes before.         *)
BestRoutes(c) ==
    LET asked == {x \in Range(replica[conn[c].host].routes) :
                    httpRouteMatches(x.path, conn[c].path)}
    IN  {x \in asked : \A y \in asked :
            \/ y.priority < x.priority
            \/ y.priority = x.priority /\ Len(y.path) <= Len(x.path)}

(* Of two remembered bindings the one with the higher priority is used,    *)
(* then the one with the longer path, and only then one that matches.      *)
Outranks(b, a, path) ==
    \/ b.priority > a.priority
    \/ /\ b.priority = a.priority
       /\ \/ Len(bindingPath(b)) > Len(bindingPath(a))
          \/ /\ Len(bindingPath(b)) = Len(bindingPath(a))
             /\ bindingPath(b) \in {Root, SubSeq(path, 1, Len(bindingPath(b)))}
             /\ bindingPath(a) \notin {Root, SubSeq(path, 1, Len(bindingPath(a)))}

AnsweredByMemory(c) ==
    LET a == conn[c].answer.binding
    IN  /\ a \in Range(conn[c].known)
        /\ \A b \in Range(conn[c].known) : ~Outranks(b, a, conn[c].path)

AnsweredByReplica(c) ==
    LET entry == replica[conn[c].host]
        answer == conn[c].answer
    IN  IF ~entry.there THEN answer.is = "error"
        ELSE IF BestRoutes(c) = {} THEN answer.is = "not found"
        ELSE \E x \in BestRoutes(c) :
               CASE x.address = NoBackend -> answer.is = "not found"
                 [] x.address = NoAddress -> answer.is = "error"
                 [] OTHER -> answer.is = "proxied" /\ answer.binding.id = x.id

(* A request during which nothing changed is answered by the first source  *)
(* that knows its host: by the cluster's objects; else by the bindings of  *)
(* earlier answers for the host, of which the best is used even if the     *)
(* replica has another one by now; else by the best route of the replica,  *)
(* and if that one has lost its backend no other is tried (routeByKind,    *)
(* selectLocked, bindingFromProjection).                                   *)
AnsweredByFirstSource ==
    \A c \in Conns : Routed(c) =>
        IF conn[c].host = NoHost THEN conn[c].answer.is = "error"
        ELSE IF FromCluster(c) # {NoBinding}
        THEN /\ conn[c].answer.is = "proxied"
             /\ conn[c].answer.binding \in FromCluster(c)
        ELSE IF conn[c].known # <<>> THEN AnsweredByMemory(c)
        ELSE AnsweredByReplica(c)

(* Whatever changed meanwhile, a request is only sent to a backend that    *)
(* the cluster's objects or the replica gave for the very host it asks     *)
(* for, now or earlier, but not before the process was last started:       *)
(* that is as stale as an answer from memory can be, and no less is        *)
(* promised (memoryStore, which nothing ever clears).                      *)
AnswersWereGiven ==
    \A c \in Conns :
        (/\ At(c, "done")
         /\ conn[c].answer.is \in {"proxied", "passed", "ended here"})
            => conn[c].answer.binding \in given[conn[c].host]
=============================================================================
