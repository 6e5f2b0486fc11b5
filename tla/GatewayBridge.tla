---------------------------- MODULE GatewayBridge ----------------------------
(***************************************************************************)
(* The master's Gateway API bridge (src/engine/master/k8s_bridge/          *)
(* gateway.go, gateway_httproute.go, gateway_tlsroute.go).  Four informers *)
(* feed it; each handler holds the bridge's mutex while it changes a map,  *)
(* writes the hosts and publishes them, so there is one worker, "gateway". *)
(* An event rebuilds only the hosts it names itself: a Gateway those of    *)
(* its listeners, a route those of its own list, a Service all of them.    *)
(* Informers are as in module IngressBridge.                               *)
(***************************************************************************)
EXTENDS DomainSync

CONSTANTS Gateways, GatewaySpecs,   \* names, and what a Gateway may say
          HTTPRoutes, HTTPSpecs,
          TLSRoutes, TLSSpecs,
          Services,
          InitialGateways, InitialHTTP, InitialTLS, InitialServices,
          MaxChanges                \* bound on changes of the cluster

VARIABLES objs,     \* the cluster: gw, http, tls, svc
          seen,     \* what the informers last handed over
          maps,     \* the bridge's maps
          phase, changes

clusterVars == <<objs, seen, maps, phase, changes>>
vars == <<syncVars, clusterVars>>

ASSUME OneWorker == "gateway" \in Workers

(* A Gateway is its list of listeners [name, protocol, host, passthrough]. *)
(* An HTTPRoute is [hosts, parents, rules], a TLSRoute [hosts, parents,    *)
(* svc]: lists of hosts, of [gw, section] and of [path, svc].              *)
NoHost == "no host"
NoService == "no service"
AnySection == "any section"
NoGateway == <<>>
NoHTTP == [hosts |-> <<>>, parents |-> <<>>, rules |-> <<>>]
NoTLS == [hosts |-> <<>>, parents |-> <<>>, svc |-> NoService]

(* parseTLSRouteState gives nothing for a route without a backend.         *)
ValidTLS(obj) == obj.svc # NoService

-----------------------------------------------------------------------------

gatewayHosts(gw) == {ls.host : ls \in Range(gw)} \ {NoHost}

collectHosts(m) ==
    UNION {gatewayHosts(m.gw[g]) : g \in Gateways}
    \cup UNION {Range(m.http[r].hosts) : r \in HTTPRoutes}
    \cup UNION {Range(m.tls[r].hosts) : r \in TLSRoutes}

Listener(m, route, a) == m.gw[route.parents[a[1]].gw][a[2]]

(* The listeners a route is attached to, by position: parent, listener.    *)
Attached(m, route, protocols) ==
    {a \in UNION {{p} \X (DOMAIN m.gw[route.parents[p].gw]) :
                     p \in DOMAIN route.parents} :
        /\ route.parents[a[1]].section \in {AnySection, Listener(m, route, a).name}
        /\ Listener(m, route, a).protocol \in protocols}

HostsFor(route, ls) ==
    IF route.hosts = <<>> /\ ls.host # NoHost THEN <<ls.host>> ELSE route.hosts

Serving(m, route, protocols, h) ==
    {a \in Attached(m, route, protocols) :
        h \in Range(HostsFor(route, Listener(m, route, a)))}

(* The domain row is assigned anew for each listener: the last one decides. *)
LastListener(m, route, protocols, h) ==
    LET all == Serving(m, route, protocols, h)
    IN  Listener(m, route, CHOOSE a \in all : \A b \in all :
            b[1] < a[1] \/ (b[1] = a[1] /\ b[2] <= a[2]))

Target(m, s) ==
    IF m.svc[s] = "external" THEN <<"External", s>> ELSE <<"SVC", s>>

(* The rows of a route for a host: the host's position in the list and the *)
(* rule's are part of the ID.                                              *)
HTTPRows(m, r, h) ==
    LET route == m.http[r]
        at == UNION {{k \in DOMAIN HostsFor(route, Listener(m, route, a)) :
                         HostsFor(route, Listener(m, route, a))[k] = h} :
                     a \in Serving(m, route, {"HTTP", "HTTPS"}, h)}
    IN  {[id |-> <<r, h, x[1], x[2]>>, rule |-> route.rules[x[2]]] :
            x \in at \X (DOMAIN route.rules)}

HTTPServing(m, h) ==
    {r \in HTTPRoutes : Serving(m, m.http[r], {"HTTP", "HTTPS"}, h) # {}}

TLSServing(m, h) == {r \in TLSRoutes : Serving(m, m.tls[r], {"TLS"}, h) # {}}

HTTPItem(m, h, last) ==
    LET rows == UNION {HTTPRows(m, r, h) : r \in HTTPServing(m, h)}
        secure == LastListener(m, m.http[last], {"HTTP", "HTTPS"}, h).protocol
                      = "HTTPS"
    IN  [domain |-> [type |-> IF secure THEN "L7HTTPS" ELSE "L7HTTP",
                     cert |-> secure, bound |-> NoID],
         backends |-> {[id |-> x.id, target |-> Target(m, x.rule.svc)] :
                          x \in rows},
         routes |-> {[id |-> x.id, host |-> h, path |-> x.rule.path,
                      backend |-> x.id] : x \in rows},
         listed |-> Cardinality(rows)]

(* A TLSRoute replaces what the HTTPRoutes of the host gave.               *)
TLSItem(m, h, last) ==
    LET ls == LastListener(m, m.tls[last], {"TLS"}, h)
        id == <<last, h>>
    IN  [domain |-> [type |-> IF ls.passthrough THEN "L4TLSPassthrough"
                              ELSE "L4TLSTermination",
                     cert |-> ~ls.passthrough, bound |-> id],
         backends |-> {[id |-> id, target |-> Target(m, m.tls[last].svc)]},
         routes |-> {}, listed |-> 0]

(* Which route the maps yield last is not determined.                      *)
Items(m, h) ==
    IF TLSServing(m, h) # {}
    THEN {TLSItem(m, h, r) : r \in TLSServing(m, h)}
    ELSE {HTTPItem(m, h, r) : r \in HTTPServing(m, h)}

materializeByHostLocked(m, hosts) ==
    LET served == {h \in hosts : Items(m, h) # {}}
    IN  {next \in [served -> UNION {Items(m, h) : h \in served}] :
            \A h \in served : next[h] \in Items(m, h)}

syncHostsLocked(m, affected, removed) ==
    \E next \in materializeByHostLocked(m, affected) :
        work' = [work EXCEPT !["gateway"] =
                    syncDomainSet(affected, removed, next, TRUE)]

-----------------------------------------------------------------------------

Nothing == [gw |-> [g \in Gateways |-> NoGateway],
            http |-> [r \in HTTPRoutes |-> NoHTTP],
            tls |-> [r \in TLSRoutes |-> NoTLS],
            svc |-> [s \in Services |-> "none"]]

Init ==
    /\ SyncInit
    /\ objs \in [gw : [Gateways -> InitialGateways],
                 http : [HTTPRoutes -> InitialHTTP],
                 tls : [TLSRoutes -> InitialTLS],
                 svc : [Services -> InitialServices]]
    /\ seen = Nothing
    /\ maps = Nothing
    /\ phase = "down"
    /\ changes = 0

(* The cluster, outside the program.                                       *)
Changed(kind, x, spec, none) ==
    /\ changes < MaxChanges
    /\ spec # objs[kind][x]
    /\ phase = "up" => seen[kind][x] = objs[kind][x]
    /\ Noticed(phase, spec = none)
    /\ changes' = changes + 1
    /\ objs' = [objs EXCEPT ![kind][x] = spec]
    /\ UNCHANGED <<store, work, published, seen, maps, phase>>

ChangeObject ==
    \/ \E g \in Gateways, spec \in GatewaySpecs \cup {NoGateway} :
          Changed("gw", g, spec, NoGateway)
    \/ \E r \in HTTPRoutes, spec \in HTTPSpecs \cup {NoHTTP} :
          Changed("http", r, spec, NoHTTP)
    \/ \E r \in TLSRoutes, spec \in TLSSpecs \cup {NoTLS} :
          Changed("tls", r, spec, NoTLS)
    \/ \E s \in Services, kind \in {"none", "plain", "external"} :
          Changed("svc", s, kind, "none")

(* The four lists.  An error of the TLSRoute list is ignored and leaves    *)
(* that map as it was, empty.                                              *)
Loaded(tlsListed) ==
    [objs EXCEPT !.tls = [r \in TLSRoutes |->
        IF tlsListed /\ ValidTLS(objs.tls[r]) THEN objs.tls[r] ELSE NoTLS]]

LoadInitial ==
    /\ phase = "down"
    /\ phase' = "loading"
    /\ \E listed \in BOOLEAN :
          /\ IF listed THEN UNCHANGED faults ELSE Fault("tlslist")
          /\ maps' = Loaded(listed)
          /\ syncHostsLocked(Loaded(listed), collectHosts(Loaded(listed)), {})
    /\ UNCHANGED <<store, published, objs, seen, changes>>

Listen ==
    /\ phase = "loading"
    /\ Idle("gateway")
    /\ phase' = "up"
    /\ seen' = [kind \in DOMAIN objs |-> [x \in DOMAIN objs[kind] |->
                  IF maps[kind][x] = objs[kind][x] THEN objs[kind][x]
                  ELSE Nothing[kind][x]]]
    /\ UNCHANGED <<syncVars, objs, maps, changes>>

(* The process ends, at any time or by an error in LoadInitial, which ends *)
(* the master's Start: what is in memory is lost.                          *)
Exit ==
    /\ phase' = "down"
    /\ work' = [w \in Workers |-> NothingToDo]
    /\ maps' = Nothing
    /\ seen' = Nothing
    /\ UNCHANGED <<store, published, objs, changes>>

Crash ==
    /\ phase # "down"
    /\ Fault("crash")
    /\ Exit

Handler ==
    /\ phase = "up"
    /\ Idle("gateway")
    /\ UNCHANGED <<store, published, objs, phase, changes>>

(* Mutant: hosts are removed, those still named are not rebuilt.           *)
UpdateRemovedOnly(new, affected) ==
    /\ maps' = new
    /\ syncHostsLocked(new, {}, collectHosts(maps) \ collectHosts(new))

(* The hosts no Gateway and no route names any more are removed.           *)
Update(new, affected) ==
    /\ maps' = new
    /\ syncHostsLocked(new, affected, collectHosts(maps) \ collectHosts(new))

(* storeGateway, and deleteGateway: it affects no host.                    *)
HandleGateway(g) ==
    /\ Handler
    /\ objs.gw[g] # NoGateway \/ seen.gw[g] # NoGateway
    /\ UNCHANGED faults
    /\ seen' = [seen EXCEPT !.gw[g] = objs.gw[g]]
    /\ Update([maps EXCEPT !.gw[g] = objs.gw[g]], gatewayHosts(objs.gw[g]))

(* A deleted route's hosts come from the object in the event; a relist     *)
(* gives a tombstone, from which none are read.                            *)
DeletedHosts(route) == {Range(route.hosts), {}}

Relisted(route, hosts) ==
    faults' = IF hosts = Range(route.hosts) THEN faults
              ELSE faults \cup {"tombstone"}

Rebuild(new, affected) ==
    /\ maps' = new
    /\ syncHostsLocked(new, affected, {})

storeHTTPRoute(r) ==
    /\ objs.http[r] # NoHTTP
    /\ UNCHANGED faults
    /\ Update([maps EXCEPT !.http[r] = objs.http[r]], Range(objs.http[r].hosts))

deleteHTTPRoute(r) ==
    /\ objs.http[r] = NoHTTP /\ seen.http[r] # NoHTTP
    /\ \E hosts \in DeletedHosts(seen.http[r]) :
          /\ Relisted(seen.http[r], hosts)
          /\ Rebuild([maps EXCEPT !.http[r] = NoHTTP], hosts)

HandleHTTPRoute(r) ==
    /\ Handler
    /\ storeHTTPRoute(r) \/ deleteHTTPRoute(r)
    /\ seen' = [seen EXCEPT !.http[r] = objs.http[r]]

storeTLSRoute(r) ==
    /\ objs.tls[r] # NoTLS
    /\ UNCHANGED faults
    /\ IF ValidTLS(objs.tls[r])
       THEN Update([maps EXCEPT !.tls[r] = objs.tls[r]], Range(objs.tls[r].hosts))
       ELSE Update(maps, {})

deleteTLSRoute(r) ==
    /\ objs.tls[r] = NoTLS /\ seen.tls[r] # NoTLS
    /\ \E hosts \in DeletedHosts(seen.tls[r]) :
          /\ Relisted(seen.tls[r], hosts)
          /\ Rebuild([maps EXCEPT !.tls[r] = NoTLS], hosts)

HandleTLSRoute(r) ==
    /\ Handler
    /\ storeTLSRoute(r) \/ deleteTLSRoute(r)
    /\ seen' = [seen EXCEPT !.tls[r] = objs.tls[r]]

HandleService(s) ==
    /\ Handler
    /\ objs.svc[s] # "none" \/ seen.svc[s] # "none"
    /\ UNCHANGED faults
    /\ seen' = [seen EXCEPT !.svc[s] = objs.svc[s]]
    /\ Update([maps EXCEPT !.svc[s] = objs.svc[s]], collectHosts(maps))

Next ==
    \/ ChangeObject \/ LoadInitial \/ Listen \/ Crash
    \/ \E g \in Gateways : HandleGateway(g)
    \/ \E r \in HTTPRoutes : HandleHTTPRoute(r)
    \/ \E r \in TLSRoutes : HandleTLSRoute(r)
    \/ \E s \in Services : HandleService(s)
    \/ \E w \in Workers : WorkerStep(w) /\ UNCHANGED clusterVars
    \/ phase = "up" /\ \E w \in Workers : WorkerFault(w) /\ UNCHANGED clusterVars

(* The process is restarted, its goroutines run, the informers hand over   *)
(* what changed and resync every object.                                   *)
Fairness ==
    /\ WF_vars(LoadInitial) /\ WF_vars(Listen)
    /\ \A w \in Workers : WF_vars(WorkerStep(w) /\ UNCHANGED clusterVars)
    /\ \A g \in Gateways : SF_vars(HandleGateway(g))
    /\ \A r \in HTTPRoutes : SF_vars(HandleHTTPRoute(r))
    /\ \A r \in TLSRoutes : SF_vars(HandleTLSRoute(r))
    /\ \A s \in Services : SF_vars(HandleService(s))

Spec == Init /\ [][Next]_vars /\ Fairness

-----------------------------------------------------------------------------

(* A TLSRoute changed to have no backend is not taken in, and not taken    *)
(* out either.                                                             *)
Unparsed == \E r \in TLSRoutes : objs.tls[r] # NoTLS /\ ~ValidTLS(objs.tls[r])

Wanted(h) == Items(Loaded(TRUE), h)

(* Once the cluster stops changing, every host a route serves through a    *)
(* Gateway ends up stored as the objects say, in whichever order Gateway,  *)
(* routes and Services arrived: what the handler of one object does not    *)
(* rebuild (storeGateway only its listeners' hosts) the resync of another  *)
(* does.  An object deleted after the list and before the informers is     *)
(* left out: it stays in the maps.                                         *)
RoutedIsStored ==
    \A h \in Hosts :
        <>[](\/ Wanted(h) = {}
             \/ Projection(h) \in {Intended(item) : item \in Wanted(h)}
             \/ "loading" \in faults \/ Unparsed)

(* Once the cluster stops changing, a host no route serves is not in the   *)
(* repository, though deleteGateway leaves the hosts of the routes it cuts *)
(* off and deleteHTTPRoute those it took from a listener.  A deletion that *)
(* was missed, seen as a tombstone or not written leaves its host.         *)
UnroutedIsGone ==
    \A h \in Hosts : <>[](\/ Wanted(h) # {} \/ domains[h] = NoDomain
                          \/ ~(faults \subseteq {"list", "tlslist", "publish"})
                          \/ Unparsed)
=============================================================================
