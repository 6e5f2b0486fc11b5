---------------------------- MODULE IngressBridge ----------------------------
(***************************************************************************)
(* The master's Ingress bridge (src/engine/master/k8s_bridge/ingress.go).  *)
(* It keeps the Ingresses and Services of a namespace in two maps, filled  *)
(* by LoadInitial and then by two informers, whose handlers run in a       *)
(* goroutine each, "ingress" and "service", with no lock between them.     *)
(* Every event rebuilds the hosts it affects and writes them with module   *)
(* DomainSync.                                                             *)
(*                                                                         *)
(* An informer hands over every state of an object, from its own first     *)
(* list on: the object changes again once its state was handed over.  How  *)
(* the informers take turns is open.  A resync, every 30 seconds, hands    *)
(* over each existing object again.                                        *)
(***************************************************************************)
EXTENDS DomainSync

CONSTANTS Ingresses,         \* names of Ingress objects
          Specs,             \* what each of them may say
          InitialSpecs,      \* what they say, Absent included, at first
          Services,          \* names of Services
          InitialServices,   \* "none", "plain" or "external" at first
          MaxChanges         \* bound on changes of the cluster

VARIABLES ingObjs, svcObjs,    \* the cluster
          ingSeen, svcSeen,    \* what the informers last handed over
          ingresses, services, \* the bridge's maps
          phase,               \* "down", "loading" or "up"
          changes

clusterVars == <<ingObjs, svcObjs>>
informerVars == <<ingSeen, svcSeen>>
bridgeVars == <<ingresses, services, phase>>
vars == <<syncVars, clusterVars, informerVars, bridgeVars, changes>>

ASSUME WorkersAreHandlers == Workers = {"ingress", "service"}

(* No object.  An Ingress is [class, rules, tls]: whether its class is     *)
(* this bridge's, a list of [host, paths] and the hosts of its TLS part; a *)
(* path is [path, svc].  A rule may have no host and a path no service.    *)
Absent == [class |-> FALSE, rules |-> <<>>, tls |-> {}]
NoHost == "no host"
NoService == "no service"

-----------------------------------------------------------------------------

matchesIngressClass(ing) == ing.class

RuleHosts(ing) == {r.host : r \in Range(ing.rules)} \ {NoHost}

ingressHosts(ing) == RuleHosts(ing) \cup ing.tls

ingressReferencesService(ing, s) ==
    \E r \in Range(ing.rules) : \E p \in Range(r.paths) : p.svc = s

(* A Service of type ExternalName stands for its external address.         *)
BackendTarget(svcs, s) ==
    IF svcs[s] = "external" THEN <<"External", s>> ELSE <<"SVC", s>>

(* The rows of a host: the position of a path in its rule is part of the   *)
(* ID, the position of the rule is not.                                    *)
RuleRows(i, j, rule) ==
    {[id |-> <<i, rule.host, k>>, rule |-> j, at |-> rule.paths[k]] :
        k \in {n \in DOMAIN rule.paths : rule.paths[n].svc # NoService}}

HostRows(ings, h) ==
    UNION {UNION {RuleRows(i, j, ings[i].rules[j]) :
                     j \in {n \in DOMAIN ings[i].rules :
                               ings[i].rules[n].host = h}} : i \in Ingresses}

(* Hosts are materialised from the rules only.  When several Ingresses     *)
(* have a rule for a host, the one the map yields last decides on TLS.     *)
Owners(ings, h) == {i \in Ingresses : h \in RuleHosts(ings[i])}

(* Of the rows of one ID, the one written last stays: that of the last     *)
(* rule.                                                                   *)
Item(ings, svcs, h, last) ==
    LET tls == h \in ings[last].tls
        rows == HostRows(ings, h)
        kept == {r \in rows : \A q \in rows : q.id = r.id => q.rule <= r.rule}
    IN  [domain |-> [type |-> IF tls THEN "L7HTTPS" ELSE "L7HTTP",
                     cert |-> tls, bound |-> NoID],
         backends |-> {[id |-> r.id, target |-> BackendTarget(svcs, r.at.svc)] :
                          r \in kept},
         routes |-> {[id |-> r.id, host |-> h, path |-> r.at.path,
                      backend |-> r.id] : r \in kept},
         listed |-> Cardinality(rows)]

Items(ings, svcs, h) == {Item(ings, svcs, h, i) : i \in Owners(ings, h)}

materializeByHost(ings, svcs, hosts) ==
    LET owned == {h \in hosts : Owners(ings, h) # {}}
    IN  {next \in [owned -> UNION {Items(ings, svcs, h) : h \in owned}] :
            \A h \in owned : next[h] \in Items(ings, svcs, h)}

(* syncHosts: materialise the affected hosts now, write and publish them   *)
(* in the steps of DomainSync.                                             *)
syncHosts(w, ings, svcs, affected, removed) ==
    \E next \in materializeByHost(ings, svcs, affected) :
        work' = [work EXCEPT ![w] =
                    syncDomainSet(affected, removed, next, FALSE)]

-----------------------------------------------------------------------------
(* The cluster, outside the program.                                       *)

ChangeIngress(i) ==
    /\ changes < MaxChanges
    /\ phase = "up" => ingSeen[i] = ingObjs[i]
    /\ changes' = changes + 1
    /\ \E spec \in Specs[i] \cup {Absent} :
          /\ spec # ingObjs[i]
          /\ ingObjs' = [ingObjs EXCEPT ![i] = spec]
          /\ Noticed(phase, spec = Absent)
    /\ UNCHANGED <<store, work, published, svcObjs, informerVars, bridgeVars>>

ChangeService(s) ==
    /\ changes < MaxChanges
    /\ phase = "up" => svcSeen[s] = svcObjs[s]
    /\ changes' = changes + 1
    /\ \E kind \in {"none", "plain", "external"} \ {svcObjs[s]} :
          /\ svcObjs' = [svcObjs EXCEPT ![s] = kind]
          /\ Noticed(phase, kind = "none")
    /\ UNCHANGED <<store, work, published, ingObjs, informerVars, bridgeVars>>

-----------------------------------------------------------------------------
(* The bridge.                                                             *)

Matching(objs) == [i \in Ingresses |->
    IF matchesIngressClass(objs[i]) THEN objs[i] ELSE Absent]

LoadInitial ==
    /\ phase = "down"
    /\ phase' = "loading"
    /\ ingresses' = Matching(ingObjs)
    /\ services' = svcObjs
    /\ syncHosts("ingress", Matching(ingObjs), svcObjs,
           UNION {ingressHosts(Matching(ingObjs)[i]) : i \in Ingresses}, {})
    /\ UNCHANGED <<store, published, faults, clusterVars, informerVars, changes>>

(* Listen: the informers list what exists, to hand it over; what           *)
(* LoadInitial took in already counts as handed over.                      *)
Listen ==
    /\ phase = "loading"
    /\ Idle("ingress")
    /\ phase' = "up"
    /\ ingSeen' = [i \in Ingresses |->
                     IF ingresses[i] = ingObjs[i] THEN ingObjs[i] ELSE Absent]
    /\ svcSeen' = [s \in Services |->
                     IF services[s] = svcObjs[s] THEN svcObjs[s] ELSE "none"]
    /\ UNCHANGED <<syncVars, clusterVars, ingresses, services, changes>>

(* The process ends, at any time or by an error in LoadInitial, which ends *)
(* the master's Start: what is in memory is lost.                          *)
Exit ==
    /\ phase' = "down"
    /\ work' = [w \in Workers |-> NothingToDo]
    /\ ingresses' = [i \in Ingresses |-> Absent]
    /\ services' = [s \in Services |-> "none"]
    /\ ingSeen' = [i \in Ingresses |-> Absent]
    /\ svcSeen' = [s \in Services |-> "none"]
    /\ UNCHANGED <<store, published, clusterVars, changes>>

Crash ==
    /\ phase # "down"
    /\ Fault("crash")
    /\ Exit

SetIngress(i, ing, affected, removed) ==
    LET ings == [ingresses EXCEPT ![i] = ing]
    IN  /\ ingresses' = ings
        /\ syncHosts("ingress", ings, services, affected, removed)

(* Mutant: the hosts the Ingress no longer has are forgotten.              *)
StoreWithoutRemoved(i, ing) ==
    IF matchesIngressClass(ing)
    THEN SetIngress(i, ing, ingressHosts(ing), {})
    ELSE SetIngress(i, Absent, {}, ingressHosts(ingresses[i]))

storeIngress(i, ing) ==
    LET old == ingressHosts(ingresses[i])
    IN  IF matchesIngressClass(ing)
        THEN SetIngress(i, ing, ingressHosts(ing), old \ ingressHosts(ing))
        ELSE SetIngress(i, Absent, {}, old)

(* The hosts of a deleted Ingress are removed, whether or not another      *)
(* Ingress has them too; the resync of that one writes them again.         *)
deleteIngress(i) == SetIngress(i, Absent, {}, ingressHosts(ingresses[i]))

HandedOver(i) == ingObjs[i] # Absent \/ ingSeen[i] # Absent

HandleIngress(i) ==
    /\ phase = "up"
    /\ Idle("ingress")
    /\ HandedOver(i)
    /\ ingSeen' = [ingSeen EXCEPT ![i] = ingObjs[i]]
    /\ \/ ingObjs[i] # Absent /\ storeIngress(i, ingObjs[i])
       \/ ingObjs[i] = Absent /\ deleteIngress(i)
    /\ faults' = IF Idle("service") \/ ingresses[i] = Matching(ingObjs)[i]
                 THEN faults
                 ELSE faults \cup {"overtaken"}
    /\ UNCHANGED <<services, store, published, clusterVars, svcSeen, phase,
                   changes>>

(* storeService and deleteService differ in the map entry they leave.      *)
HandleService(s) ==
    /\ phase = "up"
    /\ Idle("service")
    /\ svcObjs[s] # "none" \/ svcSeen[s] # "none"
    /\ svcSeen' = [svcSeen EXCEPT ![s] = svcObjs[s]]
    /\ services' = [services EXCEPT ![s] = svcObjs[s]]
    /\ syncHosts("service", ingresses, [services EXCEPT ![s] = svcObjs[s]],
           UNION {ingressHosts(ingresses[i]) : i \in
                    {j \in Ingresses : ingressReferencesService(ingresses[j], s)}},
           {})
    /\ UNCHANGED <<ingresses, store, published, faults, clusterVars, ingSeen,
                   phase, changes>>

-----------------------------------------------------------------------------

Init ==
    /\ SyncInit
    /\ ingObjs \in {o \in [Ingresses -> UNION Range(InitialSpecs)] :
                       \A i \in Ingresses : o[i] \in InitialSpecs[i]}
    /\ svcObjs \in [Services -> InitialServices]
    /\ ingSeen = [i \in Ingresses |-> Absent]
    /\ svcSeen = [s \in Services |-> "none"]
    /\ ingresses = [i \in Ingresses |-> Absent]
    /\ services = [s \in Services |-> "none"]
    /\ phase = "down"
    /\ changes = 0

bridgeRest == <<clusterVars, informerVars, bridgeVars, changes>>

Next ==
    \/ \E i \in Ingresses : ChangeIngress(i) \/ HandleIngress(i)
    \/ \E s \in Services : ChangeService(s) \/ HandleService(s)
    \/ LoadInitial \/ Listen \/ Crash
    \/ \E w \in Workers : WorkerStep(w) /\ UNCHANGED bridgeRest
    \/ phase = "up" /\ \E w \in Workers : WorkerFault(w) /\ UNCHANGED bridgeRest

(* The process is restarted, its goroutines run, the informers hand over   *)
(* what changed and resync every object.                                   *)
Fairness ==
    /\ WF_vars(LoadInitial) /\ WF_vars(Listen)
    /\ \A w \in Workers : WF_vars(WorkerStep(w) /\ UNCHANGED bridgeRest)
    /\ \A i \in Ingresses : SF_vars(HandleIngress(i))
    /\ \A s \in Services : SF_vars(HandleService(s))

Spec == Init /\ [][Next]_vars /\ Fairness

-----------------------------------------------------------------------------

Stored(h) == Projection(h) \in
    {Intended(it) : it \in Items(Matching(ingObjs), svcObjs, h)}

(* Which of two Ingresses decides on TLS is open at each rebuild.          *)
Contended(h) == Cardinality(Owners(ingresses, h)) > 1

Declared(h) == Owners(Matching(ingObjs), h) # {}

(* Once the cluster stops changing, every host some Ingress of the class   *)
(* has a rule for ends up stored as the Ingresses and Services say: its    *)
(* TLS flag, its routes and the addresses of its backends.  Rows written   *)
(* from an older map by the other handler, rows left by a failed write and *)
(* a host deleted together with another Ingress are repaired by the resync *)
(* through storeIngress.  An object deleted after the list and before the  *)
(* informers is left out: it stays in the maps.                            *)
DeclaredIsStored ==
    \A h \in Hosts : <>[](\/ Declared(h) => Stored(h)
                          \/ "loading" \in faults)

(* A host no Ingress has a rule for leaves the repository                  *)
(* (deleteManagedDomain), if the informers saw every change, no sync       *)
(* failed and no deletion overtook the Service handler, which would write  *)
(* the host again and nothing would remove it.                             *)
UndeclaredIsGone ==
    \A h \in Hosts : <>[](\/ Declared(h) \/ domains[h] = NoDomain
                          \/ ~(faults \subseteq {"list", "publish"}))


(* Once the cluster stops changing, the resyncs find nothing to write and  *)
(* nothing to publish (managedDomainUnchanged), after any fault.           *)
ResyncIsQuiet ==
    <>[](\/ \A w \in Workers : work[w].put = <<>> /\ work[w].gone = <<>>
         \/ \E h \in Hosts : Contended(h))
=============================================================================
