----------------------------- MODULE DomainSync -----------------------------
(***************************************************************************)
(* How a Kubernetes bridge of the master writes hostnames to the           *)
(* repository (src/engine/master/k8s_bridge/bridge_materialized.go) and    *)
(* publishes them.  A worker is one informer goroutine (or one bridge      *)
(* whose mutex serialises its goroutines).  It goes through a list of      *)
(* hosts; for each it reads the stored rows, then writes row by row, with  *)
(* no transaction, so rows of two workers interleave and an error leaves   *)
(* the rows written so far.  When the whole list is written it publishes   *)
(* the hosts that changed, one at a time.                                  *)
(*                                                                         *)
(* All rows here carry the "k8s:" prefix of the bridges.  The notice to    *)
(* the certificate reconciler, sent after each host that needs a           *)
(* certificate, is the Notify of module CertIssuance.                      *)
(***************************************************************************)
EXTENDS Integers, Sequences, FiniteSets, SequencesExt

CONSTANTS Hosts,      \* normalised hostnames
          Workers,    \* informer goroutines that write
          MaxFaults   \* bound on the kinds of fault in one behaviour

VARIABLES domains,    \* domain_endpoints: host -> row, NoDomain when deleted
          routes,     \* http_routes that are not deleted
          backends,   \* service_backend_refs that are not deleted
          work,       \* what each worker still has to do
          published,  \* host -> the projection last broadcast
          faults      \* the kinds of fault there were

store == <<domains, routes, backends>>
syncVars == <<store, work, published, faults>>

NoID == <<>>

NoDomain == [type |-> "none", cert |-> FALSE, bound |-> NoID]

NothingToDo == [hosts |-> <<>>, next |-> <<>>, writes |-> <<>>,
                put |-> <<>>, gone |-> <<>>, goneFirst |-> FALSE]

Idle(w) == work[w] = NothingToDo

-----------------------------------------------------------------------------

RoutesOf(h) == {r \in routes : r.host = h}

(* ListServiceBindingsByHostname is a join: a backend no route names is    *)
(* not in it, one that two routes name is in it twice.                     *)
BackendsOf(h) == {rb \in RoutesOf(h) \X backends : rb[1].backend = rb[2].id}

IDs(rows) == {row.id : row \in rows}

(* What is shown of a domain: an L4 domain with its backend, an L7 domain  *)
(* with its routes.  These joins are outer ones: a route whose backend row *)
(* is not there is shown without.                                          *)
Shown(domain, rs, bs) ==
    LET l4 == domain.type \in {"L4TLSPassthrough", "L4TLSTermination"}
        row(id) == {b \in bs : b.id = id}
    IN  [domain |-> domain,
         bound |-> IF l4 THEN row(domain.bound) ELSE {},
         routes |-> IF l4 THEN {}
                    ELSE {[route |-> r, backend |-> row(r.backend)] : r \in rs}]

(* What a slave receives of a host: nothing for a deleted domain.          *)
Projection(h) == IF domains[h] = NoDomain THEN Shown(NoDomain, {}, {})
                 ELSE Shown(domains[h], RoutesOf(h), backends)

(* An item is what a host should be: its domain row, the rows of its       *)
(* backends and routes, and how many routes the bridge listed, which is    *)
(* more than the rows when two of them have one ID.  Below, the projection *)
(* it stands for once it is stored.                                        *)
Intended(item) == Shown(item.domain, item.routes, item.backends)

(* Mutant: the backends' addresses are not compared.                       *)
UnchangedIgnoringBackends(h, item) ==
    /\ domains[h] = item.domain
    /\ item.routes = RoutesOf(h)

managedDomainUnchanged(h, item) ==
    /\ domains[h] = item.domain
    /\ Cardinality(RoutesOf(h)) = item.listed
    /\ Cardinality(BackendsOf(h)) = Cardinality(item.backends)
    /\ item.routes \subseteq RoutesOf(h)
    /\ item.backends \subseteq {rb[2] : rb \in BackendsOf(h)}

-----------------------------------------------------------------------------

Write(op, row) == [op |-> op, row |-> row]

DropAll(rs, keep) ==
    FlattenSeq(SetToSeq({
        <<Write("dropRoute", [id |-> r.id])>> \o
        (IF r.backend \in keep THEN <<>>
         ELSE <<Write("dropBackend", [id |-> r.backend])>>) : r \in rs}))

DropBound(h, keep) ==
    IF domains[h].bound \in keep \cup {NoID} THEN <<>>
    ELSE <<Write("dropBackend", [id |-> domains[h].bound])>>

(* Mutant: routes that are no longer declared are kept.                    *)
UpsertWithoutDrops(h, item) ==
    <<Write("putDomain", [host |-> h, domain |-> item.domain])>>
    \o SetToSeq({Write("putBackend", b) : b \in item.backends})
    \o SetToSeq({Write("putRoute", r) : r \in item.routes})

upsertManagedDomain(h, item) ==
    LET keep == IDs(item.backends)
        stale == {r \in RoutesOf(h) : r.id \notin IDs(item.routes)}
    IN  <<Write("putDomain", [host |-> h, domain |-> item.domain])>>
        \o SetToSeq({Write("putBackend", b) : b \in item.backends})
        \o SetToSeq({Write("putRoute", r) : r \in item.routes})
        \o DropAll(stale, keep) \o DropBound(h, keep)

(* listed: the routes read; none when that read failed, which the code     *)
(* ignores.                                                                *)
deleteManagedDomain(h, listed) ==
    DropAll(listed, {}) \o DropBound(h, {})
    \o <<Write("dropDomain", [host |-> h])>>

Put(rows, row) == {x \in rows : x.id # row.id} \cup {row}

ApplyWrite(x) ==
    /\ domains' = CASE x.op = "putDomain" ->
                         [domains EXCEPT ![x.row.host] = x.row.domain]
                    [] x.op = "dropDomain" ->
                         [domains EXCEPT ![x.row.host] = NoDomain]
                    [] OTHER -> domains
    /\ routes' = CASE x.op = "putRoute" -> Put(routes, x.row)
                   [] x.op = "dropRoute" ->
                        {r \in routes : r.id # x.row.id}
                   [] OTHER -> routes
    /\ backends' = CASE x.op = "putBackend" -> Put(backends, x.row)
                     [] x.op = "dropBackend" ->
                          {b \in backends : b.id # x.row.id}
                     [] OTHER -> backends

-----------------------------------------------------------------------------
(* The worker.                                                             *)

SyncInit ==
    /\ domains = [h \in Hosts |-> NoDomain]
    /\ routes = {}
    /\ backends = {}
    /\ work = [w \in Workers |-> NothingToDo]
    /\ published = [h \in Hosts |-> Projection(h)]
    /\ faults = {}

(* Also recorded, and not bounded: changes of the cluster that are missed, *)
(* an event that one handler takes in while the other writes, and a        *)
(* deletion an informer learns of by a relist only.                        *)
Recorded == {"down", "loading", "overtaken", "tombstone"}

CanFail(f) == f \notin faults /\ Cardinality(faults \ Recorded) < MaxFaults

(* A bridge lists the cluster (LoadInitial) and then its informers list it *)
(* again (Listen): of the changes between the two only a deletion is lost. *)
Noticed(phase, deletion) ==
    faults' = IF phase = "down" \/ (phase = "loading" /\ deletion)
              THEN faults \cup {phase} ELSE faults

Fault(f) == CanFail(f) /\ faults' = faults \cup {f}

(* The work left once a step is done: none when nothing remains to write   *)
(* or to publish.                                                          *)
Remaining(job) ==
    IF job.hosts = <<>> /\ job.put = <<>> /\ job.gone = <<>>
    THEN NothingToDo
    ELSE job

syncDomainSet(affected, removed, next, goneFirst) ==
    Remaining([NothingToDo EXCEPT
        !.hosts = SetToSeq(affected) \o SetToSeq(removed \ affected),
        !.next = next, !.goneFirst = goneFirst])

(* The current host is done: record whether it changed and go on.          *)
Done(job, changed) ==
    LET h == Head(job.hosts)
        rest == [job EXCEPT !.hosts = Tail(@), !.writes = <<>>]
    IN  Remaining(IF ~changed THEN rest
                  ELSE IF h \in DOMAIN job.next
                       THEN [rest EXCEPT !.put = Append(@, h)]
                       ELSE [rest EXCEPT !.gone = Append(@, h)])

(* Read the rows of the next host and decide what to write.                *)
SyncHost(w) ==
    /\ work[w].hosts # <<>>
    /\ work[w].writes = <<>>
    /\ LET h == Head(work[w].hosts)
       IN  IF h \in DOMAIN work[w].next
           THEN /\ work' = [work EXCEPT ![w] =
                     IF managedDomainUnchanged(h, @.next[h])
                     THEN Done(@, FALSE)
                     ELSE [@ EXCEPT !.writes =
                             upsertManagedDomain(h, work[w].next[h])]]
                /\ UNCHANGED faults
           ELSE IF domains[h] = NoDomain
           THEN /\ work' = [work EXCEPT ![w] = Done(@, FALSE)]
                /\ UNCHANGED faults
           ELSE \/ /\ work' = [work EXCEPT ![w].writes =
                                    deleteManagedDomain(h, RoutesOf(h))]
                   /\ UNCHANGED faults
                \/ /\ work' = [work EXCEPT ![w].writes =
                                    deleteManagedDomain(h, {})]
                   /\ Fault("list")
    /\ UNCHANGED <<store, published>>

WriteRow(w) ==
    /\ work[w].writes # <<>>
    /\ ApplyWrite(Head(work[w].writes))
    /\ work' = [work EXCEPT ![w] =
                  IF Len(@.writes) = 1 THEN Done(@, TRUE)
                  ELSE [@ EXCEPT !.writes = Tail(@)]]
    /\ UNCHANGED <<published, faults>>

(* A read or a write fails: syncDomainSet returns the error and neither    *)
(* list, so nothing of this call is published.                             *)
SyncFails(w) ==
    /\ work[w].hosts # <<>>
    /\ Fault("sync")
    /\ work' = [work EXCEPT ![w] = NothingToDo]
    /\ UNCHANGED <<store, published>>

ToPublish(job) == IF job.goneFirst THEN job.gone \o job.put
                                   ELSE job.put \o job.gone

Publishing(w) == work[w].hosts = <<>> /\ ToPublish(work[w]) # <<>>


(* OnUpdate broadcasts the projection as it is stored now.                 *)
PublishHost(w) ==
    /\ Publishing(w)
    /\ LET h == Head(ToPublish(work[w]))
       IN  /\ published' = [published EXCEPT ![h] = Projection(h)]
           /\ work' = [work EXCEPT ![w] = Remaining(
                        [@ EXCEPT !.put = SelectSeq(@, LAMBDA x : x # h),
                                  !.gone = SelectSeq(@, LAMBDA x : x # h)])]
    /\ UNCHANGED <<store, faults>>

PublishFails(w) ==
    /\ Publishing(w)
    /\ Fault("publish")
    /\ work' = [work EXCEPT ![w] = NothingToDo]
    /\ UNCHANGED <<store, published>>

WorkerStep(w) == SyncHost(w) \/ WriteRow(w) \/ PublishHost(w)

WorkerFault(w) == SyncFails(w) \/ PublishFails(w)
=============================================================================
