------------------------------ MODULE PlanDiff ------------------------------
(***************************************************************************)
(* The declarative path of the control plane: a client of lnctl asks the   *)
(* master for the current state of one hostname, the Builder diffs it with *)
(* the desired state (PlanBuilder), and POST /manage/plan writes the plan  *)
(* in one transaction and then announces what it wrote.  Several clients   *)
(* do so at once, plans are applied late and applied again, requests fail, *)
(* and rows are also written one by one through PUT and DELETE             *)
(* /manage/<resource>.                                                     *)
(***************************************************************************)
EXTENDS PlanBuilder

CONSTANTS
    Clients,    \* processes that use lnctl
    Desires,    \* client -> what it wants of the hostname (see the Builder)
    Initial,    \* the tables they may find
    Puts,       \* [kind, id, row]: rows written one by one
    MaxPlans,   \* bound: client -> plans it commits
    MaxFaults   \* bound: requests that fail, rows written one by one

VARIABLES
    table,      \* [domain, routes, backends, dns]: the master's database
    client,     \* client -> where it is, what it wants and what it was shown
    sent,       \* the last entry announced for the hostname
    sentDNS,    \* record id -> the last record announced
    notified,   \* the certificate reconciler was told of the hostname
    plans,      \* client -> plans it committed
    failures,   \* requests that failed and rows written one by one
    applied,    \* history: the last desire applied, and how often in a row
    faults,     \* history: what may hide rows from a plan
    alone       \* history: the client whose apply nothing else disturbed

vars == <<table, client, sent, sentDNS, notified, plans, failures, applied,
          faults, alone>>

Gone == [NotFound EXCEPT !.type = "deleted"]
GoneRecord == [value |-> "deleted", enabled |-> TRUE, stamped |-> TRUE]
Nobody == "nobody"

ASSUME DesiresAssumption ==
    \A c \in Clients : \A b \in Desires[c] : BuilderOK(b)

ASSUME InitialAssumption ==
    \A t \in Initial : TableOK(t) /\ RoutesOfL7(t) /\ NoOrphans(t)

ASSUME PutsAssumption ==
    \A p \in Puts : /\ p.kind \in {"domain", "routes", "backends", "dns"}
                    /\ p.kind = "backends" => p.id # NoID

-----------------------------------------------------------------------------
(* The client.                                                             *)

NoRest == [gone |-> FALSE, del |-> {}, host |-> FALSE, ids |-> {}]

Idle ==
    [at |-> "idle", want |-> NewBuilder, seen |-> NotFound, dns |-> Empty,
     stale |-> FALSE, rest |-> NoRest, entry |-> NotFound,
     record |-> GoneRecord, id |-> NoID, touched |-> {}]

\* Every client that was shown the table before it changed is out of date.
Shown(new) ==
    [c \in Clients |-> [client[c] EXCEPT !.stale = @ \/ new # table]]

\* A missing hostname answers 404, and the plan is built without current state.
QueryDomainEntryProjection(c, b) ==
    /\ client[c].at \in {"idle", "done"}
    /\ plans[c] < MaxPlans[c]
    /\ client' = [client EXCEPT ![c] =
                    [Idle EXCEPT !.at = "asked", !.want = b,
                                 !.seen = GetDomainEntryProjectionByDomain(table)]]
    /\ UNCHANGED <<table, sent, sentDNS, notified, plans, failures, applied,
                   faults, alone>>

\* A second request: the table may have changed since the first.
QueryDNSRecords(c) ==
    /\ client[c].at = "asked"
    /\ client' = [client EXCEPT ![c].at = "ready",
                                ![c].dns = ListDNSRecordsByQuestion(table)]
    /\ UNCHANGED <<table, sent, sentDNS, notified, plans, failures, applied,
                   faults, alone>>

BuildFails(c) ==
    /\ client[c].at = "ready"
    /\ client[c].want # Removal /\ ~Buildable(client[c].want)
    /\ client' = [client EXCEPT ![c] = Idle]
    /\ UNCHANGED <<table, sent, sentDNS, notified, plans, failures, applied,
                   faults, alone>>

-----------------------------------------------------------------------------
(* POST /manage/plan.                                                      *)

\* What applyPlan announces once the transaction is committed: the hostname
\* of the plan always, a deleted entry only if it was there to be read.
AnnouncedHostsOfRows(t, plan) ==
    [gone |-> plan.domain = {NoDomain} /\ t.domain # NoDomain,
     del |-> plan.dns.del,
     host |-> plan.domain \ {NoDomain} # {},
     ids |-> DOMAIN plan.dns.put]

Announced(t, plan) ==
    [gone |-> plan.domain = {NoDomain} /\ t.domain # NoDomain,
     del |-> plan.dns.del,
     host |-> TRUE,
     ids |-> DOMAIN plan.dns.put]

\* History: what may leave rows that the next plan is not shown, or delete a
\* row it needs.
Hazards(c, plan) ==
    {f \in {"stale", "collision", "renamed", "removed"} :
        CASE f = "stale" -> client[c].stale
          [] f = "collision" -> DOMAIN plan.backends.put \cap plan.backends.del # {}
          [] f = "renamed" -> /\ client[c].seen.bound # NoRef
                              /\ isL4BackendType(client[c].want.type)
                              /\ client[c].seen.bound.id # backendRefID(L4Key)
          [] f = "removed" -> client[c].want = Removal}

Times(c) ==
    IF client[c].stale THEN 0
    ELSE IF applied.want = client[c].want THEN Min({2, applied.times + 1})
    ELSE 1

Sending(c) ==
    client[c].at \in {"sending", "readEntry", "sendEntry", "sendRecord"}

Commit(c) ==
    /\ client[c].at = "ready"
    /\ client[c].want = Removal \/ Buildable(client[c].want)
    /\ plans[c] < MaxPlans[c]
    /\ \E plan \in {Build(client[c].want, client[c].seen, client[c].dns)} :
       \E new \in {Transaction(table, plan)} :
        /\ table' = new
        /\ client' = [Shown(new) EXCEPT
                        ![c].at = "sending",
                        ![c].rest = Announced(table, plan),
                        ![c].touched = plan.dns.del \cup DOMAIN plan.dns.put]
        /\ faults' = faults \cup Hazards(c, plan)
    /\ plans' = [plans EXCEPT ![c] = @ + 1]
    /\ notified' = FALSE
    /\ applied' = [want |-> client[c].want, times |-> Times(c)]
    /\ alone' = IF \E d \in Clients \ {c} : Sending(d) THEN Nobody ELSE c
    /\ UNCHANGED <<sent, sentDNS, failures>>

\* Any write or the commit fails: the transaction is rolled back, and the
\* client gives up.  (That it tries again is Commit.)
Rollback(c) ==
    /\ client[c].at = "ready" /\ failures < MaxFaults
    /\ failures' = failures + 1
    /\ client' = [client EXCEPT ![c] = Idle]
    /\ UNCHANGED <<table, sent, sentDNS, notified, plans, applied, faults,
                   alone>>

broadcastDeletedDomainEntry(c) ==
    /\ client[c].at = "sending" /\ client[c].rest.gone
    /\ sent' = Gone
    /\ client' = [client EXCEPT ![c].rest.gone = FALSE]
    /\ UNCHANGED <<table, sentDNS, notified, plans, failures, applied, faults,
                   alone>>

\* The record announced as deleted is the one the client was shown.
broadcastDeletedDNSRecord(c) ==
    /\ client[c].at = "sending" /\ ~client[c].rest.gone
    /\ \E id \in client[c].rest.del :
        /\ sentDNS' = Over(OneRow(id, GoneRecord), sentDNS)
        /\ client' = [client EXCEPT ![c].rest.del = @ \ {id}]
    /\ UNCHANGED <<table, sent, notified, plans, failures, applied, faults,
                   alone>>

\* The domain is read, and Certs.Notify called if it needs a certificate.
Notify(c) ==
    /\ client[c].at = "sending" /\ client[c].rest.host
    /\ ~client[c].rest.gone /\ client[c].rest.del = {}
    /\ notified' = (notified \/ table.domain.need)
    /\ client' = [client EXCEPT ![c].at = "readEntry"]
    /\ UNCHANGED <<table, sent, sentDNS, plans, failures, applied, faults, alone>>

\* The read of BoardcastDomainEndpointProjection, a query of its own.
ReadEntry(c) ==
    /\ client[c].at = "readEntry"
    /\ client' = [client EXCEPT
                    ![c].at = IF table.domain = NoDomain THEN "sending"
                              ELSE "sendEntry",
                    ![c].rest.host = FALSE,
                    ![c].entry = GetDomainEntryProjectionByDomain(table)]
    /\ UNCHANGED <<table, sent, sentDNS, notified, plans, failures, applied,
                   faults, alone>>

SendEntry(c) ==
    /\ client[c].at = "sendEntry"
    /\ sent' = client[c].entry
    /\ client' = [client EXCEPT ![c].at = "sending", ![c].entry = NotFound]
    /\ UNCHANGED <<table, sentDNS, notified, plans, failures, applied, faults,
                   alone>>

\* The read of BoardcastDNSRecord; a record that is gone is not announced.
ReadRecord(c) ==
    /\ client[c].at = "sending"
    /\ ~client[c].rest.gone /\ client[c].rest.del = {} /\ ~client[c].rest.host
    /\ \E id \in client[c].rest.ids :
        client' = [client EXCEPT
                    ![c].at = IF id \in DOMAIN table.dns THEN "sendRecord"
                              ELSE "sending",
                    ![c].rest.ids = @ \ {id},
                    ![c].id = id,
                    ![c].record = IF id \in DOMAIN table.dns THEN table.dns[id]
                                  ELSE GoneRecord]
    /\ UNCHANGED <<table, sent, sentDNS, notified, plans, failures, applied,
                   faults, alone>>

SendRecord(c) ==
    /\ client[c].at = "sendRecord"
    /\ sentDNS' = Over(OneRow(client[c].id, client[c].record), sentDNS)
    /\ client' = [client EXCEPT ![c].at = "sending", ![c].id = NoID,
                                ![c].record = GoneRecord]
    /\ UNCHANGED <<table, sent, notified, plans, failures, applied, faults, alone>>

Announce(c) ==
    \/ broadcastDeletedDomainEntry(c) \/ broadcastDeletedDNSRecord(c)
    \/ Notify(c) \/ ReadEntry(c) \/ SendEntry(c)
    \/ ReadRecord(c) \/ SendRecord(c)

Answer(c) ==
    /\ client[c].at = "sending" /\ client[c].rest = NoRest
    /\ client' = [client EXCEPT ![c] = [Idle EXCEPT !.at = "done",
                                                   !.touched = client[c].touched]]
    /\ UNCHANGED <<table, sent, sentDNS, notified, plans, failures, applied,
                   faults, alone>>

\* The first error ends the request, and what is left is not announced; so
\* does the end of the master, which keeps nothing of the request; or only
\* the answer is lost.  The client still has its plan and may send it again.
AnnounceFails(c) ==
    /\ Sending(c) /\ failures < MaxFaults
    /\ failures' = failures + 1
    /\ client' = [client EXCEPT ![c] = [Idle EXCEPT
                    !.at = "ready", !.want = client[c].want,
                    !.seen = client[c].seen, !.dns = client[c].dns,
                    !.stale = client[c].stale]]
    /\ alone' = IF alone = c THEN Nobody ELSE alone
    /\ UNCHANGED <<table, sent, sentDNS, notified, plans, applied, faults>>

-----------------------------------------------------------------------------
(* PUT and DELETE /manage/<resource>/<id>: rows, and no announcement.  The *)
(* delete of a hostname fails, its table having no column "id".            *)

DirectWrite(new) ==
    /\ failures < MaxFaults /\ \E c \in Clients : plans[c] < MaxPlans[c]
    /\ table' = new
    /\ client' = Shown(new)
    /\ failures' = failures + 1
    /\ applied' = [want |-> NewBuilder, times |-> 0]
    /\ faults' = faults \cup {"put"}
    /\ alone' = Nobody
    /\ UNCHANGED <<sent, sentDNS, notified, plans>>

handlePutResource(p) ==
    DirectWrite(IF p.kind = "domain" THEN [table EXCEPT !.domain = p.row]
                ELSE [table EXCEPT ![p.kind] = Over(OneRow(p.id, p.row), @)])

handleDeleteResource(kind, id) ==
    DirectWrite([table EXCEPT ![kind] = Restrict(@, DOMAIN @ \ {id})])

-----------------------------------------------------------------------------
Init ==
    /\ table \in Initial
    /\ client = [c \in Clients |-> Idle]
    /\ sent = GetDomainEntryProjectionByDomain(table)
    /\ sentDNS = table.dns
    /\ notified = FALSE
    /\ plans = [c \in Clients |-> 0] /\ failures = 0
    /\ applied = [want |-> NewBuilder, times |-> 0]
    /\ faults = {}
    /\ alone = Nobody

Next ==
    \/ \E c \in Clients :
        \/ \E b \in Desires[c] : QueryDomainEntryProjection(c, b)
        \/ QueryDNSRecords(c)
        \/ BuildFails(c)
        \/ Commit(c)
        \/ Rollback(c)
        \/ Announce(c)
        \/ Answer(c)
        \/ AnnounceFails(c)
    \/ \E p \in Puts : handlePutResource(p)
    \/ \E kind \in {"routes", "backends", "dns"} :
        \E id \in DOMAIN table[kind] : handleDeleteResource(kind, id)

Spec == Init /\ [][Next]_vars

-----------------------------------------------------------------------------
(* What the plans achieve.                                                 *)

Reached(b) ==
    Content(GetDomainEntryProjectionByDomain(table)) = Meant(b)

\* A plan built from the current state ("根据“当前状态 + 目标状态”生成 `Plan`")
\* makes the entry the desired one, through any switches between L4 and L7,
\* unless an earlier plan was out of date, deleted the hostname, or put and
\* deleted one backend row, or rows were written one by one.
OnePlanReaches ==
    /\ applied.times > 0 /\ applied.want # Removal /\ DistinctIDs(applied.want)
    /\ faults \subseteq {"renamed"}
    => Reached(applied.want)

\* Whatever happened before (plans out of date, a hostname deleted and its
\* routes left behind, rows put and deleted one by one, a backend row put and
\* deleted by one plan), two plans for one desire, each built from the current
\* state, make the entry the desired one.
TwoPlansReach ==
    applied.times = 2 /\ applied.want # Removal /\ DistinctIDs(applied.want)
    => Reached(applied.want)

\* Once there, the next plan for the same desire changes no domain, route or
\* backend row: the current state Build reconstructs from the projection is
\* the one it wrote.  (Its DNS records it writes again each time.)
SettledPlanIsEmpty ==
    applied.times = 2 /\ applied.want # Removal /\ DistinctIDs(applied.want) =>
        LET plan == Build(applied.want, GetDomainEntryProjectionByDomain(table),
                          ListDNSRecordsByQuestion(table))
        IN  /\ plan.domain = {}
            /\ plan.routes = Deleting({}) /\ plan.backends = Deleting({})

\* The plans delete the backend rows they replace: as long as every plan was
\* built from the current state, and none moved an L4 entry to a row of another
\* identifier, each live backend row is one the entry refers to.
NoOrphanBackends == faults = {} => NoOrphans(table)

\* A plan whose announcements nothing else disturbed leaves subscribers with
\* the entry and with the records it wrote as the database holds them, and the
\* reconciler told of a certificate that is needed, whatever earlier requests
\* failed to announce: the plan's hostname is always announced.
AppliedAloneIsAnnounced ==
    alone # Nobody /\ client[alone].at = "done" =>
        /\ table.domain # NoDomain =>
                sent = GetDomainEntryProjectionByDomain(table)
        /\ table.domain.need => notified
        /\ \A id \in client[alone].touched :
            sentDNS[id] = IF id \in DOMAIN table.dns THEN table.dns[id]
                          ELSE GoneRecord
=============================================================================
