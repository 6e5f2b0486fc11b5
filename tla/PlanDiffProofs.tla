--------------------------- MODULE PlanDiffProofs ---------------------------
(***************************************************************************)
(* Proofs of the five properties of PlanDiff for any clients, desires,     *)
(* tables, single writes and bounds. AnnounceInv says what an undisturbed  *)
(* client has still to announce; PlanInv says what a client was shown,     *)
(* what the plans applied in a row have reached and what the rows are      *)
(* like, and rests on the lemmas of PlanRowsProofs about one transaction.  *)
(***************************************************************************)
EXTENDS PlanDiff, PlanRowsProofs

ClientFields ==
    {"at", "want", "seen", "dns", "stale", "rest", "entry", "record", "id",
     "touched"}
RestFields == {"gone", "del", "host", "ids"}

ClientOK(k) ==
    DOMAIN k = ClientFields /\ DOMAIN k.rest = RestFields

ClientType == DOMAIN client = Clients /\ \A c \in Clients : ClientOK(client[c])

\* What subscribers have to be told of a record.
Held(id) == IF id \in DOMAIN table.dns THEN table.dns[id] ELSE GoneRecord

\* What a client whose apply nothing disturbed still has to announce.
EntryOK(k) ==
    /\ k.rest.gone => k.rest.host
    /\ k.at = "readEntry" => k.rest.host /\ ~k.rest.gone
    /\ k.at = "sendEntry" => k.entry = GetDomainEntryProjectionByDomain(table)
    /\ table.domain # NoDomain =>
            \/ k.rest.host \/ k.at = "sendEntry"
            \/ sent = GetDomainEntryProjectionByDomain(table)
    /\ table.domain.need => (k.rest.host /\ k.at # "readEntry") \/ notified

RecordsOK(k) ==
    /\ k.rest.del \cap DOMAIN table.dns = {}
    /\ k.rest.ids \subseteq DOMAIN table.dns
    /\ k.at = "sendRecord" => k.record = Held(k.id)
    /\ \A id \in k.touched :
        \/ id \in k.rest.del \cup k.rest.ids
        \/ k.at = "sendRecord" /\ k.id = id
        \/ id \in DOMAIN sentDNS /\ sentDNS[id] = Held(id)

AloneInv ==
    alone # Nobody =>
        /\ alone \in Clients
        /\ \A d \in Clients \ {alone} : ~Sending(d)
        /\ Sending(alone) \/ client[alone].at = "done" =>
                EntryOK(client[alone]) /\ RecordsOK(client[alone])
        /\ client[alone].at = "done" => client[alone].rest = NoRest

AnnounceInv == ClientType /\ AloneInv

\* A plan puts some DNS records and deletes others, whatever it was built from.
LEMMA PlanOfRecords ==
    ASSUME NEW b, NEW seen, NEW dns
    PROVE  /\ DOMAIN Build(b, seen, dns).dns = {"put", "del"}
           /\ DOMAIN Build(b, seen, dns).dns.put
                \cap Build(b, seen, dns).dns.del = {}
<1> DEFINE plan == Build(b, seen, dns)
<1>1. CASE b = Removal
  <2>1. plan.dns = Deleting({})
    BY <1>1 DEF Build, RemovalPlan
  <2> QED BY <2>1 DEF Deleting
<1>2. CASE b # Removal
  <2>1. plan.dns = Diff(dns, buildDesiredDNSRecords(b))
    BY <1>2 DEF Build, diffDNSRecords
  <2>2. PICK want : want = buildDesiredDNSRecords(b)
    OBVIOUS
  <2> QED BY <2>1, <2>2 DEF Diff, Restrict
<1> QED BY <1>1, <1>2

\* A step of a client that is not announcing after it, and that writes nothing,
\* leaves what another client has to announce as it was.
LEMMA QuietStep ==
    ASSUME AnnounceInv, NEW c \in Clients, NEW k, ClientOK(k),
           k.at \notin {"sending", "readEntry", "sendEntry", "sendRecord", "done"},
           client' = [client EXCEPT ![c] = k],
           UNCHANGED <<table, sent, sentDNS, notified, alone>>
    PROVE  AnnounceInv'
<1> USE DEF AnnounceInv
<1>1. ClientType'
  BY DEF ClientType
<1>2. AloneInv'
  <2> SUFFICES ASSUME alone # Nobody PROVE AloneInv'
    BY DEF AloneInv
  <2>1. client'[c] = k /\ \A d \in Clients \ {c} : client'[d] = client[d]
    BY DEF ClientType
  <2>2. \A d \in Clients \ {alone} : ~Sending(d)'
    BY <2>1 DEF AloneInv, Sending
  <2>3. CASE alone = c
    BY <2>1, <2>2, <2>3 DEF AloneInv, Sending
  <2>4. CASE alone # c
    <3>1. PICK a : a = client[alone]
      OBVIOUS
    <3>2. client'[alone] = a /\ alone \in Clients
      BY <2>1, <2>4, <3>1 DEF AloneInv
    <3>3. Sending(alone)' => Sending(alone)
      BY <3>1, <3>2 DEF Sending
    <3>4. EntryOK(a) => EntryOK(client[alone])'
      BY <3>2 DEF EntryOK
    <3>5. RecordsOK(a) => RecordsOK(client[alone])'
      BY <3>2 DEF RecordsOK, Held
    <3> QED BY <2>2, <3>1, <3>2, <3>3, <3>4, <3>5 DEF AloneInv
  <2> QED BY <2>3, <2>4
<1> QED BY <1>1, <1>2

\* A step of a client that announces: if it counts as undisturbed, what it has
\* still to announce after the step is all that matters.
LEMMA SendingStep ==
    ASSUME AnnounceInv, NEW c \in Clients, NEW k, ClientOK(k), Sending(c),
           client' = [client EXCEPT ![c] = k], alone' = alone,
           alone = c /\ c # Nobody => EntryOK(k)' /\ RecordsOK(k)',
           k.at = "done" => k.rest = NoRest
    PROVE  AnnounceInv'
<1> USE DEF AnnounceInv
<1>1. ClientType'
  BY DEF ClientType
<1>2. AloneInv'
  <2> SUFFICES ASSUME alone # Nobody PROVE AloneInv'
    BY DEF AloneInv
  <2>1. client'[c] = k /\ \A d \in Clients \ {c} : client'[d] = client[d]
    BY DEF ClientType
  <2>2. alone = c
    BY DEF AloneInv
  <2>3. \A d \in Clients \ {alone} : ~Sending(d)'
    BY <2>1, <2>2 DEF AloneInv, Sending
  <2>4. EntryOK(client[alone])' /\ RecordsOK(client[alone])'
    <3>1. client'[alone] = k /\ EntryOK(k)' /\ RecordsOK(k)' /\ alone' = alone
      BY <2>1, <2>2
    <3>2. EntryOK(client[alone])'
      BY <3>1 DEF EntryOK
    <3>3. RecordsOK(client[alone])'
      BY <3>1 DEF RecordsOK, Held
    <3> QED BY <3>2, <3>3
  <2> QED BY <2>1, <2>2, <2>3, <2>4 DEF AloneInv
<1> QED BY <1>1, <1>2

\* A client starts idle.
LEMMA IdleOK == ClientOK(Idle) /\ Idle.at = "idle"
BY DEF ClientOK, ClientFields, RestFields, Idle, NoRest

\* A client that asks, cannot build its plan or is rolled back takes nothing
\* from what another one announces.
LEMMA QueriesKeepAnnouncing ==
    ASSUME AnnounceInv, NEW c \in Clients,
           \/ \E b \in Desires[c] : QueryDomainEntryProjection(c, b)
           \/ QueryDNSRecords(c) \/ BuildFails(c) \/ Rollback(c)
    PROVE  AnnounceInv'
<1>0. ClientOK(client[c]) /\ DOMAIN client = Clients
  BY DEF AnnounceInv, ClientType
<1>1. ASSUME NEW b \in Desires[c], QueryDomainEntryProjection(c, b)
      PROVE  AnnounceInv'
  <2>1. PICK p : p = GetDomainEntryProjectionByDomain(table)
    OBVIOUS
  <2>2. PICK k : k = [Idle EXCEPT !.at = "asked", !.want = b, !.seen = p]
    OBVIOUS
  <2>3. ClientOK(k) /\ k.at = "asked"
    BY <2>2, IdleOK DEF ClientOK, ClientFields
  <2>4. client' = [client EXCEPT ![c] = k]
    BY <1>1, <2>1, <2>2, Zenon DEF QueryDomainEntryProjection
  <2> QED BY <1>1, <2>3, <2>4, QuietStep, Zenon DEF QueryDomainEntryProjection
<1>2. CASE QueryDNSRecords(c)
  <2>d. PICK dns : dns = ListDNSRecordsByQuestion(table)
    OBVIOUS
  <2>1. PICK k : k = [client[c] EXCEPT !.at = "ready", !.dns = dns]
    OBVIOUS
  <2>2. ClientOK(k) /\ k.at = "ready"
    BY <2>1, <1>0 DEF ClientOK, ClientFields
  <2>3. client' = [client EXCEPT ![c] = k]
    BY <1>0, <1>2, <2>d, <2>1, Zenon DEF QueryDNSRecords
  <2> QED BY <1>2, <2>2, <2>3, QuietStep, Zenon DEF QueryDNSRecords
<1>3. CASE BuildFails(c) \/ Rollback(c)
  <2>1. client' = [client EXCEPT ![c] = Idle]
    BY <1>3 DEF BuildFails, Rollback
  <2>2. UNCHANGED <<table, sent, sentDNS, notified, alone>>
    BY <1>3 DEF BuildFails, Rollback
  <2> QED BY <2>1, <2>2, IdleOK, QuietStep, Zenon
<1> QED BY <1>1, <1>2, <1>3

\* Each step of the announcements of applyPlan leaves the entry, the records
\* and the certificate request either announced or still to be announced.
LEMMA AnnouncingGoesOn ==
    ASSUME AnnounceInv, NEW c \in Clients, Announce(c)
    PROVE  AnnounceInv'
<1>0. ClientOK(client[c]) /\ DOMAIN client = Clients
  BY DEF AnnounceInv, ClientType
<1>s. Sending(c) /\ alone' = alone /\ table' = table
  BY Zenon DEF Announce, Sending, broadcastDeletedDomainEntry,
         broadcastDeletedDNSRecord, Notify, ReadEntry, SendEntry, ReadRecord,
         SendRecord
<1>a. alone = c /\ c # Nobody => EntryOK(client[c]) /\ RecordsOK(client[c])
  BY <1>s DEF AnnounceInv, AloneInv
<1>1. CASE broadcastDeletedDomainEntry(c)
  <2>1. PICK k : k = [client[c] EXCEPT !.rest.gone = FALSE]
    BY Zenon
  <2>2. ClientOK(k) /\ k.at = client[c].at /\ k.rest.gone = FALSE
        /\ k.rest.host = client[c].rest.host /\ k.rest.del = client[c].rest.del
        /\ k.rest.ids = client[c].rest.ids /\ k.touched = client[c].touched
    BY <2>1, <1>0 DEF ClientOK, ClientFields, RestFields
  <2>3. client' = [client EXCEPT ![c] = k]
    BY <1>0, <1>1, <2>1 DEF broadcastDeletedDomainEntry
  <2>4. client[c].at = "sending" /\ client[c].rest.gone
        /\ UNCHANGED <<table, sentDNS, notified>>
    BY <1>1 DEF broadcastDeletedDomainEntry
  <2>5. alone = c /\ c # Nobody => EntryOK(k)' /\ RecordsOK(k)'
    BY <1>a, <2>2, <2>4 DEF EntryOK, RecordsOK, Held
  <2>6. k.at # "done"
    BY <2>2, <2>4
  <2> QED BY <1>s, <2>2, <2>3, <2>5, <2>6, SendingStep, Zenon
<1>2. CASE broadcastDeletedDNSRecord(c)
  <2>1. PICK id \in client[c].rest.del :
          /\ sentDNS' = Over(OneRow(id, GoneRecord), sentDNS)
          /\ client' = [client EXCEPT ![c].rest.del = @ \ {id}]
    BY <1>2, Zenon DEF broadcastDeletedDNSRecord
  <2>2. PICK k : k = [client[c] EXCEPT !.rest.del = @ \ {id}]
    BY Zenon
  <2>3. ClientOK(k) /\ k.at = client[c].at /\ k.rest.gone = client[c].rest.gone
        /\ k.rest.host = client[c].rest.host
        /\ k.rest.del = client[c].rest.del \ {id}
        /\ k.rest.ids = client[c].rest.ids /\ k.touched = client[c].touched
    BY <2>2, <1>0 DEF ClientOK, ClientFields, RestFields
  <2>4. client' = [client EXCEPT ![c] = k]
    BY <1>0, <2>1, <2>2
  <2>5. client[c].at = "sending" /\ UNCHANGED <<table, sent, notified>>
    BY <1>2 DEF broadcastDeletedDNSRecord
  <2>6. alone = c /\ c # Nobody => EntryOK(k)'
    BY <1>a, <2>3, <2>5 DEF EntryOK
  <2>7. alone = c /\ c # Nobody => RecordsOK(k)'
    <3> SUFFICES ASSUME alone = c, c # Nobody PROVE RecordsOK(k)'
      OBVIOUS
    <3>g. PICK g : g = sentDNS'
      OBVIOUS
    <3>f. PICK f : f = sentDNS
      OBVIOUS
    <3>o. g = Over(OneRow(id, GoneRecord), f)
      BY <2>1, <3>g, <3>f
    <3>1. DOMAIN g = {id} \cup DOMAIN f /\ g[id] = GoneRecord
          /\ \A x \in DOMAIN f : x # id => g[x] = f[x]
      BY <3>o DEF Over, OneRow
    <3>2. id \notin DOMAIN table.dns
      BY <1>a DEF RecordsOK
    <3>3. \A x : Held(x)' = Held(x)
      BY <2>5 DEF Held
    <3>4. Held(id) = GoneRecord
      BY <3>2 DEF Held
    <3> HIDE DEF Held
    <3>5. ASSUME NEW x \in k.touched
          PROVE  \/ x \in k.rest.del \cup k.rest.ids
                 \/ x \in DOMAIN g /\ g[x] = Held(x)'
      <4>0. x \in client[c].touched
        BY <2>3, <3>5
      <4>1. \/ x \in client[c].rest.del \/ x \in client[c].rest.ids
            \/ x \in DOMAIN f /\ f[x] = Held(x)
        BY <1>a, <2>5, <3>f, <4>0 DEF RecordsOK
      <4>2. CASE x = id
        BY <4>2, <3>1, <3>3, <3>4
      <4>3. CASE x # id
        <5>1. x \in client[c].rest.del => x \in k.rest.del
          BY <4>3, <2>3
        <5>2. x \in client[c].rest.ids => x \in k.rest.ids
          BY <2>3
        <5>3. x \in DOMAIN f => x \in DOMAIN g /\ g[x] = f[x]
          BY <4>3, <3>1
        <5>4. Held(x)' = Held(x)
          BY <2>5 DEF Held
        <5>5. x \in DOMAIN f /\ f[x] = Held(x) => x \in DOMAIN g /\ g[x] = Held(x)'
          BY <5>3, <5>4
        <5> QED BY <4>1, <5>1, <5>2, <5>5
      <4> QED BY <4>2, <4>3
    <3> QED BY <1>a, <2>3, <2>5, <3>5, <3>g DEF RecordsOK
  <2>8. k.at # "done"
    BY <2>3, <2>5
  <2> QED BY <1>s, <2>3, <2>4, <2>6, <2>7, <2>8, SendingStep, Zenon
<1>n. CASE Notify(c)
  <2>1. PICK k : k = [client[c] EXCEPT !.at = "readEntry"]
    OBVIOUS
  <2>2. ClientOK(k) /\ k.at = "readEntry" /\ k.rest = client[c].rest
        /\ k.touched = client[c].touched
    BY <2>1, <1>0 DEF ClientOK, ClientFields
  <2>3. client' = [client EXCEPT ![c] = k]
    BY <1>0, <1>n, <2>1, Zenon DEF Notify
  <2>4. client[c].at = "sending" /\ client[c].rest.host /\ ~client[c].rest.gone
        /\ UNCHANGED <<table, sent, sentDNS>>
        /\ notified' = (notified \/ table.domain.need)
    BY <1>n, Zenon DEF Notify
  <2>5. EntryOK(k)'
    BY <2>2, <2>4, Zenon DEF EntryOK
  <2>6. alone = c /\ c # Nobody => RecordsOK(k)'
    BY <1>a, <2>2, <2>4 DEF RecordsOK, Held
  <2> QED BY <1>s, <2>2, <2>3, <2>5, <2>6, SendingStep, Zenon
<1>3. CASE ReadEntry(c)
  <2>1. PICK at : at = IF table.domain = NoDomain THEN "sending" ELSE "sendEntry"
    OBVIOUS
  <2>2. PICK p : p = GetDomainEntryProjectionByDomain(table)
    OBVIOUS
  <2>3. PICK k : k = [client[c] EXCEPT !.at = at, !.rest.host = FALSE, !.entry = p]
    OBVIOUS
  <2>4. ClientOK(k) /\ k.at = at /\ k.rest.gone = client[c].rest.gone
        /\ k.rest.host = FALSE /\ k.rest.del = client[c].rest.del /\ k.entry = p
        /\ k.rest.ids = client[c].rest.ids /\ k.touched = client[c].touched
    BY <2>3, <1>0 DEF ClientOK, ClientFields, RestFields
  <2>5. client' = [client EXCEPT ![c].at = at, ![c].rest.host = FALSE, ![c].entry = p]
    BY <1>3, <2>1, <2>2 DEF ReadEntry
  <2>6. client' = [client EXCEPT ![c] = k]
    BY <1>0, <2>3, <2>5, Zenon
  <2>7. client[c].at = "readEntry" /\ UNCHANGED <<table, sent, sentDNS, notified>>
    BY <1>3 DEF ReadEntry
  <2>8. alone = c /\ c # Nobody => EntryOK(k)'
    BY <1>a, <2>1, <2>2, <2>4, <2>7, Zenon DEF EntryOK
  <2>9. alone = c /\ c # Nobody => RecordsOK(k)'
    BY <1>a, <2>1, <2>4, <2>7 DEF RecordsOK, Held
  <2> QED BY <1>s, <2>1, <2>4, <2>6, <2>8, <2>9, SendingStep, Zenon
<1>4. CASE SendEntry(c)
  <2>1. PICK k : k = [client[c] EXCEPT !.at = "sending", !.entry = NotFound]
    OBVIOUS
  <2>2. ClientOK(k) /\ k.at = "sending" /\ k.rest = client[c].rest
        /\ k.touched = client[c].touched
    BY <2>1, <1>0 DEF ClientOK, ClientFields
  <2>3. client' = [client EXCEPT ![c] = k]
    BY <1>0, <1>4, <2>1, Zenon DEF SendEntry
  <2>4. client[c].at = "sendEntry" /\ UNCHANGED <<table, sentDNS, notified>>
        /\ sent' = client[c].entry
    BY <1>4 DEF SendEntry
  <2>5. alone = c /\ c # Nobody => EntryOK(k)'
    BY <1>a, <2>2, <2>4 DEF EntryOK
  <2>6. alone = c /\ c # Nobody => RecordsOK(k)'
    BY <1>a, <2>2, <2>4 DEF RecordsOK, Held
  <2> QED BY <1>s, <2>2, <2>3, <2>5, <2>6, SendingStep, Zenon
<1>5. CASE ReadRecord(c)
  <2>1. PICK id \in client[c].rest.ids :
          client' = [client EXCEPT
                      ![c].at = IF id \in DOMAIN table.dns THEN "sendRecord"
                                ELSE "sending",
                      ![c].rest.ids = @ \ {id},
                      ![c].id = id,
                      ![c].record = IF id \in DOMAIN table.dns THEN table.dns[id]
                                    ELSE GoneRecord]
    BY <1>5, Zenon DEF ReadRecord
  <2>2. PICK at : at = IF id \in DOMAIN table.dns THEN "sendRecord" ELSE "sending"
    OBVIOUS
  <2>3. PICK v : v = IF id \in DOMAIN table.dns THEN table.dns[id] ELSE GoneRecord
    OBVIOUS
  <2>4. PICK k : k = [client[c] EXCEPT !.at = at, !.rest.ids = @ \ {id},
                                       !.id = id, !.record = v]
    OBVIOUS
  <2>5. ClientOK(k) /\ k.at = at /\ k.rest.gone = client[c].rest.gone
        /\ k.rest.host = client[c].rest.host /\ k.rest.del = client[c].rest.del
        /\ k.rest.ids = client[c].rest.ids \ {id} /\ k.touched = client[c].touched
        /\ k.id = id /\ k.record = v
    BY <2>4, <1>0 DEF ClientOK, ClientFields, RestFields
  <2>6. client' = [client EXCEPT ![c].at = at, ![c].rest.ids = @ \ {id},
                                 ![c].id = id, ![c].record = v]
    BY <2>1, <2>2, <2>3
  <2>7. client' = [client EXCEPT ![c] = k]
    BY <1>0, <2>4, <2>6, Zenon
  <2>8. client[c].at = "sending" /\ UNCHANGED <<table, sent, sentDNS, notified>>
    BY <1>5 DEF ReadRecord
  <2>9. alone = c /\ c # Nobody => EntryOK(k)'
    BY <1>a, <2>2, <2>5, <2>8 DEF EntryOK
  <2>10. alone = c /\ c # Nobody => RecordsOK(k)'
    BY <1>a, <2>2, <2>3, <2>5, <2>8 DEF RecordsOK, Held
  <2> QED BY <1>s, <2>2, <2>5, <2>7, <2>9, <2>10, SendingStep, Zenon
<1>6. CASE SendRecord(c)
  <2>1. PICK k : k = [client[c] EXCEPT !.at = "sending", !.id = NoID,
                                       !.record = GoneRecord]
    OBVIOUS
  <2>2. ClientOK(k) /\ k.at = "sending" /\ k.rest = client[c].rest
        /\ k.touched = client[c].touched
    BY <2>1, <1>0 DEF ClientOK, ClientFields
  <2>3. client' = [client EXCEPT ![c] = k]
    BY <1>0, <1>6, <2>1, Zenon DEF SendRecord
  <2>4. client[c].at = "sendRecord" /\ UNCHANGED <<table, sent, notified>>
        /\ sentDNS' = Over(OneRow(client[c].id, client[c].record), sentDNS)
    BY <1>6 DEF SendRecord
  <2>5. alone = c /\ c # Nobody => EntryOK(k)'
    BY <1>a, <2>2, <2>4, Zenon DEF EntryOK
  <2>6. alone = c /\ c # Nobody => RecordsOK(k)'
    <3>1. PICK id : id = client[c].id
      OBVIOUS
    <3>g. PICK g : g = sentDNS'
      OBVIOUS
    <3>f. PICK f : f = sentDNS
      OBVIOUS
    <3>r. PICK row : row = client[c].record
      OBVIOUS
    <3>o. g = Over(OneRow(id, row), f)
      BY <2>4, <3>1, <3>g, <3>f, <3>r
    <3>2. DOMAIN g = {id} \cup DOMAIN f /\ g[id] = row
          /\ \A x \in DOMAIN f : x # id => g[x] = f[x]
      BY <3>o DEF Over, OneRow
    <3>3. \A x : Held(x)' = Held(x)
      BY <2>4 DEF Held
    <3> QED BY <1>a, <2>2, <2>4, <3>1, <3>2, <3>3, <3>g, <3>f, <3>r
          , Zenon DEF RecordsOK
  <2> QED BY <1>s, <2>2, <2>3, <2>5, <2>6, SendingStep, Zenon
<1> QED BY <1>1, <1>2, <1>n, <1>3, <1>4, <1>5, <1>6 DEF Announce

\* After the transaction everything it wrote is still to be announced, the
\* hostname included whether or not its row was written.
LEMMA CommitAnnounces ==
    ASSUME AnnounceInv, NEW c \in Clients, Commit(c)
    PROVE  AnnounceInv'
<1>1. PICK plan : plan = Build(client[c].want, client[c].seen, client[c].dns)
  OBVIOUS
<1>2. PICK new : new = Transaction(table, plan)
  OBVIOUS
<1>3. table' = new
      /\ client' = [Shown(new) EXCEPT
                      ![c].at = "sending",
                      ![c].rest = Announced(table, plan),
                      ![c].touched = plan.dns.del \cup DOMAIN plan.dns.put]
      /\ alone' = IF \E d \in Clients \ {c} : Sending(d) THEN Nobody ELSE c
  BY <1>1, <1>2, Zenon DEF Commit
<1>4. PICK shown : shown = Shown(new)
  OBVIOUS
<1>5. DOMAIN shown = Clients
      /\ \A d \in Clients : ClientOK(shown[d]) /\ shown[d].at = client[d].at
  BY <1>4 DEF Shown, AnnounceInv, ClientType, ClientOK, ClientFields
<1>6. PICK rest : rest = Announced(table, plan)
  OBVIOUS
<1>7. DOMAIN rest = RestFields /\ rest.host = TRUE /\ rest.del = plan.dns.del
      /\ rest.ids = DOMAIN plan.dns.put
  BY <1>6 DEF Announced, RestFields
<1>8. PICK touched : touched = plan.dns.del \cup DOMAIN plan.dns.put
  BY Zenon
<1>9. PICK k : k = [shown[c] EXCEPT !.at = "sending", !.rest = rest,
                                    !.touched = touched]
  OBVIOUS
<1>10. ClientOK(k) /\ k.at = "sending" /\ k.rest = rest /\ k.touched = touched
  BY <1>5, <1>7, <1>9 DEF ClientOK, ClientFields
<1>11. client' = [shown EXCEPT ![c].at = "sending", ![c].rest = rest,
                               ![c].touched = touched]
  BY <1>3, <1>4, <1>6, <1>8
<1>12. client' = [shown EXCEPT ![c] = k]
  BY <1>5, <1>9, <1>11, Zenon
<1>13. DOMAIN client' = Clients /\ client'[c] = k
       /\ \A d \in Clients : d # c => client'[d] = shown[d]
  BY <1>5, <1>12
<1>14. ClientType'
  BY <1>5, <1>10, <1>13 DEF ClientType
<1>15. DOMAIN plan.dns.put \cap plan.dns.del = {}
  BY <1>1, PlanOfRecords
<1>r. "put" \in DOMAIN plan.dns /\ "del" \in DOMAIN plan.dns
  BY <1>1, PlanOfRecords
<1>16. DOMAIN new.dns = (DOMAIN table.dns \cup DOMAIN plan.dns.put) \ plan.dns.del
  <2>1. PICK change : change = [plan.dns EXCEPT !.put = Stamped(@)]
    OBVIOUS
  <2>2. DOMAIN change.put = DOMAIN plan.dns.put /\ change.del = plan.dns.del
    BY <1>r, <2>1 DEF Stamped
  <2>3. new.dns = Written(table.dns, change)
    BY <1>2, <2>1, Zenon DEF Transaction
  <2> QED BY <2>2, <2>3, WrittenRows, Zenon
<1>17. EntryOK(k)'
  BY <1>7, <1>10 DEF EntryOK
<1>18. RecordsOK(k)'
  BY <1>3, <1>7, <1>8, <1>10, <1>15, <1>16 DEF RecordsOK
<1>19. AloneInv'
  <2> SUFFICES ASSUME alone' # Nobody PROVE AloneInv'
    BY DEF AloneInv
  <2>1. alone' = c /\ \A d \in Clients \ {c} : ~Sending(d)
    BY <1>3
  <2>2. \A d \in Clients \ {c} : ~Sending(d)'
    BY <1>5, <1>13, <2>1 DEF Sending
  <2>3. EntryOK(client[alone])' /\ RecordsOK(client[alone])'
    BY <1>13, <1>17, <1>18, <2>1 DEF EntryOK, RecordsOK
  <2>4. client'[alone'].at # "done"
    BY <1>10, <1>13, <2>1
  <2> QED BY <2>1, <2>2, <2>3, <2>4 DEF AloneInv
<1> QED BY <1>14, <1>19 DEF AnnounceInv

\* A client is answered when nothing is left to announce; one whose request
\* fails counts as disturbed.
LEMMA OtherStepsKeepAnnouncing ==
    ASSUME AnnounceInv, NEW c \in Clients, Answer(c) \/ AnnounceFails(c)
    PROVE  AnnounceInv'
<1>0. ClientOK(client[c]) /\ DOMAIN client = Clients
  BY DEF AnnounceInv, ClientType
<1>1. CASE Answer(c)
  <2>1. PICK t : t = client[c].touched
    OBVIOUS
  <2>2. PICK k : k = [Idle EXCEPT !.at = "done", !.touched = t]
    OBVIOUS
  <2>3. ClientOK(k) /\ k.at = "done" /\ k.rest = NoRest /\ k.touched = t
    BY <2>2 DEF ClientOK, ClientFields, RestFields, Idle, NoRest
  <2>4. client' = [client EXCEPT ![c] = k]
    BY <1>1, <2>1, <2>2 DEF Answer
  <2>5. client[c].at = "sending" /\ client[c].rest = NoRest
        /\ UNCHANGED <<table, sent, sentDNS, notified, alone>>
    BY <1>1 DEF Answer
  <2>6. Sending(c)
    BY <2>5 DEF Sending
  <2>7. alone = c /\ c # Nobody => EntryOK(client[c]) /\ RecordsOK(client[c])
    BY <2>6 DEF AnnounceInv, AloneInv
  <2>8. alone = c /\ c # Nobody => EntryOK(k)'
    BY <2>3, <2>5, <2>7, Zenon DEF EntryOK
  <2>9. alone = c /\ c # Nobody => RecordsOK(k)'
    BY <2>1, <2>3, <2>5, <2>7 DEF RecordsOK, Held
  <2> QED BY <2>3, <2>4, <2>5, <2>6, <2>8, <2>9, SendingStep, Zenon
<1>2. CASE AnnounceFails(c)
  <2>1. PICK k : k = [Idle EXCEPT
                        !.at = "ready", !.want = client[c].want,
                        !.seen = client[c].seen, !.dns = client[c].dns,
                        !.stale = client[c].stale]
    OBVIOUS
  <2>2. ClientOK(k) /\ k.at = "ready"
    BY <2>1, IdleOK DEF ClientOK, ClientFields
  <2>3. client' = [client EXCEPT ![c] = k]
    BY <1>2, <2>1 DEF AnnounceFails
  <2>4. Sending(c) /\ UNCHANGED <<table, sent, sentDNS, notified>>
        /\ alone' = IF alone = c THEN Nobody ELSE alone
    BY <1>2 DEF AnnounceFails
  <2>5. alone' = Nobody
    BY <2>4 DEF AnnounceInv, AloneInv
  <2>6. ClientType'
    BY <1>0, <2>2, <2>3 DEF AnnounceInv, ClientType
  <2> QED BY <2>5, <2>6 DEF AnnounceInv, AloneInv
<1> QED BY <1>1, <1>2

\* After a row is written through PUT or DELETE, which announce nothing, no
\* client counts as undisturbed.
LEMMA WritesKeepAnnouncing ==
    ASSUME AnnounceInv, NEW new, DirectWrite(new)
    PROVE  AnnounceInv'
<1>1. client' = Shown(new) /\ alone' = Nobody
  BY DEF DirectWrite
<1>2. ClientType'
  BY <1>1 DEF Shown, AnnounceInv, ClientType, ClientOK, ClientFields
<1> QED BY <1>1, <1>2 DEF AnnounceInv, AloneInv

\* What an undisturbed client has not announced yet it still has to announce,
\* in every reachable state.
LEMMA AnnounceInvariant == Spec => []AnnounceInv
<1>1. Init => AnnounceInv
  BY IdleOK DEF Init, AnnounceInv, ClientType, AloneInv
<1>2. AnnounceInv /\ [Next]_vars => AnnounceInv'
  <2> SUFFICES ASSUME AnnounceInv, [Next]_vars PROVE AnnounceInv'
    OBVIOUS
  <2>1. ASSUME NEW c \in Clients,
               \/ \E b \in Desires[c] : QueryDomainEntryProjection(c, b)
               \/ QueryDNSRecords(c) \/ BuildFails(c) \/ Rollback(c)
        PROVE  AnnounceInv'
    BY <2>1, QueriesKeepAnnouncing
  <2>2. ASSUME NEW c \in Clients, Commit(c) PROVE AnnounceInv'
    BY <2>2, CommitAnnounces
  <2>3. ASSUME NEW c \in Clients, Announce(c) PROVE AnnounceInv'
    BY <2>3, AnnouncingGoesOn
  <2>4. ASSUME NEW c \in Clients, Answer(c) \/ AnnounceFails(c) PROVE AnnounceInv'
    BY <2>4, OtherStepsKeepAnnouncing
  <2>5. ASSUME NEW p \in Puts, handlePutResource(p) PROVE AnnounceInv'
    BY <2>5, WritesKeepAnnouncing DEF handlePutResource
  <2>6. ASSUME NEW kind, NEW id, handleDeleteResource(kind, id)
        PROVE AnnounceInv'
    BY <2>6, WritesKeepAnnouncing DEF handleDeleteResource
  <2>7. CASE UNCHANGED vars
    BY <2>7, Zenon DEF vars, AnnounceInv, ClientType, AloneInv, Sending, EntryOK,
                RecordsOK, Held
  <2> QED BY <2>1, <2>2, <2>3, <2>4, <2>5, <2>6, <2>7 DEF Next
<1> QED BY <1>1, <1>2, PTL DEF Spec

\* A plan whose announcements nothing else disturbed leaves subscribers with
\* the entry and the records it wrote as the database holds them, and the
\* certificate reconciler told (AppliedAloneIsAnnounced): for any number of
\* clients, any desires and tables, and any number of plans and failures.
THEOREM AloneAnnounces == Spec => []AppliedAloneIsAnnounced
<1>1. AnnounceInv => AppliedAloneIsAnnounced
  <2> SUFFICES ASSUME AnnounceInv, alone # Nobody, client[alone].at = "done"
               PROVE  /\ table.domain # NoDomain =>
                            sent = GetDomainEntryProjectionByDomain(table)
                      /\ table.domain.need => notified
                      /\ \A id \in client[alone].touched : sentDNS[id] = Held(id)
    BY Zenon DEF AppliedAloneIsAnnounced, Held
  <2>1. PICK k : k = client[alone]
    OBVIOUS
  <2>2. EntryOK(k) /\ RecordsOK(k) /\ k.at = "done" /\ k.rest = NoRest
    BY <2>1 DEF AnnounceInv, AloneInv
  <2>3. ~k.rest.host /\ k.rest.del = {} /\ k.rest.ids = {}
    BY <2>2 DEF NoRest
  <2>4. /\ table.domain # NoDomain => sent = GetDomainEntryProjectionByDomain(table)
        /\ table.domain.need => notified
    BY <2>2, <2>3 DEF EntryOK
  <2>5. \A id \in k.touched : sentDNS[id] = Held(id)
    BY <2>2, <2>3 DEF RecordsOK
  <2> QED BY <2>1, <2>4, <2>5
<1> QED BY <1>1, AnnounceInvariant, PTL

\* A client that has asked knows what it wants, and what it was shown is what
\* the table shows unless it is out of date.
SeenOK(c) ==
    /\ client[c].want \in Desires[c]
    /\ ~client[c].stale => client[c].seen = GetDomainEntryProjectionByDomain(table)

SeenInv == \A c \in Clients : client[c].at \in {"idle", "done"} \/ SeenOK(c)

\* What the plans applied in a row have reached.
AppliedOK(t, want, times, past) ==
    /\ times \in {0, 1, 2}
    /\ times > 0 /\ want # Removal =>
        /\ Wanted(want)
        /\ DomainReached(t, want)
        /\ times = 2 \/ past \subseteq {"renamed"} => RowsReached(t, want)

\* What the rows are like as long as nothing hid rows from a plan.
RowsOK(t, past) ==
    /\ TableOK(t)
    /\ past \subseteq {"renamed"} => RoutesOfL7(t)
    /\ past = {} => NoOrphans(t)

PlanInv ==
    SeenInv /\ AppliedOK(table, applied.want, applied.times, faults)
            /\ RowsOK(table, faults)

\* The rows are as they were when no step wrote any.
LEMMA SameRows ==
    ASSUME UNCHANGED <<table, faults>>, RowsOK(table, faults)
    PROVE  RowsOK(table, faults)'
<1>1. TableOK(table) => TableOK(table)'
  BY DEF TableOK
<1>2. RoutesOfL7(table) => RoutesOfL7(table)'
  BY DEF RoutesOfL7
<1>3. NoOrphans(table) => NoOrphans(table)'
  <2>1. GetDomainEntryProjectionByDomain(table)' = GetDomainEntryProjectionByDomain(table)
    BY Zenon DEF GetDomainEntryProjectionByDomain, Live
  <2> QED BY <2>1 DEF NoOrphans
<1> QED BY <1>1, <1>2, <1>3 DEF RowsOK

\* A step of one client that writes no row leaves what the plans reached, if
\* that client still knows what it wants and was shown.
LEMMA StillStep ==
    ASSUME PlanInv, UNCHANGED <<table, applied, faults>>,
           NEW c \in Clients,
           \A d \in Clients \ {c} : client'[d] = client[d],
           \/ client'[c].at \in {"idle", "done"}
           \/ /\ client'[c].want \in Desires[c]
              /\ ~client'[c].stale =>
                    client'[c].seen = GetDomainEntryProjectionByDomain(table)
    PROVE  PlanInv'
<1>1. SeenInv'
  <2> SUFFICES ASSUME NEW d \in Clients
               PROVE  client'[d].at \in {"idle", "done"} \/ SeenOK(d)'
    BY DEF SeenInv
  <2>1. GetDomainEntryProjectionByDomain(table)' = GetDomainEntryProjectionByDomain(table)
    BY Zenon DEF GetDomainEntryProjectionByDomain, Live
  <2>2. CASE d = c
    BY <2>1, <2>2 DEF SeenOK
  <2>3. CASE d # c
    BY <2>1, <2>3 DEF SeenOK, PlanInv, SeenInv
  <2> QED BY <2>2, <2>3
<1>2. AppliedOK(table, applied.want, applied.times, faults)'
  BY Zenon DEF PlanInv, AppliedOK, DomainReached, RowsReached, BoundReached, RoutesReached
<1>3. RowsOK(table, faults)'
  BY SameRows DEF PlanInv
<1> QED BY <1>1, <1>2, <1>3, Zenon DEF PlanInv

\* The client that asks, that cannot build its plan, that fails or that is
\* answered writes no row.
LEMMA QueriesKeepPlans ==
    ASSUME ClientType, PlanInv, NEW c \in Clients,
           \/ \E b \in Desires[c] : QueryDomainEntryProjection(c, b)
           \/ QueryDNSRecords(c) \/ BuildFails(c) \/ Rollback(c)
           \/ Answer(c) \/ AnnounceFails(c)
    PROVE  PlanInv'
<1>0. DOMAIN client = Clients /\ ClientOK(client[c])
  BY Zenon DEF ClientType
<1>1. ASSUME NEW b \in Desires[c], QueryDomainEntryProjection(c, b)
      PROVE  PlanInv'
  <2>1. PICK p : p = GetDomainEntryProjectionByDomain(table)
    OBVIOUS
  <2>2. client' = [client EXCEPT ![c] = [Idle EXCEPT !.at = "asked", !.want = b,
                                                     !.seen = p]]
    BY <1>1, <2>1, Zenon DEF QueryDomainEntryProjection
  <2>3. client'[c].want = b /\ client'[c].seen = p
    BY <1>0, <2>2, IdleOK DEF ClientOK, ClientFields
  <2>4. \A d \in Clients \ {c} : client'[d] = client[d]
    BY <1>0, <2>2
  <2>5. UNCHANGED <<table, applied, faults>>
    BY <1>1, Zenon DEF QueryDomainEntryProjection
  <2> QED BY <2>1, <2>3, <2>4, <2>5, StillStep
<1>2. CASE QueryDNSRecords(c)
  <2>1. client' = [client EXCEPT ![c].at = "ready",
                                 ![c].dns = ListDNSRecordsByQuestion(table)]
        /\ client[c].at = "asked" /\ UNCHANGED <<table, applied, faults>>
    BY <1>2 DEF QueryDNSRecords
  <2>2. client'[c].want = client[c].want /\ client'[c].seen = client[c].seen
        /\ client'[c].stale = client[c].stale
    BY <1>0, <2>1 DEF ClientOK, ClientFields
  <2>3. \A d \in Clients \ {c} : client'[d] = client[d]
    BY <1>0, <2>1
  <2>4. SeenOK(c)
    BY <2>1 DEF PlanInv, SeenInv
  <2> QED BY <2>1, <2>2, <2>3, <2>4, StillStep, Zenon DEF SeenOK
<1>3. CASE BuildFails(c) \/ Rollback(c) \/ Answer(c)
  <2>1. UNCHANGED <<table, applied, faults>>
    BY <1>3 DEF BuildFails, Rollback, Answer
  <2>2. PICK k : client' = [client EXCEPT ![c] = k] /\ k.at \in {"idle", "done"}
    <3>1. CASE BuildFails(c) \/ Rollback(c)
      BY <3>1, IdleOK, Zenon DEF BuildFails, Rollback
    <3>2. CASE Answer(c)
      <4>1. PICK t : t = client[c].touched
        OBVIOUS
      <4>2. PICK l : l = [Idle EXCEPT !.at = "done", !.touched = t]
        OBVIOUS
      <4>3. l.at = "done"
        BY <4>2, IdleOK DEF ClientOK, ClientFields
      <4>4. client' = [client EXCEPT ![c] = l]
        BY <3>2, <4>1, <4>2 DEF Answer
      <4> QED BY <4>3, <4>4, Zenon
    <3> QED BY <1>3, <3>1, <3>2
  <2>3. client'[c] = k /\ \A d \in Clients \ {c} : client'[d] = client[d]
    BY <1>0, <2>2
  <2> QED BY <2>1, <2>2, <2>3, StillStep, Zenon
<1>4. CASE AnnounceFails(c)
  <2>1. PICK k : k = [Idle EXCEPT
                        !.at = "ready", !.want = client[c].want,
                        !.seen = client[c].seen, !.dns = client[c].dns,
                        !.stale = client[c].stale]
    OBVIOUS
  <2>2. k.want = client[c].want /\ k.seen = client[c].seen
        /\ k.stale = client[c].stale
    BY <2>1, IdleOK DEF ClientOK, ClientFields
  <2>3. client' = [client EXCEPT ![c] = k] /\ UNCHANGED <<table, applied, faults>>
    BY <1>4, <2>1 DEF AnnounceFails
  <2>4. client'[c] = k /\ \A d \in Clients \ {c} : client'[d] = client[d]
    BY <1>0, <2>3
  <2>5. SeenOK(c)
    BY <1>4 DEF AnnounceFails, Sending, PlanInv, SeenInv
  <2> QED BY <2>2, <2>3, <2>4, <2>5, StillStep, Zenon DEF SeenOK
<1> QED BY <1>1, <1>2, <1>3, <1>4

\* Announcing changes nothing of what a client was shown.
LEMMA AnnouncingKeepsPlans ==
    ASSUME ClientType, PlanInv, NEW c \in Clients, Announce(c)
    PROVE  PlanInv'
<1>0. DOMAIN client = Clients /\ ClientOK(client[c])
  BY DEF ClientType
<1>1. Sending(c) /\ UNCHANGED <<table, applied, faults>>
  BY Zenon DEF Announce, Sending, broadcastDeletedDomainEntry,
         broadcastDeletedDNSRecord, Notify, ReadEntry, SendEntry, ReadRecord,
         SendRecord
<1>2. SeenOK(c)
  BY <1>1 DEF Sending, PlanInv, SeenInv
<1>3. PICK k : /\ client' = [client EXCEPT ![c] = k]
               /\ k.want = client[c].want /\ k.seen = client[c].seen
               /\ k.stale = client[c].stale
  <2>1. CASE broadcastDeletedDomainEntry(c)
    <3>1. PICK k : k = [client[c] EXCEPT !.rest.gone = FALSE]
      BY Zenon
    <3>2. client' = [client EXCEPT ![c] = k]
      BY <1>0, <2>1, <3>1 DEF broadcastDeletedDomainEntry
    <3>3. k.want = client[c].want /\ k.seen = client[c].seen
          /\ k.stale = client[c].stale
      BY <1>0, <3>1 DEF ClientOK, ClientFields
    <3> QED BY <3>2, <3>3, Zenon
  <2>2. CASE broadcastDeletedDNSRecord(c)
    <3>1. PICK id : client' = [client EXCEPT ![c].rest.del = @ \ {id}]
      BY <2>2, Zenon DEF broadcastDeletedDNSRecord
    <3>2. PICK k : k = [client[c] EXCEPT !.rest.del = @ \ {id}]
      BY Zenon
    <3>3. client' = [client EXCEPT ![c] = k]
      BY <1>0, <3>1, <3>2
    <3>4. k.want = client[c].want /\ k.seen = client[c].seen
          /\ k.stale = client[c].stale
      BY <1>0, <3>2 DEF ClientOK, ClientFields
    <3> QED BY <3>3, <3>4, Zenon
  <2>n. CASE Notify(c)
    <3>1. PICK k : k = [client[c] EXCEPT !.at = "readEntry"]
      OBVIOUS
    <3>2. client' = [client EXCEPT ![c] = k]
      BY <1>0, <2>n, <3>1, Zenon DEF Notify
    <3>3. k.want = client[c].want /\ k.seen = client[c].seen
          /\ k.stale = client[c].stale
      BY <1>0, <3>1 DEF ClientOK, ClientFields
    <3> QED BY <3>2, <3>3, Zenon
  <2>3. CASE ReadEntry(c)
    <3>1. PICK at, p : client' = [client EXCEPT ![c].at = at, ![c].rest.host = FALSE,
                                                ![c].entry = p]
      BY <2>3, Zenon DEF ReadEntry
    <3>2. PICK k : k = [client[c] EXCEPT !.at = at, !.rest.host = FALSE, !.entry = p]
      OBVIOUS
    <3>3. client' = [client EXCEPT ![c] = k]
      BY <1>0, <3>1, <3>2, Zenon
    <3>4. k.want = client[c].want /\ k.seen = client[c].seen
          /\ k.stale = client[c].stale
      BY <1>0, <3>2 DEF ClientOK, ClientFields
    <3> QED BY <3>3, <3>4, Zenon
  <2>4. CASE SendEntry(c)
    <3>1. PICK k : k = [client[c] EXCEPT !.at = "sending", !.entry = NotFound]
      OBVIOUS
    <3>2. client' = [client EXCEPT ![c] = k]
      BY <1>0, <2>4, <3>1, Zenon DEF SendEntry
    <3>3. k.want = client[c].want /\ k.seen = client[c].seen
          /\ k.stale = client[c].stale
      BY <1>0, <3>1 DEF ClientOK, ClientFields
    <3> QED BY <3>2, <3>3, Zenon
  <2>5. CASE ReadRecord(c)
    <3>a. PICK id \in client[c].rest.ids :
            client' = [client EXCEPT
                        ![c].at = IF id \in DOMAIN table.dns THEN "sendRecord"
                                  ELSE "sending",
                        ![c].rest.ids = @ \ {id},
                        ![c].id = id,
                        ![c].record = IF id \in DOMAIN table.dns THEN table.dns[id]
                                      ELSE GoneRecord]
      BY <2>5, Zenon DEF ReadRecord
    <3>b. PICK at : at = IF id \in DOMAIN table.dns THEN "sendRecord" ELSE "sending"
      OBVIOUS
    <3>v. PICK v : v = IF id \in DOMAIN table.dns THEN table.dns[id] ELSE GoneRecord
      OBVIOUS
    <3>1. client' = [client EXCEPT ![c].at = at, ![c].rest.ids = @ \ {id},
                                   ![c].id = id, ![c].record = v]
      BY <3>a, <3>b, <3>v
    <3>2. PICK k : k = [client[c] EXCEPT !.at = at, !.rest.ids = @ \ {id},
                                         !.id = id, !.record = v]
      OBVIOUS
    <3>3. client' = [client EXCEPT ![c] = k]
      BY <1>0, <3>1, <3>2, Zenon
    <3>4. k.want = client[c].want /\ k.seen = client[c].seen
          /\ k.stale = client[c].stale
      BY <1>0, <3>2 DEF ClientOK, ClientFields
    <3> QED BY <3>3, <3>4, Zenon
  <2>6. CASE SendRecord(c)
    <3>1. PICK k : k = [client[c] EXCEPT !.at = "sending", !.id = NoID,
                                         !.record = GoneRecord]
      OBVIOUS
    <3>2. client' = [client EXCEPT ![c] = k]
      BY <1>0, <2>6, <3>1, Zenon DEF SendRecord
    <3>3. k.want = client[c].want /\ k.seen = client[c].seen
          /\ k.stale = client[c].stale
      BY <1>0, <3>1 DEF ClientOK, ClientFields
    <3> QED BY <3>2, <3>3, Zenon
  <2> QED BY <2>1, <2>2, <2>n, <2>3, <2>4, <2>5, <2>6 DEF Announce
<1>4. client'[c] = k /\ \A d \in Clients \ {c} : client'[d] = client[d]
  BY <1>0, <1>3
<1> QED BY <1>1, <1>2, <1>3, <1>4, StillStep DEF SeenOK

\* What a client was shown, after a write that leaves it out of date or not.
StillShown(d, new) ==
    \/ client'[d].at \in {"idle", "done"}
    \/ /\ client[d].at \notin {"idle", "done"}
       /\ client'[d].want = client[d].want
       /\ client'[d].seen = client[d].seen
       /\ client'[d].stale = (client[d].stale \/ new # table)

\* When the table is written, a client that is not out of date after it was
\* shown the table as it still is.
LEMMA WrittenIsSeen ==
    ASSUME ClientType, SeenInv, NEW new, table' = new,
           \A d \in Clients : StillShown(d, new)
    PROVE  SeenInv'
<1> SUFFICES ASSUME NEW d \in Clients, client'[d].at \notin {"idle", "done"}
             PROVE  SeenOK(d)'
  BY DEF SeenInv
<1>1. SeenOK(d)
  BY DEF SeenInv, StillShown
<1>2. client'[d].want = client[d].want /\ client'[d].seen = client[d].seen
      /\ client'[d].stale = (client[d].stale \/ new # table)
  BY DEF StillShown
<1>3. ~client'[d].stale => table' = table /\ ~client[d].stale
  BY <1>2, Zenon
<1>4. table' = table => GetDomainEntryProjectionByDomain(table)'
                            = GetDomainEntryProjectionByDomain(table)
  BY Zenon DEF GetDomainEntryProjectionByDomain, Live
<1> QED BY <1>1, <1>2, <1>3, <1>4 DEF SeenOK

\* How often a desire was applied in a row: never when the client was out of
\* date, twice only after it was applied once.
LEMMA TimesOK ==
    ASSUME NEW c, applied.times \in {0, 1, 2}
    PROVE  /\ Times(c) \in {0, 1, 2}
           /\ Times(c) > 0 => ~client[c].stale
           /\ Times(c) = 2 => applied.want = client[c].want /\ applied.times > 0
<1>1. PICK m : m = Min({2, applied.times + 1})
  OBVIOUS
<1>2. m \in {2, applied.times + 1} /\ m <= 2 /\ m <= applied.times + 1
  <2>1. PICK S : S = {2, applied.times + 1}
    BY Zenon
  <2>2. S \in SUBSET Nat /\ S # {}
    BY <2>1
  <2>3. Min(S) \in S /\ \A y \in S : Min(S) <= y
    BY <2>2, LeastNatural
  <2>4. Min(S) = m
    BY <1>1, <2>1
  <2> QED BY <2>1, <2>3, <2>4
<1>3. m \in {1, 2} /\ (m = 2 => applied.times > 0)
  BY <1>2
<1>4. Times(c) = IF client[c].stale THEN 0
                 ELSE IF applied.want = client[c].want THEN m ELSE 1
  BY <1>1 DEF Times
<1> QED BY <1>3, <1>4

\* The hazards of a commit.
HazardsOK(stale, b, seen, plan, new) ==
    /\ stale => "stale" \in new
    /\ b = Removal => "removed" \in new
    /\ DOMAIN plan.backends.put \cap plan.backends.del # {} => "collision" \in new
    /\ seen.bound # NoRef /\ isL4BackendType(b.type)
         /\ seen.bound.id # backendRefID(L4Key) => "renamed" \in new

\* What the transaction of one plan leaves, from any rows, for a plan out of
\* date or not: the heart of the argument that plans reach their desire.
LEMMA PlanReaches ==
    ASSUME NEW t, NEW past, RowsOK(t, past),
           NEW b, BuilderOK(b), b = Removal \/ Buildable(b),
           NEW stale, NEW seen, ~stale => seen = GetDomainEntryProjectionByDomain(t),
           NEW dns, NEW plan, plan = Build(b, seen, dns),
           NEW n, n = Transaction(t, plan),
           NEW new, HazardsOK(stale, b, seen, plan, new),
           NEW times \in {0, 1, 2}, times > 0 => ~stale,
           times = 2 /\ b # Removal => DomainReached(t, b)
    PROVE  AppliedOK(n, b, times, past \cup new) /\ RowsOK(n, past \cup new)
<1>1. TableOK(t)
  BY DEF RowsOK
<1>2. TableOK(n)
  BY <1>1, PlanKeepsTable
<1>3. ASSUME ~stale, b # Removal
      PROVE  /\ Wanted(b) /\ DomainReached(n, b)
             /\ times = 2 => RowsReached(n, b)
             /\ past \cup new \subseteq {"renamed"} => RowsReached(n, b) /\ RoutesOfL7(n)
             /\ past \cup new = {} => NoOrphans(n)
  <2>1. seen = GetDomainEntryProjectionByDomain(t)
    BY <1>3
  <2>2. Wanted(b)
    BY <1>3 DEF Wanted
  <2>3. DomainReached(n, b)
    BY <1>1, <2>1, <2>2, PlanDomain
  <2>4. ASSUME times = 2 PROVE RowsReached(n, b)
    <3>1. DomainReached(t, b)
      BY <1>3, <2>4
    <3> QED BY <1>1, <2>1, <2>2, <3>1, SecondPlan
  <2>5. ASSUME past \cup new \subseteq {"renamed"}
        PROVE  RowsReached(n, b) /\ RoutesOfL7(n)
    <3>1. RoutesOfL7(t)
      BY <2>5 DEF RowsOK
    <3>2. DOMAIN plan.backends.put \cap plan.backends.del = {}
      BY <2>5, Zenon DEF HazardsOK
    <3> QED BY <1>1, <2>1, <2>2, <3>1, <3>2, CleanPlan, Zenon
  <2>6. ASSUME past \cup new = {} PROVE NoOrphans(n)
    <3>1. RoutesOfL7(t) /\ NoOrphans(t)
      BY <2>6 DEF RowsOK
    <3>2. DOMAIN plan.backends.put \cap plan.backends.del = {}
      BY <2>6, Zenon DEF HazardsOK
    <3>3. isL4BackendType(b.type) /\ seen.bound # NoRef =>
            seen.bound.id = backendRefID(L4Key)
      BY <2>6, Zenon DEF HazardsOK
    <3> QED BY <1>1, <2>1, <2>2, <3>1, <3>2, <3>3, NoOrphansLeft, Zenon
  <2> QED BY <2>2, <2>3, <2>4, <2>5, <2>6
<1>4. past \cup new \subseteq {"renamed"} => ~stale /\ b # Removal
  BY Zenon DEF HazardsOK
<1>5. AppliedOK(n, b, times, past \cup new)
  BY <1>3 DEF AppliedOK
<1>6. RowsOK(n, past \cup new)
  <2>1. past \cup new \subseteq {"renamed"} => RoutesOfL7(n)
    BY <1>3, <1>4
  <2>2. past \cup new = {} => NoOrphans(n)
    BY <1>3, <1>4
  <2> QED BY <1>2, <2>1, <2>2 DEF RowsOK
<1> QED BY <1>5, <1>6

\* The hazards of a commit are the ones recorded for it.
LEMMA HazardsRecorded ==
    ASSUME NEW c, NEW plan, NEW new, new = Hazards(c, plan)
    PROVE  HazardsOK(client[c].stale, client[c].want, client[c].seen, plan, new)
<1>1. client[c].stale => "stale" \in new
  BY DEF Hazards
<1>2. client[c].want = Removal => "removed" \in new
  BY DEF Hazards
<1>3. DOMAIN plan.backends.put \cap plan.backends.del # {} => "collision" \in new
  BY DEF Hazards
<1>4. client[c].seen.bound # NoRef /\ isL4BackendType(client[c].want.type)
        /\ client[c].seen.bound.id # backendRefID(L4Key) => "renamed" \in new
  BY DEF Hazards
<1> QED BY <1>1, <1>2, <1>3, <1>4, Zenon DEF HazardsOK

\* The transaction of a plan: every client shown the table before is out of
\* date unless the plan changed nothing, and the rows are what PlanReaches
\* says.
LEMMA CommitKeepsPlans ==
    ASSUME ClientType, PlanInv, NEW c \in Clients, Commit(c)
    PROVE  PlanInv'
<1>1. PICK b : b = client[c].want
  OBVIOUS
<1>2. PICK seen : seen = client[c].seen
  OBVIOUS
<1>3. PICK dns : dns = client[c].dns
  OBVIOUS
<1>4. PICK plan : plan = Build(b, seen, dns)
  OBVIOUS
<1>5. PICK n : n = Transaction(table, plan)
  OBVIOUS
<1>6. PICK new : new = Hazards(c, plan)
  OBVIOUS
<1>7. PICK rest : rest = Announced(table, plan)
  OBVIOUS
<1>8. PICK touched : touched = plan.dns.del \cup DOMAIN plan.dns.put
  BY Zenon
<1>9. /\ client[c].at = "ready" /\ (b = Removal \/ Buildable(b))
      /\ table' = n /\ faults' = faults \cup new
      /\ client' = [Shown(n) EXCEPT ![c].at = "sending", ![c].rest = rest,
                                    ![c].touched = touched]
      /\ applied' = [want |-> b, times |-> Times(c)]
  BY <1>1, <1>2, <1>3, <1>4, <1>5, <1>6, <1>7, <1>8, Zenon DEF Commit
<1>10. SeenInv'
  <2>1. PICK shown : shown = Shown(n)
    OBVIOUS
  <2>2. DOMAIN shown = Clients
        /\ \A d \in Clients : ClientOK(shown[d]) /\ shown[d].at = client[d].at
             /\ shown[d].want = client[d].want /\ shown[d].seen = client[d].seen
             /\ shown[d].stale = (client[d].stale \/ n # table)
    BY <2>1 DEF Shown, ClientType, ClientOK, ClientFields
  <2>3. client' = [shown EXCEPT ![c].at = "sending", ![c].rest = rest,
                                ![c].touched = touched]
    BY <1>9, <2>1
  <2>4. client'[c].want = client[c].want /\ client'[c].seen = client[c].seen
        /\ client'[c].stale = (client[c].stale \/ n # table)
    BY <2>2, <2>3 DEF ClientOK, ClientFields
  <2>5. \A d \in Clients : d # c => client'[d] = shown[d]
    BY <2>2, <2>3
  <2>6. ASSUME NEW d \in Clients PROVE StillShown(d, n)
    <3>1. CASE d = c
      BY <1>9, <2>4, <3>1 DEF StillShown
    <3>2. CASE d # c
      BY <2>2, <2>5, <2>6, <3>2 DEF StillShown
    <3> QED BY <3>1, <3>2
  <2> QED BY <1>9, <2>6, WrittenIsSeen DEF PlanInv
<1>11. SeenOK(c)
  BY <1>9 DEF PlanInv, SeenInv
<1>12. BuilderOK(b)
  BY <1>1, <1>11, DesiresAssumption DEF SeenOK
<1>13. PICK stale : stale = client[c].stale
  OBVIOUS
<1>14. ~stale => seen = GetDomainEntryProjectionByDomain(table)
  BY <1>2, <1>11, <1>13 DEF SeenOK
<1>15. PICK times : times = Times(c)
  OBVIOUS
<1>16. /\ times \in {0, 1, 2} /\ (times > 0 => ~stale)
       /\ times = 2 => applied.want = b /\ applied.times > 0
  <2>1. applied.times \in {0, 1, 2}
    BY DEF PlanInv, AppliedOK
  <2> QED BY <1>1, <1>13, <1>15, <2>1, TimesOK
<1>17. times = 2 /\ b # Removal => DomainReached(table, b)
  BY <1>16 DEF PlanInv, AppliedOK
<1>18. AppliedOK(n, b, times, faults \cup new) /\ RowsOK(n, faults \cup new)
  <2>1. HazardsOK(stale, b, seen, plan, new)
    BY <1>1, <1>2, <1>6, <1>13, HazardsRecorded
  <2>2. RowsOK(table, faults)
    BY DEF PlanInv
  <2>3. b = Removal \/ Buildable(b)
    BY <1>9
  <2>4. times \in {0, 1, 2}
    BY <1>16
  <2>5. times > 0 => ~stale
    BY <1>16
  <2> QED BY <1>4, <1>5, <1>12, <1>14, <1>17, <2>1, <2>2, <2>3, <2>4, <2>5,
             PlanReaches
<1>19. applied'.want = b /\ applied'.times = times
  BY <1>9, <1>15
<1> QED BY <1>9, <1>10, <1>18, <1>19 DEF PlanInv

\* A row written through PUT or DELETE: nothing counts as applied after it, and
\* the rows still have identifiers.
LEMMA WritesKeepPlans ==
    ASSUME ClientType, PlanInv, NEW new, DirectWrite(new), TableOK(new)
    PROVE  PlanInv'
<1>1. /\ table' = new /\ client' = Shown(new) /\ faults' = faults \cup {"put"}
      /\ applied' = [want |-> NewBuilder, times |-> 0]
  BY DEF DirectWrite
<1>2. ASSUME NEW d \in Clients PROVE StillShown(d, new)
  <2>1. client'[d] = [client[d] EXCEPT !.stale = client[d].stale \/ new # table]
    BY <1>1, <1>2 DEF Shown
  <2>2. ClientOK(client[d])
    BY <1>2 DEF ClientType
  <2>3. client'[d].at = client[d].at /\ client'[d].want = client[d].want
        /\ client'[d].seen = client[d].seen
        /\ client'[d].stale = (client[d].stale \/ new # table)
    BY <2>1, <2>2 DEF ClientOK, ClientFields
  <2> QED BY <2>3, Zenon DEF StillShown
<1>3. SeenInv'
  BY <1>1, <1>2, WrittenIsSeen DEF PlanInv
<1>4. applied'.times = 0
  BY <1>1
<1>5. AppliedOK(table, applied.want, applied.times, faults)'
  BY <1>4 DEF AppliedOK
<1>6. RowsOK(table, faults)'
  <2>1. TableOK(table)'
    BY <1>1 DEF TableOK
  <2>2. ~(faults' \subseteq {"renamed"}) /\ faults' # {}
    BY <1>1
  <2> QED BY <2>1, <2>2 DEF RowsOK
<1> QED BY <1>3, <1>5, <1>6 DEF PlanInv

\* PUT of one row.
LEMMA PutKeepsPlans ==
    ASSUME ClientType, PlanInv, NEW p \in Puts, handlePutResource(p)
    PROVE  PlanInv'
<1>1. TableOK(table)
  BY DEF PlanInv, RowsOK
<1>2. /\ p.kind \in {"domain", "routes", "backends", "dns"}
      /\ p.kind = "backends" => p.id # NoID
  BY PutsAssumption
<1>3. PICK new : /\ DirectWrite(new)
                 /\ new = IF p.kind = "domain" THEN [table EXCEPT !.domain = p.row]
                          ELSE [table EXCEPT ![p.kind] = Over(OneRow(p.id, p.row), @)]
  BY DEF handlePutResource
<1>4. DOMAIN new = {"domain", "routes", "backends", "dns"}
  BY <1>1, <1>3 DEF TableOK
<1>5. NoID \notin DOMAIN new.backends
  <2>1. CASE p.kind = "backends"
    <3>1. new.backends = Over(OneRow(p.id, p.row), table.backends)
      BY <1>1, <1>3, <2>1 DEF TableOK
    <3>2. DOMAIN new.backends = {p.id} \cup DOMAIN table.backends
      BY <3>1 DEF Over, OneRow
    <3> QED BY <1>1, <1>2, <2>1, <3>2 DEF TableOK
  <2>2. CASE p.kind # "backends"
    <3>1. new.backends = table.backends
      BY <1>1, <1>2, <1>3, <2>2 DEF TableOK
    <3> QED BY <1>1, <3>1 DEF TableOK
  <2> QED BY <2>1, <2>2
<1> QED BY <1>3, <1>4, <1>5, WritesKeepPlans, Zenon DEF TableOK

\* DELETE of one row.
LEMMA DeleteKeepsPlans ==
    ASSUME ClientType, PlanInv, NEW kind \in {"routes", "backends", "dns"}, NEW id,
           handleDeleteResource(kind, id)
    PROVE  PlanInv'
<1>1. TableOK(table)
  BY DEF PlanInv, RowsOK
<1>2. PICK new : /\ DirectWrite(new)
                 /\ new = [table EXCEPT ![kind] = Restrict(@, DOMAIN @ \ {id})]
  BY DEF handleDeleteResource
<1>3. DOMAIN new = {"domain", "routes", "backends", "dns"}
  BY <1>1, <1>2 DEF TableOK
<1>4. NoID \notin DOMAIN new.backends
  <2>1. CASE kind = "backends"
    <3>1. new.backends = Restrict(table.backends, DOMAIN table.backends \ {id})
      BY <1>1, <1>2, <2>1 DEF TableOK
    <3>2. DOMAIN new.backends = DOMAIN table.backends \ {id}
      BY <3>1 DEF Restrict
    <3> QED BY <1>1, <3>2 DEF TableOK
  <2>2. CASE kind # "backends"
    <3>1. new.backends = table.backends
      BY <1>1, <1>2, <2>2 DEF TableOK
    <3> QED BY <1>1, <3>1 DEF TableOK
  <2> QED BY <2>1, <2>2
<1> QED BY <1>2, <1>3, <1>4, WritesKeepPlans, Zenon DEF TableOK

\* What the plans applied in a row have reached, in every reachable state.
LEMMA PlanInvariant == Spec => []PlanInv
<1>1. Init => PlanInv
  <2> SUFFICES ASSUME Init PROVE PlanInv
    OBVIOUS
  <2>1. SeenInv
    BY IdleOK DEF Init, SeenInv
  <2>2. applied.times = 0 /\ faults = {}
    BY DEF Init
  <2>3. AppliedOK(table, applied.want, applied.times, faults)
    BY <2>2 DEF AppliedOK
  <2>4. RowsOK(table, faults)
    BY InitialAssumption DEF Init, RowsOK
  <2> QED BY <2>1, <2>3, <2>4 DEF PlanInv
<1>2. ClientType /\ PlanInv /\ [Next]_vars => PlanInv'
  <2> SUFFICES ASSUME ClientType, PlanInv, [Next]_vars PROVE PlanInv'
    OBVIOUS
  <2>1. ASSUME NEW c \in Clients,
               \/ \E b \in Desires[c] : QueryDomainEntryProjection(c, b)
               \/ QueryDNSRecords(c) \/ BuildFails(c) \/ Rollback(c)
               \/ Answer(c) \/ AnnounceFails(c)
        PROVE  PlanInv'
    BY <2>1, QueriesKeepPlans, Zenon
  <2>2. ASSUME NEW c \in Clients, Commit(c) PROVE PlanInv'
    BY <2>2, CommitKeepsPlans
  <2>3. ASSUME NEW c \in Clients, Announce(c) PROVE PlanInv'
    BY <2>3, AnnouncingKeepsPlans
  <2>4. ASSUME NEW p \in Puts, handlePutResource(p) PROVE PlanInv'
    BY <2>4, PutKeepsPlans
  <2>5. ASSUME NEW kind \in {"routes", "backends", "dns"}, NEW id,
               handleDeleteResource(kind, id)
        PROVE  PlanInv'
    BY <2>5, DeleteKeepsPlans
  <2>6. CASE UNCHANGED vars
    <3>1. UNCHANGED <<table, client, applied, faults>>
      BY <2>6 DEF vars
    <3>2. SeenInv'
      <4>1. GetDomainEntryProjectionByDomain(table)' =
                GetDomainEntryProjectionByDomain(table)
        BY <3>1, Zenon DEF GetDomainEntryProjectionByDomain, Live
      <4> QED BY <3>1, <4>1 DEF PlanInv, SeenInv, SeenOK
    <3>3. AppliedOK(table, applied.want, applied.times, faults)'
      BY <3>1, Zenon DEF PlanInv, AppliedOK, DomainReached, RowsReached, BoundReached,
                  RoutesReached
    <3>4. RowsOK(table, faults)'
      BY <3>1, SameRows DEF PlanInv
    <3> QED BY <3>2, <3>3, <3>4 DEF PlanInv
  <2> QED BY <2>1, <2>2, <2>3, <2>4, <2>5, <2>6, Zenon DEF Next
<1>3. AnnounceInv => ClientType
  BY DEF AnnounceInv
<1> QED BY <1>1, <1>2, <1>3, AnnounceInvariant, PTL DEF Spec

\* One plan built from the current state makes the entry the desired one,
\* through any switches between L4 and L7, unless an earlier plan was out of
\* date, deleted the hostname or put and deleted one backend row, or rows were
\* written one by one (OnePlanReaches): for any number of clients, any desires,
\* any initial rows without orphans and any number of plans, failures and
\* single writes.
THEOREM OnePlan == Spec => []OnePlanReaches
<1>1. PlanInv => OnePlanReaches
  <2> SUFFICES ASSUME PlanInv, applied.times > 0, applied.want # Removal,
                      DistinctIDs(applied.want), faults \subseteq {"renamed"}
               PROVE  Reached(applied.want)
    BY DEF OnePlanReaches
  <2>1. Wanted(applied.want) /\ RowsReached(table, applied.want) /\ TableOK(table)
    BY DEF PlanInv, AppliedOK, RowsOK
  <2> QED BY <2>1, RowsMean DEF Reached
<1> QED BY <1>1, PlanInvariant, PTL

\* Two plans for one desire, each built from the current state, make the entry
\* the desired one whatever rows there were (TwoPlansReach).
THEOREM TwoPlans == Spec => []TwoPlansReach
<1>1. PlanInv => TwoPlansReach
  <2> SUFFICES ASSUME PlanInv, applied.times = 2, applied.want # Removal,
                      DistinctIDs(applied.want)
               PROVE  Reached(applied.want)
    BY DEF TwoPlansReach
  <2>1. Wanted(applied.want) /\ RowsReached(table, applied.want) /\ TableOK(table)
    BY DEF PlanInv, AppliedOK, RowsOK
  <2> QED BY <2>1, RowsMean DEF Reached
<1> QED BY <1>1, PlanInvariant, PTL

\* The plan after them changes no domain, route or backend row
\* (SettledPlanIsEmpty).
THEOREM SettledPlan == Spec => []SettledPlanIsEmpty
<1>1. PlanInv => SettledPlanIsEmpty
  <2> SUFFICES ASSUME PlanInv, applied.times = 2, applied.want # Removal,
                      NEW plan, plan = Build(applied.want,
                          GetDomainEntryProjectionByDomain(table),
                          ListDNSRecordsByQuestion(table))
               PROVE  ChangesNothing(plan)
    BY Zenon DEF SettledPlanIsEmpty, ChangesNothing
  <2>1. Wanted(applied.want) /\ RowsReached(table, applied.want) /\ TableOK(table)
    BY DEF PlanInv, AppliedOK, RowsOK
  <2>2. PICK t : t = table
    OBVIOUS
  <2>3. PICK b : b = applied.want
    OBVIOUS
  <2>4. Wanted(b) /\ RowsReached(t, b) /\ TableOK(t)
    BY <2>1, <2>2, <2>3
  <2>5. PICK dns : dns = ListDNSRecordsByQuestion(table)
    OBVIOUS
  <2>6. plan = Build(b, GetDomainEntryProjectionByDomain(t), dns)
    BY <2>2, <2>3, <2>5
  <2> QED BY <2>4, <2>6, NothingToPlan, Zenon
<1> QED BY <1>1, PlanInvariant, PTL

\* As long as every plan was built from the current state, none put and deleted
\* one backend row, moved an L4 entry to a row of another identifier or deleted
\* the hostname, and no row was written on its own, no backend row is left
\* behind (NoOrphanBackends).
THEOREM NoOrphanRows == Spec => []NoOrphanBackends
<1>1. PlanInv => NoOrphanBackends
  BY DEF PlanInv, RowsOK, NoOrphanBackends
<1> QED BY <1>1, PlanInvariant, PTL
=============================================================================
