------------------------- MODULE ReplicationProofs -------------------------
(***************************************************************************)
(* Theorems about Replication, for any rows, slaves and publishers.        *)
(***************************************************************************)
EXTENDS ReplicationInvariant, SequenceTheorems, TLAPS

\* The larger of two positions of a slave is one of them (MaxOf), so it is not
\* beyond what neither is beyond.
LEMMA MaxNotBeyond ==
  ASSUME NEW a \in Nat, NEW b \in Nat
  PROVE  /\ MaxOf(a, b) \in Nat
         /\ \A c \in Nat : a <= c /\ b <= c => MaxOf(a, b) <= c
BY DEF MaxOf

\* A place in the log (snapshot_records only grows) stays one.
LEMMA PlaceStays ==
  ASSUME NEW m \in Nat, NEW n \in Nat, m <= n, NEW i \in 1 .. m
  PROVE  i \in 1 .. n
OBVIOUS

\* A place in the log is not beyond its end.
LEMMA PlaceIsBounded ==
  ASSUME NEW n \in Nat, NEW i \in 1 .. n
  PROVE  i \in Nat /\ i <= n
OBVIOUS

\* What a row that was deleted since need not have, no version lacks (Fresh).
LEMMA FreshAnyway ==
  ASSUME NEW v \in Nat, NEW k, NEW i, log[i].ver \in Nat, Fresh(0, k, i)
  PROVE  Fresh(v, k, i)
BY DEF Fresh

\* With no chunk in flight from handleGetSnapshot there is nothing to say of one.
LEMMA NoChunks ==
  ASSUME NEW s, snap'[s] = <<>>
  PROVE  ChunkInv(s)'
<1>1. Len(snap'[s]) = 0
  OBVIOUS
<1> QED
  BY <1>1 DEF ChunkInv

\* The handlers that serve slaves, the slaves and their faults leave the rows
\* and the log of the master alone.
LEMMA ServingChangesNoRow ==
  ASSUME MasterCrash \/ \E s \in Slaves : Serve(s) \/ Follow(s) \/ SessionLost(s)
  PROVE  row' = row /\ log' = log
<1>1. ASSUME NEW s \in Slaves, Serve(s)
      PROVE  row' = row /\ log' = log
  BY <1>1, Zenon DEF Serve, Register, Forward, ListRecords, ReadRow, SendLast, master
<1>2. ASSUME NEW s \in Slaves, Follow(s)
      PROVE  row' = row /\ log' = log
  BY <1>2, Zenon DEF Follow, OpenSession, ApplyChunk, RecvNotice, master
<1>3. ASSUME NEW s \in Slaves, SessionLost(s)
      PROVE  row' = row /\ log' = log
  BY <1>3, Zenon DEF SessionLost, master
<1>4. ASSUME MasterCrash PROVE row' = row /\ log' = log
  BY <1>4, Zenon DEF MasterCrash
<1> QED
  BY <1>1, <1>2, <1>3, <1>4, Zenon

\* Of the steps of publishers only those that append a record or commit one
\* change the log, and none changes a row.
LEMMA PublishingChangesNoRow ==
  ASSUME NEW p \in Publishers, Publish(p) \/ PublishFails(p)
  PROVE  row' = row /\ (log' = log \/ AppendRecord(p) \/ CommitRecord(p))
<1>1. CASE TakeJob(p)
  BY <1>1, Zenon DEF TakeJob
<1>2. CASE AppendRecord(p)
  BY <1>2, Zenon DEF AppendRecord
<1>3. CASE CommitRecord(p)
  BY <1>3, Zenon DEF CommitRecord
<1>4. CASE Boardcast(p)
  BY <1>4, Zenon DEF Boardcast
<1>5. CASE PublishFails(p)
  BY <1>5, Zenon DEF PublishFails
<1> QED
  BY <1>1, <1>2, <1>3, <1>4, <1>5, Zenon DEF Publish

\* No writer touches the log.
LEMMA WritingChangesNoLog ==
  ASSUME Write
  PROVE  log' = log
BY Zenon DEF Write, ApplyPlan, BridgeSync, CertificateIssued, PutResource, DeleteResource

\* There is at least one row to publish, so an idle publisher has its type.
LEMMA IdlePubType ==
  ASSUME NEW todo \in SUBSET Jobs
  PROVE  IdlePub(todo) \in Pubs
<1>1. \E k \in Keys : TRUE
  BY ConstantsAssumption, Zenon DEF Keys
<1>2. (CHOOSE k \in Keys : TRUE) \in Keys
  BY <1>1, Zenon
<1> QED
  BY <1>2, Zenon DEF IdlePub, Pubs

\* A handler that does nothing, or was just asked, has its type.
LEMMA HandlerType ==
  /\ IdleHandler \in Handlers
  /\ \A after \in Nat : Requested(after) \in Handlers
BY Zenon DEF IdleHandler, Requested, Handlers, NoItems

\* A master with empty tables and slaves with empty caches are well typed.
LEMMA TypeInit == Init => TypeOK
<1> SUFFICES ASSUME Init PROVE TypeOK
  BY Zenon
<1>1. pub \in [Publishers -> Pubs]
  BY IdlePubType, Zenon DEF Init
<1>2. srv \in [Slaves -> Handlers]
  BY HandlerType, Zenon DEF Init
<1>3. row \in [Keys -> Rows]
  <2>1. [ver |-> 0, live |-> FALSE, gone |-> 0] \in Rows
    BY Zenon DEF Rows
  <2> QED
    BY <2>1, Zenon DEF Init
<1>4. cache \in [Slaves -> [Keys -> Nat]]
  <2>1. NoItems \in [Keys -> Nat]
    BY Zenon DEF NoItems
  <2> QED
    BY <2>1, Zenon DEF Init
<1>5. requests \in Nat /\ log \in Seq(Records)
  BY DEF Init
<1>8. calm \in BOOLEAN
  BY Zenon DEF Init
<1>6. /\ reg \in [Slaves -> BOOLEAN]
      /\ hub \in [Slaves -> Seq(Notices)]
      /\ net \in [Slaves -> Seq(Notices)]
      /\ snap \in [Slaves -> Seq(Chunks)]
  BY DEF Init
<1>7. /\ pc \in [Slaves -> {"backoff", "catchup", "recv"}]
      /\ cur \in [Slaves -> Nat]
      /\ mcur \in [Slaves -> Nat]
      /\ heard \in [Slaves -> Nat]
      /\ synced \in [Slaves -> Nat]
  BY Zenon DEF Init
<1> QED
  BY <1>1, <1>2, <1>3, <1>4, <1>5, <1>6, <1>7, <1>8, Zenon DEF TypeOK

\* Writing a row keeps its type.
LEMMA RowType ==
  ASSUME NEW r \in Rows
  PROVE  Upserted(r) \in Rows /\ Deleted(r) \in Rows
<1>1. r.ver + 1 \in Nat /\ r.gone \in Nat
  BY DEF Rows
<1> QED
  BY <1>1, Zenon DEF Rows, Upserted, Deleted

\* So does giving a publisher new jobs.
LEMMA NewJobsType ==
  ASSUME pub \in [Publishers -> Pubs], NEW p \in Publishers,
         NEW jobs \in SUBSET Jobs, pub' = [pub EXCEPT ![p].todo = jobs]
  PROVE  pub' \in [Publishers -> Pubs]
BY DEF Pubs

\* Every request that writes rows keeps the types.
LEMMA TypeWrite == TypeOK /\ Write => TypeOK'
<1> SUFFICES ASSUME TypeOK, Write PROVE TypeOK'
  BY Zenon
<1>0. row \in [Keys -> Rows] /\ pub \in [Publishers -> Pubs]
  BY Zenon DEF TypeOK
<1>1. requests' \in Nat
  BY DEF Write, TypeOK
<1>2. row' \in [Keys -> Rows] /\ pub' \in [Publishers -> Pubs]
  <2>1. ASSUME NEW p \in Publishers, NEW h \in Hosts,
               NEW ups \in SUBSET Keys, NEW dels \in SUBSET Keys,
               ApplyPlan(p, h, ups, dels)
        PROVE  row' \in [Keys -> Rows] /\ pub' \in [Publishers -> Pubs]
    <3>1. row' \in [Keys -> Rows]
      BY <1>0, <2>1, RowType, Zenon DEF ApplyPlan
    <3>2. \A k \in Keys : DeleteJob(k) \in Jobs /\ ReadJob(k) \in Jobs
      <4>1. \A k \in Keys : Deleted(row[k]).ver \in Nat
        BY <1>0, RowType, Zenon DEF Rows
      <4> QED
        BY <4>1, Zenon DEF DeleteJob, ReadJob, Jobs
    <3> DEFINE jobs == {DeleteJob(k) : k \in {d \in dels : d \in DnsRecords
                                                          \/ row[d].live}}
                       \cup {ReadJob(k) : k \in ups \cup {h}}
    <3>3. jobs \in SUBSET Jobs
      BY <3>2, Zenon DEF Keys
    <3>4. pub' = [pub EXCEPT ![p].todo = jobs]
      BY <2>1, Zenon DEF ApplyPlan
    <3>5. pub' \in [Publishers -> Pubs]
      BY <1>0, <3>3, <3>4, NewJobsType, Zenon
    <3> QED
      BY <3>1, <3>5, Zenon
  <2>2. ASSUME NEW p \in Publishers, NEW ups \in SUBSET Keys,
               NEW dels \in SUBSET Keys, BridgeSync(p, ups, dels)
        PROVE  row' \in [Keys -> Rows] /\ pub' \in [Publishers -> Pubs]
    <3>1. row' \in [Keys -> Rows]
      BY <1>0, <2>2, RowType, Zenon DEF BridgeSync
    <3> DEFINE jobs == {ReadJob(k) : k \in ups \cup (dels \cap Hosts)}
    <3>2. jobs \in SUBSET Jobs
      BY DEF ReadJob, Jobs
    <3>3. pub' = [pub EXCEPT ![p].todo = jobs]
      BY <2>2, Zenon DEF BridgeSync
    <3>4. pub' \in [Publishers -> Pubs]
      BY <1>0, <3>2, <3>3, NewJobsType, Zenon
    <3> QED
      BY <3>1, <3>4, Zenon
  <2>3. ASSUME NEW p \in Publishers, NEW h \in Hosts, CertificateIssued(p, h)
        PROVE  row' \in [Keys -> Rows] /\ pub' \in [Publishers -> Pubs]
    <3>1. h \in Keys /\ {ReadJob(h)} \in SUBSET Jobs
      BY DEF Keys, ReadJob, Jobs
    <3>2. row' \in [Keys -> Rows]
      BY <1>0, <2>3, <3>1, RowType, Zenon DEF CertificateIssued
    <3>3. pub' = [pub EXCEPT ![p].todo = {ReadJob(h)}]
      BY <2>3, Zenon DEF CertificateIssued
    <3>4. pub' \in [Publishers -> Pubs]
      BY <1>0, <3>1, <3>3, NewJobsType, Zenon
    <3> QED
      BY <3>2, <3>4, Zenon
  <2>4. ASSUME NEW k \in Keys, PutResource(k) \/ DeleteResource(k)
        PROVE  row' \in [Keys -> Rows] /\ pub' \in [Publishers -> Pubs]
    BY <1>0, <2>4, RowType DEF PutResource, DeleteResource
  <2> QED
    BY <2>1, <2>2, <2>3, <2>4, Zenon DEF Write
<1>3. UNCHANGED <<log, stream, snapshot, slave, calm>>
  BY Zenon DEF Write, ApplyPlan, BridgeSync, CertificateIssued, PutResource,
         DeleteResource
<1> QED
  BY <1>1, <1>2, <1>3, Zenon DEF TypeOK, stream, snapshot, slave

\* A publisher that took a job keeps its type.
LEMMA TakenType ==
  ASSUME row \in [Keys -> Rows], NEW r \in Pubs, NEW j \in Jobs
  PROVE  Taken(r, j) \in Pubs
<1>1. j.key \in Keys /\ j.ver \in Nat
  BY Zenon DEF Jobs
<1>2. row[j.key].ver \in Nat
  BY <1>1, Zenon DEF Rows
<1>3. CASE j.act = "delete"
  BY <1>1, <1>3, Zenon DEF Taken, Pubs
<1>4. CASE j.act # "delete" /\ row[j.key].live
  BY <1>1, <1>2, <1>4, Zenon DEF Taken, Pubs
<1>5. CASE j.act # "delete" /\ ~row[j.key].live
  BY <1>5, Zenon DEF Taken, Pubs
<1> QED
  BY <1>3, <1>4, <1>5, Zenon

\* An update outside a sequence changes nothing.
LEMMA ExceptOutside ==
  ASSUME NEW S, NEW q \in Seq(S), NEW x, NEW e, x \notin 1 .. Len(q)
  PROVE  [q EXCEPT ![x] = e] = q
OBVIOUS

\* Every step of a publisher keeps the types.
LEMMA TypePublish ==
  ASSUME TypeOK, NEW p \in Publishers, Publish(p) \/ PublishFails(p)
  PROVE  TypeOK'
<1>0. /\ row \in [Keys -> Rows]
      /\ pub \in [Publishers -> Pubs]
      /\ log \in Seq(Records)
      /\ hub \in [Slaves -> Seq(Notices)]
  BY Zenon DEF TypeOK
<1>1. CASE TakeJob(p)
  <2>1. PICK j \in pub[p].todo : pub' = [pub EXCEPT ![p] = Taken(pub[p], j)]
    BY <1>1, Zenon DEF TakeJob
  <2>2. pub[p] \in Pubs /\ j \in Jobs
    BY <1>0, Zenon DEF Pubs
  <2>3. pub' \in [Publishers -> Pubs]
    BY <1>0, <2>1, <2>2, TakenType, Zenon
  <2> QED
    BY <1>1, <2>3, Zenon DEF TakeJob, TypeOK, stream, snapshot, slave
<1>2. CASE AppendRecord(p)
  <2>1. pub[p].key \in Keys /\ pub[p].act \in {"upsert", "delete"} /\ pub[p].ver \in Nat
    BY <1>0, Zenon DEF Pubs
  <2>2. (Driver = "sqlite") \in BOOLEAN
    BY Zenon
  <2>3. [key |-> pub[p].key, act |-> pub[p].act, ver |-> pub[p].ver,
         vis |-> Driver = "sqlite"] \in Records
    BY <2>1, <2>2, Zenon DEF Records
  <2>4. log' \in Seq(Records)
    BY <1>0, <1>2, <2>3 DEF AppendRecord
  <2>5. pub' \in [Publishers -> Pubs]
    <3> DEFINE next == IF Driver = "sqlite" THEN "cast" ELSE "commit"
    <3>1. pub' = [pub EXCEPT ![p].pc = next, ![p].id = Len(log) + 1]
      BY <1>2, Zenon DEF AppendRecord
    <3>2. next \in {"cast", "commit"} /\ Len(log) + 1 \in Nat
      BY <1>0
    <3>3. ASSUME NEW r \in Pubs
          PROVE  [r EXCEPT !.pc = next, !.id = Len(log) + 1] \in Pubs
      BY <3>2, Zenon DEF Pubs
    <3> HIDE DEF next
    <3> QED
      BY <1>0, <3>1, <3>3, Zenon
  <2> QED
    BY <1>2, <2>4, <2>5, Zenon DEF AppendRecord, TypeOK, stream, snapshot, slave
<1>3. CASE CommitRecord(p)
  <2>1. ASSUME NEW r \in Records PROVE [r EXCEPT !.vis = TRUE] \in Records
    BY Zenon DEF Records
  <2>2. log' \in Seq(Records)
    <3>1. CASE pub[p].id \in 1 .. Len(log)
      <4>1. [log[pub[p].id] EXCEPT !.vis = TRUE] \in Records
        BY <1>0, <2>1, <3>1
      <4> QED
        BY <1>0, <1>3, <3>1, <4>1, ExceptSeq DEF CommitRecord
    <3>2. CASE pub[p].id \notin 1 .. Len(log)
      <4> DEFINE shown == [log[pub[p].id] EXCEPT !.vis = TRUE]
      <4>1. log' = [log EXCEPT ![pub[p].id] = shown]
        BY <1>3, Zenon DEF CommitRecord
      <4> HIDE DEF shown
      <4> QED
        BY <1>0, <3>2, <4>1, ExceptOutside, Zenon
    <3> QED
      BY <3>1, <3>2, Zenon
  <2>3. pub' \in [Publishers -> Pubs]
    <3>1. ASSUME NEW r \in Pubs PROVE [r EXCEPT !.pc = "cast"] \in Pubs
      BY Zenon DEF Pubs
    <3> QED
      BY <1>0, <1>3, <3>1, Zenon DEF CommitRecord
  <2> QED
    BY <1>3, <2>2, <2>3, Zenon DEF CommitRecord, TypeOK, stream, snapshot, slave
<1>4. CASE Boardcast(p)
  <2>1. [id |-> pub[p].id, key |-> pub[p].key, act |-> pub[p].act,
         ver |-> pub[p].ver] \in Notices
    BY <1>0, Zenon DEF Pubs, Notices
  <2>2. hub' \in [Slaves -> Seq(Notices)]
    BY <1>0, <1>4, <2>1 DEF Boardcast
  <2>3. pub[p].todo \in SUBSET Jobs
    BY <1>0, Zenon DEF Pubs
  <2>4. pub' \in [Publishers -> Pubs]
    BY <1>0, <1>4, <2>3, IdlePubType, Zenon DEF Boardcast
  <2> QED
    BY <1>4, <2>2, <2>4, Zenon DEF Boardcast, TypeOK, snapshot, slave
<1>5. CASE PublishFails(p)
  <2>1. pub' \in [Publishers -> Pubs]
    BY <1>0, <1>5, IdlePubType, Zenon DEF PublishFails
  <2> QED
    BY <1>5, <2>1, Zenon DEF PublishFails, TypeOK, stream, snapshot, slave
<1> QED
  BY <1>1, <1>2, <1>3, <1>4, <1>5, Zenon DEF Publish

\* A handler that has looked at a record, or sent a chunk, keeps its type.
LEMMA ReadType ==
  ASSUME NEW h \in Handlers, row \in [Keys -> Rows], log \in Seq(Records),
         NEW i \in 1 .. Len(log), NEW found
  PROVE  /\ WithRow(h, i, found) \in Handlers
         /\ NextChunk(h) \in Handlers
         /\ \A last \in BOOLEAN : Chunk(h, last) \in Chunks
<1>1. log[i] \in Records /\ i \in Nat
  OBVIOUS
<1>2. log[i].key \in Keys /\ row[log[i].key] \in Rows
  BY <1>1, Zenon DEF Records
<1>3. row[log[i].key].ver \in Nat
  BY <1>2, Zenon DEF Rows
<1>4. WithRow(h, i, found) \in Handlers
  <2> DEFINE seen == [h EXCEPT !.todo = @ \ {i}, !.last = i]
  <2>1. seen \in Handlers
    BY <1>1, Zenon DEF Handlers
  <2>2. WithRow(h, i, found) =
          IF found
          THEN [seen EXCEPT !.items = [@ EXCEPT ![log[i].key] = row[log[i].key].ver],
                            !.count = @ + 1]
          ELSE seen
    BY Zenon DEF WithRow
  <2> HIDE DEF seen
  <2> DEFINE items == [seen.items EXCEPT ![log[i].key] = row[log[i].key].ver]
  <2>3. items \in [Keys -> Nat]
    BY <1>2, <1>3, <2>1, Zenon DEF Handlers
  <2> HIDE DEF items
  <2>4. [seen EXCEPT !.items = items, !.count = @ + 1] \in Handlers
    <3>1. seen.count + 1 \in Nat
      BY <2>1 DEF Handlers
    <3> QED
      BY <2>1, <2>3, <3>1, Zenon DEF Handlers
  <2> QED
    BY <2>1, <2>2, <2>4, Zenon DEF items
<1>5. NoItems \in [Keys -> Nat]
  BY Zenon DEF NoItems
<1>6. NextChunk(h) \in Handlers
  BY <1>5, Zenon DEF NextChunk, Handlers
<1>7. \A last \in BOOLEAN : Chunk(h, last) \in Chunks
  BY Zenon DEF Chunk, Handlers, Chunks
<1> QED
  BY <1>4, <1>6, <1>7, Zenon

\* What a snapshot handler has left to read are records of the log.
TodoListed == \A s \in Slaves : srv[s].todo \subseteq 1 .. Len(log)

\* Every step that serves a slave keeps the types.
LEMMA TypeServe ==
  ASSUME TypeOK, TodoListed, NEW s \in Slaves, Serve(s)
  PROVE  TypeOK'
<1>0. /\ row \in [Keys -> Rows]
      /\ log \in Seq(Records)
      /\ hub \in [Slaves -> Seq(Notices)]
      /\ net \in [Slaves -> Seq(Notices)]
      /\ srv \in [Slaves -> Handlers]
      /\ snap \in [Slaves -> Seq(Chunks)]
      /\ srv[s] \in Handlers
      /\ Len(log) \in Nat
  BY DEF TypeOK
<1>1. CASE Register(s)
  <2>1. reg' \in [Slaves -> BOOLEAN]
    BY <1>1, Zenon DEF Register, TypeOK
  <2>2. hub' \in [Slaves -> Seq(Notices)]
    BY <1>0, <1>1 DEF Register
  <2> QED
    BY <1>1, <2>1, <2>2, Zenon DEF Register, TypeOK, master, snapshot, slave
<1>2. CASE Forward(s)
  <2>1. hub[s] \in Seq(Notices) /\ hub[s] # <<>> /\ net[s] \in Seq(Notices)
    BY <1>0, <1>2, Zenon DEF Forward
  <2>2. Head(hub[s]) \in Notices /\ Tail(hub[s]) \in Seq(Notices)
    BY <2>1, HeadTailProperties, Zenon
  <2>3. hub' \in [Slaves -> Seq(Notices)] /\ net' \in [Slaves -> Seq(Notices)]
    BY <1>0, <1>2, <2>1, <2>2, AppendProperties, Zenon DEF Forward
  <2> QED
    BY <1>2, <2>3, Zenon DEF Forward, TypeOK, master, snapshot, slave
<1>3. CASE ListRecords(s)
  <2> DEFINE todo == {i \in 1 .. Len(log) : i > srv[s].last /\ log[i].vis}
  <2>1. todo \in SUBSET Nat
    BY <1>0
  <2>2. srv' = [srv EXCEPT ![s] = [srv[s] EXCEPT !.st = "read", !.todo = todo,
                                                 !.upto = Len(log)]]
    BY <1>0, <1>3, Zenon DEF ListRecords
  <2> HIDE DEF todo
  <2>3. [srv[s] EXCEPT !.st = "read", !.todo = todo, !.upto = Len(log)] \in Handlers
    BY <1>0, <2>1, Zenon DEF Handlers
  <2>4. srv' \in [Slaves -> Handlers]
    BY <1>0, <2>2, <2>3, Zenon
  <2> QED
    BY <1>3, <2>4, Zenon DEF ListRecords, TypeOK, master, stream, slave
<1>4. CASE ReadRow(s)
  <2>1. PICK i \in srv[s].todo :
          \E found \in Found(i) : Advance(s, WithRow(srv[s], i, found))
    BY <1>4, Zenon DEF ReadRow
  <2>2. PICK found : Advance(s, WithRow(srv[s], i, found))
    BY <2>1, Zenon
  <2> DEFINE h == WithRow(srv[s], i, found)
  <2>3. i \in 1 .. Len(log)
    BY Zenon DEF TodoListed
  <2>4. h \in Handlers
    BY <1>0, <2>3, ReadType, Zenon
  <2>5. Advance(s, h)
    BY <2>2, Zenon
  <2> HIDE DEF h
  <2>6. NextChunk(h) \in Handlers /\ Chunk(h, FALSE) \in Chunks
    BY <1>0, <2>3, <2>4, ReadType, Zenon
  <2>7. srv' \in [Slaves -> Handlers]
    BY <1>0, <2>4, <2>5, <2>6, Zenon DEF Advance
  <2>8. snap' \in [Slaves -> Seq(Chunks)]
    <3>1. Append(snap[s], Chunk(h, FALSE)) \in Seq(Chunks)
      BY <1>0, <2>6, AppendProperties, Zenon
    <3> QED
      BY <1>0, <2>5, <3>1, Zenon DEF Advance
  <2> QED
    BY <1>4, <2>7, <2>8, Zenon DEF ReadRow, TypeOK, master, stream, slave
<1>5. CASE SendLast(s)
  <2>1. Chunk(srv[s], TRUE) \in Chunks
    BY <1>0, Zenon DEF Chunk, Handlers, Chunks
  <2>2. srv' \in [Slaves -> Handlers] /\ snap' \in [Slaves -> Seq(Chunks)]
    BY <1>0, <1>5, <2>1, HandlerType, AppendProperties, Zenon DEF SendLast
  <2> QED
    BY <1>5, <2>2, Zenon DEF SendLast, TypeOK, master, stream, slave
<1> QED
  BY <1>1, <1>2, <1>3, <1>4, <1>5, Zenon DEF Serve

\* What a session leaves behind has its type.
LEMMA EndType ==
  ASSUME TypeOK, NEW s \in Slaves, EndSession(s)
  PROVE  /\ pc' \in [Slaves -> {"backoff", "catchup", "recv"}]
         /\ reg' \in [Slaves -> BOOLEAN]
         /\ hub' \in [Slaves -> Seq(Notices)]
         /\ net' \in [Slaves -> Seq(Notices)]
         /\ snap' \in [Slaves -> Seq(Chunks)]
         /\ srv' \in [Slaves -> Handlers]
         /\ mcur' \in [Slaves -> Nat]
<1>1. reg' \in [Slaves -> BOOLEAN]
  BY Zenon DEF EndSession, TypeOK
<1>2. srv' \in [Slaves -> Handlers]
  BY HandlerType, Zenon DEF EndSession, TypeOK
<1>3. /\ hub \in [Slaves -> Seq(Notices)]
      /\ net \in [Slaves -> Seq(Notices)]
      /\ snap \in [Slaves -> Seq(Chunks)]
      /\ pc \in [Slaves -> {"backoff", "catchup", "recv"}]
      /\ mcur \in [Slaves -> Nat]
  BY Zenon DEF TypeOK
<1> QED
  BY <1>1, <1>2, <1>3 DEF EndSession

\* Writing rows to a cache keeps its type.
LEMMA MergeType ==
  ASSUME NEW rows \in [Keys -> Nat], NEW items \in [Keys -> Nat], NEW failed
  PROVE  Merge(rows, items, failed) \in [Keys -> Nat]
BY Zenon DEF Merge

\* The chunk at the head of what a slave has to receive has its type.
LEMMA HeadChunk ==
  ASSUME TypeOK, NEW s \in Slaves, snap[s] # <<>>
  PROVE  /\ Head(snap[s]) \in Chunks
         /\ Head(snap[s]).id \in Nat
         /\ Head(snap[s]).items \in [Keys -> Nat]
         /\ Tail(snap[s]) \in Seq(Chunks)
<1>1. snap[s] \in Seq(Chunks)
  BY Zenon DEF TypeOK
<1>2. Head(snap[s]) \in Chunks /\ Tail(snap[s]) \in Seq(Chunks)
  BY <1>1, HeadTailProperties, Zenon
<1> QED
  BY <1>2, Zenon DEF Chunks

\* So has the notice at the head of its stream.
LEMMA HeadNotice ==
  ASSUME TypeOK, NEW s \in Slaves, net[s] # <<>>
  PROVE  /\ Head(net[s]) \in Notices
         /\ Head(net[s]).id \in Nat
         /\ Head(net[s]).key \in Keys
         /\ Head(net[s]).ver \in Nat
         /\ Tail(net[s]) \in Seq(Notices)
<1>1. net[s] \in Seq(Notices)
  BY Zenon DEF TypeOK
<1>2. Head(net[s]) \in Notices /\ Tail(net[s]) \in Seq(Notices)
  BY <1>1, HeadTailProperties, Zenon
<1> QED
  BY <1>2, Zenon DEF Notices

\* Applying a chunk keeps the types.
LEMMA TypeApplyChunk ==
  ASSUME TypeOK, NEW s \in Slaves, ApplyChunk(s)
  PROVE  TypeOK'
<1> DEFINE c == Head(snap[s])
<1>0. /\ cache \in [Slaves -> [Keys -> Nat]]
      /\ snap \in [Slaves -> Seq(Chunks)]
      /\ pc \in [Slaves -> {"backoff", "catchup", "recv"}]
      /\ cur \in [Slaves -> Nat]
      /\ mcur \in [Slaves -> Nat]
      /\ synced \in [Slaves -> Nat]
  BY Zenon DEF TypeOK
<1>1. c.id \in Nat /\ c.items \in [Keys -> Nat] /\ Tail(snap[s]) \in Seq(Chunks)
  BY HeadChunk, Zenon DEF ApplyChunk
<1>2. cache' \in [Slaves -> [Keys -> Nat]]
  <2>1. PICK failed : cache' = [cache EXCEPT ![s] = Merge(cache[s], c.items, failed)]
    BY Zenon DEF ApplyChunk
  <2> QED
    BY <1>0, <1>1, <2>1, MergeType, Zenon
<1>3. cur' \in [Slaves -> Nat]
  <2>1. \/ cur' = [cur EXCEPT ![s] = MaxOf(cur[s], c.id)]
        \/ cur' = [cur EXCEPT ![s] = cur[s]]
    BY Zenon DEF ApplyChunk
  <2> QED
    BY <1>0, <1>1, <2>1, Zenon DEF MaxOf
<1>4. synced' \in [Slaves -> Nat]
  BY <1>0, <1>1, Zenon DEF ApplyChunk, MaxOf
<1>5. /\ pc' \in [Slaves -> {"backoff", "catchup", "recv"}]
      /\ mcur' \in [Slaves -> Nat]
  <2>1. cur'[s] \in Nat
    BY <1>3, Zenon
  <2>2. pc' \in [Slaves -> {"backoff", "catchup", "recv"}]
    <3>1. pc' = [pc EXCEPT ![s] = "recv"] \/ pc' = pc
      BY Zenon DEF ApplyChunk
    <3> QED
      BY <1>0, <3>1, Zenon
  <2>3. mcur' \in [Slaves -> Nat]
    <3>1. mcur' = [mcur EXCEPT ![s] = cur'[s]] \/ mcur' = mcur
      BY Zenon DEF ApplyChunk
    <3> QED
      BY <1>0, <2>1, <3>1, Zenon
  <2> QED
    BY <2>2, <2>3, Zenon
<1>6. snap' \in [Slaves -> Seq(Chunks)]
  BY <1>0, <1>1, Zenon DEF ApplyChunk
<1> QED
  BY <1>2, <1>3, <1>4, <1>5, <1>6, Zenon DEF ApplyChunk, TypeOK, master, stream

\* Receiving a notice keeps the types.
LEMMA TypeRecvNotice ==
  ASSUME TypeOK, NEW s \in Slaves, RecvNotice(s)
  PROVE  TypeOK'
<1> DEFINE n == Head(net[s])
<1>0. /\ net \in [Slaves -> Seq(Notices)]
      /\ srv \in [Slaves -> Handlers]
      /\ cache \in [Slaves -> [Keys -> Nat]]
      /\ pc \in [Slaves -> {"backoff", "catchup", "recv"}]
      /\ cur \in [Slaves -> Nat]
      /\ mcur \in [Slaves -> Nat]
      /\ heard \in [Slaves -> Nat]
      /\ synced \in [Slaves -> Nat]
  BY Zenon DEF TypeOK
<1>1. /\ n.id \in Nat
      /\ n.key \in Keys
      /\ n.ver \in Nat
      /\ Tail(net[s]) \in Seq(Notices)
  BY HeadNotice, Zenon DEF RecvNotice
<1>2. heard' \in [Slaves -> Nat]
  BY <1>0, <1>1, Zenon DEF RecvNotice, MaxOf
<1>3. UNCHANGED <<master, calm>>
  BY Zenon DEF RecvNotice
<1>4. CASE /\ net' = [net EXCEPT ![s] = Tail(@)]
           /\ UNCHANGED <<pc, cur, mcur, cache, synced, reg, hub, srv, snap>>
  <2>1. net' \in [Slaves -> Seq(Notices)]
    BY <1>0, <1>1, <1>4, Zenon
  <2> QED
    BY <1>2, <1>3, <1>4, <2>1, Zenon DEF TypeOK, master
<1>5. CASE /\ RepairGap(s)
           /\ UNCHANGED <<cur, mcur, cache, synced, reg, hub, snap>>
  <2>1. net' \in [Slaves -> Seq(Notices)]
    BY <1>0, <1>1, <1>5, Zenon DEF RepairGap
  <2>2. srv' \in [Slaves -> Handlers]
    BY <1>0, <1>5, HandlerType, Zenon DEF RepairGap
  <2>3. pc' \in [Slaves -> {"backoff", "catchup", "recv"}]
    BY <1>0, <1>5, Zenon DEF RepairGap
  <2> QED
    BY <1>2, <1>3, <1>5, <2>1, <2>2, <2>3, Zenon DEF TypeOK, master
<1>6. CASE ApplyNotice(s, n) /\ cur[s] + 1 < n.id
  <2>1. EndSession(s) /\ UNCHANGED <<cur, cache, synced>>
    BY <1>6, Zenon DEF ApplyNotice
  <2> QED
    BY <1>2, <1>3, <2>1, EndType, Zenon DEF TypeOK, master
<1>7. CASE ApplyNotice(s, n) /\ ~(cur[s] + 1 < n.id)
  <2>1. cache' \in [Slaves -> [Keys -> Nat]]
    <3>1. PICK failed : cache' = [cache EXCEPT ![s][n.key] =
                           IF ~(cur[s] < n.id) \/ n.key \in failed
                           THEN cache[s][n.key]
                           ELSE IF n.act = "delete" THEN 0 ELSE n.ver]
      BY <1>7, Zenon DEF ApplyNotice
    <3> DEFINE v == IF ~(cur[s] < n.id) \/ n.key \in failed
                    THEN cache[s][n.key]
                    ELSE IF n.act = "delete" THEN 0 ELSE n.ver
    <3>2. v \in Nat
      BY <1>0, <1>1, Zenon
    <3>3. cache' = [cache EXCEPT ![s][n.key] = v]
      BY <3>1, Zenon
    <3> HIDE DEF v
    <3> QED
      BY <1>0, <1>1, <3>2, <3>3, Zenon
  <2>2. cur' \in [Slaves -> Nat]
    <3>1. \/ cur' = [cur EXCEPT ![s] = n.id]
          \/ cur' = [cur EXCEPT ![s] = cur[s]]
      BY <1>7, Zenon DEF ApplyNotice
    <3> QED
      BY <1>0, <1>1, <3>1, Zenon
  <2>3. /\ synced' \in [Slaves -> Nat]
        /\ mcur' \in [Slaves -> Nat]
        /\ net' \in [Slaves -> Seq(Notices)]
    <3>1. /\ synced' = [synced EXCEPT ![s] = MaxOf(synced[s], n.id)]
          /\ mcur' = [mcur EXCEPT ![s] = n.id]
          /\ net' = [net EXCEPT ![s] = Tail(net[s])]
      BY <1>7, Zenon DEF ApplyNotice
    <3>2. MaxOf(synced[s], n.id) \in Nat
      BY <1>0, <1>1, Zenon DEF MaxOf
    <3> QED
      BY <1>0, <1>1, <3>1, <3>2, Zenon
  <2>4. UNCHANGED <<pc, reg, hub, srv, snap>>
    BY <1>7, Zenon DEF ApplyNotice
  <2> QED
    BY <1>2, <1>3, <2>1, <2>2, <2>3, <2>4, Zenon DEF TypeOK, master
<1> QED
  BY <1>4, <1>5, <1>6, <1>7, Zenon DEF RecvNotice

\* Every step of a slave keeps the types.
LEMMA TypeFollow ==
  ASSUME TypeOK, NEW s \in Slaves, Follow(s)
  PROVE  TypeOK'
<1>1. CASE OpenSession(s)
  <2>1. /\ pc' \in [Slaves -> {"backoff", "catchup", "recv"}]
        /\ mcur' \in [Slaves -> Nat]
        /\ srv' \in [Slaves -> Handlers]
    BY <1>1, HandlerType, Zenon DEF OpenSession, TypeOK
  <2> QED
    BY <1>1, <2>1, Zenon DEF OpenSession, TypeOK, master, stream
<1> QED
  BY <1>1, TypeApplyChunk, TypeRecvNotice, Zenon DEF Follow

\* So do the faults.
LEMMA TypeFaults ==
  ASSUME TypeOK, MasterCrash \/ (\E s \in Slaves : SessionLost(s)) \/ CalmDown
  PROVE  TypeOK'
<1>1. CASE MasterCrash
  <2>1. pub' \in [Publishers -> Pubs]
    BY <1>1, IdlePubType, Zenon DEF MasterCrash
  <2>2. srv' \in [Slaves -> Handlers]
    BY <1>1, HandlerType, Zenon DEF MasterCrash
  <2>3. reg' \in [Slaves -> BOOLEAN]
    BY <1>1, Zenon DEF MasterCrash
  <2>4. /\ hub' \in [Slaves -> Seq(Notices)]
        /\ net' \in [Slaves -> Seq(Notices)]
        /\ snap' \in [Slaves -> Seq(Chunks)]
        /\ pc' \in [Slaves -> {"backoff", "catchup", "recv"}]
        /\ mcur' \in [Slaves -> Nat]
    BY <1>1 DEF MasterCrash
  <2> QED
    BY <1>1, <2>1, <2>2, <2>3, <2>4, Zenon DEF MasterCrash, TypeOK
<1>2. CASE \E s \in Slaves : SessionLost(s)
  <2>1. PICK s \in Slaves : SessionLost(s)
    BY <1>2, Zenon
  <2> QED
    BY <2>1, EndType, Zenon DEF SessionLost, TypeOK, master
<1>3. CASE CalmDown
  BY <1>3, Zenon DEF CalmDown, TypeOK, master, stream, snapshot, slave
<1> QED
  BY <1>1, <1>2, <1>3, Zenon

\* The log only grows.
LEMMA LogGrows ==
  ASSUME TypeOK, [Next]_vars
  PROVE  Len(log) \in Nat /\ Len(log') \in Nat /\ Len(log) <= Len(log')
<1>0. log \in Seq(Records) /\ Len(log) \in Nat
  BY DEF TypeOK
<1>1. ASSUME NEW p \in Publishers, AppendRecord(p) PROVE Len(log') = Len(log) + 1
  BY <1>0, <1>1 DEF AppendRecord
<1>2. ASSUME NEW p \in Publishers, CommitRecord(p) PROVE Len(log') = Len(log)
  <2> DEFINE shown == [log[pub[p].id] EXCEPT !.vis = TRUE]
  <2>1. log' = [log EXCEPT ![pub[p].id] = shown]
    BY <1>2, Zenon DEF CommitRecord
  <2> HIDE DEF shown
  <2> QED
    BY <1>0, <2>1
<1>3. CASE \E p \in Publishers : AppendRecord(p) \/ CommitRecord(p)
  BY <1>0, <1>1, <1>2, <1>3
<1>4. CASE ~\E p \in Publishers : AppendRecord(p) \/ CommitRecord(p)
  <2>1. log' = log
    BY <1>4, ServingChangesNoRow, PublishingChangesNoRow, WritingChangesNoLog, Zenon
       DEF Next, vars
  <2> QED
    BY <1>0, <2>1
<1> QED
  BY <1>3, <1>4, Zenon

\* A step either leaves the snapshot handlers alone, or is one of these.
LEMMA HandlerSteps ==
  ASSUME [Next]_vars
  PROVE  \/ UNCHANGED srv
         \/ srv' = [s \in Slaves |-> IdleHandler]
         \/ \E s \in Slaves :
              \/ ListRecords(s)
              \/ ReadRow(s)
              \/ srv' = [srv EXCEPT ![s] = IdleHandler]
              \/ srv' = [srv EXCEPT ![s] = Requested(cur[s])]
              \/ srv' = [srv EXCEPT ![s] = Requested(mcur[s])]
<1>1. CASE UNCHANGED vars
  BY <1>1, Zenon DEF vars
<1>2. CASE Write
  BY <1>2, Zenon DEF Write, snapshot, ApplyPlan, BridgeSync, CertificateIssued,
              PutResource, DeleteResource
<1>3. CASE \E p \in Publishers : Publish(p) \/ PublishFails(p)
  BY <1>3, Zenon DEF Publish, snapshot, TakeJob, AppendRecord, CommitRecord, Boardcast,
              PublishFails
<1>4. CASE MasterCrash
  BY <1>4, Zenon DEF MasterCrash
<1>5. ASSUME NEW s \in Slaves, Serve(s) \/ Follow(s) \/ SessionLost(s)
      PROVE  \/ UNCHANGED srv
             \/ ListRecords(s)
             \/ ReadRow(s)
             \/ srv' = [srv EXCEPT ![s] = IdleHandler]
             \/ srv' = [srv EXCEPT ![s] = Requested(cur[s])]
             \/ srv' = [srv EXCEPT ![s] = Requested(mcur[s])]
  <2>1. CASE Serve(s)
    BY <2>1, Zenon DEF Serve, Register, Forward, SendLast, snapshot
  <2>2. CASE OpenSession(s) \/ ApplyChunk(s) \/ SessionLost(s)
    BY <2>2, Zenon DEF OpenSession, ApplyChunk, SessionLost, EndSession
  <2>3. CASE RecvNotice(s)
    BY <2>3, Zenon DEF RecvNotice, RepairGap, ApplyNotice, EndSession
  <2> QED
    BY <1>5, <2>1, <2>2, <2>3, Zenon DEF Follow
<1> QED
  BY <1>1, <1>2, <1>3, <1>4, <1>5, Zenon DEF Next

\* A handler only ever has records of the log left to read.
LEMMA TodoStep ==
  ASSUME TypeOK, TodoListed, [Next]_vars
  PROVE  TodoListed'
<1>0. srv \in [Slaves -> Handlers]
  BY Zenon DEF TypeOK
<1>1. Len(log) \in Nat /\ Len(log') \in Nat /\ Len(log) <= Len(log')
  BY LogGrows, Zenon
<1>2. \A t \in Slaves : srv[t].todo \subseteq 1 .. Len(log')
  BY <1>1 DEF TodoListed
<1>3. IdleHandler.todo = {} /\ \A after : Requested(after).todo = {}
  BY Zenon DEF IdleHandler, Requested
<1>4. ASSUME NEW s \in Slaves, ListRecords(s) PROVE TodoListed'
  <2> DEFINE todo == {i \in 1 .. Len(log) : i > srv[s].last /\ log[i].vis}
  <2>1. srv' = [srv EXCEPT ![s].st = "read", ![s].todo = todo, ![s].upto = Len(log)]
    BY <1>4, Zenon DEF ListRecords
  <2>2. todo \subseteq 1 .. Len(log')
    BY <1>1
  <2> HIDE DEF todo
  <2>3. srv'[s].todo = todo /\ \A t \in Slaves \ {s} : srv'[t] = srv[t]
    BY <1>0, <2>1, Zenon DEF Handlers
  <2> QED
    BY <1>2, <2>2, <2>3, Zenon DEF TodoListed
<1>5. ASSUME NEW s \in Slaves, ReadRow(s) PROVE TodoListed'
  <2>1. PICK i \in srv[s].todo :
          \E found \in Found(i) : Advance(s, WithRow(srv[s], i, found))
    BY <1>5, Zenon DEF ReadRow
  <2>2. PICK found : Advance(s, WithRow(srv[s], i, found))
    BY <2>1, Zenon
  <2>3. srv[s] \in Handlers
    BY <1>0, Zenon
  <2> DEFINE h == WithRow(srv[s], i, found)
  <2>4. h.todo = srv[s].todo \ {i} /\ NextChunk(h).todo = h.todo
    BY <2>3, Zenon DEF WithRow, NextChunk, Handlers
  <2>5. Advance(s, h)
    BY <2>2, Zenon
  <2> HIDE DEF h
  <2>6. srv'[s].todo = srv[s].todo \ {i} /\ \A t \in Slaves \ {s} : srv'[t] = srv[t]
    BY <1>0, <2>4, <2>5, Zenon DEF Advance
  <2> QED
    BY <1>2, <2>6, Zenon DEF TodoListed
<1>6. CASE srv' = [s \in Slaves |-> IdleHandler]
  BY <1>3, <1>6, Zenon DEF TodoListed
<1>7. CASE UNCHANGED srv
  BY <1>2, <1>7, Zenon DEF TodoListed
<1>8. ASSUME NEW s \in Slaves, NEW h, h.todo = {}, srv' = [srv EXCEPT ![s] = h]
      PROVE  TodoListed'
  BY <1>0, <1>2, <1>8, Zenon DEF TodoListed
<1> QED
  BY <1>3, <1>4, <1>5, <1>6, <1>7, <1>8, HandlerSteps, Zenon

\* Every state of the system has the types TypeOK gives it, whatever the
\* constants are: in particular a handler never indexes the log outside it.
THEOREM TypeCorrect == Spec => []TypeOK
<1> DEFINE Inv == TypeOK /\ TodoListed
<1>1. Init => Inv
  <2>1. Init => TodoListed
    BY DEF Init, TodoListed, IdleHandler
  <2> QED
    BY <2>1, TypeInit, Zenon
<1>2. Inv /\ [Next]_vars => Inv'
  <2> SUFFICES ASSUME TypeOK, TodoListed, [Next]_vars PROVE Inv'
    BY Zenon
  <2>1. TodoListed'
    BY TodoStep, Zenon
  <2>2. TypeOK'
    <3>1. CASE UNCHANGED vars
      BY <3>1, Zenon DEF vars, TypeOK
    <3>2. CASE Next
      BY <3>2, TypeWrite, TypePublish, TypeServe, TypeFollow, TypeFaults, Zenon DEF Next
    <3> QED
      BY <3>1, <3>2, Zenon
  <2> QED
    BY <2>1, <2>2, Zenon
<1> QED
  BY <1>1, <1>2, PTL DEF Spec

\* A slave's durable cursor, and the position it has caught up with, never
\* move back, whatever fails: ApplySnapshot and ApplyChangelog only write a
\* larger id, and no restart resets sync_state.
THEOREM CursorMonotone == Spec => CursorNeverMovesBack
<1> DEFINE A == \A s \in Slaves : cur'[s] >= cur[s] /\ synced'[s] >= synced[s]
<1>1. TypeOK /\ [Next]_vars => [A]_vars
  <2> SUFFICES ASSUME TypeOK, Next PROVE A
    BY Zenon
  <2>0. cur \in [Slaves -> Nat] /\ synced \in [Slaves -> Nat]
    BY Zenon DEF TypeOK
  <2>1. ASSUME NEW s \in Slaves, ApplyChunk(s) PROVE A
    <3> DEFINE c == Head(snap[s])
    <3>1. c.id \in Nat
      BY <2>1, HeadChunk, Zenon DEF ApplyChunk
    <3>2. \/ cur' = [cur EXCEPT ![s] = MaxOf(cur[s], c.id)]
          \/ cur' = [cur EXCEPT ![s] = cur[s]]
      BY <2>1, Zenon DEF ApplyChunk
    <3>3. synced' = [synced EXCEPT ![s] = MaxOf(synced[s], c.id)]
      BY <2>1, Zenon DEF ApplyChunk
    <3> QED
      BY <2>0, <3>1, <3>2, <3>3 DEF MaxOf
  <2>2. ASSUME NEW s \in Slaves, RecvNotice(s) PROVE A
    <3> DEFINE n == Head(net[s])
    <3>1. n.id \in Nat
      BY <2>2, HeadNotice, Zenon DEF RecvNotice
    <3>2. CASE UNCHANGED <<cur, synced>>
      BY <2>0, <3>2
    <3>3. CASE ApplyNotice(s, n) /\ ~(cur[s] + 1 < n.id)
      <4>1. \/ cur' = [cur EXCEPT ![s] = n.id] /\ cur[s] < n.id
            \/ cur' = [cur EXCEPT ![s] = cur[s]]
        BY <3>3, Zenon DEF ApplyNotice
      <4>2. synced' = [synced EXCEPT ![s] = MaxOf(synced[s], n.id)]
        BY <3>3, Zenon DEF ApplyNotice
      <4> QED
        BY <2>0, <3>1, <4>1, <4>2 DEF MaxOf
    <3> QED
      BY <2>2, <3>2, <3>3, Zenon DEF RecvNotice, ApplyNotice
  <2>3. CASE UNCHANGED <<cur, synced>>
    BY <2>0, <2>3
  <2> QED
    BY <2>1, <2>2, <2>3
   , Zenon DEF Next, slave, Write, ApplyPlan, BridgeSync, CertificateIssued, PutResource,
        DeleteResource, Publish, TakeJob, AppendRecord, CommitRecord, Boardcast,
        PublishFails, Serve, Register, Forward, ListRecords, ReadRow, SendLast,
        Follow, OpenSession, SessionLost, MasterCrash
<1> QED
  BY <1>1, TypeCorrect, PTL DEF Spec, CursorNeverMovesBack

=============================================================================
