----------------------- MODULE ReplicationServeProofs -----------------------
(***************************************************************************)
(* What the invariant says of one part of the system stays true while the  *)
(* other parts move: the log only grows and rows only get newer, so        *)
(* records, publications, notices and a slave that stands still keep what  *)
(* they have.                                                              *)
(***************************************************************************)
EXTENDS ReplicationProofs

\* The facts about types that arithmetic on the log and the rows needs.
LEMMA Basics ==
  ASSUME TypeOK
  PROVE  /\ Len(log) \in Nat
         /\ \A i \in 1 .. Len(log) : log[i].key \in Keys /\ log[i].ver \in Nat
         /\ \A k \in Keys : row[k].ver \in Nat /\ row[k].gone \in Nat
<1>1. log \in Seq(Records) /\ row \in [Keys -> Rows]
  BY Zenon DEF TypeOK
<1>2. \A i \in 1 .. Len(log) : log[i] \in Records
  BY <1>1
<1>3. \A i \in 1 .. Len(log) : log[i].key \in Keys /\ log[i].ver \in Nat
  BY <1>2, Zenon DEF Records
<1>4. \A k \in Keys : row[k].ver \in Nat /\ row[k].gone \in Nat
  BY <1>1, Zenon DEF Rows
<1> QED
  BY <1>1, <1>3, <1>4

\* What every step of a tame system may do to the log and to the rows.
Grows ==
  /\ Len(log) <= Len(log')
  /\ \A i \in 1 .. Len(log) : log'[i] = log[i]
  /\ \A k \in Keys : /\ row[k].ver <= row'[k].ver
                     /\ row[k].gone <= row'[k].gone
                     /\ row'[k].live \/ row[k].ver < row'[k].gone
                        \/ row'[k] = row[k]

\* A row stays, is upserted or is deleted.
LEMMA RowSteps ==
  ASSUME TypeOK, [Next]_vars, NEW k \in Keys
  PROVE  row'[k] = row[k] \/ row'[k] = Upserted(row[k]) \/ row'[k] = Deleted(row[k])
<1>0. row \in [Keys -> Rows]
  BY Zenon DEF TypeOK
<1>1. CASE Write
  <2>1. ASSUME NEW p, NEW h, NEW ups, NEW dels, ApplyPlan(p, h, ups, dels)
        PROVE  row'[k] = row[k] \/ row'[k] = Upserted(row[k]) \/ row'[k] = Deleted(row[k])
    BY <2>1, Zenon DEF ApplyPlan
  <2>2. ASSUME NEW p, NEW ups, NEW dels, BridgeSync(p, ups, dels)
        PROVE  row'[k] = row[k] \/ row'[k] = Upserted(row[k]) \/ row'[k] = Deleted(row[k])
    BY <2>2, Zenon DEF BridgeSync
  <2>3. ASSUME NEW p, NEW h \in Hosts, CertificateIssued(p, h)
        PROVE  row'[k] = row[k] \/ row'[k] = Upserted(row[k]) \/ row'[k] = Deleted(row[k])
    BY <1>0, <2>3, Zenon DEF CertificateIssued, Keys
  <2>4. ASSUME NEW l \in Keys, PutResource(l) \/ DeleteResource(l)
        PROVE  row'[k] = row[k] \/ row'[k] = Upserted(row[k]) \/ row'[k] = Deleted(row[k])
    BY <1>0, <2>4, Zenon DEF PutResource, DeleteResource
  <2> QED
    BY <1>1, <2>1, <2>2, <2>3, <2>4, Zenon DEF Write
<1>2. CASE ~Write
  BY <1>2, ServingChangesNoRow, PublishingChangesNoRow, Zenon DEF Next, vars
<1> QED
  BY <1>1, <1>2, Zenon

\* A tame system appends to the log and never writes to what is in it.
LEMMA LogSteps ==
  ASSUME [Next]_vars, PubInv
  PROVE  log' = log \/ \E p \in Publishers : AppendRecord(p)
<1>1. ASSUME NEW p \in Publishers PROVE ~CommitRecord(p)
  BY Zenon DEF CommitRecord, PubInv
<1> QED
  BY <1>1, ServingChangesNoRow, PublishingChangesNoRow, WritingChangesNoLog, Zenon
     DEF Next, vars

\* Every step of a tame system is one that Grows describes.
LEMMA GrowsStep ==
  ASSUME TypeOK, RowInv, PubInv, [Next]_vars
  PROVE  Grows /\ RowInv'
<1>1. row \in [Keys -> Rows] /\ log \in Seq(Records)
  BY Zenon DEF TypeOK
<1>2. ASSUME NEW k \in Keys
      PROVE  /\ row[k].ver <= row'[k].ver
             /\ row[k].gone <= row'[k].gone
             /\ row'[k].live \/ row[k].ver < row'[k].gone \/ row'[k] = row[k]
             /\ row'[k].gone <= row'[k].ver
             /\ row'[k].live => row'[k].ver > 0
  <2>1. /\ row[k].ver \in Nat
        /\ row[k].gone \in Nat
    BY Basics, Zenon
  <2>5. row[k].gone <= row[k].ver /\ (row[k].live => row[k].ver > 0)
    BY Zenon DEF RowInv
  <2>2. CASE row'[k] = row[k]
    BY <2>1, <2>2, <2>5
  <2>3. CASE row'[k] = Upserted(row[k])
    BY <2>1, <2>3, <2>5 DEF Upserted
  <2>4. CASE row'[k] = Deleted(row[k])
    BY <2>1, <2>4, <2>5 DEF Deleted
  <2> QED
    BY <2>2, <2>3, <2>4, RowSteps, Zenon
<1>3. Len(log) <= Len(log') /\ \A i \in 1 .. Len(log) : log'[i] = log[i]
  <2>1. CASE log' = log
    BY <1>1, <2>1
  <2>2. CASE \E p \in Publishers : AppendRecord(p)
    <3>1. PICK r : log' = Append(log, r)
      BY <2>2, Zenon DEF AppendRecord
    <3> QED
      BY <1>1, <3>1
  <2> QED
    BY <2>1, <2>2, LogSteps, Zenon
<1> QED
  BY <1>2, <1>3, Zenon DEF Grows, RowInv

\* What a row once was it once was; what is fresh stays so.
LEMMA Stays ==
  ASSUME TypeOK, TypeOK', Grows
  PROVE  /\ \A k \in Keys, v \in Nat : Once(v, k) =>
              0 < v /\ v <= row'[k].ver /\ (row'[k].live \/ v < row'[k].gone)
         /\ \A i \in 1 .. Len(log), k \in Keys, v \in Nat : Fresh(v, k, i) =>
              v >= log'[i].ver \/ row'[k].gone > log'[i].ver
<1>1. /\ \A i \in 1 .. Len(log) : log[i].ver \in Nat
      /\ \A k \in Keys : row[k].ver \in Nat /\ row[k].gone \in Nat
  BY Basics, Zenon
<1>2. \A k \in Keys : row'[k].ver \in Nat /\ row'[k].gone \in Nat
  <2>1. row' \in [Keys -> Rows]
    BY Zenon DEF TypeOK
  <2> QED
    BY <2>1, Zenon DEF Rows
<1>3. ASSUME NEW k \in Keys, NEW v \in Nat, Once(v, k)
      PROVE  0 < v /\ v <= row'[k].ver /\ (row'[k].live \/ v < row'[k].gone)
  BY <1>1, <1>2, <1>3 DEF Once, Grows
<1>4. ASSUME NEW i \in 1 .. Len(log), NEW k \in Keys, NEW v \in Nat, Fresh(v, k, i)
      PROVE  v >= log'[i].ver \/ row'[k].gone > log'[i].ver
  BY <1>1, <1>2, <1>4 DEF Fresh, Grows
<1> QED
  BY <1>3, <1>4, Zenon

\* What slave s and its handler hold does not change.
Same(s) ==
  /\ srv'[s] = srv[s]
  /\ snap'[s] = snap[s]
  /\ pc'[s] = pc[s]
  /\ cur'[s] = cur[s]
  /\ mcur'[s] = mcur[s]
  /\ cache'[s] = cache[s]
  /\ heard'[s] = heard[s]
  /\ synced'[s] = synced[s]

\* The types of what slave s holds.
LEMMA SlaveBasics ==
  ASSUME TypeOK, NEW s \in Slaves
  PROVE  /\ cur[s] \in Nat /\ mcur[s] \in Nat
         /\ heard[s] \in Nat /\ synced[s] \in Nat
         /\ cache[s] \in [Keys -> Nat]
         /\ srv[s] \in Handlers
         /\ srv[s].last \in Nat /\ srv[s].base \in Nat /\ srv[s].upto \in Nat
         /\ srv[s].items \in [Keys -> Nat]
         /\ snap[s] \in Seq(Chunks)
         /\ Len(snap[s]) \in Nat
         /\ \A n \in 1 .. Len(snap[s]) :
              /\ snap[s][n] \in Chunks
              /\ snap[s][n].id \in Nat
              /\ snap[s][n].base \in Nat
              /\ snap[s][n].upto \in Nat
              /\ snap[s][n].items \in [Keys -> Nat]
<1>1. /\ cur[s] \in Nat /\ mcur[s] \in Nat
      /\ heard[s] \in Nat /\ synced[s] \in Nat
      /\ cache[s] \in [Keys -> Nat]
      /\ srv[s] \in Handlers
      /\ snap[s] \in Seq(Chunks)
  BY Zenon DEF TypeOK
<1>2. /\ srv[s].last \in Nat /\ srv[s].base \in Nat /\ srv[s].upto \in Nat
      /\ srv[s].items \in [Keys -> Nat]
  BY <1>1, Zenon DEF Handlers
<1>3. Len(snap[s]) \in Nat /\ \A n \in 1 .. Len(snap[s]) : snap[s][n] \in Chunks
  BY <1>1
<1> QED
  BY <1>1, <1>2, <1>3, Zenon DEF Chunks

\* Items in flight stay as fresh as they are while slave s stays where it is.
LEMMA BatchStays ==
  ASSUME TypeOK, TypeOK', Grows, NEW s \in Slaves, Same(s),
         NEW f \in [Keys -> Nat], NEW base \in Nat, NEW last \in Nat, NEW upto \in Nat,
         BatchOK(s, f, base, last, upto)
  PROVE  BatchOK(s, f, base, last, upto)'
<1>1. /\ Len(log) \in Nat /\ Len(log') \in Nat /\ Len(log) <= Len(log')
      /\ \A i \in 1 .. Len(log) : log[i].key \in Keys
      /\ \A i \in 1 .. Len(log) : log'[i] = log[i]
  <2>1. log' \in Seq(Records)
    BY Zenon DEF TypeOK
  <2> QED
    BY <2>1, Basics DEF Grows
<1>2. \A i \in 1 .. Len(log), k \in Keys, v \in Nat : Fresh(v, k, i) =>
        v >= log'[i].ver \/ row'[k].gone > log'[i].ver
  BY Stays, Zenon
<1>3. base <= last /\ last <= upto /\ upto <= Len(log)
  BY Zenon DEF BatchOK
<1>4. synced'[s] <= upto /\ heard'[s] <= upto
  BY Zenon DEF BatchOK, Same
<1>5. ItemsFresh(f, base, last)'
  <2>1. ItemsFresh(f, base, last)
    BY Zenon DEF BatchOK
  <2> SUFFICES ASSUME NEW i \in (base + 1) .. last, log'[i].act = "upsert"
               PROVE  Fresh(f[log[i].key], log[i].key, i)'
    BY Zenon DEF ItemsFresh
  <2>2. i \in 1 .. Len(log)
    BY <1>1, <1>3
  <2> QED
    BY <1>1, <1>2, <2>1, <2>2, Zenon DEF ItemsFresh, Fresh
<1>6. ItemsNew(f, upto)'
  <2>1. ItemsNew(f, upto)
    BY Zenon DEF BatchOK
  <2> SUFFICES ASSUME NEW i \in 1 .. upto, log'[i].act = "upsert", f[log'[i].key] # 0
               PROVE  Fresh(f[log[i].key], log[i].key, i)'
    BY Zenon DEF ItemsNew
  <2>2. i \in 1 .. Len(log)
    BY <1>1, <1>3
  <2> QED
    BY <1>1, <1>2, <2>1, <2>2, Zenon DEF ItemsNew, Fresh
<1> QED
  BY <1>1, <1>3, <1>4, <1>5, <1>6 DEF BatchOK

\* What slave s holds stays right while it stays where it is.
LEMMA SlaveStays ==
  ASSUME TypeOK, TypeOK', Grows, NEW s \in Slaves, Same(s), SlaveInv(s)
  PROVE  SlaveInv(s)'
<1>1. ServeInv(s)'
  <2>1. CASE srv[s].st = "read"
    <3>1. BatchOK(s, srv[s].items, srv[s].base, srv[s].last, srv[s].upto)'
      BY <2>1, SlaveBasics, BatchStays, Zenon DEF Same, SlaveInv, ServeInv
    <3> QED
      BY <2>1, <3>1 DEF Same, SlaveInv, ServeInv, End
  <2>2. CASE srv[s].st # "read"
    BY <2>2, Zenon DEF Same, SlaveInv, ServeInv
  <2> QED
    BY <2>1, <2>2, Zenon

<1>2. ChunkInv(s)'
  <2>1. ChunkInv(s) /\ Same(s)
    BY Zenon DEF SlaveInv
  <2>2. ASSUME NEW n \in 1 .. Len(snap[s])
        PROVE  BatchOK(s, snap[s][n].items, snap[s][n].base, snap[s][n].id, snap[s][n].upto)'
    BY <2>1, SlaveBasics, BatchStays, Zenon DEF Same, ChunkInv
  <2>3. snap'[s] = snap[s] /\ srv'[s] = srv[s] /\ synced'[s] = synced[s]
    BY <2>1, Zenon DEF Same
  <2> SUFFICES ASSUME NEW n \in 1 .. Len(snap'[s])
               PROVE  /\ BatchOK(s, snap[s][n].items, snap[s][n].base, snap[s][n].id,
                                 snap[s][n].upto)'
                      /\ snap'[s][n].base <= (IF n = 1 THEN synced'[s]
                                              ELSE snap'[s][n - 1].id)
                      /\ snap'[s][n].last => /\ n = Len(snap'[s])
                                             /\ srv'[s].st = "idle"
                                             /\ snap'[s][n].id = snap'[s][n].upto
                      /\ \A m \in 1 .. Len(snap'[s]) : snap'[s][m].upto = snap'[s][n].upto
    BY Zenon DEF ChunkInv
  <2>4. n \in 1 .. Len(snap[s])
    BY <2>3, Zenon
  <2>5. /\ snap[s][n].base <= (IF n = 1 THEN synced[s] ELSE snap[s][n - 1].id)
        /\ snap[s][n].last => /\ n = Len(snap[s])
                              /\ srv[s].st = "idle"
                              /\ snap[s][n].id = snap[s][n].upto
        /\ \A m \in 1 .. Len(snap[s]) : snap[s][m].upto = snap[s][n].upto
    BY <2>1, <2>4, Zenon DEF ChunkInv
  <2> QED
    BY <2>2, <2>3, <2>4, <2>5, Zenon
<1>3. PosInv(s)'
  <2>0. PosInv(s)
    BY Zenon DEF SlaveInv
  <2>1. /\ Len(log) \in Nat /\ Len(log') \in Nat /\ Len(log) <= Len(log')
        /\ \A i \in 1 .. Len(log) : log[i].key \in Keys /\ log[i].ver \in Nat
        /\ \A i \in 1 .. Len(log) : log'[i] = log[i]
    <3>1. log' \in Seq(Records)
      BY Zenon DEF TypeOK
    <3> QED
      BY <3>1, Basics DEF Grows
  <2>2. /\ cur[s] \in Nat /\ synced[s] \in Nat /\ heard[s] \in Nat
        /\ cache[s] \in [Keys -> Nat]
        /\ cur[s] <= synced[s] /\ synced[s] <= Len(log) /\ heard[s] <= Len(log)
    BY <2>0, SlaveBasics, Zenon DEF PosInv
  <2>3. \A i \in (cur[s] + 1) .. synced[s] :
          log'[i].act = "upsert" => row'[log'[i].key].gone > log'[i].ver
    <3> SUFFICES ASSUME NEW i \in (cur[s] + 1) .. synced[s], log'[i].act = "upsert"
                 PROVE  row'[log'[i].key].gone > log'[i].ver
      BY Zenon
    <3>1. i \in 1 .. Len(log)
      BY <2>1, <2>2
    <3>2. row[log[i].key].gone > log[i].ver
      BY <2>0, <2>1, <3>1, Zenon DEF PosInv, Gone
    <3>3. row[log[i].key].gone \in Nat /\ row'[log[i].key].gone \in Nat
      <4>1. row \in [Keys -> Rows] /\ row' \in [Keys -> Rows]
        BY Zenon DEF TypeOK
      <4> QED
        BY <2>1, <3>1, <4>1, Zenon DEF Rows
    <3>4. row[log[i].key].gone <= row'[log[i].key].gone
      BY <2>1, <3>1, Zenon DEF Grows
    <3>5. log'[i] = log[i] /\ log[i].ver \in Nat
      BY <2>1, <3>1, Zenon
    <3> QED
      BY <3>2, <3>3, <3>4, <3>5
  <2>4. Covers(cache[s], synced[s])'
    <3>1. Covers(cache[s], synced[s])
      BY <2>0, Zenon DEF PosInv
    <3>2. \A i \in 1 .. Len(log), k \in Keys, v \in Nat : Fresh(v, k, i) =>
            v >= log'[i].ver \/ row'[k].gone > log'[i].ver
      BY Stays, Zenon
    <3>3. cache'[s] = cache[s] /\ synced'[s] = synced[s]
      BY Zenon DEF Same
    <3> SUFFICES ASSUME NEW i \in 1 .. synced'[s], LastOfKey(i, synced[s])',
                        log'[i].act = "upsert"
                 PROVE  Fresh(cache[s][log[i].key], log[i].key, i)'
      BY Zenon DEF Covers
    <3>4. i \in 1 .. Len(log) /\ i \in 1 .. synced[s]
      BY <2>1, <2>2, <3>3
    <3>5. LastOfKey(i, synced[s])
      <4>1. log[i].vis
        BY <2>1, <3>4, Zenon DEF LastOfKey
      <4>2. ASSUME NEW j \in (i + 1) .. synced[s], log[j].vis
            PROVE  log[j].key # log[i].key
        <5>1. j \in 1 .. Len(log) /\ j \in (i + 1) .. synced'[s]
          BY <2>1, <2>2, <3>3, <3>4
        <5> QED
          BY <2>1, <3>4, <4>2, <5>1, Zenon DEF LastOfKey
      <4> QED
        BY <3>4, <4>1, <4>2, Zenon DEF LastOfKey
    <3>6. Fresh(cache[s][log[i].key], log[i].key, i)
      BY <2>1, <3>1, <3>4, <3>5, Zenon DEF Covers
    <3> QED
      BY <2>1, <2>2, <3>2, <3>3, <3>4, <3>6, Zenon DEF Fresh
  <2>5. synced[s] <= Len(log') /\ heard[s] <= Len(log')
    BY <2>1, <2>2
  <2> QED
    BY <2>0, <2>2, <2>3, <2>4, <2>5, Zenon DEF PosInv, Same, Gone
<1> QED
  BY <1>1, <1>2, <1>3, Zenon DEF SlaveInv

\* The log of a tame system stays without holes.
LEMMA LogStays ==
  ASSUME Tame, TypeOK, TypeOK', LogInv, RowInv, PubInv, [Next]_vars
  PROVE  LogInv'
<1>0. log \in Seq(Records) /\ Grows
  BY GrowsStep, Zenon DEF TypeOK
<1>1. ASSUME NEW i \in 1 .. Len(log)
      PROVE  /\ log'[i].vis
             /\ log'[i].act = "upsert" => Once(log[i].ver, log[i].key)'
  <2>1. log'[i] = log[i] /\ log[i].key \in Keys /\ log[i].ver \in Nat
    BY <1>0, Basics, Zenon DEF Grows
  <2>2. log[i].vis /\ (log[i].act = "upsert" => Once(log[i].ver, log[i].key))
    BY Zenon DEF LogInv
  <2> QED
    BY <1>0, <2>1, <2>2, Stays, Zenon DEF Once
<1>2. CASE log' = log
  BY <1>1, <1>2, Zenon DEF LogInv
<1>3. CASE \E p \in Publishers : AppendRecord(p)
  <2>1. PICK p \in Publishers : AppendRecord(p)
    BY <1>3, Zenon
  <2> DEFINE r == [key |-> pub[p].key, act |-> pub[p].act, ver |-> pub[p].ver,
                   vis |-> Driver = "sqlite"]
  <2>2. log' = Append(log, r) /\ row' = row /\ pub[p].pc = "append"
    BY <2>1, Zenon DEF AppendRecord
  <2>3. Len(log') = Len(log) + 1 /\ log'[Len(log) + 1] = r /\ Len(log) \in Nat
    BY <1>0, <2>2
  <2>4. r.vis
    BY Zenon DEF Tame
  <2>5. r.act = "upsert" => Once(r.ver, r.key)
    BY <2>2, Zenon DEF PubInv
  <2>6. r.act = "upsert" => /\ 0 < r.ver
                            /\ r.ver <= row'[r.key].ver
                            /\ row'[r.key].live \/ r.ver < row'[r.key].gone
    BY <2>2, <2>5, Zenon DEF Once
  <2> HIDE DEF r
  <2> SUFFICES ASSUME NEW i \in 1 .. Len(log')
               PROVE  /\ log'[i].vis
                      /\ log'[i].act = "upsert" => Once(log[i].ver, log[i].key)'
    BY Zenon DEF LogInv
  <2>7. CASE i \in 1 .. Len(log)
    BY <1>1, <2>7, Zenon
  <2>8. CASE i = Len(log) + 1
    BY <2>3, <2>4, <2>6, <2>8, Zenon DEF Once
  <2> QED
    BY <2>3, <2>7, <2>8
<1> QED
  BY <1>2, <1>3, LogSteps, Zenon

\* A notice that says what the log says goes on to do so.
LEMMA LoggedStays ==
  ASSUME TypeOK, TypeOK', Grows, NEW n, Logged(n)
  PROVE  Logged(n)'
<1>1. Len(log) \in Nat /\ Len(log') \in Nat
  BY DEF TypeOK
<1> QED
  BY <1>1 DEF Logged, Grows

\* What a publisher does in a step.
LEMMA PubSteps ==
  ASSUME TypeOK, [Next]_vars, NEW p \in Publishers
  PROVE  \/ /\ pub'[p].pc = pub[p].pc
            /\ pub'[p].key = pub[p].key
            /\ pub'[p].act = pub[p].act
            /\ pub'[p].ver = pub[p].ver
            /\ pub'[p].id = pub[p].id
         \/ pub'[p].pc = "idle"
         \/ TakeJob(p)
         \/ AppendRecord(p)
         \/ CommitRecord(p)
<1>0. pub \in [Publishers -> Pubs]
  BY Zenon DEF TypeOK
<1>1. CASE Write
  <2>1. UNCHANGED pub \/ \E q \in Publishers : \E jobs : pub' = [pub EXCEPT ![q].todo = jobs]
    BY <1>1, Zenon DEF Write, ApplyPlan, BridgeSync, CertificateIssued, PutResource,
                DeleteResource
  <2> QED
    BY <1>0, <2>1 DEF Pubs
<1>2. ASSUME NEW q \in Publishers, Boardcast(q) \/ PublishFails(q)
      PROVE  pub'[p] = pub[p] \/ pub'[p].pc = "idle"
  BY <1>0, <1>2 DEF Boardcast, PublishFails, IdlePub
<1>3. ASSUME NEW q \in Publishers, TakeJob(q) \/ AppendRecord(q) \/ CommitRecord(q)
      PROVE  q = p \/ pub'[p] = pub[p]
  BY <1>0, <1>3, Zenon DEF TakeJob, AppendRecord, CommitRecord
<1>4. CASE MasterCrash
  BY <1>4, Zenon DEF MasterCrash, IdlePub
<1>5. CASE UNCHANGED vars \/ \E s \in Slaves : Serve(s) \/ Follow(s) \/ SessionLost(s)
  <2>1. ASSUME NEW s \in Slaves, Serve(s)
        PROVE  pub' = pub
    BY <2>1, Zenon DEF master, Serve, Register, Forward, ListRecords, ReadRow, SendLast
  <2>2. ASSUME NEW s \in Slaves, Follow(s) \/ SessionLost(s)
        PROVE  pub' = pub
    BY <2>2, Zenon DEF master, Follow, OpenSession, ApplyChunk, RecvNotice, SessionLost
  <2>3. pub' = pub
    BY <1>5, <2>1, <2>2, Zenon DEF vars
  <2> QED
    BY <2>3, Zenon
<1> QED
  BY <1>1, <1>2, <1>3, <1>4, <1>5, Zenon DEF Next, Publish

\* Publications in progress stay right.
LEMMA PubStays ==
  ASSUME Tame, TypeOK, TypeOK', LogInv, RowInv, PubInv, [Next]_vars
  PROVE  PubInv'
<1> SUFFICES ASSUME NEW p \in Publishers
             PROVE  /\ pub'[p].pc # "commit"
                    /\ pub'[p].pc = "append" /\ pub'[p].act = "upsert"
                         => Once(pub[p].ver, pub[p].key)'
                    /\ pub'[p].pc = "cast" => Logged(pub[p])'
  BY Zenon DEF PubInv
<1>0. Grows
  BY GrowsStep, Zenon
<1>1. /\ pub[p].pc # "commit"
      /\ pub[p].pc = "append" /\ pub[p].act = "upsert" => Once(pub[p].ver, pub[p].key)
      /\ pub[p].pc = "cast" => Logged(pub[p])
  BY Zenon DEF PubInv
<1>2. pub \in [Publishers -> Pubs] /\ log \in Seq(Records) /\ row \in [Keys -> Rows]
  BY Zenon DEF TypeOK
<1>3. pub[p].key \in Keys /\ pub[p].ver \in Nat
  BY <1>2, Zenon DEF Pubs
<1>4. CASE /\ pub'[p].pc = pub[p].pc
           /\ pub'[p].key = pub[p].key
           /\ pub'[p].act = pub[p].act
           /\ pub'[p].ver = pub[p].ver
           /\ pub'[p].id = pub[p].id
  <2>1. pub'[p].pc = "append" /\ pub'[p].act = "upsert"
          => Once(pub[p].ver, pub[p].key)'
    BY <1>0, <1>1, <1>3, <1>4, Stays, Zenon DEF Once
  <2>2. pub'[p].pc = "cast" => Logged(pub[p])'
    <3>1. Len(log) \in Nat /\ Len(log') \in Nat
      BY DEF TypeOK
    <3> SUFFICES ASSUME pub'[p].pc = "cast" PROVE Logged(pub[p])'
      BY Zenon
    <3>2. /\ pub[p].id \in 1 .. Len(log)
          /\ log[pub[p].id].key = pub[p].key
          /\ log[pub[p].id].act = pub[p].act
          /\ log[pub[p].id].ver = pub[p].ver
      BY <1>1, <1>4, Zenon DEF Logged
    <3>3. pub[p].id \in 1 .. Len(log') /\ log'[pub[p].id] = log[pub[p].id]
      <4>1. Len(log) <= Len(log') /\ \A i \in 1 .. Len(log) : log'[i] = log[i]
        BY <1>0, Zenon DEF Grows
      <4>2. pub[p].id \in 1 .. Len(log')
        BY <3>1, <3>2, <4>1, PlaceStays, Zenon
      <4> QED
        BY <3>2, <4>1, <4>2, Zenon
    <3> QED
      BY <1>4, <3>2, <3>3, Zenon DEF Logged
  <2> QED
    BY <1>1, <1>4, <2>1, <2>2, Zenon
<1>5. CASE pub'[p].pc = "idle"
  BY <1>5, Zenon
<1>6. CASE TakeJob(p)
  <2>1. PICK j \in pub[p].todo : pub' = [pub EXCEPT ![p] = Taken(pub[p], j)]
    BY <1>6, Zenon DEF TakeJob
  <2>2. pub[p] \in Pubs /\ j \in Jobs /\ pub[p].pc = "idle" /\ row' = row
    BY <1>2, <1>6, Zenon DEF Pubs, TakeJob
  <2>3. pub'[p] = Taken(pub[p], j)
    BY <1>2, <2>1, Zenon
  <2>4. j.key \in Keys
    BY <2>2, Zenon DEF Jobs
  <2>5. CASE j.act = "delete"
    <3>1. pub'[p].pc = "append" /\ pub'[p].act = "delete"
      BY <2>2, <2>3, <2>5, Zenon DEF Taken, Pubs
    <3> QED
      BY <3>1, Zenon
  <2>6. CASE j.act # "delete" /\ row[j.key].live
    <3>1. /\ pub'[p].pc = "append"
          /\ pub'[p].key = j.key
          /\ pub'[p].ver = row[j.key].ver
      BY <2>2, <2>3, <2>6, Zenon DEF Taken, Pubs
    <3>2. row[j.key].ver \in Nat /\ row[j.key].ver > 0
      BY <2>4, <2>6, Basics, Zenon DEF RowInv
    <3> QED
      BY <2>2, <2>6, <3>1, <3>2 DEF Once
  <2>7. CASE j.act # "delete" /\ ~row[j.key].live
    <3>1. pub'[p].pc = "idle"
      BY <2>2, <2>3, <2>7, Zenon DEF Taken, Pubs
    <3> QED
      BY <3>1, Zenon
  <2> QED
    BY <2>5, <2>6, <2>7, Zenon
<1>7. CASE AppendRecord(p)
  <2> DEFINE r == [key |-> pub[p].key, act |-> pub[p].act, ver |-> pub[p].ver,
                   vis |-> Driver = "sqlite"]
  <2>1. log' = Append(log, r)
    BY <1>7, Zenon DEF AppendRecord
  <2>2. pub' = [pub EXCEPT ![p].pc = "cast", ![p].id = Len(log) + 1]
    BY <1>7, Zenon DEF AppendRecord, Tame
  <2>3. /\ pub'[p].pc = "cast"
        /\ pub'[p].id = Len(log) + 1
        /\ pub'[p].key = r.key
        /\ pub'[p].act = r.act
        /\ pub'[p].ver = r.ver
    BY <1>2, <2>2, Zenon DEF Pubs
  <2> HIDE DEF r
  <2>4. Len(log') = Len(log) + 1 /\ Len(log) \in Nat /\ log'[Len(log) + 1] = r
    BY <1>2, <2>1
  <2> QED
    BY <2>3, <2>4 DEF Logged
<1> QED
  BY <1>1, <1>4, <1>5, <1>6, <1>7, PubSteps, Zenon DEF CommitRecord

\* A queue of notices that say what the log says, and the ways it changes.
LEMMA QueueStays ==
  ASSUME TypeOK, TypeOK', Grows, NEW q \in Seq(Notices), NoticeInv(q)
  PROVE  /\ \A i \in 1 .. Len(q) : Logged(q[i])'
         /\ q # <<>> => /\ \A i \in 1 .. Len(Tail(q)) : Logged(Tail(q)[i])'
                        /\ Logged(Head(q))'
         /\ \A n : Logged(n)' =>
              \A i \in 1 .. Len(Append(q, n)) : Logged(Append(q, n)[i])'
<1>1. \A i \in 1 .. Len(q) : Logged(q[i])'
  BY LoggedStays, Zenon DEF NoticeInv
<1>2. ASSUME q # <<>>
      PROVE  /\ \A i \in 1 .. Len(Tail(q)) : Logged(Tail(q)[i])'
             /\ Logged(Head(q))'
  <2>1. /\ Len(q) \in Nat \ {0}
        /\ Head(q) = q[1]
        /\ Len(Tail(q)) = Len(q) - 1
        /\ \A i \in 1 .. Len(Tail(q)) : Tail(q)[i] = q[i + 1] /\ i + 1 \in 1 .. Len(q)
    BY <1>2, HeadTailProperties
  <2> QED
    BY <1>1, <2>1
<1>3. ASSUME NEW n, Logged(n)'
      PROVE  \A i \in 1 .. Len(Append(q, n)) : Logged(Append(q, n)[i])'
  <2>1. /\ Len(q) \in Nat
        /\ Len(Append(q, n)) = Len(q) + 1
        /\ \A i \in 1 .. Len(q) : Append(q, n)[i] = q[i]
        /\ Append(q, n)[Len(q) + 1] = n
    OBVIOUS
  <2> QED
    BY <1>1, <1>3, <2>1
<1> QED
  BY <1>1, <1>2, <1>3, Zenon

\* What happens to the hub's channel for s in a step.
LEMMA HubSteps ==
  ASSUME TypeOK, [Next]_vars, NEW s \in Slaves
  PROVE  \/ hub'[s] = hub[s]
         \/ hub'[s] = <<>>
         \/ hub[s] # <<>> /\ hub'[s] = Tail(hub[s])
         \/ \E p \in Publishers :
              /\ pub[p].pc = "cast"
              /\ log' = log
              /\ hub'[s] = Append(hub[s], [id |-> pub[p].id, key |-> pub[p].key,
                                           act |-> pub[p].act, ver |-> pub[p].ver])
<1>0. hub \in [Slaves -> Seq(Notices)]
  BY Zenon DEF TypeOK
<1>1. CASE \E p \in Publishers : Boardcast(p)
  BY <1>1, Zenon DEF Boardcast
<1>2. ASSUME NEW t \in Slaves, Register(t) \/ Forward(t) \/ EndSession(t)
      PROVE  hub'[s] = hub[s] \/ hub'[s] = <<>>
             \/ (hub[s] # <<>> /\ hub'[s] = Tail(hub[s]))
  BY <1>0, <1>2, Zenon DEF Register, Forward, EndSession
<1>3. CASE MasterCrash
  BY <1>3, Zenon DEF MasterCrash
<1>4. CASE UNCHANGED hub
  BY <1>4, Zenon
<1>5. CASE \E t \in Slaves : RecvNotice(t)
  BY <1>2, <1>4, <1>5, Zenon DEF RecvNotice, ApplyNotice
<1> QED
  BY <1>1, <1>2, <1>3, <1>4, <1>5
 , Zenon DEF Next, vars, stream, Write, ApplyPlan, BridgeSync, CertificateIssued, PutResource,
      DeleteResource, Publish, TakeJob, AppendRecord, CommitRecord, PublishFails,
      Serve, ListRecords, ReadRow, SendLast, Follow, OpenSession, ApplyChunk, SessionLost

\* What happens to the stream to s in a step.
LEMMA NetSteps ==
  ASSUME TypeOK, [Next]_vars, NEW s \in Slaves
  PROVE  \/ net'[s] = net[s]
         \/ net'[s] = <<>>
         \/ net[s] # <<>> /\ net'[s] = Tail(net[s])
         \/ hub[s] # <<>> /\ net'[s] = Append(net[s], Head(hub[s]))
<1>0. net \in [Slaves -> Seq(Notices)]
  BY Zenon DEF TypeOK
<1>1. ASSUME NEW t \in Slaves, Forward(t) \/ EndSession(t)
      PROVE  net'[s] = net[s] \/ net'[s] = <<>>
             \/ (hub[s] # <<>> /\ net'[s] = Append(net[s], Head(hub[s])))
  BY <1>0, <1>1, Zenon DEF Forward, EndSession
<1>2. CASE MasterCrash
  BY <1>2, Zenon DEF MasterCrash
<1>3. CASE UNCHANGED net
  BY <1>3, Zenon
<1>4. CASE \E t \in Slaves : RecvNotice(t)
  <2>1. PICK t \in Slaves : RecvNotice(t)
    BY <1>4, Zenon
  <2>2. net[t] # <<>>
    BY <2>1, Zenon DEF RecvNotice
  <2>3. EndSession(t) \/ net' = [net EXCEPT ![t] = Tail(net[t])]
    BY <2>1, Zenon DEF RecvNotice, RepairGap, ApplyNotice
  <2> QED
    BY <1>0, <1>1, <2>2, <2>3, Zenon
<1> QED
  BY <1>1, <1>2, <1>3, <1>4
 , Zenon DEF Next, vars, stream, Write, ApplyPlan, BridgeSync, CertificateIssued, PutResource,
      DeleteResource, Publish, TakeJob, AppendRecord, CommitRecord, Boardcast,
      PublishFails, Serve, Register, ListRecords, ReadRow, SendLast, Follow,
      OpenSession, ApplyChunk, SessionLost

\* Notices in flight stay right.
LEMMA NoticesStay ==
  ASSUME TypeOK, TypeOK', Grows, PubInv, [Next]_vars, NEW s \in Slaves,
         NoticeInv(hub[s]), NoticeInv(net[s])
  PROVE  NoticeInv(hub[s])' /\ NoticeInv(net[s])'
<1>0. hub[s] \in Seq(Notices) /\ net[s] \in Seq(Notices)
  BY Zenon DEF TypeOK
<1>1. NoticeInv(hub[s])'
  <2>1. CASE \E p \in Publishers :
              /\ pub[p].pc = "cast"
              /\ log' = log
              /\ hub'[s] = Append(hub[s], [id |-> pub[p].id, key |-> pub[p].key,
                                           act |-> pub[p].act, ver |-> pub[p].ver])
    <3>1. PICK n : Logged(n) /\ hub'[s] = Append(hub[s], n)
      BY <2>1, Zenon DEF PubInv, Logged
    <3> QED
      BY <1>0, <3>1, QueueStays, LoggedStays, Zenon DEF NoticeInv
  <2>2. CASE hub'[s] = <<>>
    BY <2>2 DEF NoticeInv
  <2> QED
    BY <1>0, <2>1, <2>2, HubSteps, QueueStays, Zenon DEF NoticeInv
<1>2. NoticeInv(net[s])'
  <2>1. CASE net'[s] = <<>>
    BY <2>1 DEF NoticeInv
  <2> QED
    BY <1>0, <2>1, NetSteps, QueueStays, Zenon DEF NoticeInv
<1> QED
  BY <1>1, <1>2, Zenon

-----------------------------------------------------------------------------
(***************************************************************************)
(* The steps of the GetSnapshot handler (ListRecords, ReadRow, SendLast)   *)
(* preserve the invariant of the slave it serves.                          *)
(***************************************************************************)

\* Slave s loses its session and keeps what is durable.
Ended(s) ==
  /\ pc'[s] = "backoff"
  /\ snap'[s] = <<>>
  /\ srv'[s].st = "idle"
  /\ cur'[s] = cur[s]
  /\ cache'[s] = cache[s]
  /\ heard'[s] = heard[s]
  /\ synced'[s] = synced[s]
  /\ UNCHANGED <<row, log>>

\* What slave s and its handler do in a step.
LEMMA SlaveSteps ==
  ASSUME TypeOK, [Next]_vars, NEW s \in Slaves
  PROVE  \/ Same(s)
         \/ Ended(s)
         \/ ListRecords(s) \/ ReadRow(s) \/ SendLast(s)
         \/ OpenSession(s) \/ ApplyChunk(s) \/ RecvNotice(s)
<1>0. /\ srv \in [Slaves -> Handlers]
      /\ snap \in [Slaves -> Seq(Chunks)]
      /\ pc \in [Slaves -> {"backoff", "catchup", "recv"}]
      /\ cur \in [Slaves -> Nat]
      /\ mcur \in [Slaves -> Nat]
      /\ cache \in [Slaves -> [Keys -> Nat]]
      /\ heard \in [Slaves -> Nat]
      /\ synced \in [Slaves -> Nat]
  BY Zenon DEF TypeOK
<1>1. CASE MasterCrash
  BY <1>1, Zenon DEF MasterCrash, Ended, IdleHandler
<1>2. ASSUME NEW t \in Slaves, SessionLost(t) PROVE Same(s) \/ Ended(s)
  BY <1>0, <1>2, Zenon DEF SessionLost, EndSession, Same, Ended, IdleHandler, master
<1>3. CASE UNCHANGED <<snapshot, slave>>
  BY <1>3, Zenon DEF Same, snapshot, slave
<1>4. ASSUME NEW t \in Slaves, t # s,
             ListRecords(t) \/ ReadRow(t) \/ SendLast(t)
      PROVE  Same(s)
  <2>1. UNCHANGED slave
    BY <1>4, Zenon DEF ListRecords, ReadRow, SendLast
  <2>2. srv'[s] = srv[s] /\ snap'[s] = snap[s]
    BY <1>0, <1>4, Zenon DEF ListRecords, ReadRow, Advance, SendLast
  <2> QED
    BY <2>1, <2>2, Zenon DEF Same, slave
<1>5. ASSUME NEW t \in Slaves, t # s, OpenSession(t) \/ ApplyChunk(t)
      PROVE  Same(s)
  <2>1. CASE OpenSession(t)
    BY <1>0, <1>5, <2>1, Zenon DEF OpenSession, Same
  <2>2. CASE ApplyChunk(t)
    <3>1. /\ \E v : cache' = [cache EXCEPT ![t] = v]
          /\ \E v : cur' = [cur EXCEPT ![t] = v]
          /\ \E v : synced' = [synced EXCEPT ![t] = v]
          /\ UNCHANGED pc \/ \E v : pc' = [pc EXCEPT ![t] = v]
          /\ UNCHANGED mcur \/ \E v : mcur' = [mcur EXCEPT ![t] = v]
          /\ \E v : snap' = [snap EXCEPT ![t] = v]
          /\ UNCHANGED <<srv, heard>>
      BY <2>2, Zenon DEF ApplyChunk
    <3> QED
      BY <1>0, <1>5, <3>1, Zenon DEF Same
  <2> QED
    BY <1>5, <2>1, <2>2, Zenon
<1>6. ASSUME NEW t \in Slaves, t # s, RecvNotice(t)
      PROVE  Same(s)
  <2>1. /\ UNCHANGED cache \/ \E k, v : cache' = [cache EXCEPT ![t][k] = v]
        /\ UNCHANGED cur \/ \E v : cur' = [cur EXCEPT ![t] = v]
        /\ UNCHANGED synced \/ \E v : synced' = [synced EXCEPT ![t] = v]
    BY <1>6, Zenon DEF RecvNotice, ApplyNotice
  <2>2. /\ UNCHANGED pc \/ \E v : pc' = [pc EXCEPT ![t] = v]
        /\ UNCHANGED mcur \/ \E v : mcur' = [mcur EXCEPT ![t] = v]
        /\ \E v : heard' = [heard EXCEPT ![t] = v]
    BY <1>6, Zenon DEF RecvNotice, RepairGap, ApplyNotice, EndSession
  <2>3. /\ UNCHANGED snap \/ \E v : snap' = [snap EXCEPT ![t] = v]
        /\ UNCHANGED srv \/ \E v : srv' = [srv EXCEPT ![t] = v]
    BY <1>6, Zenon DEF RecvNotice, RepairGap, ApplyNotice, EndSession
  <2> QED
    BY <1>0, <1>6, <2>1, <2>2, <2>3, Zenon DEF Same
<1>7. CASE UNCHANGED vars \/ Write \/ \E p \in Publishers : Publish(p) \/ PublishFails(p)
  <2>1. UNCHANGED <<snapshot, slave>>
    BY <1>7, Zenon DEF vars, snapshot, slave, Write, ApplyPlan, BridgeSync, CertificateIssued,
       PutResource, DeleteResource, Publish, TakeJob, AppendRecord, CommitRecord,
       Boardcast, PublishFails
  <2> QED
    BY <1>3, <2>1, Zenon
<1>8. ASSUME NEW t \in Slaves, Register(t) \/ Forward(t) PROVE Same(s)
  <2>1. UNCHANGED <<snapshot, slave>>
    BY <1>8, Zenon DEF Register, Forward
  <2> QED
    BY <2>1, Zenon DEF Same, snapshot, slave
<1> QED
  BY <1>1, <1>2, <1>4, <1>5, <1>6, <1>7, <1>8, Zenon DEF Next, Serve, Follow

\* Where s is stays right when only its handler moves.
LEMMA PosStays ==
  ASSUME NEW s \in Slaves, PosInv(s), UNCHANGED <<row, log, slave>>, pc[s] = "catchup"
  PROVE  PosInv(s)'
BY Zenon DEF PosInv, Covers, LastOfKey, Fresh, Gone, slave

\* Without items nothing is too old.
LEMMA EmptyBatch ==
  ASSUME TypeOK, NEW s \in Slaves, NEW at \in Nat, NEW upto \in Nat,
         at <= upto, upto <= Len(log), synced[s] <= upto, heard[s] <= upto
  PROVE  BatchOK(s, NoItems, at, at, upto)
<1>1. ItemsFresh(NoItems, at, at)
  BY DEF ItemsFresh
<1>2. ItemsNew(NoItems, upto)
  <2>1. \A i \in 1 .. upto : log[i].key \in Keys
    BY Basics
  <2> QED
    BY <2>1, Zenon DEF ItemsNew, NoItems
<1> QED
  BY <1>1, <1>2 DEF BatchOK

\* A handler lists the log: what it has to read is all that the slave lacks.
LEMMA ListStep ==
  ASSUME TypeOK, TypeOK', LogInv, NEW s \in Slaves, SlaveInv(s), ListRecords(s)
  PROVE  SlaveInv(s)'
<1>0. PosInv(s) /\ ServeInv(s) /\ srv[s].st = "list" /\ UNCHANGED <<row, log, slave, snap>>
  BY Zenon DEF SlaveInv, ListRecords, master
<1>1. /\ snap[s] = <<>>
      /\ srv[s].items = NoItems
      /\ srv[s].base = srv[s].last
      /\ srv[s].last <= synced[s]
  BY <1>0, Zenon DEF ServeInv
<1>2. pc[s] = "catchup"
  BY <1>0, Zenon DEF PosInv
<1>3. srv \in [Slaves -> Handlers] /\ Len(log) \in Nat
  BY Basics, Zenon DEF TypeOK
<1>4. synced[s] \in Nat /\ srv[s].last \in Nat /\ heard[s] \in Nat
      /\ synced[s] <= Len(log) /\ heard[s] <= Len(log)
  BY <1>0, SlaveBasics, Zenon DEF PosInv
<1> DEFINE todo == {i \in 1 .. Len(log) : i > srv[s].last /\ log[i].vis}
<1>5. todo = (srv[s].last + 1) .. Len(log)
  BY <1>3, <1>4 DEF LogInv
<1>6. srv' = [srv EXCEPT ![s].st = "read", ![s].todo = todo, ![s].upto = Len(log)]
  BY Zenon DEF ListRecords
<1> HIDE DEF todo
<1>7. /\ srv'[s].st = "read"
      /\ srv'[s].todo = todo
      /\ srv'[s].upto = Len(log)
      /\ srv'[s].last = srv[s].last
      /\ srv'[s].base = srv[s].last
      /\ srv'[s].items = NoItems
  BY <1>1, <1>3, <1>6, Zenon DEF Handlers
<1>8. BatchOK(s, NoItems, srv[s].last, srv[s].last, Len(log))
  BY <1>1, <1>3, <1>4, EmptyBatch
<1>9. BatchOK(s, srv[s].items, srv[s].base, srv[s].last, srv[s].upto)'
  BY <1>0, <1>7, <1>8, Zenon DEF BatchOK, ItemsFresh, ItemsNew, Fresh, NoItems, slave
<1>10. End(s)' = synced[s]
  BY <1>0, <1>1, Zenon DEF End, slave
<1>11. ServeInv(s)'
  BY <1>0, <1>1, <1>4, <1>5, <1>7, <1>9, <1>10 DEF ServeInv
<1>12. ChunkInv(s)'
  BY <1>0, <1>1, NoChunks, Zenon
<1>13. PosInv(s)'
  BY <1>0, <1>2, PosStays, Zenon
<1> QED
  BY <1>11, <1>12, <1>13, Zenon DEF SlaveInv

\* Reading the next row gives items that have reached one more record.
LEMMA ReadBatch ==
  ASSUME TypeOK, LogInv, NEW s \in Slaves,
         NEW f \in [Keys -> Nat], NEW base \in Nat, NEW last \in Nat, NEW upto \in Nat,
         BatchOK(s, f, base, last, upto), last < upto,
         NEW k, k = log[last + 1].key,
         NEW g \in [Keys -> Nat], row[k].live => g = [f EXCEPT ![k] = row[k].ver],
         ~row[k].live => g = f
  PROVE  BatchOK(s, g, base, last + 1, upto)
<1>0. /\ base <= last /\ upto <= Len(log)
      /\ synced[s] <= upto /\ heard[s] <= upto
  BY Zenon DEF BatchOK
<1>1. /\ Len(log) \in Nat
      /\ \A j \in 1 .. Len(log) : log[j].key \in Keys /\ log[j].ver \in Nat
      /\ \A l \in Keys : row[l].ver \in Nat /\ row[l].gone \in Nat
  BY Basics, Zenon
<1>2. last + 1 \in 1 .. Len(log) /\ k \in Keys
  BY <1>0, <1>1
<1>3. \A j \in 1 .. Len(log) : log[j].act = "upsert" =>
        /\ log[j].ver <= row[log[j].key].ver
        /\ row[log[j].key].live \/ log[j].ver < row[log[j].key].gone
  BY Zenon DEF LogInv, Once
<1>6. ASSUME NEW j \in 1 .. Len(log), log[j].act = "upsert",
             log[j].key = k, row[k].live
      PROVE  Fresh(g[log[j].key], log[j].key, j)
  <2>1. g[k] = row[k].ver
    BY <1>2, <1>6, Zenon
  <2> QED
    BY <1>1, <1>3, <1>6, <2>1, Zenon DEF Fresh
<1>7. ASSUME NEW j \in 1 .. Len(log), ~(log[j].key = k /\ row[k].live)
      PROVE  g[log[j].key] = f[log[j].key]
  BY <1>1, <1>2, <1>7, Zenon
<1>8. ItemsFresh(g, base, last + 1)
  <2> SUFFICES ASSUME NEW j \in (base + 1) .. (last + 1), log[j].act = "upsert"
               PROVE  Fresh(g[log[j].key], log[j].key, j)
    BY Zenon DEF ItemsFresh
  <2>1. j \in 1 .. Len(log)
    BY <1>0, <1>1
  <2>2. CASE log[j].key = k /\ row[k].live
    BY <1>6, <2>1, <2>2, Zenon
  <2>3. CASE ~(log[j].key = k /\ row[k].live) /\ j # last + 1
    <3>1. j \in (base + 1) .. last
      BY <1>0, <2>3
    <3>2. Fresh(f[log[j].key], log[j].key, j)
      BY <3>1, Zenon DEF ItemsFresh, BatchOK
    <3> QED
      BY <1>7, <2>1, <2>3, <3>2, Zenon
  <2>4. CASE ~(log[j].key = k /\ row[k].live) /\ j = last + 1
    <3>1. log[j].ver < row[k].gone
      BY <1>2, <1>3, <2>4, Zenon
    <3> QED
      BY <1>1, <1>2, <2>4, <3>1, Zenon DEF Fresh
  <2> QED
    BY <2>2, <2>3, <2>4, Zenon
<1>9. ItemsNew(g, upto)
  <2> SUFFICES ASSUME NEW j \in 1 .. upto, log[j].act = "upsert", g[log[j].key] # 0
               PROVE  Fresh(g[log[j].key], log[j].key, j)
    BY Zenon DEF ItemsNew
  <2>1. j \in 1 .. Len(log)
    BY <1>0, <1>1, PlaceStays, Zenon
  <2>2. ItemsNew(f, upto)
    BY Zenon DEF BatchOK
  <2> QED
    BY <1>6, <1>7, <2>1, <2>2, Zenon DEF ItemsNew
<1>10. base <= last + 1 /\ last + 1 <= upto
  BY <1>0
<1> QED
  BY <1>0, <1>8, <1>9, <1>10, Zenon DEF BatchOK

\* The items of a batch are as they were when nothing but the handler moved.
LEMMA BatchSame ==
  ASSUME NEW s \in Slaves, NEW f, NEW base, NEW last, NEW upto,
         BatchOK(s, f, base, last, upto), UNCHANGED <<row, log, slave>>
  PROVE  BatchOK(s, f, base, last, upto)'
BY Zenon DEF BatchOK, ItemsFresh, ItemsNew, Fresh, slave

\* A handler reads the next row.  The handler after it, before a full chunk
\* is sent, is g.
LEMMA ReadNext ==
  ASSUME Tame, TypeOK, LogInv, NEW s \in Slaves, SlaveInv(s), ReadRow(s)
  PROVE  \E g \in Handlers :
           /\ Advance(s, g)
           /\ g.st = "read"
           /\ g.todo = (g.last + 1) .. g.upto
           /\ g.base = srv[s].base
           /\ g.upto = srv[s].upto
           /\ BatchOK(s, g.items, g.base, g.last, g.upto)
<1>0. /\ srv[s].st = "read"
      /\ BatchOK(s, srv[s].items, srv[s].base, srv[s].last, srv[s].upto)
      /\ srv[s].todo = (srv[s].last + 1) .. srv[s].upto
  BY Zenon DEF SlaveInv, ServeInv, ReadRow
<1>1. PICK i \in srv[s].todo : /\ \A j \in srv[s].todo : i <= j
                               /\ \E found \in Found(i) :
                                    Advance(s, WithRow(srv[s], i, found))
  BY Zenon DEF ReadRow
<1>2. /\ srv[s].last \in Nat /\ srv[s].upto \in Nat /\ srv[s].base \in Nat
      /\ srv[s].items \in [Keys -> Nat]
      /\ srv[s] \in Handlers
  BY SlaveBasics, Zenon
<1>3. i = srv[s].last + 1 /\ i <= srv[s].upto
  <2>1. \A j \in srv[s].todo : i <= j
    BY <1>1, Zenon
  <2>2. i \in (srv[s].last + 1) .. srv[s].upto
    BY <1>0, Zenon
  <2>3. srv[s].last + 1 \in srv[s].todo
    BY <1>0, <1>2, <2>2
  <2>4. i <= srv[s].last + 1
    BY <2>1, <2>3, Zenon
  <2> QED
    BY <1>2, <2>2, <2>4
<1> DEFINE live == row[log[i].key].live
           g == WithRow(srv[s], i, live)
<1>4. Advance(s, g)
  <2>1. Found(i) = {live}
    BY Zenon DEF Found, Fault, Tame
  <2> QED
    BY <1>1, <2>1, Zenon
<1>5. i \in 1 .. Len(log)
  BY <1>0, <1>2, <1>3, Basics DEF BatchOK
<1>6. g \in Handlers
  <2>1. row \in [Keys -> Rows] /\ log \in Seq(Records)
    BY Zenon DEF TypeOK
  <2> QED
    BY <1>2, <1>5, <2>1, ReadType, Zenon
<1>7. /\ g.st = srv[s].st
      /\ g.todo = srv[s].todo \ {i}
      /\ g.last = i
      /\ g.base = srv[s].base
      /\ g.upto = srv[s].upto
      /\ live => g.items = [srv[s].items EXCEPT ![log[i].key] = row[log[i].key].ver]
      /\ ~live => g.items = srv[s].items
  <2>1. srv[s] \in Handlers
    BY <1>2, Zenon
  <2>2. CASE live
    <3>1. g = [[srv[s] EXCEPT !.todo = @ \ {i}, !.last = i] EXCEPT
                 !.items = [@ EXCEPT ![log[i].key] = row[log[i].key].ver], !.count = @ + 1]
      BY <2>2, Zenon DEF WithRow
    <3> HIDE DEF g
    <3> QED
      BY <2>1, <2>2, <3>1, Zenon DEF Handlers
  <2>3. CASE ~live
    <3>1. g = [srv[s] EXCEPT !.todo = @ \ {i}, !.last = i]
      BY <2>3, Zenon DEF WithRow
    <3> HIDE DEF g
    <3> QED
      BY <2>1, <2>3, <3>1, Zenon DEF Handlers
  <2> QED
    BY <2>2, <2>3, Zenon
<1> HIDE DEF g
<1>8. BatchOK(s, g.items, g.base, g.last, g.upto)
  <2>1. g.items \in [Keys -> Nat]
    BY <1>6, Zenon DEF Handlers
  <2>2. BatchOK(s, g.items, srv[s].base, srv[s].last + 1, srv[s].upto)
    <3>1. srv[s].last < srv[s].upto
      BY <1>2, <1>3
    <3> DEFINE k == log[srv[s].last + 1].key
    <3>2. /\ row[k].live => g.items = [srv[s].items EXCEPT ![k] = row[k].ver]
          /\ ~row[k].live => g.items = srv[s].items
      BY <1>3, <1>7, Zenon
    <3>3. k = log[srv[s].last + 1].key
      OBVIOUS
    <3> HIDE DEF k
    <3>4. PICK f \in [Keys -> Nat], h \in [Keys -> Nat],
               base \in Nat, last \in Nat, upto \in Nat :
            /\ f = srv[s].items /\ h = g.items
            /\ base = srv[s].base /\ last = srv[s].last /\ upto = srv[s].upto
      BY <1>2, <2>1, Zenon
    <3>5. /\ BatchOK(s, f, base, last, upto) /\ last < upto /\ k = log[last + 1].key
          /\ row[k].live => h = [f EXCEPT ![k] = row[k].ver]
          /\ ~row[k].live => h = f
      BY <1>0, <3>1, <3>2, <3>3, <3>4, Zenon
    <3>6. BatchOK(s, h, base, last + 1, upto)
      BY <3>5, ReadBatch, Zenon
    <3> QED
      BY <3>4, <3>6, Zenon
  <2> QED
    BY <1>3, <1>7, <2>2, Zenon
<1>9. g.todo = (g.last + 1) .. g.upto
  <2>1. ((srv[s].last + 1) .. srv[s].upto) \ {srv[s].last + 1}
          = (srv[s].last + 1 + 1) .. srv[s].upto
    BY <1>2
  <2>2. g.todo = srv[s].todo \ {i} /\ g.last = i /\ g.upto = srv[s].upto
    BY <1>7, Zenon
  <2> QED
    BY <1>0, <1>3, <2>1, <2>2, Zenon
<1> QED
  BY <1>0, <1>4, <1>6, <1>7, <1>8, <1>9, Zenon

\* A chunk is added to those in flight to s: it starts where they end.
LEMMA AddChunk ==
  ASSUME TypeOK, NEW s \in Slaves, ChunkInv(s), UNCHANGED <<row, log, slave>>,
         \A n \in 1 .. Len(snap[s]) : ~snap[s][n].last,
         NEW c \in Chunks, snap'[s] = Append(snap[s], c),
         BatchOK(s, c.items, c.base, c.id, c.upto),
         c.base <= End(s),
         c.last => srv'[s].st = "idle" /\ c.id = c.upto,
         \A n \in 1 .. Len(snap[s]) : snap[s][n].upto = c.upto
  PROVE  ChunkInv(s)' /\ End(s)' = c.id
<1>0. snap[s] \in Seq(Chunks) /\ Len(snap[s]) \in Nat
  BY SlaveBasics, Zenon
<1>1. /\ Len(snap'[s]) = Len(snap[s]) + 1
      /\ snap'[s][Len(snap[s]) + 1] = c
      /\ \A n \in 1 .. Len(snap[s]) : snap'[s][n] = snap[s][n]
  BY <1>0
<1>2. snap'[s] # <<>> /\ End(s)' = c.id
  BY <1>0, <1>1 DEF End
<1>3. \A n, m \in 1 .. Len(snap'[s]) : snap'[s][n].upto = c.upto /\ snap'[s][m].upto = c.upto
  BY <1>0, <1>1
<1>4. ASSUME NEW n \in 1 .. Len(snap[s])
      PROVE  /\ BatchOK(s, snap[s][n].items, snap[s][n].base, snap[s][n].id, snap[s][n].upto)'
             /\ snap'[s][n].base <= (IF n = 1 THEN synced'[s] ELSE snap'[s][n - 1].id)
             /\ ~snap'[s][n].last
  <2>1. /\ BatchOK(s, snap[s][n].items, snap[s][n].base, snap[s][n].id, snap[s][n].upto)
        /\ snap[s][n].base <= (IF n = 1 THEN synced[s] ELSE snap[s][n - 1].id)
    BY Zenon DEF ChunkInv
  <2>2. n = 1 \/ n - 1 \in 1 .. Len(snap[s])
    BY <1>0
  <2>3. snap'[s][n].base <= (IF n = 1 THEN synced'[s] ELSE snap'[s][n - 1].id)
    BY <1>1, <2>1, <2>2, Zenon DEF slave
  <2> QED
    BY <1>1, <2>1, <2>3, BatchSame, Zenon
<1>5. /\ BatchOK(s, c.items, c.base, c.id, c.upto)'
      /\ c.base <= (IF Len(snap[s]) + 1 = 1 THEN synced'[s]
                    ELSE snap'[s][Len(snap[s]) + 1 - 1].id)
  <2>1. CASE snap[s] = <<>>
    <3>1. BatchOK(s, c.items, c.base, c.id, c.upto)'
      BY BatchSame, Zenon
    <3>2. c.base <= synced'[s]
      BY <2>1, Zenon DEF End, slave
    <3>3. Len(snap[s]) + 1 = 1
      BY <2>1
    <3> QED
      BY <3>1, <3>2, <3>3, Zenon
  <2>2. CASE snap[s] # <<>>
    <3>1. Len(snap[s]) \in 1 .. Len(snap[s]) /\ Len(snap[s]) + 1 # 1
      BY <1>0, <2>2
    <3>2. c.base <= snap'[s][Len(snap[s])].id
      BY <1>1, <2>2, <3>1, Zenon DEF End
    <3>3. BatchOK(s, c.items, c.base, c.id, c.upto)'
      BY BatchSame, Zenon
    <3>4. Len(snap[s]) + 1 - 1 = Len(snap[s])
      BY <1>0
    <3> QED
      BY <3>1, <3>2, <3>3, <3>4, Zenon
  <2> QED
    BY <2>1, <2>2, Zenon
<1>6. ChunkInv(s)'
  <2> SUFFICES ASSUME NEW n \in 1 .. Len(snap'[s])
               PROVE  /\ BatchOK(s, snap[s][n].items, snap[s][n].base, snap[s][n].id,
                                 snap[s][n].upto)'
                      /\ snap'[s][n].base <= (IF n = 1 THEN synced'[s]
                                              ELSE snap'[s][n - 1].id)
                      /\ snap'[s][n].last => /\ n = Len(snap'[s])
                                             /\ srv'[s].st = "idle"
                                             /\ snap'[s][n].id = snap'[s][n].upto
                      /\ \A m \in 1 .. Len(snap'[s]) : snap'[s][m].upto = snap'[s][n].upto
    BY Zenon DEF ChunkInv
  <2>1. CASE n \in 1 .. Len(snap[s])
    BY <1>1, <1>3, <1>4, <2>1, Zenon
  <2>2. CASE n = Len(snap[s]) + 1
    <3>1. snap'[s][n] = c /\ n = Len(snap'[s])
      BY <1>1, <2>2, Zenon
    <3>2. \A m \in 1 .. Len(snap'[s]) : snap'[s][m].upto = snap'[s][n].upto
      BY <1>3, Zenon
    <3>3. c.last => srv'[s].st = "idle" /\ c.id = c.upto
      BY Zenon
    <3>4. BatchOK(s, snap[s][n].items, snap[s][n].base, snap[s][n].id, snap[s][n].upto)'
      BY <1>5, <3>1, Zenon
    <3>5. snap'[s][n].base <= (IF n = 1 THEN synced'[s] ELSE snap'[s][n - 1].id)
      <4>1. c.base <= (IF Len(snap[s]) + 1 = 1 THEN synced'[s]
                       ELSE snap'[s][Len(snap[s]) + 1 - 1].id)
        BY <1>5, Zenon
      <4> QED
        BY <2>2, <3>1, <4>1
    <3> QED
      BY <3>1, <3>2, <3>3, <3>4, <3>5, Zenon
  <2>3. n \in 1 .. Len(snap[s]) \/ n = Len(snap[s]) + 1
    <3>1. Len(snap'[s]) = Len(snap[s]) + 1
      BY <1>1, Zenon
    <3>2. n \in 1 .. Len(snap[s]) + 1
      BY <3>1, Zenon
    <3> QED
      BY <1>0, <3>2
  <2> QED
    BY <2>1, <2>2, <2>3, Zenon
<1> QED
  BY <1>2, <1>6, Zenon

\* Reading a row, and sending the chunk when it is full, keeps all in order.
LEMMA ReadStep ==
  ASSUME Tame, TypeOK, TypeOK', LogInv, NEW s \in Slaves, SlaveInv(s), ReadRow(s)
  PROVE  SlaveInv(s)'
<1>0. /\ PosInv(s) /\ ServeInv(s) /\ ChunkInv(s)
      /\ srv[s].st = "read"
      /\ UNCHANGED <<row, log, slave>>
  BY Zenon DEF SlaveInv, ReadRow, master
<1>1. PICK g \in Handlers :
           /\ Advance(s, g)
           /\ g.st = "read"
           /\ g.todo = (g.last + 1) .. g.upto
           /\ g.base = srv[s].base
           /\ g.upto = srv[s].upto
           /\ BatchOK(s, g.items, g.base, g.last, g.upto)
  BY ReadNext, Zenon
<1>2. /\ g.base <= End(s)
      /\ \A n \in 1 .. Len(snap[s]) : snap[s][n].upto = g.upto
      /\ \A n \in 1 .. Len(snap[s]) : ~snap[s][n].last
  BY <1>0, <1>1, Zenon DEF ServeInv, ChunkInv
<1>3. PosInv(s)'
  <2>1. pc[s] = "catchup"
    BY <1>0, Zenon DEF PosInv
  <2> QED
    BY <1>0, <2>1, PosStays, Zenon
<1>4. srv \in [Slaves -> Handlers] /\ snap \in [Slaves -> Seq(Chunks)]
  BY Zenon DEF TypeOK
<1>5. CASE g.count >= ChunkSize
  <2> DEFINE c == Chunk(g, FALSE)
  <2>1. /\ srv'[s] = NextChunk(g)
        /\ snap'[s] = Append(snap[s], c)
    BY <1>1, <1>4, <1>5, Zenon DEF Advance
  <2>2. c.id = g.last /\ c.items = g.items /\ c.last = FALSE /\ c.base = g.base
        /\ c.upto = g.upto
    BY Zenon DEF Chunk
  <2>3. c \in Chunks
    BY Zenon DEF Chunk, Handlers, Chunks
  <2> HIDE DEF c
  <2>4. ChunkInv(s)' /\ End(s)' = c.id
    BY <1>0, <1>1, <1>2, <2>1, <2>2, <2>3, AddChunk, Zenon
  <2>5. /\ srv'[s].st = "read"
        /\ srv'[s].items = NoItems
        /\ srv'[s].base = g.last
        /\ srv'[s].last = g.last
        /\ srv'[s].upto = g.upto
        /\ srv'[s].todo = g.todo
    BY <1>1, <2>1, Zenon DEF NextChunk, Handlers
  <2>6. BatchOK(s, NoItems, g.last, g.last, g.upto)
    BY <1>1, EmptyBatch, Zenon DEF BatchOK, Handlers
  <2>7. BatchOK(s, srv[s].items, srv[s].base, srv[s].last, srv[s].upto)'
    BY <1>0, <2>5, <2>6, BatchSame, Zenon DEF NoItems
  <2>8. \A n \in 1 .. Len(snap'[s]) : snap'[s][n].upto = g.upto
    <3>1. snap[s] \in Seq(Chunks) /\ snap'[s] = Append(snap[s], c) /\ c.upto = g.upto
      BY <1>4, <2>1, <2>2, Zenon
    <3>2. \A n \in 1 .. Len(snap[s]) : snap[s][n].upto = g.upto
      BY <1>2, Zenon
    <3> QED
      BY <3>1, <3>2
  <2>9. g.last <= g.last
    BY DEF Handlers
  <2> QED
    BY <1>1, <1>3, <2>2, <2>4, <2>5, <2>7, <2>8, <2>9, Zenon DEF SlaveInv, ServeInv
<1>6. CASE ~(g.count >= ChunkSize)
  <2>1. srv'[s] = g /\ snap' = snap
    BY <1>1, <1>4, <1>6, Zenon DEF Advance
  <2>2. BatchOK(s, srv[s].items, srv[s].base, srv[s].last, srv[s].upto)'
    BY <1>0, <1>1, <2>1, BatchSame, Zenon
  <2>3. End(s)' = End(s)
    BY <1>0, <2>1, Zenon DEF End, slave
  <2>4. ServeInv(s)'
    BY <1>1, <1>2, <2>1, <2>2, <2>3, Zenon DEF ServeInv
  <2>5. ChunkInv(s)'
    <3>1. ASSUME NEW n \in 1 .. Len(snap[s])
          PROVE  BatchOK(s, snap[s][n].items, snap[s][n].base, snap[s][n].id,
                         snap[s][n].upto)'
      BY <1>0, <2>1, BatchSame, Zenon DEF ChunkInv
    <3>2. snap' = snap /\ synced' = synced /\ ChunkInv(s)
      BY <1>0, <2>1, Zenon DEF slave
    <3>3. \A n \in 1 .. Len(snap[s]) : ~snap[s][n].last
      BY <1>2, Zenon
    <3> QED
      BY <3>1, <3>2, <3>3, Zenon DEF ChunkInv
  <2> QED
    BY <1>3, <2>4, <2>5, Zenon DEF SlaveInv
<1> QED
  BY <1>5, <1>6, Zenon

\* The last chunk goes to the end of the log that was listed.
LEMMA LastStep ==
  ASSUME TypeOK, TypeOK', NEW s \in Slaves, SlaveInv(s), SendLast(s)
  PROVE  SlaveInv(s)'
<1>0. /\ PosInv(s) /\ ServeInv(s) /\ ChunkInv(s)
      /\ srv[s].st = "read"
      /\ srv[s].todo = {}
      /\ UNCHANGED <<row, log, slave>>
  BY Zenon DEF SlaveInv, SendLast, master
<1>1. /\ BatchOK(s, srv[s].items, srv[s].base, srv[s].last, srv[s].upto)
      /\ srv[s].todo = (srv[s].last + 1) .. srv[s].upto
      /\ srv[s].base <= End(s)
      /\ \A n \in 1 .. Len(snap[s]) : snap[s][n].upto = srv[s].upto
      /\ \A n \in 1 .. Len(snap[s]) : ~snap[s][n].last
  BY <1>0, Zenon DEF ServeInv, ChunkInv
<1>2. srv[s].last = srv[s].upto
  <2>1. srv[s].last \in Nat /\ srv[s].upto \in Nat
    BY SlaveBasics, Zenon
  <2>2. srv[s].upto \notin (srv[s].last + 1) .. srv[s].upto
    BY <1>0, <1>1, Zenon
  <2>3. srv[s].last <= srv[s].upto
    BY <1>1, Zenon DEF BatchOK
  <2> QED
    BY <2>1, <2>2, <2>3
<1> DEFINE c == Chunk(srv[s], TRUE)
<1>3. srv'[s].st = "idle" /\ snap'[s] = Append(snap[s], c)
  BY Zenon DEF SendLast, IdleHandler, TypeOK
<1>4. /\ c.id = srv[s].last /\ c.items = srv[s].items /\ c.base = srv[s].base
      /\ c.upto = srv[s].upto
  BY Zenon DEF Chunk
<1>5. c \in Chunks
  BY SlaveBasics, Zenon DEF Chunk, Handlers, Chunks
<1> HIDE DEF c
<1>6. ChunkInv(s)'
  BY <1>0, <1>1, <1>2, <1>3, <1>4, <1>5, AddChunk, Zenon
<1>7. PosInv(s)'
  <2>1. pc[s] = "catchup"
    BY <1>0, Zenon DEF PosInv
  <2> QED
    BY <1>0, <2>1, PosStays, Zenon
<1> QED
  BY <1>3, <1>6, <1>7, Zenon DEF SlaveInv, ServeInv

=============================================================================
