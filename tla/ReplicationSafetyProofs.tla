---------------------- MODULE ReplicationSafetyProofs -----------------------
(***************************************************************************)
(* A slave that opens a session, loses one or applies a chunk keeps its    *)
(* invariant.                                                              *)
(***************************************************************************)
EXTENDS ReplicationServeProofs

\* A slave that applies items which reach from where it is to id gets to id.
LEMMA MergeCovers ==
  ASSUME TypeOK, LogInv, NEW c \in [Keys -> Nat], NEW at \in Nat, Covers(c, at),
         NEW f \in [Keys -> Nat], NEW base \in Nat, NEW id \in Nat, NEW upto \in Nat,
         NEW to \in Nat, to = MaxOf(at, id), to <= upto, upto <= Len(log), base <= at,
         ItemsFresh(f, base, id), ItemsNew(f, upto)
  PROVE  Covers(Merge(c, f, {}), to)
<1>0. /\ Len(log) \in Nat
      /\ \A i \in 1 .. Len(log) : log[i].key \in Keys /\ log[i].ver \in Nat
      /\ \A k \in Keys : row[k].ver \in Nat /\ row[k].gone \in Nat
  BY Basics, Zenon
<1> SUFFICES ASSUME NEW i \in 1 .. to, LastOfKey(i, to), log[i].act = "upsert"
             PROVE  Fresh(Merge(c, f, {})[log[i].key], log[i].key, i)
  BY Zenon DEF Covers
<1>1. i \in 1 .. Len(log) /\ log[i].key \in Keys
  BY <1>0
<1>2. Merge(c, f, {})[log[i].key] = IF f[log[i].key] # 0 THEN f[log[i].key]
                                    ELSE c[log[i].key]
  BY <1>1, Zenon DEF Merge
<1>3. CASE f[log[i].key] # 0
  <2>1. i \in 1 .. upto
    OBVIOUS
  <2> QED
    BY <1>2, <1>3, <2>1, Zenon DEF ItemsNew
<1>4. CASE f[log[i].key] = 0 /\ i <= at
  <2>1. at <= to
    BY DEF MaxOf
  <2>2. LastOfKey(i, at)
    BY <1>4, <2>1 DEF LastOfKey
  <2>3. Fresh(c[log[i].key], log[i].key, i)
    BY <1>4, <2>2 DEF Covers
  <2> QED
    BY <1>2, <1>4, <2>3, Zenon
<1>5. CASE f[log[i].key] = 0 /\ ~(i <= at)
  <2>1. i \in (base + 1) .. id
    BY <1>5 DEF MaxOf
  <2>2. Fresh(f[log[i].key], log[i].key, i)
    BY <2>1, Zenon DEF ItemsFresh
  <2>3. c[log[i].key] \in Nat
    BY <1>1, Zenon
  <2> QED
    BY <1>0, <1>1, <1>2, <1>5, <2>2, <2>3, FreshAnyway, Zenon
<1> QED
  BY <1>3, <1>4, <1>5, Zenon

\* Records that an empty chunk stands for are of rows that are gone.
LEMMA EmptyMeansGone ==
  ASSUME TypeOK, LogInv, NEW base \in Nat, NEW id \in Nat, id <= Len(log),
         ItemsFresh(NoItems, base, id)
  PROVE  \A i \in (base + 1) .. id : log[i].act = "upsert" => Gone(i)
<1>0. /\ Len(log) \in Nat
      /\ \A i \in 1 .. Len(log) : log[i].key \in Keys /\ log[i].ver \in Nat
      /\ \A k \in Keys : row[k].ver \in Nat /\ row[k].gone \in Nat
  BY Basics, Zenon
<1> SUFFICES ASSUME NEW i \in (base + 1) .. id, log[i].act = "upsert"
             PROVE  Gone(i)
  BY Zenon
<1>1. i \in 1 .. Len(log) /\ log[i].key \in Keys /\ log[i].ver \in Nat
  BY <1>0
<1>2. 0 < log[i].ver
  BY <1>1, Zenon DEF LogInv, Once
<1>3. Fresh(NoItems[log[i].key], log[i].key, i)
  BY Zenon DEF ItemsFresh
<1>4. NoItems[log[i].key] = 0
  BY <1>1, Zenon DEF NoItems
<1> QED
  BY <1>0, <1>1, <1>2, <1>3, <1>4 DEF Fresh, Gone

\* A slave opens a session and asks from its cursor on.
LEMMA OpenStep ==
  ASSUME TypeOK, TypeOK', NEW s \in Slaves, SlaveInv(s), OpenSession(s)
  PROVE  SlaveInv(s)'
<1>0. /\ PosInv(s)
      /\ UNCHANGED <<row, log, snap, cur, cache, heard, synced>>
      /\ pc[s] = "backoff"
  BY Zenon DEF SlaveInv, OpenSession, master
<1>1. srv'[s] = Requested(cur[s]) /\ pc'[s] = "catchup"
  BY Zenon DEF OpenSession, TypeOK
<1>2. /\ srv'[s].st = "list" /\ srv'[s].items = NoItems
      /\ srv'[s].base = cur[s] /\ srv'[s].last = cur[s]
  BY <1>1, Zenon DEF Requested, IdleHandler
<1>3. snap[s] = <<>> /\ cur[s] <= synced[s]
  BY <1>0, Zenon DEF PosInv
<1>4. ServeInv(s)' /\ ChunkInv(s)'
  <2>1. ServeInv(s)'
    BY <1>0, <1>2, <1>3, Zenon DEF ServeInv, NoItems
  <2> QED
    BY <1>0, <1>3, <2>1, NoChunks, Zenon
<1>5. PosInv(s)'
  BY <1>0, <1>1, Zenon DEF PosInv, Covers, LastOfKey, Fresh, Gone
<1> QED
  BY <1>4, <1>5, Zenon DEF SlaveInv

\* A slave that lost its session is where it was.
LEMMA EndedStep ==
  ASSUME TypeOK, TypeOK', NEW s \in Slaves, SlaveInv(s), Ended(s)
  PROVE  SlaveInv(s)'
<1>1. PosInv(s)'
  <2>1. PosInv(s)
    BY Zenon DEF SlaveInv
  <2>2. Covers(cache[s], synced[s])'
    BY <2>1, Zenon DEF Ended, PosInv, Covers, LastOfKey, Fresh
  <2> QED
    BY <2>1, <2>2, Zenon DEF Ended, PosInv, Gone
<1>2. ServeInv(s)' /\ ChunkInv(s)'
  <2>1. srv'[s].st = "idle" /\ snap'[s] = <<>>
    BY Zenon DEF Ended
  <2>2. ServeInv(s)'
    BY <2>1, Zenon DEF ServeInv
  <2> QED
    BY <2>1, <2>2, NoChunks, Zenon
<1> QED
  BY <1>1, <1>2, Zenon DEF SlaveInv

\* Applying a chunk of a tame system: what changes for slave s.
LEMMA ChunkEffect ==
  ASSUME Tame, TypeOK, NEW s \in Slaves, ApplyChunk(s), NEW c, c = Head(snap[s])
  PROVE  /\ cache'[s] = Merge(cache[s], c.items, {})
         /\ cur'[s] = (IF c.items # NoItems THEN MaxOf(cur[s], c.id) ELSE cur[s])
         /\ synced'[s] = MaxOf(synced[s], c.id)
         /\ c.last => pc'[s] = "recv" /\ mcur'[s] = cur'[s]
         /\ ~c.last => pc'[s] = "catchup"
         /\ snap'[s] = Tail(snap[s])
         /\ UNCHANGED <<row, log, srv, heard>>
         /\ pc[s] = "catchup"
         /\ snap[s] # <<>>
<1>0. /\ snap \in [Slaves -> Seq(Chunks)]
      /\ pc \in [Slaves -> {"backoff", "catchup", "recv"}]
      /\ cur \in [Slaves -> Nat]
      /\ mcur \in [Slaves -> Nat]
      /\ cache \in [Slaves -> [Keys -> Nat]]
      /\ synced \in [Slaves -> Nat]
  BY Zenon DEF TypeOK
<1>1. FailedWrites = {{}} /\ CursorWritten = {TRUE}
  BY Zenon DEF FailedWrites, CursorWritten, Fault, Tame
<1>2. cache' = [cache EXCEPT ![s] = Merge(cache[s], c.items, {})]
  BY <1>1, Zenon DEF ApplyChunk
<1>3. cur' = [cur EXCEPT ![s] = IF c.items # NoItems THEN MaxOf(cur[s], c.id) ELSE cur[s]]
  BY <1>1, Zenon DEF ApplyChunk
<1>4. synced' = [synced EXCEPT ![s] = MaxOf(synced[s], c.id)]
  BY Zenon DEF ApplyChunk
<1>5. pc[s] = "catchup" /\ snap[s] # <<>> /\ UNCHANGED <<row, log, srv, heard>>
  BY Zenon DEF ApplyChunk, master
<1>6. snap' = [snap EXCEPT ![s] = Tail(snap[s])]
  BY Zenon DEF ApplyChunk
<1>7. /\ c.last => /\ pc' = [pc EXCEPT ![s] = "recv"]
                   /\ mcur' = [mcur EXCEPT ![s] = cur'[s]]
      /\ ~c.last => UNCHANGED <<pc, mcur>>
  BY Zenon DEF ApplyChunk
<1>8. /\ cache'[s] = Merge(cache[s], c.items, {})
      /\ synced'[s] = MaxOf(synced[s], c.id)
      /\ snap'[s] = Tail(snap[s])
  BY <1>0, <1>2, <1>4, <1>6, Zenon
<1>9. cur'[s] = (IF c.items # NoItems THEN MaxOf(cur[s], c.id) ELSE cur[s])
  BY <1>0, <1>3, Zenon
<1>10. /\ c.last => pc'[s] = "recv" /\ mcur'[s] = cur'[s]
       /\ ~c.last => pc'[s] = "catchup"
  BY <1>0, <1>5, <1>7, Zenon
<1> QED
  BY <1>5, <1>8, <1>9, <1>10, Zenon

\* The items that are left are still right after s has moved to where the
\* chunk before them ends.
LEMMA BatchMoves ==
  ASSUME TypeOK, NEW s \in Slaves, NEW f, NEW base, NEW last, NEW upto,
         BatchOK(s, f, base, last, upto), UNCHANGED <<row, log>>,
         synced'[s] <= upto, heard'[s] = heard[s]
  PROVE  BatchOK(s, f, base, last, upto)'
BY Zenon DEF BatchOK, ItemsFresh, ItemsNew, Fresh

\* Applying a chunk keeps all in order: the slave gets to where it ends.
LEMMA ChunkStep ==
  ASSUME Tame, TypeOK, TypeOK', LogInv, NEW s \in Slaves, SlaveInv(s), ApplyChunk(s)
  PROVE  SlaveInv(s)'
<1> DEFINE c == snap[s][1]
<1>0. PosInv(s) /\ ServeInv(s) /\ ChunkInv(s)
  BY Zenon DEF SlaveInv
<1>a. snap[s] # <<>>
  BY Zenon DEF ApplyChunk
<1>1. /\ Len(snap[s]) \in Nat \ {0}
      /\ c = Head(snap[s])
      /\ Len(Tail(snap[s])) = Len(snap[s]) - 1
      /\ \A n \in 1 .. Len(Tail(snap[s])) : Tail(snap[s])[n] = snap[s][n + 1]
                                            /\ n + 1 \in 1 .. Len(snap[s])
      /\ 1 \in 1 .. Len(snap[s])
  BY <1>a, SlaveBasics, HeadTailProperties
<1>2. /\ cache'[s] = Merge(cache[s], c.items, {})
      /\ cur'[s] = (IF c.items # NoItems THEN MaxOf(cur[s], c.id) ELSE cur[s])
      /\ synced'[s] = MaxOf(synced[s], c.id)
      /\ c.last => pc'[s] = "recv" /\ mcur'[s] = cur'[s]
      /\ ~c.last => pc'[s] = "catchup"
      /\ snap'[s] = Tail(snap[s])
      /\ UNCHANGED <<row, log, srv, heard>>
  BY <1>1, ChunkEffect
<1>3. /\ c.id \in Nat /\ c.base \in Nat /\ c.upto \in Nat /\ c.items \in [Keys -> Nat]
      /\ cur[s] \in Nat /\ synced[s] \in Nat /\ heard[s] \in Nat
      /\ cache[s] \in [Keys -> Nat]
  BY <1>1, SlaveBasics, Zenon
<1>4. /\ BatchOK(s, c.items, c.base, c.id, c.upto)
      /\ c.base <= synced[s]
      /\ c.last => Len(snap[s]) = 1 /\ srv[s].st = "idle" /\ c.id = c.upto
      /\ \A m \in 1 .. Len(snap[s]) : snap[s][m].upto = c.upto
  BY <1>0, <1>1, Zenon DEF ChunkInv
<1> HIDE DEF c
<1>5. /\ c.base <= c.id /\ c.id <= c.upto /\ c.upto <= Len(log)
      /\ synced[s] <= c.upto /\ heard[s] <= c.upto
      /\ ItemsFresh(c.items, c.base, c.id) /\ ItemsNew(c.items, c.upto)
  BY <1>4, Zenon DEF BatchOK
<1>6. /\ cur[s] <= synced[s] /\ Len(log) \in Nat
      /\ \A i \in (cur[s] + 1) .. synced[s] : log[i].act = "upsert" => Gone(i)
      /\ Covers(cache[s], synced[s])
  BY <1>0, Basics, Zenon DEF PosInv
<1>7. /\ synced'[s] \in Nat /\ synced'[s] <= c.upto /\ synced[s] <= synced'[s]
      /\ c.id <= synced'[s] /\ cur'[s] \in Nat /\ cur'[s] <= synced'[s]
  BY <1>2, <1>3, <1>5, <1>6 DEF MaxOf
<1>8. PosInv(s)'
  <2>1. Covers(Merge(cache[s], c.items, {}), synced'[s])
    <3>1. synced'[s] = MaxOf(synced[s], c.id)
      BY <1>2, Zenon
    <3>2. c.base <= synced[s] /\ synced'[s] <= c.upto /\ c.upto <= Len(log)
      BY <1>4, <1>5, <1>7, Zenon
    <3>3. ItemsFresh(c.items, c.base, c.id) /\ ItemsNew(c.items, c.upto)
      BY <1>5, Zenon
    <3>4. Covers(cache[s], synced[s])
      BY <1>6, Zenon
    <3>5. synced'[s] \in Nat
      BY <1>7, Zenon
    <3> QED
      BY <1>3, <3>1, <3>2, <3>3, <3>4, <3>5, MergeCovers, Zenon
  <2>2. Covers(cache[s], synced[s])'
    BY <1>2, <2>1, Zenon DEF Covers, LastOfKey, Fresh
  <2>3. ASSUME NEW i \in (cur'[s] + 1) .. synced'[s], log[i].act = "upsert"
        PROVE  Gone(i)
    <3>1. CASE i <= synced[s]
      <4>1. i \in (cur[s] + 1) .. synced[s]
        BY <1>2, <1>3, <1>7, <3>1 DEF MaxOf
      <4> QED
        BY <1>6, <2>3, <4>1, Zenon
    <3>2. CASE ~(i <= synced[s])
      <4>1. i <= c.id /\ c.items = NoItems
        BY <1>2, <1>3, <1>7, <3>2 DEF MaxOf
      <4>2. i \in (c.base + 1) .. c.id
        BY <1>3, <1>4, <1>7, <3>2, <4>1
      <4>3. c.id <= Len(log)
        BY <1>3, <1>5, <1>6
      <4> QED
        BY <1>3, <1>5, <2>3, <4>1, <4>2, <4>3, EmptyMeansGone, Zenon
    <3> QED
      BY <3>1, <3>2, Zenon
  <2>4. \A i \in (cur'[s] + 1) .. synced'[s] : log'[i].act = "upsert" => Gone(i)'
    BY <1>2, <2>3, Zenon DEF Gone
  <2>5. /\ cur'[s] <= synced'[s]
        /\ synced'[s] <= Len(log')
        /\ heard'[s] <= Len(log')
    <3>1. heard'[s] = heard[s] /\ log' = log
      BY <1>2, Zenon
    <3>2. synced'[s] <= Len(log) /\ heard[s] <= Len(log)
      BY <1>3, <1>5, <1>6, <1>7
    <3> QED
      BY <1>7, <3>1, <3>2, Zenon
  <2>6. pc'[s] = "recv" => mcur'[s] = cur'[s] /\ heard'[s] <= synced'[s]
    <3>1. pc'[s] = "recv" => c.last /\ mcur'[s] = cur'[s] /\ heard'[s] = heard[s]
      BY <1>2, Zenon
    <3>2. c.last => heard[s] <= synced'[s]
      BY <1>3, <1>4, <1>5, <1>7
    <3> QED
      BY <3>1, <3>2, Zenon
  <2>7. pc'[s] # "catchup" => srv'[s].st = "idle" /\ snap'[s] = <<>>
    <3>1. c.last => Tail(snap[s]) = <<>>
      <4>1. Tail(snap[s]) \in Seq(Chunks)
        BY <1>a, SlaveBasics, HeadTailProperties, Zenon
      <4> QED
        BY <1>1, <1>4, <4>1, EmptySeq
    <3> QED
      BY <1>2, <1>4, <3>1, Zenon
  <2> QED
    BY <2>2, <2>4, <2>5, <2>6, <2>7, Zenon DEF PosInv

<1>9. ServeInv(s)'
  <2>1. srv[s].st # "list"
    BY <1>0, <1>a, Zenon DEF ServeInv
  <2>2. CASE srv[s].st = "read"
    <3>1. /\ BatchOK(s, srv[s].items, srv[s].base, srv[s].last, srv[s].upto)
          /\ srv[s].todo = (srv[s].last + 1) .. srv[s].upto
          /\ srv[s].base <= End(s)
          /\ \A n \in 1 .. Len(snap[s]) : snap[s][n].upto = srv[s].upto
      BY <1>0, <2>2, Zenon DEF ServeInv
    <3>2. srv[s].upto = c.upto
      BY <1>1, <3>1, Zenon DEF c
    <3>3. BatchOK(s, srv[s].items, srv[s].base, srv[s].last, srv[s].upto)'
      BY <1>2, <1>7, <3>1, <3>2, BatchMoves, Zenon
    <3>4. srv'[s].base <= End(s)'
      <4>1. CASE Tail(snap[s]) = <<>>
        <5>1. Len(snap[s]) = 1
          <6>1. Len(Tail(snap[s])) = 0
            <7>1. Len(<< >>) = 0
              BY Zenon
            <7> QED
              BY <4>1, <7>1, Zenon
          <6>2. Len(snap[s]) \in Nat /\ Len(Tail(snap[s])) = Len(snap[s]) - 1
            BY <1>1, Zenon
          <6> QED
            BY <6>1, <6>2
        <5>2. End(s) = c.id /\ End(s)' = synced'[s]
          BY <1>2, <1>a, <4>1, <5>1, Zenon DEF End, c
        <5>3. srv[s].base \in Nat
          BY SlaveBasics, Zenon
        <5>4. srv[s].base <= c.id /\ c.id <= synced'[s] /\ c.id \in Nat /\ synced'[s] \in Nat
          BY <1>3, <1>7, <3>1, <5>2, Zenon
        <5>5. srv[s].base <= synced'[s]
          BY <5>3, <5>4
        <5>6. srv' = srv
          BY <1>2, Zenon
        <5> QED
          BY <5>2, <5>5, <5>6, Zenon
      <4>2. CASE Tail(snap[s]) # <<>>
        <5>1. Tail(snap[s]) \in Seq(Chunks) /\ snap[s] \in Seq(Chunks)
          BY <1>a, SlaveBasics, HeadTailProperties, Zenon
        <5>2. Len(Tail(snap[s])) \in 1 .. Len(Tail(snap[s]))
          BY <4>2, <5>1
        <5>3. Tail(snap[s])[Len(Tail(snap[s]))] = snap[s][Len(snap[s])]
          BY <1>1, <5>2
        <5>4. End(s)' = End(s)
          BY <1>2, <1>a, <4>2, <5>3, Zenon DEF End
        <5> QED
          BY <1>2, <3>1, <5>4, Zenon
      <4> QED
        BY <4>1, <4>2, Zenon
    <3>5. \A n \in 1 .. Len(snap'[s]) : snap'[s][n].upto = srv'[s].upto
      <4>1. \A m \in 1 .. Len(Tail(snap[s])) : Tail(snap[s])[m].upto = srv[s].upto
        BY <1>1, <3>1, Zenon
      <4>2. snap'[s] = Tail(snap[s]) /\ srv' = srv
        BY <1>2, Zenon
      <4> QED
        BY <4>1, <4>2, Zenon
    <3> QED
      BY <1>2, <2>1, <3>1, <3>3, <3>4, <3>5, Zenon DEF ServeInv
  <2> QED
    BY <1>2, <2>1, <2>2, Zenon DEF ServeInv
<1>10. ChunkInv(s)'
  <2> SUFFICES ASSUME NEW n \in 1 .. Len(snap'[s])
               PROVE  /\ BatchOK(s, snap[s][n].items, snap[s][n].base, snap[s][n].id,
                                 snap[s][n].upto)'
                      /\ snap'[s][n].base <= (IF n = 1 THEN synced'[s]
                                              ELSE snap'[s][n - 1].id)
                      /\ snap'[s][n].last => /\ n = Len(snap'[s])
                                             /\ srv'[s].st = "idle"
                                             /\ snap'[s][n].id = snap'[s][n].upto
                      /\ \A m \in 1 .. Len(snap'[s]) : snap'[s][m].upto = snap'[s][n].upto
    BY Zenon DEF ChunkInv
  <2> DEFINE d == snap[s][n + 1]
  <2>1. n + 1 \in 1 .. Len(snap[s]) /\ snap'[s][n] = d /\ Len(snap'[s]) = Len(snap[s]) - 1
        /\ n \in Nat \ {0}
    <3>1. snap'[s] = Tail(snap[s])
      BY <1>2, Zenon
    <3>2. n \in 1 .. Len(Tail(snap[s]))
      BY <3>1, Zenon
    <3>3. Len(snap[s]) \in Nat /\ Len(Tail(snap[s])) = Len(snap[s]) - 1
      BY <1>1, Zenon
    <3>4. Tail(snap[s])[n] = d
      BY <1>1, <3>2, Zenon
    <3>5. n + 1 \in 1 .. Len(snap[s]) /\ n \in Nat \ {0}
      BY <3>2, <3>3
    <3> QED
      BY <3>1, <3>3, <3>4, <3>5, Zenon
  <2>2. /\ BatchOK(s, d.items, d.base, d.id, d.upto)
        /\ d.base <= snap[s][n].id
        /\ d.last => n + 1 = Len(snap[s]) /\ srv[s].st = "idle" /\ d.id = d.upto
    <3>1. n + 1 # 1 /\ n + 1 - 1 = n
      BY <2>1
    <3>2. n + 1 \in 1 .. Len(snap[s]) /\ ChunkInv(s)
      BY <1>0, <2>1, Zenon
    <3>3. /\ BatchOK(s, d.items, d.base, d.id, d.upto)
          /\ d.base <= (IF n + 1 = 1 THEN synced[s] ELSE snap[s][n + 1 - 1].id)
          /\ d.last => n + 1 = Len(snap[s]) /\ srv[s].st = "idle" /\ d.id = d.upto
      BY <3>2 DEF ChunkInv
    <3> QED
      BY <3>1, <3>3, Zenon
  <2>3. d.upto = c.upto
    BY <1>4, <2>1, Zenon
  <2>4. snap'[s][n].base <= (IF n = 1 THEN synced'[s] ELSE snap'[s][n - 1].id)
    <3>1. CASE n = 1
      <4>1. d.base \in Nat
        BY <2>1, SlaveBasics, Zenon
      <4>2. d.base <= c.id
        BY <2>2, <3>1, Zenon DEF c
      <4>3. d.base <= synced'[s]
        BY <1>3, <1>7, <4>1, <4>2
      <4> QED
        BY <2>1, <3>1, <4>3, Zenon
    <3>2. CASE n # 1
      <4>1. n - 1 \in 1 .. Len(Tail(snap[s])) /\ n - 1 + 1 = n
        <5>1. n \in 1 .. Len(Tail(snap[s]))
          BY <1>2, Zenon
        <5>2. Len(Tail(snap[s])) \in Nat
          BY <1>1
        <5> QED
          BY <3>2, <5>1, <5>2
      <4>2. snap'[s][n - 1] = snap[s][n]
        BY <1>1, <1>2, <4>1
      <4> QED
        BY <2>1, <2>2, <3>2, <4>2, Zenon
    <3> QED
      BY <3>1, <3>2, Zenon
  <2> HIDE DEF d
  <2>5. BatchOK(s, snap[s][n].items, snap[s][n].base, snap[s][n].id, snap[s][n].upto)'
    BY <1>2, <1>7, <2>1, <2>2, <2>3, BatchMoves, Zenon
  <2>6. \A m \in 1 .. Len(snap'[s]) : snap'[s][m].upto = c.upto
    <3>1. \A m \in 1 .. Len(Tail(snap[s])) : Tail(snap[s])[m].upto = c.upto
      BY <1>1, <1>4, Zenon
    <3>2. snap'[s] = Tail(snap[s])
      BY <1>2, Zenon
    <3> QED
      BY <3>1, <3>2, Zenon
  <2>7. snap'[s][n].last => /\ n = Len(snap'[s])
                            /\ srv'[s].st = "idle"
                            /\ snap'[s][n].id = snap'[s][n].upto
    <3>1. srv' = srv
      BY <1>2, Zenon
    <3>2. n + 1 = Len(snap[s]) => n = Len(snap'[s])
      BY <2>1
    <3> QED
      BY <2>1, <2>2, <3>1, <3>2, Zenon
  <2> QED
    BY <2>1, <2>3, <2>4, <2>5, <2>6, <2>7, Zenon
<1> QED
  BY <1>8, <1>9, <1>10, Zenon DEF SlaveInv

-----------------------------------------------------------------------------
(***************************************************************************)
(* ReplicationInv is inductive, and NoSkippedUpsert and GapsAreRepaired    *)
(* follow from it, for any rows, slaves, publishers, buffers and chunks.   *)
(***************************************************************************)

\* The slave applies the notice that is next after its cursor.  What it had
\* caught up with beyond that are rows that are gone.
LEMMA NoticeCovers ==
  ASSUME TypeOK, LogInv, NEW c \in [Keys -> Nat], NEW at \in Nat, Covers(c, at),
         at <= Len(log), NEW id \in 1 .. Len(log), id <= at + 1,
         \A i \in id .. at : log[i].act = "upsert" => Gone(i),
         NEW to \in Nat, to = MaxOf(at, id),
         NEW d, d = [c EXCEPT ![log[id].key] =
                       IF log[id].act = "delete" THEN 0 ELSE log[id].ver]
  PROVE  Covers(d, to)
<1>0. /\ Len(log) \in Nat
      /\ \A i \in 1 .. Len(log) : log[i].key \in Keys /\ log[i].ver \in Nat
      /\ \A k \in Keys : row[k].ver \in Nat /\ row[k].gone \in Nat
  BY Basics, Zenon
<1> SUFFICES ASSUME NEW i \in 1 .. to, LastOfKey(i, to), log[i].act = "upsert"
             PROVE  Fresh(d[log[i].key], log[i].key, i)
  BY Zenon DEF Covers
<1>1. to <= Len(log) /\ at <= to /\ id <= to /\ (to = at \/ to = id)
  BY DEF MaxOf
<1>2. i \in 1 .. Len(log) /\ log[i].key \in Keys
  BY <1>0, <1>1
<1>3. CASE i = id
  <2>1. d[log[id].key] = log[id].ver
    BY <1>2, <1>3, Zenon
  <2> QED
    BY <1>0, <1>2, <1>3, <2>1 DEF Fresh
<1>4. CASE i # id /\ log[i].key = log[id].key
  <2>1. ~(id \in (i + 1) .. to)
    BY <1>4, Zenon DEF LastOfKey, LogInv
  <2>2. i \in id .. at
    BY <1>0, <1>1, <1>4, <2>1
  <2>3. Gone(i)
    BY <2>2, Zenon
  <2> QED
    BY <2>3, Zenon DEF Fresh, Gone
<1>5. CASE log[i].key # log[id].key
  <2>1. d[log[i].key] = c[log[i].key]
    BY <1>2, <1>5, Zenon
  <2>2. i <= at
    BY <1>0, <1>1, <1>5
  <2>3. LastOfKey(i, at)
    BY <1>1, <2>2 DEF LastOfKey
  <2>4. Fresh(c[log[i].key], log[i].key, i)
    BY <2>2, <2>3 DEF Covers
  <2> QED
    BY <2>1, <2>4, Zenon
<1> QED
  BY <1>3, <1>4, <1>5, Zenon

\* Receiving a notice keeps all in order: it is old, it shows a gap that a
\* catch-up will repair, or it is next.
LEMMA RecvStep ==
  ASSUME Tame, TypeOK, TypeOK', LogInv, NEW s \in Slaves, SlaveInv(s),
         NoticeInv(net[s]), RecvNotice(s)
  PROVE  SlaveInv(s)'
<1> DEFINE n == Head(net[s])
<1>0. PosInv(s) /\ UNCHANGED <<row, log>> /\ pc[s] = "recv" /\ net[s] # <<>>
  BY Zenon DEF SlaveInv, RecvNotice, master
<1>1. n.id \in Nat /\ n.id \in 1 .. Len(log)
      /\ log[n.id].key = n.key /\ log[n.id].act = n.act /\ log[n.id].ver = n.ver
  <2>1. net[s] \in Seq(Notices)
    BY Zenon DEF TypeOK
  <2>2. n = net[s][1] /\ 1 \in 1 .. Len(net[s])
    BY <1>0, <2>1, HeadTailProperties
  <2>3. Logged(n)
    BY <2>2, Zenon DEF NoticeInv
  <2> QED
    BY <1>0, <2>3, HeadNotice, Zenon DEF Logged
<1>2. /\ mcur[s] = cur[s] /\ heard[s] <= synced[s]
      /\ srv[s].st = "idle" /\ snap[s] = <<>>
      /\ cur[s] <= synced[s] /\ synced[s] <= Len(log) /\ heard[s] <= Len(log)
      /\ \A i \in (cur[s] + 1) .. synced[s] : log[i].act = "upsert" => Gone(i)
      /\ Covers(cache[s], synced[s])
  BY <1>0, Zenon DEF PosInv
<1>3. /\ cur[s] \in Nat /\ synced[s] \in Nat /\ heard[s] \in Nat /\ mcur[s] \in Nat
      /\ cache[s] \in [Keys -> Nat]
      /\ Len(log) \in Nat
  BY SlaveBasics, Basics, Zenon
<1>4. heard'[s] = MaxOf(heard[s], n.id)
  BY Zenon DEF RecvNotice, TypeOK
<1> HIDE DEF n
<1>5. heard'[s] <= Len(log) /\ heard'[s] \in Nat
  <2>1. n.id \in Nat /\ heard[s] \in Nat /\ Len(log) \in Nat /\ heard[s] <= Len(log)
    BY <1>1, <1>2, <1>3, Zenon
  <2>2. n.id <= Len(log)
    BY <1>1, <2>1, PlaceIsBounded, Zenon
  <2> QED
    BY <1>4, <2>1, <2>2, MaxNotBeyond, Zenon
<1>6. CASE /\ n.id <= mcur[s]
           /\ UNCHANGED <<pc, cur, mcur, cache, synced, reg, hub, srv, snap>>
  <2>1. heard'[s] <= synced[s]
    <3>1. n.id <= synced[s]
      BY <1>1, <1>2, <1>3, <1>6
    <3>2. n.id \in Nat /\ heard[s] \in Nat /\ synced[s] \in Nat /\ heard[s] <= synced[s]
      BY <1>1, <1>2, <1>3, Zenon
    <3> QED
      BY <1>4, <3>1, <3>2, MaxNotBeyond, Zenon
  <2>2. PosInv(s)'
    BY <1>0, <1>2, <1>5, <1>6, <2>1, Zenon DEF PosInv, Covers, LastOfKey, Fresh, Gone
  <2>3. ServeInv(s)' /\ ChunkInv(s)'
    <3>1. srv'[s].st = "idle" /\ snap'[s] = <<>>
      BY <1>2, <1>6, Zenon
    <3>2. ServeInv(s)'
      BY <3>1, Zenon DEF ServeInv
    <3> QED
      BY <3>1, <3>2, NoChunks, Zenon
  <2> QED
    BY <2>2, <2>3, Zenon DEF SlaveInv
<1>7. CASE /\ RepairGap(s)
           /\ UNCHANGED <<cur, mcur, cache, synced, reg, hub, snap>>
  <2>1. srv'[s] = Requested(mcur[s]) /\ pc'[s] = "catchup"
    BY <1>7, Zenon DEF RepairGap, TypeOK
  <2>2. /\ srv'[s].st = "list" /\ srv'[s].items = NoItems
        /\ srv'[s].base = cur[s] /\ srv'[s].last = cur[s]
    BY <1>2, <2>1, Zenon DEF Requested, IdleHandler
  <2>3. PosInv(s)'
    BY <1>0, <1>2, <1>5, <1>7, <2>1, Zenon DEF PosInv, Covers, LastOfKey, Fresh, Gone
  <2>4. ServeInv(s)' /\ ChunkInv(s)'
    <3>1. snap'[s] = <<>> /\ synced'[s] = synced[s] /\ cur'[s] = cur[s] /\ mcur'[s] = mcur[s]
      BY <1>2, <1>7, Zenon
    <3>2. ChunkInv(s)'
      BY <3>1, NoChunks, Zenon
    <3>3. ServeInv(s)'
      BY <1>2, <2>2, <3>1, Zenon DEF ServeInv, NoItems
    <3> QED
      BY <3>2, <3>3, Zenon
  <2> QED
    BY <2>3, <2>4, Zenon DEF SlaveInv
<1>8. CASE n.id = mcur[s] + 1 /\ ApplyNotice(s, n)
  <2>1. ~(cur[s] + 1 < n.id) /\ cur[s] < n.id
    <3>1. cur[s] \in Nat /\ n.id = cur[s] + 1
      BY <1>2, <1>3, <1>8, Zenon
    <3> QED
      BY <3>1
  <2>2. FailedWrites = {{}} /\ CursorWritten = {TRUE}
    BY Zenon DEF FailedWrites, CursorWritten, Fault, Tame
  <2>3. cache' = [cache EXCEPT ![s][n.key] = IF n.act = "delete" THEN 0 ELSE n.ver]
    BY <1>8, <2>1, <2>2, Zenon DEF ApplyNotice
  <2>4. cur' = [cur EXCEPT ![s] = n.id]
    BY <1>8, <2>1, <2>2, Zenon DEF ApplyNotice
  <2>5. /\ synced' = [synced EXCEPT ![s] = MaxOf(synced[s], n.id)]
        /\ mcur' = [mcur EXCEPT ![s] = n.id]
        /\ UNCHANGED <<pc, srv, snap>>
    BY <1>8, <2>1, Zenon DEF ApplyNotice
  <2>6. /\ cur'[s] = n.id /\ mcur'[s] = n.id
        /\ synced'[s] = MaxOf(synced[s], n.id)
        /\ cache'[s] = [cache[s] EXCEPT ![log[n.id].key] =
                          IF log[n.id].act = "delete" THEN 0 ELSE log[n.id].ver]
    <3>1. /\ cache \in [Slaves -> [Keys -> Nat]]
          /\ DOMAIN cur = Slaves /\ DOMAIN mcur = Slaves /\ DOMAIN synced = Slaves
      BY Zenon DEF TypeOK
    <3>2. cur'[s] = n.id /\ mcur'[s] = n.id /\ synced'[s] = MaxOf(synced[s], n.id)
      BY <2>4, <2>5, <3>1, Zenon
    <3>3. cache'[s] = [cache[s] EXCEPT ![n.key] = IF n.act = "delete" THEN 0 ELSE n.ver]
      BY <2>3, <3>1, Zenon
    <3> QED
      BY <1>1, <3>2, <3>3, Zenon
  <2>7. Covers(cache'[s], synced'[s])
    <3>1. n.id <= synced[s] + 1 /\ synced'[s] \in Nat /\ n.id = cur[s] + 1
      <4>1. cur[s] \in Nat /\ synced[s] \in Nat /\ n.id = cur[s] + 1 /\ cur[s] <= synced[s]
        BY <1>2, <1>3, <1>8, Zenon
      <4>2. synced'[s] \in {synced[s], n.id}
        BY <2>6, Zenon DEF MaxOf
      <4> QED
        BY <4>1, <4>2
    <3>2. \A i \in n.id .. synced[s] : log[i].act = "upsert" => Gone(i)
      BY <1>2, <3>1, Zenon
    <3>3. n.id \in 1 .. Len(log) /\ synced[s] <= Len(log) /\ Covers(cache[s], synced[s])
      BY <1>1, <1>2, Zenon
    <3>4. synced'[s] = MaxOf(synced[s], n.id)
      BY <2>6, Zenon
    <3>5. cache'[s] = [cache[s] EXCEPT ![log[n.id].key] =
                         IF log[n.id].act = "delete" THEN 0 ELSE log[n.id].ver]
      BY <2>6, Zenon
    <3>6. synced[s] \in Nat /\ cache[s] \in [Keys -> Nat]
      BY <1>3, Zenon
    <3>7. PICK id \in 1 .. Len(log), at \in Nat, to \in Nat, c \in [Keys -> Nat] :
            id = n.id /\ at = synced[s] /\ to = synced'[s] /\ c = cache[s]
      BY <3>1, <3>3, <3>6, Zenon
    <3>d. PICK d : d = cache'[s]
      BY Zenon
    <3>8. /\ Covers(c, at) /\ at <= Len(log) /\ id <= at + 1 /\ to = MaxOf(at, id)
          /\ \A i \in id .. at : log[i].act = "upsert" => Gone(i)
      BY <3>1, <3>2, <3>3, <3>4, <3>7, Zenon
    <3>9. d = [c EXCEPT ![log[id].key] = IF log[id].act = "delete" THEN 0 ELSE log[id].ver]
      BY <3>5, <3>7, <3>d, Zenon
    <3>10. Covers(d, to)
      BY <3>8, <3>9, NoticeCovers, Zenon
    <3> QED
      BY <3>7, <3>d, <3>10, Zenon
  <2>8. Covers(cache[s], synced[s])'
    BY <1>0, <2>7, Zenon DEF Covers, LastOfKey, Fresh
  <2>9. \A i \in (cur'[s] + 1) .. synced'[s] : log'[i].act = "upsert" => Gone(i)'
    <3> SUFFICES ASSUME NEW i \in (cur'[s] + 1) .. synced'[s], log'[i].act = "upsert"
                 PROVE  Gone(i)'
      BY Zenon
    <3>1. i \in (cur[s] + 1) .. synced[s]
      <4>1. i \in (n.id + 1) .. MaxOf(synced[s], n.id)
        BY <2>6, Zenon
      <4>2. /\ n.id \in Nat /\ synced[s] \in Nat /\ cur[s] \in Nat
            /\ cur[s] < n.id
        BY <1>1, <1>3, <2>1, Zenon
      <4> QED
        BY <4>1, <4>2 DEF MaxOf
    <3> QED
      BY <1>0, <1>2, <3>1, Zenon DEF Gone
  <2>10. /\ cur'[s] <= synced'[s] /\ synced'[s] <= Len(log)
         /\ heard'[s] <= synced'[s]
    <3>1. /\ synced[s] \in Nat /\ heard[s] \in Nat /\ n.id \in Nat /\ Len(log) \in Nat
          /\ heard[s] <= synced[s] /\ synced[s] <= Len(log) /\ n.id <= Len(log)
      BY <1>1, <1>2, <1>3
    <3>2. /\ cur'[s] = n.id /\ synced'[s] = MaxOf(synced[s], n.id)
          /\ heard'[s] = MaxOf(heard[s], n.id)
      BY <1>4, <2>6, Zenon
    <3> QED
      BY <3>1, <3>2 DEF MaxOf
  <2>11. PosInv(s)'
    BY <1>0, <1>2, <1>5, <2>5, <2>6, <2>8, <2>9, <2>10, Zenon DEF PosInv
  <2>12. ServeInv(s)' /\ ChunkInv(s)'
    <3>1. srv'[s].st = "idle" /\ snap'[s] = <<>>
      BY <1>2, <2>5, Zenon
    <3>2. ServeInv(s)'
      BY <3>1, Zenon DEF ServeInv
    <3>3. ChunkInv(s)'
      BY <3>1, NoChunks, Zenon
    <3> QED
      BY <3>2, <3>3, Zenon
  <2> QED
    BY <2>11, <2>12, Zenon DEF SlaveInv
<1> QED
  BY <1>6, <1>7, <1>8, Zenon DEF RecvNotice, n

\* The invariant holds of empty tables, with nothing in flight.
LEMMA InvInit == Init => ReplicationInv
<1> SUFFICES ASSUME Init PROVE ReplicationInv
  BY Zenon
<1>1. RowInv
  BY DEF Init, RowInv
<1>2. LogInv
  BY DEF Init, LogInv
<1>3. PubInv
  BY Zenon DEF Init, PubInv, IdlePub
<1>4. ASSUME NEW s \in Slaves
      PROVE  NoticeInv(hub[s]) /\ NoticeInv(net[s]) /\ SlaveInv(s)
  <2>1. NoticeInv(hub[s]) /\ NoticeInv(net[s])
    BY DEF Init, NoticeInv
  <2>2. /\ srv[s].st = "idle" /\ snap[s] = <<>> /\ pc[s] = "backoff"
        /\ cur[s] = 0 /\ heard[s] = 0 /\ synced[s] = 0 /\ log = <<>>
    BY Zenon DEF Init, IdleHandler
  <2>3. ServeInv(s) /\ ChunkInv(s)
    BY <2>2 DEF ServeInv, ChunkInv
  <2>4. PosInv(s)
    BY <2>2 DEF PosInv, Covers
  <2> QED
    BY <2>1, <2>3, <2>4, Zenon DEF SlaveInv
<1> QED
  BY <1>1, <1>2, <1>3, <1>4, Zenon DEF ReplicationInv

\* Every step of the master and of the slaves preserves the invariant.
LEMMA InvStep ==
  ASSUME Tame, TypeOK, TypeOK', ReplicationInv, [Next]_vars
  PROVE  ReplicationInv'
<1>0. RowInv /\ LogInv /\ PubInv
  BY Zenon DEF ReplicationInv
<1>1. Grows /\ RowInv'
  BY <1>0, GrowsStep, Zenon
<1>2. LogInv' /\ PubInv'
  BY <1>0, LogStays, PubStays, Zenon
<1>3. ASSUME NEW s \in Slaves
      PROVE  NoticeInv(hub[s])' /\ NoticeInv(net[s])' /\ SlaveInv(s)'
  <2>0. NoticeInv(hub[s]) /\ NoticeInv(net[s]) /\ SlaveInv(s)
    BY Zenon DEF ReplicationInv
  <2>1. NoticeInv(hub[s])' /\ NoticeInv(net[s])'
    BY <1>0, <1>1, <2>0, NoticesStay, Zenon
  <2>2. SlaveInv(s)'
    BY <1>0, <1>1, <2>0, SlaveSteps, SlaveStays, EndedStep, ListStep, ReadStep,
       LastStep, OpenStep, ChunkStep, RecvStep, Zenon
  <2> QED
    BY <2>1, <2>2, Zenon
<1> QED
  BY <1>1, <1>2, <1>3, Zenon DEF ReplicationInv

\* The invariant holds of every tame system.
THEOREM InvHolds == ASSUME Tame PROVE Spec => []ReplicationInv
<1>1. TypeOK /\ TypeOK' /\ ReplicationInv /\ [Next]_vars => ReplicationInv'
  BY InvStep, Zenon
<1> QED
  BY <1>1, InvInit, TypeCorrect, PTL DEF Spec

\* No slave of a tame system ever passes over an upsert: any number of
\* publishers may race to the log and the hub, the hub may drop notices,
\* streams may break and either side may crash.
THEOREM NothingSkipped == ASSUME Tame PROVE Spec => []NoSkippedUpsert
<1>1. ReplicationInv => NoSkippedUpsert
  BY Zenon DEF ReplicationInv, SlaveInv, PosInv, NoSkippedUpsert
<1> QED
  BY <1>1, InvHolds, PTL

\* A slave of a tame system that waits for notices has caught up with every
\* notice it was ever sent, the one that showed a gap and was dropped
\* included.
THEOREM GapsRepaired == ASSUME Tame PROVE Spec => []GapsAreRepaired
<1>1. ReplicationInv => GapsAreRepaired
  BY Zenon DEF ReplicationInv, SlaveInv, PosInv, GapsAreRepaired
<1> QED
  BY <1>1, InvHolds, PTL

=============================================================================
