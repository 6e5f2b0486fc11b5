---------------------------- MODULE Replication ----------------------------
(***************************************************************************)
(* Replication from the master to its slaves.                              *)
(*                                                                         *)
(* The master keeps rows (DNS records and domain entries) and an           *)
(* append-only log of snapshot records, one per published change.  A       *)
(* publisher is a goroutine that changed rows (a manage API request, a     *)
(* Kubernetes bridge, the certificate reconciler) and then, row by row,    *)
(* reads the row back, appends a snapshot record and hands a notice to the *)
(* hub, which never blocks: a subscriber whose buffer is full loses the    *)
(* notice.  A slave subscribes, catches up by GetSnapshot, then applies    *)
(* notices one by one and catches up again when it sees a gap.             *)
(*                                                                         *)
(* The content of a row is abstracted to a version: every write of a row   *)
(* (a deletion too) gives it the next version.  Version 0 in a cache, or   *)
(* in the items of a chunk, means that the row is not there.               *)
(***************************************************************************)
EXTENDS Integers, Sequences

CONSTANTS
  DnsRecords,  \* ids of DNS records
  Hosts,       \* hostnames of domain entries
  Slaves,
  Publishers,  \* goroutines of the master that write rows and publish them
  Writers,     \* who writes rows: "plan", "bridge", "issuer", "resource"
  Driver,      \* the master's database: "sqlite" or "postgres"
  Faults,      \* the classes of faults that may happen, see FaultClasses
  HubBuffer,   \* capacity of a subscriber's channel (128 in the code)
  ChunkSize,   \* rows per snapshot chunk (1000 in the code)
  MaxRequests  \* bound on the requests that write rows

Keys == DnsRecords \cup Hosts

(***************************************************************************)
(* "session": a stream breaks or a slave process dies and is restarted.    *)
(* "crash": the master dies and is restarted.  "publish": a read or an     *)
(* append on the publish path fails.  "snapshot_read": the read of a row   *)
(* for a snapshot chunk fails.  "cache_write", "cursor_write": the write   *)
(* of a row, of the cursor, fails in a slave's transaction.                *)
(***************************************************************************)
FaultClasses == {"session", "crash", "publish", "snapshot_read",
                 "cache_write", "cursor_write"}

ASSUME ConstantsAssumption ==
  /\ Driver \in {"sqlite", "postgres"}
  /\ Faults \subseteq FaultClasses
  /\ Writers \subseteq {"plan", "bridge", "issuer", "resource"}
  /\ HubBuffer \in Nat \ {0}
  /\ ChunkSize \in Nat \ {0}
  /\ MaxRequests \in Nat
  /\ Hosts # {}

VARIABLES
  row,     \* row[k]: version, whether it is live, version of its last deletion
  requests, \* history: requests that wrote rows so far
  log,     \* the snapshot_records table, by id
  pub,     \* pub[p]: what publisher p has left to publish and is publishing
  reg,     \* reg[s]: the hub has a channel for s's current stream
  hub,     \* hub[s]: that channel
  net,     \* net[s]: notices sent on the stream and not yet received
  srv,     \* srv[s]: the GetSnapshot handler that serves s
  snap,    \* snap[s]: chunks sent and not yet received
  pc,      \* pc[s]: where slave s is in Start and Subscribe
  cur,     \* cur[s]: the durable cursor, the highest id in sync_state
  mcur,    \* mcur[s]: the local variable cursor of Subscribe
  cache,   \* cache[s][k]: version of the cached row
  heard,   \* history: highest id of a notice s has received
  synced,  \* history: highest id s has caught up with or applied
  calm     \* faults are over (only liveness runs set it)

master == <<row, requests, log, pub>>
stream == <<reg, hub, net>>
snapshot == <<srv, snap>>
slave == <<pc, cur, mcur, cache, heard, synced>>
vars == <<row, requests, log, pub, reg, hub, net, srv, snap, pc, cur, mcur, cache,
          heard, synced, calm>>

MaxOf(a, b) == IF a >= b THEN a ELSE b

-----------------------------------------------------------------------------

NoItems == [k \in Keys |-> 0]

Rows == [ver: Nat, live: BOOLEAN, gone: Nat]
Jobs == [key: Keys, act: {"read", "delete"}, ver: Nat]
Records == [key: Keys, act: {"upsert", "delete"}, ver: Nat, vis: BOOLEAN]
Notices == [id: Nat, key: Keys, act: {"upsert", "delete"}, ver: Nat]
Pubs == [pc: {"idle", "append", "commit", "cast"}, todo: SUBSET Jobs,
         key: Keys, act: {"upsert", "delete"}, ver: Nat, id: Nat]
\* base and upto are history: the id of the previous chunk, and the end of
\* the log when the handler listed it.
Handlers == [st: {"idle", "list", "read"}, todo: SUBSET Nat, last: Nat,
             base: Nat, upto: Nat, items: [Keys -> Nat], count: Nat]
Chunks == [id: Nat, items: [Keys -> Nat], last: BOOLEAN, base: Nat, upto: Nat]

\* A publisher between two jobs.
IdlePub(todo) == [pc |-> "idle", todo |-> todo, key |-> CHOOSE k \in Keys : TRUE,
                  act |-> "upsert", ver |-> 0, id |-> 0]
IdleHandler == [st |-> "idle", todo |-> {}, last |-> 0, base |-> 0,
                upto |-> 0, items |-> NoItems, count |-> 0]

Init ==
  /\ row = [k \in Keys |-> [ver |-> 0, live |-> FALSE, gone |-> 0]]
  /\ requests = 0
  /\ log = <<>>
  /\ pub = [p \in Publishers |-> IdlePub({})]
  /\ reg = [s \in Slaves |-> FALSE]
  /\ hub = [s \in Slaves |-> <<>>]
  /\ net = [s \in Slaves |-> <<>>]
  /\ srv = [s \in Slaves |-> IdleHandler]
  /\ snap = [s \in Slaves |-> <<>>]
  /\ pc = [s \in Slaves |-> "backoff"]
  /\ cur = [s \in Slaves |-> 0]
  /\ mcur = [s \in Slaves |-> 0]
  /\ cache = [s \in Slaves |-> NoItems]
  /\ heard = [s \in Slaves |-> 0]
  /\ synced = [s \in Slaves |-> 0]
  /\ calm = FALSE

-----------------------------------------------------------------------------
(***************************************************************************)
(* Writing rows on the master.                                             *)
(***************************************************************************)

\* A fault of class f may happen now.
Fault(f) == f \in Faults /\ ~calm

\* Upserted: the row is written and no longer marked deleted.
Upserted(r) == [ver |-> r.ver + 1, live |-> TRUE, gone |-> r.gone]

\* Soft deletion: a row that is not yet marked deleted is.
Deleted(r) == IF r.live THEN [ver |-> r.ver + 1, live |-> FALSE, gone |-> r.ver + 1]
              ELSE r

\* Publisher p has nothing left of an earlier change.
Free(p) == pub[p].pc = "idle" /\ pub[p].todo = {}

ReadJob(k) == [key |-> k, act |-> "read", ver |-> 0]
DeleteJob(k) == [key |-> k, act |-> "delete", ver |-> Deleted(row[k]).ver]

\* One request to apply a plan: its upserts and deletions are committed in
\* one transaction.  A deleted domain is published only if its projection
\* could still be read; a deleted DNS record always is.  The plan's
\* hostname is always published again.
ApplyPlan(p, h, ups, dels) ==
  /\ Free(p)
  /\ row' = [k \in Keys |-> IF k \in ups THEN Upserted(row[k])
                            ELSE IF k \in dels THEN Deleted(row[k])
                            ELSE row[k]]
  /\ pub' = [pub EXCEPT ![p].todo =
               {DeleteJob(k) : k \in {d \in dels : d \in DnsRecords
                                                   \/ row[d].live}}
               \cup {ReadJob(k) : k \in ups \cup {h}}]
  /\ UNCHANGED <<log, stream, snapshot, slave, calm>>

\* A Kubernetes bridge writes the rows of a changed object: the DNS bridge
\* DNS records, the ingress and gateway bridges domains.  It publishes
\* the upserted rows and, for domains, the deleted hosts, by the same
\* function: that reads the row back and publishes nothing when it is gone.
BridgeSync(p, ups, dels) ==
  /\ Free(p)
  /\ ups \cup dels \subseteq DnsRecords \/ ups \cup dels \subseteq Hosts
  /\ \A k \in dels : row[k].live
  /\ row' = [k \in Keys |-> IF k \in ups THEN Upserted(row[k])
                            ELSE IF k \in dels THEN Deleted(row[k])
                            ELSE row[k]]
  /\ pub' = [pub EXCEPT ![p].todo =
               {ReadJob(k) : k \in ups \cup (dels \cap Hosts)}]
  /\ UNCHANGED <<log, stream, snapshot, slave, calm>>

\* The certificate reconciler stored a new revision for a live domain: the
\* domain's projection changes, and it is published.
CertificateIssued(p, h) ==
  /\ Free(p)
  /\ row[h].live
  /\ row' = [row EXCEPT ![h] = Upserted(@)]
  /\ pub' = [pub EXCEPT ![p].todo = {ReadJob(h)}]
  /\ UNCHANGED <<log, stream, snapshot, slave, calm>>

\* The per-resource PUT handler of the manage API: it publishes nothing.
PutResource(k) ==
  /\ row' = [row EXCEPT ![k] = Upserted(@)]
  /\ UNCHANGED <<log, pub, stream, snapshot, slave, calm>>

\* The per-resource DELETE handler of the manage API: it publishes nothing.
\* It deletes a DNS record, or a route or a backend of a domain, which changes
\* the domain's projection.  For a domain itself it selects by a column that
\* the table does not have, and fails.
DeleteResource(k) ==
  /\ row[k].live
  /\ row' = [row EXCEPT ![k] = IF k \in DnsRecords THEN Deleted(@) ELSE Upserted(@)]
  /\ UNCHANGED <<log, pub, stream, snapshot, slave, calm>>

-----------------------------------------------------------------------------
(***************************************************************************)
(* Publishing on the master.                                               *)
(***************************************************************************)

\* The order in which applyPlan publishes: deleted domains, deleted DNS
\* records, domains, DNS records.
Rank(j) == (IF j.act = "delete" THEN 0 ELSE 2)
           + (IF j.key \in Hosts THEN 0 ELSE 1)

\* Publisher r after it took job j.  The row to publish is read here; a row
\* that is not found ends the job.
Taken(r, j) ==
  IF j.act = "delete"
  THEN [r EXCEPT !.pc = "append", !.todo = @ \ {j}, !.key = j.key,
                 !.act = "delete", !.ver = j.ver]
  ELSE IF row[j.key].live
  THEN [r EXCEPT !.pc = "append", !.todo = @ \ {j}, !.key = j.key,
                 !.act = "upsert", !.ver = row[j.key].ver]
  ELSE [r EXCEPT !.todo = @ \ {j}]

\* The publisher starts on one job.
TakeJob(p) ==
  /\ pub[p].pc = "idle"
  /\ \E j \in pub[p].todo :
       /\ \A o \in pub[p].todo : Rank(j) <= Rank(o)
       /\ pub' = [pub EXCEPT ![p] = Taken(@, j)]
  /\ UNCHANGED <<row, requests, log, stream, snapshot, slave, calm>>

\* The snapshot record is inserted and gets the next id.  SQLite has one
\* writer at a time, so ids become visible in order.  Postgres takes the id
\* from a sequence when the insert runs and shows the row when it commits.
AppendRecord(p) ==
  /\ pub[p].pc = "append"
  /\ log' = Append(log, [key |-> pub[p].key, act |-> pub[p].act,
                         ver |-> pub[p].ver, vis |-> Driver = "sqlite"])
  /\ pub' = [pub EXCEPT ![p].pc = IF Driver = "sqlite" THEN "cast" ELSE "commit",
                        ![p].id = Len(log) + 1]
  /\ UNCHANGED <<row, requests, stream, snapshot, slave, calm>>

\* Postgres only: the insert commits.
CommitRecord(p) ==
  /\ pub[p].pc = "commit"
  /\ log' = [log EXCEPT ![pub[p].id].vis = TRUE]
  /\ pub' = [pub EXCEPT ![p].pc = "cast"]
  /\ UNCHANGED <<row, requests, stream, snapshot, slave, calm>>

\* Hub.Boardcast: offered to every channel, lost where the channel is full.
Boardcast(p) ==
  /\ pub[p].pc = "cast"
  /\ hub' = [s \in Slaves |->
       IF reg[s] /\ Len(hub[s]) < HubBuffer
       THEN Append(hub[s], [id |-> pub[p].id, key |-> pub[p].key,
                            act |-> pub[p].act, ver |-> pub[p].ver])
       ELSE hub[s]]
  /\ pub' = [pub EXCEPT ![p] = IdlePub(pub[p].todo)]
  /\ UNCHANGED <<row, requests, log, reg, net, snapshot, slave, calm>>

\* A read or an append fails: the publisher returns the error and leaves
\* the rest of its jobs undone, although the rows are committed.
PublishFails(p) ==
  /\ Fault("publish")
  /\ \/ pub[p].pc \in {"append", "commit"}
     \/ pub[p].pc = "idle" /\ pub[p].todo # {}
  /\ pub' = [pub EXCEPT ![p] = IdlePub({})]
  /\ UNCHANGED <<row, requests, log, stream, snapshot, slave, calm>>

-----------------------------------------------------------------------------
(***************************************************************************)
(* Serving a slave.                                                        *)
(***************************************************************************)

\* The Subscribe handler starts, some time after the slave opened the stream.
Register(s) ==
  /\ pc[s] # "backoff"
  /\ ~reg[s]
  /\ reg' = [reg EXCEPT ![s] = TRUE]
  /\ hub' = [hub EXCEPT ![s] = <<>>]
  /\ UNCHANGED <<master, net, snapshot, slave, calm>>

\* The Subscribe handler sends a notice on the stream.
Forward(s) ==
  /\ reg[s]
  /\ hub[s] # <<>>
  /\ hub' = [hub EXCEPT ![s] = Tail(@)]
  /\ net' = [net EXCEPT ![s] = Append(@, Head(hub[s]))]
  /\ UNCHANGED <<master, reg, snapshot, slave, calm>>

\* Mutant of ListRecords: off by one, the record after the cursor is left out.
MutantListFromNext(s) ==
  /\ srv[s].st = "list"
  /\ srv' = [srv EXCEPT ![s].st = "read",
                        ![s].todo = {i \in 1 .. Len(log) :
                                       i > srv[s].last + 1 /\ log[i].vis},
                        ![s].upto = Len(log)]
  /\ UNCHANGED <<master, stream, snap, slave, calm>>

\* The GetSnapshot handler lists the snapshot records after the cursor.
ListRecords(s) ==
  /\ srv[s].st = "list"
  /\ srv' = [srv EXCEPT ![s].st = "read",
                        ![s].todo = {i \in 1 .. Len(log) :
                                       i > srv[s].last /\ log[i].vis},
                        ![s].upto = Len(log)]
  /\ UNCHANGED <<master, stream, snap, slave, calm>>

\* Mutant of Chunk: it carries the end of the log instead of the last record
\* it stands for.
MutantChunkAhead(h, last) ==
  [id |-> h.upto, items |-> h.items, last |-> last,
   base |-> h.base, upto |-> h.upto]

\* A chunk carries the id of the last record looked at.
Chunk(h, last) == [id |-> h.last, items |-> h.items, last |-> last,
                   base |-> h.base, upto |-> h.upto]

\* The handler after a chunk is sent.
NextChunk(h) == [h EXCEPT !.items = NoItems, !.count = 0, !.base = h.last]

\* The handler after the row of record i was read, and found or not.
WithRow(h, i, found) ==
  LET seen == [h EXCEPT !.todo = @ \ {i}, !.last = i]
  IN  IF found
      THEN [seen EXCEPT !.items = [@ EXCEPT ![log[i].key] = row[log[i].key].ver],
                        !.count = @ + 1]
      ELSE seen

\* Whether the row of record i is found: a read that fails counts as not.
Found(i) == {row[log[i].key].live}
            \cup (IF Fault("snapshot_read") THEN {FALSE} ELSE {})

\* The handler is now h: it sends the chunk when it is full.
Advance(s, h) ==
  IF h.count >= ChunkSize
  THEN /\ snap' = [snap EXCEPT ![s] = Append(@, Chunk(h, FALSE))]
       /\ srv' = [srv EXCEPT ![s] = NextChunk(h)]
  ELSE /\ srv' = [srv EXCEPT ![s] = h]
       /\ UNCHANGED snap

\* The handler goes on to the next record: it reads the row as it is now and
\* skips it when it is not found.
ReadRow(s) ==
  /\ srv[s].st = "read"
  /\ \E i \in srv[s].todo :
       /\ \A j \in srv[s].todo : i <= j
       /\ \E found \in Found(i) : Advance(s, WithRow(srv[s], i, found))
  /\ UNCHANGED <<master, stream, slave, calm>>

\* All records are done: the last chunk is sent, even when it is empty.
SendLast(s) ==
  /\ srv[s].st = "read"
  /\ srv[s].todo = {}
  /\ snap' = [snap EXCEPT ![s] = Append(@, Chunk(srv[s], TRUE))]
  /\ srv' = [srv EXCEPT ![s] = IdleHandler]
  /\ UNCHANGED <<master, stream, slave, calm>>

-----------------------------------------------------------------------------
(***************************************************************************)
(* The slave.                                                              *)
(***************************************************************************)

Requested(after) == [IdleHandler EXCEPT !.st = "list", !.last = after,
                                        !.base = after]

\* Mutant of OpenSession: a new session starts with a new cache database.
MutantOpenFromZero(s) ==
  /\ pc[s] = "backoff"
  /\ pc' = [pc EXCEPT ![s] = "catchup"]
  /\ mcur' = [mcur EXCEPT ![s] = 0]
  /\ cur' = [cur EXCEPT ![s] = 0]
  /\ synced' = [synced EXCEPT ![s] = 0]
  /\ cache' = [cache EXCEPT ![s] = NoItems]
  /\ srv' = [srv EXCEPT ![s] = Requested(0)]
  /\ UNCHANGED <<master, stream, snap, heard, calm>>

\* Start calls Subscribe, which opens the stream, loads the cursor and asks
\* for a snapshot.
OpenSession(s) ==
  /\ pc[s] = "backoff"
  /\ pc' = [pc EXCEPT ![s] = "catchup"]
  /\ mcur' = [mcur EXCEPT ![s] = cur[s]]
  /\ srv' = [srv EXCEPT ![s] = Requested(cur[s])]
  /\ UNCHANGED <<master, stream, snap, cur, cache, heard, synced, calm>>

\* The keys whose row could not be written in a transaction.
FailedWrites == IF Fault("cache_write") THEN SUBSET Keys ELSE {{}}

\* The outcomes of writing the cursor in a transaction.
CursorWritten == IF Fault("cursor_write") THEN BOOLEAN ELSE {TRUE}

\* Mutant of Merge: the insert does nothing when the row exists.
MutantInsertOnly(rows, items, failed) ==
  [k \in Keys |-> IF items[k] # 0 /\ k \notin failed /\ rows[k] = 0
                  THEN items[k] ELSE rows[k]]

\* The cached rows after the rows of a chunk are upserted.
Merge(rows, items, failed) ==
  [k \in Keys |-> IF items[k] # 0 /\ k \notin failed
                  THEN items[k] ELSE rows[k]]

\* ApplySnapshot: one transaction writes the rows of the chunk and, once for
\* each of them, the chunk's id to sync_state.  Without rows the cursor
\* stays where it is.  After the last chunk the cursor is loaded again.
ApplyChunk(s) ==
  /\ pc[s] = "catchup"
  /\ snap[s] # <<>>
  /\ LET c == Head(snap[s]) IN
     /\ \E failed \in FailedWrites :
          cache' = [cache EXCEPT ![s] = Merge(@, c.items, failed)]
     /\ \E written \in CursorWritten :
          cur' = [cur EXCEPT ![s] = IF c.items # NoItems /\ written
                                    THEN MaxOf(@, c.id) ELSE @]
     /\ synced' = [synced EXCEPT ![s] = MaxOf(@, c.id)]
     /\ IF c.last
        THEN /\ pc' = [pc EXCEPT ![s] = "recv"]
             /\ mcur' = [mcur EXCEPT ![s] = cur'[s]]
        ELSE UNCHANGED <<pc, mcur>>
     /\ snap' = [snap EXCEPT ![s] = Tail(@)]
  /\ UNCHANGED <<master, stream, srv, heard, calm>>

\* The end of a session: everything in flight is gone, the slave backs off.
EndSession(s) ==
  /\ pc' = [pc EXCEPT ![s] = "backoff"]
  /\ reg' = [reg EXCEPT ![s] = FALSE]
  /\ hub' = [hub EXCEPT ![s] = <<>>]
  /\ net' = [net EXCEPT ![s] = <<>>]
  /\ snap' = [snap EXCEPT ![s] = <<>>]
  /\ srv' = [srv EXCEPT ![s] = IdleHandler]
  /\ mcur' = [mcur EXCEPT ![s] = 0]

\* ApplyChangelog: a notice the durable cursor has passed is ignored, and one
\* that is not next after it is an error, which ends the session.
ApplyNotice(s, n) ==
  IF cur[s] + 1 < n.id
  THEN /\ EndSession(s)
       /\ UNCHANGED <<cur, cache, synced>>
  ELSE /\ LET next == cur[s] < n.id IN
          /\ \E failed \in FailedWrites :
               cache' = [cache EXCEPT ![s][n.key] =
                           IF ~next \/ n.key \in failed THEN @
                           ELSE IF n.act = "delete" THEN 0 ELSE n.ver]
          /\ \E written \in CursorWritten :
               cur' = [cur EXCEPT ![s] = IF next /\ written THEN n.id ELSE @]
       /\ synced' = [synced EXCEPT ![s] = MaxOf(@, n.id)]
       /\ mcur' = [mcur EXCEPT ![s] = n.id]
       /\ net' = [net EXCEPT ![s] = Tail(@)]
       /\ UNCHANGED <<pc, reg, hub, srv, snap>>

\* Mutant of RepairGap: the notice is dropped and nothing else happens.
MutantGapIgnored(s) ==
  /\ net' = [net EXCEPT ![s] = Tail(@)]
  /\ UNCHANGED <<pc, srv>>

\* Mutant of RepairGap: the notice is looked at again after the catch-up.
MutantGapRetried(s) ==
  /\ pc' = [pc EXCEPT ![s] = "catchup"]
  /\ srv' = [srv EXCEPT ![s] = Requested(mcur[s])]
  /\ UNCHANGED net

\* A notice beyond the next one: it is dropped, and a catch-up starts from
\* the cursor.
RepairGap(s) ==
  /\ net' = [net EXCEPT ![s] = Tail(@)]
  /\ pc' = [pc EXCEPT ![s] = "catchup"]
  /\ srv' = [srv EXCEPT ![s] = Requested(mcur[s])]

\* The receive loop of Subscribe: an old notice is skipped, a gap starts a
\* catch-up, the next one is applied.
RecvNotice(s) ==
  /\ pc[s] = "recv"
  /\ net[s] # <<>>
  /\ LET n == Head(net[s]) IN
     /\ heard' = [heard EXCEPT ![s] = MaxOf(@, n.id)]
     /\ \/ /\ n.id <= mcur[s]
           /\ net' = [net EXCEPT ![s] = Tail(@)]
           /\ UNCHANGED <<pc, cur, mcur, cache, synced, reg, hub, srv, snap>>
        \/ /\ n.id > mcur[s] + 1
           /\ RepairGap(s)
           /\ UNCHANGED <<cur, mcur, cache, synced, reg, hub, snap>>
        \/ /\ n.id = mcur[s] + 1
           /\ ApplyNotice(s, n)
  /\ UNCHANGED <<master, calm>>

-----------------------------------------------------------------------------
(***************************************************************************)
(* Faults.                                                                 *)
(***************************************************************************)

\* The stream breaks, or the slave process dies and starts again: either way
\* only the cache database is left, and Start tries again after its backoff.
SessionLost(s) ==
  /\ Fault("session")
  /\ pc[s] # "backoff"
  /\ EndSession(s)
  /\ UNCHANGED <<master, cur, cache, heard, synced, calm>>

\* The master dies and is restarted: its database is left, publications in
\* progress and the hub are not.
MasterCrash ==
  /\ Fault("crash")
  /\ pub' = [p \in Publishers |-> IdlePub({})]
  /\ pc' = [s \in Slaves |-> "backoff"]
  /\ reg' = [s \in Slaves |-> FALSE]
  /\ hub' = [s \in Slaves |-> <<>>]
  /\ net' = [s \in Slaves |-> <<>>]
  /\ snap' = [s \in Slaves |-> <<>>]
  /\ srv' = [s \in Slaves |-> IdleHandler]
  /\ mcur' = [s \in Slaves |-> 0]
  /\ UNCHANGED <<row, requests, log, cur, cache, heard, synced, calm>>

\* From here on no fault happens.
CalmDown ==
  /\ ~calm
  /\ calm' = TRUE
  /\ UNCHANGED <<master, stream, snapshot, slave>>

-----------------------------------------------------------------------------

Write ==
  /\ requests < MaxRequests
  /\ requests' = requests + 1
  /\ \/ /\ "plan" \in Writers
        /\ \E p \in Publishers, h \in Hosts, ups, dels \in SUBSET Keys :
             ups \cap dels = {} /\ ApplyPlan(p, h, ups, dels)
     \/ /\ "bridge" \in Writers
        /\ \E p \in Publishers, ups, dels \in SUBSET Keys :
             ups \cap dels = {} /\ BridgeSync(p, ups, dels)
     \/ /\ "issuer" \in Writers
        /\ \E p \in Publishers, h \in Hosts : CertificateIssued(p, h)
     \/ /\ "resource" \in Writers
        /\ \E k \in Keys : PutResource(k) \/ DeleteResource(k)

Publish(p) == TakeJob(p) \/ AppendRecord(p) \/ CommitRecord(p) \/ Boardcast(p)

Serve(s) == Register(s) \/ Forward(s) \/ ListRecords(s) \/ ReadRow(s) \/ SendLast(s)

Follow(s) == OpenSession(s) \/ ApplyChunk(s) \/ RecvNotice(s)

Next ==
  \/ Write
  \/ \E p \in Publishers : Publish(p) \/ PublishFails(p)
  \/ \E s \in Slaves : Serve(s) \/ Follow(s) \/ SessionLost(s)
  \/ MasterCrash

Spec == Init /\ [][Next]_vars

(***************************************************************************)
(* Liveness is about a system in which faults stop at some point.  Every   *)
(* goroutine of the master and every slave keeps running: a publisher does *)
(* not stop half-way, the gRPC server runs its handlers and the transport  *)
(* delivers, the backoff of a slave is finite.                             *)
(***************************************************************************)
Fairness ==
  /\ WF_vars(CalmDown)
  /\ \A p \in Publishers : WF_vars(Publish(p))
  /\ \A s \in Slaves :
       /\ WF_vars(Register(s))
       /\ WF_vars(Forward(s))
       /\ WF_vars(ListRecords(s) \/ ReadRow(s) \/ SendLast(s))
       /\ WF_vars(Follow(s))

LiveSpec == Init /\ [][Next \/ CalmDown]_vars /\ Fairness

-----------------------------------------------------------------------------
(***************************************************************************)
(* Properties.                                                             *)
(***************************************************************************)

\* The type of the state.
TypeOK ==
  /\ row \in [Keys -> Rows]
  /\ requests \in Nat
  /\ log \in Seq(Records)
  /\ pub \in [Publishers -> Pubs]
  /\ reg \in [Slaves -> BOOLEAN]
  /\ hub \in [Slaves -> Seq(Notices)]
  /\ net \in [Slaves -> Seq(Notices)]
  /\ srv \in [Slaves -> Handlers]
  /\ snap \in [Slaves -> Seq(Chunks)]
  /\ pc \in [Slaves -> {"backoff", "catchup", "recv"}]
  /\ cur \in [Slaves -> Nat]
  /\ mcur \in [Slaves -> Nat]
  /\ cache \in [Slaves -> [Keys -> Nat]]
  /\ heard \in [Slaves -> Nat]
  /\ synced \in [Slaves -> Nat]
  /\ calm \in BOOLEAN

\* Version v of k is at least as new as what record i published, or k was
\* deleted after that.
Fresh(v, k, i) == v >= log[i].ver \/ row[k].gone > log[i].ver

\* Record i is the last one of its key among the first n.
LastOfKey(i, n) ==
  /\ i \in 1 .. n
  /\ log[i].vis
  /\ \A j \in (i + 1) .. n : log[j].vis => log[j].key # log[i].key

\* Among the first n records, the last one of each key, when it is an
\* upsert, has reached the content c.
Covers(c, n) ==
  \A i \in 1 .. n : LastOfKey(i, n) /\ log[i].act = "upsert"
                      => Fresh(c[log[i].key], log[i].key, i)

\* A slave never moves its cursor past an upsert it does not have: whatever
\* notices the hub dropped, in whatever order publishers raced, wherever
\* slave and master crashed, the cache holds the last published upsert of
\* each row up to the position the slave has reached (or something newer),
\* and the durable cursor, from which recovery starts, is not ahead of that
\* position.  (Subscribe, CatchUpSnapshots, ApplySnapshot, ApplyChangelog
\* with handleGetSnapshot and Hub.Boardcast.)
NoSkippedUpsert ==
  \A s \in Slaves : /\ synced[s] <= Len(log)
                    /\ cur[s] <= synced[s]
                    /\ Covers(cache[s], synced[s])

\* The part of NoSkippedUpsert that is left when the write of the cursor may
\* fail while the row is written: the cursor is not ahead of the content.
CursorIsCovered ==
  \A s \in Slaves : cur[s] <= Len(log) /\ Covers(cache[s], cur[s])

\* Gap detection is complete: a slave that waits for notices has caught up
\* with every id it was ever told of, also when the notice that showed the
\* gap was itself thrown away, and also across sessions.
GapsAreRepaired ==
  \A s \in Slaves : pc[s] = "recv" => heard[s] <= synced[s]

\* The position that a slave recovers from never moves back, over reconnects
\* and crashes of either side.
CursorNeverMovesBack ==
  [][\A s \in Slaves : cur'[s] >= cur[s] /\ synced'[s] >= synced[s]]_vars

\* When faults stop, publications are completed, and every slave gets
\* through its reconnects and catch-ups to waiting for notices, with nothing
\* left in flight: the catch-ups that gaps start do not go on for ever.
SystemSettles ==
  <>[](/\ \A p \in Publishers : Free(p)
       /\ \A s \in Slaves : /\ pc[s] = "recv"
                            /\ reg[s]
                            /\ hub[s] = <<>>
                            /\ net[s] = <<>>)

=============================================================================
