----------------------- MODULE ReplicationInvariant -----------------------
(***************************************************************************)
(* The inductive invariant behind NoSkippedUpsert and GapsAreRepaired.     *)
(*                                                                         *)
(* Both hold when ids become visible in order and no write or read is      *)
(* silently given up (Tame).  They are not inductive: what a slave has     *)
(* depends on the chunks in flight to it, those on what the handler has    *)
(* read, and that on the versions in the log being versions the rows once  *)
(* had.                                                                    *)
(***************************************************************************)
EXTENDS Replication

Tame == /\ Driver = "sqlite"
        /\ Faults \cap {"snapshot_read", "cache_write", "cursor_write"} = {}

\* Row k was once live with version v.
Once(v, k) == /\ 0 < v
              /\ v <= row[k].ver
              /\ row[k].live \/ v < row[k].gone

RowInv == \A k \in Keys : /\ row[k].gone <= row[k].ver
                          /\ row[k].live => row[k].ver > 0

\* The log has no holes and publishes only what the rows once were.
LogInv == \A i \in 1 .. Len(log) :
            log[i].vis /\ (log[i].act = "upsert" => Once(log[i].ver, log[i].key))

\* Notice n says what record n.id says.
Logged(n) == /\ n.id \in 1 .. Len(log)
             /\ log[n.id].key = n.key
             /\ log[n.id].act = n.act
             /\ log[n.id].ver = n.ver

PubInv ==
  \A p \in Publishers :
    /\ pub[p].pc # "commit"
    /\ pub[p].pc = "append" /\ pub[p].act = "upsert" => Once(pub[p].ver, pub[p].key)
    /\ pub[p].pc = "cast" => Logged(pub[p])

NoticeInv(q) == \A i \in 1 .. Len(q) : Logged(q[i])

\* The row of record i was deleted after the record was written.
Gone(i) == row[log[i].key].gone > log[i].ver

\* The items f have reached the records after lo and up to hi.
ItemsFresh(f, lo, hi) ==
  \A i \in (lo + 1) .. hi :
    log[i].act = "upsert" => Fresh(f[log[i].key], log[i].key, i)

\* No item of f is older than a record up to hi.
ItemsNew(f, hi) ==
  \A i \in 1 .. hi : log[i].act = "upsert" /\ f[log[i].key] # 0
                       => Fresh(f[log[i].key], log[i].key, i)

\* Items f stand for the records after base and up to last, of a log that
\* was listed up to upto after slave s had got where it is.
BatchOK(s, f, base, last, upto) ==
  /\ base <= last
  /\ last <= upto
  /\ upto <= Len(log)
  /\ synced[s] <= upto
  /\ heard[s] <= upto
  /\ ItemsFresh(f, base, last)
  /\ ItemsNew(f, upto)

\* Where the chunks in flight to s end.
End(s) == IF snap[s] = <<>> THEN synced[s] ELSE snap[s][Len(snap[s])].id

\* The handler that serves s.
ServeInv(s) ==
  /\ srv[s].st = "list" =>
       /\ snap[s] = <<>>
       /\ srv[s].items = NoItems
       /\ srv[s].base = srv[s].last
       /\ srv[s].last <= synced[s]
  /\ srv[s].st = "read" =>
       /\ BatchOK(s, srv[s].items, srv[s].base, srv[s].last, srv[s].upto)
       /\ srv[s].todo = (srv[s].last + 1) .. srv[s].upto
       /\ srv[s].base <= End(s)
       /\ \A n \in 1 .. Len(snap[s]) : snap[s][n].upto = srv[s].upto

\* The chunks in flight to s: each starts where the one before it ends.
ChunkInv(s) ==
  \A n \in 1 .. Len(snap[s]) :
    LET c == snap[s][n] IN
    /\ BatchOK(s, c.items, c.base, c.id, c.upto)
    /\ c.base <= (IF n = 1 THEN synced[s] ELSE snap[s][n - 1].id)
    /\ c.last => n = Len(snap[s]) /\ srv[s].st = "idle" /\ c.id = c.upto
    /\ \A m \in 1 .. Len(snap[s]) : snap[s][m].upto = c.upto

\* Where s is.  What lies between its cursor and the position it has caught
\* up with are deletions only.
PosInv(s) ==
  /\ cur[s] <= synced[s]
  /\ synced[s] <= Len(log)
  /\ heard[s] <= Len(log)
  /\ pc[s] = "recv" => mcur[s] = cur[s] /\ heard[s] <= synced[s]
  /\ pc[s] # "catchup" => srv[s].st = "idle" /\ snap[s] = <<>>
  /\ \A i \in (cur[s] + 1) .. synced[s] : log[i].act = "upsert" => Gone(i)
  /\ Covers(cache[s], synced[s])

SlaveInv(s) == PosInv(s) /\ ServeInv(s) /\ ChunkInv(s)

\* The inductive invariant, for a tame system: the log, the publications in
\* progress, the notices and chunks in flight and the handlers agree on what
\* was published (the publish path of Hub, handleGetSnapshot, Subscribe).
ReplicationInv ==
  /\ RowInv
  /\ LogInv
  /\ PubInv
  /\ \A s \in Slaves : /\ NoticeInv(hub[s])
                       /\ NoticeInv(net[s])
                       /\ SlaveInv(s)

=============================================================================
