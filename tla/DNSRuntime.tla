----------------------------- MODULE DNSRuntime -----------------------------
(***************************************************************************)
(* The DNS runtime of a slave: replicated records reach it over a channel, *)
(* from the transaction that caches them; the records of DnsDomainRecord   *)
(* objects reach it from an informer.  Two threads, the restore loop and   *)
(* the informer's handler, merge both lists under a lock and restore the   *)
(* record store with the result after they have released it.               *)
(*                                                                         *)
(* The store is the table that DNSStore implements: a restore is one step. *)
(***************************************************************************)
EXTENDS DNSRecords, FiniteSets, SequencesExt

CONSTANTS
  Replicated, \* the records the master may publish
  Keys,       \* DnsDomainRecord objects (namespace/name)
  Specs,      \* Specs[k]: the lists of records object k may declare
  ChanCap,    \* capacity of dnsChan, 100 in the code
  MaxChanges, \* bound: changes of records and of objects
  MaxFaults   \* bound: failed commits and crashes

VARIABLES
  listening,\* the slave is configured with a DNS listen address; by default it is not
  up,       \* the slave process runs
  cache,    \* the committed rows of the slave's dns_records, one per ID
  tx,       \* the transaction of ApplyChangelog
  dnsChan,  \* lists of records on their way to the restore loop
  baseDNS,  \* the engine's list of replicated records
  k8sDNS,   \* the engine's list of records from objects
  table,    \* the record store
  loop,     \* the restore loop
  kube,     \* kube[k]: object k in the cluster
  listed,   \* listed[k]: object k as the informer last saw it
  events,   \* what the informer has still to hand to the bridge
  records,  \* records[k]: the list the bridge has for k, <<>> for none
  handler,  \* the informer's handler
  changes,  \* how much of MaxChanges is used
  faults    \* how much of MaxFaults is used

state == <<up, cache, tx, dnsChan, baseDNS, k8sDNS, table, loop, kube, listed, events,
           records, handler, changes, faults>>
vars == <<listening, state>>

bounds == <<changes, faults>>

cluster == <<kube, listed, events>>
engine == <<baseDNS, k8sDNS, table>>
bridge == <<records, handler>>

\* An object: absent, without a domain, or with a list of records.
Absent == [is |-> "absent", list |-> <<>>]
Invalid == [is |-> "invalid", list |-> <<>>]
Valid(list) == [is |-> "valid", list |-> list]
IsValid(o) == o.is = "valid"

Idle == [pc |-> "idle", list |-> <<>>]
NoTx == [pc |-> "idle", record |-> CHOOSE r \in Replicated : TRUE, deleted |-> FALSE]

Init ==
  /\ listening \in BOOLEAN
  /\ up = FALSE
  /\ cache = {}
  /\ tx = NoTx
  /\ dnsChan = <<>>
  /\ baseDNS = <<>> /\ k8sDNS = <<>> /\ table = {}
  /\ loop = Idle /\ handler = Idle
  /\ kube = [k \in Keys |-> Absent]
  /\ listed = [k \in Keys |-> Absent]
  /\ events = <<>>
  /\ records = [k \in Keys |-> <<>>]
  /\ changes = 0 /\ faults = 0

Change == changes < MaxChanges /\ changes' = changes + 1 /\ UNCHANGED faults
Fault == faults < MaxFaults /\ faults' = faults + 1 /\ UNCHANGED changes

\* flattenRecordsLocked: the lists of the objects in the order of their keys.
Flatten(recs) ==
  FlattenSeq([i \in 1..Cardinality(Keys) |->
    recs[SetToSortSeq(Keys, LAMBDA x, y : x < y)[i]]])

\* parseDNSDomainRecordState: an object without a domain is no state at all,
\* and then the bridge keeps what it has for the key.
Parsed(k, o) == IF IsValid(o) THEN o.list ELSE records[k]

\* LoadInitial lists the cluster and only adds; nothing else runs yet.
Start ==
  /\ ~up
  /\ up' = TRUE
  /\ IF listening
     THEN /\ records' = [k \in Keys |-> Parsed(k, kube[k])]
          /\ k8sDNS' = Flatten(records')
          /\ table' = LastWins(baseDNS \o k8sDNS')
     ELSE UNCHANGED <<records, k8sDNS, table>>
  /\ UNCHANGED <<cache, tx, dnsChan, baseDNS, loop, cluster, handler, bounds>>

\* The process dies: what is not in the cache is gone.
Crash ==
  /\ up /\ Fault
  /\ up' = FALSE
  /\ tx' = NoTx /\ dnsChan' = <<>>
  /\ baseDNS' = <<>> /\ k8sDNS' = <<>> /\ table' = {}
  /\ loop' = Idle /\ handler' = Idle
  /\ records' = [k \in Keys |-> <<>>]
  /\ listed' = [k \in Keys |-> Absent] /\ events' = <<>>
  /\ UNCHANGED <<cache, kube>>

-----------------------------------------------------------------------------
(* ApplyChangelog: one transaction per notice, in the order of the log.    *)

\* dealDNSRecords begins with the row; only a record that is not deleted goes
\* on to the channel.
Apply(r, deleted) ==
  /\ up /\ tx.pc = "idle" /\ Change
  /\ tx' = [pc |-> IF deleted THEN "commit" ELSE "send", record |-> r, deleted |-> deleted]
  /\ UNCHANGED <<up, cache, dnsChan, engine, loop, cluster, bridge>>

\* The send blocks while the channel is full.
Send ==
  /\ up /\ tx.pc = "send"
  /\ Len(dnsChan) < ChanCap
  /\ dnsChan' = Append(dnsChan, <<tx.record>>)
  /\ tx' = [tx EXCEPT !.pc = "commit"]
  /\ UNCHANGED <<up, cache, engine, loop, cluster, bridge, bounds>>

Commit ==
  /\ up /\ tx.pc = "commit"
  /\ cache' = {r \in cache : r.id # tx.record.id} \cup (IF tx.deleted THEN {} ELSE {tx.record})
  /\ tx' = NoTx
  /\ UNCHANGED <<up, dnsChan, engine, loop, cluster, bridge, bounds>>

\* The transaction is rolled back.
CommitFails ==
  /\ up /\ tx.pc = "commit" /\ Fault
  /\ tx' = NoTx
  /\ UNCHANGED <<up, cache, dnsChan, engine, loop, cluster, bridge>>

-----------------------------------------------------------------------------
(* DNSRestoreLoop runs when the slave listens.                             *)

\* RestoreRecords, once: the loop ends after the first list.
RestoreRecordsOnce ==
  /\ up /\ listening /\ loop.pc = "idle" /\ dnsChan # <<>> /\ baseDNS = <<>>
  /\ dnsChan' = Tail(dnsChan)
  /\ baseDNS' = Head(dnsChan)
  /\ loop' = [pc |-> "restore", list |-> baseDNS' \o k8sDNS]
  /\ UNCHANGED <<up, cache, tx, k8sDNS, table, cluster, bridge, bounds>>

\* RestoreRecords: what comes over the channel replaces the whole base list.
RestoreRecords ==
  /\ up /\ listening /\ loop.pc = "idle" /\ dnsChan # <<>>
  /\ dnsChan' = Tail(dnsChan)
  /\ baseDNS' = Head(dnsChan)
  /\ loop' = [pc |-> "restore", list |-> baseDNS' \o k8sDNS]
  /\ UNCHANGED <<up, cache, tx, k8sDNS, table, cluster, bridge, bounds>>

\* The store is restored after the lock is released.
RestoreBase ==
  /\ loop.pc = "restore"
  /\ table' = LastWins(loop.list)
  /\ loop' = Idle
  /\ UNCHANGED <<up, cache, tx, dnsChan, baseDNS, k8sDNS, cluster, bridge, bounds>>

-----------------------------------------------------------------------------
(* The cluster, the informer and the bridge.                               *)

ChangeObject(k) ==
  /\ Change
  /\ kube' \in {[kube EXCEPT ![k] = o] : o \in {Valid(list) : list \in Specs[k]} \cup {Absent, Invalid}}
  /\ kube' # kube
  /\ UNCHANGED <<up, cache, tx, dnsChan, engine, loop, listed, events, bridge>>

\* The informer sees the object, or that one it had seen is gone.
Watch(k) ==
  /\ up /\ listening
  /\ kube[k] # listed[k]
  /\ listed' = [listed EXCEPT ![k] = kube[k]]
  /\ events' = Append(events, [key |-> k, object |-> kube[k]])
  /\ UNCHANGED <<up, cache, tx, dnsChan, engine, loop, kube, bridge, bounds>>

\* Every 30 seconds the informer hands out again what it has.
Resync(k) ==
  /\ up /\ listening
  /\ events = <<>> /\ handler.pc = "idle"
  /\ listed[k] # Absent
  /\ events' = <<[key |-> k, object |-> listed[k]]>>
  /\ UNCHANGED <<up, cache, tx, dnsChan, engine, loop, kube, listed, bridge, bounds>>

\* storeObject that keeps the first list of a key.
HandleFirstOnly ==
  /\ up /\ events # <<>> /\ handler.pc = "idle"
  /\ LET e == Head(events)
     IN  /\ records' = [records EXCEPT ![e.key] = IF @ = <<>> THEN e.object.list ELSE @]
         /\ handler' = [pc |-> "replace", list |-> Flatten(records')]
  /\ events' = Tail(events)
  /\ UNCHANGED <<up, cache, tx, dnsChan, engine, loop, kube, listed, bounds>>

\* storeObject, updateObject and deleteObject: the bridge's map, under its lock.
Handle ==
  /\ up /\ events # <<>> /\ handler.pc = "idle"
  /\ LET e == Head(events)
     IN  IF e.object = Invalid
         THEN UNCHANGED bridge
         ELSE /\ records' = [records EXCEPT ![e.key] =
                               IF e.object = Absent THEN <<>> ELSE Parsed(e.key, e.object)]
              /\ handler' = [pc |-> "replace", list |-> Flatten(records')]
  /\ events' = Tail(events)
  /\ UNCHANGED <<up, cache, tx, dnsChan, engine, loop, kube, listed, bounds>>

\* replaceK8sRecords without the records of the channel.
ReplaceOnly ==
  /\ handler.pc = "replace"
  /\ k8sDNS' = handler.list
  /\ handler' = [pc |-> "restore", list |-> k8sDNS']
  /\ UNCHANGED <<up, cache, tx, dnsChan, baseDNS, table, loop, cluster, records, bounds>>

\* replaceK8sRecords, under the engine's lock
ReplaceK8sRecords ==
  /\ handler.pc = "replace"
  /\ k8sDNS' = handler.list
  /\ handler' = [pc |-> "restore", list |-> baseDNS \o k8sDNS']
  /\ UNCHANGED <<up, cache, tx, dnsChan, baseDNS, table, loop, cluster, records, bounds>>

\* and the restore, after it.
RestoreK8s ==
  /\ handler.pc = "restore"
  /\ table' = LastWins(handler.list)
  /\ handler' = Idle
  /\ UNCHANGED <<up, cache, tx, dnsChan, baseDNS, k8sDNS, loop, cluster, records, bounds>>

Step ==
  \/ Start \/ Crash
  \/ \E r \in Replicated : Apply(r, FALSE)
  \/ \E r \in cache : Apply(r, TRUE)
  \/ Send \/ Commit \/ CommitFails
  \/ RestoreRecords \/ RestoreBase
  \/ \E k \in Keys : ChangeObject(k) \/ Watch(k) \/ Resync(k)
  \/ Handle \/ ReplaceK8sRecords \/ RestoreK8s

Next == Step /\ UNCHANGED listening

Spec == Init /\ [][Next]_vars

\* The process is restarted, its threads and the transaction make progress,
\* the informer watches and resyncs.
Fairness ==
  /\ WF_state(Start) /\ WF_state(Send) /\ WF_state(Commit)
  /\ WF_state(RestoreRecords) /\ WF_state(RestoreBase)
  /\ WF_state(Handle) /\ WF_state(ReplaceK8sRecords) /\ WF_state(RestoreK8s)
  /\ \A k \in Keys : WF_state(Watch(k)) /\ SF_state(Resync(k))

LiveSpec == Spec /\ Fairness
-----------------------------------------------------------------------------

\* Lookup: the bridge's records come before the store's.
BridgeAnswer(q) ==
  {r \in Records : /\ \E k \in Keys : r \in ToSet(records[k])
                   /\ r.enabled /\ Question(r.fqdn, r.type) = q}

Answer(q) == IF BridgeAnswer(q) # {} THEN BridgeAnswer(q) ELSE Matching(table, q)

\* A send that nobody will ever receive: the channel is full, and without a
\* DNS listener there is no restore loop.
Unread == ~listening /\ tx.pc = "send" /\ Len(dnsChan) = ChanCap

\* A transaction that stores a record ends, however the restore loop, the
\* informer and failures come in between, except on a slave without a DNS
\* listener whose channel is full: there it is stuck until the process dies
\* (dealDNSRecords, DNSRestoreLoop).
ApplyFinishesUnlessUnread ==
  /\ tx.pc # "idle" ~> tx.pc = "idle" \/ Unread
  /\ [][Unread => Unread' \/ ~up']_vars

\* The race between the two restores does not last while an object exists: the
\* informer's resync brings the store back to the two merged lists.
StoreHeals ==
  <>[](up /\ ((\A k \in Keys : ~IsValid(kube[k])) \/ table = LastWins(baseDNS \o k8sDNS)))

\* Once the cluster is left alone, a slave with a DNS listener answers the
\* questions of every valid object with its records (storeObject, Lookup).
ObjectsAreAnswered ==
  listening => <>[](\A k \in Keys : IsValid(kube[k]) =>
         \A r \in ToSet(kube[k].list) : r \in Answer(Question(r.fqdn, r.type)))

=============================================================================
