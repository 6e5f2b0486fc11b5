------------------------------ MODULE DNSBridge ------------------------------
(***************************************************************************)
(* The master's DNS bridge (src/engine/master/k8s_bridge/dns.go): it keeps *)
(* the parsed DNSDomainRecord objects in a map and, at each event of its   *)
(* informer, writes all their records to the repository, deletes the       *)
(* "k8s:" rows that are not among them, and then broadcasts every record.  *)
(* One informer goroutine does this, after LoadInitial did it once.  Rows  *)
(* are written one by one with no transaction.  Informers are as in module *)
(* IngressBridge.                                                          *)
(***************************************************************************)
EXTENDS Integers, Sequences, FiniteSets, SequencesExt

CONSTANTS Objects,        \* names of DNSDomainRecord objects
          Entries,        \* lists of records an object may have
          BadEntry,       \* a record of unknown type or without values
          ManualRows,     \* rows written through the manage API
          MaxChanges, MaxFaults  \* bounds

VARIABLES objs,       \* the cluster
          seen,       \* what the informer last handed over
          records,    \* the bridge's map
          rows,       \* dns_records that are not deleted
          writes,     \* row writes still to do
          toPublish,  \* record IDs to broadcast once they are done
          published,  \* the record last broadcast, by ID
          phase,
          changes, failures, crashes,
          missed      \* an object was deleted between LoadInitial and Listen

repoVars == <<rows, published>>
bounds == <<changes, failures, crashes, missed>>
vars == <<objs, seen, records, repoVars, writes, toPublish, phase, bounds>>

(* An object without a domain is "invalid": it does not parse.             *)
Object(is, list) == [is |-> is, list |-> list]
Absent == Object("absent", <<>>)
Invalid == Object("invalid", <<>>)
Valid == {Object("valid", list) : list \in Entries}

Row(o, k, value) == [id |-> <<o, k>>, value |-> value]

(* A bad entry is skipped but counts in the IDs of those after it.         *)
parseDNSDomainRecordState(o, obj) ==
    {Row(o, k, obj.list[k]) :
        k \in {n \in DOMAIN obj.list : obj.list[n] # BadEntry}}

IsK8s(row) == row.id[1] \in Objects

flattenRecords(recs) == UNION {recs[o] : o \in Objects}

-----------------------------------------------------------------------------

Put(row) == [op |-> "put", row |-> row]
Drop(row) == [op |-> "drop", row |-> row]

(* Mutant: no row is deleted.                                              *)
SyncPutsOnly(all) == SetToSeq({Put(r) : r \in all})

syncDNSRecords(all) ==
    SetToSeq({Put(r) : r \in all})
    \o SetToSeq({Drop(r) : r \in {x \in rows :
                    IsK8s(x) /\ x.id \notin {y.id : y \in all}}})

syncRecords(recs) ==
    LET all == flattenRecords(recs)
    IN  /\ writes' = syncDNSRecords(all)
        /\ toPublish' = SetToSeq({r.id : r \in all})

Idle == writes = <<>> /\ toPublish = <<>>

Init ==
    /\ objs = [o \in Objects |-> Absent]
    /\ seen = objs
    /\ records = [o \in Objects |-> {}]
    /\ rows = ManualRows
    /\ writes = <<>> /\ toPublish = <<>>
    /\ published = {}
    /\ phase = "down"
    /\ changes = 0 /\ failures = 0 /\ crashes = 0
    /\ missed = FALSE

ChangeObject(o) ==
    /\ changes < MaxChanges
    /\ phase = "up" => seen[o] = objs[o]
    /\ changes' = changes + 1
    /\ \E obj \in Valid \cup {Absent, Invalid} :
          /\ obj # objs[o]
          /\ objs' = [objs EXCEPT ![o] = obj]
          /\ missed' = (missed \/ (phase = "loading" /\ obj = Absent))
    /\ UNCHANGED <<seen, records, repoVars, writes, toPublish, phase, failures, crashes>>

LoadInitial ==
    /\ phase = "down"
    /\ phase' = "loading"
    /\ LET recs == [o \in Objects |-> parseDNSDomainRecordState(o, objs[o])]
       IN  records' = recs /\ syncRecords(recs)
    /\ UNCHANGED <<objs, seen, repoVars, bounds>>

Listen ==
    /\ phase = "loading"
    /\ Idle
    /\ phase' = "up"
    /\ seen' = [o \in Objects |->
                  IF records[o] = parseDNSDomainRecordState(o, objs[o])
                  THEN objs[o] ELSE Absent]
    /\ UNCHANGED <<objs, records, repoVars, writes, toPublish, bounds>>

(* Each row is written on its own.                                         *)
WriteRow ==
    /\ writes # <<>>
    /\ LET w == Head(writes)
           others == {r \in rows : r.id # w.row.id}
       IN  rows' = IF w.op = "put" THEN others \cup {w.row} ELSE others
    /\ writes' = Tail(writes)
    /\ UNCHANGED <<objs, seen, records, toPublish, published, phase, bounds>>

(* OnUpdate broadcasts the records of the list one by one, as stored.      *)
PublishRecord ==
    /\ writes = <<>>
    /\ toPublish # <<>>
    /\ published' = {r \in published : r.id # Head(toPublish)}
                    \cup {r \in rows : r.id = Head(toPublish)}
    /\ toPublish' = Tail(toPublish)
    /\ UNCHANGED <<objs, seen, records, rows, writes, phase, bounds>>

Exit ==
    /\ phase' = "down"
    /\ records' = [o \in Objects |-> {}]
    /\ seen' = [o \in Objects |-> Absent]

(* A failed write or broadcast ends the call; in LoadInitial it ends the   *)
(* process.                                                                *)
SyncFails ==
    /\ ~Idle
    /\ failures < MaxFaults
    /\ failures' = failures + 1
    /\ writes' = <<>> /\ toPublish' = <<>>
    /\ IF phase = "loading" THEN Exit ELSE UNCHANGED <<phase, records, seen>>
    /\ UNCHANGED <<objs, repoVars, changes, crashes, missed>>

Crash ==
    /\ phase # "down"
    /\ crashes < MaxFaults
    /\ crashes' = crashes + 1
    /\ Exit
    /\ writes' = <<>> /\ toPublish' = <<>>
    /\ UNCHANGED <<objs, repoVars, changes, failures, missed>>

SetRecords(recs) == records' = recs /\ syncRecords(recs)

storeObject(o) ==
    IF objs[o] = Invalid
    THEN UNCHANGED <<records, writes, toPublish>>
    ELSE SetRecords([records EXCEPT ![o] = parseDNSDomainRecordState(o, objs[o])])

deleteObject(o) == SetRecords([records EXCEPT ![o] = {}])

(* Mutant: no resync; only a change is handed over.                        *)
HandedOverOnce(o) == objs[o] # seen[o]

HandedOver(o) == objs[o] # Absent \/ seen[o] # Absent

Handle(o) ==
    /\ phase = "up"
    /\ Idle
    /\ HandedOver(o)
    /\ seen' = [seen EXCEPT ![o] = objs[o]]
    /\ IF objs[o] = Absent THEN deleteObject(o) ELSE storeObject(o)
    /\ UNCHANGED <<objs, repoVars, phase, bounds>>

Next ==
    \/ \E o \in Objects : ChangeObject(o) \/ Handle(o)
    \/ LoadInitial \/ Listen \/ WriteRow \/ PublishRecord \/ SyncFails \/ Crash

(* The process is restarted, its goroutine runs, the informer hands over   *)
(* what changed and resyncs every object.                                  *)
Fairness ==
    /\ WF_vars(LoadInitial) /\ WF_vars(Listen)
    /\ WF_vars(WriteRow) /\ WF_vars(PublishRecord)
    /\ \A o \in Objects : SF_vars(Handle(o))

Spec == Init /\ [][Next]_vars /\ Fairness

-----------------------------------------------------------------------------

Declared(o) == parseDNSDomainRecordState(o, objs[o])

RowsOf(o) == {r \in rows : r.id[1] = o}

(* Once the cluster stops changing, the records of every object that       *)
(* parses are stored and were broadcast as they are declared, whatever     *)
(* writes and broadcasts failed and whenever the master was restarted:     *)
(* each resync writes and broadcasts the whole list (storeObject).  Rows   *)
(* written through the manage API are still there (syncDNSRecords).        *)
RecordsAreStored ==
    /\ <>[](ManualRows \subseteq rows)
    /\ \A o \in Objects :
        <>[](/\ objs[o].is = "valid" => RowsOf(o) = Declared(o)
             /\ Declared(o) \subseteq published)

(* Once the cluster stops changing, no row of a deleted object is left     *)
(* (syncDNSRecords deletes what the list does not have), also when it was  *)
(* deleted while the master was down.  After a failed write nothing may be *)
(* left to resync, and a deletion between LoadInitial and Listen is never  *)
(* handed over.                                                            *)
DeletedRecordsAreGone ==
    \A o \in Objects : <>[](\/ objs[o] = Absent => RowsOf(o) = {}
                            \/ failures > 0 \/ missed)
=============================================================================
