------------------------------ MODULE DNSStore ------------------------------
(***************************************************************************)
(* The record store of the DNS runtime.  It keeps the records by name and  *)
(* ID, and an index from questions to answers that every operation updates *)
(* for the questions it touches only.  Restore holds the lock while it     *)
(* clears both and puts the new records back one by one.                   *)
(***************************************************************************)
EXTENDS DNSRecords

VARIABLES
  byDomain, \* the records, identified by name and ID
  byKey,    \* byKey[q]: the answer to question q, {} where the map has no entry
  pending,  \* the records a restore has still to put back
  answer    \* the last question asked, and the records of its answer

vars == <<byDomain, byKey, pending, answer>>

NoAnswers == [q \in Questions |-> {}]

Init ==
  /\ byDomain = {}
  /\ byKey = NoAnswers
  /\ pending = <<>>
  /\ answer \in {[question |-> q, records |-> {}] : q \in Questions}

\* Another operation gets the lock.
Unlocked == pending = <<>>

\* rebuildQuestionLocked for the question of each record of rs.
Rebuilt(index, records, rs) ==
  [q \in Questions |-> IF \E r \in rs : q = Question(r.fqdn, r.type)
                       THEN Matching(records, q)
                       ELSE index[q]]

Existing(records, r) == {s \in records : SameKey(s, r)}

\* upsertLocked without the first rebuild: the answer of the old type stays.
UpsertNewOnly(records, index, r) ==
  /\ byDomain' = Put(records, r)
  /\ byKey' = Rebuilt(index, Put(records, r), {Stored(r)})

\* upsertLocked: the record under the same name and ID is taken out and its
\* question rebuilt, then the new one is put in and its question rebuilt.
Upsert(records, index, r) ==
  LET old  == Existing(records, r)
      rest == records \ old
  IN  /\ byDomain' = rest \cup {Stored(r)}
      /\ byKey' = Rebuilt(Rebuilt(index, rest, old), rest \cup {Stored(r)}, {Stored(r)})

\* Restore without the reset of the records.
BeginRestoreOnTop(s) ==
  /\ Unlocked
  /\ byKey' = NoAnswers
  /\ pending' = s
  /\ UNCHANGED <<byDomain, answer>>

BeginRestore(s) ==
  /\ Unlocked
  /\ byDomain' = {}
  /\ byKey' = NoAnswers
  /\ pending' = s
  /\ UNCHANGED answer

RestoreNext ==
  /\ ~Unlocked
  /\ Upsert(byDomain, byKey, Head(pending))
  /\ pending' = Tail(pending)
  /\ UNCHANGED answer

AddRecord(r) ==
  /\ Unlocked
  /\ Upsert(byDomain, byKey, Normalized(r))
  /\ UNCHANGED <<pending, answer>>

\* ModifyRecord finds the record under the name and ID it is given, takes it
\* out, and puts it back with the name, type and values it is given.
ModifyRecord(old, new) ==
  /\ Unlocked
  /\ old \in byDomain
  /\ new.id = old.id
  /\ Upsert(byDomain \ {old}, Rebuilt(byKey, byDomain \ {old}, {old}), Normalized(new))
  /\ UNCHANGED <<pending, answer>>

DeleteRecord(old) ==
  /\ Unlocked
  /\ old \in byDomain
  /\ byDomain' = byDomain \ {old}
  /\ byKey' = Rebuilt(byKey, byDomain \ {old}, {old})
  /\ UNCHANGED <<pending, answer>>

RefreshQuestion(q) ==
  /\ Unlocked
  /\ byKey' = [byKey EXCEPT ![q] = Matching(byDomain, q)]
  /\ UNCHANGED <<byDomain, pending, answer>>

\* RefreshAll
Clear ==
  /\ Unlocked
  /\ byDomain' = {}
  /\ byKey' = NoAnswers
  /\ UNCHANGED <<pending, answer>>

Lookup(n, t) ==
  /\ Unlocked
  /\ answer' = [question |-> Question(n, t), records |-> byKey[Question(n, t)]]
  /\ UNCHANGED <<byDomain, byKey, pending>>

Next ==
  \/ \E s \in Lists : BeginRestore(s)
  \/ RestoreNext
  \/ \E r \in Records : AddRecord(r)
  \/ \E old \in byDomain, new \in Records : ModifyRecord(old, new)
  \/ \E old \in byDomain : DeleteRecord(old)
  \/ \E q \in Questions : RefreshQuestion(q)
  \/ Clear
  \/ \E n \in Names, t \in Types : Lookup(n, t)

Spec == Init /\ [][Next]_vars

-----------------------------------------------------------------------------

\* The answer index, which each operation repairs only where it believes it
\* changed, agrees with the records: also halfway through a restore, after a
\* record changed its type or moved to another name, and for a record whose
\* type is not in normal form.
IndexIsDerived == \A q \in Questions : byKey[q] = Matching(byDomain, q)

\* The records as the restore that is under way will leave them.
Restored == {r \in byDomain : \A k \in 1..Len(pending) : ~SameKey(pending[k], r)}
            \cup LastWins(pending)

Table == INSTANCE DNSTable WITH table <- Restored

\* The store implements the table: it answers every question with the enabled
\* records of that name and type, and a restore leaves, in place of what was
\* there, the last record the list has for each name and ID.
ImplementsTable == Table!TableSpec

=============================================================================
