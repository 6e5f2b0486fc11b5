--------------------------- MODULE DNSStoreProofs ---------------------------
(***************************************************************************)
(* The index of the DNS record store agrees with the records, and the      *)
(* store implements the table of DNSTable, for all sets of names, types,   *)
(* IDs and values and all lengths of restored lists.                       *)
(***************************************************************************)
EXTENDS DNSStore, TLAPS

\* Records as upsertLocked stores them.
StoredRecords == {r \in Records : CanonName[r.fqdn] = r.fqdn}

\* The index is a function of the records: byKey is the index of byDomain.
IsIndexOf(index, records) == index = [q \in Questions |-> Matching(records, q)]

\* The inductive invariant.
StoreInv ==
  /\ byDomain \subseteq StoredRecords
  /\ pending \in Seq(Records)
  /\ IsIndexOf(byKey, byDomain)

-----------------------------------------------------------------------------

\* Normalisation gives records, with names in normal form.
LEMMA NormalForms ==
  ASSUME NEW r \in Records
  PROVE  /\ Stored(r) \in StoredRecords
         /\ Normalized(r) \in Records
         /\ Stored(Normalized(r)) = Normalized(r)
         /\ Normalized(r).id = r.id
         /\ Stored(r).id = r.id
         /\ Stored(r).fqdn = CanonName[r.fqdn]
  BY CanonAssumption DEF Stored, Normalized, StoredRecords, Records

\* A stored record that answers a question in normal form is of a type in
\* normal form: the question is the one rebuilt for the record.
LEMMA MatchIsQuestion ==
  ASSUME NEW records \in SUBSET StoredRecords, NEW q \in Questions,
         NEW r \in Matching(records, q)
  PROVE  q = Question(r.fqdn, r.type)
<1>1. PICK n \in Names, t \in Types : q = [fqdn |-> CanonName[n], type |-> CanonType[t]]
  BY DEF Questions, Question
<1>2. r.fqdn = CanonName[n] /\ r.type = CanonType[t]
  BY <1>1 DEF Matching
<1>3. CanonName[r.fqdn] = CanonName[n] /\ CanonType[r.type] = CanonType[t]
  BY <1>2, CanonAssumption
<1> QED BY <1>1, <1>3 DEF Question

\* Rebuilding the questions of the records by which two sets differ turns an
\* index of the one into an index of the other.
LEMMA RebuildRepairs ==
  ASSUME NEW old \in SUBSET StoredRecords, NEW new \in SUBSET StoredRecords,
         NEW rs \in SUBSET StoredRecords, NEW index, IsIndexOf(index, old),
         (old \ new) \cup (new \ old) \subseteq rs
  PROVE  IsIndexOf(Rebuilt(index, new, rs), new)
<1> SUFFICES ASSUME NEW q \in Questions, \A r \in rs : q # Question(r.fqdn, r.type)
             PROVE  index[q] = Matching(new, q)
  BY DEF Rebuilt, IsIndexOf
<1>1. index[q] = Matching(old, q)
  BY DEF IsIndexOf
<1>2. \A r \in Matching(old, q) : r \in new
  <2> SUFFICES ASSUME NEW r \in Matching(old, q), r \notin new PROVE FALSE
    OBVIOUS
  <2>1. r \in old \ new
    BY DEF Matching
  <2>2. q = Question(r.fqdn, r.type)
    BY MatchIsQuestion
  <2> QED BY <2>1, <2>2
<1>3. \A r \in Matching(new, q) : r \in old
  <2> SUFFICES ASSUME NEW r \in Matching(new, q), r \notin old PROVE FALSE
    OBVIOUS
  <2>1. r \in new \ old
    BY DEF Matching
  <2>2. q = Question(r.fqdn, r.type)
    BY MatchIsQuestion
  <2> QED BY <2>1, <2>2
<1> QED BY <1>1, <1>2, <1>3 DEF Matching

\* upsertLocked keeps the index right, from any set of records and its index.
LEMMA UpsertRepairs ==
  ASSUME NEW records \in SUBSET StoredRecords, NEW index, IsIndexOf(index, records),
         NEW r \in Records, Upsert(records, index, r)
  PROVE  /\ byDomain' = Put(records, r)
         /\ byDomain' \subseteq StoredRecords
         /\ IsIndexOf(byKey', byDomain')
<1> DEFINE old == Existing(records, r)
           rest == records \ old
<1>1. Stored(r) \in StoredRecords
  BY NormalForms
<1>2. rest \in SUBSET StoredRecords /\ old \in SUBSET StoredRecords
  BY DEF Existing
<1>3. IsIndexOf(Rebuilt(index, rest, old), rest)
  <2>1. (records \ rest) \cup (rest \ records) \subseteq old
    OBVIOUS
  <2> QED BY <1>2, <2>1, RebuildRepairs
<1>4. IsIndexOf(Rebuilt(Rebuilt(index, rest, old), rest \cup {Stored(r)}, {Stored(r)}),
                rest \cup {Stored(r)})
  <2>1. (rest \ (rest \cup {Stored(r)})) \cup ((rest \cup {Stored(r)}) \ rest) \subseteq {Stored(r)}
    OBVIOUS
  <2>2. rest \cup {Stored(r)} \in SUBSET StoredRecords /\ {Stored(r)} \in SUBSET StoredRecords
    BY <1>1, <1>2
  <2> HIDE DEF rest, old
  <2> QED BY <1>2, <1>3, <2>1, <2>2, RebuildRepairs
<1>5. byDomain' = rest \cup {Stored(r)}
  BY DEF Upsert
<1>6. byKey' = Rebuilt(Rebuilt(index, rest, old), rest \cup {Stored(r)}, {Stored(r)})
  BY DEF Upsert
<1>7. rest \cup {Stored(r)} = Put(records, r)
  BY DEF Put, Existing
<1> QED BY <1>1, <1>2, <1>4, <1>5, <1>6, <1>7

\* Taking out one record and rebuilding its question keeps the index right.
LEMMA RemoveRepairs ==
  ASSUME NEW records \in SUBSET StoredRecords, NEW index, IsIndexOf(index, records),
         NEW old \in records
  PROVE  IsIndexOf(Rebuilt(index, records \ {old}, {old}), records \ {old})
<1>1. (records \ (records \ {old})) \cup ((records \ {old}) \ records) \subseteq {old}
  OBVIOUS
<1> QED BY <1>1, RebuildRepairs

\* The empty index is the index of the empty store.
LEMMA EmptyIndex == IsIndexOf(NoAnswers, {})
  BY DEF IsIndexOf, NoAnswers, Matching

\* The lists a restore is called with are sequences of records.
LEMMA ListsAreSequences == Lists \subseteq Seq(Records)
<1> SUFFICES ASSUME NEW n \in 0..MaxRestore, NEW s \in [1..n -> Records]
             PROVE  s \in Seq(Records)
  BY DEF Lists
<1> QED BY CanonAssumption

-----------------------------------------------------------------------------

\* The store starts empty, with an empty index.
LEMMA InitStoreInv == Init => StoreInv
  BY EmptyIndex DEF Init, StoreInv

\* Every operation, and every step of a restore, keeps the invariant.
LEMMA NextStoreInv == StoreInv /\ [Next]_vars => StoreInv'
<1> SUFFICES ASSUME StoreInv, [Next]_vars PROVE StoreInv'
  OBVIOUS
<1> USE DEF StoreInv
<1>1. ASSUME NEW s \in Lists, BeginRestore(s) PROVE StoreInv'
  BY <1>1, EmptyIndex, ListsAreSequences DEF BeginRestore
<1>2. CASE RestoreNext
  <2>1. Head(pending) \in Records /\ Tail(pending) \in Seq(Records)
    BY <1>2 DEF RestoreNext, Unlocked
  <2> QED BY <1>2, <2>1, UpsertRepairs DEF RestoreNext
<1>3. ASSUME NEW r \in Records, AddRecord(r) PROVE StoreInv'
  <2>1. Normalized(r) \in Records
    BY NormalForms
  <2> QED BY <1>3, <2>1, UpsertRepairs DEF AddRecord
<1>4. ASSUME NEW old \in byDomain, NEW new \in Records, ModifyRecord(old, new) PROVE StoreInv'
  <2>1. Normalized(new) \in Records
    BY NormalForms
  <2>2. IsIndexOf(Rebuilt(byKey, byDomain \ {old}, {old}), byDomain \ {old})
    BY RemoveRepairs
  <2>3. byDomain \ {old} \in SUBSET StoredRecords
    OBVIOUS
  <2> QED BY <1>4, <2>1, <2>2, <2>3, UpsertRepairs DEF ModifyRecord
<1>5. ASSUME NEW old \in byDomain, DeleteRecord(old) PROVE StoreInv'
  BY <1>5, RemoveRepairs DEF DeleteRecord
<1>6. ASSUME NEW q \in Questions, RefreshQuestion(q) PROVE StoreInv'
  BY <1>6 DEF RefreshQuestion, IsIndexOf
<1>7. CASE Clear
  BY <1>7, EmptyIndex DEF Clear
<1>8. ASSUME NEW n \in Names, NEW t \in Types, Lookup(n, t) PROVE StoreInv'
  BY <1>8 DEF Lookup, IsIndexOf, Matching
<1>9. CASE UNCHANGED vars
  BY <1>9 DEF vars, IsIndexOf, Matching
<1> QED BY <1>1, <1>2, <1>3, <1>4, <1>5, <1>6, <1>7, <1>8, <1>9 DEF Next

\* The invariant holds always.
THEOREM StoreInvariant == Spec => []StoreInv
  BY InitStoreInv, NextStoreInv, PTL DEF Spec

\* The answer index always agrees with the records.
THEOREM IndexCorrect == Spec => []IndexIsDerived
<1>1. StoreInv => IndexIsDerived
  BY DEF StoreInv, IsIndexOf, IndexIsDerived
<1> QED BY <1>1, StoreInvariant, PTL

-----------------------------------------------------------------------------

\* Without a restore under way the table is the records.
LEMMA UnlockedTable ==
  ASSUME Unlocked
  PROVE  Restored = byDomain
<1>1. pending = <<>> /\ 1..Len(pending) = {}
  BY DEF Unlocked
<1>2. LastWins(pending) = {}
  BY <1>1 DEF LastWins
<1> QED BY <1>1, <1>2 DEF Restored

\* One step of a restore leaves the table that the restore will end in as it
\* was.
LEMMA RestoreStutters ==
  ASSUME StoreInv, RestoreNext
  PROVE  Restored' = Restored
<1> DEFINE s == pending
           t == Tail(pending)
           r == Head(pending)
<1>1. /\ s \in Seq(Records) /\ s # <<>> /\ t \in Seq(Records) /\ r \in Records
      /\ pending' = t
      /\ Len(t) = Len(s) - 1 /\ Len(s) \in Nat \ {0}
      /\ r = s[1]
      /\ \A i \in 1..Len(t) : t[i] = s[i + 1]
  BY DEF RestoreNext, Unlocked, StoreInv
<1>2. byDomain' = Put(byDomain, r)
  BY <1>1, UpsertRepairs DEF RestoreNext, StoreInv
<1>3. Stored(r).id = r.id /\ Stored(r).fqdn = CanonName[r.fqdn]
      /\ CanonName[CanonName[r.fqdn]] = CanonName[r.fqdn]
  BY <1>1, CanonAssumption, NormalForms DEF Records
<1>4. \A x : SameKey(x, Stored(r)) <=> SameKey(x, r)
  BY <1>3 DEF SameKey
<1>5. \A x : (\A k \in 1..Len(s) : ~SameKey(s[k], x))
             <=> ~SameKey(r, x) /\ \A k \in 1..Len(t) : ~SameKey(t[k], x)
  <2> TAKE x
  <2>1. ASSUME \A k \in 1..Len(s) : ~SameKey(s[k], x)
        PROVE  ~SameKey(r, x) /\ \A k \in 1..Len(t) : ~SameKey(t[k], x)
    <3>1. 1 \in 1..Len(s) /\ \A k \in 1..Len(t) : k + 1 \in 1..Len(s)
      BY <1>1
    <3> QED BY <1>1, <2>1, <3>1
  <2>2. ASSUME ~SameKey(r, x), \A k \in 1..Len(t) : ~SameKey(t[k], x), NEW k \in 1..Len(s)
        PROVE  ~SameKey(s[k], x)
    <3>1. CASE k = 1
      BY <1>1, <2>2, <3>1
    <3>2. CASE k # 1
      <4>1. k - 1 \in 1..Len(t) /\ (k - 1) + 1 = k
        BY <1>1, <3>2
      <4> QED BY <1>1, <2>2, <4>1
    <3> QED BY <3>1, <3>2
  <2> QED BY <2>1, <2>2
<1>6. LastWins(s) = LastWins(t) \cup
        (IF \A k \in 1..Len(t) : ~SameKey(t[k], r) THEN {Stored(r)} ELSE {})
  <2> DEFINE Last(q, j) == \A k \in 1..Len(q) : k > j => ~SameKey(q[k], q[j])
  <2>1. \A j \in 1..Len(t) : Last(s, j + 1) <=> Last(t, j)
    <3> SUFFICES ASSUME NEW j \in 1..Len(t) PROVE Last(s, j + 1) <=> Last(t, j)
      OBVIOUS
    <3>1. ASSUME Last(s, j + 1), NEW k \in 1..Len(t), k > j PROVE ~SameKey(t[k], t[j])
      <4>1. k + 1 \in 1..Len(s) /\ k + 1 > j + 1
        BY <1>1, <3>1
      <4> QED BY <1>1, <3>1, <4>1
    <3>2. ASSUME Last(t, j), NEW k \in 1..Len(s), k > j + 1 PROVE ~SameKey(s[k], s[j + 1])
      <4>1. k - 1 \in 1..Len(t) /\ k - 1 > j /\ (k - 1) + 1 = k
        BY <1>1, <3>2
      <4> QED BY <1>1, <3>2, <4>1
    <3> QED BY <3>1, <3>2
  <2>2. Last(s, 1) <=> \A k \in 1..Len(t) : ~SameKey(t[k], r)
    <3>1. ASSUME Last(s, 1), NEW k \in 1..Len(t) PROVE ~SameKey(t[k], r)
      <4>1. k + 1 \in 1..Len(s) /\ k + 1 > 1
        BY <1>1
      <4> QED BY <1>1, <3>1, <4>1
    <3>2. ASSUME \A k \in 1..Len(t) : ~SameKey(t[k], r), NEW k \in 1..Len(s), k > 1
          PROVE  ~SameKey(s[k], s[1])
      <4>1. k - 1 \in 1..Len(t) /\ (k - 1) + 1 = k
        BY <1>1, <3>2
      <4> QED BY <1>1, <3>2, <4>1
    <3> QED BY <3>1, <3>2
  <2>3. LastWins(s) = {Stored(s[i]) : i \in {j \in 1..Len(s) : Last(s, j)}}
        /\ LastWins(t) = {Stored(t[i]) : i \in {j \in 1..Len(t) : Last(t, j)}}
    BY DEF LastWins
  <2> HIDE DEF Last, s, t, r
  <2>4. ASSUME NEW x \in LastWins(s)
        PROVE  \/ x \in LastWins(t)
               \/ x = Stored(r) /\ \A k \in 1..Len(t) : ~SameKey(t[k], r)
    <3>1. PICK i \in 1..Len(s) : Last(s, i) /\ x = Stored(s[i])
      BY <2>3, <2>4
    <3>2. CASE i = 1
      BY <1>1, <2>2, <3>1, <3>2
    <3>3. CASE i # 1
      <4>1. i - 1 \in 1..Len(t) /\ (i - 1) + 1 = i
        BY <1>1, <3>3
      <4>2. Last(t, i - 1) /\ x = Stored(t[i - 1])
        BY <1>1, <2>1, <3>1, <4>1
      <4> QED BY <2>3, <4>1, <4>2
    <3> QED BY <3>2, <3>3
  <2>5. ASSUME NEW x \in LastWins(t) PROVE x \in LastWins(s)
    <3>1. PICK i \in 1..Len(t) : Last(t, i) /\ x = Stored(t[i])
      BY <2>3, <2>5
    <3>2. i + 1 \in 1..Len(s) /\ Last(s, i + 1) /\ x = Stored(s[i + 1])
      BY <1>1, <2>1, <3>1
    <3> QED BY <2>3, <3>2
  <2>6. ASSUME \A k \in 1..Len(t) : ~SameKey(t[k], r) PROVE Stored(r) \in LastWins(s)
    <3>1. 1 \in 1..Len(s) /\ Last(s, 1) /\ Stored(r) = Stored(s[1])
      BY <1>1, <2>2, <2>6
    <3> QED BY <2>3, <3>1
  <2> QED BY <2>4, <2>5, <2>6
<1>7. Restored = {x \in byDomain : \A k \in 1..Len(s) : ~SameKey(s[k], x)} \cup LastWins(s)
  BY DEF Restored
<1>8. Restored' = {x \in Put(byDomain, r) : \A k \in 1..Len(t) : ~SameKey(t[k], x)} \cup LastWins(t)
  BY <1>1, <1>2 DEF Restored, LastWins
<1>9. \A x, y : SameKey(x, y) <=> SameKey(y, x)
  BY DEF SameKey
<1> HIDE DEF s, t, r
<1>10. Put(byDomain, r) = {x \in byDomain : ~SameKey(x, r)} \cup {Stored(r)}
  BY DEF Put
<1> QED BY <1>4, <1>5, <1>6, <1>7, <1>8, <1>9, <1>10

\* The definitions of the table's module are those of the store's.
LEMMA SameDefinitions ==
  /\ Table!Records = Records
  /\ Table!Lists = Lists
  /\ Table!Questions = Questions
  /\ \A r : Table!Normalized(r) = Normalized(r)
  /\ \A t, r : Table!Put(t, r) = Put(t, r)
  /\ \A t, q : Table!Matching(t, q) = Matching(t, q)
  /\ \A s : Table!LastWins(s) = LastWins(s)
<1>1. Table!Records = Records
  BY DEF Table!Records, Records
<1>2. Table!Lists = Lists
  BY <1>1 DEF Table!Lists, Lists
<1>3. Table!Questions = Questions
  BY DEF Table!Questions, Questions, Table!Question, Question
<1>4. \A r : Table!Normalized(r) = Normalized(r)
  BY DEF Table!Normalized, Normalized
<1>5. \A t, r : Table!Put(t, r) = Put(t, r)
  BY DEF Table!Put, Put, Table!SameKey, SameKey, Table!Stored, Stored
<1>6. \A t, q : Table!Matching(t, q) = Matching(t, q)
  BY DEF Table!Matching, Matching
<1>7. \A s : Table!LastWins(s) = LastWins(s)
  BY DEF Table!LastWins, LastWins, Table!SameKey, SameKey, Table!Stored, Stored
<1> QED BY <1>1, <1>2, <1>3, <1>4, <1>5, <1>6, <1>7

\* A new store is an empty table.
LEMMA InitImplements == Init => Table!TableInit
<1> SUFFICES ASSUME Init PROVE Table!TableInit
  OBVIOUS
<1>1. Restored = {}
  BY UnlockedTable DEF Init, Unlocked
<1> QED BY <1>1, SameDefinitions DEF Init, Table!TableInit

\* Every operation is an operation of the table, a step of a restore leaves
\* the table as it is.
LEMMA NextImplements ==
  StoreInv /\ [Next]_vars => [Table!TableNext]_(Table!tableVars)
<1> SUFFICES ASSUME StoreInv, [Next]_vars
             PROVE  Table!TableNext \/ (Restored' = Restored /\ answer' = answer)
  BY DEF Table!tableVars
<1> USE SameDefinitions
<1>0. ASSUME Unlocked, pending' = pending PROVE Restored = byDomain /\ Restored' = byDomain'
  <2>1. pending' = <<>> /\ 1..Len(pending') = {}
    BY <1>0 DEF Unlocked
  <2>2. Restored' = byDomain'
    BY <2>1 DEF Restored, LastWins
  <2> QED BY <1>0, <2>2, UnlockedTable
<1>1. ASSUME NEW s \in Lists, BeginRestore(s) PROVE Table!Replace
  <2>1. Restored' = LastWins(s)
    BY <1>1 DEF BeginRestore, Restored, LastWins
  <2>2. s \in Table!Lists /\ Restored' = Table!LastWins(s) /\ UNCHANGED answer
    BY <1>1, <2>1 DEF BeginRestore
  <2> QED BY <2>2 DEF Table!Replace
<1>2. CASE RestoreNext
  BY <1>2, RestoreStutters DEF RestoreNext
<1>3. ASSUME NEW r \in Records, AddRecord(r) PROVE Table!Insert
  <2>1. byDomain' = Put(byDomain, Normalized(r))
    BY <1>3, UpsertRepairs, NormalForms DEF AddRecord, StoreInv
  <2>2. Restored = byDomain /\ Restored' = byDomain' /\ UNCHANGED answer
    BY <1>0, <1>3 DEF AddRecord
  <2> QED BY <2>1, <2>2 DEF Table!Insert
<1>4. ASSUME NEW old \in byDomain, NEW new \in Records, ModifyRecord(old, new) PROVE Table!Change
  <2>1. byDomain' = Put(byDomain \ {old}, Normalized(new))
    <3>1. IsIndexOf(Rebuilt(byKey, byDomain \ {old}, {old}), byDomain \ {old})
      BY RemoveRepairs DEF StoreInv
    <3>2. byDomain \ {old} \in SUBSET StoredRecords /\ Normalized(new) \in Records
      BY NormalForms DEF StoreInv
    <3> QED BY <1>4, <3>1, <3>2, UpsertRepairs DEF ModifyRecord
  <2>2. Restored = byDomain /\ Restored' = byDomain' /\ UNCHANGED answer /\ new.id = old.id
    BY <1>0, <1>4 DEF ModifyRecord
  <2> QED BY <2>1, <2>2 DEF Table!Change
<1>5. ASSUME NEW old \in byDomain, DeleteRecord(old) PROVE Table!Remove
  <2>1. Restored = byDomain /\ Restored' = byDomain'
    BY <1>0, <1>5 DEF DeleteRecord
  <2> QED BY <1>5, <2>1 DEF DeleteRecord, Table!Remove
<1>6. ASSUME NEW q \in Questions, RefreshQuestion(q) PROVE Restored' = Restored /\ answer' = answer
  <2>1. Restored = byDomain /\ Restored' = byDomain'
    BY <1>0, <1>6 DEF RefreshQuestion
  <2> QED BY <1>6, <2>1 DEF RefreshQuestion
<1>7. CASE Clear
  <2>1. Restored' = byDomain'
    BY <1>0, <1>7 DEF Clear
  <2> QED BY <1>7, <2>1 DEF Clear, Table!Empty, Table!TableNext
<1>8. ASSUME NEW n \in Names, NEW t \in Types, Lookup(n, t) PROVE Table!Ask
  <2>1. Restored = byDomain /\ Restored' = byDomain'
    BY <1>0, <1>8 DEF Lookup
  <2>2. Question(n, t) \in Questions
    BY DEF Questions
  <2>3. byKey[Question(n, t)] = Matching(byDomain, Question(n, t))
    BY <2>2 DEF StoreInv, IsIndexOf
  <2>4. answer' = [question |-> Question(n, t), records |-> Table!Matching(Restored, Question(n, t))]
    BY <1>8, <2>1, <2>3 DEF Lookup
  <2> QED BY <1>8, <2>1, <2>2, <2>4 DEF Lookup, Table!Ask
<1>9. CASE UNCHANGED vars
  BY <1>9 DEF vars, Restored, LastWins
<1> QED BY <1>1, <1>2, <1>3, <1>4, <1>5, <1>6, <1>7, <1>8, <1>9 DEF Next, Table!TableNext

\* The store implements the table.
THEOREM StoreImplementsTable == Spec => ImplementsTable
<1>1. Spec => Table!TableInit /\ [][Table!TableNext]_(Table!tableVars)
  BY InitImplements, NextImplements, StoreInvariant, PTL DEF Spec
<1> QED BY <1>1 DEF ImplementsTable, Table!TableSpec
=============================================================================
