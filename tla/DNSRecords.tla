----------------------------- MODULE DNSRecords -----------------------------
(***************************************************************************)
(* DNS records and questions, how they are normalised, and which records   *)
(* answer which question.                                                  *)
(***************************************************************************)
EXTENDS Integers, Sequences

CONSTANTS
  IDs,       \* record IDs
  Names,     \* spellings of names
  Types,     \* spellings of record types
  Values,    \* what else a record carries (TTL and values)
  CanonName, \* CanonName[n]: n in lower case and with its final dot
  CanonType, \* CanonType[t]: t in upper case
  MaxRestore \* bound: records of one restore

ASSUME CanonAssumption ==
  /\ CanonName \in [Names -> Names]
  /\ CanonType \in [Types -> Types]
  /\ MaxRestore \in Nat
  /\ \A n \in Names : CanonName[CanonName[n]] = CanonName[n]
  /\ \A t \in Types : CanonType[CanonType[t]] = CanonType[t]

Records == [id: IDs, fqdn: Names, type: Types, enabled: BOOLEAN, value: Values]

Lists == UNION {[1..n -> Records] : n \in 0..MaxRestore}

Question(n, t) == [fqdn |-> CanonName[n], type |-> CanonType[t]]

\* A question in normal form, one entry of the answer index.
Questions == {Question(n, t) : n \in Names, t \in Types}

\* A record as it is stored: its name is normalised, its type is not.
Stored(r) == [r EXCEPT !.fqdn = CanonName[@]]

\* A record as AddRecord and ModifyRecord pass it on: both are.
Normalized(r) == [r EXCEPT !.fqdn = CanonName[@], !.type = CanonType[@]]

SameKey(r, s) == r.id = s.id /\ CanonName[r.fqdn] = CanonName[s.fqdn]

Put(t, r) == {s \in t : ~SameKey(s, r)} \cup {Stored(r)}

\* The answer to question q from the records t.
Matching(t, q) == {r \in t : r.enabled /\ r.fqdn = q.fqdn /\ r.type = q.type}

\* The table a list of records makes: of two with the same key the later one.
LastWins(s) ==
  {Stored(s[i]) : i \in {j \in 1..Len(s) : \A k \in 1..Len(s) : k > j => ~SameKey(s[k], s[j])}}

=============================================================================
