------------------------------ MODULE DNSQuery ------------------------------
(***************************************************************************)
(* How a slave serves one DNS request: each question is looked up locally, *)
(* then at the upstream servers in order; the records that are found are   *)
(* sorted by the distance of their values from the client and rendered.    *)
(*                                                                         *)
(* A value is good, bad (it cannot be rendered as its record's type) or    *)
(* blank, and has a distance from the client.                              *)
(***************************************************************************)
EXTENDS Integers, Sequences, FiniteSets, SequencesExt

CONSTANTS
  Questions, \* questions
  MaxAsked,  \* bound: questions of one request
  Found,     \* the lists of records a local lookup may find, <<>> for none
  Upstream,  \* the lists of resource records a server may answer with
  Servers,   \* number of upstream servers, 0 when forwarding is off
  Unknown    \* the distance of a value that has no known place

ASSUME QueryAssumption == Servers \in Nat /\ MaxAsked \in Nat /\ Unknown \in Nat

VARIABLES
  asked,   \* the questions of the request
  local,   \* local[q]: what the bridge or the store has for q, if Lookup takes q
  remote,  \* remote[q][s]: what server s answers for q
  geo,     \* the client's place is known
  pc,      \* what is done next
  at,      \* the question it is done for
  server,  \* the server that is asked next
  records, \* the records still to render for it
  answer,  \* the values in the answer so far
  rcode    \* the response code

vars == <<asked, local, remote, geo, pc, at, server, records, answer, rcode>>
input == <<asked, local, remote, geo>>

\* A server does not answer, or Lookup does not take a question.
NoReply == [ok |-> FALSE, rrs |-> <<>>]
Reply(rrs) == [ok |-> TRUE, rrs |-> rrs]

Init ==
  /\ asked \in UNION {[1..n -> Questions] : n \in 0..MaxAsked}
  /\ local \in [Questions -> {NoReply} \cup {Reply(rs) : rs \in Found}]
  /\ remote \in [Questions -> [1..Servers -> {NoReply} \cup {Reply(rrs) : rrs \in Upstream}]]
  /\ geo \in BOOLEAN
  /\ pc = "next" /\ at = 0 /\ server = 1
  /\ records = <<>> /\ answer = <<>> /\ rcode = "success"

-----------------------------------------------------------------------------

SplitValues(values) == SelectSeq(values, LAMBDA v : v.form # "blank")

\* sort.SliceStable
ByDistance(values) ==
  FlattenSeq([d \in 1..(Unknown + 1) |-> SelectSeq(values, LAMBDA v : v.dist = d - 1)])

\* sortRecordValuesByDistance
SortRecord(r) ==
  IF r.address /\ Len(SplitValues(r.values)) > 1
  THEN [r EXCEPT !.values = ByDistance(SplitValues(@))]
  ELSE r

ApplyGeoSort(rs) == IF geo THEN [i \in 1..Len(rs) |-> SortRecord(rs[i])] ELSE rs

\* rrToRecord: every resource record of a known kind becomes a record of the
\* type that was asked for, of which it is a bad value if it is of another.
ToRecord(rr) ==
  [address |-> TRUE,
   values  |-> <<[form |-> IF rr.kind = "alias" THEN "bad" ELSE "good", dist |-> rr.dist]>>]

FromUpstream(rrs) ==
  LET known == SelectSeq(rrs, LAMBDA rr : rr.kind # "other")
  IN  [i \in 1..Len(known) |-> ToRecord(known[i])]

-----------------------------------------------------------------------------

\* The loop over the questions.
NextQuestion ==
  /\ pc = "next"
  /\ IF at < Len(asked)
     THEN /\ at' = at + 1 /\ pc' = "local" /\ server' = 1
          /\ UNCHANGED rcode
     ELSE /\ pc' = "done"
          /\ rcode' = IF answer = <<>> /\ asked # <<>> THEN "nxdomain" ELSE rcode
          /\ UNCHANGED <<at, server>>
  /\ UNCHANGED <<input, records, answer>>

\* Lookup: the bridge and the store.  A question without a name or of a type
\* that has none is an error, which ends the request before any server is
\* asked.
LookupLocal ==
  /\ pc = "local"
  /\ LET found == local[asked[at]]
     IN  IF ~found.ok
         THEN pc' = "done" /\ rcode' = "servfail" /\ UNCHANGED records
         ELSE IF found.rrs # <<>>
         THEN pc' = "render" /\ records' = ApplyGeoSort(found.rrs) /\ UNCHANGED rcode
         ELSE pc' = "forward" /\ UNCHANGED <<records, rcode>>
  /\ UNCHANGED <<input, at, server, answer>>

\* Forward that asks the same server until it answers.
ForwardAgain ==
  /\ pc = "forward"
  /\ LET r == remote[asked[at]][server]
     IN  IF server > Servers
         THEN pc' = "next" /\ UNCHANGED <<server, records>>
         ELSE IF ~r.ok
         THEN UNCHANGED <<pc, server, records>>
         ELSE /\ pc' = IF FromUpstream(r.rrs) = <<>> THEN "next" ELSE "render"
              /\ records' = ApplyGeoSort(FromUpstream(r.rrs))
              /\ UNCHANGED server
  /\ UNCHANGED <<input, at, answer, rcode>>

\* Forward: the first server that answers decides, also with an empty answer.
Forward ==
  /\ pc = "forward"
  /\ LET r == remote[asked[at]][server]
     IN  IF server > Servers
         THEN pc' = "next" /\ UNCHANGED <<server, records>>
         ELSE IF ~r.ok
         THEN server' = server + 1 /\ UNCHANGED <<pc, records>>
         ELSE /\ pc' = IF FromUpstream(r.rrs) = <<>> THEN "next" ELSE "render"
              /\ records' = ApplyGeoSort(FromUpstream(r.rrs))
              /\ UNCHANGED server
  /\ UNCHANGED <<input, at, answer, rcode>>

\* toRR: one bad value fails the record.
Renders(r) == \A i \in 1..Len(SplitValues(r.values)) : SplitValues(r.values)[i].form = "good"

\* The answer from the records, with a record that does not render left out.
RenderSkipping ==
  /\ pc = "render"
  /\ IF records = <<>>
     THEN pc' = "next" /\ UNCHANGED <<records, answer, rcode>>
     ELSE /\ records' = Tail(records)
          /\ answer' = IF Renders(Head(records))
                       THEN answer \o SplitValues(Head(records).values) ELSE answer
          /\ UNCHANGED <<pc, rcode>>
  /\ UNCHANGED <<input, at, server>>

\* serveDNS: a record that does not render ends the request at once.
Render ==
  /\ pc = "render"
  /\ IF records = <<>>
     THEN pc' = "next" /\ UNCHANGED <<records, answer, rcode>>
     ELSE IF Renders(Head(records))
     THEN /\ answer' = answer \o SplitValues(Head(records).values)
          /\ records' = Tail(records)
          /\ UNCHANGED <<pc, rcode>>
     ELSE pc' = "done" /\ rcode' = "servfail" /\ UNCHANGED <<records, answer>>
  /\ UNCHANGED <<input, at, server>>

Next == NextQuestion \/ LookupLocal \/ Forward \/ Render

Spec == Init /\ [][Next]_vars /\ WF_vars(Next)

-----------------------------------------------------------------------------

\* The records a question is answered with.
Effective(q) ==
  IF local[q].rrs # <<>> THEN local[q].rrs
  ELSE LET up == {s \in 1..Servers : remote[q][s].ok}
       IN  IF up = {} THEN <<>>
           ELSE FromUpstream(remote[q][CHOOSE s \in up : \A t \in up : s <= t].rrs)

AllRecords == FlattenSeq([i \in 1..Len(asked) |-> Effective(asked[i])])
AllValues(rs) == FlattenSeq([i \in 1..Len(rs) |-> SplitValues(rs[i].values)])
SameElements(s, t) == \A v \in ToSet(s) \cup ToSet(t) :
  Cardinality({i \in 1..Len(s) : s[i] = v}) = Cardinality({i \in 1..Len(t) : t[i] = v})

\* The code of the reply is the one the records of all its questions call for:
\* server failure if Lookup refuses one of them or a record cannot be rendered,
\* whichever question of the request that is, name error if there is nothing
\* to answer, success with every value otherwise (serveDNS).
ReplyIsComplete ==
  pc = "done" /\ asked # <<>> =>
    LET values == AllValues(AllRecords)
        bad    == \/ \E i \in 1..Len(asked) : ~local[asked[i]].ok
                  \/ \E i \in 1..Len(values) : values[i].form = "bad"
    IN  /\ rcode = IF bad THEN "servfail" ELSE IF values = <<>> THEN "nxdomain" ELSE "success"
        /\ ~bad => SameElements(answer, values)

\* Every request is answered, whichever servers do not reply.
RequestIsAnswered == <>(pc = "done")

=============================================================================
