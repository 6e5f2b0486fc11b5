----------------------------- MODULE CertProofs -----------------------------
(***************************************************************************)
(* Proofs about certificates, from their order at the CA to the files of a *)
(* slave: the safety properties of CertIssuance and CertDelivery hold for  *)
(* any hosts, any number of fetch goroutines, any bounds and any faults.   *)
(***************************************************************************)
EXTENDS CertInvariant, TLAPS, NaturalsInduction, WellFoundedInduction

-----------------------------------------------------------------------------
(***************************************************************************)
(* Minima and maxima.                                                      *)
(***************************************************************************)

\* A set of naturals has a least element.
LEMMA LeastNatural ==
  ASSUME NEW S \in SUBSET Nat, S # {}
  PROVE  \E x \in S : \A y \in S : x <= y
<1>1. \E x \in S : \A y \in S : ~(<<y, x>> \in OpToRel(<, Nat))
  BY NatLessThanWellFounded, WFMin, Zenon
<1>2. \A x, y \in Nat : y < x => <<y, x>> \in OpToRel(<, Nat)
  BY Zenon DEF OpToRel
<1>3. \E x \in S : \A y \in S : ~(y < x)  BY <1>1, <1>2, Zenon
<1> QED  BY <1>3

\* A bounded set of naturals has a greatest element.
LEMMA GreatestNatural ==
  ASSUME NEW n \in Nat, NEW S \in SUBSET (0..n), S # {}
  PROVE  Max(S) \in S /\ \A y \in S : y <= Max(S)
<1> DEFINE U == {u \in Nat : \A y \in S : y <= u}
<1>1. PICK m \in U : \A u \in U : m <= u
  <2>1. U # {}  BY n \in U
  <2> QED  BY <2>1, LeastNatural
<1>2. m \in S
  <2>1. SUFFICES ASSUME m \notin S PROVE FALSE  OBVIOUS
  <2>2. \A y \in S : y \in Nat /\ y <= m - 1  BY <1>1, <2>1
  <2>3. PICK y \in S : TRUE  OBVIOUS
  <2>4. m - 1 \in Nat  BY <1>1, <2>2, <2>3
  <2>5. m - 1 \in U  BY <2>2, <2>4
  <2> QED  BY <1>1, <2>5
<1>3. \E x \in S : \A y \in S : x >= y  BY <1>1, <1>2
<1> QED  BY <1>3 DEF Max

\* The host of an idle goroutine is a host.
LEMMA FirstHost == Min(Hosts) \in Hosts
BY CertAssumption, LeastNatural DEF Min

\* LatestRev is 0 without rows, and else the greatest number among them.
LEMMA LatestRevision ==
  ASSUME TypeOK, NEW h \in Hosts
  PROVE  /\ LatestRev(h) \in Prefixes /\ LatestRev(h) \in Nat
         /\ LatestRev(h) # 0 => HasRevision(h, LatestRev(h))
         /\ \A k \in DOMAIN certs[h] : certs[h][k].rev <= LatestRev(h)
<1> DEFINE R == {0} \cup {certs[h][i].rev : i \in DOMAIN certs[h]}
<1>1. \A i \in DOMAIN certs[h] : certs[h][i] \in CertRows  BY DEF TypeOK
<1>2. R \in SUBSET (0..MaxCerts) /\ R # {}
  BY <1>1, CertAssumption DEF CertRows, Revisions
<1>3. Max(R) \in R /\ \A y \in R : y <= Max(R)
  BY <1>2, GreatestNatural, CertAssumption
<1>4. LatestRev(h) = Max(R)  BY DEF LatestRev
<1>5. LatestRev(h) \in Prefixes /\ LatestRev(h) \in Nat
  BY <1>2, <1>3, <1>4, CertAssumption DEF Prefixes, Revisions
<1>6. LatestRev(h) # 0 => HasRevision(h, LatestRev(h))
  BY <1>3, <1>4 DEF HasRevision
<1> QED  BY <1>3, <1>4, <1>5, <1>6

-----------------------------------------------------------------------------
(***************************************************************************)
(* Type correctness of the master.                                         *)
(***************************************************************************)

\* What IdleJob and NextDomain give is the state of a goroutine.
LEMMA JobTypes ==
  ASSUME TypeOK
  PROVE  NextDomain \in Jobs /\ IdleJob("scan") \in Jobs
<1>1. 0 \in Written /\ 0 \in Prefixes  BY DEF Written, Prefixes
<1>2. NextDomain \in Jobs  BY <1>1 DEF TypeOK, NextDomain, Jobs
<1>3. IdleJob("scan") \in Jobs  BY <1>1, FirstHost DEF IdleJob, Jobs
<1> QED  BY <1>2, <1>3

\* What is published of a host is a projection.
LEMMA ProjectionType ==
  ASSUME TypeOK, NEW h \in Hosts
  PROVE  Projection(h) \in Projections
BY LatestRevision DEF TypeOK, Projection, Projections, Domains, Prefixes

\* Publishing keeps the projections.
LEMMA PublishesType ==
  ASSUME TypeOK, NEW h \in Hosts, Publishes(h)
  PROVE  told' \in [Hosts -> Projections]
BY ProjectionType DEF TypeOK, Publishes

\* A fault is one of the possible faults.
LEMMA FaultType ==
  ASSUME TypeOK, NEW f, Fault(f) \/ NoFault
  PROVE  faults' \in SUBSET Faults
BY DEF TypeOK, Fault, NoFault

\* The domains of a list are entries of a list.
LEMMA ListType ==
  ASSUME TypeOK, NEW h \in Hosts
  PROVE  AsListed(h) \in [host: Hosts, need: BOOLEAN, l7: BOOLEAN]
BY DEF TypeOK, AsListed, Domains

\* The next object of a bundle goes under the latest prefix or under that of
\* the revision, which has a prefix.
LEMMA PutStep ==
  ASSUME TypeOK, JobInv, job.pc = "put"
  PROVE  /\ job.rev \in Revisions
         /\ PutOrder(job.rev)[job.put + 1].at \in {0, job.rev}
         /\ PutOrder(job.rev)[job.put + 1].file \in Files
<1>1. job.rev \in Revisions
  <2>1. minted[job.host] \in Prefixes  BY DEF TypeOK, Jobs
  <2>2. job.rev \in 1..minted[job.host]  BY DEF JobInv
  <2> QED  BY <2>1, <2>2, CertAssumption DEF Prefixes, Revisions
<1>2. job.put \in {0, 1, 2, 3, 4, 5}
  <2>1. job.put \in Written /\ job.put < 6  BY DEF JobInv, TypeOK, Jobs
  <2> QED  BY <2>1 DEF Written
<1>3. \A n \in {0, 1, 2, 3, 4, 5} : /\ PutOrder(job.rev)[n + 1].at \in {0, job.rev}
                                   /\ PutOrder(job.rev)[n + 1].file \in Files
  BY DEF PutOrder, Files
<1> QED  BY <1>1, <1>2, <1>3

\* Every step of the master keeps the types.  That revisions stay within
\* MaxCerts needs JobInv: each number is at most that of the certificates
\* issued so far.
LEMMA TypeStep ==
  ASSUME TypeOK, JobInv, MasterNext
  PROVE  TypeOK'
<1>1. ASSUME NEW h \in Hosts, NEW need \in BOOLEAN, NEW l7 \in BOOLEAN,
             ChangeDomain(h, need, l7)
      PROVE  TypeOK'
  BY <1>1, CertAssumption DEF TypeOK, ChangeDomain, Domains
<1>2. ASSUME NEW h \in Hosts, DeleteDomain(h) PROVE TypeOK'
  <2>1. domain \in [Hosts -> Domains]  BY DEF TypeOK
  <2>2. [domain[h] EXCEPT !.live = FALSE] \in Domains
    <3>1. domain[h] \in Domains  BY <2>1
    <3> QED  BY <3>1 DEF Domains
  <2>3. domain' \in [Hosts -> Domains]  BY <1>2, <2>1, <2>2 DEF DeleteDomain
  <2>4. dirty' \in SUBSET Hosts  BY <1>2 DEF TypeOK, DeleteDomain
  <2>5. changes' \in 0..MaxChanges
    <3>1. changes \in 0..MaxChanges  BY DEF TypeOK
    <3> QED  BY <1>2, <3>1, CertAssumption DEF DeleteDomain
  <2> QED  BY <1>2, <2>3, <2>4, <2>5 DEF TypeOK, DeleteDomain
<1>3. ASSUME NEW h \in Hosts, PublishChange(h) PROVE TypeOK'
  <2>1. told' \in [Hosts -> Projections]
    <3>1. told' = told \/ told' = [told EXCEPT ![h] = Projection(h)]
      BY <1>3 DEF PublishChange, PublishFails
    <3> QED  BY <3>1, ProjectionType DEF TypeOK
  <2>2. queue' \in Seq(Hosts) /\ Len(queue') <= QueueCap
    BY <1>3, CertAssumption DEF TypeOK, PublishChange, Notify
  <2>3. faults' \in SUBSET Faults
    BY <1>3, FaultType DEF PublishChange, PublishFails
  <2>4. dirty' \in SUBSET Hosts  BY <1>3 DEF PublishChange, TypeOK
  <2>5. UNCHANGED <<domain, certs, store, job, tokens, txt, minted, changes>>
    BY <1>3 DEF PublishChange
  <2> QED  BY <2>1, <2>2, <2>3, <2>4, <2>5 DEF TypeOK
<1>4. ASSUME NEW h \in Hosts, Age(h) PROVE TypeOK'
  <2> DEFINE aged == [i \in DOMAIN certs[h] |-> [certs[h][i] EXCEPT !.fresh = FALSE]]
  <2>1. certs[h] \in Seq(CertRows)  BY DEF TypeOK
  <2>2. aged \in Seq(CertRows)
    <3>1. \A i \in 1..Len(certs[h]) : [certs[h][i] EXCEPT !.fresh = FALSE] \in CertRows
      <4>1. \A i \in 1..Len(certs[h]) : certs[h][i] \in CertRows  BY <2>1
      <4> QED  BY <4>1 DEF CertRows
    <3>2. DOMAIN certs[h] = 1..Len(certs[h]) /\ Len(certs[h]) \in Nat  BY <2>1
    <3> QED  BY <3>1, <3>2
  <2> QED  BY <1>4, <2>2 DEF TypeOK, Age
<1>5. CASE Scan
  <2>1. {AsListed(h) : h \in {g \in Hosts : domain[g].live}}
          \in SUBSET [host: Hosts, need: BOOLEAN, l7: BOOLEAN]
    BY ListType
  <2>2. job' \in Jobs  BY <1>5, <2>1 DEF TypeOK, Scan, Jobs
  <2> QED  BY <1>5, <2>2 DEF TypeOK, Scan
<1>6. CASE TakeNotified
  <2>1. Head(queue) \in Hosts /\ Tail(queue) \in Seq(Hosts) /\ Len(Tail(queue)) <= QueueCap
    BY <1>6, CertAssumption DEF TypeOK, TakeNotified
  <2>2. job' \in Jobs  BY <1>6, <2>1, ListType DEF TypeOK, TakeNotified, Jobs
  <2> QED  BY <1>6, <2>1, <2>2 DEF TypeOK, TakeNotified
<1>7. CASE Reconcile
  <2> DEFINE d == CHOOSE e \in job.todo : \A g \in job.todo : e.host <= g.host
  <2>1. d \in [host: Hosts, need: BOOLEAN, l7: BOOLEAN]
    <3>1. job.todo \in SUBSET [host: Hosts, need: BOOLEAN, l7: BOOLEAN] /\ job.todo # {}
      BY <1>7 DEF Reconcile, TypeOK, Jobs
    <3>2. \E n \in {e.host : e \in job.todo} : \A g \in {e.host : e \in job.todo} : n <= g
      <4>1. {e.host : e \in job.todo} \in SUBSET Nat  BY <3>1, CertAssumption
      <4>2. {e.host : e \in job.todo} # {}  BY <3>1
      <4> QED  BY <4>1, <4>2, LeastNatural
    <3>3. \E e \in job.todo : \A g \in job.todo : e.host <= g.host  BY <3>2
    <3>4. d \in job.todo  BY <3>3
    <3> QED  BY <3>1, <3>4
  <2>2. job' \in Jobs
    <3> HIDE DEF d
    <3>1. job' \in {[job EXCEPT !.todo = @ \ {d}],
                    [job EXCEPT !.todo = @ \ {d}, !.pc = "issue", !.host = d.host, !.l7 = d.l7]}
      BY <1>7 DEF Reconcile, TypeOK, Jobs, d
    <3>2. [job EXCEPT !.todo = @ \ {d}] \in Jobs  BY DEF TypeOK, Jobs
    <3>3. [job EXCEPT !.todo = @ \ {d}, !.pc = "issue", !.host = d.host, !.l7 = d.l7] \in Jobs
      BY <2>1 DEF TypeOK, Jobs
    <3> QED  BY <3>1, <3>2, <3>3
  <2>3. faults' \in SUBSET Faults  BY <1>7, FaultType DEF Reconcile
  <2> QED  BY <1>7, <2>2, <2>3 DEF TypeOK, Reconcile
<1>8. CASE EndScan
  BY <1>8 DEF TypeOK, EndScan, Jobs
<1>9. CASE BeginIssue
  <2>1. job.host \in Hosts  BY DEF TypeOK, Jobs
  <2>2. LatestRev(job.host) + 1 \in Revisions \cup {0, MaxCerts + 1}
    <3>1. LatestRev(job.host) \in Prefixes  BY <2>1, LatestRevision
    <3> QED  BY <3>1, CertAssumption DEF Prefixes, Revisions
  <2>3. 1 \in Revisions \cup {0, MaxCerts + 1}  BY CertAssumption DEF Revisions
  <2>4. job' \in Jobs
    BY <1>9, <2>2, <2>3, JobTypes, ZenonT(60) DEF TypeOK, BeginIssue, Jobs
  <2>5. faults' \in SUBSET Faults  BY <1>9, FaultType DEF BeginIssue, NewIssuerFails
  <2> QED  BY <1>9, <2>4, <2>5 DEF TypeOK, BeginIssue
<1>10. CASE Present
  <2>1. job.host \in Hosts  BY DEF TypeOK, Jobs
  <2>2. CASE PresentHTTP01
    BY <1>10, <2>1, <2>2 DEF TypeOK, Present, PresentHTTP01, NoFault, Jobs
  <2>3. CASE PresentDNS01
    <3>1. told' \in [Hosts -> Projections]
      BY <2>1, <2>3, PublishesType DEF PresentDNS01, PublishFails, TypeOK
    <3>2. faults' \in SUBSET Faults
      BY <2>3, FaultType DEF PresentDNS01, PublishFails
    <3>3. job' \in Jobs  BY <2>3, ZenonT(60) DEF PresentDNS01, TypeOK, Jobs
    <3>4. txt' \in SUBSET Hosts /\ tokens' = tokens
      BY <2>1, <2>3 DEF PresentDNS01, TypeOK
    <3> QED  BY <1>10, <3>1, <3>2, <3>3, <3>4 DEF TypeOK, Present
  <2> QED  BY <1>10, <2>2, <2>3 DEF Present
<1>11. CASE Obtain
  <2>1. job.host \in Hosts  BY DEF TypeOK, Jobs
  <2>2. faults' \in SUBSET Faults  BY <1>11, FaultType DEF Obtain
  <2>3. CASE minted[job.host] < MaxCerts
    <3>1. minted[job.host] + 1 \in Prefixes
      <4>1. minted[job.host] \in Prefixes  BY <2>1 DEF TypeOK
      <4> QED  BY <2>3, <4>1, CertAssumption DEF Prefixes, Revisions
    <3>2. minted' \in [Hosts -> Prefixes]  BY <1>11, <3>1 DEF Obtain, TypeOK
    <3>3. job' \in Jobs  BY <1>11, <3>1, ZenonT(60) DEF Obtain, TypeOK, Jobs
    <3> QED  BY <1>11, <2>2, <3>2, <3>3 DEF TypeOK, Obtain
  <2>4. CASE ~(minted[job.host] < MaxCerts)
    <3>1. job' \in Jobs  BY <1>11, <2>4 DEF Obtain, TypeOK, Jobs
    <3> QED  BY <1>11, <2>2, <2>4, <3>1 DEF TypeOK, Obtain
  <2> QED  BY <2>3, <2>4
<1>12. CASE CleanUp
  <2>1. job.host \in Hosts  BY DEF TypeOK, Jobs
  <2>2. job' \in Jobs  BY <1>12, JobTypes DEF CleanUp, TypeOK, Jobs
  <2>3. faults' \in SUBSET Faults
    BY <1>12, FaultType DEF CleanUp, CleanUpHTTP01, CleanUpDNS01, PublishFails
  <2>4. told' \in [Hosts -> Projections]
    BY <1>12, <2>1, PublishesType
    DEF CleanUp, CleanUpHTTP01, CleanUpDNS01, PublishFails, TypeOK
  <2>5. tokens' \in SUBSET Hosts /\ txt' \in SUBSET Hosts
    BY <1>12 DEF CleanUp, CleanUpHTTP01, CleanUpDNS01, TypeOK
  <2> QED  BY <1>12, <2>2, <2>3, <2>4, <2>5 DEF TypeOK, CleanUp
<1>13. CASE Persist
  <2>1. job.host \in Hosts  BY DEF TypeOK, Jobs
  <2>2. [rev |-> job.rev, cert |-> job.cert, fresh |-> TRUE] \in CertRows
    <3>1. minted[job.host] \in Prefixes /\ job.cert \in Prefixes  BY <2>1 DEF TypeOK, Jobs
    <3>2. job.cert # 0 /\ job.rev \in 1..minted[job.host]  BY <1>13 DEF Persist, JobInv
    <3>3. job.cert \in Revisions /\ job.rev \in Revisions
      BY <3>1, <3>2, CertAssumption DEF Prefixes, Revisions
    <3> QED  BY <3>3 DEF CertRows
  <2>3. certs' \in [Hosts -> Seq(CertRows)]
    <3>1. Append(certs[job.host], [rev |-> job.rev, cert |-> job.cert, fresh |-> TRUE])
            \in Seq(CertRows)
      <4>1. certs[job.host] \in Seq(CertRows)  BY <2>1 DEF TypeOK
      <4> QED  BY <2>2, <4>1
    <3> QED  BY <1>13, <3>1 DEF TypeOK, Persist
  <2>4. job' \in Jobs  BY <1>13, JobTypes DEF Persist, TypeOK, Jobs
  <2>5. faults' \in SUBSET Faults  BY <1>13, FaultType DEF Persist
  <2> QED  BY <1>13, <2>3, <2>4, <2>5 DEF TypeOK, Persist
<1>14. CASE PutObject
  <2> DEFINE o == PutOrder(job.rev)[job.put + 1]
  <2>1. job.host \in Hosts /\ o.at \in Prefixes /\ o.file \in Files /\ job.cert \in Prefixes
    <3>1. job.pc = "put"  BY <1>14 DEF PutObject
    <3>2. o.at \in {0, job.rev} /\ o.file \in Files /\ job.rev \in Revisions
      BY <3>1, PutStep
    <3> QED  BY <3>2 DEF TypeOK, Jobs, Prefixes
  <2>2. store' \in [Hosts -> [Prefixes -> [Files -> Prefixes]]]
    <3> HIDE DEF o
    <3>1. CASE store' = store  BY <3>1 DEF TypeOK
    <3>2. CASE store' = [store EXCEPT ![job.host][o.at][o.file] = job.cert]
      BY <2>1, <3>2 DEF TypeOK
    <3> QED  BY <1>14, <2>1, <3>1, <3>2 DEF PutObject, BundleOf, o
  <2>3. job' \in Jobs
    <3>1. job.put + 1 \in Written
      <4>1. job.put \in Written /\ job.put < 6  BY <1>14 DEF PutObject, JobInv, TypeOK, Jobs
      <4> QED  BY <4>1 DEF Written
    <3>2. job \in Jobs  BY DEF TypeOK
    <3>3. [job EXCEPT !.put = job.put + 1, !.pc = IF job.put = 5 THEN "notify" ELSE "put"] \in Jobs
      BY <3>1, <3>2 DEF Jobs
    <3>4. NextDomain \in Jobs  BY JobTypes
    <3> QED  BY <1>14, <3>3, <3>4 DEF PutObject
  <2>4. faults' \in SUBSET Faults  BY <1>14, FaultType DEF PutObject
  <2> QED  BY <1>14, <2>2, <2>3, <2>4 DEF TypeOK, PutObject
<1>15. CASE PublishIssued
  <2>1. job.host \in Hosts  BY DEF TypeOK, Jobs
  <2>2. told' \in [Hosts -> Projections]
    BY <1>15, <2>1, PublishesType DEF PublishIssued, PublishFails, TypeOK
  <2>3. faults' \in SUBSET Faults  BY <1>15, FaultType DEF PublishIssued, PublishFails
  <2> QED  BY <1>15, <2>2, <2>3, JobTypes DEF TypeOK, PublishIssued
<1>16. CASE MasterCrash
  <2>1. faults' \in SUBSET Faults  BY <1>16, FaultType DEF MasterCrash
  <2>2. job' \in Jobs  BY <1>16, JobTypes DEF MasterCrash
  <2>3. queue' = <<>>  BY <1>16 DEF MasterCrash
  <2>4. queue' \in Seq(Hosts) /\ Len(queue') <= QueueCap  BY <2>3, CertAssumption
  <2> QED  BY <1>16, <2>1, <2>2, <2>4 DEF TypeOK, MasterCrash
<1> QED
  BY <1>1, <1>2, <1>3, <1>4, <1>5, <1>6, <1>7, <1>8, <1>9, <1>10, <1>11, <1>12, <1>13,
     <1>14, <1>15, <1>16
  DEF MasterNext, Issuing
-----------------------------------------------------------------------------
(***************************************************************************)
(* What steps do to the goroutine and to the rows.                         *)
(***************************************************************************)

\* The states of the goroutine outside an order.
Quiet(pc) == pc \in {"scan", "select", "next", "issue"}

\* The step leaves numbers and certificates of all rows.
SameRows ==
  \A h \in Hosts : /\ DOMAIN certs'[h] = DOMAIN certs[h]
                  /\ \A k \in DOMAIN certs[h] : /\ certs'[h][k].rev = certs[h][k].rev
                                                /\ certs'[h][k].cert = certs[h][k].cert

\* The step inserts the row of the running order.
NewRow ==
  /\ \A h \in Hosts \ {job.host} : certs'[h] = certs[h]
  /\ \E n \in Nat :
       /\ DOMAIN certs[job.host] = 1..n /\ DOMAIN certs'[job.host] = 1..(n + 1)
       /\ \A k \in 1..n : certs'[job.host][k] = certs[job.host][k]
       /\ certs'[job.host][n + 1].rev = job.rev
       /\ certs'[job.host][n + 1].cert = job.cert

\* Time changes no number and no certificate.
LEMMA AgeRows ==
  ASSUME TypeOK, NEW h \in Hosts, Age(h)
  PROVE  SameRows
<1>1. \A g \in Hosts \ {h} : certs'[g] = certs[g]  BY DEF TypeOK, Age
<1>2. certs'[h] = [i \in DOMAIN certs[h] |-> [certs[h][i] EXCEPT !.fresh = FALSE]]
  BY DEF TypeOK, Age
<1>3. \A i \in DOMAIN certs[h] : certs[h][i] \in CertRows  BY DEF TypeOK
<1>4. \A i \in DOMAIN certs[h] : /\ certs'[h][i].rev = certs[h][i].rev
                                /\ certs'[h][i].cert = certs[h][i].cert
  BY <1>2, <1>3 DEF CertRows
<1> QED  BY <1>1, <1>2, <1>4 DEF SameRows

\* Persist inserts a row or fails.
LEMMA PersistRows ==
  ASSUME TypeOK, Persist
  PROVE  \/ NewRow /\ job' = [job EXCEPT !.pc = "put"]
         \/ certs' = certs /\ job' = NextDomain
<1>1. job.host \in Hosts  BY DEF TypeOK, Jobs
<1>2. certs[job.host] \in Seq(CertRows)  BY <1>1 DEF TypeOK
<1> DEFINE row == [rev |-> job.rev, cert |-> job.cert, fresh |-> TRUE]
<1>3. CASE certs' = [certs EXCEPT ![job.host] = Append(@, row)] /\ job' = [job EXCEPT !.pc = "put"]
  <2>1. certs'[job.host] = Append(certs[job.host], row)  BY <1>1, <1>3 DEF TypeOK
  <2>2. \A h \in Hosts \ {job.host} : certs'[h] = certs[h]  BY <1>3 DEF TypeOK
  <2>3. PICK n \in Nat : n = Len(certs[job.host])  BY <1>2
  <2>4. /\ DOMAIN certs[job.host] = 1..n /\ DOMAIN certs'[job.host] = 1..(n + 1)
        /\ \A k \in 1..n : certs'[job.host][k] = certs[job.host][k]
        /\ certs'[job.host][n + 1] = row
    <3> HIDE DEF row
    <3> QED  BY <1>2, <2>1, <2>3
  <2>5. row.rev = job.rev /\ row.cert = job.cert  OBVIOUS
  <2> HIDE DEF row
  <2> QED  BY <1>3, <2>2, <2>4, <2>5 DEF NewRow
<1> QED  BY <1>3 DEF Persist

\* The reconciler's own steps keep the goroutine outside an order.
LEMMA QuietSteps ==
  ASSUME TypeOK, Scan \/ TakeNotified \/ Reconcile \/ EndScan
  PROVE  /\ Quiet(job.pc) /\ Quiet(job'.pc)
         /\ job'.cert = job.cert /\ job'.put = job.put
         /\ UNCHANGED <<certs, store, minted, tokens, txt, told>>
<1>1. CASE Scan  BY <1>1 DEF Scan, TypeOK, Jobs, Quiet
<1>2. CASE TakeNotified  BY <1>2 DEF TakeNotified, TypeOK, Jobs, Quiet
<1>3. CASE Reconcile  BY <1>3 DEF Reconcile, TypeOK, Jobs, Quiet
<1>4. CASE EndScan  BY <1>4 DEF EndScan, TypeOK, Jobs, Quiet
<1> QED  BY <1>1, <1>2, <1>3, <1>4

\* An order that ends leaves nothing in the goroutine.
LEMMA EndOfOrder ==
  ASSUME TypeOK
  PROVE  /\ NextDomain.pc = "next" /\ NextDomain.cert = 0 /\ NextDomain.put = 0
         /\ IdleJob("scan").pc = "scan" /\ IdleJob("scan").cert = 0
         /\ IdleJob("scan").put = 0
BY DEF TypeOK, Jobs, NextDomain, IdleJob
-----------------------------------------------------------------------------
(***************************************************************************)
(* JobInv and ChallengeInv.                                                *)
(***************************************************************************)

\* A step that ends in a quiet state and leaves numbers as they are.
LEMMA QuietJob ==
  ASSUME JobInv, minted' = minted, SameRows, Quiet(job'.pc), job'.cert = 0, job'.put = 0
  PROVE  JobInv'
BY DEF JobInv, SameRows, Quiet, Ordering

\* Every step of the master keeps JobInv.
LEMMA JobStep ==
  ASSUME TypeOK, TypeOK', JobInv, MasterNext
  PROVE  JobInv'
<1> USE DEF Ordering
<1>a. certs' = certs => SameRows  BY DEF SameRows
<1>b. job.host \in Hosts /\ minted[job.host] \in Nat /\ job.rev \in Nat /\ job.cert \in Nat
  <2>1. job.host \in Hosts /\ job.rev \in Revisions \cup {0, MaxCerts + 1}
        /\ job.cert \in Prefixes
    BY DEF TypeOK, Jobs
  <2>2. minted[job.host] \in Prefixes  BY <2>1 DEF TypeOK
  <2> QED  BY <2>1, <2>2, CertAssumption DEF Prefixes, Revisions
<1>c. Quiet(job.pc) => job.cert = 0 /\ job.put = 0  BY DEF JobInv, Quiet
<1>1. ASSUME NEW h \in Hosts,
             (\E need, l7 \in BOOLEAN : ChangeDomain(h, need, l7)) \/ DeleteDomain(h)
             \/ PublishChange(h)
      PROVE  JobInv'
  BY <1>1 DEF JobInv, ChangeDomain, DeleteDomain, PublishChange
<1>2. ASSUME NEW h \in Hosts, Age(h) PROVE JobInv'
  <2>1. SameRows  BY <1>2, AgeRows
  <2> QED  BY <1>2, <2>1 DEF JobInv, Age, SameRows
<1>3. CASE Scan \/ TakeNotified \/ Reconcile \/ EndScan
  BY <1>3, <1>a, <1>c, QuietSteps, QuietJob
<1>4. CASE BeginIssue
  <2>1. CASE job' = NextDomain
    BY <1>4, <1>a, <2>1, EndOfOrder, QuietJob DEF BeginIssue, Quiet
  <2>2. CASE job' # NextDomain
    <3>1. LatestRev(job.host) <= minted[job.host] /\ LatestRev(job.host) \in Nat
      <4>1. LatestRev(job.host) \in Nat
        BY <1>b, LatestRevision
      <4>2. LatestRev(job.host) = 0 \/ HasRevision(job.host, LatestRev(job.host))
        BY <1>b, LatestRevision
      <4> QED  BY <1>b, <4>1, <4>2 DEF JobInv, HasRevision
    <3>2. /\ job'.pc = "present" /\ job'.host = job.host
          /\ job'.rev \in {LatestRev(job.host) + 1, 1}
          /\ job'.cert = 0 /\ job'.put = 0
      BY <1>4, <1>c, <2>2 DEF BeginIssue, TypeOK, Jobs, Quiet
    <3>3. job'.rev \in 1..(minted[job.host] + 1)  BY <1>b, <3>1, <3>2
    <3> QED  BY <1>4, <3>2, <3>3 DEF BeginIssue, JobInv
  <2> QED  BY <2>1, <2>2
<1>5. CASE Present
  <2>1. /\ job.pc = "present" /\ job'.pc \in {"obtain", "cleanup"}
        /\ job'.host = job.host /\ job'.rev = job.rev /\ job'.cert = job.cert
        /\ job'.put = job.put
    BY <1>5 DEF Present, PresentHTTP01, PresentDNS01, TypeOK, Jobs
  <2> QED  BY <1>5, <2>1 DEF Present, JobInv
<1>6. CASE Obtain
  <2>1. /\ job.pc = "obtain" /\ job'.pc = "cleanup"
        /\ job'.host = job.host /\ job'.rev = job.rev /\ job'.put = job.put
    BY <1>6 DEF Obtain, TypeOK, Jobs
  <2>2. CASE UNCHANGED minted /\ job'.cert = job.cert
    BY <1>6, <2>1, <2>2 DEF Obtain, JobInv
  <2>3. CASE /\ minted' = [minted EXCEPT ![job.host] = @ + 1]
             /\ job'.cert = minted[job.host] + 1
    <3>1. minted'[job.host] = minted[job.host] + 1 /\ \A h \in Hosts \ {job.host} : minted'[h] = minted[h]
      BY <1>b, <2>3 DEF TypeOK
    <3>2. \A h \in Hosts : \A k \in DOMAIN certs[h] : certs[h][k].rev \in Nat
      <4>1. \A h \in Hosts : \A k \in DOMAIN certs[h] : certs[h][k] \in CertRows
        BY DEF TypeOK
      <4> QED  BY <4>1, CertAssumption DEF CertRows, Revisions
    <3>3. certs' = certs  BY <1>6 DEF Obtain
    <3>4. \A h \in Hosts : \A k \in DOMAIN certs'[h] :
             /\ certs'[h][k].rev <= minted'[h]
             /\ h = job.host => certs'[h][k].rev < minted'[h]
      BY <1>b, <3>1, <3>2, <3>3 DEF JobInv
    <3>5. job.rev \in 1..(minted[job.host] + 1) /\ job.put = 0  BY <2>1 DEF JobInv
    <3> QED  BY <1>b, <2>1, <2>3, <3>1, <3>4, <3>5 DEF JobInv
  <2> QED  BY <1>6, <2>2, <2>3 DEF Obtain, TypeOK, Jobs
<1>7. CASE CleanUp
  <2>1. CASE job.cert = 0
    BY <1>7, <1>a, <2>1, EndOfOrder, QuietJob DEF CleanUp, Quiet
  <2>2. CASE job.cert # 0
    <3>1. /\ job.pc = "cleanup" /\ job'.pc = "persist"
          /\ job'.host = job.host /\ job'.rev = job.rev /\ job'.cert = job.cert
          /\ job'.put = job.put
      BY <1>7, <2>2 DEF CleanUp, TypeOK, Jobs
    <3> QED  BY <1>7, <2>2, <3>1 DEF CleanUp, JobInv
  <2> QED  BY <2>1, <2>2
<1>8. CASE Persist
  <2>1. CASE certs' = certs /\ job' = NextDomain
    BY <1>8, <1>a, <2>1, EndOfOrder, QuietJob DEF Persist, Quiet
  <2>2. CASE NewRow /\ job' = [job EXCEPT !.pc = "put"]
    <3>1. /\ job.pc = "persist" /\ job'.pc = "put"
          /\ job'.host = job.host /\ job'.rev = job.rev /\ job'.cert = job.cert
          /\ job'.put = job.put
      BY <1>8, <2>2 DEF Persist, TypeOK, Jobs
    <3>2. \A h \in Hosts : \A k \in DOMAIN certs'[h] : certs'[h][k].rev <= minted[h]
      <4>1. PICK n \in Nat :
              /\ DOMAIN certs[job.host] = 1..n /\ DOMAIN certs'[job.host] = 1..(n + 1)
              /\ \A k \in 1..n : certs'[job.host][k] = certs[job.host][k]
              /\ certs'[job.host][n + 1].rev = job.rev
        BY <2>2 DEF NewRow
      <4>2. \A k \in 1..(n + 1) : k = n + 1 \/ k \in 1..n  OBVIOUS
      <4>3. job.rev <= minted[job.host]  BY <1>b, <3>1 DEF JobInv
      <4>4. \A k \in 1..n : certs[job.host][k].rev <= minted[job.host]
        BY <1>b, <4>1 DEF JobInv
      <4>5. \A h \in Hosts \ {job.host} : \A k \in DOMAIN certs'[h] : certs'[h][k].rev <= minted[h]
        BY <2>2 DEF NewRow, JobInv
      <4> QED  BY <4>1, <4>2, <4>3, <4>4, <4>5
    <3> QED  BY <1>8, <3>1, <3>2 DEF Persist, JobInv
  <2> QED  BY <1>8, <2>1, <2>2, PersistRows
<1>9. CASE PutObject
  <2>1. CASE job' = NextDomain
    BY <1>9, <1>a, <2>1, EndOfOrder, QuietJob DEF PutObject, Quiet
  <2>2. CASE job' # NextDomain
    <3>1. /\ job.pc = "put" /\ job'.pc = (IF job.put = 5 THEN "notify" ELSE "put")
          /\ job'.host = job.host /\ job'.rev = job.rev /\ job'.cert = job.cert
          /\ job'.put = job.put + 1
      BY <1>9, <2>2 DEF PutObject, TypeOK, Jobs
    <3>2. job.put \in 0..6  BY DEF TypeOK, Jobs, Written
    <3>3. job'.pc = "put" => job'.put < 6  BY <3>1, <3>2 DEF JobInv
    <3>4. certs' = certs /\ minted' = minted  BY <1>9 DEF PutObject
    <3>5. job.cert # 0  BY <3>1 DEF JobInv
    <3> QED  BY <3>1, <3>3, <3>4, <3>5 DEF JobInv
  <2> QED  BY <2>1, <2>2
<1>10. CASE PublishIssued
  BY <1>10, <1>a, EndOfOrder, QuietJob DEF PublishIssued, Quiet
<1>11. CASE MasterCrash
  BY <1>11, <1>a, EndOfOrder, QuietJob DEF MasterCrash, Quiet
<1> QED
  BY <1>1, <1>2, <1>3, <1>4, <1>5, <1>6, <1>7, <1>8, <1>9, <1>10, <1>11
  DEF MasterNext, Issuing
\* No step of the master takes a fault back.
LEMMA FaultsGrow ==
  ASSUME MasterNext
  PROVE  faults \subseteq faults'
BY DEF MasterNext, Issuing, ChangeDomain, DeleteDomain, PublishChange, Age, Scan,
       TakeNotified, Reconcile, EndScan, BeginIssue, Present, PresentHTTP01, PresentDNS01,
       Obtain, CleanUp, CleanUpHTTP01, CleanUpDNS01, Persist, PutObject, PublishIssued,
       MasterCrash, Fault, NoFault, PublishFails, NewIssuerFails

\* Every step of the master keeps ChallengeInv: an order puts its answer where
\* its own clean-up removes it, for the kind of challenge does not change
\* between the two.
LEMMA ChallengeStep ==
  ASSUME TypeOK, ChallengeInv, MasterNext
  PROVE  ChallengeInv'
<1>a. faults \subseteq faults'  BY FaultsGrow
<1>b. job.pc \notin {"obtain", "cleanup"} =>
        tokens = {} /\ (faults \cap {"crash", "write"} = {} => txt = {})
  BY DEF ChallengeInv
<1>1. ASSUME NEW h \in Hosts,
             (\E need, l7 \in BOOLEAN : ChangeDomain(h, need, l7)) \/ DeleteDomain(h)
             \/ PublishChange(h) \/ Age(h)
      PROVE  ChallengeInv'
  <2>1. UNCHANGED <<job, tokens, txt>>
    BY <1>1 DEF ChangeDomain, DeleteDomain, PublishChange, Age
  <2> QED  BY <1>a, <2>1 DEF ChallengeInv
<1>2. ASSUME job.pc \notin {"obtain", "cleanup"}, UNCHANGED <<tokens, txt>>
      PROVE  ChallengeInv'
  BY <1>a, <1>b, <1>2 DEF ChallengeInv
<1>3. CASE Scan \/ TakeNotified \/ Reconcile \/ EndScan
  BY <1>2, <1>3, QuietSteps DEF Quiet
<1>4. CASE BeginIssue \/ Persist \/ PutObject \/ PublishIssued
  BY <1>2, <1>4 DEF BeginIssue, Persist, PutObject, PublishIssued
<1>5. CASE Present
  <2>1. CASE job.l7
    <3>1. job' = [job EXCEPT !.pc = "obtain"] /\ tokens' = tokens \cup {job.host} /\ txt' = txt
      BY <1>5, <2>1 DEF Present, PresentHTTP01
    <3>2. job'.pc = "obtain" /\ job'.l7 /\ job'.host = job.host
      BY <2>1, <3>1 DEF TypeOK, Jobs
    <3> QED  BY <1>5, <1>a, <1>b, <3>1, <3>2 DEF Present, ChallengeInv
  <2>2. CASE ~job.l7
    <3>1. /\ job' \in {[job EXCEPT !.pc = "obtain"], [job EXCEPT !.pc = "cleanup"]}
          /\ tokens' = tokens
          /\ txt' \in {txt \cup {job.host}, txt}
      BY <1>5, <2>2 DEF Present, PresentDNS01
    <3>2. job'.pc \in {"obtain", "cleanup"} /\ ~job'.l7 /\ job'.host = job.host
      BY <2>2, <3>1 DEF TypeOK, Jobs
    <3> QED  BY <1>5, <1>a, <1>b, <3>1, <3>2 DEF Present, ChallengeInv
  <2> QED  BY <2>1, <2>2
<1>6. CASE Obtain
  <2>1. job.pc = "obtain" /\ job'.pc = "cleanup" /\ job'.l7 = job.l7 /\ job'.host = job.host
    BY <1>6 DEF Obtain, TypeOK, Jobs
  <2> QED  BY <1>6, <1>a, <2>1 DEF Obtain, ChallengeInv
<1>7. CASE CleanUp
  <2>1. CASE job.l7
    <3>1. tokens' = {} /\ txt' = txt
      BY <1>7, <2>1 DEF CleanUp, CleanUpHTTP01, ChallengeInv
    <3> QED  BY <1>a, <2>1, <3>1 DEF ChallengeInv
  <2>2. CASE ~job.l7
    <3>1. tokens' = {} /\ (txt' = txt \ {job.host} \/ "write" \in faults')
      BY <1>7, <2>2 DEF CleanUp, CleanUpDNS01, ChallengeInv, Fault
    <3> QED  BY <1>a, <3>1 DEF ChallengeInv
  <2> QED  BY <2>1, <2>2
<1>8. CASE MasterCrash
  BY <1>8 DEF MasterCrash, ChallengeInv, Fault
<1> QED
  BY <1>1, <1>3, <1>4, <1>5, <1>6, <1>7, <1>8 DEF MasterNext, Issuing

-----------------------------------------------------------------------------
(***************************************************************************)
(* RevisionInv: the objects of a revision and its row.                     *)
(***************************************************************************)

\* A step that leaves rows and objects, and in which an order keeps its
\* revision or ends.
LEMMA RevisionFrame ==
  ASSUME TypeOK, RevisionInv, SameRows, store' = store, job.host \in Hosts,
         \/ job'.pc \notin Ordering \cup {"put"}
         \/ /\ job.pc \in Ordering /\ job'.pc \in Ordering
            /\ job'.host = job.host /\ job'.rev = job.rev
         \/ job' = job
  PROVE  RevisionInv'
<1>1. \A h \in Hosts, r \in Revisions : HasRevision(h, r)' = HasRevision(h, r)
  BY DEF HasRevision, SameRows
<1>2. job'.pc \in Ordering =>
        \A k \in DOMAIN certs'[job'.host] : certs'[job'.host][k].rev < job'.rev
  BY DEF RevisionInv, NumberIsNext, SameRows, Ordering
<1>3. job'.pc = "put" => \E k \in DOMAIN certs'[job'.host] :
        certs'[job'.host][k].rev = job'.rev /\ certs'[job'.host][k].cert = job'.cert
  BY DEF RevisionInv, PutsItsRow, SameRows, Ordering
<1>4. \A h \in Hosts : \A j, k \in DOMAIN certs'[h] :
         certs'[h][j].rev = certs'[h][k].rev => j = k
  BY DEF RevisionInv, NumbersDiffer, SameRows
<1>5. \A h \in Hosts : \A k \in DOMAIN certs'[h] : \A f \in Files :
         store'[h][certs'[h][k].rev][f] \in {0, certs'[h][k].cert}
  <2>1. ASSUME NEW h \in Hosts, NEW k \in DOMAIN certs'[h]
        PROVE  /\ k \in DOMAIN certs[h] /\ certs'[h][k].rev = certs[h][k].rev
               /\ certs'[h][k].cert = certs[h][k].cert
    BY DEF SameRows
  <2> QED  BY <2>1 DEF RevisionInv, ObjectsOfRow
<1>6. ObjectsHaveRow'  BY <1>1 DEF RevisionInv, ObjectsHaveRow
<1>7. NumberIsNext' /\ PutsItsRow'  BY <1>2, <1>3 DEF NumberIsNext, PutsItsRow
<1>8. NumbersDiffer' /\ ObjectsOfRow'  BY <1>4, <1>5 DEF NumbersDiffer, ObjectsOfRow
<1> QED  BY <1>6, <1>7, <1>8 DEF RevisionInv

\* Every step of the master in whose history no read of the latest revision
\* failed keeps RevisionInv.
LEMMA RevisionStep ==
  ASSUME TypeOK, JobInv, RevisionInv, MasterNext, "read" \notin faults'
  PROVE  RevisionInv'
<1>a. certs' = certs => SameRows  BY DEF SameRows
<1>b. job.host \in Hosts  BY DEF TypeOK, Jobs
<1>1. ASSUME NEW h \in Hosts,
             (\E need, l7 \in BOOLEAN : ChangeDomain(h, need, l7)) \/ DeleteDomain(h)
             \/ PublishChange(h)
      PROVE  RevisionInv'
  <2>1. UNCHANGED <<certs, store, job>>
    BY <1>1 DEF ChangeDomain, DeleteDomain, PublishChange
  <2> QED  BY <1>a, <1>b, <2>1, RevisionFrame
<1>2. ASSUME NEW h \in Hosts, Age(h) PROVE RevisionInv'
  <2>1. SameRows  BY <1>2, AgeRows
  <2> QED  BY <1>2, <1>b, <2>1, RevisionFrame DEF Age
<1>3. CASE Scan \/ TakeNotified \/ Reconcile \/ EndScan
  <2>1. Quiet(job'.pc) /\ UNCHANGED <<certs, store>>  BY <1>3, QuietSteps
  <2> QED  BY <1>a, <1>b, <2>1, RevisionFrame DEF Quiet, Ordering
<1>4. ASSUME job' = NextDomain \/ job' = IdleJob("scan"), UNCHANGED <<certs, store>>
      PROVE  RevisionInv'
  <2>1. Quiet(job'.pc)  BY <1>4, EndOfOrder DEF Quiet
  <2> QED  BY <1>4, <1>a, <1>b, <2>1, RevisionFrame DEF Quiet, Ordering
<1>5. CASE BeginIssue
  <2>1. CASE job' = NextDomain  BY <1>4, <1>5, <2>1 DEF BeginIssue
  <2>2. CASE job' # NextDomain
    <3>1. /\ job'.pc = "present" /\ job'.host = job.host
          /\ job'.rev = LatestRev(job.host) + 1
          /\ UNCHANGED <<certs, store>>
      BY <1>5, <2>2 DEF BeginIssue, TypeOK, Jobs, Fault
    <3>2. \A k \in DOMAIN certs'[job'.host] : certs'[job'.host][k].rev < job'.rev
      <4>1. \A k \in DOMAIN certs[job.host] : certs[job.host][k].rev \in Nat
        <5>1. \A k \in DOMAIN certs[job.host] : certs[job.host][k] \in CertRows
          BY <1>b DEF TypeOK
        <5> QED  BY <5>1, CertAssumption DEF CertRows, Revisions
      <4>2. LatestRev(job.host) \in Nat
        BY <1>b, LatestRevision
      <4>3. \A k \in DOMAIN certs[job.host] : certs[job.host][k].rev <= LatestRev(job.host)
        BY <1>b, LatestRevision
      <4> QED  BY <3>1, <4>1, <4>2, <4>3
    <3>3. \A h \in Hosts, r \in Revisions : HasRevision(h, r)' = HasRevision(h, r)
      BY <3>1 DEF HasRevision
    <3>4. ObjectsHaveRow'  BY <3>1, <3>3 DEF RevisionInv, ObjectsHaveRow
    <3>5. NumbersDiffer' /\ ObjectsOfRow'
      BY <3>1 DEF RevisionInv, NumbersDiffer, ObjectsOfRow
    <3>6. NumberIsNext' /\ PutsItsRow'  BY <3>1, <3>2 DEF NumberIsNext, PutsItsRow
    <3> QED  BY <3>4, <3>5, <3>6 DEF RevisionInv
  <2> QED  BY <2>1, <2>2
<1>6. CASE Present \/ Obtain
  <2>1. /\ job.pc \in {"present", "obtain"} /\ job'.pc \in {"obtain", "cleanup"}
        /\ job'.host = job.host /\ job'.rev = job.rev /\ UNCHANGED <<certs, store>>
    BY <1>6 DEF Present, PresentHTTP01, PresentDNS01, Obtain, TypeOK, Jobs
  <2> QED  BY <1>a, <1>b, <2>1, RevisionFrame DEF Ordering
<1>7. CASE CleanUp
  <2>1. CASE job.cert = 0  BY <1>4, <1>7, <2>1 DEF CleanUp
  <2>2. CASE job.cert # 0
    <3>1. /\ job.pc = "cleanup" /\ job'.pc = "persist"
          /\ job'.host = job.host /\ job'.rev = job.rev /\ UNCHANGED <<certs, store>>
      BY <1>7, <2>2 DEF CleanUp, TypeOK, Jobs
    <3> QED  BY <1>a, <1>b, <3>1, RevisionFrame DEF Ordering
  <2> QED  BY <2>1, <2>2
<1>8. CASE Persist
  <2>1. CASE certs' = certs /\ job' = NextDomain  BY <1>4, <1>8, <2>1 DEF Persist
  <2>2. CASE NewRow /\ job' = [job EXCEPT !.pc = "put"]
    <3>1. /\ job.pc = "persist" /\ job'.pc = "put" /\ store' = store
          /\ job'.host = job.host /\ job'.rev = job.rev /\ job'.cert = job.cert
      BY <1>8, <2>2 DEF Persist, TypeOK, Jobs
    <3>2. PICK n \in Nat :
            /\ DOMAIN certs[job.host] = 1..n /\ DOMAIN certs'[job.host] = 1..(n + 1)
            /\ \A k \in 1..n : certs'[job.host][k] = certs[job.host][k]
            /\ certs'[job.host][n + 1].rev = job.rev
            /\ certs'[job.host][n + 1].cert = job.cert
      BY <2>2 DEF NewRow
    <3>3. \A h \in Hosts \ {job.host} : certs'[h] = certs[h]  BY <2>2 DEF NewRow
    <3>4. job.rev \in Revisions
      <4>1. minted[job.host] \in Prefixes  BY <1>b DEF TypeOK
      <4>2. job.rev \in 1..minted[job.host]  BY <3>1 DEF JobInv
      <4> QED  BY <4>1, <4>2, CertAssumption DEF Prefixes, Revisions
    <3>5. \A k \in 1..n : certs[job.host][k].rev < job.rev /\ certs[job.host][k].rev \in Nat
      <4>1. \A k \in 1..n : certs[job.host][k] \in CertRows  BY <1>b, <3>2 DEF TypeOK
      <4>2. \A k \in 1..n : certs[job.host][k].rev \in Nat
        BY <4>1, CertAssumption DEF CertRows, Revisions
      <4>3. \A k \in DOMAIN certs[job.host] : certs[job.host][k].rev < job.rev
        BY <3>1 DEF RevisionInv, NumberIsNext, Ordering
      <4> QED  BY <3>2, <4>2, <4>3
    <3>6. \A f \in Files : store[job.host][job.rev][f] = 0
      <4>1. job.rev \in Nat  BY <3>4 DEF Revisions
      <4>2. \A k \in DOMAIN certs[job.host] : certs[job.host][k].rev # job.rev
        BY <3>2, <3>5, <4>1
      <4>3. ~HasRevision(job.host, job.rev)  BY <4>2 DEF HasRevision
      <4> QED  BY <1>b, <3>4, <4>3 DEF RevisionInv, ObjectsHaveRow
    <3>7. \A h \in Hosts : \A j, k \in DOMAIN certs'[h] :
             certs'[h][j].rev = certs'[h][k].rev => j = k
      <4>1. ASSUME NEW h \in Hosts \ {job.host}
            PROVE  \A j, k \in DOMAIN certs'[h] : certs'[h][j].rev = certs'[h][k].rev => j = k
        BY <3>3 DEF RevisionInv, NumbersDiffer
      <4>2. \A j, k \in 1..(n + 1) : certs'[job.host][j].rev = certs'[job.host][k].rev => j = k
        <5>1. \A j, k \in 1..n : certs[job.host][j].rev = certs[job.host][k].rev => j = k
          BY <1>b, <3>2 DEF RevisionInv, NumbersDiffer
        <5>2. \A k \in 1..n : certs'[job.host][k].rev # certs'[job.host][n + 1].rev
          BY <3>2, <3>5
        <5>3. \A k \in 1..(n + 1) : k \in 1..n \/ k = n + 1  OBVIOUS
        <5> QED  BY <3>2, <5>1, <5>2, <5>3
      <4> QED  BY <3>2, <4>1, <4>2
    <3>8. \A h \in Hosts : \A r \in Revisions : \A f \in Files :
             store'[h][r][f] # 0 => HasRevision(h, r)'
      <4>1. \A h \in Hosts, r \in Revisions : HasRevision(h, r) => HasRevision(h, r)'
        BY <3>2, <3>3 DEF HasRevision
      <4> QED  BY <3>1, <4>1 DEF RevisionInv, ObjectsHaveRow
    <3>9. \A h \in Hosts : \A k \in DOMAIN certs'[h] : \A f \in Files :
             store'[h][certs'[h][k].rev][f] \in {0, certs'[h][k].cert}
      <4>1. ASSUME NEW h \in Hosts \ {job.host}, NEW k \in DOMAIN certs'[h], NEW f \in Files
            PROVE  store'[h][certs'[h][k].rev][f] \in {0, certs'[h][k].cert}
        BY <3>1, <3>3 DEF RevisionInv, ObjectsOfRow
      <4>2. ASSUME NEW k \in 1..(n + 1), NEW f \in Files
            PROVE  store'[job.host][certs'[job.host][k].rev][f] \in {0, certs'[job.host][k].cert}
        <5>1. CASE k = n + 1  BY <3>1, <3>2, <3>6, <5>1
        <5>2. CASE k \in 1..n  BY <1>b, <3>1, <3>2, <5>2 DEF RevisionInv, ObjectsOfRow
        <5>3. k = n + 1 \/ k \in 1..n  OBVIOUS
        <5> QED  BY <5>1, <5>2, <5>3
      <4> QED  BY <3>2, <4>1, <4>2
    <3>10. \E k \in DOMAIN certs'[job'.host] :
             certs'[job'.host][k].rev = job'.rev /\ certs'[job'.host][k].cert = job'.cert
      <4>1. n + 1 \in DOMAIN certs'[job'.host]  BY <3>1, <3>2
      <4> QED  BY <3>1, <3>2, <4>1
    <3>11. NumberIsNext'  BY <3>1 DEF NumberIsNext, Ordering
    <3>12. NumbersDiffer' /\ ObjectsHaveRow'  BY <3>7, <3>8 DEF NumbersDiffer, ObjectsHaveRow
    <3>13. ObjectsOfRow' /\ PutsItsRow'  BY <3>9, <3>10 DEF ObjectsOfRow, PutsItsRow
    <3> QED  BY <3>11, <3>12, <3>13 DEF RevisionInv
  <2> QED  BY <1>8, <2>1, <2>2, PersistRows
<1>9. CASE PutObject
  <2>1. CASE job' = NextDomain /\ store' = store  BY <1>4, <1>9, <2>1 DEF PutObject
  <2>2. CASE ~(job' = NextDomain /\ store' = store)
    <3> DEFINE o == PutOrder(job.rev)[job.put + 1]
    <3>1. /\ job.pc = "put" /\ job'.pc \in {"notify", "put"} /\ certs' = certs
          /\ job'.host = job.host /\ job'.rev = job.rev /\ job'.cert = job.cert
          /\ store' = [store EXCEPT ![job.host][o.at][o.file] = BundleOf(job.cert)[o.file]]
      BY <1>9, <2>2 DEF PutObject, TypeOK, Jobs
    <3>2. job.rev \in Revisions /\ o.at \in {0, job.rev} /\ o.file \in Files
      BY <3>1, PutStep
    <3> HIDE DEF o
    <3>3. \A h \in Hosts, r \in Revisions, f \in Files :
             store'[h][r][f] # store[h][r][f] =>
               h = job.host /\ r = job.rev /\ store'[h][r][f] = job.cert
      <4>1. \A r \in Revisions : r \in Prefixes /\ r # 0  BY DEF Prefixes, Revisions
      <4>2. BundleOf(job.cert)[o.file] = job.cert  BY <3>2 DEF BundleOf
      <4>3. o.at \in Prefixes  BY <3>2 DEF Prefixes
      <4>4. store \in [Hosts -> [Prefixes -> [Files -> Prefixes]]]  BY DEF TypeOK
      <4>5. \A h \in Hosts, r \in Revisions, f \in Files :
               ~(h = job.host /\ r = o.at /\ f = o.file) => store'[h][r][f] = store[h][r][f]
        <5>1. CASE store' = store  BY <5>1
        <5>2. CASE store' = [store EXCEPT ![job.host][o.at][o.file] = BundleOf(job.cert)[o.file]]
          <6>1. ASSUME NEW h \in Hosts, NEW r \in Prefixes, NEW f \in Files,
                       ~(h = job.host /\ r = o.at /\ f = o.file)
                PROVE  store'[h][r][f] = store[h][r][f]
            BY <4>4, <5>2, <6>1
          <6> QED  BY <4>1, <6>1
        <5> QED  BY <3>1, <5>1, <5>2
      <4>6. store'[job.host][o.at][o.file] = job.cert  BY <1>b, <3>1, <3>2, <4>2, <4>3, <4>4
      <4> QED  BY <3>2, <4>1, <4>5, <4>6
    <3>4. PICK n \in DOMAIN certs[job.host] :
             certs[job.host][n].rev = job.rev /\ certs[job.host][n].cert = job.cert
      BY <3>1 DEF RevisionInv, PutsItsRow
    <3>5. \A h \in Hosts, r \in Revisions : HasRevision(h, r)' = HasRevision(h, r)
      BY <3>1 DEF HasRevision
    <3>6. \A h \in Hosts : \A r \in Revisions : \A f \in Files :
             store'[h][r][f] # 0 => HasRevision(h, r)'
      <4>1. HasRevision(job.host, job.rev)  BY <3>4 DEF HasRevision
      <4>2. ASSUME NEW h \in Hosts, NEW q \in Revisions, NEW f \in Files, store'[h][q][f] # 0
            PROVE  HasRevision(h, q)
        <5>1. CASE store'[h][q][f] = store[h][q][f]
          BY <4>2, <5>1 DEF RevisionInv, ObjectsHaveRow
        <5>2. CASE store'[h][q][f] # store[h][q][f]  BY <3>3, <4>1, <5>2
        <5> QED  BY <5>1, <5>2
      <4> QED  BY <3>5, <4>2
    <3>7. \A h \in Hosts : \A k \in DOMAIN certs[h] : \A f \in Files :
             store'[h][certs[h][k].rev][f] \in {0, certs[h][k].cert}
      <4>1. ASSUME NEW h \in Hosts, NEW k \in DOMAIN certs[h], NEW f \in Files
            PROVE  store'[h][certs[h][k].rev][f] \in {0, certs[h][k].cert}
        <5>1. certs[h][k].rev \in Revisions
          <6>1. certs[h][k] \in CertRows  BY DEF TypeOK
          <6> QED  BY <6>1 DEF CertRows
        <5>2. CASE store'[h][certs[h][k].rev][f] = store[h][certs[h][k].rev][f]
          BY <5>2 DEF RevisionInv, ObjectsOfRow
        <5>3. CASE h = job.host /\ certs[h][k].rev = job.rev
                   /\ store'[h][certs[h][k].rev][f] = job.cert
          <6>1. k = n  BY <1>b, <3>4, <5>3 DEF RevisionInv, NumbersDiffer
          <6> QED  BY <3>4, <5>3, <6>1
        <5>4. ASSUME NEW q \in Revisions, store'[h][q][f] # store[h][q][f]
              PROVE  h = job.host /\ q = job.rev /\ store'[h][q][f] = job.cert
          BY <3>3, <5>4
        <5> QED  BY <5>1, <5>2, <5>3, <5>4
      <4> QED  BY <4>1
    <3>8. NumberIsNext' /\ PutsItsRow'  BY <3>1, <3>4 DEF NumberIsNext, PutsItsRow, Ordering
    <3>9. NumbersDiffer'  BY <3>1 DEF RevisionInv, NumbersDiffer
    <3>10. ObjectsHaveRow' /\ ObjectsOfRow'
      BY <3>1, <3>6, <3>7 DEF ObjectsHaveRow, ObjectsOfRow
    <3> QED  BY <3>8, <3>9, <3>10 DEF RevisionInv
  <2> QED  BY <2>1, <2>2
<1>10. CASE PublishIssued  BY <1>4, <1>10 DEF PublishIssued
<1>11. CASE MasterCrash  BY <1>4, <1>11 DEF MasterCrash
<1> QED
  BY <1>1, <1>2, <1>3, <1>5, <1>6, <1>7, <1>8, <1>9, <1>10, <1>11 DEF MasterNext, Issuing
-----------------------------------------------------------------------------
(***************************************************************************)
(* The slave: types, and the revisions that are published and fetched.     *)
(***************************************************************************)

\* What a fetch goroutine is.
FetchStates == [pc: {"idle", "read", "write"}, file: Files, host: Hosts,
                rev: Prefixes, got: [Files -> Prefixes]]

\* A step of the slave.
SlaveNext ==
  \/ \E h \in Hosts : DealDomainEntries(h)
  \/ \E i \in Fetchers : Fetching(i) \/ FetchFails(i)
  \/ SlaveCrash

\* A goroutine that fetches nothing is in a state of a fetch.
LEMMA IdleFetchType == IdleFetch \in FetchStates
<1>1. 0 \in Prefixes  BY DEF Prefixes
<1> QED  BY <1>1, FirstHost DEF IdleFetch, NoFiles, FetchStates, Files

\* A fetch that ends, by itself or by an error, keeps the types.
LEMMA EndFetchType ==
  ASSUME SlaveTypeOK, NEW i \in Fetchers, EndFetch(i), UNCHANGED <<cached, files>>
  PROVE  SlaveTypeOK'
<1>1. fetch \in [Fetchers -> FetchStates]  BY DEF SlaveTypeOK, FetchStates
<1>2. fetch' \in [Fetchers -> FetchStates]  BY <1>1, IdleFetchType DEF EndFetch
<1>3. fetch[i].host \in Hosts  BY <1>1 DEF FetchStates
<1>4. torn' \in SUBSET Hosts  BY <1>3 DEF EndFetch, SlaveTypeOK
<1> QED  BY <1>2, <1>4 DEF SlaveTypeOK, FetchStates

\* Every step of the slave keeps the types.
LEMMA SlaveTypeStep ==
  ASSUME TypeOK, SlaveTypeOK, SlaveNext
  PROVE  TypeOK' /\ SlaveTypeOK'
<1>a. fetch \in [Fetchers -> FetchStates]  BY DEF SlaveTypeOK, FetchStates
<1>1. ASSUME NEW h \in Hosts, DealDomainEntries(h)
      PROVE  TypeOK' /\ SlaveTypeOK'
  <2>1. told[h] \in Projections  BY DEF TypeOK
  <2>2. told' \in [Hosts -> Projections]
    <3>1. [told[h] EXCEPT !.new = FALSE] \in Projections  BY <2>1 DEF Projections
    <3> QED  BY <1>1, <3>1 DEF DealDomainEntries, TypeOK
  <2>3. TypeOK'  BY <1>1, <2>2 DEF DealDomainEntries, TypeOK
  <2>4. cached' \in [Hosts -> [live: BOOLEAN, rev: Prefixes]]
    BY <1>1, <2>1 DEF DealDomainEntries, SlaveTypeOK, Projections
  <2>5. [IdleFetch EXCEPT !.pc = "read", !.host = h, !.rev = told[h].rev] \in FetchStates
    BY <2>1, IdleFetchType DEF FetchStates, Projections
  <2>6. fetch' \in [Fetchers -> FetchStates]
    BY <1>1, <1>a, <2>5 DEF DealDomainEntries
  <2>7. torn' \in SUBSET Hosts  BY <1>1 DEF DealDomainEntries, SlaveTypeOK
  <2>8. files' = files  BY <1>1 DEF DealDomainEntries
  <2> QED  BY <2>3, <2>4, <2>6, <2>7, <2>8 DEF SlaveTypeOK, FetchStates
<1>2. ASSUME NEW i \in Fetchers, NEW f \in Files, FetchRead(i, f)
      PROVE  TypeOK' /\ SlaveTypeOK'
  <2>1. TypeOK'  BY <1>2 DEF FetchRead, master, TypeOK
  <2>2. fetch[i] \in FetchStates  BY <1>a
  <2> DEFINE c == ReadObject(fetch[i].host, fetch[i].rev, f)
  <2>3. c \in Prefixes
    <3>1. 0 \in Prefixes /\ fetch[i].host \in Hosts /\ fetch[i].rev \in Prefixes
      BY <2>2 DEF FetchStates, Prefixes
    <3>2. store \in [Hosts -> [Prefixes -> [Files -> Prefixes]]]  BY DEF TypeOK
    <3>3. \A h \in Hosts, r \in Prefixes : store[h][r][f] \in Prefixes  BY <3>2
    <3> QED  BY <3>1, <3>3 DEF ReadObject
  <2>4. CASE c = 0  BY <1>2, <2>1, <2>4, EndFetchType DEF FetchRead
  <2>5. CASE c # 0
    <3> HIDE DEF c
    <3> DEFINE e == [fetch[i] EXCEPT !.pc = IF f = "meta" THEN "write" ELSE @,
                                     !.file = FileAfter[f], !.got[f] = c]
    <3>1. FileAfter[f] \in Files  BY DEF FileAfter, Files
    <3>2. e \in FetchStates  BY <2>2, <2>3, <3>1 DEF FetchStates
    <3>3. fetch' = [fetch EXCEPT ![i] = e] /\ UNCHANGED <<torn, cached, files>>
      BY <1>2, <2>5 DEF FetchRead, c
    <3> HIDE DEF e
    <3>4. fetch' \in [Fetchers -> FetchStates]  BY <1>a, <3>2, <3>3
    <3> QED  BY <2>1, <3>3, <3>4 DEF SlaveTypeOK, FetchStates
  <2> QED  BY <2>4, <2>5
<1>3. ASSUME NEW i \in Fetchers, NEW f \in Files, FetchWrite(i, f)
      PROVE  TypeOK' /\ SlaveTypeOK'
  <2>1. TypeOK'  BY <1>3 DEF FetchWrite, master, TypeOK
  <2>2. fetch[i] \in FetchStates  BY <1>a
  <2>3. files' \in [Hosts -> [Files -> Prefixes]]
    <3>1. fetch[i].host \in Hosts /\ fetch[i].got[f] \in Prefixes  BY <2>2 DEF FetchStates
    <3> QED  BY <1>3, <3>1 DEF FetchWrite, SlaveTypeOK
  <2>4. fetch' \in [Fetchers -> FetchStates]
    <3>1. FileAfter[f] \in Files  BY DEF FileAfter, Files
    <3>2. [fetch[i] EXCEPT !.file = FileAfter[f]] \in FetchStates
      BY <2>2, <3>1 DEF FetchStates
    <3> QED  BY <1>3, <1>a, <3>2, IdleFetchType DEF FetchWrite
  <2> QED  BY <1>3, <2>1, <2>3, <2>4 DEF FetchWrite, SlaveTypeOK, FetchStates
<1>4. ASSUME NEW i \in Fetchers, FetchFails(i)
      PROVE  TypeOK' /\ SlaveTypeOK'
  <2>1. faults' \in SUBSET Faults  BY <1>4, FaultType DEF FetchFails
  <2>2. TypeOK'  BY <1>4, <2>1 DEF FetchFails, TypeOK
  <2> QED  BY <1>4, <2>2, EndFetchType DEF FetchFails
<1>5. CASE SlaveCrash
  <2>1. faults' \in SUBSET Faults  BY <1>5, FaultType DEF SlaveCrash
  <2>2. TypeOK'  BY <1>5, <2>1 DEF SlaveCrash, TypeOK
  <2>3. fetch' \in [Fetchers -> FetchStates]  BY <1>5, IdleFetchType DEF SlaveCrash
  <2>4. torn' \in SUBSET Hosts
    <3>1. \A i \in Fetchers : fetch[i].host \in Hosts  BY <1>a DEF FetchStates
    <3> QED  BY <1>5, <3>1 DEF SlaveCrash, SlaveTypeOK
  <2> QED  BY <1>5, <2>2, <2>3, <2>4 DEF SlaveCrash, SlaveTypeOK, FetchStates
<1> QED  BY <1>1, <1>2, <1>3, <1>4, <1>5 DEF SlaveNext, Fetching
\* The step loses no row.
RowsStay ==
  \A h \in Hosts : \A k \in DOMAIN certs[h] :
    k \in DOMAIN certs'[h] /\ certs'[h][k].rev = certs[h][k].rev
                           /\ certs'[h][k].cert = certs[h][k].cert

\* No step of the master loses a row.
LEMMA MasterRows ==
  ASSUME TypeOK, MasterNext
  PROVE  SameRows \/ (NewRow /\ Persist)
<1>1. certs' = certs => SameRows  BY DEF SameRows
<1>2. CASE Persist  BY <1>1, <1>2, PersistRows
<1>3. CASE \E h \in Hosts : Age(h)  BY <1>3, AgeRows
<1>4. CASE ~Persist /\ ~(\E h \in Hosts : Age(h))
  <2>1. certs' = certs
    BY <1>4 DEF MasterNext, Issuing, ChangeDomain, DeleteDomain, PublishChange, Scan,
         TakeNotified, Reconcile, EndScan, BeginIssue, Present, Obtain, CleanUp, PutObject,
         PublishIssued, MasterCrash
  <2> QED  BY <1>1, <2>1
<1> QED  BY <1>2, <1>3, <1>4

\* Neither time nor an insert takes a row away.
LEMMA NewRowStays ==
  ASSUME TypeOK, SameRows \/ NewRow
  PROVE  RowsStay
<1>1. CASE SameRows  BY <1>1 DEF SameRows, RowsStay
<1>2. CASE NewRow
  <2>1. PICK n \in Nat :
          /\ DOMAIN certs[job.host] = 1..n /\ DOMAIN certs'[job.host] = 1..(n + 1)
          /\ \A k \in 1..n : certs'[job.host][k] = certs[job.host][k]
    BY <1>2 DEF NewRow
  <2>2. \A k \in 1..n : k \in 1..(n + 1)  OBVIOUS
  <2>3. \A h \in Hosts \ {job.host} : certs'[h] = certs[h]  BY <1>2 DEF NewRow
  <2> QED  BY <2>1, <2>2, <2>3 DEF RowsStay
<1> QED  BY <1>1, <1>2

\* What the master publishes of a host is its projection at that time.
LEMMA MasterTells ==
  ASSUME TypeOK, MasterNext, NEW h \in Hosts
  PROVE  told'[h] \in {told[h], Projection(h)}
<1>1. ASSUME NEW g \in Hosts, Publishes(g) PROVE told'[h] \in {told[h], Projection(h)}
  BY <1>1 DEF Publishes, TypeOK
<1>2. ASSUME NEW g \in Hosts, PublishChange(g) PROVE told'[h] \in {told[h], Projection(h)}
  <2>1. told' = told \/ told' = [told EXCEPT ![g] = Projection(g)]
    BY <1>2 DEF PublishChange, PublishFails
  <2> QED  BY <2>1 DEF TypeOK
<1>3. job.host \in Hosts  BY DEF TypeOK, Jobs
<1>4. CASE told' = told  BY <1>4
<1>5. told' = told \/ Publishes(job.host) \/ \E g \in Hosts : PublishChange(g)
  BY DEF MasterNext, Issuing, ChangeDomain, DeleteDomain, Age, Scan, TakeNotified, Reconcile,
         EndScan, BeginIssue, Present, PresentHTTP01, PresentDNS01, Obtain, CleanUp,
         CleanUpHTTP01, CleanUpDNS01, Persist, PutObject, PublishIssued, PublishFails,
         MasterCrash
<1> QED  BY <1>1, <1>2, <1>3, <1>4, <1>5

\* Every step of the master keeps ToldInv.
LEMMA ToldStep ==
  ASSUME TypeOK, SlaveTypeOK, ToldInv, MasterNext, UNCHANGED slave
  PROVE  ToldInv'
<1>1. RowsStay  BY MasterRows, NewRowStays
<1>2. \A h \in Hosts : \A r : HasRevision(h, r) => HasRevision(h, r)'
  BY <1>1 DEF RowsStay, HasRevision
<1>3. ASSUME NEW h \in Hosts, told'[h].rev # 0 PROVE HasRevision(h, told'[h].rev)
  <2>1. CASE told'[h] = told[h]  BY <1>3, <2>1 DEF ToldInv
  <2>2. CASE told'[h] = Projection(h)
    BY <1>3, <2>2, LatestRevision DEF Projection
  <2> QED  BY <2>1, <2>2, MasterTells
<1>4. \A i \in Fetchers : fetch'[i].pc # "idle" =>
         fetch'[i].rev # 0 /\ HasRevision(fetch'[i].host, fetch'[i].rev)
  BY DEF ToldInv, slave
<1>5. \A i \in Fetchers : fetch'[i].host \in Hosts  BY DEF SlaveTypeOK, slave
<1> QED  BY <1>2, <1>3, <1>4, <1>5 DEF ToldInv

\* The slave never writes rows, objects or what belongs to an order.
LEMMA SlaveLeavesMaster ==
  ASSUME SlaveNext
  PROVE  UNCHANGED <<certs, store, job, tokens, txt, minted>> /\ faults \subseteq faults'
<1> DEFINE Left == UNCHANGED <<certs, store, job, tokens, txt, minted>> /\ faults \subseteq faults'
<1>1. ASSUME NEW i \in Fetchers, NEW f \in Files, FetchRead(i, f) PROVE Left
  BY <1>1 DEF FetchRead, master
<1>2. ASSUME NEW i \in Fetchers, NEW f \in Files, FetchWrite(i, f) PROVE Left
  BY <1>2 DEF FetchWrite, master
<1>3. ASSUME NEW i \in Fetchers, FetchFails(i) PROVE Left
  BY <1>3 DEF FetchFails, Fault, master
<1>4. ASSUME NEW h \in Hosts, DealDomainEntries(h) PROVE Left
  BY <1>4 DEF DealDomainEntries
<1>5. CASE SlaveCrash  BY <1>5 DEF SlaveCrash, Fault, master
<1> QED  BY <1>1, <1>2, <1>3, <1>4, <1>5 DEF SlaveNext, Fetching

\* A step of the slave keeps ToldInv: a fetch is started only on a revision
\* that was published, and keeps its host and revision until it ends.
LEMMA SlaveTold ==
  ASSUME TypeOK, SlaveTypeOK, ToldInv, SlaveNext
  PROVE  ToldInv'
<1>a. fetch \in [Fetchers -> FetchStates]  BY DEF SlaveTypeOK, FetchStates
<1>b. certs' = certs  BY SlaveLeavesMaster
<1>c. \A h \in Hosts : \A r : HasRevision(h, r)' = HasRevision(h, r)
  BY <1>b DEF HasRevision
<1>d. IdleFetch.pc = "idle"  BY DEF IdleFetch
<1>e. SUFFICES /\ \A h \in Hosts : told'[h].rev = told[h].rev
               /\ \A i \in Fetchers : fetch'[i].pc # "idle" =>
                    \/ /\ fetch[i].pc # "idle"
                       /\ fetch'[i].host = fetch[i].host /\ fetch'[i].rev = fetch[i].rev
                    \/ \E h \in Hosts : /\ fetch'[i].host = h /\ fetch'[i].rev = told[h].rev
                                        /\ told[h].rev # 0
  <2>1. \A i \in Fetchers : fetch[i].host \in Hosts  BY <1>a DEF FetchStates
  <2>2. /\ \A h \in Hosts : told[h].rev # 0 => HasRevision(h, told[h].rev)
        /\ \A i \in Fetchers : fetch[i].pc # "idle" =>
             fetch[i].rev # 0 /\ HasRevision(fetch[i].host, fetch[i].rev)
    BY DEF ToldInv
  <2>3. ASSUME NEW h \in Hosts, NEW r, HasRevision(h, r) PROVE HasRevision(h, r)'
    BY <1>c, <2>3
  <2>4. \A h \in Hosts : told'[h].rev # 0 => HasRevision(h, told[h].rev)'
    BY <1>e, <2>2, <2>3
  <2>5. \A i \in Fetchers : fetch'[i].pc # "idle" =>
           fetch'[i].rev # 0 /\ HasRevision(fetch[i].host, fetch[i].rev)'
    BY <1>e, <2>1, <2>2, <2>3
  <2> QED  BY <2>4, <2>5 DEF ToldInv
<1>1. ASSUME NEW h \in Hosts, DealDomainEntries(h)
      PROVE  /\ \A g \in Hosts : told'[g].rev = told[g].rev
             /\ \A i \in Fetchers : fetch'[i] # fetch[i] =>
                  fetch'[i].host = h /\ fetch'[i].rev = told[h].rev /\ told[h].rev # 0
  <2>1. \A g \in Hosts : told[g] \in Projections  BY DEF TypeOK
  <2>2. \A g \in Hosts : told'[g].rev = told[g].rev
    BY <1>1, <2>1 DEF DealDomainEntries, TypeOK, Projections
  <2>3. CASE UNCHANGED fetch  BY <2>2, <2>3
  <2>4. ASSUME NEW i \in Fetchers, told[h].rev # 0,
               fetch' = [fetch EXCEPT ![i] =
                 [IdleFetch EXCEPT !.pc = "read", !.host = h, !.rev = told[h].rev]]
        PROVE  \A j \in Fetchers : fetch'[j] # fetch[j] =>
                  fetch'[j].host = h /\ fetch'[j].rev = told[h].rev /\ told[h].rev # 0
    BY <1>a, <2>4, IdleFetchType DEF FetchStates
  <2> QED  BY <1>1, <2>2, <2>3, <2>4 DEF DealDomainEntries
<1>2. ASSUME NEW i \in Fetchers, NEW f \in Files, FetchRead(i, f) \/ FetchWrite(i, f)
      PROVE  /\ told' = told
             /\ \A j \in Fetchers : fetch'[j].pc # "idle" =>
                  /\ fetch[j].pc # "idle"
                  /\ fetch'[j].host = fetch[j].host /\ fetch'[j].rev = fetch[j].rev
  <2>1. told' = told  BY <1>2 DEF FetchRead, FetchWrite, master
  <2>2. CASE fetch' = [fetch EXCEPT ![i] = IdleFetch]  BY <1>a, <1>d, <2>1, <2>2
  <2>3. CASE FetchRead(i, f) /\ fetch' # [fetch EXCEPT ![i] = IdleFetch]
    BY <1>a, <2>1, <2>3 DEF FetchRead, FetchStates, EndFetch
  <2>4. CASE FetchWrite(i, f) /\ fetch' # [fetch EXCEPT ![i] = IdleFetch]
    BY <1>a, <2>1, <2>4 DEF FetchWrite, FetchStates
  <2> QED  BY <1>2, <2>2, <2>3, <2>4
<1>3. ASSUME NEW i \in Fetchers, FetchFails(i)
      PROVE  told' = told /\ \A j \in Fetchers : fetch'[j] \in {fetch[j], IdleFetch}
  BY <1>3, <1>a DEF FetchFails, EndFetch
<1>4. CASE SlaveCrash
  <2>1. told' = told /\ \A j \in Fetchers : fetch'[j] = IdleFetch  BY <1>4 DEF SlaveCrash
  <2> QED  BY <1>d, <2>1
<1>5. CASE \E h \in Hosts : DealDomainEntries(h)  BY <1>1, <1>5
<1>6. CASE \E i \in Fetchers : Fetching(i)  BY <1>2, <1>6 DEF Fetching
<1>7. CASE \E i \in Fetchers : FetchFails(i)  BY <1>3, <1>7, <1>d
<1> QED  BY <1>4, <1>5, <1>6, <1>7 DEF SlaveNext
-----------------------------------------------------------------------------
(***************************************************************************)
(* FetchInv: what a fetch has read.                                        *)
(***************************************************************************)

\* A step of the master keeps FetchInv: a new row has a number of its own, so
\* that it is not the row of a running fetch.
LEMMA FetchStep ==
  ASSUME TypeOK, SlaveTypeOK, RevisionInv, ToldInv, FetchInv, MasterNext, UNCHANGED slave
  PROVE  FetchInv'
<1>1. fetch' = fetch  BY DEF slave
<1>2. SUFFICES ASSUME NEW i \in Fetchers, fetch[i].pc # "idle",
                      NEW k \in DOMAIN certs'[fetch[i].host],
                      certs'[fetch[i].host][k].rev = fetch[i].rev
               PROVE  \A f \in {"crt", "key"} :
                        fetch[i].got[f] \in {0, certs'[fetch[i].host][k].cert}
  BY <1>1 DEF FetchInv
<1> DEFINE h == fetch[i].host
<1>3. h \in Hosts  BY DEF SlaveTypeOK
<1>4. \A n \in DOMAIN certs[h] : certs[h][n].rev = fetch[i].rev =>
         \A f \in {"crt", "key"} : fetch[i].got[f] \in {0, certs[h][n].cert}
  BY <1>2 DEF FetchInv
<1> HIDE DEF h
<1>5. CASE SameRows  BY <1>2, <1>3, <1>4, <1>5 DEF SameRows, h
<1>6. CASE NewRow /\ Persist
  <2>1. CASE h # job.host
    <3>1. certs'[h] = certs[h]  BY <1>3, <1>6, <2>1 DEF NewRow
    <3> QED  BY <1>2, <1>4, <3>1 DEF h
  <2>2. CASE h = job.host
    <3>1. PICK n \in Nat :
            /\ DOMAIN certs[h] = 1..n /\ DOMAIN certs'[h] = 1..(n + 1)
            /\ \A m \in 1..n : certs'[h][m] = certs[h][m]
            /\ certs'[h][n + 1].rev = job.rev
      BY <1>6, <2>2 DEF NewRow
    <3>2. PICK m \in DOMAIN certs[h] : certs[h][m].rev = fetch[i].rev
      BY <1>2 DEF ToldInv, HasRevision, h
    <3>3. certs[h][m].rev < job.rev
      BY <1>6, <2>2 DEF RevisionInv, NumberIsNext, Persist, Ordering
    <3>4. certs[h][m].rev \in Nat
      <4>1. certs \in [Hosts -> Seq(CertRows)]  BY DEF TypeOK
      <4>2. certs[h][m] \in CertRows  BY <1>3, <4>1
      <4> QED  BY <4>2, CertAssumption DEF CertRows, Revisions
    <3>5. certs'[h][k].rev = fetch[i].rev  BY <1>2 DEF h
    <3>6. k # n + 1  BY <3>1, <3>2, <3>3, <3>4, <3>5
    <3>7. k \in 1..n
      <4>1. k \in 1..(n + 1)  BY <1>2, <3>1 DEF h
      <4> QED  BY <3>6, <4>1
    <3> QED  BY <1>2, <1>4, <3>1, <3>7 DEF h
  <2> QED  BY <2>1, <2>2
<1> QED  BY <1>5, <1>6, MasterRows

\* A step of the slave keeps FetchInv: the objects of the pair are read under
\* the revision's own prefix, and in order.
LEMMA SlaveFetch ==
  ASSUME TypeOK, SlaveTypeOK, RevisionInv, FetchInv, SlaveNext
  PROVE  FetchInv'
<1>a. fetch \in [Fetchers -> FetchStates]  BY DEF SlaveTypeOK, FetchStates
<1>b. certs' = certs  BY SlaveLeavesMaster
<1>c. IdleFetch.pc = "idle"  BY DEF IdleFetch
\* Goroutine i holds what FetchInv says in the state e.
<1> DEFINE Good(e) ==
      e.pc # "idle" =>
        /\ \A k \in DOMAIN certs[e.host] : certs[e.host][k].rev = e.rev =>
             \A f \in {"crt", "key"} : e.got[f] \in {0, certs[e.host][k].cert}
        /\ e.pc = "write" \/ e.file # "crt" => e.got["crt"] # 0
        /\ e.pc = "write" \/ e.file = "meta" => e.got["key"] # 0
<1>d. \A i \in Fetchers : Good(fetch[i])  BY DEF FetchInv
<1>e. Good(IdleFetch)  BY <1>c
<1>f. SUFFICES \A i \in Fetchers : Good(fetch'[i])  BY <1>b DEF FetchInv
<1> HIDE DEF Good
<1>1. ASSUME NEW h \in Hosts, DealDomainEntries(h)
      PROVE  \A i \in Fetchers : Good(fetch'[i])
  <2> DEFINE e == [IdleFetch EXCEPT !.pc = "read", !.host = h, !.rev = told[h].rev]
  <2>1. e.pc = "read" /\ e.file = "crt" /\ e.got = NoFiles
    BY DEF IdleFetch
  <2> HIDE DEF e
  <2>2. Good(e)  BY <2>1 DEF Good, NoFiles, Files
  <2>3. CASE UNCHANGED fetch  BY <1>d, <2>3
  <2>4. ASSUME NEW i \in Fetchers, fetch' = [fetch EXCEPT ![i] = e]
        PROVE  \A j \in Fetchers : Good(fetch'[j])
    BY <1>a, <1>d, <2>2, <2>4
  <2> QED  BY <1>1, <2>3, <2>4 DEF DealDomainEntries, e
<1>2. ASSUME NEW i \in Fetchers, NEW f \in Files, FetchRead(i, f)
      PROVE  \A j \in Fetchers : Good(fetch'[j])
  <2> DEFINE c == ReadObject(fetch[i].host, fetch[i].rev, f)
  <2>1. CASE c = 0
    <3>1. fetch' = [fetch EXCEPT ![i] = IdleFetch]  BY <1>2, <2>1 DEF FetchRead, EndFetch
    <3> QED  BY <1>a, <1>d, <1>e, <3>1
  <2>2. CASE c # 0
    <3> DEFINE e == [fetch[i] EXCEPT !.pc = IF f = "meta" THEN "write" ELSE @,
                                     !.file = FileAfter[f], !.got[f] = c]
    <3>1. fetch' = [fetch EXCEPT ![i] = e]  BY <1>2, <2>2 DEF FetchRead
    <3>2. fetch[i] \in FetchStates /\ fetch[i].pc = "read" /\ fetch[i].file = f
      BY <1>2, <1>a DEF FetchRead
    <3>3. f \in {"crt", "key"} => \A k \in DOMAIN certs[fetch[i].host] :
            certs[fetch[i].host][k].rev = fetch[i].rev => c \in {0, certs[fetch[i].host][k].cert}
      <4>1. fetch[i].host \in Hosts  BY <3>2 DEF FetchStates
      <4> QED  BY <4>1 DEF RevisionInv, ObjectsOfRow, ReadObject
    <3> HIDE DEF c
    <3>4. /\ e.host = fetch[i].host /\ e.rev = fetch[i].rev
          /\ e.pc = (IF f = "meta" THEN "write" ELSE "read") /\ e.file = FileAfter[f]
          /\ e.got[f] = c /\ \A g \in Files \ {f} : e.got[g] = fetch[i].got[g]
      BY <3>2 DEF FetchStates
    <3> HIDE DEF e
    <3>5. Good(fetch[i])  BY <1>d
    <3>6. \A k \in DOMAIN certs[e.host] : certs[e.host][k].rev = e.rev =>
             \A g \in {"crt", "key"} : e.got[g] \in {0, certs[e.host][k].cert}
      BY <3>2, <3>3, <3>4, <3>5 DEF Good, Files
    <3>7. ASSUME f = "crt" PROVE Good(e)
      BY <2>2, <3>4, <3>6, <3>7 DEF Good, FileAfter
    <3>8. ASSUME f = "key" PROVE Good(e)
      <4>1. e.got["crt"] # 0  BY <3>2, <3>4, <3>5, <3>8 DEF Good, Files
      <4> QED  BY <2>2, <3>4, <3>6, <3>8, <4>1 DEF Good, FileAfter
    <3>9. ASSUME f = "meta" PROVE Good(e)
      <4>1. e.got["crt"] # 0 /\ e.got["key"] # 0  BY <3>2, <3>4, <3>5, <3>9 DEF Good, Files
      <4> QED  BY <3>6, <4>1 DEF Good
    <3>10. Good(e)  BY <3>7, <3>8, <3>9 DEF Files
    <3> QED  BY <1>a, <1>d, <3>1, <3>10
  <2> QED  BY <2>1, <2>2
<1>3. ASSUME NEW i \in Fetchers, NEW f \in Files, FetchWrite(i, f)
      PROVE  \A j \in Fetchers : Good(fetch'[j])
  <2> DEFINE e == [fetch[i] EXCEPT !.file = FileAfter[f]]
  <2>1. fetch[i] \in FetchStates /\ fetch[i].pc = "write"  BY <1>3, <1>a DEF FetchWrite
  <2>2. /\ e.host = fetch[i].host /\ e.rev = fetch[i].rev /\ e.pc = "write"
        /\ e.got = fetch[i].got
    BY <2>1 DEF FetchStates
  <2>3. fetch' \in {[fetch EXCEPT ![i] = e], [fetch EXCEPT ![i] = IdleFetch]}
    BY <1>3 DEF FetchWrite
  <2> HIDE DEF e
  <2>4. Good(e)  BY <1>d, <2>1, <2>2 DEF Good
  <2> QED  BY <1>a, <1>d, <1>e, <2>3, <2>4
<1>4. ASSUME NEW i \in Fetchers, FetchFails(i)
      PROVE  \A j \in Fetchers : Good(fetch'[j])
  <2>1. fetch' = [fetch EXCEPT ![i] = IdleFetch]  BY <1>4 DEF FetchFails, EndFetch
  <2> QED  BY <1>a, <1>d, <1>e, <2>1
<1>5. CASE SlaveCrash
  <2>1. \A j \in Fetchers : fetch'[j] = IdleFetch  BY <1>5 DEF SlaveCrash
  <2> QED  BY <1>e, <2>1
<1> QED  BY <1>1, <1>2, <1>3, <1>4, <1>5 DEF SlaveNext, Fetching

-----------------------------------------------------------------------------
(***************************************************************************)
(* PairInv: what is on disk.                                               *)
(***************************************************************************)

\* The pair of a host whose files stay, with the fetches that are halfway.
LEMMA PairStays ==
  ASSUME NEW h \in Hosts, PairOK(h), files'[h] = files[h],
         FetchesOf(h)' \subseteq FetchesOf(h),
         \A i \in FetchesOf(h) : Halfway(i) => i \in FetchesOf(h)' /\ fetch'[i] = fetch[i],
         \A i \in FetchesOf(h)' : Halfway(i)' <=> Halfway(i)
  PROVE  PairOK(h)'
<1>1. \A i, j \in FetchesOf(h)' : i = j  BY DEF PairOK
<1>2. ASSUME \A i \in FetchesOf(h)' : ~Halfway(i)' PROVE files'[h]["crt"] = files'[h]["key"]
  <2>1. \A i \in FetchesOf(h) : ~Halfway(i)  BY <1>2
  <2> QED  BY <2>1 DEF PairOK
<1>3. ASSUME NEW i \in FetchesOf(h)', Halfway(i)'
      PROVE  /\ files'[h]["crt"] = fetch'[i].got["crt"]
             /\ fetch'[i].file = "meta" => files'[h]["key"] = fetch'[i].got["key"]
  <2>1. Halfway(i) /\ i \in FetchesOf(h) /\ fetch'[i] = fetch[i]  BY <1>3
  <2> QED  BY <2>1 DEF PairOK
<1> QED  BY <1>1, <1>2, <1>3 DEF PairOK

\* Goroutines end; the hosts of those that were halfway are torn.
LEMMA EndOfFetches ==
  ASSUME SlaveTypeOK, PairInv, files' = files, NEW E \in SUBSET Fetchers,
         \A i \in Fetchers : fetch'[i] = IF i \in E THEN IdleFetch ELSE fetch[i],
         torn \subseteq torn', \A i \in E : Halfway(i) => fetch[i].host \in torn'
  PROVE  PairInv'
<1>1. SUFFICES ASSUME NEW h \in Hosts \ torn' PROVE PairOK(h)'
  BY DEF PairInv
<1>2. IdleFetch.pc = "idle"  BY DEF IdleFetch
<1>3. \A i \in FetchesOf(h)' : i \notin E /\ fetch'[i] = fetch[i] /\ i \in FetchesOf(h)
  BY <1>2 DEF FetchesOf
<1>4. \A i \in FetchesOf(h) : Halfway(i) => i \in FetchesOf(h)'
  BY <1>1 DEF FetchesOf, Halfway
<1>5. \A i \in FetchesOf(h)' : Halfway(i)' <=> Halfway(i)  BY <1>3 DEF Halfway
<1>6. PairOK(h)  BY DEF PairInv
<1> QED  BY <1>3, <1>4, <1>5, <1>6, PairStays

\* A step that leaves files and fetches alone.
LEMMA PairFrame ==
  ASSUME PairInv, UNCHANGED <<files, fetch, torn>>
  PROVE  PairInv'
<1>1. SUFFICES ASSUME NEW h \in Hosts \ torn' PROVE PairOK(h)'
  BY DEF PairInv
<1>2. FetchesOf(h)' = FetchesOf(h)  BY DEF FetchesOf
<1>3. \A i \in FetchesOf(h) : Halfway(i)' <=> Halfway(i)  BY DEF Halfway
<1>4. PairOK(h)  BY DEF PairInv
<1> QED  BY <1>2, <1>3, <1>4, PairStays

\* A step of the slave keeps PairInv.
LEMMA SlavePair ==
  ASSUME TypeOK, SlaveTypeOK, ToldInv, FetchInv, PairInv, SlaveNext
  PROVE  PairInv'
<1>a. fetch \in [Fetchers -> FetchStates]  BY DEF SlaveTypeOK, FetchStates
<1>1. ASSUME NEW h \in Hosts, DealDomainEntries(h) PROVE PairInv'
  <2>1. files' = files  BY <1>1 DEF DealDomainEntries
  <2>2. CASE UNCHANGED <<fetch, torn>>  BY <2>1, <2>2, PairFrame
  <2>3. ASSUME NEW i \in Fetchers, fetch[i].pc = "idle",
               fetch' = [fetch EXCEPT ![i] =
                 [IdleFetch EXCEPT !.pc = "read", !.host = h, !.rev = told[h].rev]],
               torn' = IF FetchesOf(h) = {} THEN torn ELSE torn \cup {h}
        PROVE  PairInv'
    <3>1. fetch'[i].pc = "read" /\ fetch'[i].host = h
      BY <1>a, <2>3, IdleFetchType DEF FetchStates
    <3>2. \A j \in Fetchers \ {i} : fetch'[j] = fetch[j]  BY <1>a, <2>3
    <3>3. \A g \in Hosts \ {h} : FetchesOf(g)' = FetchesOf(g)
      BY <2>3, <3>1, <3>2 DEF FetchesOf
    <3>4. FetchesOf(h)' = FetchesOf(h) \cup {i} /\ i \notin FetchesOf(h)
      BY <2>3, <3>1, <3>2 DEF FetchesOf
    <3>5. ~Halfway(i)' /\ ~Halfway(i)  BY <2>3, <3>1 DEF Halfway
    <3>6. \A j \in Fetchers \ {i} : Halfway(j)' <=> Halfway(j)  BY <3>2 DEF Halfway
    <3>7. ASSUME NEW g \in Hosts \ torn', g # h
          PROVE  PairOK(g)'
      <4>1. g \in Hosts \ torn  BY <2>3, <3>7
      <4>2. FetchesOf(g) \subseteq Fetchers \ {i}  BY <2>3 DEF FetchesOf
      <4>3. PairOK(g)  BY <4>1 DEF PairInv
      <4>4. FetchesOf(g)' = FetchesOf(g)  BY <3>3, <3>7
      <4>5. \A j \in FetchesOf(g) : fetch'[j] = fetch[j] /\ (Halfway(j)' <=> Halfway(j))
        BY <3>2, <3>6, <4>2
      <4> QED  BY <2>1, <4>3, <4>4, <4>5, PairStays
    <3>8. ASSUME h \notin torn'
          PROVE  PairOK(h)'
      <4>1. FetchesOf(h) = {} /\ h \notin torn  BY <2>3, <3>8
      <4>2. files[h]["crt"] = files[h]["key"]  BY <4>1 DEF PairInv, PairOK
      <4>3. \A j \in FetchesOf(h)' : j = i /\ ~Halfway(j)'  BY <3>4, <3>5, <4>1
      <4> QED  BY <2>1, <4>2, <4>3 DEF PairOK
    <3> QED  BY <2>1, <3>7, <3>8 DEF PairInv
  <2> QED  BY <1>1, <2>2, <2>3 DEF DealDomainEntries
<1>2. ASSUME NEW i \in Fetchers, EndFetch(i), files' = files PROVE PairInv'
  <2>1. \A j \in Fetchers : fetch'[j] = IF j \in {i} THEN IdleFetch ELSE fetch[j]
    BY <1>2, <1>a DEF EndFetch
  <2>2. torn \subseteq torn' /\ (Halfway(i) => fetch[i].host \in torn')  BY <1>2 DEF EndFetch
  <2> QED  BY <1>2, <2>1, <2>2, EndOfFetches
<1>3. ASSUME NEW i \in Fetchers, NEW f \in Files, FetchRead(i, f) PROVE PairInv'
  <2> DEFINE c == ReadObject(fetch[i].host, fetch[i].rev, f)
  <2>1. CASE c = 0  BY <1>2, <1>3, <2>1 DEF FetchRead
  <2>2. CASE c # 0
    <3>1. fetch[i] \in FetchStates /\ fetch[i].pc = "read" /\ UNCHANGED <<torn, files>>
      BY <1>3, <1>a, <2>2 DEF FetchRead
    <3>2. fetch' = [fetch EXCEPT ![i].pc = IF f = "meta" THEN "write" ELSE @,
                                 ![i].file = FileAfter[f], ![i].got[f] = c]
      BY <1>3, <2>2 DEF FetchRead
    <3> HIDE DEF c
    <3>3. \A j \in Fetchers \ {i} : fetch'[j] = fetch[j]  BY <1>a, <3>2
    <3>4. /\ fetch'[i].pc = (IF f = "meta" THEN "write" ELSE "read")
          /\ fetch'[i].host = fetch[i].host /\ fetch'[i].file = FileAfter[f]
      BY <1>a, <3>1, <3>2 DEF FetchStates
    <3>5. \A h \in Hosts : FetchesOf(h)' = FetchesOf(h)
      BY <3>1, <3>3, <3>4 DEF FetchesOf
    <3>6. ~Halfway(i) /\ ~Halfway(i)'  BY <3>1, <3>4 DEF Halfway, FileAfter
    <3>7. \A j \in Fetchers : Halfway(j)' <=> Halfway(j)  BY <3>3, <3>6 DEF Halfway
    <3>8. \A h \in Hosts : FetchesOf(h) \subseteq Fetchers  BY DEF FetchesOf
    <3>9. ASSUME NEW h \in Hosts \ torn PROVE PairOK(h)'
      <4>1. \A j \in FetchesOf(h) : Halfway(j) => fetch'[j] = fetch[j]  BY <3>3, <3>6, <3>8
      <4>2. PairOK(h)  BY DEF PairInv
      <4> QED  BY <3>1, <3>5, <3>7, <3>8, <4>1, <4>2, PairStays
    <3> QED  BY <3>1, <3>9 DEF PairInv
  <2> QED  BY <2>1, <2>2
<1>4. ASSUME NEW i \in Fetchers, NEW f \in Files, FetchWrite(i, f) PROVE PairInv'
  <2>0. PICK h \in Hosts : h = fetch[i].host  BY <1>a DEF FetchStates
  <2>1. fetch[i] \in FetchStates /\ fetch[i].pc = "write" /\ fetch[i].file = f
    BY <1>4, <1>a DEF FetchWrite
  <2>2. torn' = torn  BY <1>4 DEF FetchWrite
  <2>3. \A j \in Fetchers \ {i} : fetch'[j] = fetch[j]  BY <1>4, <1>a DEF FetchWrite
  <2>4. \A g \in Hosts \ {h} : files'[g] = files[g]
    BY <1>4, <2>0 DEF FetchWrite, SlaveTypeOK
  <2>5. \A x \in Files : files'[h][x] = IF x = f THEN fetch[i].got[f] ELSE files[h][x]
    BY <1>4, <2>0 DEF FetchWrite, SlaveTypeOK
  <2>6. f # "meta" => /\ fetch'[i].pc = "write" /\ fetch'[i].host = h
                      /\ fetch'[i].got = fetch[i].got /\ fetch'[i].file = FileAfter[f]
    BY <1>4, <1>a, <2>0, <2>1 DEF FetchWrite, FetchStates
  <2>7. f = "meta" => fetch'[i].pc = "idle"  BY <1>4, <1>a DEF FetchWrite, IdleFetch
  <2>8. i \in FetchesOf(h)  BY <2>0, <2>1 DEF FetchesOf
  <2>9. ASSUME NEW g \in Hosts \ torn, g # h
        PROVE  PairOK(g)'
    <3>1. FetchesOf(g)' = FetchesOf(g) /\ FetchesOf(g) \subseteq Fetchers \ {i}
      <4>1. fetch'[i].pc = "idle" \/ fetch'[i].host = h  BY <2>6, <2>7
      <4> QED  BY <2>0, <2>3, <2>9, <4>1 DEF FetchesOf
    <3>2. \A j \in FetchesOf(g) : fetch'[j] = fetch[j] /\ (Halfway(j)' <=> Halfway(j))
      BY <2>3, <3>1 DEF Halfway
    <3>3. PairOK(g)  BY <2>9 DEF PairInv
    <3> QED  BY <2>4, <2>9, <3>1, <3>2, <3>3, PairStays
  <2>10. ASSUME h \notin torn
         PROVE  PairOK(h)'
    <3>0. PairOK(h)  BY <2>10 DEF PairInv
    <3>1. FetchesOf(h) = {i}  BY <2>8, <3>0 DEF PairOK
    <3>2. \A j \in FetchesOf(h)' : j = i
      <4>1. \A j \in Fetchers \ {i} : j \in FetchesOf(h)' => j \in FetchesOf(h)
        BY <2>3 DEF FetchesOf
      <4>2. \A j \in FetchesOf(h)' : j \in Fetchers  BY DEF FetchesOf
      <4> QED  BY <3>1, <4>1, <4>2
    <3>3. Halfway(i) => /\ files[h]["crt"] = fetch[i].got["crt"]
                        /\ f = "meta" => files[h]["key"] = fetch[i].got["key"]
      BY <2>1, <2>8, <3>0 DEF PairOK
    <3>4. ASSUME f = "crt" PROVE Halfway(i)' /\ i \in FetchesOf(h)'
                                 /\ files'[h]["crt"] = fetch'[i].got["crt"]
                                 /\ fetch'[i].file # "meta"
      <4>1. fetch'[i].pc = "write" /\ fetch'[i].host = h /\ fetch'[i].file = "key"
            /\ fetch'[i].got = fetch[i].got
        BY <2>6, <3>4 DEF FileAfter
      <4>2. files'[h]["crt"] = fetch[i].got["crt"]  BY <2>5, <3>4 DEF Files
      <4> QED  BY <4>1, <4>2 DEF Halfway, FetchesOf
    <3>5. ASSUME f = "key" PROVE Halfway(i)' /\ i \in FetchesOf(h)'
                                 /\ files'[h]["crt"] = fetch'[i].got["crt"]
                                 /\ files'[h]["key"] = fetch'[i].got["key"]
      <4>1. files[h]["crt"] = fetch[i].got["crt"]  BY <2>1, <3>3, <3>5 DEF Halfway
      <4>2. fetch'[i].pc = "write" /\ fetch'[i].host = h /\ fetch'[i].file = "meta"
            /\ fetch'[i].got = fetch[i].got
        BY <2>6, <3>5 DEF FileAfter
      <4>3. files'[h]["crt"] = files[h]["crt"] /\ files'[h]["key"] = fetch[i].got["key"]
        BY <2>5, <3>5 DEF Files
      <4> QED  BY <4>1, <4>2, <4>3 DEF Halfway, FetchesOf
    <3>6. ASSUME f = "meta" PROVE FetchesOf(h)' = {} /\ files'[h]["crt"] = files'[h]["key"]
      <4>1. files[h]["crt"] = fetch[i].got["crt"] /\ files[h]["key"] = fetch[i].got["key"]
        BY <2>1, <3>3, <3>6 DEF Halfway
      <4>2. PICK k \in DOMAIN certs[h] : certs[h][k].rev = fetch[i].rev
        BY <2>0, <2>1 DEF ToldInv, HasRevision
      <4>3. fetch[i].got["crt"] = certs[h][k].cert /\ fetch[i].got["key"] = certs[h][k].cert
        BY <2>0, <2>1, <4>2 DEF FetchInv
      <4>4. FetchesOf(h)' = {}  BY <2>7, <3>2, <3>6 DEF FetchesOf
      <4> QED  BY <2>5, <3>6, <4>1, <4>3, <4>4 DEF Files
    <3>7. CASE f = "crt"  BY <3>2, <3>4, <3>7 DEF PairOK
    <3>8. CASE f = "key"  BY <3>2, <3>5, <3>8 DEF PairOK
    <3>9. CASE f = "meta"  BY <3>6, <3>9 DEF PairOK
    <3> QED  BY <3>7, <3>8, <3>9 DEF Files
  <2> QED  BY <2>2, <2>9, <2>10 DEF PairInv
<1>5. ASSUME NEW i \in Fetchers, FetchFails(i) PROVE PairInv'
  BY <1>2, <1>5 DEF FetchFails
<1>6. CASE SlaveCrash
  <2>1. \A j \in Fetchers : fetch'[j] = IF j \in Fetchers THEN IdleFetch ELSE fetch[j]
    BY <1>6 DEF SlaveCrash
  <2>2. torn \subseteq torn' /\ \A j \in Fetchers : Halfway(j) => fetch[j].host \in torn'
    BY <1>6 DEF SlaveCrash
  <2>3. files' = files  BY <1>6 DEF SlaveCrash
  <2> QED  BY <2>1, <2>2, <2>3, EndOfFetches
<1> QED  BY <1>1, <1>3, <1>4, <1>5, <1>6 DEF SlaveNext, Fetching

-----------------------------------------------------------------------------
(***************************************************************************)
(* The theorems.                                                           *)
(***************************************************************************)

\* The invariant holds when master and slave start.
LEMMA InvInit ==
  ASSUME DeliveryInit
  PROVE  CertInv
<1>1. 0 \in Prefixes /\ 0 \in Written
  <2>1. 0 \in Prefixes  BY Zenon DEF Prefixes
  <2>2. 0 \in Written  BY SMT DEF Written
  <2> QED  BY <2>1, <2>2
<1>2. TypeOK
  <2>1. IdleJob("scan") \in Jobs  BY <1>1, FirstHost DEF IdleJob, Jobs
  <2>2. store \in [Hosts -> [Prefixes -> [Files -> Prefixes]]]  BY <1>1 DEF DeliveryInit, Init, NoObjects
  <2>3. certs \in [Hosts -> Seq(CertRows)]
    <3>1. certs = [h \in Hosts |-> <<>>]  BY DEF DeliveryInit, Init
    <3> QED  BY <3>1
  <2>4. queue = <<>>  BY DEF DeliveryInit, Init
  <2>5. queue \in Seq(Hosts) /\ Len(queue) <= QueueCap  BY <2>4, CertAssumption
  <2>6. domain \in [Hosts -> Domains] /\ told \in [Hosts -> Projections] /\ minted \in [Hosts -> Prefixes]
    BY <1>1 DEF DeliveryInit, Init, Domains, Projections
  <2>7. changes = 0 /\ faults = {} /\ dirty = {} /\ tokens = {} /\ txt = {} /\ job = IdleJob("scan")
    BY DEF DeliveryInit, Init
  <2> QED  BY <2>1, <2>2, <2>3, <2>5, <2>6, <2>7, CertAssumption DEF TypeOK
<1>3. SlaveTypeOK
  <2>1. fetch \in [Fetchers -> FetchStates]  BY IdleFetchType DEF DeliveryInit
  <2> QED  BY <1>1, <2>1 DEF DeliveryInit, SlaveTypeOK, NoFiles, FetchStates
<1>4. job.pc = "scan" /\ job.cert = 0 /\ job.put = 0  BY DEF DeliveryInit, Init, IdleJob
<1>5. \A h \in Hosts : certs[h] = <<>> /\ DOMAIN certs[h] = {}
  <2>1. certs = [h \in Hosts |-> <<>>]  BY DEF DeliveryInit, Init
  <2> QED  BY <2>1
<1>6. \A i \in Fetchers : fetch[i].pc = "idle"  BY DEF DeliveryInit, IdleFetch
<1>7. JobInv  BY <1>4, <1>5 DEF JobInv, Ordering
<1>8. ChallengeInv  BY DEF DeliveryInit, Init, ChallengeInv
<1>9. ToldInv  BY <1>6 DEF DeliveryInit, Init, ToldInv
<1>10. RevisionInv
  <2>1. \A h \in Hosts : \A r \in Revisions : \A f \in Files : store[h][r][f] = 0
    BY DEF DeliveryInit, Init, NoObjects, Prefixes
  <2>2. NumberIsNext /\ PutsItsRow  BY <1>4 DEF NumberIsNext, PutsItsRow, Ordering
  <2>3. NumbersDiffer /\ ObjectsHaveRow /\ ObjectsOfRow
    BY <1>5, <2>1 DEF NumbersDiffer, ObjectsHaveRow, ObjectsOfRow
  <2> QED  BY <2>2, <2>3 DEF RevisionInv
<1>11. FetchInv  BY <1>6 DEF FetchInv
<1>12. PairInv
  <2>1. \A h \in Hosts : FetchesOf(h) = {}  BY <1>6 DEF FetchesOf
  <2>2. \A h \in Hosts : files[h]["crt"] = files[h]["key"]  BY DEF DeliveryInit, NoFiles, Files
  <2> QED  BY <2>1, <2>2 DEF PairInv, PairOK
<1> QED  BY <1>2, <1>3, <1>7, <1>8, <1>9, <1>10, <1>11, <1>12 DEF CertInv

\* Every step of the master and of the slave keeps the invariant.
LEMMA InvStep ==
  ASSUME CertInv, [Next]_vars
  PROVE  CertInv'
<1> USE DEF CertInv
<1>a. job.host \in Hosts
  <2>1. job \in Jobs  BY DEF TypeOK
  <2> QED  BY <2>1 DEF Jobs
<1>1. CASE MasterNext /\ UNCHANGED slave
  <2>1. TypeOK'  BY <1>1, TypeStep
  <2>2. SlaveTypeOK'  BY <1>1 DEF slave, SlaveTypeOK
  <2>3. JobInv'  BY <1>1, <2>1, JobStep
  <2>4. ChallengeInv'  BY <1>1, ChallengeStep
  <2>5. ToldInv'  BY <1>1, ToldStep
  <2>6. ASSUME "read" \notin faults' PROVE RevisionInv' /\ FetchInv' /\ PairInv'
    <3>1. "read" \notin faults  BY <1>1, <2>6, FaultsGrow
    <3>2. RevisionInv'  BY <1>1, <2>6, <3>1, RevisionStep
    <3>3. FetchInv'  BY <1>1, <3>1, FetchStep
    <3>4. PairInv'  BY <1>1, <3>1, PairFrame DEF slave
    <3> QED  BY <3>2, <3>3, <3>4
  <2> QED  BY <2>1, <2>2, <2>3, <2>4, <2>5, <2>6
<1>2. CASE SlaveNext
  <2>1. TypeOK' /\ SlaveTypeOK'  BY <1>2, SlaveTypeStep
  <2>2. UNCHANGED <<certs, store, job, tokens, txt, minted>> /\ faults \subseteq faults'
    BY <1>2, SlaveLeavesMaster
  <2>3. JobInv'  BY <2>2 DEF JobInv
  <2>4. ChallengeInv'  BY <2>2 DEF ChallengeInv
  <2>5. ToldInv'  BY <1>2, SlaveTold
  <2>6. ASSUME "read" \notin faults' PROVE RevisionInv' /\ FetchInv' /\ PairInv'
    <3>1. "read" \notin faults  BY <2>2, <2>6
    <3>2. RevisionInv'  BY <1>a, <2>2, <3>1, RevisionFrame DEF SameRows
    <3>3. FetchInv'  BY <1>2, <3>1, SlaveFetch
    <3>4. PairInv'  BY <1>2, <3>1, SlavePair
    <3> QED  BY <3>2, <3>3, <3>4
  <2> QED  BY <2>1, <2>3, <2>4, <2>5, <2>6
<1>3. CASE UNCHANGED vars
  <2>1. TypeOK' /\ SlaveTypeOK'  BY <1>3 DEF vars, TypeOK, SlaveTypeOK
  <2>2. JobInv' /\ ChallengeInv'  BY <1>3 DEF vars, JobInv, ChallengeInv
  <2>3. UNCHANGED <<certs, store, job, told, faults, fetch, files, torn>>  BY <1>3 DEF vars
  <2>4. ToldInv'  BY <2>3 DEF ToldInv, HasRevision
  <2>5. RevisionInv => RevisionInv'  BY <1>a, <2>3, RevisionFrame DEF SameRows
  <2>6. FetchInv => FetchInv'  BY <2>3 DEF FetchInv
  <2>7. PairInv => PairInv'  BY <2>3, PairFrame
  <2> QED  BY <2>1, <2>2, <2>3, <2>4, <2>5, <2>6, <2>7
<1> QED  BY <1>1, <1>2, <1>3 DEF Next, SlaveNext

\* The invariant holds at all times: every step of the master and of the
\* slave, failures and crashes included, keeps it.
THEOREM CertInvHolds == DeliverySpec => []CertInv
<1>1. DeliveryInit => CertInv  BY InvInit
<1>2. CertInv /\ [Next]_vars => CertInv'  BY InvStep
<1> QED  BY <1>1, <1>2, PTL DEF DeliverySpec

\* The state of the master has its type: the notification queue keeps its
\* bound and numbers of revisions theirs.
THEOREM CertTypeCorrect == DeliverySpec => []TypeOK
<1>1. CertInv => TypeOK  BY DEF CertInv
<1> QED  BY <1>1, CertInvHolds, PTL

\* The objects under a revision's prefix are the certificate of that
\* revision's row, whichever writes failed (PutCertificateBundle).
THEOREM ObjectsMatchRow == DeliverySpec => []RevisionObjectsMatchRow
<1>1. CertInv => RevisionObjectsMatchRow
  BY DEF CertInv, RevisionInv, ObjectsOfRow, RevisionObjectsMatchRow
<1> QED  BY <1>1, CertInvHolds, PTL

\* No answer to a challenge outlives its order (cleanupHTTP01, cleanupDNS01).
THEOREM ChallengesCleaned == DeliverySpec => []ChallengesAreCleanedUp
<1>1. CertInv => ChallengesAreCleanedUp
  BY DEF CertInv, ChallengeInv, ChallengesAreCleanedUp
<1> QED  BY <1>1, CertInvHolds, PTL

\* Certificate and key on a slave belong together, unless two fetches
\* overlapped or one stopped halfway (FetchCertificateBundle,
\* writeCertificateBundle), for any number of fetch goroutines.
THEOREM PairsMatch == DeliverySpec => []PairMatchesUnlessTorn
<1>1. CertInv => PairMatchesUnlessTorn
  BY DEF CertInv, PairInv, PairOK, PairMatchesUnlessTorn
<1> QED  BY <1>1, CertInvHolds, PTL

\* A new revision has a number greater than every earlier one of its host
\* (nextRevision), whichever orders failed before.
THEOREM RevisionNumbersGrow == DeliverySpec => RevisionsGrow
<1> DEFINE Grows ==
      \A h \in Hosts : "read" \notin faults /\ Len(certs'[h]) > Len(certs[h]) =>
        \A i \in DOMAIN certs[h] : certs[h][i].rev < certs'[h][Len(certs'[h])].rev
<1>1. ASSUME CertInv, CertInv', [Next]_vars PROVE [Grows]_master
  <2>1. SUFFICES ASSUME NEW h \in Hosts, "read" \notin faults,
                        Len(certs'[h]) > Len(certs[h]), NEW i \in DOMAIN certs[h]
                 PROVE  certs[h][i].rev < certs'[h][Len(certs'[h])].rev
    OBVIOUS
  <2>2. certs[h] \in Seq(CertRows) /\ certs'[h] \in Seq(CertRows)
    BY <1>1 DEF CertInv, TypeOK
  <2>3. certs'[h] # certs[h]
    <3>1. Len(certs[h]) \in Nat  BY <2>2
    <3> QED  BY <2>1, <3>1
  <2>4. MasterNext
    BY <1>1, <2>3 DEF Next, vars, DealDomainEntries, Fetching, FetchRead, FetchWrite,
                      FetchFails, SlaveCrash, master
  <2>5. ~SameRows
    <3>1. SUFFICES ASSUME SameRows PROVE FALSE  OBVIOUS
    <3>2. DOMAIN certs'[h] = DOMAIN certs[h]  BY <3>1 DEF SameRows
    <3>3. DOMAIN certs[h] = 1..Len(certs[h]) /\ DOMAIN certs'[h] = 1..Len(certs'[h])
          /\ Len(certs[h]) \in Nat /\ Len(certs'[h]) \in Nat
      BY <2>2
    <3>4. Len(certs'[h]) \in 1..Len(certs'[h]) /\ Len(certs'[h]) \notin 1..Len(certs[h])
      BY <2>1, <3>3
    <3> QED  BY <3>2, <3>3, <3>4
  <2>6. NewRow /\ Persist  BY <1>1, <2>4, <2>5, MasterRows DEF CertInv
  <2>7. h = job.host  BY <2>3, <2>6 DEF NewRow
  <2>8. certs'[h][Len(certs'[h])].rev = job.rev
    <3>1. PICK n \in Nat : DOMAIN certs'[h] = 1..(n + 1) /\ certs'[h][n + 1].rev = job.rev
      BY <2>6, <2>7 DEF NewRow
    <3>2. Len(certs'[h]) = n + 1  BY <2>2, <3>1
    <3> QED  BY <3>1, <3>2
  <2>9. certs[h][i].rev < job.rev
    BY <1>1, <2>1, <2>6, <2>7 DEF CertInv, RevisionInv, NumberIsNext, Persist, Ordering
  <2> QED  BY <2>8, <2>9
<1>2. DeliverySpec => [][Grows]_master
  <2>1. CertInv /\ CertInv' /\ [Next]_vars => [Grows]_master  BY <1>1
  <2> QED  BY <2>1, CertInvHolds, PTL DEF DeliverySpec
<1> QED  BY <1>2 DEF RevisionsGrow
=============================================================================
