---------------------------- MODULE CertIssuance ----------------------------
(***************************************************************************)
(* Certificates on the master: the reconciler, which decides when a domain *)
(* gets a new certificate, the ACME service, which obtains it and stores   *)
(* its revision row, and the bundle store, whose objects are written one   *)
(* at a time.                                                              *)
(*                                                                         *)
(* A certificate is a number: the content of a tls.crt, tls.key or         *)
(* metadata.json object is the certificate it belongs to, 0 if there is no *)
(* object.  A hostname is a number too, so that the scan's order           *)
(* "hostname asc" is the order of numbers.                                 *)
(***************************************************************************)
EXTENDS Integers, Sequences, FiniteSets, FiniteSetsExt

CONSTANTS
  Hosts,      \* hostnames, a set of naturals
  Config,     \* what resolveIssuerConfig looks at: email, provider, eab
  QueueCap,   \* capacity of notifyCh (128 in the code)
  MaxCerts,   \* bound on the certificates obtained for a host
  MaxChanges, \* bound on the changes of domains
  Faults,     \* the classes of faults that may happen, see FaultClasses
  MaxFaults   \* bound on the faults, of different classes

(***************************************************************************)
(* "acme": the CA refuses (registration, order, challenge).  "write": the  *)
(* write of a row fails.  "read": a read of the certificate rows fails.    *)
(* "store": an object of a bundle is not written.  "publish": publishing a *)
(* domain fails.  "crash": the master dies and is restarted.  "fetch",     *)
(* "slave": a slave's fetch fails, a slave dies (in CertDelivery).         *)
(***************************************************************************)
FaultClasses == {"acme", "write", "read", "store", "publish", "crash", "fetch", "slave"}

ASSUME CertAssumption ==
  /\ Hosts \subseteq Nat /\ Hosts # {} /\ IsFiniteSet(Hosts)
  /\ QueueCap \in Nat \ {0}
  /\ MaxCerts \in Nat /\ MaxChanges \in Nat /\ MaxFaults \in Nat
  /\ Faults \subseteq FaultClasses

VARIABLES
  domain,  \* domain[h]: the row of the domain endpoint
  certs,   \* certs[h]: the certificate_revisions rows of h, in insertion order
  store,   \* store[h][r][f]: object f under revision r's prefix, 0 the latest
  queue,   \* notifyCh
  job,     \* the reconciler goroutine
  tokens,  \* hosts with an answer in the HTTP-01 registry
  txt,     \* hosts with a live DNS-01 TXT row
  told,    \* told[h]: the last published projection of h
  dirty,   \* hosts whose last change is not yet published by its writer
  minted,  \* minted[h]: certificates the CA has issued for h
  changes, \* changes of domains so far
  faults   \* the classes of the faults so far

master == <<domain, certs, store, queue, job, tokens, txt, told, dirty, minted,
            changes, faults>>

Files == {"crt", "key", "meta"}
Revisions == 1..MaxCerts
Prefixes == {0} \cup Revisions
Written == 0..6   \* objects of a bundle that are written
Domains == [live: BOOLEAN, need: BOOLEAN, l7: BOOLEAN]
CertRows == [rev: Revisions, cert: Revisions, fresh: BOOLEAN]
Jobs == [pc: {"scan", "select", "next", "issue", "present", "obtain", "cleanup",
              "persist", "put", "notify"},
         todo: SUBSET [host: Hosts, need: BOOLEAN, l7: BOOLEAN],
         host: Hosts, l7: BOOLEAN, rev: Revisions \cup {0, MaxCerts + 1},
         cert: Prefixes, put: Written]
Projections == [live: BOOLEAN, rev: Prefixes, new: BOOLEAN]

TypeOK ==
  /\ domain \in [Hosts -> Domains]
  /\ certs \in [Hosts -> Seq(CertRows)]
  /\ store \in [Hosts -> [Prefixes -> [Files -> Prefixes]]]
  /\ queue \in Seq(Hosts) /\ Len(queue) <= QueueCap
  /\ job \in Jobs
  /\ tokens \in SUBSET Hosts /\ txt \in SUBSET Hosts /\ dirty \in SUBSET Hosts
  /\ told \in [Hosts -> Projections]
  /\ minted \in [Hosts -> Prefixes]
  /\ changes \in 0..MaxChanges /\ faults \in SUBSET Faults

IdleJob(pc) == [pc |-> pc, todo |-> {}, host |-> Min(Hosts), l7 |-> FALSE,
                rev |-> 0, cert |-> 0, put |-> 0]

NoObjects == [p \in Prefixes |-> [f \in Files |-> 0]]

Init ==
  /\ domain = [h \in Hosts |-> [live |-> FALSE, need |-> FALSE, l7 |-> FALSE]]
  /\ certs = [h \in Hosts |-> <<>>]
  /\ store = [h \in Hosts |-> NoObjects]
  /\ queue = <<>>
  /\ job = IdleJob("scan")
  /\ tokens = {} /\ txt = {}
  /\ told = [h \in Hosts |-> [live |-> FALSE, rev |-> 0, new |-> FALSE]]
  /\ dirty = {}
  /\ minted = [h \in Hosts |-> 0]
  /\ changes = 0 /\ faults = {}

-----------------------------------------------------------------------------
(***************************************************************************)
(* Faults, reads and publications.                                         *)
(***************************************************************************)

\* A fault of class f happens in this step.
Fault(f) ==
  /\ f \in Faults \ faults
  /\ Cardinality(faults) < MaxFaults
  /\ faults' = faults \cup {f}

\* Everything goes well in this step.
NoFault == UNCHANGED faults

\* GetLatestCertificateRevision and GetActiveCertificateForDomain: the rows
\* of the highest revision; rows with equal revisions come in any order.
Latest(h) == {i \in DOMAIN certs[h] :
                \A j \in DOMAIN certs[h] : certs[h][j].rev <= certs[h][i].rev}

\* Mutant of LatestRev: certificates about to end do not count.
LatestRevFresh(h) ==
  Max({0} \cup {certs[h][i].rev : i \in {j \in DOMAIN certs[h] : certs[h][j].fresh}})

LatestRev(h) == Max({0} \cup {certs[h][i].rev : i \in DOMAIN certs[h]})

\* The projection of h as it is read from the tables now; the certificate is
\* joined whether or not the domain still needs one.
Projection(h) == [live |-> domain[h].live,
                  rev |-> IF domain[h].live THEN LatestRev(h) ELSE 0,
                  new |-> TRUE]

\* The notifier: h's projection is published; nothing is, without an error,
\* when the domain is gone.
Publishes(h) == told' = IF domain[h].live THEN [told EXCEPT ![h] = Projection(h)]
                        ELSE told

PublishFails == Fault("publish") /\ UNCHANGED told

\* Notify: the hostname is queued if there is room, dropped if not.
Notify(q, h) == IF Len(q) < QueueCap THEN Append(q, h) ELSE q

-----------------------------------------------------------------------------
(***************************************************************************)
(* The domains, as the manage API and the bridges change them.             *)
(***************************************************************************)

\* A plan or a bridge upserts the domain; the reconciler and the slaves hear
\* of it in a later step.
ChangeDomain(h, need, l7) ==
  /\ changes < MaxChanges
  /\ domain' = [domain EXCEPT ![h] = [live |-> TRUE, need |-> need, l7 |-> l7]]
  /\ dirty' = dirty \cup {h}
  /\ changes' = changes + 1
  /\ UNCHANGED <<certs, store, queue, job, tokens, txt, told, minted, faults>>

DeleteDomain(h) ==
  /\ changes < MaxChanges
  /\ domain[h].live
  /\ domain' = [domain EXCEPT ![h].live = FALSE]
  /\ dirty' = dirty \cup {h}
  /\ changes' = changes + 1
  /\ UNCHANGED <<certs, store, queue, job, tokens, txt, told, minted, faults>>

\* The writer of a domain reads it again, notifies the reconciler if it needs
\* a certificate, and publishes the projection it reads, or the deletion; an
\* error ends the request.
PublishChange(h) ==
  /\ h \in dirty
  /\ dirty' = dirty \ {h}
  /\ queue' = IF domain[h].live /\ domain[h].need THEN Notify(queue, h) ELSE queue
  /\ \/ NoFault /\ told' = [told EXCEPT ![h] = Projection(h)]
     \/ PublishFails
  /\ UNCHANGED <<domain, certs, store, job, tokens, txt, minted, changes>>

\* Time passes: the certificates of h come within renewBefore of their end.
\* The bound leaves a certificate for every fault that may waste one.
Age(h) ==
  /\ minted[h] + MaxFaults < MaxCerts
  /\ \E i \in DOMAIN certs[h] : certs[h][i].fresh
  /\ certs' = [certs EXCEPT ![h] =
                 [i \in DOMAIN certs[h] |-> [certs[h][i] EXCEPT !.fresh = FALSE]]]
  /\ UNCHANGED <<domain, store, queue, job, tokens, txt, told, dirty, minted,
                 changes, faults>>

-----------------------------------------------------------------------------
(***************************************************************************)
(* The reconciler goroutine.                                               *)
(***************************************************************************)

AsListed(h) == [host |-> h, need |-> domain[h].need, l7 |-> domain[h].l7]

\* Mutant of Scan: a tick lists nothing, only the first scan does.
ScanOnce ==
  /\ job.pc \in {"scan", "select"}
  /\ job' = [job EXCEPT !.pc = "next",
                        !.todo = {AsListed(h) : h \in {g \in Hosts : domain[g].live /\ job.pc = "scan"}}]
  /\ UNCHANGED <<domain, certs, store, queue, tokens, txt, told, dirty, minted,
                 changes, faults>>

\* The first scan of run, or the one of a tick: the live domains are listed
\* with the fields they have now.
Scan ==
  /\ job.pc \in {"scan", "select"}
  /\ job' = [job EXCEPT !.pc = "next",
                        !.todo = {AsListed(h) : h \in {g \in Hosts : domain[g].live}}]
  /\ UNCHANGED <<domain, certs, store, queue, tokens, txt, told, dirty, minted,
                 changes, faults>>

\* reconcileHostname: one hostname is taken from notifyCh; a domain that is
\* gone is an error, which run ignores.
TakeNotified ==
  /\ job.pc = "select"
  /\ queue # <<>>
  /\ queue' = Tail(queue)
  /\ job' = IF domain[Head(queue)].live
            THEN [job EXCEPT !.pc = "next", !.todo = {AsListed(Head(queue))}]
            ELSE job
  /\ UNCHANGED <<domain, certs, store, tokens, txt, told, dirty, minted, changes,
                 faults>>

\* shouldIssue: no certificate, or one that ends within renewBefore.
ShouldIssue(h) == Latest(h) = {} \/ \E i \in Latest(h) : ~certs[h][i].fresh

\* shouldIssue says no.  Of two rows with the highest revision it sees one.
MaySkip(h) == \E i \in Latest(h) : certs[h][i].fresh

\* One domain of the list, in the order of hostnames: reconcileDomain up to
\* the decision.  A read error means that it should issue.
Reconcile ==
  /\ job.pc = "next"
  /\ job.todo # {}
  /\ LET d == CHOOSE e \in job.todo : \A g \in job.todo : e.host <= g.host
         rest == [job EXCEPT !.todo = @ \ {d}]
         issue == [rest EXCEPT !.pc = "issue", !.host = d.host, !.l7 = d.l7]
     IN  \/ /\ ~d.need \/ MaySkip(d.host)
            /\ job' = rest
            /\ NoFault
         \/ /\ d.need /\ ShouldIssue(d.host)
            /\ job' = issue
            /\ NoFault
         \/ /\ d.need
            /\ job' = issue
            /\ Fault("read")
  /\ UNCHANGED <<domain, certs, store, queue, tokens, txt, told, dirty, minted,
                 changes>>

\* The list is done: back to the select of run.
EndScan ==
  /\ job.pc = "next"
  /\ job.todo = {}
  /\ job' = [job EXCEPT !.pc = "select"]
  /\ UNCHANGED <<domain, certs, store, queue, tokens, txt, told, dirty, minted,
                 changes, faults>>

-----------------------------------------------------------------------------
(***************************************************************************)
(* IssueCertificate.  Whatever fails, the reconciler goes on with the next *)
(* domain of its list.                                                     *)
(***************************************************************************)

NextDomain == [job EXCEPT !.pc = "next", !.l7 = FALSE, !.rev = 0, !.cert = 0, !.put = 0]

\* resolveIssuerConfig succeeds: an email, and a provider it knows; ZeroSSL
\* needs the external account binding.
ResolveIssuerConfig ==
  /\ Config.email
  /\ \/ Config.provider = "letsencrypt"
     \/ Config.provider = "zerossl" /\ Config.eab

\* The issuer factory: a new account is registered at the CA, or is not.
NewIssuerFails == Fault("acme")

\* The domain is loaded again, the issuer is configured and the number of the
\* revision is chosen: one more than the latest, 1 when none can be read.
BeginIssue ==
  /\ job.pc = "issue"
  /\ LET begin(r) == [job EXCEPT !.pc = "present", !.rev = r]
         ok == domain[job.host].live /\ ResolveIssuerConfig
     IN  \/ ok /\ NoFault /\ job' = begin(LatestRev(job.host) + 1)
         \/ ok /\ Fault("read") /\ job' = begin(1)
         \/ ok /\ NewIssuerFails /\ job' = NextDomain
         \/ ~ok /\ NoFault /\ job' = NextDomain
  /\ UNCHANGED <<domain, certs, store, queue, tokens, txt, told, dirty, minted,
                 changes>>

\* presentHTTP01: the answer goes to the registry.
PresentHTTP01 ==
  /\ NoFault
  /\ tokens' = tokens \cup {job.host}
  /\ job' = [job EXCEPT !.pc = "obtain"]
  /\ UNCHANGED <<txt, told>>

\* presentDNS01: the answer is written as a row, and the domain, not the
\* row, is published.
PresentDNS01 ==
  /\ \/ /\ txt' = txt \cup {job.host}
        /\ \/ NoFault /\ Publishes(job.host) /\ job' = [job EXCEPT !.pc = "obtain"]
           \/ PublishFails /\ job' = [job EXCEPT !.pc = "cleanup"]
     \/ /\ Fault("write")
        /\ job' = [job EXCEPT !.pc = "cleanup"]
        /\ UNCHANGED <<txt, told>>
  /\ UNCHANGED tokens

Present ==
  /\ job.pc = "present"
  /\ IF job.l7 THEN PresentHTTP01 ELSE PresentDNS01
  /\ UNCHANGED <<domain, certs, store, queue, dirty, minted, changes>>

\* What the CA can see of the answer: slaves pass HTTP-01 requests on to the
\* registry, but no slave ever has a TXT row, which presentDNS01 does not
\* publish.
AnswerIsVisible == job.l7 /\ job.host \in tokens

\* The CA validates the challenge and issues, or does not.
Obtain ==
  /\ job.pc = "obtain"
  /\ \/ /\ AnswerIsVisible /\ NoFault
        /\ minted[job.host] < MaxCerts
        /\ minted' = [minted EXCEPT ![job.host] = @ + 1]
        /\ job' = [job EXCEPT !.pc = "cleanup", !.cert = minted[job.host] + 1]
     \/ /\ IF AnswerIsVisible THEN Fault("acme") ELSE NoFault
        /\ job' = [job EXCEPT !.pc = "cleanup"]
        /\ UNCHANGED minted
  /\ UNCHANGED <<domain, certs, store, queue, tokens, txt, told, dirty, changes>>

CleanUpHTTP01 == NoFault /\ tokens' = tokens \ {job.host} /\ UNCHANGED <<txt, told>>

CleanUpDNS01 ==
  /\ \/ /\ txt' = txt \ {job.host}
        /\ (NoFault /\ Publishes(job.host)) \/ PublishFails
     \/ Fault("write") /\ UNCHANGED <<txt, told>>
  /\ UNCHANGED tokens

\* Mutant of CleanUp: the challenge is cleaned up after success only.
CleanUpOnSuccess ==
  /\ job.pc = "cleanup"
  /\ IF job.cert = 0 THEN job' = NextDomain /\ UNCHANGED <<tokens, txt, told, faults>>
     ELSE /\ job' = [job EXCEPT !.pc = "persist"]
          /\ IF job.l7 THEN CleanUpHTTP01 ELSE CleanUpDNS01
  /\ UNCHANGED <<domain, certs, store, queue, dirty, minted, changes>>

\* CleanUp, which the ACME client calls after success and after failure, and
\* whose errors it ignores.
CleanUp ==
  /\ job.pc = "cleanup"
  /\ job' = IF job.cert = 0 THEN NextDomain ELSE [job EXCEPT !.pc = "persist"]
  /\ IF job.l7 THEN CleanUpHTTP01 ELSE CleanUpDNS01
  /\ UNCHANGED <<domain, certs, store, queue, dirty, minted, changes>>

\* The revision row is inserted, under an id of its own.
Persist ==
  /\ job.pc = "persist"
  /\ \/ /\ NoFault
        /\ certs' = [certs EXCEPT ![job.host] =
                       Append(@, [rev |-> job.rev, cert |-> job.cert, fresh |-> TRUE])]
        /\ job' = [job EXCEPT !.pc = "put"]
     \/ /\ Fault("write")
        /\ job' = NextDomain
        /\ UNCHANGED certs
  /\ UNCHANGED <<domain, store, queue, tokens, txt, told, dirty, minted, changes>>

\* Mutant of PutOrder: the key goes under the previous revision's prefix.
PutOrderSkewed(r) == <<[at |-> 0, file |-> "crt"], [at |-> r, file |-> "crt"],
                       [at |-> 0, file |-> "key"], [at |-> r - 1, file |-> "key"],
                       [at |-> 0, file |-> "meta"], [at |-> r, file |-> "meta"]>>

\* buildBundleAndRevision: the chain, its key and their metadata.
BundleOf(cert) == [f \in Files |-> cert]

\* The objects that PutCertificateBundle writes for revision r, in order.
PutOrder(r) == <<[at |-> 0, file |-> "crt"], [at |-> r, file |-> "crt"],
                 [at |-> 0, file |-> "key"], [at |-> r, file |-> "key"],
                 [at |-> 0, file |-> "meta"], [at |-> r, file |-> "meta"]>>

\* PutCertificateBundle writes the next object; an error ends the issue.
PutObject ==
  /\ job.pc = "put"
  /\ LET o == PutOrder(job.rev)[job.put + 1]
     IN  \/ /\ NoFault
            /\ store' = [store EXCEPT ![job.host][o.at][o.file] = BundleOf(job.cert)[o.file]]
            /\ job' = [job EXCEPT !.put = @ + 1,
                                  !.pc = IF job.put = 5 THEN "notify" ELSE "put"]
         \/ /\ Fault("store")
            /\ job' = NextDomain
            /\ UNCHANGED store
  /\ UNCHANGED <<domain, certs, queue, tokens, txt, told, dirty, minted, changes>>

\* Mutant of PublishIssued: the last publication is missing.
PublishIssuedNever ==
  /\ job.pc = "notify"
  /\ job' = NextDomain
  /\ NoFault
  /\ UNCHANGED <<domain, certs, store, queue, tokens, txt, told, dirty, minted, changes>>

\* The domain is published with its new revision.
PublishIssued ==
  /\ job.pc = "notify"
  /\ job' = NextDomain
  /\ \/ NoFault /\ Publishes(job.host)
     \/ PublishFails
  /\ UNCHANGED <<domain, certs, store, queue, tokens, txt, dirty, minted, changes>>

\* The master dies and is restarted: what it had in memory is gone, and with
\* it the requests that had not yet published what they had committed.
MasterCrash ==
  /\ Fault("crash")
  /\ queue' = <<>> /\ tokens' = {} /\ dirty' = {} /\ job' = IdleJob("scan")
  /\ UNCHANGED <<domain, certs, store, txt, told, minted, changes>>

-----------------------------------------------------------------------------

Issuing == Scan \/ TakeNotified \/ Reconcile \/ EndScan \/ BeginIssue \/ Present
           \/ Obtain \/ CleanUp \/ Persist \/ PutObject \/ PublishIssued

MasterNext ==
  \/ \E h \in Hosts : \/ \E need, l7 \in BOOLEAN : ChangeDomain(h, need, l7)
                      \/ DeleteDomain(h)
                      \/ PublishChange(h)
                      \/ Age(h)
  \/ Issuing
  \/ MasterCrash

(***************************************************************************)
(* The goroutine runs and its ticker ticks; the writer of a domain goes on *)
(* to publish it.  Faults are bounded by MaxFaults.                        *)
(***************************************************************************)
MasterFairness ==
  /\ WF_master(Issuing)
  /\ \A h \in Hosts : WF_master(PublishChange(h))

Spec == Init /\ [][MasterNext]_master /\ MasterFairness

-----------------------------------------------------------------------------
(***************************************************************************)
(* Properties.                                                             *)
(***************************************************************************)

\* The number of a new revision is greater than that of every earlier
\* revision of the host, whichever steps of IssueCertificate failed before,
\* unless the read of the latest revision itself failed: that starts again
\* from 1 (nextRevision).
RevisionsGrow ==
  [][\A h \in Hosts : "read" \notin faults /\ Len(certs'[h]) > Len(certs[h]) =>
       \A i \in DOMAIN certs[h] : certs[h][i].rev < certs'[h][Len(certs'[h])].rev]_master

\* The objects under a revision's prefix are the certificate of that
\* revision's row: a bundle is never assembled from two issues, whichever
\* object writes failed and whatever was issued later (PutCertificateBundle).
RevisionObjectsMatchRow ==
  "read" \notin faults =>
    \A h \in Hosts : \A i \in DOMAIN certs[h] : \A f \in Files :
      store[h][certs[h][i].rev][f] \in {0, certs[h][i].cert}

\* When the reconciler waits, no answer to a challenge is left: neither an
\* HTTP-01 token nor a DNS-01 row outlives its order, failed or not.  A row
\* is only left by a crash or by a failed write (cleanupHTTP01,
\* cleanupDNS01).
ChallengesAreCleanedUp ==
  job.pc \in {"select", "scan"} =>
    /\ tokens = {}
    /\ faults \cap {"crash", "write"} = {} => txt = {}

\* h's latest revision is not about to end, and its bundle is stored.
Issued(h) == \E i \in Latest(h) :
               certs[h][i].fresh /\ \A f \in Files : store[h][certs[h][i].rev][f] # 0

\* An L7 domain that stays live and in need of a certificate gets one that is
\* not about to end, with its whole bundle stored, although Notify drops
\* hostnames when its queue is full, and the CA, a read, the write of a row or
\* a publication may fail: the scan finds the domain again.  After a crash or
\* an object that was not written only the revision row is sure to be there:
\* it counts as a certificate, and nothing stores its bundle before it is due
\* for renewal (shouldIssue, IssueCertificate).  An L4 domain is promised
\* nothing: its DNS-01 answer is on no slave.
HTTP01CertificateIsIssued ==
  \A h \in Hosts :
    <>[](domain[h].live /\ domain[h].need /\ domain[h].l7) =>
    <>[](Issued(h) \/ (MaySkip(h) /\ faults \cap {"store", "crash"} # {}))
=============================================================================
