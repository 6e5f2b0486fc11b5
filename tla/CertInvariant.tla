--------------------------- MODULE CertInvariant ----------------------------
(***************************************************************************)
(* The inductive invariant behind the safety properties of CertIssuance    *)
(* and CertDelivery.                                                       *)
(*                                                                         *)
(* The hard part is what the three objects under a revision's prefix have  *)
(* to do with the row of that revision: they are written one at a time,    *)
(* after the row, by a goroutine that may fail or die in between, and read *)
(* one at a time by fetches that run meanwhile.                            *)
(***************************************************************************)
EXTENDS CertDelivery

\* Between the choice of the revision's number and the insert of its row.
Ordering == {"present", "obtain", "cleanup", "persist"}

\* What the slave's variables are.
SlaveTypeOK ==
  /\ cached \in [Hosts -> [live: BOOLEAN, rev: Prefixes]]
  /\ files \in [Hosts -> [Files -> Prefixes]]
  /\ fetch \in [Fetchers -> [pc: {"idle", "read", "write"}, file: Files, host: Hosts,
                             rev: Prefixes, got: [Files -> Prefixes]]]
  /\ torn \in SUBSET Hosts

\* h has a row of revision r.
HasRevision(h, r) == \E k \in DOMAIN certs[h] : certs[h][k].rev = r

\* How far IssueCertificate is decides what the goroutine holds; numbers of
\* certificates and revisions stay within what the CA has issued.
JobInv ==
  /\ job.pc \in Ordering \cup {"put", "notify"} => job.rev \in 1..(minted[job.host] + 1)
  /\ job.pc \in {"present", "obtain"} => job.cert = 0
  /\ job.pc \in {"persist", "put"} => job.cert # 0
  /\ job.cert # 0 => job.cert = minted[job.host] /\ job.rev \in 1..minted[job.host]
  /\ job.pc \notin Ordering \cup {"put", "notify"} => job.cert = 0
  /\ job.pc = "put" => job.put < 6
  /\ job.pc \notin {"put", "notify"} => job.put = 0
  /\ \A h \in Hosts : \A k \in DOMAIN certs[h] :
       /\ certs[h][k].rev <= minted[h]
       /\ (h = job.host /\ job.pc \in {"cleanup", "persist"} /\ job.cert # 0)
            => certs[h][k].rev < minted[h]

\* An answer to a challenge belongs to the running order and is of the kind
\* that its clean-up removes.
ChallengeInv ==
  /\ tokens \subseteq {job.host}
  /\ tokens # {} => job.pc \in {"obtain", "cleanup"} /\ job.l7
  /\ faults \cap {"crash", "write"} = {} =>
       /\ txt \subseteq {job.host}
       /\ txt # {} => job.pc \in {"obtain", "cleanup"} /\ ~job.l7

\* The number chosen for the running order is still greater than that of
\* every row.
NumberIsNext ==
  job.pc \in Ordering => \A k \in DOMAIN certs[job.host] : certs[job.host][k].rev < job.rev

\* Numbers are not given twice.
NumbersDiffer ==
  \A h \in Hosts : \A j, k \in DOMAIN certs[h] : certs[h][j].rev = certs[h][k].rev => j = k

\* Only revisions with a row have objects.
ObjectsHaveRow ==
  \A h \in Hosts : \A r \in Revisions : \A f \in Files :
    store[h][r][f] # 0 => HasRevision(h, r)

\* They are those of the row's certificate.
ObjectsOfRow ==
  \A h \in Hosts : \A k \in DOMAIN certs[h] : \A f \in Files :
    store[h][certs[h][k].rev][f] \in {0, certs[h][k].cert}

\* The bundle being written is the one of its row.
PutsItsRow ==
  job.pc = "put" => \E k \in DOMAIN certs[job.host] :
    certs[job.host][k].rev = job.rev /\ certs[job.host][k].cert = job.cert

\* Revisions, their rows and their objects.
RevisionInv == NumberIsNext /\ NumbersDiffer /\ ObjectsHaveRow /\ ObjectsOfRow /\ PutsItsRow

\* A revision that was published or is being fetched has a row.
ToldInv ==
  /\ \A h \in Hosts : told[h].rev # 0 => HasRevision(h, told[h].rev)
  /\ \A i \in Fetchers : fetch[i].pc # "idle" =>
       fetch[i].rev # 0 /\ HasRevision(fetch[i].host, fetch[i].rev)

\* What a fetch has read of the pair is the certificate of its revision, and
\* it has read both before it writes.
FetchInv ==
  \A i \in Fetchers : fetch[i].pc # "idle" =>
    /\ \A k \in DOMAIN certs[fetch[i].host] :
         certs[fetch[i].host][k].rev = fetch[i].rev =>
           \A f \in {"crt", "key"} : fetch[i].got[f] \in {0, certs[fetch[i].host][k].cert}
    /\ fetch[i].pc = "write" \/ fetch[i].file # "crt" => fetch[i].got["crt"] # 0
    /\ fetch[i].pc = "write" \/ fetch[i].file = "meta" => fetch[i].got["key"] # 0

\* A host that is not torn has one fetch at most.  The pair on disk matches
\* except between the writes of that fetch, when what it has written is what
\* it has read.
PairOK(h) ==
  /\ \A i, j \in FetchesOf(h) : i = j
  /\ (\A i \in FetchesOf(h) : ~Halfway(i)) => files[h]["crt"] = files[h]["key"]
  /\ \A i \in FetchesOf(h) : Halfway(i) =>
       /\ files[h]["crt"] = fetch[i].got["crt"]
       /\ fetch[i].file = "meta" => files[h]["key"] = fetch[i].got["key"]

PairInv == \A h \in Hosts \ torn : PairOK(h)

\* The inductive invariant.  RevisionInv and what rests on it is lost when
\* the read of the latest revision failed once (nextRevision).
CertInv ==
  /\ TypeOK /\ SlaveTypeOK
  /\ JobInv /\ ChallengeInv /\ ToldInv
  /\ "read" \notin faults => RevisionInv /\ FetchInv /\ PairInv
=============================================================================
