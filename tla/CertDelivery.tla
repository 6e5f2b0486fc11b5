---------------------------- MODULE CertDelivery ----------------------------
(***************************************************************************)
(* Certificates on their way to a slave: CertIssuance composed with a      *)
(* slave that applies published domains to its cache and fetches bundles   *)
(* into files.  A fetch is a goroutine of its own: the master reads the    *)
(* three objects one after the other, then the slave writes three files.   *)
(*                                                                         *)
(* The slave applies the last published projection of a host.  The notices *)
(* before it, which Replication models, start the same fetches at most.    *)
(***************************************************************************)
EXTENDS CertIssuance

CONSTANT Fetchers  \* fetch goroutines, a bound on how many run at once

VARIABLES
  cached, \* cached[h]: the row of h in the slave's cache
  files,  \* files[h][f]: the certificate in file f of h's directory, 0 for no file
  fetch,  \* fetch[i]: a fetch goroutine
  torn    \* history: hosts of which two fetches overlapped, or one stopped halfway

slave == <<cached, files, fetch, torn>>
vars == <<domain, certs, store, queue, job, tokens, txt, told, dirty, minted, changes,
          faults, cached, files, fetch, torn>>

NoFiles == [f \in Files |-> 0]
IdleFetch == [pc |-> "idle", file |-> "crt", host |-> Min(Hosts), rev |-> 0, got |-> NoFiles]

DeliveryInit ==
  /\ Init
  /\ cached = [h \in Hosts |-> [live |-> FALSE, rev |-> 0]]
  /\ files = [h \in Hosts |-> NoFiles]
  /\ fetch = [i \in Fetchers |-> IdleFetch]
  /\ torn = {}

-----------------------------------------------------------------------------

FetchesOf(h) == {i \in Fetchers : fetch[i].pc # "idle" /\ fetch[i].host = h}

\* CheckCertificateBundle: the three files are there, whatever revision they
\* are of.
CheckCertificateBundle(h, rev) == \A f \in Files : files[h][f] # 0

\* dealDomainEntries: a deleted domain leaves the cache.  Another one is
\* cached, and if it has a certificate and the files are not all there, a
\* goroutine is started to fetch them.
DealDomainEntries(h) ==
  /\ told[h].new
  /\ told' = [told EXCEPT ![h].new = FALSE]
  /\ cached' = [cached EXCEPT ![h] = [live |-> told[h].live, rev |-> told[h].rev]]
  /\ IF told[h].live /\ told[h].rev # 0 /\ ~CheckCertificateBundle(h, told[h].rev)
     THEN \E i \in Fetchers :
            /\ fetch[i].pc = "idle"
            /\ fetch' = [fetch EXCEPT ![i] =
                 [IdleFetch EXCEPT !.pc = "read", !.host = h, !.rev = told[h].rev]]
            /\ torn' = IF FetchesOf(h) = {} THEN torn ELSE torn \cup {h}
     ELSE UNCHANGED <<fetch, torn>>
  /\ UNCHANGED <<domain, certs, store, queue, job, tokens, txt, dirty, minted, changes,
                 faults, files>>

\* Goroutine i has begun to write and has not finished.
Halfway(i) == fetch[i].pc = "write" /\ fetch[i].file # "crt"

\* The goroutine ends before its last write.
EndFetch(i) ==
  /\ fetch' = [fetch EXCEPT ![i] = IdleFetch]
  /\ torn' = IF Halfway(i) THEN torn \cup {fetch[i].host} ELSE torn

\* Mutant of ReadObject: it reads under the latest prefix.
ReadLatestObject(h, rev, f) == store[h][0][f]

\* FetchCertificateBundle reads an object under the revision's prefix; for
\* the metadata it falls back to the latest prefix.
ReadObject(h, rev, f) ==
  IF f = "meta" /\ store[h][rev][f] = 0 THEN store[h][0][f] ELSE store[h][rev][f]

\* The file after f, in the order of both sides.
FileAfter == [crt |-> "key", key |-> "meta", meta |-> "crt"]

\* The master reads the next object; without it the fetch fails.
FetchRead(i, f) ==
  /\ fetch[i].pc = "read" /\ fetch[i].file = f
  /\ LET c == ReadObject(fetch[i].host, fetch[i].rev, f)
     IN  IF c # 0
         THEN /\ fetch' = [fetch EXCEPT ![i].pc = IF f = "meta" THEN "write" ELSE @,
                                       ![i].file = FileAfter[f], ![i].got[f] = c]
              /\ UNCHANGED torn
         ELSE EndFetch(i)
  /\ UNCHANGED <<master, cached, files>>

\* writeCertificateBundle writes the next file.
FetchWrite(i, f) ==
  /\ fetch[i].pc = "write" /\ fetch[i].file = f
  /\ files' = [files EXCEPT ![fetch[i].host][f] = fetch[i].got[f]]
  /\ fetch' = [fetch EXCEPT ![i] = IF f = "meta" THEN IdleFetch
                                   ELSE [@ EXCEPT !.file = FileAfter[f]]]
  /\ UNCHANGED <<master, cached, torn>>

\* The RPC or the write of a file fails: the error is logged, nothing retries.
FetchFails(i) ==
  /\ fetch[i].pc # "idle"
  /\ Fault("fetch")
  /\ EndFetch(i)
  /\ UNCHANGED <<domain, certs, store, queue, job, tokens, txt, told, dirty, minted,
                 changes, cached, files>>

\* The slave dies and is restarted: files and cache are on disk.
SlaveCrash ==
  /\ Fault("slave")
  /\ fetch' = [i \in Fetchers |-> IdleFetch]
  /\ torn' = torn \cup {fetch[i].host : i \in {j \in Fetchers : Halfway(j)}}
  /\ UNCHANGED <<domain, certs, store, queue, job, tokens, txt, told, dirty, minted,
                 changes, cached, files>>

Fetching(i) == \E f \in Files : FetchRead(i, f) \/ FetchWrite(i, f)

Next ==
  \/ MasterNext /\ UNCHANGED slave
  \/ \E h \in Hosts : DealDomainEntries(h)
  \/ \E i \in Fetchers : Fetching(i) \/ FetchFails(i)
  \/ SlaveCrash

(***************************************************************************)
(* The slave's stream delivers what was published (the guarantee of        *)
(* Replication while no notice is lost), and goroutines run.               *)
(***************************************************************************)
Fairness ==
  /\ WF_vars(Issuing /\ UNCHANGED slave)
  /\ \A h \in Hosts : WF_vars(PublishChange(h) /\ UNCHANGED slave)
                      /\ WF_vars(DealDomainEntries(h))
  /\ \A i \in Fetchers : WF_vars(Fetching(i))

DeliverySpec == DeliveryInit /\ [][Next]_vars /\ Fairness

-----------------------------------------------------------------------------
(***************************************************************************)
(* Properties.                                                             *)
(***************************************************************************)

\* When no fetch of a host is running, its tls.crt and tls.key belong to one
\* certificate, whatever the master was writing to the bundle store during
\* the fetch: only two fetches that overlapped, or one that stopped between
\* its writes, leave a pair that does not match, or a revision number that
\* was given twice after a failed read (FetchCertificateBundle,
\* writeCertificateBundle).
PairMatchesUnlessTorn ==
  \A h \in Hosts : FetchesOf(h) = {} /\ h \notin torn /\ "read" \notin faults =>
                     files[h]["crt"] = files[h]["key"]

\* A host that stays live and keeps a certificate gets its files on the
\* slave, although the row of a revision is published before its bundle is
\* stored: the domain is published again once the bundle is complete, so that
\* a fetch that came too early is followed by another one.  (An object that
\* is not stored, a publication or fetch that fails and a crash of either
\* side are not made up for: nothing asks for the bundle again.)
FirstCertificateArrives ==
  \A h \in Hosts :
    <>[](/\ domain[h].live /\ LatestRev(h) # 0
         /\ faults \cap {"read", "store", "publish", "crash", "fetch", "slave"} = {})
    => <>[](\A f \in Files : files[h][f] # 0)
=============================================================================
