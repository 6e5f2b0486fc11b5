----------------------------- MODULE CertResolver -----------------------------
(***************************************************************************)
(* The certificates of the ingress (src/ingress/tls_cert_resolver.go and   *)
(* tls_cert_file_provider_nonwindows.go).  Load answers from an LRU cache  *)
(* and, when it has nothing, from the files the slave writes               *)
(* (src/engine/slave/store_certfiles.go), a goroutine for each fetch.  A   *)
(* watcher goroutine reads inotify events and drops what changed from the  *)
(* cache.  Loads, watcher and writers run concurrently and have no lock in *)
(* common but the cache's.                                                 *)
(*                                                                         *)
(* A hostname is the sequence of its labels.  A certificate name is a      *)
(* hostname whose first label may be "*"; those have their directories in  *)
(* a directory .wildcard of their own, the others in the root.             *)
(***************************************************************************)
EXTENDS Integers, Sequences, FiniteSetsExt, Functions

CONSTANTS Hosts,      \* hostnames that clients ask for
          Names,      \* certificate names that are written
          Loaders,    \* handshakes in progress
          Writers,    \* goroutines that write bundles
          Capacity,   \* of the cache
          MaxChanges  \* bound on certificates written and removed

(* A host has a label, and so has a certificate name.                      *)
ASSUME ResolverAssumption ==
    /\ Hosts \subseteq Seq(STRING) \ {<<>>}
    /\ Names \subseteq Seq(STRING) \ {<<>>}
    /\ MaxChanges \in Nat

VARIABLES dirs, crt, key,  \* files: directory (0: none, else its inode), contents
          wildDir,         \* whether .wildcard exists
          watches,         \* name -> inode the watcher holds for its path, 0: none
          wildWatched,
          events,          \* inotify events not yet read
          batch, wpc,      \* names read from them, and where the watcher is
          lru, cert,       \* cached names, last used first, and their pairs
          load,            \* the calls of Load
          writer,          \* what each goroutine of the slave is writing
          changes,
          raced, blind     \* see Excused

files == <<dirs, crt, key, wildDir>>
watching == <<watches, wildWatched, batch, wpc>>
cache == <<lru, cert, raced>>
vars == <<files, watching, events, cache, load, writer, changes, blind>>

NoFile == 0
Unreadable == 0 - 1  \* truncated, or the writes of two mixed
NoCert == 0
NoName == <<>>
Versions == 1 .. MaxChanges + 1

IsWildcard(name) == name[1] = "*"

certificateCandidates(h) ==
    <<h>> \o [i \in 1 .. Len(h) - 2 |-> <<"*">> \o SubSeq(h, i + 1, Len(h))]

-----------------------------------------------------------------------------
(* The cache: certLRU.                                                     *)

(* Get and Delete look in the map of the entries.                          *)
Cached(name) == name \in Names /\ cert[name] # NoCert

Without(name) == SelectSeq(lru, LAMBDA x : x # name)

Touched(name) == <<name>> \o Without(name)

(* Mutant: the oldest entry goes when the capacity was exceeded before.    *)
KeptLate(list) == IF Len(list) > Capacity + 1 THEN SubSeq(list, 1, Len(list) - 1) ELSE list

Kept(list) == IF Len(list) > Capacity THEN SubSeq(list, 1, Len(list) - 1) ELSE list

Add(name, pair, late) ==
    /\ lru' = Kept(Touched(name))
    /\ cert' = [n \in Names |-> IF n \notin Range(lru') THEN NoCert
                               ELSE IF n = name THEN pair ELSE cert[n]]
    /\ raced' = [n \in Names |-> IF n = name THEN late ELSE raced[n]]

Delete(names) ==
    /\ lru' = SelectSeq(lru, LAMBDA x : x \notin names)
    /\ cert' = [n \in Names |-> IF n \in names THEN NoCert ELSE cert[n]]
    /\ raced' = [n \in Names |-> raced[n] /\ n \notin names]

-----------------------------------------------------------------------------
(* The kernel: what a change in the directory of a name tells the watcher. *)

Event(name, inode) == [name |-> name, inode |-> inode]
InParent == 0

FileEvent(name) ==
    IF watches[name] = dirs[name] THEN {Event(name, dirs[name])} ELSE {}

(* An entry of the root or of .wildcard appears or goes.                   *)
ParentEvent(name) ==
    IF ~IsWildcard(name) \/ wildWatched THEN {Event(name, InParent)}
    ELSE IF ~wildDir THEN {Event(NoName, InParent)}
    ELSE {}

-----------------------------------------------------------------------------
(* The slave: writeCertificateBundle and removeCertificateFiles, a system  *)
(* call at a time.  Bundles are written concurrently, those of one name    *)
(* too.  A removal has no caller in the slave: it is let run by itself.    *)

Step(op, arg) == [op |-> op, arg |-> arg]

Bundle(v) == <<Step("mkdir", v), Step("crt", Unreadable), Step("crt", v),
               Step("key", Unreadable), Step("key", v), Step("metadata", v)>>

Removal == <<Step("crt", NoFile), Step("key", NoFile), Step("rmdir", 0)>>

Idle == [name |-> NoName, todo |-> <<>>]

Begin(w, name, todo) ==
    /\ writer[w] = Idle
    /\ changes <= MaxChanges
    /\ changes' = changes + 1
    /\ writer' = [writer EXCEPT ![w] = [name |-> name, todo |-> todo]]
    /\ UNCHANGED <<files, watching, events, cache, load, blind>>

IsRemoval(call) == call # Idle /\ call.todo[Len(call.todo)].op = "rmdir"

writeCertificateBundle(w, name) ==
    /\ \A x \in Writers : ~IsRemoval(writer[x])
    /\ Begin(w, name, Bundle(changes + 1))

removeCertificateFiles(w, name) ==
    /\ dirs[name] # 0
    /\ \A x \in Writers : writer[x] = Idle
    /\ Begin(w, name, Removal)

MkdirAll(name, inode) ==
    IF dirs[name] # 0 THEN UNCHANGED <<files, events, blind>>
    ELSE /\ dirs' = [dirs EXCEPT ![name] = inode]
         /\ wildDir' = (wildDir \/ IsWildcard(name))
         /\ events' = events \cup ParentEvent(name)
         /\ blind' = [blind EXCEPT ![name] =
                        ParentEvent(name) # {Event(name, InParent)}]
         /\ UNCHANGED <<crt, key>>

Rmdir(name) ==
    /\ dirs' = [dirs EXCEPT ![name] = 0]
    /\ events' = events \cup ParentEvent(name) \cup FileEvent(name)
    /\ UNCHANGED <<crt, key, wildDir, blind>>

(* What a file holds after a write: if another goroutine wrote it since    *)
(* the truncation, its longer contents may show behind the new ones.       *)
Written(old, new) ==
    IF new \in Versions /\ old # Unreadable THEN {new, Unreadable} ELSE {new}

(* The event of a truncation is that of the file's creation, if any.       *)
PutFile(name, step) ==
    /\ IF step.op = "crt"
       THEN \E c \in Written(crt[name], step.arg) : crt' = [crt EXCEPT ![name] = c]
       ELSE crt' = crt
    /\ IF step.op = "key"
       THEN \E c \in Written(key[name], step.arg) : key' = [key EXCEPT ![name] = c]
       ELSE key' = key
    /\ events' = events \cup
           (IF step.arg = Unreadable /\ NoFile # (IF step.op = "crt" THEN crt[name]
                                                                    ELSE key[name])
            THEN {} ELSE FileEvent(name))
    /\ UNCHANGED <<dirs, wildDir, blind>>

WriterStep(w) ==
    /\ writer[w] # Idle
    /\ LET name == writer[w].name
           step == Head(writer[w].todo)
       IN  CASE step.op = "mkdir" -> MkdirAll(name, step.arg)
             [] step.op = "rmdir" -> Rmdir(name)
             [] OTHER -> PutFile(name, step)
    /\ writer' = [writer EXCEPT ![w] = IF Len(writer[w].todo) = 1 THEN Idle
                  ELSE [name |-> writer[w].name, todo |-> Tail(writer[w].todo)]]
    /\ load' = [l \in Loaders |-> [load[l] EXCEPT !.calm = FALSE]]
    /\ UNCHANGED <<watching, cache, changes>>

(* A system call fails: what was written so far stays, and a file that was *)
(* opened is closed.                                                       *)
WriterFails(w) ==
    /\ writer[w] # Idle
    /\ writer' = [writer EXCEPT ![w] = Idle]
    /\ LET step == Head(writer[w].todo)
       IN  events' = IF step.op \in {"crt", "key"} /\ step.arg \in Versions
                     THEN events \cup FileEvent(writer[w].name) ELSE events
    /\ UNCHANGED <<files, watching, cache, load, changes, blind>>

-----------------------------------------------------------------------------
(* The watcher: run, parseChangedPaths, refresh and                        *)
(* invalidateCacheForPaths.  A read takes as many events as fit into the   *)
(* buffer, some of those there are.                                        *)

(* Mutant: a new directory is watched, but its name is not invalidated.    *)
ReadFileEventsOnly ==
    /\ wpc = "read"
    /\ \E read \in (SUBSET events) \ {{}} :
          /\ events' = events \ read
          /\ batch' = {e.name : e \in {x \in read : x.inode # InParent}}
    /\ wpc' = "refresh"
    /\ UNCHANGED <<files, watches, wildWatched, cache, load, writer, changes, blind>>

ReadEvents ==
    /\ wpc = "read"
    /\ \E read \in (SUBSET events) \ {{}} :
         LET known == {e \in read : e.inode = InParent \/ e.inode = watches[e.name]}
         IN  /\ events' = events \ read
             /\ batch' = {e.name : e \in known} \ {NoName}
             /\ wpc' = IF known = {} THEN "read" ELSE "refresh"
    /\ UNCHANGED <<files, watches, wildWatched, cache, load, writer, changes, blind>>

(* A path that has a watch keeps it, whatever directory it is of.          *)
Refreshed(w) ==
    [n \in Names |-> IF dirs[n] = 0 THEN 0 ELSE IF w[n] # 0 THEN w[n] ELSE dirs[n]]

refresh ==
    /\ wpc = "refresh"
    /\ wpc' = "invalidate"
    /\ watches' = Refreshed(watches)
    /\ wildWatched' = wildDir
    /\ UNCHANGED <<files, events, batch, cache, load, writer, changes, blind>>

(* The calls of Load that have read the files of a name it drops are late. *)
Overtake(names) ==
    load' = [l \in Loaders |->
        [load[l] EXCEPT !.late = @ \/ (load[l].pc \in {"key", "add"}
                                       /\ load[l].cands[1] \in names)]]

invalidateCacheForPaths ==
    /\ wpc = "invalidate"
    /\ wpc' = "read"
    /\ batch' = {}
    /\ Delete(batch)
    /\ Overtake(batch)
    /\ blind' = [n \in Names |-> blind[n] /\ n \notin batch]
    /\ UNCHANGED <<files, events, watches, wildWatched, writer, changes>>

-----------------------------------------------------------------------------
(* Load: candidate by candidate, the cache, whether both files exist, the  *)
(* two files, and the cache again.                                         *)

AtRest == events = {} /\ wpc = "read" /\ \A w \in Writers : writer[w] = Idle

(* What the watcher cannot repair.  The entry was added by a Load that had *)
(* read the files before the change and was overtaken by the invalidation; *)
(* the directory was removed and made again before the watcher looked, and *)
(* its path kept the old watch; or the directory appeared together with    *)
(* .wildcard, of which no event names it.                                  *)
Excused(n) == raced[n] \/ watches[n] # dirs[n] \/ blind[n]

(* calm: no file changed since the call, and nothing it met is excused.    *)
Ready == [pc |-> "idle", host |-> NoName, cands |-> <<>>, crt |-> NoFile,
          pair |-> NoCert, late |-> FALSE, calm |-> FALSE]

Others == <<files, watching, events, writer, changes, blind>>

Return(l, pair, calm) ==
    load' = [load EXCEPT ![l] = [load[l] EXCEPT
                  !.calm = load[l].calm /\ calm, !.pc = "done", !.cands = <<>>,
                  !.crt = NoFile, !.pair = pair, !.late = FALSE]]

BeginLoad(l, h) ==
    /\ load[l].pc = "idle"
    /\ load' = [load EXCEPT ![l] = [Ready EXCEPT !.host = h,
                  !.pc = "get", !.cands = certificateCandidates(h),
                  !.calm = AtRest /\ \A n \in Names : ~Excused(n)]]
    /\ UNCHANGED <<Others, cache>>

(* The handshake ends.                                                     *)
EndLoad(l) ==
    /\ load[l].pc = "done"
    /\ load' = [load EXCEPT ![l] = Ready]
    /\ UNCHANGED <<Others, cache>>

NotFound(l) ==
    /\ load[l].pc = "get" /\ load[l].cands = <<>>
    /\ Return(l, NoCert, TRUE)
    /\ UNCHANGED <<Others, cache>>

(* Mutant: another candidate's entry will do before the files are read.    *)
HitAnyFirst(l) ==
    /\ load[l].pc = "get" /\ load[l].cands # <<>>
    /\ \E n \in Range(load[l].cands) :
          /\ Cached(n)
          /\ lru' = Touched(n)
          /\ Return(l, cert[n], ~raced[n])
    /\ UNCHANGED <<Others, cert, raced>>

Hit(l) ==
    /\ load[l].pc = "get" /\ load[l].cands # <<>>
    /\ LET n == load[l].cands[1]
       IN  /\ Cached(n)
           /\ lru' = Touched(n)
           /\ Return(l, cert[n], ~raced[n])
    /\ UNCHANGED <<Others, cert, raced>>

Miss(l) ==
    /\ load[l].pc = "get" /\ load[l].cands # <<>>
    /\ ~Cached(load[l].cands[1])
    /\ load' = [load EXCEPT ![l].pc = "stat"]
    /\ UNCHANGED <<Others, cache>>

(* Both files of a name exist.                                             *)
fileExists(n) == n \in Names /\ NoFile \notin {crt[n], key[n]}

Stat(l) ==
    /\ load[l].pc = "stat"
    /\ LET n == load[l].cands[1]
       IN  load' = [load EXCEPT ![l] =
             IF fileExists(n)
             THEN [load[l] EXCEPT !.pc = "crt"]
             ELSE [load[l] EXCEPT !.pc = "get", !.cands = Tail(load[l].cands)]]
    /\ UNCHANGED <<Others, cache>>

(* LoadX509KeyPair reads one file, then the other; a pair that does not    *)
(* match, or a file that is empty or gone, is an error.                    *)
ReadCrt(l) ==
    /\ load[l].pc = "crt"
    /\ LET n == load[l].cands[1]
       IN  IF crt[n] \in Versions
           THEN load' = [load EXCEPT ![l].pc = "key", ![l].crt = crt[n]]
           ELSE Return(l, NoCert, TRUE)
    /\ UNCHANGED <<Others, cache>>

ReadKey(l) ==
    /\ load[l].pc = "key"
    /\ IF key[load[l].cands[1]] = load[l].crt
       THEN load' = [load EXCEPT ![l].pc = "add"]
       ELSE Return(l, NoCert, TRUE)
    /\ UNCHANGED <<Others, cache>>

AddLoaded(l) ==
    /\ load[l].pc = "add"
    /\ Add(load[l].cands[1], load[l].crt, load[l].late)
    /\ Return(l, load[l].crt, TRUE)
    /\ UNCHANGED Others

(* RefreshCertificateHost and RefreshAll of the engine: DeleteCandidates   *)
(* and Clear.                                                              *)
Forget(names) ==
    /\ lru # <<>>
    /\ Delete(names)
    /\ Overtake(names)
    /\ UNCHANGED Others

-----------------------------------------------------------------------------

(* The process starts with the certificates an earlier one has left.       *)
Init ==
    /\ \E old \in SUBSET Names :
          /\ dirs = [n \in Names |-> IF n \in old THEN 1 ELSE 0]
          /\ crt = [n \in Names |-> IF n \in old THEN 1 ELSE NoFile]
    /\ key = crt
    /\ wildDir \in BOOLEAN
    /\ \A n \in Names : IsWildcard(n) /\ dirs[n] # 0 => wildDir
    /\ watches = dirs
    /\ wildWatched = wildDir
    /\ events = {} /\ batch = {} /\ wpc = "read"
    /\ lru = <<>>
    /\ cert = [n \in Names |-> NoCert]
    /\ load = [l \in Loaders |-> Ready]
    /\ writer = [w \in Writers |-> Idle]
    /\ changes = 1
    /\ raced = [n \in Names |-> FALSE]
    /\ blind = [n \in Names |-> FALSE]

Next ==
    \/ \E w \in Writers :
          \/ \E n \in Names : writeCertificateBundle(w, n) \/ removeCertificateFiles(w, n)
          \/ WriterStep(w) \/ WriterFails(w)
    \/ ReadEvents \/ refresh \/ invalidateCacheForPaths
    \/ \E l \in Loaders :
          \/ \E h \in Hosts : BeginLoad(l, h)
          \/ EndLoad(l) \/ NotFound(l) \/ Hit(l) \/ Miss(l) \/ Stat(l)
          \/ ReadCrt(l) \/ ReadKey(l) \/ AddLoaded(l)
    \/ \E h \in Hosts : Forget(Range(certificateCandidates(h)))
    \/ Forget(Names)

Spec == Init /\ [][Next]_vars

-----------------------------------------------------------------------------

(* The type of the state; the list of the cache and its map agree, and it  *)
(* has no more entries than its capacity (certLRU.Add).                    *)
TypeOK ==
    /\ Len(lru) <= Capacity
    /\ Cardinality(Range(lru)) = Len(lru)
    /\ cert \in [Names -> Versions \cup {NoCert}]
    /\ \A n \in Names : cert[n] # NoCert <=> n \in Range(lru)
    /\ wpc \in {"read", "refresh", "invalidate"}
    /\ \A l \in Loaders :
          load[l].pc \in {"idle", "get", "stat", "crt", "key", "add", "done"}

OnDisk(n) == IF crt[n] = key[n] /\ crt[n] \in Versions THEN crt[n] ELSE NoCert

(* Once all events are handled, the cache holds what is on disk, however   *)
(* the writes of a bundle, the watcher's steps and the loads interleave,   *)
(* and whichever write failed (invalidateCacheForPaths: later loads read   *)
(* the disk again).                                                        *)
CacheFollowsDisk ==
    AtRest => \A n \in Names :
        cert[n] \in {NoCert, OnDisk(n)} \/ Excused(n)

(* The first candidate with both files decides, also when the pair is bad. *)
Expected(h) ==
    LET cands == certificateCandidates(h)
        found == {i \in DOMAIN cands : fileExists(cands[i])}
    IN  IF found = {} THEN NoCert ELSE OnDisk(cands[Min(found)])

(* A Load during which no file changes, begun when all events were         *)
(* handled, returns the certificate of the exact name if it is on disk,    *)
(* else that of the nearest wildcard, whatever is cached and evicted       *)
(* meanwhile.                                                              *)
ExactBeforeWildcard ==
    \A l \in Loaders :
        load[l].pc = "done" /\ load[l].calm => load[l].pair = Expected(load[l].host)
=============================================================================
