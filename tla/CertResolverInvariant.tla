------------------------ MODULE CertResolverInvariant ------------------------
(***************************************************************************)
(* The inductive invariant behind the properties of CertResolver: what is  *)
(* still to come when a cached certificate is not the one on disk.         *)
(*                                                                         *)
(* An event counts for its name only as long as the watcher knows the      *)
(* directory it came from, a truncated file announces itself only when it  *)
(* is closed, and a path whose directory comes and goes changes its watch  *)
(* at the next refresh, which may come before or after its own events.     *)
(***************************************************************************)
EXTENDS CertResolver

Steps == [op : {"mkdir", "crt", "key", "metadata", "rmdir"}, arg : Int]

Calls == [name : Names \cup {NoName}, todo : Seq(Steps)]

Labels == STRING \cup {"*"}

LoadStates ==
    [pc : {"idle", "get", "stat", "crt", "key", "add", "done"},
     host : Hosts \cup {NoName}, cands : Seq(Seq(Labels)), crt : Int, pair : Int,
     late : BOOLEAN, calm : BOOLEAN]

(* What the variables are, the order of the cache excepted.                *)
ResolverType ==
    /\ dirs \in [Names -> Nat] /\ watches \in [Names -> Nat]
    /\ crt \in [Names -> Int] /\ key \in [Names -> Int] /\ cert \in [Names -> Int]
    /\ wildDir \in BOOLEAN /\ wildWatched \in BOOLEAN
    /\ events \subseteq [name : Names \cup {NoName}, inode : Nat]
    /\ \A e \in events : e.name = NoName => e.inode = InParent
    /\ batch \subseteq Names /\ wpc \in {"read", "refresh", "invalidate"}
    /\ raced \in [Names -> BOOLEAN] /\ blind \in [Names -> BOOLEAN]
    /\ load \in [Loaders -> LoadStates]
    /\ writer \in [Writers -> Calls]
    /\ changes \in Nat

(* rest is all without its first k elements.                               *)
Dropped(rest, all, k) ==
    /\ k \in 0 .. Len(all)
    /\ Len(rest) = Len(all) - k
    /\ \A i \in 1 .. Len(rest) : rest[i] = all[k + i]

(* A writer is in the middle of a bundle or of a removal; once the first   *)
(* step of a bundle is done, the directory is there.                       *)
WriterOK(call) ==
    call # Idle =>
      /\ call.name \in Names /\ call.todo # <<>>
      /\ \E all \in {Removal} \cup {Bundle(v) : v \in Versions} :
           \E k \in 0 .. Len(all) : Dropped(call.todo, all, k)
      /\ Head(call.todo).op # "mkdir" => dirs[call.name] # 0

(* A removal is alone.                                                     *)
WriterInv ==
    /\ \A w \in Writers : WriterOK(writer[w])
    /\ \A w, x \in Writers : IsRemoval(writer[w]) => x = w \/ writer[x] = Idle

(* The directory in which that of n appears is watched.                    *)
ParentWatched(n) == ~IsWildcard(n) \/ wildWatched

Told(n) == Event(n, InParent) \in events

(* The watch of a path, and what the watcher will hear of a path whose     *)
(* watch is out of date.                                                   *)
WatchOK(n) ==
    /\ dirs[n] # 0 /\ IsWildcard(n) => wildDir
    /\ watches[n] # 0 => ParentWatched(n)
    /\ watches[n] = 0 /\ dirs[n] # 0 =>
         \/ Told(n)
         \/ wpc = "refresh" /\ n \in batch
         \/ blind[n] /\ ~(wpc = "invalidate" /\ n \in batch)
    /\ watches[n] # 0 /\ dirs[n] = 0 =>
         Told(n) \/ (wpc = "refresh" /\ n \in batch)

(* Only what is watched has events.                                        *)
WatchInv ==
    /\ wildWatched => wildDir
    /\ wpc = "read" => batch = {}
    /\ \A e \in events : e.name \in Names => ParentWatched(e.name)
    /\ \A n \in batch : ParentWatched(n)
    /\ \A n \in Names : WatchOK(n)

(* The next step of a writer, or its failure, closes a file of n.          *)
Closes(call, n) ==
    /\ call # Idle /\ call.name = n
    /\ Head(call.todo).op \in {"crt", "key"} /\ Head(call.todo).arg \in Versions

HalfWritten(n) == \E w \in Writers : Closes(writer[w], n)

(* An invalidation of n is on its way, or n is among those for which the   *)
(* watcher cannot know.                                                    *)
Awaited(n) ==
    \/ n \in batch \/ Told(n) \/ Event(n, watches[n]) \in events
    \/ HalfWritten(n)
    \/ watches[n] # dirs[n] \/ blind[n]

(* What a Load has read is on disk, or else is awaited to go.              *)
LoadOK(r) ==
    /\ r.pc \in {"stat", "crt", "key", "add"} => r.cands # <<>>
    /\ r.pc \in {"crt", "key", "add"} => r.cands[1] \in Names
    /\ r.pc \in {"key", "add"} => r.crt \in Versions
    /\ r.pc = "key" => crt[r.cands[1]] = r.crt \/ r.late \/ Awaited(r.cands[1])
    /\ r.pc = "add" => OnDisk(r.cands[1]) = r.crt \/ r.late \/ Awaited(r.cands[1])

(* So is a cached certificate.                                             *)
CacheInv ==
    /\ \A n \in Names : cert[n] \in {NoCert, OnDisk(n)} \/ raced[n] \/ Awaited(n)
    /\ \A l \in Loaders : LoadOK(load[l])

(* Nothing is on its way to the cache.                                     *)
Quiet ==
    /\ events = {} /\ wpc = "read"
    /\ \A n \in Names : ~HalfWritten(n) /\ watches[n] = dirs[n] /\ ~blind[n]

(* The candidates left are the last ones of the host's, and the ones       *)
(* before them have no files.                                              *)
Searched(host, cands) ==
    LET all == certificateCandidates(host)
    IN  \E k \in 0 .. Len(all) :
          Dropped(cands, all, k) /\ \A i \in 1 .. k : ~fileExists(all[i])

(* A Load that nothing has disturbed is on its way to what is expected.    *)
CalmOK(r) ==
    r.calm =>
      /\ r.pc # "idle" /\ r.host \in Hosts
      /\ r.pc # "done" => Quiet /\ Searched(r.host, r.cands)
      /\ r.pc \in {"crt", "key", "add"} => fileExists(r.cands[1])
      /\ r.pc = "key" => r.crt = crt[r.cands[1]]
      /\ r.pc = "add" => r.crt = OnDisk(r.cands[1])
      /\ r.pc = "done" => r.pair = Expected(r.host)

CalmInv == \A l \in Loaders : CalmOK(load[l])

(* The inductive invariant.                                                *)
ResolverInv == ResolverType /\ WriterInv /\ WatchInv /\ CacheInv /\ CalmInv
=============================================================================
