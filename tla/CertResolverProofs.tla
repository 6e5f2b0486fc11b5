------------------------- MODULE CertResolverProofs -------------------------
(***************************************************************************)
(* Proofs that the cached certificates follow the disk, and that a Load    *)
(* nothing disturbs finds the right one, for any hosts, names, number of   *)
(* concurrent Loads and capacity of the cache.                             *)
(***************************************************************************)
EXTENDS CertResolverInvariant, TLAPS

-----------------------------------------------------------------------------

(***************************************************************************)
(* Names, versions and what the writer does in order.                      *)
(***************************************************************************)

(* No name is empty.                                                       *)
LEMMA NamesHaveLabels == NoName \notin Names /\ NoName \notin Hosts
BY ResolverAssumption DEF NoName

(* A version is a number that is neither of the marks of a file without    *)
(* content, and a write gets one.                                          *)
LEMMA VersionFacts ==
    /\ Versions \subseteq Int /\ NoFile \notin Versions /\ Unreadable \notin Versions
    /\ NoCert \notin Versions /\ NoFile # Unreadable
    /\ \A c \in Nat : c <= MaxChanges => c + 1 \in Versions
    /\ 1 \in Versions
BY ResolverAssumption DEF Versions, NoFile, NoCert, Unreadable

(* A sequence that is not of length 0 has a head.                          *)
LEMMA HeadOf ==
    ASSUME NEW S, NEW s \in Seq(S), Len(s) # 0
    PROVE  s # <<>> /\ Head(s) = s[1] /\ s[1] \in S /\ 1 \in 1 .. Len(s)
OBVIOUS

(* The elements of a sequence.                                             *)
LEMMA ElementOf ==
    ASSUME NEW S, NEW s \in Seq(S), NEW i \in 1 .. Len(s)
    PROVE  s[i] \in S
OBVIOUS

(* A sequence of one element.                                              *)
LEMMA SingleOf == ASSUME NEW S, NEW x \in S PROVE <<x>> \in Seq(S)
OBVIOUS

(* What follows the head.                                                  *)
LEMMA TailOf ==
    ASSUME NEW S, NEW s \in Seq(S), Len(s) \notin {0, 1}
    PROVE  /\ Tail(s) \in Seq(S) /\ Len(Tail(s)) = Len(s) - 1 /\ Tail(s) # <<>>
           /\ Head(Tail(s)) = s[2]
           /\ \A i \in 1 .. Len(Tail(s)) : Tail(s)[i] = s[i + 1]
<1>1. Tail(s) \in Seq(S) /\ Len(Tail(s)) = Len(s) - 1  OBVIOUS
<1>2. \A i \in 1 .. Len(Tail(s)) : Tail(s)[i] = s[i + 1]  OBVIOUS
<1>3. PICK t \in Seq(S) : t = Tail(s)  BY <1>1
<1>4. Len(t) \in Nat \ {0} /\ \A i \in 1 .. Len(t) : t[i] = s[i + 1]  BY <1>1, <1>2, <1>3
<1>5. t # <<>> /\ Head(t) = t[1]  BY <1>4, HeadOf
<1>6. t[1] = s[1 + 1]  BY <1>4
<1> QED  BY <1>1, <1>2, <1>3, <1>5, <1>6

(* The steps of a bundle.                                                  *)
LEMMA BundleSteps ==
    ASSUME NEW v \in Versions
    PROVE  /\ Bundle(v) \in Seq(Steps) /\ Len(Bundle(v)) = 6
           /\ Bundle(v)[1] = Step("mkdir", v) /\ Bundle(v)[2] = Step("crt", Unreadable)
           /\ Bundle(v)[3] = Step("crt", v) /\ Bundle(v)[4] = Step("key", Unreadable)
           /\ Bundle(v)[5] = Step("key", v) /\ Bundle(v)[6] = Step("metadata", v)
<1>1. v \in Int /\ Unreadable \in Int  BY VersionFacts DEF Unreadable
<1>2. /\ Step("mkdir", v) \in Steps /\ Step("crt", Unreadable) \in Steps
      /\ Step("crt", v) \in Steps /\ Step("key", Unreadable) \in Steps
      /\ Step("key", v) \in Steps /\ Step("metadata", v) \in Steps
  BY <1>1 DEF Step, Steps
<1> QED  BY <1>2 DEF Bundle

(* The steps of a removal.                                                 *)
LEMMA RemovalSteps ==
    /\ Removal \in Seq(Steps) /\ Len(Removal) = 3
    /\ Removal[1] = Step("crt", NoFile) /\ Removal[2] = Step("key", NoFile)
    /\ Removal[3] = Step("rmdir", 0)
<1>1. /\ Step("crt", NoFile) \in Steps /\ Step("key", NoFile) \in Steps
      /\ Step("rmdir", 0) \in Steps
  BY DEF Step, Steps, NoFile
<1> QED  BY <1>1 DEF Removal
Plans == {Removal} \cup {Bundle(v) : v \in Versions}

(* In a call of a writer: only its first step makes the directory, only    *)
(* its last removes it, and a truncated file is written next.              *)
LEMMA PlanSteps ==
    ASSUME NEW all \in Plans, NEW j \in 1 .. Len(all)
    PROVE  /\ all \in Seq(Steps) /\ Len(all) \in Nat \ {0} /\ all[j] \in Steps
           /\ all[j].op = "mkdir" => j = 1 /\ all[j].arg \in Versions
           /\ all[j].op = "rmdir" => j = Len(all)
           /\ all[j].arg = Unreadable =>
                /\ j < Len(all) /\ all[j + 1].op \in {"crt", "key"}
                /\ all[j + 1].arg \in Versions
           /\ ~(all[1].op \in {"crt", "key"} /\ all[1].arg \in Versions)
<1>1. CASE all = Removal
  <2>1. j \in {1, 2, 3} /\ Len(all) = 3  BY <1>1, RemovalSteps
  <2>2. all[j] \in Steps
    <3>1. all \in Seq(Steps)  BY <1>1, RemovalSteps
    <3> QED  BY <3>1, ElementOf
  <2>3. 0 # Unreadable  BY DEF Unreadable
  <2> QED  BY <1>1, <2>1, <2>2, <2>3, RemovalSteps, VersionFacts DEF Step, NoFile
<1>2. ASSUME NEW v \in Versions, all = Bundle(v)
      PROVE  /\ all \in Seq(Steps) /\ Len(all) \in Nat \ {0} /\ all[j] \in Steps
             /\ all[j].op = "mkdir" => j = 1 /\ all[j].arg \in Versions
             /\ all[j].op = "rmdir" => j = Len(all)
             /\ all[j].arg = Unreadable =>
                  /\ j < Len(all) /\ all[j + 1].op \in {"crt", "key"}
                  /\ all[j + 1].arg \in Versions
             /\ ~(all[1].op \in {"crt", "key"} /\ all[1].arg \in Versions)
  <2>1. /\ all \in Seq(Steps) /\ Len(all) = 6
        /\ all[1] = Step("mkdir", v) /\ all[2] = Step("crt", Unreadable)
        /\ all[3] = Step("crt", v) /\ all[4] = Step("key", Unreadable)
        /\ all[5] = Step("key", v) /\ all[6] = Step("metadata", v)
    BY <1>2, BundleSteps
  <2>2. all[j] \in Steps
    <3>1. all \in Seq(Steps)  BY <2>1
    <3> QED  BY <3>1
  <2>4. j \in {1, 2, 3, 4, 5, 6}
    <3>1. j \in 1 .. 6  BY <2>1
    <3> QED  BY <3>1
  <2>3. v # Unreadable  BY VersionFacts
  <2> QED  BY <2>1, <2>2, <2>3, <2>4 DEF Step
<1> QED  BY <1>1, <1>2 DEF Plans

(* What a writer does next, and what it has left after that.               *)
LEMMA WriterLeft ==
    ASSUME ResolverType, WriterInv, NEW w \in Writers, writer[w] # Idle
    PROVE  /\ Head(writer[w].todo) \in Steps
           /\ Head(writer[w].todo).op = "mkdir" => Head(writer[w].todo).arg \in Versions
           /\ Head(writer[w].todo).op = "rmdir" => IsRemoval(writer[w])
           /\ Len(writer[w].todo) = 1 => Head(writer[w].todo).arg # Unreadable
           /\ Len(writer[w].todo) # 1 =>
                /\ Tail(writer[w].todo) \in Seq(Steps) /\ Tail(writer[w].todo) # <<>>
                /\ \E all \in Plans : \E k \in 0 .. Len(all) :
                     Dropped(Tail(writer[w].todo), all, k)
                /\ Head(writer[w].todo).op # "rmdir"
                /\ Tail(writer[w].todo)[Len(Tail(writer[w].todo))]
                     = writer[w].todo[Len(writer[w].todo)]
                /\ Head(Tail(writer[w].todo)).op # "mkdir"
                /\ Head(writer[w].todo).arg = Unreadable =>
                     /\ Head(Tail(writer[w].todo)).op \in {"crt", "key"}
                     /\ Head(Tail(writer[w].todo)).arg \in Versions
<1> DEFINE todo == writer[w].todo
<1>1. todo \in Seq(Steps) /\ todo # <<>>
  BY DEF ResolverType, Calls, WriterInv, WriterOK
<1>2. PICK all \in Plans : \E k \in 0 .. Len(all) : Dropped(todo, all, k)
  BY DEF WriterInv, WriterOK, Plans
<1>3. PICK k \in 0 .. Len(all) : Dropped(todo, all, k)  BY <1>2
<1>4. all \in Seq(Steps) /\ Len(all) \in Nat \ {0}
  <2>1. CASE all = Removal  BY <2>1, RemovalSteps
  <2>2. CASE \E v \in Versions : all = Bundle(v)  BY <2>2, BundleSteps
  <2> QED  BY <2>1, <2>2 DEF Plans
<1>5. Len(todo) \in Nat \ {0} /\ Len(todo) = Len(all) - k  BY <1>1, <1>3 DEF Dropped
<1>6. k + 1 \in 1 .. Len(all) /\ Head(todo) = all[k + 1]
  BY <1>1, <1>3, <1>4, <1>5 DEF Dropped
<1>7. /\ Head(todo) \in Steps /\ (Len(todo) = 1 => Head(todo).arg # Unreadable)
      /\ Head(todo).op = "mkdir" => Head(todo).arg \in Versions
  BY <1>4, <1>5, <1>6, PlanSteps
<1>a. Head(todo).op = "rmdir" => IsRemoval(writer[w])
  <2>1. Head(todo).op = "rmdir" => k + 1 = Len(all)  BY <1>6, PlanSteps
  <2>2. Head(todo).op = "rmdir" => Len(todo) = 1  BY <1>4, <1>5, <2>1
  <2>3. Head(todo) = todo[1]  BY <1>1, <1>5, HeadOf
  <2> QED  BY <2>2, <2>3 DEF IsRemoval
<1>8. ASSUME Len(todo) # 1
      PROVE  /\ Tail(todo) \in Seq(Steps) /\ Tail(todo) # <<>>
             /\ Dropped(Tail(todo), all, k + 1)
             /\ Tail(todo)[Len(Tail(todo))] = todo[Len(todo)]
             /\ Head(todo).op # "rmdir" /\ Head(Tail(todo)).op # "mkdir"
             /\ Head(todo).arg = Unreadable =>
                  /\ Head(Tail(todo)).op \in {"crt", "key"}
                  /\ Head(Tail(todo)).arg \in Versions
  <2>1. Tail(todo) \in Seq(Steps) /\ Len(Tail(todo)) = Len(todo) - 1
    BY <1>1, <1>5, <1>8, TailOf
  <2>2. \A i \in 1 .. Len(Tail(todo)) : Tail(todo)[i] = todo[i + 1]
    BY <1>1, <1>5, <1>8, TailOf
  <2>3. Dropped(Tail(todo), all, k + 1)
    <3>1. k + 1 \in 0 .. Len(all)  BY <1>6
    <3>2. \A i \in 1 .. Len(Tail(todo)) : i + 1 \in 1 .. Len(todo) /\ k + (i + 1) = (k + 1) + i
      BY <1>5, <2>1
    <3>3. \A i \in 1 .. Len(Tail(todo)) : Tail(todo)[i] = all[(k + 1) + i]
      BY <1>3, <2>2, <3>2 DEF Dropped
    <3>4. Len(Tail(todo)) = Len(all) - (k + 1)  BY <1>4, <1>5, <2>1
    <3> QED  BY <3>1, <3>3, <3>4 DEF Dropped
  <2>4. Tail(todo) # <<>> /\ Head(Tail(todo)) = todo[2]
    BY <1>1, <1>5, <1>8, TailOf
  <2>5. k + 2 \in 1 .. Len(all) /\ todo[2] = all[k + 2]
    BY <1>3, <1>4, <1>5, <1>8 DEF Dropped
  <2>6. (k + 1) + 1 = k + 2 /\ k + 2 # 1 /\ k + 1 # Len(all)  BY <1>5, <1>6, <1>8, <2>5
  <2>7. Tail(todo)[Len(Tail(todo))] = todo[Len(todo)]
    <3>1. Len(Tail(todo)) \in 1 .. Len(Tail(todo)) /\ Len(Tail(todo)) + 1 = Len(todo)
      BY <1>5, <1>8, <2>1
    <3> QED  BY <2>2, <3>1
  <2>8. Head(todo).op # "rmdir" /\ Head(Tail(todo)).op # "mkdir"
    <3>1. all[k + 1].op = "rmdir" => k + 1 = Len(all)  BY <1>6, PlanSteps
    <3>2. all[k + 2].op = "mkdir" => k + 2 = 1  BY <2>5, PlanSteps
    <3> QED  BY <1>6, <2>4, <2>5, <2>6, <3>1, <3>2
  <2>9. Head(todo).arg = Unreadable =>
          /\ Head(Tail(todo)).op \in {"crt", "key"} /\ Head(Tail(todo)).arg \in Versions
    <3>1. all[k + 1].arg = Unreadable =>
            all[(k + 1) + 1].op \in {"crt", "key"} /\ all[(k + 1) + 1].arg \in Versions
      BY <1>6, PlanSteps
    <3> QED  BY <1>6, <2>4, <2>5, <2>6, <3>1
  <2> QED  BY <2>1, <2>3, <2>4, <2>7, <2>8, <2>9
<1>9. k + 1 \in 0 .. Len(all)  BY <1>6
<1> QED  BY <1>2, <1>7, <1>8, <1>9, <1>a
-----------------------------------------------------------------------------

(***************************************************************************)
(* Types.                                                                  *)
(***************************************************************************)

(* The candidates of a host are names.                                     *)
LEMMA CandidateNames ==
    ASSUME NEW h \in Hosts
    PROVE  certificateCandidates(h) \in Seq(Seq(Labels))
<1>1. h \in Seq(Labels) /\ Len(h) \in Nat \ {0}
  <2>1. h \in Seq(STRING) /\ Len(h) \in Nat \ {0}  BY ResolverAssumption
  <2> QED  BY <2>1 DEF Labels
<1>2. \A i \in 1 .. Len(h) - 2 : <<"*">> \o SubSeq(h, i + 1, Len(h)) \in Seq(Labels)
  <2>1. TAKE i \in 1 .. Len(h) - 2
  <2>2. SubSeq(h, i + 1, Len(h)) \in Seq(Labels)  BY <1>1
  <2>3. <<"*">> \in Seq(Labels)
    <3>1. "*" \in Labels  BY DEF Labels
    <3> QED  BY <3>1, SingleOf, Zenon
  <2> QED  BY <2>2, <2>3
<1> DEFINE wild == [i \in 1 .. Len(h) - 2 |-> <<"*">> \o SubSeq(h, i + 1, Len(h))]
<1>3. wild \in Seq(Seq(Labels))
  <2>1. PICK n \in Nat : 1 .. Len(h) - 2 = 1 .. n
    <3>1. CASE Len(h) = 1  BY <3>1, 1 .. 0 = 1 .. (1 - 2)
    <3>2. ASSUME Len(h) # 1 PROVE Len(h) - 2 \in Nat
      <4>1. PICK n \in Nat \ {0} : n = Len(h)  BY <1>1
      <4>2. n - 2 \in Nat  BY <3>2, <4>1
      <4> QED  BY <4>1, <4>2
    <3> QED  BY <3>1, <3>2
  <2>2. wild \in [1 .. n -> Seq(Labels)]  BY <1>2, <2>1
  <2> HIDE DEF wild
  <2> QED  BY <2>2
<1> HIDE DEF wild
<1>4. <<h>> \in Seq(Seq(Labels))  BY <1>1
<1>5. <<h>> \o wild \in Seq(Seq(Labels))  BY <1>3, <1>4
<1> QED  BY <1>5 DEF certificateCandidates, wild

(* The steps of a Load.                                                    *)
Loading(l) ==
    \/ \E h \in Hosts : BeginLoad(l, h)
    \/ EndLoad(l) \/ NotFound(l) \/ Hit(l) \/ Miss(l) \/ Stat(l)
    \/ ReadCrt(l) \/ ReadKey(l) \/ AddLoaded(l)

(* A finished Load.                                                        *)
LEMMA ReturnType ==
    ASSUME ResolverType, NEW l \in Loaders, NEW pair \in Int, NEW calm \in BOOLEAN,
           Return(l, pair, calm)
    PROVE  load' \in [Loaders -> LoadStates]
<1>1. load[l] \in LoadStates  BY DEF ResolverType
<1>2. (load[l].calm /\ calm) \in BOOLEAN  OBVIOUS
<1>3. NoFile \in Int /\ <<>> \in Seq(Seq(Labels))  BY DEF NoFile
<1>4. load' = [load EXCEPT ![l] = [load[l] EXCEPT
                  !.calm = load[l].calm /\ calm, !.pc = "done", !.cands = <<>>,
                  !.crt = NoFile, !.pair = pair, !.late = FALSE]]
  BY DEF Return
<1>5. load'[l] \in LoadStates  BY <1>1, <1>2, <1>3, <1>4 DEF ResolverType, LoadStates
<1> QED  BY <1>4, <1>5 DEF ResolverType

(* Every step of a Load keeps the types.                                   *)
LEMMA LoadingType ==
    ASSUME ResolverType, CacheInv, NEW l \in Loaders, Loading(l)
    PROVE  ResolverType'
<1> USE DEF ResolverType
<1>0. load[l] \in LoadStates  OBVIOUS
<1>a. NoFile \in Int /\ NoCert \in Int /\ Ready \in LoadStates
  BY DEF NoFile, NoCert, Ready, LoadStates
<1>b. ASSUME UNCHANGED <<Others, cache>>, load' \in [Loaders -> LoadStates]
      PROVE  ResolverType'
  BY <1>b DEF Others, cache, files, watching
<1>1. ASSUME NEW h \in Hosts, BeginLoad(l, h) PROVE ResolverType'
  <2> DEFINE calm == AtRest /\ \A n \in Names : ~Excused(n)
  <2>1. calm \in BOOLEAN  OBVIOUS
  <2>2. load' = [load EXCEPT ![l] = [Ready EXCEPT !.host = h, !.pc = "get",
                   !.cands = certificateCandidates(h), !.calm = calm]]
    BY <1>1 DEF BeginLoad
  <2> HIDE DEF calm
  <2>3. load' \in [Loaders -> LoadStates]
    BY <1>a, <2>1, <2>2, CandidateNames DEF LoadStates
  <2> QED  BY <1>1, <1>b, <2>3 DEF BeginLoad
<1>2. CASE EndLoad(l)  BY <1>2, <1>a, <1>b DEF EndLoad
<1>3. CASE NotFound(l)  BY <1>3, <1>a, <1>b, ReturnType DEF NotFound
<1>4. CASE Hit(l)
  <2>1. PICK n : Cached(n) /\ Return(l, cert[n], ~raced[n])  BY <1>4 DEF Hit
  <2>2. cert[n] \in Int /\ (~raced[n]) \in BOOLEAN  BY <2>1 DEF Cached
  <2>3. load' \in [Loaders -> LoadStates]  BY <2>1, <2>2, ReturnType
  <2> QED  BY <1>4, <2>3 DEF Hit, Others, files, watching
<1>5. CASE Miss(l)
  <2>1. load' \in [Loaders -> LoadStates]  BY <1>5, <1>0 DEF Miss, LoadStates
  <2> QED  BY <1>5, <1>b, <2>1 DEF Miss
<1>6. CASE Stat(l)
  <2>1. load[l].cands # <<>>  BY <1>6 DEF Stat, CacheInv, LoadOK
  <2>2. Tail(load[l].cands) \in Seq(Seq(Labels))  BY <1>0, <2>1 DEF LoadStates
  <2>3. [load[l] EXCEPT !.pc = "crt"] \in LoadStates  BY <1>0 DEF LoadStates
  <2>4. [load[l] EXCEPT !.pc = "get", !.cands = Tail(load[l].cands)] \in LoadStates
    BY <1>0, <2>2 DEF LoadStates
  <2>5. load' \in [Loaders -> LoadStates]  BY <1>6, <2>3, <2>4 DEF Stat
  <2> QED  BY <1>6, <1>b, <2>5 DEF Stat
<1>7. CASE ReadCrt(l)
  <2>1. CASE crt[load[l].cands[1]] \in Versions
    <3>1. load' = [load EXCEPT ![l] = [load[l] EXCEPT !.pc = "key",
                                          !.crt = crt[load[l].cands[1]]]]
      BY <1>7, <2>1 DEF ReadCrt
    <3>2. load'[l] \in LoadStates  BY <1>0, <2>1, <3>1, VersionFacts DEF LoadStates
    <3> QED  BY <1>7, <1>b, <3>1, <3>2 DEF ReadCrt
  <2>2. CASE crt[load[l].cands[1]] \notin Versions
    BY <1>7, <1>a, <1>b, <2>2, ReturnType DEF ReadCrt
  <2> QED  BY <2>1, <2>2
<1>8. CASE ReadKey(l)
  <2>1. CASE key[load[l].cands[1]] = load[l].crt
    <3>1. [load[l] EXCEPT !.pc = "add"] \in LoadStates  BY <1>0 DEF LoadStates
    <3>2. load' = [load EXCEPT ![l] = [load[l] EXCEPT !.pc = "add"]]
      BY <1>8, <2>1 DEF ReadKey
    <3>3. load' \in [Loaders -> LoadStates]  BY <3>1, <3>2
    <3> QED  BY <1>8, <1>b, <3>3 DEF ReadKey
  <2>2. CASE key[load[l].cands[1]] # load[l].crt
    BY <1>8, <1>a, <1>b, <2>2, ReturnType DEF ReadKey
  <2> QED  BY <2>1, <2>2
<1>9. CASE AddLoaded(l)
  <2>1. load[l].crt \in Int /\ load[l].late \in BOOLEAN  BY <1>0 DEF LoadStates
  <2>2. load' \in [Loaders -> LoadStates]  BY <1>9, <2>1, ReturnType DEF AddLoaded
  <2>3. cert' \in [Names -> Int] /\ raced' \in [Names -> BOOLEAN]
    BY <1>9, <1>a, <2>1 DEF AddLoaded, Add
  <2> QED  BY <1>9, <2>2, <2>3 DEF AddLoaded, Others, files, watching
<1> QED  BY <1>1, <1>2, <1>3, <1>4, <1>5, <1>6, <1>7, <1>8, <1>9 DEF Loading

(* A new call of a writer.                                                 *)
LEMMA BeginCall ==
    ASSUME ResolverType, NEW w \in Writers, NEW n \in Names,
           writeCertificateBundle(w, n) \/ removeCertificateFiles(w, n)
    PROVE  /\ UNCHANGED <<files, watching, events, cache, load, blind>>
           /\ writer[w] = Idle /\ changes' \in Nat
           /\ \E all \in Plans :
                /\ writer' = [writer EXCEPT ![w] = [name |-> n, todo |-> all]]
                /\ Head(all).op # "mkdir" => dirs[n] # 0
                /\ \/ \A x \in Writers : writer[x] = Idle
                   \/ /\ \A x \in Writers : ~IsRemoval(writer[x])
                      /\ all[Len(all)].op # "rmdir"
<1>1. changes \in Nat  BY DEF ResolverType
<1>2. CASE writeCertificateBundle(w, n)
  <2>1. changes + 1 \in Versions
    BY <1>1, <1>2, VersionFacts DEF writeCertificateBundle, Begin
  <2>2. PICK v \in Versions : v = changes + 1  BY <2>1
  <2>3. /\ Begin(w, n, Bundle(v)) /\ \A x \in Writers : ~IsRemoval(writer[x])
    BY <1>2, <2>2 DEF writeCertificateBundle
  <2>4. /\ Bundle(v) \in Seq(Steps) /\ Len(Bundle(v)) # 0 /\ Bundle(v)[1].op = "mkdir"
        /\ Bundle(v)[Len(Bundle(v))].op # "rmdir"
    <3>1. Bundle(v) \in Seq(Steps) /\ Len(Bundle(v)) = 6  BY BundleSteps
    <3>2. Bundle(v)[1] = Step("mkdir", v) /\ Bundle(v)[6] = Step("metadata", v)
      BY BundleSteps
    <3> QED  BY <3>1, <3>2 DEF Step
  <2>5. Head(Bundle(v)).op = "mkdir"  BY <2>4, HeadOf
  <2>6. Bundle(v) \in Plans  BY DEF Plans
  <2>7. /\ UNCHANGED <<files, watching, events, cache, load, blind>> /\ writer[w] = Idle
        /\ writer' = [writer EXCEPT ![w] = [name |-> n, todo |-> Bundle(v)]]
    BY <2>3 DEF Begin
  <2>8. changes' \in Nat  BY <1>1, <2>3 DEF Begin
  <2> QED  BY <2>3, <2>4, <2>5, <2>6, <2>7, <2>8, Zenon
<1>3. CASE removeCertificateFiles(w, n)
  <2>1. Removal \in Plans  BY DEF Plans
  <2>2. /\ Begin(w, n, Removal) /\ dirs[n] # 0 /\ \A x \in Writers : writer[x] = Idle
    BY <1>3 DEF removeCertificateFiles
  <2>3. /\ UNCHANGED <<files, watching, events, cache, load, blind>> /\ writer[w] = Idle
        /\ writer' = [writer EXCEPT ![w] = [name |-> n, todo |-> Removal]]
    BY <2>2 DEF Begin
  <2>4. changes' \in Nat  BY <1>1, <2>2 DEF Begin
  <2> QED  BY <2>1, <2>2, <2>3, <2>4, Zenon
<1> QED  BY <1>2, <1>3

(* What one step of a writer leaves it.                                    *)
LEMMA WriterGoesOn ==
    ASSUME ResolverType, WriterInv, NEW w \in Writers, WriterStep(w)
    PROVE  /\ writer' = [writer EXCEPT ![w] = writer'[w]]
           /\ \/ writer'[w] = Idle /\ Head(writer[w].todo).arg # Unreadable
              \/ /\ Head(writer[w].todo).op # "rmdir"
                 /\ writer'[w].name = writer[w].name /\ writer'[w].todo = Tail(writer[w].todo)
                 /\ writer'[w].todo \in Seq(Steps) /\ writer'[w].todo # <<>>
                 /\ writer'[w] = [name |-> writer'[w].name, todo |-> writer'[w].todo]
                 /\ \E all \in Plans : \E k \in 0 .. Len(all) : Dropped(writer'[w].todo, all, k)
                 /\ Head(writer'[w].todo).op # "mkdir"
                 /\ IsRemoval(writer'[w]) => IsRemoval(writer[w])
                 /\ Head(writer[w].todo).arg = Unreadable =>
                      /\ Head(writer'[w].todo).op \in {"crt", "key"}
                      /\ Head(writer'[w].todo).arg \in Versions
<1>1. writer[w] # Idle  BY DEF WriterStep
<1>2. writer'[w] = IF Len(writer[w].todo) = 1 THEN Idle
                   ELSE [name |-> writer[w].name, todo |-> Tail(writer[w].todo)]
  BY DEF WriterStep, ResolverType
<1>3. writer' = [writer EXCEPT ![w] = writer'[w]]  BY <1>2 DEF WriterStep
<1>4. CASE Len(writer[w].todo) = 1  BY <1>1, <1>2, <1>3, <1>4, WriterLeft
<1>5. CASE Len(writer[w].todo) # 1
  <2>1. writer'[w] = [name |-> writer[w].name, todo |-> Tail(writer[w].todo)]  BY <1>2, <1>5
  <2>2. writer'[w].name = writer[w].name /\ writer'[w].todo = Tail(writer[w].todo)  BY <2>1
  <2>3. IsRemoval(writer'[w]) => IsRemoval(writer[w])
    BY <1>1, <1>5, <2>2, WriterLeft DEF IsRemoval
  <2> QED  BY <1>1, <1>3, <1>5, <2>1, <2>2, <2>3, WriterLeft
<1> QED  BY <1>4, <1>5

(* Events have a name, except that of .wildcard.                           *)
LEMMA EventTypes ==
    ASSUME ResolverType, NEW n \in Names
    PROVE  /\ ParentEvent(n) \cup FileEvent(n) \subseteq [name : Names \cup {NoName}, inode : Nat]
           /\ \A e \in ParentEvent(n) \cup FileEvent(n) : e.name = NoName => e.inode = InParent
<1>1. dirs[n] \in Nat /\ n # NoName /\ InParent \in Nat
  BY NamesHaveLabels DEF ResolverType, InParent
<1> QED  BY <1>1 DEF ParentEvent, FileEvent, Event

(* Every step of a writer keeps the types.                                 *)
LEMMA WriterType ==
    ASSUME ResolverType, WriterInv, NEW w \in Writers, WriterStep(w)
    PROVE  ResolverType'
<1> DEFINE n == writer[w].name  step == Head(writer[w].todo)
<1>1. /\ writer[w] # Idle /\ n \in Names /\ step \in Steps
      /\ step.op = "mkdir" => step.arg \in Versions
  BY WriterLeft DEF WriterStep, WriterInv, WriterOK
<1>2. writer' \in [Writers -> Calls]
  <2>1. Idle \in Calls  BY DEF Idle, Calls
  <2>2. writer'[w] \in Calls
    <3>1. CASE writer'[w] = Idle  BY <2>1, <3>1
    <3>2. CASE writer'[w] # Idle
      <4>1. /\ writer'[w] = [name |-> writer'[w].name, todo |-> writer'[w].todo]
            /\ writer'[w].name = n /\ writer'[w].todo \in Seq(Steps)
        BY <3>2, WriterGoesOn
      <4>2. \A m \in Names, t \in Seq(Steps) : [name |-> m, todo |-> t] \in Calls  BY DEF Calls
      <4> HIDE DEF n
      <4> QED  BY <1>1, <4>1, <4>2, Zenon
    <3> QED  BY <3>1, <3>2
  <2> QED  BY <2>2, WriterGoesOn DEF ResolverType
<1>3. load' \in [Loaders -> LoadStates]
  <2>1. \A l \in Loaders : [load[l] EXCEPT !.calm = FALSE] \in LoadStates
    <3>1. \A l \in Loaders : load[l] \in LoadStates  BY DEF ResolverType
    <3>2. \A r \in LoadStates : [r EXCEPT !.calm = FALSE] \in LoadStates  BY DEF LoadStates
    <3> QED  BY <3>1, <3>2
  <2> QED  BY <2>1 DEF WriterStep
<1>4. UNCHANGED <<watching, cache, changes>>  BY DEF WriterStep
<1>5. /\ dirs' \in [Names -> Nat] /\ crt' \in [Names -> Int] /\ key' \in [Names -> Int]
      /\ wildDir' \in BOOLEAN /\ blind' \in [Names -> BOOLEAN]
      /\ events' \subseteq [name : Names \cup {NoName}, inode : Nat]
      /\ \A e \in events' : e.name = NoName => e.inode = InParent
  <2>0. events' \subseteq events \cup ParentEvent(n) \cup FileEvent(n) =>
          /\ events' \subseteq [name : Names \cup {NoName}, inode : Nat]
          /\ \A e \in events' : e.name = NoName => e.inode = InParent
    BY <1>1, EventTypes DEF ResolverType
  <2> HIDE DEF n, step
  <2>1. CASE step.op = "mkdir" /\ MkdirAll(n, step.arg)
    <3>1. CASE dirs[n] # 0  BY <2>1, <3>1 DEF MkdirAll, ResolverType, files
    <3>2. CASE dirs[n] = 0
      <4>1. events' \subseteq events \cup ParentEvent(n) \cup FileEvent(n)
        BY <2>1, <3>2 DEF MkdirAll
      <4>2. (wildDir \/ IsWildcard(n)) \in BOOLEAN
            /\ (ParentEvent(n) # {Event(n, InParent)}) \in BOOLEAN
        OBVIOUS
      <4>3. dirs' \in [Names -> Nat] /\ crt' = crt /\ key' = key
            /\ wildDir' \in BOOLEAN /\ blind' \in [Names -> BOOLEAN]
        <5>1. step.arg \in Nat /\ dirs \in [Names -> Nat] /\ blind \in [Names -> BOOLEAN]
          BY <1>1, <2>1 DEF ResolverType, Versions
        <5>2. dirs' \in [Names -> Nat] /\ crt' = crt /\ key' = key
          BY <2>1, <3>2, <5>1 DEF MkdirAll
        <5>3. wildDir' \in BOOLEAN  BY <2>1, <3>2, <4>2 DEF MkdirAll
        <5>4. blind' \in [Names -> BOOLEAN]  BY <2>1, <3>2, <4>2, <5>1 DEF MkdirAll
        <5> QED  BY <5>2, <5>3, <5>4
      <4> QED  BY <2>0, <4>1, <4>3 DEF ResolverType
    <3> QED  BY <3>1, <3>2
  <2>2. CASE Rmdir(n)
    <3>1. events' \subseteq events \cup ParentEvent(n) \cup FileEvent(n)
      BY <2>2 DEF Rmdir
    <3> QED  BY <2>0, <2>2, <3>1 DEF Rmdir, ResolverType
  <2>3. CASE PutFile(n, step)
    <3>1. events' \subseteq events \cup ParentEvent(n) \cup FileEvent(n)
      BY <2>3 DEF PutFile
    <3>2. step.arg \in Int  BY <1>1 DEF Steps
    <3>3. crt' \in [Names -> Int] /\ key' \in [Names -> Int]
      <4>1. \A old : Written(old, step.arg) \subseteq Int
        BY <3>2 DEF Written, Unreadable
      <4> QED  BY <2>3, <4>1 DEF PutFile, ResolverType
    <3> QED  BY <2>0, <2>3, <3>1, <3>3 DEF PutFile, ResolverType
  <2> QED  BY <2>1, <2>2, <2>3 DEF WriterStep, n, step
<1> HIDE DEF n, step
<1> QED  BY <1>2, <1>3, <1>4, <1>5 DEF ResolverType, watching, cache

(* So does a call of Forget or an invalidation.                            *)
LEMMA DropType ==
    ASSUME ResolverType, NEW names, Delete(names), Overtake(names)
    PROVE  /\ cert' \in [Names -> Int] /\ raced' \in [Names -> BOOLEAN]
           /\ load' \in [Loaders -> LoadStates]
<1>1. cert' \in [Names -> Int] /\ raced' \in [Names -> BOOLEAN]
  <2>1. NoCert \in Int  BY DEF NoCert
  <2>2. cert' \in [Names -> Int]  BY <2>1 DEF Delete, ResolverType
  <2>3. \A n \in Names : (raced[n] /\ n \notin names) \in BOOLEAN  OBVIOUS
  <2> QED  BY <2>2, <2>3 DEF Delete
<1>2. \A r \in LoadStates : \A b \in BOOLEAN : [r EXCEPT !.late = b] \in LoadStates
  BY DEF LoadStates
<1>3. \A l \in Loaders : load[l] \in LoadStates  BY DEF ResolverType
<1>4. \A l \in Loaders : [load[l] EXCEPT !.late = @ \/ (load[l].pc \in {"key", "add"}
                                       /\ load[l].cands[1] \in names)] \in LoadStates
  BY <1>2, <1>3
<1> QED  BY <1>1, <1>4 DEF Overtake

(* The steps that are not of a Load and not of a writer keep the types.    *)
LEMMA OtherType ==
    ASSUME ResolverType, WriterInv,
           \/ \E w \in Writers, n \in Names :
                writeCertificateBundle(w, n) \/ removeCertificateFiles(w, n)
           \/ \E w \in Writers : WriterFails(w)
           \/ ReadEvents \/ refresh \/ invalidateCacheForPaths
           \/ \E names : Forget(names)
    PROVE  ResolverType'
<1>1. ASSUME NEW w \in Writers, NEW n \in Names,
             writeCertificateBundle(w, n) \/ removeCertificateFiles(w, n)
      PROVE  ResolverType'
  <2>1. \A all \in Plans : [name |-> n, todo |-> all] \in Calls
    <3>1. \A all \in Plans : all \in Seq(Steps)  BY BundleSteps, RemovalSteps DEF Plans
    <3> QED  BY <3>1 DEF Calls
  <2>2. writer' \in [Writers -> Calls] /\ changes' \in Nat
    <3>1. PICK all \in Plans : writer' = [writer EXCEPT ![w] = [name |-> n, todo |-> all]]
      BY <1>1, BeginCall
    <3>2. PICK call \in Calls : call = [name |-> n, todo |-> all]  BY <2>1
    <3>3. writer' \in [Writers -> Calls]  BY <3>1, <3>2 DEF ResolverType
    <3>4. changes' \in Nat  BY <1>1, BeginCall
    <3> QED  BY <3>3, <3>4
  <2>3. UNCHANGED <<files, watching, events, cache, load, blind>>  BY <1>1, BeginCall
  <2> QED  BY <2>2, <2>3 DEF ResolverType, files, watching, cache
<1>2. ASSUME NEW w \in Writers, WriterFails(w) PROVE ResolverType'
  <2>1. writer' \in [Writers -> Calls]  BY <1>2 DEF WriterFails, ResolverType, Idle, Calls
  <2>2. writer[w].name \in Names  BY <1>2 DEF WriterFails, WriterInv, WriterOK
  <2>3. events' \subseteq events \cup FileEvent(writer[w].name)  BY <1>2 DEF WriterFails
  <2>4. /\ events' \subseteq [name : Names \cup {NoName}, inode : Nat]
        /\ \A e \in events' : e.name = NoName => e.inode = InParent
    BY <2>2, <2>3, EventTypes DEF ResolverType
  <2> QED  BY <1>2, <2>1, <2>4 DEF WriterFails, ResolverType, files, watching, cache
<1>3. CASE ReadEvents
  <2>1. batch' \subseteq Names /\ wpc' \in {"read", "refresh", "invalidate"}
    BY <1>3 DEF ReadEvents, ResolverType
  <2> QED  BY <1>3, <2>1 DEF ReadEvents, ResolverType, files, cache
<1>4. CASE refresh
  <2>1. watches' \in [Names -> Nat]  BY <1>4 DEF refresh, Refreshed, ResolverType
  <2> QED  BY <1>4, <2>1 DEF refresh, ResolverType, files, cache
<1>5. CASE invalidateCacheForPaths
  <2>1. /\ cert' \in [Names -> Int] /\ raced' \in [Names -> BOOLEAN]
        /\ load' \in [Loaders -> LoadStates]
    BY <1>5, DropType DEF invalidateCacheForPaths
  <2>2. \A n \in Names : (blind[n] /\ n \notin batch) \in BOOLEAN  OBVIOUS
  <2>3. blind' \in [Names -> BOOLEAN]  BY <1>5, <2>2 DEF invalidateCacheForPaths
  <2> QED  BY <1>5, <2>1, <2>3 DEF invalidateCacheForPaths, ResolverType, files
<1>6. ASSUME NEW names, Forget(names) PROVE ResolverType'
  <2>1. /\ cert' \in [Names -> Int] /\ raced' \in [Names -> BOOLEAN]
        /\ load' \in [Loaders -> LoadStates]
    BY <1>6, DropType DEF Forget
  <2> QED  BY <1>6, <2>1 DEF Forget, Others, ResolverType, files, watching
<1> QED  BY <1>1, <1>2, <1>3, <1>4, <1>5, <1>6

(* Every step keeps WriterInv.                                             *)
LEMMA WriterInvStep ==
    ASSUME ResolverType, WriterInv, Next
    PROVE  WriterInv'
<1>0. ASSUME UNCHANGED <<writer, dirs>> PROVE WriterInv'
  BY <1>0 DEF WriterInv, WriterOK, IsRemoval, Idle
<1>1. ASSUME NEW w \in Writers, NEW n \in Names,
             writeCertificateBundle(w, n) \/ removeCertificateFiles(w, n)
      PROVE  WriterInv'
  <2>1. PICK all \in Plans :
          /\ writer' = [writer EXCEPT ![w] = [name |-> n, todo |-> all]]
          /\ Head(all).op # "mkdir" => dirs[n] # 0
          /\ \/ \A x \in Writers : writer[x] = Idle
             \/ /\ \A x \in Writers : ~IsRemoval(writer[x])
                /\ all[Len(all)].op # "rmdir"
    BY <1>1, BeginCall
  <2>2. all \in Seq(Steps) /\ Len(all) \in Nat \ {0}
    <3>1. CASE all = Removal  BY <3>1, RemovalSteps
    <3>2. CASE \E v \in Versions : all = Bundle(v)  BY <3>2, BundleSteps
    <3> QED  BY <3>1, <3>2 DEF Plans
  <2>3. all # <<>> /\ Dropped(all, all, 0) /\ 0 \in 0 .. Len(all)  BY <2>2 DEF Dropped
  <2>4. dirs' = dirs  BY <1>1, BeginCall DEF files
  <2>5. \E a \in Plans : \E k \in 0 .. Len(a) : Dropped(all, a, k)  BY <2>3
  <2>6. PICK call : call = [name |-> n, todo |-> all]  OBVIOUS
  <2>7. call.name = n /\ call.todo = all  BY <2>6
  <2>8. \A x \in Writers : writer'[x] = IF x = w THEN call ELSE writer[x]
    BY <2>1, <2>6 DEF ResolverType
  <2>9. WriterOK(call)'  BY <1>1, <2>1, <2>3, <2>4, <2>5, <2>7 DEF WriterOK, Plans
  <2>10. \A x \in Writers : WriterOK(writer[x])'
    <3>1. ASSUME NEW x \in Writers PROVE WriterOK(writer[x])'
      <4>1. CASE x = w  BY <2>8, <2>9, <4>1
      <4>2. CASE x # w
        <5>1. WriterOK(writer[x]) /\ writer'[x] = writer[x]  BY <2>8, <4>2 DEF WriterInv
        <5> QED  BY <2>4, <5>1 DEF WriterOK, Idle
      <4> QED  BY <4>1, <4>2
    <3> QED  BY <3>1
  <2>11. ASSUME NEW x \in Writers, NEW y \in Writers, IsRemoval(writer'[x])
         PROVE  y = x \/ writer'[y] = Idle
    <3>1. CASE \A z \in Writers : writer[z] = Idle
      <4>1. ~IsRemoval(Idle)  BY DEF IsRemoval
      <4> QED  BY <2>8, <2>11, <3>1, <4>1
    <3>2. CASE (\A z \in Writers : ~IsRemoval(writer[z])) /\ all[Len(all)].op # "rmdir"
      <4>1. ~IsRemoval(call)  BY <2>7, <3>2 DEF IsRemoval
      <4> QED  BY <2>8, <2>11, <3>2, <4>1
    <3> QED  BY <2>1, <3>1, <3>2
  <2>12. \A x, y \in Writers : IsRemoval(writer[x])' => y = x \/ (writer[y] = Idle)'
    BY <2>11 DEF IsRemoval, Idle
  <2> QED  BY <2>10, <2>12 DEF WriterInv
<1>2. ASSUME NEW w \in Writers, WriterStep(w) PROVE WriterInv'
  <2>1. PICK call : call = writer'[w]  OBVIOUS
  <2>2. writer[w] # Idle /\ writer[w].name \in Names
    BY <1>2 DEF WriterStep, WriterInv, WriterOK
  <2>3. \A x \in Writers : writer'[x] = IF x = w THEN call ELSE writer[x]
    BY <1>2, <2>1, WriterGoesOn DEF ResolverType
  <2>4. \A n \in Names : dirs[n] # 0 => dirs'[n] # 0 \/ IsRemoval(writer[w])
    <3>1. CASE Head(writer[w].todo).op = "mkdir"
      BY <1>2, <2>2, <3>1 DEF WriterStep, MkdirAll, ResolverType, files
    <3>2. CASE Head(writer[w].todo).op = "rmdir"  BY <2>2, <3>2, WriterLeft
    <3>3. CASE Head(writer[w].todo).op \notin {"mkdir", "rmdir"}
      BY <1>2, <3>3 DEF WriterStep, PutFile
    <3> QED  BY <3>1, <3>2, <3>3
  <2>6. WriterOK(call)'
    <3>1. CASE call = Idle  BY <3>1 DEF WriterOK, Idle
    <3>2. CASE call # Idle
      <4>1. /\ Head(writer[w].todo).op # "rmdir"
            /\ call.name = writer[w].name /\ call.todo # <<>>
            /\ \E all \in Plans : \E k \in 0 .. Len(all) : Dropped(call.todo, all, k)
        BY <1>2, <2>1, <3>2, WriterGoesOn
      <4>2. dirs'[writer[w].name] # 0
        <5>1. CASE Head(writer[w].todo).op = "mkdir"
          <6>1. Head(writer[w].todo).arg # 0
            BY <2>2, <5>1, WriterLeft, VersionFacts DEF NoFile
          <6> QED  BY <1>2, <2>2, <5>1, <6>1 DEF WriterStep, MkdirAll, ResolverType, files
        <5>2. CASE Head(writer[w].todo).op # "mkdir"
          BY <1>2, <2>2, <4>1, <5>2 DEF WriterStep, PutFile, WriterInv, WriterOK
        <5> QED  BY <5>1, <5>2
      <4> QED  BY <2>2, <4>1, <4>2 DEF WriterOK, Plans
    <3> QED  BY <3>1, <3>2
  <2>7. ASSUME NEW x \in Writers PROVE WriterOK(writer[x])'
    <3>1. CASE x = w  BY <2>3, <2>6, <3>1
    <3>2. CASE x # w
      <4>1. WriterOK(writer[x]) /\ writer'[x] = writer[x]  BY <2>3, <3>2 DEF WriterInv
      <4>2. IsRemoval(writer[w]) => writer[x] = Idle  BY <3>2 DEF WriterInv
      <4> QED  BY <2>4, <4>1, <4>2 DEF WriterOK, Idle
    <3> QED  BY <3>1, <3>2
  <2>8. IsRemoval(call) => IsRemoval(writer[w])
    <3>1. ~IsRemoval(Idle)  BY DEF IsRemoval
    <3> QED  BY <1>2, <2>1, <3>1, WriterGoesOn
  <2>9. ASSUME NEW x \in Writers, NEW y \in Writers, IsRemoval(writer'[x])
        PROVE  y = x \/ writer'[y] = Idle
    <3>1. IsRemoval(writer[x])  BY <2>3, <2>8, <2>9
    <3>2. y = x \/ writer[y] = Idle  BY <3>1 DEF WriterInv
    <3> QED  BY <2>2, <2>3, <3>2
  <2>10. \A x, y \in Writers : IsRemoval(writer[x])' => y = x \/ (writer[y] = Idle)'
    BY <2>9 DEF IsRemoval, Idle
  <2> QED  BY <2>7, <2>10 DEF WriterInv
<1>3. ASSUME NEW w \in Writers, WriterFails(w) PROVE WriterInv'
  <2>1. \A x \in Writers : writer'[x] = IF x = w THEN Idle ELSE writer[x]
    BY <1>3 DEF WriterFails, ResolverType
  <2>2. dirs' = dirs  BY <1>3 DEF WriterFails, files
  <2>3. \A x \in Writers : WriterOK(writer[x])'
    BY <2>1, <2>2 DEF WriterInv, WriterOK, Idle
  <2>4. \A x, y \in Writers : IsRemoval(writer[x])' => y = x \/ (writer[y] = Idle)'
    BY <2>1 DEF WriterInv, IsRemoval, Idle
  <2> QED  BY <2>3, <2>4 DEF WriterInv
<1>4. CASE ReadEvents \/ refresh \/ invalidateCacheForPaths
  BY <1>0, <1>4 DEF ReadEvents, refresh, invalidateCacheForPaths, files
<1>5. ASSUME NEW l \in Loaders, Loading(l) PROVE WriterInv'
  BY <1>0, <1>5 DEF Loading, BeginLoad, EndLoad, NotFound, Hit, Miss, Stat, ReadCrt, ReadKey,
       AddLoaded, Others, files
<1>6. ASSUME NEW names, Forget(names) PROVE WriterInv'
  BY <1>0, <1>6 DEF Forget, Others, files
<1> QED  BY <1>1, <1>2, <1>3, <1>4, <1>5, <1>6 DEF Next, Loading
-----------------------------------------------------------------------------

(***************************************************************************)
(* WatchInv: what the watcher will hear.                                   *)
(***************************************************************************)

(* Steps that leave files, watches and events alone.                       *)
LEMMA WatchFrame ==
    ASSUME WatchInv, UNCHANGED <<dirs, wildDir, watching, events, blind>>
    PROVE  WatchInv'
BY DEF WatchInv, WatchOK, ParentWatched, Told, watching

(* An event is one of the parent, with the name or without, or one of the  *)
(* directory that is watched.                                              *)
LEMMA EventNames ==
    ASSUME ResolverType, WatchInv, NEW n \in Names
    PROVE  /\ ParentWatched(n) => ParentEvent(n) = {Event(n, InParent)}
           /\ ~ParentWatched(n) => ParentEvent(n) # {Event(n, InParent)}
           /\ \A e \in ParentEvent(n) : e.name \in Names => e.name = n /\ ParentWatched(n)
           /\ dirs[n] # 0 =>
                \A e \in FileEvent(n) : e.name = n /\ ParentWatched(n)
<1>1. NoName \notin Names /\ n # NoName  BY NamesHaveLabels
<1>2. watches[n] # 0 => ParentWatched(n)  BY DEF WatchInv, WatchOK
<1>3. Event(NoName, InParent) # Event(n, InParent)
  <2>1. Event(NoName, InParent).name = NoName /\ Event(n, InParent).name = n  BY DEF Event
  <2> QED  BY <1>1, <2>1
<1>4. /\ ParentWatched(n) => ParentEvent(n) = {Event(n, InParent)}
      /\ ~ParentWatched(n) => ParentEvent(n) \in {{}, {Event(NoName, InParent)}}
  BY DEF ParentWatched, ParentEvent
<1>5. \A e \in ParentEvent(n) : e.name \in Names => e.name = n /\ ParentWatched(n)
  BY <1>1, <1>4 DEF Event
<1>6. dirs[n] # 0 => \A e \in FileEvent(n) : e.name = n /\ ParentWatched(n)
  BY <1>2 DEF FileEvent, Event
<1>7. ~ParentWatched(n) => ParentEvent(n) # {Event(n, InParent)}  BY <1>3, <1>4
<1> QED  BY <1>4, <1>5, <1>6, <1>7

(* Every step of a writer keeps WatchInv.                                  *)
LEMMA WriterWatch ==
    ASSUME ResolverType, WriterInv, WatchInv, NEW w \in Writers, WriterStep(w) \/ WriterFails(w)
    PROVE  WatchInv'
<1>1. PICK m \in Names : writer[w] # Idle /\ m = writer[w].name
  BY DEF WriterStep, WriterFails, WriterInv, WriterOK
<1> DEFINE step == Head(writer[w].todo)
<1>2. UNCHANGED <<watches, wildWatched, batch, wpc>>
  BY DEF WriterStep, WriterFails, watching
<1>3. step.op # "mkdir" => dirs[m] # 0  BY <1>1 DEF WriterInv, WriterOK
<1>a. step.op = "mkdir" => step.arg # 0
  BY <1>1, WriterLeft, VersionFacts DEF NoFile
<1> HIDE DEF step
<1>4. ASSUME UNCHANGED <<dirs, wildDir, blind>>, dirs[m] # 0, events \subseteq events',
             events' \subseteq events \cup FileEvent(m)
      PROVE  WatchInv'
  <2>1. \A n \in Names : ParentWatched(n)' = ParentWatched(n)  BY <1>2 DEF ParentWatched
  <2>2. \A e \in events' : e.name \in Names => ParentWatched(e.name)
    BY <1>1, <1>4, EventNames DEF WatchInv
  <2>3. \A n \in Names : Told(n) => Told(n)'  BY <1>4 DEF Told
  <2>4. \A n \in Names : WatchOK(n)'
    BY <1>2, <1>4, <2>1, <2>3 DEF WatchInv, WatchOK
  <2>5. \A n \in batch : n \in Names  BY DEF ResolverType
  <2> QED  BY <1>2, <1>4, <2>1, <2>2, <2>4, <2>5 DEF WatchInv
<1>5. CASE WriterFails(w)
  <2>1. CASE dirs[m] # 0  BY <1>1, <1>4, <1>5, <2>1 DEF WriterFails, files
  <2>2. CASE dirs[m] = 0
    BY <1>1, <1>3, <1>5, <2>2, WatchFrame DEF WriterFails, files, step
  <2> QED  BY <2>1, <2>2
<1>6. CASE WriterStep(w) /\ step.op = "mkdir" /\ MkdirAll(m, step.arg)
  <2>1. CASE dirs[m] # 0
    BY <1>6, <2>1, WatchFrame DEF WriterStep, MkdirAll, files
  <2>2. CASE dirs[m] = 0
    <3>1. /\ dirs' = [dirs EXCEPT ![m] = step.arg]
          /\ wildDir' = (wildDir \/ IsWildcard(m))
          /\ events' = events \cup ParentEvent(m)
          /\ blind' = [blind EXCEPT ![m] = ParentEvent(m) # {Event(m, InParent)}]
      BY <1>6, <2>2 DEF MkdirAll
    <3>2. \A n \in Names : ParentWatched(n)' = ParentWatched(n)  BY <1>2 DEF ParentWatched
    <3>3. \A e \in events' : e.name \in Names => ParentWatched(e.name)
      BY <1>1, <3>1, EventNames DEF WatchInv
    <3>4. \A n \in Names : Told(n) => Told(n)'  BY <3>1 DEF Told
    <3>5. ASSUME NEW n \in Names \ {m} PROVE WatchOK(n)'
      <4>1. dirs'[n] = dirs[n] /\ blind'[n] = blind[n]  BY <3>1 DEF ResolverType
      <4>2. WatchOK(n)  BY DEF WatchInv
      <4> QED  BY <1>2, <3>1, <3>2, <3>4, <4>1, <4>2 DEF WatchOK
    <3>6. WatchOK(m)'
      <4>1. CASE ParentWatched(m)
        <5>1. Told(m)'  BY <1>1, <3>1, <4>1, EventNames DEF Told
        <5> QED  BY <1>1, <1>2, <3>1, <3>2, <4>1, <5>1 DEF WatchOK
      <4>2. CASE ~ParentWatched(m)
        <5>1. blind'[m] = TRUE  BY <1>1, <3>1, <4>2, EventNames DEF ResolverType
        <5>2. m \notin batch /\ watches[m] = 0  BY <1>1, <4>2 DEF WatchInv, WatchOK
        <5> QED  BY <1>1, <1>2, <3>1, <5>1, <5>2 DEF WatchOK
      <4> QED  BY <4>1, <4>2
    <3>7. \A n \in batch : n \in Names  BY DEF ResolverType
    <3> QED  BY <1>2, <3>1, <3>2, <3>3, <3>5, <3>6, <3>7 DEF WatchInv
  <2> QED  BY <2>1, <2>2
<1>7. CASE WriterStep(w) /\ Rmdir(m) /\ dirs[m] # 0
  <2>1. /\ dirs' = [dirs EXCEPT ![m] = 0] /\ UNCHANGED <<wildDir, blind>>
        /\ events' = events \cup ParentEvent(m) \cup FileEvent(m)
    BY <1>7 DEF Rmdir
  <2>2. \A n \in Names : ParentWatched(n)' = ParentWatched(n)  BY <1>2 DEF ParentWatched
  <2>3. \A e \in events' : e.name \in Names => ParentWatched(e.name)
    BY <1>1, <1>7, <2>1, EventNames DEF WatchInv
  <2>4. \A n \in Names : Told(n) => Told(n)'  BY <2>1 DEF Told
  <2>5. ASSUME NEW n \in Names \ {m} PROVE WatchOK(n)'
    <3>1. dirs'[n] = dirs[n]  BY <2>1 DEF ResolverType
    <3>2. WatchOK(n)  BY DEF WatchInv
    <3> QED  BY <1>2, <2>1, <2>2, <2>4, <3>1, <3>2 DEF WatchOK
  <2>6. WatchOK(m)'
    <3>1. dirs'[m] = 0  BY <1>1, <2>1 DEF ResolverType
    <3>2. ParentWatched(m) => Told(m)'  BY <1>1, <2>1, EventNames DEF Told
    <3>3. WatchOK(m)  BY <1>1 DEF WatchInv
    <3> QED  BY <1>1, <1>2, <2>1, <2>2, <3>1, <3>2, <3>3 DEF WatchOK
  <2>7. \A n \in batch : n \in Names  BY DEF ResolverType
  <2> QED  BY <1>2, <2>1, <2>2, <2>3, <2>5, <2>6, <2>7 DEF WatchInv
<1>8. CASE WriterStep(w) /\ PutFile(m, step) /\ dirs[m] # 0
  BY <1>4, <1>8 DEF PutFile
<1> QED  BY <1>1, <1>3, <1>5, <1>6, <1>7, <1>8 DEF WriterStep, step

(* Every step of the watcher keeps WatchInv.                               *)
LEMMA WatcherWatch ==
    ASSUME ResolverType, WatchInv, ReadEvents \/ refresh \/ invalidateCacheForPaths
    PROVE  WatchInv'
<1>1. CASE ReadEvents
  <2>0. PICK read \in SUBSET events :
          LET known == {e \in read : e.inode = InParent \/ e.inode = watches[e.name]}
          IN  /\ events' = events \ read
              /\ batch' = {e.name : e \in known} \ {NoName}
              /\ wpc' = IF known = {} THEN "read" ELSE "refresh"
    BY <1>1 DEF ReadEvents
  <2> DEFINE known == {e \in read : e.inode = InParent \/ e.inode = watches[e.name]}
  <2>1. /\ UNCHANGED <<dirs, wildDir, watches, wildWatched, blind>>
        /\ events' = events \ read /\ batch' = {e.name : e \in known} \ {NoName}
        /\ wpc' = IF known = {} THEN "read" ELSE "refresh"
    BY <1>1, <2>0 DEF ReadEvents, files
  <2>2. ASSUME NEW n \in Names, Told(n) PROVE Told(n)' \/ (n \in batch' /\ wpc' = "refresh")
    <3>1. CASE Event(n, InParent) \in read
      <4>1. Event(n, InParent) \in known /\ n # NoName
        BY <3>1, NamesHaveLabels DEF Event
      <4> QED  BY <2>1, <4>1 DEF Event
    <3>2. CASE Event(n, InParent) \notin read  BY <2>1, <2>2, <3>2 DEF Told
    <3> QED  BY <3>1, <3>2
  <2>3. \A n \in batch' : ParentWatched(n)
    <3>1. ASSUME NEW n \in batch' PROVE ParentWatched(n)
      <4>1. PICK e \in known : e.name = n /\ n # NoName  BY <2>1, <3>1
      <4>2. e.name \in Names  BY <4>1 DEF ResolverType
      <4> QED  BY <4>1, <4>2 DEF WatchInv
    <3> QED  BY <3>1
  <2>4. known = {} => batch' = {}  BY <2>1
  <2> HIDE DEF known
  <2>5. \A n \in Names : WatchOK(n)'
    <3>1. ASSUME NEW n \in Names PROVE WatchOK(n)'
      <4>1. WatchOK(n) /\ wpc = "read" /\ batch = {}  BY <1>1 DEF WatchInv, ReadEvents
      <4>2. ParentWatched(n)' = ParentWatched(n)  BY <2>1 DEF ParentWatched
      <4>3. wpc' # "invalidate"  BY <2>1
      <4> QED  BY <2>1, <2>2, <4>1, <4>2, <4>3 DEF WatchOK
    <3> QED  BY <3>1
  <2>6. (\A n \in batch : ParentWatched(n))'  BY <2>1, <2>3 DEF ParentWatched
  <2> HIDE DEF known
  <2>7. wpc' = "read" => batch' = {}  BY <2>1, <2>4
  <2>8. (\A e \in events : e.name \in Names => ParentWatched(e.name))'
    BY <2>1 DEF WatchInv, ParentWatched
  <2> QED  BY <2>1, <2>5, <2>6, <2>7, <2>8 DEF WatchInv
<1>2. CASE refresh
  <2>1. /\ UNCHANGED <<dirs, wildDir, events, batch, blind>>
        /\ wpc = "refresh" /\ wpc' = "invalidate"
        /\ watches' = Refreshed(watches) /\ wildWatched' = wildDir
    BY <1>2 DEF refresh, files
  <2>2. \A n : ParentWatched(n) => ParentWatched(n)'  BY <2>1 DEF ParentWatched, WatchInv
  <2>3. ASSUME NEW n \in Names PROVE WatchOK(n)'
    <3>1. watches'[n] = IF dirs[n] = 0 THEN 0 ELSE IF watches[n] # 0 THEN watches[n] ELSE dirs[n]
      BY <2>1 DEF Refreshed
    <3>2. dirs[n] # 0 => ParentWatched(n)'  BY <2>1 DEF WatchInv, WatchOK, ParentWatched
    <3>3. dirs[n] # 0 /\ IsWildcard(n) => wildDir  BY DEF WatchInv, WatchOK
    <3> QED  BY <2>1, <3>1, <3>2, <3>3 DEF WatchOK
  <2> QED  BY <2>1, <2>2, <2>3 DEF WatchInv
<1>3. CASE invalidateCacheForPaths
  <2>1. /\ UNCHANGED <<dirs, wildDir, events, watches, wildWatched>>
        /\ wpc = "invalidate" /\ wpc' = "read" /\ batch' = {}
        /\ blind' = [n \in Names |-> blind[n] /\ n \notin batch]
    BY <1>3 DEF invalidateCacheForPaths, files
  <2>2. \A n : ParentWatched(n)' = ParentWatched(n) /\ Told(n)' = Told(n)
    BY <2>1 DEF ParentWatched, Told
  <2>3. ASSUME NEW n \in Names PROVE WatchOK(n)'
    <3>1. WatchOK(n)  BY DEF WatchInv
    <3>2. blind'[n] <=> blind[n] /\ n \notin batch  BY <2>1
    <3> QED  BY <2>1, <2>2, <3>1, <3>2 DEF WatchOK
  <2>4. \A e \in events : e.name \in Names => ParentWatched(e.name)'
    BY <2>2 DEF WatchInv
  <2> QED  BY <2>1, <2>2, <2>3, <2>4 DEF WatchInv
<1> QED  BY <1>1, <1>2, <1>3
-----------------------------------------------------------------------------

(***************************************************************************)
(* CacheInv: what is cached, or about to be, is on disk or awaited to go.  *)
(***************************************************************************)

(* Steps that leave files, watches, events and the writers alone.          *)
LEMMA AwaitedFrame ==
    ASSUME UNCHANGED <<files, watching, events, writer, blind>>, NEW n
    PROVE  Awaited(n)' = Awaited(n) /\ OnDisk(n)' = OnDisk(n)
BY DEF Awaited, Told, HalfWritten, Closes, OnDisk, files, watching, Idle

(* A call begins with a step that truncates nothing.                       *)
LEMMA BeginAwaits ==
    ASSUME ResolverType, NEW w \in Writers, NEW m \in Names,
           writeCertificateBundle(w, m) \/ removeCertificateFiles(w, m), NEW n \in Names
    PROVE  /\ Awaited(n) => Awaited(n)'
           /\ OnDisk(n)' = OnDisk(n) /\ HalfWritten(n)' = HalfWritten(n)
<1>1. UNCHANGED <<files, watching, events, blind>> /\ writer[w] = Idle  BY BeginCall
<1>2. PICK all \in Plans : writer' = [writer EXCEPT ![w] = [name |-> m, todo |-> all]]
  BY BeginCall
<1>3. PICK call : call = [name |-> m, todo |-> all]  OBVIOUS
<1>4. ~Closes(call, n)
  <2>1. all \in Seq(Steps) /\ Len(all) \in Nat \ {0}
    <3>1. CASE all = Removal  BY <3>1, RemovalSteps
    <3>2. CASE \E v \in Versions : all = Bundle(v)  BY <3>2, BundleSteps
    <3> QED  BY <3>1, <3>2 DEF Plans
  <2>2. Head(all) = all[1] /\ 1 \in 1 .. Len(all)  BY <2>1, HeadOf
  <2>3. ~(Head(all).op \in {"crt", "key"} /\ Head(all).arg \in Versions)
    BY <2>2, PlanSteps
  <2> QED  BY <1>3, <2>3 DEF Closes
<1>5. \A x \in Writers : writer'[x] = IF x = w THEN call ELSE writer[x]
  BY <1>2, <1>3 DEF ResolverType
<1>6. ~Closes(Idle, n)  BY DEF Closes
<1>7. HalfWritten(n)' = (\E x \in Writers : Closes(writer'[x], n))
  BY DEF HalfWritten, Closes, Idle
<1>8. \A x \in Writers : Closes(writer'[x], n) <=> Closes(writer[x], n)
  BY <1>1, <1>4, <1>5, <1>6
<1>9. HalfWritten(n)' = HalfWritten(n)  BY <1>7, <1>8 DEF HalfWritten
<1> QED  BY <1>1, <1>9 DEF Awaited, Told, OnDisk, files, watching

(* A step of a writer that changes a file of a name makes it awaited,      *)
(* and what is awaited stays so.                                           *)
LEMMA WriterAwaits ==
    ASSUME ResolverType, WriterInv, WatchInv, NEW w \in Writers,
           WriterStep(w) \/ WriterFails(w), NEW n \in Names
    PROVE  /\ Awaited(n) => Awaited(n)'
           /\ Awaited(n)' \/ (crt'[n] = crt[n] /\ key'[n] = key[n])
<1>1. PICK m \in Names : writer[w] # Idle /\ m = writer[w].name
  BY DEF WriterStep, WriterFails, WriterInv, WriterOK
<1>2. UNCHANGED <<watches, batch>> /\ events \subseteq events'
  BY DEF WriterStep, WriterFails, watching, MkdirAll, Rmdir, PutFile
<1>3. Told(n) \/ n \in batch \/ Event(n, watches[n]) \in events => Awaited(n)'
  BY <1>2 DEF Awaited, Told
<1>4. ASSUME events' = events \cup FileEvent(m), UNCHANGED dirs PROVE Awaited(m)'
  <2>1. CASE watches[m] = dirs[m]  BY <1>2, <1>4, <2>1 DEF FileEvent, Awaited
  <2>2. CASE watches[m] # dirs[m]  BY <1>2, <1>4, <2>2 DEF Awaited
  <2> QED  BY <2>1, <2>2
<1> DEFINE step == Head(writer[w].todo)
<1>5. \/ HalfWritten(n) => HalfWritten(n)'
      \/ n = m /\ step.op \in {"crt", "key"} /\ step.arg \in Versions
  <2>1. \A x \in Writers : x # w => writer'[x] = writer[x]
    BY DEF WriterStep, WriterFails, ResolverType
  <2>2. ASSUME NEW x \in Writers, Closes(writer[x], n), x # w PROVE HalfWritten(n)'
    <3>1. Closes(writer[x], n)'  BY <2>1, <2>2 DEF Closes, Idle
    <3> QED  BY <3>1 DEF HalfWritten
  <2>3. Closes(writer[w], n) => n = m /\ step.op \in {"crt", "key"} /\ step.arg \in Versions
    BY <1>1 DEF Closes
  <2> QED  BY <2>2, <2>3 DEF HalfWritten
<1> HIDE DEF step
<1>6. CASE WriterFails(w)
  <2>1. UNCHANGED <<crt, key, dirs, blind>>  BY <1>6 DEF WriterFails, files
  <2>2. CASE n = m /\ step.op \in {"crt", "key"} /\ step.arg \in Versions
    <3>1. events' = events \cup FileEvent(m)
      BY <1>1, <1>6, <2>2 DEF WriterFails, step
    <3> QED  BY <1>4, <2>1, <2>2, <3>1
  <2>3. CASE HalfWritten(n) => HalfWritten(n)'
    <3>1. Awaited(n) => Awaited(n)'
      BY <1>2, <1>3, <2>1, <2>3 DEF Awaited
    <3> QED  BY <2>1, <3>1
  <2> QED  BY <1>5, <2>2, <2>3
<1>7. CASE WriterStep(w) /\ step.op = "mkdir"
  <2>1. MkdirAll(m, step.arg) /\ (HalfWritten(n) => HalfWritten(n)')
    BY <1>1, <1>5, <1>7 DEF WriterStep, step
  <2>2. UNCHANGED <<crt, key>>  BY <2>1 DEF MkdirAll, files
  <2>3. CASE dirs[m] # 0 \/ n # m
    <3>1. dirs'[n] = dirs[n] /\ blind'[n] = blind[n]
      BY <2>1, <2>3 DEF MkdirAll, ResolverType, files
    <3>2. Awaited(n) => Awaited(n)'  BY <1>2, <1>3, <2>1, <3>1 DEF Awaited
    <3> QED  BY <2>2, <3>2
  <2>4. CASE dirs[n] = 0 /\ n = m
    <3>1. /\ events' = events \cup ParentEvent(n)
          /\ blind'[n] = (ParentEvent(n) # {Event(n, InParent)})
      BY <2>1, <2>4 DEF MkdirAll, ResolverType
    <3>2. Awaited(n)'
      <4>1. CASE ParentWatched(n)  BY <3>1, <4>1, EventNames DEF Awaited, Told
      <4>2. CASE ~ParentWatched(n)  BY <3>1, <4>2, EventNames DEF Awaited
      <4> QED  BY <4>1, <4>2
    <3> QED  BY <3>2
  <2> QED  BY <2>3, <2>4
<1>8. CASE WriterStep(w) /\ step.op = "rmdir"
  <2>1. Rmdir(m) /\ (HalfWritten(n) => HalfWritten(n)')
    BY <1>1, <1>5, <1>8 DEF WriterStep, step
  <2>2. UNCHANGED <<crt, key, blind>>  BY <2>1 DEF Rmdir
  <2>3. CASE n # m
    <3>1. dirs'[n] = dirs[n]  BY <2>1, <2>3 DEF Rmdir, ResolverType
    <3>2. Awaited(n) => Awaited(n)'  BY <1>2, <1>3, <2>1, <2>2, <3>1 DEF Awaited
    <3> QED  BY <2>2, <3>2
  <2>4. CASE n = m
    <3>1. dirs'[n] = 0  BY <2>1, <2>4 DEF Rmdir, ResolverType
    <3>2. CASE watches[n] # 0  BY <1>2, <2>2, <3>1, <3>2 DEF Awaited
    <3>3. CASE watches[n] = 0 /\ dirs[n] # 0
      <4>1. Told(n) \/ n \in batch \/ blind[n]  BY <3>3 DEF WatchInv, WatchOK
      <4>2. blind[n] => Awaited(n)'  BY <2>2 DEF Awaited
      <4> QED  BY <1>3, <2>2, <4>1, <4>2
    <3>4. CASE watches[n] = 0 /\ dirs[n] = 0
      <4>1. Awaited(n) => Awaited(n)'  BY <1>2, <1>3, <2>1, <2>2, <3>4 DEF Awaited
      <4> QED  BY <2>2, <4>1
    <3> QED  BY <3>2, <3>3, <3>4
  <2> QED  BY <2>3, <2>4
<1>9. CASE WriterStep(w) /\ step.op \notin {"mkdir", "rmdir"}
  <2>1. PutFile(m, step)  BY <1>1, <1>9 DEF WriterStep, step
  <2>2. UNCHANGED <<dirs, blind>>  BY <2>1 DEF PutFile
  <2>3. CASE n # m
    <3>1. HalfWritten(n) => HalfWritten(n)'  BY <1>5, <2>3
    <3>2. crt'[n] = crt[n] /\ key'[n] = key[n]  BY <2>1, <2>3 DEF PutFile, ResolverType
    <3>3. Awaited(n) => Awaited(n)'  BY <1>2, <1>3, <2>2, <3>1 DEF Awaited
    <3> QED  BY <3>2, <3>3
  <2>4. CASE n = m
    <3>1. CASE step.arg # Unreadable
      <4>1. events' = events \cup FileEvent(m)  BY <2>1, <3>1 DEF PutFile
      <4> QED  BY <1>4, <2>2, <2>4, <4>1
    <3>2. CASE step.arg = Unreadable
      <4>1. HalfWritten(n)'
        <5>1. /\ writer'[w].name = m /\ m # NoName
              /\ Head(writer'[w].todo).op \in {"crt", "key"}
              /\ Head(writer'[w].todo).arg \in Versions
          BY <1>1, <1>9, <3>2, WriterGoesOn, NamesHaveLabels DEF step
        <5>2. writer'[w] # Idle  BY <5>1 DEF Idle
        <5>3. Closes(writer[w], n)'  BY <2>4, <5>1, <5>2 DEF Closes, Idle
        <5> QED  BY <5>3 DEF HalfWritten
      <4> QED  BY <4>1 DEF Awaited
    <3> QED  BY <3>1, <3>2
  <2> QED  BY <2>3, <2>4
<1> QED  BY <1>6, <1>7, <1>8, <1>9

(* The watcher loses nothing before it invalidates it.                     *)
LEMMA WatcherAwaits ==
    ASSUME ResolverType, WatchInv, ReadEvents \/ refresh \/ invalidateCacheForPaths,
           NEW n \in Names
    PROVE  /\ OnDisk(n)' = OnDisk(n)
           /\ Awaited(n) => Awaited(n)' \/ (invalidateCacheForPaths /\ n \in batch)
<1>0. UNCHANGED <<files, writer>>  BY DEF ReadEvents, refresh, invalidateCacheForPaths
<1>a. OnDisk(n)' = OnDisk(n) /\ HalfWritten(n)' = HalfWritten(n) /\ dirs' = dirs
  BY <1>0 DEF OnDisk, HalfWritten, Closes, files, Idle
<1>1. CASE ReadEvents
  <2>0. PICK read \in SUBSET events :
          LET known == {e \in read : e.inode = InParent \/ e.inode = watches[e.name]}
          IN  /\ events' = events \ read
              /\ batch' = {e.name : e \in known} \ {NoName}
    BY <1>1 DEF ReadEvents
  <2> DEFINE known == {e \in read : e.inode = InParent \/ e.inode = watches[e.name]}
  <2>1. /\ UNCHANGED <<watches, blind>> /\ batch' = {e.name : e \in known} \ {NoName}
        /\ events' = events \ read /\ batch = {}
    BY <1>1, <2>0 DEF ReadEvents, WatchInv
  <2>2. ASSUME NEW i \in {InParent, watches[n]}, Event(n, i) \in events
        PROVE  n \in batch' \/ Event(n, i) \in events'
    <3>1. CASE Event(n, i) \in read
      <4>1. PICK e \in known : e.name = n  BY <2>2, <3>1 DEF Event
      <4> QED  BY <2>1, <4>1, NamesHaveLabels
    <3>2. CASE Event(n, i) \notin read  BY <2>1, <2>2, <3>2
    <3> QED  BY <3>1, <3>2
  <2>3. Told(n) => n \in batch' \/ Told(n)'  BY <2>2 DEF Told
  <2>4. Event(n, watches[n]) \in events => n \in batch' \/ (Event(n, watches[n]) \in events)'
    BY <2>1, <2>2 DEF Event
  <2> HIDE DEF known
  <2> QED  BY <1>a, <2>1, <2>3, <2>4 DEF Awaited
<1>2. CASE refresh
  <2>1. /\ UNCHANGED <<events, batch, blind>> /\ watches' = Refreshed(watches)
    BY <1>2 DEF refresh
  <2>2. watches'[n] = IF dirs[n] = 0 THEN 0 ELSE IF watches[n] # 0 THEN watches[n] ELSE dirs[n]
    BY <2>1 DEF Refreshed
  <2>3. Told(n)' = Told(n)  BY <2>1 DEF Told
  <2>4. CASE watches'[n] = watches[n]  BY <1>a, <2>1, <2>3, <2>4 DEF Awaited
  <2>5. CASE watches'[n] # watches[n]
    <3>1. Told(n) \/ n \in batch \/ blind[n]  BY <2>2, <2>5 DEF WatchInv, WatchOK
    <3> QED  BY <1>a, <2>1, <2>3, <3>1 DEF Awaited
  <2> QED  BY <2>4, <2>5
<1>3. CASE invalidateCacheForPaths
  <2>1. /\ UNCHANGED <<events, watches>>
        /\ blind'[n] <=> blind[n] /\ n \notin batch
    BY <1>3 DEF invalidateCacheForPaths
  <2> QED  BY <1>3, <1>a, <2>1 DEF Awaited, Told
<1> QED  BY <1>a, <1>1, <1>2, <1>3

(* Every step of a writer keeps CacheInv.                                  *)
LEMMA WriterCache ==
    ASSUME ResolverType, WriterInv, WatchInv, CacheInv, NEW w \in Writers,
           WriterStep(w) \/ WriterFails(w)
    PROVE  CacheInv'
<1>1. \A n \in Names : /\ Awaited(n) => Awaited(n)'
                       /\ Awaited(n)' \/ (crt'[n] = crt[n] /\ key'[n] = key[n])
  BY WriterAwaits
<1>2. \A n \in Names : Awaited(n)' \/ OnDisk(n)' = OnDisk(n)  BY <1>1 DEF OnDisk
<1>3. UNCHANGED <<cert, raced>>  BY DEF WriterStep, WriterFails, cache
<1>4. \A n \in Names : (cert[n] \in {NoCert, OnDisk(n)} \/ raced[n] \/ Awaited(n))'
  BY <1>1, <1>2, <1>3 DEF CacheInv
<1>5. ASSUME NEW l \in Loaders PROVE LoadOK(load[l])'
  <2>1. load[l] \in LoadStates  BY DEF ResolverType
  <2>2. /\ load'[l].pc = load[l].pc /\ load'[l].cands = load[l].cands
        /\ load'[l].crt = load[l].crt /\ load'[l].late = load[l].late
    <3>1. CASE WriterFails(w)  BY <3>1 DEF WriterFails
    <3>2. CASE WriterStep(w)
      <4>1. load'[l] = [load[l] EXCEPT !.calm = FALSE]  BY <3>2 DEF WriterStep
      <4> QED  BY <2>1, <4>1 DEF LoadStates
    <3> QED  BY <3>1, <3>2
  <2>3. LoadOK(load[l])  BY DEF CacheInv
  <2> QED  BY <1>1, <1>2, <2>2, <2>3 DEF LoadOK
<1> QED  BY <1>4, <1>5 DEF CacheInv

(* Names that are dropped from the cache, the Loads of them being late.    *)
LEMMA DropCache ==
    ASSUME ResolverType, CacheInv, NEW names, Delete(names), Overtake(names),
           UNCHANGED <<crt, key>>,
           \A n \in Names : Awaited(n) => Awaited(n)' \/ n \in names
    PROVE  CacheInv'
<1>1. \A n \in Names : OnDisk(n)' = OnDisk(n)  BY DEF OnDisk
<1>2. \A n \in Names : (cert[n] \in {NoCert, OnDisk(n)} \/ raced[n] \/ Awaited(n))'
  <2>1. ASSUME NEW n \in Names
        PROVE  (cert[n] \in {NoCert, OnDisk(n)} \/ raced[n] \/ Awaited(n))'
    <3>1. cert'[n] = (IF n \in names THEN NoCert ELSE cert[n])
      BY DEF Delete
    <3>2. n \notin names => raced'[n] = raced[n]  BY DEF Delete, ResolverType
    <3>3. cert[n] \in {NoCert, OnDisk(n)} \/ raced[n] \/ Awaited(n)  BY DEF CacheInv
    <3> QED  BY <1>1, <3>1, <3>2, <3>3
  <2> QED  BY <2>1
<1>3. ASSUME NEW l \in Loaders PROVE LoadOK(load[l])'
  <2>1. load[l] \in LoadStates  BY DEF ResolverType
  <2>2. /\ load'[l].pc = load[l].pc /\ load'[l].cands = load[l].cands
        /\ load'[l].crt = load[l].crt
        /\ load[l].late => load'[l].late
        /\ load[l].pc \in {"key", "add"} /\ load[l].cands[1] \in names => load'[l].late
    BY <2>1 DEF Overtake, LoadStates
  <2>3. LoadOK(load[l])  BY DEF CacheInv
  <2> QED  BY <1>1, <2>2, <2>3 DEF LoadOK
<1> QED  BY <1>2, <1>3 DEF CacheInv

(* Every step of the watcher keeps CacheInv.                               *)
LEMMA WatcherCache ==
    ASSUME ResolverType, WatchInv, CacheInv, ReadEvents \/ refresh \/ invalidateCacheForPaths
    PROVE  CacheInv'
<1>1. CASE invalidateCacheForPaths
  <2>1. /\ Delete(batch) /\ Overtake(batch) /\ UNCHANGED <<crt, key>>
        /\ \A n \in Names : Awaited(n) => Awaited(n)' \/ n \in batch
    BY <1>1, WatcherAwaits DEF invalidateCacheForPaths, files
  <2> QED  BY <2>1, DropCache
<1>2. CASE ReadEvents \/ refresh
  <2>1. UNCHANGED <<cert, raced, load, crt, key>>
    BY <1>2 DEF ReadEvents, refresh, files, cache
  <2>2. \A n \in Names : /\ Awaited(n) => Awaited(n)'
                         /\ OnDisk(n)' = OnDisk(n)
    BY <1>2, WatcherAwaits DEF ReadEvents, refresh, invalidateCacheForPaths
  <2>3. \A n \in Names : (cert[n] \in {NoCert, OnDisk(n)} \/ raced[n] \/ Awaited(n))'
    BY <2>1, <2>2 DEF CacheInv
  <2>4. \A l \in Loaders : LoadOK(load[l])'  BY <2>1, <2>2 DEF CacheInv, LoadOK
  <2> QED  BY <2>3, <2>4 DEF CacheInv
<1> QED  BY <1>1, <1>2

(* Every step of a Load keeps CacheInv.                                    *)
LEMMA LoadingCache ==
    ASSUME ResolverType, CacheInv, NEW l \in Loaders, Loading(l)
    PROVE  CacheInv'
<1>0. UNCHANGED Others
  BY DEF Loading, BeginLoad, EndLoad, NotFound, Hit, Miss, Stat, ReadCrt, ReadKey, AddLoaded
<1>a. \A n \in Names : Awaited(n)' = Awaited(n) /\ OnDisk(n)' = OnDisk(n)
  BY <1>0, AwaitedFrame DEF Others
<1>b. crt' = crt /\ key' = key  BY <1>0 DEF Others, files
<1>c. load[l] \in LoadStates /\ LoadOK(load[l])  BY DEF ResolverType, CacheInv
<1>d. ASSUME NEW r, load' = [load EXCEPT ![l] = r], LoadOK(r),
             \A n \in Names : cert'[n] \in {NoCert, OnDisk(n)} \/ raced'[n] \/ Awaited(n)
      PROVE  CacheInv'
  <2>1. \A n \in Names : (cert[n] \in {NoCert, OnDisk(n)} \/ raced[n] \/ Awaited(n))'
    BY <1>a, <1>d
  <2>2. ASSUME NEW k \in Loaders PROVE LoadOK(load[k])'
    <3>1. PICK q : q = load'[k]  OBVIOUS
    <3>2. LoadOK(q)  BY <1>d, <3>1 DEF CacheInv, ResolverType
    <3>3. LoadOK(load[k])' <=> LoadOK(q)  BY <1>a, <1>b, <3>1 DEF LoadOK
    <3> QED  BY <3>2, <3>3
  <2> QED  BY <2>1, <2>2 DEF CacheInv
<1>e. \A n \in Names : cert[n] \in {NoCert, OnDisk(n)} \/ raced[n] \/ Awaited(n)
  BY DEF CacheInv
<1>f. ASSUME NEW pair, NEW calm, Return(l, pair, calm),
             \A n \in Names : cert'[n] \in {NoCert, OnDisk(n)} \/ raced'[n] \/ Awaited(n)
      PROVE  CacheInv'
  <2> DEFINE r == [load[l] EXCEPT !.calm = load[l].calm /\ calm, !.pc = "done", !.cands = <<>>,
                     !.crt = NoFile, !.pair = pair, !.late = FALSE]
  <2>1. load' = [load EXCEPT ![l] = r]  BY <1>f DEF Return
  <2>2. r.pc = "done"  BY <1>c DEF LoadStates
  <2>3. LoadOK(r)  BY <2>2 DEF LoadOK
  <2> HIDE DEF r
  <2> QED  BY <1>d, <1>f, <2>1, <2>3
<1>1. ASSUME NEW h \in Hosts, BeginLoad(l, h) PROVE CacheInv'
  <2>1. PICK r : load' = [load EXCEPT ![l] = r] /\ r.pc = "get"
    <3> DEFINE q == [Ready EXCEPT !.host = h, !.pc = "get", !.cands = certificateCandidates(h),
                       !.calm = AtRest /\ \A n \in Names : ~Excused(n)]
    <3>1. load' = [load EXCEPT ![l] = q]  BY <1>1 DEF BeginLoad
    <3>2. q.pc = "get"  BY DEF Ready
    <3> HIDE DEF q
    <3> QED  BY <3>1, <3>2
  <2>2. LoadOK(r)  BY <2>1 DEF LoadOK
  <2> QED  BY <1>1, <1>d, <1>e, <2>1, <2>2 DEF BeginLoad, cache
<1>2. CASE EndLoad(l)
  <2>1. LoadOK(Ready)  BY DEF LoadOK, Ready
  <2> QED  BY <1>2, <1>d, <1>e, <2>1 DEF EndLoad, cache
<1>3. CASE NotFound(l)  BY <1>3, <1>e, <1>f DEF NotFound, cache
<1>4. CASE Hit(l)
  <2>1. PICK n : Return(l, cert[n], ~raced[n])  BY <1>4 DEF Hit
  <2> QED  BY <1>4, <1>e, <1>f, <2>1 DEF Hit
<1>5. CASE Miss(l)
  <2>1. load' = [load EXCEPT ![l] = [load[l] EXCEPT !.pc = "stat"]]  BY <1>5 DEF Miss
  <2>2. LoadOK([load[l] EXCEPT !.pc = "stat"])
    BY <1>5, <1>c DEF Miss, LoadOK, LoadStates
  <2> QED  BY <1>5, <1>d, <1>e, <2>1, <2>2 DEF Miss, cache
<1>6. CASE Stat(l)
  <2>1. PICK r : /\ load' = [load EXCEPT ![l] = r]
                 /\ \/ r = [load[l] EXCEPT !.pc = "crt"] /\ load[l].cands[1] \in Names
                    \/ r = [load[l] EXCEPT !.pc = "get", !.cands = Tail(load[l].cands)]
    BY <1>6 DEF Stat, fileExists
  <2>2. LoadOK(r)
    <3>1. load[l].cands # <<>>  BY <1>6, <1>c DEF Stat, LoadOK
    <3>2. CASE r = [load[l] EXCEPT !.pc = "crt"] /\ load[l].cands[1] \in Names
      <4>1. r.pc = "crt" /\ r.cands = load[l].cands  BY <1>c, <3>2 DEF LoadStates
      <4> QED  BY <3>1, <3>2, <4>1 DEF LoadOK
    <3>3. CASE r = [load[l] EXCEPT !.pc = "get", !.cands = Tail(load[l].cands)]
      <4>1. r.pc = "get"  BY <1>c, <3>3 DEF LoadStates
      <4> QED  BY <4>1 DEF LoadOK
    <3> QED  BY <2>1, <3>2, <3>3
  <2> QED  BY <1>6, <1>d, <1>e, <2>1, <2>2 DEF Stat, cache
<1>7. CASE ReadCrt(l)
  <2>1. CASE crt[load[l].cands[1]] \in Versions
    <3>0. load' = [load EXCEPT ![l].pc = "key", ![l].crt = crt[load[l].cands[1]]]
      BY <1>7, <2>1 DEF ReadCrt
    <3>1. PICK r : /\ load' = [load EXCEPT ![l] = r]
                   /\ r = [load[l] EXCEPT !.pc = "key", !.crt = crt[load[l].cands[1]]]
      BY <3>0, Zenon
    <3>2. r.pc = "key" /\ r.cands = load[l].cands /\ r.crt = crt[load[l].cands[1]]
      BY <1>c, <3>1 DEF LoadStates
    <3>3. load[l].pc = "crt"  BY <1>7 DEF ReadCrt
    <3>4. LoadOK(r)  BY <1>c, <2>1, <3>2, <3>3 DEF LoadOK
    <3> QED  BY <1>7, <1>d, <1>e, <3>1, <3>4 DEF ReadCrt, cache
  <2>2. CASE crt[load[l].cands[1]] \notin Versions
    BY <1>7, <1>e, <1>f, <2>2 DEF ReadCrt, cache
  <2> QED  BY <2>1, <2>2
<1>8. CASE ReadKey(l)
  <2>1. CASE key[load[l].cands[1]] = load[l].crt
    <3>1. PICK r : load' = [load EXCEPT ![l] = r] /\ r = [load[l] EXCEPT !.pc = "add"]
      BY <1>8, <2>1 DEF ReadKey
    <3>2. /\ r.pc = "add" /\ r.cands = load[l].cands /\ r.crt = load[l].crt
          /\ r.late = load[l].late /\ load[l].pc = "key"
      BY <1>8, <1>c, <3>1 DEF LoadStates, ReadKey
    <3>3. LoadOK(r)  BY <1>c, <2>1, <3>2 DEF LoadOK, OnDisk
    <3> QED  BY <1>8, <1>d, <1>e, <3>1, <3>3 DEF ReadKey, cache
  <2>2. CASE key[load[l].cands[1]] # load[l].crt
    BY <1>8, <1>e, <1>f, <2>2 DEF ReadKey, cache
  <2> QED  BY <2>1, <2>2
<1>9. CASE AddLoaded(l)
  <2>1. \A n \in Names : cert'[n] \in {NoCert, OnDisk(n)} \/ raced'[n] \/ Awaited(n)
    <3>1. ASSUME NEW n \in Names
          PROVE  cert'[n] \in {NoCert, OnDisk(n)} \/ raced'[n] \/ Awaited(n)
      <4>1. CASE n = load[l].cands[1]
        <5>1. cert'[n] \in {NoCert, load[l].crt} /\ raced'[n] = load[l].late
          BY <1>9, <4>1 DEF AddLoaded, Add
        <5>2. OnDisk(n) = load[l].crt \/ load[l].late \/ Awaited(n)
          BY <1>9, <1>c, <4>1 DEF AddLoaded, LoadOK
        <5> QED  BY <5>1, <5>2
      <4>2. CASE n # load[l].cands[1]
        <5>1. cert'[n] \in {NoCert, cert[n]} /\ raced'[n] = raced[n]
          BY <1>9, <4>2 DEF AddLoaded, Add
        <5> QED  BY <1>e, <5>1
      <4> QED  BY <4>1, <4>2
    <3> QED  BY <3>1
  <2> QED  BY <1>9, <1>f, <2>1 DEF AddLoaded
<1> QED  BY <1>1, <1>2, <1>3, <1>4, <1>5, <1>6, <1>7, <1>8, <1>9 DEF Loading
-----------------------------------------------------------------------------

(***************************************************************************)
(* CalmInv: the way of a Load that nothing disturbs.                       *)
(***************************************************************************)

(* While no file changes, neither does what is expected.                   *)
LEMMA ExpectedFrame ==
    ASSUME UNCHANGED <<crt, key>>
    PROVE  /\ \A n : OnDisk(n)' = OnDisk(n) /\ fileExists(n)' = fileExists(n)
           /\ \A h : Expected(h)' = Expected(h)
           /\ \A h, c : Searched(h, c)' = Searched(h, c)
<1>1. \A n : OnDisk(n)' = OnDisk(n) /\ fileExists(n)' = fileExists(n)
  BY DEF OnDisk, fileExists
<1>2. \A h : Expected(h)' = Expected(h)  BY DEF Expected, OnDisk, fileExists
<1>3. \A h, c : Searched(h, c)' = Searched(h, c)  BY DEF Searched, fileExists
<1> QED  BY <1>1, <1>2, <1>3

(* The first candidate that has files decides.                             *)
LEMMA FirstFound ==
    ASSUME NEW h \in Hosts, NEW c \in Seq(Seq(Labels)), Searched(h, c), c # <<>>,
           fileExists(c[1])
    PROVE  Expected(h) = OnDisk(c[1])
<1> DEFINE all == certificateCandidates(h)
           found == {i \in DOMAIN all : fileExists(all[i])}
<1>1. all \in Seq(Seq(Labels))  BY CandidateNames
<1>2. PICK k \in 0 .. Len(all) : Dropped(c, all, k) /\ \A i \in 1 .. k : ~fileExists(all[i])
  BY DEF Searched
<1> HIDE DEF all
<1>3. 1 \in 1 .. Len(c) /\ Len(all) \in Nat /\ Len(c) \in Nat  BY <1>1
<1>4. k + 1 \in 1 .. Len(all) /\ c[1] = all[k + 1]  BY <1>2, <1>3 DEF Dropped
<1>5. DOMAIN all = 1 .. Len(all)  BY <1>1
<1>6. k + 1 \in found  BY <1>4, <1>5
<1>7. \A j \in found : j \in Nat /\ k + 1 <= j
  <2>1. ASSUME NEW j \in found PROVE j \in Nat /\ k + 1 <= j
    <3>1. j \in 1 .. Len(all) /\ fileExists(all[j])  BY <1>5
    <3>2. j \notin 1 .. k  BY <1>2, <3>1
    <3> QED  BY <1>3, <3>1, <3>2
  <2> QED  BY <2>1
<1> HIDE DEF found
<1>8. Min(found) = k + 1
  <2>1. \A x \in found : (\A y \in found : x <= y) => x = k + 1  BY <1>6, <1>7
  <2> QED  BY <1>6, <1>7, <2>1 DEF Min
<1>9. found # {}  BY <1>6
<1> QED  BY <1>4, <1>8, <1>9 DEF Expected, all, found

(* Without a candidate that has files nothing is expected.                 *)
LEMMA NothingFound ==
    ASSUME NEW h \in Hosts, Searched(h, <<>>)
    PROVE  Expected(h) = NoCert
<1> DEFINE all == certificateCandidates(h)
<1>1. all \in Seq(Seq(Labels))  BY CandidateNames
<1>2. PICK k \in 0 .. Len(all) : Dropped(<<>>, all, k) /\ \A i \in 1 .. k : ~fileExists(all[i])
  BY DEF Searched
<1> HIDE DEF all
<1>3. k = Len(all) /\ DOMAIN all = 1 .. Len(all)  BY <1>1, <1>2 DEF Dropped
<1>4. {i \in DOMAIN all : fileExists(all[i])} = {}  BY <1>2, <1>3
<1> QED  BY <1>4 DEF Expected, all

(* Nothing was left out yet.                                               *)
LEMMA SearchBegins ==
    ASSUME NEW h \in Hosts
    PROVE  Searched(h, certificateCandidates(h))
<1> DEFINE all == certificateCandidates(h)
<1>1. all \in Seq(Seq(Labels))  BY CandidateNames
<1> HIDE DEF all
<1>2. Len(all) \in Nat /\ 0 \in 0 .. Len(all)  BY <1>1
<1>3. Dropped(all, all, 0)  BY <1>2 DEF Dropped
<1>4. \A i \in 1 .. 0 : ~fileExists(all[i])  OBVIOUS
<1> QED  BY <1>2, <1>3, <1>4 DEF Searched, all

(* A candidate without files is left out.                                  *)
LEMMA SearchGoesOn ==
    ASSUME NEW h \in Hosts, NEW c \in Seq(Seq(Labels)), Searched(h, c), c # <<>>,
           ~fileExists(c[1])
    PROVE  Searched(h, Tail(c))
<1> DEFINE all == certificateCandidates(h)
<1>1. all \in Seq(Seq(Labels))  BY CandidateNames
<1>2. PICK k \in 0 .. Len(all) : Dropped(c, all, k) /\ \A i \in 1 .. k : ~fileExists(all[i])
  BY DEF Searched
<1> HIDE DEF all
<1>3. Len(c) \in Nat \ {0} /\ Len(all) \in Nat /\ Len(c) = Len(all) - k
  BY <1>1, <1>2 DEF Dropped
<1>4. k + 1 \in 1 .. Len(all) /\ c[1] = all[k + 1]  BY <1>2, <1>3 DEF Dropped
<1>5. PICK t : t = Tail(c)  OBVIOUS
<1>6. Len(t) = Len(c) - 1 /\ \A i \in 1 .. Len(t) : t[i] = c[i + 1]  BY <1>5
<1>7. \A i \in 1 .. Len(t) : i + 1 \in 1 .. Len(c) /\ k + (i + 1) = (k + 1) + i
  BY <1>3, <1>6
<1>8. \A i \in 1 .. Len(t) : t[i] = all[(k + 1) + i]  BY <1>2, <1>6, <1>7 DEF Dropped
<1>9. Len(t) = Len(all) - (k + 1) /\ k + 1 \in 0 .. Len(all)  BY <1>3, <1>4, <1>6
<1>10. Dropped(t, all, k + 1)  BY <1>8, <1>9 DEF Dropped
<1>11. \A i \in 1 .. k + 1 : ~fileExists(all[i])
  <2>1. ASSUME NEW i \in 1 .. k + 1 PROVE ~fileExists(all[i])
    <3>1. i \in 1 .. k \/ i = k + 1  OBVIOUS
    <3> QED  BY <1>2, <1>4, <3>1
  <2> QED  BY <2>1
<1> QED  BY <1>5, <1>9, <1>10, <1>11 DEF Searched, all

(* Steps that change no file and nothing of a Load but late.               *)
LEMMA CalmStays ==
    ASSUME CalmInv, UNCHANGED <<crt, key>>,
           Quiet => Quiet',
           \A l \in Loaders :
             /\ load'[l].pc = load[l].pc /\ load'[l].host = load[l].host
             /\ load'[l].cands = load[l].cands /\ load'[l].crt = load[l].crt
             /\ load'[l].pair = load[l].pair /\ load'[l].calm = load[l].calm
    PROVE  CalmInv'
<1>1. ASSUME NEW l \in Loaders PROVE CalmOK(load[l])'
  <2>1. CalmOK(load[l])  BY DEF CalmInv
  <2>2. PICK r : r = load[l]  OBVIOUS
  <2>3. PICK q : q = load'[l]  OBVIOUS
  <2>4. /\ q.pc = r.pc /\ q.host = r.host /\ q.cands = r.cands
        /\ q.crt = r.crt /\ q.pair = r.pair /\ q.calm = r.calm
    BY <2>2, <2>3
  <2>5. CalmOK(r)  BY <2>1, <2>2
  <2>6. ASSUME r.calm
        PROVE  /\ r.pc # "idle" /\ r.host \in Hosts
               /\ r.pc # "done" => Quiet' /\ Searched(r.host, r.cands)'
               /\ r.pc \in {"crt", "key", "add"} => fileExists(r.cands[1])'
               /\ r.pc = "key" => r.crt = crt'[r.cands[1]]
               /\ r.pc = "add" => r.crt = OnDisk(r.cands[1])'
               /\ r.pc = "done" => r.pair = Expected(r.host)'
    BY <2>5, <2>6, ExpectedFrame DEF CalmOK
  <2>7. CalmOK(q)'  BY <2>4, <2>6 DEF CalmOK
  <2> QED  BY <2>3, <2>7
<1> QED  BY <1>1 DEF CalmInv

(* What is left to itself stays quiet.                                     *)
LEMMA QuietFrame ==
    ASSUME UNCHANGED Others
    PROVE  Quiet' = Quiet
BY DEF Others, Quiet, HalfWritten, Closes, files, watching, Idle

(* Overtaking a Load makes it late and no more.                            *)
LEMMA OvertakeLate ==
    ASSUME ResolverType, NEW names, Overtake(names), NEW l \in Loaders
    PROVE  /\ load'[l].pc = load[l].pc /\ load'[l].host = load[l].host
           /\ load'[l].cands = load[l].cands /\ load'[l].crt = load[l].crt
           /\ load'[l].pair = load[l].pair /\ load'[l].calm = load[l].calm
<1>1. load[l] \in LoadStates  BY DEF ResolverType
<1> QED  BY <1>1 DEF Overtake, LoadStates

(* The steps that are not of a Load keep CalmInv: a file that changes      *)
(* disturbs every Load, and the watcher has nothing to do when it is quiet.*)
LEMMA OtherCalm ==
    ASSUME ResolverType, WriterInv, CalmInv,
           \/ \E w \in Writers, n \in Names :
                writeCertificateBundle(w, n) \/ removeCertificateFiles(w, n)
           \/ \E w \in Writers : WriterStep(w) \/ WriterFails(w)
           \/ ReadEvents \/ refresh \/ invalidateCacheForPaths
           \/ \E names : Forget(names)
    PROVE  CalmInv'
<1>1. ASSUME NEW w \in Writers, NEW n \in Names,
             writeCertificateBundle(w, n) \/ removeCertificateFiles(w, n)
      PROVE  CalmInv'
  <2>1. UNCHANGED <<files, watching, events, load, blind>>  BY <1>1, BeginCall
  <2>2. \A m \in Names : HalfWritten(m)' = HalfWritten(m)  BY <1>1, BeginAwaits
  <2>3. Quiet => Quiet'  BY <2>1, <2>2 DEF Quiet, files, watching
  <2> QED  BY <2>1, <2>3, CalmStays DEF files
<1>2. ASSUME NEW w \in Writers, WriterStep(w) PROVE CalmInv'
  <2>1. \A l \in Loaders : ~load'[l].calm
    <3>1. \A r \in LoadStates : ~[r EXCEPT !.calm = FALSE].calm  BY DEF LoadStates
    <3>2. \A l \in Loaders : load[l] \in LoadStates  BY DEF ResolverType
    <3> QED  BY <1>2, <3>1, <3>2 DEF WriterStep
  <2> QED  BY <2>1 DEF CalmInv, CalmOK
<1>3. ASSUME NEW w \in Writers, WriterFails(w) PROVE CalmInv'
  <2>1. PICK m \in Names : writer[w] # Idle /\ m = writer[w].name
    BY <1>3 DEF WriterFails, WriterInv, WriterOK
  <2>2. Quiet => events' = events
    <3>1. ASSUME ~HalfWritten(m) PROVE events' = events
      BY <1>3, <2>1, <3>1 DEF WriterFails, HalfWritten, Closes
    <3> QED  BY <3>1 DEF Quiet
  <2>3. UNCHANGED <<files, watching, load, blind>>  BY <1>3 DEF WriterFails
  <2>4. \A n \in Names : HalfWritten(n)' => HalfWritten(n)
    <3>1. \A x \in Writers : writer'[x] = IF x = w THEN Idle ELSE writer[x]
      BY <1>3 DEF WriterFails, ResolverType
    <3> QED  BY <3>1 DEF HalfWritten, Closes, Idle
  <2>5. Quiet => Quiet'  BY <2>2, <2>3, <2>4 DEF Quiet, files, watching
  <2> QED  BY <2>3, <2>5, CalmStays DEF files
<1>4. CASE ReadEvents \/ refresh
  <2>1. ~Quiet /\ UNCHANGED <<files, load>>  BY <1>4 DEF Quiet, ReadEvents, refresh
  <2> QED  BY <2>1, CalmStays DEF files
<1>5. CASE invalidateCacheForPaths
  <2>1. ~Quiet /\ UNCHANGED files /\ Overtake(batch)
    BY <1>5 DEF Quiet, invalidateCacheForPaths
  <2> QED  BY <2>1, CalmStays, OvertakeLate DEF files
<1>6. ASSUME NEW names, Forget(names) PROVE CalmInv'
  <2>1. UNCHANGED Others /\ Overtake(names)  BY <1>6 DEF Forget
  <2>2. Quiet' = Quiet  BY <2>1, QuietFrame
  <2> QED  BY <2>1, <2>2, CalmStays, OvertakeLate DEF Others, files
<1> QED  BY <1>1, <1>2, <1>3, <1>4, <1>5, <1>6

(* When it is quiet a cached certificate is the one on disk, unless raced. *)
LEMMA QuietCache ==
    ASSUME ResolverType, WatchInv, CacheInv, Quiet, NEW n \in Names
    PROVE  cert[n] \in {NoCert, OnDisk(n)} \/ raced[n]
<1>1. batch = {}  BY DEF Quiet, WatchInv
<1>2. ~Awaited(n)  BY <1>1 DEF Quiet, Awaited, Told
<1> QED  BY <1>2 DEF CacheInv

(* Every step of a Load keeps CalmInv.                                     *)
LEMMA LoadingCalm ==
    ASSUME ResolverType, WatchInv, CacheInv, CalmInv, NEW l \in Loaders, Loading(l)
    PROVE  CalmInv'
<1>0. UNCHANGED Others
  BY DEF Loading, BeginLoad, EndLoad, NotFound, Hit, Miss, Stat, ReadCrt, ReadKey, AddLoaded
<1>a. UNCHANGED <<crt, key>> /\ Quiet' = Quiet  BY <1>0, QuietFrame DEF Others, files
<1>b. load[l] \in LoadStates /\ LoadOK(load[l]) /\ CalmOK(load[l])
  BY DEF ResolverType, CacheInv, CalmInv
<1>c. ASSUME NEW r, load' = [load EXCEPT ![l] = r], CalmOK(r) PROVE CalmInv'
  <2>1. ASSUME NEW k \in Loaders PROVE CalmOK(load[k])'
    <3>1. PICK q : q = load'[k]  OBVIOUS
    <3>2. CalmOK(q)  BY <1>c, <3>1 DEF CalmInv, ResolverType
    <3>3. CalmOK(load[k])' <=> CalmOK(q)  BY <1>a, <3>1, ExpectedFrame DEF CalmOK
    <3> QED  BY <3>2, <3>3
  <2> QED  BY <2>1 DEF CalmInv
<1>d. ASSUME NEW pair, NEW calm, Return(l, pair, calm), load[l].pc # "done",
             load[l].calm /\ calm => pair = Expected(load[l].host)
      PROVE  CalmInv'
  <2>1. PICK r : /\ load' = [load EXCEPT ![l] = r]
                 /\ r = [load[l] EXCEPT !.calm = load[l].calm /\ calm, !.pc = "done",
                           !.cands = <<>>, !.crt = NoFile, !.pair = pair, !.late = FALSE]
    BY <1>d DEF Return
  <2>2. /\ r.pc = "done" /\ r.pair = pair /\ r.host = load[l].host
        /\ r.calm = (load[l].calm /\ calm)
    BY <1>b, <2>1 DEF LoadStates
  <2>3. CalmOK(r)  BY <1>b, <1>d, <2>2 DEF CalmOK
  <2> QED  BY <1>c, <2>1, <2>3
<1> DEFINE c == load[l].cands  h == load[l].host
<1>e. c \in Seq(Seq(Labels))  BY <1>b DEF LoadStates
<1>f. ASSUME load[l].calm, load[l].pc \notin {"idle", "done"}
      PROVE  h \in Hosts /\ Quiet /\ Searched(h, c)
  BY <1>b, <1>f DEF CalmOK
<1>1. ASSUME NEW g \in Hosts, BeginLoad(l, g) PROVE CalmInv'
  <2>1. PICK b \in BOOLEAN : b = (AtRest /\ \A n \in Names : ~Excused(n))  OBVIOUS
  <2>2. PICK r : /\ load' = [load EXCEPT ![l] = r]
                 /\ r = [Ready EXCEPT !.host = g, !.pc = "get",
                           !.cands = certificateCandidates(g), !.calm = b]
    BY <1>1, <2>1 DEF BeginLoad
  <2>3. r.pc = "get" /\ r.host = g /\ r.cands = certificateCandidates(g) /\ r.calm = b
    BY <2>2 DEF Ready
  <2>4. b => Quiet  BY <2>1 DEF AtRest, Excused, Quiet, HalfWritten, Closes
  <2>5. CalmOK(r)  BY <2>3, <2>4, SearchBegins DEF CalmOK
  <2> QED  BY <1>c, <2>2, <2>5
<1>2. CASE EndLoad(l)
  <2>1. CalmOK(Ready)  BY DEF CalmOK, Ready
  <2> QED  BY <1>2, <1>c, <2>1 DEF EndLoad
<1>3. CASE NotFound(l)
  <2>1. load[l].pc = "get" /\ c = <<>> /\ Return(l, NoCert, TRUE)  BY <1>3 DEF NotFound
  <2>2. load[l].calm => NoCert = Expected(h)  BY <1>f, <2>1, NothingFound
  <2> QED  BY <1>d, <2>1, <2>2
<1>4. CASE Hit(l)
  <2>1. PICK n : /\ load[l].pc = "get" /\ c # <<>> /\ n = c[1] /\ Cached(n)
                 /\ Return(l, cert[n], ~raced[n])
    BY <1>4 DEF Hit
  <2>2. ASSUME load[l].calm, ~raced[n] PROVE cert[n] = Expected(h)
    <3>1. h \in Hosts /\ Quiet /\ Searched(h, c)  BY <1>f, <2>1, <2>2
    <3>2. n \in Names /\ cert[n] # NoCert  BY <2>1 DEF Cached
    <3>3. cert[n] = OnDisk(n)  BY <2>2, <3>1, <3>2, QuietCache
    <3>4. fileExists(n)  BY <3>2, <3>3, VersionFacts DEF OnDisk, fileExists
    <3> QED  BY <1>e, <2>1, <3>1, <3>3, <3>4, FirstFound
  <2> QED  BY <1>d, <2>1, <2>2
<1>5. CASE Miss(l)
  <2>1. load' = [load EXCEPT ![l] = [load[l] EXCEPT !.pc = "stat"]]  BY <1>5 DEF Miss
  <2>2. PICK r : r = [load[l] EXCEPT !.pc = "stat"]  OBVIOUS
  <2>3. /\ r.pc = "stat" /\ r.host = h /\ r.cands = c /\ r.calm = load[l].calm
        /\ load[l].pc = "get"
    BY <1>5, <1>b, <2>2 DEF LoadStates, Miss
  <2>4. CalmOK(r)  BY <1>f, <2>3 DEF CalmOK
  <2> QED  BY <1>c, <2>1, <2>2, <2>4
<1>6. CASE Stat(l)
  <2>1. load[l].pc = "stat" /\ c # <<>>  BY <1>6, <1>b DEF Stat, LoadOK
  <2>2. CASE fileExists(c[1])
    <3>1. PICK r : load' = [load EXCEPT ![l] = r] /\ r = [load[l] EXCEPT !.pc = "crt"]
      BY <1>6, <2>2 DEF Stat
    <3>2. r.pc = "crt" /\ r.host = h /\ r.cands = c /\ r.calm = load[l].calm
      BY <1>b, <3>1 DEF LoadStates
    <3>3. CalmOK(r)  BY <1>f, <2>1, <2>2, <3>2 DEF CalmOK
    <3> QED  BY <1>c, <3>1, <3>3
  <2>3. CASE ~fileExists(c[1])
    <3>1. PICK r : /\ load' = [load EXCEPT ![l] = r]
                   /\ r = [load[l] EXCEPT !.pc = "get", !.cands = Tail(c)]
      BY <1>6, <2>3 DEF Stat
    <3>2. r.pc = "get" /\ r.host = h /\ r.cands = Tail(c) /\ r.calm = load[l].calm
      BY <1>b, <3>1 DEF LoadStates
    <3>3. load[l].calm => Searched(h, Tail(c))
      BY <1>e, <1>f, <2>1, <2>3, SearchGoesOn
    <3>4. CalmOK(r)  BY <1>f, <2>1, <3>2, <3>3 DEF CalmOK
    <3> QED  BY <1>c, <3>1, <3>4
  <2> QED  BY <2>2, <2>3
<1>7. CASE ReadCrt(l)
  <2>1. load[l].pc = "crt" /\ c # <<>> /\ c[1] \in Names  BY <1>7, <1>b DEF ReadCrt, LoadOK
  <2>2. load[l].calm => fileExists(c[1])  BY <1>b, <2>1 DEF CalmOK
  <2>3. CASE crt[c[1]] \in Versions
    <3>0. load' = [load EXCEPT ![l].pc = "key", ![l].crt = crt[c[1]]]
      BY <1>7, <2>3 DEF ReadCrt
    <3>1. PICK r : /\ load' = [load EXCEPT ![l] = r]
                   /\ r = [load[l] EXCEPT !.pc = "key", !.crt = crt[c[1]]]
      BY <3>0, Zenon
    <3>2. /\ r.pc = "key" /\ r.host = h /\ r.cands = c /\ r.calm = load[l].calm
          /\ r.crt = crt[c[1]]
      BY <1>b, <3>1 DEF LoadStates
    <3>3. CalmOK(r)  BY <1>f, <2>1, <2>2, <3>2 DEF CalmOK
    <3> QED  BY <1>c, <3>1, <3>3
  <2>4. CASE crt[c[1]] \notin Versions
    <3>1. Return(l, NoCert, TRUE)  BY <1>7, <2>4 DEF ReadCrt
    <3>2. OnDisk(c[1]) = NoCert  BY <2>4 DEF OnDisk
    <3>3. load[l].calm => NoCert = Expected(h)
      BY <1>e, <1>f, <2>1, <2>2, <3>2, FirstFound
    <3> QED  BY <1>d, <2>1, <3>1, <3>3
  <2> QED  BY <2>3, <2>4
<1>8. CASE ReadKey(l)
  <2>1. load[l].pc = "key" /\ c # <<>> /\ c[1] \in Names /\ load[l].crt \in Versions
    BY <1>8, <1>b DEF ReadKey, LoadOK
  <2>2. load[l].calm => fileExists(c[1]) /\ load[l].crt = crt[c[1]]  BY <1>b, <2>1 DEF CalmOK
  <2>3. CASE key[c[1]] = load[l].crt
    <3>1. PICK r : load' = [load EXCEPT ![l] = r] /\ r = [load[l] EXCEPT !.pc = "add"]
      BY <1>8, <2>3 DEF ReadKey
    <3>2. /\ r.pc = "add" /\ r.host = h /\ r.cands = c /\ r.calm = load[l].calm
          /\ r.crt = load[l].crt
      BY <1>b, <3>1 DEF LoadStates
    <3>3. load[l].calm => load[l].crt = OnDisk(c[1])  BY <2>1, <2>2, <2>3 DEF OnDisk
    <3>4. CalmOK(r)  BY <1>f, <2>1, <2>2, <3>2, <3>3 DEF CalmOK
    <3> QED  BY <1>c, <3>1, <3>4
  <2>4. CASE key[c[1]] # load[l].crt
    <3>1. Return(l, NoCert, TRUE)  BY <1>8, <2>4 DEF ReadKey
    <3>2. load[l].calm => OnDisk(c[1]) = NoCert  BY <2>2, <2>4 DEF OnDisk
    <3>3. load[l].calm => NoCert = Expected(h)
      BY <1>e, <1>f, <2>1, <2>2, <3>2, FirstFound
    <3> QED  BY <1>d, <2>1, <3>1, <3>3
  <2> QED  BY <2>3, <2>4
<1>9. CASE AddLoaded(l)
  <2>1. load[l].pc = "add" /\ c # <<>> /\ Return(l, load[l].crt, TRUE)
    BY <1>9, <1>b DEF AddLoaded, LoadOK
  <2>2. load[l].calm => fileExists(c[1]) /\ load[l].crt = OnDisk(c[1])
    BY <1>b, <2>1 DEF CalmOK
  <2>3. load[l].calm => load[l].crt = Expected(h)
    BY <1>e, <1>f, <2>1, <2>2, FirstFound
  <2> QED  BY <1>d, <2>1, <2>3
<1> QED  BY <1>1, <1>2, <1>3, <1>4, <1>5, <1>6, <1>7, <1>8, <1>9 DEF Loading

-----------------------------------------------------------------------------

(***************************************************************************)
(* The theorems.                                                           *)
(***************************************************************************)

(* What a loader and a writer start from.                                  *)
LEMMA StartTypes ==
    /\ Ready \in LoadStates /\ Ready.pc = "idle" /\ ~Ready.calm
    /\ Idle \in Calls
<1>1. Ready \in LoadStates  BY DEF Ready, LoadStates, NoFile, NoCert
<1>2. Ready.pc = "idle" /\ ~Ready.calm  BY DEF Ready
<1>3. Idle \in Calls  BY DEF Idle, Calls
<1> QED  BY <1>1, <1>2, <1>3

(* The invariant holds when the ingress starts.                            *)
LEMMA InvInit ==
    ASSUME Init
    PROVE  ResolverInv
<1> USE DEF Init
<1>1. ResolverType
  <2>1. dirs \in [Names -> Nat] /\ watches \in [Names -> Nat]  OBVIOUS
  <2>2. crt \in [Names -> Int] /\ key \in [Names -> Int] /\ cert \in [Names -> Int]
    BY DEF NoFile, NoCert
  <2>3. load \in [Loaders -> LoadStates]  BY StartTypes
  <2>4. writer \in [Writers -> Calls] /\ changes \in Nat
    BY StartTypes
  <2>5. raced \in [Names -> BOOLEAN] /\ blind \in [Names -> BOOLEAN]  OBVIOUS
  <2>6. /\ wildDir \in BOOLEAN /\ wildWatched \in BOOLEAN
        /\ events = {} /\ batch = {} /\ wpc = "read"
    OBVIOUS
  <2> QED  BY <2>1, <2>2, <2>3, <2>4, <2>5, <2>6 DEF ResolverType
<1>2. WriterInv  BY DEF WriterInv, WriterOK
<1>3. WatchInv  BY DEF WatchInv, WatchOK, ParentWatched
<1>4. CacheInv  BY StartTypes DEF CacheInv, LoadOK, NoCert
<1>5. CalmInv  BY StartTypes DEF CalmInv, CalmOK
<1> QED  BY <1>1, <1>2, <1>3, <1>4, <1>5 DEF ResolverInv

(* Every step keeps the invariant.                                         *)
LEMMA InvStep ==
    ASSUME ResolverInv, [Next]_vars
    PROVE  ResolverInv'
<1> USE DEF ResolverInv
<1>1. ASSUME NEW w \in Writers, NEW n \in Names,
             writeCertificateBundle(w, n) \/ removeCertificateFiles(w, n)
      PROVE  ResolverInv'
  <2>1. UNCHANGED <<files, watching, events, cache, load, blind>>  BY <1>1, BeginCall
  <2>2. WatchInv'  BY <2>1, WatchFrame DEF files
  <2>3. \A m \in Names : (Awaited(m) => Awaited(m)') /\ OnDisk(m)' = OnDisk(m)
    BY <1>1, BeginAwaits
  <2>4. UNCHANGED <<cert, raced, crt, load>>  BY <2>1 DEF files, cache
  <2>5. CacheInv'  BY <2>3, <2>4 DEF CacheInv, LoadOK
  <2>6. WriterInv'  BY <1>1, WriterInvStep DEF Next
  <2>7. ResolverType' /\ CalmInv'  BY <1>1, OtherType, OtherCalm
  <2> QED  BY <2>2, <2>5, <2>6, <2>7
<1>2. ASSUME NEW w \in Writers, WriterStep(w) \/ WriterFails(w) PROVE ResolverInv'
  <2>1. WriterInv' /\ WatchInv' /\ CacheInv'
    BY <1>2, WriterInvStep, WriterWatch, WriterCache DEF Next
  <2>2. ResolverType' /\ CalmInv'  BY <1>2, WriterType, OtherType, OtherCalm
  <2> QED  BY <2>1, <2>2
<1>3. CASE ReadEvents \/ refresh \/ invalidateCacheForPaths
  <2>1. WriterInv' /\ WatchInv' /\ CacheInv'
    BY <1>3, WriterInvStep, WatcherWatch, WatcherCache DEF Next
  <2>2. ResolverType' /\ CalmInv'  BY <1>3, OtherType, OtherCalm
  <2> QED  BY <2>1, <2>2
<1>4. ASSUME NEW l \in Loaders, Loading(l), Next PROVE ResolverInv'
  <2>1. UNCHANGED Others
    BY <1>4 DEF Loading, BeginLoad, EndLoad, NotFound, Hit, Miss, Stat, ReadCrt, ReadKey, AddLoaded
  <2>2. WatchInv'  BY <2>1, WatchFrame DEF Others, files
  <2>3. ResolverType' /\ WriterInv'  BY <1>4, LoadingType, WriterInvStep
  <2>4. CacheInv' /\ CalmInv'  BY <1>4, LoadingCache, LoadingCalm
  <2> QED  BY <2>2, <2>3, <2>4
<1>5. ASSUME NEW names, Forget(names), Next PROVE ResolverInv'
  <2>1. UNCHANGED Others /\ Delete(names) /\ Overtake(names)  BY <1>5 DEF Forget
  <2>2. WatchInv'  BY <2>1, WatchFrame DEF Others, files
  <2>3. \A n \in Names : Awaited(n)' = Awaited(n)  BY <2>1, AwaitedFrame DEF Others
  <2>4. CacheInv'  BY <2>1, <2>3, DropCache DEF Others, files
  <2>5. ResolverType' /\ WriterInv' /\ CalmInv'  BY <1>5, OtherType, WriterInvStep, OtherCalm
  <2> QED  BY <2>2, <2>4, <2>5
<1>6. CASE UNCHANGED vars
  <2>1. UNCHANGED Others /\ UNCHANGED <<cert, raced, load, crt>>
    BY <1>6 DEF vars, Others, cache, files
  <2>2. WatchInv'  BY <2>1, WatchFrame DEF Others, files
  <2>3. \A n \in Names : Awaited(n)' = Awaited(n) /\ OnDisk(n)' = OnDisk(n)
    BY <2>1, AwaitedFrame DEF Others
  <2>4. CacheInv'  BY <2>1, <2>3 DEF CacheInv, LoadOK
  <2>5. CalmInv'  BY <2>1, QuietFrame, CalmStays DEF Others, files
  <2>6. ResolverType'
    BY <1>6 DEF vars, files, watching, cache, ResolverType
  <2>7. WriterInv'  BY <2>1 DEF Others, files, WriterInv, WriterOK, IsRemoval, Idle
  <2> QED  BY <2>2, <2>4, <2>5, <2>6, <2>7
<1> QED  BY <1>1, <1>2, <1>3, <1>4, <1>5, <1>6 DEF Next, Loading

(* The inductive invariant: what the watcher knows, what it will hear and  *)
(* what the cache and the Loads hold.                                      *)
THEOREM ResolverInvHolds == Spec => []ResolverInv
<1>1. Init => ResolverInv  BY InvInit
<1>2. ResolverInv /\ [Next]_vars => ResolverInv'  BY InvStep
<1> QED  BY <1>1, <1>2, PTL DEF Spec

(* Once all events are handled the cache holds what is on disk, however    *)
(* the writes of bundles, the watcher and any number of Loads interleave   *)
(* (invalidateCacheForPaths, refresh, Load).                               *)
THEOREM CacheIsOnDisk == Spec => []CacheFollowsDisk
<1>1. ResolverInv => CacheFollowsDisk
  <2>1. SUFFICES ASSUME ResolverInv, AtRest, NEW n \in Names
                 PROVE  cert[n] \in {NoCert, OnDisk(n)} \/ Excused(n)
    BY DEF CacheFollowsDisk
  <2>2. batch = {} /\ events = {} /\ \A w \in Writers : writer[w] = Idle
    BY <2>1 DEF ResolverInv, WatchInv, AtRest
  <2>3. Awaited(n) => watches[n] # dirs[n] \/ blind[n]
    BY <2>2 DEF Awaited, Told, HalfWritten, Closes
  <2> QED  BY <2>1, <2>3 DEF ResolverInv, CacheInv, Excused
<1> QED  BY <1>1, ResolverInvHolds, PTL

(* A Load that nothing disturbs returns the certificate of the exact name  *)
(* if it has files, else that of the nearest wildcard, whatever is cached  *)
(* and evicted meanwhile (Load, certificateCandidates).                    *)
THEOREM ExactWins == Spec => []ExactBeforeWildcard
<1>1. ResolverInv => ExactBeforeWildcard
  BY DEF ResolverInv, CalmInv, CalmOK, ExactBeforeWildcard
<1> QED  BY <1>1, ResolverInvHolds, PTL
=============================================================================
