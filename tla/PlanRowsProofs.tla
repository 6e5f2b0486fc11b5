--------------------------- MODULE PlanRowsProofs ---------------------------
(***************************************************************************)
(* What a plan does to the rows of one hostname, for any desire and any    *)
(* rows: lemmas about the operators of PlanBuilder, from identifiers and   *)
(* the reconstruction of the current state to what one plan, two plans and *)
(* no plan leave.                                                          *)
(***************************************************************************)
EXTENDS PlanBuilder, NaturalsInduction, WellFoundedInduction, TLAPS

\* Min of a set of natural numbers that is not empty is its least element:
\* where sanitizeBuilderIDPart begins to keep a value.
LEMMA LeastNatural ==
    ASSUME NEW S \in SUBSET Nat, S # {}
    PROVE  Min(S) \in S /\ \A y \in S : Min(S) <= y
<1>1. \E x \in S : \A y \in S : ~(<<y, x>> \in OpToRel(<, Nat))
  BY NatLessThanWellFounded, WFMin, Zenon
<1>2. \A x, y \in Nat : y < x => <<y, x>> \in OpToRel(<, Nat)
  BY Zenon DEF OpToRel
<1>3. \E x \in S : \A y \in S : ~(y < x)
  BY <1>1, <1>2, Zenon
<1>4. \E x \in S : \A y \in S : x <= y
  BY <1>3
<1> QED BY <1>4, Zenon DEF Min

\* Max of a set of places is the last of them: where sanitizeBuilderIDPart
\* stops, and which of several routes of one identifier the map of the Builder
\* keeps.
LEMMA GreatestNatural ==
    ASSUME NEW n \in Nat, NEW S \in SUBSET (1 .. n), S # {}
    PROVE  Max(S) \in S /\ \A y \in S : y <= Max(S)
<1>1. PICK T : T = {n - x : x \in S}
  BY Zenon
<1>2. T \in SUBSET Nat /\ T # {}
  <2>1. \A x \in S : n - x \in Nat
    OBVIOUS
  <2> QED BY <1>1, <2>1, Zenon
<1>3. Min(T) \in T /\ \A y \in T : Min(T) <= y
  BY <1>2, LeastNatural
<1>4. PICK x \in S : Min(T) = n - x
  BY <1>1, <1>3, Zenon
<1>5. \A y \in S : n - y \in T
  BY <1>1
<1>6. \A y \in S : y <= x
  BY <1>3, <1>4, <1>5
<1>7. \E z \in S : \A y \in S : z >= y
  BY <1>6
<1>8. Max(S) \in S /\ \A y \in S : Max(S) >= y
  BY <1>7, Zenon DEF Max
<1> QED BY <1>8

\* A part of a sequence, from one of its places to a later one, is not empty.
LEMMA PartIsNotEmpty ==
    ASSUME NEW S, NEW f \in Seq(S),
           NEW m \in 1 .. Len(f), NEW n \in 1 .. Len(f), m <= n
    PROVE  SubSeq(f, m, n) # <<>>
OBVIOUS

\* A function on an initial segment of the naturals is a sequence: what
\* sanitizeBuilderIDPart makes of a value, token by token.
LEMMA FunctionIsSequence ==
    ASSUME NEW f, NEW k \in Nat, f = [i \in 1 .. k |-> f[i]]
    PROVE  f \in Seq({f[i] : i \in 1 .. k}) /\ Len(f) = k
<1>1. f \in Seq({f[i] : i \in 1 .. k})
  OBVIOUS
<1> QED BY <1>1

\* An identifier is never empty: sanitizeBuilderIDPart keeps a word of the
\* value, or calls it root.
LEMMA IDsAreNotEmpty ==
    ASSUME NEW S, NEW value \in Seq(S)
    PROVE  sanitizeBuilderIDPart(value) # NoID
<1>1. PICK words : words = {i \in DOMAIN value : value[i] \notin Separators}
  BY Zenon
<1>2. PICK replaced : replaced = [i \in DOMAIN value |->
                       IF value[i] \in Separators THEN Underscore
                       ELSE IF value[i] = "*" THEN "wildcard"
                       ELSE ToLower(value[i])]
  BY Zenon
<1>3. sanitizeBuilderIDPart(value) =
        IF words = {} THEN <<"root">> ELSE SubSeq(replaced, Min(words), Max(words))
  BY <1>1, <1>2 DEF sanitizeBuilderIDPart
<1>4. CASE words = {}
  BY <1>3, <1>4 DEF NoID
<1>5. CASE words # {}
  <2>1. words \in SUBSET (1 .. Len(value)) /\ Len(value) \in Nat
    BY <1>1
  <2>2. words \in SUBSET Nat
    BY <2>1
  <2>3. PICK m : m = Min(words)
    OBVIOUS
  <2>4. PICK n : n = Max(words)
    OBVIOUS
  <2>5. m \in words /\ \A y \in words : m <= y
    BY <1>5, <2>2, <2>3, LeastNatural
  <2>6. n \in words
    BY <1>5, <2>1, <2>4, GreatestNatural, Zenon
  <2>7. m \in 1 .. Len(value) /\ n \in 1 .. Len(value) /\ m <= n
    BY <2>1, <2>5, <2>6
  <2>8. replaced = [i \in 1 .. Len(value) |-> replaced[i]]
    <3>1. DOMAIN value = 1 .. Len(value)
      OBVIOUS
    <3> QED BY <1>2, <3>1
  <2>9. PICK k : k = Len(value)
    OBVIOUS
  <2>10. PICK S2 : replaced \in Seq(S2) /\ Len(replaced) = k
    BY <2>1, <2>8, <2>9, FunctionIsSequence, Zenon
  <2>11. SubSeq(replaced, m, n) # <<>>
    BY <2>7, <2>9, <2>10, PartIsNotEmpty
  <2> QED BY <1>3, <1>5, <2>3, <2>4, <2>11 DEF NoID
<1> QED BY <1>4, <1>5

\* The rows of a desire: the last of the routes of an identifier makes them.
DesiredOK(b, D, E) ==
    /\ DOMAIN E = DOMAIN D
    /\ DOMAIN D = {routeID(b.routes[i].path) : i \in DOMAIN b.routes}
    /\ NoID \notin DOMAIN D
    /\ \A id \in DOMAIN D : \E i \in DOMAIN b.routes :
        /\ routeID(b.routes[i].path) = id
        /\ \A j \in DOMAIN b.routes : routeID(b.routes[j].path) = id => j <= i
        /\ D[id] = [path |-> b.routes[i].path, ref |-> id]
        /\ E[id] = b.routes[i].target

\* The routes and backends the Builder desires: one backend for each route, of
\* the same identifier, with the target of the last route asked for it.
LEMMA DesiredRows ==
    ASSUME NEW b, BuilderOK(b)
    PROVE  DesiredOK(b, DesiredRoutes(b), DesiredBackends(b))
<1>d. PICK D : D = DesiredRoutes(b)
  OBVIOUS
<1>e. PICK E : E = DesiredBackends(b)
  OBVIOUS
<1>1. PICK r : r = b.routes
  OBVIOUS
<1>2. r \in Seq([path : Seq(STRING), target : STRING \ {NoTarget}])
  BY <1>1 DEF BuilderOK
<1>3. D = [id \in {routeID(r[i].path) : i \in DOMAIN r} |->
            [path |-> r[Max({i \in DOMAIN r : routeID(r[i].path) = id})].path,
             ref |-> backendRefID(r[Max({i \in DOMAIN r : routeID(r[i].path) = id})].path)]]
  BY <1>1, <1>d DEF DesiredRoutes, ByID
<1>4. E = [id \in {backendRefID(r[i].path) : i \in DOMAIN r} |->
            r[Max({i \in DOMAIN r : backendRefID(r[i].path) = id})].target]
  BY <1>1, <1>e DEF DesiredBackends, ByID
<1>5. \A p : backendRefID(p) = routeID(p)
  BY DEF backendRefID, routeID
<1>6. DOMAIN E = DOMAIN D
  BY <1>3, <1>4, <1>5
<1>7. DOMAIN D = {routeID(r[i].path) : i \in DOMAIN r}
  BY <1>3
<1>8. \A i \in DOMAIN r : routeID(r[i].path) # NoID
  <2>1. \A i \in DOMAIN r : r[i].path \in Seq(STRING)
    <3>1. PICK X : X = [path : Seq(STRING), target : STRING \ {NoTarget}]
      BY Zenon
    <3>2. r \in Seq(X)
      BY <1>2, <3>1
    <3>3. \A i \in DOMAIN r : r[i] \in X
      BY <3>2
    <3> QED BY <3>1, <3>3
  <2> QED BY <2>1, IDsAreNotEmpty DEF routeID
<1>9. ASSUME NEW id \in DOMAIN D
      PROVE  \E i \in DOMAIN r :
                /\ routeID(r[i].path) = id
                /\ \A j \in DOMAIN r : routeID(r[j].path) = id => j <= i
                /\ D[id] = [path |-> r[i].path, ref |-> id]
                /\ E[id] = r[i].target
  <2>1. PICK S : S = {i \in DOMAIN r : routeID(r[i].path) = id}
    BY Zenon
  <2>2. S \in SUBSET (1 .. Len(r)) /\ Len(r) \in Nat /\ S # {}
    BY <1>2, <1>7, <1>9, <2>1
  <2>3. PICK i : i = Max(S)
    OBVIOUS
  <2>4. i \in S /\ \A y \in S : y <= i
    BY <2>2, <2>3, GreatestNatural, Zenon
  <2>5. D[id] = [path |-> r[i].path, ref |-> backendRefID(r[i].path)]
    BY <1>3, <1>7, <1>9, <2>1, <2>3
  <2>6. E[id] = r[i].target
    <3>1. id \in {backendRefID(r[j].path) : j \in DOMAIN r}
      BY <1>5, <1>7, <1>9
    <3>2. S = {j \in DOMAIN r : backendRefID(r[j].path) = id}
      BY <1>5, <2>1
    <3> QED BY <1>4, <2>3, <3>1, <3>2
  <2> QED BY <1>5, <2>1, <2>4, <2>5, <2>6
<1>10. DesiredOK(b, D, E)
  BY <1>1, <1>6, <1>7, <1>8, <1>9 DEF DesiredOK
<1> QED BY <1>d, <1>e, <1>10

\* Of two changes in order, the rows put last are the ones put.
LEMMA ThenPut ==
    ASSUME NEW first, NEW second
    PROVE  Then(first, second).put = Over(second.put, first.put)
BY DEF Then

\* Of two changes in order, a row either deletes is deleted.
LEMMA ThenDel ==
    ASSUME NEW first, NEW second
    PROVE  Then(first, second).del = first.del \cup second.del
BY DEF Then

\* A change that only deletes: what Build adds for the backends of the routes
\* an L4 entry no longer has.
LEMMA DeletingFields ==
    ASSUME NEW ids
    PROVE  Deleting(ids).put = Empty /\ Deleting(ids).del = ids
BY DEF Deleting

\* Rows over which none is put are as they were.
LEMMA OverNone ==
    ASSUME NEW rows
    PROVE  /\ DOMAIN Over(Empty, rows) = DOMAIN rows
           /\ \A id \in DOMAIN rows : Over(Empty, rows)[id] = rows[id]
BY DEF Over, Empty

\* The fields of a route as the projection shows it.
LEMMA ShownFields ==
    ASSUME NEW id, NEW p, NEW q, NEW x, x = [id |-> id, path |-> p, ref |-> q]
    PROVE  x.id = id /\ x.path = p /\ x.ref = q
OBVIOUS

\* The fields of a route as the Builder writes it.
LEMMA DesiredFields ==
    ASSUME NEW p, NEW q, NEW x, x = [path |-> p, ref |-> q]
    PROVE  x.path = p /\ x.ref = q
OBVIOUS

\* No reference has no identifier and no target.
LEMMA NoRefFields == NoRef.id = NoID /\ NoRef.target = NoTarget
BY DEF NoRef

\* Routes that refer to the backend of their own identifier refer to as many.
LEMMA OwnRefs ==
    ASSUME NEW f, NEW S, \A id \in S : f[id].ref = id
    PROVE  {f[id].ref : id \in S} = S
OBVIOUS

\* What the projection shows of the rows: the routes of an L7 entry, the live
\* backends they refer to, and the live backend an L4 entry is bound to.
VisibleRoutes(t) ==
    IF t.domain = NoDomain \/ isL4BackendType(t.domain.type) THEN {}
    ELSE DOMAIN t.routes

VisibleRefs(t) ==
    {t.routes[id].ref : id \in VisibleRoutes(t)} \cap DOMAIN t.backends

BoundRefs(t) ==
    IF t.domain # NoDomain /\ isL4BackendType(t.domain.type)
    THEN {t.domain.bound} \cap DOMAIN t.backends ELSE {}

\* What a reference shows: a live backend row with its identifier, or nothing,
\* and the two differ since no row has an empty identifier.
LEMMA LiveRows ==
    ASSUME NEW t, TableOK(t), NEW id
    PROVE  /\ id \in DOMAIN t.backends =>
                /\ Live(t, id) = [id |-> id, target |-> t.backends[id]]
                /\ Live(t, id).id = id /\ Live(t, id).target = t.backends[id]
                /\ Live(t, id) # NoRef
           /\ id \notin DOMAIN t.backends =>
                /\ Live(t, id) = NoRef
                /\ Live(t, id).id = NoID /\ Live(t, id).target = NoTarget
<1>1. NoRef.id = NoID /\ NoRef.target = NoTarget
  BY DEF NoRef
<1>2. CASE id \in DOMAIN t.backends
  <2>1. Live(t, id) = [id |-> id, target |-> t.backends[id]]
    BY <1>2 DEF Live
  <2>2. Live(t, id).id = id /\ Live(t, id).target = t.backends[id]
    BY <2>1
  <2>3. id # NoID
    BY <1>2 DEF TableOK
  <2> QED BY <1>1, <1>2, <2>1, <2>2, <2>3
<1>3. CASE id \notin DOMAIN t.backends
  BY <1>1, <1>3 DEF Live
<1> QED BY <1>2, <1>3

\* The row a reference to a live backend shows.
LEMMA LiveRow ==
    ASSUME NEW t, NEW id, id \in DOMAIN t.backends
    PROVE  /\ Live(t, id) = [id |-> id, target |-> t.backends[id]]
           /\ Live(t, id).id = id
           /\ Live(t, id).target = t.backends[id]
<1>1. Live(t, id) = [id |-> id, target |-> t.backends[id]]
  BY DEF Live
<1> QED BY <1>1

\* The projection of a hostname shows the visible routes, each with the live
\* backend it refers to, and the backend an L4 entry is bound to.
LEMMA ShownRoutes ==
    ASSUME NEW t, NEW seen, seen = GetDomainEntryProjectionByDomain(t)
    PROVE  /\ seen.routes = {[id |-> id, path |-> t.routes[id].path,
                              ref |-> Live(t, t.routes[id].ref)] :
                                id \in VisibleRoutes(t)}
           /\ seen.bound = IF t.domain # NoDomain /\ isL4BackendType(t.domain.type)
                           THEN Live(t, t.domain.bound) ELSE NoRef
<1>1. CASE t.domain = NoDomain
  <2>1. seen = NotFound
    BY <1>1 DEF GetDomainEntryProjectionByDomain
  <2>2. NotFound.routes = {} /\ NotFound.bound = NoRef
    BY DEF NotFound
  <2>3. VisibleRoutes(t) = {}
    BY <1>1 DEF VisibleRoutes
  <2> QED BY <1>1, <2>1, <2>2, <2>3
<1>2. CASE t.domain # NoDomain /\ isL4BackendType(t.domain.type)
  <2>1. seen.routes = {} /\ seen.bound = Live(t, t.domain.bound)
    BY <1>2 DEF GetDomainEntryProjectionByDomain
  <2>2. VisibleRoutes(t) = {}
    BY <1>2 DEF VisibleRoutes
  <2> QED BY <1>2, <2>1, <2>2
<1>3. CASE t.domain # NoDomain /\ ~isL4BackendType(t.domain.type)
  <2>1. seen = [type |-> t.domain.type, need |-> t.domain.need, bound |-> NoRef,
          routes |-> {[id |-> id, path |-> t.routes[id].path,
                       ref |-> Live(t, t.routes[id].ref)] :
                        id \in DOMAIN t.routes}]
    BY <1>3 DEF GetDomainEntryProjectionByDomain
  <2>2. VisibleRoutes(t) = DOMAIN t.routes
    BY <1>3 DEF VisibleRoutes
  <2> QED BY <1>3, <2>1, <2>2
<1> QED BY <1>1, <1>2, <1>3

RoutesOK(t, R) ==
    /\ DOMAIN R = VisibleRoutes(t)
    /\ \A id \in VisibleRoutes(t) :
         R[id] = [path |-> t.routes[id].path, ref |-> Live(t, t.routes[id].ref).id]

\* currentHTTPRoutes gets back from the projection the route rows of an L7
\* entry, but that a reference to a deleted backend has become empty.
LEMMA CurrentRoutes ==
    ASSUME NEW t, NEW seen, seen = GetDomainEntryProjectionByDomain(t),
           NEW R, R = currentHTTPRoutes(seen)
    PROVE  RoutesOK(t, R)
<1>1. PICK V : V = VisibleRoutes(t)
  OBVIOUS
<1>2. PICK routes : routes = seen.routes
  OBVIOUS
<1>3. routes = {[id |-> id, path |-> t.routes[id].path,
                 ref |-> Live(t, t.routes[id].ref)] : id \in V}
  BY <1>1, <1>2, ShownRoutes
<1>4. R = [id \in {r.id : r \in routes} |->
            [path |-> (CHOOSE x \in routes : x.id = id).path,
             ref |-> (CHOOSE x \in routes : x.id = id).ref.id]]
  BY <1>2 DEF currentHTTPRoutes
<1>5. {r.id : r \in routes} = V
  <2>1. \A r \in routes : r.id \in V
    BY <1>3
  <2>2. ASSUME NEW id \in V PROVE \E r \in routes : r.id = id
    <3>1. PICK r : r = [id |-> id, path |-> t.routes[id].path,
                        ref |-> Live(t, t.routes[id].ref)]
      BY Zenon
    <3>2. r \in routes /\ r.id = id
      BY <1>3, <2>2, <3>1
    <3> QED BY <3>2
  <2> QED BY <2>1, <2>2
<1>6. ASSUME NEW id \in V
      PROVE  R[id] = [path |-> t.routes[id].path,
                      ref |-> Live(t, t.routes[id].ref).id]
  <2>1. PICK x : x = CHOOSE y \in routes : y.id = id
    OBVIOUS
  <2>2. \E y \in routes : y.id = id
    BY <1>5, <1>6
  <2>3. x \in routes /\ x.id = id
    BY <2>1, <2>2
  <2>4. x = [id |-> id, path |-> t.routes[id].path,
             ref |-> Live(t, t.routes[id].ref)]
    BY <1>3, <2>3
  <2>5. R[id] = [path |-> x.path, ref |-> x.ref.id]
    BY <1>4, <1>5, <1>6, <2>1
  <2>6. x.path = t.routes[id].path /\ x.ref = Live(t, t.routes[id].ref)
    BY <2>4
  <2> QED BY <2>5, <2>6
<1>7. DOMAIN R = V
  BY <1>4, <1>5
<1> QED BY <1>1, <1>6, <1>7 DEF RoutesOK

\* currentL7BackendRefs gets back from the projection the live backend rows
\* that visible routes refer to.
LEMMA CurrentRefs ==
    ASSUME NEW t, TableOK(t), NEW seen, seen = GetDomainEntryProjectionByDomain(t),
           NEW L, L = currentL7BackendRefs(seen)
    PROVE  /\ DOMAIN L = VisibleRefs(t)
           /\ \A id \in VisibleRefs(t) : L[id] = t.backends[id]
<1>1. PICK V : V = VisibleRoutes(t)
  OBVIOUS
<1>2. PICK refs : refs = {r.ref : r \in seen.routes} \ {NoRef}
  BY Zenon
<1>3. L = [id \in {r.id : r \in refs} |-> (CHOOSE r \in refs : r.id = id).target]
  BY <1>2 DEF currentL7BackendRefs
<1>4. refs = {Live(t, t.routes[id].ref) : id \in V} \ {NoRef}
  <2>1. PICK routes : routes = seen.routes
    OBVIOUS
  <2>2. routes = {[id |-> id, path |-> t.routes[id].path,
                   ref |-> Live(t, t.routes[id].ref)] : id \in V}
    BY <1>1, <2>1, ShownRoutes
  <2>3. refs = {r.ref : r \in routes} \ {NoRef}
    BY <1>2, <2>1
  <2>4. \A r \in routes : \E id \in V : r.ref = Live(t, t.routes[id].ref)
    BY <2>2
  <2>5. ASSUME NEW id \in V
        PROVE  \E r \in routes : r.ref = Live(t, t.routes[id].ref)
    <3>1. PICK r : r = [id |-> id, path |-> t.routes[id].path,
                        ref |-> Live(t, t.routes[id].ref)]
      BY Zenon
    <3>2. r \in routes /\ r.ref = Live(t, t.routes[id].ref)
      BY <2>2, <2>5, <3>1
    <3> QED BY <3>2
  <2> QED BY <2>3, <2>4, <2>5
<1>5. VisibleRefs(t) = {t.routes[id].ref : id \in V} \cap DOMAIN t.backends
  BY <1>1 DEF VisibleRefs
<1>6. \A r \in refs : r.id \in VisibleRefs(t) /\ r.target = t.backends[r.id]
  BY <1>4, <1>5, LiveRows
<1>7. \A id \in VisibleRefs(t) : \E r \in refs : r.id = id
  BY <1>4, <1>5, LiveRows
<1>8. {r.id : r \in refs} = VisibleRefs(t)
  BY <1>6, <1>7
<1>9. ASSUME NEW id \in VisibleRefs(t) PROVE L[id] = t.backends[id]
  <2>1. PICK x : x = CHOOSE r \in refs : r.id = id
    OBVIOUS
  <2>2. x \in refs /\ x.id = id
    BY <1>7, <1>9, <2>1
  <2> QED BY <1>3, <1>6, <1>8, <1>9, <2>1, <2>2
<1> QED BY <1>3, <1>8, <1>9, Zenon

\* The projection shows a bound backend exactly if the entry is L4 and the row
\* is live; an entry never shows both routes and a bound backend.
LEMMA CurrentBound ==
    ASSUME NEW t, TableOK(t), NEW seen, seen = GetDomainEntryProjectionByDomain(t)
    PROVE  /\ BoundRefs(t) = {} => seen.bound = NoRef
           /\ BoundRefs(t) # {} =>
                /\ BoundRefs(t) = {t.domain.bound}
                /\ seen.bound = [id |-> t.domain.bound,
                                 target |-> t.backends[t.domain.bound]]
                /\ seen.bound # NoRef /\ seen.bound.id = t.domain.bound
           /\ VisibleRoutes(t) = {} \/ BoundRefs(t) = {}
<1>1. seen.bound = IF t.domain # NoDomain /\ isL4BackendType(t.domain.type)
                   THEN Live(t, t.domain.bound) ELSE NoRef
  BY ShownRoutes
<1>2. CASE BoundRefs(t) = {}
  BY <1>1, <1>2, LiveRows DEF BoundRefs
<1>3. CASE BoundRefs(t) # {}
  <2>1. t.domain # NoDomain /\ isL4BackendType(t.domain.type)
        /\ t.domain.bound \in DOMAIN t.backends
    BY <1>3 DEF BoundRefs
  <2>2. BoundRefs(t) = {t.domain.bound}
    BY <2>1 DEF BoundRefs
  <2>3. VisibleRoutes(t) = {}
    BY <2>1 DEF VisibleRoutes
  <2> QED BY <1>1, <1>3, <2>1, <2>2, <2>3, LiveRows
<1> QED BY <1>2, <1>3

\* What a diff puts and deletes, and what a change leaves of the rows it is
\* written to.
DiffOK(cur, want, change) ==
    /\ change.del = DOMAIN cur \ DOMAIN want
    /\ DOMAIN change.put = {id \in DOMAIN want :
                              id \in DOMAIN cur => cur[id] # want[id]}
    /\ \A id \in DOMAIN change.put : change.put[id] = want[id]

WrittenOK(rows, change, out) ==
    /\ DOMAIN out = (DOMAIN rows \cup DOMAIN change.put) \ change.del
    /\ \A id \in DOMAIN out :
        out[id] = IF id \in DOMAIN change.put THEN change.put[id] ELSE rows[id]

\* A diff puts the desired rows that are not there as desired, and deletes the
\* current ones that are not desired.
LEMMA DiffRows ==
    ASSUME NEW cur, NEW want
    PROVE  DiffOK(cur, want, Diff(cur, want))
BY DEF DiffOK, Diff, Restrict

\* A row is after a change the one put, else the one there was, unless the
\* change deletes it.
LEMMA ChangedRows ==
    ASSUME NEW rows, NEW change
    PROVE  WrittenOK(rows, change, Written(rows, change))
<1>o. PICK out : out = Written(rows, change)
  OBVIOUS
<1>2. PICK put : put = change.put
  OBVIOUS
<1>3. PICK del : del = change.del
  OBVIOUS
<1>4. out = [id \in (DOMAIN rows \cup DOMAIN put) \ del |-> Over(put, rows)[id]]
  BY <1>2, <1>3, <1>o DEF Written, Restrict
<1>5. \A id \in DOMAIN put \cup DOMAIN rows :
        Over(put, rows)[id] = IF id \in DOMAIN put THEN put[id] ELSE rows[id]
  BY DEF Over
<1>6. \A id \in (DOMAIN rows \cup DOMAIN put) \ del :
        out[id] = IF id \in DOMAIN put THEN put[id] ELSE rows[id]
  BY <1>4, <1>5
<1>7. DOMAIN out = (DOMAIN rows \cup DOMAIN put) \ del
  BY <1>4
<1> QED BY <1>2, <1>3, <1>6, <1>7, <1>o DEF WrittenOK

RoutesWritten(t, D, out) ==
    /\ DOMAIN out = (DOMAIN t.routes \ VisibleRoutes(t)) \cup DOMAIN D
    /\ \A id \in DOMAIN D : out[id].path = D[id].path /\ out[id].ref = id

\* The routes of an L7 plan, written: the desired ones, and of the others only
\* those the projection did not show.
LEMMA PlanL7Routes ==
    ASSUME NEW t, TableOK(t), NEW b, BuilderOK(b), NEW D, D = DesiredRoutes(b),
           NEW seen, seen = GetDomainEntryProjectionByDomain(t),
           NEW out,
           out = Written(t.routes, diffHTTPRoutes(currentHTTPRoutes(seen), D))
    PROVE  RoutesWritten(t, D, out)
<1>2. PICK R : R = currentHTTPRoutes(seen)
  OBVIOUS
<1>3. PICK E : E = DesiredBackends(b)
  OBVIOUS
<1>4. DOMAIN R = VisibleRoutes(t)
      /\ \A id \in VisibleRoutes(t) : R[id] = [path |-> t.routes[id].path,
                                              ref |-> Live(t, t.routes[id].ref).id]
  <2>1. RoutesOK(t, R)
    BY <1>2, CurrentRoutes
  <2> QED BY <2>1, Zenon DEF RoutesOK
<1>5. /\ NoID \notin DOMAIN D
      /\ \A id \in DOMAIN D : D[id].ref = id
      /\ \A id \in DOMAIN D : D[id] = [path |-> D[id].path, ref |-> id]
  <2>1. DesiredOK(b, D, E)
    BY <1>3, DesiredRows
  <2>2. \A id \in DOMAIN D : \E p : D[id] = [path |-> p, ref |-> id]
    BY <2>1, Zenon DEF DesiredOK
  <2>3. NoID \notin DOMAIN D
    BY <2>1 DEF DesiredOK
  <2> QED BY <2>2, <2>3
<1>6. VisibleRoutes(t) \subseteq DOMAIN t.routes
  BY DEF VisibleRoutes
<1>7. PICK change : change = Diff(R, D)
  OBVIOUS
<1>8. PICK rows : rows = t.routes
  OBVIOUS
<1>9. out = Written(rows, change)
  BY <1>2, <1>7, <1>8 DEF diffHTTPRoutes
<1>10. DiffOK(R, D, change) /\ WrittenOK(rows, change, out)
  BY <1>7, <1>9, DiffRows, ChangedRows
<1>11. DOMAIN out = (DOMAIN t.routes \ VisibleRoutes(t)) \cup DOMAIN D
  BY <1>4, <1>6, <1>8, <1>10 DEF DiffOK, WrittenOK
<1>12. ASSUME NEW id \in DOMAIN D
       PROVE  out[id].path = D[id].path /\ out[id].ref = id
  <2>1. CASE id \in DOMAIN R /\ R[id] = D[id]
    <3>1. out[id] = t.routes[id]
      BY <1>4, <1>6, <1>8, <1>10, <1>12, <2>1 DEF DiffOK, WrittenOK
    <3>2. R[id].path = t.routes[id].path /\ R[id].ref = Live(t, t.routes[id].ref).id
      BY <1>4, <2>1
    <3>3. Live(t, t.routes[id].ref).id = id /\ id # NoID
      BY <1>5, <1>12, <2>1, <3>2
    <3>4. t.routes[id].ref = id
      BY <3>3, LiveRows
    <3> QED BY <2>1, <3>1, <3>2, <3>4
  <2>2. CASE ~(id \in DOMAIN R /\ R[id] = D[id])
    <3>1. id \in DOMAIN change.put /\ change.put[id] = D[id] /\ id \in DOMAIN out
      BY <1>10, <1>11, <1>12, <2>2 DEF DiffOK
    <3>2. out[id] = D[id]
      BY <1>10, <3>1 DEF WrittenOK
    <3> QED BY <1>5, <1>12, <3>2
  <2> QED BY <2>1, <2>2
<1> QED BY <1>11, <1>12 DEF RoutesWritten

L7BackendsOK(t, E, change, out) ==
    /\ DOMAIN out = ((DOMAIN t.backends \ VisibleRefs(t)) \cup DOMAIN E)
                    \ BoundRefs(t)
    /\ \A id \in DOMAIN E \ BoundRefs(t) : out[id] = E[id]
    /\ BoundRefs(t) \cap DOMAIN E # {} => DOMAIN change.put \cap change.del # {}

\* The backends of an L7 plan, written: the desired ones unless the plan
\* deletes them again with the L4 backend it was shown, and of the others only
\* those the projection did not show.
LEMMA PlanL7Backends ==
    ASSUME NEW t, TableOK(t), NEW b, BuilderOK(b), NEW E, E = DesiredBackends(b),
           NEW seen, seen = GetDomainEntryProjectionByDomain(t),
           NEW change, change = BuildL7(b, seen).backends,
           NEW out, out = Written(t.backends, change)
    PROVE  L7BackendsOK(t, E, change, out)
<1>1. PICK L : L = currentL7BackendRefs(seen)
  OBVIOUS
<1>2. DOMAIN L = VisibleRefs(t) /\ \A id \in VisibleRefs(t) : L[id] = t.backends[id]
  BY <1>1, CurrentRefs
<1>3. PICK first : first = Diff(L, E)
  OBVIOUS
<1>4. DiffOK(L, E, first)
  BY <1>3, DiffRows
<1>5. PICK second : second = diffServiceBackendRef(seen.bound, NoRef)
  OBVIOUS
<1>6. change = Then(first, second)
  BY <1>1, <1>3, <1>5 DEF BuildL7, diffServiceBackendRefs
<1>7. DOMAIN second.put = {} /\ second.del = BoundRefs(t)
  <2>1. second.put = Empty
        /\ second.del = IF seen.bound # NoRef THEN {seen.bound.id} ELSE {}
    BY <1>5 DEF diffServiceBackendRef
  <2>2. DOMAIN Empty = {}
    BY DEF Empty
  <2> QED BY <2>1, <2>2, CurrentBound, Zenon
<1>8. /\ DOMAIN change.put = DOMAIN first.put
      /\ \A id \in DOMAIN first.put : change.put[id] = first.put[id]
      /\ change.del = first.del \cup BoundRefs(t)
  BY <1>6, <1>7 DEF Then, Over
<1>9. PICK rows : rows = t.backends
  OBVIOUS
<1>10. WrittenOK(rows, change, out)
  BY <1>9, ChangedRows
<1>11. VisibleRefs(t) \subseteq DOMAIN rows
  BY <1>9 DEF VisibleRefs
<1>12. DOMAIN out = ((DOMAIN rows \ VisibleRefs(t)) \cup DOMAIN E) \ BoundRefs(t)
  <2>1. DOMAIN out = (DOMAIN rows \cup DOMAIN change.put) \ change.del
    BY <1>10 DEF WrittenOK
  <2>2. change.del = (VisibleRefs(t) \ DOMAIN E) \cup BoundRefs(t)
    <3>1. first.del = DOMAIN L \ DOMAIN E
      BY <1>4 DEF DiffOK
    <3>2. first.del = VisibleRefs(t) \ DOMAIN E
      BY <1>2, <3>1
    <3>3. change.del = first.del \cup BoundRefs(t)
      BY <1>8
    <3> QED BY <3>2, <3>3
  <2>3. DOMAIN change.put \subseteq DOMAIN E
        /\ DOMAIN E \ DOMAIN change.put \subseteq VisibleRefs(t)
    BY <1>2, <1>4, <1>8 DEF DiffOK
  <2> QED BY <1>11, <2>1, <2>2, <2>3
<1>13. ASSUME NEW id \in DOMAIN E \ BoundRefs(t) PROVE out[id] = E[id]
  <2>0. id \in DOMAIN out
    BY <1>12, <1>13
  <2>1. CASE id \in DOMAIN first.put
    BY <1>4, <1>8, <1>10, <2>0, <2>1 DEF DiffOK, WrittenOK
  <2>2. CASE id \notin DOMAIN first.put
    <3>1. id \in DOMAIN L /\ L[id] = E[id]
      BY <1>4, <1>13, <2>2 DEF DiffOK
    <3>2. out[id] = rows[id]
      BY <1>8, <1>10, <2>0, <2>2 DEF WrittenOK
    <3> QED BY <1>2, <1>9, <3>1, <3>2
  <2> QED BY <2>1, <2>2
<1>14. BoundRefs(t) \cap DOMAIN E # {} => DOMAIN change.put \cap change.del # {}
  <2> SUFFICES ASSUME NEW id \in BoundRefs(t) \cap DOMAIN E
               PROVE  id \in DOMAIN change.put \cap change.del
    OBVIOUS
  <2>1. VisibleRoutes(t) = {}
    BY CurrentBound, Zenon
  <2>2. VisibleRefs(t) = {}
    BY <2>1 DEF VisibleRefs
  <2>3. id \in DOMAIN first.put
    BY <1>2, <1>4, <2>2 DEF DiffOK
  <2> QED BY <1>8, <2>3
<1> QED BY <1>9, <1>12, <1>13, <1>14 DEF L7BackendsOK

\* The backend of an L4 entry has an identifier.
LEMMA L4ID == backendRefID(L4Key) # NoID
<1>1. L4Key \in Seq({"l4"})
  BY DEF L4Key
<1> QED BY <1>1, IDsAreNotEmpty DEF backendRefID

\* The routes of an L4 plan, written: only those the projection did not show.
LEMMA PlanL4Routes ==
    ASSUME NEW t, NEW seen, seen = GetDomainEntryProjectionByDomain(t),
           NEW b, NEW out, out = Written(t.routes, BuildL4(b, seen).routes)
    PROVE  DOMAIN out = DOMAIN t.routes \ VisibleRoutes(t)
<1>1. PICK R : R = currentHTTPRoutes(seen)
  OBVIOUS
<1>2. DOMAIN R = VisibleRoutes(t)
  BY <1>1, CurrentRoutes DEF RoutesOK
<1>3. PICK change : change = Diff(R, Empty)
  OBVIOUS
<1>4. PICK rows : rows = t.routes
  OBVIOUS
<1>5. out = Written(rows, change)
  BY <1>1, <1>3, <1>4 DEF BuildL4, diffHTTPRoutes
<1>6. DiffOK(R, Empty, change) /\ WrittenOK(rows, change, out)
  BY <1>3, <1>5, DiffRows, ChangedRows
<1>7. DOMAIN Empty = {}
  BY DEF Empty
<1>8. change.del = DOMAIN R /\ DOMAIN change.put = {}
  BY <1>6, <1>7 DEF DiffOK
<1>9. DOMAIN out = DOMAIN rows \ DOMAIN R
  BY <1>6, <1>8 DEF WrittenOK
<1> QED BY <1>2, <1>4, <1>9

L4BackendsOK(t, b, l4, change, out) ==
    /\ DOMAIN out = (DOMAIN t.backends \cup {l4}) \ VisibleRefs(t)
    /\ l4 \notin VisibleRefs(t) => out[l4] = b.l4
    /\ l4 \in VisibleRefs(t) => DOMAIN change.put \cap change.del # {}

\* The backends of an L4 plan, written: the one of the entry, unless the plan
\* deletes it again with the backends of the routes it was shown.
LEMMA PlanL4Backends ==
    ASSUME NEW t, TableOK(t), NEW b,
           NEW seen, seen = GetDomainEntryProjectionByDomain(t),
           NEW change, change = BuildL4(b, seen).backends,
           NEW out, out = Written(t.backends, change),
           NEW l4, l4 = backendRefID(L4Key)
    PROVE  L4BackendsOK(t, b, l4, change, out)
<1>1. PICK L : L = currentL7BackendRefs(seen)
  OBVIOUS
<1>2. DOMAIN L = VisibleRefs(t)
  BY <1>1, CurrentRefs
<1>3. PICK want : want = [id |-> l4, target |-> b.l4]
  BY Zenon
<1>4. want # NoRef /\ want.id = l4 /\ want.target = b.l4
  <2>1. want.id # NoRef.id
    BY <1>3, L4ID DEF NoRef
  <2> QED BY <1>3, <2>1
<1>5. PICK first : first = diffServiceBackendRef(seen.bound, want)
  OBVIOUS
<1>6. first.del = {}
      /\ first.put = IF seen.bound = want THEN Empty ELSE OneRow(l4, b.l4)
  BY <1>4, <1>5 DEF diffServiceBackendRef
<1>7. change = Then(first, Deleting(DOMAIN L))
  BY <1>1, <1>3, <1>5 DEF BuildL4
<1>8. DOMAIN Empty = {} /\ DOMAIN OneRow(l4, b.l4) = {l4} /\ OneRow(l4, b.l4)[l4] = b.l4
  BY DEF Empty, OneRow
<1>9. /\ DOMAIN change.put = DOMAIN first.put
      /\ \A id \in DOMAIN first.put : change.put[id] = first.put[id]
      /\ change.del = VisibleRefs(t)
  <2>1. PICK second : second = Deleting(DOMAIN L)
    OBVIOUS
  <2>2. second.put = Empty /\ second.del = DOMAIN L
    BY <2>1, DeletingFields, Zenon
  <2>3. change.put = Over(Empty, first.put)
    BY <1>7, <2>1, <2>2, ThenPut, Zenon
  <2>4. change.del = {} \cup DOMAIN L
    <3>1. change.del = first.del \cup second.del
      BY <1>7, <2>1, ThenDel
    <3>2. first.del = {}
      BY <1>6
    <3> QED BY <2>2, <3>1, <3>2, Zenon
  <2>5. /\ DOMAIN change.put = DOMAIN first.put
        /\ \A id \in DOMAIN first.put : change.put[id] = first.put[id]
    <3>1. PICK p : p = first.put
      OBVIOUS
    <3>2. /\ DOMAIN Over(Empty, p) = DOMAIN p
          /\ \A id \in DOMAIN p : Over(Empty, p)[id] = p[id]
      BY OverNone
    <3> QED BY <2>3, <3>1, <3>2
  <2> QED BY <1>2, <2>4, <2>5, Zenon
<1>10. PICK rows : rows = t.backends
  OBVIOUS
<1>11. WrittenOK(rows, change, out)
  BY <1>10, ChangedRows
<1>12. CASE seen.bound = want
  <2>1. BoundRefs(t) = {t.domain.bound}
        /\ seen.bound = [id |-> t.domain.bound, target |-> t.backends[t.domain.bound]]
        /\ VisibleRoutes(t) = {}
    BY <1>4, <1>12, CurrentBound, Zenon
  <2>2. l4 = t.domain.bound /\ rows[l4] = b.l4
    <3>1. PICK bound : bound = t.domain.bound
      OBVIOUS
    <3>2. want = [id |-> bound, target |-> rows[bound]]
      BY <1>10, <1>12, <2>1, <3>1, Zenon
    <3>3. want.id = bound /\ want.target = rows[bound]
      BY <3>2
    <3> QED BY <1>4, <3>1, <3>3, Zenon
  <2>3. l4 \in DOMAIN rows
    BY <1>10, <2>1, <2>2 DEF BoundRefs
  <2>4. VisibleRefs(t) = {}
    BY <2>1 DEF VisibleRefs
  <2>5. DOMAIN change.put = {}
    BY <1>6, <1>8, <1>9, <1>12
  <2>6. DOMAIN out = (DOMAIN rows \cup {l4}) \ VisibleRefs(t)
    <3>1. DOMAIN out = (DOMAIN rows \cup DOMAIN change.put) \ change.del
      BY <1>11 DEF WrittenOK
    <3>2. change.del = {}
      BY <1>9, <2>4
    <3> QED BY <2>3, <2>4, <2>5, <3>1, <3>2
  <2>7. out[l4] = b.l4
    BY <1>11, <2>2, <2>3, <2>4, <2>5, <2>6 DEF WrittenOK
  <2> QED BY <1>10, <2>4, <2>6, <2>7 DEF L4BackendsOK
<1>13. CASE seen.bound # want
  <2>1. DOMAIN change.put = {l4} /\ change.put[l4] = b.l4
    BY <1>6, <1>8, <1>9, <1>13
  <2>2. DOMAIN out = (DOMAIN rows \cup {l4}) \ VisibleRefs(t)
    BY <1>9, <1>11, <2>1 DEF WrittenOK
  <2>3. l4 \notin VisibleRefs(t) => out[l4] = b.l4
    BY <1>11, <2>1, <2>2 DEF WrittenOK
  <2>4. l4 \in VisibleRefs(t) => l4 \in DOMAIN change.put \cap change.del
    BY <1>9, <2>1
  <2> QED BY <1>10, <2>2, <2>3, <2>4 DEF L4BackendsOK
<1> QED BY <1>12, <1>13

\* The domain row is the desired one, but for what an L7 entry is bound to.
DomainReached(t, b) ==
    /\ t.domain.type = b.type /\ t.domain.need = b.need
    /\ isL4BackendType(b.type) => t.domain.bound = backendRefID(L4Key)

\* The rows the entry shows are the desired ones.
RoutesReached(t, D, E) ==
    /\ DOMAIN t.routes = DOMAIN D
    /\ \A id \in DOMAIN D :
        /\ t.routes[id].path = D[id].path /\ t.routes[id].ref = id
        /\ id \in DOMAIN t.backends /\ t.backends[id] = E[id]

BoundReached(t, l4, target) == l4 \in DOMAIN t.backends /\ t.backends[l4] = target

RowsReached(t, b) ==
    /\ DomainReached(t, b)
    /\ isL4BackendType(b.type) => BoundReached(t, backendRefID(L4Key), b.l4)
    /\ ~isL4BackendType(b.type) =>
            RoutesReached(t, DesiredRoutes(b), DesiredBackends(b))

Wanted(b) == BuilderOK(b) /\ Buildable(b) /\ b # Removal

TransactionOK(t, b, seen, plan, n) ==
    /\ DOMAIN n = {"domain", "routes", "backends", "dns"}
    /\ plan.domain = diffDomainEndpoint(seen, buildDesiredDomainEndpoint(b))
    /\ n.domain = IF plan.domain = {} THEN t.domain
                  ELSE CHOOSE d \in plan.domain : TRUE
    /\ isL4BackendType(b.type) =>
        /\ plan.backends = BuildL4(b, seen).backends
        /\ n.routes = Written(t.routes, BuildL4(b, seen).routes)
        /\ n.backends = Written(t.backends, BuildL4(b, seen).backends)
    /\ ~isL4BackendType(b.type) =>
        /\ plan.backends = BuildL7(b, seen).backends
        /\ n.routes = Written(t.routes,
                diffHTTPRoutes(currentHTTPRoutes(seen), DesiredRoutes(b)))
        /\ n.backends = Written(t.backends, BuildL7(b, seen).backends)

\* The transaction of a plan for a desire writes the changes of BuildL4 or of
\* BuildL7, and the domain row if it has to change.
LEMMA Transacted ==
    ASSUME NEW t, NEW b, Wanted(b), NEW seen, NEW dns,
           NEW plan, plan = Build(b, seen, dns), NEW n, n = Transaction(t, plan)
    PROVE  TransactionOK(t, b, seen, plan, n)
<1>1. DOMAIN n = {"domain", "routes", "backends", "dns"}
      /\ n.routes = Written(t.routes, plan.routes)
      /\ n.backends = Written(t.backends, plan.backends)
      /\ n.domain = IF plan.domain = {} THEN t.domain
                    ELSE CHOOSE d \in plan.domain : TRUE
  BY Zenon DEF Transaction
<1>2. PICK rows : rows = IF isL4BackendType(b.type)
                         THEN BuildL4(b, seen) ELSE BuildL7(b, seen)
  OBVIOUS
<1>3. plan.routes = rows.routes /\ plan.backends = rows.backends
      /\ plan.domain = diffDomainEndpoint(seen, buildDesiredDomainEndpoint(b))
  BY <1>2 DEF Build, Wanted
<1>4. BuildL7(b, seen).routes =
        diffHTTPRoutes(currentHTTPRoutes(seen), DesiredRoutes(b))
  BY DEF BuildL7
<1> QED BY <1>1, <1>2, <1>3, <1>4, Zenon DEF TransactionOK

\* A plan built from the current state makes the domain row the desired one:
\* diffDomainEndpoint overlooks no difference.
LEMMA PlanDomain ==
    ASSUME NEW t, TableOK(t), NEW b, Wanted(b), NEW dns,
           NEW seen, seen = GetDomainEntryProjectionByDomain(t),
           NEW plan, plan = Build(b, seen, dns), NEW n, n = Transaction(t, plan)
    PROVE  DomainReached(n, b)
<1>1. PICK want : want = buildDesiredDomainEndpoint(b)
  OBVIOUS
<1>2. want.type = b.type /\ want.need = b.need
      /\ want.bound = IF b.l4 = NoTarget THEN NoID ELSE backendRefID(L4Key)
  BY <1>1 DEF buildDesiredDomainEndpoint
<1>3. isL4BackendType(b.type) => want.bound = backendRefID(L4Key)
  BY <1>2 DEF Wanted, Buildable
<1>4. plan.domain = diffDomainEndpoint(seen, want)
      /\ n.domain = IF plan.domain = {} THEN t.domain
                    ELSE CHOOSE d \in plan.domain : TRUE
  <2>1. TransactionOK(t, b, seen, plan, n)
    BY Transacted
  <2> QED BY <1>1, <2>1 DEF TransactionOK
<1>5. CASE seen # NotFound /\ currentDomainEndpoint(seen) = want
  <2>1. n.domain = t.domain
    BY <1>4, <1>5 DEF diffDomainEndpoint
  <2>2. seen.type = b.type /\ seen.need = b.need /\ seen.bound.id = want.bound
    BY <1>2, <1>5 DEF currentDomainEndpoint
  <2>3. t.domain # NoDomain
    BY <1>5, Zenon DEF GetDomainEntryProjectionByDomain
  <2>4. seen.type = t.domain.type /\ seen.need = t.domain.need
    BY <2>3 DEF GetDomainEntryProjectionByDomain
  <2>5. ASSUME isL4BackendType(b.type) PROVE t.domain.bound = want.bound
    <3>1. seen.bound = Live(t, t.domain.bound)
      BY <2>2, <2>3, <2>4, <2>5 DEF GetDomainEntryProjectionByDomain
    <3>2. want.bound # NoID
      BY <1>3, <2>5, L4ID
    <3>3. t.domain.bound \notin DOMAIN t.backends => seen.bound = NoRef
      BY <3>1 DEF Live
    <3>4. t.domain.bound \in DOMAIN t.backends
      BY <2>2, <3>2, <3>3, NoRefFields, Zenon
    <3>5. Live(t, t.domain.bound).id = t.domain.bound
      BY <3>4, LiveRow, Zenon
    <3> QED BY <2>2, <3>1, <3>5, Zenon
  <2> QED BY <1>3, <2>1, <2>2, <2>4, <2>5 DEF DomainReached
<1>6. CASE ~(seen # NotFound /\ currentDomainEndpoint(seen) = want)
  <2>1. plan.domain = {want}
    BY <1>4, <1>6 DEF diffDomainEndpoint
  <2>2. n.domain = want
    BY <1>4, <2>1
  <2> QED BY <1>2, <1>3, <2>2 DEF DomainReached
<1> QED BY <1>5, <1>6

\* What a plan leaves of the rows of an L7 entry, and of an L4 entry.
L7Reached(t, n, D, E) ==
    /\ RoutesReached(n, D, E)
    /\ DOMAIN n.backends =
         ((DOMAIN t.backends \ VisibleRefs(t)) \cup DOMAIN E) \ BoundRefs(t)

L4Reached(t, n, l4, target) ==
    /\ BoundReached(n, l4, target)
    /\ DOMAIN n.routes = DOMAIN t.routes \ VisibleRoutes(t)
    /\ DOMAIN n.backends = (DOMAIN t.backends \cup {l4}) \ VisibleRefs(t)

\* An L7 plan built from the current state reaches the desired routes and
\* backends, if every route row was shown to it and it deletes no backend row
\* it puts.
LEMMA PlanRoutesL7 ==
    ASSUME NEW t, TableOK(t), NEW b, Wanted(b), ~isL4BackendType(b.type), NEW dns,
           NEW plan, plan = Build(b, GetDomainEntryProjectionByDomain(t), dns),
           NEW n, n = Transaction(t, plan),
           NEW D, D = DesiredRoutes(b), NEW E, E = DesiredBackends(b),
           DOMAIN t.routes = VisibleRoutes(t), BoundRefs(t) \cap DOMAIN E = {}
    PROVE  L7Reached(t, n, D, E)
<1>1. PICK seen : seen = GetDomainEntryProjectionByDomain(t)
  OBVIOUS
<1>2. plan.backends = BuildL7(b, seen).backends
      /\ n.routes = Written(t.routes, diffHTTPRoutes(currentHTTPRoutes(seen), D))
      /\ n.backends = Written(t.backends, BuildL7(b, seen).backends)
  <2>1. TransactionOK(t, b, seen, plan, n)
    BY <1>1, Transacted
  <2> QED BY <2>1, Zenon DEF TransactionOK
<1>3. BuilderOK(b)
  BY DEF Wanted
<1>4. PICK routes : routes = n.routes
  OBVIOUS
<1>5. /\ DOMAIN routes = (DOMAIN t.routes \ VisibleRoutes(t)) \cup DOMAIN D
      /\ \A id \in DOMAIN D : routes[id].path = D[id].path /\ routes[id].ref = id
  <2>1. routes = Written(t.routes, diffHTTPRoutes(currentHTTPRoutes(seen), D))
    BY <1>2, <1>4
  <2>2. RoutesWritten(t, D, routes)
    BY <1>1, <1>3, <2>1, PlanL7Routes
  <2> QED BY <2>2 DEF RoutesWritten
<1>6. PICK backends : backends = n.backends
  OBVIOUS
<1>7. PICK change : change = BuildL7(b, seen).backends
  OBVIOUS
<1>8. /\ DOMAIN backends = ((DOMAIN t.backends \ VisibleRefs(t)) \cup DOMAIN E)
                           \ BoundRefs(t)
      /\ \A id \in DOMAIN E \ BoundRefs(t) : backends[id] = E[id]
  <2>1. backends = Written(t.backends, change)
    BY <1>2, <1>6, <1>7
  <2>2. L7BackendsOK(t, E, change, backends)
    BY <1>1, <1>3, <1>7, <2>1, PlanL7Backends
  <2> QED BY <2>2 DEF L7BackendsOK
<1>9. DOMAIN E = DOMAIN D
  <2>1. DesiredOK(b, D, E)
    BY <1>3, DesiredRows
  <2> QED BY <2>1, Zenon DEF DesiredOK
<1>10. DOMAIN routes = DOMAIN D
  BY <1>5
<1>11. \A id \in DOMAIN D : id \in DOMAIN backends /\ backends[id] = E[id]
  BY <1>8, <1>9
<1>12. RoutesReached(n, D, E)
  BY <1>4, <1>5, <1>6, <1>10, <1>11, Zenon DEF RoutesReached
<1> QED BY <1>6, <1>8, <1>12, Zenon DEF L7Reached

\* An L4 plan built from the current state reaches its backend, if no route it
\* was shown refers to the backend row of that identifier.
LEMMA PlanRowsL4 ==
    ASSUME NEW t, TableOK(t), NEW b, Wanted(b), isL4BackendType(b.type), NEW dns,
           NEW plan, plan = Build(b, GetDomainEntryProjectionByDomain(t), dns),
           NEW n, n = Transaction(t, plan),
           NEW l4, l4 = backendRefID(L4Key), l4 \notin VisibleRefs(t)
    PROVE  L4Reached(t, n, l4, b.l4)
<1>1. PICK seen : seen = GetDomainEntryProjectionByDomain(t)
  OBVIOUS
<1>2. n.routes = Written(t.routes, BuildL4(b, seen).routes)
      /\ n.backends = Written(t.backends, BuildL4(b, seen).backends)
  <2>1. TransactionOK(t, b, seen, plan, n)
    BY <1>1, Transacted
  <2> QED BY <2>1, Zenon DEF TransactionOK
<1>3. DOMAIN n.routes = DOMAIN t.routes \ VisibleRoutes(t)
  BY <1>1, <1>2, PlanL4Routes, Zenon
<1>4. PICK change : change = BuildL4(b, seen).backends
  OBVIOUS
<1>5. PICK out : out = n.backends
  OBVIOUS
<1>6. out = Written(t.backends, change)
  BY <1>2, <1>4, <1>5
<1>7. /\ DOMAIN out = (DOMAIN t.backends \cup {l4}) \ VisibleRefs(t)
      /\ out[l4] = b.l4
  <2>1. L4BackendsOK(t, b, l4, change, out)
    BY <1>1, <1>4, <1>6, PlanL4Backends
  <2> QED BY <2>1 DEF L4BackendsOK
<1>8. l4 \in DOMAIN out
  BY <1>7
<1> QED BY <1>3, <1>5, <1>7, <1>8 DEF BoundReached, L4Reached

\* What it means that a plan deletes no backend row it puts: the L4 row is not
\* one of the routes' and the other way around.
LEMMA NoCollision ==
    ASSUME NEW t, TableOK(t), NEW b, Wanted(b), NEW dns,
           NEW plan, plan = Build(b, GetDomainEntryProjectionByDomain(t), dns),
           DOMAIN plan.backends.put \cap plan.backends.del = {}
    PROVE  /\ isL4BackendType(b.type) => backendRefID(L4Key) \notin VisibleRefs(t)
           /\ ~isL4BackendType(b.type) =>
                BoundRefs(t) \cap DOMAIN DesiredBackends(b) = {}
<1>1. PICK seen : seen = GetDomainEntryProjectionByDomain(t)
  OBVIOUS
<1>2. PICK n : n = Transaction(t, plan)
  OBVIOUS
<1>3. PICK change : change = plan.backends
  OBVIOUS
<1>4. PICK out : out = Written(t.backends, change)
  OBVIOUS
<1>5. TransactionOK(t, b, seen, plan, n)
  BY <1>1, <1>2, Transacted
<1>6. DOMAIN change.put \cap change.del = {}
  BY <1>3
<1>7. CASE isL4BackendType(b.type)
  <2>1. change = BuildL4(b, seen).backends
    BY <1>3, <1>5, <1>7, Zenon DEF TransactionOK
  <2>2. PICK l4 : l4 = backendRefID(L4Key)
    OBVIOUS
  <2>3. l4 \in VisibleRefs(t) => DOMAIN change.put \cap change.del # {}
    <3>1. L4BackendsOK(t, b, l4, change, out)
      BY <1>1, <1>4, <2>1, <2>2, PlanL4Backends
    <3> QED BY <3>1 DEF L4BackendsOK
  <2> QED BY <1>6, <1>7, <2>2, <2>3
<1>8. CASE ~isL4BackendType(b.type)
  <2>1. change = BuildL7(b, seen).backends
    BY <1>3, <1>5, <1>8, Zenon DEF TransactionOK
  <2>2. PICK E : E = DesiredBackends(b)
    OBVIOUS
  <2>3. BuilderOK(b)
    BY DEF Wanted
  <2>4. BoundRefs(t) \cap DOMAIN E # {} => DOMAIN change.put \cap change.del # {}
    <3>1. L7BackendsOK(t, E, change, out)
      BY <1>1, <1>4, <2>1, <2>2, <2>3, PlanL7Backends
    <3> QED BY <3>1 DEF L7BackendsOK
  <2> QED BY <1>6, <1>8, <2>2, <2>4
<1> QED BY <1>7, <1>8

\* The identifiers of the rows after a change.
LEMMA WrittenRows ==
    ASSUME NEW rows, NEW change
    PROVE  DOMAIN Written(rows, change) =
                (DOMAIN rows \cup DOMAIN change.put) \ change.del
BY DEF Written, Restrict

\* A plan puts no backend row without identifier, whatever it was built from.
LEMMA PlanPuts ==
    ASSUME NEW b, BuilderOK(b), NEW seen, NEW dns,
           NEW change, change = Build(b, seen, dns).backends
    PROVE  NoID \notin DOMAIN change.put
<1>1. CASE b = Removal
  <2>1. change = Deleting({})
    BY <1>1 DEF Build, RemovalPlan
  <2> QED BY <2>1 DEF Deleting, Empty
<1>2. CASE b # Removal /\ isL4BackendType(b.type)
  <2>1. PICK l4 : l4 = backendRefID(L4Key)
    OBVIOUS
  <2>2. PICK ref : ref = [id |-> l4, target |-> b.l4]
    BY Zenon
  <2>3. PICK first : first = diffServiceBackendRef(seen.bound, ref)
    OBVIOUS
  <2>4. PICK old : old = DOMAIN currentL7BackendRefs(seen)
    OBVIOUS
  <2>5. change = Then(first, Deleting(old))
    BY <1>2, <2>1, <2>2, <2>3, <2>4 DEF Build, BuildL4
  <2>6. change.put = Over(Empty, first.put)
    <3>1. Deleting(old).put = Empty
      BY DEF Deleting
    <3> QED BY <2>5, <3>1, ThenPut
  <2>7. ref.id = l4
    BY <2>2
  <2>8. DOMAIN first.put \subseteq {l4}
    BY <2>3, <2>7 DEF diffServiceBackendRef, OneRow, Empty
  <2>9. DOMAIN change.put = DOMAIN first.put
    BY <2>6 DEF Over, Empty
  <2> QED BY <2>1, <2>8, <2>9, L4ID
<1>3. CASE b # Removal /\ ~isL4BackendType(b.type)
  <2>1. PICK E : E = DesiredBackends(b)
    OBVIOUS
  <2>2. PICK old : old = currentL7BackendRefs(seen)
    OBVIOUS
  <2>3. PICK second : second = diffServiceBackendRef(seen.bound, NoRef)
    OBVIOUS
  <2>4. change = Then(Diff(old, E), second)
    BY <1>3, <2>1, <2>2, <2>3 DEF Build, BuildL7, diffServiceBackendRefs
  <2>5. PICK first : first = Diff(old, E)
    OBVIOUS
  <2>6. change.put = Over(second.put, first.put)
    BY <2>4, <2>5, ThenPut
  <2>7. second.put = Empty
    BY <2>3 DEF diffServiceBackendRef
  <2>8. DOMAIN first.put \subseteq DOMAIN E
    BY <2>5 DEF Diff, Restrict
  <2>9. DOMAIN change.put = DOMAIN first.put
    BY <2>6, <2>7 DEF Over, Empty
  <2>10. NoID \notin DOMAIN E
    <3>1. DesiredOK(b, DesiredRoutes(b), E)
      BY <2>1, DesiredRows
    <3> QED BY <3>1, Zenon DEF DesiredOK
  <2> QED BY <2>8, <2>9, <2>10
<1> QED BY <1>1, <1>2, <1>3

\* A plan leaves a table of rows with identifiers, whatever it was built from:
\* an out of date plan does, and one of a caller that deletes the hostname.
LEMMA PlanKeepsTable ==
    ASSUME NEW t, TableOK(t), NEW b, BuilderOK(b), NEW seen, NEW dns,
           NEW plan, plan = Build(b, seen, dns), NEW n, n = Transaction(t, plan)
    PROVE  TableOK(n)
<1>1. PICK change : change = plan.backends
  OBVIOUS
<1>2. NoID \notin DOMAIN change.put
  BY <1>1, PlanPuts
<1>3. DOMAIN n = {"domain", "routes", "backends", "dns"}
      /\ n.backends = Written(t.backends, change)
  BY <1>1 DEF Transaction
<1>4. DOMAIN n.backends = (DOMAIN t.backends \cup DOMAIN change.put) \ change.del
  BY <1>3, WrittenRows, Zenon
<1> QED BY <1>2, <1>3, <1>4 DEF TableOK

\* Once the domain row is the desired one, the projection shows the routes of
\* an L7 entry and no bound backend, or the bound backend of an L4 entry and no
\* route.
LEMMA WantedDomain ==
    ASSUME NEW t, NEW b, Wanted(b), DomainReached(t, b)
    PROVE  /\ t.domain # NoDomain
           /\ isL4BackendType(b.type) => VisibleRoutes(t) = {} /\ VisibleRefs(t) = {}
           /\ ~isL4BackendType(b.type) =>
                VisibleRoutes(t) = DOMAIN t.routes /\ BoundRefs(t) = {}
<1>1. t.domain.type = b.type /\ b.type # "none"
  BY DEF DomainReached, Wanted, Buildable
<1>2. t.domain # NoDomain
  BY <1>1 DEF NoDomain
<1>3. isL4BackendType(b.type) => VisibleRoutes(t) = {}
  BY <1>1, <1>2 DEF VisibleRoutes
<1> QED BY <1>1, <1>2, <1>3 DEF VisibleRoutes, VisibleRefs, BoundRefs

\* From a table whose domain row is already the desired one, a plan built from
\* the current state reaches the rows, whatever rows there were: nothing is
\* hidden from it that it needs, and it cannot put and delete one row.
LEMMA SecondPlan ==
    ASSUME NEW t, TableOK(t), NEW b, Wanted(b), NEW dns, DomainReached(t, b),
           NEW plan, plan = Build(b, GetDomainEntryProjectionByDomain(t), dns),
           NEW n, n = Transaction(t, plan)
    PROVE  RowsReached(n, b)
<1>1. DomainReached(n, b)
  BY PlanDomain
<1>2. CASE isL4BackendType(b.type)
  <2>1. PICK l4 : l4 = backendRefID(L4Key)
    OBVIOUS
  <2>2. l4 \notin VisibleRefs(t)
    BY <1>2, WantedDomain
  <2>3. BoundReached(n, l4, b.l4)
    <3>1. L4Reached(t, n, l4, b.l4)
      BY <1>2, <2>1, <2>2, PlanRowsL4
    <3> QED BY <3>1 DEF L4Reached
  <2> QED BY <1>1, <1>2, <2>1, <2>3 DEF RowsReached
<1>3. CASE ~isL4BackendType(b.type)
  <2>1. PICK D : D = DesiredRoutes(b)
    OBVIOUS
  <2>2. PICK E : E = DesiredBackends(b)
    OBVIOUS
  <2>3. DOMAIN t.routes = VisibleRoutes(t) /\ BoundRefs(t) \cap DOMAIN E = {}
    BY <1>3, WantedDomain
  <2>4. RoutesReached(n, D, E)
    <3>1. L7Reached(t, n, D, E)
      BY <1>3, <2>1, <2>2, <2>3, PlanRoutesL7
    <3> QED BY <3>1 DEF L7Reached
  <2> QED BY <1>1, <1>3, <2>1, <2>2, <2>4 DEF RowsReached
<1> QED BY <1>2, <1>3

\* From a table in which only an L7 entry has route rows, a plan built from the
\* current state that deletes no row it puts reaches the rows, and again only
\* an L7 entry has route rows.
LEMMA CleanPlan ==
    ASSUME NEW t, TableOK(t), NEW b, Wanted(b), NEW dns, RoutesOfL7(t),
           NEW plan, plan = Build(b, GetDomainEntryProjectionByDomain(t), dns),
           NEW n, n = Transaction(t, plan),
           DOMAIN plan.backends.put \cap plan.backends.del = {}
    PROVE  RowsReached(n, b) /\ RoutesOfL7(n)
<1>1. DomainReached(n, b)
  BY PlanDomain
<1>2. DOMAIN t.routes = VisibleRoutes(t)
  BY DEF RoutesOfL7, VisibleRoutes
<1>3. CASE isL4BackendType(b.type)
  <2>1. PICK l4 : l4 = backendRefID(L4Key)
    OBVIOUS
  <2>2. l4 \notin VisibleRefs(t)
    BY <1>3, <2>1, NoCollision, Zenon
  <2>3. BoundReached(n, l4, b.l4) /\ DOMAIN n.routes = DOMAIN t.routes \ VisibleRoutes(t)
    <3>1. L4Reached(t, n, l4, b.l4)
      BY <1>3, <2>1, <2>2, PlanRowsL4
    <3> QED BY <3>1 DEF L4Reached
  <2>4. DOMAIN n.routes = {}
    BY <1>2, <2>3, Zenon
  <2> QED BY <1>1, <1>3, <2>1, <2>3, <2>4, Zenon DEF RowsReached, RoutesOfL7
<1>4. CASE ~isL4BackendType(b.type)
  <2>1. PICK D : D = DesiredRoutes(b)
    BY Zenon
  <2>2. PICK E : E = DesiredBackends(b)
    OBVIOUS
  <2>3. BoundRefs(t) \cap DOMAIN E = {}
    BY <1>4, <2>2, NoCollision, Zenon
  <2>4. RoutesReached(n, D, E)
    <3>1. L7Reached(t, n, D, E)
      BY <1>2, <1>4, <2>1, <2>2, <2>3, PlanRoutesL7
    <3> QED BY <3>1 DEF L7Reached
  <2>5. n.domain # NoDomain /\ n.domain.type = b.type
    BY <1>1, WantedDomain, Zenon DEF DomainReached
  <2> QED BY <1>1, <1>4, <2>1, <2>2, <2>4, <2>5, Zenon DEF RowsReached, RoutesOfL7
<1> QED BY <1>3, <1>4

\* That no backend row is left behind, in terms of what the projection shows.
LEMMA OrphanRefs ==
    ASSUME NEW t, TableOK(t)
    PROVE  NoOrphans(t) <=> DOMAIN t.backends = BoundRefs(t) \cup VisibleRefs(t)
<1>1. PICK entry : entry = GetDomainEntryProjectionByDomain(t)
  OBVIOUS
<1>2. PICK V : V = VisibleRoutes(t)
  OBVIOUS
<1>3. PICK ids : ids = {r.ref.id : r \in entry.routes}
  BY Zenon
<1>4. ids = {Live(t, t.routes[id].ref).id : id \in V}
  <2>1. PICK routes : routes = entry.routes
    OBVIOUS
  <2>2. routes = {[id |-> id, path |-> t.routes[id].path,
                   ref |-> Live(t, t.routes[id].ref)] : id \in V}
    BY <1>1, <1>2, <2>1, ShownRoutes
  <2>3. ids = {r.ref.id : r \in routes}
    BY <1>3, <2>1
  <2>4. ASSUME NEW r \in routes
        PROVE  \E id \in V : r.ref.id = Live(t, t.routes[id].ref).id
    <3>1. PICK id \in V : r = [id |-> id, path |-> t.routes[id].path,
                               ref |-> Live(t, t.routes[id].ref)]
      BY <2>2, <2>4, Zenon
    <3>2. r.ref = Live(t, t.routes[id].ref)
      BY <3>1, ShownFields, Zenon
    <3> QED BY <3>2, Zenon
  <2>5. ASSUME NEW id \in V
        PROVE  \E r \in routes : r.ref.id = Live(t, t.routes[id].ref).id
    <3>1. PICK r : r = [id |-> id, path |-> t.routes[id].path,
                        ref |-> Live(t, t.routes[id].ref)]
      BY Zenon
    <3>2. r \in routes /\ r.ref = Live(t, t.routes[id].ref)
      BY <2>2, <2>5, <3>1
    <3> QED BY <3>2
  <2> QED BY <2>3, <2>4, <2>5
<1>5. VisibleRefs(t) = {t.routes[id].ref : id \in V} \cap DOMAIN t.backends
  BY <1>2 DEF VisibleRefs
<1>6. NoID \notin DOMAIN t.backends
  BY DEF TableOK
<1>7. ids \ {NoID} = VisibleRefs(t)
  <2>1. \A id \in V : \/ /\ t.routes[id].ref \in DOMAIN t.backends
                         /\ Live(t, t.routes[id].ref).id = t.routes[id].ref
                      \/ /\ t.routes[id].ref \notin DOMAIN t.backends
                         /\ Live(t, t.routes[id].ref).id = NoID
    BY LiveRows
  <2> QED BY <1>4, <1>5, <1>6, <2>1
<1>8. {entry.bound.id} \ {NoID} = BoundRefs(t)
  <2>1. CASE BoundRefs(t) = {}
    <3>1. entry.bound.id = NoID
      <4>1. entry.bound = NoRef
        BY <1>1, <2>1, CurrentBound, Zenon
      <4> QED BY <4>1, NoRefFields, Zenon
    <3> QED BY <2>1, <3>1
  <2>2. CASE BoundRefs(t) # {}
    <3>1. entry.bound.id = t.domain.bound /\ BoundRefs(t) = {t.domain.bound}
      BY <1>1, <2>2, CurrentBound, Zenon
    <3>2. t.domain.bound # NoID
      BY <1>6, <2>2, <3>1 DEF BoundRefs
    <3> QED BY <3>1, <3>2
  <2> QED BY <2>1, <2>2
<1>9. NoOrphans(t) <=> DOMAIN t.backends = ({entry.bound.id} \cup ids) \ {NoID}
  BY <1>1, <1>3 DEF NoOrphans
<1>10. ({entry.bound.id} \cup ids) \ {NoID} = BoundRefs(t) \cup VisibleRefs(t)
  BY <1>7, <1>8
<1> QED BY <1>9, <1>10

\* A plan built from the current state leaves no backend row behind if there
\* was none, it deletes no row it puts and does not move an L4 entry to a row
\* of another identifier.
LEMMA NoOrphansLeft ==
    ASSUME NEW t, TableOK(t), NEW b, Wanted(b), NEW dns, RoutesOfL7(t), NoOrphans(t),
           NEW seen, seen = GetDomainEntryProjectionByDomain(t),
           NEW plan, plan = Build(b, seen, dns),
           NEW n, n = Transaction(t, plan),
           DOMAIN plan.backends.put \cap plan.backends.del = {},
           isL4BackendType(b.type) /\ seen.bound # NoRef =>
                seen.bound.id = backendRefID(L4Key)
    PROVE  NoOrphans(n)
<1>1. DomainReached(n, b) /\ TableOK(n)
  <2>1. BuilderOK(b)
    BY DEF Wanted
  <2>2. TableOK(n)
    BY <2>1, PlanKeepsTable
  <2>3. DomainReached(n, b)
    BY PlanDomain, Zenon
  <2> QED BY <2>2, <2>3
<1>2. DOMAIN t.routes = VisibleRoutes(t)
  BY Zenon DEF RoutesOfL7, VisibleRoutes
<1>3. DOMAIN t.backends = BoundRefs(t) \cup VisibleRefs(t)
  BY OrphanRefs, Zenon
<1>4. n.domain # NoDomain /\ n.domain.type = b.type
  BY <1>1, WantedDomain, Zenon DEF DomainReached
<1>5. CASE isL4BackendType(b.type)
  <2>1. PICK l4 : l4 = backendRefID(L4Key)
    OBVIOUS
  <2>2. l4 \notin VisibleRefs(t)
    BY <1>5, <2>1, NoCollision, Zenon
  <2>3. DOMAIN n.backends = (DOMAIN t.backends \cup {l4}) \ VisibleRefs(t)
    <3>1. L4Reached(t, n, l4, b.l4)
      BY <1>5, <2>1, <2>2, PlanRowsL4
    <3> QED BY <3>1 DEF L4Reached
  <2>4. BoundRefs(t) \subseteq {l4}
    <3>1. BoundRefs(t) # {} =>
            BoundRefs(t) = {t.domain.bound} /\ seen.bound # NoRef
            /\ seen.bound.id = t.domain.bound
      BY CurrentBound, Zenon
    <3> QED BY <1>5, <2>1, <3>1
  <2>5. DOMAIN n.backends = {l4}
    BY <1>3, <2>2, <2>3, <2>4, Zenon
  <2>6. n.domain.bound = l4
    BY <1>1, <1>5, <2>1, Zenon DEF DomainReached
  <2>7. BoundRefs(n) = {l4}
    BY <1>4, <1>5, <2>5, <2>6, Zenon DEF BoundRefs
  <2>8. VisibleRefs(n) = {}
    BY <1>1, <1>5, WantedDomain, Zenon
  <2> QED BY <1>1, <2>5, <2>7, <2>8, OrphanRefs, Zenon
<1>6. CASE ~isL4BackendType(b.type)
  <2>1. PICK D : D = DesiredRoutes(b)
    BY Zenon
  <2>2. PICK E : E = DesiredBackends(b)
    OBVIOUS
  <2>3. BoundRefs(t) \cap DOMAIN E = {}
    BY <1>6, <2>2, NoCollision, Zenon
  <2>4. /\ RoutesReached(n, D, E)
        /\ DOMAIN n.backends =
             ((DOMAIN t.backends \ VisibleRefs(t)) \cup DOMAIN E) \ BoundRefs(t)
    <3>1. L7Reached(t, n, D, E)
      BY <1>2, <1>6, <2>1, <2>2, <2>3, PlanRoutesL7
    <3> QED BY <3>1, Zenon DEF L7Reached
  <2>5. DOMAIN n.backends = DOMAIN E
    BY <1>3, <2>3, <2>4, Zenon
  <2>6. DOMAIN E = DOMAIN D
    <3>1. DesiredOK(b, D, E)
      BY <2>1, <2>2, DesiredRows, Zenon DEF Wanted
    <3> QED BY <3>1, Zenon DEF DesiredOK
  <2>7. VisibleRoutes(n) = DOMAIN D /\ \A id \in DOMAIN D : n.routes[id].ref = id
    BY <1>1, <1>6, <2>4, WantedDomain, Zenon DEF RoutesReached
  <2>8. VisibleRefs(n) = DOMAIN D
    <3>1. {n.routes[id].ref : id \in DOMAIN D} = DOMAIN D
      <4>1. PICK f : f = n.routes
        OBVIOUS
      <4>2. PICK S : S = DOMAIN D
        OBVIOUS
      <4>3. \A id \in S : f[id].ref = id
        BY <2>7, <4>1, <4>2
      <4>4. {f[id].ref : id \in S} = S
        BY ONLY <4>3, OwnRefs
      <4> QED BY <4>1, <4>2, <4>4
    <3>2. VisibleRefs(n) = {n.routes[id].ref : id \in DOMAIN D} \cap DOMAIN n.backends
      BY <2>7, Zenon DEF VisibleRefs
    <3> QED BY <2>5, <2>6, <3>1, <3>2, Zenon
  <2>9. BoundRefs(n) = {}
    BY <1>1, <1>6, WantedDomain, Zenon
  <2> QED BY <1>1, <2>5, <2>6, <2>8, <2>9, OrphanRefs, Zenon
<1> QED BY <1>5, <1>6

\* The rows reached mean what the desire means: the entry shown then has the
\* type, the certificate, the bound target and, path by path, the targets asked
\* for last.
LEMMA RowsMean ==
    ASSUME NEW t, TableOK(t), NEW b, Wanted(b), DistinctIDs(b), RowsReached(t, b)
    PROVE  Content(GetDomainEntryProjectionByDomain(t)) = Meant(b)
<1>1. PICK entry : entry = GetDomainEntryProjectionByDomain(t)
  OBVIOUS
<1>2. DomainReached(t, b) /\ t.domain # NoDomain
  BY WantedDomain DEF RowsReached
<1>3. entry.type = b.type /\ entry.need = b.need
  BY <1>1, <1>2, Zenon DEF GetDomainEntryProjectionByDomain, DomainReached
<1>4. PICK shown : shown = {[path |-> r.path, target |-> r.ref.target] :
                                r \in entry.routes}
  BY Zenon
<1>5. PICK meant : meant =
        {[path |-> b.routes[i].path, target |-> b.routes[i].target] :
            i \in {j \in DOMAIN b.routes :
                    /\ ~isL4BackendType(b.type)
                    /\ \A k \in DOMAIN b.routes :
                        b.routes[k].path = b.routes[j].path => k <= j}}
  BY Zenon
<1>6. Content(entry) = [type |-> b.type, need |-> b.need,
                        bound |-> entry.bound.target, routes |-> shown]
  BY <1>3, <1>4, Zenon DEF Content
<1>7. Meant(b) = [type |-> b.type, need |-> b.need, bound |-> b.l4,
                  routes |-> meant]
  BY <1>5, Zenon DEF Meant
<1>8. CASE isL4BackendType(b.type)
  <2>1. PICK l4 : l4 = backendRefID(L4Key)
    OBVIOUS
  <2>2. t.domain.bound = l4 /\ l4 \in DOMAIN t.backends /\ t.backends[l4] = b.l4
    BY <1>2, <1>8, <2>1, Zenon DEF DomainReached, RowsReached, BoundReached
  <2>3. isL4BackendType(t.domain.type)
    BY <1>2, <1>8, Zenon DEF DomainReached
  <2>4. entry.bound = Live(t, l4) /\ entry.routes = {}
    BY <1>1, <1>2, <2>2, <2>3, Zenon DEF GetDomainEntryProjectionByDomain
  <2>5. entry.bound.target = b.l4
    <3>1. l4 \in DOMAIN t.backends /\ t.backends[l4] = b.l4
      BY <2>2
    <3>2. Live(t, l4).target = t.backends[l4]
      BY <3>1, LiveRow
    <3> QED BY <2>4, <3>1, <3>2
  <2>6. shown = {} /\ meant = {}
    BY <1>4, <1>5, <1>8, <2>4
  <2> QED BY <1>1, <1>6, <1>7, <2>5, <2>6, Zenon
<1>9. CASE ~isL4BackendType(b.type)
  <2>1. PICK D : D = DesiredRoutes(b)
    OBVIOUS
  <2>2. PICK E : E = DesiredBackends(b)
    OBVIOUS
  <2>3. RoutesReached(t, D, E) /\ DesiredOK(b, D, E)
    BY <1>9, <2>1, <2>2, DesiredRows DEF RowsReached, Wanted
  <2>4. entry.bound.target = b.l4
    <3>1. entry.bound = NoRef
      BY <1>1, <1>2, <1>9, Zenon DEF GetDomainEntryProjectionByDomain, DomainReached
    <3>2. b.l4 = NoTarget
      BY <1>9 DEF Wanted, BuilderOK
    <3> QED BY <3>1, <3>2 DEF NoRef
  <2>5. shown = {[path |-> D[id].path, target |-> E[id]] : id \in DOMAIN D}
    <3>1. PICK routes : routes = entry.routes
      OBVIOUS
    <3>2. VisibleRoutes(t) = DOMAIN D
      BY <1>2, <1>9, <2>3, WantedDomain, Zenon DEF RoutesReached
    <3>3. routes = {[id |-> id, path |-> t.routes[id].path,
                     ref |-> Live(t, t.routes[id].ref)] : id \in DOMAIN D}
      BY <1>1, <3>1, <3>2, ShownRoutes, Zenon
    <3>4. \A id \in DOMAIN D : t.routes[id].path = D[id].path
                               /\ Live(t, t.routes[id].ref).target = E[id]
      <4> SUFFICES ASSUME NEW id \in DOMAIN D
                   PROVE  t.routes[id].path = D[id].path
                          /\ Live(t, t.routes[id].ref).target = E[id]
        BY Zenon
      <4>1. t.routes[id].path = D[id].path /\ t.routes[id].ref = id
            /\ id \in DOMAIN t.backends /\ t.backends[id] = E[id]
        BY <2>3, Zenon DEF RoutesReached
      <4>2. Live(t, id).target = t.backends[id]
        BY <4>1, LiveRow
      <4> QED BY <4>1, <4>2, Zenon
    <3>5. ASSUME NEW r \in routes
          PROVE  \E id \in DOMAIN D : r.path = D[id].path /\ r.ref.target = E[id]
      <4>1. PICK id \in DOMAIN D : r = [id |-> id, path |-> t.routes[id].path,
                                        ref |-> Live(t, t.routes[id].ref)]
        BY <3>3, <3>5, Zenon
      <4>2. r.path = t.routes[id].path /\ r.ref = Live(t, t.routes[id].ref)
        BY <4>1, ShownFields, Zenon
      <4> QED BY <3>4, <4>2, Zenon
    <3>6. ASSUME NEW id \in DOMAIN D
          PROVE  \E r \in routes : r.path = D[id].path /\ r.ref.target = E[id]
      <4>1. PICK r : r = [id |-> id, path |-> t.routes[id].path,
                          ref |-> Live(t, t.routes[id].ref)]
        BY Zenon
      <4>2. r \in routes /\ r.ref = Live(t, t.routes[id].ref)
            /\ r.path = t.routes[id].path
        BY <3>3, <3>6, <4>1
      <4> QED BY <3>4, <3>6, <4>2
    <3>7. shown = {[path |-> r.path, target |-> r.ref.target] : r \in routes}
      BY <1>4, <3>1
    <3> QED BY <3>5, <3>6, <3>7
  <2>6. meant = {[path |-> D[id].path, target |-> E[id]] : id \in DOMAIN D}
    <3>1. PICK r : r = b.routes
      OBVIOUS
    <3>2. PICK last : last = {j \in DOMAIN r : \A k \in DOMAIN r :
                                r[k].path = r[j].path => k <= j}
      BY Zenon
    <3>3. meant = {[path |-> r[i].path, target |-> r[i].target] : i \in last}
      BY <1>5, <1>9, <3>1, <3>2, Zenon
    <3>4. \A i, j \in DOMAIN r : routeID(r[i].path) = routeID(r[j].path) =>
                                    r[i].path = r[j].path
      BY <3>1 DEF DistinctIDs
    <3>5. DOMAIN r \subseteq Nat
      BY <3>1 DEF Wanted, BuilderOK
    <3>6. ASSUME NEW id \in DOMAIN D
          PROVE  \E i \in last : /\ routeID(r[i].path) = id
                                 /\ r[i].path = D[id].path /\ r[i].target = E[id]
      <4>1. PICK i \in DOMAIN r :
                /\ routeID(r[i].path) = id
                /\ \A j \in DOMAIN r : routeID(r[j].path) = id => j <= i
                /\ D[id] = [path |-> r[i].path, ref |-> id]
                /\ E[id] = r[i].target
        BY <2>3, <3>1, <3>6, Zenon DEF DesiredOK
      <4>2. i \in last
        BY <3>2, <4>1
      <4>3. D[id].path = r[i].path
        <5>1. PICK x : x = D[id]
          OBVIOUS
        <5>2. PICK p : p = r[i].path
          OBVIOUS
        <5>3. x = [path |-> p, ref |-> id]
          BY <4>1, <5>1, <5>2, Zenon
        <5>4. x.path = p
          BY <5>3, DesiredFields, Zenon
        <5> QED BY <5>1, <5>2, <5>4
      <4> QED BY <4>1, <4>2, <4>3, Zenon
    <3>7. ASSUME NEW i \in last
          PROVE  \E id \in DOMAIN D : r[i].path = D[id].path /\ r[i].target = E[id]
      <4>1. PICK id : id = routeID(r[i].path)
        OBVIOUS
      <4>2. i \in DOMAIN r
        BY <3>2, <3>7
      <4>3. id \in DOMAIN D
        BY <2>3, <3>1, <4>1, <4>2, Zenon DEF DesiredOK
      <4>4. PICK j \in last : /\ routeID(r[j].path) = id
                              /\ r[j].path = D[id].path /\ r[j].target = E[id]
        BY <3>6, <4>3, Zenon
      <4>5. j \in DOMAIN r
        BY <3>2, <4>4
      <4>6. r[i].path = r[j].path
        BY <3>4, <4>1, <4>2, <4>4, <4>5
      <4>7. i <= j /\ j <= i
        BY <3>2, <3>7, <4>2, <4>4, <4>5, <4>6
      <4>8. i = j
        BY <3>5, <4>2, <4>5, <4>7
      <4> QED BY <4>3, <4>4, <4>8
    <3>8. ASSUME NEW x \in meant
          PROVE  \E id \in DOMAIN D : x = [path |-> D[id].path, target |-> E[id]]
      <4>1. PICK i \in last : x = [path |-> r[i].path, target |-> r[i].target]
        BY <3>3, <3>8, Zenon
      <4> QED BY <3>7, <4>1, Zenon
    <3>9. ASSUME NEW id \in DOMAIN D
          PROVE  [path |-> D[id].path, target |-> E[id]] \in meant
      <4>1. PICK i \in last : r[i].path = D[id].path /\ r[i].target = E[id]
        BY <3>6, <3>9, Zenon
      <4> QED BY <3>3, <4>1, Zenon
    <3> QED BY <3>8, <3>9, Zenon
  <2> QED BY <1>1, <1>6, <1>7, <2>4, <2>5, <2>6, Zenon
<1> QED BY <1>8, <1>9

\* The diff of equal rows changes none.
LEMMA EmptyDiff ==
    ASSUME NEW cur, NEW want, DOMAIN cur = DOMAIN want,
           \A id \in DOMAIN want : cur[id] = want[id]
    PROVE  Diff(cur, want) = Deleting({})
<1>1. {id \in DOMAIN want : id \in DOMAIN cur => cur[id] # want[id]} = {}
  OBVIOUS
<1>2. Restrict(want, {}) = Empty
  BY DEF Restrict, Empty
<1>3. DOMAIN cur \ DOMAIN want = {}
  OBVIOUS
<1> QED BY <1>1, <1>2, <1>3 DEF Diff, Deleting

\* Two changes that change nothing change nothing.
LEMMA EmptyThen == Then(Deleting({}), Deleting({})) = Deleting({})
<1>1. Over(Empty, Empty) = Empty
  BY DEF Over, Empty
<1>2. Deleting({}).put = Empty /\ Deleting({}).del = {}
  BY DEF Deleting
<1> QED BY <1>1, <1>2 DEF Then, Deleting

\* Nor does the diff of a reference and itself.
LEMMA EmptyRef ==
    ASSUME NEW ref
    PROVE  diffServiceBackendRef(ref, ref) = Deleting({})
BY DEF diffServiceBackendRef, Deleting

\* A plan that writes no domain, route or backend row.
ChangesNothing(plan) ==
    /\ plan.domain = {}
    /\ plan.routes = Deleting({}) /\ plan.backends = Deleting({})

\* Once the rows are reached, the plan built from what the projection shows of
\* them changes no domain, route or backend row: the reconstruction of the
\* current state loses nothing that counts.
LEMMA NothingToPlan ==
    ASSUME NEW t, TableOK(t), NEW b, Wanted(b), RowsReached(t, b), NEW dns,
           NEW plan, plan = Build(b, GetDomainEntryProjectionByDomain(t), dns)
    PROVE  ChangesNothing(plan)
<1>1. PICK seen : seen = GetDomainEntryProjectionByDomain(t)
  OBVIOUS
<1>2. DomainReached(t, b) /\ t.domain # NoDomain
  BY WantedDomain DEF RowsReached
<1>3. seen.type = b.type /\ seen.need = b.need
  BY <1>1, <1>2, Zenon DEF GetDomainEntryProjectionByDomain, DomainReached
<1>4. PICK want : want = buildDesiredDomainEndpoint(b)
  OBVIOUS
<1>5. want = [type |-> b.type, need |-> b.need,
              bound |-> IF b.l4 = NoTarget THEN NoID ELSE backendRefID(L4Key)]
  BY <1>4 DEF buildDesiredDomainEndpoint
<1>6. seen # NotFound
  <2>1. b.type # "none"
    BY DEF Wanted, Buildable
  <2>2. NotFound.type = "none"
    BY DEF NotFound
  <2> QED BY <1>3, <2>1, <2>2
<1>7. ASSUME seen.bound.id = want.bound PROVE plan.domain = {}
  <2>1. currentDomainEndpoint(seen) = want
    BY <1>3, <1>5, <1>7, Zenon DEF currentDomainEndpoint
  <2>2. plan.domain = diffDomainEndpoint(seen, want)
    BY <1>1, <1>4 DEF Build, Wanted
  <2> QED BY <1>6, <2>1, <2>2 DEF diffDomainEndpoint
<1>8. CASE isL4BackendType(b.type)
  <2>1. PICK l4 : l4 = backendRefID(L4Key)
    OBVIOUS
  <2>2. t.domain.bound = l4 /\ l4 \in DOMAIN t.backends /\ t.backends[l4] = b.l4
    BY <1>2, <1>8, <2>1, Zenon DEF DomainReached, RowsReached, BoundReached
  <2>3. isL4BackendType(t.domain.type)
    BY <1>2, <1>8, Zenon DEF DomainReached
  <2>4. seen.bound = Live(t, l4)
    BY <1>1, <1>2, <2>2, <2>3, Zenon DEF GetDomainEntryProjectionByDomain
  <2>5. seen.bound = [id |-> l4, target |-> b.l4] /\ seen.bound.id = l4
    <3>1. l4 \in DOMAIN t.backends /\ t.backends[l4] = b.l4
      BY <2>2
    <3>2. Live(t, l4) = [id |-> l4, target |-> t.backends[l4]] /\ Live(t, l4).id = l4
      BY <3>1, LiveRow
    <3> QED BY <2>4, <3>1, <3>2
  <2>6. want.bound = l4
    <3>1. b.l4 # NoTarget
      BY <1>8, Zenon DEF Wanted, Buildable
    <3> QED BY <1>5, <2>1, <3>1
  <2>7. plan.routes = BuildL4(b, seen).routes /\ plan.backends = BuildL4(b, seen).backends
    BY <1>1, <1>8 DEF Build, Wanted
  <2>8. VisibleRoutes(t) = {} /\ VisibleRefs(t) = {}
    BY <1>2, <1>8, WantedDomain
  <2>9. plan.routes = Deleting({})
    <3>1. PICK R : R = currentHTTPRoutes(seen)
      OBVIOUS
    <3>2. DOMAIN R = {}
      <4>1. RoutesOK(t, R)
        BY <1>1, <3>1, CurrentRoutes
      <4> QED BY <2>8, <4>1, Zenon DEF RoutesOK
    <3>3. DOMAIN Empty = {}
      BY DEF Empty
    <3>4. Diff(R, Empty) = Deleting({})
      BY <3>2, <3>3, EmptyDiff
    <3> QED BY <2>7, <3>1, <3>4 DEF BuildL4, diffHTTPRoutes
  <2>10. plan.backends = Deleting({})
    <3>1. PICK L : L = currentL7BackendRefs(seen)
      OBVIOUS
    <3>2. DOMAIN L = {}
      BY <1>1, <2>8, <3>1, CurrentRefs, Zenon
    <3>3. PICK ref : ref = [id |-> l4, target |-> b.l4]
      BY Zenon
    <3>4. plan.backends = Then(diffServiceBackendRef(seen.bound, ref),
                               Deleting(DOMAIN L))
      BY <2>1, <2>7, <3>1, <3>3 DEF BuildL4
    <3>5. diffServiceBackendRef(seen.bound, ref) = Deleting({})
      BY <2>5, <3>3, EmptyRef, Zenon
    <3> QED BY <3>2, <3>4, <3>5, EmptyThen, Zenon
  <2> QED BY <1>7, <2>5, <2>6, <2>9, <2>10, Zenon DEF ChangesNothing
<1>9. CASE ~isL4BackendType(b.type)
  <2>1. PICK D : D = DesiredRoutes(b)
    OBVIOUS
  <2>2. PICK E : E = DesiredBackends(b)
    OBVIOUS
  <2>3. RoutesReached(t, D, E) /\ DesiredOK(b, D, E)
    BY <1>9, <2>1, <2>2, DesiredRows DEF RowsReached, Wanted
  <2>4. VisibleRoutes(t) = DOMAIN D /\ BoundRefs(t) = {}
    BY <1>2, <1>9, <2>3, WantedDomain, Zenon DEF RoutesReached
  <2>5. seen.bound = NoRef
    BY <1>1, <2>4, CurrentBound, Zenon
  <2>6. seen.bound.id = want.bound
    <3>1. b.l4 = NoTarget
      BY <1>9 DEF Wanted, BuilderOK
    <3>2. want.bound = NoID
      BY <1>5, <3>1
    <3> QED BY <2>5, <3>2, NoRefFields, Zenon
  <2>7. plan.routes = BuildL7(b, seen).routes /\ plan.backends = BuildL7(b, seen).backends
    BY <1>1, <1>9 DEF Build, Wanted
  <2>8. plan.routes = Deleting({})
    <3>1. PICK R : R = currentHTTPRoutes(seen)
      OBVIOUS
    <3>2. /\ DOMAIN R = DOMAIN D
          /\ \A id \in DOMAIN D : R[id] = [path |-> t.routes[id].path,
                                           ref |-> Live(t, t.routes[id].ref).id]
      <4>1. RoutesOK(t, R)
        BY <1>1, <3>1, CurrentRoutes
      <4> QED BY <2>4, <4>1, Zenon DEF RoutesOK
    <3>3. ASSUME NEW id \in DOMAIN D PROVE R[id] = D[id]
      <4>1. t.routes[id].path = D[id].path /\ Live(t, t.routes[id].ref).id = id
        <5>1. t.routes[id].path = D[id].path /\ t.routes[id].ref = id
              /\ id \in DOMAIN t.backends
          BY <2>3, <3>3, Zenon DEF RoutesReached
        <5>2. Live(t, id).id = id
          BY <5>1, LiveRow
        <5> QED BY <5>1, <5>2, Zenon
      <4>2. PICK p : D[id] = [path |-> p, ref |-> id]
        BY <2>3, <3>3, Zenon DEF DesiredOK
      <4>3. D[id].path = p
        <5>1. PICK row : row = [path |-> p, ref |-> id]
          BY Zenon
        <5>2. row.path = p
          BY <5>1
        <5> QED BY <4>2, <5>1, <5>2, Zenon
      <4> QED BY <3>2, <3>3, <4>1, <4>2, <4>3, Zenon
    <3>4. Diff(R, D) = Deleting({})
      BY <3>2, <3>3, EmptyDiff, Zenon
    <3> QED BY <2>1, <2>7, <3>1, <3>4 DEF BuildL7, diffHTTPRoutes
  <2>9. plan.backends = Deleting({})
    <3>1. PICK L : L = currentL7BackendRefs(seen)
      OBVIOUS
    <3>2. DOMAIN L = VisibleRefs(t) /\ \A id \in VisibleRefs(t) : L[id] = t.backends[id]
      BY <1>1, <3>1, CurrentRefs
    <3>3. VisibleRefs(t) = DOMAIN D
      <4>1. {t.routes[id].ref : id \in DOMAIN D} = DOMAIN D
        <5>1. \A id \in DOMAIN D : t.routes[id].ref = id
          BY <2>3, Zenon DEF RoutesReached
        <5> QED BY <5>1, OwnRefs, Zenon
      <4>2. DOMAIN D \subseteq DOMAIN t.backends
        BY <2>3, Zenon DEF RoutesReached
      <4>3. VisibleRefs(t) = {t.routes[id].ref : id \in DOMAIN D} \cap DOMAIN t.backends
        BY <2>4, Zenon DEF VisibleRefs
      <4> QED BY <4>1, <4>2, <4>3, Zenon
    <3>4. DOMAIN E = DOMAIN D
      BY <2>3, Zenon DEF DesiredOK
    <3>5. \A id \in DOMAIN E : L[id] = E[id]
      BY <2>3, <3>2, <3>3, <3>4, Zenon DEF RoutesReached
    <3>6. Diff(L, E) = Deleting({})
      BY <3>2, <3>3, <3>4, <3>5, EmptyDiff, Zenon
    <3>7. plan.backends = Then(Diff(L, E), diffServiceBackendRef(seen.bound, NoRef))
      BY <2>2, <2>7, <3>1 DEF BuildL7, diffServiceBackendRefs
    <3>8. diffServiceBackendRef(seen.bound, NoRef) = Deleting({})
      BY <2>5, EmptyRef
    <3> QED BY <3>6, <3>7, <3>8, EmptyThen, Zenon
  <2> QED BY <1>7, <2>6, <2>8, <2>9, Zenon DEF ChangesNothing
<1> QED BY <1>8, <1>9, Zenon
=============================================================================
