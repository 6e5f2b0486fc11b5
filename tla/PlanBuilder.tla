---------------------------- MODULE PlanBuilder ----------------------------
(***************************************************************************)
(* What lnctl and the repository compute for one hostname: the Builder     *)
(* makes a plan of the state it was shown and the desired one, the         *)
(* repository shows the rows of a hostname as a projection, and the        *)
(* transaction of a plan writes rows.  PlanDiff has the processes that     *)
(* call them.                                                              *)
(*                                                                         *)
(* A path or key is a sequence of tokens ("/", ".", a word); an identifier *)
(* is what sanitizeBuilderIDPart leaves of it ("backend:" and "route:"     *)
(* with the hostname go without saying, the two kinds being two tables).   *)
(* A table is a function of the identifiers of its live rows.  A route's   *)
(* priority is the length of its path and is left out.                     *)
(***************************************************************************)
EXTENDS Integers, Sequences, FiniteSetsExt, Functions

CONSTANT Lower  \* a word with capitals -> the word without them

NoTarget == "none"
NoID == <<>>
NoRef == [id |-> NoID, target |-> NoTarget]
NoDomain == [type |-> "none", need |-> FALSE, bound |-> NoID]
NotFound == [type |-> "none", need |-> FALSE, bound |-> NoRef, routes |-> {}]
Empty == [x \in {} |-> x]

\* Rows by identifier: one row, and new rows put over old ones.
OneRow(id, row) == [x \in {id} |-> row]
Over(new, old) ==
    [id \in DOMAIN new \cup DOMAIN old |->
        IF id \in DOMAIN new THEN new[id] ELSE old[id]]

L4Types == {"passthrough", "termination"}
isL4BackendType(type) == type \in L4Types

-----------------------------------------------------------------------------
(* The Builder: identifiers.                                               *)

Separators == {"/", ".", ":", " "}
Underscore == "_"

ASSUME LowerAssumption ==
    \A word \in DOMAIN Lower :
        /\ word \notin Separators \cup {"*"}
        /\ Lower[word] \notin Separators \cup {"*"} \cup DOMAIN Lower

ToLower(token) == IF token \in DOMAIN Lower THEN Lower[token] ELSE token

sanitizeBuilderIDPart(value) ==
    LET words == {i \in DOMAIN value : value[i] \notin Separators}
        replaced == [i \in DOMAIN value |->
                       IF value[i] \in Separators THEN Underscore
                       ELSE IF value[i] = "*" THEN "wildcard"
                       ELSE ToLower(value[i])]
    IN  IF words = {} THEN <<"root">>
        ELSE SubSeq(replaced, Min(words), Max(words))

L4Key == <<"l4">>
backendRefID(key) == sanitizeBuilderIDPart(key)
routeID(path) == sanitizeBuilderIDPart(path)

normalizeBuilderPath(path) ==
    IF path = <<>> THEN <<"/">> ELSE IF path[1] # "/" THEN <<"/">> ELSE path

\* The question (name and type) is one and the same; the routing key is not.
defaultDNSRecordID(record) ==
    IF record.key = <<>> THEN <<"dns">>
    ELSE <<"dns">> \o sanitizeBuilderIDPart(record.key)

-----------------------------------------------------------------------------
(* The Builder: the desired state.                                         *)

NewBuilder ==
    [type |-> "none", need |-> FALSE, l4 |-> NoTarget, routes |-> <<>>,
     dns |-> <<>>]

AsL4TLSPassthrough(b, target) ==
    [b EXCEPT !.type = "passthrough", !.need = FALSE, !.l4 = target,
              !.routes = <<>>]

AsL4TLSTermination(b, target) ==
    [b EXCEPT !.type = "termination", !.need = TRUE, !.l4 = target,
              !.routes = <<>>]

AsL7(b, type) ==
    [b EXCEPT !.type = type, !.need = (type # "http"), !.l4 = NoTarget]

Route(b, path, target) ==
    [b EXCEPT !.routes =
        Append(@, [path |-> normalizeBuilderPath(path), target |-> target])]

WantDNS(b, record) == [b EXCEPT !.dns = Append(@, record)]

\* A plan written by hand that deletes the hostname: the Builder has none.
Removal == [NewBuilder EXCEPT !.type = "removal"]

\* The errors of Build: no type, an L4 type without backend, L7 without route.
Buildable(b) ==
    /\ b.type # "none"
    /\ isL4BackendType(b.type) => b.l4 # NoTarget
    /\ ~isL4BackendType(b.type) => b.routes # <<>>

buildDesiredDomainEndpoint(b) ==
    [type |-> b.type, need |-> b.need,
     bound |-> IF b.l4 = NoTarget THEN NoID ELSE backendRefID(L4Key)]

\* A list turned into a map by identifier: the last of an identifier stays.
ByID(list, ID(_), Row(_)) ==
    [id \in {ID(list[i]) : i \in DOMAIN list} |->
        Row(list[Max({i \in DOMAIN list : ID(list[i]) = id})])]

DesiredRoutes(b) ==
    LET ID(r) == routeID(r.path)
        Row(r) == [path |-> r.path, ref |-> backendRefID(r.path)]
    IN  ByID(b.routes, ID, Row)

DesiredBackends(b) ==
    LET ID(r) == backendRefID(r.path)
        Row(r) == r.target
    IN  ByID(b.routes, ID, Row)

\* A record asked for has no timestamps, a record of the database has.
buildDesiredDNSRecords(b) ==
    LET ID(r) == IF r.id = NoID THEN defaultDNSRecordID(r) ELSE r.id
        Row(r) == [value |-> r.value, enabled |-> r.enabled, stamped |-> FALSE]
    IN  ByID(b.dns, ID, Row)

\* What the methods make of a desire: only an L4 type comes with a backend of
\* its own.  (Routes added to an L4 type are kept, and Build ignores them.)
BuilderOK(b) ==
    /\ b.routes \in Seq([path : Seq(STRING), target : STRING \ {NoTarget}])
    /\ ~isL4BackendType(b.type) => b.l4 = NoTarget

-----------------------------------------------------------------------------
(* The Builder: the current state, as the projection shows it.             *)

CurrentDomainUnbound(seen) ==
    [type |-> seen.type, need |-> seen.need, bound |-> NoID]

currentDomainEndpoint(seen) ==
    [type |-> seen.type, need |-> seen.need, bound |-> seen.bound.id]

currentL7BackendRefs(seen) ==
    LET refs == {r.ref : r \in seen.routes} \ {NoRef}
    IN  [id \in {r.id : r \in refs} |->
            (CHOOSE r \in refs : r.id = id).target]

currentHTTPRoutes(seen) ==
    [id \in {r.id : r \in seen.routes} |->
        LET r == CHOOSE x \in seen.routes : x.id = id
        IN  [path |-> r.path, ref |-> r.ref.id]]

-----------------------------------------------------------------------------
(* The Builder: the diff.  Creating and updating a row are both an upsert  *)
(* of the desired row, so a diff is the rows put and the rows deleted.     *)

Diff(current, desired) ==
    [put |-> Restrict(desired,
                {id \in DOMAIN desired :
                    id \in DOMAIN current => current[id] # desired[id]}),
     del |-> DOMAIN current \ DOMAIN desired]

DiffWithoutDeletes(current, desired) ==
    [Diff(current, desired) EXCEPT !.del = {}]

diffHTTPRoutes(current, desired) == Diff(current, desired)

diffServiceBackendRefs(current, desired) == Diff(current, desired)

diffDNSRecords(current, desired) == Diff(current, desired)

DiffDomainOnce(seen, desired) == IF seen = NotFound THEN {desired} ELSE {}

diffDomainEndpoint(seen, desired) ==
    IF seen # NotFound /\ currentDomainEndpoint(seen) = desired
    THEN {} ELSE {desired}

\* One reference against another, whatever their identifiers: an update puts
\* the desired row and leaves the row of another identifier alone.
diffServiceBackendRef(current, desired) ==
    [put |-> IF desired = NoRef \/ current = desired THEN Empty
             ELSE OneRow(desired.id, desired.target),
     del |-> IF desired = NoRef /\ current # NoRef THEN {current.id} ELSE {}]

\* Changes are applied in order: what is deleted last is deleted.
Then(first, second) ==
    [put |-> Over(second.put, first.put), del |-> first.del \cup second.del]

Deleting(ids) == [put |-> Empty, del |-> ids]

RemovalPlan ==
    [domain |-> {NoDomain}, routes |-> Deleting({}),
     backends |-> Deleting({}), dns |-> Deleting({})]

\* Deletions that follow an upsert of the same identifier win.
BuildL4(b, seen) ==
    [routes |-> diffHTTPRoutes(currentHTTPRoutes(seen), Empty),
     backends |->
        Then(diffServiceBackendRef(seen.bound,
                [id |-> backendRefID(L4Key), target |-> b.l4]),
             Deleting(DOMAIN currentL7BackendRefs(seen)))]

BuildL7KeepingL4(b, seen) ==
    [routes |-> diffHTTPRoutes(currentHTTPRoutes(seen), DesiredRoutes(b)),
     backends |-> diffServiceBackendRefs(currentL7BackendRefs(seen),
                                         DesiredBackends(b))]

BuildL7(b, seen) ==
    [routes |-> diffHTTPRoutes(currentHTTPRoutes(seen), DesiredRoutes(b)),
     backends |->
        Then(diffServiceBackendRefs(currentL7BackendRefs(seen),
                                    DesiredBackends(b)),
             diffServiceBackendRef(seen.bound, NoRef))]

Build(b, seen, seenDNS) ==
    LET rows == IF isL4BackendType(b.type)
                THEN BuildL4(b, seen) ELSE BuildL7(b, seen)
    IN  IF b = Removal THEN RemovalPlan
        ELSE [domain |-> diffDomainEndpoint(seen, buildDesiredDomainEndpoint(b)),
              routes |-> rows.routes,
              backends |-> rows.backends,
              dns |-> diffDNSRecords(seenDNS, buildDesiredDNSRecords(b))]

-----------------------------------------------------------------------------
(* The repository.                                                         *)

Live(t, id) ==
    IF id \in DOMAIN t.backends THEN [id |-> id, target |-> t.backends[id]]
    ELSE NoRef

\* An L4 entry shows its bound backend and no route, an L7 entry its routes
\* and no bound backend; a reference to a deleted backend shows as none.
GetDomainEntryProjectionByDomain(t) ==
    IF t.domain = NoDomain THEN NotFound
    ELSE IF isL4BackendType(t.domain.type)
    THEN [type |-> t.domain.type, need |-> t.domain.need,
          bound |-> Live(t, t.domain.bound), routes |-> {}]
    ELSE [type |-> t.domain.type, need |-> t.domain.need, bound |-> NoRef,
          routes |-> {[id |-> id, path |-> t.routes[id].path,
                       ref |-> Live(t, t.routes[id].ref)] :
                        id \in DOMAIN t.routes}]

\* The rows of a hostname: each live backend row is one the entry refers to,
\* and only an L7 entry has route rows.
NoOrphans(t) ==
    LET entry == GetDomainEntryProjectionByDomain(t)
    IN  DOMAIN t.backends =
            ({entry.bound.id} \cup {r.ref.id : r \in entry.routes}) \ {NoID}

RoutesOfL7(t) ==
    t.domain = NoDomain \/ isL4BackendType(t.domain.type) => DOMAIN t.routes = {}

TableOK(t) ==
    /\ DOMAIN t = {"domain", "routes", "backends", "dns"}
    /\ NoID \notin DOMAIN t.backends

\* UpsertResource and DeleteResourceByField of one kind of rows.
Written(rows, change) ==
    Restrict(Over(change.put, rows), (DOMAIN rows \cup DOMAIN change.put)
                                 \ change.del)

\* A record as Create stores it: with its timestamps, and enabled even if it
\* was not, FALSE being the zero value of a column whose default is true.
Stamped(records) ==
    [id \in DOMAIN records |->
        [records[id] EXCEPT !.enabled = TRUE, !.stamped = TRUE]]

\* The records of the question that are shown; a disabled one is not.
ListDNSRecordsByQuestion(t) ==
    Restrict(t.dns, {id \in DOMAIN t.dns : t.dns[id].enabled})

\* What the transaction of applyPlan writes.
Transaction(t, plan) ==
    [routes |-> Written(t.routes, plan.routes),
     backends |-> Written(t.backends, plan.backends),
     domain |-> IF plan.domain = {} THEN t.domain
                ELSE CHOOSE d \in plan.domain : TRUE,
     dns |-> Written(t.dns, [plan.dns EXCEPT !.put = Stamped(@)])]

-----------------------------------------------------------------------------
(* What a desire means, without its identifiers.                           *)

Content(entry) ==
    [type |-> entry.type, need |-> entry.need, bound |-> entry.bound.target,
     routes |-> {[path |-> r.path, target |-> r.ref.target] : r \in entry.routes}]

\* The last target asked for a path is the one meant; an L4 type has no route.
Meant(b) ==
    [type |-> b.type, need |-> b.need, bound |-> b.l4,
     routes |-> {[path |-> b.routes[i].path, target |-> b.routes[i].target] :
                    i \in {j \in DOMAIN b.routes :
                            /\ ~isL4BackendType(b.type)
                            /\ \A k \in DOMAIN b.routes :
                                b.routes[k].path = b.routes[j].path => k <= j}}]

\* Two paths of a desire, "/" and "/root" for one, can have one identifier.
DistinctIDs(b) ==
    \A i, j \in DOMAIN b.routes :
        routeID(b.routes[i].path) = routeID(b.routes[j].path) =>
            b.routes[i].path = b.routes[j].path
=============================================================================
