----------------------------- MODULE FleetStore -----------------------------
(***************************************************************************)
(* A workspace's fleet on the hub: attempts to collect its spokes, by      *)
(* several hub replicas at once (hubfleet/collector.go collectSpoke and    *)
(* persistSpokeResult over hubocm/direct.go), the rows they leave          *)
(* (hubdb/fleet.go), and the reads and searches served from those rows     *)
(* (hubfleet/source.go, *_search.go, correlation.go, hubserver/fleet.go).  *)
(*                                                                         *)
(* Every list call, SQL statement and clock reading is a step of its own.  *)
(* PostgreSQL is modelled by what the code relies on: statements of a      *)
(* READ COMMITTED transaction see what is committed when they start, an    *)
(* UPDATE locks its row until the transaction ends and re-reads it after   *)
(* waiting, and a REPEATABLE READ transaction reads the state of its first *)
(* statement throughout.                                                   *)
(***************************************************************************)
EXTENDS SpokeSnapshot

CONSTANTS Worlds,            \* ref -> the successive contents of that cluster: kind -> [served, items]
          Attempts, Readers, \* slots of collection attempts and of reads
          Workloads,         \* the scenarios: [rows, facts, spokes, requests, admin, ticks]
          NamePrefixes,      \* the pairs <<prefix, name>> of the names considered
          Freshness, FactLimit, MaxFactLimit

ASSUME StoreAssumptions == {Freshness, FactLimit, MaxFactLimit} \subseteq Nat \ {0} /\ FactLimit <= MaxFactLimit

VARIABLES clock, workload, step,   \* step: how much of workload.admin has happened
          version,                 \* ref -> index into Worlds[ref]
          clusters, facts, lock,   \* the tables, and which attempt holds a cluster's row (0: none)
          att, rd                  \* attempts and reads

vars == <<clock, workload, step, version, clusters, facts, lock, att, rd>>
dbvars == <<clusters, facts, lock>>

Never == 0
Idle == [pc |-> "idle"]

Init ==
    /\ workload \in Workloads /\ clock = 1 /\ step = 0
    /\ version = [r \in DOMAIN Worlds |-> 1]
    /\ clusters = workload.rows /\ facts = workload.facts
    /\ lock = [c \in DOMAIN workload.rows |-> 0]
    /\ att = [a \in Attempts |-> Idle] /\ rd = [r \in Readers |-> Idle]

(***************************************************************************)
(* Collecting: one attempt at one registered spoke.                        *)
(***************************************************************************)
At(a, pc) == att[a].pc = pc
Go(a, q) == att' = [att EXCEPT ![a] = q]
Failing(q, failure) == [pc |-> "fail", id |-> q.id, ref |-> q.ref, attempted |-> q.attempted, failure |-> failure]
Fails(a, q, failure) == Go(a, Failing(q, failure))
Over(a, answer) == Go(a, [pc |-> answer])
Ends(a, answer) == att' = [att EXCEPT ![a].pc = answer]

\* RegisteredSpokes, then the start of collectSpoke: the row is not read again.
Begin(a, id) ==
    /\ At(a, "idle") /\ a <= workload.attempts /\ (\A x \in Attempts : x < a => ~At(x, "idle"))
    /\ id \in DOMAIN clusters /\ SpokeOK([id |-> id, ref |-> clusters[id].ref])
    /\ Go(a, [pc |-> "credential", id |-> id, ref |-> clusters[id].ref, attempted |-> clock])
    /\ UNCHANGED <<clock, workload, step, version, rd, dbvars>>

Kinds == <<"Deployment", "Pod", "Rollout", "Report">>
Optional == {"Rollout", "Report"}

\* The projected credential is read, a client built, and the clock read before anything is listed.
Credential(a) ==
    /\ At(a, "credential")
    /\ LET q == att[a] IN
       \/ /\ q.ref \in DOMAIN Worlds
          /\ Go(a, [pc |-> "list", id |-> q.id, ref |-> q.ref, attempted |-> q.attempted, observed |-> clock,
                    kind |-> 1, token |-> 0, at |-> 0, pages |-> 0, remaining |-> MaxResources,
                    items |-> [k \in ToSet(Kinds) |-> <<>>], from |-> version[q.ref], to |-> version[q.ref]])
       \/ Fails(a, q, "transport")
    /\ UNCHANGED <<clock, workload, step, version, rd, dbvars>>

\* The API server's answer (external): the rest of the list as of the first page, cut at the limit (0
\* is none) or earlier, or all of it from a server that ignores the limit.
Pages(items, token, limit) ==
    LET left == Len(items) - token
        cut == IF limit = 0 THEN left ELSE Min({limit, left})
    IN {[items |-> SubSeq(items, token + 1, token + n), next |-> IF n = left THEN 0 ELSE token + n] :
          n \in IF left = 0 THEN {0} ELSE 1..cut \cup {left}}

ListLimit(q) == Min({q.remaining, IF Kinds[q.kind] = "Report" THEN ReportPageSize ELSE ListPageSize})
TooMany(page, remaining) == Len(page.items) > remaining \/ (Len(page.items) = remaining /\ page.next # 0)
FirstPageOnly(next) == FALSE   \* mutant
More(next) == next # 0

\* Where an attempt goes once a kind is listed: the next kind, if the budget allows it, or the facts.
Listed(q) ==
    LET known == UNION {PodImageDigests(q.items["Pod"][i]) : i \in DOMAIN q.items["Pod"]}
        next == [q EXCEPT !.kind = @ + 1, !.token = 0]
    IN CASE q.kind < 3 -> IF q.remaining <= 0 THEN Failing(q, "transport") ELSE next
         [] q.kind = 3 /\ known # {} -> [next EXCEPT !.remaining = MaxReports, !.pages = 0]
         [] OTHER -> [q EXCEPT !.pc = "collected"]

ListPage(a) ==
    /\ At(a, "list")
    /\ LET q == att[a]
           k == Kinds[q.kind]
           at == IF q.token = 0 THEN version[q.ref] ELSE q.at
           list == Worlds[q.ref][at][k]
       IN \/ ~list.served /\ k \in Optional /\ q.token = 0 /\ Go(a, Listed([q EXCEPT !.to = version[q.ref]]))
          \/ /\ list.served
             /\ \E page \in Pages(list.items, q.token, ListLimit(q)) :
                  LET got == [q EXCEPT !.items[k] = @ \o page.items, !.remaining = @ - Len(page.items), !.at = at,
                                       !.token = page.next, !.pages = @ + 1, !.to = version[q.ref]]
                  IN IF TooMany(page, q.remaining) THEN Fails(a, q, "transport")
                     ELSE IF ~More(page.next) THEN Go(a, Listed(got))
                     ELSE IF k = "Report" /\ got.pages >= MaxReportPages THEN Fails(a, q, "transport")
                     ELSE Go(a, got)
    /\ UNCHANGED <<clock, workload, step, version, rd, dbvars>>

\* A list call fails, its continue token has expired, or the spoke's deadline passes.
TransportFails(a) ==
    /\ At(a, "list") /\ \E failure \in {"transport", "deadline"} : Fails(a, att[a], failure)
    /\ UNCHANGED <<clock, workload, step, version, rd, dbvars>>

\* The deadline is looked at once more, then the snapshot is validated.
Collected(a) ==
    /\ At(a, "collected")
    /\ LET q == att[a]
           made == CollectFacts(q.id, q.items, q.observed)
       IN \/ Fails(a, q, "deadline")
          \/ ~made.ok /\ Fails(a, q, "transport")
          \/ /\ made.ok
             /\ IF SnapshotOK([id |-> q.id, ref |-> q.ref], made.facts, q.observed, q.attempted)
                THEN Go(a, [pc |-> "replace", id |-> q.id, ref |-> q.ref, attempted |-> q.attempted, observed |-> q.observed,
                            from |-> q.from, to |-> q.to, facts |-> made.facts])
                ELSE Fails(a, q, "invalid-snapshot")
    /\ UNCHANGED <<clock, workload, step, version, rd, dbvars>>

(***************************************************************************)
(* Storing: ReplaceSnapshot and MarkSnapshotFailure.                       *)
(***************************************************************************)
Registered(q) == q.id \in DOMAIN clusters /\ clusters[q.id].ref = q.ref
LockIgnored(id) == FALSE   \* mutant
RowLocked(id) == id \in DOMAIN clusters /\ lock[id] # 0

\* The UPDATE: it waits for the row, and must then match it.
ReplaceUpdate(a) ==
    /\ At(a, "replace") /\ ~RowLocked(att[a].id)
    /\ IF Registered(att[a]) THEN Ends(a, "delete") /\ lock' = [lock EXCEPT ![att[a].id] = a]
       ELSE Over(a, "unregistered") /\ UNCHANGED lock
    /\ UNCHANGED <<clock, workload, step, version, rd, clusters, facts>>

\* The DELETE sees the facts committed when it starts.
ReplaceDelete(a) ==
    /\ At(a, "delete")
    /\ LET q == att[a] IN
       Go(a, [x \in DOMAIN q \cup {"deleted"} |->
                IF x = "pc" THEN "insert" ELSE IF x = "deleted" THEN {f \in facts : f.cluster = q.id} ELSE q[x]])
    /\ UNCHANGED <<clock, workload, step, version, rd, dbvars>>

\* The INSERTs and the commit, whose acknowledgement may be lost.
ReplaceCommit(a) ==
    /\ At(a, "insert")
    /\ LET q == att[a] IN
       /\ facts' = (facts \ q.deleted) \cup {[cluster |-> q.id, by |-> a, evidence |-> q.facts[i]] : i \in DOMAIN q.facts}
       /\ clusters' = [clusters EXCEPT ![q.id].lastSeen = q.observed, ![q.id].attempted = q.attempted, ![q.id].error = None]
       /\ lock' = [lock EXCEPT ![q.id] = 0]
    /\ Ends(a, "stored") \/ Ends(a, "unknown")
    /\ UNCHANGED <<clock, workload, step, version, rd>>

\* A statement fails, the call is canceled or the replica dies: PostgreSQL rolls back.
Rollback(a) ==
    /\ att[a].pc \in {"replace", "delete", "insert", "fail"} /\ Over(a, "lost")
    /\ lock' = [c \in DOMAIN lock |-> IF lock[c] = a THEN 0 ELSE lock[c]]
    /\ UNCHANGED <<clock, workload, step, version, rd, clusters, facts>>

MarkSnapshotFailure(a) ==
    /\ At(a, "fail") /\ ~RowLocked(att[a].id)
    /\ IF Registered(att[a])
       THEN /\ clusters' = [clusters EXCEPT ![att[a].id].attempted = att[a].attempted, ![att[a].id].error = att[a].failure]
            /\ Over(a, IF clusters[att[a].id].lastSeen # Never THEN "retained" ELSE "failed")
       ELSE UNCHANGED clusters /\ Over(a, "unregistered")
    /\ UNCHANGED <<clock, workload, step, version, rd, facts, lock>>

(***************************************************************************)
(* Reading: coverage, staleness and queries.                               *)
(***************************************************************************)
StaleState(row, now) == row.lastSeen # Never /\ (row.error # None \/ now - row.lastSeen > Freshness)

\* readClusterStates and coverageFor, for the requested ids (all registered ones when there are none).
Coverage(rows, scopes, now) ==
    LET requested == IF scopes = <<>> THEN SetToSeq(DOMAIN rows) ELSE scopes
        which(P(_)) == SelectSeq(requested, P)
        seen(c) == c \in DOMAIN rows /\ rows[c].lastSeen # Never
    IN [requested |-> Len(requested),
        reachable |-> Len(which(LAMBDA c : seen(c) /\ rows[c].error = None)),
        unreachable |-> which(LAMBDA c : ~seen(c) \/ rows[c].error # None),
        stale |-> which(LAMBDA c : seen(c) /\ StaleState(rows[c], now)), truncated |-> <<>>]

\* Coverage.Assessment: fail closed.
Assessment(v) ==
    LET inconsistent == \/ v.reachable > v.requested \/ Len(v.stale) > v.requested \/ Len(v.truncated) > v.reachable
                        \/ \E scopes \in {v.unreachable, v.stale, v.truncated} : ~IsInjective(scopes)
                        \/ ToSet(v.unreachable) \cap ToSet(v.truncated) # {}
                        \/ Len(v.unreachable) > v.requested - v.reachable
        unaccounted == IF inconsistent THEN 0 ELSE v.requested - v.reachable - Len(v.unreachable)
    IN [inconsistent |-> inconsistent, unaccounted |-> unaccounted, stale |-> v.stale,
        complete |-> ~inconsistent /\ v.unreachable = <<>> /\ v.stale = <<>> /\ v.truncated = <<>> /\ unaccounted = 0]

\* The clusters listed by name, when they are one each and as many as were asked for.
Observed(list, v) ==
    IF Len(list) = v.requested /\ IsInjective([i \in DOMAIN list |-> list[i].name])
    THEN {[name |-> list[i].name, at |-> list[i].observedAt] : i \in DOMAIN list} ELSE {}

\* Source.Fleet: what is reported about the result.
FleetFreshness(list, v, assessment) ==
    LET observed == Observed(list, v)
        seen(c) == \E o \in observed : o.name = c /\ o.at # Never
    IN CASE assessment.inconsistent \/ Cardinality(observed) # v.requested -> "unknown"
         [] assessment.stale # <<>> -> IF \A c \in ToSet(assessment.stale) : seen(c) THEN "stale" ELSE "unknown"
         [] v.requested = 0 -> "empty"
         [] ~assessment.complete -> "unknown"
         [] OTHER -> IF \A o \in observed : o.at # Never THEN "fresh" ELSE "unknown"

FleetOutcome(list, v, assessment) ==
    IF ~assessment.complete \/ Len(list) # v.requested THEN "degraded" ELSE IF v.requested = 0 THEN "empty" ELSE "complete"

ObservationValid(o) ==
    CASE o.outcome = "complete" -> o.freshness = "fresh" [] o.outcome = "degraded" -> o.freshness \in {"stale", "unknown"}
      [] o.outcome = "empty" -> o.freshness = "empty" [] o.outcome = "error" -> o.freshness = "error"

ReadFleet(rows, now) ==
    LET order == SetToSeq(DOMAIN rows)
        list == [i \in DOMAIN order |-> [name |-> order[i], observedAt |-> rows[order[i]].lastSeen,
                                         reachable |-> rows[order[i]].lastSeen # Never /\ rows[order[i]].error = None]]
        v == Coverage(rows, <<>>, now)
    IN [coverage |-> v, clusters |-> list,
        observation |-> [outcome |-> FleetOutcome(list, v, Assessment(v)), freshness |-> FleetFreshness(list, v, Assessment(v))]]

(***************************************************************************)
(* Queries: fleet.Query is [kinds, scopes, limit, sel], sel the selector   *)
(* with None for what it leaves open.                                      *)
(***************************************************************************)
AnySel == [rkind |-> None, ns |-> None, name |-> None, prefix |-> None, health |-> None, healthNot |-> None, image |-> None, cve |-> None]
Healths == {"Healthy", "Degraded", "Progressing", "Unknown"}

Distinct(scopes) == SetToSeq(ToSet(scopes))

\* Query.Validate.
QueryValid(q) ==
    /\ q.limit >= 0 /\ q.kinds \subseteq FactKinds
    /\ {q.sel.health, q.sel.healthNot} \subseteq Healths \cup {None} /\ None \in {q.sel.health, q.sel.healthNot}

\* normalizeFleetQuery: what the persisted snapshots can answer.
QueryOK(q) ==
    LET s == q.sel
        only(fields) == \A f \in DOMAIN AnySel : f \in fields \/ s[f] = None
    IN /\ QueryValid(q) /\ q.kinds \subseteq {"inventory", "health", "cve"}
       /\ IF s.cve # None THEN s.cve # Bad /\ q.kinds = {"cve"} /\ s.rkind = "Image" /\ only({"rkind", "cve"})
          ELSE IF s.image # None
          THEN s.image # Bad /\ only({"rkind", "image"}) /\ <<q.kinds, s.rkind>> \in {<<{"inventory"}, "Pod">>, <<{"cve"}, "Image">>}
          ELSE s.health # None \/ s.healthNot # None => q.kinds = {"health"}
       /\ q.limit <= MaxFactLimit /\ {None, Bad} \cap ToSet(q.scopes) = {}

\* The WHERE clause of queryFacts.
Matches(q, f) ==
    LET e == f.evidence
        s == q.sel
    IN /\ q.scopes # <<>> => f.cluster \in ToSet(q.scopes)
       /\ q.kinds # {} => e.kind \in q.kinds
       /\ s.rkind \in {None, e.rkind} /\ s.ns \in {None, e.ns} /\ s.name \in {None, e.name}
       /\ s.prefix # None => <<s.prefix, e.name>> \in NamePrefixes
       /\ s.health # None => e.observed.status = s.health
       /\ s.healthNot # None => e.observed.status \notin {None, s.healthNot}
       /\ s.image # None => s.image \in IF e.kind = "inventory" THEN e.observed.digests ELSE {e.observed.image}
       /\ s.cve # None => s.cve \in e.observed.ids

\* ORDER BY cluster, newest first, LIMIT: the answers the database may give.
Limited(found, limit) ==
    LET n == Min({Cardinality(found), IF limit = 0 THEN FactLimit ELSE limit})
        before(f) == {g \in found : g.cluster # f.cluster /\ SetToSeq({f.cluster, g.cluster})[1] = g.cluster}
    IN {S \in kSubset(n, found) : \A f \in S : before(f) \subseteq S}

(***************************************************************************)
(* The typed searches: what each refuses, and the query it makes.          *)
(***************************************************************************)
LimitOK(request) == request.limit \in 0..MaxFactLimit
QueryOver(kind, request, sel) == [kinds |-> {kind}, scopes |-> <<>>, limit |-> request.limit, sel |-> sel]
Named(request) == [AnySel EXCEPT !.rkind = request.arg, !.ns = request.ns, !.name = request.name]

ImageRequestOK(request) == request.arg # Bad /\ LimitOK(request)
ImageSearch(request) == QueryOver("inventory", request, [AnySel EXCEPT !.rkind = "Pod", !.image = request.arg])
CVESearch(request) == QueryOver("cve", request, [AnySel EXCEPT !.rkind = "Image", !.image = request.arg])

IdentifierRequestOK(request) == request.arg # Bad /\ LimitOK(request)
SearchByIdentifier(request) == QueryOver("cve", request, [AnySel EXCEPT !.rkind = "Image", !.cve = request.arg])

InventoryRequestOK(request) ==
    request.arg \in {"Deployment", "Pod", "Rollout"} /\ Bad \notin {request.ns, request.name} /\ LimitOK(request)
InventorySearch(request) == QueryOver("inventory", request, Named(request))

CorrelationRequestOK(request) ==
    /\ ValidText(request.arg) /\ ValidText(request.name) /\ request.ns # Bad
    /\ request.healthNot \in Healths \cup {None} /\ LimitOK(request) /\ request.arg # "Secret"
Correlate(request) == QueryOver("health", request, [Named(request) EXCEPT !.healthNot = request.healthNot])

QueryOf(request) ==
    CASE request.op = "images" -> ImageSearch(request) [] request.op = "image-cves" -> CVESearch(request)
      [] request.op = "cves" -> SearchByIdentifier(request) [] request.op = "inventory" -> InventorySearch(request)
      [] request.op = "correlate" -> Correlate(request)
      [] request.op = "query" -> [request.query EXCEPT !.scopes = Distinct(@)]

SearchOK(request) ==
    /\ request.op \in {"images", "image-cves"} => ImageRequestOK(request)
    /\ request.op = "cves" => IdentifierRequestOK(request)
    /\ request.op = "inventory" => InventoryRequestOK(request)
    /\ request.op = "correlate" => CorrelationRequestOK(request)

\* The HTTP surface: fixed routes, read by GET, with no limit of the caller's.
Routed(request) ==
    /\ request.op \in {"fleet", "images", "image-cves", "cves"} /\ (request.op # "fleet" => request.arg # Bad)
    /\ request.limit = 0
Served(request) == request.method # None => Routed(request) /\ request.method = "GET"

Accepted(request) ==
    Served(request) /\ request.member /\ SearchOK(request) /\ (request.op # "fleet" => QueryOK(QueryOf(request)))

\* A request is checked and authorized (the policy may refuse it), and reads the clock.
ReadBegin(r, request) ==
    /\ rd[r].pc = "idle" /\ (\A x \in Readers : x < r => rd[x].pc # "idle")
    /\ \/ Accepted(request) /\ rd' = [rd EXCEPT ![r] = [pc |-> "states", request |-> request, now |-> clock]]
       \/ rd' = [rd EXCEPT ![r] = [pc |-> "refused"]]
    /\ UNCHANGED <<clock, workload, step, version, att, dbvars>>

LaterFacts(seen, current) == current   \* mutant
SnapshotFacts(seen, current) == seen

\* The database does not answer.
ReadFails(r) ==
    /\ rd[r].pc \in {"states", "facts"}
    /\ rd' = [rd EXCEPT ![r] = [pc |-> "failed", observation |-> [outcome |-> "error", freshness |-> "error"]]]
    /\ UNCHANGED <<clock, workload, step, version, att, dbvars>>

\* The first statement: the cluster rows; the transaction's snapshot is taken with it.
ReadStates(r) ==
    /\ rd[r].pc = "states"
    /\ rd' = [rd EXCEPT ![r] = IF rd[r].request.op = "fleet"
                THEN [pc |-> "fleet", now |-> rd[r].now, rows |-> clusters, fleet |-> ReadFleet(clusters, rd[r].now)]
                ELSE [pc |-> "facts", request |-> rd[r].request, now |-> rd[r].now, rows |-> clusters, seen |-> facts]]
    /\ UNCHANGED <<clock, workload, step, version, att, dbvars>>

\* The second statement, and the stamps: a fact of a spoke the first one did not see is an error.
ReadFacts(r) ==
    /\ rd[r].pc = "facts"
    /\ LET x == rd[r]
           q == QueryOf(x.request)
           found == {f \in SnapshotFacts(x.seen, facts) : Matches(q, f)}
       IN \E out \in Limited(found, q.limit) :
            rd' = [rd EXCEPT ![r] =
              IF \E f \in out : f.cluster \notin DOMAIN x.rows \/ f.evidence.scope # f.cluster THEN [pc |-> "inconsistent"]
              ELSE [pc |-> "answered", request |-> x.request, now |-> x.now, rows |-> x.rows,
                    coverage |-> Coverage(x.rows, q.scopes, x.now), capped |-> out # found,
                    facts |-> {[fact |-> f, stale |-> StaleState(x.rows[f.cluster], x.now)] : f \in out}]]
    /\ UNCHANGED <<clock, workload, step, version, att, dbvars>>

(***************************************************************************)
(* The environment: clusters change, an administrator registers and        *)
(* removes spokes (a removal cascades to the facts), time passes.          *)
(***************************************************************************)
ClusterChanges(ref) ==
    /\ version[ref] < Len(Worlds[ref]) /\ ref \in workload.changing /\ version' = [version EXCEPT ![ref] = @ + 1]
    /\ UNCHANGED <<clock, workload, step, att, rd, dbvars>>

Admin ==
    /\ step < Len(workload.admin) /\ step' = step + 1
    /\ LET op == workload.admin[step + 1] IN
       IF op.op = "remove"
       THEN /\ ~RowLocked(op.id)
            /\ clusters' = [c \in DOMAIN clusters \ {op.id} |-> clusters[c]]
            /\ lock' = [c \in DOMAIN lock \ {op.id} |-> lock[c]]
            /\ facts' = {f \in facts : f.cluster # op.id}
       ELSE /\ op.id \notin DOMAIN clusters
            /\ clusters' = [c \in DOMAIN clusters \cup {op.id} |->
                 IF c = op.id THEN [ref |-> op.ref, lastSeen |-> Never, attempted |-> Never, error |-> None] ELSE clusters[c]]
            /\ lock' = [c \in DOMAIN lock \cup {op.id} |-> IF c = op.id THEN 0 ELSE lock[c]]
            /\ UNCHANGED facts
    /\ UNCHANGED <<clock, workload, version, att, rd>>

Tick == clock < workload.ticks /\ clock' = clock + 1 /\ UNCHANGED <<workload, step, version, att, rd, dbvars>>

Next ==
    \/ \E a \in Attempts : \/ \E id \in workload.spokes : Begin(a, id)
                           \/ Credential(a) \/ ListPage(a) \/ TransportFails(a) \/ Collected(a)
                           \/ ReplaceUpdate(a) \/ ReplaceDelete(a) \/ ReplaceCommit(a) \/ Rollback(a) \/ MarkSnapshotFailure(a)
    \/ \E r \in Readers : (\E request \in workload.requests : ReadBegin(r, request)) \/ ReadFails(r) \/ ReadStates(r) \/ ReadFacts(r)
    \/ \E ref \in DOMAIN Worlds : ClusterChanges(ref)
    \/ Admin \/ Tick

Spec == Init /\ [][Next]_vars

(***************************************************************************)
(* Properties.                                                             *)
(***************************************************************************)
\* What could have been stored for a spoke: the rows the run starts with (0), or an attempt's snapshot.
Stored(c) == {0} \cup {a \in Attempts : att[a].pc \in {"stored", "unknown"} /\ att[a].id = c}
StoredFacts(c, s) ==
    IF s = 0 THEN {f.evidence : f \in {g \in workload.facts : g.cluster = c}} ELSE ToSet(att[s].facts)
StoredAt(c, s) == IF s = 0 THEN (IF c \in DOMAIN workload.rows THEN workload.rows[c].lastSeen ELSE Never) ELSE att[s].observed

\* Whatever attempts of however many replicas overlap, the facts of a spoke are all and only the
\* facts of one attempt, the one whose time its row shows (ReplaceSnapshot's UPDATE, DELETE, INSERT).
OneAttemptStored ==
    \A c \in DOMAIN clusters :
      LET mine == {f \in facts : f.cluster = c} IN
      IF clusters[c].lastSeen = Never THEN mine = {}
      ELSE \E s \in Stored(c) : /\ \A f \in mine : f.by = s
                                /\ {f.evidence : f \in mine} = StoredFacts(c, s) /\ clusters[c].lastSeen = StoredAt(c, s)

\* A query answers from one state of the database: for every spoke the facts it returns are those of
\* the attempt its coverage speaks of, all that match unless the limit cut them, and each is stamped
\* stale exactly when the coverage lists its spoke (queryFleet's repeatable read).
QueryConsistent ==
    \A r \in Readers : rd[r].pc = "answered" =>
      LET x == rd[r]
          of(c) == {f.fact.evidence : f \in {g \in x.facts : g.fact.cluster = c}}
          matching(c, s) == {e \in StoredFacts(c, s) : Matches(QueryOf(x.request), [cluster |-> c, evidence |-> e])}
      IN /\ \A f \in x.facts : f.stale = (f.fact.cluster \in ToSet(x.coverage.stale))
         /\ \A c \in DOMAIN x.rows :
              IF x.rows[c].lastSeen = Never THEN of(c) = {}
              ELSE \E s \in Stored(c) : /\ StoredAt(c, s) = x.rows[c].lastSeen /\ of(c) \subseteq matching(c, s)
                                        /\ x.capped \/ of(c) = matching(c, s)

\* The list of an accepted snapshot is complete however the API server paged it while the cluster
\* changed: there are moments of the attempt at which listing each kind in one go gives its facts.
SnapshotComplete ==
    \A a \in Attempts : At(a, "replace") =>
      LET q == att[a]
          at(k, v) == IF Worlds[q.ref][v][k].served THEN Worlds[q.ref][v][k].items ELSE <<>>
      IN \E vs \in [ToSet(Kinds) -> q.from..q.to] :
           q.facts = CollectFacts(q.id, [k \in ToSet(Kinds) |-> at(k, vs[k])], q.observed).facts

\* A stored CVE observation is about an image some Pod of the same stored snapshot runs
\* (collectCVEFacts), though reports and Pods are listed at different moments.
RuntimeProven ==
    \A f \in facts : f.evidence.kind = "cve" =>
      \E p \in facts : p.cluster = f.cluster /\ p.by = f.by /\ f.evidence.observed.image \in p.evidence.observed.digests

\* Every answer accounts for every spoke asked about, once: the coverage assesses as consistent with
\* none unaccounted, a fleet read's observation is one the observer accepts (an invalid one is
\* dropped silently), and it is complete and fresh only when every spoke was collected in time.
ReadsAccounted ==
    \A r \in Readers :
      /\ rd[r].pc = "answered" => ~Assessment(rd[r].coverage).inconsistent /\ Assessment(rd[r].coverage).unaccounted = 0
      /\ rd[r].pc = "failed" => ObservationValid(rd[r].observation)
      /\ rd[r].pc = "fleet" =>
           LET x == rd[r].fleet IN
           /\ ~Assessment(x.coverage).inconsistent /\ Assessment(x.coverage).unaccounted = 0
           /\ ObservationValid(x.observation)
           /\ x.observation.freshness = "fresh" =>
                \A c \in DOMAIN rd[r].rows : LET row == rd[r].rows[c] IN
                   row.lastSeen # Never /\ row.error = None /\ rd[r].now - row.lastSeen <= Freshness

\* Answers describe one state of the database completely: facts and coverage of one moment
\* (queryFleet), every spoke asked about in the coverage once, and an observation that says so.
AnswersConsistent == QueryConsistent /\ ReadsAccounted
=============================================================================
