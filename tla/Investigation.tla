---------------------------- MODULE Investigation ----------------------------
(***************************************************************************)
(* One investigation end to end: connectors are registered, responses are  *)
(* projected into facts, the cache is read, the rules are evaluated, a     *)
(* cost rollup is built, and one verdict is resolved into the arguments of *)
(* a pull request and planned.  Responses, records, bundles and factories  *)
(* come from the sets a model gives.                                       *)
(***************************************************************************)
EXTENDS GitOpsResolver

CONSTANTS
    Workspace,              \* the caller's workspace
    Responses,              \* per connector, the responses it may be handed
    Records, MaxRecords,    \* cache records, and how many one snapshot holds (bound)
    CostInputs,             \* cost responses a rollup may be built from
    ExpectedScopes,         \* the scope lists a rollup may be asked for
    Factories, MaxBoot,     \* connectors offered to the registry at start-up (bound)
    Requests,               \* intents handed to the registry's planner
    Offers,                 \* wire versions an endpoint may offer
    BundleInputs, SnapshotInputs, Handlers

VARIABLES
    registry, boot,         \* the registry, and how many factories have been tried
    facts,                  \* the graph facts collected
    last,                   \* the last projection: connector, response, what came out
    records,                \* the cache records of this workspace's snapshot
    verdicts,               \* the ranked answer
    made                    \* the last value built apart: a rollup, a plan or a desired change, with its request

evars == <<facts, last, records, verdicts>>
avars == <<registry, boot>>
vars == <<evars, avars, made, rvars>>

Nothing == [what |-> None]
Made(what, request, result) == [what |-> what, request |-> request, result |-> result]

NoProjection == [conn |-> None, in |-> <<>>, out |-> Rejected]
Connectors == {"argocd", "pulls", "workflow-runs", "prometheus", "dcgm", "elasticsearch", "opencost", "awseks"}
Projection(conn, in) ==
    CASE conn = "argocd" -> ProjectApplication(in) [] conn = "pulls" -> ProjectMergedPullRequest(in)
      [] conn = "workflow-runs" -> ProjectFailedWorkflowRun(in) [] conn = "prometheus" -> ProjectAlerts(in)
      [] conn = "dcgm" -> ProjectGPUUtilization(in) [] conn = "elasticsearch" -> ProjectLogCauses(in)
      [] conn = "opencost" -> ProjectNamespaceCosts(in) [] conn = "awseks" -> ProjectNodegroupFacts(in)

Init ==
    /\ clock = 1 /\ handler \in Handlers /\ handler.deviates = None /\ call = Idle
    /\ registry = EmptyRegistry /\ boot = 0 /\ made = Nothing
    /\ facts = <<>> /\ last = NoProjection /\ records = {} /\ verdicts = <<>>

Serving == boot = MaxBoot
Resolving == call.pc \in {"inspect", "canonicalize", "reinspect", "freshen"}
Collecting == Serving /\ call.pc = "idle" /\ verdicts = <<>> /\ made = Nothing
\* The bound on one investigation: two responses, or one and a record, or MaxRecords records.
Room(calls, n) == 2 * calls + n <= IF calls = 0 THEN MaxRecords ELSE IF n = 0 THEN 4 ELSE 3
Called == {f.proto : f \in ToSet(facts)}

RegisterConnector(c) ==
    /\ boot < MaxBoot /\ boot' = boot + 1 /\ registry' = Register(registry, c)
    /\ UNCHANGED <<evars, rvars, made>>

\* A refused response leaves the facts alone.
Project(conn) ==
    /\ Collecting /\ conn \notin Called /\ Room(Cardinality(Called) + 1, Cardinality(records))
    /\ \E in \in Responses[conn] :
        LET out == Projection(conn, in)
        IN last' = [conn |-> conn, in |-> in, out |-> out] /\ facts' = facts \o out.facts
    /\ UNCHANGED <<records, verdicts, made, avars, rvars>>

\* The cache holds one record per object.
ReadRecord(r) ==
    /\ Collecting /\ Room(Cardinality(Called), Cardinality(records) + 1)
    /\ \A x \in records : <<x.cluster, x.ns, x.kind, x.name>> # <<r.cluster, r.ns, r.kind, r.name>>
    /\ records' = records \cup {r} /\ last' = NoProjection
    /\ UNCHANGED <<facts, verdicts, made, avars, rvars>>

\* Cache and graph observations side by side, the coverage of each added, as the tests combine them.
Joined(recs, fs) ==
    LET cache == FromCache(Workspace, [records |-> recs, reachable |-> Cardinality({r.cluster : r \in ToSet(recs)})])
        graph == FromGraphFacts(Workspace, fs, {f.lens : f \in ToSet(fs)})
    IN [ok |-> graph.ok, observations |-> cache.observations \o graph.observations,
        covered |-> cache.covered \cup graph.covered]
Answer(recs, fs) == LET in == Joined(recs, fs) IN IF in.ok THEN Evaluate(in) ELSE <<>>

Investigate ==
    /\ Collecting
    /\ verdicts' = Answer(SetToSeq(records), facts) /\ verdicts' # <<>>
    /\ last' = NoProjection
    /\ UNCHANGED <<facts, records, made, avars, rvars>>

\* Values built from their arguments alone are built one at a time, before any evidence (bound).
Quiet == Serving /\ facts = <<>> /\ records = {} /\ made = Nothing

\* external: the caller of the two OpenCost functions.  A response that was refused leaves it without
\* a snapshot, or, if it is careless of the error, with the zero one.
Rollup(ins, careless) ==
    /\ Quiet
    /\ \E expected \in ExpectedScopes, order \in {s \in [1..Cardinality(ins) -> ins] : IsInjective(s)} :
        LET results == [i \in DOMAIN order |-> ProjectNamespaceCostSnapshot(order[i])]
            passed == SelectSeq(results, LAMBDA x : x.ok \/ careless)
            req == [ws |-> Workspace, currency |-> "USD", start |-> 1, end |-> 2, expected |-> expected,
                    snapshots |-> [i \in DOMAIN passed |-> passed[i].snapshot]]
        IN made' = Made("rollup", [expected |-> expected, responses |-> ins], RollupWorkspaceCosts(req))
    /\ UNCHANGED <<evars, avars, rvars>>

Plan(request) ==
    /\ Quiet /\ made' = Made("plan", request, RegistryPlan(registry, request))
    /\ UNCHANGED <<evars, avars, rvars>>

Negotiate(local, remote) ==
    /\ Quiet /\ made' = Made("wire", <<local, remote>>, NegotiateWireVersion(local, remote))
    /\ UNCHANGED <<evars, avars, rvars>>

\* A transformer's output bound to the snapshot it was computed from.
ProposeChange(in, content) ==
    /\ Quiet
    /\ made' = Made("change", in, UNION {NewDesiredChange(s, "t/1", content, s.evidence) : s \in NewGitSourceSnapshot(in)})
    /\ UNCHANGED <<evars, avars, rvars>>

Resolve ==
    /\ Serving
    /\ \E i \in DOMAIN verdicts, ins \in {s \in SUBSET BundleInputs : Cardinality(s) <= 2}, canceled \in BOOLEAN :
        ResolveBegin(Workspace, verdicts[i], SetToSeq(UNION {NewGitOpsProvenanceBundle(in) : in \in ins}), canceled)
    /\ UNCHANGED <<evars, avars, made>>

\* The registry's planner takes the arguments a resolution returned.
PlanResolution ==
    /\ call.pc = "ready" /\ made.what # "plan"
    /\ LET request == [ws |-> call.ws, id |-> "intent", verb |-> OpenPR, target |-> call.output[1], args |-> call.output[2]]
       IN made' = Made("plan", request, RegistryPlan(registry, request))
    /\ UNCHANGED <<evars, avars, rvars>>

Next ==
    \/ \E c \in Factories : RegisterConnector(c)
    \/ \E conn \in Connectors : Project(conn)
    \/ \E r \in Records : ReadRecord(r)
    \/ Investigate
    \/ \E ins \in {s \in SUBSET CostInputs : Cardinality(s) <= 2}, careless \in BOOLEAN : Rollup(ins, careless)
    \/ \E request \in Requests : Plan(request)
    \/ \E local, remote \in Offers : Negotiate(local, remote)
    \/ \E in \in SnapshotInputs, c \in {in2.fields.content : in2 \in SnapshotInputs} : ProposeChange(in, c)
    \/ Resolve
    \/ ResolveNext /\ UNCHANGED <<evars, avars, made>>
    \/ Resolving /\ Tick /\ UNCHANGED <<evars, avars, made>>
    \/ Resolving /\ (\E h \in Handlers : HandlerChanges(h)) /\ UNCHANGED <<evars, avars, made>>
    \/ PlanResolution

Spec == Init /\ [][Next]_vars

(***************************************************************************)
(* Properties                                                              *)
(***************************************************************************)
\* Whatever the connectors emit, in any combination, the graph and the rule engine accept: the
\* identities a projector writes are the ones graph.go re-derives (NewGraph, FromGraphFacts).  Facts
\* that meet in one node are about one and the same entity, whichever connector they came from; two
\* pods of one name in two namespaces stay apart (EntityRef.Key).
ProjectionsAccepted ==
    LET graph == NewGraph(Workspace, facts)
    IN /\ Joined(<<>>, facts).ok
       /\ \A i \in DOMAIN graph.nodes :
            \A f \in ToSet(graph.nodes[i].facts) : f.entity = graph.nodes[i].entity

\* What is left out is named.  A deployment history cut to its newest entries says so: some change
\* that was kept carries the mark exactly when older entries were dropped and a dated one survived,
\* even when that entry merged with the running operation (projectChanges).  A rollup that is given
\* reports exactly the scopes whose response was accepted, whatever its caller does with the others: a
\* scope whose response was refused, or that sent none, is missing and never passes for an empty one, and
\* the rollup is complete only when every expected scope was accepted.  It counts every row of those
\* responses once, and its total is the sum of its parts within their tolerance
\* (ProjectNamespaceCostSnapshot, RollupWorkspaceCosts).
OmissionsDisclosed ==
    /\ last.conn = "argocd" /\ last.out.ok =>
        LET h == last.in.status.history
            changes == {f \in ToSet(last.out.facts) : f.fkind = "change"}
        IN (\E f \in changes : f.payload.truncated)
               <=> (\E i \in DOMAIN h : i > Len(h) - MaxHistory /\ h[i].at # Absent) /\ Len(h) > MaxHistory
    /\ made.what = "rollup" /\ made.result.ok =>
        LET r == made.result
            scopes == ToSet(made.request.expected)
            accepted == {x \in made.request.responses : ProjectNamespaceCosts(x).ok}
            answered == {x.scope : x \in accepted}
        IN /\ r.reported = answered /\ r.missing = scopes \ answered
           /\ r.empty = {x.scope : x \in {y \in accepted : y.rows = {}}}
           /\ r.complete <=> scopes \subseteq answered
           /\ r.count = MapThenSumSet(LAMBDA x : Cardinality(x.rows), accepted)
           /\ r.amounts.total - (r.amounts.cost + r.amounts.adjustment) \in -r.count..r.count

Reordered(in) == [in EXCEPT !.rows = Reverse(@)]
Essence(v) == [rule |-> v.rule, scope |-> v.scope, ref |-> v.ref, status |-> v.status, score |-> v.score,
               fleet |-> v.fleet, clusters |-> v.clusters, missing |-> v.missing,
               cited |-> {<<c.key, c.weight, c.stale>> : c \in v.citations}]
Essences(answer) == [i \in DOMAIN answer |-> Essence(answer[i])]
\* The order in which inputs were listed, fetched or offered decides nothing.  A provider's rows in
\* another order give the same facts (ProjectAlerts, ProjectGPUUtilization, ProjectLogCauses); records
\* and facts in another order give the same ranked verdicts, with the same confidence, gaps and choice
\* of fresh over stale evidence (match, sortVerdicts); changes in another order give the same proposal
\* branch, diff and steps (OpenPRPlanner.Plan); both ends of a connection settle on the same version,
\* one they both offered (NegotiateWireVersion); a snapshot's evidence in another order gives the same
\* desired change (NewGitSourceSnapshot).
OrderFree ==
    /\ last.conn \in {"prometheus", "dcgm", "elasticsearch"} => Projection(last.conn, Reordered(last.in)) = last.out
    /\ verdicts # <<>> =>
        \A order \in {s \in [1..Cardinality(records) -> records] : IsInjective(s)} :
            Essences(Answer(order, Reverse(facts))) = Essences(verdicts)
    /\ made.what = "plan" =>
        RegistryPlan(registry, [made.request EXCEPT !.args.changes = Reverse(@)]) = made.result
    /\ made.what = "wire" =>
        LET back == NegotiateWireVersion(made.request[2], Reverse(made.request[1]))
        IN /\ back = made.result
           /\ back.ok => \A i \in 1..2 : back.version \in ToSet(made.request[i])
    /\ made.what = "change" =>
        \A c \in made.result :
            NewGitSourceSnapshot([made.request EXCEPT !.fields.evidence = Reverse(@)]) = {c.snapshot}

\* A fleet-wide verdict names exactly the clusters, two or more, where an entity has its own verdict of
\* that rule and a fresh record of the shared digest.  It cites that record in each of them, is no surer
\* than any of those verdicts and hides none of their gaps (correlateFleet).
FleetVerdictHonest ==
    \A v \in {w \in ToSet(verdicts) : w.fleet} :
        LET shared == {r \in records : r.ws = Workspace /\ r.kind = "Pod" /\ ~r.stale /\ r.digests = <<v.digest>>}
            members(c) == {w \in ToSet(verdicts) : /\ ~w.fleet /\ w.rule = v.rule /\ w.scope = c
                                                   /\ \E r \in shared : EntityKey(w.ref) = <<c, r.ns, r.kind, <<r.name>>>>}
            seen(c) == {x \in v.citations : x.key = CorrelatedDigest /\ x.ref.scope = c /\ x.value = v.digest}
        IN /\ Cardinality(v.clusters) >= 2 /\ v.clusters = {c \in {r.cluster : r \in records} : members(c) # {}}
           /\ \A c \in v.clusters :
                /\ \E x \in seen(c) : ~x.stale
                /\ \A w \in members(c) : ConfidenceRank(v.status) <= ConfidenceRank(w.status) /\ w.missing \subseteq v.missing

\* A resolution that says Ready does so while its bundle is valid on the server clock, for a
\* confirmed verdict of one cluster with only fresh citations, with the bundle's own repository and
\* content, however the clock and the handler moved while it ran (GitOpsResolver.Resolve).
ReadyIsCurrent ==
    [][call.pc # "ready" /\ call'.pc = "ready" =>
        /\ InWindow(clock, Bundle.observed, Bundle.until)
        /\ call.verdict[1].status = "confirmed" /\ ~call.verdict[1].fleet
        /\ \A c \in call.verdict[1].citations : ~c.stale
        /\ call.output = <<OpenPRTarget([host |-> Bundle.repository.host, owner |-> Bundle.repository.owner,
                                         repo |-> Bundle.repository.repo]), Arguments(Bundle)>>]_vars

\* What the documentation says of the required LIVE lens: evidence that is only stale gives an
\* unconfirmed verdict, so a confirmed one cites its trigger fresh (evaluateRule, unavailable).
StaleNeverConfirms ==
    \A v \in ToSet(verdicts) : v.status = "confirmed" => \E c \in v.citations : ~c.stale
=============================================================================
