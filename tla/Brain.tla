-------------------------------- MODULE Brain --------------------------------
(***************************************************************************)
(* The rule engine (internal/brain): observations taken from the local     *)
(* cache and from graph facts, nine rules, verdicts with citations, the    *)
(* correlation of one verdict across clusters, and the ranking.            *)
(*                                                                         *)
(* An observation's ref carries attrs, whether the source left adapter     *)
(* attributes on it (the kubeconfig adapter always stamps its gvr).        *)
(***************************************************************************)
EXTENDS TelemetryConnectors

CorrelatedDigest == "container.image.repo_digests"

\* strings.EqualFold against the lower-case values of the rules.
Fold(v) ==
    CASE v = "OOMKilled" -> "oomkilled" [] v = "CrashLoopBackOff" -> "crashloopbackoff"
      [] v = "ImagePullBackOff" -> "imagepullbackoff" [] v = "Degraded" -> "degraded"
      [] v = "NotReady" -> "notready" [] v = "MemoryPressure" -> "memorypressure"
      [] v = "Evicted" -> "evicted" [] v = "Error" -> "error" [] v = "Sync-Failed" -> "sync-failed"
      [] v = "ScalingReplicaSet" -> "scalingreplicaset" [] OTHER -> v

(***************************************************************************)
(* The catalog (rules.go).  An empty value set matches any value.          *)
(***************************************************************************)
On(lens, key, values, weight) == [lens |-> lens, key |-> key, values |-> values, weight |-> weight]
Rule(id, source, kind, exact, trigger, signals, required, strengthener, remediation) ==
    [id |-> id, source |-> source, kind |-> kind, exact |-> exact, trigger |-> trigger, signals |-> signals,
     required |-> required, strengthener |-> strengthener, remediation |-> remediation]

BadDeploy == 1
OOMKilled == 2
CrashLoop == 3
ConfigDrift == 4

Catalog == {
    Rule(BadDeploy, None, None, FALSE, On("live", "workload.status", {"degraded", "progressing"}, 2),
         {On("timeline", "change.kind", {"deploy", "rollout", "argocd-sync", "image-change"}, 3),
          On("desired", "desired.changed", {"true"}, 1)},
         {"live", "timeline"}, {"desired", "telemetry"}, "argocd.rollback"),
    Rule(OOMKilled, None, None, FALSE, On("live", "pod.reason", {"oomkilled"}, 3),
         {On("live", "pod.restarts", {}, 1), On("telemetry", "memory.variant", {}, 2),
          On("timeline", "change.kind", {}, 1)},
         {"live"}, {"telemetry"}, "gitops.open-pr"),
    Rule(CrashLoop, None, None, FALSE, On("live", "pod.failure", {"crashloopbackoff", "repeated-error"}, 3),
         {On("live", "pod.restarts", {}, 1), On("telemetry", "logs.cause", {}, 3),
          On("timeline", "change.kind", {}, 2)},
         {"live"}, {"telemetry"}, None),
    Rule(ConfigDrift, None, None, FALSE, On("desired", "desired.drift", {"true", "outofsync"}, 3),
         {On("timeline", "change.kind", {"kubectl-edit", "kubectl-patch", "sync-failed"}, 2)},
         {"live", "desired"}, {"timeline"}, "gitops.open-pr"),
    Rule(5, None, None, FALSE, On("live", "certificate.expiry", {"expired", "lt-7d"}, 3),
         {On("telemetry", "certificate.renewal", {}, 2)}, {"live"}, {"telemetry"}, None),
    Rule(6, None, None, FALSE,
         On("live", "node.condition", {"memorypressure", "diskpressure", "pidpressure", "notready"}, 3),
         {On("live", "event.reason", {"evicted", "failedscheduling"}, 2), On("telemetry", "node.saturation", {}, 2)},
         {"live"}, {"telemetry"}, None),
    Rule(7, None, None, FALSE, On("live", "pod.reason", {"imagepullbackoff", "errimagepull"}, 3), {},
         {"live"}, {}, None),
    Rule(8, "argocd", "Application", TRUE, On("timeline", "change.kind", {"sync-failed"}, 3), {},
         {"timeline"}, {}, None),
    Rule(9, "github", "WorkflowRun", TRUE, On("timeline", "change.kind", {"workflow-run-failed"}, 3), {},
         {"timeline"}, {}, None)}

SupportsFleetCorrelation(rule) == rule \in 1..6

(***************************************************************************)
(* Observations of the local cache (cache.go)                              *)
(***************************************************************************)
Observation(ref, lens, key, value, at, source, stale) ==
    [ref |-> ref, lens |-> lens, key |-> key, value |-> value, at |-> at, source |-> source, stale |-> stale]

WorkloadKinds == {"Deployment", "StatefulSet", "DaemonSet", "Rollout"}

TimelineChange(reason) ==
    CASE Fold(reason) \in {"scalingreplicaset", "successfulcreate", "successfuldelete"} -> "rollout"
      [] Fold(reason) \in {"syncsucceeded", "operationcompleted"} -> "argocd-sync"
      [] OTHER -> None

\* An Event speaks for the object it involves; a Pod without reasons speaks by its status.
RecordObservations(r) ==
    LET involved == r.kind = "Event" /\ r.involved # NoEntity
        ref == [src |-> "kubeconfig", scope |-> r.cluster, ns |-> r.ns,
                kind |-> IF involved THEN r.involved.kind ELSE r.kind,
                name |-> IF involved THEN <<r.involved.name>> ELSE <<r.name>>, attrs |-> r.attrs]
        add(lens, key, value) == Observation(ref, lens, key, value, r.at, r.cluster, r.stale)
        reasons == IF r.reasons = <<>> /\ r.status # None THEN <<r.status>> ELSE r.reasons
        failure(reason) == Fold(reason) = "crashloopbackoff"
        reported == [i \in DOMAIN reasons |->
                        add("live", IF failure(reasons[i]) THEN "pod.failure" ELSE "pod.reason", reasons[i])]
        repeated == /\ \E i \in DOMAIN reasons : Fold(reasons[i]) = "error" /\ r.restarts >= 2
                    /\ \A i \in DOMAIN reasons : ~failure(reasons[i])
        when(cond, obs) == IF cond THEN <<obs>> ELSE <<>>
    IN CASE r.kind = "Pod" ->
                reported \o when(repeated, add("live", "pod.failure", "repeated-error"))
                \o when(r.restarts > 0, add("live", "pod.restarts", "n"))
                \o when(Len(r.digests) = 1 /\ Head(r.digests \o <<None>>) # Bad,
                        add("live", CorrelatedDigest, Head(r.digests \o <<None>>)))
         [] r.kind \in WorkloadKinds -> when(r.status # None, add("live", "workload.status", r.status))
         [] r.kind = "Node" ->
                when(Fold(r.status) = "notready", add("live", "node.condition", "NotReady"))
                \o [i \in DOMAIN r.conditions |-> add("live", "node.condition", r.conditions[i])]
         [] r.kind = "Event" ->
                when(r.status # None, add("live", "event.reason", r.status))
                \o when(TimelineChange(r.status) # None, add("timeline", "change.kind", TimelineChange(r.status)))
         [] OTHER -> <<>>

\* Coverage: for every lens, whether it is available and not stale.
FromCache(ws, snapshot) ==
    LET mine == SelectSeq(snapshot.records, LAMBDA r : r.ws = ws)
    IN [ok |-> TRUE, ws |-> ws,
        observations |-> FlattenSeq([i \in DOMAIN mine |-> RecordObservations(mine[i])]),
        covered |-> {l \in {"live", "timeline"} :
                        IF l = "live" THEN snapshot.reachable > 0
                        ELSE \E i \in DOMAIN mine : mine[i].kind = "Event" /\ ~mine[i].stale}]

(***************************************************************************)
(* Observations of graph facts (graph.go).  Every identity a connector     *)
(* wrote is checked again; present is FALSE for a fact no rule reads.      *)
(***************************************************************************)
NoObservation(ok) == [ok |-> ok, present |-> FALSE, obs |-> <<>>]
Observed(obs) == [ok |-> TRUE, present |-> TRUE, obs |-> <<obs>>]
FactRef(f) == [src |-> f.src, scope |-> f.scope, kind |-> f.rkind, ns |-> f.ns, name |-> f.name, attrs |-> FALSE]

SyncPhases == {None, "Succeeded", "Running", "Terminating"}
ObservationFromArgo(f) ==
    LET subject == /\ f.src = "argocd" /\ f.adapter = "argocd" /\ f.proto = "argocd"
                   /\ f.rkind = "Application" /\ f.ns # None
                   /\ f.entity = [NoEntity EXCEPT !.cluster = f.scope, !.namespace = f.ns,
                                                  !.kind = "Application", !.name = f.name[1]]
                   /\ f.source = f.scope /\ f.payload.event # 0 /\ f.payload.event = f.at
        failed == /\ f.payload.phase \in {"Failed", "Error"} /\ f.payload.id = None /\ ~f.payload.truncated
                  /\ SubSeq(f.native, 1, 5) = <<f.scope, f.ns, f.name[1], "#", "operation">>
    IN IF ~subject THEN NoObservation(FALSE)
       ELSE IF f.payload.change = "argocd-sync" THEN NoObservation(f.payload.phase \in SyncPhases)
       ELSE IF f.payload.change = "sync-failed" /\ failed
            THEN Observed(Observation(FactRef(f), "timeline", "change.kind", "sync-failed", f.at, f.source, f.stale))
       ELSE NoObservation(FALSE)

\* The identity derived again, from the fact alone.
LogCauseDigest(f) ==
    Digest(<<f.ws, f.scope, f.ns, f.entity.pod, f.payload.container>>
           \o Values(f.payload, <<"cause", "count", "first", "last">>) \o <<f.at>>)

ObservationFromLogCause(f) ==
    LET p == f.payload
        identity == LogCauseDigest(f)
    IN IF /\ f.fkind = "derived" /\ f.lens = "telemetry" /\ f.src = "elasticsearch" /\ f.adapter = "elasticsearch"
          /\ f.proto = "elasticsearch" /\ f.rkind = "LogSignal" /\ f.ns # None /\ f.entity.pod # None
          /\ f.entity = PodEntity(f.scope, f.ns, f.entity.pod) /\ f.source = f.scope
          /\ p.cause \in {"panic", "missing-config", "dependency-failure"} /\ p.count \in 1..MaxRows
          /\ p.first # 0 /\ p.first <= p.last /\ p.last - p.first <= MaxWindow /\ p.last <= f.at + Skew
          /\ p.container # Bad /\ f.native = <<"sha256", identity>> /\ f.name = <<"log", identity>>
       THEN Observed(Observation([src |-> "elasticsearch", scope |-> f.entity.cluster, kind |-> "Pod",
                                  ns |-> f.entity.namespace, name |-> <<f.entity.pod>>, attrs |-> FALSE],
                                 "telemetry", "logs.cause", p.cause, p.last, f.source, f.stale))
       ELSE NoObservation(FALSE)

ObservationFromWorkflow(f) ==
    LET p == f.payload
    IN IF /\ f.fkind = "change" /\ f.lens = "timeline" /\ f.src = "github" /\ f.adapter = "github"
          /\ f.proto = "workflow-runs" /\ f.entity = NoEntity /\ f.rkind = "WorkflowRun"
          /\ ValidText(f.scope) /\ ValidText(f.ns) /\ f.source = f.scope
          /\ p.change = "workflow-run-failed" /\ p.conclusion \in FailedConclusions
          /\ p.event # 0 /\ p.event = f.at
          /\ SubSeq(f.name, 2, 5) = <<"#", p.number, "-attempt-", p.attempt>> /\ f.native = <<f.ns>> \o f.name
       THEN Observed(Observation(FactRef(f), "timeline", "change.kind", "workflow-run-failed", f.at, f.source, f.stale))
       ELSE NoObservation(FALSE)

ObservationFromGraphFact(f) ==
    CASE f.proto = "elasticsearch" -> ObservationFromLogCause(f)
      [] f.proto = "workflow-runs" -> ObservationFromWorkflow(f)
      [] "elasticsearch" \in {f.src, f.adapter} /\ f.rkind = "LogSignal" -> ObservationFromLogCause(f)
      [] f.fkind # "change" \/ f.lens # "timeline" -> NoObservation(TRUE)
      [] "argocd" \in {f.src, f.adapter} -> ObservationFromArgo(f)
      [] "github" \in {f.src, f.adapter} /\ f.rkind = "WorkflowRun" -> ObservationFromWorkflow(f)
      [] OTHER -> NoObservation(TRUE)

\* The graph's own order, nodes first: the order facts were collected in is lost here.
FromGraphFacts(ws, facts, covered) ==
    LET graph == NewGraph(ws, facts)
        ordered == FlattenSeq([i \in DOMAIN graph.nodes |-> graph.nodes[i].facts]) \o graph.unattached
        each == [i \in DOMAIN ordered |-> ObservationFromGraphFact(ordered[i])]
    IN IF ~graph.ok \/ \E i \in DOMAIN each : ~each[i].ok
       THEN [ok |-> FALSE, ws |-> ws, observations |-> <<>>, covered |-> {}]
       ELSE [ok |-> TRUE, ws |-> ws, observations |-> FlattenSeq([i \in DOMAIN each |-> each[i].obs]),
             covered |-> covered]

(***************************************************************************)
(* Evaluation (evaluate.go, model.go)                                      *)
(***************************************************************************)
EntityKey(ref) == <<ref.scope, ref.ns, ref.kind, ref.name>>

Matches(p, o, exact) ==
    /\ o.lens = p.lens /\ o.key = p.key
    /\ p.values = {} \/ o.value \in p.values \/ (~exact /\ Fold(o.value) \in p.values)

AnyMatch(p, observations, exact) ==   \* mutant
    LET all == SelectSeq(observations, LAMBDA o : Matches(p, o, exact)) IN IF all # <<>> THEN <<all[1]>> ELSE <<>>
\* The first fresh match; failing that the last stale one.
MatchFirst(p, observations, exact) ==
    LET all == SelectSeq(observations, LAMBDA o : Matches(p, o, exact))
        fresh == SelectSeq(all, LAMBDA o : ~o.stale)
    IN IF fresh # <<>> THEN <<fresh[1]>> ELSE IF all # <<>> THEN <<Last(all)>> ELSE <<>>

\* A lens nobody declared, or that holds nothing fresh about this entity, is a gap.
Unavailable(lens, covered, observations) ==
    lens \notin covered \/ \A i \in DOMAIN observations : observations[i].lens = lens => observations[i].stale

Applicable(rule, observations) ==
    SelectSeq(observations, LAMBDA o : /\ rule.source \in {None, o.ref.src} /\ rule.kind \in {None, o.ref.kind})

Citation(p, o) == [ref |-> o.ref, lens |-> o.lens, key |-> p.key, value |-> o.value, weight |-> p.weight,
                   at |-> o.at, source |-> o.source, stale |-> o.stale]

EvaluateRule(rule, observations, covered) ==
    LET mine == Applicable(rule, observations)
        trigger == MatchFirst(rule.trigger, mine, rule.exact)
        found == {s \in rule.signals : MatchFirst(s, mine, FALSE) # <<>>}
        gaps == {l \in rule.required : Unavailable(l, covered, mine)}
        weak == {l \in rule.strengthener : Unavailable(l, covered, mine)}
    IN IF trigger = <<>> THEN <<>>
       ELSE <<[rule |-> rule.id, ref |-> trigger[1].ref, scope |-> trigger[1].ref.scope,
               status |-> IF gaps # {} THEN "unconfirmed" ELSE IF weak # {} THEN "detected" ELSE "confirmed",
               missing |-> IF gaps # {} THEN gaps ELSE weak,
               score |-> rule.trigger.weight + MapThenSumSet(LAMBDA s : s.weight, found),
               citations |-> {Citation(rule.trigger, trigger[1])}
                             \cup {Citation(s, MatchFirst(s, mine, FALSE)[1]) : s \in found},
               causeOf |-> {}, digest |-> None, fleet |-> FALSE, clusters |-> {}, remediation |-> rule.remediation]>>

\* A bad deploy of an entity that also crash-loops is named as the cause.
Compose(verdicts) ==
    LET rules == {v.rule : v \in verdicts}
    IN {IF v.rule = BadDeploy /\ CrashLoop \in rules
        THEN [v EXCEPT !.causeOf = {CrashLoop}, !.score = @ + 100] ELSE v : v \in verdicts}

\* sortVerdicts: fleet-wide first, then by score, rule, scope, hypothesis and resource.
RankKey(v) == (IF v.fleet THEN 1000000 ELSE 0) + 10 * v.score + (9 - v.rule)
SortVerdicts(verdicts) ==
    LET ranks == SetToSortSeq({RankKey(v) : v \in verdicts}, >)
        tied(k) == SortedBy(SetToSeq({v \in verdicts : RankKey(v) = k}),
                            LAMBDA v : <<v.scope, v.causeOf, v.digest, <<v.ref.src, v.ref.kind, v.ref.ns, v.ref.name>>>>)
    IN FoldLeft(LAMBDA acc, k : acc \o tied(k), <<>>, ranks)

ConfidenceRank(status) == CASE status = "confirmed" -> 3 [] status = "detected" -> 2 [] OTHER -> 1

\* A fleet verdict is no surer than its least sure member.
WeakestStatus(group) == (CHOOSE v \in group : \A w \in group : ConfidenceRank(v.status) <= ConfidenceRank(w.status)).status

StaleDigests(observations) == {o \in ToSet(observations) : o.key = CorrelatedDigest}   \* mutant
FreshDigests(observations) == {o \in ToSet(observations) : o.key = CorrelatedDigest /\ ~o.stale}

\* Of several digest observations on one entity the newest is cited, ties by source, value and resource.
PreferredObservation(all) ==
    LET newest == {o \in all : \A x \in all : o.at >= x.at}
    IN SortedBy(SetToSeq(newest), LAMBDA o : <<o.source, o.value, <<o.ref.src, o.ref.scope, o.ref.kind, o.ref.ns,
                                                                    o.ref.name, ToString(o.ref.attrs)>>>>)[1]

\* One fleet verdict per rule and digest that two clusters share.
CorrelateFleet(verdicts, observations) ==
    LET about(v) == SelectSeq(observations, LAMBDA o : EntityKey(o.ref) = EntityKey(v.ref))
        digests(v) == IF SupportsFleetCorrelation(v.rule) THEN FreshDigests(about(v)) ELSE {}
        keys == UNION {{<<v.rule, o.value>> : o \in digests(v)} : v \in verdicts}
        group(k) == {v \in verdicts : v.rule = k[1] /\ \E o \in digests(v) : o.value = k[2]}
        clusters(k) == {v.ref.scope : v \in group(k)}
        cited(v, k) == Citation(On("live", CorrelatedDigest, {}, 0),
                                PreferredObservation({o \in digests(v) : o.value = k[2]}))
    IN {[SortVerdicts(group(k))[1] EXCEPT
            !.fleet = TRUE, !.scope = "fleet", !.clusters = clusters(k), !.digest = k[2],
            !.score = @ + 1000 + Cardinality(clusters(k)),
            !.citations = UNION {v.citations \cup {cited(v, k)} : v \in group(k)},
            !.missing = UNION {v.missing : v \in group(k)},
            !.status = WeakestStatus(group(k))] : k \in {x \in keys : Cardinality(clusters(x)) >= 2}}

Evaluate(in) ==
    LET obs == in.observations
        about(e) == SelectSeq(obs, LAMBDA o : EntityKey(o.ref) = e)
        local(e) == Compose(UNION {ToSet(EvaluateRule(r, about(e), in.covered)) : r \in Catalog})
        verdicts == UNION {local(e) : e \in {EntityKey(obs[i].ref) : i \in DOMAIN obs}}
    IN IF \E i \in DOMAIN obs : obs[i].value = None THEN <<>>
       ELSE SortVerdicts(CorrelateFleet(verdicts, obs) \cup verdicts)
=============================================================================
