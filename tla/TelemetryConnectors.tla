------------------------ MODULE TelemetryConnectors -------------------------
(***************************************************************************)
(* The projectors of telemetry: Prometheus alerts, DCGM GPU utilisation,   *)
(* classified Elasticsearch log causes, OpenCost namespace costs with the  *)
(* workspace rollup built from them, and EKS managed node groups.          *)
(*                                                                         *)
(* One bad row of a response refuses the whole response.  A label that is  *)
(* missing is None.  A money amount is a number of ten-thousandths, the    *)
(* tolerance the source allows between a total and its parts.              *)
(***************************************************************************)
EXTENDS ChangeConnectors, FiniteSetsExt

CONSTANTS MaxRows,       \* each projector's row bound: 256 alerts, 4096 series, 128 hits, 1024 allocations
          MaxWindow,     \* maxQueryWindow
          MaxCost,       \* maxCostUnits
          MaxRollupScopes, \* maxRollupScopes, 256 in the source
          MaxRollupFacts \* maxRollupFacts, 4096 in the source

TelemetryFact(in, src, rkind, ns, name, fkind, at, native, entity, payload) ==
    [ws |-> in.ws, src |-> src, scope |-> in.scope, rkind |-> rkind, ns |-> ns, name |-> name, fkind |-> fkind,
     lens |-> "telemetry", at |-> at, source |-> in.scope, adapter |-> src, proto |-> src,
     native |-> native, stale |-> FALSE, entity |-> entity, payload |-> payload]

PodEntity(cluster, ns, pod) == [NoEntity EXCEPT !.cluster = cluster, !.namespace = ns, !.pod = pod]

\* No two rows of one response may carry one identity.
DistinctIdentities(facts) == \A i, j \in DOMAIN facts : facts[i].native = facts[j].native => i = j

\* The facts of accepted rows, ordered by native identifier.
ByNativeID(ws, facts) ==
    IF DistinctIdentities(facts) THEN Validated(ws, SortedBy(facts, LAMBDA f : f.native)) ELSE Rejected

(***************************************************************************)
(* Prometheus alerts (internal/connector/prometheus/project.go)            *)
(***************************************************************************)
AlertKinds == [pod |-> "Pod", node |-> "Node", deployment |-> "Deployment"]   \* and StatefulSet, DaemonSet
ProjectedLabels == {"namespace", "pod", "node", "deployment", "severity"}

\* The one Kubernetes object the labels name: none leaves the alert unattached, two refuse it.
ResolveEntity(scope, labels) ==
    LET named == {l \in DOMAIN AlertKinds : labels[l] # None}
        label == CHOOSE l \in named : TRUE
        value == labels[label]
    IN IF named = {} THEN [ok |-> TRUE, entity |-> NoEntity]
       ELSE IF Cardinality(named) > 1 \/ value = Bad THEN [ok |-> FALSE, entity |-> NoEntity]
       ELSE IF label = "node"
            THEN [ok |-> labels.namespace = None, entity |-> [NoEntity EXCEPT !.cluster = scope, !.node = value]]
       ELSE [ok |-> ValidText(labels.namespace),
             entity |-> IF label = "pod" THEN PodEntity(scope, labels.namespace, value)
                        ELSE [NoEntity EXCEPT !.cluster = scope, !.namespace = labels.namespace,
                                              !.kind = AlertKinds[label], !.name = value]]

ProjectAlert(in, a) ==
    LET labels == [l \in ProjectedLabels |-> a.labels[l]]
        entity == ResolveEntity(in.scope, labels)
        identity == Digest(<<a.labels.alertname, a.activeAt>> \o Values(labels, <<"namespace", "pod", "node", "deployment", "severity">>))
    IN [ok |-> /\ ValidText(a.labels.alertname) /\ \A l \in DOMAIN a.labels : a.labels[l] # Bad
               /\ a.state \in {"pending", "firing"} /\ a.activeAt \notin {0, BadTime} /\ a.finite
               /\ entity.ok,
        fact |-> TelemetryFact(in, "prometheus", "Alert", labels.namespace, <<"alert", identity>>, "alert",
                               in.observed, <<"sha256", identity>>, entity.entity,
                               [alert |-> a.labels.alertname, state |-> a.state, event |-> a.activeAt,
                                labels |-> labels])]

ProjectAlerts(in) ==
    LET rows == [i \in DOMAIN in.rows |-> ProjectAlert(in, in.rows[i])]
    IN IF /\ ValidText(in.ws) /\ ValidText(in.scope) /\ in.observed # 0 /\ in.json
          /\ in.status = "success" /\ Len(in.rows) <= MaxRows /\ \A i \in DOMAIN rows : rows[i].ok
       THEN ByNativeID(in.ws, [i \in DOMAIN rows |-> rows[i].fact])
       ELSE Rejected

(***************************************************************************)
(* DCGM GPU utilisation (internal/connector/dcgm/project.go)               *)
(***************************************************************************)
WorkloadLabels == {"namespace", "pod", "container"}
MigLabels == {"instance", "profile"}
AllOrNone(labels, names) == (\A l \in names : labels[l] # None) \/ (\A l \in names : labels[l] = None)

\* Workload labels are an attribution on top of the device's scope, never exact accounting.
Attribution(labels) ==
    IF labels.pod # None THEN "workload-best-effort"
    ELSE IF labels.instance # None THEN "mig-instance" ELSE "physical-gpu"

ProjectSeries(in, s) ==
    LET identity == Digest(Values(s.labels, <<"gpu", "uuid", "hostname", "instance", "profile", "namespace", "pod", "container">>))
        entity == IF s.labels.pod = None THEN [NoEntity EXCEPT !.cluster = in.scope]
                  ELSE PodEntity(in.scope, s.labels.namespace, s.labels.pod)
    IN [ok |-> /\ s.metric = in.expression /\ \A l \in DOMAIN s.labels : s.labels[l] # Bad
               /\ \A l \in {"gpu", "uuid", "model", "hostname"} : s.labels[l] # None
               /\ s.device = <<"nvidia", s.labels.gpu>>
               /\ AllOrNone(s.labels, MigLabels) /\ AllOrNone(s.labels, WorkloadLabels)
               /\ s.at = in.evaluated /\ s.percent \in 0..100,
        fact |-> TelemetryFact(in, "dcgm", "GPUUtilization", s.labels.namespace, <<"gpu-utilization", identity>>,
                               "derived", s.at, <<"sha256", identity>>, entity,
                               [percent |-> s.percent, attribution |-> Attribution(s.labels),
                                model |-> s.labels.model, event |-> s.at])]

ProjectGPUUtilization(in) ==
    LET rows == [i \in DOMAIN in.rows |-> ProjectSeries(in, in.rows[i])]
    IN IF /\ ValidText(in.ws) /\ ValidText(in.scope) /\ in.expression = "gpu-util" /\ in.limit = 0 /\ in.lookback = 0
          /\ in.evaluated # 0 /\ in.observed # 0 /\ in.evaluated <= in.observed + Skew /\ in.json
          /\ in.status = "success" /\ ~in.warned /\ in.vector
          /\ Len(in.rows) <= MaxRows /\ \A i \in DOMAIN rows : rows[i].ok
       THEN ByNativeID(in.ws, [i \in DOMAIN rows |-> rows[i].fact])
       ELSE Rejected

(***************************************************************************)
(* Elasticsearch log causes (internal/connector/elasticsearch/project.go)  *)
(***************************************************************************)
\* A message is the set of indicators found in it; the first class in this order wins.
ClassifyMessage(message) ==
    IF "config" \in message THEN "missing-config" ELSE IF "dependency" \in message THEN "dependency-failure"
    ELSE IF "panic" \in message THEN "panic" ELSE None

Complete(r) ==
    /\ ~r.timedOut /\ ~r.terminatedEarly
    /\ r.total > 0 /\ r.failed = 0 /\ r.successful >= 0 /\ r.skipped >= 0 /\ r.successful + r.skipped = r.total

\* A hit holds only the allowlisted fields, the caller's own identity and a time inside the window.
ValidHit(in, h) ==
    /\ ~h.expanded
    /\ h.cluster = in.scope /\ h.namespace = in.ns /\ h.pod = in.pod
    /\ h.container # Bad /\ (in.container # None => h.container = in.container)
    /\ h.at >= in.start /\ h.at <= in.end

\* The identity is bound to what survives in the fact, so that a consumer can derive it again.
LogIdentity(in, payload) ==
    Digest(<<in.ws, in.scope, in.ns, in.pod, in.container, payload.cause, payload.count, payload.first, payload.last,
             in.observed>>)

LogFact(in, cause, hits) ==
    LET times == {in.rows[i].at : i \in hits}
        payload == [cause |-> cause, count |-> Cardinality(hits), first |-> Min(times), last |-> Max(times),
                    container |-> in.container]
        identity == LogIdentity(in, payload)
    IN TelemetryFact(in, "elasticsearch", "LogSignal", in.ns, <<"log", identity>>, "derived", in.observed,
                     <<"sha256", identity>>, PodEntity(in.scope, in.ns, in.pod), payload)

ProjectLogCauses(in) ==
    LET cause(i) == ClassifyMessage(in.rows[i].message)
        causes == {cause(i) : i \in DOMAIN in.rows} \ {None}
    IN IF /\ ValidText(in.ws) /\ ValidText(in.scope) /\ ValidText(in.ns) /\ ValidText(in.pod) /\ in.container # Bad
          /\ in.start # 0 /\ in.end # 0 /\ in.observed # 0
          /\ in.start < in.end /\ in.end - in.start <= MaxWindow /\ in.end <= in.observed + Skew
          /\ in.json /\ Complete(in.shards) /\ Len(in.rows) <= MaxRows
          /\ \A i \in DOMAIN in.rows : ValidHit(in, in.rows[i])
       THEN Validated(in.ws, FoldLeft(LAMBDA acc, c : Append(acc, LogFact(in, c, {i \in DOMAIN in.rows : cause(i) = c})),
                                      <<>>, SetToSeq(causes)))
       ELSE Rejected

(***************************************************************************)
(* OpenCost namespace costs and their rollup (internal/connector/opencost) *)
(***************************************************************************)
\* The fifteen fields behave in three ways: a charge, a signed adjustment, the reported total.
CostFields == {"cost", "adjustment", "total"}
AllowNegative == {"adjustment"}
PartOfTotal == {"cost", "adjustment"}
AmountsOK(amounts) ==
    /\ \A f \in CostFields : /\ amounts[f] >= (IF f \in AllowNegative THEN -MaxCost ELSE 0)
                             /\ amounts[f] <= MaxCost
    /\ amounts.total - MapThenSumSet(LAMBDA f : amounts[f], PartOfTotal) \in -1..1

ValidAllocation(in, row) ==
    /\ row.key = row.name /\ row.key = row.namespace /\ ValidText(row.key)
    /\ row.cluster = in.scope /\ row.window = <<in.start, in.end, in.start, in.end>>
    /\ AmountsOK(row.amounts)

CostNativeID(ws, scope, payload) ==
    <<"sha256", Digest(<<ws, scope>> \o Values(payload, <<"namespace", "start", "end", "currency">>)
                       \o Values(payload.amounts, <<"cost", "adjustment", "total">>))>>

CostFact(in, row) ==
    LET payload == [namespace |-> row.key, start |-> in.start, end |-> in.end, currency |-> "USD",
                    amounts |-> row.amounts]
    IN TelemetryFact(in, "opencost", "NamespaceCost", row.key, <<"allocation">>, "cost", in.end,
                     CostNativeID(in.ws, in.scope, payload),
                     [NoEntity EXCEPT !.cluster = in.scope, !.namespace = row.key], payload)

ValidWindow(start, end) == start # 0 /\ end # 0 /\ end > start /\ end - start <= MaxWindow

\* The rows of an allocation set are a JSON object: one per namespace, in no order.
ProjectNamespaceCosts(in) ==
    IF /\ ValidText(in.ws) /\ ValidText(in.scope) /\ in.currency = "USD" /\ in.query
       /\ ValidWindow(in.start, in.end) /\ in.step = in.end - in.start
       /\ in.observed # 0 /\ in.end <= in.observed + Skew
       /\ in.json /\ in.code = 200 /\ ~in.warned /\ in.sets = 1 /\ Cardinality(in.rows) <= MaxRows
       /\ \A row \in in.rows : ValidAllocation(in, row)
    THEN Validated(in.ws, FoldLeft(LAMBDA acc, ns : Append(acc, CostFact(in, CHOOSE row \in in.rows : row.key = ns)),
                                   <<>>, SetToSeq({row.key : row \in in.rows})))
    ELSE Rejected

Snapshot(in, facts) ==
    [ws |-> in.ws, scope |-> in.scope, start |-> in.start, end |-> in.end, currency |-> in.currency, facts |-> facts]
ZeroSnapshot == [ws |-> None, scope |-> None, start |-> 0, end |-> 0, currency |-> None, facts |-> <<>>]

EmptyWhenRefused(in) == [ok |-> TRUE, snapshot |-> Snapshot(in, ProjectNamespaceCosts(in).facts)]   \* mutant
\* The envelope says that a scope reported, so a refused response has none: an error and the zero value.
ProjectNamespaceCostSnapshot(in) ==
    LET costs == ProjectNamespaceCosts(in)
    IN [ok |-> costs.ok, snapshot |-> IF costs.ok THEN Snapshot(in, costs.facts) ELSE ZeroSnapshot]

\* A cost fact is taken only as this workspace's, window's and scope's, fresh, with its own digest.
CostFactOK(req, scope, f) ==
    /\ FactValid(f, req.ws) /\ f.fkind = "cost" /\ f.lens = "telemetry" /\ f.source = scope
    /\ f.at = req.end /\ ~f.stale
    /\ f.src = "opencost" /\ f.scope = scope /\ f.rkind = "NamespaceCost" /\ f.name = <<"allocation">>
    /\ f.adapter = "opencost" /\ f.proto = "opencost"
    /\ f.ns # None /\ f.entity = [NoEntity EXCEPT !.cluster = scope, !.namespace = f.ns]
    /\ f.payload.namespace = f.ns /\ f.payload.currency = req.currency
    /\ f.payload.start = req.start /\ f.payload.end = req.end
    /\ f.native = CostNativeID(req.ws, scope, f.payload)
    /\ AmountsOK(f.payload.amounts)

SnapshotOK(req, s) ==
    /\ s.ws = req.ws /\ s.currency = req.currency /\ s.start = req.start /\ s.end = req.end /\ ValidText(s.scope)
    /\ Len(s.facts) <= MaxRows
    /\ \A i \in DOMAIN s.facts : CostFactOK(req, s.scope, s.facts[i])
    /\ \A i, j \in DOMAIN s.facts : s.facts[i].ns = s.facts[j].ns => i = j

CostLimit == MaxCost * MaxRollupFacts
NoRollup == [ok |-> FALSE, reported |-> {}, empty |-> {}, missing |-> {}, complete |-> FALSE, observed |-> Absent,
             count |-> 0, amounts |-> [f \in CostFields |-> 0]]

Missing(expected, reported) == expected \ reported

\* The sum of the reported scopes; a scope that did not report is named, never counted as zero.
RollupWorkspaceCosts(req) ==
    LET snaps == req.snapshots
        facts == FlattenSeq([i \in DOMAIN snaps |-> snaps[i].facts])
        amounts == [f \in CostFields |-> FoldLeft(LAMBDA acc, x : acc + x.payload.amounts[f], 0, facts)]
        reported == {snaps[i].scope : i \in DOMAIN snaps}
        missing == Missing(ToSet(req.expected), reported)
    IN IF /\ ValidText(req.ws) /\ req.currency = "USD" /\ ValidWindow(req.start, req.end)
          /\ Len(req.expected) <= MaxRollupScopes /\ Len(snaps) <= Len(req.expected) /\ Cardinality(ToSet(req.expected)) = Len(req.expected)
          /\ \A i \in DOMAIN req.expected : ValidText(req.expected[i])
          /\ Cardinality(reported) = Len(snaps) /\ reported \subseteq ToSet(req.expected)
          /\ Len(facts) <= MaxRollupFacts
          /\ \A i \in DOMAIN snaps : SnapshotOK(req, snaps[i])
          /\ \A f \in CostFields : amounts[f] \in -CostLimit..CostLimit
       THEN [ok |-> TRUE, reported |-> reported,
             empty |-> {snaps[i].scope : i \in {j \in DOMAIN snaps : snaps[j].facts = <<>>}},
             missing |-> missing, complete |-> missing = {},
             observed |-> IF reported = {} THEN Absent ELSE req.end, count |-> Len(facts), amounts |-> amounts]
       ELSE NoRollup

(***************************************************************************)
(* EKS managed node groups (internal/connector/awseks/project.go)          *)
(***************************************************************************)
NodegroupStatuses == {"CREATING", "ACTIVE", "UPDATING", "DELETING", "CREATE_FAILED", "DELETE_FAILED", "DEGRADED"}
CapacityTypes == {"ON_DEMAND", "SPOT", "CAPACITY_BLOCK"}
IssueCodes == {"NodeCreationFailure", "AccessDenied", "Unknown"}   \* three of the thirty-six
MaxScaling == 100000
MaxIssues == 64

ValidNodegroup(in, n) ==
    /\ n.cluster = in.cluster /\ n.name = in.nodegroup
    /\ SubSeq(n.arn, 1, 5) = <<in.partition, in.region, in.account, in.cluster, in.nodegroup>> /\ ValidText(n.arn[6])
    /\ n.status \in NodegroupStatuses /\ n.capacity \in CapacityTypes
    /\ 0 <= n.min /\ n.min <= n.desired /\ n.desired <= n.max /\ 1 <= n.max /\ n.max <= MaxScaling
    /\ Len(n.issues) <= MaxIssues /\ Cardinality(ToSet(n.issues)) = Len(n.issues) /\ ToSet(n.issues) \subseteq IssueCodes

NodegroupFact(in, fkind, payload) ==
    [TelemetryFact(in, "awseks", "ManagedNodeGroup", None, <<in.nodegroup>>, fkind, in.observed,
                   <<"sha256", Digest(Append(in.response.arn, fkind))>>, [NoEntity EXCEPT !.cluster = in.scope], payload)
     EXCEPT !.lens = "live"]

\* One inventory and one provider-health fact; neither speaks of nodes or workloads.
ProjectNodegroupFacts(in) ==
    LET n == in.response
    IN IF /\ \A t \in {in.ws, in.scope, in.partition, in.account, in.region, in.cluster, in.nodegroup} : ValidText(t)
          /\ in.observed # 0 /\ in.json /\ ValidNodegroup(in, n)
       THEN Validated(in.ws,
              <<NodegroupFact(in, "inventory", [capacity |-> n.capacity, min |-> n.min, desired |-> n.desired, max |-> n.max]),
                NodegroupFact(in, "health", [provider |-> n.status, issues |-> SetToSeq(ToSet(n.issues))])>>)
       ELSE Rejected
=============================================================================
