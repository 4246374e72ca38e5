--------------------------- MODULE MCInvestigation ---------------------------
(***************************************************************************)
(* Two clusters, two namespaces, one workspace and a stranger's; for each  *)
(* connector a handful of responses, the plain ones and the ones with one  *)
(* field out of line, built by overriding a base response.                 *)
(***************************************************************************)
EXTENDS Investigation

MCWorkspace == "w1"

(* Argo CD *)
Url == [scheme |-> "https", host |-> "git", user |-> TRUE, query |-> FALSE, scp |-> FALSE]
Source == [repo |-> Url, path |-> "p", chart |-> None, rev |-> "r1"]
Entry(at, rev, id) == [at |-> at, rev |-> rev, id |-> id]
App == [ws |-> "w1", scope |-> "c1", observed |-> 3, application |-> TRUE, name |-> "app", ns |-> "n1",
        spec |-> [NoSpec EXCEPT !.project = "proj", !.source = <<Source>>], status |-> [NoStatus EXCEPT !.health = "Degraded"]]
Op(phase, finished, rev) == [phase |-> phase, finished |-> finished, started |-> 1, rev |-> rev]
Histories == {<<>>, <<Entry(1, "r1", "1"), Entry(2, "r2", "2")>>,
              <<Entry(1, "r1", "1"), Entry(Absent, "r2", "2"), Entry(2, "r1", "3")>>,
              <<Entry(1, "r1", "1"), Entry(Absent, "r2", "2"), Entry(Absent, "r2", "3")>>}
Operations == {NoStatus.operation, Op("Succeeded", 2, "r1"), Op("Failed", 2, "r1"), Op("Running", Absent, "r2")}
ArgoResponses ==
    {[App EXCEPT !.status.history = h, !.status.operation = o] : h \in Histories, o \in Operations}
    \cup {[App EXCEPT !.status.sync = [status |-> "OutOfSync", rev |-> "r2"]], [App EXCEPT !.spec.sources = <<Source>>],
          [App EXCEPT !.spec.source[1].repo.scheme = Bad], [App EXCEPT !.status.health = "Odd"], [App EXCEPT !.ns = None],
          [App EXCEPT !.spec.destination = [name |-> "in", server |-> Url, ns |-> "n1"]],
          [App EXCEPT !.status.history = <<Entry(BadTime, "r1", "1")>>]}

(* GitHub *)
Pull == [ws |-> "w1", host |-> "gh", owner |-> "o", repo |-> "r", number |-> "7", observed |-> 3, json |-> TRUE,
         response |-> [number |-> "7", state |-> "closed", draft |-> "false", merged |-> "true", mergedAt |-> 2,
                       head |-> "h", base |-> "b", merge |-> "m"]]
PullResponses == {Pull, [Pull EXCEPT !.response.merged = "false"], [Pull EXCEPT !.response.number = "8"],
                  [Pull EXCEPT !.response.merged = "false", !.response.mergedAt = Absent, !.response.state = "open"],
                  [Pull EXCEPT !.response.mergedAt = 5], [Pull EXCEPT !.response.mergedAt = BadTime]}
Run == [ws |-> "w1", host |-> "gh", owner |-> "o", repo |-> "r", number |-> "9", observed |-> 3, json |-> TRUE,
        response |-> [number |-> "9", workflow |-> "3", attempt |-> "1", full |-> <<"o", "r">>, status |-> "completed",
                      updatedAt |-> 2, conclusion |-> "failure"]]
RunResponses == {Run, [Run EXCEPT !.response.conclusion = "success"], [Run EXCEPT !.response.full = <<"o", "x">>],
                 [Run EXCEPT !.response.full = <<"O", "r">>], [Run EXCEPT !.response.updatedAt = BadTime],
                 [Run EXCEPT !.response.attempt = "2"],
                 [Run EXCEPT !.response.status = "queued", !.response.conclusion = None]}

(* Prometheus *)
Labels == [alertname |-> "High", namespace |-> "n1", pod |-> "p1", node |-> None, deployment |-> None, severity |-> "page"]
Alert == [labels |-> Labels, state |-> "firing", activeAt |-> 1, finite |-> TRUE]
AlertSet == [ws |-> "w1", scope |-> "c1", observed |-> 3, json |-> TRUE, status |-> "success", rows |-> <<Alert>>]
AlertRows == {<<>>, <<Alert, [Alert EXCEPT !.labels.namespace = "n2"]>>, <<Alert, [Alert EXCEPT !.state = "pending"]>>,
              <<[Alert EXCEPT !.labels.pod = None, !.labels.namespace = None, !.labels.node = "node1"], Alert>>,
              <<[Alert EXCEPT !.labels.deployment = "d"]>>, <<[Alert EXCEPT !.labels.pod = None], Alert>>,
              <<Alert, [Alert EXCEPT !.finite = FALSE]>>}
AlertResponses == {[AlertSet EXCEPT !.rows = rows] : rows \in AlertRows} \cup {[AlertSet EXCEPT !.status = "error"]}

(* DCGM *)
Gpu == [metric |-> "gpu-util", device |-> <<"nvidia", "0">>, at |-> 2, percent |-> 40,
        labels |-> [gpu |-> "0", uuid |-> "u0", model |-> "m", hostname |-> "host", instance |-> None, profile |-> None,
                    namespace |-> "n1", pod |-> "p1", container |-> "x"]]
GpuSet == [ws |-> "w1", scope |-> "c1", expression |-> "gpu-util", limit |-> 0, lookback |-> 0, evaluated |-> 2,
           observed |-> 3, json |-> TRUE, status |-> "success", warned |-> FALSE, vector |-> TRUE, rows |-> <<Gpu>>]
GpuRows == {<<Gpu>>, <<Gpu, [Gpu EXCEPT !.percent = 60]>>, <<Gpu, [Gpu EXCEPT !.labels.uuid = "u1", !.percent = 100]>>,
            <<[Gpu EXCEPT !.labels.pod = None]>>, <<Gpu, [Gpu EXCEPT !.labels.namespace = "n2"]>>,
            <<[Gpu EXCEPT !.percent = 101]>>}
GpuResponses == {[GpuSet EXCEPT !.rows = rows] : rows \in GpuRows} \cup {[GpuSet EXCEPT !.warned = TRUE]}

(* Elasticsearch *)
Hit == [expanded |-> FALSE, cluster |-> "c1", namespace |-> "n1", pod |-> "p1", container |-> "x", at |-> 1,
        message |-> {"panic"}]
LogSet == [ws |-> "w1", scope |-> "c1", ns |-> "n1", pod |-> "p1", container |-> None, start |-> 1, end |-> 2,
           observed |-> 3, json |-> TRUE, rows |-> <<Hit>>,
           shards |-> [timedOut |-> FALSE, terminatedEarly |-> FALSE, total |-> 2, failed |-> 0, successful |-> 1, skipped |-> 1]]
LogRows == {<<Hit>>, <<>>, <<Hit, [Hit EXCEPT !.at = 2]>>, <<Hit, [Hit EXCEPT !.message = {"panic", "config"}]>>,
            <<[Hit EXCEPT !.message = {"dependency"}], Hit, [Hit EXCEPT !.message = {}]>>, <<[Hit EXCEPT !.at = 3]>>,
            <<Hit, [Hit EXCEPT !.pod = "p2"]>>}
LogResponses == {[LogSet EXCEPT !.rows = rows] : rows \in LogRows} \cup {[LogSet EXCEPT !.shards.failed = 1]}

(* OpenCost *)
Cost(ns, cost, adj, total) ==
    [key |-> ns, name |-> ns, namespace |-> ns, cluster |-> "c1", window |-> <<1, 2, 1, 2>>,
     amounts |-> [cost |-> cost, adjustment |-> adj, total |-> total]]
CostSet == [ws |-> "w1", scope |-> "c1", currency |-> "USD", query |-> TRUE, start |-> 1, end |-> 2, step |-> 1, observed |-> 3,
            json |-> TRUE, code |-> 200, warned |-> FALSE, sets |-> 1, rows |-> {Cost("n1", 3, -1, 2), Cost("n2", 2, 0, 3)}]
OtherScope(in) == [in EXCEPT !.scope = "c2", !.rows = {[r EXCEPT !.cluster = "c2"] : r \in @}]
CostResponses == {CostSet, [CostSet EXCEPT !.rows = {}], [CostSet EXCEPT !.rows = {Cost("n1", 3, -1, 5)}],
                  [CostSet EXCEPT !.step = 2], [CostSet EXCEPT !.rows = {Cost("n1", 4, 0, 3)}]}
MCCostInputs == CostResponses \cup {OtherScope(in) : in \in CostResponses}

(* EKS *)
Group == [ws |-> "w1", scope |-> "c1", partition |-> "aws", account |-> "1", region |-> "eu", cluster |-> "k", nodegroup |-> "g",
          observed |-> 3, json |-> TRUE,
          response |-> [cluster |-> "k", name |-> "g", arn |-> <<"aws", "eu", "1", "k", "g", "id">>, status |-> "DEGRADED",
                        capacity |-> "SPOT", min |-> 0, desired |-> 1, max |-> 1, issues |-> <<"AccessDenied">>]]
GroupResponses == {Group, [Group EXCEPT !.response.desired = 2], [Group EXCEPT !.response.arn[3] = "2"],
                   [Group EXCEPT !.response.issues = <<"Unknown", "Unknown">>]}

MCResponses ==
    [argocd |-> ArgoResponses, pulls |-> PullResponses, prometheus |-> AlertResponses, dcgm |-> GpuResponses,
     elasticsearch |-> LogResponses, opencost |-> CostResponses, awseks |-> GroupResponses]
    @@ ("workflow-runs" :> RunResponses)

(* The cache *)
Pod == [ws |-> "w1", cluster |-> "c1", ns |-> "n1", kind |-> "Pod", name |-> "p1", involved |-> NoEntity, status |-> "Running",
        reasons |-> <<"OOMKilled">>, restarts |-> 2, digests |-> <<"d1">>, conditions |-> <<>>, attrs |-> FALSE, at |-> 2,
        stale |-> FALSE]
Event == [Pod EXCEPT !.kind = "Event", !.name = "e1", !.involved = [NoEntity EXCEPT !.kind = "Pod", !.name = "p1"],
                     !.status = "ScalingReplicaSet", !.reasons = <<>>, !.restarts = 0, !.digests = <<>>]
Deployment == [Event EXCEPT !.kind = "Deployment", !.name = "p1", !.involved = NoEntity, !.status = "Degraded"]
MCRecords ==
    {Pod, [Pod EXCEPT !.cluster = "c2", !.digests = <<"d1">>], [Pod EXCEPT !.stale = TRUE], [Pod EXCEPT !.attrs = TRUE],
     [Pod EXCEPT !.cluster = "c2", !.stale = TRUE], [Pod EXCEPT !.reasons = <<"ImagePullBackOff">>, !.stale = TRUE],
     [Pod EXCEPT !.reasons = <<"Error">>], [Pod EXCEPT !.reasons = <<>>, !.status = "CrashLoopBackOff"],
     Event, [Event EXCEPT !.name = "e2", !.stale = TRUE, !.at = 1],
     [Event EXCEPT !.name = "e3", !.involved.kind = "Deployment"], Deployment,
     [Event EXCEPT !.kind = "Node", !.name = "node1", !.ns = None, !.involved = NoEntity, !.status = "NotReady",
                   !.conditions = <<"MemoryPressure">>],
     [Pod EXCEPT !.ws = "w2", !.name = "p9"]}

(* Remediation *)
Config == [host |-> "gh", owner |-> "o", repo |-> "r", base |-> "main"]
Handler(version, deviates) == [descriptor |-> OpenPRDescriptor("s1", version), config |-> Config, deviates |-> deviates]
MCHandlers == {Handler("v1", None), Handler("v2", None), Handler("v1", "retargets"), Handler("v1", "rewrites"), Handler("v1", "rejects")}

Oid(id) == [form |-> "sha1", id |-> id]
Text(t, n) == [text |-> t, size |-> n]
PodRef == [src |-> "kubeconfig", scope |-> "c1", kind |-> "Pod", ns |-> "n1", name |-> <<"p1">>, attrs |-> FALSE]
Repository == [host |-> "gh", owner |-> "o", repo |-> "r"]
Identity(version) == [kind |-> "github", version |-> version, native |-> NativeID(Repository)]
BundleFields ==
    [ws |-> "w1", subject |-> PodRef, source |-> Identity("source/v1"), observed |-> 1, until |-> 3,
     handler |-> [kind |-> "github", version |-> "v1", digest |-> "s1"], repository |-> Repository, base |-> "main",
     commit |-> Oid("c0"), path |-> "a.yaml", blob |-> Oid("b0"), content |-> Text("new", 2), title |-> "t", body |-> None,
     message |-> "m", evidence |-> <<PodRef>>]
Input(fields) == [sources |-> <<fields.source>>, fields |-> fields]
MCBundleInputs == {Input(BundleFields), Input([BundleFields EXCEPT !.ws = "w2"]), Input([BundleFields EXCEPT !.observed = 2]),
                   Input([BundleFields EXCEPT !.subject.name = <<"p2">>]), Input([BundleFields EXCEPT !.until = 4])}
SnapshotFields ==
    LET base == [ws |-> "w1", subject |-> PodRef, source |-> Identity("snapshot/v1"), observed |-> 1, until |-> 2,
                 repository |-> Repository, base |-> "main", commit |-> Oid("c0"), path |-> "a.yaml",
                 blob |-> BlobOf("sha1", Text("old", 1)), content |-> Text("old", 1), evidence |-> <<>>]
    IN [base EXCEPT !.evidence = <<PodRef, BlobRef(base)>>]
MCSnapshotInputs == {Input(SnapshotFields), Input([SnapshotFields EXCEPT !.content = Text("new", 2)]),
                     Input([SnapshotFields EXCEPT !.evidence = Reverse(@)]), Input([SnapshotFields EXCEPT !.evidence = <<PodRef, PodRef>>])}

(* The registry *)
Planner == [kind |-> "github", caps |-> <<"plan">>, interfaces |-> {"plan"}, descriptor |-> OpenPRDescriptor("s1", "v1"),
            config |-> Config]
Rival == [Planner EXCEPT !.kind = "gitlab", !.descriptor.kind = "gitlab"]
ReaderDescriptor == [OpenPRDescriptor("s1", "v1") EXCEPT !.kind = "kubeconfig", !.conn = "observability",
                     !.caps = <<"read", "query">>, !.verbs = <<>>, !.schemas = <<>>]
ReaderConnector == [Planner EXCEPT !.kind = "kubeconfig", !.caps = <<"query", "read">>, !.interfaces = {"Reader"},
                                   !.descriptor = ReaderDescriptor]
MCFactories == {Planner, Rival, ReaderConnector, [Planner EXCEPT !.interfaces = {}]}

Change(op, path, content, blob) == [op |-> op, path |-> path, content |-> content, blob |-> blob]
Update == Change("update", "a.yaml", Text("new", 2), Oid("b0"))
Changes == {<<Update>>, <<Update, Change("delete", "b.yaml", NoContent, Oid("b1"))>>, <<Update, Update>>,
            <<Change("create", "b.yaml", Text("big", 3), NoObject), Update>>, <<Change("create", "b.yaml", NoContent, NoObject)>>,
            <<Update, [Update EXCEPT !.path = "A.yaml"]>>}
MCRequests ==
    {[ws |-> "w1", id |-> "i1", verb |-> OpenPR, target |-> OpenPRTarget(Config),
      args |-> [extra |-> FALSE, base |-> "main", commit |-> Oid("c0"), title |-> "t", body |-> None, message |-> "m", changes |-> c]]
        : c \in Changes}
MCOffers == {<<>>, <<<<1, 0>>>>, <<<<1, 1>>, <<1, 0>>>>, <<<<2, 0>>, <<1, 1>>>>, <<<<1, 2>>>>, <<<<0, 1>>>>, <<<<1, 0>>, <<1, 0>>>>}
MCExpectedScopes == {<<"c1", "c2">>, <<"c1">>, <<"c1", "c1">>, <<"c1", "c2", "c3">>}
=============================================================================
