--------------------------- MODULE SpokeSnapshot ---------------------------
(***************************************************************************)
(* What one spoke's snapshot contains: the facts hubocm/direct.go derives  *)
(* from the objects it listed, and what hubfleet/collector.go accepts of a *)
(* snapshot before it is stored.  Pure functions of their arguments.       *)
(*                                                                         *)
(* An object is a record of the fields the code reads.  A fact's observed  *)
(* payload has every field any kind of fact uses; Nothing where it has     *)
(* none.  Sorted, duplicate-free string arrays are sets.                   *)
(***************************************************************************)
EXTENDS FleetGraph, FiniteSetsExt

CONSTANTS MaxResources, ListPageSize,      \* shared by Deployments, Pods and Rollouts
          MaxReports, ReportPageSize,      \* vulnerability reports
          MaxImages, MaxCVEs,              \* digests of a Pod, identifiers of an image
          SnapshotAge, FutureSkew          \* accepted age of a snapshot and skew of its clock

ASSUME SnapshotAssumptions ==
    /\ {MaxResources, ListPageSize, MaxReports, ReportPageSize, MaxImages, MaxCVEs} \subseteq Nat \ {0}
    /\ {SnapshotAge, FutureSkew} \subseteq Nat

MaxSnapshotFacts == 2 * MaxResources + MaxReports
MaxReportPages == MaxReports \div ReportPageSize

Nothing == [status |-> None, digests |-> {}, image |-> None, ids |-> {}, severity |-> None]

Evidence(spoke, rkind, ns, name, kind, at, observed) ==
    [kind |-> kind, rkind |-> rkind, ns |-> ns, name |-> name, scope |-> spoke, at |-> at, observed |-> observed]

\* An inventory and a health fact for every object.
ResourceFacts(spoke, rkind, o, at, inventory, health) ==
    <<Evidence(spoke, rkind, o.ns, o.name, "inventory", at, inventory),
      Evidence(spoke, rkind, o.ns, o.name, "health", at, [Nothing EXCEPT !.status = health])>>

\* spec.replicas is -1 when the object leaves it out.
DeploymentHealth(d) ==
    LET desired == IF d.replicas = -1 THEN 1 ELSE d.replicas
    IN IF d.available >= desired /\ d.observed >= d.generation THEN "Healthy"
       ELSE IF d.unavailable > 0 THEN "Degraded" ELSE "Progressing"

PodHealth(p) ==
    IF p.phase = "Failed" \/ p.waiting \in {"CrashLoopBackOff", "ImagePullBackOff", "ErrImagePull"} THEN "Degraded"
    ELSE CASE p.phase = "Running" -> IF p.ready THEN "Healthy" ELSE "Progressing"
           [] p.phase = "Succeeded" -> "Healthy"
           [] OTHER -> "Unknown"

RolloutHealth(r) ==
    CASE r.phase = "healthy" -> "Healthy" [] r.phase \in {"degraded", "error"} -> "Degraded"
      [] r.phase \in {"progressing", "paused"} -> "Progressing"
      [] OTHER -> IF r.replicas > 0 /\ r.available >= r.replicas THEN "Healthy" ELSE "Unknown"

\* A runtime image id is [scheme, repository, digest], each None where the text has no such part; a
\* tag has no digest.
RuntimeDigest(id) ==
    IF /\ id.scheme \in {None, "containerd", "docker-pullable", "cri-o", "docker"}
       /\ id.repository # Bad /\ ValidText(id.digest)
    THEN {id.digest} ELSE {}
PodImageDigests(p) == UNION {RuntimeDigest(p.images[i]) : i \in DOMAIN p.images}

\* The facts of one listed object.
ObjectFacts(spoke, rkind, o, at) ==
    CASE rkind = "Deployment" -> ResourceFacts(spoke, rkind, o, at, Nothing, DeploymentHealth(o))
      [] rkind = "Pod" -> ResourceFacts(spoke, rkind, o, at, [Nothing EXCEPT !.digests = PodImageDigests(o)], PodHealth(o))
      [] rkind = "Rollout" -> ResourceFacts(spoke, rkind, o, at, Nothing, RolloutHealth(o))

(***************************************************************************)
(* Vulnerability reports, kept for the digests that Pods run.              *)
(***************************************************************************)
Severities == <<"unknown", "low", "medium", "high", "critical">>
SeverityRank(s) == IF s \in ToSet(Severities) THEN CHOOSE i \in DOMAIN Severities : Severities[i] = s ELSE 0
Worst(severities) == IF severities = {} THEN None ELSE CHOOSE s \in severities : \A t \in severities : SeverityRank(s) >= SeverityRank(t)

AnyDigest(digest, known) == TRUE   \* mutant
RunsHere(digest, known) == digest \in known

\* A report is [oversize, digest, findings]; a finding's id is a CVE number in either case, or Bad.
NormalizeCVEIdentifier(id) == IF id.text = Bad THEN Bad ELSE id.text
ReportObservation(report, known) ==
    LET ids == {NormalizeCVEIdentifier(report.findings[i].id) : i \in DOMAIN report.findings}
    IN IF /\ ~report.oversize /\ ValidText(report.digest) /\ RunsHere(report.digest, known)
          /\ Len(report.findings) \in 1..MaxCVEs
          /\ Bad \notin ids /\ Cardinality(ids) = Len(report.findings)
          /\ \A i \in DOMAIN report.findings : SeverityRank(report.findings[i].severity) > 0
       THEN {[image |-> report.digest, ids |-> ids, severity |-> Worst({report.findings[i].severity : i \in DOMAIN report.findings})]}
       ELSE {}

\* One observation per image: the identifiers of all its reports and the worst severity.
Aggregated(reports, known) ==
    LET found == UNION {ReportObservation(reports[i], known) : i \in DOMAIN reports}
        about(d) == {o \in found : o.image = d}
    IN {[Nothing EXCEPT !.image = d, !.ids = UNION {o.ids : o \in about(d)}, !.severity = Worst({o.severity : o \in about(d)})] :
          d \in {o.image : o \in found}}

CVEFacts(spoke, reports, known, at) ==
    IF known = {} THEN <<>>
    ELSE SetToSeq({Evidence(spoke, "Image", None, o.image, "cve", at, o) : o \in Aggregated(reports, known)})

\* collectFacts: all facts of the listed objects and reports, or none when an image has too many
\* identifiers for one observation.
CollectFacts(spoke, items, at) ==
    LET of(rkind) == FoldLeft(LAMBDA acc, o : acc \o ObjectFacts(spoke, rkind, o, at), <<>>, items[rkind])
        known == UNION {PodImageDigests(items["Pod"][i]) : i \in DOMAIN items["Pod"]}
        cves == CVEFacts(spoke, items["Report"], known, at)
    IN IF \E i \in DOMAIN cves : Cardinality(cves[i].observed.ids) > MaxCVEs THEN [ok |-> FALSE, facts |-> <<>>]
       ELSE [ok |-> TRUE, facts |-> of("Deployment") \o of("Pod") \o of("Rollout") \o cves]

(***************************************************************************)
(* validateSnapshot.                                                       *)
(***************************************************************************)
SpokeOK(spoke) == ValidText(spoke.id) /\ ValidText(spoke.ref)

EvidenceOK(id, e, observedAt, now) ==
    /\ e.kind \in {"inventory", "health", "cve"} /\ e.scope = id
    /\ ValidText(e.rkind) /\ e.rkind # "Secret" /\ ValidText(e.name) /\ e.ns # Bad
    /\ e.at # 0 /\ e.at <= observedAt + FutureSkew /\ now - e.at <= SnapshotAge
    /\ e.kind = "inventory" => e.observed.digests = {} \/ (e.rkind = "Pod" /\ Cardinality(e.observed.digests) <= MaxImages)
    /\ e.kind = "cve" =>
         /\ e.rkind = "Image" /\ e.ns = None /\ e.observed.image = e.name
         /\ Cardinality(e.observed.ids) \in 1..MaxCVEs /\ SeverityRank(e.observed.severity) > 0

SnapshotOK(spoke, facts, observedAt, now) ==
    /\ SpokeOK(spoke)
    /\ observedAt # 0 /\ observedAt <= now + FutureSkew /\ now - observedAt <= SnapshotAge
    /\ Len(facts) <= MaxSnapshotFacts
    /\ \A i \in DOMAIN facts : EvidenceOK(spoke.id, facts[i], observedAt, now)
    /\ \A i, j \in DOMAIN facts : i # j =>
         <<facts[i].kind, facts[i].rkind, facts[i].ns, facts[i].name>> # <<facts[j].kind, facts[j].rkind, facts[j].ns, facts[j].name>>
=============================================================================
