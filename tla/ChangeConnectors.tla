-------------------------- MODULE ChangeConnectors --------------------------
(***************************************************************************)
(* The projectors of desired state and of changes: an Argo CD Application, *)
(* a merged GitHub pull request, a failed GitHub workflow run.  Each turns *)
(* one already collected response into graph facts, or refuses it whole.   *)
(*                                                                         *)
(* A response is a record of the fields the projector reads; json tells    *)
(* whether the strict decoder accepts its bytes (size, UTF-8, depth,       *)
(* duplicate members, trailing data).  A time is a number, 0 Go's zero     *)
(* time, Absent a missing and BadTime an unparsable one; a URL is the      *)
(* record of its parts.                                                    *)
(***************************************************************************)
EXTENDS FleetGraph, TLC

CONSTANTS MaxHistory,   \* maxApplicationHistory, 32 in the source
          MaxSources,   \* maxApplicationSources, 16 in the source
          Skew          \* maxClockSkew, five minutes in the source

\* A digest is the string of what it digests: texts and numbers in a fixed order.
Digest(parts) == ToString(parts)
Values(record, fields) == [i \in DOMAIN fields |-> record[fields[i]]]

Absent == -1
BadTime == -2
Rejected == [ok |-> FALSE, facts |-> <<>>]
Emitted(facts) == [ok |-> TRUE, facts |-> facts]
\* Every projector ends by validating the facts it built; one bad fact refuses them all.
Validated(ws, facts) == IF \A i \in DOMAIN facts : FactValid(facts[i], ws) THEN Emitted(facts) ELSE Rejected

(***************************************************************************)
(* Argo CD (internal/connector/argocd/project.go)                          *)
(***************************************************************************)
AbsoluteSchemes == {"http", "https"}
RepositorySchemes == AbsoluteSchemes \cup {"git", "oci", "ssh"}

NoUrl == [scheme |-> None, host |-> None, user |-> FALSE, query |-> FALSE, scp |-> FALSE]
\* A sanitised URL has lost its user information, query and fragment.
Sanitized(u) == [u EXCEPT !.user = FALSE, !.query = FALSE]
AbsoluteUrlOK(u, schemes) == u.scheme \in schemes /\ ValidText(u.host)
RepositoryUrlOK(u) ==
    /\ u # NoUrl
    /\ IF u.scheme # None THEN AbsoluteUrlOK(u, RepositorySchemes)
       ELSE ValidText(u.host) /\ ~u.query /\ (u.user => u.scp)

SourceOK(s) == RepositoryUrlOK(s.repo) /\ s.path # Bad /\ s.chart # Bad /\ s.rev # Bad

\* spec.source is a sequence of at most one source here, spec.sources any sequence.
ProjectSources(spec) ==
    LET all == IF spec.source # <<>> THEN spec.source ELSE spec.sources
    IN [ok |-> /\ spec.source = <<>> \/ spec.sources = <<>>
               /\ Len(all) <= MaxSources
               /\ \A i \in DOMAIN all : SourceOK(all[i]),
        value |-> [i \in DOMAIN all |-> [all[i] EXCEPT !.repo = Sanitized(@)]]]

NoDestination == [name |-> None, server |-> NoUrl, ns |-> None]
ProjectDestination(d) ==
    [ok |-> /\ d.name # Bad /\ d.ns # Bad
            /\ d.name = None \/ d.server = NoUrl
            /\ d.server # NoUrl => AbsoluteUrlOK(d.server, AbsoluteSchemes),
     value |-> [d EXCEPT !.server = Sanitized(@)]]

NoSpec == [project |-> None, source |-> <<>>, sources |-> <<>>, destination |-> NoDestination]
ProjectDesired(spec) ==
    LET sources == ProjectSources(spec)
        destination == ProjectDestination(spec.destination)
    IN [ok |-> spec.project # Bad /\ destination.ok /\ sources.ok,
        present |-> spec.project # None \/ sources.value # <<>> \/ destination.value # NoDestination,
        value |-> [project |-> spec.project, sources |-> sources.value, destination |-> destination.value]]

HealthStatuses == {"Healthy", "Progressing", "Degraded", "Suspended", "Missing", "Unknown"}
ProjectHealth(health) ==
    [ok |-> health \in HealthStatuses \cup {None}, present |-> health # None, value |-> [health |-> health]]

Drifted == [Synced |-> "false", OutOfSync |-> "true", Unknown |-> None]
ProjectDrift(sync) ==
    [ok |-> sync.status = None \/ (sync.status \in DOMAIN Drifted /\ sync.rev # Bad),
     present |-> sync.status # None,
     value |-> [sync |-> sync.status, rev |-> sync.rev,
                drifted |-> IF sync.status \in DOMAIN Drifted THEN Drifted[sync.status] ELSE None]]

\* The change an operation in progress or finished stands for; an operation without a time has none.
OperationKind == [Succeeded |-> "argocd-sync", Running |-> "argocd-sync", Terminating |-> "argocd-sync",
                  Failed |-> "sync-failed", Error |-> "sync-failed"]
ProjectOperation(op) ==
    LET at == IF op.finished # Absent THEN op.finished ELSE op.started
    IN [ok |-> op.phase = None \/ (/\ op.phase \in DOMAIN OperationKind /\ at # BadTime
                                    /\ at # Absent => op.rev # Bad),
        changes |-> IF op.phase = None \/ at = Absent THEN <<>>
                    ELSE <<[change |-> IF op.phase \in DOMAIN OperationKind THEN OperationKind[op.phase] ELSE None,
                            rev |-> op.rev, phase |-> op.phase, event |-> at, id |-> None, truncated |-> FALSE,
                            native |-> <<"operation", op.phase, op.rev, ToString(at)>>]>>]

\* The newest MaxHistory deployments.
Kept(history) ==
    IF Len(history) > MaxHistory THEN SubSeq(history, Len(history) - MaxHistory + 1, Len(history)) ELSE history

TruncationAfterLast(i, dated) == FALSE   \* mutant
\* The first dated entry that survives carries the truncation mark.
CarriesTruncation(i, dated) == i = 1

ProjectHistory(history) ==
    LET kept == Kept(history)
        dated == SelectSeq(kept, LAMBDA e : e.at # Absent)
    IN [ok |-> \A i \in DOMAIN dated : dated[i].at # BadTime /\ dated[i].rev # Bad /\ dated[i].id # Bad,
        changes |-> [i \in DOMAIN dated |->
            [change |-> "argocd-sync", rev |-> dated[i].rev, phase |-> None, event |-> dated[i].at,
             id |-> dated[i].id, truncated |-> Len(history) > MaxHistory /\ CarriesTruncation(i, dated),
             native |-> <<"history", dated[i].id, dated[i].rev, ToString(dated[i].at)>>]]]

\* One change per kind, revision and time: the first keeps its identity, gains a later phase and mark.
Deduplicated(changes) ==
    LET key(c) == <<c.change, c.rev, c.event>>
        same(i) == SelectSeq(changes, LAMBDA c : key(c) = key(changes[i]))
        phases(i) == SelectSeq(same(i), LAMBDA c : c.phase # None)
        first == {i \in DOMAIN changes : \A j \in 1..(i - 1) : key(changes[j]) # key(changes[i])}
    IN {[changes[i] EXCEPT !.truncated = \E c \in ToSet(same(i)) : c.truncated,
                           !.phase = IF phases(i) = <<>> THEN None ELSE phases(i)[1].phase] : i \in first}

\* Oldest first; equal times by native identifier.
ChronologicalChanges(changes) ==
    LET at(t) == SetToSeq({c \in changes : c.event = t})
        times == SetToSortSeq({c.event : c \in changes}, <)
    IN FoldLeft(LAMBDA acc, t : acc \o at(t), <<>>, times)

ProjectChanges(status) ==
    LET history == ProjectHistory(status.history)
        operation == ProjectOperation(status.operation)
    IN [ok |-> history.ok /\ operation.ok,
        changes |-> ChronologicalChanges(Deduplicated(history.changes \o operation.changes))]

NoStatus == [health |-> None, sync |-> [status |-> None, rev |-> None], history |-> <<>>,
             operation |-> [phase |-> None, finished |-> Absent, started |-> Absent, rev |-> None]]

ArgoFact(in, fkind, lens, at, native, payload) ==
    [ws |-> in.ws, src |-> "argocd", scope |-> in.scope, rkind |-> "Application", ns |-> in.ns,
     name |-> <<in.name>>, fkind |-> fkind, lens |-> lens, at |-> at, source |-> in.scope, adapter |-> "argocd",
     proto |-> "argocd", native |-> <<in.scope, in.ns, in.name, "#">> \o native, stale |-> FALSE,
     entity |-> [NoEntity EXCEPT !.cluster = in.scope, !.namespace = in.ns, !.kind = "Application", !.name = in.name],
     payload |-> payload]

CollectionTimed(in, c) == in.observed   \* mutant
\* A change fact is timed by the change, not by the collection.
ChangeTime(in, c) == c.event

ProjectApplication(in) ==
    LET desired == ProjectDesired(in.spec)
        health == ProjectHealth(in.status.health)
        drift == ProjectDrift(in.status.sync)
        changes == ProjectChanges(in.status)
        fact(p, fkind, lens) ==
            IF p.present THEN <<ArgoFact(in, fkind, lens, in.observed, <<fkind>>, p.value)>> ELSE <<>>
        timeline == [i \in DOMAIN changes.changes |->
            LET c == changes.changes[i]
            IN ArgoFact(in, "change", "timeline", ChangeTime(in, c), c.native,
                        [change |-> c.change, rev |-> c.rev, phase |-> c.phase, event |-> c.event,
                         id |-> c.id, truncated |-> c.truncated])]
        facts == fact(desired, "desired", "desired") \o fact(health, "health", "live")
                 \o fact(drift, "drift", "desired") \o timeline
    IN IF /\ ValidText(in.ws) /\ ValidText(in.scope) /\ in.observed # 0 /\ in.application
          /\ ValidText(in.name) /\ ValidText(in.ns)
          /\ desired.ok /\ health.ok /\ drift.ok /\ changes.ok
          /\ Len(facts) <= 3 + MaxHistory + 1
       THEN Validated(in.ws, facts)
       ELSE Rejected

(***************************************************************************)
(* GitHub (internal/connector/github/project.go, workflow_run.go)          *)
(***************************************************************************)
\* What the caller pins: host, owner, repository (no .git suffix) and a positive number.
ValidSubject(in) ==
    /\ ValidText(in.ws) /\ ValidText(in.host) /\ ValidText(in.owner) /\ ValidText(in.repo)
    /\ in.number # None /\ in.observed # 0 /\ in.json

GitHubFact(in, rkind, name, at, proto, native, payload) ==
    [ws |-> in.ws, src |-> "github", scope |-> in.host, rkind |-> rkind, ns |-> in.owner, name |-> name,
     fkind |-> "change", lens |-> "timeline", at |-> at, source |-> in.host, adapter |-> "github",
     proto |-> proto, native |-> native, stale |-> FALSE, entity |-> NoEntity, payload |-> payload]

PullName(in) == <<in.repo, "#", in.number>>

\* An unmerged pull request yields nothing; a merged one must be closed, dated and pinned to commits.
ProjectMergedPullRequest(in) ==
    LET r == in.response
        known == /\ r.number = in.number /\ r.state \in {"open", "closed"}
                 /\ r.draft # None /\ r.merged # None
        merged == /\ r.state = "closed" /\ r.draft = "false"
                  /\ r.mergedAt \notin {Absent, BadTime, 0} /\ r.mergedAt <= in.observed + Skew
                  /\ ValidText(r.head) /\ ValidText(r.base) /\ ValidText(r.merge)
    IN IF ~ValidSubject(in) \/ ~known THEN Rejected
       ELSE IF r.merged = "false" THEN IF r.mergedAt # Absent THEN Rejected ELSE Emitted(<<>>)
       ELSE IF ~merged THEN Rejected
       ELSE Validated(in.ws, <<GitHubFact(in, "PullRequest", PullName(in), r.mergedAt, "pulls",
                                <<in.owner>> \o PullName(in) \o <<"@", r.merge>>,
                                [change |-> "pull-request-merged", number |-> r.number, head |-> r.head,
                                 base |-> r.base, merge |-> r.merge, event |-> r.mergedAt])>>)

RunStatuses == {"queued", "in_progress", "requested", "waiting", "pending", "completed"}
FailedConclusions == {"failure", "timed_out", "startup_failure"}
OtherConclusions == {"action_required", "cancelled", "neutral", "skipped", "stale", "success"}

\* strings.EqualFold on the one name that has two spellings here.
FoldName(name) == IF name = "O" THEN "o" ELSE name

RunName(in, attempt) == <<in.repo, "#", in.number, "-attempt-", attempt>>

\* Only a completed run with a failure conclusion is a fact; full is the repository the response names.
ProjectFailedWorkflowRun(in) ==
    LET r == in.response
        known == /\ r.number = in.number /\ r.workflow # None /\ r.attempt # None
                 /\ FoldName(r.full[1]) = FoldName(in.owner) /\ FoldName(r.full[2]) = FoldName(in.repo)
                 /\ r.status \in RunStatuses
                 /\ r.updatedAt \notin {Absent, BadTime, 0} /\ r.updatedAt <= in.observed + Skew
                 /\ IF r.status # "completed" THEN r.conclusion = None
                    ELSE r.conclusion \in FailedConclusions \cup OtherConclusions
    IN IF ~ValidSubject(in) \/ ~known THEN Rejected
       ELSE IF r.conclusion \notin FailedConclusions THEN Emitted(<<>>)
       ELSE Validated(in.ws, <<GitHubFact(in, "WorkflowRun", RunName(in, r.attempt), r.updatedAt, "workflow-runs",
                                <<in.owner>> \o RunName(in, r.attempt),
                                [change |-> "workflow-run-failed", number |-> r.number, workflow |-> r.workflow,
                                 attempt |-> r.attempt, conclusion |-> r.conclusion, event |-> r.updatedAt])>>)
=============================================================================
