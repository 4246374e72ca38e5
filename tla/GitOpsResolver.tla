--------------------------- MODULE GitOpsResolver ---------------------------
(***************************************************************************)
(* Turning one confirmed verdict into the exact arguments of a pull        *)
(* request (internal/remediation): provenance bundles, Git snapshots and   *)
(* desired changes as immutable values, and Resolve as the sequence of     *)
(* reads it makes of its clock and its handler.  The handler lives outside *)
(* (the GitOpsHandler interface): its descriptor may change between two    *)
(* reads, as the drifting handlers of the tests do.                        *)
(***************************************************************************)
EXTENDS ActionConnectors

CONSTANTS
    MaxClock,       \* the resolver's clock runs from 1 to MaxClock (bound)
    MaxValidity,    \* longest bundle and snapshot validity
    MinEvidence, MaxEvidence

VARIABLES
    clock,          \* the injected server clock
    handler,        \* the live handler: descriptor, config and how its output deviates
    call            \* the resolution in progress: pc, inputs, what was read, the answer

rvars == <<clock, handler, call>>

SameRef(a, b) == a = b
StableRef(ref) == /\ ~ref.attrs /\ ValidText(ref.src) /\ ValidText(ref.scope) /\ ValidText(ref.kind)
                  /\ ref.ns # Bad /\ ValidName(ref.name)
RefOrder(ref) == <<ref.src, ref.scope, ref.ns, ref.kind, ref.name>>

ValidRepository(r) == ValidText(r.host) /\ ValidText(r.owner) /\ ValidText(r.repo)
NativeID(r) == <<r.host, r.owner, r.repo>>
InWindow(now, observed, until) == observed <= now /\ now < until
Freshness(now, observed, until) ==
    IF now < observed THEN "future" ELSE IF now >= until THEN "stale" ELSE "fresh"
ValidWindowOf(b) == /\ b.observed # 0 /\ b.until # 0 /\ b.observed < b.until
                    /\ b.until - b.observed <= MaxValidity

(***************************************************************************)
(* Provenance bundles (gitops.go)                                          *)
(***************************************************************************)
BundleValid(b) ==
    /\ ValidText(b.ws) /\ StableRef(b.subject) /\ ValidWindowOf(b)
    /\ b.source.kind = "github" /\ b.source.version = "source/v1"
    /\ ValidText(b.handler.kind) /\ ValidText(b.handler.version) /\ ValidText(b.handler.digest)
    /\ b.source.kind = b.handler.kind
    /\ ValidRepository(b.repository) /\ b.source.native = NativeID(b.repository)
    /\ ValidText(b.base) /\ ValidObject(b.commit) /\ ValidText(b.path) /\ ValidObject(b.blob)
    /\ ValidText(b.title) /\ b.body # Bad /\ ValidText(b.message) /\ b.content.text # Bad
    /\ b.evidence # <<>> /\ \A i \in DOMAIN b.evidence : StableRef(b.evidence[i])

\* As NewGitOpsProvenanceBundle: a set of at most one bundle.
NewGitOpsProvenanceBundle(in) ==
    LET b == [in.fields EXCEPT !.evidence = SortedBy(@, RefOrder)]
    IN IF Len(in.sources) = 1 /\ BundleValid(in.fields) /\ IsInjective(in.fields.evidence) THEN {b} ELSE {}

Arguments(b) ==
    [extra |-> FALSE, base |-> b.base, commit |-> b.commit, title |-> b.title, body |-> b.body, message |-> b.message,
     changes |-> <<[op |-> "update", path |-> b.path, content |-> b.content, blob |-> b.blob]>>]

(***************************************************************************)
(* Git snapshots and desired changes (git_snapshot.go, desired_change.go)  *)
(***************************************************************************)
BlobOf(form, content) == [form |-> form, id |-> ToString(<<"blob", content.text>>)]
BlobRef(s) == [src |-> "github", scope |-> s.repository.host, kind |-> "Blob",
               ns |-> ToString(<<s.repository.owner, s.repository.repo>>), name |-> <<s.blob.id>>, attrs |-> FALSE]

\* Evidence is strictly sorted, so free of duplicates, and names the subject and the blob.
EvidenceOK(refs, s) ==
    /\ Len(refs) \in MinEvidence..MaxEvidence
    /\ \A i \in DOMAIN refs : StableRef(refs[i])
    /\ Cardinality({RefOrder(refs[i]) : i \in DOMAIN refs}) = Len(refs)
    /\ {s.subject, BlobRef(s)} \subseteq ToSet(refs)

SnapshotValid(s) ==
    /\ ValidText(s.ws) /\ StableRef(s.subject) /\ s.source.kind = "github" /\ s.source.version = "snapshot/v1"
    /\ ValidRepository(s.repository) /\ s.source.native = NativeID(s.repository) /\ ValidWindowOf(s)
    /\ ValidText(s.base) /\ ValidObject(s.commit) /\ ValidText(s.path) /\ s.content.text # Bad
    /\ s.commit.form = s.blob.form /\ s.blob = BlobOf(s.blob.form, s.content) /\ EvidenceOK(s.evidence, s)

NewGitSourceSnapshot(in) ==
    LET s == [in.fields EXCEPT !.evidence = SortedBy(@, RefOrder)]
    IN IF Len(in.sources) = 1 /\ SnapshotValid(s) THEN {s} ELSE {}

\* A change that changes nothing is none.
Differs(s, content) == content # s.content

NewDesiredChange(s, transformer, content, evidence) ==
    LET c == [snapshot |-> s, transformer |-> transformer, content |-> content, evidence |-> SortedBy(evidence, RefOrder)]
    IN IF /\ SnapshotValid(s) /\ ValidText(transformer) /\ content.text # Bad /\ Differs(s, content)
          /\ EvidenceOK(c.evidence, s)
       THEN {c} ELSE {}

(***************************************************************************)
(* Resolve                                                                 *)
(***************************************************************************)
\* The exact contract of a planning-only GitHub handler, or nothing.
InspectHandler(h) ==
    LET d == h.descriptor
    IN IF /\ d.kind = "github" /\ d.conn = "typed-action" /\ d.owner = "sith" /\ ValidText(d.version)
          /\ d.wire = <<CurrentWireVersion>> /\ d.caps = <<"plan">> /\ d.verbs = <<OpenPR>>
          /\ DOMAIN d.schemas = {OpenPR} /\ d.schemas[OpenPR] \notin {None, Bad}
       THEN {[kind |-> d.kind, version |-> d.version, digest |-> d.schemas[OpenPR]]} ELSE {}

\* external: the handler behind the interface, honest when deviates = None.
HandlerCanonicalize(h, args) ==
    LET out == CanonicalizeOpenPRArgs(h.config, args)
    IN [ok |-> out.ok /\ h.deviates # "rejects",
        target |-> IF h.deviates = "retargets" THEN [OpenPRTarget(h.config) EXCEPT !.ns = "other"]
                   ELSE OpenPRTarget(h.config),
        args |-> IF h.deviates = "rewrites" THEN [out.args EXCEPT !.title = "rewritten"] ELSE out.args]

ValidBrainVerdictRef(v) ==
    /\ StableRef(v.ref) /\ v.citations # {}
    /\ \A c \in v.citations : ~c.stale /\ StableRef(c.ref)
    /\ \E c \in v.citations : SameRef(c.ref, v.ref)

\* The verbs whose required provenance is fixed; a rule proposes no other.
Reviewed == {OpenPR, "argocd.rollback"}

\* The reason to abstain that the arguments alone give, in the order of the checks.
AbstainFirst(ws, v, bundles, now) ==
    LET b == bundles[1]
    IN CASE v.remediation = None -> "candidate-missing"
         [] v.remediation \notin Reviewed -> "candidate-invalid"
         [] ~ValidBrainVerdictRef(v) -> "verdict-invalid"
         [] v.remediation # OpenPR \/ v.rule \notin {OOMKilled, ConfigDrift} -> "candidate-unsupported"
         [] v.fleet -> "fleet-ambiguous"
         [] v.status # "confirmed" -> "verdict-unconfirmed"
         [] bundles = <<>> -> "provenance-missing"
         [] Len(bundles) # 1 -> "provenance-ambiguous"
         [] ~BundleValid(b) -> "provenance-invalid"
         [] Freshness(now, b.observed, b.until) # "fresh" -> Freshness(now, b.observed, b.until)
         [] b.ws # ws -> "workspace-mismatch"
         [] ~SameRef(b.subject, v.ref) -> "subject-mismatch"
         [] OTHER -> None

NoContract == [kind |-> None, version |-> None, digest |-> None]
Idle == [pc |-> "idle", canceled |-> FALSE, ws |-> None, verdict |-> <<>>, bundle |-> <<>>, contract |-> NoContract,
         output |-> <<>>, reason |-> None]

Abstain(reason) == call' = [call EXCEPT !.pc = "abstained", !.reason = reason]
Fail == call' = [call EXCEPT !.pc = "failed"]
Goto(pc) == call' = [call EXCEPT !.pc = pc]

\* A context already cancelled, or a workspace that is none, is an error rather than an abstention.
ResolveBegin(ws, v, bundles, canceled) ==
    /\ call.pc = "idle"
    /\ LET why == AbstainFirst(ws, v, bundles, clock)
       IN call' = IF canceled \/ ~ValidText(ws)
                  THEN [call EXCEPT !.pc = "failed", !.canceled = canceled, !.ws = ws, !.verdict = <<v>>]
                  ELSE IF why # None
                  THEN [call EXCEPT !.pc = "abstained", !.reason = why, !.ws = ws, !.verdict = <<v>>]
                  ELSE [call EXCEPT !.pc = "inspect", !.ws = ws, !.verdict = <<v>>, !.bundle = bundles]
    /\ UNCHANGED <<clock, handler>>

Bundle == call.bundle[1]

\* The first read of the handler's descriptor.
ResolveInspect ==
    /\ call.pc = "inspect"
    /\ IF InspectHandler(handler) = {Bundle.handler}
       THEN call' = [call EXCEPT !.pc = "canonicalize", !.contract = Bundle.handler]
       ELSE Abstain("handler-contract-drift")
    /\ UNCHANGED <<clock, handler>>

TargetMatches(target, b) ==
    target = [src |-> b.handler.kind, scope |-> b.repository.host, kind |-> "Repository",
              ns |-> b.repository.owner, name |-> <<b.repository.repo>>, attrs |-> FALSE]

ResolveCanonicalize ==
    /\ call.pc = "canonicalize"
    /\ LET out == HandlerCanonicalize(handler, Arguments(Bundle))
       IN CASE ~out.ok -> Abstain("handler-rejected")
            [] out.ok /\ call.canceled -> Fail
            [] out.ok /\ ~call.canceled /\ ~TargetMatches(out.target, Bundle) -> Abstain("handler-target-mismatch")
            [] OTHER -> IF ~SchemaAccepts(out.args) THEN Abstain("handler-contract-drift")
                        ELSE IF out.args # Arguments(Bundle) THEN Abstain("handler-output-mismatch")
                        ELSE call' = [call EXCEPT !.pc = "reinspect", !.output = <<out.target, out.args>>]
    /\ UNCHANGED <<clock, handler>>

ResolveReinspect ==
    /\ call.pc = "reinspect"
    /\ IF InspectHandler(handler) # {call.contract} THEN Abstain("handler-contract-drift")
       ELSE IF call.canceled THEN Fail
       ELSE Goto("freshen")
    /\ UNCHANGED <<clock, handler>>

CheckedOnce(now, b) == TRUE   \* mutant
StillFresh(now, b) == InWindow(now, b.observed, b.until)

\* The second read of the clock: the answer must be current when it is given.
ResolveFinish ==
    /\ call.pc = "freshen"
    /\ IF StillFresh(clock, Bundle) THEN Goto("ready") ELSE Abstain(Freshness(clock, Bundle.observed, Bundle.until))
    /\ UNCHANGED <<clock, handler>>

ResolveCancel ==
    /\ call.pc \notin {"idle", "abstained", "failed", "ready"} /\ ~call.canceled
    /\ call' = [call EXCEPT !.canceled = TRUE]
    /\ UNCHANGED <<clock, handler>>

Tick == clock < MaxClock /\ clock' = clock + 1 /\ UNCHANGED <<handler, call>>

\* external: an adapter upgrade, or one of the tests' misbehaving handlers.
HandlerChanges(h) == handler # h /\ handler' = h /\ UNCHANGED <<clock, call>>

ResolveNext == ResolveInspect \/ ResolveCanonicalize \/ ResolveReinspect \/ ResolveFinish \/ ResolveCancel
=============================================================================
