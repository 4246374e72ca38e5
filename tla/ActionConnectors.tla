-------------------------- MODULE ActionConnectors --------------------------
(***************************************************************************)
(* Typed-action connectors: the wire-version negotiation, the registry     *)
(* that gives every verb one owner (internal/connector), and the planner   *)
(* of gitops.open-pr (internal/connector/github/action_plan.go), which     *)
(* plans a pull request and performs none of it.                           *)
(***************************************************************************)
EXTENDS Brain

CONSTANTS MaxVersions, MaxChanges, MaxContent, MaxTotalContent

OpenPR == "gitops.open-pr"
Verbs == {OpenPR, "argocd.rollback", "argocd.sync"}
Capabilities == {"discover", "read", "query", "diff", "plan", "execute", "verify"}
ConnectorKinds == {"observability", "typed-action"}
CurrentWireVersion == <<1, 0>>

(***************************************************************************)
(* Wire versions (version.go)                                              *)
(***************************************************************************)
WireVersionLess(a, b) == a[1] < b[1] \/ (a[1] = b[1] /\ a[2] < b[2])
WireOfferOK(offer) ==
    /\ Len(offer) \in 1..MaxVersions
    /\ \A i \in DOMAIN offer : offer[i][1] > 0
    /\ IsInjective(offer)

\* The highest version both sides name exactly; a shared major alone is not compatibility.
NegotiateWireVersion(local, remote) ==
    LET common == ToSet(local) \cap ToSet(remote)
        majors(offer) == {offer[i][1] : i \in DOMAIN offer}
    IN IF ~WireOfferOK(local) \/ ~WireOfferOK(remote) THEN [ok |-> FALSE, why |-> "invalid", version |-> <<0, 0>>]
       ELSE IF common # {}
            THEN [ok |-> TRUE, why |-> None,
                  version |-> CHOOSE v \in common : \A w \in common : w = v \/ WireVersionLess(w, v)]
       ELSE [ok |-> FALSE, version |-> <<0, 0>>,
             why |-> IF majors(local) \cap majors(remote) = {} THEN "major" ELSE "minor"]

(***************************************************************************)
(* The registry (registry.go).  A candidate is the connector a factory     *)
(* returned: its descriptor, what it says of itself and the interfaces it  *)
(* implements.  The registry maps kinds to entries and verbs to kinds.     *)
(***************************************************************************)
Implements(c, capability) ==
    (IF capability \in {"discover", "read", "query"} THEN "Reader" ELSE capability) \in c.interfaces

ValidateConnector(c) ==
    LET d == c.descriptor
        capsOK(caps) == ToSet(caps) \subseteq Capabilities /\ IsInjective(caps)
    IN /\ d.kind # None /\ d.kind = c.kind /\ d.conn \in ConnectorKinds
       /\ WireOfferOK(d.wire) /\ d.version # None /\ d.owner # None
       /\ capsOK(c.caps) /\ capsOK(d.caps) /\ ToSet(c.caps) = ToSet(d.caps)
       /\ \A cap \in ToSet(c.caps) : Implements(c, cap)
       /\ IF d.conn = "typed-action"
          THEN /\ d.verbs # <<>> /\ ToSet(d.verbs) \subseteq Verbs /\ IsInjective(d.verbs)
               /\ DOMAIN d.schemas = ToSet(d.verbs) /\ \A v \in DOMAIN d.schemas : d.schemas[v] # Bad
          ELSE d.verbs = <<>> /\ DOMAIN d.schemas = {}

\* Under the write lock: the kind is new and every verb of it unowned.
Registrable(reg, d) == d.kind \notin DOMAIN reg.entries /\ \A v \in ToSet(d.verbs) : v \notin DOMAIN reg.verbs

EmptyRegistry == [entries |-> <<>>, verbs |-> <<>>]
Register(reg, c) ==
    LET d == c.descriptor
    IN IF ValidateConnector(c) /\ Registrable(reg, d)
       THEN [entries |-> [k \in DOMAIN reg.entries \cup {d.kind} |-> IF k = d.kind THEN c ELSE reg.entries[k]],
             verbs |-> [v \in DOMAIN reg.verbs \cup ToSet(d.verbs) |->
                            IF v \in ToSet(d.verbs) THEN d.kind ELSE reg.verbs[v]]]
       ELSE reg

\* The entry that owns a verb and declared the capability, as a set of at most one.
EntryForVerb(reg, verb, capability) ==
    {reg.entries[k] : k \in {x \in DOMAIN reg.entries :
        /\ verb \in DOMAIN reg.verbs /\ reg.verbs[verb] = x
        /\ reg.entries[x].descriptor.conn = "typed-action" /\ capability \in ToSet(reg.entries[x].caps)}}

(***************************************************************************)
(* The open-pr planner (action_plan.go).  Its configuration fixes the only *)
(* repository and base branch; an object id is [form, id], a file's        *)
(* content a text of a given size; NoContent and NoObject are nil.         *)
(***************************************************************************)
NoContent == [text |-> None, size |-> 0]
NoObject == [form |-> None, id |-> None]
ValidObject(o) == o.form \in {"sha1", "sha256"} /\ ValidText(o.id)
LowerPath(p) == IF p = "A.yaml" THEN "a.yaml" ELSE p

\* The registered argument schema: closed objects, required members, bounded arrays.
SchemaAccepts(args) ==
    /\ ~args.extra /\ args.base # None /\ ValidObject(args.commit) /\ args.title # None /\ args.message # None
    /\ Len(args.changes) \in 1..MaxChanges
    /\ \A i \in DOMAIN args.changes :
        LET c == args.changes[i]
        IN /\ c.op \in {"create", "update", "delete"} /\ c.path # None
           /\ c.content.size <= MaxContent /\ (c.blob = NoObject \/ ValidObject(c.blob))

PreconditionOK(c) ==
    CASE c.op = "create" -> c.content # NoContent /\ c.blob = NoObject
      [] c.op = "update" -> c.content # NoContent /\ c.blob # NoObject
      [] OTHER -> c.content = NoContent /\ c.blob # NoObject

ValidateOpenPRArgs(cfg, args) ==
    LET paths == [i \in DOMAIN args.changes |-> LowerPath(args.changes[i].path)]
    IN /\ args.base = cfg.base /\ args.title # Bad /\ args.body # Bad /\ args.message # Bad
       /\ \A i \in DOMAIN args.changes : /\ args.changes[i].path # Bad /\ args.changes[i].content.text # Bad
                                         /\ PreconditionOK(args.changes[i])
       /\ IsInjective(paths)
       /\ FoldLeft(LAMBDA n, c : n + c.content.size, 0, args.changes) <= MaxTotalContent

\* Paths are unique, so sorting by path is a total order of the changes.
ChangesByPath(changes) == SortedBy(changes, LAMBDA c : c.path)

OpenPRTarget(cfg) == [src |-> "github", scope |-> cfg.host, kind |-> "Repository", ns |-> cfg.owner,
                      name |-> <<cfg.repo>>, attrs |-> FALSE]

\* CanonicalizeOpenPRArgs: no state, no request; a refusal is ok = FALSE.
CanonicalizeOpenPRArgs(cfg, args) ==
    [ok |-> SchemaAccepts(args) /\ ValidateOpenPRArgs(cfg, args),
     args |-> [args EXCEPT !.changes = ChangesByPath(@)]]

\* The proposal branch is named by what is proposed, not by who asks or when.
HeadRef(ws, cfg, canonical) == <<ws, cfg.host, cfg.owner, cfg.repo, canonical>>

PlannedChange(c) == [op |-> c.op, path |-> c.path, observed |-> IF c.blob = NoObject THEN "absent" ELSE c.blob.id,
                     desired |-> IF c.content = NoContent THEN "deleted" ELSE ToString(<<"sha256", c.content.text>>)]

OpenPRPlanSteps(args, planned, head) ==
    LET digest(text) == <<"sha256", text>>
    IN <<[api |-> "get-ref", params |-> <<args.base, args.commit>>], [api |-> "get-commit", params |-> <<args.commit>>],
         [api |-> "get-tree", params |-> <<"verified-base-tree", planned>>],
         [api |-> "post-tree", params |-> <<"verified-base-tree", planned>>],
         [api |-> "post-commit", params |-> <<args.commit, "planned-tree", digest(args.message)>>],
         [api |-> "post-ref", params |-> <<head, "planned-commit">>],
         [api |-> "get-pulls", params |-> <<head, args.base>>],
         [api |-> "post-pull", params |-> <<head, args.base, digest(args.title), digest(args.body)>>]>>

NoPlan == [ok |-> FALSE]
OpenPRPlan(cfg, request) ==
    LET result == CanonicalizeOpenPRArgs(cfg, request.args)
        planned == [i \in DOMAIN result.args.changes |-> PlannedChange(result.args.changes[i])]
        head == HeadRef(request.ws, cfg, result.args)
    IN IF /\ ValidText(request.ws) /\ ValidText(request.id) /\ request.verb = OpenPR
          /\ request.target = OpenPRTarget(cfg) /\ result.ok
       THEN [ok |-> TRUE, id |-> request.id, target |-> request.target, diff |-> planned, head |-> head,
             steps |-> OpenPRPlanSteps(result.args, planned, head)]
       ELSE NoPlan

\* Registry.Plan: the arguments against the owner's schema, then its planner.
RegistryPlan(reg, request) ==
    LET entries == EntryForVerb(reg, request.verb, "plan")
    IN IF entries = {} \/ ~SchemaAccepts(request.args) THEN NoPlan
       ELSE OpenPRPlan((CHOOSE e \in entries : TRUE).config, request)

\* The planner as a registry candidate; external handlers in the tests differ from it by a field.
OpenPRDescriptor(schema, version) ==
    [kind |-> "github", conn |-> "typed-action", wire |-> <<CurrentWireVersion>>, version |-> version,
     owner |-> "sith", caps |-> <<"plan">>, verbs |-> <<OpenPR>>, schemas |-> [v \in {OpenPR} |-> schema]]
=============================================================================
