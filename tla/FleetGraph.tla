----------------------------- MODULE FleetGraph -----------------------------
(***************************************************************************)
(* The evidence graph every connector's output is joined into              *)
(* (internal/fleet/graph.go, resource.go): what a valid fact is, which     *)
(* facts meet in one node, and the deterministic order they come out in.   *)
(* Everything here is a pure function of its arguments, as in the source.  *)
(*                                                                         *)
(* Texts are members of small sets.  None is Go's empty string (or a nil   *)
(* pointer), Bad any text a validator refuses (blank ends, control         *)
(* characters, a slash, too long).  A digest is the tuple it digests.      *)
(***************************************************************************)
EXTENDS Integers, Sequences, FiniteSets, SequencesExt

None == "none"
Bad == "bad"
ValidText(t) == t \notin {None, Bad}
\* A name a connector composes (repo#number) is the sequence of its parts.
ValidName(parts) == parts # <<>> /\ \A i \in DOMAIN parts : ValidText(parts[i])

Lenses == {"live", "desired", "timeline", "telemetry"}
FactKinds == {"inventory", "health", "alert", "drift", "cve", "cost", "desired", "change", "derived"}

\* Which kinds of fact a lens can hold without changing their meaning.
Allows(lens) ==
    [live |-> {"inventory", "health"}, desired |-> {"desired", "drift"}, timeline |-> {"change"},
     telemetry |-> {"alert", "cve", "cost", "derived"}][lens]

(***************************************************************************)
(* EntityRef: the correlation address of a fact; NoEntity is a nil one.    *)
(***************************************************************************)
NoEntity == [cluster |-> None, namespace |-> None, kind |-> None, name |-> None,
             pod |-> None, node |-> None, image |-> None]

IsGlobalImage(e) == e = [NoEntity EXCEPT !.image = e.image] /\ e.image # None

EntityValid(e) ==
    \/ IsGlobalImage(e) /\ e.image # Bad
    \/ /\ ~IsGlobalImage(e)
       /\ ValidText(e.cluster)
       /\ \A f \in {"namespace", "kind", "name", "pod", "node", "image"} : e[f] # Bad
       /\ (e.kind = None) = (e.name = None)

\* strings.ToLower of the kinds the connectors use.
Lower(kind) ==
    CASE kind = "Pod" -> "pod" [] kind = "Node" -> "node" [] kind = "Namespace" -> "namespace"
      [] kind = "Application" -> "application" [] kind = "Deployment" -> "deployment" [] OTHER -> kind

\* The join key: every populated dimension, in a fixed order.
Key(e) ==
    LET part(label, value) == IF value = None THEN <<>> ELSE <<label, value>>
    IN IF IsGlobalImage(e) THEN <<"image", e.image>>
       ELSE <<"cluster", e.cluster>> \o part("namespace", e.namespace) \o part(Lower(e.kind), e.name)
            \o part("pod", e.pod) \o part("node", e.node) \o part("image", e.image)

(***************************************************************************)
(* GraphFact: one lens-stamped observation.                                *)
(***************************************************************************)
\* A fact cannot leave its workspace, nor its source's cluster or namespace.
FactValid(f, ws) ==
    /\ ValidText(ws) /\ f.ws = ws
    /\ f.fkind \in FactKinds /\ f.lens \in Lenses /\ f.fkind \in Allows(f.lens)
    /\ ValidText(f.src) /\ ValidText(f.scope) /\ ValidText(f.rkind) /\ ValidName(f.name) /\ f.ns # Bad
    /\ f.at # 0
    /\ f.entity # NoEntity =>
         /\ EntityValid(f.entity)
         /\ IsGlobalImage(f.entity) \/ f.entity.cluster = f.scope
         /\ f.entity.namespace # None /\ f.ns # None => f.entity.namespace = f.ns

RefString(f) == <<f.src, f.scope, f.rkind, f.ns, f.name>>

GraphFactKey(f) ==
    <<IF f.entity = NoEntity THEN <<"unattached">> ELSE Key(f.entity), f.lens, f.fkind, RefString(f), f.at>>

\* sort.Slice on a key: the keys in one fixed order, equal keys in input order (Go sorts runs as
\* short as the ones considered here by insertion).
SortedBy(seq, K(_)) ==
    LET order == SetToSeq({K(seq[i]) : i \in DOMAIN seq})
        run(k) == SelectSeq(seq, LAMBDA x : K(x) = k)
    IN FoldLeft(LAMBDA acc, k : acc \o run(k), <<>>, order)

MaxGraphFacts == 10000

\* NewGraph: one node per key, the unattached facts apart; any invalid fact refuses the graph.
NewGraph(ws, facts) ==
    IF ~ValidText(ws) \/ Len(facts) > MaxGraphFacts \/ \E i \in DOMAIN facts : ~FactValid(facts[i], ws)
    THEN [ok |-> FALSE, nodes |-> <<>>, unattached |-> <<>>]
    ELSE LET attached == SelectSeq(facts, LAMBDA f : f.entity # NoEntity)
             keys == {Key(attached[i].entity) : i \in DOMAIN attached}
             node(k) == LET mine == SelectSeq(attached, LAMBDA f : Key(f.entity) = k)
                        IN [entity |-> mine[1].entity, facts |-> SortedBy(mine, GraphFactKey)]
         IN [ok |-> TRUE,
             nodes |-> FoldLeft(LAMBDA acc, k : Append(acc, node(k)), <<>>, SetToSeq(keys)),
             unattached |-> SortedBy(SelectSeq(facts, LAMBDA f : f.entity = NoEntity), GraphFactKey)]
=============================================================================
