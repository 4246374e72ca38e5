----------------------------- MODULE KubeAdapter -----------------------------
(***************************************************************************)
(* The kubeconfig adapter as the local surfaces use it                     *)
(* (internal/connector/kubeconfig/adapter.go, local_objects.go): the       *)
(* operation gate that bounds calls able to outlive their caller, the      *)
(* registry of contexts filled by Discover and by the first operation on a *)
(* context, and the clusters' API servers behind it.                       *)
(*                                                                         *)
(* Every local session has an adapter of its own; the clusters are shared. *)
(* A caller is a request or one probe <<app, scope>> of a discovery.  Its  *)
(* call record follows callWithTimeout; the goroutine that runs the        *)
(* operation is a member of ops and may survive the call.                  *)
(***************************************************************************)
EXTENDS Integers, FiniteSets

CONSTANTS
    Apps,      \* local sessions, positive integers in the order they are opened
    Scopes,    \* kubeconfig contexts, one object each
    Requests,  \* request identities, pairs <<0, name>>
    MaxRV      \* bound on an object's resource version

None == "none"
Probes == Apps \X Scopes
Callers == Requests \cup Probes
PerScope == 2    \* the gate's limit

ASSUME AppsAssumption == Apps \subseteq Nat \ {0}
ASSUME CallersAssumption == Requests \cap Probes = {}

VARIABLES
    held,   \* held[a][s]: gate.byScope of a's adapter
    call,   \* the running callWithTimeout of each caller
    ops,    \* operation goroutines that have not released the gate yet
    reg,    \* reg[a]: what a's adapter knows of each context; discovered: whether Discover ran
    disc,   \* disc[a]: "idle", "probing" or "done": a's Discover (one per session is modelled)
    obj,    \* obj[s]: the object of s's API server
    writes  \* history: the updates the API servers persisted

adapterVars == <<held, call, ops, reg, disc, obj, writes>>

NoObject == [uid |-> 0, rv |-> 0, body |-> 0]
Failure == [ok |-> FALSE, obj |-> NoObject]
Pending == [ok |-> FALSE, obj |-> [NoObject EXCEPT !.uid = -1]]   \* nothing in the buffer yet
NoManifest == [id |-> None, rv |-> 0, uid |-> 0, body |-> 0]
Idle == [st |-> "idle"]
Ended(r) == [st |-> "ended", res |-> r]

AdapterInit(known) ==
    /\ held = [a \in Apps |-> [s \in Scopes |-> 0]]
    /\ call = [c \in Callers |-> Idle]
    /\ ops = {}
    /\ reg = [a \in Apps |-> [discovered |-> FALSE, scope |-> [s \in Scopes |-> known]]]
    /\ disc = [a \in Apps |-> "idle"]
    /\ obj = [s \in Scopes |-> [uid |-> 1, rv |-> 1, body |-> 0]]
    /\ writes = {}

(***************************************************************************)
(* The gate.                                                               *)
(***************************************************************************)
Calling(app, scope, verb, m, tok) ==
    [st |-> "acquire", app |-> app, scope |-> scope, verb |-> verb, m |-> m, tok |-> tok,
     expired |-> FALSE, res |-> Pending]

\* close(gate.changed): every caller waiting on this gate may look again.
Waken(calls, app) ==
    [c \in Callers |-> IF calls[c].st = "wait" /\ calls[c].app = app THEN [calls[c] EXCEPT !.st = "woken"]
                       ELSE calls[c]]

\* acquire, under the lock: an ended context first, then room, else wait on the channel seen now.
Acquire(c) ==
    LET k == call[c]
    IN /\ k.st = "acquire"
       /\ \/ k.expired /\ call' = [call EXCEPT ![c] = Ended(Failure)] /\ UNCHANGED held
          \/ /\ ~k.expired /\ held[k.app][k.scope] < PerScope
             /\ held' = [held EXCEPT ![k.app][k.scope] = @ + 1]
             /\ call' = [call EXCEPT ![c].st = "granted"]
          \/ /\ ~k.expired /\ held[k.app][k.scope] = PerScope
             /\ call' = [call EXCEPT ![c].st = "wait"]
             /\ UNCHANGED held
       /\ UNCHANGED <<ops, reg, disc, obj, writes>>

\* The select of acquire; when both are ready Go picks either.
Awake(c) ==
    /\ \/ call[c].st = "woken" /\ call' = [call EXCEPT ![c].st = "acquire"]
       \/ call[c].st \in {"wait", "woken"} /\ call[c].expired /\ call' = [call EXCEPT ![c] = Ended(Failure)]
    /\ UNCHANGED <<held, ops, reg, disc, obj, writes>>

Release(app, scope, calls) ==
    /\ held' = [held EXCEPT ![app][scope] = @ - 1]
    /\ call' = Waken(calls, app)

\* After admission: give the place back if the deadline has passed meanwhile, else start the goroutine.
Launch(c) ==
    LET k == call[c]
    IN /\ k.st = "granted"
       /\ \/ k.expired /\ Release(k.app, k.scope, [call EXCEPT ![c] = Ended(Failure)]) /\ UNCHANGED ops
          \/ /\ ~k.expired
             /\ ops' = ops \cup {[c |-> c, app |-> k.app, scope |-> k.scope, verb |-> k.verb,
                                  m |-> k.m, tok |-> k.tok, st |-> "running"]}
             /\ call' = [call EXCEPT ![c].st = "select"]
             /\ UNCHANGED held
       /\ UNCHANGED <<reg, disc, obj, writes>>

ReleasedEarly(c) == /\ held' = [held EXCEPT ![call[c].app][call[c].scope] = @ - 1]   \* mutant
                    /\ call' = Waken([call EXCEPT ![c] = Ended(Failure)], call[c].app)
\* The caller leaves at its deadline; the goroutine keeps its place in the gate.
Abandon(c) == call' = [call EXCEPT ![c] = Ended(Failure)] /\ UNCHANGED held

\* The caller's select.
Receive(c) ==
    /\ call[c].st = "select"
    /\ \/ call[c].res # Pending /\ call' = [call EXCEPT ![c] = Ended(@.res)] /\ UNCHANGED held
       \/ call[c].expired /\ Abandon(c)
    /\ UNCHANGED <<ops, reg, disc, obj, writes>>

\* The deadline of the call, or the end of the caller's own context.
Expire(c) ==
    /\ call[c].st \notin {"idle", "ended"} /\ ~call[c].expired
    /\ call' = [call EXCEPT ![c].expired = TRUE]
    /\ UNCHANGED <<held, ops, reg, disc, obj, writes>>

(***************************************************************************)
(* The API servers (external): optimistic concurrency on the resource      *)
(* version, which a manifest without one escapes.                          *)
(***************************************************************************)
Accepts(s, m) == m.rv \in {0, obj[s].rv} /\ m.uid \in {0, obj[s].uid}

Updated(s, m) == [uid |-> obj[s].uid, rv |-> obj[s].rv + 1, body |-> m.body]

\* The operation takes effect and its result is sent into a buffer only a caller still there reads.
Perform(op, answers) ==
    LET ok == answers /\ (op.verb \in {"dryrun", "update"} => Accepts(op.scope, op.m))
        res == IF ~ok THEN Failure
               ELSE [ok |-> TRUE, obj |-> IF op.verb = "update" THEN Updated(op.scope, op.m) ELSE obj[op.scope]]
    IN /\ op \in ops /\ op.st = "running"
       /\ op.verb = "update" => obj[op.scope].rv < MaxRV
       /\ ops' = (ops \ {op}) \cup {[op EXCEPT !.st = "sent"]}
       /\ call' = IF call[op.c].st = "select" /\ call[op.c].verb = op.verb
                  THEN [call EXCEPT ![op.c].res = res] ELSE call
       /\ IF ok /\ op.verb = "update"
          THEN /\ obj' = [obj EXCEPT ![op.scope] = Updated(op.scope, op.m)]
               /\ writes' = writes \cup {[tok |-> op.tok, scope |-> op.scope, m |-> op.m, over |-> obj[op.scope]]}
          ELSE UNCHANGED <<obj, writes>>
       /\ UNCHANGED <<held, reg, disc>>

\* The goroutine's deferred release.
Finish(op) ==
    /\ op \in ops /\ op.st = "sent"
    /\ ops' = ops \ {op}
    /\ Release(op.app, op.scope, call)
    /\ UNCHANGED <<reg, disc, obj, writes>>

\* Somebody else changes the object, or deletes and creates it again.
ForeignWrite(s, fresh) ==
    /\ obj[s].rv < MaxRV
    /\ obj' = [obj EXCEPT ![s] = [uid |-> IF fresh THEN @.uid + 1 ELSE @.uid, rv |-> @.rv + 1, body |-> 9]]
    /\ UNCHANGED <<held, call, ops, reg, disc, writes>>

(***************************************************************************)
(* Discover: one probe per configured context, all kept or none.           *)
(***************************************************************************)
Discover(a) ==
    /\ disc[a] = "idle"
    /\ disc' = [disc EXCEPT ![a] = "probing"]
    /\ call' = [c \in Callers |-> IF c \in {a} \X Scopes THEN Calling(a, c[2], "probe", NoManifest, 0) ELSE call[c]]
    /\ UNCHANGED <<held, ops, reg, obj, writes>>

Reached(c) == IF call[c].res.ok THEN "up" ELSE "down"

\* A cancelled discovery leaves the registry as it was.
Discovered(a, cancelled) ==
    /\ disc[a] = "probing" /\ \A s \in Scopes : call[<<a, s>>].st = "ended"
    /\ disc' = [disc EXCEPT ![a] = "done"]
    /\ reg' = IF cancelled THEN reg
              ELSE [reg EXCEPT ![a] = [discovered |-> TRUE, scope |-> [s \in Scopes |-> Reached(<<a, s>>)]]]
    /\ call' = [c \in Callers |-> IF c \in {a} \X Scopes THEN Idle ELSE call[c]]
    /\ UNCHANGED <<held, ops, obj, writes>>

\* ensureLocalContext stores the one context it probed and leaves discovered alone.
Bootstrapped(a, s, r) == reg' = [reg EXCEPT ![a].scope[s] = Reached(r)]

(***************************************************************************)
(* decodeEditedObject: the identity, a resource version, and the UID when  *)
(* the manifest still has one.                                             *)
(***************************************************************************)
Decodes(m, current) == m.id = "target" /\ m.rv # 0 /\ m.uid \in {0, current.uid}

(***************************************************************************)
(* Properties of the gate.                                                 *)
(***************************************************************************)
Retained(a, s) ==
    Cardinality({op \in ops : op.app = a /\ op.scope = s})
    + Cardinality({c \in Callers : call[c].st = "granted" /\ call[c].app = a /\ call[c].scope = s})

\* A context has at most two operations in progress, the ones whose callers have given up included
\* (operationGate's comment: "Each kubeconfig context is isolated to two retained operations"), the
\* gate's count is exactly theirs, and a caller sleeps on the gate only while its own context is full:
\* no release between its look at the count and its wait is lost, and no other context holds it up.
GateSound ==
    \A a \in Apps, s \in Scopes :
        /\ held[a][s] = Retained(a, s) /\ held[a][s] <= PerScope
        /\ held[a][s] < PerScope => ~\E c \in Callers : call[c].st = "wait" /\ call[c].app = a /\ call[c].scope = s
=============================================================================
