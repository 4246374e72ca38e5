------------------------------ MODULE LocalApp ------------------------------
(***************************************************************************)
(* The local web and desktop surface (internal/webui, internal/cli         *)
(* desktop.go): requests lease the session that is current when they       *)
(* arrive, a session swapped out by a folder import closes once its        *)
(* requests have drained, and each session owns an adapter, preview grants *)
(* for edits and a bounded set of port-forward tunnels.                    *)
(*                                                                         *)
(* A request is served once and at most one tunnel is started by it, so    *)
(* tunnels are named by their request.  Code between two locks, channel    *)
(* operations or calls of the adapter is one step.                         *)
(***************************************************************************)
EXTENDS KubeAdapter

CONSTANTS
    Workloads,       \* what the outside does: see Init
    MaxForwards,     \* capacity of forwardManager.slots
    PreviewLifetime  \* previewLifetime in ticks

VARIABLES
    workload,  \* requests left to arrive, and how often the environment may act
    now,       \* the clock of the preview managers
    host,      \* [closed, current]: desktopHost and InProcessHandler.current (0: nil)
    lease,     \* lease[a]: inProcessSession [active, retired, drained]
    life,      \* life[a]: "unborn", "open", or a step of desktopSession.close
    left,      \* left[a]: the tunnels closeAll has taken out of the map and not yet closed
    slots,     \* slots[a]: how full forwardManager.slots is
    map,       \* map[a]: the requests whose tunnels are in forwardManager.forwards
    tunnel,    \* tunnel[r]: the forwardSession started for r, with its goroutines
    grants,    \* grants[a]: previewManager.grants
    req,       \* the requests
    reviewed   \* history: what each issued preview showed

appVars == <<workload, now, host, lease, life, left, slots, map, tunnel, grants, req, reviewed>>
vars == <<adapterVars, appVars>>

NoTunnel == [st |-> "none"]
NewTunnel(a) ==
    [st |-> "running", app |-> a, ready |-> FALSE, stop |-> FALSE, done |-> FALSE, monitor |-> "none",
     released |-> FALSE]
\* Close: closes the stop channel, which matters only while ForwardPorts runs.
Stopped(t) == [t EXCEPT !.stop = t.st = "running"]

Init ==
    /\ workload \in Workloads
    /\ AdapterInit(workload.known)
    /\ now = 0
    /\ host = [closed |-> FALSE, current |-> 1]
    /\ lease = [a \in Apps |-> [active |-> 0, retired |-> FALSE, drained |-> FALSE]]
    /\ life = [a \in Apps |-> IF a = 1 THEN "open" ELSE "unborn"]
    /\ left = [a \in Apps |-> {}]
    /\ slots = [a \in Apps |-> 0]
    /\ map = [a \in Apps |-> {}]
    /\ tunnel = [r \in Requests |-> NoTunnel]
    /\ grants = [a \in Apps |-> {}]
    /\ req = [r \in Requests |-> [pc |-> "new"]]
    /\ reviewed = {}

Cancelled(a) == life[a] \notin {"unborn", "open"}    \* application.ctx is done

(***************************************************************************)
(* InProcessHandler and desktopHost.                                       *)
(***************************************************************************)
DrainedAlways(l) == [l EXCEPT !.drained = l.retired]   \* mutant
\* close(drained) when the last leaseholder of a retired session has gone.
Drain(l) == [l EXCEPT !.drained = l.retired /\ l.active = 0]

\* Replace(next); a nil handler (0) makes later requests fail.
Replace(next) ==
    /\ host' = [host EXCEPT !.current = next]
    /\ lease' = IF host.current = 0 THEN lease
                ELSE [lease EXCEPT ![host.current] = Drain([@ EXCEPT !.retired = TRUE])]

\* importDirectory with its newDesktopSession; a closed host closes the new session at once.
ImportDirectory(a) ==
    /\ workload.imports > 0 /\ life[a] = "unborn" /\ \A b \in Apps : b < a => life[b] # "unborn"
    /\ workload' = [workload EXCEPT !.imports = @ - 1]
    /\ IF host.closed
       THEN life' = [life EXCEPT ![a] = "cancel"] /\ UNCHANGED <<host, lease>>
       ELSE life' = [life EXCEPT ![a] = "open"] /\ Replace(a)
    /\ UNCHANGED <<adapterVars, now, left, slots, map, tunnel, grants, req, reviewed>>

\* closeDesktopSessionAfter: the goroutine started for the session swapped out.
CloseDrained(a) ==
    /\ life[a] = "open" /\ lease[a].drained
    /\ life' = [life EXCEPT ![a] = "cancel"]
    /\ UNCHANGED <<adapterVars, workload, now, host, lease, left, slots, map, tunnel, grants, req, reviewed>>

\* desktopHost.Close: the current session is closed without waiting for its requests.
HostClose ==
    /\ workload.closes /\ ~host.closed
    /\ host' = [closed |-> TRUE, current |-> 0]
    /\ lease' = [lease EXCEPT ![host.current] = Drain([@ EXCEPT !.retired = TRUE])]
    /\ life' = [life EXCEPT ![host.current] = "cancel"]
    /\ UNCHANGED <<adapterVars, workload, now, left, slots, map, tunnel, grants, req, reviewed>>

\* desktopSession.close and Application.Close: the context first ("cancel"), then the previews, then
\* closeAll takes the whole map and closes and releases one tunnel after the other.
CloseApplication(a) ==
    /\ \/ /\ life[a] = "cancel"
          /\ life' = [life EXCEPT ![a] = "closeAll"]
          /\ grants' = [grants EXCEPT ![a] = {}]
          /\ UNCHANGED <<left, map, tunnel, slots>>
       \/ /\ life[a] = "closeAll"
          /\ life' = [life EXCEPT ![a] = "closing"]
          /\ left' = [left EXCEPT ![a] = map[a]]
          /\ map' = [map EXCEPT ![a] = {}]
          /\ UNCHANGED <<grants, tunnel, slots>>
       \/ /\ life[a] = "closing" /\ left[a] = {}
          /\ life' = [life EXCEPT ![a] = "closed"]
          /\ UNCHANGED <<left, map, grants, tunnel, slots>>
    /\ UNCHANGED <<adapterVars, workload, now, host, lease, req, reviewed>>

(***************************************************************************)
(* The tunnels: forwardSession and forwardManager.                         *)
(***************************************************************************)
ReleaseAgain(r, t) == /\ slots' = [slots EXCEPT ![t.app] = @ - 1]   \* mutant
                      /\ tunnel' = [tunnel EXCEPT ![r] = [t EXCEPT !.released = TRUE]]
\* releaseOnce.Do(releaseReservation), leaving the tunnel's other goroutines as t says.
ReleaseOnce(r, t) ==
    /\ slots' = IF t.released THEN slots ELSE [slots EXCEPT ![t.app] = @ - 1]
    /\ tunnel' = [tunnel EXCEPT ![r] = [t EXCEPT !.released = TRUE]]

\* One tunnel of closeAll: Close and release.
CloseOne(a, r) ==
    /\ life[a] = "closing" /\ r \in left[a]
    /\ ReleaseOnce(r, Stopped(tunnel[r]))
    /\ left' = [left EXCEPT ![a] = @ \ {r}]
    /\ UNCHANGED <<adapterVars, workload, now, host, lease, life, map, grants, req, reviewed>>

OnlyTunnel == UNCHANGED <<adapterVars, workload, now, host, lease, life, left, slots, map, grants, req, reviewed>>

\* ForwardPorts (external): listens and reports ready, unless it was stopped first.
Connect(r) ==
    /\ tunnel[r].st = "running" /\ ~tunnel[r].stop /\ ~tunnel[r].ready
    /\ tunnel' = [tunnel EXCEPT ![r].ready = TRUE]
    /\ OnlyTunnel

\* run: ForwardPorts returns, by itself or because it was stopped; the error waits in the buffer.
Return(r) ==
    /\ tunnel[r].st = "running"
    /\ tunnel[r].stop \/ workload.drops
    /\ tunnel' = [tunnel EXCEPT ![r].st = "ended", ![r].done = TRUE, ![r].stop = FALSE]
    /\ OnlyTunnel

NeverCancelled(a) == FALSE   \* mutant
\* The context PortForward was given, the application's: the tunnel must not outlive it.
TunnelContextDone(a) == Cancelled(a)
\* The goroutine of PortForward that ties the tunnel to its context.
Watch(r) ==
    /\ tunnel[r].st = "running" /\ ~tunnel[r].stop /\ TunnelContextDone(tunnel[r].app)
    /\ tunnel' = [tunnel EXCEPT ![r].stop = TRUE]
    /\ OnlyTunnel

\* monitor: the end of the tunnel takes it out of the map, then frees its slot.
Monitor(r) ==
    /\ tunnel[r].st # "none"
    /\ \/ /\ tunnel[r].monitor = "waiting" /\ tunnel[r].done
          /\ tunnel' = [tunnel EXCEPT ![r].monitor = "freeing", ![r].done = FALSE]
          /\ map' = [map EXCEPT ![tunnel[r].app] = @ \ {r}]
          /\ UNCHANGED slots
       \/ /\ tunnel[r].monitor = "freeing"
          /\ ReleaseOnce(r, [tunnel[r] EXCEPT !.monitor = "over"])
          /\ UNCHANGED map
    /\ UNCHANGED <<adapterVars, workload, now, host, lease, life, left, grants, req, reviewed>>

(***************************************************************************)
(* previewManager.                                                         *)
(***************************************************************************)
Unexpired(gs) == {g \in gs : g.expires > now}
PreviewDigest(scope, m) == <<scope, m>>

DigestIgnored(a, tok, digest) == \E g \in Unexpired(grants[a]) : g.tok = tok   \* mutant
\* consume: the token must be known, unexpired and issued for exactly this target and manifest.
Consumes(a, tok, digest) == \E g \in Unexpired(grants[a]) : g.tok = tok /\ g.digest = digest

(***************************************************************************)
(* The request handlers.                                                   *)
(***************************************************************************)
\* What a user may send: a manifest as read, one stripped of its version, one of another object.
Manifests(s) ==
    {[id |-> i, rv |-> v, uid |-> u, body |-> b] :
        i \in {"target"}, v \in {0, obj[s].rv}, u \in {obj[s].uid}, b \in {1, 2}}
    \cup {[id |-> "other", rv |-> obj[s].rv, uid |-> 0, body |-> 1]}

\* What each kind of request does first.
FirstStep == [view |-> "lookup", describe |-> "lookup", preview |-> "lookup", apply |-> "consume",
              forward |-> "reserve", delete |-> "delete"]

\* What a workload says: the state of the contexts, the requests that may come, and what else may happen.
Environments ==
    [known : {"unknown", "up", "down"}, scopes : SUBSET Scopes, kinds : [Requests -> SUBSET DOMAIN FirstStep],
     imports : Nat, ticks : Nat, foreign : Nat, closes : BOOLEAN, drops : BOOLEAN, discovers : BOOLEAN,
     faults : BOOLEAN, deadlines : BOOLEAN]

ASSUME AppAssumption == 1 \in Apps /\ MaxForwards \in Nat \ {0} /\ PreviewLifetime \in Nat
ASSUME WorkloadsAssumption == Workloads \subseteq Environments

\* ServeHTTP: lease the current session, or answer 503.
Arrive(r, kind, scope, m, tok) ==
    /\ req[r].pc = "new" /\ kind \in workload.kinds[r] /\ scope \in workload.scopes
    /\ kind = "preview" => m \in Manifests(scope)
    /\ kind = "apply" => m \in Manifests(scope) \cup {p.m : p \in reviewed}
    /\ kind \notin {"preview", "apply"} => m = NoManifest
    /\ IF host.current = 0
       THEN req' = [req EXCEPT ![r] = [pc |-> "gone"]] /\ UNCHANGED lease
       ELSE /\ req' = [req EXCEPT ![r] = [pc |-> FirstStep[kind], kind |-> kind, app |-> host.current,
                                          scope |-> scope, m |-> m, tok |-> tok, cur |-> NoObject]]
            /\ lease' = [lease EXCEPT ![host.current].active = @ + 1]
    /\ UNCHANGED <<adapterVars, workload, now, host, life, left, slots, map, tunnel, grants, reviewed>>

Goto(r, pc) == req' = [req EXCEPT ![r].pc = pc]
Fail(r) == Goto(r, IF req[r].kind = "forward" THEN "unreserve" ELSE "leaving")
Call(r, verb) == call' = [call EXCEPT ![r] = Calling(req[r].app, req[r].scope, verb, req[r].m, req[r].tok)]
NoCall(r) == call' = [call EXCEPT ![r] = Idle]

\* localTargetState: bootstrap an unknown context, then insist on a reachable one.  Describe looks
\* its target up twice, once for itself and once inside View.
Lookup(r) ==
    LET q == req[r]
        known == reg[q.app].scope[q.scope]
    IN /\ \/ /\ q.pc = "lookup" /\ known = "unknown"
             /\ Call(r, "probe") /\ Goto(r, "probing") /\ UNCHANGED reg
          \/ q.pc = "lookup" /\ known # "unknown" /\ Goto(r, "client") /\ UNCHANGED <<call, reg>>
          \/ /\ q.pc = "probing" /\ call[r].st = "ended"
             /\ Bootstrapped(q.app, q.scope, r) /\ NoCall(r) /\ Goto(r, "client")
          \/ q.pc = "client" /\ known # "up" /\ Fail(r) /\ UNCHANGED <<call, reg>>
          \/ /\ q.pc = "client" /\ known = "up" /\ q.kind = "describe"
             /\ req' = [req EXCEPT ![r].pc = "lookup", ![r].kind = "described"]
             /\ UNCHANGED <<call, reg>>
          \/ /\ q.pc = "client" /\ known = "up" /\ q.kind = "forward"
             /\ Goto(r, "resolve") /\ UNCHANGED <<call, reg>>
          \/ /\ q.pc = "client" /\ known = "up" /\ q.kind \notin {"describe", "forward"}
             /\ Call(r, "get") /\ Goto(r, "get") /\ UNCHANGED reg
       /\ UNCHANGED <<held, ops, disc, obj, writes, workload, now, host, lease, life, left, slots, map, tunnel,
                      grants, reviewed>>

\* View, Describe, PreviewApply and Apply after the read of the object: the events, the server dry run,
\* and for Apply the update.
Operate(r) ==
    LET q == req[r]
        res == call[r].res
        next(verb) == Call(r, verb) /\ Goto(r, verb)
        leave == NoCall(r) /\ Goto(r, "leaving")
    IN /\ q.pc \in {"get", "events", "dryrun", "update"} /\ call[r].st = "ended"
       /\ \/ (~res.ok \/ q.pc \in {"events", "update"} \/ q.kind = "view") /\ leave
          \/ res.ok /\ q.pc = "get" /\ q.kind = "described" /\ next("events")
          \/ /\ res.ok /\ q.pc = "get" /\ q.kind \in {"preview", "apply"} /\ Decodes(q.m, res.obj)
             /\ Call(r, "dryrun")
             /\ req' = [req EXCEPT ![r].pc = "dryrun", ![r].cur = res.obj]
          \/ res.ok /\ q.pc = "get" /\ q.kind \in {"preview", "apply"} /\ ~Decodes(q.m, res.obj) /\ leave
          \/ res.ok /\ q.pc = "dryrun" /\ q.kind = "apply" /\ next("update")
       /\ UNCHANGED <<held, ops, reg, disc, obj, writes, workload, now, host, lease, life, left, slots, map, tunnel,
                      grants, reviewed>>

\* issue: a fresh token for this target and manifest.
Issued(gs, token, q) ==
    Unexpired(gs) \cup {[tok |-> token, digest |-> PreviewDigest(q.scope, q.m), expires |-> now + PreviewLifetime]}

\* handleEditPreview after a successful dry run.
IssuePreview(r) ==
    LET q == req[r]
        token == Cardinality(reviewed) + 1
    IN /\ q.pc = "dryrun" /\ q.kind = "preview" /\ call[r].st = "ended" /\ call[r].res.ok
       /\ grants' = [grants EXCEPT ![q.app] = Issued(@, token, q)]
       /\ reviewed' = reviewed \cup {[tok |-> token, scope |-> q.scope, m |-> q.m, saw |-> q.cur, at |-> now,
                                      used |-> -1]}
       /\ NoCall(r) /\ Goto(r, "leaving")
       /\ UNCHANGED <<held, ops, reg, disc, obj, writes, workload, now, host, lease, life, left, slots, map, tunnel>>

\* handleEditApply: the token is spent whatever consume answers.
Consume(r) ==
    LET q == req[r]
        ok == Consumes(q.app, q.tok, PreviewDigest(q.scope, q.m))
    IN /\ q.pc = "consume"
       /\ grants' = [grants EXCEPT ![q.app] = {g \in Unexpired(@) : g.tok # q.tok}]
       /\ reviewed' = IF ok THEN {IF p.tok = q.tok THEN [p EXCEPT !.used = now] ELSE p : p \in reviewed}
                      ELSE reviewed
       /\ Goto(r, IF ok THEN "lookup" ELSE "leaving")
       /\ UNCHANGED <<adapterVars, workload, now, host, lease, life, left, slots, map, tunnel>>

\* handleStartForward: reserve, resolve the pod (outside the gate), wait for the tunnel, register it.
StartForward(r) ==
    LET q == req[r]
        t == tunnel[r]
        stop == tunnel' = [tunnel EXCEPT ![r] = Stopped(t)] /\ Goto(r, "unreserve") /\ UNCHANGED <<slots, map>>
    IN /\ \/ /\ q.pc = "reserve" /\ slots[q.app] < MaxForwards
             /\ slots' = [slots EXCEPT ![q.app] = @ + 1] /\ Goto(r, "lookup") /\ UNCHANGED <<tunnel, map>>
          \/ q.pc = "reserve" /\ slots[q.app] = MaxForwards /\ Goto(r, "leaving") /\ UNCHANGED <<slots, tunnel, map>>
          \/ q.pc = "resolve" /\ Fail(r) /\ UNCHANGED <<slots, tunnel, map>>
          \/ /\ q.pc = "resolve"
             /\ tunnel' = [tunnel EXCEPT ![r] = NewTunnel(q.app)] /\ Goto(r, "await") /\ UNCHANGED <<slots, map>>
          \/ /\ q.pc = "await" /\ t.ready
             /\ map' = [map EXCEPT ![q.app] = @ \cup {r}]
             /\ tunnel' = [tunnel EXCEPT ![r].monitor = "waiting"]
             /\ Goto(r, "leaving") /\ UNCHANGED slots
          \/ /\ q.pc = "await" /\ t.done
             /\ tunnel' = [tunnel EXCEPT ![r] = [Stopped(t) EXCEPT !.done = FALSE]]
             /\ Goto(r, "unreserve") /\ UNCHANGED <<slots, map>>
          \/ q.pc = "await" /\ stop   \* add fails, the 20 s timer fires, or the client leaves
          \/ /\ q.pc = "unreserve"
             /\ slots' = [slots EXCEPT ![q.app] = @ - 1] /\ Goto(r, "leaving") /\ UNCHANGED <<tunnel, map>>
       /\ UNCHANGED <<adapterVars, workload, now, host, lease, life, left, grants, reviewed>>

\* handleDeleteForward: out of the map, then Close, then the release.
DeleteForward(r, f) ==
    LET q == req[r]
    IN /\ \/ /\ q.pc = "delete"
             /\ IF f \in map[q.app]
                THEN /\ map' = [map EXCEPT ![q.app] = @ \ {f}]
                     /\ req' = [req EXCEPT ![r] = [pc |-> "stop", app |-> q.app, of |-> f]]
                ELSE Goto(r, "leaving") /\ UNCHANGED map
             /\ UNCHANGED <<tunnel, slots>>
          \/ /\ q.pc = "stop" /\ f = q.of
             /\ tunnel' = [tunnel EXCEPT ![f] = Stopped(@)] /\ Goto(r, "free") /\ UNCHANGED <<map, slots>>
          \/ /\ q.pc = "free" /\ f = q.of
             /\ ReleaseOnce(f, tunnel[f]) /\ Goto(r, "leaving") /\ UNCHANGED map
       /\ UNCHANGED <<adapterVars, workload, now, host, lease, life, left, grants, reviewed>>

\* The deferred release of the lease.
Leave(r) ==
    /\ req[r].pc = "leaving"
    /\ req' = [req EXCEPT ![r] = [pc |-> "gone"]]
    /\ LET l == lease[req[r].app]
       IN lease' = [lease EXCEPT ![req[r].app] = Drain([l EXCEPT !.active = l.active - 1])]
    /\ UNCHANGED <<adapterVars, workload, now, host, life, left, slots, map, tunnel, grants, reviewed>>

(***************************************************************************)
(* The environment, and the adapter's own steps.                           *)
(***************************************************************************)
Tick ==
    /\ workload.ticks > 0
    /\ workload' = [workload EXCEPT !.ticks = @ - 1]
    /\ now' = now + 1
    /\ UNCHANGED <<adapterVars, host, lease, life, left, slots, map, tunnel, grants, req, reviewed>>

Foreign(s, fresh) ==
    /\ workload.foreign > 0 /\ s \in workload.scopes
    /\ workload' = [workload EXCEPT !.foreign = @ - 1]
    /\ ForeignWrite(s, fresh)
    /\ UNCHANGED <<now, host, lease, life, left, slots, map, tunnel, grants, req, reviewed>>

\* The hydrator of an open session discovers its contexts.
Hydrate(a) ==
    /\ \/ workload.discovers /\ life[a] = "open" /\ Discover(a)
       \/ Discovered(a, Cancelled(a))
    /\ UNCHANGED appVars

CallStep(c) == (Acquire(c) \/ Awake(c) \/ Launch(c) \/ Receive(c)) /\ UNCHANGED appVars
Deadline(c) == workload.deadlines /\ Expire(c) /\ UNCHANGED appVars
OperationStep(op) ==
    /\ Finish(op) \/ \E answers \in BOOLEAN : (answers \/ workload.faults) /\ Perform(op, answers)
    /\ UNCHANGED appVars

ServeStep(r) ==
    \/ Lookup(r) \/ Operate(r) \/ IssuePreview(r) \/ Consume(r) \/ StartForward(r) \/ Leave(r)
    \/ \E f \in Requests : DeleteForward(r, f)

Arrivals(r) ==
    \E kind \in workload.kinds[r], scope \in workload.scopes :
        \E m \in {NoManifest} \cup Manifests(scope) \cup {p.m : p \in reviewed},
           tok \in IF kind = "apply" THEN 0..Cardinality(reviewed) ELSE {0} :
            Arrive(r, kind, scope, m, tok)

Next ==
    \/ \E r \in Requests : Arrivals(r) \/ ServeStep(r) \/ Connect(r) \/ Return(r) \/ Watch(r) \/ Monitor(r)
    \/ \E c \in Callers : CallStep(c) \/ Deadline(c)
    \/ \E op \in ops : OperationStep(op)
    \/ \E a \in Apps : \/ ImportDirectory(a) \/ CloseDrained(a) \/ CloseApplication(a) \/ Hydrate(a)
                       \/ \E r \in Requests : CloseOne(a, r)
    \/ HostClose \/ Tick
    \/ \E s \in Scopes, fresh \in BOOLEAN : Foreign(s, fresh)

\* Goroutines are scheduled, deadlines pass, a stopped tunnel returns, a handler's timer fires and the
\* API calls of PortForward answer; operations behind the gate need never return.  The steps joined
\* under one fairness condition are never enabled together.
RequestStep(r) == ServeStep(r) \/ CallStep(r)
TunnelStep(r) == Watch(r) \/ (Return(r) /\ tunnel[r].stop) \/ Monitor(r)
CloseStep(a) == CloseDrained(a) \/ CloseApplication(a) \/ \E r \in Requests : CloseOne(a, r)
Fairness ==
    /\ \A r \in Requests : WF_vars(RequestStep(r)) /\ WF_vars(TunnelStep(r))
    /\ \A c \in Probes : WF_vars(CallStep(c))
    /\ \A c \in Callers : WF_vars(Deadline(c))
    /\ \A a \in Apps : WF_vars(CloseStep(a))

Spec == Init /\ [][Next]_vars /\ Fairness

(***************************************************************************)
(* Properties.                                                             *)
(***************************************************************************)
\* An update that reaches an API server carries exactly the target and manifest of one issued preview,
\* whose token was spent within its lifetime, and it replaces exactly the object that preview compared
\* it with: no apply, late or retried, overwrites a change its author was not shown (previewManager,
\* decodeEditedObject and the two dry runs together).
ReviewedIsWritten ==
    \A w \in writes : \E p \in reviewed :
        /\ p.tok = w.tok /\ p.scope = w.scope /\ p.m = w.m /\ p.saw = w.over
        /\ p.used \in p.at..(p.at + PreviewLifetime - 1)

Reserving(r) ==
    req[r].pc \in {"lookup", "probing", "client", "resolve", "await", "unreserve"} /\ req[r].kind = "forward"
Registered(r) == tunnel[r].st # "none" /\ tunnel[r].monitor # "none" /\ ~tunnel[r].released

\* The slots taken are those of requests still starting a tunnel and of registered tunnels not yet
\* released, each once, however the tunnel's end, its deletion and the session's Close interleave; and
\* a tunnel nobody has told to stop holds one of them (forwardManager.reserve, releaseOnce).
SlotsExact ==
    /\ \A a \in Apps :
        /\ slots[a] = Cardinality({r \in Requests : Reserving(r) /\ req[r].app = a})
                      + Cardinality({r \in Requests : Registered(r) /\ tunnel[r].app = a})
        /\ slots[a] <= MaxForwards
    /\ \A r \in Requests :
        tunnel[r].st = "running" /\ ~tunnel[r].stop => Reserving(r) \/ Registered(r)

\* A session is torn down under a request that leased it only when the whole host is closing: a folder
\* import waits for every request that selected the old session (Replace, closeDesktopSessionAfter).
LeaseHonoured == \A a \in Apps : Cancelled(a) /\ lease[a].active > 0 => host.closed

TornDown(a) ==
    /\ life[a] = "closed" /\ slots[a] = 0
    /\ \A r \in Requests : tunnel[r].st = "running" => tunnel[r].app # a

\* A session that was replaced or closed is in the end torn down completely: its requests drain, its
\* closer runs, every tunnel it ever started has ended and every slot is free, a tunnel that came up
\* while Close was running included.
RetiredIsTornDown == \A a \in Apps : (lease[a].retired \/ Cancelled(a)) ~> TornDown(a)
=============================================================================
