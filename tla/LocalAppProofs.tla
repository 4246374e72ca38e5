--------------------------- MODULE LocalAppProofs ---------------------------
(***************************************************************************)
(* For any number of sessions, contexts, requests and tunnels and any      *)
(* lifetime of a preview: a session that was replaced is not torn down     *)
(* under a request that leased it, a reviewed edit is what is written, the *)
(* operation gate counts right, and the slots of the tunnels are exact.    *)
(***************************************************************************)
EXTENDS LocalApp, Counting, TLAPS

(***************************************************************************)
(* Leases                                                                  *)
(***************************************************************************)
Lease == [active : Int, retired : BOOLEAN, drained : BOOLEAN]
Lives == {"unborn", "open", "cancel", "closeAll", "closing", "closed"}

\* The current session is open and not retired, a closed host has none, and outside a closing host only
\* a retired session without leaseholders is past "open".
LeaseInv ==
  /\ lease \in [Apps -> Lease] /\ life \in [Apps -> Lives]
  /\ host \in [closed : BOOLEAN, current : Apps \union {0}]
  /\ host.closed => host.current = 0
  /\ host.current # 0 => life[host.current] = "open" /\ ~lease[host.current].retired
  /\ \A a \in Apps : life[a] = "unborn" => ~lease[a].retired
  /\ \A a \in Apps : lease[a].drained => lease[a].retired /\ lease[a].active = 0
  /\ \A a \in Apps : Cancelled(a) /\ ~host.closed => lease[a].retired /\ lease[a].active <= 0

\* The steps that leave sessions and leases alone.
LEMMA LeaseFrame == LeaseInv /\ UNCHANGED <<lease, life, host>> => LeaseInv'
BY Zenon DEF LeaseInv, Cancelled

\* Drain settles drained and leaves the rest.
LEMMA DrainSettles ==
  ASSUME NEW l \in Lease
  PROVE  /\ Drain(l) \in Lease /\ Drain(l).active = l.active /\ Drain(l).retired = l.retired
         /\ Drain(l).drained => l.retired /\ l.active = 0
BY Zenon DEF Lease, Drain

\* l is the lease of session a after it was retired; the other sessions' leases stay.
Retires(a) ==
  \E l \in Lease : /\ lease' = [lease EXCEPT ![a] = l]
                   /\ l.active = lease[a].active /\ l.retired /\ (l.drained => l.active = 0)

\* Replace and HostClose retire the current session.
LEMMA CurrentRetired ==
  ASSUME LeaseInv, host.current \in Apps,
         lease' = [lease EXCEPT ![host.current] = Drain([@ EXCEPT !.retired = TRUE])]
  PROVE  Retires(host.current)
<1> USE Zenon
<1>1. lease[host.current] \in Lease
  BY DEF LeaseInv
<1> DEFINE e == [lease[host.current] EXCEPT !.retired = TRUE]
           l == Drain(e)
<1>2. e \in Lease /\ e.active = lease[host.current].active /\ e.retired = TRUE
  BY <1>1 DEF Lease
<1>3. lease' = [lease EXCEPT ![host.current] = l]
  OBVIOUS
<1> HIDE DEF e
<1>4. l \in Lease /\ l.active = lease[host.current].active /\ l.retired /\ (l.drained => l.active = 0)
  BY <1>2, DrainSettles
<1> HIDE DEF l
<1> QED BY <1>3, <1>4 DEF Retires

\* An import opens an unborn session, or closes it at once if the host is closed.
LEMMA LeaseImport ==
  ASSUME LeaseInv, NEW a \in Apps, ImportDirectory(a) PROVE LeaseInv'
<1>1. a # 0 /\ 0 \notin Apps /\ life[a] = "unborn" /\ life[a] # "open"
  BY AppsAssumption, Zenon DEF ImportDirectory
<1>2. CASE host.closed
  <2> USE Zenon
  <2>1. life' = [life EXCEPT ![a] = "cancel"] /\ lease' = lease /\ host' = host
    BY <1>2 DEF ImportDirectory
  <2> QED BY <1>1, <1>2, <2>1 DEF LeaseInv, Cancelled, Lives
<1>3. CASE ~host.closed
  <2>1. Replace(a) /\ life' = [life EXCEPT ![a] = "open"]
    BY <1>3, Zenon DEF ImportDirectory
  <2>2. host' \in [closed : BOOLEAN, current : Apps \union {0}] /\ host'.closed = FALSE /\ host'.current = a
    BY <1>3, <2>1, Zenon DEF Replace, LeaseInv
  <2>3. a # host.current /\ ~lease[a].retired
    BY <1>1, Zenon DEF LeaseInv
  <2>4. CASE host.current = 0
    <3> USE Zenon
    <3>1. lease' = lease
      BY <2>1, <2>4 DEF Replace
    <3> QED BY <1>1, <1>3, <2>1, <2>2, <2>3, <2>4, <3>1 DEF LeaseInv, Cancelled, Lives
  <2>5. CASE host.current \in Apps
    <3>1. Retires(host.current)
      BY <1>1, <2>1, <2>5, CurrentRetired, Zenon DEF Replace
    <3> QED BY <1>1, <1>3, <2>1, <2>2, <2>3, <2>5, <3>1 DEF Retires, LeaseInv, Cancelled, Lives
  <2> QED BY <2>4, <2>5, Zenon DEF LeaseInv
<1> QED BY <1>2, <1>3, Zenon

\* The closer of a session starts when its last leaseholder has gone.
LEMMA LeaseClose ==
  ASSUME LeaseInv, NEW a \in Apps, CloseDrained(a) PROVE LeaseInv'
<1>1. life[a] = "open" /\ lease[a].retired /\ lease[a].active = 0 /\ a # host.current
  BY AppsAssumption, Zenon DEF LeaseInv, CloseDrained
<1> QED BY <1>1 DEF LeaseInv, CloseDrained, Cancelled, Lives

\* The host closes its current session, its lease is retired with it.
LEMMA LeaseHostClose ==
  ASSUME LeaseInv, HostClose PROVE LeaseInv'
<1>1. 0 \notin Apps /\ host'.closed /\ host'.current = 0
  BY AppsAssumption, Zenon DEF HostClose
<1>2. host' \in [closed : BOOLEAN, current : Apps \union {0}]
  BY Zenon DEF HostClose
<1>3. CASE host.current \in Apps
  <2>1. Retires(host.current)
    BY <1>3, CurrentRetired, Zenon DEF HostClose
  <2>2. life' = [life EXCEPT ![host.current] = "cancel"]
    BY Zenon DEF HostClose
  <2> QED BY <1>1, <1>2, <1>3, <2>1, <2>2 DEF Retires, LeaseInv, Lives, Cancelled
<1>4. CASE host.current \notin Apps
  <2>1. lease' = lease /\ life' = life
    BY <1>4 DEF HostClose, LeaseInv
  <2> QED BY <1>1, <1>2, <2>1, Zenon DEF LeaseInv, Cancelled
<1> QED BY <1>3, <1>4, Zenon

\* Application.Close goes on once it has begun.
LEMMA LeaseApplication ==
  ASSUME LeaseInv, NEW a \in Apps, CloseApplication(a) PROVE LeaseInv'
<1> USE Zenon
<1>1. PICK next \in {"closeAll", "closing", "closed"} : life' = [life EXCEPT ![a] = next]
  BY DEF CloseApplication
<1>2. Cancelled(a) /\ a # host.current
  BY AppsAssumption DEF CloseApplication, Cancelled, LeaseInv
<1>3. lease' = lease /\ host' = host
  BY DEF CloseApplication
<1> QED BY <1>1, <1>2, <1>3 DEF LeaseInv, Lives, Cancelled

\* A request leases the current session, which is not retired.
LEMMA LeaseArrive ==
  ASSUME LeaseInv, NEW r, NEW kind, NEW scope, NEW m, NEW tok, Arrive(r, kind, scope, m, tok)
  PROVE  LeaseInv'
<1>1. host' = host /\ life' = life
  BY Zenon DEF Arrive
<1>2. CASE host.current = 0
  BY <1>1, <1>2, LeaseFrame, Zenon DEF Arrive
<1>3. CASE host.current # 0
  <2>1. host.current \in Apps /\ lease[host.current] \in Lease
    BY <1>3, Zenon DEF LeaseInv
  <2>2. lease' = [lease EXCEPT ![host.current] =
                    [active |-> lease[host.current].active + 1, retired |-> lease[host.current].retired,
                     drained |-> lease[host.current].drained]]
    BY <1>3, <2>1, Zenon DEF Arrive, Lease
  <2>3. ~lease[host.current].retired /\ ~lease[host.current].drained /\ life[host.current] = "open"
    BY <1>3, <2>1, Zenon DEF LeaseInv
  <2> QED BY <1>1, <2>1, <2>2, <2>3 DEF LeaseInv, Lease, Cancelled
<1> QED BY <1>2, <1>3, Zenon

\* A lease that is given back may drain its session.
LEMMA LeaseLeave ==
  ASSUME LeaseInv, NEW r, Leave(r) PROVE LeaseInv'
<1>1. host' = host /\ life' = life
  BY Zenon DEF Leave
<1> DEFINE a == req[r].app
<1>2. CASE a \in Apps
  <2>1. lease[a] \in Lease
    BY <1>2, Zenon DEF LeaseInv
  <2>2. \E l \in Lease : /\ lease' = [lease EXCEPT ![a] = l]
                         /\ l.active = lease[a].active - 1 /\ l.retired = lease[a].retired
                         /\ l.drained => l.retired /\ l.active = 0
    <3> DEFINE e == [lease[a] EXCEPT !.active = lease[a].active - 1]
               l == Drain(e)
    <3>1. e \in Lease /\ e.active = lease[a].active - 1 /\ e.retired = lease[a].retired
      BY <2>1 DEF Lease
    <3>2. lease' = [lease EXCEPT ![a] = l]
      BY Zenon DEF Leave
    <3> HIDE DEF e
    <3>3. /\ l \in Lease /\ l.active = lease[a].active - 1 /\ l.retired = lease[a].retired
          /\ l.drained => l.retired /\ l.active = 0
      BY <3>1, DrainSettles, Zenon
    <3> HIDE DEF l
    <3> QED BY <3>2, <3>3, Zenon
  <2>3. lease[a].active \in Int
    BY <2>1, Zenon DEF Lease
  <2> QED BY <1>1, <1>2, <2>2, <2>3 DEF LeaseInv, Cancelled
<1>3. CASE a \notin Apps
  <2> USE Zenon
  <2>1. lease' = lease
    BY <1>3 DEF Leave, LeaseInv
  <2> QED BY <1>1, <2>1, LeaseFrame
<1> QED BY <1>2, <1>3, Zenon

LeaseKept == UNCHANGED <<lease, life, host>>

\* A step of a handler before it leaves does not touch sessions and leases.
LEMMA ServingKeepsLeases ==
  ASSUME NEW r, ServeStep(r), ~Leave(r) PROVE LeaseKept
BY Zenon DEF ServeStep, Lookup, Operate, IssuePreview, Consume, StartForward, DeleteForward, LeaseKept

\* Nor does the adapter, nor a tunnel.
LEMMA OthersKeepLeases ==
  /\ \A c : CallStep(c) \/ Deadline(c) => LeaseKept
  /\ \A op : OperationStep(op) => LeaseKept
  /\ \A a : Hydrate(a) => LeaseKept
  /\ \A a, r : CloseOne(a, r) => LeaseKept
  /\ \A r : Connect(r) \/ Return(r) \/ Watch(r) \/ Monitor(r) => LeaseKept
  /\ \A s, fresh : Foreign(s, fresh) => LeaseKept
  /\ Tick => LeaseKept
BY Zenon DEF CallStep, Deadline, OperationStep, Hydrate, CloseOne, Connect, Return, Watch, Monitor, OnlyTunnel, Foreign,
       Tick, LeaseKept, appVars

\* Every step keeps the invariant of the leases.
LEMMA LeaseStep == LeaseInv /\ [Next]_vars => LeaseInv'
<1> USE Zenon
<1> SUFFICES ASSUME LeaseInv, [Next]_vars PROVE LeaseInv'
  OBVIOUS
<1>1. ASSUME NEW r \in Requests, Arrivals(r) PROVE LeaseInv'
  BY <1>1, LeaseArrive DEF Arrivals
<1>2. ASSUME NEW r \in Requests, ServeStep(r) PROVE LeaseInv'
  <2>1. CASE Leave(r)
    BY <2>1, LeaseLeave
  <2>2. CASE ~Leave(r)
    BY <1>2, <2>2, ServingKeepsLeases, LeaseFrame DEF LeaseKept
  <2> QED BY <2>1, <2>2
<1>3. ASSUME NEW a \in Apps, ImportDirectory(a) \/ CloseDrained(a) \/ CloseApplication(a) PROVE LeaseInv'
  BY <1>3, LeaseImport, LeaseClose, LeaseApplication
<1>4. CASE HostClose
  BY <1>4, LeaseHostClose
<1>5. CASE LeaseKept
  BY <1>5, LeaseFrame DEF LeaseKept
<1>6. CASE UNCHANGED vars
  BY <1>6, LeaseFrame DEF vars, appVars
<1> QED BY <1>1, <1>2, <1>3, <1>4, <1>5, <1>6, OthersKeepLeases DEF Next

\* At the start one session is open and nobody has leased it.
LEMMA LeaseInit == Init => LeaseInv
BY AppsAssumption, AppAssumption DEF Init, LeaseInv, Lease, Lives, Cancelled

\* A folder import never tears a session down under a request: for any number of sessions and requests,
\* a session that is closing still has leaseholders only if the whole host closes.
THEOREM LeasesAreHonoured == Spec => []LeaseHonoured
<1>1. LeaseInv => LeaseHonoured
  <2> SUFFICES ASSUME LeaseInv, NEW a \in Apps, Cancelled(a), lease[a].active > 0, ~host.closed PROVE FALSE
    BY Zenon DEF LeaseInv, LeaseHonoured
  <2>1. lease[a].active <= 0 /\ lease[a].active \in Int
    BY Zenon DEF LeaseInv, Lease
  <2> QED BY <2>1
<1> QED BY <1>1, LeaseInit, LeaseStep, PTL DEF Spec

-----------------------------------------------------------------------------
(***************************************************************************)
(* A reviewed edit is what is written, although operations outlive their   *)
(* callers and others change the object.                                   *)
(*                                                                         *)
(* The argument follows versions.  A preview's manifest is no newer than   *)
(* the object it was compared with, and its dry run succeeds only on the   *)
(* manifest's version: the object compared is the one of that version.     *)
(* The token of the preview is spent by one apply, which carries the same  *)
(* manifest into every operation it starts, and an update of it succeeds   *)
(* only on the same version, that is on the same object.                   *)
(***************************************************************************)
Objects == [uid : Int, rv : Nat, body : Int]
Edited == [id : {"target", "other", None}, rv : Nat, uid : Int, body : Int]
Results == [ok : BOOLEAN, obj : Objects]
Verbs == {"probe", "get", "events", "dryrun", "update"}
Calls == [st : {"acquire", "wait", "woken", "granted", "select"}, app : Apps, scope : Scopes, verb : Verbs,
          m : Edited, tok : Nat, expired : BOOLEAN, res : Results]
EndedCalls == [st : {"ended"}, res : Results]
Operations == [c : Callers, app : Apps, scope : Scopes, verb : Verbs, m : Edited, tok : Nat,
               st : {"running", "sent"}]
Waiting == {"probing", "get", "events", "dryrun", "update"}
Stages == Waiting \union {"lookup", "client", "reserve", "resolve", "await", "unreserve", "delete", "consume",
                          "leaving"}
Kinds == {"view", "describe", "described", "preview", "apply", "forward", "delete"}
Served == [pc : Stages, kind : Kinds, app : Apps, scope : Scopes, m : Edited, tok : Nat, cur : Objects]
Deleting == [pc : {"stop", "free", "leaving"}, app : Apps, of : Requests]
Reviews == [tok : Nat, scope : Scopes, m : Edited, saw : Objects, at : Nat, used : Int]
Grants == [tok : Nat, digest : Scopes \X Edited, expires : Int]

\* o was the object of s at some time: an object that still has o's version is o.
Seen(s, o, ob) == o.rv <= ob[s].rv /\ (o.rv = ob[s].rv => o = ob[s])

\* Some preview showed exactly this edit, and its token was spent in time.
Spent(tok, s, m, rev) ==
  \E p \in rev : /\ p.tok = tok /\ p.scope = s /\ p.m = m
                 /\ p.used \in p.at .. (p.at + PreviewLifetime - 1)

\* What a caller has in the adapter fits what it asked for.
Asked(k, q, verb) ==
  k \in EndedCalls \/ (k \in Calls /\ k.verb = verb /\ k.scope = q.scope /\ k.m = q.m /\ k.tok = q.tok)
CallFits(k, q) ==
  /\ q.pc \notin Waiting => k = Idle
  /\ q.pc = "probing" => Asked(k, q, "probe")
  /\ q.pc \in Waiting \ {"probing"} => Asked(k, q, q.pc)

\* An apply past its token has spent it.
ApplyFits(q, rev) ==
  /\ q.pc = "consume" => q.kind = "apply"
  /\ q.pc = "update" => q.kind = "apply"
  /\ q.kind = "apply" /\ q.pc \notin {"consume", "leaving"} => Spent(q.tok, q.scope, q.m, rev)

\* The versions a preview has met only grow; a dry run that succeeds pins them to the manifest's.
PreviewFits(k, q, ob) ==
  q.kind = "preview" =>
    /\ q.m.rv <= ob[q.scope].rv
    /\ q.pc = "get" /\ k.res.ok => q.m.rv <= k.res.obj.rv /\ Seen(q.scope, k.res.obj, ob)
    /\ q.pc = "dryrun" => /\ q.m.rv # 0 /\ q.m.rv <= q.cur.rv /\ Seen(q.scope, q.cur, ob)
                          /\ k.res.ok => q.cur.rv = q.m.rv

RequestFits(k, q, ob, rev) ==
  \/ q \in {[pc |-> "new"], [pc |-> "gone"]} \union Deleting /\ k = Idle
  \/ q \in Served /\ CallFits(k, q) /\ ApplyFits(q, rev) /\ PreviewFits(k, q, ob)

\* An operation keeps the arguments of the request that started it, which may have gone meanwhile.
ArgsFit(op, q) ==
  /\ q.pc # "new"
  /\ q.pc \in Stages \ {"leaving"} => op.m = q.m /\ op.scope = q.scope
OperationFits(op, rq, rev) ==
  /\ op \in Operations
  /\ op.verb = "update" => Spent(op.tok, op.scope, op.m, rev)
  /\ op.c \in Requests => ArgsFit(op, rq[op.c])

ProbeFits(k) == k = Idle \/ k \in EndedCalls \/ (k \in Calls /\ k.verb = "probe")

CallersFit ==
  /\ req = [r \in Requests |-> req[r]] /\ call = [c \in Callers |-> call[c]]
  /\ \A r \in Requests : RequestFits(call[r], req[r], obj, reviewed)
  /\ \A c \in Probes : ProbeFits(call[c])
  /\ \A op \in ops : OperationFits(op, req, reviewed)

\* Tokens are numbers that have been issued, each to one preview of an object of the manifest's version.
ReviewFits(p, ob, t, n) ==
  /\ p \in Reviews /\ p.tok \in 1 .. n /\ p.at <= t
  /\ p.m.rv # 0 /\ p.saw.rv = p.m.rv /\ Seen(p.scope, p.saw, ob)
ReviewsOK ==
  /\ IsFiniteSet(reviewed)
  /\ \A p \in reviewed : ReviewFits(p, obj, now, Cardinality(reviewed))
  /\ \A p, q \in reviewed : p.tok = q.tok => p = q

\* A grant belongs to an unspent preview, and to one session.
GrantFits(g, rev) ==
  \E p \in rev : /\ p.tok = g.tok /\ g.digest = PreviewDigest(p.scope, p.m)
                 /\ g.expires = p.at + PreviewLifetime /\ p.used = -1
GrantsOK ==
  /\ grants \in [Apps -> SUBSET Grants]
  /\ \A a \in Apps : \A g \in grants[a] : GrantFits(g, reviewed)
  /\ \A a, b \in Apps : \A g \in grants[a], h \in grants[b] : g.tok = h.tok => a = b

\* What was written is what one preview, spent in time, showed.
WriteFits(w, rev) ==
  \E p \in rev : /\ p.tok = w.tok /\ p.scope = w.scope /\ p.m = w.m /\ p.saw = w.over
                 /\ p.used \in p.at .. (p.at + PreviewLifetime - 1)

EditInv ==
  /\ now \in Nat /\ obj \in [Scopes -> Objects] /\ workload \in Environments
  /\ ReviewsOK /\ GrantsOK /\ CallersFit
  /\ \A w \in writes : WriteFits(w, reviewed)
(***************************************************************************)
(* What survives a change of the object, of the reviews, of one call       *)
(***************************************************************************)
Grows(ob, ob2) == \A s \in Scopes : ob2[s] = ob[s] \/ ob2[s].rv > ob[s].rv
KeepsSpent(rev, rev2) == \A p \in rev : p.used \in p.at .. (p.at + PreviewLifetime - 1) => p \in rev2

\* A later object has a later version.
LEMMA SeenKept ==
  ASSUME NEW ob \in [Scopes -> Objects], NEW ob2 \in [Scopes -> Objects], Grows(ob, ob2),
         NEW s \in Scopes, NEW o \in Objects, Seen(s, o, ob)
  PROVE  Seen(s, o, ob2)
<1>1. ob[s].rv \in Nat /\ ob2[s].rv \in Nat /\ o.rv \in Nat
  BY Zenon DEF Objects
<1>2. ob2[s] = ob[s] \/ ob2[s].rv > ob[s].rv
  BY Zenon DEF Grows
<1> QED BY <1>1, <1>2 DEF Seen

\* A spent preview stays spent.
LEMMA SpentKept ==
  ASSUME NEW rev, NEW rev2, KeepsSpent(rev, rev2), NEW tok, NEW s, NEW m, Spent(tok, s, m, rev)
  PROVE  Spent(tok, s, m, rev2)
BY Zenon DEF KeepsSpent, Spent

\* A request at rest is not disturbed by others.
LEMMA RequestKept ==
  ASSUME NEW ob \in [Scopes -> Objects], NEW ob2 \in [Scopes -> Objects], Grows(ob, ob2),
         NEW rev, NEW rev2, KeepsSpent(rev, rev2),
         NEW k, NEW q, RequestFits(k, q, ob, rev)
  PROVE  RequestFits(k, q, ob2, rev2)
<1>1. CASE q \in {[pc |-> "new"], [pc |-> "gone"]} \union Deleting /\ k = Idle
  BY <1>1, Zenon DEF RequestFits
<1>2. CASE q \in Served /\ CallFits(k, q) /\ ApplyFits(q, rev) /\ PreviewFits(k, q, ob)
  <2>1. ApplyFits(q, rev2)
    BY <1>2, SpentKept, Zenon DEF ApplyFits
  <2>2. ASSUME q.kind = "preview" PROVE PreviewFits(k, q, ob2)
    <3>1. q.scope \in Scopes /\ q.cur \in Objects /\ q.m.rv \in Nat
      BY <1>2, Zenon DEF Served, Edited
    <3>2. q.m.rv <= ob2[q.scope].rv
      <4>1. ob[q.scope].rv \in Nat /\ ob2[q.scope].rv \in Nat
        BY <3>1, Zenon DEF Objects
      <4>2. q.m.rv <= ob[q.scope].rv
        BY <1>2, <2>2, Zenon DEF PreviewFits
      <4> QED BY <3>1, <4>1, <4>2 DEF Grows
    <3>3. ASSUME q.pc = "get", k.res.ok PROVE q.m.rv <= k.res.obj.rv /\ Seen(q.scope, k.res.obj, ob2)
      <4> USE Zenon
      <4>1. k.res.obj \in Objects
        BY <1>2, <3>3 DEF CallFits, Waiting, Asked, Calls, EndedCalls, Results
      <4> QED BY <1>2, <2>2, <3>1, <3>3, <4>1, SeenKept DEF PreviewFits
    <3>4. q.pc = "dryrun" => Seen(q.scope, q.cur, ob2)
      BY <1>2, <2>2, <3>1, SeenKept, Zenon DEF PreviewFits
    <3> QED BY <1>2, <2>2, <3>2, <3>3, <3>4, Zenon DEF PreviewFits
  <2> QED BY <1>2, <2>1, <2>2, Zenon DEF RequestFits, PreviewFits
<1> QED BY <1>1, <1>2, Zenon DEF RequestFits

\* Nor by the gate's wake-up.
Wakes(k, k2) == k2 = k \/ (k.st = "wait" /\ k2 = [k EXCEPT !.st = "woken"])

\* What waking changes of a call.
LEMMA WokenCall ==
  ASSUME NEW k \in Calls, NEW k2, Wakes(k, k2)
  PROVE  k2 \in Calls /\ k2.verb = k.verb /\ k2.scope = k.scope /\ k2.m = k.m /\ k2.tok = k.tok /\ k2.res = k.res
BY Zenon DEF Calls, Wakes

\* A request whose call is woken still fits it.
LEMMA WokenFits ==
  ASSUME NEW ob, NEW rev, NEW k, NEW k2, NEW q, RequestFits(k, q, ob, rev), Wakes(k, k2)
  PROVE  RequestFits(k2, q, ob, rev)
<1>1. CASE k = Idle \/ k \in EndedCalls
  BY <1>1 DEF Wakes, Idle, EndedCalls
<1>2. CASE ~(k = Idle \/ k \in EndedCalls)
  <2> USE Zenon
  <2>1. q \in Served /\ CallFits(k, q) /\ ApplyFits(q, rev) /\ PreviewFits(k, q, ob) /\ k \in Calls
    BY <1>2 DEF RequestFits, CallFits, Asked
  <2>2. k2 \in Calls /\ k2.verb = k.verb /\ k2.scope = k.scope /\ k2.m = k.m /\ k2.tok = k.tok /\ k2.res = k.res
    BY <2>1, WokenCall
  <2>3. CallFits(k2, q)
    BY <1>2, <2>1, <2>2 DEF CallFits, Asked
  <2>4. PreviewFits(k2, q, ob)
    BY <2>1, <2>2 DEF PreviewFits
  <2> QED BY <2>1, <2>3, <2>4 DEF RequestFits
<1> QED BY <1>1, <1>2, Zenon

\* A probe, too.
LEMMA WokenProbe ==
  ASSUME NEW k, NEW k2, ProbeFits(k), Wakes(k, k2) PROVE ProbeFits(k2)
<1>1. CASE k = Idle \/ k \in EndedCalls
  BY <1>1 DEF Wakes, Idle, EndedCalls
<1>2. CASE k \in Calls /\ k.verb = "probe"
  BY <1>2, WokenCall, Zenon DEF ProbeFits
<1> QED BY <1>1, <1>2, Zenon DEF ProbeFits

(***************************************************************************)
(* Steps that touch no object, review or write                             *)
(***************************************************************************)

\* Such a step has only its callers to account for.
LEMMA CalmStep ==
  ASSUME EditInv, UNCHANGED <<obj, reviewed, writes>>, workload' \in Environments,
         now' \in Nat, now <= now', grants' \in [Apps -> SUBSET Grants],
         \A a \in Apps : grants'[a] \subseteq grants[a], CallersFit'
  PROVE  EditInv'
<1>1. now \in Nat
  BY Zenon DEF EditInv
<1>2. \A p \in reviewed : p.at \in Nat /\ p.at <= now => p.at <= now'
  BY <1>1
<1>3. ReviewsOK'
  BY <1>2, Zenon DEF EditInv, ReviewsOK, ReviewFits, Reviews
<1>4. GrantsOK'
  BY Zenon DEF EditInv, GrantsOK
<1> QED BY <1>3, <1>4, Zenon DEF EditInv

\* The steps that leave the callers alone as well.
LEMMA CallersFrame ==
  ASSUME CallersFit, UNCHANGED <<req, call, ops, obj, reviewed>> PROVE CallersFit'
BY Zenon DEF CallersFit

\* One handler goes on: its own record and call are all that changes.
Moves(r, q2, k2) == req' = [req EXCEPT ![r] = q2] /\ call' = [call EXCEPT ![r] = k2]
Active == Stages \ {"leaving"}
SameArgs(q, q2) ==
  /\ q.pc # "new" /\ q2.pc # "new"
  /\ q2.pc \in Active => q.pc \in Active /\ q2.m = q.m /\ q2.scope = q.scope

\* The others do not notice, nor that a preview was issued or spent.
LEMMA HandlerReviews ==
  ASSUME CallersFit, obj \in [Scopes -> Objects], UNCHANGED <<obj, ops>>, KeepsSpent(reviewed, reviewed'),
         NEW r \in Requests, NEW q2, NEW k2, Moves(r, q2, k2),
         RequestFits(k2, q2, obj, reviewed'), SameArgs(req[r], q2)
  PROVE  CallersFit'
<1> USE Zenon
<1>1. r \in Callers /\ r \notin Probes /\ Grows(obj, obj)
  BY CallersAssumption DEF Callers, Grows
<1>2. /\ req' = [x \in Requests |-> req'[x]] /\ call' = [c \in Callers |-> call'[c]]
      /\ \A x \in Requests : req'[x] = IF x = r THEN q2 ELSE req[x]
      /\ \A c \in Callers : call'[c] = IF c = r THEN k2 ELSE call[c]
  BY DEF Moves, CallersFit
<1>3. ASSUME NEW x \in Requests PROVE RequestFits(call'[x], req'[x], obj', reviewed')
  <2>1. CASE x = r
    BY <1>1, <1>2, <2>1
  <2>2. CASE x # r
    <3>1. call'[x] = call[x] /\ req'[x] = req[x] /\ RequestFits(call[x], req[x], obj, reviewed)
      BY <1>2, <2>2 DEF CallersFit, Callers
    <3> QED BY <1>1, <3>1, RequestKept
  <2> QED BY <2>1, <2>2
<1>4. \A c \in Probes : ProbeFits(call'[c])
  BY <1>1, <1>2 DEF CallersFit, Callers
<1>5. ASSUME NEW op \in ops PROVE OperationFits(op, req', reviewed')
  <2>1. OperationFits(op, req, reviewed)
    BY DEF CallersFit
  <2>2. op.verb = "update" => Spent(op.tok, op.scope, op.m, reviewed')
    BY <2>1, SpentKept DEF OperationFits
  <2> QED BY <1>2, <2>1, <2>2 DEF OperationFits, ArgsFit, SameArgs, Active
<1> QED BY <1>2, <1>3, <1>4, <1>5 DEF CallersFit

\* One call goes on: others may be woken, and operations start and end.
LEMMA CallMoves ==
  ASSUME CallersFit, UNCHANGED <<obj, reviewed, req>>, NEW c \in Callers,
         call' = [x \in Callers |-> call'[x]], \A x \in Callers \ {c} : Wakes(call[x], call'[x]),
         c \in Requests => RequestFits(call'[c], req[c], obj, reviewed),
         c \in Probes => ProbeFits(call'[c]),
         \A op \in ops' : OperationFits(op, req, reviewed)
  PROVE  CallersFit'
<1> USE Zenon
<1>1. ASSUME NEW r \in Requests PROVE RequestFits(call'[r], req'[r], obj', reviewed')
  <2>1. r \in Callers
    BY DEF Callers
  <2>2. CASE r = c
    BY <2>2
  <2>3. CASE r # c
    <3>1. RequestFits(call[r], req[r], obj, reviewed) /\ Wakes(call[r], call'[r])
      BY <2>1, <2>3 DEF CallersFit
    <3> QED BY <3>1, WokenFits
  <2> QED BY <2>2, <2>3
<1>2. ASSUME NEW p \in Probes PROVE ProbeFits(call'[p])
  <2>1. p \in Callers
    BY DEF Callers
  <2>2. CASE p # c
    <3>1. ProbeFits(call[p]) /\ Wakes(call[p], call'[p])
      BY <2>1, <2>2 DEF CallersFit
    <3> QED BY <3>1, WokenProbe
  <2> QED BY <2>2
<1> QED BY <1>1, <1>2 DEF CallersFit

\* A caller inside callWithTimeout has a whole call record.
LEMMA InCall ==
  ASSUME CallersFit, NEW c \in Callers, call[c].st \notin {"idle", "ended"}
  PROVE  call[c] \in Calls
<1>1. call[c] # Idle /\ call[c] \notin EndedCalls
  BY DEF Idle, EndedCalls
<1>2. CASE c \in Requests
  <2> USE Zenon
  <2>1. RequestFits(call[c], req[c], obj, reviewed)
    BY <1>2 DEF CallersFit
  <2> QED BY <1>1, <2>1 DEF RequestFits, CallFits, Asked
<1>3. CASE c \in Probes
  BY <1>1, <1>3, Zenon DEF CallersFit, ProbeFits
<1> QED BY <1>2, <1>3, Zenon DEF Callers

\* The caller's own call may change its state, keeping what it asked and the result it has.
SameCall(k, k2) ==
  /\ k \in Calls /\ k2 \in Calls
  /\ k2.verb = k.verb /\ k2.scope = k.scope /\ k2.m = k.m /\ k2.tok = k.tok /\ k2.res = k.res

\* Or end, with that result or with a failure.
Ends(k, k2) == k \in Calls /\ \E res \in Results : k2 = Ended(res) /\ (res = k.res \/ ~res.ok)

\* Either way it still fits its request.
LEMMA CallGoesOn ==
  ASSUME NEW ob, NEW rev, NEW k, NEW k2, NEW q, RequestFits(k, q, ob, rev), SameCall(k, k2) \/ Ends(k, k2)
  PROVE  RequestFits(k2, q, ob, rev)
<1>1. k # Idle /\ k \in Calls /\ k \notin EndedCalls
  BY DEF SameCall, Ends, Calls, EndedCalls, Idle
<1>2. q \in Served /\ CallFits(k, q) /\ ApplyFits(q, rev) /\ PreviewFits(k, q, ob) /\ q.pc \in Waiting
  BY <1>1, Zenon DEF RequestFits, CallFits
<1>3. CASE SameCall(k, k2)
  <2> USE Zenon
  <2>1. CallFits(k2, q)
    BY <1>1, <1>2, <1>3 DEF CallFits, Asked, SameCall
  <2>2. PreviewFits(k2, q, ob)
    BY <1>2, <1>3 DEF PreviewFits, SameCall
  <2> QED BY <1>2, <2>1, <2>2 DEF RequestFits
<1>4. CASE Ends(k, k2)
  <2> USE Zenon
  <2>1. PICK res \in Results : k2 = Ended(res) /\ (res = k.res \/ ~res.ok)
    BY <1>4 DEF Ends
  <2>2. k2 \in EndedCalls /\ k2.res = res
    BY <2>1 DEF Ended, EndedCalls
  <2>3. CallFits(k2, q)
    BY <1>2, <2>2 DEF CallFits, Asked
  <2>4. PreviewFits(k2, q, ob)
    BY <1>2, <2>1, <2>2 DEF PreviewFits
  <2> QED BY <1>2, <2>3, <2>4 DEF RequestFits
<1> QED BY <1>3, <1>4, Zenon

\* And its probe.
LEMMA ProbeGoesOn ==
  ASSUME NEW k, NEW k2, ProbeFits(k), SameCall(k, k2) \/ Ends(k, k2) PROVE ProbeFits(k2)
<1>1. k # Idle /\ k \notin EndedCalls
  BY DEF SameCall, Ends, Calls, EndedCalls, Idle
<1>2. CASE Ends(k, k2)
  BY <1>2 DEF Ends, Ended, EndedCalls, ProbeFits
<1> QED BY <1>1, <1>2, Zenon DEF SameCall, ProbeFits

\* One call goes on by itself.
LEMMA CallerGoesOn ==
  ASSUME CallersFit, UNCHANGED <<obj, reviewed, req>>, NEW c \in Callers,
         call' = [x \in Callers |-> call'[x]], \A x \in Callers \ {c} : Wakes(call[x], call'[x]),
         SameCall(call[c], call'[c]) \/ Ends(call[c], call'[c]),
         \A op \in ops' : OperationFits(op, req, reviewed)
  PROVE  CallersFit'
<1> USE Zenon
<1>1. ASSUME c \in Requests PROVE RequestFits(call'[c], req[c], obj, reviewed)
  <2>1. RequestFits(call[c], req[c], obj, reviewed)
    BY <1>1 DEF CallersFit
  <2> QED BY <2>1, CallGoesOn
<1>2. ASSUME c \in Probes PROVE ProbeFits(call'[c])
  <2>1. ProbeFits(call[c])
    BY <1>2 DEF CallersFit
  <2> QED BY <2>1, ProbeGoesOn
<1> QED BY <1>1, <1>2, CallMoves

\* A call ends with a failure, or with the result it has.
LEMMA EndsWith ==
  ASSUME NEW k \in Calls
  PROVE  Ends(k, Ended(Failure)) /\ Ends(k, Ended(k.res))
<1>1. Failure \in Results /\ ~Failure.ok /\ k.res \in Results
  BY DEF Failure, Results, NoObject, Objects, Calls
<1> QED BY <1>1, Zenon DEF Ends

\* The next state or the deadline of a call.
LEMMA StaysCall ==
  ASSUME NEW k \in Calls
  PROVE  /\ \A st \in {"acquire", "wait", "woken", "granted", "select"} : SameCall(k, [k EXCEPT !.st = st])
         /\ SameCall(k, [k EXCEPT !.expired = TRUE])
BY Zenon DEF SameCall, Calls

\* A step of one caller in the gate, alone.
Alone(c, k2) == call' = [call EXCEPT ![c] = k2]

\* It leaves every other call as it is.
LEMMA AloneGoesOn ==
  ASSUME CallersFit, UNCHANGED <<obj, reviewed, req>>, NEW c \in Callers, NEW k2, Alone(c, k2),
         SameCall(call[c], k2) \/ Ends(call[c], k2), \A op \in ops' : OperationFits(op, req, reviewed)
  PROVE  CallersFit'
<1> USE Zenon
<1>1. /\ call' = [x \in Callers |-> call'[x]] /\ call'[c] = k2
      /\ \A x \in Callers \ {c} : call'[x] = call[x]
  BY DEF Alone, CallersFit
<1> QED BY <1>1, CallerGoesOn DEF Wakes

\* Admission, waiting and waking.
LEMMA AcquireFits ==
  ASSUME CallersFit, UNCHANGED <<reviewed, req>>, NEW c \in Callers, Acquire(c) \/ Awake(c) \/ Receive(c) \/ Expire(c)
  PROVE  CallersFit'
<1> USE Zenon
<1>1. call[c] \in Calls
  BY InCall DEF Acquire, Awake, Receive, Expire
<1>2. UNCHANGED <<obj, ops>> /\ \A op \in ops' : OperationFits(op, req, reviewed)
  BY DEF Acquire, Awake, Receive, Expire, CallersFit
<1>3. \/ Alone(c, Ended(Failure)) \/ Alone(c, Ended(call[c].res))
      \/ \E st \in {"acquire", "wait", "granted"} : Alone(c, [call[c] EXCEPT !.st = st])
      \/ Alone(c, [call[c] EXCEPT !.expired = TRUE])
  BY DEF Acquire, Awake, Receive, Expire, Abandon, Alone
<1> QED BY <1>1, <1>2, <1>3, AloneGoesOn, EndsWith, StaysCall

\* An admitted call starts its operation with the arguments of its request, or gives its place back.
LEMMA LaunchFits ==
  ASSUME CallersFit, UNCHANGED <<reviewed, req>>, NEW c \in Callers, Launch(c)
  PROVE  CallersFit'
<1> DEFINE k == call[c]
           op == [c |-> c, app |-> k.app, scope |-> k.scope, verb |-> k.verb, m |-> k.m, tok |-> k.tok,
                  st |-> "running"]
<1>1. k \in Calls /\ UNCHANGED obj
  BY InCall, Zenon DEF Launch
<1>2. CASE k.expired
  <2> USE Zenon
  <2>1. /\ UNCHANGED ops
        /\ call' = Waken([call EXCEPT ![c] = Ended(Failure)], k.app)
    BY <1>2 DEF Launch, Release
  <2>2. /\ call' = [x \in Callers |-> call'[x]] /\ call'[c] = Ended(Failure)
        /\ \A x \in Callers \ {c} : Wakes(call[x], call'[x])
    BY <2>1 DEF Waken, Wakes, Ended, CallersFit
  <2> QED BY <1>1, <2>1, <2>2, CallerGoesOn, EndsWith DEF CallersFit
<1>3. CASE ~k.expired
  <2>1. ops' = ops \union {op} /\ Alone(c, [k EXCEPT !.st = "select"])
    BY <1>3, Zenon DEF Launch, Alone
  <2>2. op \in Operations
    BY <1>1, Zenon DEF Calls, Operations
  <2>3. op.c = c /\ op.verb = k.verb /\ op.m = k.m /\ op.tok = k.tok /\ op.scope = k.scope
    BY Zenon
  <2> HIDE DEF op
  <2>4. ASSUME c \in Requests
        PROVE  ArgsFit(op, req[c]) /\ (op.verb = "update" => Spent(op.tok, op.scope, op.m, reviewed))
    <3>1. k # Idle /\ k \notin EndedCalls
      BY <1>1 DEF Calls, EndedCalls, Idle
    <3>2. RequestFits(k, req[c], obj, reviewed)
      BY <2>4, Zenon DEF CallersFit
    <3>3. req[c] \in Served /\ CallFits(k, req[c]) /\ ApplyFits(req[c], reviewed) /\ req[c].pc \in Waiting
      BY <3>1, <3>2, Zenon DEF RequestFits, CallFits
    <3>4. /\ k.scope = req[c].scope /\ k.m = req[c].m /\ k.tok = req[c].tok
          /\ k.verb = "update" => req[c].pc = "update"
      BY <3>1, <3>3, Zenon DEF CallFits, Asked, Waiting
    <3> QED BY <2>3, <3>3, <3>4, Zenon DEF ArgsFit, Waiting, ApplyFits
  <2>5. ASSUME c \in Probes PROVE op.verb = "probe" /\ c \notin Requests
    <3>1. k # Idle /\ k \notin EndedCalls
      BY <1>1 DEF Calls, EndedCalls, Idle
    <3> QED BY <2>3, <2>5, <3>1, CallersAssumption, Zenon DEF CallersFit, ProbeFits
  <2>6. OperationFits(op, req, reviewed)
    BY <2>2, <2>3, <2>4, <2>5, Zenon DEF OperationFits, Callers
  <2> QED BY <1>1, <2>1, <2>6, AloneGoesOn, StaysCall, Zenon DEF CallersFit
<1> QED BY <1>2, <1>3, Zenon

\* An operation that ends wakes the gate.
LEMMA FinishFits ==
  ASSUME CallersFit, UNCHANGED <<reviewed, req>>, NEW op \in ops, Finish(op)
  PROVE  CallersFit'
<1> USE Zenon
<1>1. ops' \subseteq ops /\ call' = Waken(call, op.app) /\ UNCHANGED obj
  BY DEF Finish, Release
<1>2. call' = [x \in Callers |-> call'[x]] /\ \A x \in Callers : Wakes(call[x], call'[x])
  BY <1>1 DEF Waken, Wakes
<1>3. op.c \in Callers
  BY DEF CallersFit, OperationFits, Operations
<1>4. op.c \in Requests => RequestFits(call'[op.c], req[op.c], obj, reviewed)
  BY <1>2, <1>3, WokenFits DEF CallersFit
<1>5. op.c \in Probes => ProbeFits(call'[op.c])
  BY <1>2, <1>3, WokenProbe DEF CallersFit
<1> QED BY <1>1, <1>2, <1>3, <1>4, <1>5, CallMoves DEF CallersFit

(***************************************************************************)
(* The API servers                                                         *)
(***************************************************************************)

\* All callers fit when objects have moved on and one call has got its result.
LEMMA ServerMoves ==
  ASSUME EditInv, obj' \in [Scopes -> Objects], Grows(obj, obj'), UNCHANGED <<reviewed, req>>,
         NEW c \in Callers, call' = [x \in Callers |-> call'[x]], \A x \in Callers \ {c} : call'[x] = call[x],
         c \in Requests => RequestFits(call'[c], req[c], obj', reviewed),
         c \in Probes => ProbeFits(call'[c]),
         \A o \in ops' : OperationFits(o, req, reviewed)
  PROVE  CallersFit'
<1> USE Zenon
<1>1. KeepsSpent(reviewed, reviewed) /\ obj \in [Scopes -> Objects] /\ CallersFit
  BY DEF KeepsSpent, EditInv
<1>2. ASSUME NEW r \in Requests PROVE RequestFits(call'[r], req'[r], obj', reviewed')
  <2>1. CASE r # c
    <3>1. call'[r] = call[r] /\ RequestFits(call[r], req[r], obj, reviewed)
      BY <1>1, <2>1 DEF CallersFit, Callers
    <3> QED BY <1>1, <3>1, RequestKept
  <2> QED BY <2>1
<1>3. ASSUME NEW p \in Probes PROVE ProbeFits(call'[p])
  <2>1. CASE p # c
    BY <1>1, <2>1 DEF CallersFit, Callers
  <2> QED BY <2>1
<1> QED BY <1>1, <1>2, <1>3 DEF CallersFit

\* Somebody else's write only moves an object on.
LEMMA ForeignFits ==
  ASSUME EditInv, NEW s \in Scopes, NEW fresh \in BOOLEAN, ForeignWrite(s, fresh)
  PROVE  obj' \in [Scopes -> Objects] /\ Grows(obj, obj')
<1>1. obj \in [Scopes -> Objects] /\ obj[s] \in Objects
  BY Zenon DEF EditInv
<1>2. PICK o \in Objects : obj' = [obj EXCEPT ![s] = o] /\ o.rv = obj[s].rv + 1
  <2> DEFINE o == [uid |-> IF fresh THEN obj[s].uid + 1 ELSE obj[s].uid, rv |-> obj[s].rv + 1, body |-> 9]
  <2>1. obj' = [obj EXCEPT ![s] = o]
    BY Zenon DEF ForeignWrite
  <2>2. o \in Objects /\ o.rv = obj[s].rv + 1
    BY <1>1 DEF Objects
  <2> HIDE DEF o
  <2> QED BY <2>1, <2>2, Zenon
<1> QED BY <1>1, <1>2 DEF Grows, Objects

\* An update moves its object on.
LEMMA UpdatedFits ==
  ASSUME obj \in [Scopes -> Objects], NEW s \in Scopes, NEW m \in Edited
  PROVE  Updated(s, m) \in Objects /\ Updated(s, m).rv = obj[s].rv + 1
<1>1. obj[s] \in Objects
  BY Zenon
<1> QED BY <1>1 DEF Updated, Objects, Edited

Answer(op, ok) ==
  IF ~ok THEN Failure
  ELSE [ok |-> TRUE, obj |-> IF op.verb = "update" THEN Updated(op.scope, op.m) ELSE obj[op.scope]]

\* A delivered result is one of the version the preview needs.
LEMMA DeliveredFits ==
  ASSUME EditInv, NEW op \in ops, op.c \in Requests, NEW ok \in BOOLEAN,
         ok /\ op.verb = "dryrun" => Accepts(op.scope, op.m),
         call[op.c].st = "select", call[op.c].verb = op.verb, NEW k2,
         k2 = [call[op.c] EXCEPT !.res = Answer(op, ok)]
  PROVE  RequestFits(k2, req[op.c], obj, reviewed)
<1> DEFINE q == req[op.c]
           k == call[op.c]
           res == Answer(op, ok)
<1>1. CallersFit /\ obj \in [Scopes -> Objects] /\ op.c \in Callers
  BY Zenon DEF EditInv, Callers
<1>2. k \in Calls /\ RequestFits(k, q, obj, reviewed)
  BY <1>1, InCall, Zenon DEF CallersFit
<1>3. k # Idle /\ k \notin EndedCalls
  BY <1>2 DEF Calls, EndedCalls, Idle
<1>4. q \in Served /\ CallFits(k, q) /\ ApplyFits(q, reviewed) /\ PreviewFits(k, q, obj) /\ q.pc \in Waiting
  BY <1>2, <1>3, Zenon DEF RequestFits, CallFits
<1>5. op \in Operations /\ op.m = q.m /\ op.scope = q.scope
  BY <1>1, <1>4, Zenon DEF CallersFit, OperationFits, ArgsFit, Waiting, Stages
<1>6. op.scope \in Scopes /\ op.m \in Edited /\ obj[op.scope] \in Objects
  BY <1>1, <1>5, Zenon DEF Operations
<1>7. res \in Results /\ (res.ok => ok) /\ (res.ok /\ op.verb # "update" => res.obj = obj[op.scope])
  BY <1>1, <1>6, UpdatedFits DEF Answer, Failure, NoObject, Results, Objects
<1> HIDE DEF res
<1>8. /\ k2 \in Calls /\ k2.res = res /\ k2.verb = k.verb /\ k2.scope = k.scope /\ k2.m = k.m
      /\ k2.tok = k.tok
  BY <1>2, <1>7, Zenon DEF Calls, res
<1>9. CallFits(k2, q)
  BY <1>3, <1>4, <1>8, Zenon DEF CallFits, Asked
<1>10. ASSUME q.kind = "preview" PROVE PreviewFits(k2, q, obj)
  <2>1. q.m.rv \in Nat /\ q.cur.rv \in Nat /\ obj[q.scope].rv \in Nat
    BY <1>4, <1>5, <1>6, Zenon DEF Served, Objects, Edited
  <2>2. q.m.rv <= obj[q.scope].rv
    BY <1>4, <1>10, Zenon DEF PreviewFits
  <2>3. ASSUME q.pc = "get", res.ok PROVE q.m.rv <= res.obj.rv /\ Seen(q.scope, res.obj, obj)
    <3>1. op.verb = "get"
      BY <1>3, <1>4, <2>3, Zenon DEF CallFits, Asked, Waiting
    <3>2. res.obj = obj[q.scope]
      BY <1>5, <1>7, <2>3, <3>1, Zenon
    <3> QED BY <2>1, <2>2, <3>2 DEF Seen
  <2>4. ASSUME q.pc = "dryrun"
        PROVE  /\ q.m.rv # 0 /\ q.m.rv <= q.cur.rv /\ Seen(q.scope, q.cur, obj)
               /\ res.ok => q.cur.rv = q.m.rv
    <3>1. op.verb = "dryrun"
      BY <1>3, <1>4, <2>4, Zenon DEF CallFits, Asked, Waiting
    <3>2. q.m.rv # 0 /\ q.m.rv <= q.cur.rv /\ Seen(q.scope, q.cur, obj)
      BY <1>4, <1>10, <2>4, Zenon DEF PreviewFits
    <3>3. res.ok => q.m.rv = obj[q.scope].rv
      BY <1>5, <1>7, <3>1, <3>2, Zenon DEF Accepts
    <3> QED BY <2>1, <3>2, <3>3 DEF Seen
  <2> QED BY <1>8, <2>2, <2>3, <2>4, Zenon DEF PreviewFits
<1> QED BY <1>4, <1>9, <1>10, Zenon DEF RequestFits, PreviewFits

\* An update replaces the object its preview was compared with.
LEMMA UpdateIsReviewed ==
  ASSUME EditInv, NEW op \in ops, op.verb = "update", Accepts(op.scope, op.m), NEW w,
         w = [tok |-> op.tok, scope |-> op.scope, m |-> op.m, over |-> obj[op.scope]]
  PROVE  WriteFits(w, reviewed)
<1> USE Zenon
<1>1. Spent(op.tok, op.scope, op.m, reviewed)
  BY DEF EditInv, CallersFit, OperationFits
<1>2. PICK p \in reviewed : /\ p.tok = op.tok /\ p.scope = op.scope /\ p.m = op.m
                            /\ p.used \in p.at .. (p.at + PreviewLifetime - 1)
  BY <1>1 DEF Spent
<1>3. p.m.rv # 0 /\ p.saw.rv = p.m.rv /\ Seen(p.scope, p.saw, obj)
  BY DEF EditInv, ReviewsOK, ReviewFits
<1>4. op.m.rv \in {0, obj[op.scope].rv}
  BY DEF Accepts
<1>5. p.saw = obj[op.scope]
  BY <1>2, <1>3, <1>4 DEF Seen
<1> QED BY <1>2, <1>5 DEF WriteFits

\* Objects may move on under everything that is known of them.
LEMMA ObjectStep ==
  ASSUME EditInv, obj' \in [Scopes -> Objects], Grows(obj, obj'), UNCHANGED <<reviewed, now, grants>>,
         workload' \in Environments, CallersFit', \A w \in writes' : WriteFits(w, reviewed)
  PROVE  EditInv'
<1> USE Zenon
<1>1. ASSUME NEW p \in reviewed PROVE ReviewFits(p, obj', now', Cardinality(reviewed'))
  <2>1. ReviewFits(p, obj, now, Cardinality(reviewed)) /\ obj \in [Scopes -> Objects]
    BY DEF EditInv, ReviewsOK
  <2>2. p.scope \in Scopes /\ p.saw \in Objects
    BY <2>1 DEF ReviewFits, Reviews
  <2>3. Seen(p.scope, p.saw, obj')
    BY <2>1, <2>2, SeenKept DEF ReviewFits
  <2> QED BY <2>1, <2>3 DEF ReviewFits
<1>2. ReviewsOK'
  BY <1>1 DEF EditInv, ReviewsOK
<1>3. GrantsOK'
  BY DEF EditInv, GrantsOK
<1> QED BY <1>2, <1>3 DEF EditInv

\* An operation takes effect.
LEMMA PerformFits ==
  ASSUME EditInv, UNCHANGED appVars, NEW op \in ops, NEW answers \in BOOLEAN, Perform(op, answers)
  PROVE  EditInv'
<1>1. CallersFit /\ obj \in [Scopes -> Objects] /\ UNCHANGED <<reviewed, req, now, grants, workload>>
  BY Zenon DEF EditInv, appVars
<1>2. OperationFits(op, req, reviewed) /\ op \in Operations /\ op.scope \in Scopes /\ op.m \in Edited
      /\ op.c \in Callers
  BY <1>1, Zenon DEF CallersFit, OperationFits, Operations
<1>3. PICK ok \in BOOLEAN : ok = (answers /\ (op.verb \in {"dryrun", "update"} => Accepts(op.scope, op.m)))
  BY Zenon
<1>4. /\ call' = IF call[op.c].st = "select" /\ call[op.c].verb = op.verb
                 THEN [call EXCEPT ![op.c].res = Answer(op, ok)] ELSE call
      /\ ops' = (ops \ {op}) \union {[op EXCEPT !.st = "sent"]}
      /\ IF ok /\ op.verb = "update"
         THEN /\ obj' = [obj EXCEPT ![op.scope] = Updated(op.scope, op.m)]
              /\ writes' = writes \union {[tok |-> op.tok, scope |-> op.scope, m |-> op.m, over |-> obj[op.scope]]}
         ELSE obj' = obj /\ writes' = writes
  BY <1>3, Zenon DEF Perform, Answer
<1>5. obj' \in [Scopes -> Objects] /\ Grows(obj, obj')
  <2>1. CASE ok /\ op.verb = "update"
    <3>1. Updated(op.scope, op.m) \in Objects /\ Updated(op.scope, op.m).rv = obj[op.scope].rv + 1
      BY <1>1, <1>2, UpdatedFits, Zenon
    <3>2. obj[op.scope].rv \in Nat
      BY <1>1, <1>2, Zenon DEF Objects
    <3> QED BY <1>1, <1>2, <1>4, <2>1, <3>1, <3>2 DEF Grows
  <2>2. CASE ~(ok /\ op.verb = "update")
    BY <1>1, <1>4, <2>2, Zenon DEF Grows
  <2> QED BY <2>1, <2>2, Zenon
<1>6. \A w \in writes' : WriteFits(w, reviewed)
  <2> USE Zenon
  <2>1. \A w \in writes : WriteFits(w, reviewed)
    BY DEF EditInv
  <2>2. CASE ok /\ op.verb = "update"
    BY <1>3, <1>4, <2>1, <2>2, UpdateIsReviewed
  <2>3. CASE ~(ok /\ op.verb = "update")
    BY <1>4, <2>1, <2>3
  <2> QED BY <2>2, <2>3
<1>7. \A o \in ops' : OperationFits(o, req, reviewed)
  <2> USE Zenon
  <2> DEFINE sent == [op EXCEPT !.st = "sent"]
  <2>1. /\ sent \in Operations /\ sent.c = op.c /\ sent.verb = op.verb /\ sent.m = op.m /\ sent.tok = op.tok
        /\ sent.scope = op.scope
    BY <1>2 DEF Operations
  <2>2. OperationFits(sent, req, reviewed)
    BY <1>2, <2>1 DEF OperationFits, ArgsFit
  <2> QED BY <1>1, <1>4, <2>2 DEF CallersFit
<1>8. /\ call' = [x \in Callers |-> call'[x]] /\ \A x \in Callers \ {op.c} : call'[x] = call[x]
      /\ IF call[op.c].st = "select" /\ call[op.c].verb = op.verb
         THEN call'[op.c] = [call[op.c] EXCEPT !.res = Answer(op, ok)] ELSE call'[op.c] = call[op.c]
  BY <1>1, <1>2, <1>4, Zenon DEF CallersFit
<1>9. ASSUME op.c \in Requests PROVE RequestFits(call'[op.c], req[op.c], obj', reviewed)
  <2>1. RequestFits(call'[op.c], req[op.c], obj, reviewed)
    <3> USE Zenon
    <3>1. CASE call[op.c].st = "select" /\ call[op.c].verb = op.verb
      BY <1>3, <1>8, <1>9, <3>1, DeliveredFits
    <3>2. CASE ~(call[op.c].st = "select" /\ call[op.c].verb = op.verb)
      BY <1>1, <1>8, <1>9, <3>2 DEF CallersFit
    <3> QED BY <3>1, <3>2
  <2> QED BY <1>1, <1>5, <2>1, RequestKept DEF KeepsSpent
<1>10. ASSUME op.c \in Probes PROVE ProbeFits(call'[op.c])
  <2>1. ProbeFits(call[op.c])
    BY <1>1, <1>10, Zenon DEF CallersFit
  <2>2. CASE call[op.c].st = "select" /\ call[op.c].verb = op.verb
    <3>1. call[op.c] \in Calls
      BY <1>1, <1>2, <2>2, InCall, Zenon
    <3>2. Answer(op, ok) \in Results
      BY <1>1, <1>2, UpdatedFits DEF Answer, Failure, NoObject, Results, Objects
    <3>3. call'[op.c] \in Calls /\ call'[op.c].verb = call[op.c].verb
      BY <1>8, <2>2, <3>1, <3>2, Zenon DEF Calls
    <3>4. call[op.c] # Idle /\ call[op.c] \notin EndedCalls
      BY <3>1 DEF Calls, Idle, EndedCalls
    <3> QED BY <2>1, <3>3, <3>4, Zenon DEF ProbeFits
  <2> QED BY <1>8, <2>1, <2>2, Zenon
<1>11. CallersFit'
  BY <1>1, <1>2, <1>5, <1>7, <1>8, <1>9, <1>10, ServerMoves, Zenon
<1> QED BY <1>1, <1>5, <1>6, <1>11, ObjectStep, Zenon DEF EditInv

(***************************************************************************)
(* The handlers                                                            *)
(***************************************************************************)

\* The record of a request that goes on with the same arguments.
Follows(q, q2) ==
  /\ q \in Served /\ q2 \in Served /\ q2.m = q.m /\ q2.scope = q.scope /\ q2.tok = q.tok
  /\ q.pc \in Active /\ q2.pc # "consume" /\ (q.pc = "consume" => q2.pc = "leaving")
  /\ q2.kind = q.kind \/ (q.kind = "describe" /\ q2.kind = "described")

\* It reaches a stage in which it has no call.
LEMMA GoesQuiet ==
  ASSUME EditInv, UNCHANGED <<obj, reviewed, ops>>, NEW r \in Requests, NEW q2, Moves(r, q2, Idle),
         Follows(req[r], q2), q2.pc \notin Waiting
  PROVE  CallersFit'
<1> DEFINE q == req[r]
<1>1. CallersFit /\ obj \in [Scopes -> Objects] /\ RequestFits(call[r], q, obj, reviewed)
      /\ KeepsSpent(reviewed, reviewed)
  BY Zenon DEF EditInv, CallersFit, KeepsSpent
<1>2. q \in Served /\ q.pc \in Active /\ q2 \in Served
  BY Zenon DEF Follows
<1>3. ApplyFits(q, reviewed) /\ PreviewFits(call[r], q, obj)
  BY <1>1, <1>2 DEF RequestFits, Deleting, Active, Stages, Waiting
<1>4. ApplyFits(q2, reviewed)
  BY <1>3, Zenon DEF ApplyFits, Follows, Active, Waiting
<1>5. PreviewFits(Idle, q2, obj)
  BY <1>3, Zenon DEF PreviewFits, Follows, Waiting
<1>6. RequestFits(Idle, q2, obj, reviewed)
  BY <1>2, <1>4, <1>5, Zenon DEF RequestFits, CallFits, Waiting
<1>7. SameArgs(q, q2)
  BY <1>2, Zenon DEF Follows, SameArgs, Served, Active, Stages, Waiting
<1> QED BY <1>1, <1>6, <1>7, HandlerReviews, Zenon

\* Or it starts a call with its own arguments.
LEMMA GoesCalling ==
  ASSUME EditInv, UNCHANGED <<obj, reviewed, ops>>, NEW r \in Requests, NEW q2, NEW verb \in Verbs,
         Moves(r, q2, Calling(req[r].app, req[r].scope, verb, req[r].m, req[r].tok)),
         Follows(req[r], q2), q2.pc \in Waiting, verb = IF q2.pc = "probing" THEN "probe" ELSE q2.pc,
         q2.pc = "update" => q2.kind = "apply",
         q2.pc = "dryrun" /\ q2.kind = "preview" =>
           q2.m.rv # 0 /\ q2.m.rv <= q2.cur.rv /\ Seen(q2.scope, q2.cur, obj)
  PROVE  CallersFit'
<1> DEFINE q == req[r]
           k2 == Calling(q.app, q.scope, verb, q.m, q.tok)
<1>1. CallersFit /\ obj \in [Scopes -> Objects] /\ RequestFits(call[r], q, obj, reviewed)
      /\ KeepsSpent(reviewed, reviewed)
  BY Zenon DEF EditInv, CallersFit, KeepsSpent
<1>2. q \in Served /\ q.pc \in Active /\ q2 \in Served
  BY Zenon DEF Follows
<1>3. ApplyFits(q, reviewed) /\ PreviewFits(call[r], q, obj)
  BY <1>1, <1>2 DEF RequestFits, Deleting, Active, Stages, Waiting
<1>4. ApplyFits(q2, reviewed)
  BY <1>3, Zenon DEF ApplyFits, Follows, Active, Waiting
<1>5. /\ k2 \in Calls /\ k2.verb = verb /\ k2.scope = q.scope /\ k2.m = q.m /\ k2.tok = q.tok
      /\ k2.res.ok = FALSE
  BY <1>2 DEF Calling, Calls, Served, Pending, NoObject, Results, Objects
<1> HIDE DEF k2
<1>6. CallFits(k2, q2)
  BY <1>5, Zenon DEF CallFits, Asked, Follows
<1>7. PreviewFits(k2, q2, obj)
  BY <1>3, <1>5, Zenon DEF PreviewFits, Follows
<1>8. RequestFits(k2, q2, obj, reviewed)
  BY <1>2, <1>4, <1>6, <1>7, Zenon DEF RequestFits
<1>9. SameArgs(q, q2)
  BY <1>2, Zenon DEF Follows, SameArgs, Served, Active, Stages, Waiting
<1>10. Moves(r, q2, k2)
  BY Zenon DEF k2
<1> QED BY <1>1, <1>8, <1>9, <1>10, HandlerReviews, Zenon

\* A new stage of a served request.
LEMMA NextStage ==
  ASSUME NEW q \in Served, q.pc \in Active, q.pc # "consume", NEW pc \in Stages \ {"consume"}
  PROVE  LET q2 == [q EXCEPT !.pc = pc] IN Follows(q, q2) /\ q2.pc = pc /\ q2.kind = q.kind /\ q2.cur = q.cur
BY Zenon DEF Follows, Served

\* A request in an active stage has a whole record, and a call only where it waits for one.
LEMMA ActiveIsServed ==
  ASSUME EditInv, NEW r \in Requests, req[r].pc \in Active
  PROVE  /\ req[r] \in Served /\ CallFits(call[r], req[r]) /\ ApplyFits(req[r], reviewed)
         /\ PreviewFits(call[r], req[r], obj)
         /\ req[r].pc \notin Waiting => call[r] = Idle
<1>1. RequestFits(call[r], req[r], obj, reviewed)
  BY Zenon DEF EditInv, CallersFit
<1> QED BY <1>1 DEF RequestFits, Deleting, Active, Stages, Waiting, CallFits

\* Where a handler may go: to a stage without a call, or into a call.
Rests(r, pc) == req' = [req EXCEPT ![r].pc = pc] /\ call' = [call EXCEPT ![r] = Idle]
Asks(r, verb, pc) == Call(r, verb) /\ Goto(r, pc)

\* The first is sound from every active stage but "consume".
LEMMA RestFits ==
  ASSUME EditInv, UNCHANGED <<obj, reviewed, ops>>, NEW r \in Requests, req[r].pc \in Active \ {"consume"},
         NEW pc \in Stages \ (Waiting \union {"consume"}), Rests(r, pc)
  PROVE  CallersFit'
<1> USE Zenon
<1>1. req[r] \in Served
  BY ActiveIsServed
<1> DEFINE q2 == [req[r] EXCEPT !.pc = pc]
<1>2. Follows(req[r], q2) /\ q2.pc = pc
  BY <1>1, NextStage
<1>3. Moves(r, q2, Idle)
  BY DEF Moves, Rests
<1> HIDE DEF q2
<1> QED BY <1>2, <1>3, GoesQuiet

\* The second if it is no dry run of a preview.
LEMMA AskFits ==
  ASSUME EditInv, UNCHANGED <<obj, reviewed, ops>>, NEW r \in Requests, req[r].pc \in Active \ {"consume"},
         NEW verb \in Verbs, NEW pc \in Waiting, verb = IF pc = "probing" THEN "probe" ELSE pc,
         pc = "update" => req[r].kind = "apply", pc # "dryrun", Asks(r, verb, pc)
  PROVE  CallersFit'
<1> USE Zenon
<1>1. req[r] \in Served
  BY ActiveIsServed
<1> DEFINE q2 == [req[r] EXCEPT !.pc = pc]
<1>2. Follows(req[r], q2) /\ q2.pc = pc /\ q2.kind = req[r].kind
  BY <1>1, NextStage DEF Stages, Waiting
<1>3. Moves(r, q2, Calling(req[r].app, req[r].scope, verb, req[r].m, req[r].tok))
  BY DEF Moves, Asks, Call, Goto
<1> HIDE DEF q2
<1> QED BY <1>2, <1>3, GoesCalling

\* A handler without a call keeps none.
LEMMA StillRests ==
  ASSUME EditInv, NEW r \in Requests, req[r].pc \in Active \ Waiting, NEW pc, Goto(r, pc), UNCHANGED call
  PROVE  Rests(r, pc)
<1> USE Zenon
<1>1. call[r] = Idle /\ call = [c \in Callers |-> call[c]] /\ r \in Callers
  BY ActiveIsServed DEF EditInv, CallersFit, Callers
<1>2. call = [call EXCEPT ![r] = Idle]
  BY <1>1
<1> QED BY <1>2 DEF Rests, Goto

\* localTargetState and what follows it.
LEMMA LookupFits ==
  ASSUME EditInv, NEW r \in Requests, Lookup(r) PROVE CallersFit'
<1> USE Zenon
<1> DEFINE q == req[r]
<1>1. UNCHANGED <<obj, reviewed, ops>> /\ q.pc \in {"lookup", "probing", "client"}
  BY DEF Lookup
<1>2. q.pc \in Active \ {"consume"}
  BY <1>1 DEF Active, Stages, Waiting
<1>3. q \in Served
  BY <1>2, ActiveIsServed
<1>4. CASE \/ q.pc = "lookup" /\ Asks(r, "probe", "probing")
           \/ q.pc = "client" /\ Asks(r, "get", "get")
  BY <1>1, <1>2, <1>4, AskFits DEF Verbs, Waiting
<1>5. CASE q.pc \in {"lookup", "client"} /\ UNCHANGED call /\ \E pc \in {"client", "resolve", "unreserve", "leaving"} : Goto(r, pc)
  <2>1. PICK pc \in {"client", "resolve", "unreserve", "leaving"} : Goto(r, pc)
    BY <1>5
  <2>2. q.pc \in Active \ Waiting
    BY <1>5 DEF Active, Stages, Waiting
  <2>3. Rests(r, pc)
    BY <1>5, <2>1, <2>2, StillRests
  <2>4. pc \in Stages \ (Waiting \union {"consume"})
    BY DEF Stages, Waiting
  <2> QED BY <1>1, <1>2, <2>3, <2>4, RestFits
<1>6. CASE q.pc = "probing" /\ NoCall(r) /\ Goto(r, "client")
  <2>1. Rests(r, "client") /\ "client" \in Stages \ (Waiting \union {"consume"})
    BY <1>6 DEF Rests, NoCall, Goto, Stages, Waiting
  <2> QED BY <1>1, <1>2, <2>1, RestFits
<1>7. CASE /\ q.pc = "client" /\ q.kind = "describe" /\ UNCHANGED call
           /\ req' = [req EXCEPT ![r].pc = "lookup", ![r].kind = "described"]
  <2> DEFINE q2 == [[q EXCEPT !.pc = "lookup"] EXCEPT !.kind = "described"]
  <2>1. /\ q2 \in Served /\ q2.pc = "lookup" /\ q2.kind = "described" /\ q2.m = q.m /\ q2.scope = q.scope
        /\ q2.tok = q.tok
    BY <1>3 DEF Served, Stages, Kinds
  <2>2. req' = [req EXCEPT ![r] = q2]
    BY <1>7 DEF EditInv, CallersFit
  <2>3. call' = [call EXCEPT ![r] = Idle]
    <3>1. call[r] = Idle /\ call = [c \in Callers |-> call[c]]
      BY <1>2, <1>7, ActiveIsServed DEF EditInv, CallersFit, Waiting
    <3> QED BY <1>7, <3>1
  <2> HIDE DEF q2
  <2>4. Follows(q, q2) /\ q2.pc \notin Waiting
    BY <1>2, <1>3, <1>7, <2>1 DEF Follows, Waiting
  <2>5. Moves(r, q2, Idle)
    BY <2>2, <2>3 DEF Moves
  <2> QED BY <1>1, <2>4, <2>5, GoesQuiet
<1>8. Fail(r) => \E pc \in {"client", "resolve", "unreserve", "leaving"} : Goto(r, pc)
  BY DEF Fail
<1> QED BY <1>4, <1>5, <1>6, <1>7, <1>8 DEF Lookup, Asks

\* The read, the events, the dry run and the update.
LEMMA OperateFits ==
  ASSUME EditInv, NEW r \in Requests, Operate(r) PROVE CallersFit'
<1> USE Zenon
<1> DEFINE q == req[r]
           res == call[r].res
<1>1. UNCHANGED <<obj, reviewed, ops>> /\ q.pc \in {"get", "events", "dryrun", "update"} /\ call[r].st = "ended"
  BY DEF Operate
<1>2. q.pc \in Active \ {"consume"}
  BY <1>1 DEF Active, Stages, Waiting
<1>3. q \in Served /\ CallFits(call[r], q) /\ PreviewFits(call[r], q, obj)
  BY <1>2, ActiveIsServed
<1>4. CASE NoCall(r) /\ Goto(r, "leaving")
  <2>1. Rests(r, "leaving") /\ "leaving" \in Stages \ (Waiting \union {"consume"})
    BY <1>4 DEF Rests, NoCall, Goto, Stages, Waiting
  <2> QED BY <1>1, <1>2, <2>1, RestFits
<1>5. CASE Asks(r, "events", "events") \/ (q.kind = "apply" /\ Asks(r, "update", "update"))
  BY <1>1, <1>2, <1>5, AskFits DEF Verbs, Waiting
<1>6. CASE /\ res.ok /\ q.pc = "get" /\ Decodes(q.m, res.obj) /\ Call(r, "dryrun")
           /\ req' = [req EXCEPT ![r].pc = "dryrun", ![r].cur = res.obj]
  <2>1. res.obj \in Objects
    BY <1>3, <1>6 DEF CallFits, Asked, Waiting, Calls, EndedCalls, Results
  <2> DEFINE q2 == [[q EXCEPT !.pc = "dryrun"] EXCEPT !.cur = res.obj]
  <2>2. /\ q2 \in Served /\ q2.pc = "dryrun" /\ q2.kind = q.kind /\ q2.m = q.m /\ q2.scope = q.scope
        /\ q2.tok = q.tok /\ q2.cur = res.obj
    BY <1>3, <2>1 DEF Served, Stages, Waiting
  <2>3. req' = [req EXCEPT ![r] = q2]
    BY <1>6 DEF EditInv, CallersFit
  <2> HIDE DEF q2
  <2>4. Follows(q, q2)
    BY <1>1, <1>2, <1>3, <2>2 DEF Follows
  <2>5. Moves(r, q2, Calling(q.app, q.scope, "dryrun", q.m, q.tok))
    BY <1>6, <2>3 DEF Moves, Call
  <2>6. q2.kind = "preview" => q2.m.rv # 0 /\ q2.m.rv <= q2.cur.rv /\ Seen(q2.scope, q2.cur, obj)
    BY <1>3, <1>6, <2>2 DEF PreviewFits, Decodes
  <2> QED BY <1>1, <2>2, <2>4, <2>5, <2>6, GoesCalling DEF Verbs, Waiting
<1> QED BY <1>4, <1>5, <1>6 DEF Operate, Asks

\* The tunnel's handlers have no call.
LEMMA StartForwardFits ==
  ASSUME EditInv, NEW r \in Requests, StartForward(r) PROVE CallersFit'
<1> USE Zenon
<1>1. /\ UNCHANGED <<obj, reviewed, ops, call>> /\ req[r].pc \in {"reserve", "resolve", "await", "unreserve"}
      /\ \E pc \in {"lookup", "leaving", "unreserve", "await"} : Goto(r, pc)
  BY DEF StartForward, Fail, adapterVars
<1>2. PICK pc \in {"lookup", "leaving", "unreserve", "await"} : Goto(r, pc)
  BY <1>1
<1>3. /\ req[r].pc \in Active \ Waiting /\ req[r].pc \in Active \ {"consume"}
      /\ pc \in Stages \ (Waiting \union {"consume"})
  BY <1>1 DEF Active, Stages, Waiting
<1>4. Rests(r, pc)
  BY <1>1, <1>2, <1>3, StillRests
<1> QED BY <1>1, <1>3, <1>4, RestFits

\* A request that only leaves, or stops another's tunnel, has no edit to account for.
LEMMA DoneFits ==
  ASSUME EditInv, UNCHANGED <<obj, reviewed, ops, call>>, NEW r \in Requests, call[r] = Idle, req[r].pc # "new",
         NEW q2 \in Deleting \union {[pc |-> "gone"]}, req' = [req EXCEPT ![r] = q2]
  PROVE  CallersFit'
<1>1. CallersFit /\ obj \in [Scopes -> Objects] /\ KeepsSpent(reviewed, reviewed')
  BY Zenon DEF EditInv, KeepsSpent
<1>2. Moves(r, q2, Idle)
  BY <1>1, Zenon DEF Moves, CallersFit
<1>3. RequestFits(Idle, q2, obj, reviewed')
  BY Zenon DEF RequestFits
<1>4. SameArgs(req[r], q2)
  BY DEF SameArgs, Deleting, Active, Stages, Waiting
<1> QED BY <1>1, <1>2, <1>3, <1>4, HandlerReviews, Zenon

\* A request outside the active stages has no call.
LEMMA OthersRest ==
  ASSUME EditInv, NEW r \in Requests, req[r].pc \in {"stop", "free", "leaving"}
  PROVE  call[r] = Idle /\ (req[r].pc # "leaving" => req[r] \in Deleting)
<1>1. RequestFits(call[r], req[r], obj, reviewed)
  BY Zenon DEF EditInv, CallersFit
<1> QED BY <1>1 DEF RequestFits, CallFits, Served, Stages, Waiting

\* handleDeleteForward.
LEMMA DeleteForwardFits ==
  ASSUME EditInv, NEW r \in Requests, NEW f \in Requests, DeleteForward(r, f) PROVE CallersFit'
<1> USE Zenon
<1> DEFINE q == req[r]
<1>1. UNCHANGED <<obj, reviewed, ops, call>>
  BY DEF DeleteForward, adapterVars
<1>2. CASE q.pc = "delete"
  <2>1. q.pc \in Active \ Waiting /\ q.pc \in Active \ {"consume"}
    BY <1>2 DEF Active, Stages, Waiting
  <2>2. q \in Served /\ call[r] = Idle
    BY <2>1, ActiveIsServed
  <2>3. CASE Goto(r, "leaving")
    <3>1. Rests(r, "leaving") /\ "leaving" \in Stages \ (Waiting \union {"consume"})
      BY <1>1, <2>1, <2>3, StillRests DEF Stages, Waiting
    <3> QED BY <1>1, <2>1, <3>1, RestFits
  <2>4. CASE req' = [req EXCEPT ![r] = [pc |-> "stop", app |-> q.app, of |-> f]]
    <3>1. [pc |-> "stop", app |-> q.app, of |-> f] \in Deleting
      BY <2>2 DEF Served, Deleting
    <3> QED BY <1>1, <1>2, <2>2, <2>4, <3>1, DoneFits
  <2> QED BY <1>2, <2>3, <2>4 DEF DeleteForward
<1>3. CASE q.pc \in {"stop", "free"}
  <2>1. PICK pc \in {"free", "leaving"} : Goto(r, pc)
    BY <1>3 DEF DeleteForward
  <2>2. call[r] = Idle /\ q \in Deleting
    BY <1>3, OthersRest
  <2>3. [q EXCEPT !.pc = pc] \in Deleting
    BY <2>2 DEF Deleting
  <2>4. req' = [req EXCEPT ![r] = [q EXCEPT !.pc = pc]]
    BY <2>1 DEF Goto
  <2> QED BY <1>1, <1>3, <2>2, <2>3, <2>4, DoneFits
<1> QED BY <1>2, <1>3 DEF DeleteForward

\* The end of a request.
LEMMA LeaveFits ==
  ASSUME EditInv, NEW r \in Requests, Leave(r) PROVE CallersFit'
<1> USE Zenon
<1>1. UNCHANGED <<obj, reviewed, ops, call>> /\ req[r].pc = "leaving" /\ req' = [req EXCEPT ![r] = [pc |-> "gone"]]
  BY DEF Leave, adapterVars
<1>2. call[r] = Idle
  BY <1>1, OthersRest
<1> QED BY <1>1, <1>2, DoneFits

\* What a user may send is a manifest, of a version that the object has had.
LEMMA ManifestsFit ==
  ASSUME obj \in [Scopes -> Objects], NEW s \in Scopes, NEW m \in Manifests(s)
  PROVE  m \in Edited /\ m.rv <= obj[s].rv
<1>1. obj[s].rv \in Nat /\ obj[s].uid \in Int
  BY Zenon DEF Objects
<1> QED BY <1>1 DEF Manifests, Edited

\* A request arrives: nothing is under way for it.
LEMMA ArriveFits ==
  ASSUME Counting, LeaseInv, EditInv, NEW r \in Requests, Arrivals(r) PROVE CallersFit'
<1>1. PICK kind \in workload.kinds[r], scope \in workload.scopes :
        \E m \in {NoManifest} \union Manifests(scope) \union {p.m : p \in reviewed},
           tok \in IF kind = "apply" THEN 0 .. Cardinality(reviewed) ELSE {0} : Arrive(r, kind, scope, m, tok)
  BY Zenon DEF Arrivals
<1>2. PICK m \in {NoManifest} \union Manifests(scope) \union {p.m : p \in reviewed},
           tok \in IF kind = "apply" THEN 0 .. Cardinality(reviewed) ELSE {0} : Arrive(r, kind, scope, m, tok)
  BY <1>1, Zenon
<1>3. /\ CallersFit /\ obj \in [Scopes -> Objects] /\ scope \in Scopes /\ tok \in Nat
      /\ kind \in {"view", "describe", "preview", "apply", "forward", "delete"}
  <2>1. workload \in Environments
    BY Zenon DEF EditInv
  <2>2. workload.kinds[r] \subseteq DOMAIN FirstStep /\ workload.scopes \subseteq Scopes
    BY <2>1, Zenon DEF Environments
  <2>3. Cardinality(reviewed) \in Nat
    BY Zenon DEF EditInv, ReviewsOK, Counting, CountsAreNatural
  <2> QED BY <1>2, <2>2, <2>3 DEF EditInv, FirstStep
<1>4. m \in Edited
  <2>1. CASE m = NoManifest
    BY <2>1 DEF NoManifest, Edited
  <2>2. CASE m \in Manifests(scope)
    BY <1>3, <2>2, ManifestsFit, Zenon
  <2>3. CASE m \in {p.m : p \in reviewed}
    BY <2>3, Zenon DEF EditInv, ReviewsOK, ReviewFits, Reviews
  <2> QED BY <2>1, <2>2, <2>3, Zenon
<1>5. UNCHANGED <<obj, reviewed, ops, call>> /\ req[r].pc = "new"
  BY <1>2, Zenon DEF Arrive, adapterVars
<1>6. call[r] = Idle /\ \A op \in ops : op.c # r
  <2> USE Zenon
  <2>1. RequestFits(call[r], req[r], obj, reviewed)
    BY <1>3 DEF CallersFit
  <2> QED BY <1>3, <1>5, <2>1 DEF RequestFits, Served, Stages, Waiting, CallersFit, OperationFits, ArgsFit
<1>7. PICK q2 : req' = [req EXCEPT ![r] = q2] /\ RequestFits(Idle, q2, obj, reviewed)
  <2>1. CASE host.current = 0
    <3> USE Zenon
    <3>1. req' = [req EXCEPT ![r] = [pc |-> "gone"]]
      BY <1>2, <2>1 DEF Arrive
    <3> QED BY <3>1 DEF RequestFits
  <2>2. CASE host.current # 0
    <3> DEFINE q2 == [pc |-> FirstStep[kind], kind |-> kind, app |-> host.current, scope |-> scope, m |-> m,
                      tok |-> tok, cur |-> NoObject]
    <3>1. req' = [req EXCEPT ![r] = q2]
      BY <1>2, <2>2, Zenon DEF Arrive
    <3>2. /\ FirstStep[kind] \in {"lookup", "consume", "reserve", "delete"}
          /\ FirstStep[kind] = "consume" <=> kind = "apply"
      BY <1>3 DEF FirstStep
    <3>3. host.current \in Apps /\ NoObject \in Objects
      BY <2>2 DEF LeaseInv, NoObject, Objects
    <3>4. q2 \in Served /\ q2.pc = FirstStep[kind] /\ q2.kind = kind /\ q2.m = m /\ q2.scope = scope
      BY <1>3, <1>4, <3>2, <3>3, Zenon DEF Served, Stages, Kinds
    <3>5. kind = "preview" => m.rv <= obj[scope].rv
      <4> USE Zenon
      <4>1. kind = "preview" => m \in Manifests(scope)
        BY <1>2 DEF Arrive
      <4> QED BY <1>3, <4>1, ManifestsFit
    <3> HIDE DEF q2
    <3>6. CallFits(Idle, q2) /\ ApplyFits(q2, reviewed) /\ PreviewFits(Idle, q2, obj)
      BY <3>2, <3>4, <3>5, Zenon DEF CallFits, ApplyFits, PreviewFits, Waiting
    <3> QED BY <3>1, <3>4, <3>6, Zenon DEF RequestFits
  <2> QED BY <2>1, <2>2, Zenon
<1>8. req' = [x \in Requests |-> req'[x]] /\ \A x \in Requests : req'[x] = IF x = r THEN q2 ELSE req[x]
  BY <1>3, <1>7, Zenon DEF CallersFit
<1>9. \A x \in Requests : RequestFits(call'[x], req'[x], obj', reviewed')
  BY <1>3, <1>5, <1>6, <1>7, <1>8, Zenon DEF CallersFit
<1>10. \A op \in ops : OperationFits(op, req', reviewed')
  BY <1>3, <1>5, <1>6, <1>8, Zenon DEF CallersFit, OperationFits
<1> QED BY <1>3, <1>5, <1>8, <1>9, <1>10, Zenon DEF CallersFit

(***************************************************************************)
(* Issuing and spending a preview                                          *)
(***************************************************************************)

\* A step that changes the reviews keeps the spent ones, and with them the account of the writes.
LEMMA ReviewStep ==
  ASSUME EditInv, UNCHANGED <<obj, writes, now, workload>>, ReviewsOK', GrantsOK',
         KeepsSpent(reviewed, reviewed'), CallersFit'
  PROVE  EditInv'
<1> USE Zenon
<1>1. \A w \in writes : WriteFits(w, reviewed')
  BY DEF EditInv, WriteFits, KeepsSpent
<1> QED BY <1>1 DEF EditInv

\* Every grant carries the token of some preview.
LEMMA GrantTokens ==
  ASSUME EditInv, NEW a \in Apps, NEW g \in grants[a]
  PROVE  g \in Grants /\ GrantFits(g, reviewed) /\ g.tok \in 1 .. Cardinality(reviewed)
<1> USE Zenon
<1>1. g \in Grants /\ GrantFits(g, reviewed)
  BY DEF EditInv, GrantsOK
<1>2. PICK p \in reviewed : p.tok = g.tok
  BY <1>1 DEF GrantFits
<1> QED BY <1>1, <1>2 DEF EditInv, ReviewsOK, ReviewFits

\* handleEditPreview after its dry run: the version of the object compared is the manifest's.
LEMMA IssueFits ==
  ASSUME Counting, EditInv, NEW r \in Requests, IssuePreview(r) PROVE EditInv'
<1> DEFINE q == req[r]
           n == Cardinality(reviewed)
           p0 == [tok |-> n + 1, scope |-> q.scope, m |-> q.m, saw |-> q.cur, at |-> now, used |-> -1]
           g0 == [tok |-> n + 1, digest |-> PreviewDigest(q.scope, q.m), expires |-> now + PreviewLifetime]
           gs == Unexpired(grants[q.app]) \union {g0}
<1>1. /\ q.pc = "dryrun" /\ q.kind = "preview" /\ call[r].res.ok
      /\ grants' = [grants EXCEPT ![q.app] = gs] /\ reviewed' = reviewed \union {p0}
      /\ UNCHANGED <<obj, writes, now, workload, ops>> /\ Rests(r, "leaving")
  BY Zenon DEF IssuePreview, Issued, Rests, Goto, NoCall
<1>2. q \in Served /\ PreviewFits(call[r], q, obj) /\ now \in Nat /\ IsFiniteSet(reviewed) /\ n \in Nat
  <2> USE Zenon
  <2>1. q.pc \in Active
    BY <1>1 DEF Active, Stages, Waiting
  <2> QED BY <2>1, ActiveIsServed DEF EditInv, ReviewsOK, Counting, CountsAreNatural
<1>3. /\ p0 \in Reviews /\ p0.tok = n + 1 /\ p0.at = now /\ p0.m = q.m /\ p0.saw = q.cur /\ p0.scope = q.scope
      /\ p0.used = -1
  BY <1>2 DEF Reviews, Served
<1>4. g0 \in Grants /\ g0.tok = n + 1 /\ g0.digest = PreviewDigest(q.scope, q.m) /\ g0.expires = now + PreviewLifetime
  BY <1>2, AppAssumption DEF Grants, Served, PreviewDigest
<1>5. p0.m.rv # 0 /\ p0.saw.rv = p0.m.rv /\ Seen(p0.scope, p0.saw, obj)
  BY <1>1, <1>2, <1>3, Zenon DEF PreviewFits
<1>6. \A p \in reviewed : p.tok \in 1 .. n /\ ReviewFits(p, obj, now, n)
  BY Zenon DEF EditInv, ReviewsOK, ReviewFits
<1> HIDE DEF p0, g0
<1>7. p0 \notin reviewed /\ Cardinality(reviewed') = n + 1 /\ IsFiniteSet(reviewed')
  <2>1. p0 \notin reviewed
    BY <1>2, <1>3, <1>6
  <2> QED BY <1>1, <1>2, <2>1, Zenon DEF Counting, AddingCounts
<1>8. ReviewsOK'
  <2>1. \A p \in reviewed' : ReviewFits(p, obj, now, n + 1)
    <3>1. ReviewFits(p0, obj, now, n + 1)
      BY <1>2, <1>3, <1>5 DEF ReviewFits
    <3>2. \A p \in reviewed : ReviewFits(p, obj, now, n + 1)
      BY <1>2, <1>6 DEF ReviewFits
    <3> QED BY <1>1, <3>1, <3>2, Zenon
  <2>2. \A p1, p2 \in reviewed' : p1.tok = p2.tok => p1 = p2
    <3>1. \A p \in reviewed : p.tok # p0.tok
      BY <1>2, <1>3, <1>6
    <3>2. \A p1, p2 \in reviewed : p1.tok = p2.tok => p1 = p2
      BY Zenon DEF EditInv, ReviewsOK
    <3> QED BY <1>1, <3>1, <3>2, Zenon
  <2> QED BY <1>1, <1>7, <2>1, <2>2, Zenon DEF ReviewsOK
<1>9. GrantsOK'
  <2>1. q.app \in Apps /\ grants \in [Apps -> SUBSET Grants]
    BY <1>2, Zenon DEF Served, EditInv, GrantsOK
  <2>2. \A a \in Apps : grants'[a] = IF a = q.app THEN gs ELSE grants[a]
    BY <1>1, <2>1, Zenon
  <2>3. \A a \in Apps : \A g \in grants'[a] : g \in grants[a] \/ (g = g0 /\ a = q.app)
    BY <2>2, Zenon DEF Unexpired
  <2>4. grants' \in [Apps -> SUBSET Grants]
    BY <1>1, <1>4, <2>1, Zenon DEF Unexpired
  <2>5. \A a \in Apps : \A g \in grants'[a] : GrantFits(g, reviewed')
    <3> USE Zenon
    <3>1. GrantFits(g0, reviewed')
      BY <1>1, <1>3, <1>4 DEF GrantFits
    <3>2. \A a \in Apps : \A g \in grants[a] : GrantFits(g, reviewed')
      BY <1>1, GrantTokens DEF GrantFits
    <3> QED BY <2>3, <3>1, <3>2
  <2>6. \A a \in Apps : \A g \in grants[a] : g.tok # g0.tok
    BY <1>2, <1>4, GrantTokens
  <2>7. \A a, b \in Apps : \A g \in grants[a], h \in grants[b] : g.tok = h.tok => a = b
    BY Zenon DEF EditInv, GrantsOK
  <2> QED BY <2>3, <2>4, <2>5, <2>6, <2>7, Zenon DEF GrantsOK
<1>10. KeepsSpent(reviewed, reviewed')
  BY <1>1, Zenon DEF KeepsSpent
<1>11. CallersFit'
  <2> USE Zenon
  <2> DEFINE q2 == [q EXCEPT !.pc = "leaving"]
  <2>1. q2 \in Served /\ q2.pc = "leaving" /\ q2.kind = "preview" /\ q2.m = q.m /\ q2.scope = q.scope
    BY <1>1, <1>2 DEF Served, Stages
  <2>2. Moves(r, q2, Idle)
    BY <1>1 DEF Moves, Rests
  <2> HIDE DEF q2
  <2>3. RequestFits(Idle, q2, obj, reviewed')
    BY <1>1, <1>2, <2>1 DEF RequestFits, CallFits, ApplyFits, PreviewFits, Waiting
  <2>4. SameArgs(q, q2)
    BY <1>1, <2>1 DEF SameArgs, Active
  <2> QED BY <1>1, <1>10, <2>2, <2>3, <2>4, HandlerReviews DEF EditInv
<1> QED BY <1>1, <1>8, <1>9, <1>10, <1>11, ReviewStep, Zenon

\* One member of a finite set gives way to one that was not in it.
LEMMA Replaced ==
  ASSUME Counting, NEW S, IsFiniteSet(S), NEW x \in S, NEW y, y \notin S
  PROVE  /\ IsFiniteSet((S \ {x}) \union {y})
         /\ Cardinality((S \ {x}) \union {y}) = Cardinality(S)
<1>1. IsFiniteSet(S \ {x}) /\ Cardinality(S \ {x}) = Cardinality(S) - 1
  BY Zenon DEF Counting, RemovingCounts
<1>2. y \notin S \ {x}
  BY Zenon
<1>3. IsFiniteSet((S \ {x}) \union {y}) /\ Cardinality((S \ {x}) \union {y}) = Cardinality(S \ {x}) + 1
  BY <1>1, <1>2, Zenon DEF Counting, AddingCounts
<1>4. Cardinality(S) \in Nat
  BY Zenon DEF Counting, CountsAreNatural
<1> QED BY <1>1, <1>3, <1>4

\* handleEditApply: one preview, of exactly this edit and still alive, is spent and its grant goes; or
\* nothing but grants goes and the request leaves.
LEMMA ConsumeFits ==
  ASSUME Counting, EditInv, NEW r \in Requests, Consume(r) PROVE EditInv'
<1> DEFINE q == req[r]
           ok == Consumes(q.app, q.tok, PreviewDigest(q.scope, q.m))
           gs == {g \in Unexpired(grants[q.app]) : g.tok # q.tok}
<1>1. /\ q.pc = "consume" /\ grants' = [grants EXCEPT ![q.app] = gs]
      /\ reviewed' = IF ok THEN {IF p.tok = q.tok THEN [p EXCEPT !.used = now] ELSE p : p \in reviewed}
                     ELSE reviewed
      /\ req' = [req EXCEPT ![r] = [q EXCEPT !.pc = IF ok THEN "lookup" ELSE "leaving"]]
      /\ UNCHANGED <<obj, writes, now, workload, ops, call>>
  BY Zenon DEF Consume, Goto, adapterVars
<1>2. /\ q \in Served /\ q.kind = "apply" /\ call[r] = Idle /\ now \in Nat
      /\ Moves(r, [q EXCEPT !.pc = IF ok THEN "lookup" ELSE "leaving"], Idle)
  <2> USE Zenon
  <2>1. q.pc \in Active /\ q.pc \notin Waiting
    BY <1>1 DEF Active, Stages, Waiting
  <2>2. q \in Served /\ ApplyFits(q, reviewed) /\ call[r] = Idle
    BY <2>1, ActiveIsServed
  <2> QED BY <1>1, <2>2 DEF ApplyFits, Moves, EditInv, CallersFit
<1>3. q.app \in Apps /\ q.tok \in Nat /\ q.scope \in Scopes /\ q.m \in Edited
  BY <1>2, Zenon DEF Served
<1>4. /\ grants \in [Apps -> SUBSET Grants] /\ grants' \in [Apps -> SUBSET Grants]
      /\ \A a \in Apps : grants'[a] = IF a = q.app THEN gs ELSE grants[a]
      /\ \A a \in Apps : grants'[a] \subseteq grants[a]
  BY <1>1, <1>3, Zenon DEF EditInv, GrantsOK, Unexpired
<1>5. CASE ~ok
  <2> DEFINE q2 == [q EXCEPT !.pc = "leaving"]
  <2>1. q2 \in Served /\ q2.pc = "leaving" /\ q2.kind = "apply" /\ Moves(r, q2, Idle)
    BY <1>2, <1>5, Zenon DEF Served, Stages
  <2> HIDE DEF q2
  <2>2. RequestFits(Idle, q2, obj, reviewed')
    BY <2>1, Zenon DEF RequestFits, CallFits, ApplyFits, PreviewFits, Waiting
  <2>3. SameArgs(q, q2)
    BY <1>1, <2>1, Zenon DEF SameArgs, Active
  <2>4. KeepsSpent(reviewed, reviewed')
    BY <1>1, <1>5, Zenon DEF KeepsSpent
  <2>5. CallersFit'
    BY <1>1, <2>1, <2>2, <2>3, <2>4, HandlerReviews, Zenon DEF EditInv
  <2> QED BY <1>1, <1>2, <1>4, <1>5, <2>5, CalmStep DEF EditInv
<1>6. CASE ok
  <2>1. PICK g \in grants[q.app] : g.expires > now /\ g.tok = q.tok /\ g.digest = PreviewDigest(q.scope, q.m)
    BY <1>6, Zenon DEF Consumes, Unexpired
  <2>2. PICK p \in reviewed : /\ p.tok = g.tok /\ g.digest = PreviewDigest(p.scope, p.m)
                              /\ g.expires = p.at + PreviewLifetime /\ p.used = -1
    BY <1>3, <2>1, GrantTokens, Zenon DEF GrantFits
  <2>3. ReviewFits(p, obj, now, Cardinality(reviewed)) /\ \A x \in reviewed : x.tok = q.tok => x = p
    BY <2>1, <2>2, Zenon DEF EditInv, ReviewsOK
  <2>4. p \in Reviews /\ p.at \in Nat /\ p.at <= now /\ p.tok = q.tok /\ p.scope = q.scope /\ p.m = q.m
    BY <2>1, <2>2, <2>3 DEF ReviewFits, Reviews, PreviewDigest
  <2> DEFINE p2 == [p EXCEPT !.used = now]
  <2>5. /\ p2 \in Reviews /\ p2.tok = p.tok /\ p2.scope = p.scope /\ p2.m = p.m /\ p2.saw = p.saw
        /\ p2.at = p.at /\ p2.used = now
    BY <1>2, <2>4 DEF Reviews
  <2>6. reviewed' = {IF x.tok = q.tok THEN [x EXCEPT !.used = now] ELSE x : x \in reviewed}
    BY <1>1, <1>6, Zenon
  <2>7. reviewed' = (reviewed \ {p}) \union {p2}
    <3> DEFINE F(x) == IF x.tok = q.tok THEN [x EXCEPT !.used = now] ELSE x
    <3>1. F(p) = p2 /\ \A x \in reviewed : x # p => F(x) = x
      BY <2>3, <2>4, Zenon
    <3>2. \A y : y \in reviewed' <=> \E x \in reviewed : y = F(x)
      BY <2>6, Zenon
    <3> HIDE DEF p2, F
    <3>3. \A y : y \in reviewed' <=> y = p2 \/ (y \in reviewed /\ y # p)
      BY <3>1, <3>2
    <3>4. \A y : y \in reviewed' <=> y \in (reviewed \ {p}) \union {p2}
      BY <3>3, Zenon
    <3> QED BY <3>4, Zenon
  <2> HIDE DEF p2
  <2>8. p2.used \in p2.at .. (p2.at + PreviewLifetime - 1)
    BY <1>2, <2>1, <2>2, <2>4, <2>5, AppAssumption
  <2>9. KeepsSpent(reviewed, reviewed')
    <3>1. ~(p.used \in p.at .. (p.at + PreviewLifetime - 1))
      BY <2>2, <2>4, AppAssumption
    <3> QED BY <2>7, <3>1, Zenon DEF KeepsSpent
  <2>10. p2 \notin reviewed
    BY <1>2, <2>2, <2>3, <2>4, <2>5
  <2>11. IsFiniteSet(reviewed') /\ Cardinality(reviewed') = Cardinality(reviewed)
    BY <2>7, <2>10, Replaced, Zenon DEF EditInv, ReviewsOK
  <2>12. ReviewsOK'
    <3>1. ReviewFits(p2, obj, now, Cardinality(reviewed))
      BY <2>3, <2>5, Zenon DEF ReviewFits
    <3>2. \A x \in reviewed' : ReviewFits(x, obj, now, Cardinality(reviewed))
      BY <2>7, <3>1, Zenon DEF EditInv, ReviewsOK
    <3>3. \A x, y \in reviewed' : x.tok = y.tok => x = y
      <4>1. \A x, y \in reviewed : x.tok = y.tok => x = y
        BY Zenon DEF EditInv, ReviewsOK
      <4> QED BY <2>5, <2>7, <4>1
    <3> QED BY <1>1, <2>11, <3>2, <3>3, Zenon DEF ReviewsOK
  <2>13. GrantsOK'
    <3>1. \A a, b \in Apps : \A x \in grants[a], y \in grants[b] : x.tok = y.tok => a = b
      BY Zenon DEF EditInv, GrantsOK
    <3>2. \A a \in Apps : \A x \in grants'[a] : x \in grants[a] /\ x.tok # q.tok
      <4> SUFFICES ASSUME NEW a \in Apps, NEW x \in grants'[a] PROVE x \in grants[a] /\ x.tok # q.tok
        BY Zenon
      <4>1. CASE a = q.app
        BY <1>4, <4>1, Zenon
      <4>2. CASE a # q.app
        BY <1>3, <1>4, <2>1, <3>1, <4>2
      <4> QED BY <4>1, <4>2, Zenon
    <3>3. \A a \in Apps : \A x \in grants'[a] : GrantFits(x, reviewed')
      <4> USE Zenon
      <4> SUFFICES ASSUME NEW a \in Apps, NEW x \in grants'[a] PROVE GrantFits(x, reviewed')
        OBVIOUS
      <4>1. x \in grants[a] /\ x.tok # q.tok
        BY <3>2
      <4>2. GrantFits(x, reviewed)
        BY <4>1, GrantTokens
      <4>3. \A y \in reviewed : y.tok # q.tok => y \in reviewed'
        BY <2>4, <2>7
      <4> QED BY <4>1, <4>2, <4>3 DEF GrantFits
    <3> QED BY <1>4, <3>1, <3>2, <3>3 DEF GrantsOK
  <2>14. CallersFit'
    <3> USE Zenon
    <3> DEFINE q2 == [q EXCEPT !.pc = "lookup"]
    <3>1. /\ q2 \in Served /\ q2.pc = "lookup" /\ q2.kind = "apply" /\ q2.m = q.m /\ q2.scope = q.scope
          /\ q2.tok = q.tok /\ Moves(r, q2, Idle)
      BY <1>2, <1>6 DEF Served, Stages
    <3> HIDE DEF q2
    <3>2. Spent(q2.tok, q2.scope, q2.m, reviewed')
      BY <2>4, <2>5, <2>7, <2>8, <3>1 DEF Spent
    <3>3. RequestFits(Idle, q2, obj, reviewed')
      BY <3>1, <3>2 DEF RequestFits, CallFits, ApplyFits, PreviewFits, Waiting
    <3>4. SameArgs(q, q2)
      BY <1>1, <3>1 DEF SameArgs, Active, Stages
    <3> QED BY <1>1, <2>9, <3>1, <3>3, <3>4, HandlerReviews DEF EditInv
  <2> QED BY <1>1, <2>9, <2>12, <2>13, <2>14, ReviewStep, Zenon
<1> QED BY <1>5, <1>6, Zenon

(***************************************************************************)
(* The remaining steps                                                     *)
(***************************************************************************)

\* Discover starts and ends calls of its own probes only.
LEMMA HydrateFits ==
  ASSUME EditInv, NEW a \in Apps, Hydrate(a) PROVE EditInv'
<1>1. CallersFit /\ UNCHANGED <<obj, reviewed, writes, workload, now, grants, req, ops>>
  BY Zenon DEF EditInv, Hydrate, Discover, Discovered, appVars
<1>2. PICK F : /\ \A c \in {a} \X Scopes : ProbeFits(F[c])
               /\ call' = [c \in Callers |-> IF c \in {a} \X Scopes THEN F[c] ELSE call[c]]
  <2>1. CASE Discover(a)
    <3> DEFINE G == [c \in {a} \X Scopes |-> Calling(a, c[2], "probe", NoManifest, 0)]
    <3>1. ASSUME NEW c \in {a} \X Scopes PROVE ProbeFits(G[c])
      <4>1. c[2] \in Scopes /\ NoManifest \in Edited /\ Pending \in Results
        BY DEF NoManifest, Edited, Pending, NoObject, Results, Objects
      <4>2. Calling(a, c[2], "probe", NoManifest, 0) \in Calls
        BY <4>1, Zenon DEF Calling, Calls, Verbs
      <4>3. Calling(a, c[2], "probe", NoManifest, 0).verb = "probe"
        BY Zenon DEF Calling
      <4> QED BY <4>2, <4>3, Zenon DEF ProbeFits
    <3>2. call' = [c \in Callers |-> IF c \in {a} \X Scopes THEN G[c] ELSE call[c]]
      BY <2>1, Zenon DEF Discover
    <3> HIDE DEF G
    <3> QED BY <3>1, <3>2, Zenon
  <2>2. CASE Discovered(a, Cancelled(a))
    <3> USE Zenon
    <3> DEFINE G == [c \in {a} \X Scopes |-> Idle]
    <3>1. \A c \in {a} \X Scopes : ProbeFits(G[c])
      BY DEF ProbeFits
    <3>2. call' = [c \in Callers |-> IF c \in {a} \X Scopes THEN G[c] ELSE call[c]]
      BY <2>2 DEF Discovered
    <3> HIDE DEF G
    <3> QED BY <3>1, <3>2
  <2> QED BY <2>1, <2>2, Zenon DEF Hydrate
<1>3. \A r \in Requests : call'[r] = call[r]
  <2>1. \A r \in Requests : r \in Callers /\ r \notin {a} \X Scopes
    BY CallersAssumption DEF Callers, Probes
  <2> QED BY <1>2, <2>1, Zenon
<1>4. \A c \in Probes : ProbeFits(call'[c])
  BY <1>1, <1>2, Zenon DEF CallersFit, Callers
<1>5. call' = [c \in Callers |-> call'[c]]
  BY <1>2, Zenon
<1>6. CallersFit'
  BY <1>1, <1>3, <1>4, <1>5, Zenon DEF CallersFit
<1> QED BY <1>1, <1>6, CalmStep DEF EditInv, GrantsOK

\* Somebody else's change of the object.
LEMMA ForeignStep ==
  ASSUME EditInv, NEW s \in Scopes, NEW fresh \in BOOLEAN, Foreign(s, fresh) PROVE EditInv'
<1>1. /\ ForeignWrite(s, fresh) /\ UNCHANGED <<reviewed, req, now, grants, call, ops, writes>>
      /\ workload' \in Environments
  BY DEF Foreign, ForeignWrite, EditInv, Environments
<1>2. obj' \in [Scopes -> Objects] /\ Grows(obj, obj')
  BY <1>1, ForeignFits, Zenon
<1>3. CallersFit'
  <2> USE Zenon
  <2>1. KeepsSpent(reviewed, reviewed) /\ obj \in [Scopes -> Objects] /\ CallersFit
    BY DEF KeepsSpent, EditInv
  <2>2. \A r \in Requests : RequestFits(call[r], req[r], obj', reviewed)
    BY <1>2, <2>1, RequestKept DEF CallersFit
  <2> QED BY <1>1, <2>1, <2>2 DEF CallersFit
<1>4. \A w \in writes' : WriteFits(w, reviewed)
  BY <1>1, Zenon DEF EditInv
<1> QED BY <1>1, <1>2, <1>3, <1>4, ObjectStep, Zenon

\* The sessions' and tunnels' own steps.
LEMMA SessionStep ==
  ASSUME EditInv, UNCHANGED <<adapterVars, req, reviewed>>, workload' \in Environments, now' \in Nat, now <= now',
         UNCHANGED grants \/ \E a \in Apps : grants' = [grants EXCEPT ![a] = {}]
  PROVE  EditInv'
<1> USE Zenon
<1>1. CallersFit'
  BY CallersFrame DEF EditInv, adapterVars
<1>2. grants' \in [Apps -> SUBSET Grants] /\ \A a \in Apps : grants'[a] \subseteq grants[a]
  BY DEF EditInv, GrantsOK
<1> QED BY <1>1, <1>2, CalmStep DEF adapterVars

\* The handlers that neither issue nor spend a preview.
LEMMA HandlerStep ==
  ASSUME EditInv, UNCHANGED <<obj, reviewed, writes, workload, now, grants>>, CallersFit' PROVE EditInv'
BY CalmStep DEF EditInv, GrantsOK

\* It holds at the start.
LEMMA EditInit == ASSUME Counting PROVE Init => EditInv
<1> SUFFICES ASSUME Init PROVE EditInv
  BY Zenon
<1>1. now = 0 /\ reviewed = {} /\ writes = {} /\ ops = {} /\ workload \in Environments
  BY WorkloadsAssumption, Zenon DEF Init, AdapterInit
<1>2. obj \in [Scopes -> Objects]
  BY DEF Init, AdapterInit, Objects
<1>3. ReviewsOK
  BY <1>1, Zenon DEF ReviewsOK, Counting, NothingCounts
<1>4. GrantsOK
  BY Zenon DEF Init, GrantsOK
<1>5. CallersFit
  BY <1>1, Zenon DEF Init, AdapterInit, CallersFit, RequestFits, ProbeFits, Callers
<1> QED BY <1>1, <1>2, <1>3, <1>4, <1>5, Zenon DEF EditInv

\* And every step keeps it.
LEMMA EditStep == ASSUME Counting PROVE LeaseInv /\ EditInv /\ [Next]_vars => EditInv'
<1> SUFFICES ASSUME LeaseInv, EditInv, [Next]_vars PROVE EditInv'
  BY Zenon
<1>0. now \in Nat /\ workload \in Environments /\ CallersFit
  BY Zenon DEF EditInv
<1>1. ASSUME NEW r \in Requests, Arrivals(r) PROVE EditInv'
  <2>1. CallersFit'
    BY <1>1, ArriveFits, Zenon
  <2> QED BY <1>1, <2>1, HandlerStep DEF Arrivals, Arrive, adapterVars
<1>2. ASSUME NEW r \in Requests, ServeStep(r) PROVE EditInv'
  <2> USE Zenon
  <2>1. CASE Lookup(r)
    BY <2>1, LookupFits, HandlerStep DEF Lookup
  <2>2. CASE Operate(r)
    BY <2>2, OperateFits, HandlerStep DEF Operate
  <2>3. CASE StartForward(r)
    BY <2>3, StartForwardFits, HandlerStep DEF StartForward, adapterVars
  <2>4. CASE Leave(r)
    BY <2>4, LeaveFits, HandlerStep DEF Leave, adapterVars
  <2>5. ASSUME NEW f \in Requests, DeleteForward(r, f) PROVE EditInv'
    BY <2>5, DeleteForwardFits, HandlerStep DEF DeleteForward, adapterVars
  <2> QED BY <1>2, <2>1, <2>2, <2>3, <2>4, <2>5, IssueFits, ConsumeFits DEF ServeStep
<1>3. ASSUME NEW r \in Requests, Connect(r) \/ Return(r) \/ Watch(r) \/ Monitor(r) PROVE EditInv'
  BY <1>0, <1>3, SessionStep DEF Connect, Return, Watch, Monitor, OnlyTunnel
<1>4. ASSUME NEW c \in Callers, CallStep(c) \/ Deadline(c) PROVE EditInv'
  <2> USE Zenon
  <2>1. UNCHANGED appVars /\ (Acquire(c) \/ Awake(c) \/ Receive(c) \/ Expire(c) \/ Launch(c))
    BY <1>4 DEF CallStep, Deadline
  <2>2. UNCHANGED <<reviewed, req, workload, now, grants>>
    BY <2>1 DEF appVars
  <2>3. CallersFit'
    BY <1>0, <2>1, <2>2, AcquireFits, LaunchFits
  <2>4. UNCHANGED <<obj, writes>>
    BY <2>1 DEF Acquire, Awake, Receive, Expire, Launch
  <2> QED BY <2>2, <2>3, <2>4, HandlerStep
<1>5. ASSUME NEW op \in ops, OperationStep(op) PROVE EditInv'
  <2> USE Zenon
  <2>1. CASE Finish(op)
    <3>1. UNCHANGED <<reviewed, req, workload, now, grants>>
      BY <1>5 DEF OperationStep, appVars
    <3>2. CallersFit' /\ UNCHANGED <<obj, writes>>
      BY <1>0, <2>1, <3>1, FinishFits DEF Finish
    <3> QED BY <3>1, <3>2, HandlerStep
  <2>2. ASSUME NEW answers \in BOOLEAN, Perform(op, answers) PROVE EditInv'
    BY <1>5, <2>2, PerformFits DEF OperationStep
  <2> QED BY <1>5, <2>1, <2>2 DEF OperationStep
<1>6. ASSUME NEW a \in Apps, ImportDirectory(a) PROVE EditInv'
  <2>1. workload' \in Environments
    BY <1>0, <1>6 DEF ImportDirectory, Environments
  <2> QED BY <1>0, <1>6, <2>1, SessionStep DEF ImportDirectory
<1>7. ASSUME NEW a \in Apps, CloseDrained(a) PROVE EditInv'
  BY <1>0, <1>7, SessionStep DEF CloseDrained
<1>8. ASSUME NEW a \in Apps, CloseApplication(a) PROVE EditInv'
  BY <1>0, <1>8, SessionStep DEF CloseApplication
<1>9. ASSUME NEW a \in Apps, NEW r \in Requests, CloseOne(a, r) PROVE EditInv'
  BY <1>0, <1>9, SessionStep DEF CloseOne
<1>10. CASE HostClose
  BY <1>0, <1>10, SessionStep DEF HostClose
<1>11. CASE Tick
  <2>1. workload' \in Environments /\ now' \in Nat /\ now <= now'
    BY <1>0, <1>11 DEF Tick, Environments
  <2> QED BY <1>11, <2>1, SessionStep, Zenon DEF Tick
<1>12. CASE UNCHANGED vars
  BY <1>0, <1>12, SessionStep DEF vars, appVars
<1> QED BY <1>1, <1>2, <1>3, <1>4, <1>5, <1>6, <1>7, <1>8, <1>9, <1>10, <1>11, <1>12, HydrateFits, ForeignStep DEF Next

-----------------------------------------------------------------------------
(***************************************************************************)
(* The operation gate: its count is exact, at most two operations of a     *)
(* context are retained, and nobody sleeps while there is room.            *)
(*                                                                         *)
(* A release must take one away from the count of the operations, so no    *)
(* two operations may be alike: a handler starts each kind of operation    *)
(* at most once, since what it starts next is decided by how far it is.    *)
(***************************************************************************)
\* The operations, the admitted callers and the sleeping callers of a context.
OperationsOf(o, a, s) == {op \in o : op.app = a /\ op.scope = s}
InState(k, st, a, s) == {c \in Callers : k[c].st = st /\ k[c].app = a /\ k[c].scope = s}

\* The gate's count n is right, and its sleepers have reason to sleep.
Counts(n, O, G, W) ==
  /\ IsFiniteSet(O) /\ IsFiniteSet(G) /\ n = Cardinality(O) + Cardinality(G) /\ n <= PerScope
  /\ n < PerScope => W = {}
GateCounts ==
  \A a \in Apps, s \in Scopes :
    Counts(held[a][s], OperationsOf(ops, a, s), InState(call, "granted", a, s), InState(call, "wait", a, s))

\* A caller that has not started its operation yet.
Ahead == {"acquire", "wait", "woken", "granted"}
\* Where a handler may be after it started an operation.
Ending == {"leaving", "gone"}
Behind(verb) ==
  CASE verb = "probe" -> {"lookup", "probing", "client", "resolve", "await", "unreserve", "get", "events", "dryrun", "update"} \union Ending
    [] verb = "get" -> {"get", "events", "dryrun", "update"} \union Ending
    [] verb = "events" -> {"events"} \union Ending
    [] verb = "dryrun" -> {"dryrun", "update"} \union Ending
    [] OTHER -> {"update"} \union Ending

Known(q, rg) == rg[q.app].scope[q.scope] # "unknown"
\* A handler starts each kind of operation at most once, a discovery each probe: the caller of an
\* operation is past the point where it starts one like it.
StartedBy(op, k, q, rg) ==
  /\ q.pc \in Behind(op.verb)
  /\ k.st \in Ahead => k.verb # op.verb
  /\ op.verb = "probe" /\ q.pc = "lookup" => Known(q, rg)
OperationPast(op) ==
  /\ op.c \in Requests => StartedBy(op, call[op.c], req[op.c], reg)
  /\ op.c \in Probes => call[op.c].st \notin Ahead /\ disc[op.c[1]] # "idle"
OncePerCaller ==
  /\ \A op \in ops : OperationPast(op)
  /\ \A op, op2 \in ops : op.c = op2.c /\ op.verb = op2.verb => op = op2

GateInv ==
  /\ held = [a \in Apps |-> held[a]] /\ \A a \in Apps : held[a] \in [Scopes -> Nat]
  /\ reg = [a \in Apps |-> reg[a]]
  /\ \A a \in Apps : reg[a] \in [discovered : BOOLEAN, scope : [Scopes -> {"unknown", "up", "down"}]]
  /\ disc = [a \in Apps |-> disc[a]]
  /\ \A a \in Apps, s \in Scopes : disc[a] = "idle" => call[<<a, s>>] = Idle
  /\ GateCounts /\ OncePerCaller

-----------------------------------------------------------------------------
(***************************************************************************)
(* What a step may do to one context's count                               *)
(***************************************************************************)
\* Nothing changes, or sleepers wake up.
LEMMA CountStays ==
  ASSUME NEW n \in Nat, NEW O, NEW G, NEW W, NEW W2, Counts(n, O, G, W), W2 \subseteq W
  PROVE  Counts(n, O, G, W2)
BY Zenon DEF Counts

\* A caller goes to sleep at a full gate.
LEMMA CountSleeps ==
  ASSUME NEW O, NEW G, NEW W, NEW W2, Counts(PerScope, O, G, W)
  PROVE  Counts(PerScope, O, G, W2)
BY DEF Counts, PerScope

\* A caller is admitted.
LEMMA CountAdmits ==
  ASSUME Counting, NEW n \in Nat, NEW O, NEW G, NEW W, NEW c, Counts(n, O, G, W), n < PerScope, c \notin G
  PROVE  Counts(n + 1, O, G \union {c}, W)
<1>1. /\ IsFiniteSet(O) /\ IsFiniteSet(G) /\ n = Cardinality(O) + Cardinality(G) /\ W = {}
      /\ Cardinality(O) \in Nat /\ Cardinality(G) \in Nat
  BY Zenon DEF Counts, Counting, CountsAreNatural
<1>2. IsFiniteSet(G \union {c}) /\ Cardinality(G \union {c}) = Cardinality(G) + 1
  BY <1>1, Zenon DEF Counting, AddingCounts
<1> QED BY <1>1, <1>2 DEF Counts, PerScope

\* An admitted caller starts its operation.
LEMMA CountLaunches ==
  ASSUME Counting, NEW n \in Nat, NEW O, NEW G, NEW W, NEW c, NEW op, Counts(n, O, G, W), c \in G, op \notin O
  PROVE  Counts(n, O \union {op}, G \ {c}, W)
<1>1. /\ IsFiniteSet(O) /\ IsFiniteSet(G) /\ n = Cardinality(O) + Cardinality(G)
      /\ Cardinality(O) \in Nat /\ Cardinality(G) \in Nat
  BY Zenon DEF Counts, Counting, CountsAreNatural
<1>2. IsFiniteSet(G \ {c}) /\ Cardinality(G \ {c}) = Cardinality(G) - 1
  BY <1>1, Zenon DEF Counting, RemovingCounts
<1>3. IsFiniteSet(O \union {op}) /\ Cardinality(O \union {op}) = Cardinality(O) + 1
  BY <1>1, Zenon DEF Counting, AddingCounts
<1>4. n = Cardinality(O \union {op}) + Cardinality(G \ {c})
  BY <1>1, <1>2, <1>3
<1> QED BY <1>2, <1>3, <1>4, Zenon DEF Counts

\* An admitted caller gives its place back, and everybody wakes up.
LEMMA CountReturns ==
  ASSUME Counting, NEW n \in Nat, NEW O, NEW G, NEW W, NEW c, Counts(n, O, G, W), c \in G
  PROVE  Counts(n - 1, O, G \ {c}, {}) /\ n - 1 \in Nat
<1>1. /\ IsFiniteSet(O) /\ IsFiniteSet(G) /\ n = Cardinality(O) + Cardinality(G) /\ n <= PerScope
      /\ Cardinality(O) \in Nat /\ Cardinality(G) \in Nat
  BY Zenon DEF Counts, Counting, CountsAreNatural
<1>2. IsFiniteSet(G \ {c}) /\ Cardinality(G \ {c}) = Cardinality(G) - 1
  BY <1>1, Zenon DEF Counting, RemovingCounts
<1>3. Cardinality(G \ {c}) \in Nat
  BY <1>2, Zenon DEF Counting, CountsAreNatural
<1> QED BY <1>1, <1>2, <1>3 DEF Counts, PerScope

\* An operation ends, and everybody wakes up.
LEMMA CountReleases ==
  ASSUME Counting, NEW n \in Nat, NEW O, NEW G, NEW W, NEW op, Counts(n, O, G, W), op \in O
  PROVE  Counts(n - 1, O \ {op}, G, {}) /\ n - 1 \in Nat
<1>1. /\ IsFiniteSet(O) /\ IsFiniteSet(G) /\ n = Cardinality(O) + Cardinality(G) /\ n <= PerScope
      /\ Cardinality(O) \in Nat /\ Cardinality(G) \in Nat
  BY Zenon DEF Counts, Counting, CountsAreNatural
<1>2. IsFiniteSet(O \ {op}) /\ Cardinality(O \ {op}) = Cardinality(O) - 1
  BY <1>1, Zenon DEF Counting, RemovingCounts
<1>3. Cardinality(O \ {op}) \in Nat
  BY <1>2, Zenon DEF Counting, CountsAreNatural
<1> QED BY <1>1, <1>2, <1>3 DEF Counts, PerScope

\* An operation changes its state.
LEMMA CountSwaps ==
  ASSUME Counting, NEW n \in Nat, NEW O, NEW G, NEW W, NEW op, NEW op2, Counts(n, O, G, W), op \in O, op2 \notin O
  PROVE  Counts(n, (O \ {op}) \union {op2}, G, W)
<1>1. /\ IsFiniteSet(O) /\ n = Cardinality(O) + Cardinality(G) /\ Cardinality(O) \in Nat
  BY Zenon DEF Counts, Counting, CountsAreNatural
<1>2. IsFiniteSet(O \ {op}) /\ Cardinality(O \ {op}) = Cardinality(O) - 1
  BY <1>1, Zenon DEF Counting, RemovingCounts
<1>3. op2 \notin O \ {op}
  BY Zenon
<1>4. IsFiniteSet((O \ {op}) \union {op2}) /\ Cardinality((O \ {op}) \union {op2}) = Cardinality(O \ {op}) + 1
  BY <1>2, <1>3, Zenon DEF Counting, AddingCounts
<1>5. Cardinality((O \ {op}) \union {op2}) = Cardinality(O)
  BY <1>1, <1>2, <1>4
<1> QED BY <1>4, <1>5, Zenon DEF Counts

-----------------------------------------------------------------------------
(***************************************************************************)
(* The handlers                                                            *)
(***************************************************************************)
RegistryOK(rg) ==
  /\ rg = [a \in Apps |-> rg[a]]
  /\ \A a \in Apps : rg[a] \in [discovered : BOOLEAN, scope : [Scopes -> {"unknown", "up", "down"}]]
Learns(rg, rg2) == \A a \in Apps, s \in Scopes : rg[a].scope[s] # "unknown" => rg2[a].scope[s] # "unknown"

\* A context that is known stays known to the caller of an operation.
LEMMA StartedStays ==
  ASSUME EditInv, NEW op \in ops, op.c \in Requests, NEW rg2, Learns(reg, rg2),
         StartedBy(op, call[op.c], req[op.c], reg)
  PROVE  StartedBy(op, call[op.c], req[op.c], rg2)
<1> USE Zenon
<1>1. ASSUME req[op.c].pc = "lookup" PROVE Known(req[op.c], reg) => Known(req[op.c], rg2)
  <2>1. req[op.c] \in Served
    BY <1>1, ActiveIsServed DEF Active, Stages, Waiting
  <2> QED BY <2>1 DEF Known, Learns, Served
<1> QED BY <1>1 DEF StartedBy

\* One handler goes on.  It is neither admitted nor asleep, before and after.
LEMMA HandlerGate ==
  ASSUME EditInv, GateInv, NEW r \in Requests, NEW q2, NEW k2, Moves(r, q2, k2), UNCHANGED <<held, ops, disc>>,
         RegistryOK(reg'), Learns(reg, reg'), {call[r].st, k2.st} \intersect {"granted", "wait"} = {},
         \A op \in ops : op.c = r => StartedBy(op, k2, q2, reg')
  PROVE  GateInv'
<1>1. r \in Callers /\ r \notin Probes /\ req = [x \in Requests |-> req[x]] /\ call = [c \in Callers |-> call[c]]
  BY CallersAssumption, Zenon DEF Callers, EditInv, CallersFit
<1>2. /\ \A x \in Requests : req'[x] = IF x = r THEN q2 ELSE req[x]
      /\ \A c \in Callers : call'[c] = IF c = r THEN k2 ELSE call[c]
  BY <1>1, Zenon DEF Moves
<1>3. \A st \in {"granted", "wait"} : \A a, s : InState(call', st, a, s) = InState(call, st, a, s)
  BY <1>1, <1>2, Zenon DEF InState
<1>4. GateCounts'
  BY <1>3 DEF GateInv, GateCounts
<1>5. \A c \in Probes : call'[c] = call[c]
  BY <1>1, <1>2, Zenon DEF Callers
<1>6. ASSUME NEW op \in ops PROVE OperationPast(op)'
  <2> USE Zenon
  <2>1. OperationPast(op) /\ op.c \in Callers
    BY DEF GateInv, OncePerCaller, EditInv, CallersFit, OperationFits, Operations
  <2>2. CASE op.c \in Probes
    BY <1>1, <1>5, <2>1, <2>2, CallersAssumption DEF OperationPast
  <2>3. CASE op.c = r
    BY <1>1, <1>2, <2>3 DEF OperationPast
  <2>4. CASE op.c \in Requests /\ op.c # r
    <3>1. call'[op.c] = call[op.c] /\ req'[op.c] = req[op.c]
      BY <1>2, <2>1, <2>4
    <3>2. StartedBy(op, call[op.c], req[op.c], reg')
      BY <2>1, <2>4, StartedStays DEF OperationPast
    <3> QED BY <2>4, <3>1, <3>2, CallersAssumption DEF OperationPast
  <2> QED BY <2>1, <2>2, <2>3, <2>4 DEF Callers
<1>7. OncePerCaller'
  BY <1>6, Zenon DEF GateInv, OncePerCaller
<1>8. \A a \in Apps, s \in Scopes : <<a, s>> \in Probes
  BY Zenon DEF Probes
<1> QED BY <1>4, <1>5, <1>7, <1>8, Zenon DEF GateInv, RegistryOK

\* The operations of a handler are of a stage it has passed.
LEMMA HandlerPast ==
  ASSUME EditInv, GateInv, NEW op \in ops, op.c \in Requests
  PROVE  op.verb \in Verbs /\ StartedBy(op, call[op.c], req[op.c], reg)
BY Zenon DEF GateInv, OncePerCaller, OperationPast, EditInv, CallersFit, OperationFits, Operations

\* The registry of a step that does not touch it.
LEMMA SameRegistry ==
  ASSUME GateInv, UNCHANGED reg PROVE RegistryOK(reg') /\ Learns(reg, reg')
BY Zenon DEF GateInv, RegistryOK, Learns

Later(q, q2) == \A verb \in Verbs : q.pc \in Behind(verb) => q2.pc \in Behind(verb)
Settled(r) == call[r].st \notin {"granted", "wait"}

\* A handler that goes on without a call.
LEMMA RestsGate ==
  ASSUME EditInv, GateInv, NEW r \in Requests, NEW q2, Moves(r, q2, Idle), UNCHANGED <<held, ops, disc>>,
         RegistryOK(reg'), Learns(reg, reg'), Settled(r), Later(req[r], q2),
         q2.pc = "lookup" => Known(q2, reg') \/ req[r].pc \notin Behind("probe")
  PROVE  GateInv'
<1>1. Idle.st \notin Ahead /\ Idle.st \notin {"granted", "wait"}
  BY Zenon DEF Idle, Ahead
<1>2. ASSUME NEW op \in ops, op.c = r PROVE StartedBy(op, Idle, q2, reg')
  BY <1>1, <1>2, HandlerPast, Zenon DEF StartedBy, Later
<1> QED BY <1>1, <1>2, HandlerGate DEF Settled

\* A handler that starts a call it cannot have started before.
LEMMA AsksGate ==
  ASSUME EditInv, GateInv, NEW r \in Requests, NEW q2, NEW app, NEW scope, NEW verb \in Verbs, NEW m, NEW tok,
         Moves(r, q2, Calling(app, scope, verb, m, tok)), UNCHANGED <<held, ops, disc, reg>>,
         Settled(r), Later(req[r], q2), q2.pc # "lookup",
         \/ req[r].pc \notin Behind(verb)
         \/ verb = "probe" /\ req[r].pc = "lookup" /\ ~Known(req[r], reg)
  PROVE  GateInv'
<1> DEFINE k2 == Calling(app, scope, verb, m, tok)
<1>1. k2.st = "acquire" /\ k2.verb = verb /\ k2.st \notin {"granted", "wait"}
  BY Zenon DEF Calling
<1>2. ASSUME NEW op \in ops, op.c = r PROVE StartedBy(op, k2, q2, reg')
  <2> USE Zenon
  <2>1. op.verb # verb
    BY <1>2, HandlerPast DEF StartedBy
  <2> QED BY <1>1, <1>2, <2>1, HandlerPast DEF StartedBy, Later
<1>3. RegistryOK(reg') /\ Learns(reg, reg')
  BY SameRegistry, Zenon
<1> HIDE DEF k2
<1>4. Moves(r, q2, k2)
  BY Zenon DEF k2
<1> QED BY <1>1, <1>2, <1>3, <1>4, HandlerGate DEF Settled

\* A handler that has no call keeps it that way.
LEMMA QuietGate ==
  ASSUME EditInv, GateInv, NEW r \in Requests, NEW q2, call[r] = Idle, UNCHANGED <<held, ops, disc, call, reg>>,
         req' = [req EXCEPT ![r] = q2], Later(req[r], q2),
         q2.pc = "lookup" => Known(q2, reg) \/ req[r].pc \notin Behind("probe")
  PROVE  GateInv'
<1>1. Moves(r, q2, Idle)
  BY Zenon DEF Moves, EditInv, CallersFit
<1>2. Settled(r)
  BY DEF Settled, Idle
<1> QED BY <1>1, <1>2, SameRegistry, RestsGate, Zenon

\* localTargetState: the probe is started only while the context is unknown, and makes it known.
LEMMA LookupGate ==
  ASSUME EditInv, GateInv, NEW r \in Requests, Lookup(r) PROVE GateInv'
<1> DEFINE q == req[r]
<1>1. UNCHANGED <<held, ops, disc>> /\ q.pc \in {"lookup", "probing", "client"}
  BY Zenon DEF Lookup
<1>2. q \in Served /\ (q.pc # "probing" => call[r] = Idle)
  BY <1>1, ActiveIsServed, Zenon DEF Active, Stages, Waiting
<1>3. ASSUME NEW pc
      PROVE  [q EXCEPT !.pc = pc].pc = pc /\ [q EXCEPT !.pc = pc].app = q.app /\ [q EXCEPT !.pc = pc].scope = q.scope
  BY <1>2, Zenon DEF Served
<1>4. req = [x \in Requests |-> req[x]] /\ call = [c \in Callers |-> call[c]] /\ r \in Callers
  BY Zenon DEF EditInv, CallersFit, Callers
<1>5. CASE \/ q.pc = "lookup" /\ ~Known(q, reg) /\ Asks(r, "probe", "probing") /\ UNCHANGED reg
           \/ q.pc = "client" /\ Asks(r, "get", "get") /\ UNCHANGED reg
  <2>1. PICK verb \in {"probe", "get"}, pc \in {"probing", "get"} :
          /\ Asks(r, verb, pc)
          /\ \/ verb = "probe" /\ pc = "probing" /\ q.pc = "lookup" /\ ~Known(q, reg)
             \/ verb = "get" /\ pc = "get" /\ q.pc = "client"
    BY <1>5, Zenon
  <2> DEFINE q2 == [q EXCEPT !.pc = pc]
  <2>2. Moves(r, q2, Calling(q.app, q.scope, verb, q.m, q.tok))
    BY <2>1, Zenon DEF Asks, Call, Goto, Moves
  <2>3. q2.pc = pc
    BY <1>3, Zenon
  <2> HIDE DEF q2
  <2>4. Later(q, q2) /\ q2.pc # "lookup"
    BY <2>1, <2>3, Zenon DEF Later, Behind, Verbs, Ending
  <2>5. verb \in Verbs /\ (verb = "get" => q.pc \notin Behind(verb))
    BY <2>1, Zenon DEF Verbs, Behind, Ending
  <2>6. Settled(r)
    BY <1>2, <2>1 DEF Settled, Idle
  <2> QED BY <1>1, <1>5, <2>1, <2>2, <2>4, <2>5, <2>6, AsksGate, Zenon
<1>6. CASE q.pc \in {"lookup", "client"} /\ UNCHANGED <<call, reg>> /\ \E pc \in {"client", "resolve", "unreserve", "leaving"} : Goto(r, pc)
  <2> USE Zenon
  <2>1. PICK pc \in {"client", "resolve", "unreserve", "leaving"} : Goto(r, pc)
    BY <1>6
  <2> DEFINE q2 == [q EXCEPT !.pc = pc]
  <2>2. q2.pc = pc /\ req' = [req EXCEPT ![r] = q2]
    BY <1>3, <2>1 DEF Goto
  <2> HIDE DEF q2
  <2>3. Later(q, q2) /\ q2.pc # "lookup"
    BY <1>6, <2>1, <2>2 DEF Later, Behind, Verbs, Ending
  <2> QED BY <1>1, <1>2, <1>6, <2>2, <2>3, QuietGate
<1>7. CASE q.pc = "probing" /\ call[r].st = "ended" /\ Bootstrapped(q.app, q.scope, r) /\ NoCall(r) /\ Goto(r, "client")
  <2> DEFINE q2 == [q EXCEPT !.pc = "client"]
  <2>1. q2.pc = "client" /\ Moves(r, q2, Idle)
    BY <1>3, <1>7, Zenon DEF Goto, NoCall, Moves
  <2> HIDE DEF q2
  <2>2. Later(q, q2) /\ q2.pc # "lookup" /\ Settled(r)
    BY <1>7, <2>1, Zenon DEF Later, Behind, Verbs, Ending, Settled
  <2>3. /\ q.app \in Apps /\ q.scope \in Scopes /\ Reached(r) \in {"up", "down"}
        /\ reg' = [reg EXCEPT ![q.app].scope[q.scope] = Reached(r)]
    BY <1>2, <1>7, Zenon DEF Served, Bootstrapped, Reached
  <2> DEFINE v == Reached(r)
  <2> HIDE DEF v
  <2>4. RegistryOK(reg') /\ Learns(reg, reg')
    <3>1. v \in {"up", "down"} /\ reg' = [reg EXCEPT ![q.app].scope[q.scope] = v]
      BY <2>3, Zenon DEF v
    <3>2. RegistryOK(reg)
      BY Zenon DEF GateInv, RegistryOK
    <3>3. RegistryOK(reg')
      <4> USE Zenon
      <4> DEFINE e == [reg[q.app].scope EXCEPT ![q.scope] = v]
                 n == [reg[q.app] EXCEPT !.scope = e]
      <4>1. reg[q.app] \in [discovered : BOOLEAN, scope : [Scopes -> {"unknown", "up", "down"}]]
        BY <2>3, <3>2 DEF RegistryOK
      <4>2. e \in [Scopes -> {"unknown", "up", "down"}]
        BY <2>3, <3>1, <4>1
      <4>3. reg' = [reg EXCEPT ![q.app] = n]
        BY <3>1
      <4> HIDE DEF e
      <4>4. n \in [discovered : BOOLEAN, scope : [Scopes -> {"unknown", "up", "down"}]]
        BY <4>1, <4>2
      <4> HIDE DEF n
      <4> QED BY <2>3, <3>2, <4>3, <4>4 DEF RegistryOK
    <3>4. Learns(reg, reg')
      BY <2>3, <3>1, <3>2 DEF RegistryOK, Learns
    <3> QED BY <3>3, <3>4, Zenon
  <2> QED BY <1>1, <2>1, <2>2, <2>4, RestsGate, Zenon
<1>8. CASE /\ q.pc = "client" /\ Known(q, reg) /\ UNCHANGED <<call, reg>>
           /\ req' = [req EXCEPT ![r].pc = "lookup", ![r].kind = "described"]
  <2> USE Zenon
  <2> DEFINE q2 == [[q EXCEPT !.pc = "lookup"] EXCEPT !.kind = "described"]
  <2>1. q2.pc = "lookup" /\ q2.app = q.app /\ q2.scope = q.scope
    BY <1>2 DEF Served
  <2>2. req' = [req EXCEPT ![r] = q2]
    BY <1>4, <1>8
  <2> HIDE DEF q2
  <2>3. Later(q, q2) /\ Known(q2, reg)
    BY <1>8, <2>1 DEF Later, Behind, Verbs, Ending, Known
  <2> QED BY <1>1, <1>2, <1>8, <2>2, <2>3, QuietGate
<1>9. Fail(r) => \E pc \in {"client", "resolve", "unreserve", "leaving"} : Goto(r, pc)
  BY Zenon DEF Fail
<1> QED BY <1>5, <1>6, <1>7, <1>8, <1>9, Zenon DEF Lookup, Asks, Known

\* The read, the events, the dry run and the update, each once.
LEMMA OperateGate ==
  ASSUME EditInv, GateInv, NEW r \in Requests, Operate(r) \/ IssuePreview(r) PROVE GateInv'
<1> USE Zenon
<1> DEFINE q == req[r]
<1>1. UNCHANGED <<held, ops, disc, reg>> /\ q.pc \in {"get", "events", "dryrun", "update"} /\ call[r].st = "ended"
  BY DEF Operate, IssuePreview
<1>2. q \in Served /\ Settled(r) /\ req = [x \in Requests |-> req[x]]
  BY <1>1, ActiveIsServed DEF Active, Stages, Waiting, Settled, EditInv, CallersFit
<1>3. \A pc : [q EXCEPT !.pc = pc].pc = pc
  BY <1>2 DEF Served
<1>4. CASE NoCall(r) /\ Goto(r, "leaving")
  <2> DEFINE q2 == [q EXCEPT !.pc = "leaving"]
  <2>1. q2.pc = "leaving" /\ Moves(r, q2, Idle)
    BY <1>3, <1>4 DEF Goto, NoCall, Moves
  <2> HIDE DEF q2
  <2>2. Later(q, q2)
    BY <1>1, <2>1 DEF Later, Behind, Verbs, Ending
  <2> QED BY <1>1, <1>2, <2>1, <2>2, SameRegistry, RestsGate
<1>5. ASSUME NEW q2, NEW verb \in Verbs, Moves(r, q2, Calling(q.app, q.scope, verb, q.m, q.tok)), q2.pc = verb,
             \/ q.pc = "get" /\ verb \in {"events", "dryrun"}
             \/ q.pc = "dryrun" /\ verb = "update"
      PROVE  GateInv'
  <2>1. Later(q, q2) /\ q2.pc # "lookup" /\ q.pc \notin Behind(verb)
    BY <1>5 DEF Later, Behind, Verbs, Ending
  <2> QED BY <1>1, <1>2, <1>5, <2>1, AsksGate
<1>6. CASE \/ q.pc = "get" /\ Asks(r, "events", "events")
           \/ q.pc = "dryrun" /\ Asks(r, "update", "update")
  <2>1. PICK verb \in {"events", "update"} : /\ Asks(r, verb, verb)
                                             /\ \/ q.pc = "get" /\ verb = "events"
                                                \/ q.pc = "dryrun" /\ verb = "update"
    BY <1>6
  <2> DEFINE q2 == [q EXCEPT !.pc = verb]
  <2>2. q2.pc = verb /\ Moves(r, q2, Calling(q.app, q.scope, verb, q.m, q.tok))
    BY <1>3, <2>1 DEF Asks, Call, Goto, Moves
  <2> HIDE DEF q2
  <2> QED BY <1>5, <2>1, <2>2 DEF Verbs
<1>7. ASSUME NEW o, q.pc = "get", Call(r, "dryrun"), req' = [req EXCEPT ![r].pc = "dryrun", ![r].cur = o]
      PROVE  GateInv'
  <2> DEFINE q2 == [[q EXCEPT !.pc = "dryrun"] EXCEPT !.cur = o]
  <2>1. q2.pc = "dryrun"
    BY <1>2 DEF Served
  <2>2. req' = [req EXCEPT ![r] = q2]
    BY <1>2, <1>7
  <2> HIDE DEF q2
  <2>3. Moves(r, q2, Calling(q.app, q.scope, "dryrun", q.m, q.tok))
    BY <1>7, <2>2 DEF Moves, Call
  <2> QED BY <1>5, <1>7, <2>1, <2>3 DEF Verbs
<1> QED BY <1>4, <1>6, <1>7 DEF Operate, IssuePreview, Asks

\* A request before its first call, or after its last, has nothing to do with the gate.
LEMMA OtherHandlersGate ==
  ASSUME EditInv, GateInv, NEW r \in Requests,
         Consume(r) \/ StartForward(r) \/ Leave(r) \/ \E f \in Requests : DeleteForward(r, f)
  PROVE  GateInv'
<1> USE Zenon
<1> DEFINE q == req[r]
<1>1. UNCHANGED <<held, ops, disc, call, reg>>
  BY DEF Consume, StartForward, Leave, DeleteForward, adapterVars
<1>2. q.pc \in {"consume", "reserve", "resolve", "await", "unreserve", "delete", "stop", "free", "leaving"}
  BY DEF Consume, StartForward, Leave, DeleteForward
<1>3. call[r] = Idle /\ (q \in Served \/ q \in Deleting \/ q.pc = "leaving") /\ req = [x \in Requests |-> req[x]]
  <2>1. CASE q.pc \in {"stop", "free", "leaving"}
    BY <2>1, OthersRest DEF EditInv, CallersFit
  <2>2. CASE q.pc \notin {"stop", "free", "leaving"}
    BY <1>2, <2>2, ActiveIsServed DEF Active, Stages, Waiting, EditInv, CallersFit
  <2> QED BY <2>1, <2>2
<1>4. ASSUME NEW pc, Goto(r, pc), q \in Served \union Deleting,
             \/ q.pc \in {"consume", "reserve"} /\ pc \in {"lookup", "leaving"}
             \/ q.pc = "resolve" /\ pc \in {"unreserve", "leaving", "await"}
             \/ q.pc = "await" /\ pc \in {"leaving", "unreserve"}
             \/ q.pc \in {"unreserve", "delete", "free"} /\ pc = "leaving"
             \/ q.pc = "stop" /\ pc = "free"
      PROVE  GateInv'
  <2> DEFINE q2 == [q EXCEPT !.pc = pc]
  <2>1. q2.pc = pc /\ req' = [req EXCEPT ![r] = q2]
    BY <1>4 DEF Served, Deleting, Goto
  <2> HIDE DEF q2
  <2>2. Later(q, q2) /\ (q2.pc = "lookup" => q.pc \notin Behind("probe"))
    BY <1>4, <2>1 DEF Later, Behind, Verbs, Ending
  <2> QED BY <1>1, <1>3, <2>1, <2>2, QuietGate
<1>5. CASE Consume(r) \/ StartForward(r)
  <2>1. q \in Served
    BY <1>2, <1>5, ActiveIsServed DEF Consume, StartForward, Active, Stages, Waiting
  <2>2. CASE Consume(r)
    <3>1. q.pc = "consume" /\ \E pc \in {"lookup", "leaving"} : Goto(r, pc)
      BY <2>2 DEF Consume
    <3> QED BY <1>4, <2>1, <3>1
  <2>3. CASE StartForward(r)
    <3>1. \/ q.pc = "reserve" /\ \E pc \in {"lookup", "leaving"} : Goto(r, pc)
          \/ q.pc = "resolve" /\ \E pc \in {"unreserve", "leaving", "await"} : Goto(r, pc)
          \/ q.pc = "await" /\ \E pc \in {"leaving", "unreserve"} : Goto(r, pc)
          \/ q.pc = "unreserve" /\ Goto(r, "leaving")
      BY <2>3 DEF StartForward, Fail
    <3> QED BY <1>4, <2>1, <3>1
  <2> QED BY <1>5, <2>2, <2>3
<1>6. CASE Leave(r)
  <2> DEFINE q2 == [pc |-> "gone"]
  <2>1. q2.pc = "gone" /\ req' = [req EXCEPT ![r] = q2] /\ q.pc = "leaving"
    BY <1>6 DEF Leave
  <2> HIDE DEF q2
  <2>2. Later(q, q2) /\ q2.pc # "lookup"
    BY <2>1 DEF Later, Behind, Verbs, Ending
  <2> QED BY <1>1, <1>3, <2>1, <2>2, QuietGate
<1>7. ASSUME NEW f \in Requests, DeleteForward(r, f) PROVE GateInv'
  <2>1. q.pc \in {"delete", "stop", "free"}
    BY <1>7 DEF DeleteForward
  <2>2. q \in Served \union Deleting
    BY <1>3, <2>1
  <2>3. CASE \/ q.pc \in {"delete", "free"} /\ Goto(r, "leaving")
             \/ q.pc = "stop" /\ Goto(r, "free")
    BY <1>4, <2>2, <2>3
  <2>4. CASE q.pc = "delete" /\ req' = [req EXCEPT ![r] = [pc |-> "stop", app |-> q.app, of |-> f]]
    <3> DEFINE q2 == [pc |-> "stop", app |-> q.app, of |-> f]
    <3>1. q2.pc = "stop" /\ req' = [req EXCEPT ![r] = q2]
      BY <2>4
    <3> HIDE DEF q2
    <3>2. Later(q, q2) /\ q2.pc # "lookup"
      BY <2>4, <3>1 DEF Later, Behind, Verbs, Ending
    <3> QED BY <1>1, <1>3, <3>1, <3>2, QuietGate
  <2> QED BY <1>7, <2>3, <2>4 DEF DeleteForward
<1> QED BY <1>5, <1>6, <1>7

\* A request that arrives has started nothing.
LEMMA ArriveGate ==
  ASSUME EditInv, GateInv, NEW r \in Requests, Arrivals(r) PROVE GateInv'
<1>1. /\ UNCHANGED <<held, ops, disc, call, reg>> /\ req[r].pc = "new"
      /\ \E q2 : req' = [req EXCEPT ![r] = q2]
  BY DEF Arrivals, Arrive, adapterVars
<1>2. PICK q2 : req' = [req EXCEPT ![r] = q2]
  BY <1>1, Zenon
<1>3. Later(req[r], q2) /\ req[r].pc \notin Behind("probe")
  BY <1>1, Zenon DEF Later, Behind, Verbs, Ending
<1>4. call[r] = Idle
  <2> USE Zenon
  <2>1. RequestFits(call[r], req[r], obj, reviewed)
    BY DEF EditInv, CallersFit
  <2> QED BY <1>1, <2>1 DEF RequestFits, Served, Stages, Waiting
<1> QED BY <1>1, <1>2, <1>3, <1>4, QuietGate, Zenon

-----------------------------------------------------------------------------
(***************************************************************************)
(* The gate                                                                *)
(***************************************************************************)
\* A call that is ahead of its operation was so before, and asks the same.
NotBack(k, k2) == (k2.st \in Ahead => k.st \in Ahead /\ k2.verb = k.verb) /\ (k = Idle => k2 = Idle)

\* A step of calls keeps what the callers of the running operations have done.
LEMMA CallsPast ==
  ASSUME EditInv, GateInv, UNCHANGED <<req, reg, disc>>, \A c \in Callers : NotBack(call[c], call'[c])
  PROVE  \A op \in ops : OperationPast(op)'
<1> USE Zenon
<1> TAKE op \in ops
<1>1. OperationPast(op) /\ op.c \in Callers
  BY DEF GateInv, OncePerCaller, EditInv, CallersFit, OperationFits, Operations
<1>2. NotBack(call[op.c], call'[op.c])
  BY <1>1
<1>3. op.c \in Requests => StartedBy(op, call'[op.c], req'[op.c], reg')
  BY <1>1, <1>2 DEF OperationPast, StartedBy, NotBack
<1>4. op.c \in Probes => call'[op.c].st \notin Ahead /\ disc'[op.c[1]] # "idle"
  BY <1>1, <1>2 DEF OperationPast, NotBack
<1> QED BY <1>3, <1>4 DEF OperationPast

\* Such a step has the count and its own operations to account for.
LEMMA CallsGate ==
  ASSUME EditInv, GateInv, UNCHANGED <<req, reg, disc>>, \A c \in Callers : NotBack(call[c], call'[c]),
         held' = [a \in Apps |-> held'[a]], \A a \in Apps : held'[a] \in [Scopes -> Nat], GateCounts',
         \A op \in ops' : op \in ops \/ OperationPast(op)',
         \A op, op2 \in ops' : op.c = op2.c /\ op.verb = op2.verb => op = op2
  PROVE  GateInv'
<1> USE Zenon
<1>1. OncePerCaller'
  BY CallsPast DEF OncePerCaller
<1>2. \A a \in Apps, s \in Scopes : disc'[a] = "idle" => call'[<<a, s>>] = Idle
  <2>1. \A a \in Apps, s \in Scopes : <<a, s>> \in Callers
    BY DEF Callers, Probes
  <2> QED BY <2>1 DEF GateInv, NotBack
<1> QED BY <1>1, <1>2 DEF GateInv

\* The others, when a caller moves alone.
LEMMA AloneMoves ==
  ASSUME EditInv, NEW c \in Callers, NEW k2, call' = [call EXCEPT ![c] = k2]
  PROVE  /\ call'[c] = k2 /\ \A x \in Callers : x # c => call'[x] = call[x]
         /\ NotBack(call[c], k2) => \A x \in Callers : NotBack(call[x], call'[x])
<1> USE Zenon
<1>1. call'[c] = k2 /\ \A x \in Callers : x # c => call'[x] = call[x]
  BY DEF EditInv, CallersFit
<1> QED BY <1>1 DEF NotBack

\* A caller that ends, expires or wakes, alone, is not counted before or after.
LEMMA UncountedGate ==
  ASSUME EditInv, GateInv, UNCHANGED <<req, reg, disc, held, ops>>, NEW c \in Callers, NEW k2,
         call' = [call EXCEPT ![c] = k2], NotBack(call[c], k2),
         \/ call[c].st # "granted" /\ k2.st \notin {"granted", "wait"}
         \/ k2.st = call[c].st /\ k2.app = call[c].app /\ k2.scope = call[c].scope
  PROVE  GateInv'
<1> USE Zenon
<1>1. /\ call'[c] = k2 /\ \A x \in Callers : x # c => call'[x] = call[x]
      /\ \A x \in Callers : NotBack(call[x], call'[x])
  BY AloneMoves
<1>2. \A a, s : InState(call', "granted", a, s) = InState(call, "granted", a, s)
  BY <1>1 DEF InState
<1>3. \A a, s : InState(call', "wait", a, s) \subseteq InState(call, "wait", a, s)
  BY <1>1 DEF InState
<1>4. GateCounts'
  <2> SUFFICES ASSUME NEW a \in Apps, NEW s \in Scopes
               PROVE  Counts(held[a][s], OperationsOf(ops, a, s), InState(call', "granted", a, s), InState(call', "wait", a, s))
    BY DEF GateCounts
  <2>1. /\ Counts(held[a][s], OperationsOf(ops, a, s), InState(call, "granted", a, s), InState(call, "wait", a, s))
        /\ held[a][s] \in Nat
    BY DEF GateInv, GateCounts
  <2> QED BY <1>2, <1>3, <2>1, CountStays
<1>5. GateInv /\ \A op, op2 \in ops' : op.c = op2.c /\ op.verb = op2.verb => op = op2
  BY DEF GateInv, OncePerCaller
<1>6. held' = [a \in Apps |-> held'[a]] /\ \A a \in Apps : held'[a] \in [Scopes -> Nat]
  BY DEF GateInv
<1> QED BY <1>1, <1>4, <1>5, <1>6, CallsGate

\* What a call record says after a change of its state.
LEMMA NextState ==
  ASSUME NEW k \in Calls, NEW st
  PROVE  [k EXCEPT !.st = st].st = st /\ [k EXCEPT !.st = st].app = k.app /\ [k EXCEPT !.st = st].scope = k.scope
         /\ [k EXCEPT !.st = st].verb = k.verb
BY Zenon DEF Calls

\* Waking, leaving and expiring.
LEMMA LeavingGate ==
  ASSUME EditInv, GateInv, UNCHANGED req, NEW c \in Callers, Awake(c) \/ Receive(c) \/ Expire(c) PROVE GateInv'
<1> DEFINE k == call[c]
<1>1. UNCHANGED <<held, ops, reg, disc, obj, writes>> /\ k.st \notin {"idle", "ended"}
  BY Zenon DEF Awake, Receive, Expire, Abandon
<1>2. k \in Calls /\ k # Idle
  BY <1>1, InCall DEF EditInv, Idle
<1>3. ASSUME NEW res, call' = [call EXCEPT ![c] = Ended(res)], k.st # "granted" PROVE GateInv'
  <2> USE Zenon
  <2>1. Ended(res).st = "ended" /\ NotBack(k, Ended(res))
    BY <1>2 DEF Ended, NotBack, Ahead
  <2> QED BY <1>1, <1>3, <2>1, UncountedGate
<1>4. CASE Awake(c)
  <2> USE Zenon
  <2>1. CASE k.st = "woken" /\ call' = [call EXCEPT ![c].st = "acquire"]
    <3> DEFINE k2 == [k EXCEPT !.st = "acquire"]
    <3>1. k2.st = "acquire" /\ k2.verb = k.verb /\ call' = [call EXCEPT ![c] = k2]
      BY <1>2, <2>1, NextState
    <3> HIDE DEF k2
    <3>2. NotBack(k, k2)
      BY <1>2, <2>1, <3>1 DEF NotBack, Ahead
    <3> QED BY <1>1, <2>1, <3>1, <3>2, UncountedGate
  <2> QED BY <1>3, <1>4, <2>1 DEF Awake
<1>5. CASE Receive(c)
  BY <1>3, <1>5, Zenon DEF Receive, Abandon
<1>6. CASE Expire(c)
  <2> USE Zenon
  <2> DEFINE k2 == [k EXCEPT !.expired = TRUE]
  <2>1. k2.st = k.st /\ k2.app = k.app /\ k2.scope = k.scope /\ k2.verb = k.verb /\ call' = [call EXCEPT ![c] = k2]
    BY <1>2, <1>6 DEF Expire, Calls
  <2> HIDE DEF k2
  <2>2. NotBack(k, k2)
    BY <1>2, <2>1 DEF NotBack
  <2> QED BY <1>1, <2>1, <2>2, UncountedGate
<1> QED BY <1>4, <1>5, <1>6, Zenon

\* acquire.
LEMMA AcquireGate ==
  ASSUME Counting, EditInv, GateInv, UNCHANGED req, NEW c \in Callers, Acquire(c) PROVE GateInv'
<1> DEFINE k == call[c]
<1>1. UNCHANGED <<ops, reg, disc>> /\ k.st = "acquire"
  BY Zenon DEF Acquire
<1>2. k \in Calls /\ k # Idle
  BY <1>1, InCall DEF EditInv, Idle
<1>3. k.app \in Apps /\ k.scope \in Scopes
  BY <1>2, Zenon DEF Calls
<1>4. ASSUME NEW st \in {"granted", "wait"}, call' = [call EXCEPT ![c].st = st]
      PROVE  /\ call'[c].st = st /\ call'[c].app = k.app /\ call'[c].scope = k.scope
             /\ \A x \in Callers : x # c => call'[x] = call[x]
             /\ \A x \in Callers : NotBack(call[x], call'[x])
  <2> USE Zenon
  <2> DEFINE k2 == [k EXCEPT !.st = st]
  <2>1. k2.st = st /\ k2.app = k.app /\ k2.scope = k.scope /\ k2.verb = k.verb /\ call' = [call EXCEPT ![c] = k2]
    BY <1>2, <1>4, NextState
  <2> HIDE DEF k2
  <2>2. NotBack(k, k2)
    BY <1>1, <1>2, <2>1 DEF NotBack, Ahead
  <2> QED BY <2>1, <2>2, AloneMoves
<1>5. \A op, op2 \in ops' : op.c = op2.c /\ op.verb = op2.verb => op = op2
  BY <1>1, Zenon DEF GateInv, OncePerCaller
<1>6. ASSUME NEW a \in Apps, NEW s \in Scopes
      PROVE  /\ Counts(held[a][s], OperationsOf(ops, a, s), InState(call, "granted", a, s), InState(call, "wait", a, s))
             /\ held[a][s] \in Nat
  BY Zenon DEF GateInv, GateCounts
<1>7. CASE call' = [call EXCEPT ![c] = Ended(Failure)] /\ UNCHANGED held
  <2> USE Zenon
  <2>1. Ended(Failure).st = "ended" /\ NotBack(k, Ended(Failure))
    BY <1>2 DEF Ended, NotBack, Ahead
  <2> QED BY <1>1, <1>7, <2>1, UncountedGate
<1>8. CASE /\ held[k.app][k.scope] < PerScope
           /\ held' = [held EXCEPT ![k.app][k.scope] = @ + 1]
           /\ call' = [call EXCEPT ![c].st = "granted"]
  <2>1. /\ call'[c].st = "granted" /\ call'[c].app = k.app /\ call'[c].scope = k.scope
        /\ \A x \in Callers : x # c => call'[x] = call[x]
        /\ \A x \in Callers : NotBack(call[x], call'[x])
    BY <1>4, <1>8, Zenon
  <2>2. /\ held' = [a \in Apps |-> held'[a]] /\ \A a \in Apps : held'[a] \in [Scopes -> Nat]
        /\ \A a \in Apps, s \in Scopes : held'[a][s] = IF a = k.app /\ s = k.scope THEN held[a][s] + 1 ELSE held[a][s]
    <3> DEFINE g == [held[k.app] EXCEPT ![k.scope] = @ + 1]
    <3>1. held[k.app] \in [Scopes -> Nat]
      BY <1>3, Zenon DEF GateInv
    <3>2. /\ g \in [Scopes -> Nat]
          /\ \A s \in Scopes : g[s] = IF s = k.scope THEN held[k.app][s] + 1 ELSE held[k.app][s]
      BY <1>3, <3>1
    <3>3. held' = [held EXCEPT ![k.app] = g]
      BY <1>8, Zenon
    <3> HIDE DEF g
    <3> QED BY <1>3, <3>2, <3>3, Zenon DEF GateInv
  <2>3. ASSUME NEW a \in Apps, NEW s \in Scopes
        PROVE  Counts(held'[a][s], OperationsOf(ops, a, s), InState(call', "granted", a, s), InState(call', "wait", a, s))
    <3>1. InState(call', "wait", a, s) = InState(call, "wait", a, s)
      BY <1>1, <2>1, Zenon DEF InState
    <3>2. CASE a = k.app /\ s = k.scope
      <4>1. InState(call', "granted", a, s) = InState(call, "granted", a, s) \union {c}
        BY <2>1, <3>2, Zenon DEF InState
      <4>2. c \notin InState(call, "granted", a, s)
        BY <1>1, Zenon DEF InState
      <4>3. held[a][s] < PerScope /\ held'[a][s] = held[a][s] + 1
        BY <1>8, <2>2, <3>2, Zenon
      <4> QED BY <1>6, <3>1, <4>1, <4>2, <4>3, CountAdmits
    <3>3. CASE ~(a = k.app /\ s = k.scope)
      <4> USE Zenon
      <4>1. InState(call', "granted", a, s) = InState(call, "granted", a, s)
        BY <1>1, <2>1, <3>3 DEF InState
      <4> QED BY <1>6, <2>2, <3>1, <3>3, <4>1
    <3> QED BY <3>2, <3>3, Zenon
  <2>4. GateCounts'
    BY <1>1, <2>3, Zenon DEF GateCounts
  <2> QED BY <1>1, <1>5, <2>1, <2>2, <2>4, CallsGate, Zenon
<1>9. CASE held[k.app][k.scope] = PerScope /\ call' = [call EXCEPT ![c].st = "wait"] /\ UNCHANGED held
  <2> USE Zenon
  <2>1. /\ call'[c].st = "wait" /\ call'[c].app = k.app /\ call'[c].scope = k.scope
        /\ \A x \in Callers : x # c => call'[x] = call[x]
        /\ \A x \in Callers : NotBack(call[x], call'[x])
    BY <1>4, <1>9
  <2>2. ASSUME NEW a \in Apps, NEW s \in Scopes
        PROVE  Counts(held[a][s], OperationsOf(ops, a, s), InState(call', "granted", a, s), InState(call', "wait", a, s))
    <3>1. InState(call', "granted", a, s) = InState(call, "granted", a, s)
      BY <1>1, <2>1 DEF InState
    <3>2. CASE a = k.app /\ s = k.scope
      BY <1>6, <1>9, <3>1, <3>2, CountSleeps
    <3>3. CASE ~(a = k.app /\ s = k.scope)
      <4>1. InState(call', "wait", a, s) = InState(call, "wait", a, s)
        BY <1>1, <2>1, <3>3 DEF InState
      <4> QED BY <1>6, <3>1, <4>1
    <3> QED BY <3>2, <3>3
  <2>3. GateCounts' /\ held' = [a \in Apps |-> held'[a]] /\ \A a \in Apps : held'[a] \in [Scopes -> Nat]
    BY <1>1, <1>9, <2>2 DEF GateCounts, GateInv
  <2> QED BY <1>1, <1>5, <2>1, <2>3, CallsGate
<1> QED BY <1>7, <1>8, <1>9, Zenon DEF Acquire

(***************************************************************************)
(* Places given back                                                       *)
(***************************************************************************)
\* A release takes one from one count.
LEMMA OneLess ==
  ASSUME GateInv, NEW a \in Apps, NEW s \in Scopes, held' = [held EXCEPT ![a][s] = @ - 1], held[a][s] - 1 \in Nat
  PROVE  /\ held' = [b \in Apps |-> held'[b]] /\ \A b \in Apps : held'[b] \in [Scopes -> Nat]
         /\ \A b \in Apps, t \in Scopes : held'[b][t] = IF b = a /\ t = s THEN held[b][t] - 1 ELSE held[b][t]
<1> USE Zenon
<1> DEFINE g == [held[a] EXCEPT ![s] = @ - 1]
<1>1. held[a] \in [Scopes -> Nat]
  BY DEF GateInv
<1>2. g \in [Scopes -> Nat] /\ \A t \in Scopes : g[t] = IF t = s THEN held[a][t] - 1 ELSE held[a][t]
  BY <1>1
<1>3. held' = [held EXCEPT ![a] = g]
  OBVIOUS
<1> HIDE DEF g
<1> QED BY <1>2, <1>3 DEF GateInv

\* It wakes every sleeper of its gate, and admits nobody.
LEMMA AllWake ==
  ASSUME NEW k, NEW k2, NEW a, k2 = Waken(k, a), \A c \in Callers : k[c].st = "wait" => k[c] \in Calls
  PROVE  /\ \A c \in Callers : Wakes(k[c], k2[c]) /\ NotBack(k[c], k2[c])
         /\ \A s : InState(k2, "wait", a, s) = {}
         /\ \A b, s : InState(k2, "wait", b, s) \subseteq InState(k, "wait", b, s)
         /\ \A b, s : InState(k2, "granted", b, s) = InState(k, "granted", b, s)
<1>1. ASSUME NEW c \in Callers
      PROVE  \/ k2[c] = k[c] /\ ~(k[c].st = "wait" /\ k[c].app = a)
             \/ /\ k2[c] = [k[c] EXCEPT !.st = "woken"] /\ k[c].st = "wait" /\ k[c].app = a /\ k[c] \in Calls
                /\ k2[c].st = "woken" /\ k2[c].verb = k[c].verb
  <2>1. CASE k[c].st = "wait" /\ k[c].app = a
    <3>1. k2[c] = [k[c] EXCEPT !.st = "woken"] /\ k[c] \in Calls
      BY <2>1, Zenon DEF Waken
    <3> QED BY <2>1, <3>1, NextState
  <2>2. CASE ~(k[c].st = "wait" /\ k[c].app = a)
    BY <2>2, Zenon DEF Waken
  <2> QED BY <2>1, <2>2, Zenon
<1>2. ASSUME NEW c \in Callers PROVE Wakes(k[c], k2[c]) /\ NotBack(k[c], k2[c])
  BY <1>1 DEF Wakes, NotBack, Ahead, Idle
<1>3. \A s : InState(k2, "wait", a, s) = {}
  BY <1>1, ZenonT(30) DEF InState
<1>4. \A b, s : InState(k2, "wait", b, s) \subseteq InState(k, "wait", b, s)
  BY <1>1, Zenon DEF InState
<1>5. \A b, s : InState(k2, "granted", b, s) = InState(k, "granted", b, s)
  BY <1>1, Zenon DEF InState
<1> QED BY <1>2, <1>3, <1>4, <1>5, Zenon

\* The goroutine's deferred release.
LEMMA FinishGate ==
  ASSUME Counting, EditInv, GateInv, UNCHANGED req, NEW op \in ops, Finish(op) PROVE GateInv'
<1>1. /\ ops' = ops \ {op} /\ held' = [held EXCEPT ![op.app][op.scope] = @ - 1] /\ call' = Waken(call, op.app)
      /\ UNCHANGED <<reg, disc>>
  BY Zenon DEF Finish, Release
<1>2. op.app \in Apps /\ op.scope \in Scopes
  BY Zenon DEF EditInv, CallersFit, OperationFits, Operations
<1>3. \A c \in Callers : call[c].st = "wait" => call[c] \in Calls
  BY InCall, Zenon DEF EditInv
<1>4. /\ \A c \in Callers : NotBack(call[c], call'[c])
      /\ \A s : InState(call', "wait", op.app, s) = {}
      /\ \A b, s : InState(call', "wait", b, s) \subseteq InState(call, "wait", b, s)
      /\ \A b, s : InState(call', "granted", b, s) = InState(call, "granted", b, s)
  BY <1>1, <1>3, AllWake
<1>5. ASSUME NEW a \in Apps, NEW s \in Scopes
      PROVE  /\ Counts(held[a][s], OperationsOf(ops, a, s), InState(call, "granted", a, s), InState(call, "wait", a, s))
             /\ held[a][s] \in Nat
  BY Zenon DEF GateInv, GateCounts
<1>6. /\ Counts(held[op.app][op.scope] - 1, OperationsOf(ops, op.app, op.scope) \ {op},
                InState(call, "granted", op.app, op.scope), {})
      /\ held[op.app][op.scope] - 1 \in Nat
  <2> USE Zenon
  <2>1. op \in OperationsOf(ops, op.app, op.scope)
    BY DEF OperationsOf
  <2> QED BY <1>2, <1>5, <2>1, CountReleases
<1>7. /\ held' = [a \in Apps |-> held'[a]] /\ \A a \in Apps : held'[a] \in [Scopes -> Nat]
      /\ \A a \in Apps, s \in Scopes :
           held'[a][s] = IF a = op.app /\ s = op.scope THEN held[a][s] - 1 ELSE held[a][s]
  BY <1>1, <1>2, <1>6, OneLess, ZenonT(30)
<1>8. ASSUME NEW a \in Apps, NEW s \in Scopes
      PROVE  Counts(held'[a][s], OperationsOf(ops', a, s), InState(call', "granted", a, s), InState(call', "wait", a, s))
  <2>1. CASE a = op.app /\ s = op.scope
    <3> USE Zenon
    <3>1. OperationsOf(ops', a, s) = OperationsOf(ops, a, s) \ {op} /\ held'[a][s] = held[a][s] - 1
      BY <1>1, <1>7, <2>1 DEF OperationsOf
    <3> QED BY <1>4, <1>6, <2>1, <3>1
  <2>2. CASE ~(a = op.app /\ s = op.scope)
    <3>1. OperationsOf(ops', a, s) = OperationsOf(ops, a, s) /\ held'[a][s] = held[a][s]
      BY <1>1, <1>7, <2>2 DEF OperationsOf
    <3> QED BY <1>4, <1>5, <3>1, CountStays, Zenon
  <2> QED BY <2>1, <2>2, Zenon
<1>9. GateCounts'
  BY <1>8, Zenon DEF GateCounts
<1>10. \A o, o2 \in ops' : o.c = o2.c /\ o.verb = o2.verb => o = o2
  BY <1>1, Zenon DEF GateInv, OncePerCaller
<1> QED BY <1>1, <1>4, <1>7, <1>9, <1>10, CallsGate, Zenon

\* A caller that expired after its admission gives its place back.
LEMMA GivesBackGate ==
  ASSUME Counting, EditInv, GateInv, UNCHANGED <<req, reg, disc, ops>>, NEW c \in Callers, call[c].st = "granted",
         Release(call[c].app, call[c].scope, [call EXCEPT ![c] = Ended(Failure)])
  PROVE  GateInv'
<1> DEFINE k == call[c]
           mid == [call EXCEPT ![c] = Ended(Failure)]
<1>1. held' = [held EXCEPT ![k.app][k.scope] = @ - 1] /\ call' = Waken(mid, k.app)
  BY Zenon DEF Release
<1>2. k \in Calls /\ k # Idle
  BY InCall DEF EditInv, Idle
<1>3. k.app \in Apps /\ k.scope \in Scopes
  BY <1>2, Zenon DEF Calls
<1>4. mid[c] = Ended(Failure) /\ Ended(Failure).st = "ended" /\ \A x \in Callers : x # c => mid[x] = call[x]
  BY Zenon DEF EditInv, CallersFit, Ended
<1> HIDE DEF mid
<1>5. \A x \in Callers : mid[x].st = "wait" => mid[x] \in Calls
  BY <1>4, InCall, Zenon DEF EditInv
<1>6. /\ \A x \in Callers : NotBack(mid[x], call'[x])
      /\ \A s : InState(call', "wait", k.app, s) = {}
      /\ \A b, s : InState(call', "wait", b, s) \subseteq InState(mid, "wait", b, s)
      /\ \A b, s : InState(call', "granted", b, s) = InState(mid, "granted", b, s)
  BY <1>1, <1>5, AllWake
<1>7. \A x \in Callers : NotBack(call[x], call'[x])
  <2> USE Zenon
  <2>1. NotBack(call[c], mid[c])
    BY <1>2, <1>4 DEF NotBack, Ahead
  <2> QED BY <1>4, <1>6, <2>1 DEF NotBack
<1>8. \A b, s : InState(mid, "wait", b, s) \subseteq InState(call, "wait", b, s)
  BY <1>4, Zenon DEF InState
<1>9. ASSUME NEW a \in Apps, NEW s \in Scopes
      PROVE  /\ Counts(held[a][s], OperationsOf(ops, a, s), InState(call, "granted", a, s), InState(call, "wait", a, s))
             /\ held[a][s] \in Nat
  BY Zenon DEF GateInv, GateCounts
<1>10. /\ Counts(held[k.app][k.scope] - 1, OperationsOf(ops, k.app, k.scope),
                 InState(call, "granted", k.app, k.scope) \ {c}, {})
       /\ held[k.app][k.scope] - 1 \in Nat
  <2>1. c \in InState(call, "granted", k.app, k.scope)
    BY ZenonT(30) DEF InState
  <2> QED BY <1>3, <1>9, <2>1, CountReturns, Zenon
<1>11. /\ held' = [a \in Apps |-> held'[a]] /\ \A a \in Apps : held'[a] \in [Scopes -> Nat]
       /\ \A a \in Apps, s \in Scopes :
            held'[a][s] = IF a = k.app /\ s = k.scope THEN held[a][s] - 1 ELSE held[a][s]
  BY <1>1, <1>3, <1>10, OneLess, ZenonT(30)
<1>12. ASSUME NEW a \in Apps, NEW s \in Scopes
       PROVE  Counts(held'[a][s], OperationsOf(ops, a, s), InState(call', "granted", a, s), InState(call', "wait", a, s))
  <2>1. CASE a = k.app /\ s = k.scope
    <3>1. InState(mid, "granted", a, s) = InState(call, "granted", a, s) \ {c} /\ held'[a][s] = held[a][s] - 1
      BY <1>4, <1>11, <2>1 DEF InState
    <3> QED BY <1>6, <1>10, <2>1, <3>1, ZenonT(30)
  <2>2. CASE ~(a = k.app /\ s = k.scope)
    <3>1. InState(mid, "granted", a, s) = InState(call, "granted", a, s) /\ held'[a][s] = held[a][s]
      BY <1>4, <1>11, <2>2 DEF InState
    <3>2. InState(call', "wait", a, s) \subseteq InState(call, "wait", a, s)
      BY <1>6, <1>8, Zenon
    <3> QED BY <1>6, <1>9, <3>1, <3>2, CountStays, Zenon
  <2> QED BY <2>1, <2>2, Zenon
<1>13. GateCounts'
  BY <1>12, Zenon DEF GateCounts
<1>14. \A o, o2 \in ops' : o.c = o2.c /\ o.verb = o2.verb => o = o2
  BY Zenon DEF GateInv, OncePerCaller
<1> QED BY <1>7, <1>11, <1>13, <1>14, CallsGate, Zenon

(***************************************************************************)
(* Operations                                                              *)
(***************************************************************************)
\* A caller that is ahead of its operation has no operation like it.
LEMMA FirstOfItsKind ==
  ASSUME EditInv, GateInv, NEW c \in Callers, call[c].st \in Ahead
  PROVE  /\ \A op \in ops : ~(op.c = c /\ op.verb = call[c].verb)
         /\ c \in Requests => req[c].pc \in Behind(call[c].verb) /\ req[c].pc # "lookup"
         /\ c \in Probes => disc[c[1]] # "idle"
<1>1. call[c] \in Calls /\ call[c] # Idle /\ call[c] \notin EndedCalls
  BY InCall DEF EditInv, Ahead, Idle, EndedCalls
<1>2. CASE c \in Requests
  <2> USE Zenon
  <2>1. RequestFits(call[c], req[c], obj, reviewed)
    BY <1>2 DEF EditInv, CallersFit
  <2>2. CallFits(call[c], req[c]) /\ req[c].pc \in Waiting
    BY <1>1, <2>1 DEF RequestFits, CallFits
  <2>3. \/ req[c].pc = "probing" /\ call[c].verb = "probe"
        \/ req[c].pc \in Waiting \ {"probing"} /\ call[c].verb = req[c].pc
    BY <1>1, <2>2 DEF CallFits, Asked
  <2>4. req[c].pc \in Behind(call[c].verb) /\ req[c].pc # "lookup"
    BY <2>3 DEF Behind, Waiting
  <2>5. \A op \in ops : op.c = c => op.verb # call[c].verb
    BY <1>2, HandlerPast DEF StartedBy
  <2> QED BY <1>2, <2>4, <2>5, CallersAssumption
<1>3. CASE c \in Probes
  <2>1. PICK a \in Apps, s \in Scopes : c = <<a, s>>
    BY <1>3 DEF Probes
  <2>2. disc[c[1]] # "idle"
    BY <1>1, <2>1, Zenon DEF GateInv
  <2>3. \A op \in ops : op.c # c
    BY <1>3, Zenon DEF GateInv, OncePerCaller, OperationPast
  <2> QED BY <1>3, <2>2, <2>3, CallersAssumption, Zenon
<1> QED BY <1>2, <1>3, Zenon DEF Callers

\* After admission.
LEMMA LaunchGate ==
  ASSUME Counting, EditInv, GateInv, UNCHANGED req, NEW c \in Callers, Launch(c) PROVE GateInv'
<1> DEFINE k == call[c]
           k2 == [k EXCEPT !.st = "select"]
           op == [c |-> c, app |-> k.app, scope |-> k.scope, verb |-> k.verb, m |-> k.m, tok |-> k.tok,
                  st |-> "running"]
<1>1. UNCHANGED <<reg, disc>> /\ k.st = "granted"
  BY Zenon DEF Launch
<1>2. k \in Calls /\ k # Idle
  BY <1>1, InCall DEF EditInv, Idle
<1>3. CASE k.expired /\ Release(k.app, k.scope, [call EXCEPT ![c] = Ended(Failure)]) /\ UNCHANGED ops
  BY <1>1, <1>3, GivesBackGate, Zenon
<1>4. CASE ops' = ops \union {op} /\ call' = [call EXCEPT ![c].st = "select"] /\ UNCHANGED held
  <2>1. k2.st = "select" /\ call' = [call EXCEPT ![c] = k2]
    BY <1>2, <1>4, NextState, Zenon
  <2>2. op.c = c /\ op.app = k.app /\ op.scope = k.scope /\ op.verb = k.verb
    BY Zenon
  <2> HIDE DEF op, k2
  <2>3. /\ \A o \in ops : ~(o.c = c /\ o.verb = k.verb)
        /\ c \in Requests => req[c].pc \in Behind(k.verb) /\ req[c].pc # "lookup"
        /\ c \in Probes => disc[c[1]] # "idle"
    BY <1>1, FirstOfItsKind, Zenon DEF Ahead
  <2>4. NotBack(k, k2) /\ k2.st \notin Ahead
    BY <1>2, <2>1, Zenon DEF NotBack, Ahead
  <2>5. /\ call'[c] = k2 /\ \A x \in Callers : x # c => call'[x] = call[x]
        /\ \A x \in Callers : NotBack(call[x], call'[x])
    BY <2>1, <2>4, AloneMoves, Zenon
  <2>6. ASSUME NEW o, o = op PROVE OperationPast(o)'
    <3> USE Zenon
    <3>1. o.c = c /\ o.verb = k.verb
      BY <2>2, <2>6
    <3> QED BY <1>1, <2>3, <2>4, <2>5, <3>1 DEF OperationPast, StartedBy
  <2>7. \A o, o2 \in ops' : o.c = o2.c /\ o.verb = o2.verb => o = o2
    BY <1>4, <2>2, <2>3 DEF GateInv, OncePerCaller
  <2>8. ASSUME NEW a \in Apps, NEW s \in Scopes
        PROVE  Counts(held[a][s], OperationsOf(ops', a, s), InState(call', "granted", a, s), InState(call', "wait", a, s))
    <3>1. /\ Counts(held[a][s], OperationsOf(ops, a, s), InState(call, "granted", a, s), InState(call, "wait", a, s))
          /\ held[a][s] \in Nat
      BY Zenon DEF GateInv, GateCounts
    <3>2. InState(call', "wait", a, s) = InState(call, "wait", a, s)
      BY <1>1, <2>1, <2>5, Zenon DEF InState
    <3>3. CASE a = k.app /\ s = k.scope
      <4>1. OperationsOf(ops', a, s) = OperationsOf(ops, a, s) \union {op} /\ op \notin OperationsOf(ops, a, s)
        BY <1>4, <2>2, <2>3, <3>3, Zenon DEF OperationsOf
      <4>2. /\ InState(call', "granted", a, s) = InState(call, "granted", a, s) \ {c}
            /\ c \in InState(call, "granted", a, s)
        BY <1>1, <2>1, <2>5, <3>3, Zenon DEF InState
      <4> QED BY <3>1, <3>2, <4>1, <4>2, CountLaunches
    <3>4. CASE ~(a = k.app /\ s = k.scope)
      <4> USE Zenon
      <4>1. OperationsOf(ops', a, s) = OperationsOf(ops, a, s)
        BY <1>4, <2>2, <3>4 DEF OperationsOf
      <4>2. InState(call', "granted", a, s) = InState(call, "granted", a, s)
        BY <1>1, <2>1, <2>5, <3>4 DEF InState
      <4> QED BY <3>1, <3>2, <4>1, <4>2
    <3> QED BY <3>3, <3>4, Zenon
  <2>9. GateCounts' /\ held' = [a \in Apps |-> held'[a]] /\ \A a \in Apps : held'[a] \in [Scopes -> Nat]
    BY <1>4, <2>8, Zenon DEF GateCounts, GateInv
  <2>10. \A o \in ops' : o \in ops \/ OperationPast(o)'
    BY <1>4, <2>6, Zenon
  <2> QED BY <1>1, <2>5, <2>7, <2>9, <2>10, CallsGate, Zenon
<1> QED BY <1>3, <1>4, Zenon DEF Launch

\* The API server's answer.
LEMMA PerformGate ==
  ASSUME Counting, EditInv, GateInv, UNCHANGED req, NEW op \in ops, NEW answers \in BOOLEAN, Perform(op, answers) PROVE GateInv'
<1> DEFINE sent == [op EXCEPT !.st = "sent"]
<1>1. /\ ops' = (ops \ {op}) \union {sent} /\ UNCHANGED <<held, reg, disc>> /\ op.st = "running"
      /\ \/ UNCHANGED call
         \/ call[op.c].st = "select" /\ \E res : call' = [call EXCEPT ![op.c].res = res]
  <2> USE Zenon
  <2>1. CASE call[op.c].st = "select" /\ call[op.c].verb = op.verb
    BY <2>1 DEF Perform
  <2>2. CASE ~(call[op.c].st = "select" /\ call[op.c].verb = op.verb)
    BY <2>2 DEF Perform
  <2> QED BY <2>1, <2>2
<1>2. op \in Operations /\ op.c \in Callers
  BY Zenon DEF EditInv, CallersFit, OperationFits, Operations
<1>3. /\ sent.c = op.c /\ sent.app = op.app /\ sent.scope = op.scope /\ sent.verb = op.verb /\ sent.st = "sent"
      /\ sent # op
  BY <1>1, <1>2, Zenon DEF Operations
<1> HIDE DEF sent
<1>4. sent \notin ops
  BY <1>3, Zenon DEF GateInv, OncePerCaller
<1>5. \A x \in Callers :
        /\ call'[x].st = call[x].st /\ NotBack(call[x], call'[x])
        /\ call[x].st \in {"wait", "granted"} \/ call'[x].st \in {"wait", "granted"} => call'[x] = call[x]
  <2>1. CASE UNCHANGED call
    BY <2>1, Zenon DEF NotBack
  <2>2. CASE call[op.c].st = "select" /\ \E res : call' = [call EXCEPT ![op.c].res = res]
    <3>1. PICK res : call' = [call EXCEPT ![op.c].res = res]
      BY <2>2, Zenon
    <3> DEFINE k == call[op.c]
               k2 == [k EXCEPT !.res = res]
    <3>2. k \in Calls /\ k # Idle
      BY <1>2, <2>2, InCall DEF EditInv, Idle
    <3>3. k2.st = "select" /\ call' = [call EXCEPT ![op.c] = k2]
      BY <2>2, <3>1, <3>2, Zenon DEF Calls
    <3> HIDE DEF k2
    <3>4. NotBack(k, k2)
      BY <3>2, <3>3, Zenon DEF NotBack, Ahead
    <3>5. /\ call'[op.c] = k2 /\ \A x \in Callers : x # op.c => call'[x] = call[x]
          /\ \A x \in Callers : NotBack(call[x], call'[x])
      BY <1>2, <3>3, <3>4, AloneMoves, Zenon
    <3> QED BY <2>2, <3>3, <3>5, Zenon
  <2> QED BY <1>1, <2>1, <2>2, Zenon
<1>6. ASSUME NEW a \in Apps, NEW s \in Scopes
      PROVE  Counts(held[a][s], OperationsOf(ops', a, s), InState(call', "granted", a, s), InState(call', "wait", a, s))
  <2>1. /\ Counts(held[a][s], OperationsOf(ops, a, s), InState(call, "granted", a, s), InState(call, "wait", a, s))
        /\ held[a][s] \in Nat
    BY Zenon DEF GateInv, GateCounts
  <2>2. /\ InState(call', "wait", a, s) = InState(call, "wait", a, s)
        /\ InState(call', "granted", a, s) = InState(call, "granted", a, s)
    BY <1>5, Zenon DEF InState
  <2>3. CASE a = op.app /\ s = op.scope
    <3>1. /\ OperationsOf(ops', a, s) = (OperationsOf(ops, a, s) \ {op}) \union {sent}
          /\ op \in OperationsOf(ops, a, s) /\ sent \notin OperationsOf(ops, a, s)
      BY <1>1, <1>3, <1>4, <2>3, Zenon DEF OperationsOf
    <3> QED BY <2>1, <2>2, <3>1, CountSwaps
  <2>4. CASE ~(a = op.app /\ s = op.scope)
    <3> USE Zenon
    <3>1. OperationsOf(ops', a, s) = OperationsOf(ops, a, s)
      BY <1>1, <1>3, <2>4 DEF OperationsOf
    <3> QED BY <2>1, <2>2, <3>1
  <2> QED BY <2>3, <2>4, Zenon
<1>7. GateCounts' /\ held' = [a \in Apps |-> held'[a]] /\ \A a \in Apps : held'[a] \in [Scopes -> Nat]
  BY <1>1, <1>6, Zenon DEF GateCounts, GateInv
<1>8. \A o, o2 \in ops' : o.c = o2.c /\ o.verb = o2.verb => o = o2
  BY <1>1, <1>3 DEF GateInv, OncePerCaller
<1>9. OperationPast(sent)'
  <2> USE Zenon
  <2>1. OperationPast(op)'
    BY <1>1, <1>5, CallsPast
  <2> QED BY <1>3, <2>1 DEF OperationPast, StartedBy
<1>10. \A o \in ops' : o \in ops \/ OperationPast(o)'
  BY <1>1, <1>9, Zenon
<1> QED BY <1>1, <1>5, <1>7, <1>8, <1>10, CallsGate, Zenon

(***************************************************************************)
(* Discovery                                                               *)
(***************************************************************************)
\* The probes of one session change together, and are counted neither before nor after.
LEMMA ProbesGate ==
  ASSUME EditInv, GateInv, UNCHANGED <<req, held, ops>>, NEW a \in Apps, NEW d, d # "idle",
         disc' = [disc EXCEPT ![a] = d], RegistryOK(reg'), Learns(reg, reg'),
         \A c \in Callers : c \notin {a} \X Scopes => call'[c] = call[c],
         \A c \in {a} \X Scopes : {call[c].st, call'[c].st} \intersect {"granted", "wait"} = {},
         \A op \in ops : op.c \in {a} \X Scopes => call'[op.c].st \notin Ahead
  PROVE  GateInv'
<1>1. \A c \in Requests : c \in Callers /\ c \notin {a} \X Scopes
  BY CallersAssumption DEF Callers, Probes
<1>2. \A c \in Probes : c \in Callers /\ c \notin Requests /\ c[1] \in Apps
  BY CallersAssumption, Zenon DEF Callers, Probes
<1>3. disc' = [b \in Apps |-> disc'[b]] /\ \A b \in Apps : disc'[b] = IF b = a THEN d ELSE disc[b]
  BY Zenon DEF GateInv
<1>4. GateCounts'
  <2>1. \A st \in {"granted", "wait"} : \A b, s : InState(call', st, b, s) = InState(call, st, b, s)
    BY Zenon DEF InState
  <2> QED BY <2>1 DEF GateInv, GateCounts
<1>5. ASSUME NEW op \in ops PROVE OperationPast(op)'
  <2> USE Zenon
  <2>1. OperationPast(op) /\ op.c \in Callers
    BY DEF GateInv, OncePerCaller, EditInv, CallersFit, OperationFits, Operations
  <2>2. CASE op.c \in Requests
    <3>1. StartedBy(op, call[op.c], req[op.c], reg')
      BY <2>1, <2>2, StartedStays DEF OperationPast
    <3>2. call'[op.c] = call[op.c] /\ op.c \notin Probes
      BY <1>1, <2>2, CallersAssumption
    <3> QED BY <3>1, <3>2 DEF OperationPast
  <2>3. CASE op.c \in Probes
    <3>1. call'[op.c].st \notin Ahead
      BY <2>1, <2>3 DEF OperationPast
    <3>2. disc'[op.c[1]] # "idle"
      BY <1>2, <1>3, <2>1, <2>3 DEF OperationPast
    <3> QED BY <1>2, <2>3, <3>1, <3>2 DEF OperationPast
  <2> QED BY <2>1, <2>2, <2>3 DEF Callers
<1>6. OncePerCaller'
  BY <1>5, Zenon DEF GateInv, OncePerCaller
<1>7. \A b \in Apps, s \in Scopes : disc'[b] = "idle" => call'[<<b, s>>] = Idle
  <2>1. \A b \in Apps, s \in Scopes : <<b, s>> \in Callers /\ (b # a => <<b, s>> \notin {a} \X Scopes)
    BY Zenon DEF Callers, Probes
  <2> QED BY <1>3, <2>1 DEF GateInv
<1> QED BY <1>3, <1>4, <1>6, <1>7, Zenon DEF GateInv, RegistryOK

\* Discover starts every probe of a session once, and keeps all their answers or none.
LEMMA HydrateGate ==
  ASSUME EditInv, GateInv, NEW a \in Apps, Hydrate(a) PROVE GateInv'
<1>1. UNCHANGED <<req, held, ops>>
  BY Zenon DEF Hydrate, Discover, Discovered, appVars
<1>2. \A c \in {a} \X Scopes : c \in Callers /\ c \in Probes /\ c[1] = a /\ \E s \in Scopes : c = <<a, s>>
  BY DEF Callers, Probes
<1>3. CASE Discover(a)
  <2>1. /\ disc[a] = "idle" /\ disc' = [disc EXCEPT ![a] = "probing"] /\ UNCHANGED reg
        /\ call' = [c \in Callers |-> IF c \in {a} \X Scopes THEN Calling(a, c[2], "probe", NoManifest, 0) ELSE call[c]]
    BY <1>3, Zenon DEF Discover
  <2>2. \A c \in Callers : c \notin {a} \X Scopes => call'[c] = call[c]
    BY <2>1, Zenon
  <2>3. ASSUME NEW c \in {a} \X Scopes PROVE call[c].st = "idle" /\ call'[c].st = "acquire"
    <3>1. call'[c] = Calling(a, c[2], "probe", NoManifest, 0)
      BY <1>2, <2>1, Zenon
    <3>2. call[c] = Idle
      BY <1>2, <2>1 DEF GateInv
    <3> QED BY <3>1, <3>2 DEF Calling, Idle
  <2>4. ASSUME NEW op \in ops PROVE op.c \notin {a} \X Scopes
    <3> USE Zenon
    <3>1. OperationPast(op)
      BY DEF GateInv, OncePerCaller
    <3> QED BY <1>2, <2>1, <3>1 DEF OperationPast
  <2>5. \A c \in {a} \X Scopes : {call[c].st, call'[c].st} \intersect {"granted", "wait"} = {}
    BY <2>3, Zenon
  <2>6. RegistryOK(reg') /\ Learns(reg, reg')
    BY <2>1, SameRegistry, Zenon
  <2> QED BY <1>1, <2>1, <2>2, <2>4, <2>5, <2>6, ProbesGate, Zenon
<1>4. CASE Discovered(a, Cancelled(a))
  <2> USE Zenon
  <2>1. /\ \A s \in Scopes : call[<<a, s>>].st = "ended"
        /\ disc' = [disc EXCEPT ![a] = "done"]
        /\ call' = [c \in Callers |-> IF c \in {a} \X Scopes THEN Idle ELSE call[c]]
    BY <1>4 DEF Discovered
  <2>2. \A c \in Callers : c \notin {a} \X Scopes => call'[c] = call[c]
    BY <2>1
  <2>3. \A c \in {a} \X Scopes : call[c].st = "ended" /\ call'[c].st = "idle"
    BY <1>2, <2>1 DEF Idle
  <2>4. RegistryOK(reg') /\ Learns(reg, reg')
    <3> DEFINE new == [discovered |-> TRUE, scope |-> [s \in Scopes |-> Reached(<<a, s>>)]]
    <3>1. CASE UNCHANGED reg
      BY <3>1, SameRegistry
    <3>2. CASE reg' = [reg EXCEPT ![a] = new]
      <4>1. /\ new \in [discovered : BOOLEAN, scope : [Scopes -> {"unknown", "up", "down"}]]
            /\ \A s \in Scopes : new.scope[s] # "unknown"
        BY DEF Reached
      <4> HIDE DEF new
      <4>2. \A b \in Apps : reg'[b] = IF b = a THEN new ELSE reg[b]
        BY <3>2 DEF GateInv
      <4>3. reg' = [b \in Apps |-> reg'[b]]
        BY <3>2 DEF GateInv
      <4> QED BY <4>1, <4>2, <4>3 DEF RegistryOK, Learns, GateInv
    <3> QED BY <1>4, <3>1, <3>2 DEF Discovered
  <2>5. \A c \in {a} \X Scopes : {call[c].st, call'[c].st} \intersect {"granted", "wait"} = {}
    BY <2>3
  <2>6. \A op \in ops : op.c \in {a} \X Scopes => call'[op.c].st \notin Ahead
    BY <2>3 DEF Ahead
  <2> QED BY <1>1, <2>1, <2>2, <2>4, <2>5, <2>6, ProbesGate
<1> QED BY <1>3, <1>4, Zenon DEF Hydrate

-----------------------------------------------------------------------------
\* Steps that do not touch the adapters or the handlers.
LEMMA ElsewhereGate ==
  ASSUME GateInv, UNCHANGED <<held, call, ops, reg, disc, req>> PROVE GateInv'
<1> USE Zenon
<1>1. GateCounts'
  BY DEF GateInv, GateCounts
<1>2. OncePerCaller'
  BY DEF GateInv, OncePerCaller, OperationPast
<1> QED BY <1>1, <1>2 DEF GateInv

\* Initially nothing runs.
LEMMA GateInit == ASSUME Counting PROVE Init => GateInv
<1> SUFFICES ASSUME Init PROVE GateInv
  BY Zenon
<1>1. /\ held = [a \in Apps |-> [s \in Scopes |-> 0]] /\ call = [c \in Callers |-> Idle] /\ ops = {}
      /\ reg = [a \in Apps |-> [discovered |-> FALSE, scope |-> [s \in Scopes |-> workload.known]]]
      /\ disc = [a \in Apps |-> "idle"] /\ workload.known \in {"unknown", "up", "down"}
  BY WorkloadsAssumption, Zenon DEF Init, AdapterInit, Environments
<1>2. held = [a \in Apps |-> held[a]] /\ \A a \in Apps : held[a] \in [Scopes -> Nat]
  BY <1>1, Zenon
<1>3. \A a \in Apps : reg[a] \in [discovered : BOOLEAN, scope : [Scopes -> {"unknown", "up", "down"}]]
  BY <1>1, Zenon
<1>4. \A a \in Apps, s \in Scopes : call[<<a, s>>] = Idle
  BY <1>1, Zenon DEF Callers, Probes
<1>5. GateCounts
  <2> SUFFICES ASSUME NEW a \in Apps, NEW s \in Scopes
               PROVE  Counts(held[a][s], OperationsOf(ops, a, s), InState(call, "granted", a, s), InState(call, "wait", a, s))
    BY Zenon DEF GateCounts
  <2>1. OperationsOf(ops, a, s) = {} /\ InState(call, "granted", a, s) = {} /\ InState(call, "wait", a, s) = {}
    BY <1>1, Zenon DEF OperationsOf, InState, Idle
  <2>2. Counts(0, {}, {}, {})
    BY DEF Counts, PerScope, Counting, NothingCounts
  <2> QED BY <1>1, <2>1, <2>2, Zenon
<1>6. OncePerCaller
  BY <1>1, Zenon DEF OncePerCaller
<1> QED BY <1>1, <1>2, <1>3, <1>4, <1>5, <1>6, Zenon DEF GateInv

\* And every step keeps it.
LEMMA GateStep == ASSUME Counting PROVE EditInv /\ GateInv /\ [Next]_vars => GateInv'
<1> USE Zenon
<1> SUFFICES ASSUME EditInv, GateInv, [Next]_vars PROVE GateInv'
  OBVIOUS
<1>1. ASSUME NEW r \in Requests, ServeStep(r) PROVE GateInv'
  BY <1>1, LookupGate, OperateGate, OtherHandlersGate DEF ServeStep
<1>2. ASSUME NEW r \in Requests, Connect(r) \/ Return(r) \/ Watch(r) \/ Monitor(r) PROVE GateInv'
  BY <1>2, ElsewhereGate DEF Connect, Return, Watch, Monitor, OnlyTunnel, adapterVars
<1>3. ASSUME NEW c \in Callers, CallStep(c) \/ Deadline(c) PROVE GateInv'
  <2>1. UNCHANGED req /\ (Acquire(c) \/ Awake(c) \/ Receive(c) \/ Expire(c) \/ Launch(c))
    BY <1>3 DEF CallStep, Deadline, appVars
  <2> QED BY <2>1, AcquireGate, LeavingGate, LaunchGate
<1>4. ASSUME NEW op \in ops, OperationStep(op) PROVE GateInv'
  <2>1. UNCHANGED req /\ (Finish(op) \/ \E answers \in BOOLEAN : Perform(op, answers))
    BY <1>4 DEF OperationStep, appVars
  <2> QED BY <2>1, FinishGate, PerformGate
<1>5. ASSUME NEW a \in Apps,
             \/ ImportDirectory(a) \/ CloseDrained(a) \/ CloseApplication(a)
             \/ \E r \in Requests : CloseOne(a, r)
      PROVE  GateInv'
  BY <1>5, ElsewhereGate DEF ImportDirectory, CloseDrained, CloseApplication, CloseOne, adapterVars
<1>6. CASE HostClose \/ Tick
  BY <1>6, ElsewhereGate DEF HostClose, Tick, adapterVars
<1>7. ASSUME NEW s \in Scopes, NEW fresh \in BOOLEAN, Foreign(s, fresh) PROVE GateInv'
  BY <1>7, ElsewhereGate DEF Foreign, ForeignWrite
<1>8. CASE UNCHANGED vars
  BY <1>8, ElsewhereGate DEF vars, adapterVars, appVars
<1> QED BY <1>1, <1>2, <1>3, <1>4, <1>5, <1>6, <1>7, <1>8, ArriveGate, HydrateGate DEF Next

\* What the gate counts is what it retains.
LEMMA CountsAreSound ==
  ASSUME GateInv
  PROVE  GateSound
<1> USE Zenon
<1> SUFFICES ASSUME NEW a \in Apps, NEW s \in Scopes
             PROVE  /\ held[a][s] = Retained(a, s) /\ held[a][s] <= PerScope
                    /\ held[a][s] < PerScope =>
                         ~\E c \in Callers : call[c].st = "wait" /\ call[c].app = a /\ call[c].scope = s
  BY DEF GateSound
<1>1. Counts(held[a][s], OperationsOf(ops, a, s), InState(call, "granted", a, s), InState(call, "wait", a, s))
  BY DEF GateInv, GateCounts
<1>2. Retained(a, s) = Cardinality(OperationsOf(ops, a, s)) + Cardinality(InState(call, "granted", a, s))
  BY DEF Retained, OperationsOf, InState
<1>3. ASSUME NEW c \in Callers, call[c].st = "wait" /\ call[c].app = a /\ call[c].scope = s
      PROVE  c \in InState(call, "wait", a, s)
  BY <1>3 DEF InState
<1> QED BY <1>1, <1>2, <1>3 DEF Counts

-----------------------------------------------------------------------------
(***************************************************************************)
(* The slots of the tunnels.  A slot is taken for a request, passes to its *)
(* tunnel when that is registered, and is given back once, by whoever      *)
(* comes first of the tunnel's end, its deletion and the session's Close.  *)
(***************************************************************************)
Tunnels == [st : {"running", "ended"}, app : Apps, ready : BOOLEAN, stop : BOOLEAN, done : BOOLEAN,
            monitor : {"none", "waiting", "freeing", "over"}, released : BOOLEAN]

Live(t) == t.st = "running" /\ ~t.stop
\* A tunnel that was registered.
Entered(t) == t \in Tunnels /\ t.monitor # "none"

\* How far a request is and the state of the tunnel it started.
TunnelFits(q, t) ==
  /\ q.pc \in {"reserve", "resolve", "await", "unreserve"} => q.kind = "forward"
  /\ q.pc = "await" => t \in Tunnels /\ t.monitor = "none" /\ t.app = q.app
  /\ \/ t = NoTunnel
     \/ /\ t \in Tunnels /\ q.pc \in {"await", "unreserve", "leaving", "gone"}
        /\ t.done \/ t.monitor \in {"freeing", "over"} => t.st = "ended"
        /\ t.released => t.monitor # "none"
        /\ Live(t) => q.pc = "await" \/ (t.monitor # "none" /\ ~t.released)

\* The session a request, a tunnel has a slot of; 0 if none.
ReservedOf(q) ==
  IF q.pc \in {"lookup", "probing", "client", "resolve", "await", "unreserve"} /\ q.kind = "forward" THEN q.app ELSE 0
HeldOf(t) == IF t.st # "none" /\ t.monitor # "none" /\ ~t.released THEN t.app ELSE 0
Reservers(rq, a) == {r \in Requests : ReservedOf(rq[r]) = a}
Holders(tn, a) == {r \in Requests : HeldOf(tn[r]) = a}

SlotsCounted(n, Q, H) ==
  IsFiniteSet(Q) /\ IsFiniteSet(H) /\ n = Cardinality(Q) + Cardinality(H) /\ n <= MaxForwards

\* Who is about to stop or release tunnel f.
DeletesEntered(q, tn) ==
  /\ q.pc \in {"stop", "free"} => q.of \in Requests /\ Entered(tn[q.of])
  /\ q.pc = "free" => ~Live(tn[q.of])

SlotInv ==
  /\ tunnel = [r \in Requests |-> tunnel[r]] /\ slots = [a \in Apps |-> slots[a]]
  /\ map \in [Apps -> SUBSET Requests] /\ left \in [Apps -> SUBSET Requests]
  /\ \A r \in Requests : TunnelFits(req[r], tunnel[r]) /\ DeletesEntered(req[r], tunnel)
  /\ \A a \in Apps : \A f \in map[a] \union left[a] : Entered(tunnel[f])
  /\ \A a \in Apps : SlotsCounted(slots[a], Reservers(req, a), Holders(tunnel, a))

\* What a step of one request or one tunnel adds to the count of session a.
Bump(x, y, a) == (IF y = a THEN 1 ELSE 0) - (IF x = a THEN 1 ELSE 0)

Owned(h, a) == {x \in Requests : h[x] = a}

\* It does so in the sets that are counted.
LEMMA OwnersCount ==
  ASSUME Counting, NEW h, NEW h2, NEW a, NEW r \in Requests, \A x \in Requests \ {r} : h2[x] = h[x],
         IsFiniteSet(Owned(h, a))
  PROVE  /\ IsFiniteSet(Owned(h2, a))
         /\ Cardinality(Owned(h2, a)) = Cardinality(Owned(h, a)) + Bump(h[r], h2[r], a)
         /\ Cardinality(Owned(h, a)) \in Nat
<1> DEFINE S == Owned(h, a)
           T == Owned(h2, a)
<1>1. T = (IF h2[r] = a THEN S \union {r} ELSE S \ {r}) /\ (r \in S <=> h[r] = a)
  BY Zenon DEF Owned
<1>2. IsFiniteSet(S)
  BY Zenon
<1> HIDE DEF S, T
<1>3. Cardinality(S) \in Nat
  BY <1>2, Zenon DEF Counting, CountsAreNatural
<1>4. CASE h2[r] = a
  <2>1. IsFiniteSet(T) /\ Cardinality(T) = IF r \in S THEN Cardinality(S) ELSE Cardinality(S) + 1
    BY <1>1, <1>2, <1>4, Zenon DEF Counting, AddingCounts
  <2> QED BY <1>1, <1>3, <1>4, <2>1 DEF Bump, S, T
<1>5. CASE h2[r] # a
  <2>1. IsFiniteSet(T) /\ Cardinality(T) = IF r \in S THEN Cardinality(S) - 1 ELSE Cardinality(S)
    BY <1>1, <1>2, <1>5, Zenon DEF Counting, RemovingCounts
  <2> QED BY <1>1, <1>3, <1>5, <2>1 DEF Bump, S, T
<1> QED BY <1>4, <1>5, Zenon

\* The requests that have a slot.
LEMMA ReserversMove ==
  ASSUME Counting, NEW rq, NEW rq2, NEW a, NEW r \in Requests, \A x \in Requests \ {r} : rq2[x] = rq[x],
         IsFiniteSet(Reservers(rq, a))
  PROVE  /\ IsFiniteSet(Reservers(rq2, a)) /\ Cardinality(Reservers(rq, a)) \in Nat
         /\ Cardinality(Reservers(rq2, a)) = Cardinality(Reservers(rq, a)) + Bump(ReservedOf(rq[r]), ReservedOf(rq2[r]), a)
<1> USE Zenon
<1> DEFINE h == [x \in Requests |-> ReservedOf(rq[x])]
           h2 == [x \in Requests |-> ReservedOf(rq2[x])]
<1>1. Reservers(rq, a) = Owned(h, a) /\ Reservers(rq2, a) = Owned(h2, a)
  BY DEF Reservers, Owned
<1>2. \A x \in Requests \ {r} : h2[x] = h[x]
  OBVIOUS
<1>3. h[r] = ReservedOf(rq[r]) /\ h2[r] = ReservedOf(rq2[r])
  OBVIOUS
<1> HIDE DEF h, h2
<1>4. IsFiniteSet(Owned(h, a))
  BY <1>1
<1>5. /\ IsFiniteSet(Owned(h2, a)) /\ Cardinality(Owned(h, a)) \in Nat
      /\ Cardinality(Owned(h2, a)) = Cardinality(Owned(h, a)) + Bump(h[r], h2[r], a)
  BY <1>2, <1>4, OwnersCount
<1> QED BY <1>1, <1>3, <1>5

\* The tunnels that have one.
LEMMA HoldersMove ==
  ASSUME Counting, NEW tn, NEW tn2, NEW a, NEW f \in Requests, \A x \in Requests \ {f} : tn2[x] = tn[x],
         IsFiniteSet(Holders(tn, a))
  PROVE  /\ IsFiniteSet(Holders(tn2, a)) /\ Cardinality(Holders(tn, a)) \in Nat
         /\ Cardinality(Holders(tn2, a)) = Cardinality(Holders(tn, a)) + Bump(HeldOf(tn[f]), HeldOf(tn2[f]), a)
<1> USE Zenon
<1> DEFINE h == [x \in Requests |-> HeldOf(tn[x])]
           h2 == [x \in Requests |-> HeldOf(tn2[x])]
<1>1. Holders(tn, a) = Owned(h, a) /\ Holders(tn2, a) = Owned(h2, a)
  BY DEF Holders, Owned
<1>2. \A x \in Requests \ {f} : h2[x] = h[x]
  OBVIOUS
<1>3. h[f] = HeldOf(tn[f]) /\ h2[f] = HeldOf(tn2[f])
  OBVIOUS
<1> HIDE DEF h, h2
<1>4. IsFiniteSet(Owned(h, a))
  BY <1>1
<1>5. /\ IsFiniteSet(Owned(h2, a)) /\ Cardinality(Owned(h, a)) \in Nat
      /\ Cardinality(Owned(h2, a)) = Cardinality(Owned(h, a)) + Bump(h[f], h2[f], a)
  BY <1>2, <1>4, OwnersCount
<1> QED BY <1>1, <1>3, <1>5

\* What was entered stays entered, and what does not live does not come back.
Settles(t, t2) == Entered(t) => Entered(t2) /\ (~Live(t) => ~Live(t2))

\* The tunnels in the map and in the hands of closeAll were there before, or have been entered.
MapsFit ==
  /\ map' \in [Apps -> SUBSET Requests] /\ left' \in [Apps -> SUBSET Requests]
  /\ \A a \in Apps : \A x \in map'[a] \union left'[a] : x \in map[a] \union left[a] \/ Entered(tunnel'[x])

\* The slots of each session move from x to x2 and from y to y2.
SlotsFollow(x, x2, y, y2) ==
  /\ slots' = [a \in Apps |-> slots'[a]]
  /\ \A a \in Apps : slots'[a] = slots[a] + Bump(x, x2, a) + Bump(y, y2, a) /\ slots'[a] <= MaxForwards

\* A step changes the record of request r and the tunnel of f.
Changes(r, q2, f, t2) == req' = [req EXCEPT ![r] = q2] /\ tunnel' = [tunnel EXCEPT ![f] = t2]

\* The handler of r and the tunnel of f fit in the next state.
BothFit(r, q2, f, t2) ==
  /\ r = f => TunnelFits(q2, t2)
  /\ r # f => TunnelFits(q2, tunnel[r]) /\ TunnelFits(req[f], t2)

\* A step of one handler and one tunnel.
LEMMA SlotsStep ==
  ASSUME Counting, SlotInv, CallersFit, NEW r \in Requests, NEW f \in Requests, NEW q2, NEW t2,
         Changes(r, q2, f, t2), BothFit(r, q2, f, t2), Settles(tunnel[f], t2),
         DeletesEntered(q2, tunnel'), MapsFit,
         SlotsFollow(ReservedOf(req[r]), ReservedOf(q2), HeldOf(tunnel[f]), HeldOf(t2))
  PROVE  SlotInv'
<1>1. /\ tunnel' = [x \in Requests |-> tunnel'[x]]
      /\ \A x \in Requests : req'[x] = IF x = r THEN q2 ELSE req[x]
      /\ \A x \in Requests : tunnel'[x] = IF x = f THEN t2 ELSE tunnel[x]
  BY Zenon DEF SlotInv, CallersFit, Changes
<1>2. \A x \in Requests : Settles(tunnel[x], tunnel'[x])
  BY <1>1, Zenon DEF Settles
<1>3. ASSUME NEW x \in Requests PROVE TunnelFits(req'[x], tunnel'[x])
  <2> USE Zenon
  <2>1. TunnelFits(req[x], tunnel[x])
    BY DEF SlotInv
  <2> QED BY <1>1, <2>1 DEF BothFit
<1>4. ASSUME NEW x \in Requests PROVE DeletesEntered(req'[x], tunnel')
  <2> USE Zenon
  <2>1. CASE x # r
    <3>1. req'[x] = req[x] /\ DeletesEntered(req[x], tunnel)
      BY <1>1, <2>1 DEF SlotInv
    <3> QED BY <1>2, <3>1 DEF DeletesEntered, Settles
  <2> QED BY <1>1, <2>1
<1>5. ASSUME NEW a \in Apps, NEW x \in map'[a] \union left'[a] PROVE Entered(tunnel'[x])
  <2> USE Zenon
  <2>1. x \in Requests
    BY <1>5 DEF MapsFit
  <2>2. x \in map[a] \union left[a] => Entered(tunnel[x])
    BY DEF SlotInv
  <2> QED BY <1>2, <1>5, <2>1, <2>2 DEF MapsFit, Settles
<1>6. ASSUME NEW a \in Apps PROVE SlotsCounted(slots'[a], Reservers(req', a), Holders(tunnel', a))
  <2>1. SlotsCounted(slots[a], Reservers(req, a), Holders(tunnel, a))
    BY Zenon DEF SlotInv
  <2>2. req'[r] = q2 /\ tunnel'[f] = t2
    BY <1>1, Zenon
  <2>4. \A x \in Requests \ {r} : req'[x] = req[x]
    BY <1>1, Zenon
  <2>5. \A x \in Requests \ {f} : tunnel'[x] = tunnel[x]
    BY <1>1, Zenon
  <2>3. IsFiniteSet(Reservers(req, a)) /\ IsFiniteSet(Holders(tunnel, a))
    BY <2>1, Zenon DEF SlotsCounted
  <2>6. /\ IsFiniteSet(Reservers(req', a)) /\ Cardinality(Reservers(req, a)) \in Nat
        /\ Cardinality(Reservers(req', a)) = Cardinality(Reservers(req, a)) + Bump(ReservedOf(req[r]), ReservedOf(req'[r]), a)
    BY <2>3, <2>4, ReserversMove, Zenon
  <2>7. /\ IsFiniteSet(Holders(tunnel', a)) /\ Cardinality(Holders(tunnel, a)) \in Nat
        /\ Cardinality(Holders(tunnel', a)) = Cardinality(Holders(tunnel, a)) + Bump(HeldOf(tunnel[f]), HeldOf(tunnel'[f]), a)
    BY <2>3, <2>5, HoldersMove, Zenon
  <2>8. Bump(ReservedOf(req[r]), ReservedOf(q2), a) \in Int /\ Bump(HeldOf(tunnel[f]), HeldOf(t2), a) \in Int
    BY DEF Bump
  <2>9. slots[a] = Cardinality(Reservers(req, a)) + Cardinality(Holders(tunnel, a))
    BY <2>1, Zenon DEF SlotsCounted
  <2>11. slots'[a] = slots[a] + Bump(ReservedOf(req[r]), ReservedOf(q2), a) + Bump(HeldOf(tunnel[f]), HeldOf(t2), a)
         /\ slots'[a] <= MaxForwards
    BY Zenon DEF SlotsFollow
  <2>10. slots'[a] = Cardinality(Reservers(req', a)) + Cardinality(Holders(tunnel', a))
    BY <2>2, <2>6, <2>7, <2>8, <2>9, <2>11
  <2> QED BY <2>6, <2>7, <2>10, <2>11, Zenon DEF SlotsCounted
<1> QED BY <1>1, <1>3, <1>4, <1>5, <1>6, Zenon DEF SlotInv, MapsFit, SlotsFollow

\* Counts are numbers, and 0 is no session.
LEMMA SlotNumbers ==
  ASSUME Counting, SlotInv
  PROVE  0 \notin Apps /\ \A a \in Apps : slots[a] \in Int /\ slots[a] <= MaxForwards
<1>1. ASSUME NEW a \in Apps PROVE slots[a] \in Int /\ slots[a] <= MaxForwards
  <2>1. SlotsCounted(slots[a], Reservers(req, a), Holders(tunnel, a))
    BY Zenon DEF SlotInv
  <2>2. Cardinality(Reservers(req, a)) \in Nat /\ Cardinality(Holders(tunnel, a)) \in Nat
    BY <2>1, Zenon DEF SlotsCounted, Counting, CountsAreNatural
  <2> QED BY <2>1, <2>2 DEF SlotsCounted
<1> QED BY <1>1, AppsAssumption, Zenon

\* The ways a slot goes: nowhere, from a request to its tunnel, to a request, back.
LEMMA SlotsRest ==
  ASSUME Counting, SlotInv, UNCHANGED slots, NEW x, NEW y
  PROVE  SlotsFollow(x, x, y, y) /\ SlotsFollow(x, y, y, x)
<1>1. \A a \in Apps : slots[a] \in Int /\ slots[a] <= MaxForwards
  BY SlotNumbers, Zenon
<1>2. ASSUME NEW a \in Apps PROVE slots[a] = slots[a] + Bump(x, x, a) + Bump(y, y, a)
  BY <1>1 DEF Bump
<1>3. ASSUME NEW a \in Apps PROVE slots[a] = slots[a] + Bump(x, y, a) + Bump(y, x, a)
  BY <1>1 DEF Bump
<1> QED BY <1>1, <1>2, <1>3, Zenon DEF SlotsFollow, SlotInv

\* reserve.
LEMMA SlotTaken ==
  ASSUME Counting, SlotInv, NEW b \in Apps, slots[b] < MaxForwards, slots' = [slots EXCEPT ![b] = @ + 1], NEW y
  PROVE  SlotsFollow(0, b, y, y)
<1>1. 0 \notin Apps /\ \A a \in Apps : slots[a] \in Int /\ slots[a] <= MaxForwards
  BY SlotNumbers, Zenon
<1>2. slots' = [a \in Apps |-> slots'[a]] /\ slots'[b] = slots[b] + 1 /\ \A a \in Apps \ {b} : slots'[a] = slots[a]
  BY Zenon DEF SlotInv
<1>3. ASSUME NEW a \in Apps PROVE slots'[a] = slots[a] + Bump(0, b, a) + Bump(y, y, a)
  BY <1>1, <1>2 DEF Bump
<1>4. slots[b] + 1 <= MaxForwards
  BY <1>1, AppAssumption
<1>5. \A a \in Apps : slots'[a] <= MaxForwards
  BY <1>1, <1>2, <1>4, Zenon
<1> QED BY <1>2, <1>3, <1>5, Zenon DEF SlotsFollow

\* releaseReservation.
LEMMA SlotFreed ==
  ASSUME Counting, SlotInv, NEW b \in Apps, slots' = [slots EXCEPT ![b] = @ - 1], NEW y
  PROVE  SlotsFollow(b, 0, y, y) /\ SlotsFollow(y, y, b, 0)
<1>1. 0 \notin Apps /\ \A a \in Apps : slots[a] \in Int /\ slots[a] <= MaxForwards
  BY SlotNumbers, Zenon
<1>2. slots' = [a \in Apps |-> slots'[a]] /\ slots'[b] = slots[b] - 1 /\ \A a \in Apps \ {b} : slots'[a] = slots[a]
  BY Zenon DEF SlotInv
<1>3. ASSUME NEW a \in Apps
      PROVE  slots'[a] = slots[a] + Bump(b, 0, a) + Bump(y, y, a) /\ slots'[a] = slots[a] + Bump(y, y, a) + Bump(b, 0, a)
  BY <1>1, <1>2 DEF Bump
<1>4. slots[b] - 1 <= MaxForwards
  BY <1>1, AppAssumption
<1>5. \A a \in Apps : slots'[a] <= MaxForwards
  BY <1>1, <1>2, <1>4, Zenon
<1> QED BY <1>2, <1>3, <1>5, Zenon DEF SlotsFollow

\* Steps elsewhere.
LEMMA ElsewhereSlots ==
  ASSUME SlotInv, UNCHANGED <<req, slots, map, left, tunnel>> PROVE SlotInv'
BY Zenon DEF SlotInv

\* Tunnels that were entered stay so.
LEMMA StaySettled ==
  ASSUME SlotInv, NEW q, DeletesEntered(q, tunnel), NEW f \in Requests, NEW t2, tunnel' = [tunnel EXCEPT ![f] = t2],
         Settles(tunnel[f], t2)
  PROVE  DeletesEntered(q, tunnel')
<1> USE Zenon
<1>1. \A x \in Requests : tunnel'[x] = IF x = f THEN t2 ELSE tunnel[x]
  BY DEF SlotInv
<1>2. \A x \in Requests : Settles(tunnel[x], tunnel'[x])
  BY <1>1 DEF Settles
<1> QED BY <1>2 DEF DeletesEntered, Settles

\* A handler goes on, with the slot it has or without one.
LEMMA HandlerSlots ==
  ASSUME Counting, SlotInv, CallersFit, NEW r \in Requests, NEW q2, req' = [req EXCEPT ![r] = q2],
         UNCHANGED <<slots, map, left, tunnel>>, TunnelFits(q2, tunnel[r]), ReservedOf(q2) = ReservedOf(req[r]),
         DeletesEntered(q2, tunnel)
  PROVE  SlotInv'
<1> USE Zenon
<1>1. Changes(r, q2, r, tunnel[r])
  BY DEF Changes, SlotInv
<1>2. BothFit(r, q2, r, tunnel[r]) /\ Settles(tunnel[r], tunnel[r]) /\ DeletesEntered(q2, tunnel')
  BY DEF BothFit, Settles
<1>3. MapsFit
  BY DEF SlotInv, MapsFit
<1>4. SlotsFollow(ReservedOf(req[r]), ReservedOf(q2), HeldOf(tunnel[r]), HeldOf(tunnel[r]))
  BY SlotsRest
<1> QED BY <1>1, <1>2, <1>3, <1>4, SlotsStep

\* A tunnel's goroutine or its closer goes on.
LEMMA TunnelSlots ==
  ASSUME Counting, SlotInv, CallersFit, NEW f \in Requests, NEW t2, tunnel' = [tunnel EXCEPT ![f] = t2],
         UNCHANGED req, TunnelFits(req[f], t2), Settles(tunnel[f], t2), MapsFit,
         \A x : SlotsFollow(x, x, HeldOf(tunnel[f]), HeldOf(t2))
  PROVE  SlotInv'
<1> USE Zenon
<1>1. Changes(f, req[f], f, t2)
  BY DEF Changes, CallersFit
<1>2. BothFit(f, req[f], f, t2)
  BY DEF BothFit
<1>3. DeletesEntered(req[f], tunnel')
  <2>1. DeletesEntered(req[f], tunnel)
    BY DEF SlotInv
  <2> QED BY <2>1, StaySettled
<1> QED BY <1>1, <1>2, <1>3, SlotsStep

\* A tunnel is there or not.
LEMMA NoTunnelIsNone == NoTunnel.st = "none" /\ NoTunnel \notin Tunnels /\ \A t \in Tunnels : t.st # "none"
BY DEF Tunnels, NoTunnel

\* A tunnel that stays as it is but for its progress.
LEMMA TunnelProgress ==
  ASSUME NEW q, NEW t, NEW t2, TunnelFits(q, t), t \in Tunnels, t2 \in Tunnels,
         t2.app = t.app, t2.monitor = t.monitor, t2.released = t.released,
         t2.done \/ t2.monitor \in {"freeing", "over"} => t2.st = "ended", Live(t2) => Live(t)
  PROVE  TunnelFits(q, t2) /\ Settles(t, t2) /\ HeldOf(t2) = HeldOf(t)
<1> USE Zenon
<1>1. t # NoTunnel /\ t.st # "none" /\ t2.st # "none"
  BY NoTunnelIsNone
<1>2. TunnelFits(q, t2)
  BY <1>1 DEF TunnelFits
<1>3. Settles(t, t2)
  BY DEF Settles, Entered
<1> QED BY <1>1, <1>2, <1>3 DEF HeldOf

\* A tunnel that was registered belongs to a request past its registration.
LEMMA EnteredFits ==
  ASSUME NEW q, NEW t, NEW t2, TunnelFits(q, t), Entered(t), Entered(t2),
         t2.done \/ t2.monitor \in {"freeing", "over"} => t2.st = "ended",
         Live(t2) => Live(t) /\ ~t2.released
  PROVE  TunnelFits(q, t2) /\ Settles(t, t2)
<1> USE Zenon
<1>1. t # NoTunnel
  BY NoTunnelIsNone DEF Entered
<1>2. TunnelFits(q, t2)
  BY <1>1 DEF TunnelFits, Entered
<1> QED BY <1>2 DEF Settles

\* Close: the stop channel.
LEMMA StoppedTunnel ==
  ASSUME NEW t \in Tunnels
  PROVE  /\ Stopped(t) \in Tunnels /\ ~Live(Stopped(t))
         /\ Stopped(t).app = t.app /\ Stopped(t).monitor = t.monitor /\ Stopped(t).released = t.released
         /\ Stopped(t).done = t.done /\ Stopped(t).st = t.st
BY Zenon DEF Stopped, Tunnels, Live

\* Stopping a tunnel keeps everything.
LEMMA StopFits ==
  ASSUME NEW q, NEW t \in Tunnels, TunnelFits(q, t)
  PROVE  TunnelFits(q, Stopped(t)) /\ Settles(t, Stopped(t)) /\ HeldOf(Stopped(t)) = HeldOf(t)
<1> USE Zenon
<1>1. t # NoTunnel
  BY NoTunnelIsNone
<1>2. Stopped(t).done \/ Stopped(t).monitor \in {"freeing", "over"} => Stopped(t).st = "ended"
  BY <1>1, StoppedTunnel DEF TunnelFits
<1> QED BY <1>2, StoppedTunnel, TunnelProgress

\* releaseOnce of a tunnel that was registered and does not live.
LEMMA ReleaseFits ==
  ASSUME Counting, SlotInv, NEW f \in Requests, Entered(tunnel[f]), NEW t \in Tunnels, ReleaseOnce(f, t),
         t.app = tunnel[f].app, t.monitor # "none", t.released = tunnel[f].released, ~Live(t),
         t.done \/ t.monitor \in {"freeing", "over"} => t.st = "ended"
  PROVE  LET t2 == [t EXCEPT !.released = TRUE]
         IN  /\ tunnel' = [tunnel EXCEPT ![f] = t2]
             /\ TunnelFits(req[f], t2) /\ Settles(tunnel[f], t2)
             /\ \A x : SlotsFollow(x, x, HeldOf(tunnel[f]), HeldOf(t2))
<1> USE Zenon
<1> DEFINE t2 == [t EXCEPT !.released = TRUE]
<1>1. /\ t2 \in Tunnels /\ t2.released /\ t2.monitor = t.monitor /\ t2.st = t.st /\ t2.stop = t.stop /\ t2.done = t.done
      /\ t2.st # "none" /\ tunnel[f].st # "none" /\ t.app \in Apps
  BY DEF Tunnels, Entered
<1>2. tunnel' = [tunnel EXCEPT ![f] = t2]
  BY DEF ReleaseOnce
<1> HIDE DEF t2
<1>3. TunnelFits(req[f], t2) /\ Settles(tunnel[f], t2)
  <2>1. TunnelFits(req[f], tunnel[f]) /\ Entered(t2) /\ ~Live(t2)
    BY <1>1 DEF SlotInv, Entered, Live
  <2> QED BY <1>1, <2>1, EnteredFits
<1>4. HeldOf(t2) = 0
  BY <1>1 DEF HeldOf
<1>5. ASSUME NEW x PROVE SlotsFollow(x, x, HeldOf(tunnel[f]), HeldOf(t2))
  <2>1. CASE t.released
    <3>1. HeldOf(tunnel[f]) = 0 /\ UNCHANGED slots
      BY <2>1 DEF HeldOf, ReleaseOnce
    <3> QED BY <1>4, <3>1, SlotsRest
  <2>2. CASE ~t.released
    <3>1. HeldOf(tunnel[f]) = t.app /\ slots' = [slots EXCEPT ![t.app] = @ - 1]
      BY <1>1, <2>2 DEF HeldOf, ReleaseOnce, Entered
    <3> QED BY <1>1, <1>4, <3>1, SlotFreed
  <2> QED BY <2>1, <2>2
<1> QED BY <1>2, <1>3, <1>5 DEF t2

\* run and the goroutine that ties the tunnel to its context.
LEMMA RunSlots ==
  ASSUME Counting, SlotInv, CallersFit, NEW r \in Requests, Connect(r) \/ Return(r) \/ Watch(r) PROVE SlotInv'
<1> USE Zenon
<1> DEFINE t == tunnel[r]
<1>1. UNCHANGED <<req, slots, map, left>> /\ t.st = "running"
  BY DEF Connect, Return, Watch, OnlyTunnel
<1>2. TunnelFits(req[r], t)
  BY DEF SlotInv
<1>3. t \in Tunnels /\ ~t.done /\ t.monitor \notin {"freeing", "over"}
  BY <1>1, <1>2, NoTunnelIsNone DEF TunnelFits
<1>4. PICK t2 \in Tunnels : /\ tunnel' = [tunnel EXCEPT ![r] = t2]
                            /\ t2.app = t.app /\ t2.monitor = t.monitor /\ t2.released = t.released
                            /\ t2.done => t2.st = "ended"
                            /\ Live(t2) => Live(t)
  <2>1. CASE Connect(r)
    <3>1. tunnel' = [tunnel EXCEPT ![r] = [t EXCEPT !.ready = TRUE]]
      BY <2>1 DEF Connect
    <3>2. LET t2 == [t EXCEPT !.ready = TRUE]
          IN  /\ t2 \in Tunnels /\ t2.app = t.app /\ t2.monitor = t.monitor /\ t2.released = t.released
              /\ t2.done => t2.st = "ended"
              /\ Live(t2) => Live(t)
      BY <1>3 DEF Tunnels, Live
    <3> QED BY <3>1, <3>2
  <2>2. CASE Return(r)
    <3>1. tunnel' = [tunnel EXCEPT ![r] = [t EXCEPT !.st = "ended", !.done = TRUE, !.stop = FALSE]]
      BY <2>2 DEF Return
    <3>2. LET t2 == [t EXCEPT !.st = "ended", !.done = TRUE, !.stop = FALSE]
          IN  /\ t2 \in Tunnels /\ t2.app = t.app /\ t2.monitor = t.monitor /\ t2.released = t.released
              /\ t2.done => t2.st = "ended"
              /\ Live(t2) => Live(t)
      BY <1>3 DEF Tunnels, Live
    <3> QED BY <3>1, <3>2
  <2>3. CASE Watch(r)
    <3>1. tunnel' = [tunnel EXCEPT ![r] = [t EXCEPT !.stop = TRUE]]
      BY <2>3 DEF Watch
    <3>2. LET t2 == [t EXCEPT !.stop = TRUE]
          IN  /\ t2 \in Tunnels /\ t2.app = t.app /\ t2.monitor = t.monitor /\ t2.released = t.released
              /\ t2.done => t2.st = "ended"
              /\ Live(t2) => Live(t)
      BY <1>3 DEF Tunnels, Live
    <3> QED BY <3>1, <3>2
  <2> QED BY <2>1, <2>2, <2>3
<1>5. TunnelFits(req[r], t2) /\ Settles(t, t2) /\ HeldOf(t2) = HeldOf(t)
  BY <1>2, <1>3, <1>4, TunnelProgress
<1>6. MapsFit
  BY <1>1 DEF SlotInv, MapsFit
<1>7. \A x : SlotsFollow(x, x, HeldOf(t), HeldOf(t2))
  BY <1>1, <1>5, SlotsRest
<1> QED BY <1>1, <1>4, <1>5, <1>6, <1>7, TunnelSlots

\* monitor: out of the map, then the release.
LEMMA MonitorSlots ==
  ASSUME Counting, SlotInv, CallersFit, NEW r \in Requests, Monitor(r) PROVE SlotInv'
<1> USE Zenon
<1> DEFINE t == tunnel[r]
<1>1. UNCHANGED <<req, left>> /\ t.st # "none"
  BY DEF Monitor
<1>2. TunnelFits(req[r], t)
  BY DEF SlotInv
<1>3. t \in Tunnels
  BY <1>1, <1>2, NoTunnelIsNone DEF TunnelFits
<1>4. t # NoTunnel
  BY <1>3, NoTunnelIsNone
<1>5. CASE t.monitor = "waiting" /\ t.done /\ tunnel' = [tunnel EXCEPT ![r].monitor = "freeing", ![r].done = FALSE]
           /\ map' = [map EXCEPT ![t.app] = @ \ {r}] /\ UNCHANGED slots
  <2> DEFINE t2 == [t EXCEPT !.monitor = "freeing", !.done = FALSE]
  <2>1. tunnel' = [tunnel EXCEPT ![r] = t2]
    BY <1>5
  <2>2. /\ t2 \in Tunnels /\ t2.monitor = "freeing" /\ t2.st = t.st /\ t2.stop = t.stop /\ t2.released = t.released
        /\ t2.app = t.app
    BY <1>3 DEF Tunnels
  <2> HIDE DEF t2
  <2>3. t.st = "ended"
    BY <1>2, <1>4, <1>5 DEF TunnelFits
  <2>4. TunnelFits(req[r], t2) /\ Settles(t, t2)
    <3>1. Entered(t) /\ Entered(t2) /\ ~Live(t2)
      BY <1>3, <1>5, <2>2, <2>3 DEF Entered, Live
    <3> QED BY <1>2, <2>2, <2>3, <3>1, EnteredFits
  <2>5. HeldOf(t2) = HeldOf(t)
    BY <1>5, <2>2 DEF HeldOf
  <2>6. MapsFit
    BY <1>1, <1>5 DEF SlotInv, MapsFit
  <2>7. \A x : SlotsFollow(x, x, HeldOf(t), HeldOf(t2))
    BY <1>5, <2>5, SlotsRest
  <2> QED BY <1>1, <2>1, <2>4, <2>6, <2>7, TunnelSlots
<1>6. CASE t.monitor = "freeing" /\ ReleaseOnce(r, [t EXCEPT !.monitor = "over"]) /\ UNCHANGED map
  <2> DEFINE u == [t EXCEPT !.monitor = "over"]
             t2 == [u EXCEPT !.released = TRUE]
  <2>1. u \in Tunnels /\ u.monitor = "over" /\ u.app = t.app /\ u.released = t.released /\ u.st = t.st
    BY <1>3 DEF Tunnels
  <2>2. t.st = "ended"
    BY <1>2, <1>4, <1>6 DEF TunnelFits
  <2>3. Entered(t) /\ ~Live(u) /\ u.monitor # "none"
    BY <1>3, <1>6, <2>1, <2>2 DEF Entered, Live
  <2>4. ReleaseOnce(r, u)
    BY <1>6
  <2> HIDE DEF u
  <2>5. /\ tunnel' = [tunnel EXCEPT ![r] = t2] /\ TunnelFits(req[r], t2) /\ Settles(t, t2)
        /\ \A x : SlotsFollow(x, x, HeldOf(t), HeldOf(t2))
    BY <2>1, <2>2, <2>3, <2>4, ReleaseFits
  <2> HIDE DEF t2
  <2>6. MapsFit
    BY <1>1, <1>6 DEF SlotInv, MapsFit
  <2> QED BY <1>1, <2>5, <2>6, TunnelSlots
<1> QED BY <1>5, <1>6 DEF Monitor

\* closeAll: one tunnel after the other.
LEMMA CloseOneSlots ==
  ASSUME Counting, SlotInv, CallersFit, NEW a \in Apps, NEW r \in Requests, CloseOne(a, r) PROVE SlotInv'
<1> USE Zenon
<1> DEFINE t == tunnel[r]
           u == Stopped(t)
           t2 == [u EXCEPT !.released = TRUE]
<1>1. UNCHANGED <<req, map>> /\ r \in left[a] /\ left' = [left EXCEPT ![a] = @ \ {r}] /\ ReleaseOnce(r, u)
  BY DEF CloseOne
<1>2. Entered(t) /\ TunnelFits(req[r], t)
  BY <1>1 DEF SlotInv
<1>3. /\ u \in Tunnels /\ ~Live(u) /\ u.app = t.app /\ u.monitor # "none" /\ u.released = t.released
      /\ u.done \/ u.monitor \in {"freeing", "over"} => u.st = "ended"
  <2>1. t \in Tunnels /\ t # NoTunnel /\ t.monitor # "none"
    BY <1>2, NoTunnelIsNone DEF Entered
  <2> QED BY <1>2, <2>1, StoppedTunnel DEF TunnelFits
<1> HIDE DEF u
<1>4. /\ tunnel' = [tunnel EXCEPT ![r] = t2] /\ TunnelFits(req[r], t2) /\ Settles(t, t2)
      /\ \A x : SlotsFollow(x, x, HeldOf(t), HeldOf(t2))
  BY <1>1, <1>2, <1>3, ReleaseFits
<1> HIDE DEF t2
<1>5. MapsFit
  BY <1>1 DEF SlotInv, MapsFit
<1> QED BY <1>1, <1>4, <1>5, TunnelSlots

\* Close before that: closeAll takes the whole map.
LEMMA CloseSlots ==
  ASSUME SlotInv, NEW a \in Apps, CloseApplication(a) PROVE SlotInv'
<1> USE Zenon
<1>1. UNCHANGED <<req, slots, tunnel>>
  BY DEF CloseApplication
<1>2. CASE UNCHANGED <<left, map>>
  BY <1>1, <1>2, ElsewhereSlots
<1>3. CASE left' = [left EXCEPT ![a] = map[a]] /\ map' = [map EXCEPT ![a] = {}]
  <2>1. map' \in [Apps -> SUBSET Requests] /\ left' \in [Apps -> SUBSET Requests]
    BY <1>3 DEF SlotInv
  <2>2. \A b \in Apps : map'[b] \union left'[b] \subseteq map[b] \union left[b]
    BY <1>3 DEF SlotInv
  <2> QED BY <1>1, <2>1, <2>2 DEF SlotInv
<1> QED BY <1>2, <1>3 DEF CloseApplication

\* The stages of a request that has a slot if it is to start a tunnel.
Having == {"lookup", "probing", "client", "resolve", "await", "unreserve"}

\* A handler goes to another stage with the slot it has or without one, before there is a tunnel.
LEMMA QuietSlots ==
  ASSUME Counting, SlotInv, CallersFit, NEW r \in Requests, NEW q2, req' = [req EXCEPT ![r] = q2],
         UNCHANGED <<slots, map, left, tunnel>>, req[r].pc \in Active \ {"await", "unreserve"},
         q2.pc \in Stages \ {"await"}, q2.pc \in {"reserve", "resolve", "unreserve"} => q2.kind = "forward",
         ReservedOf(q2) = ReservedOf(req[r])
  PROVE  SlotInv'
<1> USE Zenon
<1>1. TunnelFits(req[r], tunnel[r])
  BY DEF SlotInv
<1>2. tunnel[r] = NoTunnel
  BY <1>1 DEF TunnelFits, Active, Stages, Waiting
<1>3. TunnelFits(q2, tunnel[r])
  BY <1>2 DEF TunnelFits
<1>4. DeletesEntered(q2, tunnel)
  BY DEF DeletesEntered, Stages, Waiting
<1> QED BY <1>3, <1>4, HandlerSlots

\* Goto changes the stage only.
LEMMA GotoStage ==
  ASSUME EditInv, NEW r \in Requests, req[r].pc \in Active, NEW pc, Goto(r, pc)
  PROVE  LET q2 == [req[r] EXCEPT !.pc = pc]
         IN  req' = [req EXCEPT ![r] = q2] /\ q2.pc = pc /\ q2.kind = req[r].kind /\ q2.app = req[r].app
<1> USE Zenon
<1>1. req[r] \in Served
  BY ActiveIsServed
<1> QED BY <1>1 DEF Served, Goto

\* The same for a step that only changes the stage.
LEMMA GotoSlots ==
  ASSUME Counting, EditInv, SlotInv, NEW r \in Requests, NEW pc \in Stages \ {"await"}, Goto(r, pc),
         UNCHANGED <<slots, map, left, tunnel>>, req[r].pc \in Active \ {"await", "unreserve"},
         pc \in {"reserve", "resolve", "unreserve"} => req[r].kind = "forward",
         req[r].kind = "forward" => (req[r].pc \in Having <=> pc \in Having)
  PROVE  SlotInv'
<1> USE Zenon
<1> DEFINE q2 == [req[r] EXCEPT !.pc = pc]
<1>1. req' = [req EXCEPT ![r] = q2] /\ q2.pc = pc /\ q2.kind = req[r].kind /\ q2.app = req[r].app
  BY GotoStage
<1> HIDE DEF q2
<1>2. ReservedOf(q2) = ReservedOf(req[r])
  BY <1>1 DEF ReservedOf, Having
<1>3. CallersFit
  BY DEF EditInv
<1> QED BY <1>1, <1>2, <1>3, QuietSlots

\* localTargetState.
LEMMA LookupSlots ==
  ASSUME Counting, EditInv, SlotInv, NEW r \in Requests, Lookup(r) PROVE SlotInv'
<1> USE Zenon
<1> DEFINE q == req[r]
<1>1. UNCHANGED <<slots, map, left, tunnel>> /\ q.pc \in {"lookup", "probing", "client"}
  BY DEF Lookup
<1>2. q.pc \in Active \ {"await", "unreserve"} /\ q.pc \in Having
  BY <1>1 DEF Active, Stages, Waiting, Having
<1>3. CASE \E pc \in {"probing", "client"} : Goto(r, pc)
  <2>1. PICK pc \in {"probing", "client"} : Goto(r, pc)
    BY <1>3
  <2>2. pc \in Stages \ {"await"} /\ pc \in Having /\ pc \notin {"reserve", "resolve", "unreserve"}
    BY DEF Stages, Waiting, Having
  <2> QED BY <1>1, <1>2, <2>1, <2>2, GotoSlots
<1>4. CASE q.kind = "forward" /\ \E pc \in {"unreserve", "resolve"} : Goto(r, pc)
  <2>1. PICK pc \in {"unreserve", "resolve"} : Goto(r, pc)
    BY <1>4
  <2>2. pc \in Stages \ {"await"} /\ pc \in Having
    BY DEF Stages, Waiting, Having
  <2> QED BY <1>1, <1>2, <1>4, <2>1, <2>2, GotoSlots
<1>5. CASE q.kind # "forward" /\ \E pc \in {"leaving", "get"} : Goto(r, pc)
  <2>1. PICK pc \in {"leaving", "get"} : Goto(r, pc)
    BY <1>5
  <2>2. pc \in Stages \ {"await"} /\ pc \notin {"reserve", "resolve", "unreserve"}
    BY DEF Stages, Waiting
  <2> QED BY <1>1, <1>2, <1>5, <2>1, <2>2, GotoSlots
<1>6. CASE q.kind = "describe" /\ req' = [req EXCEPT ![r].pc = "lookup", ![r].kind = "described"]
  <2> DEFINE q2 == [q EXCEPT !.pc = "lookup", !.kind = "described"]
  <2>1. q \in Served
    BY <1>2, ActiveIsServed
  <2>2. q2.pc = "lookup" /\ q2.kind = "described"
    BY <2>1 DEF Served
  <2>3. req' = [req EXCEPT ![r] = q2]
    BY <1>6
  <2> HIDE DEF q2
  <2>4. ReservedOf(q2) = ReservedOf(q)
    BY <1>6, <2>2 DEF ReservedOf
  <2>5. CallersFit /\ q2.pc \in Stages \ {"await"} /\ q2.pc \notin {"reserve", "resolve", "unreserve"}
    BY <2>2 DEF EditInv, Stages
  <2> QED BY <1>1, <1>2, <2>3, <2>4, <2>5, QuietSlots
<1> QED BY <1>3, <1>4, <1>5, <1>6 DEF Lookup, Fail

\* View, Describe, PreviewApply and Apply: no slot, before and after.
LEMMA OperateSlots ==
  ASSUME Counting, EditInv, SlotInv, NEW r \in Requests, Operate(r) \/ IssuePreview(r) PROVE SlotInv'
<1> USE Zenon
<1> DEFINE q == req[r]
<1>1. UNCHANGED <<slots, map, left, tunnel>> /\ q.pc \in {"get", "events", "dryrun", "update"}
  BY DEF Operate, IssuePreview
<1>2. q.pc \in Active \ {"await", "unreserve"} /\ q.pc \notin Having
  BY <1>1 DEF Active, Stages, Waiting, Having
<1>3. CASE \E pc \in {"leaving", "events", "update"} : Goto(r, pc)
  <2>1. PICK pc \in {"leaving", "events", "update"} : Goto(r, pc)
    BY <1>3
  <2>2. pc \in Stages \ {"await"} /\ pc \notin Having /\ pc \notin {"reserve", "resolve", "unreserve"}
    BY DEF Stages, Waiting, Having
  <2> QED BY <1>1, <1>2, <2>1, <2>2, GotoSlots
<1>4. CASE req' = [req EXCEPT ![r].pc = "dryrun", ![r].cur = call[r].res.obj]
  <2> DEFINE q2 == [q EXCEPT !.pc = "dryrun", !.cur = call[r].res.obj]
  <2>1. q \in Served
    BY <1>2, ActiveIsServed
  <2>2. q2.pc = "dryrun"
    BY <2>1 DEF Served
  <2>3. req' = [req EXCEPT ![r] = q2]
    BY <1>4
  <2> HIDE DEF q2
  <2>4. ReservedOf(q2) = ReservedOf(q)
    BY <1>1, <2>2 DEF ReservedOf
  <2>5. CallersFit /\ q2.pc \in Stages \ {"await"} /\ q2.pc \notin {"reserve", "resolve", "unreserve"}
    BY <2>2 DEF EditInv, Stages, Waiting
  <2> QED BY <1>1, <1>2, <2>3, <2>4, <2>5, QuietSlots
<1> QED BY <1>3, <1>4 DEF Operate, IssuePreview

\* handleEditApply: an apply has no slot.
LEMMA ConsumeSlots ==
  ASSUME Counting, EditInv, SlotInv, NEW r \in Requests, Consume(r) PROVE SlotInv'
<1> USE Zenon
<1>1. UNCHANGED <<slots, map, left, tunnel>> /\ req[r].pc = "consume" /\ \E pc \in {"lookup", "leaving"} : Goto(r, pc)
  BY DEF Consume
<1>2. req[r].pc \in Active \ {"await", "unreserve"}
  BY <1>1 DEF Active, Stages, Waiting
<1>3. req[r].kind # "forward"
  <2>1. ApplyFits(req[r], reviewed)
    BY <1>2, ActiveIsServed
  <2> QED BY <1>1, <2>1 DEF ApplyFits
<1>4. PICK pc \in {"lookup", "leaving"} : Goto(r, pc)
  BY <1>1
<1>5. pc \in Stages \ {"await"} /\ pc \notin {"reserve", "resolve", "unreserve"}
  BY DEF Stages, Waiting
<1> QED BY <1>1, <1>2, <1>3, <1>4, <1>5, GotoSlots

\* ServeHTTP: no tunnel and no slot yet.
LEMMA ArriveSlots ==
  ASSUME Counting, EditInv, SlotInv, NEW r \in Requests, Arrivals(r) PROVE SlotInv'
<1>1. PICK kind \in workload.kinds[r], scope \in workload.scopes :
        \E m \in {NoManifest} \union Manifests(scope) \union {p.m : p \in reviewed},
           tok \in IF kind = "apply" THEN 0 .. Cardinality(reviewed) ELSE {0} : Arrive(r, kind, scope, m, tok)
  BY Zenon DEF Arrivals
<1>2. PICK m, tok : Arrive(r, kind, scope, m, tok)
  BY <1>1, Zenon
<1>3. UNCHANGED <<slots, map, left, tunnel>> /\ req[r].pc = "new"
  BY <1>2, Zenon DEF Arrive
<1>4. kind \in DOMAIN FirstStep
  <2> USE Zenon
  <2>1. workload \in Environments
    BY DEF EditInv
  <2> QED BY <2>1 DEF Environments
<1>5. PICK q2 : /\ req' = [req EXCEPT ![r] = q2] /\ q2.pc \in {"gone", "lookup", "consume", "reserve", "delete"}
                /\ q2.pc = "reserve" => q2.kind = "forward"
                /\ q2.pc = "lookup" => q2.kind # "forward"
  <2>1. CASE req' = [req EXCEPT ![r] = [pc |-> "gone"]]
    <3> USE Zenon
    <3> DEFINE q2 == [pc |-> "gone"]
    <3>1. q2.pc = "gone"
      OBVIOUS
    <3>2. req' = [req EXCEPT ![r] = q2]
      BY <2>1
    <3> HIDE DEF q2
    <3> QED BY <3>1, <3>2
  <2>2. CASE req' = [req EXCEPT ![r] = [pc |-> FirstStep[kind], kind |-> kind, app |-> host.current,
                                        scope |-> scope, m |-> m, tok |-> tok, cur |-> NoObject]]
    <3> DEFINE q2 == [pc |-> FirstStep[kind], kind |-> kind, app |-> host.current,
                      scope |-> scope, m |-> m, tok |-> tok, cur |-> NoObject]
    <3>1. q2.pc = FirstStep[kind] /\ q2.kind = kind
      BY Zenon
    <3>2. req' = [req EXCEPT ![r] = q2]
      BY <2>2, Zenon
    <3> HIDE DEF q2
    <3>3. /\ q2.pc \in {"gone", "lookup", "consume", "reserve", "delete"}
          /\ q2.pc = "reserve" => q2.kind = "forward"
          /\ q2.pc = "lookup" => q2.kind # "forward"
      BY <1>4, <3>1 DEF FirstStep
    <3> QED BY <3>2, <3>3, Zenon
  <2> QED BY <1>2, <2>1, <2>2, Zenon DEF Arrive
<1>6. tunnel[r] = NoTunnel
  <2> USE Zenon
  <2>1. TunnelFits(req[r], tunnel[r])
    BY DEF SlotInv
  <2> QED BY <1>3, <2>1 DEF TunnelFits
<1>7. TunnelFits(q2, tunnel[r])
  BY <1>5, <1>6, Zenon DEF TunnelFits
<1>8. ReservedOf(q2) = 0 /\ ReservedOf(req[r]) = 0
  BY <1>3, <1>5, Zenon DEF ReservedOf
<1>9. DeletesEntered(q2, tunnel) /\ CallersFit
  BY <1>5, Zenon DEF DeletesEntered, EditInv
<1> QED BY <1>3, <1>5, <1>7, <1>8, <1>9, HandlerSlots, Zenon

\* The end of a request: its tunnel goes on.
LEMMA LeaveSlots ==
  ASSUME Counting, EditInv, SlotInv, NEW r \in Requests, Leave(r) PROVE SlotInv'
<1> USE Zenon
<1> DEFINE q2 == [pc |-> "gone"]
<1>1. UNCHANGED <<slots, map, left, tunnel>> /\ req[r].pc = "leaving" /\ req' = [req EXCEPT ![r] = q2]
  BY DEF Leave
<1>2. q2.pc = "gone"
  OBVIOUS
<1> HIDE DEF q2
<1>3. TunnelFits(req[r], tunnel[r]) /\ CallersFit
  BY DEF SlotInv, EditInv
<1>4. TunnelFits(q2, tunnel[r])
  BY <1>1, <1>2, <1>3 DEF TunnelFits
<1>5. ReservedOf(q2) = 0 /\ ReservedOf(req[r]) = 0 /\ DeletesEntered(q2, tunnel)
  BY <1>1, <1>2 DEF ReservedOf, DeletesEntered
<1> QED BY <1>1, <1>3, <1>4, <1>5, HandlerSlots

\* A handler takes or gives back a slot.
LEMMA HandlerMoves ==
  ASSUME Counting, SlotInv, CallersFit, NEW r \in Requests, NEW q2, req' = [req EXCEPT ![r] = q2],
         UNCHANGED <<map, left, tunnel>>, TunnelFits(q2, tunnel[r]), DeletesEntered(q2, tunnel),
         \A y : SlotsFollow(ReservedOf(req[r]), ReservedOf(q2), y, y)
  PROVE  SlotInv'
<1> USE Zenon
<1>1. Changes(r, q2, r, tunnel[r])
  BY DEF Changes, SlotInv
<1>2. BothFit(r, q2, r, tunnel[r]) /\ Settles(tunnel[r], tunnel[r]) /\ DeletesEntered(q2, tunnel')
  BY DEF BothFit, Settles
<1>3. MapsFit
  BY DEF SlotInv, MapsFit
<1>4. SlotsFollow(ReservedOf(req[r]), ReservedOf(q2), HeldOf(tunnel[r]), HeldOf(tunnel[r]))
  OBVIOUS
<1> QED BY <1>1, <1>2, <1>3, <1>4, SlotsStep

\* A handler changes its own tunnel.
LEMMA OwnTunnelMoves ==
  ASSUME Counting, SlotInv, CallersFit, NEW r \in Requests, NEW q2, NEW t2, req' = [req EXCEPT ![r] = q2],
         tunnel' = [tunnel EXCEPT ![r] = t2], TunnelFits(q2, t2), ~Entered(tunnel[r]), MapsFit,
         q2.pc \notin {"stop", "free"},
         SlotsFollow(ReservedOf(req[r]), ReservedOf(q2), HeldOf(tunnel[r]), HeldOf(t2))
  PROVE  SlotInv'
<1> USE Zenon
<1>1. Changes(r, q2, r, t2) /\ BothFit(r, q2, r, t2)
  BY DEF Changes, BothFit
<1>2. Settles(tunnel[r], t2) /\ DeletesEntered(q2, tunnel')
  BY DEF Settles, DeletesEntered
<1> QED BY <1>1, <1>2, SlotsStep

\* reserve, and the end of a start that failed.
LEMMA ReserveSlots ==
  ASSUME Counting, EditInv, SlotInv, NEW r \in Requests, UNCHANGED <<map, left, tunnel>>,
         \/ req[r].pc = "reserve" /\ slots[req[r].app] < MaxForwards
            /\ slots' = [slots EXCEPT ![req[r].app] = @ + 1] /\ Goto(r, "lookup")
         \/ req[r].pc = "unreserve" /\ slots' = [slots EXCEPT ![req[r].app] = @ - 1] /\ Goto(r, "leaving")
  PROVE  SlotInv'
<1> USE Zenon
<1> DEFINE q == req[r]
<1>1. PICK pc \in {"lookup", "leaving"} :
        /\ q.pc \in {"reserve", "unreserve"} /\ Goto(r, pc)
        /\ q.pc = "reserve" => pc = "lookup"
        /\ q.pc = "unreserve" => pc = "leaving"
  OBVIOUS
<1> DEFINE q2 == [q EXCEPT !.pc = pc]
<1>2. q.pc \in Active
  BY <1>1 DEF Active, Stages, Waiting
<1>3. q.app \in Apps
  BY <1>2, ActiveIsServed DEF Served
<1>4. req' = [req EXCEPT ![r] = q2] /\ q2.pc = pc /\ q2.kind = q.kind /\ q2.app = q.app
  BY <1>1, <1>2, GotoStage
<1>5. TunnelFits(q, tunnel[r]) /\ CallersFit
  BY DEF SlotInv, EditInv
<1>6. q.kind = "forward"
  BY <1>1, <1>5 DEF TunnelFits
<1> HIDE DEF q2
<1>7. DeletesEntered(q2, tunnel)
  BY <1>4 DEF DeletesEntered
<1>8. CASE q.pc = "reserve"
  <2>1. ReservedOf(q) = 0 /\ ReservedOf(q2) = q.app
    BY <1>1, <1>4, <1>6, <1>8 DEF ReservedOf
  <2>2. TunnelFits(q2, tunnel[r])
    BY <1>1, <1>4, <1>5, <1>8 DEF TunnelFits
  <2>3. slots[q.app] < MaxForwards /\ slots' = [slots EXCEPT ![q.app] = @ + 1]
    BY <1>8
  <2>4. \A y : SlotsFollow(ReservedOf(q), ReservedOf(q2), y, y)
    BY <1>3, <2>1, <2>3, SlotTaken
  <2> QED BY <1>4, <1>5, <1>7, <2>2, <2>4, HandlerMoves
<1>9. CASE q.pc = "unreserve"
  <2>1. ReservedOf(q) = q.app /\ ReservedOf(q2) = 0
    BY <1>1, <1>4, <1>6, <1>9 DEF ReservedOf
  <2>2. TunnelFits(q2, tunnel[r])
    BY <1>1, <1>4, <1>5, <1>9 DEF TunnelFits
  <2>3. slots' = [slots EXCEPT ![q.app] = @ - 1]
    BY <1>9
  <2>4. \A y : SlotsFollow(ReservedOf(q), ReservedOf(q2), y, y)
    BY <1>3, <2>1, <2>3, SlotFreed
  <2> QED BY <1>4, <1>5, <1>7, <2>2, <2>4, HandlerMoves
<1> QED BY <1>1, <1>8, <1>9

\* The pod is resolved and the tunnel started.
LEMMA NewTunnelSlots ==
  ASSUME Counting, EditInv, SlotInv, NEW r \in Requests, UNCHANGED <<slots, map, left>>, req[r].pc = "resolve",
         tunnel' = [tunnel EXCEPT ![r] = NewTunnel(req[r].app)], Goto(r, "await")
  PROVE  SlotInv'
<1> USE Zenon
<1> DEFINE q == req[r]
           q2 == [q EXCEPT !.pc = "await"]
           t2 == NewTunnel(q.app)
<1>1. q.pc \in Active
  BY DEF Active, Stages, Waiting
<1>2. q.app \in Apps
  BY <1>1, ActiveIsServed DEF Served
<1>3. req' = [req EXCEPT ![r] = q2] /\ q2.pc = "await" /\ q2.kind = q.kind /\ q2.app = q.app
  BY <1>1, GotoStage
<1>4. TunnelFits(q, tunnel[r]) /\ CallersFit
  BY DEF SlotInv, EditInv
<1>5. q.kind = "forward" /\ tunnel[r] = NoTunnel
  BY <1>4 DEF TunnelFits
<1>6. t2 \in Tunnels /\ t2.monitor = "none" /\ t2.app = q.app /\ ~t2.done /\ ~t2.released
  BY <1>2 DEF NewTunnel, Tunnels
<1>7. tunnel[r].st = "none" /\ tunnel[r] \notin Tunnels
  BY <1>5, NoTunnelIsNone
<1>8. tunnel' = [tunnel EXCEPT ![r] = t2]
  OBVIOUS
<1> HIDE DEF q2, t2
<1>9. TunnelFits(q2, t2)
  BY <1>3, <1>5, <1>6 DEF TunnelFits
<1>10. ReservedOf(q2) = ReservedOf(q) /\ HeldOf(tunnel[r]) = 0 /\ HeldOf(t2) = 0
  BY <1>3, <1>5, <1>6, <1>7 DEF ReservedOf, HeldOf
<1>11. SlotsFollow(ReservedOf(q), ReservedOf(q2), HeldOf(tunnel[r]), HeldOf(t2))
  BY <1>10, SlotsRest
<1>12. MapsFit
  BY DEF SlotInv, MapsFit
<1>13. ~Entered(tunnel[r]) /\ q2.pc \notin {"stop", "free"}
  BY <1>3, <1>7 DEF Entered
<1> QED BY <1>3, <1>4, <1>8, <1>9, <1>11, <1>12, <1>13, OwnTunnelMoves

\* The tunnel is ready and registered: the request's slot passes to it.
LEMMA RegisterSlots ==
  ASSUME Counting, EditInv, SlotInv, NEW r \in Requests, UNCHANGED <<slots, left>>, req[r].pc = "await",
         map' = [map EXCEPT ![req[r].app] = @ \union {r}],
         tunnel' = [tunnel EXCEPT ![r].monitor = "waiting"], Goto(r, "leaving")
  PROVE  SlotInv'
<1> USE Zenon
<1> DEFINE q == req[r]
           t == tunnel[r]
           q2 == [q EXCEPT !.pc = "leaving"]
           t2 == [t EXCEPT !.monitor = "waiting"]
<1>1. q.pc \in Active
  BY DEF Active, Stages, Waiting
<1>2. q.app \in Apps
  BY <1>1, ActiveIsServed DEF Served
<1>3. req' = [req EXCEPT ![r] = q2] /\ q2.pc = "leaving"
  BY <1>1, GotoStage
<1>4. TunnelFits(q, t) /\ CallersFit
  BY DEF SlotInv, EditInv
<1>5. q.kind = "forward" /\ t \in Tunnels /\ t.monitor = "none" /\ t.app = q.app
  BY <1>4 DEF TunnelFits
<1>6. t # NoTunnel
  BY <1>5, NoTunnelIsNone
<1>7. ~t.released /\ (t.done => t.st = "ended")
  BY <1>4, <1>5, <1>6 DEF TunnelFits
<1>8. /\ t2 \in Tunnels /\ t2.monitor = "waiting" /\ t2.app = q.app /\ t2.released = t.released /\ t2.done = t.done
      /\ t2.st = t.st /\ t2.st # "none"
  BY <1>5 DEF Tunnels
<1>9. tunnel' = [tunnel EXCEPT ![r] = t2]
  OBVIOUS
<1> HIDE DEF q2, t2
<1>10. TunnelFits(q2, t2)
  BY <1>3, <1>7, <1>8 DEF TunnelFits
<1>11. ReservedOf(q) = q.app /\ ReservedOf(q2) = 0
  BY <1>3, <1>5 DEF ReservedOf
<1>12. HeldOf(t) = 0 /\ HeldOf(t2) = q.app
  BY <1>5, <1>7, <1>8 DEF HeldOf
<1>13. SlotsFollow(ReservedOf(q), ReservedOf(q2), HeldOf(t), HeldOf(t2))
  BY <1>11, <1>12, SlotsRest
<1>14. MapsFit
  <2>1. Entered(tunnel'[r])
    <3>1. tunnel'[r] = t2
      BY <1>9 DEF SlotInv
    <3> QED BY <1>8, <3>1 DEF Entered
  <2>2. map' \in [Apps -> SUBSET Requests] /\ \A a \in Apps : map'[a] \subseteq map[a] \union {r}
    BY <1>2 DEF SlotInv
  <2> QED BY <2>1, <2>2 DEF SlotInv, MapsFit
<1>15. ~Entered(t) /\ q2.pc \notin {"stop", "free"}
  BY <1>3, <1>5 DEF Entered
<1> QED BY <1>3, <1>4, <1>9, <1>10, <1>13, <1>14, <1>15, OwnTunnelMoves

\* A start that fails: the tunnel is stopped, the slot still the request's.
LEMMA GiveUpSlots ==
  ASSUME Counting, EditInv, SlotInv, NEW r \in Requests, UNCHANGED <<slots, map, left>>, req[r].pc = "await",
         NEW t2 \in {Stopped(tunnel[r]), [Stopped(tunnel[r]) EXCEPT !.done = FALSE]},
         tunnel' = [tunnel EXCEPT ![r] = t2], Goto(r, "unreserve")
  PROVE  SlotInv'
<1> USE Zenon
<1> DEFINE q == req[r]
           t == tunnel[r]
           q2 == [q EXCEPT !.pc = "unreserve"]
<1>1. q.pc \in Active
  BY DEF Active, Stages, Waiting
<1>2. req' = [req EXCEPT ![r] = q2] /\ q2.pc = "unreserve" /\ q2.kind = q.kind /\ q2.app = q.app
  BY <1>1, GotoStage
<1>3. TunnelFits(q, t) /\ CallersFit
  BY DEF SlotInv, EditInv
<1>4. q.kind = "forward" /\ t \in Tunnels /\ t.monitor = "none"
  BY <1>3 DEF TunnelFits
<1>5. t # NoTunnel
  BY <1>4, NoTunnelIsNone
<1>6. ~t.released /\ (t.done => t.st = "ended")
  BY <1>3, <1>4, <1>5 DEF TunnelFits
<1>7. /\ t2 \in Tunnels /\ ~Live(t2) /\ t2.monitor = "none" /\ t2.released = t.released /\ t2.st = t.st
      /\ t2.done => t.done
  <2> DEFINE u == Stopped(t)
  <2>1. /\ u \in Tunnels /\ ~Live(u) /\ u.monitor = "none" /\ u.released = t.released /\ u.st = t.st
        /\ u.done = t.done /\ t2 \in {u, [u EXCEPT !.done = FALSE]}
    BY <1>4, StoppedTunnel
  <2> HIDE DEF u
  <2> QED BY <2>1 DEF Tunnels, Live
<1> HIDE DEF q2
<1>8. TunnelFits(q2, t2)
  BY <1>2, <1>4, <1>6, <1>7 DEF TunnelFits
<1>9. ReservedOf(q2) = ReservedOf(q)
  BY <1>2, <1>4 DEF ReservedOf
<1>10. HeldOf(t) = 0 /\ HeldOf(t2) = 0
  BY <1>4, <1>7 DEF HeldOf
<1>11. SlotsFollow(ReservedOf(q), ReservedOf(q2), HeldOf(t), HeldOf(t2))
  BY <1>9, <1>10, SlotsRest
<1>12. MapsFit
  BY DEF SlotInv, MapsFit
<1>13. ~Entered(t) /\ q2.pc \notin {"stop", "free"}
  BY <1>2, <1>4 DEF Entered
<1> QED BY <1>2, <1>3, <1>8, <1>11, <1>12, <1>13, OwnTunnelMoves

\* handleStartForward.
LEMMA StartSlots ==
  ASSUME Counting, EditInv, SlotInv, NEW r \in Requests, StartForward(r) PROVE SlotInv'
<1> USE Zenon
<1> DEFINE q == req[r]
<1>1. UNCHANGED left
  BY DEF StartForward
<1>2. CASE /\ UNCHANGED <<slots, tunnel, map>>
           /\ (q.pc = "reserve" /\ Goto(r, "leaving")) \/ (q.pc = "resolve" /\ Fail(r))
  <2>1. q.kind = "forward"
    <3>1. TunnelFits(q, tunnel[r])
      BY DEF SlotInv
    <3> QED BY <1>2, <3>1 DEF TunnelFits
  <2>2. q.pc \in Active \ {"await", "unreserve"}
    BY <1>2 DEF Active, Stages, Waiting
  <2>3. PICK pc \in {"leaving", "unreserve"} :
          Goto(r, pc) /\ ((q.pc = "reserve" /\ pc = "leaving") \/ (q.pc = "resolve" /\ pc = "unreserve"))
    BY <1>2, <2>1 DEF Fail
  <2>4. pc \in Stages \ {"await"} /\ (q.pc \in Having <=> pc \in Having)
    BY <2>3 DEF Having, Stages
  <2> QED BY <1>1, <1>2, <2>1, <2>2, <2>3, <2>4, GotoSlots
<1>3. CASE \/ /\ q.pc = "reserve" /\ slots[q.app] < MaxForwards
              /\ slots' = [slots EXCEPT ![q.app] = @ + 1] /\ Goto(r, "lookup") /\ UNCHANGED <<tunnel, map>>
           \/ /\ q.pc = "unreserve"
              /\ slots' = [slots EXCEPT ![q.app] = @ - 1] /\ Goto(r, "leaving") /\ UNCHANGED <<tunnel, map>>
  BY <1>1, <1>3, ReserveSlots
<1>4. CASE /\ q.pc = "resolve" /\ UNCHANGED <<slots, map>>
           /\ tunnel' = [tunnel EXCEPT ![r] = NewTunnel(q.app)] /\ Goto(r, "await")
  BY <1>1, <1>4, NewTunnelSlots
<1>5. CASE /\ q.pc = "await" /\ UNCHANGED slots /\ map' = [map EXCEPT ![q.app] = @ \union {r}]
           /\ tunnel' = [tunnel EXCEPT ![r].monitor = "waiting"] /\ Goto(r, "leaving")
  BY <1>1, <1>5, RegisterSlots
<1>6. CASE /\ q.pc = "await" /\ UNCHANGED <<slots, map>> /\ Goto(r, "unreserve")
           /\ \/ tunnel' = [tunnel EXCEPT ![r] = Stopped(tunnel[r])]
              \/ tunnel' = [tunnel EXCEPT ![r] = [Stopped(tunnel[r]) EXCEPT !.done = FALSE]]
  BY <1>1, <1>6, GiveUpSlots
<1> QED BY <1>2, <1>3, <1>4, <1>5, <1>6 DEF StartForward

\* handleDeleteForward, out of the map.
LEMMA UnlinkSlots ==
  ASSUME Counting, EditInv, SlotInv, NEW r \in Requests, NEW f \in Requests, UNCHANGED <<slots, left, tunnel>>,
         req[r].pc = "delete", f \in map[req[r].app], map' = [map EXCEPT ![req[r].app] = @ \ {f}],
         req' = [req EXCEPT ![r] = [pc |-> "stop", app |-> req[r].app, of |-> f]]
  PROVE  SlotInv'
<1> USE Zenon
<1> DEFINE q == req[r]
           q2 == [pc |-> "stop", app |-> q.app, of |-> f]
<1>1. q.pc \in Active
  BY DEF Active, Stages, Waiting
<1>2. q.app \in Apps
  BY <1>1, ActiveIsServed DEF Served
<1>3. q2.pc = "stop" /\ q2.of = f /\ req' = [req EXCEPT ![r] = q2]
  OBVIOUS
<1> HIDE DEF q2
<1>4. TunnelFits(q, tunnel[r]) /\ CallersFit /\ Entered(tunnel[f])
  BY <1>2 DEF SlotInv, EditInv
<1>5. TunnelFits(q2, tunnel[r])
  BY <1>3, <1>4 DEF TunnelFits
<1>6. ReservedOf(q) = 0 /\ ReservedOf(q2) = 0
  BY <1>3 DEF ReservedOf
<1>7. DeletesEntered(q2, tunnel')
  BY <1>3, <1>4 DEF DeletesEntered
<1>8. Changes(r, q2, r, tunnel[r]) /\ BothFit(r, q2, r, tunnel[r]) /\ Settles(tunnel[r], tunnel[r])
  BY <1>3, <1>5 DEF Changes, SlotInv, BothFit, Settles
<1>9. MapsFit
  BY <1>2 DEF SlotInv, MapsFit
<1>10. SlotsFollow(ReservedOf(q), ReservedOf(q2), HeldOf(tunnel[r]), HeldOf(tunnel[r]))
  BY <1>6, SlotsRest
<1> QED BY <1>4, <1>7, <1>8, <1>9, <1>10, SlotsStep

\* The tunnel that is deleted is stopped, then released.
LEMMA DeletedSlots ==
  ASSUME Counting, EditInv, SlotInv, NEW r \in Requests, NEW f \in Requests, UNCHANGED <<map, left>>, f = req[r].of,
         \/ /\ req[r].pc = "stop" /\ tunnel' = [tunnel EXCEPT ![f] = Stopped(@)]
            /\ Goto(r, "free") /\ UNCHANGED slots
         \/ req[r].pc = "free" /\ ReleaseOnce(f, tunnel[f]) /\ Goto(r, "leaving")
  PROVE  SlotInv'
<1> USE Zenon
<1> DEFINE q == req[r]
           t == tunnel[f]
<1>1. q.pc \in {"stop", "free"}
  OBVIOUS
<1>2. q \in Deleting
  BY <1>1, OthersRest
<1>3. PICK pc \in {"free", "leaving"} :
        /\ Goto(r, pc) /\ (q.pc = "stop" => pc = "free") /\ (q.pc = "free" => pc = "leaving")
  OBVIOUS
<1> DEFINE q2 == [q EXCEPT !.pc = pc]
<1>4. q2.pc = pc /\ q2.of = f
  BY <1>2 DEF Deleting
<1>5. req' = [req EXCEPT ![r] = q2]
  BY <1>3 DEF Goto
<1> HIDE DEF q2
<1>6. TunnelFits(q, tunnel[r]) /\ TunnelFits(req[f], t) /\ DeletesEntered(q, tunnel) /\ CallersFit
  BY DEF SlotInv, EditInv
<1>7. Entered(t) /\ (q.pc = "free" => ~Live(t))
  BY <1>1, <1>6 DEF DeletesEntered
<1>8. t \in Tunnels /\ t # NoTunnel /\ t.monitor # "none"
  BY <1>7 DEF Entered, Tunnels, NoTunnel
<1>9. r # f
  BY <1>1, <1>6, <1>8 DEF TunnelFits
<1>10. TunnelFits(q2, tunnel[r])
  BY <1>1, <1>4, <1>6 DEF TunnelFits
<1>11. ReservedOf(q) = 0 /\ ReservedOf(q2) = 0
  BY <1>1, <1>4 DEF ReservedOf
<1>12. PICK t2 : /\ tunnel' = [tunnel EXCEPT ![f] = t2] /\ TunnelFits(req[f], t2) /\ Settles(t, t2)
                 /\ q.pc = "stop" => ~Live(t2)
                 /\ \A x : SlotsFollow(x, x, HeldOf(t), HeldOf(t2))
  <2>1. CASE q.pc = "stop"
    <3> DEFINE t2 == Stopped(t)
    <3>1. tunnel' = [tunnel EXCEPT ![f] = t2] /\ UNCHANGED slots
      BY <2>1
    <3>2. TunnelFits(req[f], t2) /\ Settles(t, t2) /\ HeldOf(t2) = HeldOf(t) /\ ~Live(t2)
      BY <1>6, <1>8, StopFits, StoppedTunnel
    <3> HIDE DEF t2
    <3>3. \A x : SlotsFollow(x, x, HeldOf(t), HeldOf(t2))
      BY <3>1, <3>2, SlotsRest
    <3> QED BY <3>1, <3>2, <3>3
  <2>2. CASE q.pc = "free"
    <3> DEFINE t2 == [t EXCEPT !.released = TRUE]
    <3>1. ReleaseOnce(f, t)
      BY <2>2
    <3>2. t.done \/ t.monitor \in {"freeing", "over"} => t.st = "ended"
      BY <1>6, <1>8 DEF TunnelFits
    <3>3. /\ tunnel' = [tunnel EXCEPT ![f] = t2] /\ TunnelFits(req[f], t2) /\ Settles(t, t2)
          /\ \A x : SlotsFollow(x, x, HeldOf(t), HeldOf(t2))
      BY <1>7, <1>8, <2>2, <3>1, <3>2, ReleaseFits
    <3> HIDE DEF t2
    <3> QED BY <2>2, <3>3
  <2> QED BY <1>1, <2>1, <2>2
<1>13. tunnel'[f] = t2
  BY <1>12 DEF SlotInv
<1>14. DeletesEntered(q2, tunnel')
  BY <1>3, <1>4, <1>7, <1>12, <1>13 DEF DeletesEntered, Settles
<1>15. Changes(r, q2, f, t2) /\ BothFit(r, q2, f, t2) /\ MapsFit
  <2>1. Changes(r, q2, f, t2)
    BY <1>5, <1>12 DEF Changes
  <2>2. BothFit(r, q2, f, t2)
    BY <1>9, <1>10, <1>12 DEF BothFit
  <2> QED BY <2>1, <2>2 DEF SlotInv, MapsFit
<1>16. SlotsFollow(ReservedOf(q), ReservedOf(q2), HeldOf(t), HeldOf(t2))
  BY <1>11, <1>12
<1> QED BY <1>6, <1>12, <1>14, <1>15, <1>16, SlotsStep

\* handleDeleteForward.
LEMMA DeleteSlots ==
  ASSUME Counting, EditInv, SlotInv, NEW r \in Requests, NEW f \in Requests, DeleteForward(r, f) PROVE SlotInv'
<1> USE Zenon
<1> DEFINE q == req[r]
<1>1. UNCHANGED left
  BY DEF DeleteForward
<1>2. CASE q.pc = "delete" /\ f \in map[q.app]
  BY <1>1, <1>2, UnlinkSlots DEF DeleteForward
<1>3. CASE q.pc = "delete" /\ f \notin map[q.app]
  <2>1. Goto(r, "leaving") /\ UNCHANGED <<slots, map, tunnel>>
    BY <1>3 DEF DeleteForward
  <2>2. /\ q.pc \in Active \ {"await", "unreserve"} /\ q.pc \notin Having
        /\ "leaving" \in Stages \ {"await"} /\ "leaving" \notin Having \union {"reserve", "resolve", "unreserve"}
    BY <1>3 DEF Active, Stages, Waiting, Having
  <2> QED BY <1>1, <2>1, <2>2, GotoSlots
<1>4. CASE q.pc \in {"stop", "free"}
  BY <1>1, <1>4, DeletedSlots DEF DeleteForward
<1> QED BY <1>2, <1>3, <1>4 DEF DeleteForward

\* At first there is no tunnel and no slot is taken.
LEMMA SlotInit == ASSUME Counting PROVE Init => SlotInv
<1> SUFFICES ASSUME Init PROVE SlotInv
  BY Zenon
<1>1. /\ slots = [a \in Apps |-> 0] /\ map = [a \in Apps |-> {}] /\ left = [a \in Apps |-> {}]
      /\ tunnel = [r \in Requests |-> NoTunnel] /\ req = [r \in Requests |-> [pc |-> "new"]]
  BY Zenon DEF Init
<1>2. ASSUME NEW r \in Requests
      PROVE  TunnelFits(req[r], tunnel[r]) /\ DeletesEntered(req[r], tunnel) /\ ReservedOf(req[r]) = 0 /\ HeldOf(tunnel[r]) = 0
  BY <1>1, Zenon DEF TunnelFits, DeletesEntered, ReservedOf, HeldOf, NoTunnel
<1>3. ASSUME NEW a \in Apps PROVE SlotsCounted(slots[a], Reservers(req, a), Holders(tunnel, a))
  <2>1. Reservers(req, a) = {} /\ Holders(tunnel, a) = {}
    <3> USE Zenon
    <3>1. a # 0
      BY AppsAssumption
    <3> QED BY <1>2, <3>1 DEF Reservers, Holders
  <2>2. IsFiniteSet({}) /\ Cardinality({}) = 0
    BY Zenon DEF Counting, NothingCounts
  <2>3. slots[a] = 0 /\ 0 <= MaxForwards
    BY <1>1, AppAssumption
  <2> QED BY <2>1, <2>2, <2>3 DEF SlotsCounted
<1> QED BY <1>1, <1>2, <1>3, Zenon DEF SlotInv

\* Every step preserves the invariant.
LEMMA SlotStep == ASSUME Counting PROVE EditInv /\ SlotInv /\ [Next]_vars => SlotInv'
<1> USE Zenon
<1> SUFFICES ASSUME EditInv, SlotInv, [Next]_vars PROVE SlotInv'
  OBVIOUS
<1>0. CallersFit
  BY DEF EditInv
<1>1. ASSUME NEW r \in Requests, Arrivals(r) PROVE SlotInv'
  BY <1>1, ArriveSlots
<1>2. ASSUME NEW r \in Requests, ServeStep(r) PROVE SlotInv'
  BY <1>2, LookupSlots, OperateSlots, ConsumeSlots, StartSlots, LeaveSlots, DeleteSlots DEF ServeStep
<1>3. ASSUME NEW r \in Requests, Connect(r) \/ Return(r) \/ Watch(r) \/ Monitor(r) PROVE SlotInv'
  BY <1>0, <1>3, RunSlots, MonitorSlots
<1>4. ASSUME NEW a \in Apps, CloseApplication(a) \/ \E r \in Requests : CloseOne(a, r) PROVE SlotInv'
  BY <1>0, <1>4, CloseSlots, CloseOneSlots
<1>5. CASE UNCHANGED <<req, slots, map, left, tunnel>>
  BY <1>5, ElsewhereSlots
<1>6. CASE \/ \E c \in Callers : CallStep(c) \/ Deadline(c)
           \/ \E op \in ops : OperationStep(op)
           \/ \E a \in Apps : ImportDirectory(a) \/ CloseDrained(a) \/ Hydrate(a)
           \/ HostClose \/ Tick
           \/ \E s \in Scopes, fresh \in BOOLEAN : Foreign(s, fresh)
           \/ UNCHANGED vars
  <2>1. UNCHANGED <<req, slots, map, left, tunnel>>
    BY <1>6 DEF CallStep, Deadline, OperationStep, ImportDirectory, CloseDrained, Hydrate, HostClose, Tick,
                       Foreign, vars, appVars
  <2> QED BY <1>5, <2>1
<1> QED BY <1>1, <1>2, <1>3, <1>4, <1>6 DEF Next

\* What SlotInv says is what SlotsExact says.
LEMMA SlotsAreSound == SlotInv => SlotsExact
<1> USE Zenon
<1> SUFFICES ASSUME SlotInv PROVE SlotsExact
  OBVIOUS
<1>1. ASSUME NEW a \in Apps
      PROVE  /\ slots[a] = Cardinality({r \in Requests : Reserving(r) /\ req[r].app = a})
                           + Cardinality({r \in Requests : Registered(r) /\ tunnel[r].app = a})
             /\ slots[a] <= MaxForwards
  <2>1. a # 0
    BY AppsAssumption
  <2>2. Reservers(req, a) = {r \in Requests : Reserving(r) /\ req[r].app = a}
    BY <2>1 DEF Reservers, ReservedOf, Reserving
  <2>3. Holders(tunnel, a) = {r \in Requests : Registered(r) /\ tunnel[r].app = a}
    BY <2>1 DEF Holders, HeldOf, Registered
  <2>4. SlotsCounted(slots[a], Reservers(req, a), Holders(tunnel, a))
    BY DEF SlotInv
  <2> QED BY <2>2, <2>3, <2>4 DEF SlotsCounted
<1>2. ASSUME NEW r \in Requests, tunnel[r].st = "running", ~tunnel[r].stop PROVE Reserving(r) \/ Registered(r)
  <2>1. TunnelFits(req[r], tunnel[r]) /\ Live(tunnel[r])
    BY <1>2 DEF SlotInv, Live
  <2>2. tunnel[r] # NoTunnel
    BY <1>2, NoTunnelIsNone
  <2>3. (req[r].pc = "await" /\ req[r].kind = "forward") \/ (tunnel[r].monitor # "none" /\ ~tunnel[r].released)
    BY <2>1, <2>2 DEF TunnelFits
  <2> QED BY <1>2, <2>3 DEF Reserving, Registered
<1> QED BY <1>1, <1>2 DEF SlotsExact

-----------------------------------------------------------------------------
(***************************************************************************)
(* Counting                                                                *)
(***************************************************************************)
\* FiniteSets means what Listed and Counted say.
LEMMA Meaning == \A S : (IsFiniteSet(S) <=> Listed(S)) /\ Cardinality(S) = Counted(S)
BY Zenon DEF IsFiniteSet, Cardinality, Listed, Counted

LOCAL Lib == INSTANCE FiniteSetTheorems

\* The library means the same.
LEMMA OneMeaning == \A S : (Lib!IsFiniteSet(S) <=> IsFiniteSet(S)) /\ Lib!Cardinality(S) = Cardinality(S)
<1> USE Zenon
<1>1. \A S : (Lib!IsFiniteSet(S) <=> Listed(S)) /\ Lib!Cardinality(S) = Counted(S)
  BY DEF Lib!IsFiniteSet, Lib!Cardinality, Listed, Counted
<1> QED BY <1>1, Meaning

\* What the lemmas above assume of finite sets is true.
LEMMA CountingHolds == Counting
<1> USE Zenon
<1>1. NothingCounts /\ OneCounts
  BY Lib!FS_EmptySet, Lib!FS_Singleton, OneMeaning DEF NothingCounts, OneCounts
<1>2. CountsAreNatural
  BY Lib!FS_CardinalityType, OneMeaning DEF CountsAreNatural
<1>3. AddingCounts /\ RemovingCounts
  BY Lib!FS_AddElement, Lib!FS_RemoveElement, OneMeaning DEF AddingCounts, RemovingCounts
<1>4. PartsCount
  BY Lib!FS_Subset, OneMeaning DEF PartsCount
<1>5. UnionsCount
  BY Lib!FS_Union, OneMeaning DEF UnionsCount
<1> QED BY <1>1, <1>2, <1>3, <1>4, <1>5 DEF Counting

\* Every update that reaches an API server carries exactly the target and the manifest of one issued
\* preview, whose token was spent within its lifetime, and replaces exactly the object that preview
\* compared it with: for any sessions, contexts and requests, with operations that outlive their
\* callers and others writing to the same object (previewManager, PreviewApply, Apply).
THEOREM ReviewedEditsAreWritten == Spec => []ReviewedIsWritten
<1>1. Init => LeaseInv /\ EditInv
  BY LeaseInit, EditInit, CountingHolds, Zenon
<1>2. LeaseInv /\ EditInv /\ [Next]_vars => (LeaseInv /\ EditInv)'
  BY LeaseStep, EditStep, CountingHolds, Zenon
<1>3. EditInv => ReviewedIsWritten
  BY Zenon DEF EditInv, WriteFits, ReviewedIsWritten
<1> QED BY <1>1, <1>2, <1>3, PTL DEF Spec

\* GateSound is an invariant: whatever callers time out, operations hang and discoveries are cancelled,
\* a context never has more than two operations in progress, the gate's count is exactly theirs, and a
\* caller sleeps on the gate only while its own context is full (operationGate.acquire and release,
\* callWithTimeout).
THEOREM GateIsSound == Spec => []GateSound
<1>1. Init => LeaseInv /\ EditInv /\ GateInv
  BY LeaseInit, EditInit, GateInit, CountingHolds, Zenon
<1>2. LeaseInv /\ EditInv /\ GateInv /\ [Next]_vars => (LeaseInv /\ EditInv /\ GateInv)'
  BY LeaseStep, EditStep, GateStep, CountingHolds, Zenon
<1>3. GateInv => GateSound
  BY CountsAreSound, Zenon
<1> QED BY <1>1, <1>2, <1>3, PTL DEF Spec

\* SlotsExact is an invariant: however the end of a tunnel, its deletion, the failure of its start and the
\* session's Close interleave, the slots taken are those of requests starting a tunnel and of registered
\* tunnels not yet released, never more than the capacity, and a tunnel nobody told to stop has one
\* (forwardManager.reserve, handleStartForward, releaseOnce, monitor, closeAll).
THEOREM SlotsAreExact == Spec => []SlotsExact
<1>1. Init => LeaseInv /\ EditInv /\ SlotInv
  BY LeaseInit, EditInit, SlotInit, CountingHolds, Zenon
<1>2. LeaseInv /\ EditInv /\ SlotInv /\ [Next]_vars => (LeaseInv /\ EditInv /\ SlotInv)'
  BY LeaseStep, EditStep, SlotStep, CountingHolds, Zenon
<1>3. SlotInv => SlotsExact
  BY SlotsAreSound, Zenon
<1> QED BY <1>1, <1>2, <1>3, PTL DEF Spec
=============================================================================
