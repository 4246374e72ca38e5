---------------------------- MODULE MCFleetStore ----------------------------
(* Instances of FleetStore for TLC. *)
EXTENDS FleetStore

Dep(name, available) == [ns |-> "n", name |-> name, replicas |-> -1, available |-> available, unavailable |-> 1 - available,
                         generation |-> 1, observed |-> 1]
Image(digest) == [scheme |-> "docker", repository |-> "repo", digest |-> digest]
Pod(name, digests) == [ns |-> "n", name |-> name, phase |-> "Running", waiting |-> None, ready |-> TRUE,
                       images |-> [i \in DOMAIN digests |-> Image(digests[i])]]
Crashing(name, digests) == [Pod(name, digests) EXCEPT !.waiting = "CrashLoopBackOff", !.ready = FALSE]
Rollout(name, phase) == [ns |-> "n", name |-> name, phase |-> phase, replicas |-> 1, available |-> 1]
Finding(id, severity) == [id |-> [text |-> id, upper |-> TRUE], severity |-> severity]
Report(digest, findings) == [oversize |-> FALSE, digest |-> digest, findings |-> findings]

List(items) == [served |-> TRUE, items |-> items]
Unserved == [served |-> FALSE, items |-> <<>>]
World(deployments, pods, rollouts, reports) ==
    [k \in ToSet(Kinds) |-> CASE k = "Deployment" -> List(deployments) [] k = "Pod" -> List(pods)
                              [] k = "Rollout" -> rollouts [] k = "Report" -> reports]

R1 == Report("d1", <<Finding("c1", "low"), Finding("c2", "high")>>)
R2 == Report("d2", <<Finding("c2", "critical")>>)
R3 == Report("d1", <<Finding("c3", "medium")>>)

MCWorlds ==
    [ra |-> <<World(<<Dep("x", 1)>>, <<Pod("p", <<"d1">>)>>, Unserved, List(<<R1>>)),
              World(<<Dep("x", 0)>>, <<Crashing("q", <<"d2">>)>>, List(<<>>), List(<<R1, R2>>))>>,
     \* Lists of several pages, one that outgrows the budget, and images with too many identifiers.
     rb |-> <<World(<<>>, <<Pod("p", <<"d1">>), Pod("q", <<"d2", "d1">>)>>, List(<<Rollout("r", "paused")>>), List(<<R1, R2>>)),
              World(<<Dep("x", 1)>>, <<Pod("q", <<"d2">>), Pod("s", <<>>), Pod("p", <<"d1">>)>>, List(<<Rollout("r", "")>>), List(<<R2, R1, R2>>)),
              World(<<>>, <<Pod("p", <<"d1">>)>>, Unserved, List(<<R1, R3>>))>>,
     \* A Pod with too many images, and reports that are refused.
     rc |-> <<World(<<>>, <<Pod("p", <<"d1", "d2", "d3">>)>>, Unserved, Unserved),
              World(<<>>, <<Pod("p", <<"d1">>)>>, Unserved,
                    List(<<[R1 EXCEPT !.oversize = TRUE], Report("d1", <<Finding(Bad, "low")>>)>>)),
              World(<<>>, <<Pod("p", <<Bad>>)>>, Unserved, List(<<R1>>))>>]

Row(ref, at, error) == [ref |-> ref, lastSeen |-> at, attempted |-> at, error |-> error]
Held(c, world) ==
    LET made == CollectFacts(c, [k \in ToSet(Kinds) |-> world[k].items], 1).facts
    IN {[cluster |-> c, by |-> 0, evidence |-> made[i]] : i \in DOMAIN made}

Ask(op, arg) == [op |-> op, arg |-> arg, limit |-> 0, ns |-> None, name |-> None, healthNot |-> None, member |-> TRUE, method |-> None]
Get(op, arg) == [Ask(op, arg) EXCEPT !.method = "GET"]
Raw(scopes, kinds) ==
    [x \in DOMAIN Ask("query", None) \cup {"query"} |->
       IF x = "query" THEN [kinds |-> kinds, scopes |-> scopes, limit |-> 2, sel |-> AnySel] ELSE Ask("query", None)[x]]

Base == [rows |-> [a |-> Row("ra", 1, None)], facts |-> Held("a", MCWorlds["ra"][1]), spokes |-> {"a"}, attempts |-> 1,
         requests |-> {}, changing |-> {}, admin |-> <<>>, ticks |-> 2]

MCWorkloads ==
    { \* two replicas collect one spoke whose contents change, and it is read meanwhile
      [Base EXCEPT !.attempts = 2, !.changing = {"ra"}, !.requests = {Get("images", "d1")}],
      \* the spoke is removed and registered again with another reference
      [Base EXCEPT !.admin = <<[op |-> "remove", id |-> "a"], [op |-> "register", id |-> "a", ref |-> "rc"]>>,
                   !.attempts = 2, !.requests = {Get("fleet", None)}, !.ticks = 1],
      \* two spokes, one never collected, read as they age
      [Base EXCEPT !.rows = [a |-> Row("ra", 1, None), b |-> Row("rc", Never, None)], !.spokes = {"a", "b"}, !.changing = {"rc"}, !.ticks = 4,
                   !.requests = {Get("fleet", None), Raw(<<"b", "a", "b">>, {}), Raw(<<"z">>, {"cve"})}],
      \* a longer list, paged while it changes
      [Base EXCEPT !.rows = [b |-> Row("rb", Never, None)], !.facts = {}, !.spokes = {"b"}, !.changing = {"rb"}, !.ticks = 1],
      \* no spokes
      [Base EXCEPT !.rows = <<>>, !.facts = {}, !.spokes = {}, !.requests = {Get("fleet", None), Ask("inventory", "Pod")}],
      \* every search
      [Base EXCEPT !.changing = {"ra"}, !.ticks = 1, !.requests =
        {Get("image-cves", "d1"), Get("cves", "c2"), Get("cves", Bad), [Get("images", "d1") EXCEPT !.method = "POST"],
         [Ask("inventory", "Deployment") EXCEPT !.name = "x", !.limit = 1], Ask("inventory", "Secret"),
         [Ask("correlate", "Deployment") EXCEPT !.name = "x", !.healthNot = "Healthy"],
         [Ask("correlate", "Pod") EXCEPT !.name = "p", !.healthNot = Bad],
         [Ask("images", "d1") EXCEPT !.member = FALSE], [Ask("images", "d2") EXCEPT !.limit = 5]}] }
=============================================================================
