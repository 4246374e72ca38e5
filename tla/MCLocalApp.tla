----------------------------- MODULE MCLocalApp -----------------------------
(***************************************************************************)
(* Two sessions, two contexts, three requests.  Each workload is one kind   *)
(* of trouble: a gate with more callers than places, edits against a       *)
(* changing object, tunnels that end, are deleted and are closed with      *)
(* their session, a folder import under running requests, and the first    *)
(* operation on a context racing its discovery.                            *)
(***************************************************************************)
EXTENDS LocalApp

MCApps == 1..2
MCScopes == {"east", "west"}
R(n) == <<0, n>>
MCRequests == {R("r1"), R("r2"), R("r3")}

Quiet == [known |-> "up", scopes |-> {"east"}, imports |-> 0, closes |-> FALSE, drops |-> FALSE, ticks |-> 0,
          foreign |-> 0, discovers |-> FALSE, faults |-> FALSE, deadlines |-> FALSE,
          kinds |-> [r \in MCRequests |-> {}]]
Kinds(a, b, c) == [r \in MCRequests |-> CASE r = R("r1") -> a [] r = R("r2") -> b [] OTHER -> c]

MCWorkloads == {
    [Quiet EXCEPT !.kinds = Kinds({"describe"}, {"view"}, {"view"}), !.deadlines = TRUE],
    [Quiet EXCEPT !.kinds = Kinds({"preview"}, {"apply"}, {}), !.foreign = 1, !.ticks = 1, !.deadlines = TRUE],
    [Quiet EXCEPT !.kinds = Kinds({"preview"}, {"apply"}, {}), !.scopes = {"east", "west"}, !.foreign = 1,
                  !.faults = TRUE],
    [Quiet EXCEPT !.kinds = Kinds({"forward"}, {"forward"}, {"delete"}), !.closes = TRUE, !.drops = TRUE],
    [Quiet EXCEPT !.kinds = Kinds({"forward"}, {"delete"}, {}), !.imports = 1, !.closes = TRUE],
    [Quiet EXCEPT !.kinds = Kinds({"view"}, {}, {}), !.known = "unknown", !.discovers = TRUE,
                  !.closes = TRUE, !.deadlines = TRUE]
}
=============================================================================
