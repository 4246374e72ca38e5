---------------------------- MODULE SharedRefresh ----------------------------
(***************************************************************************)
(* What a hub promises to the callers of Collector.Collect, without saying *)
(* how: a workspace is refreshed at most once at a time, everybody who     *)
(* asks for a workspace while it is being refreshed shares that refresh,   *)
(* and the moment it completes decides the answer of all of them at once.  *)
(* A caller that gives up before that moment is told it was canceled, one  *)
(* that gives up later still gets the answer.  A caller that is turned     *)
(* away gets an error of its own and starts nothing.                       *)
(***************************************************************************)
CONSTANTS Workspaces,   \* tenants whose spokes are refreshed
          NoWorkspace,  \* "not in a call"
          Callers,      \* concurrent requests
          Outcomes      \* what a completed refresh may report

VARIABLES running,      \* workspaces with a refresh in progress
          joined,       \* the workspace each caller waits for
          answer,       \* what each caller has been promised
          result        \* what each caller's last call returned

sharedVars == <<running, joined, answer, result>>

Undecided == "undecided"

Init ==
  /\ running = {}
  /\ joined  = [c \in Callers |-> NoWorkspace]
  /\ answer  = [c \in Callers |-> Undecided]
  /\ result  = [c \in Callers |-> "none"]

\* A caller comes with a new request, which may be turned away at once.
Ask(c) ==
  /\ joined[c] = NoWorkspace
  /\ result' = [result EXCEPT ![c] = "none"]
  /\ UNCHANGED <<running, joined, answer>>

TurnAway(c) ==
  /\ joined[c] = NoWorkspace
  /\ result[c] = "none"
  /\ \E e \in {"refused", "canceled"} : result' = [result EXCEPT ![c] = e]
  /\ UNCHANGED <<running, joined, answer>>

\* A caller starts the refresh of w, or shares the one in progress.
Join(c, w) ==
  /\ joined[c] = NoWorkspace
  /\ result[c] = "none"
  /\ running' = running \union {w}
  /\ joined'  = [joined EXCEPT ![c] = w]
  /\ UNCHANGED <<answer, result>>

\* The refresh of w ends and answers everybody who shares it.
Complete(w, o) ==
  /\ w \in running
  /\ running' = running \ {w}
  /\ answer'  = [c \in Callers |->
                   IF joined[c] = w /\ answer[c] = Undecided
                   THEN o ELSE answer[c]]
  /\ UNCHANGED <<joined, result>>

\* A caller gives up; the refresh goes on without it.
Abandon(c) ==
  /\ joined[c] # NoWorkspace
  /\ answer[c] = Undecided
  /\ joined' = [joined EXCEPT ![c] = NoWorkspace]
  /\ result' = [result EXCEPT ![c] = "canceled"]
  /\ UNCHANGED <<running, answer>>

\* A caller takes the answer it was promised.
Leave(c) ==
  /\ joined[c] # NoWorkspace
  /\ answer[c] # Undecided
  /\ joined' = [joined EXCEPT ![c] = NoWorkspace]
  /\ answer' = [answer EXCEPT ![c] = Undecided]
  /\ result' = [result EXCEPT ![c] = answer[c]]
  /\ UNCHANGED running

Next ==
  \/ \E c \in Callers, w \in Workspaces : Join(c, w)
  \/ \E w \in Workspaces, o \in Outcomes : Complete(w, o)
  \/ \E c \in Callers : Ask(c) \/ TurnAway(c) \/ Abandon(c) \/ Leave(c)

Spec == Init /\ [][Next]_sharedVars
=============================================================================
