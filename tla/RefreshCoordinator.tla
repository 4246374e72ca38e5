-------------------------- MODULE RefreshCoordinator --------------------------
(***************************************************************************)
(* The single-flight coordinator of internal/hubfleet: Collector.Collect   *)
(* authorizes a caller, and refreshCoordinator lets every caller of a      *)
(* workspace share the one refresh flight of that workspace.  A flight is  *)
(* a goroutine; it runs collectWorkspace, stores the result and closes the *)
(* flight's done channel while it holds the coordinator's mutex.  A caller *)
(* waits for done or for its own context.                                  *)
(*                                                                         *)
(* What collectWorkspace does is the subject of SpokeCollector; here it    *)
(* ends with one of three outcomes.                                        *)
(***************************************************************************)
EXTENDS Integers

CONSTANTS Workspaces,   \* tenancy.WorkspaceID values
          NoWorkspace,  \* a flight identity not used yet
          Callers,      \* request goroutines calling Collect
          MaxCalls      \* bound: calls made in a behaviour

ASSUME CallsAssumption == MaxCalls \in Nat
ASSUME NoWorkspaceAssumption == NoWorkspace \notin Workspaces

\* A flight is known by the number of the call that made it.
FlightIds == 1 .. MaxCalls
NoFlight  == 0

\* coverage with a nil error, an error of collect (or of tracing.Ensure),
\* and errRefreshFlightPanicked with an empty coverage.
Outcomes == {"coverage", "error", "panicked"}

VARIABLES
  calls,        \* calls made so far (a bound, not program state)
  flights,      \* coordinator.flights: workspace -> flight
  mu,           \* coordinator.mu: the flight whose finish holds it, or NoFlight
  phase,        \* flight -> "none" | "running" | "stored" | "done"
  flightWs,     \* the workspaceID argument of run
  outcome,      \* flight.coverage and flight.err
  pc,           \* caller -> where it is in Collect
  callNo,       \* caller -> the number of its call, 0 between calls
  ws,           \* caller -> scope.WorkspaceID()
  joined,       \* caller -> its local variable flight
  ctxDone,      \* caller -> its context is canceled
  reply         \* caller -> what its last call returned

flightVars == <<flights, mu, phase, flightWs, outcome>>
callerVars == <<calls, pc, callNo, ws, joined, ctxDone, reply>>
vars == <<calls, flights, mu, phase, flightWs, outcome, pc, callNo, ws,
          joined, ctxDone, reply>>

\* The result of a call: the outcome of the flight it names, or an error of
\* its own ("refused" by the policy enforcer, "canceled").
NoReply == [kind |-> "none", flight |-> NoFlight]
Reply(k, f) == [kind |-> k, flight |-> f]

Init ==
  /\ calls    = 0
  /\ flights  = [w \in Workspaces |-> NoFlight]
  /\ mu       = NoFlight
  /\ phase    = [f \in FlightIds |-> "none"]
  /\ flightWs = [f \in FlightIds |-> NoWorkspace]
  /\ outcome  = [f \in FlightIds |-> "none"]
  /\ pc       = [c \in Callers |-> "idle"]
  /\ callNo   = [c \in Callers |-> 0]
  /\ ws       = [c \in Callers |-> NoWorkspace]
  /\ joined   = [c \in Callers |-> NoFlight]
  /\ ctxDone  = [c \in Callers |-> FALSE]
  /\ reply    = [c \in Callers |-> NoReply]

-----------------------------------------------------------------------------
(***************************************************************************)
(* Callers                                                                 *)
(***************************************************************************)

\* A request reaches Collect for workspace w with a live context.
Call(c, w) ==
  /\ pc[c] = "idle"
  /\ calls < MaxCalls
  /\ calls'   = calls + 1
  /\ callNo'  = [callNo EXCEPT ![c] = calls + 1]
  /\ pc'      = [pc EXCEPT ![c] = "authorizing"]
  /\ ws'      = [ws EXCEPT ![c] = w]
  /\ reply'   = [reply EXCEPT ![c] = NoReply]
  /\ UNCHANGED <<joined, ctxDone, flightVars>>

\* The call returns r; its local variables are gone.
Return(c, r) ==
  /\ pc'    = [pc EXCEPT ![c] = "idle"]
  /\ reply' = [reply EXCEPT ![c] = r]
  /\ callNo' = [callNo EXCEPT ![c] = 0]
  /\ joined' = [joined EXCEPT ![c] = NoFlight]
  /\ ctxDone' = [ctxDone EXCEPT ![c] = FALSE]
  /\ UNCHANGED <<calls, ws>>

\* Scope.Authorize, the workspace check or pep.AuthorizeRead refuses.
Refuse(c) ==
  /\ pc[c] = "authorizing"
  /\ Return(c, Reply("refused", NoFlight))
  /\ UNCHANGED flightVars

\* The caller is authorized and passes the ctx.Err() check of collect.
Admit(c) ==
  /\ pc[c] = "authorizing"
  /\ ~ctxDone[c]
  /\ pc' = [pc EXCEPT ![c] = "admitted"]
  /\ UNCHANGED <<calls, callNo, ws, joined, ctxDone, reply, flightVars>>

\* The caller is authorized but its context ended meanwhile.
TurnAway(c) ==
  /\ pc[c] = "authorizing"
  /\ ctxDone[c]
  /\ Return(c, Reply("canceled", NoFlight))
  /\ UNCHANGED flightVars

\* The critical section of collect: take the workspace's flight, or make
\* one and start run in a goroutine of its own.
JoinFlight(c) ==
  /\ joined' = [joined EXCEPT ![c] = flights[ws[c]]]
  /\ UNCHANGED <<flights, phase, flightWs>>

StartFlight(c) ==
  /\ joined'   = [joined EXCEPT ![c] = callNo[c]]
  /\ flights'  = [flights EXCEPT ![ws[c]] = callNo[c]]
  /\ phase'    = [phase EXCEPT ![callNo[c]] = "running"]
  /\ flightWs' = [flightWs EXCEPT ![callNo[c]] = ws[c]]

InFlightNever(w) == FALSE                          \* mutant: no lookup
InFlight(w) == flights[w] # NoFlight

Join(c) ==
  /\ pc[c] = "admitted"
  /\ mu = NoFlight
  /\ pc' = [pc EXCEPT ![c] = "waiting"]
  /\ \/ InFlight(ws[c]) /\ JoinFlight(c)
     \/ ~InFlight(ws[c]) /\ StartFlight(c)
  /\ UNCHANGED <<calls, callNo, ws, ctxDone, reply, mu, outcome>>

\* waitForRefresh: the flight's done channel is closed.
Done(f) == phase[f] = "done"

\* waitForRefresh: any of its three selects takes done.
TakeResultLate(c) ==                    \* mutant: only looks when canceled
  /\ pc[c] = "canceling"
  /\ Done(joined[c])
  /\ Return(c, Reply(outcome[joined[c]], joined[c]))
  /\ UNCHANGED flightVars
TakeResult(c) ==
  /\ pc[c] \in {"waiting", "canceling"}
  /\ Done(joined[c])
  /\ Return(c, Reply(outcome[joined[c]], joined[c]))
  /\ UNCHANGED flightVars

\* waitForRefresh: the second select takes ctx.Done(), which Go may choose
\* even when done is closed as well ...
CancelSeenLate(c) == ctxDone[c] /\ Done(joined[c])  \* mutant: waits for done
CancelSeen(c) == ctxDone[c]

NoticeCancel(c) ==
  /\ pc[c] = "waiting"
  /\ CancelSeen(c)
  /\ pc' = [pc EXCEPT ![c] = "canceling"]
  /\ UNCHANGED <<calls, callNo, ws, joined, ctxDone, reply, flightVars>>

\* ... and the innermost select looks at done once more.
StillRunningAssumed(c) == TRUE                     \* mutant: no second look
StillRunning(c) == ~Done(joined[c])

GiveUp(c) ==
  /\ pc[c] = "canceling"
  /\ StillRunning(c)
  /\ Return(c, Reply("canceled", NoFlight))
  /\ UNCHANGED flightVars

\* The request's context ends: client gone, or deadline.
CancelCaller(c) ==
  /\ pc[c] # "idle"
  /\ ~ctxDone[c]
  /\ ctxDone' = [ctxDone EXCEPT ![c] = TRUE]
  /\ UNCHANGED <<calls, pc, callNo, ws, joined, reply, flightVars>>

-----------------------------------------------------------------------------
(***************************************************************************)
(* Flights                                                                 *)
(***************************************************************************)

\* finish: the map without flight f, if it still holds it.
DeleteFlight(f) ==
  IF flights[flightWs[f]] = f
  THEN [flights EXCEPT ![flightWs[f]] = NoFlight]
  ELSE flights

\* run's collect returns or panics; finish takes the mutex, stores the
\* result and deletes the flight.
FinishStore(f) ==
  /\ phase[f] = "running"
  /\ mu = NoFlight
  /\ mu' = f
  /\ \E o \in Outcomes : outcome' = [outcome EXCEPT ![f] = o]
  /\ phase' = [phase EXCEPT ![f] = "stored"]
  /\ flights' = DeleteFlight(f)
  /\ UNCHANGED <<flightWs, callerVars>>

\* finish closes done and releases the mutex.
CloseDone(f) == phase' = [phase EXCEPT ![f] = "done"]

FinishClose(f) ==
  /\ phase[f] = "stored"
  /\ mu = f
  /\ CloseDone(f)
  /\ mu' = NoFlight
  /\ UNCHANGED <<flights, flightWs, outcome, callerVars>>

\* All the calls of the bound are made and answered.
Quiet ==
  /\ calls = MaxCalls
  /\ \A c \in Callers : pc[c] = "idle"
  /\ \A f \in FlightIds : phase[f] # "running"
  /\ UNCHANGED vars

CallerStep(c) ==
  \/ Admit(c) \/ TurnAway(c) \/ Join(c)
  \/ TakeResult(c) \/ NoticeCancel(c) \/ GiveUp(c)

FlightStep(f) == FinishStore(f) \/ FinishClose(f)

Next ==
  \/ \E c \in Callers :
       \/ \E w \in Workspaces : Call(c, w)
       \/ Refuse(c)
       \/ CallerStep(c)
       \/ CancelCaller(c)
  \/ \E f \in FlightIds : FlightStep(f)
  \/ Quiet

Spec == Init /\ [][Next]_vars

\* Every goroutine that can take a step eventually takes one: the callers
\* are not blocked by anything but the mutex and their two channels ...
CallerFairness == \A c \in Callers : WF_vars(CallerStep(c))

\* ... and a flight ends, because every transport call of collectWorkspace
\* is bounded by the spoke timeout (SpokeCollector shows the rest).
FlightFairness == \A f \in FlightIds : WF_vars(FlightStep(f))

\* Only the callers' fairness is part of the specification.
FairSpec == Spec /\ CallerFairness

-----------------------------------------------------------------------------
(***************************************************************************)
(* Properties                                                              *)
(***************************************************************************)

\* The coordinator's map names flights that exist, a call returns a kind of
\* result together with the flight it comes from, and a caller holds a call
\* number, a flight and a canceled context only while it is in Collect.
TypeOK ==
  /\ calls \in 0 .. MaxCalls
  /\ flights \in [Workspaces -> FlightIds \union {NoFlight}]
  /\ mu \in FlightIds \union {NoFlight}
  /\ phase \in [FlightIds -> {"none", "running", "stored", "done"}]
  /\ flightWs \in [FlightIds -> Workspaces \union {NoWorkspace}]
  /\ outcome \in [FlightIds -> Outcomes \union {"none"}]
  /\ pc \in [Callers -> {"idle", "authorizing", "admitted", "waiting",
                         "canceling"}]
  /\ callNo \in [Callers -> 0 .. MaxCalls]
  /\ \A c \in Callers : pc[c] = "idle" =>
       callNo[c] = 0 /\ joined[c] = NoFlight /\ ~ctxDone[c]
  /\ ws \in [Callers -> Workspaces \union {NoWorkspace}]
  /\ joined \in [Callers -> FlightIds \union {NoFlight}]
  /\ ctxDone \in [Callers -> BOOLEAN]
  /\ reply \in [Callers -> [kind : Outcomes \union {"none", "refused",
                                                    "canceled"},
                            flight : FlightIds \union {NoFlight}]]

Unclosed(f) == phase[f] \in {"running", "stored"}

\* "at most one active refresh for its workspace" (Collect, collector.go):
\* two flights of one workspace never overlap, not even while one of them is
\* inside finish.
SingleFlight ==
  \A f, g \in FlightIds :
    Unclosed(f) /\ Unclosed(g) /\ flightWs[f] = flightWs[g] => f = g

\* A caller never gets the result of another workspace, of a flight that
\* panicked without storing, or of a flight whose fields finish was still
\* writing: what it got is the closed result of a flight of its workspace.
OwnWorkspaceResult ==
  \A c \in Callers :
    LET f == reply[c].flight IN
    f # NoFlight => /\ flightWs[f] = ws[c]
                    /\ phase[f] = "done"
                    /\ reply[c].kind = outcome[f]

\* The parts of the inductive invariant.  The map holds exactly the running
\* flights, and a flight that is inside finish holds the mutex.
FlightsTracked ==
  /\ \A f \in FlightIds :
       /\ phase[f] # "none" => flightWs[f] \in Workspaces
       /\ phase[f] = "running" => flights[flightWs[f]] = f
       /\ phase[f] = "stored" => flights[flightWs[f]] = NoFlight
       /\ phase[f] = "stored" <=> mu = f
       /\ phase[f] \in {"stored", "done"} => outcome[f] \in Outcomes
  /\ \A w \in Workspaces : flights[w] # NoFlight =>
       phase[flights[w]] = "running" /\ flightWs[flights[w]] = w

\* Calls in progress are different calls, one that has not joined yet has
\* made no flight, and one that waits has a flight of its workspace.
CallersTracked ==
  /\ \A f \in FlightIds : f > calls => phase[f] = "none"
  /\ \A c \in Callers : pc[c] # "idle" =>
       /\ callNo[c] \in 1 .. calls /\ ws[c] \in Workspaces
       /\ reply[c] = NoReply
       /\ \A d \in Callers : callNo[d] = callNo[c] => c = d
  /\ \A c \in Callers : pc[c] \in {"authorizing", "admitted"} =>
       phase[callNo[c]] = "none"
  /\ \A c \in Callers : pc[c] \in {"waiting", "canceling"} =>
       /\ joined[c] # NoFlight
       /\ phase[joined[c]] # "none" /\ flightWs[joined[c]] = ws[c]

\* Why there is one flight per workspace: a flight leaves the map in the same
\* critical section in which it ends, and nobody joins meanwhile.
CoordinatorInv ==
  TypeOK /\ FlightsTracked /\ CallersTracked /\ OwnWorkspaceResult

\* A caller never joins a flight that finished before it arrived, so the
\* answer it gets was still being collected after it was authorized.
JoinsLiveFlight ==
  [][\A c \in Callers :
       joined'[c] \notin {joined[c], NoFlight} =>
         phase'[joined'[c]] = "running"]_vars

\* Every call returns, as long as flights end.
CallsAnswered ==
  FlightFairness => \A c \in Callers : pc[c] # "idle" ~> pc[c] = "idle"

\* A waiting caller whose context ends returns even if the flight hangs for
\* ever (waitForRefresh selects on ctx.Done()).
CanceledWaitEnds ==
  \A c \in Callers :
    pc[c] \in {"waiting", "canceling"} /\ ctxDone[c] ~> pc[c] = "idle"

\* The coordinator implements the promise of SharedRefresh.  A joined caller
\* is promised the outcome from the step that closes done, although it may
\* return later and may find its context canceled by then.
Waiting(c) == pc[c] \in {"waiting", "canceling"}

Refreshing == {w \in Workspaces :
                 \E f \in FlightIds : Unclosed(f) /\ flightWs[f] = w}
WaitingFor == [c \in Callers |-> IF Waiting(c) THEN ws[c] ELSE NoWorkspace]
Promised   == [c \in Callers |->
                 IF Waiting(c) /\ phase[joined[c]] = "done"
                 THEN outcome[joined[c]] ELSE "undecided"]
Returned   == [c \in Callers |-> reply[c].kind]

Shared == INSTANCE SharedRefresh WITH
  running <- Refreshing, joined <- WaitingFor,
  answer <- Promised, result <- Returned

ImplementsSharedRefresh == Shared!Spec
=============================================================================
