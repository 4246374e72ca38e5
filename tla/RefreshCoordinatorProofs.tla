---------------------- MODULE RefreshCoordinatorProofs ----------------------
(***************************************************************************)
(* For any number of workspaces, callers and calls: a workspace has at     *)
(* most one refresh flight, a caller gets the closed result of a flight    *)
(* of its own workspace, and the coordinator implements SharedRefresh.     *)
(* The inductive invariant CoordinatorInv is a definition of               *)
(* RefreshCoordinator, so that TLC can evaluate it.                        *)
(***************************************************************************)
EXTENDS RefreshCoordinator, TLAPS

USE DEF FlightIds, NoFlight, NoReply, Reply

\* Without calls and flights the invariant holds.
LEMMA InitEstablishesInv == Init => CoordinatorInv
BY CallsAssumption, NoWorkspaceAssumption
   DEF Init, CoordinatorInv, TypeOK, FlightsTracked, CallersTracked,
       OwnWorkspaceResult, Outcomes

-----------------------------------------------------------------------------
(***************************************************************************)
(* The callers                                                             *)
(***************************************************************************)

\* A new call has a number of its own, which no flight has.
LEMMA CallPreservesInv ==
  ASSUME CoordinatorInv, NEW c \in Callers, NEW w \in Workspaces, Call(c, w)
  PROVE  CoordinatorInv'
<1> USE CallsAssumption DEF CoordinatorInv, Call, flightVars
<1>1. TypeOK'
  BY DEF TypeOK
<1>2. FlightsTracked'
  BY Zenon DEF FlightsTracked
<1>3. CallersTracked'
  <2>1. /\ calls \in Nat /\ calls' = calls + 1
        /\ pc'[c] = "authorizing" /\ callNo'[c] = calls + 1 /\ ws'[c] = w
        /\ reply'[c] = NoReply
        /\ phase[calls + 1] = "none"
    BY DEF TypeOK, CallersTracked
  <2>2. \A d \in Callers \ {c} : /\ pc'[d] = pc[d] /\ callNo'[d] = callNo[d]
                                 /\ ws'[d] = ws[d] /\ reply'[d] = reply[d]
    BY Zenon DEF TypeOK
  <2>3. \A d \in Callers : callNo[d] \in 0 .. calls
    BY <2>1 DEF TypeOK, CallersTracked
  <2>4. \A f \in FlightIds : f > calls' => phase'[f] = "none"
    BY <2>1 DEF CallersTracked
  <2>5. ASSUME NEW d \in Callers, pc'[d] # "idle"
        PROVE  /\ callNo'[d] \in 1 .. calls' /\ ws'[d] \in Workspaces
               /\ reply'[d] = NoReply
               /\ \A b \in Callers : callNo'[b] = callNo'[d] => d = b
    BY <2>1, <2>2, <2>3, <2>5 DEF CallersTracked
  <2>6. \A d \in Callers : pc'[d] \in {"authorizing", "admitted"} =>
          phase'[callNo'[d]] = "none"
    BY <2>1, <2>2 DEF CallersTracked
  <2>7. ASSUME NEW d \in Callers, pc'[d] \in {"waiting", "canceling"}
        PROVE  /\ joined'[d] # NoFlight
               /\ phase'[joined'[d]] # "none" /\ flightWs'[joined'[d]] = ws'[d]
    BY <2>1, <2>2, <2>7 DEF CallersTracked
  <2> QED BY <2>4, <2>5, <2>6, <2>7, Zenon DEF CallersTracked
<1>4. OwnWorkspaceResult'
  BY Zenon DEF TypeOK, OwnWorkspaceResult
<1> QED BY <1>1, <1>2, <1>3, <1>4, Zenon

\* A call that returns r leaves nothing behind but r.
LEMMA ReturnPreservesInv ==
  ASSUME CoordinatorInv, NEW c \in Callers, NEW r, pc[c] # "idle",
         Return(c, r), UNCHANGED flightVars,
         r \in [kind : Outcomes \union {"none", "refused", "canceled"},
                flight : FlightIds \union {NoFlight}],
         r.flight # NoFlight => /\ flightWs[r.flight] = ws[c]
                                /\ phase[r.flight] = "done"
                                /\ r.kind = outcome[r.flight]
  PROVE  CoordinatorInv'
<1> USE CallsAssumption DEF CoordinatorInv, Return, flightVars
<1>1. TypeOK'
  BY DEF TypeOK
<1>2. FlightsTracked'
  BY Zenon DEF FlightsTracked
<1>3. CallersTracked'
  BY DEF TypeOK, CallersTracked
<1>4. OwnWorkspaceResult'
  BY DEF TypeOK, OwnWorkspaceResult
<1> QED BY <1>1, <1>2, <1>3, <1>4, Zenon

\* A step of one caller that only moves its program counter on, within the
\* part of Collect before the flight is joined or within the wait.
LEMMA MovePreservesInv ==
  ASSUME CoordinatorInv, NEW c \in Callers, NEW p,
         \/ pc[c] = "authorizing" /\ p = "admitted"
         \/ pc[c] = "waiting" /\ p = "canceling",
         pc' = [pc EXCEPT ![c] = p],
         UNCHANGED <<calls, callNo, ws, joined, ctxDone, reply, flightVars>>
  PROVE  CoordinatorInv'
<1> USE DEF CoordinatorInv, flightVars
<1>1. TypeOK'
  BY Zenon DEF TypeOK
<1>2. FlightsTracked'
  BY Zenon DEF FlightsTracked
<1>3. CallersTracked'
  BY DEF TypeOK, CallersTracked
<1>4. OwnWorkspaceResult'
  BY Zenon DEF OwnWorkspaceResult
<1> QED BY <1>1, <1>2, <1>3, <1>4, Zenon

\* The end of a caller's context changes nothing else.
LEMMA CancelPreservesInv ==
  ASSUME CoordinatorInv, NEW c \in Callers, CancelCaller(c)
  PROVE  CoordinatorInv'
<1> USE DEF CoordinatorInv, CancelCaller, flightVars
<1>1. TypeOK'
  BY Zenon DEF TypeOK
<1>2. FlightsTracked' /\ CallersTracked' /\ OwnWorkspaceResult'
  BY DEF FlightsTracked, CallersTracked, OwnWorkspaceResult
<1> QED BY <1>1, <1>2, Zenon

\* A caller joins the running flight of its workspace, or makes it.
LEMMA JoinPreservesInv ==
  ASSUME CoordinatorInv, NEW c \in Callers, Join(c)
  PROVE  CoordinatorInv'
<1> USE CallsAssumption DEF CoordinatorInv, Join
<1>1. /\ pc[c] = "admitted" /\ callNo[c] \in 1 .. calls /\ calls \in 0 .. MaxCalls
      /\ ws[c] \in Workspaces /\ phase[callNo[c]] = "none"
  BY Zenon DEF TypeOK, CallersTracked
<1>2. CASE InFlight(ws[c]) /\ JoinFlight(c)
  <2> USE <1>2 DEF InFlight, JoinFlight
  <2>1. TypeOK'
    BY <1>1, Zenon DEF TypeOK
  <2>2. FlightsTracked'
    BY Zenon DEF FlightsTracked
  <2>3. CallersTracked'
    BY <1>1 DEF TypeOK, FlightsTracked, CallersTracked
  <2>4. OwnWorkspaceResult'
    BY Zenon DEF OwnWorkspaceResult
  <2> QED BY <2>1, <2>2, <2>3, <2>4, Zenon
<1>3. CASE ~InFlight(ws[c]) /\ StartFlight(c)
  <2> USE <1>3 DEF InFlight, StartFlight
  <2>1. TypeOK'
    BY <1>1 DEF TypeOK
  <2>2. FlightsTracked'
    BY <1>1 DEF TypeOK, FlightsTracked
  <2>3. CallersTracked'
    BY <1>1 DEF TypeOK, CallersTracked
  <2>4. OwnWorkspaceResult'
    BY <1>1 DEF TypeOK, OwnWorkspaceResult
  <2> QED BY <2>1, <2>2, <2>3, <2>4, Zenon
<1> QED BY <1>2, <1>3, Zenon

-----------------------------------------------------------------------------
(***************************************************************************)
(* The flights                                                             *)
(***************************************************************************)

\* finish takes the flight out of the map while it holds the mutex.
LEMMA StorePreservesInv ==
  ASSUME CoordinatorInv, NEW f \in FlightIds, FinishStore(f)
  PROVE  CoordinatorInv'
<1> USE CallsAssumption DEF CoordinatorInv, FinishStore, callerVars
<1>1. flights' = [flights EXCEPT ![flightWs[f]] = NoFlight]
  BY Zenon DEF DeleteFlight, FlightsTracked
<1>2. TypeOK'
  BY <1>1, Zenon DEF TypeOK
<1>3. FlightsTracked'
  BY <1>1 DEF TypeOK, FlightsTracked
<1>4. CallersTracked'
  BY DEF TypeOK, CallersTracked
<1>5. OwnWorkspaceResult'
  BY DEF TypeOK, OwnWorkspaceResult
<1> QED BY <1>2, <1>3, <1>4, <1>5, Zenon

\* Closing done releases the mutex and lets the waiting callers go.
LEMMA ClosePreservesInv ==
  ASSUME CoordinatorInv, NEW f \in FlightIds, FinishClose(f)
  PROVE  CoordinatorInv'
<1> USE CallsAssumption DEF CoordinatorInv, FinishClose, CloseDone, callerVars
<1>1. TypeOK'
  BY Zenon DEF TypeOK
<1>2. FlightsTracked'
  BY DEF TypeOK, FlightsTracked
<1>3. CallersTracked'
  BY DEF TypeOK, CallersTracked
<1>4. OwnWorkspaceResult'
  BY Zenon DEF TypeOK, OwnWorkspaceResult
<1> QED BY <1>1, <1>2, <1>3, <1>4, Zenon

-----------------------------------------------------------------------------
(***************************************************************************)
(* The invariant, and what follows from it                                 *)
(***************************************************************************)

\* Every step of every caller and flight preserves the invariant.
LEMMA StepPreservesInv == CoordinatorInv /\ [Next]_vars => CoordinatorInv'
<1> SUFFICES ASSUME CoordinatorInv, [Next]_vars PROVE CoordinatorInv'
  BY Zenon
<1>1. ASSUME NEW c \in Callers, NEW w \in Workspaces, Call(c, w)
      PROVE  CoordinatorInv'
  BY <1>1, CallPreservesInv, Zenon
<1>2. ASSUME NEW c \in Callers, Refuse(c) \/ TurnAway(c) \/ GiveUp(c)
      PROVE  CoordinatorInv'
  <2> USE Zenon
  <2>1. PICK k \in {"refused", "canceled"} :
          Return(c, [kind |-> k, flight |-> NoFlight])
    BY <1>2 DEF Refuse, TurnAway, GiveUp
  <2>2. pc[c] # "idle" /\ UNCHANGED flightVars
    BY <1>2 DEF Refuse, TurnAway, GiveUp
  <2> QED BY <2>1, <2>2, ReturnPreservesInv
<1>3. ASSUME NEW c \in Callers, TakeResult(c)
      PROVE  CoordinatorInv'
  <2> DEFINE f == joined[c]
  <2>1. /\ pc[c] \in {"waiting", "canceling"} /\ phase[f] = "done"
        /\ Return(c, [kind |-> outcome[f], flight |-> f])
        /\ UNCHANGED flightVars
    BY <1>3, Zenon DEF TakeResult, Done
  <2>2. f \in FlightIds /\ flightWs[f] = ws[c]
    BY <2>1 DEF CoordinatorInv, TypeOK, CallersTracked
  <2>3. outcome[f] \in Outcomes \union {"none", "refused", "canceled"}
    BY <2>2, Zenon DEF CoordinatorInv, TypeOK
  <2> QED BY <2>1, <2>2, <2>3, ReturnPreservesInv, Zenon
<1>4. ASSUME NEW c \in Callers, Admit(c) \/ NoticeCancel(c)
      PROVE  CoordinatorInv'
  BY <1>4, MovePreservesInv, Zenon DEF Admit, NoticeCancel
<1>5. ASSUME NEW c \in Callers, Join(c) \/ CancelCaller(c)
      PROVE  CoordinatorInv'
  BY <1>5, JoinPreservesInv, CancelPreservesInv, Zenon
<1>6. ASSUME NEW f \in FlightIds, FlightStep(f)
      PROVE  CoordinatorInv'
  BY <1>6, StorePreservesInv, ClosePreservesInv, Zenon DEF FlightStep
<1>7. CASE UNCHANGED vars
  BY <1>7 DEF vars, CoordinatorInv, TypeOK, FlightsTracked, CallersTracked,
     OwnWorkspaceResult
<1> QED BY <1>1, <1>2, <1>3, <1>4, <1>5, <1>6, <1>7, Zenon
        DEF Next, CallerStep, Quiet

\* The inductive invariant holds in every reachable state.
THEOREM InvHolds == Spec => []CoordinatorInv
BY InitEstablishesInv, StepPreservesInv, PTL DEF Spec

\* A running flight is the one in the map, a stored one is the one that
\* holds the mutex, and its workspace is no longer in the map.
LEMMA InvImpliesSingleFlight == CoordinatorInv => SingleFlight
<1> SUFFICES ASSUME CoordinatorInv, NEW f \in FlightIds, NEW g \in FlightIds,
                    Unclosed(f), Unclosed(g), flightWs[f] = flightWs[g]
             PROVE  f = g
  BY Zenon DEF SingleFlight
<1>1. /\ phase[f] = "running" => flights[flightWs[f]] = f
      /\ phase[f] = "stored" => flights[flightWs[f]] = NoFlight /\ mu = f
  BY Zenon DEF CoordinatorInv, FlightsTracked
<1>2. /\ phase[g] = "running" => flights[flightWs[g]] = g
      /\ phase[g] = "stored" => flights[flightWs[g]] = NoFlight /\ mu = g
  BY Zenon DEF CoordinatorInv, FlightsTracked
<1> QED BY <1>1, <1>2 DEF Unclosed

\* Collect keeps "at most one active refresh for its workspace", however many
\* callers, workspaces and calls there are.
THEOREM OneFlightPerWorkspace == Spec => []SingleFlight
BY InvImpliesSingleFlight, InvHolds, PTL

\* A caller only ever gets the closed result of a flight of its workspace.
THEOREM ResultsStayInWorkspace == Spec => []OwnWorkspaceResult
<1>1. CoordinatorInv => OwnWorkspaceResult
  BY Zenon DEF CoordinatorInv
<1> QED BY <1>1, InvHolds, PTL

\* A caller that joins a flight joins one that is still running.
THEOREM CallersJoinLiveFlights == Spec => JoinsLiveFlight
<1> DEFINE JoinsLive == \A c \in Callers :
             joined'[c] \notin {joined[c], NoFlight} =>
               phase'[joined'[c]] = "running"
<1>1. CoordinatorInv /\ [Next]_vars => [JoinsLive]_vars
  <2> SUFFICES ASSUME CoordinatorInv, Next, NEW c \in Callers,
                      joined'[c] \notin {joined[c], NoFlight}
               PROVE  phase'[joined'[c]] = "running"
    BY Zenon
  <2>1. ASSUME NEW d \in Callers, Join(d)
        PROVE  phase'[joined'[c]] = "running"
    <3>1. c = d
      BY <2>1, Zenon DEF Join, JoinFlight, StartFlight, CoordinatorInv, TypeOK
    <3>2. ws[c] \in Workspaces /\ callNo[c] \in FlightIds
      BY <2>1, <3>1, CallsAssumption
         DEF Join, CoordinatorInv, TypeOK, CallersTracked
    <3>3. CASE InFlight(ws[c]) /\ JoinFlight(c)
      <4>1. joined'[c] = flights[ws[c]] /\ phase' = phase
        BY <3>3, Zenon DEF JoinFlight, CoordinatorInv, TypeOK
      <4> QED BY <3>2, <3>3, <4>1 DEF InFlight, CoordinatorInv, FlightsTracked
    <3>4. CASE StartFlight(c)
      BY <3>2, <3>4, Zenon DEF StartFlight, CoordinatorInv, TypeOK
    <3> QED BY <2>1, <3>1, <3>3, <3>4, Zenon DEF Join
  <2>2. ASSUME NEW d \in Callers, NEW r, Return(d, r) PROVE FALSE
    BY <2>2, Zenon DEF Return, CoordinatorInv, TypeOK
  <2>3. CASE UNCHANGED joined
    BY <2>3, Zenon
  <2> QED BY <2>1, <2>2, <2>3, Zenon
          DEF Next, CallerStep, FlightStep, Quiet, Call, Refuse, Admit,
              TurnAway, TakeResult, NoticeCancel, GiveUp, CancelCaller,
              FinishStore, FinishClose, callerVars, vars
<1> QED BY <1>1, InvHolds, PTL DEF Spec, JoinsLiveFlight

-----------------------------------------------------------------------------
(***************************************************************************)
(* The promise of SharedRefresh: the step that closes a flight's done      *)
(* channel decides the answer of everybody who joined it.                  *)
(***************************************************************************)
shared == <<Refreshing, WaitingFor, Promised, Returned>>

\* The new request of a caller that waits for nothing.
LEMMA CallRefines ==
  ASSUME CoordinatorInv, NEW c \in Callers, NEW w \in Workspaces, Call(c, w)
  PROVE  Shared!Ask(c)
<1> USE Zenon
<1> USE DEF CoordinatorInv, TypeOK, Call, flightVars
<1>1. WaitingFor[c] = NoWorkspace
  BY DEF WaitingFor, Waiting
<1>2. Returned' = [Returned EXCEPT ![c] = "none"]
  BY DEF Returned
<1>3. UNCHANGED Refreshing
  BY DEF Refreshing, Unclosed
<1>4. UNCHANGED <<WaitingFor, Promised>>
  BY DEF WaitingFor, Promised, Waiting
<1> QED BY <1>1, <1>2, <1>3, <1>4 DEF Shared!Ask

\* A caller that has not joined a flight returns an error of its own.
LEMMA RefuseRefines ==
  ASSUME CoordinatorInv, NEW c \in Callers, Refuse(c) \/ TurnAway(c)
  PROVE  Shared!TurnAway(c)
<1> USE DEF CoordinatorInv, TypeOK, flightVars
<1>1. PICK k \in {"refused", "canceled"} : Return(c, Reply(k, NoFlight))
  BY Zenon DEF Refuse, TurnAway
<1>2. pc[c] = "authorizing" /\ UNCHANGED flightVars
  BY Zenon DEF Refuse, TurnAway
<1> USE DEF Return
<1>3. WaitingFor[c] = NoWorkspace /\ Returned[c] = "none"
  BY <1>2 DEF WaitingFor, Waiting, Returned, CallersTracked
<1>4. Returned' = [Returned EXCEPT ![c] = k]
  BY <1>1, Zenon DEF Returned
<1>5. UNCHANGED Refreshing
  BY <1>2, Zenon DEF Refreshing, Unclosed
<1>6. UNCHANGED <<WaitingFor, Promised>>
  BY <1>1, <1>2, Zenon DEF WaitingFor, Promised, Waiting
<1> QED BY <1>3, <1>4, <1>5, <1>6, Zenon DEF Shared!TurnAway

\* A caller takes the flight of its workspace or makes one; nobody is
\* promised anything by that.
LEMMA JoinRefines ==
  ASSUME CoordinatorInv, NEW c \in Callers, Join(c)
  PROVE  ws[c] \in Workspaces /\ Shared!Join(c, ws[c])
<1> USE DEF CoordinatorInv, TypeOK
<1>1. /\ pc[c] = "admitted" /\ callNo[c] \in FlightIds
      /\ ws[c] \in Workspaces /\ phase[callNo[c]] = "none"
  BY CallsAssumption DEF Join, CallersTracked
<1>2. WaitingFor[c] = NoWorkspace /\ Returned[c] = "none"
  BY <1>1 DEF WaitingFor, Waiting, Returned, CallersTracked
<1>3. UNCHANGED Returned
  BY Zenon DEF Join, Returned
<1>4. WaitingFor' = [WaitingFor EXCEPT ![c] = ws[c]]
  BY Zenon DEF Join, WaitingFor, Waiting
<1>5. Refreshing' = Refreshing \union {ws[c]}
  <2>1. CASE InFlight(ws[c]) /\ JoinFlight(c)
    <3>1. ws[c] \in Refreshing
      BY <1>1, <2>1 DEF InFlight, Refreshing, Unclosed, FlightsTracked
    <3> QED BY <2>1, <3>1, Zenon DEF JoinFlight, Refreshing, Unclosed
  <2>2. CASE StartFlight(c)
    <3>1. \A f \in FlightIds :
            /\ f # callNo[c] => phase'[f] = phase[f] /\ flightWs'[f] = flightWs[f]
            /\ f = callNo[c] => phase'[f] = "running" /\ flightWs'[f] = ws[c]
      BY <2>2, Zenon DEF StartFlight
    <3>2. \A v \in Workspaces : v \in Refreshing' <=> v = ws[c] \/ v \in Refreshing
      BY <1>1, <3>1 DEF Refreshing, Unclosed
    <3>3. Refreshing \subseteq Workspaces /\ Refreshing' \subseteq Workspaces
      BY Zenon DEF Refreshing
    <3> QED BY <1>1, <3>2, <3>3, Zenon
  <2> QED BY <2>1, <2>2, Zenon DEF Join
<1>6. UNCHANGED Promised
  <2>1. \A d \in Callers \ {c} :
          /\ Waiting(d)' = Waiting(d) /\ joined'[d] = joined[d]
          /\ Waiting(d) => phase'[joined[d]] = phase[joined[d]]
    <3> SUFFICES ASSUME NEW d \in Callers \ {c}
                 PROVE  /\ Waiting(d)' = Waiting(d) /\ joined'[d] = joined[d]
                        /\ Waiting(d) => phase'[joined[d]] = phase[joined[d]]
      BY Zenon
    <3>1. Waiting(d)' = Waiting(d) /\ joined'[d] = joined[d]
      BY Zenon DEF Join, JoinFlight, StartFlight, Waiting
    <3>2. Waiting(d) => joined[d] \in FlightIds /\ joined[d] # callNo[c]
      BY <1>1 DEF Waiting, CallersTracked
    <3>3. \A f \in FlightIds : f # callNo[c] => phase'[f] = phase[f]
      BY Zenon DEF Join, JoinFlight, StartFlight
    <3> QED BY <3>1, <3>2, <3>3, Zenon
  <2>2. ~Waiting(c) /\ phase'[joined'[c]] = "running"
    <3>1. CASE InFlight(ws[c]) /\ JoinFlight(c)
      <4>1. joined'[c] = flights[ws[c]] /\ phase' = phase
        BY <3>1, Zenon DEF JoinFlight
      <4> QED BY <1>1, <3>1, <4>1 DEF InFlight, FlightsTracked, Waiting
    <3>2. CASE StartFlight(c)
      BY <1>1, <3>2, Zenon DEF StartFlight, Waiting
    <3> QED BY <3>1, <3>2, Zenon DEF Join
  <2>3. outcome' = outcome
    BY Zenon DEF Join
  <2> QED BY <2>1, <2>2, <2>3 DEF Promised
<1> QED BY <1>1, <1>2, <1>3, <1>4, <1>5, <1>6, Zenon DEF Shared!Join

\* Closing done completes the workspace's refresh: the flight is the only one
\* of its workspace, so all that wait undecided wait for it.
LEMMA CloseRefines ==
  ASSUME CoordinatorInv, NEW f \in FlightIds, FinishClose(f)
  PROVE  /\ flightWs[f] \in Workspaces /\ outcome[f] \in Outcomes
         /\ Shared!Complete(flightWs[f], outcome[f])
<1> USE DEF CoordinatorInv, TypeOK
<1>1. /\ phase[f] = "stored" /\ flightWs[f] \in Workspaces
      /\ outcome[f] \in Outcomes
  BY Zenon DEF FinishClose, FlightsTracked
<1>2. /\ UNCHANGED <<flightWs, outcome, pc, ws, joined, reply>>
      /\ phase'[f] = "done"
      /\ \A g \in FlightIds \ {f} : phase'[g] = phase[g]
  BY Zenon DEF FinishClose, CloseDone, callerVars
<1>3. \A g \in FlightIds : Unclosed(g) /\ flightWs[g] = flightWs[f] => g = f
  BY <1>1, InvImpliesSingleFlight, Zenon DEF SingleFlight, Unclosed
<1>4. flightWs[f] \in Refreshing
  BY <1>1, Zenon DEF Refreshing, Unclosed
<1>5. Refreshing' = Refreshing \ {flightWs[f]}
  BY <1>1, <1>2, <1>3 DEF Refreshing, Unclosed
<1>6. UNCHANGED <<WaitingFor, Returned>>
  BY <1>2, Zenon DEF WaitingFor, Returned, Waiting
<1>7. ASSUME NEW c \in Callers
      PROVE  Promised'[c] = IF WaitingFor[c] = flightWs[f] /\ Promised[c] = "undecided"
                            THEN outcome[f] ELSE Promised[c]
  <2>1. CASE ~Waiting(c)
    <3> USE Zenon
    <3>1. WaitingFor[c] = NoWorkspace /\ Promised[c] = "undecided"
          /\ Promised'[c] = "undecided"
      BY <1>2, <2>1 DEF WaitingFor, Promised, Waiting
    <3> QED BY <1>1, <3>1, NoWorkspaceAssumption
  <2>2. CASE Waiting(c)
    <3>1. /\ joined[c] \in FlightIds /\ flightWs[joined[c]] = ws[c]
          /\ phase[joined[c]] # "none" /\ WaitingFor[c] = ws[c]
      BY <2>2 DEF Waiting, WaitingFor, CallersTracked
    <3>2. CASE joined[c] = f
      BY <1>1, <1>2, <2>2, <3>1, <3>2, Zenon DEF Promised, Waiting
    <3>3. CASE joined[c] # f /\ phase[joined[c]] = "done"
      <4> USE Zenon
      <4>1. outcome[joined[c]] # "undecided"
        BY <3>1, <3>3 DEF Outcomes
      <4> QED BY <1>2, <2>2, <3>1, <3>3, <4>1 DEF Promised, Waiting
    <3>4. CASE joined[c] # f /\ phase[joined[c]] # "done"
      <4> USE Zenon
      <4>1. WaitingFor[c] # flightWs[f]
        BY <1>3, <3>1, <3>4 DEF Unclosed
      <4> QED BY <1>2, <2>2, <3>1, <3>4, <4>1 DEF Promised, Waiting
    <3> QED BY <3>2, <3>3, <3>4, Zenon
  <2> QED BY <2>1, <2>2, Zenon
<1>8. Promised' = [c \in Callers |->
                     IF WaitingFor[c] = flightWs[f] /\ Promised[c] = "undecided"
                     THEN outcome[f] ELSE Promised[c]]
  BY <1>7, Zenon DEF Promised
<1> QED BY <1>1, <1>4, <1>5, <1>6, <1>8, Zenon DEF Shared!Complete, Shared!Undecided

\* A waiting caller returns: with the answer it was promised, or canceled
\* when nothing was promised to it yet.
LEMMA ReturnRefines ==
  ASSUME CoordinatorInv, NEW c \in Callers, TakeResult(c) \/ GiveUp(c)
  PROVE  Shared!Leave(c) \/ Shared!Abandon(c)
<1> USE DEF CoordinatorInv, TypeOK, flightVars
<1>1. /\ Waiting(c) /\ joined[c] \in FlightIds /\ ws[c] \in Workspaces
      /\ UNCHANGED flightVars
  BY DEF TakeResult, GiveUp, Waiting, CallersTracked
<1>2. WaitingFor[c] # NoWorkspace
  BY <1>1, NoWorkspaceAssumption, Zenon DEF WaitingFor
<1>3. ASSUME NEW r, Return(c, r)
      PROVE  /\ UNCHANGED Refreshing
             /\ WaitingFor' = [WaitingFor EXCEPT ![c] = NoWorkspace]
             /\ Promised' = [Promised EXCEPT ![c] = "undecided"]
             /\ Returned' = [Returned EXCEPT ![c] = r.kind]
  <2> USE Zenon
  <2>1. UNCHANGED Refreshing
    BY <1>1 DEF Refreshing, Unclosed
  <2>2. WaitingFor' = [WaitingFor EXCEPT ![c] = NoWorkspace]
    BY <1>3 DEF Return, WaitingFor, Waiting
  <2>3. Promised' = [Promised EXCEPT ![c] = "undecided"]
    BY <1>1, <1>3 DEF Return, Promised, Waiting
  <2>4. Returned' = [Returned EXCEPT ![c] = r.kind]
    BY <1>3 DEF Return, Returned
  <2> QED BY <2>1, <2>2, <2>3, <2>4
<1>4. CASE TakeResult(c)
  <2>1. Promised[c] = outcome[joined[c]] /\ outcome[joined[c]] # "undecided"
    BY <1>1, <1>4, Zenon DEF TakeResult, Done, Promised, Outcomes
  <2> QED BY <1>2, <1>3, <1>4, <2>1
          DEF TakeResult, Shared!Leave, Shared!Undecided
<1>5. CASE GiveUp(c)
  <2>1. Promised[c] = "undecided"
    BY <1>5, Zenon DEF GiveUp, StillRunning, Done, Promised
  <2>2. UNCHANGED Promised
    <3> USE Zenon
    <3>1. Promised' = [Promised EXCEPT ![c] = "undecided"]
      BY <1>3, <1>5 DEF GiveUp
    <3> QED BY <2>1, <3>1 DEF Promised
  <2> QED BY <1>2, <1>3, <1>5, <2>1, <2>2
          DEF GiveUp, Shared!Abandon, Shared!Undecided
<1> QED BY <1>4, <1>5, Zenon

\* The other steps are invisible to the callers.
LEMMA HiddenStep ==
  ASSUME CoordinatorInv,
         \/ \E c \in Callers : Admit(c) \/ NoticeCancel(c) \/ CancelCaller(c)
         \/ \E f \in FlightIds : FinishStore(f)
         \/ UNCHANGED vars
  PROVE  UNCHANGED shared
<1> USE DEF CoordinatorInv, TypeOK, shared, flightVars, callerVars
<1>1. ASSUME NEW c \in Callers, Admit(c) \/ NoticeCancel(c) \/ CancelCaller(c)
      PROVE  UNCHANGED shared
  <2>1. \A d \in Callers : Waiting(d)' = Waiting(d)
    BY <1>1 DEF Admit, NoticeCancel, CancelCaller, Waiting
  <2>2. UNCHANGED <<phase, flightWs, outcome, ws, joined, reply>>
    BY <1>1, Zenon DEF Admit, NoticeCancel, CancelCaller
  <2> QED BY <2>1, <2>2, Zenon DEF Refreshing, Unclosed, WaitingFor, Promised, Returned
<1>2. ASSUME NEW f \in FlightIds, FinishStore(f)
      PROVE  UNCHANGED shared
  <2>1. \A g \in FlightIds :
          /\ Unclosed(g)' = Unclosed(g)
          /\ phase'[g] = "done" <=> phase[g] = "done"
          /\ phase[g] = "done" => outcome'[g] = outcome[g]
    BY <1>2 DEF FinishStore, Unclosed
  <2>2. UNCHANGED <<flightWs, pc, ws, joined, reply>>
    BY <1>2, Zenon DEF FinishStore
  <2>3. UNCHANGED <<Refreshing, WaitingFor, Returned>>
    BY <2>1, <2>2 DEF Refreshing, WaitingFor, Returned, Waiting
  <2>4. \A c \in Callers : Waiting(c) => joined[c] \in FlightIds
    BY DEF Waiting, CallersTracked
  <2>5. UNCHANGED Promised
    BY <2>1, <2>2, <2>4, Zenon DEF Promised, Waiting
  <2> QED BY <2>3, <2>5, Zenon
<1>3. CASE UNCHANGED vars
  BY <1>3, Zenon DEF vars, Refreshing, Unclosed, WaitingFor, Promised, Returned, Waiting
<1> QED BY <1>1, <1>2, <1>3, Zenon

\* Concurrent callers and flights implement the shared refresh.
THEOREM CoordinatorImplementsSharedRefresh == Spec => ImplementsSharedRefresh
<1>1. Init => Shared!Init
  BY DEF Init, Shared!Init, Shared!Undecided, Refreshing, Unclosed, WaitingFor,
     Promised, Returned, Waiting
<1>2. CoordinatorInv /\ [Next]_vars => [Shared!Next]_shared
  <2> USE Zenon
  <2> SUFFICES ASSUME CoordinatorInv, [Next]_vars PROVE [Shared!Next]_shared
    OBVIOUS
  <2>1. ASSUME NEW c \in Callers, NEW w \in Workspaces, Call(c, w)
        PROVE  Shared!Next
    BY <2>1, CallRefines DEF Shared!Next
  <2>2. ASSUME NEW c \in Callers, Refuse(c) \/ TurnAway(c)
        PROVE  Shared!Next
    BY <2>2, RefuseRefines DEF Shared!Next
  <2>3. ASSUME NEW c \in Callers, Join(c)
        PROVE  Shared!Next
    BY <2>3, JoinRefines DEF Shared!Next
  <2>4. ASSUME NEW c \in Callers, TakeResult(c) \/ GiveUp(c)
        PROVE  Shared!Next
    BY <2>4, ReturnRefines DEF Shared!Next
  <2>5. ASSUME NEW f \in FlightIds, FinishClose(f)
        PROVE  Shared!Next
    BY <2>5, CloseRefines DEF Shared!Next
  <2> QED BY <2>1, <2>2, <2>3, <2>4, <2>5, HiddenStep
          DEF Next, CallerStep, FlightStep, Quiet
<1> QED BY <1>1, <1>2, InvHolds, PTL
        DEF Spec, ImplementsSharedRefresh, Shared!Spec, Shared!sharedVars, shared
=============================================================================
