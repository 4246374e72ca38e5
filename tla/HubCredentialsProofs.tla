------------------------ MODULE HubCredentialsProofs ------------------------
(***************************************************************************)
(* Proofs about credentials and sessions, for any number of concurrent     *)
(* requests, addresses, keys, providers and any limits.                    *)
(***************************************************************************)
EXTENDS HubCredentials, Counting, TLAPS

\* Where a request may go next; every step may also answer it.
Edges == {<<"keylookup", "keycheck">>, <<"keycheck", "sign">>, <<"retire", "rotate">>, <<"inspect", "key">>,
          <<"key", "verify">>, <<"key", "fetch">>, <<"fetch", "verify">>, <<"verify", "lookup">>, <<"verify", "principal">>,
          <<"parse", "sts">>, <<"sts", "principal">>, <<"principal", "lookup">>, <<"lookup", "precheck">>,
          <<"lookup", "sign">>, <<"precheck", "consume">>, <<"consume", "sign">>, <<"store", "url">>, <<"take", "code">>,
          <<"code", "inspect">>, <<"sign", "respond">>}

Begun == {"keylookup", "keycheck", "inspect", "key", "fetch", "verify", "parse", "sts", "principal", "lookup", "precheck",
          "consume", "store", "url", "take", "code", "sign", "respond"}
Changing == {"issue", "retire", "rotate", "revoke", "bind"}

\* Requests are functions from the fields they have.
Requests ==
  /\ req = [s \in Slots |-> req[s]]
  /\ workload \in Workloads /\ clock \in Nat
  /\ \A s \in Slots :
       /\ "pc" \in DOMAIN req[s] /\ req[s].pc \in {"idle", "done"} \union Begun \union Changing
       /\ req[s].pc = "idle" => req[s] = NoRequest
       /\ req[s].pc # "idle" => "in" \in DOMAIN req[s] /\ req[s].in \in workload.inputs
       /\ req[s].pc \in Begun => {"begun", "state", "live", "cookie"} \subseteq DOMAIN req[s]
       /\ req[s].pc \in Changing => {"now", "new"} \subseteq DOMAIN req[s]

\* Keep: the fields that are named are set, the others stay.
LEMMA KeepFields ==
  ASSUME Requests, NEW s \in Slots, NEW pc, NEW more, "pc" \notin DOMAIN more, Keep(s, pc, more)
  PROVE  /\ req' = [x \in Slots |-> req'[x]]
         /\ \A x \in Slots : x # s => req'[x] = req[x]
         /\ DOMAIN req'[s] = DOMAIN req[s] \union DOMAIN more
         /\ req'[s].pc = pc
         /\ \A f \in DOMAIN more : req'[s][f] = more[f]
         /\ \A f \in DOMAIN req[s] : f # "pc" /\ f \notin DOMAIN more => req'[s][f] = req[s][f]
<1> USE Zenon
<1> DEFINE v == [x \in DOMAIN req[s] \cup DOMAIN more |->
                   IF x = "pc" THEN pc ELSE IF x \in DOMAIN more THEN more[x] ELSE req[s][x]]
<1>1. req' = [req EXCEPT ![s] = v]
  BY DEF Keep
<1>2. /\ DOMAIN v = DOMAIN req[s] \union DOMAIN more /\ v["pc"] = pc
      /\ \A f \in DOMAIN more : v[f] = more[f]
      /\ \A f \in DOMAIN req[s] : f # "pc" /\ f \notin DOMAIN more => v[f] = req[s][f]
  BY DEF Requests
<1> HIDE DEF v
<1>3. /\ req' = [x \in Slots |-> req'[x]] /\ req'[s] = v /\ \A x \in Slots : x # s => req'[x] = req[x]
  BY <1>1 DEF Requests
<1> QED BY <1>2, <1>3

\* Goto keeps everything but the place.
LEMMA GotoFields ==
  ASSUME Requests, NEW s \in Slots, NEW pc, Goto(s, pc)
  PROVE  /\ req' = [x \in Slots |-> req'[x]]
         /\ \A x \in Slots : x # s => req'[x] = req[x]
         /\ DOMAIN req'[s] = DOMAIN req[s]
         /\ req'[s].pc = pc
         /\ \A f \in DOMAIN req[s] : f # "pc" => req'[s][f] = req[s][f]
<1>1. DOMAIN << >> = {}
  OBVIOUS
<1> QED BY <1>1, KeepFields, Zenon DEF Goto

\* Answer keeps what is recorded.
LEMMA AnswerFields ==
  ASSUME Requests, NEW s \in Slots, NEW a, Answer(s, a)
  PROVE  /\ req' = [x \in Slots |-> req'[x]]
         /\ \A x \in Slots : x # s => req'[x] = req[x]
         /\ DOMAIN req'[s] = (DOMAIN req[s] \intersect Recorded) \union {"answer"}
         /\ req'[s].pc = "done" /\ req'[s].answer = a
         /\ \A f \in DOMAIN req[s] \intersect Recorded : f # "pc" => req'[s][f] = req[s][f]
<1> USE Zenon
<1> DEFINE v == [x \in (DOMAIN req[s] \cap Recorded) \cup {"answer"} |->
                   IF x = "pc" THEN "done" ELSE IF x = "answer" THEN a ELSE req[s][x]]
<1>1. req' = [req EXCEPT ![s] = v]
  BY DEF Answer
<1>2. /\ DOMAIN v = (DOMAIN req[s] \intersect Recorded) \union {"answer"} /\ v["pc"] = "done" /\ v["answer"] = a
      /\ \A f \in DOMAIN req[s] \intersect Recorded : f # "pc" => v[f] = req[s][f]
  BY DEF Requests, Recorded
<1> HIDE DEF v
<1>3. /\ req' = [x \in Slots |-> req'[x]] /\ req'[s] = v /\ \A x \in Slots : x # s => req'[x] = req[x]
  BY <1>1 DEF Requests
<1> QED BY <1>2, <1>3

-----------------------------------------------------------------------------
(***************************************************************************)
(* What the steps of a request do to it.                                   *)
(***************************************************************************)
Settable == {"record", "member", "retire", "keyAt", "now", "principal", "spentAt", "expires", "nonce", "ws", "takenAt",
             "token"}

\* Request s moves on and sets at most the fields fs, or is answered.
Moved(s, fs) ==
  /\ req' = [x \in Slots |-> req'[x]] /\ \A x \in Slots : x # s => req'[x] = req[x]
  /\ req[s].pc \in Begun \union Changing
  /\ req'[s].pc = "done" \/ <<req[s].pc, req'[s].pc>> \in Edges
  /\ \A f \in DOMAIN req[s] : f \in Recorded \/ req'[s].pc # "done" => f \in DOMAIN req'[s]
  /\ \A f \in DOMAIN req'[s] : f \notin fs \union {"pc", "answer"} => f \in DOMAIN req[s] /\ req'[s][f] = req[s][f]

\* Keep moves.
LEMMA KeepMoves ==
  ASSUME Requests, NEW s \in Slots, NEW fs, NEW pc, NEW more, "pc" \notin DOMAIN more, DOMAIN more \subseteq fs,
         req[s].pc \in Begun \union Changing, <<req[s].pc, pc>> \in Edges, Keep(s, pc, more)
  PROVE  Moved(s, fs)
BY KeepFields DEF Moved

\* So does Goto.
LEMMA GotoMoves ==
  ASSUME Requests, NEW s \in Slots, NEW fs, NEW pc,
         req[s].pc \in Begun \union Changing, <<req[s].pc, pc>> \in Edges, Goto(s, pc)
  PROVE  Moved(s, fs)
BY GotoFields, Zenon DEF Moved

\* An answer ends the request.
LEMMA AnswerMoves ==
  ASSUME Requests, NEW s \in Slots, NEW fs, NEW a, req[s].pc \in Begun \union Changing, Answer(s, a)
  PROVE  Moved(s, fs)
BY AnswerFields DEF Moved

\* The steps, and the fields each one sets.
LEMMA Moves ==
  ASSUME Requests, NEW s \in Slots
  PROVE  /\ KeyLookup(s) => Moved(s, {"record", "member"})
         /\ RotateRetire(s) => Moved(s, {"retire"})
         /\ ProviderKey(s) => Moved(s, {"keyAt", "now"})
         /\ FetchKeys(s) => Moved(s, {"keyAt"})
         /\ TokenVerify(s) \/ CallSTS(s) => Moved(s, {"principal"})
         /\ MembershipLookup(s) => Moved(s, {"member"})
         /\ Consume(s) => Moved(s, {"spentAt"})
         /\ LoginStore(s) => Moved(s, {"expires"})
         /\ CallbackTake(s) => Moved(s, {"nonce", "ws", "takenAt"})
         /\ SignSession(s) => Moved(s, {"token"})
         /\ KeyCheck(s) \/ AdminCommit(s) \/ Inspect(s) \/ ParseProof(s) \/ CheckPrincipal(s) \/ GuardPrecheck(s)
              \/ LoginRedirect(s) \/ CallbackCode(s) \/ Respond(s) => Moved(s, {})
<1> DEFINE On == req[s].pc \in Begun \union Changing
<1>1. ASSUME On, Refuse(s), NEW fs PROVE Moved(s, fs)
  BY <1>1, AnswerMoves, Zenon DEF Refuse
<1>2. ASSUME NEW a, On, Answer(s, a), NEW fs PROVE Moved(s, fs)
  BY <1>2, AnswerMoves, Zenon
<1>3. KeyLookup(s) => Moved(s, {"record", "member"})
  <2> SUFFICES ASSUME KeyLookup(s) PROVE Moved(s, {"record", "member"})
    BY Zenon
  <2>1. req[s].pc = "keylookup" /\ On /\ <<req[s].pc, "keycheck">> \in Edges
    BY Zenon DEF KeyLookup, At, Begun, Edges
  <2>2. ASSUME NEW r, NEW m, Keep(s, "keycheck", [record |-> r, member |-> m]) PROVE Moved(s, {"record", "member"})
    BY <2>1, <2>2, KeepMoves
  <2> QED BY <1>1, <2>1, <2>2, Zenon DEF KeyLookup
<1>4. RotateRetire(s) => Moved(s, {"retire"})
  <2> SUFFICES ASSUME RotateRetire(s) PROVE Moved(s, {"retire"})
    BY Zenon
  <2>1. req[s].pc = "retire" /\ On /\ <<req[s].pc, "rotate">> \in Edges
    BY Zenon DEF RotateRetire, At, Changing, Edges
  <2>2. ASSUME NEW r, Keep(s, "rotate", [retire |-> r]) PROVE Moved(s, {"retire"})
    BY <2>1, <2>2, KeepMoves
  <2> QED BY <2>1, <2>2, Zenon DEF RotateRetire
<1>5. ProviderKey(s) => Moved(s, {"keyAt", "now"})
  <2> SUFFICES ASSUME ProviderKey(s) PROVE Moved(s, {"keyAt", "now"})
    BY Zenon
  <2>1. req[s].pc = "key" /\ On /\ <<req[s].pc, "verify">> \in Edges /\ <<req[s].pc, "fetch">> \in Edges
    BY Zenon DEF ProviderKey, At, Begun, Edges
  <2>2. ASSUME Keep(s, "verify", [keyAt |-> clock]) PROVE Moved(s, {"keyAt", "now"})
    BY <2>1, <2>2, KeepMoves
  <2>3. ASSUME Keep(s, "fetch", [now |-> clock]) PROVE Moved(s, {"keyAt", "now"})
    BY <2>1, <2>3, KeepMoves
  <2> QED BY <2>1, <2>2, <2>3, Zenon DEF ProviderKey
<1>6. FetchKeys(s) => Moved(s, {"keyAt"})
  <2> SUFFICES ASSUME FetchKeys(s) PROVE Moved(s, {"keyAt"})
    BY Zenon
  <2>1. req[s].pc = "fetch" /\ On /\ <<req[s].pc, "verify">> \in Edges
    BY Zenon DEF FetchKeys, At, Begun, Edges
  <2>2. ASSUME Keep(s, "verify", [keyAt |-> clock]) PROVE Moved(s, {"keyAt"})
    BY <2>1, <2>2, KeepMoves
  <2> QED BY <1>1, <2>1, <2>2, Zenon DEF FetchKeys
<1>7. TokenVerify(s) \/ CallSTS(s) => Moved(s, {"principal"})
  <2> SUFFICES ASSUME TokenVerify(s) \/ CallSTS(s) PROVE Moved(s, {"principal"})
    BY Zenon
  <2>1. /\ req[s].pc \in {"verify", "sts"} /\ On /\ <<req[s].pc, "principal">> \in Edges
        /\ req[s].pc = "verify" => <<req[s].pc, "lookup">> \in Edges
    BY Zenon DEF TokenVerify, CallSTS, At, Begun, Edges
  <2>2. ASSUME NEW c, Keep(s, "principal", [principal |-> c]) PROVE Moved(s, {"principal"})
    BY <2>1, <2>2, KeepMoves
  <2>3. ASSUME req[s].pc = "verify", Goto(s, "lookup") PROVE Moved(s, {"principal"})
    BY <2>1, <2>3, GotoMoves, Zenon
  <2> QED BY <1>1, <2>1, <2>2, <2>3, Zenon DEF TokenVerify, CallSTS, At
<1>8. MembershipLookup(s) => Moved(s, {"member"})
  <2> SUFFICES ASSUME MembershipLookup(s) PROVE Moved(s, {"member"})
    BY Zenon
  <2>1. req[s].pc = "lookup" /\ On /\ <<req[s].pc, "precheck">> \in Edges /\ <<req[s].pc, "sign">> \in Edges
    BY Zenon DEF MembershipLookup, At, Begun, Edges
  <2>2. ASSUME NEW m, NEW pc \in {"precheck", "sign"}, Keep(s, pc, [member |-> m]) PROVE Moved(s, {"member"})
    BY <2>1, <2>2, KeepMoves
  <2> QED BY <1>1, <2>1, <2>2, Zenon DEF MembershipLookup
<1>9. Consume(s) => Moved(s, {"spentAt"})
  <2> SUFFICES ASSUME Consume(s) PROVE Moved(s, {"spentAt"})
    BY Zenon
  <2>1. req[s].pc = "consume" /\ On /\ <<req[s].pc, "sign">> \in Edges
    BY Zenon DEF Consume, At, Begun, Edges
  <2>2. ASSUME Keep(s, "sign", [spentAt |-> clock]) PROVE Moved(s, {"spentAt"})
    BY <2>1, <2>2, KeepMoves
  <2> QED BY <1>1, <2>1, <2>2, Zenon DEF Consume
<1>10. LoginStore(s) => Moved(s, {"expires"})
  <2> SUFFICES ASSUME LoginStore(s) PROVE Moved(s, {"expires"})
    BY Zenon
  <2>1. req[s].pc = "store" /\ On /\ <<req[s].pc, "url">> \in Edges
    BY Zenon DEF LoginStore, At, Begun, Edges
  <2>2. ASSUME NEW t, Keep(s, "url", [expires |-> t]) PROVE Moved(s, {"expires"})
    BY <2>1, <2>2, KeepMoves
  <2> QED BY <1>2, <2>1, <2>2, Zenon DEF LoginStore
<1>11. CallbackTake(s) => Moved(s, {"nonce", "ws", "takenAt"})
  <2> SUFFICES ASSUME CallbackTake(s) PROVE Moved(s, {"nonce", "ws", "takenAt"})
    BY Zenon
  <2>1. req[s].pc = "take" /\ On /\ <<req[s].pc, "code">> \in Edges
    BY Zenon DEF CallbackTake, At, Begun, Edges
  <2>2. ASSUME NEW n, NEW ws, NEW t, Keep(s, "code", [nonce |-> n, ws |-> ws, takenAt |-> t])
        PROVE  Moved(s, {"nonce", "ws", "takenAt"})
    BY <2>1, <2>2, KeepMoves
  <2> QED BY <1>1, <2>1, <2>2, Zenon DEF CallbackTake
<1>12. SignSession(s) => Moved(s, {"token"})
  <2> SUFFICES ASSUME SignSession(s) PROVE Moved(s, {"token"})
    BY Zenon
  <2>1. req[s].pc = "sign" /\ On /\ <<req[s].pc, "respond">> \in Edges
    BY Zenon DEF SignSession, At, Begun, Edges
  <2>2. ASSUME NEW t, Keep(s, "respond", [token |-> t]) PROVE Moved(s, {"token"})
    BY <2>1, <2>2, KeepMoves
  <2> QED BY <1>1, <2>1, <2>2, Zenon DEF SignSession
<1>13. KeyCheck(s) \/ Inspect(s) \/ ParseProof(s) \/ CheckPrincipal(s) \/ GuardPrecheck(s) \/ CallbackCode(s) => Moved(s, {})
  <2> SUFFICES ASSUME KeyCheck(s) \/ Inspect(s) \/ ParseProof(s) \/ CheckPrincipal(s) \/ GuardPrecheck(s) \/ CallbackCode(s)
               PROVE  Moved(s, {})
    BY Zenon
  <2>1. On /\ \E pc : <<req[s].pc, pc>> \in Edges /\ (Goto(s, pc) \/ Refuse(s))
    BY DEF KeyCheck, Inspect, ParseProof, CheckPrincipal, GuardPrecheck, CallbackCode, At, Begun, Edges
  <2> QED BY <1>1, <2>1, GotoMoves, Zenon
<1>14. AdminCommit(s) \/ LoginRedirect(s) \/ Respond(s) => Moved(s, {})
  <2> USE Zenon
  <2> SUFFICES ASSUME AdminCommit(s) \/ LoginRedirect(s) \/ Respond(s) PROVE Moved(s, {})
    OBVIOUS
  <2>1. On
    BY DEF AdminCommit, LoginRedirect, Respond, At, Begun, Changing
  <2>2. \E a : Answer(s, a)
    BY DEF AdminCommit, LoginRedirect, Respond, Refuse
  <2> QED BY <1>2, <2>1, <2>2
<1> QED BY <1>3, <1>4, <1>5, <1>6, <1>7, <1>8, <1>9, <1>10, <1>11, <1>12, <1>13, <1>14, Zenon

\* Every step of a request is one of these.
LEMMA StepMoves ==
  ASSUME Requests, NEW s \in Slots, RequestStep(s)
  PROVE  Moved(s, Settable)
<1> USE Zenon
<1>1. \A fs : Moved(s, fs) /\ fs \subseteq Settable => Moved(s, Settable)
  BY DEF Moved
<1> QED BY <1>1, Moves DEF RequestStep, Settable

\* Request s starts as v.
Started(s, v) ==
  /\ req[s].pc = "idle" /\ req[s] = NoRequest
  /\ req' = [x \in Slots |-> req'[x]] /\ \A x \in Slots : x # s => req'[x] = req[x]
  /\ req'[s] = v

\* The requests that start.
LEMMA Starting ==
  ASSUME Requests, NEW s \in Slots, NEW v, At(s, "idle"), req' = [req EXCEPT ![s] = v]
  PROVE  Started(s, v)
BY Zenon DEF Requests, Started, At

\* The records requests start with.
Arrived(in, l, live, c) == [pc |-> FirstStep[in.kind], in |-> in, begun |-> clock, live |-> live, state |-> l, cookie |-> c]
Ended(in, a) == [pc |-> "done", in |-> in, answer |-> a]
AdminStarted(in, new) == [pc |-> IF in.kind = "rotate" THEN "retire" ELSE in.kind, in |-> in, now |-> clock, new |-> new]
Called(in, a, x) == [pc |-> "done", in |-> in, answer |-> a, by |-> x, begun |-> clock]

\* A request that starts is one of these.
LEMMA Starts1 ==
  ASSUME Requests, NEW s \in Slots, NEW in \in workload.inputs
  PROVE  /\ \A l : Admit(s, in, l) =>
              \/ Started(s, Ended(in, "limited"))
              \/ Started(s, Arrived(in, l, in.kind = "key" => Live(in.key), cookie)) /\ in.kind \in DOMAIN FirstStep
         /\ AdminBegin(s, in) =>
              \/ Started(s, Ended(in, "refused"))
              \/ /\ Started(s, AdminStarted(in, NewKey(in.ws, IF in.kind = "revoke" THEN None ELSE in.subject)))
                 /\ in.kind \in {"issue", "rotate", "revoke", "bind"}
                 /\ in.kind = "rotate" => in.overlap \in 0..MaxOverlap
         /\ ChangeMembership(s, in) \/ Withdraw(s, in) => Started(s, Ended(in, "ok"))
         /\ \A x : Call(s, in, x) => \E a \in {"accepted", "refused"} : Started(s, Called(in, a, x))
<1> USE Zenon
<1>1. ASSUME NEW l, Admit(s, in, l)
      PROVE  \/ Started(s, Ended(in, "limited"))
             \/ Started(s, Arrived(in, l, in.kind = "key" => Live(in.key), cookie)) /\ in.kind \in DOMAIN FirstStep
  <2>1. /\ At(s, "idle") /\ in.kind \in DOMAIN FirstStep
        /\ \/ req' = [req EXCEPT ![s] = Ended(in, "limited")]
           \/ req' = [req EXCEPT ![s] = Arrived(in, l, in.kind = "key" => Live(in.key), cookie)]
    BY <1>1 DEF Admit, Starts, Ended, Arrived
  <2> QED BY <2>1, Starting
<1>2. ASSUME AdminBegin(s, in)
      PROVE  \/ Started(s, Ended(in, "refused"))
             \/ /\ Started(s, AdminStarted(in, NewKey(in.ws, IF in.kind = "revoke" THEN None ELSE in.subject)))
                /\ in.kind \in {"issue", "rotate", "revoke", "bind"}
                /\ in.kind = "rotate" => in.overlap \in 0..MaxOverlap
  <2> DEFINE ok == /\ Authorize(in.role, "manage-workspace")
                   /\ in.kind \in {"issue", "rotate", "bind"} => ValidIdentity(in.subject)
                   /\ in.kind = "rotate" => in.overlap \in 0..MaxOverlap
                   /\ in.kind = "bind" => Bindable(in.identity)
             v == AdminStarted(in, NewKey(in.ws, IF in.kind = "revoke" THEN None ELSE in.subject))
  <2>1. /\ At(s, "idle") /\ in.kind \in {"issue", "rotate", "revoke", "bind"}
        /\ req' = [req EXCEPT ![s] = IF ~ok THEN Ended(in, "refused") ELSE v]
    BY <1>2 DEF AdminBegin, Starts, Ended, AdminStarted
  <2>2. ok => (in.kind = "rotate" => in.overlap \in 0..MaxOverlap)
    OBVIOUS
  <2> HIDE DEF ok, v
  <2>3. Started(s, IF ~ok THEN Ended(in, "refused") ELSE v)
    BY <2>1, Starting
  <2>4. ok \/ Started(s, Ended(in, "refused"))
    BY <2>3
  <2>5. ok => Started(s, v)
    BY <2>3
  <2> QED BY <2>1, <2>2, <2>4, <2>5 DEF v
<1>3. ASSUME ChangeMembership(s, in) \/ Withdraw(s, in) PROVE Started(s, Ended(in, "ok"))
  BY <1>3, Starting DEF ChangeMembership, Withdraw, Starts, Ended
<1>4. ASSUME NEW x, Call(s, in, x) PROVE \E a \in {"accepted", "refused"} : Started(s, Called(in, a, x))
  <2>1. At(s, "idle") /\ \E a \in {"accepted", "refused"} : req' = [req EXCEPT ![s] = Called(in, a, x)]
    BY <1>4 DEF Call, Starts, Called
  <2> QED BY <2>1, Starting
<1> QED BY <1>1, <1>2, <1>3, <1>4

\* Steps leave the workload alone, and the clock only ticks.
LEMMA ClockSteps ==
  ASSUME Requests, [Next]_vars
  PROVE  workload' = workload /\ clock' \in Nat /\ clock' >= clock
<1>1. ASSUME NEW s \in Slots, RequestStep(s) PROVE workload' = workload /\ clock' = clock
  BY <1>1, Zenon DEF RequestStep, KeyLookup, KeyCheck, RotateRetire, AdminCommit, Inspect, ProviderKey, FetchKeys, TokenVerify,
     ParseProof, CallSTS, CheckPrincipal, MembershipLookup, GuardPrecheck, Consume, LoginStore, LoginRedirect,
     CallbackTake, CallbackCode, SignSession, Respond
<1>2. ASSUME NEW s \in Slots, NEW in, (\E l : Admit(s, in, l)) \/ (\E x : Call(s, in, x)) \/ AdminBegin(s, in)
                                      \/ ChangeMembership(s, in) \/ Withdraw(s, in)
      PROVE  workload' = workload /\ clock' = clock
  BY <1>2, Zenon DEF Admit, Call, AdminBegin, ChangeMembership, Withdraw
<1>3. CASE Tick
  BY <1>3 DEF Tick, Requests
<1>4. CASE UNCHANGED vars
  BY <1>4 DEF vars, Requests
<1>5. CASE \E s \in Slots, in \in workload.inputs :
              (\E l \in Slots \cup {0} : Admit(s, in, l)) \/ (\E x \in Slots : Call(s, in, x))
              \/ AdminBegin(s, in) \/ ChangeMembership(s, in) \/ Withdraw(s, in)
  BY <1>2, <1>5 DEF Requests
<1>6. CASE \E s \in Slots : RequestStep(s)
  BY <1>1, <1>6 DEF Requests
<1> QED BY <1>3, <1>4, <1>5, <1>6, Zenon DEF Next

\* A request keeps its shape.
LEMMA RequestsStep ==
  ASSUME Requests, [Next]_vars
  PROVE  Requests'
<1>1. workload' = workload /\ clock' \in Nat
  BY ClockSteps, Zenon
<1>2. ASSUME NEW s \in Slots, Moved(s, Settable) PROVE Requests'
  <2>1. /\ {"pc", "in"} \subseteq DOMAIN req[s] /\ req[s].in \in workload.inputs
        /\ req[s].pc \in Begun => {"begun", "state", "live", "cookie"} \subseteq DOMAIN req[s]
        /\ req[s].pc \in Changing => {"now", "new"} \subseteq DOMAIN req[s]
    BY <1>2, Zenon DEF Requests, Moved, Begun, Changing
  <2>2. "pc" \in DOMAIN req'[s] /\ "in" \in DOMAIN req'[s] /\ req'[s].in = req[s].in
    BY <1>2, <2>1, Zenon DEF Moved, Recorded, Settable
  <2>3. \/ req'[s].pc = "done"
        \/ req[s].pc \in Begun /\ req'[s].pc \in Begun
        \/ req[s].pc \in Changing /\ req'[s].pc \in Changing
    BY <1>2, Zenon DEF Moved, Edges, Begun, Changing
  <2>4. "done" \notin Begun \union Changing /\ "idle" \notin Begun \union Changing /\ Begun \intersect Changing = {}
    BY Zenon DEF Begun, Changing
  <2>5. req'[s].pc # "done" => DOMAIN req[s] \subseteq DOMAIN req'[s]
    BY <1>2, Zenon DEF Moved
  <2> QED BY <1>1, <1>2, <2>1, <2>2, <2>3, <2>4, <2>5 DEF Requests, Moved
<1>3. ASSUME NEW s \in Slots, NEW in \in workload.inputs, NEW v, Started(s, v), "pc" \in DOMAIN v, "in" \in DOMAIN v,
             v.in = in, v.pc # "idle", v.pc \in {"done"} \union Begun \union Changing,
             v.pc \in Begun => {"begun", "state", "live", "cookie"} \subseteq DOMAIN v,
             v.pc \in Changing => {"now", "new"} \subseteq DOMAIN v
      PROVE  Requests'
  BY <1>1, <1>3, Zenon DEF Requests, Started
<1>4. ASSUME NEW s \in Slots, NEW in \in workload.inputs,
             (\E l : Admit(s, in, l)) \/ (\E x : Call(s, in, x)) \/ AdminBegin(s, in)
             \/ ChangeMembership(s, in) \/ Withdraw(s, in)
      PROVE  Requests'
  <2>1. \A a : Started(s, Ended(in, a)) => Requests'
    BY <1>3, Zenon DEF Ended, Begun, Changing
  <2>2. \A a, x : Started(s, Called(in, a, x)) => Requests'
    BY <1>3, Zenon DEF Called, Begun, Changing
  <2>3. in.kind \in DOMAIN FirstStep => FirstStep[in.kind] \in Begun /\ "done" \notin Begun /\ "idle" \notin Begun
    BY DEF FirstStep, Begun
  <2>4. \A l, live, c : Started(s, Arrived(in, l, live, c)) /\ in.kind \in DOMAIN FirstStep => Requests'
    BY <1>3, <2>3 DEF Arrived, Begun, Changing
  <2>5. \A new : Started(s, AdminStarted(in, new)) /\ in.kind \in {"issue", "rotate", "revoke", "bind"} => Requests'
    BY <1>3, Zenon DEF AdminStarted, Begun, Changing
  <2> QED BY <1>4, <2>1, <2>2, <2>4, <2>5, Starts1, Zenon
<1>5. CASE req' = req
  BY <1>1, <1>5, Zenon DEF Requests
<1>6. CASE \E s \in Slots, in \in workload.inputs :
              (\E l \in Slots \cup {0} : Admit(s, in, l)) \/ (\E x \in Slots : Call(s, in, x))
              \/ AdminBegin(s, in) \/ ChangeMembership(s, in) \/ Withdraw(s, in)
  BY <1>4, <1>6, Zenon
<1>7. CASE \E s \in Slots : RequestStep(s)
  BY <1>2, <1>7, StepMoves, Zenon
<1> QED BY <1>5, <1>6, <1>7, Zenon DEF Next, Tick, vars

\* No request has arrived at the start.
LEMMA RequestsInit == Init => Requests
BY DEF Init, Requests, NoRequest, Begun, Changing

\* Which requests pass through which places.
TokenKinds == {"gcp", "azure", "oidc", "callback"}
PlacedAt(pc, kind) ==
  /\ pc \in {"keylookup", "keycheck"} => kind = "key"
  /\ pc \in {"parse", "sts"} => kind = "aws"
  /\ pc \in {"inspect", "key", "fetch", "verify"} => kind \in TokenKinds
  /\ pc \in {"principal", "precheck", "consume"} => kind \in CloudProviders
  /\ pc = "lookup" => kind \in CloudProviders \union {"oidc", "callback"}
  /\ pc \in {"store", "url"} => kind = "login"
  /\ pc \in {"take", "code"} => kind = "callback"
  /\ pc \in {"sign", "respond"} => kind \in CloudProviders \union {"key", "oidc", "callback"}
  /\ pc \in {"retire", "rotate"} => kind = "rotate"
  /\ pc \in {"issue", "revoke", "bind"} => kind = pc

Placed == \A s \in Slots : PlacedAt(req[s].pc, req[s].in.kind)
Base == Requests /\ Placed

\* A request stays itself, and only cloud proofs have a principal and pass the replay guard.
LEMMA MovedFacts ==
  ASSUME Base, NEW s \in Slots, RequestStep(s)
  PROVE  /\ req'[s].in = req[s].in /\ "in" \in DOMAIN req[s] /\ "in" \in DOMAIN req'[s]
         /\ req'[s].pc = "principal" => req[s].in.kind \in CloudProviders
         /\ req'[s].pc = "precheck" => req[s].in.kind \in CloudProviders
<1> USE Zenon
<1>1. Moved(s, Settable) /\ Requests
  BY StepMoves DEF Base
<1>2. req'[s].in = req[s].in /\ "in" \in DOMAIN req[s] /\ "in" \in DOMAIN req'[s]
  BY <1>1 DEF Moved, Requests, Recorded, Settable, Begun, Changing
<1>3. req'[s].pc = "principal" => req[s].pc \in {"verify", "sts"}
  BY <1>1 DEF Moved, Edges
<1>4. req'[s].pc = "precheck" => req[s].pc = "lookup"
  BY <1>1 DEF Moved, Edges
<1>5. req[s].pc = "verify" => TokenVerify(s)
  BY DEF RequestStep, KeyLookup, KeyCheck, RotateRetire, AdminCommit, Inspect, ProviderKey, FetchKeys,
     ParseProof, CallSTS, CheckPrincipal, MembershipLookup, GuardPrecheck, Consume, LoginStore, LoginRedirect,
     CallbackTake, CallbackCode, SignSession, Respond, At
<1>6. req[s].pc = "lookup" => MembershipLookup(s)
  BY DEF RequestStep, KeyLookup, KeyCheck, RotateRetire, AdminCommit, Inspect, ProviderKey, FetchKeys, TokenVerify,
     ParseProof, CallSTS, CheckPrincipal, GuardPrecheck, Consume, LoginStore, LoginRedirect,
     CallbackTake, CallbackCode, SignSession, Respond, At
<1>7. ASSUME req'[s].pc = "principal" PROVE req[s].in.kind \in CloudProviders
  <2>1. CASE req[s].pc = "sts"
    BY <2>1 DEF Base, Placed, PlacedAt, CloudProviders
  <2>2. CASE req[s].pc = "verify"
    <3>1. \A pc : Goto(s, pc) => req'[s].pc = pc
      BY <1>1, GotoFields
    <3>2. Refuse(s) => req'[s].pc = "done"
      BY <1>1, AnswerFields DEF Refuse
    <3>3. req[s].in.kind \notin {"oidc", "callback"}
      BY <1>5, <1>7, <2>2, <3>1, <3>2 DEF TokenVerify
    <3> QED BY <2>2, <3>3 DEF Base, Placed, PlacedAt, TokenKinds, CloudProviders
  <2> QED BY <1>3, <1>7, <2>1, <2>2
<1>8. ASSUME req'[s].pc = "precheck" PROVE req[s].in.kind \in CloudProviders
  <2>1. MembershipLookup(s)
    BY <1>4, <1>6, <1>8
  <2>2. \A m, pc : Keep(s, pc, [member |-> m]) => req'[s].pc = pc
    BY <1>1, KeepFields
  <2>3. Refuse(s) => req'[s].pc = "done"
    BY <1>1, AnswerFields DEF Refuse
  <2> QED BY <1>8, <2>1, <2>2, <2>3 DEF MembershipLookup
<1> QED BY <1>2, <1>7, <1>8

\* Base is kept.
LEMMA BaseStep ==
  ASSUME Base, [Next]_vars
  PROVE  Base'
<1>1. Requests'
  BY RequestsStep, Zenon DEF Base
<1>2. ASSUME NEW s \in Slots, RequestStep(s) PROVE Placed'
  <2> USE Zenon
  <2>1. Moved(s, Settable)
    BY <1>2, StepMoves DEF Base
  <2>2. PlacedAt(req[s].pc, req[s].in.kind)
    BY DEF Base, Placed
  <2>3. PlacedAt(req'[s].pc, req[s].in.kind)
    <3>1. CASE req'[s].pc = "done"
      BY <3>1 DEF PlacedAt
    <3>2. CASE <<req[s].pc, req'[s].pc>> \in Edges
      BY <1>2, <2>2, <3>2, MovedFacts DEF Edges, PlacedAt, TokenKinds, CloudProviders
    <3> QED BY <2>1, <3>1, <3>2 DEF Moved
  <2> QED BY <1>2, <2>1, <2>3, MovedFacts DEF Base, Placed, Moved
<1>3. ASSUME NEW s \in Slots, NEW v, Started(s, v), PlacedAt(v.pc, v.in.kind) PROVE Placed'
  BY <1>3, Zenon DEF Base, Placed, Started
<1>4. ASSUME NEW s \in Slots, NEW in \in workload.inputs,
             (\E l : Admit(s, in, l)) \/ (\E x : Call(s, in, x)) \/ AdminBegin(s, in)
             \/ ChangeMembership(s, in) \/ Withdraw(s, in)
      PROVE  Placed'
  <2>1. \A a : Started(s, Ended(in, a)) => Placed'
    BY <1>3, Zenon DEF Ended, PlacedAt
  <2>2. \A a, x : Started(s, Called(in, a, x)) => Placed'
    BY <1>3, Zenon DEF Called, PlacedAt
  <2>3. in.kind \in DOMAIN FirstStep => PlacedAt(FirstStep[in.kind], in.kind)
    BY DEF FirstStep, PlacedAt, TokenKinds
  <2>4. \A l, live, c : Started(s, Arrived(in, l, live, c)) /\ in.kind \in DOMAIN FirstStep => Placed'
    BY <1>3, <2>3, Zenon DEF Arrived
  <2>5. \A new : Started(s, AdminStarted(in, new)) /\ in.kind \in {"issue", "rotate", "revoke", "bind"} => Placed'
    BY <1>3, Zenon DEF AdminStarted, PlacedAt
  <2>6. Requests
    BY Zenon DEF Base
  <2> QED BY <1>4, <2>1, <2>2, <2>4, <2>5, <2>6, Starts1, Zenon
<1>5. CASE req' = req
  BY <1>1, <1>5, Zenon DEF Base, Placed
<1>6. CASE \E s \in Slots, in \in workload.inputs :
              (\E l \in Slots \cup {0} : Admit(s, in, l)) \/ (\E x \in Slots : Call(s, in, x))
              \/ AdminBegin(s, in) \/ ChangeMembership(s, in) \/ Withdraw(s, in)
  BY <1>1, <1>4, <1>6, Zenon DEF Base
<1>7. CASE \E s \in Slots : RequestStep(s)
  BY <1>1, <1>2, <1>7, Zenon DEF Base
<1> QED BY <1>5, <1>6, <1>7, Zenon DEF Next, Tick, vars

\* Nothing has arrived.
LEMMA BaseInit == Init => Base
BY RequestsInit DEF Init, Base, Placed, PlacedAt, NoRequest

-----------------------------------------------------------------------------
\* A request arrives.
Arrives(s, in) ==
  \/ \E l \in Slots \cup {0} : Admit(s, in, l)
  \/ \E x \in Slots : Call(s, in, x)
  \/ AdminBegin(s, in) \/ ChangeMembership(s, in) \/ Withdraw(s, in)

\* The fields and places of requests that have just arrived.
ArrivalFields == {"pc", "in", "begun", "live", "state", "cookie", "answer", "now", "new", "by"}
Entrances == {"done", "keylookup", "parse", "inspect", "store", "take", "issue", "retire", "revoke", "bind"}

\* What a request looks like when it has arrived.
LEMMA Arrivals ==
  ASSUME Requests, NEW s \in Slots, NEW in \in workload.inputs, Arrives(s, in)
  PROVE  \E v : Started(s, v) /\ v.in = in /\ "in" \in DOMAIN v /\ DOMAIN v \subseteq ArrivalFields /\ v.pc \in Entrances
<1> DEFINE Fine(v) == v.in = in /\ "in" \in DOMAIN v /\ DOMAIN v \subseteq ArrivalFields /\ v.pc \in Entrances
<1>1. \A a : Fine(Ended(in, a))
  BY Zenon DEF Ended, ArrivalFields, Entrances
<1>2. \A a, x : Fine(Called(in, a, x))
  BY Zenon DEF Called, ArrivalFields, Entrances
<1>3. \A l, live, c : in.kind \in DOMAIN FirstStep => Fine(Arrived(in, l, live, c))
  BY DEF Arrived, FirstStep, ArrivalFields, Entrances
<1>4. \A new : in.kind \in {"issue", "rotate", "revoke", "bind"} => Fine(AdminStarted(in, new))
  BY Zenon DEF AdminStarted, ArrivalFields, Entrances
<1> HIDE DEF Fine
<1>5. \E v : Started(s, v) /\ Fine(v)
  BY <1>1, <1>2, <1>3, <1>4, Starts1 DEF Arrives
<1> QED BY <1>5, Zenon DEF Fine

\* A step of a request, an arrival, a tick of the clock, or nothing.
LEMMA Cases ==
  ASSUME [Next]_vars
  PROVE  \/ \E s \in Slots : RequestStep(s)
         \/ \E s \in Slots, in \in workload.inputs : Arrives(s, in)
         \/ Tick \/ UNCHANGED vars
BY Zenon DEF Next, Arrives

\* Fields that a step does not set stay.
LEMMA FieldFrame ==
  ASSUME NEW s \in Slots, NEW fs, Moved(s, fs), NEW f, f \notin fs \union {"pc", "answer"}
  PROVE  \A x \in Slots : f \in DOMAIN req'[x] => f \in DOMAIN req[x] /\ req'[x][f] = req[x][f]
BY Zenon DEF Moved

\* Recorded fields stay.
LEMMA FieldStays ==
  ASSUME NEW s \in Slots, NEW fs, Moved(s, fs), NEW f \in Recorded
  PROVE  \A x \in Slots : f \in DOMAIN req[x] => f \in DOMAIN req'[x]
BY Zenon DEF Moved

-----------------------------------------------------------------------------
(***************************************************************************)
(* Provider keys.  A cached key that was withdrawn since was fetched       *)
(* before that: the time of a fetch is read before it.                     *)
(***************************************************************************)
KeyTimes ==
  /\ published = [p \in DOMAIN Providers |-> published[p]] /\ cache = [p \in DOMAIN Providers |-> cache[p]]
  /\ \A p \in DOMAIN Providers :
       /\ published[p].keys \intersect DOMAIN published[p].gone = {}
       /\ \A kid \in DOMAIN published[p].gone : published[p].gone[kid] \in Nat /\ published[p].gone[kid] <= clock
       /\ cache[p].fetchedAt \in Int /\ cache[p].fetchedAt <= clock
       /\ \A kid \in cache[p].keys \intersect DOMAIN published[p].gone : cache[p].fetchedAt <= published[p].gone[kid]
  /\ \A s \in Slots : At(s, "fetch") => req[s].now \in Nat /\ req[s].now <= clock
  /\ \A s \in Slots : Has(s, "keyAt") =>
       req[s].keyAt \in Nat /\ req[s].keyAt <= clock /\ "in" \in DOMAIN req[s] /\ req[s].in.kind \in TokenKinds

KeyInv == Base /\ KeyTimes /\ TrustedKeyFresh

\* The key of a token does not depend on its nonce.
LEMMA TokenKid ==
  ASSUME Base, NEW s \in Slots, req[s].pc # "idle", req[s].in.kind \in TokenKinds
  PROVE  Token(s).kid = req[s].in.token.kid /\ ProviderOf(req[s].in) \in DOMAIN Providers
<1> USE Zenon
<1>1. req[s].in \in workload.inputs /\ workload \in Workloads
  BY DEF Base, Requests
<1>2. ProviderOf(req[s].in) \in DOMAIN Providers /\ "kid" \in DOMAIN req[s].in.token
  BY <1>1, WorkloadAssumptions DEF TokenKinds
<1> QED BY <1>2 DEF Token

\* Steps that leave caches and providers alone.
LEMMA KeyFrame ==
  ASSUME KeyInv, Base', UNCHANGED <<cache, published>>, clock' \in Nat, clock' >= clock,
         \A s \in Slots : "keyAt" \in DOMAIN req'[s] => Has(s, "keyAt") /\ req'[s].keyAt = req[s].keyAt /\ req'[s].in = req[s].in,
         \A s \in Slots : Has(s, "keyAt") => "in" \in DOMAIN req'[s],
         \A s \in Slots : req'[s].pc = "fetch" => At(s, "fetch") /\ req'[s].now = req[s].now
  PROVE  KeyInv'
<1>1. clock \in Nat
  BY Zenon DEF KeyInv, Base, Requests
<1>2. KeyTimes'
  BY <1>1 DEF KeyInv, KeyTimes, At, Has
<1>3. TrustedKeyFresh'
  BY Zenon DEF KeyInv, TrustedKeyFresh, Has
<1> QED BY <1>2, <1>3, Zenon DEF KeyInv

\* providerKeyWithFetcher, under the mutex: a cached key of a fetch that is recent enough, or a fetch.
LEMMA ProviderKeyKeeps ==
  ASSUME KeyInv, Base', NEW s \in Slots, ProviderKey(s)
  PROVE  KeyInv'
<1> DEFINE p == ProviderOf(req[s].in)
           kid == req[s].in.token.kid
<1>1. /\ req[s].pc = "key" /\ UNCHANGED <<clock, cache, published>> /\ Base /\ Requests /\ clock \in Nat
      /\ \/ CacheHit(p, Token(s).kid) /\ Keep(s, "verify", [keyAt |-> clock])
         \/ Keep(s, "fetch", [now |-> clock])
  BY Zenon DEF ProviderKey, At, KeyInv, Base, Requests
<1>2. req[s].in.kind \in TokenKinds /\ {"pc", "in"} \subseteq DOMAIN req[s]
  BY <1>1, Zenon DEF Base, Placed, PlacedAt, Requests
<1>3. Token(s).kid = kid /\ p \in DOMAIN Providers
  BY <1>1, <1>2, TokenKid, Zenon
<1> HIDE DEF p, kid
<1>4. CASE CacheHit(p, Token(s).kid) /\ Keep(s, "verify", [keyAt |-> clock])
  <2>1. /\ \A x \in Slots : x # s => req'[x] = req[x]
        /\ req'[s].pc = "verify" /\ req'[s].keyAt = clock /\ req'[s].in = req[s].in /\ "in" \in DOMAIN req'[s]
    BY <1>1, <1>2, <1>4, KeepFields
  <2>2. KeyTimes'
    BY <1>1, <1>2, <2>1 DEF KeyInv, KeyTimes, At, Has
  <2>3. kid \in DOMAIN published[p].gone => clock < published[p].gone[kid] + Providers[p].cacheTTL
    <3>1. clock < cache[p].fetchedAt + Providers[p].cacheTTL /\ kid \in cache[p].keys
      BY <1>3, <1>4, Zenon DEF CacheHit
    <3>2. Providers[p].cacheTTL \in Nat /\ cache[p].fetchedAt \in Int
      BY <1>3, CredentialAssumptions, Zenon DEF KeyInv, KeyTimes
    <3>3. kid \in DOMAIN published[p].gone => published[p].gone[kid] \in Nat /\ cache[p].fetchedAt <= published[p].gone[kid]
      BY <1>3, <3>1, Zenon DEF KeyInv, KeyTimes
    <3> QED BY <1>1, <3>1, <3>2, <3>3
  <2>4. TrustedKeyFresh'
    BY <1>1, <2>1, <2>3, Zenon DEF KeyInv, TrustedKeyFresh, Has, p, kid
  <2> QED BY <2>2, <2>4, Zenon DEF KeyInv
<1>5. CASE Keep(s, "fetch", [now |-> clock])
  <2>1. /\ \A x \in Slots : x # s => req'[x] = req[x]
        /\ req'[s].pc = "fetch" /\ req'[s].now = clock /\ req'[s].in = req[s].in /\ "in" \in DOMAIN req'[s]
        /\ "keyAt" \in DOMAIN req'[s] => "keyAt" \in DOMAIN req[s] /\ req'[s]["keyAt"] = req[s]["keyAt"]
    BY <1>1, <1>2, <1>5, KeepFields
  <2>2. KeyTimes'
    BY <1>1, <1>2, <2>1 DEF KeyInv, KeyTimes, At, Has
  <2>3. TrustedKeyFresh'
    BY <1>1, <2>1, Zenon DEF KeyInv, TrustedKeyFresh, Has
  <2> QED BY <2>2, <2>3, Zenon DEF KeyInv
<1> QED BY <1>1, <1>4, <1>5, Zenon

\* The fetch: what is published now was not withdrawn.
LEMMA FetchKeysKeeps ==
  ASSUME KeyInv, Base', NEW s \in Slots, FetchKeys(s)
  PROVE  KeyInv'
<1> DEFINE p == ProviderOf(req[s].in)
           kid == req[s].in.token.kid
<1>1. /\ req[s].pc = "fetch" /\ UNCHANGED <<clock, published>> /\ Base /\ Requests /\ clock \in Nat
      /\ \/ cache' = cache \/ cache' = [cache EXCEPT ![p] = [keys |-> published[p].keys, fetchedAt |-> req[s].now]]
      /\ Refuse(s) \/ (Token(s).kid \in published[p].keys /\ Keep(s, "verify", [keyAt |-> clock]))
  BY Zenon DEF FetchKeys, At, KeyInv, Base, Requests
<1>2. req[s].in.kind \in TokenKinds /\ {"pc", "in"} \subseteq DOMAIN req[s]
  BY <1>1 DEF Base, Placed, PlacedAt, Requests
<1>3. Token(s).kid = kid /\ p \in DOMAIN Providers /\ req[s].now \in Nat /\ req[s].now <= clock
  BY <1>1, <1>2, TokenKid, Zenon DEF KeyInv, KeyTimes, At
<1>4. Moved(s, {"keyAt"})
  BY <1>1, Moves, Zenon
<1>5. /\ \A x \in Slots : x # s => req'[x] = req[x]
      /\ req'[s].pc # "fetch" /\ "in" \in DOMAIN req'[s] /\ req'[s].in = req[s].in
  BY <1>1, <1>2, <1>4, Zenon DEF Moved, Edges, Recorded
<1>6. /\ "keyAt" \in DOMAIN req'[s] =>
           \/ "keyAt" \in DOMAIN req[s] /\ req'[s].keyAt = req[s].keyAt
           \/ kid \in published[p].keys /\ req'[s].keyAt = clock
  <2>1. CASE Refuse(s)
    BY <1>1, <2>1, AnswerFields DEF Refuse
  <2>2. CASE Token(s).kid \in published[p].keys /\ Keep(s, "verify", [keyAt |-> clock])
    BY <1>1, <1>3, <2>2, KeepFields
  <2> QED BY <1>1, <2>1, <2>2, Zenon
<1> HIDE DEF p, kid
<1>7. /\ cache' = [q \in DOMAIN Providers |-> cache'[q]]
      /\ \A q \in DOMAIN Providers : \/ cache'[q] = cache[q]
                                     \/ q = p /\ cache'[q] = [keys |-> published[p].keys, fetchedAt |-> req[s].now]
  BY <1>1, <1>3, Zenon DEF KeyInv, KeyTimes
<1>8. \A q \in DOMAIN Providers :
        /\ cache'[q].fetchedAt \in Int /\ cache'[q].fetchedAt <= clock
        /\ \A k \in cache'[q].keys \intersect DOMAIN published[q].gone : cache'[q].fetchedAt <= published[q].gone[k]
  BY <1>3, <1>7 DEF KeyInv, KeyTimes
<1>9. KeyTimes'
  BY <1>1, <1>2, <1>5, <1>6, <1>7, <1>8 DEF KeyInv, KeyTimes, At, Has
<1>10. kid \in published[p].keys => kid \notin DOMAIN published[p].gone
  BY <1>3, Zenon DEF KeyInv, KeyTimes
<1>11. TrustedKeyFresh'
  BY <1>1, <1>5, <1>6, <1>10, Zenon DEF KeyInv, TrustedKeyFresh, Has, p, kid
<1> QED BY <1>9, <1>11, Zenon DEF KeyInv

\* The provider withdraws a key: everything read so far was read before.
LEMMA WithdrawKeeps ==
  ASSUME KeyInv, Base', NEW s \in Slots, NEW in \in workload.inputs, Withdraw(s, in)
  PROVE  KeyInv'
<1> DEFINE p == in.provider
           old == published[p]
           now == [keys |-> old.keys \ {in.kid}, gone |-> With(old.gone, in.kid, clock)]
<1>1. /\ UNCHANGED <<clock, cache>> /\ Base /\ Requests /\ clock \in Nat
      /\ in.kind = "withdraw" /\ published' = [published EXCEPT ![p] = now]
  BY Zenon DEF Withdraw, KeyInv, Base, Requests
<1>2. Started(s, Ended(in, "ok"))
  BY <1>1, Starts1, Zenon
<1>3. p \in DOMAIN Providers
  BY <1>1, WorkloadAssumptions, Zenon DEF Requests
<1>4. /\ DOMAIN now.gone = DOMAIN old.gone \union {in.kid} /\ now.keys = old.keys \ {in.kid}
      /\ \A k \in DOMAIN now.gone : now.gone[k] = IF k = in.kid THEN clock ELSE old.gone[k]
  BY Zenon DEF With
<1> HIDE DEF p, old, now
<1>5. /\ published' = [q \in DOMAIN Providers |-> published'[q]] /\ published'[p] = now
      /\ \A q \in DOMAIN Providers : q # p => published'[q] = published[q]
  BY <1>1, <1>3, Zenon DEF KeyInv, KeyTimes
<1>6. /\ \A q \in DOMAIN Providers : \A k \in DOMAIN published'[q].gone :
           \/ k \in DOMAIN published[q].gone /\ published'[q].gone[k] = published[q].gone[k]
           \/ published'[q].gone[k] = clock
      /\ \A q \in DOMAIN Providers : published'[q].keys \intersect DOMAIN published'[q].gone = {}
  <2> USE Zenon
  <2>1. ASSUME NEW q \in DOMAIN Providers, q # p
        PROVE  published'[q] = published[q] /\ published[q].keys \intersect DOMAIN published[q].gone = {}
    BY <1>5, <2>1 DEF KeyInv, KeyTimes
  <2>2. /\ published'[p] = now /\ published[p] = old /\ old.keys \intersect DOMAIN old.gone = {}
    BY <1>3, <1>5 DEF KeyInv, KeyTimes, old
  <2>3. now.keys \intersect DOMAIN now.gone = {}
    BY <1>4, <2>2
  <2>4. ASSUME NEW k \in DOMAIN now.gone
        PROVE  (k \in DOMAIN old.gone /\ now.gone[k] = old.gone[k]) \/ now.gone[k] = clock
    BY <1>4
  <2> QED BY <2>1, <2>2, <2>3, <2>4
<1>7. /\ \A x \in Slots : x # s => req'[x] = req[x]
      /\ req'[s].pc = "done" /\ "keyAt" \notin DOMAIN req'[s]
  BY <1>2 DEF Started, Ended
<1>8. KeyTimes'
  <2>1. \A q \in DOMAIN Providers : \A k \in DOMAIN published'[q].gone :
          /\ published'[q].gone[k] \in Nat /\ published'[q].gone[k] <= clock
          /\ k \in cache[q].keys => cache[q].fetchedAt <= published'[q].gone[k]
    BY <1>1, <1>6 DEF KeyInv, KeyTimes
  <2>2. /\ \A x \in Slots : req'[x].pc = "fetch" => req'[x].now \in Nat /\ req'[x].now <= clock
        /\ \A x \in Slots : "keyAt" \in DOMAIN req'[x] =>
             /\ req'[x].keyAt \in Nat /\ req'[x].keyAt <= clock
             /\ "in" \in DOMAIN req'[x] /\ req'[x].in.kind \in TokenKinds
    BY <1>7, Zenon DEF KeyInv, KeyTimes, At, Has
  <2>3. /\ cache = [q \in DOMAIN Providers |-> cache[q]]
        /\ \A q \in DOMAIN Providers : cache[q].fetchedAt \in Int /\ cache[q].fetchedAt <= clock
    BY Zenon DEF KeyInv, KeyTimes
  <2> QED BY <1>1, <1>5, <1>6, <2>1, <2>2, <2>3, Zenon DEF KeyTimes, At, Has
<1>9. ASSUME NEW x \in Slots, "keyAt" \in DOMAIN req'[x], NEW q \in DOMAIN Providers, q = ProviderOf(req'[x].in),
             NEW k \in DOMAIN published'[q].gone, k = req'[x].in.token.kid
      PROVE  req'[x].keyAt < published'[q].gone[k] + Providers[q].cacheTTL
  <2>1. x # s /\ req'[x] = req[x]
    BY <1>7, <1>9, Zenon
  <2>2. Providers[q].cacheTTL \in Nat \ {0}
    BY CredentialAssumptions, Zenon
  <2>3. req[x].keyAt \in Nat /\ req[x].keyAt <= clock
    BY <1>9, <2>1, Zenon DEF KeyInv, KeyTimes, Has
  <2>4. CASE published'[q].gone[k] = clock
    BY <1>1, <2>1, <2>2, <2>3, <2>4
  <2>5. CASE k \in DOMAIN published[q].gone /\ published'[q].gone[k] = published[q].gone[k]
    BY <1>9, <2>1, <2>5, Zenon DEF KeyInv, TrustedKeyFresh, Has
  <2> QED BY <1>6, <2>4, <2>5, Zenon
<1>10. TrustedKeyFresh'
  <2> USE Zenon
  <2>1. \A x \in Slots : "keyAt" \in DOMAIN req'[x] => ProviderOf(req'[x].in) \in DOMAIN Providers
    BY <1>1, <1>7, TokenKid DEF KeyInv, KeyTimes, Has, Requests, NoRequest
  <2> QED BY <1>9, <2>1 DEF TrustedKeyFresh, Has
<1> QED BY <1>8, <1>10, Zenon DEF KeyInv

\* Every step keeps what is known about the times of keys.
LEMMA KeyStep ==
  ASSUME KeyInv, [Next]_vars
  PROVE  KeyInv'
<1>1. Base /\ Requests /\ Base' /\ clock' \in Nat /\ clock' >= clock
  BY BaseStep, ClockSteps, Zenon DEF KeyInv, Base
<1>2. ASSUME NEW s \in Slots, RequestStep(s) PROVE KeyInv'
  <2>1. CASE ProviderKey(s)
    BY <1>1, <2>1, ProviderKeyKeeps, Zenon
  <2>2. CASE FetchKeys(s)
    BY <1>1, <2>2, FetchKeysKeeps, Zenon
  <2>3. CASE ~ProviderKey(s) /\ ~FetchKeys(s)
    <3>1. UNCHANGED <<cache, published>>
      BY <1>2, <2>3, Zenon DEF RequestStep, KeyLookup, KeyCheck, RotateRetire, AdminCommit, Inspect, TokenVerify, ParseProof,
         CallSTS, CheckPrincipal, MembershipLookup, GuardPrecheck, Consume, LoginStore, LoginRedirect, CallbackTake,
         CallbackCode, SignSession, Respond
    <3>2. \E fs : Moved(s, fs) /\ "keyAt" \notin fs /\ "now" \notin fs /\ "in" \notin fs
      BY <1>1, <1>2, <2>3, Moves, Zenon DEF RequestStep
    <3>3. PICK fs : Moved(s, fs) /\ "keyAt" \notin fs /\ "now" \notin fs /\ "in" \notin fs
      BY <3>2, Zenon
    <3>4. \A x \in Slots : "keyAt" \in DOMAIN req'[x] => "keyAt" \in DOMAIN req[x] /\ req'[x]["keyAt"] = req[x]["keyAt"]
      BY <3>3, FieldFrame, Zenon
    <3>5. \A x \in Slots : "in" \in DOMAIN req[x] => "in" \in DOMAIN req'[x] /\ req'[x]["in"] = req[x]["in"]
      BY <3>3, FieldFrame, FieldStays, Zenon DEF Recorded
    <3>6. \A x \in Slots : req'[x].pc = "fetch" => req[x].pc = "fetch" /\ req'[x].now = req[x].now
      <4>1. req'[s].pc = "fetch" => req[s].pc = "key"
        BY <3>3, Zenon DEF Moved, Edges
      <4>2. req[s].pc # "key"
        BY <1>2, <2>3, Zenon DEF RequestStep, KeyLookup, KeyCheck, RotateRetire, AdminCommit, Inspect, TokenVerify, ParseProof,
           CallSTS, CheckPrincipal, MembershipLookup, GuardPrecheck, Consume, LoginStore, LoginRedirect, CallbackTake,
           CallbackCode, SignSession, Respond, At
      <4> QED BY <3>3, <4>1, <4>2 DEF Moved
    <3>7. \A x \in Slots : "keyAt" \in DOMAIN req[x] => "in" \in DOMAIN req[x]
      BY Zenon DEF KeyInv, KeyTimes, Has
    <3> QED BY <1>1, <3>1, <3>4, <3>5, <3>6, <3>7, KeyFrame, Zenon DEF Has, At
  <2> QED BY <2>1, <2>2, <2>3, Zenon
<1>3. ASSUME NEW s \in Slots, NEW in \in workload.inputs, Arrives(s, in) PROVE KeyInv'
  <2> USE Zenon
  <2>1. CASE Withdraw(s, in)
    BY <1>1, <2>1, WithdrawKeeps
  <2>2. CASE ~Withdraw(s, in)
    <3>1. UNCHANGED <<cache, published>>
      BY <1>3, <2>2 DEF Arrives, Admit, Call, AdminBegin, ChangeMembership
    <3>2. PICK v : Started(s, v) /\ DOMAIN v \subseteq ArrivalFields /\ v.pc \in Entrances
      BY <1>1, <1>3, Arrivals
    <3>3. /\ \A x \in Slots : x # s => req'[x] = req[x]
          /\ "keyAt" \notin DOMAIN req'[s] /\ "keyAt" \notin DOMAIN req[s] /\ req'[s].pc # "fetch"
      BY <3>2 DEF Started, ArrivalFields, Entrances, NoRequest
    <3>4. \A x \in Slots : "keyAt" \in DOMAIN req[x] => "in" \in DOMAIN req[x]
      BY DEF KeyInv, KeyTimes, Has
    <3> QED BY <1>1, <3>1, <3>3, <3>4, KeyFrame DEF Has, At
  <2> QED BY <2>1, <2>2
<1>4. CASE Tick \/ UNCHANGED vars
  <2> USE Zenon
  <2>1. UNCHANGED <<cache, published, req>>
    BY <1>4 DEF Tick, vars
  <2>2. \A x \in Slots : "keyAt" \in DOMAIN req[x] => "in" \in DOMAIN req[x]
    BY DEF KeyInv, KeyTimes, Has
  <2> QED BY <1>1, <2>1, <2>2, KeyFrame DEF Has, At
<1> QED BY <1>2, <1>3, <1>4, Cases, Zenon

\* Nothing is cached at the start.
LEMMA KeyInit == Init => KeyInv
<1> SUFFICES ASSUME Init PROVE KeyInv
  BY Zenon
<1>1. Base /\ \A s \in Slots : req[s] = NoRequest
  BY BaseInit, Zenon DEF Init
<1>2. /\ \A s \in Slots : "keyAt" \notin DOMAIN req[s] /\ req[s].pc = "idle"
  BY <1>1 DEF NoRequest
<1>3. DOMAIN << >> = {}
  OBVIOUS
<1>4. KeyTimes
  BY <1>2, <1>3 DEF Init, KeyTimes, At, Has, Never
<1> QED BY <1>1, <1>2, <1>4, Zenon DEF KeyInv, TrustedKeyFresh, Has

\* For any providers, cache lifetimes and interleavings of requests: a token is never verified with a key its
\* provider withdrew longer ago than the cache lifetime (providerKeyWithFetcher).
THEOREM TrustedKeysAreFresh == Spec => []TrustedKeyFresh
<1>1. KeyInv /\ [Next]_vars => KeyInv'
  BY KeyStep, Zenon
<1>2. KeyInv => TrustedKeyFresh
  BY Zenon DEF KeyInv
<1> QED BY <1>1, <1>2, KeyInit, PTL DEF Spec

-----------------------------------------------------------------------------
(***************************************************************************)
(* API keys.                                                               *)
(***************************************************************************)
KeyFields == {"ws", "subject", "created", "expires", "retire", "revoked", "by"}
KeyRow(r) == r = [f \in KeyFields |-> r[f]] /\ {r.created, r.expires, r.retire, r.revoked, r.by} \subseteq Int

\* Every key is named by the request that made it, which has been answered.
RowShape ==
  /\ DOMAIN rows = {"members", "keys", "bindings"} /\ rows = [f \in DOMAIN rows |-> rows[f]]
  /\ \A k \in DOMAIN rows.keys : KeyRow(rows.keys[k])
  /\ \A k \in DOMAIN rows.keys \intersect Slots : At(k, "done")
  /\ \A i \in DOMAIN rows.bindings : rows.bindings[i].ws = i[1]

\* What administrators are about to write.
Drafts ==
  /\ \A s \in Slots : req[s].pc \in Changing => KeyRow(req[s].new) /\ req[s].now \in Nat
  /\ \A s \in Slots : At(s, "retire") \/ At(s, "rotate") => req[s].in.overlap \in 0..MaxOverlap
  /\ \A s \in Slots : At(s, "rotate") => req[s].retire \in Nat

\* A row that may not start an exchange at the time now, and a key that may not then or later.
Inactive(r, now) == r.revoked # Never \/ now >= r.expires \/ (r.retire # Never /\ now >= r.retire)
Dead(k) == (k \in DOMAIN rows.keys => Inactive(rows.keys[k], clock)) /\ (k \in Slots => req[k].pc = "done")

RevokedAt(s) ==
  /\ "live" \in DOMAIN req[s] /\ req[s].in.kind = "key" /\ ~req[s].live => Dead(req[s].in.key)
  /\ req[s].pc = "keycheck" => KeyRow(req[s].record) /\ (~req[s].live => Inactive(req[s].record, clock))
  /\ (req[s].pc \in {"sign", "respond"} \/ "token" \in DOMAIN req[s]) /\ req[s].in.kind = "key" =>
       "live" \in DOMAIN req[s] /\ req[s].live
Revoked == \A s \in Slots : RevokedAt(s)

SessionAt(s) ==
  /\ "token" \in DOMAIN req[s] => req[s].token.iat \in Int /\ req[s].token.exp \in Int
  /\ req[s].pc = "respond" => "token" \in DOMAIN req[s]
  /\ req[s].pc = "done" /\ req[s].answer = "session" => "token" \in DOMAIN req[s]
  /\ "by" \in DOMAIN req[s] => req[s].pc = "done" /\ req[s].by \in Slots /\ req[req[s].by].pc = "done"
  /\ "by" \in DOMAIN req[s] /\ req[s].answer = "accepted" => req[s].begun < req[req[s].by].token.iat + SessionLife + Leeway
Sessions == \A s \in Slots : SessionAt(s)

Successors ==
  \A s \in Slots \cap DOMAIN rows.keys :
    req[s].in.kind = "rotate" =>
      /\ req[s].in.key \in Slots => At(req[s].in.key, "done")
      /\ \A x \in Slots \cap DOMAIN rows.keys : req[x].in.kind = "rotate" /\ req[x].in.key = req[s].in.key => x = s
      /\ req[s].in.key \in DOMAIN rows.keys =>
           rows.keys[req[s].in.key].by = s /\ rows.keys[req[s].in.key].retire # Never

\* A row that is revoked.
LEMMA RevokedRow ==
  ASSUME NEW r, KeyRow(r), NEW a \in Int, NEW n, n = [r EXCEPT !.revoked = a]
  PROVE  KeyRow(n) /\ n.revoked = a /\ n.retire = r.retire /\ n.by = r.by /\ n.expires = r.expires
<1> USE Zenon
<1>1. r = [f \in KeyFields |-> r[f]] /\ r.created \in Int /\ r.expires \in Int /\ r.retire \in Int /\ r.revoked \in Int
      /\ r.by \in Int
  BY DEF KeyRow
<1>2. /\ n = [f \in KeyFields |-> n[f]]
      /\ n["revoked"] = a /\ n["by"] = r["by"] /\ n["expires"] = r["expires"] /\ n["retire"] = r["retire"]
      /\ n["created"] = r["created"]
  BY <1>1 DEF KeyFields
<1> QED BY <1>1, <1>2 DEF KeyRow

\* A step takes the key table from keys to keys2: at most request s gets a key, and a row loses life only.
Aged(keys, keys2, s) ==
  /\ \A k \in DOMAIN keys2 : KeyRow(keys2[k])
  /\ \A k \in DOMAIN keys2 \ DOMAIN keys : k = s
  /\ \A k \in DOMAIN keys2 \intersect DOMAIN keys :
       /\ keys2[k].expires = keys[k].expires
       /\ keys[k].revoked # Never => keys2[k].revoked = keys[k].revoked
       /\ keys[k].retire # Never \/ keys[k].by # Never => keys2[k].retire = keys[k].retire /\ keys2[k].by = keys[k].by

ShapeOf(r) == DOMAIN r = {"members", "keys", "bindings"} /\ r = [f \in DOMAIN r |-> r[f]]

\* The transactions of administrators.
LEMMA Committed ==
  ASSUME Base, RowShape, Drafts, NEW s \in Slots, AdminCommit(s)
  PROVE  /\ ShapeOf(rows') /\ Aged(rows.keys, rows'.keys, s)
         /\ s \notin DOMAIN rows.keys
         /\ s \in DOMAIN rows'.keys => req[s].pc \in {"issue", "rotate"}
         /\ s \in DOMAIN rows'.keys /\ req[s].in.kind = "rotate" =>
              /\ req[s].in.key \in DOMAIN rows.keys /\ rows.keys[req[s].in.key].by = Never
              /\ req[s].in.key \in DOMAIN rows'.keys
              /\ rows'.keys[req[s].in.key].by = s /\ rows'.keys[req[s].in.key].retire # Never
         /\ \A i \in DOMAIN rows'.bindings : rows'.bindings[i].ws = i[1]
<1> DEFINE q == req[s]
           k == q.in.key
<1>1. /\ q.pc \in {"issue", "rotate", "revoke", "bind"} /\ q.in.kind = q.pc /\ q.pc # "done" /\ q.pc \in Changing
      /\ q.in \in workload.inputs /\ workload \in Workloads /\ s \in Int /\ s # Never
  BY CredentialAssumptions DEF AdminCommit, Base, Requests, Placed, PlacedAt, Changing, Never
<1>2. ShapeOf(rows) /\ (\A j \in DOMAIN rows.keys : KeyRow(rows.keys[j])) /\ s \notin DOMAIN rows.keys
      /\ KeyRow(q.new) /\ q.now \in Nat /\ \A i \in DOMAIN rows.bindings : rows.bindings[i].ws = i[1]
  BY <1>1, Zenon DEF RowShape, Drafts, ShapeOf, At
<1>3. Aged(rows.keys, rows.keys, s)
  BY <1>2, Zenon DEF Aged
<1>4. CASE rows' = rows
  BY <1>1, <1>2, <1>3, <1>4, Zenon
<1>5. \A v : LET r == [rows EXCEPT !.keys = v] IN ShapeOf(r) /\ r.keys = v /\ r.bindings = rows.bindings
  BY <1>2, Zenon DEF ShapeOf
<1>6. CASE q.pc = "issue" /\ rows' = [rows EXCEPT !.keys = With(rows.keys, s, q.new)]
  <2> USE Zenon
  <2>1. rows'.keys = With(rows.keys, s, q.new) /\ ShapeOf(rows') /\ rows'.bindings = rows.bindings
    BY <1>5, <1>6
  <2>2. /\ DOMAIN rows'.keys = DOMAIN rows.keys \union {s} /\ rows'.keys[s] = q.new
        /\ \A j \in DOMAIN rows.keys : rows'.keys[j] = rows.keys[j]
    BY <1>2, <2>1 DEF With
  <2>3. Aged(rows.keys, rows'.keys, s)
    BY <1>2, <2>2 DEF Aged
  <2> QED BY <1>1, <1>2, <1>6, <2>1, <2>3
<1>7. CASE /\ q.pc = "rotate" /\ k \in DOMAIN rows.keys /\ Rotatable(rows.keys[k], q.new.created)
           /\ rows' = [rows EXCEPT !.keys = With([rows.keys EXCEPT ![k].retire = q.retire, ![k].by = s], s, q.new)]
  <2> DEFINE n == [rows.keys[k] EXCEPT !.retire = q.retire, !.by = s]
             t == [rows.keys EXCEPT ![k].retire = q.retire, ![k].by = s]
  <2>1. q.retire \in Int /\ q.retire # Never /\ s \in Int /\ KeyRow(rows.keys[k])
    BY <1>1, <1>2, <1>7 DEF Drafts, At, Never
  <2>2. KeyRow(n) /\ n.retire = q.retire /\ n.by = s /\ n.expires = rows.keys[k].expires /\ n.revoked = rows.keys[k].revoked
    <3> USE Zenon
    <3> DEFINE r == rows.keys[k]
               a == q.retire
    <3>1. KeyRow(r) /\ a \in Int /\ s \in Int /\ n = [r EXCEPT !.retire = a, !.by = s]
      BY <2>1
    <3> HIDE DEF r, a, n
    <3>2. r = [f \in KeyFields |-> r[f]] /\ r.created \in Int /\ r.expires \in Int /\ r.revoked \in Int
      BY <3>1 DEF KeyRow
    <3>3. /\ n = [f \in KeyFields |-> n[f]]
          /\ n["retire"] = a /\ n["by"] = s /\ n["expires"] = r["expires"] /\ n["revoked"] = r["revoked"]
          /\ n["created"] = r["created"]
      BY <3>1, <3>2 DEF KeyFields
    <3>4. KeyRow(n) /\ n.retire = a /\ n.by = s /\ n.expires = r.expires /\ n.revoked = r.revoked
      BY <3>1, <3>2, <3>3 DEF KeyRow
    <3> QED BY <3>4 DEF r, a
  <2>3. DOMAIN t = DOMAIN rows.keys /\ t[k] = n /\ \A j \in DOMAIN rows.keys : j # k => t[j] = rows.keys[j]
    BY <1>7, Zenon
  <2>4. rows'.keys = With(t, s, q.new) /\ ShapeOf(rows') /\ rows'.bindings = rows.bindings
    BY <1>5, <1>7, Zenon
  <2> HIDE DEF n, t
  <2>5. k # s /\ rows.keys[k].retire = Never /\ rows.keys[k].by = Never
    BY <1>2, <1>7, ZenonT(30) DEF Rotatable
  <2>6. /\ DOMAIN rows'.keys = DOMAIN rows.keys \union {s} /\ rows'.keys[s] = q.new /\ rows'.keys[k] = n
        /\ \A j \in DOMAIN rows.keys : j # k => rows'.keys[j] = rows.keys[j]
    BY <1>2, <1>7, <2>3, <2>4, <2>5, ZenonT(30) DEF With
  <2>7. Aged(rows.keys, rows'.keys, s)
    BY <1>2, <2>2, <2>5, <2>6, Zenon DEF Aged
  <2> QED BY <1>1, <1>2, <1>7, <2>1, <2>2, <2>4, <2>5, <2>6, <2>7, ZenonT(30)
<1>8. CASE /\ q.pc = "revoke" /\ k \in DOMAIN rows.keys /\ rows.keys[k].revoked = Never
           /\ rows' = [rows EXCEPT !.keys[k].revoked = q.now]
  <2> DEFINE n == [rows.keys[k] EXCEPT !.revoked = q.now]
             t == [rows.keys EXCEPT ![k].revoked = q.now]
  <2>1. KeyRow(n) /\ n.retire = rows.keys[k].retire /\ n.by = rows.keys[k].by /\ n.expires = rows.keys[k].expires
    BY <1>1, <1>2, <1>8, RevokedRow
  <2>2. DOMAIN t = DOMAIN rows.keys /\ t[k] = n /\ \A j \in DOMAIN rows.keys : j # k => t[j] = rows.keys[j]
    BY <1>8, Zenon
  <2>3. rows'.keys = t /\ ShapeOf(rows') /\ rows'.bindings = rows.bindings
    BY <1>5, <1>8, Zenon
  <2> HIDE DEF n, t
  <2>4. Aged(rows.keys, rows'.keys, s)
    BY <1>2, <1>8, <2>1, <2>2, <2>3, Zenon DEF Aged
  <2> QED BY <1>1, <1>2, <1>8, <2>2, <2>3, <2>4, Zenon
<1>9. CASE /\ q.pc = "bind"
           /\ rows' = [rows EXCEPT !.bindings = With(rows.bindings, q.in.identity, [ws |-> q.in.ws, subject |-> q.in.subject])]
  <2>1. /\ rows'.keys = rows.keys /\ ShapeOf(rows')
        /\ rows'.bindings = With(rows.bindings, q.in.identity, [ws |-> q.in.ws, subject |-> q.in.subject])
    BY <1>2, <1>9, Zenon DEF ShapeOf
  <2>2. q.in.identity[1] = q.in.ws
    BY <1>1, <1>9, WorkloadAssumptions, Zenon
  <2>3. \A i \in DOMAIN rows'.bindings : rows'.bindings[i].ws = i[1]
    BY <1>2, <2>1, <2>2 DEF With
  <2> QED BY <1>2, <1>3, <2>1, <2>3, Zenon
<1>10. \/ rows' = rows
       \/ \E r \in Statement(s) : rows' = r
  BY Zenon DEF AdminCommit
<1>11. ASSUME NEW r \in Statement(s), rows' = r
       PROVE  \/ q.pc = "issue" /\ rows' = [rows EXCEPT !.keys = With(rows.keys, s, q.new)]
              \/ /\ q.pc = "rotate" /\ k \in DOMAIN rows.keys /\ Rotatable(rows.keys[k], q.new.created)
                 /\ rows' = [rows EXCEPT !.keys = With([rows.keys EXCEPT ![k].retire = q.retire, ![k].by = s], s, q.new)]
              \/ /\ q.pc = "revoke" /\ k \in DOMAIN rows.keys /\ rows.keys[k].revoked = Never
                 /\ rows' = [rows EXCEPT !.keys[k].revoked = q.now]
              \/ /\ q.pc = "bind"
                 /\ rows' = [rows EXCEPT !.bindings =
                               With(rows.bindings, q.in.identity, [ws |-> q.in.ws, subject |-> q.in.subject])]
  BY <1>1, <1>11, Zenon DEF Statement, CreateAPIKey, RotateAPIKey, RevokeAPIKey, CreateBinding, StoredKey
<1> QED BY <1>4, <1>6, <1>7, <1>8, <1>9, <1>10, <1>11, Zenon

\* A request that was answered stays as it was.
LEMMA DoneStays ==
  ASSUME Base, [Next]_vars
  PROVE  \A x \in Slots : At(x, "done") => req'[x] = req[x]
<1> USE Zenon
<1>1. ASSUME NEW s \in Slots, RequestStep(s) PROVE \A x \in Slots : At(x, "done") => req'[x] = req[x]
  <2>1. Moved(s, Settable)
    BY <1>1, StepMoves DEF Base
  <2> QED BY <2>1 DEF Moved, At, Begun, Changing
<1>2. ASSUME NEW s \in Slots, NEW in \in workload.inputs, Arrives(s, in)
      PROVE  \A x \in Slots : At(x, "done") => req'[x] = req[x]
  <2>1. \E v : Started(s, v)
    BY <1>2, Arrivals DEF Base
  <2> QED BY <2>1 DEF Started, At
<1> QED BY <1>1, <1>2, Cases DEF Tick, vars

\* The key table changes under commits and removals only.
LEMMA RowFrame ==
  ASSUME NEW s \in Slots
  PROVE  /\ RequestStep(s) /\ ~AdminCommit(s) => rows' = rows
         /\ \A in : Arrives(s, in) /\ ~ChangeMembership(s, in) => rows' = rows
<1> USE Zenon
<1>1. RequestStep(s) /\ ~AdminCommit(s) => rows' = rows
  BY DEF RequestStep, KeyLookup, KeyCheck, RotateRetire, Inspect, ProviderKey, FetchKeys, TokenVerify,
     ParseProof, CallSTS, CheckPrincipal, MembershipLookup, GuardPrecheck, Consume, LoginStore, LoginRedirect,
     CallbackTake, CallbackCode, SignSession, Respond
<1>2. \A in : Arrives(s, in) /\ ~ChangeMembership(s, in) => rows' = rows
  BY DEF Arrives, Admit, Call, AdminBegin, Withdraw
<1> QED BY <1>1, <1>2

\* A new key as an administrator drafts it.
LEMMA NewRows ==
  ASSUME clock \in Nat, NEW ws, NEW subject
  PROVE  KeyRow(NewKey(ws, subject))
<1>1. KeyLife \in Nat
  BY CredentialAssumptions, Zenon
<1> QED BY <1>1 DEF KeyRow, NewKey, KeyFields, Never

\* Drafts are kept until they are written.
LEMMA DraftsStep ==
  ASSUME Base, Drafts, [Next]_vars
  PROVE  Drafts'
<1>1. Requests /\ Base' /\ clock \in Nat
  BY BaseStep, Zenon DEF Base, Requests
<1>2. ASSUME NEW s \in Slots, RequestStep(s) PROVE Drafts'
  <2>1. Moved(s, Settable) /\ req'[s].in = req[s].in
    BY <1>1, <1>2, StepMoves, MovedFacts, Zenon
  <2>2. CASE RotateRetire(s)
    <3>1. req[s].pc = "retire" /\ Keep(s, "rotate", [retire |-> clock + req[s].in.overlap])
      BY <2>2, Zenon DEF RotateRetire, At
    <3>2. /\ req'[s].pc = "rotate" /\ req'[s].retire = clock + req[s].in.overlap
          /\ \A f \in DOMAIN req[s] : f \notin {"pc", "retire"} => req'[s][f] = req[s][f]
      BY <1>1, <3>1, KeepFields
    <3>3. {"new", "now"} \subseteq DOMAIN req[s] /\ "retire" \in Changing
      BY <1>1, <3>1, Zenon DEF Requests, Changing
    <3>4. req'[s]["new"] = req[s]["new"] /\ req'[s]["now"] = req[s]["now"]
      BY <3>2, <3>3, Zenon
    <3>5. req[s].in.overlap \in 0..MaxOverlap /\ MaxOverlap \in Nat /\ KeyRow(req[s].new) /\ req[s].now \in Nat
      BY <3>1, <3>3, CredentialAssumptions, Zenon DEF Drafts, At
    <3> QED BY <1>1, <2>1, <3>2, <3>4, <3>5 DEF Drafts, At, Moved
  <2>3. CASE ~RotateRetire(s)
    <3> USE Zenon
    <3>1. req[s].pc # "retire"
      BY <1>2, <2>3 DEF RequestStep, KeyLookup, KeyCheck, AdminCommit, Inspect, ProviderKey, FetchKeys, TokenVerify,
         ParseProof, CallSTS, CheckPrincipal, MembershipLookup, GuardPrecheck, Consume, LoginStore, LoginRedirect,
         CallbackTake, CallbackCode, SignSession, Respond, At
    <3>2. req'[s].pc \notin Changing
      BY <2>1, <3>1 DEF Moved, Edges, Changing
    <3> QED BY <2>1, <3>2 DEF Drafts, At, Moved, Changing
  <2> QED BY <2>2, <2>3, Zenon
<1>3. ASSUME NEW s \in Slots, NEW in \in workload.inputs, Arrives(s, in) PROVE Drafts'
  <2>1. CASE AdminBegin(s, in)
    <3> DEFINE row == NewKey(in.ws, IF in.kind = "revoke" THEN None ELSE in.subject)
    <3>1. \/ Started(s, Ended(in, "refused"))
          \/ Started(s, AdminStarted(in, row)) /\ (in.kind = "rotate" => in.overlap \in 0..MaxOverlap)
      BY <1>1, <2>1, Starts1, Zenon
    <3>2. KeyRow(row)
      BY <1>1, NewRows, Zenon
    <3> HIDE DEF row
    <3>3. CASE Started(s, Ended(in, "refused"))
      BY <3>3 DEF Started, Ended, Drafts, At, Changing
    <3>4. CASE Started(s, AdminStarted(in, row)) /\ (in.kind = "rotate" => in.overlap \in 0..MaxOverlap)
      <4>1. /\ req'[s].new = row /\ req'[s].now = clock /\ req'[s].in = in
            /\ req'[s].pc = IF in.kind = "rotate" THEN "retire" ELSE in.kind
        BY <3>4 DEF Started, AdminStarted
      <4>2. in.kind \in {"issue", "rotate", "revoke", "bind"}
        BY <2>1, Zenon DEF AdminBegin
      <4> QED BY <1>1, <3>2, <3>4, <4>1, <4>2, Zenon DEF Started, Drafts, At
    <3> QED BY <3>1, <3>3, <3>4, Zenon
  <2>2. CASE ~AdminBegin(s, in)
    <3>1. \E v : Started(s, v) /\ v.pc \notin Changing
      <4>1. \A a, x : Ended(in, a).pc \notin Changing /\ Called(in, a, x).pc \notin Changing
        BY Zenon DEF Ended, Called, Changing
      <4>2. in.kind \in DOMAIN FirstStep => \A l, live, c : Arrived(in, l, live, c).pc \notin Changing
        BY DEF Arrived, FirstStep, Changing
      <4> QED BY <1>1, <1>3, <2>2, <4>1, <4>2, Starts1, Zenon DEF Arrives
    <3> QED BY <3>1, Zenon DEF Started, Drafts, At, Changing
  <2> QED BY <2>1, <2>2, Zenon
<1>4. CASE Tick \/ UNCHANGED vars
  BY <1>4, Zenon DEF Tick, vars, Drafts, At
<1> QED BY <1>2, <1>3, <1>4, Cases, Zenon

\* A step that adds the key k: its request commits, and what it rotates had no successor.
Born(k) ==
  /\ k \in Slots /\ ~At(k, "done") /\ req'[k].pc = "done" /\ req'[k].in = req[k].in
  /\ req[k].in.kind = "rotate" =>
       /\ req[k].in.key \in DOMAIN rows.keys /\ rows.keys[req[k].in.key].by = Never
       /\ req[k].in.key \in DOMAIN rows'.keys
       /\ rows'.keys[req[k].in.key].by = k /\ rows'.keys[req[k].in.key].retire # Never

Aging == /\ \A k \in DOMAIN rows'.keys \intersect DOMAIN rows.keys :
              /\ rows'.keys[k].expires = rows.keys[k].expires
              /\ rows.keys[k].revoked # Never => rows'.keys[k].revoked = rows.keys[k].revoked
              /\ rows.keys[k].retire # Never \/ rows.keys[k].by # Never =>
                   rows'.keys[k].retire = rows.keys[k].retire /\ rows'.keys[k].by = rows.keys[k].by
         /\ \A k \in DOMAIN rows'.keys \ DOMAIN rows.keys : Born(k)

\* The tables keep their shape, and keys only age.
LEMMA RowStep ==
  ASSUME Base, RowShape, Drafts, [Next]_vars
  PROVE  RowShape' /\ Aging
<1>1. \A x \in Slots : req[x].pc = "done" => req'[x].pc = "done"
  BY DoneStays, Zenon DEF At
<1>2. CASE rows' = rows
  BY <1>1, <1>2, Zenon DEF RowShape, Aging, At
<1>3. ASSUME NEW s \in Slots, AdminCommit(s), RequestStep(s) PROVE RowShape' /\ Aging
  <2> USE Zenon
  <2>1. req[s].pc # "done" /\ req'[s].pc = "done" /\ req'[s].in = req[s].in
    <3>1. \E a : Answer(s, a)
      BY <1>3 DEF AdminCommit
    <3>2. req'[s].pc = "done"
      BY <3>1, AnswerFields DEF Base
    <3> QED BY <1>3, <3>2, MovedFacts DEF AdminCommit
  <2>2. /\ ShapeOf(rows') /\ Aged(rows.keys, rows'.keys, s) /\ s \notin DOMAIN rows.keys
        /\ \A i \in DOMAIN rows'.bindings : rows'.bindings[i].ws = i[1]
    BY <1>3, Committed
  <2>3. RowShape'
    BY <1>1, <2>1, <2>2 DEF RowShape, ShapeOf, Aged, At
  <2>4. s \in DOMAIN rows'.keys => Born(s)
    BY <1>3, <2>1, Committed DEF Born, At
  <2> QED BY <2>2, <2>3, <2>4 DEF Aging, Aged
<1>4. ASSUME NEW s \in Slots, NEW in, ChangeMembership(s, in) PROVE RowShape' /\ Aging
  <2> DEFINE keys == {x \in DOMAIN rows.keys : rows.keys[x].ws = in.ws /\ rows.keys[x].subject = in.subject}
             bs == {x \in DOMAIN rows.bindings : rows.bindings[x].ws = in.ws /\ rows.bindings[x].subject = in.subject}
  <2>1. \/ rows' = [members |-> Without(rows.members, {<<in.ws, in.subject>>}),
                    keys |-> Without(rows.keys, keys), bindings |-> Without(rows.bindings, bs)]
        \/ \E v : rows' = [rows EXCEPT !.members = v]
    BY <1>4, Zenon DEF ChangeMembership
  <2>2. ShapeOf(rows)
    BY Zenon DEF RowShape, ShapeOf
  <2>3. /\ ShapeOf(rows')
        /\ DOMAIN rows'.keys \subseteq DOMAIN rows.keys /\ \A k \in DOMAIN rows'.keys : rows'.keys[k] = rows.keys[k]
        /\ DOMAIN rows'.bindings \subseteq DOMAIN rows.bindings
        /\ \A i \in DOMAIN rows'.bindings : rows'.bindings[i] = rows.bindings[i]
    BY <2>1, <2>2 DEF ShapeOf, Without
  <2> QED BY <1>1, <2>3, Zenon DEF RowShape, ShapeOf, Aging, At
<1>5. rows' = rows \/ (\E s \in Slots : AdminCommit(s) /\ RequestStep(s))
                   \/ (\E s \in Slots, in \in workload.inputs : ChangeMembership(s, in))
  BY Cases, RowFrame, Zenon DEF Tick, vars
<1> QED BY <1>2, <1>3, <1>4, <1>5, Zenon

\* Rows do not come back to life.
LEMMA InactiveStays ==
  ASSUME NEW r, KeyRow(r), NEW now \in Nat, Inactive(r, now), NEW later \in Nat, later >= now
  PROVE  Inactive(r, later)
BY DEF Inactive, KeyRow

\* A key that is dead stays dead.
LEMMA DeadStays ==
  ASSUME Base, RowShape, Drafts, [Next]_vars, NEW k, Dead(k)
  PROVE  /\ k \in DOMAIN rows'.keys => Inactive(rows'.keys[k], clock')
         /\ k \in Slots => req'[k].pc = "done"
<1>1. RowShape' /\ Aging /\ clock \in Nat /\ clock' \in Nat /\ clock' >= clock
  BY RowStep, ClockSteps, Zenon DEF Base, Requests
<1>2. k \in Slots => req[k].pc = "done" /\ req'[k].pc = "done"
  BY DoneStays, Zenon DEF Dead, At
<1>3. k \in DOMAIN rows'.keys => k \in DOMAIN rows.keys
  BY <1>1, <1>2, Zenon DEF Aging, Born, At
<1>4. ASSUME k \in DOMAIN rows'.keys PROVE Inactive(rows'.keys[k], clock')
  <2>1. KeyRow(rows.keys[k])
    BY <1>3, <1>4, Zenon DEF RowShape
  <2>2. rows.keys[k].expires \in Int /\ rows.keys[k].retire \in Int
    BY <2>1, Zenon DEF KeyRow
  <2>3. Inactive(rows.keys[k], clock)
    BY <1>3, <1>4, Zenon DEF Dead
  <2> QED BY <1>1, <1>3, <1>4, <2>2, <2>3 DEF Aging, Inactive
<1> QED BY <1>2, <1>4, Zenon

\* The place of a request determines its step.
LEMMA StepAt ==
  ASSUME NEW s \in Slots, RequestStep(s)
  PROVE  /\ At(s, "keylookup") => KeyLookup(s)
         /\ At(s, "keycheck") => KeyCheck(s)
         /\ At(s, "verify") => TokenVerify(s)
         /\ At(s, "lookup") => MembershipLookup(s)
         /\ At(s, "consume") => Consume(s)
         /\ At(s, "store") => LoginStore(s)
         /\ At(s, "take") => CallbackTake(s)
         /\ At(s, "sign") => SignSession(s)
         /\ At(s, "respond") => Respond(s)
         /\ At(s, "sts") => CallSTS(s)
BY Zenon DEF RequestStep, KeyLookup, KeyCheck, RotateRetire, AdminCommit, Inspect, ProviderKey, FetchKeys, TokenVerify,
   ParseProof, CallSTS, CheckPrincipal, MembershipLookup, GuardPrecheck, Consume, LoginStore, LoginRedirect,
   CallbackTake, CallbackCode, SignSession, Respond, At

\* An exchange that begins with a dead key stays without a session.
LEMMA RevokedStep ==
  ASSUME Base, RowShape, Drafts, Revoked, [Next]_vars
  PROVE  Revoked'
<1>1. Requests /\ Base' /\ clock \in Nat /\ clock' \in Nat /\ clock' >= clock
  BY BaseStep, ClockSteps, Zenon DEF Base, Requests
<1>2. ASSUME NEW k, Dead(k)
      PROVE  (k \in DOMAIN rows'.keys => Inactive(rows'.keys[k], clock')) /\ (k \in Slots => req'[k].pc = "done")
  BY <1>2, DeadStays, Zenon
<1>3. ASSUME NEW x \in Slots, req'[x] = req[x] PROVE RevokedAt(x)'
  <2>1. RevokedAt(x)
    BY Zenon DEF Revoked
  <2>2. "live" \in DOMAIN req[x] /\ req[x].in.kind = "key" /\ ~req[x].live =>
          LET k == req[x].in.key IN
          (k \in DOMAIN rows'.keys => Inactive(rows'.keys[k], clock')) /\ (k \in Slots => req'[k].pc = "done")
    BY <1>2, <2>1 DEF RevokedAt
  <2>3. req[x].pc = "keycheck" => KeyRow(req[x].record) /\ (~req[x].live => Inactive(req[x].record, clock'))
    BY <1>1, <2>1, InactiveStays, Zenon DEF RevokedAt
  <2> QED BY <1>3, <2>1, <2>2, <2>3, Zenon DEF RevokedAt, Dead
<1>4. ASSUME NEW s \in Slots, RequestStep(s) PROVE Revoked'
  <2>1. Moved(s, Settable) /\ req'[s].in = req[s].in /\ RevokedAt(s)
    BY <1>1, <1>4, StepMoves, MovedFacts, Zenon DEF Revoked
  <2>2. /\ "live" \in DOMAIN req[s] => "live" \in DOMAIN req'[s]
        /\ "live" \in DOMAIN req'[s] => "live" \in DOMAIN req[s] /\ req'[s]["live"] = req[s]["live"]
    BY <2>1, Zenon DEF Moved, Settable, Recorded
  <2>3. ASSUME "live" \in DOMAIN req'[s], req'[s].in.kind = "key", ~req'[s].live
        PROVE  LET k == req'[s].in.key IN
               (k \in DOMAIN rows'.keys => Inactive(rows'.keys[k], clock')) /\ (k \in Slots => req'[k].pc = "done")
    <3> USE Zenon
    <3>1. Dead(req[s].in.key)
      BY <2>1, <2>2, <2>3 DEF RevokedAt
    <3> QED BY <1>2, <2>1, <3>1
  <2>4. ASSUME req'[s].pc = "keycheck"
        PROVE  KeyRow(req'[s].record) /\ (~req'[s].live => Inactive(req'[s].record, clock'))
    <3>1. req[s].pc = "keylookup" /\ KeyLookup(s) /\ req[s].in.kind = "key" /\ "live" \in DOMAIN req[s]
      BY <1>1, <1>4, <2>1, <2>4, StepAt, Zenon DEF Moved, Edges, At, Base, Placed, PlacedAt, Requests, Begun
    <3> DEFINE k == req[s].in.key
    <3>2. ~Refuse(s) /\ clock' = clock
      BY <1>1, <2>4, <3>1, AnswerFields, Zenon DEF Refuse, KeyLookup
    <3>3. k \in DOMAIN rows.keys /\ req'[s].record = rows.keys[k]
      <4>1. PICK m : k \in DOMAIN rows.keys /\ Keep(s, "keycheck", [record |-> rows.keys[k], member |-> m])
        BY <3>1, <3>2, Zenon DEF KeyLookup
      <4> QED BY <1>1, <4>1, KeepFields
    <3>4. ~req'[s].live => Dead(k)
      BY <2>1, <2>2, <3>1, Zenon DEF RevokedAt
    <3>5. KeyRow(rows.keys[k])
      BY <3>3, Zenon DEF RowShape
    <3> QED BY <3>2, <3>3, <3>4, <3>5, Zenon DEF Dead
  <2>5. ASSUME req'[s].pc \in {"sign", "respond"} \/ "token" \in DOMAIN req'[s], req'[s].in.kind = "key"
        PROVE  "live" \in DOMAIN req'[s] /\ req'[s].live
    <3>1. CASE req[s].pc \in {"sign", "respond"} \/ "token" \in DOMAIN req[s]
      BY <2>1, <2>2, <2>5, <3>1, Zenon DEF RevokedAt
    <3>2. CASE req[s].pc \notin {"sign", "respond"} /\ "token" \notin DOMAIN req[s]
      <4>1. \E fs : Moved(s, fs) /\ "token" \notin fs
        BY <1>1, <1>4, <3>2, Moves DEF RequestStep, SignSession, At
      <4>2. "token" \notin DOMAIN req'[s]
        BY <3>2, <4>1, Zenon DEF Moved
      <4>3. req[s].pc = "keycheck"
        BY <2>1, <2>5, <3>2, <4>2, Zenon DEF Moved, Edges, Base, Placed, PlacedAt, CloudProviders
      <4>4. KeyCheck(s) /\ "live" \in DOMAIN req[s]
        BY <1>1, <1>4, <4>3, StepAt, Zenon DEF At, Requests, Begun
      <4>5. ~Refuse(s)
        BY <1>1, <2>5, <4>2, AnswerFields, Zenon DEF Refuse
      <4>6. ActiveRecord(req[s].record)
        BY <4>4, <4>5, Zenon DEF KeyCheck
      <4>7. ~Inactive(req[s].record, clock)
        BY <1>1, <2>1, <4>3, <4>6 DEF RevokedAt, KeyRow, ActiveRecord, Inactive
      <4> QED BY <2>1, <2>2, <4>3, <4>4, <4>7, Zenon DEF RevokedAt
    <3> QED BY <3>1, <3>2, Zenon
  <2>6. RevokedAt(s)'
    BY <2>3, <2>4, <2>5, Zenon DEF RevokedAt, Dead
  <2>7. \A x \in Slots : x # s => req'[x] = req[x]
    BY <2>1, Zenon DEF Moved
  <2> QED BY <1>3, <2>6, <2>7, Zenon DEF Revoked
<1>5. ASSUME NEW s \in Slots, NEW in \in workload.inputs, Arrives(s, in) PROVE Revoked'
  <2>1. PICK v : Started(s, v) /\ v.in = in /\ DOMAIN v \subseteq ArrivalFields /\ v.pc \in Entrances
    BY <1>1, <1>5, Arrivals, Zenon
  <2>2. /\ \A x \in Slots : x # s => req'[x] = req[x]
        /\ req'[s].pc \notin {"keycheck", "sign", "respond"} /\ "token" \notin DOMAIN req'[s] /\ req'[s].in = in
    BY <2>1, Zenon DEF Started, ArrivalFields, Entrances
  <2>3. ASSUME "live" \in DOMAIN req'[s], in.kind = "key", ~req'[s].live
        PROVE  (in.key \in DOMAIN rows'.keys => Inactive(rows'.keys[in.key], clock')) /\ (in.key \in Slots => req'[in.key].pc = "done")
    <3>1. PICK l : Admit(s, in, l)
      <4> USE Zenon
      <4>1. \A a, x, new : /\ "live" \notin DOMAIN Ended(in, a) /\ "live" \notin DOMAIN Called(in, a, x)
                           /\ "live" \notin DOMAIN AdminStarted(in, new)
        BY DEF Ended, Called, AdminStarted
      <4>2. \A a, x, new : ~Started(s, Ended(in, a)) /\ ~Started(s, Called(in, a, x)) /\ ~Started(s, AdminStarted(in, new))
        BY <2>3, <4>1 DEF Started
      <4> QED BY <1>1, <1>5, <4>2, Starts1 DEF Arrives
    <3>2. in.key \in Slots => req[in.key].pc = "done"
      BY <2>3, <3>1, Zenon DEF Admit, At
    <3>3. Started(s, Arrived(in, l, in.kind = "key" => Live(in.key), cookie))
      <4>1. ~Started(s, Ended(in, "limited"))
        BY <2>3 DEF Started, Ended
      <4> QED BY <1>1, <3>1, <4>1, Starts1, Zenon
    <3>4. req'[s].live = (in.kind = "key" => Live(in.key))
      BY <3>3 DEF Started, Arrived
    <3>5. in.key \in DOMAIN rows.keys => KeyRow(rows.keys[in.key])
      BY Zenon DEF RowShape
    <3>6. ~Live(in.key)
      BY <2>3, <3>4, Zenon
    <3>7. in.key \in DOMAIN rows.keys => Inactive(rows.keys[in.key], clock)
      BY <1>1, <3>5, <3>6 DEF Live, Inactive, KeyRow
    <3> QED BY <1>2, <3>2, <3>7, Zenon DEF Dead
  <2>4. RevokedAt(s)'
    BY <2>2, <2>3, Zenon DEF RevokedAt, Dead
  <2> QED BY <1>3, <2>2, <2>4, Zenon DEF Revoked
<1>6. CASE Tick \/ UNCHANGED vars
  <2> USE Zenon
  <2>1. \A x \in Slots : req'[x] = req[x]
    BY <1>6 DEF Tick, vars
  <2> QED BY <1>3, <2>1 DEF Revoked
<1> QED BY <1>4, <1>5, <1>6, Cases, Zenon

\* Only Respond hands out a session.
LEMMA NoOtherSession ==
  ASSUME Requests, NEW s \in Slots, RequestStep(s), ~Respond(s), req'[s].pc = "done"
  PROVE  req'[s].answer # "session"
<1>1. ASSUME NEW a, a # "session", Answer(s, a) PROVE req'[s].answer # "session"
  BY <1>1, AnswerFields, Zenon
<1>2. ASSUME NEW pc, NEW more, pc # "done", Keep(s, pc, more) PROVE FALSE
  <2> USE Zenon
  <2>1. req'[s].pc = pc
    BY <1>2 DEF Keep, Requests
  <2> QED BY <1>2, <2>1
<1>3. ASSUME NEW pc, pc # "done", Goto(s, pc) PROVE FALSE
  BY <1>2, <1>3, Zenon DEF Goto
<1>4. Refuse(s) => req'[s].answer # "session"
  BY <1>1, Zenon DEF Refuse
<1>5. KeyLookup(s) \/ KeyCheck(s) \/ RotateRetire(s) \/ AdminCommit(s) => req'[s].answer # "session"
  BY <1>1, <1>2, <1>3, <1>4, Zenon DEF KeyLookup, KeyCheck, RotateRetire, AdminCommit
<1>6. Inspect(s) \/ ProviderKey(s) \/ FetchKeys(s) => req'[s].answer # "session"
  BY <1>1, <1>2, <1>3, <1>4, Zenon DEF Inspect, ProviderKey, FetchKeys
<1>7. TokenVerify(s) \/ ParseProof(s) \/ CallSTS(s) \/ CheckPrincipal(s) => req'[s].answer # "session"
  BY <1>1, <1>2, <1>3, <1>4, Zenon DEF TokenVerify, ParseProof, CallSTS, CheckPrincipal
<1>8. MembershipLookup(s) \/ GuardPrecheck(s) \/ Consume(s) => req'[s].answer # "session"
  BY <1>1, <1>2, <1>3, <1>4, Zenon DEF MembershipLookup, GuardPrecheck, Consume
<1>9. LoginStore(s) \/ LoginRedirect(s) \/ CallbackTake(s) \/ CallbackCode(s) \/ SignSession(s) => req'[s].answer # "session"
  BY <1>1, <1>2, <1>3, <1>4 DEF LoginStore, LoginRedirect, CallbackTake, CallbackCode, SignSession
<1> QED BY <1>5, <1>6, <1>7, <1>8, <1>9, Zenon DEF RequestStep

\* Sessions are signed before they are handed out, and trusted for their lifetime.
LEMMA SessionsStep ==
  ASSUME Base, Sessions, [Next]_vars
  PROVE  Sessions'
<1>1. Requests /\ Base' /\ clock \in Nat /\ \A x \in Slots : req[x].pc = "done" => req'[x] = req[x]
  BY BaseStep, DoneStays, Zenon DEF Base, Requests, At
<1>2. ASSUME NEW x \in Slots, req'[x] = req[x] PROVE SessionAt(x)'
  <2> USE Zenon
  <2>1. SessionAt(x)
    BY DEF Sessions
  <2>2. "by" \in DOMAIN req[x] => req'[req[x].by] = req[req[x].by]
    BY <1>1, <2>1 DEF SessionAt
  <2> QED BY <1>2, <2>1, <2>2 DEF SessionAt
<1>3. ASSUME NEW s \in Slots, RequestStep(s) PROVE Sessions'
  <2>1. Moved(s, Settable) /\ SessionAt(s)
    BY <1>1, <1>3, StepMoves, Zenon DEF Sessions
  <2>2. "by" \notin DOMAIN req'[s]
    BY <2>1, Zenon DEF Moved, Settable, SessionAt, Begun, Changing
  <2>3. "token" \in DOMAIN req[s] => "token" \in DOMAIN req'[s]
    BY <2>1, Zenon DEF Moved, Recorded
  <2>4. "token" \in DOMAIN req'[s] => req'[s].token.iat \in Int /\ req'[s].token.exp \in Int
    <3>1. CASE SignSession(s)
      <4> DEFINE t == IssuedSession(NewPrincipal(req[s].member), clock, SessionLife)
      <4>1. Refuse(s) \/ Keep(s, "respond", [token |-> t])
        BY <3>1, Zenon DEF SignSession
      <4>2. t.iat \in Int /\ t.exp \in Int
        BY <1>1, CredentialAssumptions DEF IssuedSession
      <4> HIDE DEF t
      <4>3. CASE Refuse(s)
        <5>1. "token" \in DOMAIN req'[s] => "token" \in DOMAIN req[s] /\ req'[s]["token"] = req[s]["token"]
          BY <1>1, <4>3, AnswerFields DEF Refuse
        <5> QED BY <2>1, <5>1, Zenon DEF SessionAt
      <4>4. CASE Keep(s, "respond", [token |-> t])
        <5>1. req'[s]["token"] = t
          BY <1>1, <4>4, KeepFields
        <5> QED BY <4>2, <5>1, Zenon
      <4> QED BY <4>1, <4>3, <4>4, Zenon
    <3>2. CASE ~SignSession(s)
      <4>1. \E fs : Moved(s, fs) /\ "token" \notin fs
        BY <1>1, <1>3, <3>2, Moves DEF RequestStep
      <4>2. "token" \in DOMAIN req'[s] => "token" \in DOMAIN req[s] /\ req'[s]["token"] = req[s]["token"]
        BY <4>1, Zenon DEF Moved
      <4> QED BY <2>1, <4>2, Zenon DEF SessionAt
    <3> QED BY <3>1, <3>2, Zenon
  <2>5. req'[s].pc = "respond" => "token" \in DOMAIN req'[s]
    <3>1. ASSUME req'[s].pc = "respond" PROVE "token" \in DOMAIN req'[s]
      <4>1. req[s].pc = "sign" /\ SignSession(s)
        BY <1>3, <2>1, <3>1, StepAt, Zenon DEF Moved, Edges, At
      <4>2. ~Refuse(s)
        BY <1>1, <3>1, AnswerFields, Zenon DEF Refuse
      <4>3. PICK t : Keep(s, "respond", [token |-> t])
        BY <4>1, <4>2, Zenon DEF SignSession
      <4> QED BY <1>1, <4>3, KeepFields
    <3> QED BY <3>1, Zenon
  <2>6. req'[s].pc = "done" /\ req'[s].answer = "session" => "token" \in DOMAIN req'[s]
    <3> USE Zenon
    <3>1. Respond(s) => req[s].pc = "respond"
      BY DEF Respond, At
    <3> QED BY <1>1, <1>3, <2>1, <2>3, <3>1, NoOtherSession DEF SessionAt
  <2>7. SessionAt(s)'
    BY <2>2, <2>4, <2>5, <2>6, Zenon DEF SessionAt
  <2>8. \A x \in Slots : x # s => req'[x] = req[x]
    BY <2>1, Zenon DEF Moved
  <2> QED BY <1>2, <2>7, <2>8, Zenon DEF Sessions
<1>4. ASSUME NEW s \in Slots, NEW in \in workload.inputs, Arrives(s, in) PROVE Sessions'
  <2>1. PICK v : Started(s, v) /\ DOMAIN v \subseteq ArrivalFields /\ v.pc \in Entrances
    BY <1>1, <1>4, Arrivals, Zenon
  <2>2. /\ \A x \in Slots : x # s => req'[x] = req[x]
        /\ req'[s].pc # "respond" /\ "token" \notin DOMAIN req'[s] /\ req[s].pc = "idle"
    BY <2>1, Zenon DEF Started, ArrivalFields, Entrances
  <2>3. CASE \E x \in Slots : Call(s, in, x)
    <3>1. PICK x \in Slots : Call(s, in, x)
      BY <2>3, Zenon
    <3>2. req[x].pc = "done" /\ x # s /\ req[x].answer = "session" /\ req'[x] = req[x]
      BY <2>2, <3>1, Zenon DEF Call, At
    <3>3. req[x].token.iat \in Int /\ req[x].token.exp \in Int
      BY <3>2, Zenon DEF Sessions, SessionAt
    <3> DEFINE ok == SessionOK(req[x].token, clock, Leeway, SessionLife) /\ Scope(req[x].token.members, in.ws) # {}
               c == [pc |-> "done", in |-> in, answer |-> IF ok THEN "accepted" ELSE "refused", by |-> x, begun |-> clock]
    <3>4. req'[s] = c
      BY <1>1, <3>1, Zenon DEF Call, Requests
    <3>5. /\ c.pc = "done" /\ c.by = x /\ c.begun = clock /\ c.answer \in {"accepted", "refused"}
          /\ c.answer = "accepted" => SessionOK(req[x].token, clock, Leeway, SessionLife)
      BY Zenon
    <3> HIDE DEF c, ok
    <3>6. c.answer = "accepted" => clock < req[x].token.iat + SessionLife + Leeway
      <4>1. SessionLife \in Int /\ Leeway \in Int
        BY CredentialAssumptions DEF Minute
      <4> QED BY <1>1, <3>3, <3>5, <4>1 DEF SessionOK, InTime
    <3>7. SessionAt(s)'
      BY <2>2, <3>2, <3>4, <3>5, <3>6, Zenon DEF SessionAt
    <3> QED BY <1>2, <2>2, <3>7, Zenon DEF Sessions
  <2>4. CASE ~\E x \in Slots : Call(s, in, x)
    <3>1. "by" \notin DOMAIN req'[s] /\ (req'[s].pc = "done" => req'[s].answer # "session")
      <4>1. \A w : /\ w = Ended(in, "limited") \/ w = Ended(in, "refused") \/ w = Ended(in, "ok") =>
                        "by" \notin DOMAIN w /\ w.answer # "session"
        BY DEF Ended
      <4>2. in.kind \in DOMAIN FirstStep =>
              \A l, live, k : "by" \notin DOMAIN Arrived(in, l, live, k) /\ Arrived(in, l, live, k).pc # "done"
        BY DEF Arrived, FirstStep
      <4>3. in.kind \in {"issue", "rotate", "revoke", "bind"} =>
              \A new : "by" \notin DOMAIN AdminStarted(in, new) /\ AdminStarted(in, new).pc # "done"
        BY Zenon DEF AdminStarted
      <4>4. \E w : /\ Started(s, w)
                   /\ "by" \notin DOMAIN w /\ (w.pc = "done" => w.answer # "session")
        BY <1>1, <1>4, <2>4, <4>1, <4>2, <4>3, Starts1 DEF Arrives
      <4> QED BY <4>4, Zenon DEF Started
    <3>2. SessionAt(s)'
      BY <2>2, <3>1, Zenon DEF SessionAt
    <3> QED BY <1>2, <2>2, <3>2, Zenon DEF Sessions
  <2> QED BY <2>3, <2>4, Zenon
<1>5. CASE Tick \/ UNCHANGED vars
  <2> USE Zenon
  <2>1. \A x \in Slots : req'[x] = req[x]
    BY <1>5 DEF Tick, vars
  <2> QED BY <1>2, <2>1 DEF Sessions
<1> QED BY <1>3, <1>4, <1>5, Cases, Zenon

\* A rotation finds its key without a successor and leaves it with one.
LEMMA SuccessorsStep ==
  ASSUME Base, RowShape, Drafts, Successors, [Next]_vars
  PROVE  Successors'
<1>1. /\ Aging /\ \A x \in Slots : req[x].pc = "done" => req'[x] = req[x]
      /\ \A k \in DOMAIN rows.keys \intersect Slots : req[k].pc = "done"
      /\ \A x \in Slots : x # Never
  BY RowStep, DoneStays, CredentialAssumptions DEF At, RowShape, Never
<1>2. ASSUME NEW s \in Slots, s \in DOMAIN rows'.keys, req'[s].in.kind = "rotate"
      PROVE  /\ req'[s].in = req[s].in
             /\ req[s].in.key \in Slots => req'[req[s].in.key].pc = "done"
             /\ req[s].in.key \in DOMAIN rows'.keys =>
                  rows'.keys[req[s].in.key].by = s /\ rows'.keys[req[s].in.key].retire # Never
  <2>1. CASE s \in DOMAIN rows.keys
    <3>1. /\ req'[s] = req[s] /\ req[s].in.kind = "rotate"
          /\ req[s].in.key \in Slots => req[req[s].in.key].pc = "done" /\ req'[req[s].in.key].pc = "done"
          /\ req[s].in.key \in DOMAIN rows.keys =>
               rows.keys[req[s].in.key].by = s /\ rows.keys[req[s].in.key].retire # Never
      BY <1>1, <1>2, <2>1 DEF Successors, At
    <3>2. req[s].in.key \in DOMAIN rows'.keys => req[s].in.key \in DOMAIN rows.keys
      BY <1>1, <3>1, Zenon DEF Aging, Born, At
    <3> QED BY <1>1, <3>1, <3>2, Zenon DEF Aging
  <2>2. CASE s \notin DOMAIN rows.keys
    BY <1>1, <1>2, <2>2 DEF Aging, Born
  <2> QED BY <2>1, <2>2, Zenon
<1>3. ASSUME NEW s \in Slots, s \in DOMAIN rows'.keys, req'[s].in.kind = "rotate",
             NEW x \in Slots, x \in DOMAIN rows'.keys, req'[x].in.kind = "rotate", req'[x].in.key = req'[s].in.key
      PROVE  x = s
  <2>1. \A y \in {s, x} : req'[y].in = req[y].in
    BY <1>2, <1>3, Zenon
  <2>2. CASE s \in DOMAIN rows.keys /\ x \in DOMAIN rows.keys
    BY <1>3, <2>1, <2>2, Zenon DEF Successors
  <2>3. CASE s \notin DOMAIN rows.keys
    <3>1. req[s].in.key \in DOMAIN rows.keys /\ rows.keys[req[s].in.key].by = Never /\ req[s].in.key \in DOMAIN rows'.keys
      BY <1>1, <1>3, <2>1, <2>3, Zenon DEF Aging, Born
    <3> QED BY <1>2, <1>3, <2>1, <3>1
  <2>4. CASE x \notin DOMAIN rows.keys
    <3>1. req[x].in.key \in DOMAIN rows.keys /\ rows.keys[req[x].in.key].by = Never /\ req[x].in.key \in DOMAIN rows'.keys
      BY <1>1, <1>3, <2>1, <2>4 DEF Aging, Born
    <3> QED BY <1>2, <1>3, <2>1, <3>1
  <2> QED BY <2>2, <2>3, <2>4, Zenon
<1> QED BY <1>2, <1>3 DEF Successors, At

KeyTableInv == Base /\ RowShape /\ Drafts /\ Revoked /\ Sessions /\ Successors

\* Nothing has been signed or rotated at the start.
LEMMA KeyTableInit == Init => KeyTableInv
<1> SUFFICES ASSUME Init PROVE KeyTableInv
  BY Zenon
<1>1. Base /\ \A s \in Slots : req[s] = NoRequest
  BY BaseInit, Zenon DEF Init
<1>2. \A s \in Slots : req[s].pc = "idle" /\ DOMAIN req[s] = {"pc"}
  BY <1>1 DEF NoRequest
<1>3. rows = Rows0 /\ DOMAIN rows.keys \intersect Slots = {}
  BY RowAssumptions, Zenon DEF Init
<1>4. RowShape
  BY <1>3, RowAssumptions, Zenon DEF RowShape, KeyRow, KeyFields
<1>5. Drafts /\ Revoked /\ Sessions
  BY <1>2 DEF Drafts, Revoked, RevokedAt, Sessions, SessionAt, At, Changing
<1> QED BY <1>1, <1>3, <1>4, <1>5, Zenon DEF KeyTableInv, Successors

\* For any interleaving of exchanges, rotations, revocations and removals: no exchange that began with a key
\* that was revoked, retired, expired or gone signs a session, and no session outlives its lifetime.
THEOREM RevocationIsKept == Spec => []RevocationHolds
<1>1. KeyTableInv /\ [Next]_vars => KeyTableInv'
  BY BaseStep, RowStep, DraftsStep, RevokedStep, SessionsStep, SuccessorsStep, Zenon DEF KeyTableInv
<1>2. KeyTableInv => RevocationHolds
  BY Zenon DEF KeyTableInv, Revoked, RevokedAt, Sessions, SessionAt, RevocationHolds, Signed, Has
<1> QED BY <1>1, <1>2, KeyTableInit, PTL DEF Spec

\* For any number of concurrent rotations: a key gets at most one successor, is retired with it and names it
\* (RotateAPIKey).
THEOREM KeysHaveOneSuccessor == Spec => []OneSuccessor
<1>1. KeyTableInv /\ [Next]_vars => KeyTableInv'
  BY BaseStep, RowStep, DraftsStep, RevokedStep, SessionsStep, SuccessorsStep, Zenon DEF KeyTableInv
<1>2. KeyTableInv => OneSuccessor
  BY Zenon DEF KeyTableInv, Successors, OneSuccessor
<1> QED BY <1>1, <1>2, KeyTableInit, PTL DEF Spec

-----------------------------------------------------------------------------
(***************************************************************************)
(* Proofs and logins.                                                      *)
(***************************************************************************)
Kept(d, expiry) == expiry <= clock \/ (d \in DOMAIN guard /\ guard[d] = expiry)

ProofAt(s) ==
  /\ "principal" \in DOMAIN req[s] =>
       req[s].pc # "idle" /\ req[s].in.kind \in CloudProviders /\ req[s].principal.exp = ProofExpiry(req[s].in)
  /\ req[s].pc \in {"principal", "precheck", "consume"} => "principal" \in DOMAIN req[s]
  /\ req[s].pc = "lookup" /\ req[s].in.kind \in CloudProviders => "principal" \in DOMAIN req[s]
  /\ "spentAt" \in DOMAIN req[s] =>
       "principal" \in DOMAIN req[s] /\ req[s].spentAt \in Nat /\ Kept(ProofId(req[s].in), ProofExpiry(req[s].in))

Proofs == (\A d \in DOMAIN guard : guard[d] \in Int) /\ (\A s \in Slots : ProofAt(s)) /\ ProofSpentOnce

\* What a digest stands for.
LEMMA Digests ==
  ASSUME Base, NEW s \in Slots, req[s].pc # "idle", req[s].in.kind \in CloudProviders
  PROVE  /\ ProofExpiry(req[s].in) \in Int
         /\ \A x \in Slots : req[x].pc # "idle" /\ req[x].in.kind \in CloudProviders /\ ProofId(req[x].in) = ProofId(req[s].in)
                               => ProofExpiry(req[x].in) = ProofExpiry(req[s].in)
<1> USE Zenon
<1>1. workload \in Workloads /\ \A x \in Slots : req[x].pc # "idle" => req[x].in \in workload.inputs
  BY DEF Base, Requests
<1> QED BY <1>1, WorkloadAssumptions

\* The replay guard and the logins change in their own steps only.
LEMMA GuardFrame ==
  ASSUME NEW s \in Slots
  PROVE  /\ RequestStep(s) /\ ~Consume(s) => guard' = guard
         /\ RequestStep(s) /\ ~LoginStore(s) /\ ~LoginRedirect(s) /\ ~CallbackTake(s) => logins' = logins
         /\ \A in : Arrives(s, in) => UNCHANGED <<guard, logins>>
<1> USE Zenon
<1>1. RequestStep(s) /\ ~Consume(s) => guard' = guard
  BY DEF RequestStep, KeyLookup, KeyCheck, RotateRetire, AdminCommit, Inspect, ProviderKey, FetchKeys, TokenVerify,
     ParseProof, CallSTS, CheckPrincipal, MembershipLookup, GuardPrecheck, LoginStore, LoginRedirect,
     CallbackTake, CallbackCode, SignSession, Respond
<1>2. RequestStep(s) /\ ~LoginStore(s) /\ ~LoginRedirect(s) /\ ~CallbackTake(s) => logins' = logins
  BY DEF RequestStep, KeyLookup, KeyCheck, RotateRetire, AdminCommit, Inspect, ProviderKey, FetchKeys, TokenVerify,
     ParseProof, CallSTS, CheckPrincipal, MembershipLookup, GuardPrecheck, Consume, CallbackCode, SignSession, Respond
<1>3. \A in : Arrives(s, in) => UNCHANGED <<guard, logins>>
  BY DEF Arrives, Admit, Call, AdminBegin, ChangeMembership, Withdraw
<1> QED BY <1>1, <1>2, <1>3

\* The principal of a proof has the proof's expiry, and an unbound kind of token has none.
LEMMA Principals ==
  ASSUME Base, NEW s \in Slots, RequestStep(s)
  PROVE  /\ "principal" \in DOMAIN req'[s] => \/ "principal" \in DOMAIN req[s] /\ req'[s].principal = req[s].principal
                                              \/ /\ req[s].in.kind \in CloudProviders
                                                 /\ req'[s].principal.exp = ProofExpiry(req[s].in)
         /\ req'[s].pc = "principal" => "principal" \in DOMAIN req'[s]
         /\ At(s, "verify") /\ req'[s].pc = "lookup" => req[s].in.kind \in {"oidc", "callback"}
<1>1. Requests /\ PlacedAt(req[s].pc, req[s].in.kind)
  BY Zenon DEF Base, Placed
<1>2. ASSUME NEW c, Keep(s, "principal", [principal |-> c]) PROVE req'[s].principal = c /\ "principal" \in DOMAIN req'[s]
                                                             /\ req'[s].pc = "principal"
  BY <1>1, <1>2, KeepFields
<1>3. Refuse(s) => /\ "principal" \in DOMAIN req'[s] => "principal" \in DOMAIN req[s] /\ req'[s]["principal"] = req[s]["principal"]
                   /\ req'[s].pc = "done"
  BY <1>1, AnswerFields DEF Refuse
<1>4. CASE TokenVerify(s)
  <2> DEFINE in == req[s].in
             p == Providers[ProviderOf(in)]
             principal == IF in.kind = "gcp" THEN VerifyGoogle(Token(s), p, clock) ELSE VerifyEntra(Token(s), p, clock)
  <2>1. req[s].pc = "verify" /\ in.kind \in TokenKinds
    BY <1>1, <1>4, Zenon DEF TokenVerify, At, PlacedAt
  <2>2. CASE in.kind \in {"oidc", "callback"}
    <3> USE Zenon
    <3>1. Goto(s, "lookup") \/ Refuse(s)
      BY <1>4, <2>2 DEF TokenVerify
    <3>2. CASE Goto(s, "lookup")
      <4>1. /\ "principal" \in DOMAIN req'[s] => "principal" \in DOMAIN req[s] /\ req'[s]["principal"] = req[s]["principal"]
            /\ req'[s].pc = "lookup"
        BY <1>1, <3>2, GotoFields
      <4> QED BY <2>2, <4>1
    <3> QED BY <1>3, <2>2, <3>1, <3>2
  <2>3. CASE in.kind \notin {"oidc", "callback"}
    <3>1. in.kind \in {"gcp", "azure"} /\ in.kind \in CloudProviders /\ ProofExpiry(in) = in.token.exp /\ Token(s) = in.token
      BY <2>1, <2>3, Zenon DEF TokenKinds, CloudProviders, ProofExpiry, Token
    <3>2. Refuse(s) \/ \E c \in principal : Keep(s, "principal", [principal |-> c])
      BY <1>4, <2>3, Zenon DEF TokenVerify
    <3>3. \A c \in principal : c.exp = in.token.exp
      BY <3>1 DEF VerifyGoogle, VerifyEntra, CloudPrincipal
    <3> HIDE DEF principal
    <3>4. CASE \E c \in principal : Keep(s, "principal", [principal |-> c])
      BY <1>2, <3>1, <3>3, <3>4, Zenon
    <3> QED BY <1>3, <3>2, <3>4, Zenon
  <2> QED BY <2>2, <2>3, Zenon
<1>5. CASE CallSTS(s)
  <2> DEFINE in == req[s].in
             principal == NormalizeAWS(in.proof, in.proof.answer, STS)
  <2>1. req[s].pc = "sts" /\ in.kind = "aws" /\ in.kind \in CloudProviders /\ ProofExpiry(in) = in.proof.exp
    BY <1>1, <1>5, Zenon DEF CallSTS, At, PlacedAt, CloudProviders, ProofExpiry
  <2>2. Refuse(s) \/ \E c \in principal : Keep(s, "principal", [principal |-> c])
    BY <1>5, Zenon DEF CallSTS
  <2>3. \A c \in principal : c.exp = in.proof.exp
    BY DEF NormalizeAWS, CloudPrincipal
  <2> HIDE DEF principal
  <2>4. CASE \E c \in principal : Keep(s, "principal", [principal |-> c])
    BY <1>2, <2>1, <2>3, <2>4, Zenon DEF At
  <2> QED BY <1>3, <2>1, <2>2, <2>4, Zenon DEF At
<1>6. CASE ~TokenVerify(s) /\ ~CallSTS(s)
  <2>1. \E fs : Moved(s, fs) /\ "principal" \notin fs
    BY <1>1, <1>6, Moves DEF RequestStep
  <2>2. "principal" \in DOMAIN req'[s] => "principal" \in DOMAIN req[s] /\ req'[s]["principal"] = req[s]["principal"]
    BY <2>1, Zenon DEF Moved
  <2>3. req[s].pc \notin {"verify", "sts"}
    BY <1>6, StepAt, Zenon DEF At
  <2>4. req'[s].pc # "principal"
    BY <2>1, <2>3, Zenon DEF Moved, Edges
  <2> QED BY <2>2, <2>3, <2>4, Zenon DEF At
<1> QED BY <1>4, <1>5, <1>6, Zenon

\* Consume forgets what has expired only, and does not overwrite.
LEMMA Consumed ==
  ASSUME Base, Proofs, NEW s \in Slots, Consume(s)
  PROVE  /\ \A d \in DOMAIN guard' : guard'[d] \in Int
         /\ \A d : \A e \in Int : Kept(d, e) => e <= clock \/ (d \in DOMAIN guard' /\ guard'[d] = e)
         /\ "spentAt" \in DOMAIN req'[s] =>
              \/ "spentAt" \in DOMAIN req[s] /\ req'[s]["spentAt"] = req[s]["spentAt"]
              \/ /\ req'[s].spentAt = clock /\ "principal" \in DOMAIN req'[s]
                 /\ ProofId(req[s].in) \in DOMAIN guard' /\ guard'[ProofId(req[s].in)] = ProofExpiry(req[s].in)
                 /\ ProofId(req[s].in) \in DOMAIN guard => guard[ProofId(req[s].in)] <= clock
<1> DEFINE g == Purged(guard)
           d1 == ProofId(req[s].in)
<1>1. Requests /\ clock \in Nat /\ req[s].pc = "consume" /\ ProofAt(s) /\ \A d \in DOMAIN guard : guard[d] \in Int
  BY Zenon DEF Base, Requests, Consume, At, Proofs
<1>2. req[s].principal.exp = ProofExpiry(req[s].in) /\ ProofExpiry(req[s].in) \in Int /\ "principal" \in DOMAIN req[s]
  BY <1>1, Digests, Zenon DEF ProofAt
<1>3. /\ DOMAIN g = {d \in DOMAIN guard : ~(guard[d] <= clock)}
      /\ \A d \in DOMAIN g : g[d] = guard[d]
  BY Zenon DEF Purged, Without
<1>4. \/ guard' = g /\ Refuse(s)
      \/ d1 \notin DOMAIN g /\ guard' = With(g, d1, req[s].principal.exp) /\ Keep(s, "sign", [spentAt |-> clock])
  BY Zenon DEF Consume
<1> HIDE DEF g, d1
<1>5. CASE guard' = g /\ Refuse(s)
  <2>1. "spentAt" \in DOMAIN req'[s] => "spentAt" \in DOMAIN req[s] /\ req'[s]["spentAt"] = req[s]["spentAt"]
    BY <1>1, <1>5, AnswerFields DEF Refuse
  <2> QED BY <1>1, <1>3, <1>5, <2>1, Zenon DEF Kept
<1>6. CASE d1 \notin DOMAIN g /\ guard' = With(g, d1, req[s].principal.exp) /\ Keep(s, "sign", [spentAt |-> clock])
  <2>1. req'[s].spentAt = clock /\ "principal" \in DOMAIN req'[s]
    BY <1>1, <1>2, <1>6, KeepFields
  <2>2. /\ DOMAIN guard' = DOMAIN g \union {d1} /\ guard'[d1] = ProofExpiry(req[s].in)
        /\ \A d \in DOMAIN g : guard'[d] = g[d]
    BY <1>2, <1>6, Zenon DEF With
  <2>3. d1 \in DOMAIN guard => guard[d1] <= clock
    BY <1>3, <1>6, Zenon
  <2>4. \A d \in DOMAIN guard' : guard'[d] \in Int
    BY <1>1, <1>2, <1>3, <2>2, Zenon
  <2>5. \A d : \A e \in Int : Kept(d, e) => e <= clock \/ (d \in DOMAIN guard' /\ guard'[d] = e)
    BY <1>1, <1>3, <2>2, Zenon DEF Kept
  <2> QED BY <2>1, <2>2, <2>3, <2>4, <2>5, Zenon DEF d1
<1> QED BY <1>4, <1>5, <1>6, Zenon

\* A digest stays until the proof expires.
LEMMA ProofsStep ==
  ASSUME Base, Proofs, [Next]_vars
  PROVE  Proofs'
<1>1. /\ Requests /\ Base' /\ clock \in Nat /\ clock' \in Nat /\ clock' >= clock
      /\ (\A x \in Slots : ProofAt(x)) /\ ProofSpentOnce /\ \A d \in DOMAIN guard : guard[d] \in Int
  BY BaseStep, ClockSteps, Zenon DEF Base, Requests, Proofs
<1>2. ASSUME NEW x \in Slots, "spentAt" \in DOMAIN req[x]
      PROVE  /\ req[x].pc # "idle" /\ req[x].in.kind \in CloudProviders /\ ProofExpiry(req[x].in) \in Int
             /\ req[x].spentAt \in Nat /\ Kept(ProofId(req[x].in), ProofExpiry(req[x].in))
             /\ req[x].principal.exp = ProofExpiry(req[x].in)
  <2> USE Zenon
  <2>1. /\ req[x].pc # "idle" /\ req[x].in.kind \in CloudProviders /\ req[x].spentAt \in Nat
        /\ Kept(ProofId(req[x].in), ProofExpiry(req[x].in)) /\ req[x].principal.exp = ProofExpiry(req[x].in)
    BY <1>1, <1>2 DEF ProofAt
  <2> QED BY <2>1, Digests
<1>3. ASSUME \A d \in DOMAIN guard' : guard'[d] \in Int,
             \A d : \A e \in Int : Kept(d, e) => e <= clock' \/ (d \in DOMAIN guard' /\ guard'[d] = e),
             NEW s \in Slots, \A x \in Slots : x # s => req'[x] = req[x],
             ProofAt(s)',
             "spentAt" \in DOMAIN req'[s] =>
               /\ req'[s].in = req[s].in
               /\ \/ "spentAt" \in DOMAIN req[s] /\ req'[s].spentAt = req[s].spentAt
                  \/ /\ req[s].pc # "idle" /\ req'[s].spentAt = clock
                     /\ ProofId(req[s].in) \in DOMAIN guard => guard[ProofId(req[s].in)] <= clock
      PROVE  Proofs'
  <2>1. ASSUME NEW x \in Slots, x # s PROVE ProofAt(x)'
    <3>1. ProofAt(x) /\ req'[x] = req[x]
      BY <1>1, <1>3, <2>1, Zenon
    <3>2. "spentAt" \in DOMAIN req[x] =>
            LET d == ProofId(req[x].in)
                e == ProofExpiry(req[x].in)
            IN e <= clock' \/ (d \in DOMAIN guard' /\ guard'[d] = e)
      BY <1>2, <1>3, Zenon
    <3> QED BY <3>1, <3>2 DEF ProofAt, Kept
  <2>2. \A x \in Slots : ProofAt(x)'
    BY <1>3, <2>1, Zenon
  <2>3. \A x \in Slots : "spentAt" \in DOMAIN req'[x] =>
          /\ req'[x].in = req[x].in /\ req'[x].principal.exp = ProofExpiry(req[x].in)
          /\ req[x].pc # "idle" /\ req[x].in.kind \in CloudProviders
    <3> USE Zenon
    <3>1. \A x \in Slots : "spentAt" \in DOMAIN req'[x] =>
            "principal" \in DOMAIN req'[x] /\ req'[x].principal.exp = ProofExpiry(req'[x].in) /\ req'[x].in.kind \in CloudProviders
      BY <2>2 DEF ProofAt
    <3> QED BY <1>2, <1>3, <3>1
  <2>4. ASSUME NEW x \in Slots, NEW y \in Slots, x # y, "spentAt" \in DOMAIN req[x], "spentAt" \in DOMAIN req[y],
               ProofId(req[x].in) = ProofId(req[y].in)
        PROVE  req[x].spentAt >= ProofExpiry(req[x].in) \/ req[y].spentAt >= ProofExpiry(req[x].in)
    BY <1>1, <1>2, <2>4, Zenon DEF ProofSpentOnce, Has
  <2>5. ASSUME NEW x \in Slots, x # s, "spentAt" \in DOMAIN req[x], "spentAt" \in DOMAIN req'[s], req'[s].spentAt = clock,
               ProofId(req[x].in) = ProofId(req[s].in), ProofId(req[s].in) \in DOMAIN guard => guard[ProofId(req[s].in)] <= clock
        PROVE  req'[s].spentAt >= ProofExpiry(req[x].in) /\ req'[s].spentAt >= ProofExpiry(req[s].in)
    <3> USE Zenon
    <3>1. ProofExpiry(req[x].in) \in Int /\ ProofExpiry(req[x].in) = ProofExpiry(req[s].in)
      BY <1>2, <2>3, <2>5, Digests
    <3>2. ProofExpiry(req[x].in) <= clock
      BY <1>2, <2>5 DEF Kept
    <3> QED BY <1>1, <2>5, <3>1, <3>2
  <2>6. ASSUME NEW x \in Slots, NEW y \in Slots, x # y, "spentAt" \in DOMAIN req'[x], "spentAt" \in DOMAIN req'[y],
               ProofId(req'[x].in) = ProofId(req'[y].in)
        PROVE  req'[x].spentAt >= req'[x].principal.exp \/ req'[y].spentAt >= req'[x].principal.exp
    <3> USE Zenon
    <3>1. /\ req'[x].in = req[x].in /\ req'[y].in = req[y].in /\ req'[x].principal.exp = ProofExpiry(req[x].in)
          /\ \A z \in {x, y} : z = s \/ ("spentAt" \in DOMAIN req[z] /\ req'[z].spentAt = req[z].spentAt)
      BY <1>3, <2>3, <2>6
    <3>2. CASE \A z \in {x, y} : "spentAt" \in DOMAIN req[z] /\ req'[z].spentAt = req[z].spentAt
      BY <2>4, <2>6, <3>1, <3>2
    <3>3. CASE ~ \A z \in {x, y} : "spentAt" \in DOMAIN req[z] /\ req'[z].spentAt = req[z].spentAt
      <4>1. /\ "spentAt" \in DOMAIN req'[s] /\ req'[s].spentAt = clock
            /\ ProofId(req[s].in) \in DOMAIN guard => guard[ProofId(req[s].in)] <= clock
        BY <1>3, <2>6, <3>1, <3>3
      <4>2. CASE x = s
        BY <2>5, <2>6, <3>1, <4>1, <4>2
      <4>3. CASE y = s
        BY <2>5, <2>6, <3>1, <4>1, <4>3
      <4> QED BY <3>1, <3>3, <4>2, <4>3
    <3> QED BY <3>2, <3>3
  <2>7. ProofSpentOnce'
    BY <2>6, Zenon DEF ProofSpentOnce, Has
  <2> QED BY <1>3, <2>2, <2>7, Zenon DEF Proofs
<1>4. \A d : \A e \in Int : guard' = guard /\ Kept(d, e) => e <= clock' \/ (d \in DOMAIN guard' /\ guard'[d] = e)
  BY <1>1 DEF Kept
<1>5. ASSUME NEW s \in Slots, RequestStep(s) PROVE Proofs'
  <2>1. Moved(s, Settable) /\ req'[s].in = req[s].in /\ ProofAt(s) /\ clock' = clock
    BY <1>1, <1>5, StepMoves, MovedFacts, ClockSteps, ZenonT(30) DEF RequestStep, KeyLookup, KeyCheck, RotateRetire, AdminCommit,
       Inspect, ProviderKey, FetchKeys, TokenVerify, ParseProof, CallSTS, CheckPrincipal, MembershipLookup, GuardPrecheck,
       Consume, LoginStore, LoginRedirect, CallbackTake, CallbackCode, SignSession, Respond
  <2>2. /\ \A d \in DOMAIN guard' : guard'[d] \in Int
        /\ \A d : \A e \in Int : Kept(d, e) => e <= clock' \/ (d \in DOMAIN guard' /\ guard'[d] = e)
        /\ "spentAt" \in DOMAIN req'[s] =>
              \/ "spentAt" \in DOMAIN req[s] /\ req'[s]["spentAt"] = req[s]["spentAt"]
              \/ /\ req'[s].spentAt = clock /\ "principal" \in DOMAIN req'[s]
                 /\ ProofId(req[s].in) \in DOMAIN guard' /\ guard'[ProofId(req[s].in)] = ProofExpiry(req[s].in)
                 /\ ProofId(req[s].in) \in DOMAIN guard => guard[ProofId(req[s].in)] <= clock
    <3>1. CASE Consume(s)
      BY <2>1, <3>1, Consumed, Zenon
    <3>2. CASE ~Consume(s)
      <4>1. \E fs : Moved(s, fs) /\ "spentAt" \notin fs
        BY <1>1, <1>5, <3>2, Moves DEF RequestStep
      <4>2. "spentAt" \in DOMAIN req'[s] => "spentAt" \in DOMAIN req[s] /\ req'[s]["spentAt"] = req[s]["spentAt"]
        BY <4>1, Zenon DEF Moved
      <4>3. guard' = guard
        BY <1>5, <3>2, GuardFrame, Zenon
      <4> QED BY <1>1, <1>4, <4>2, <4>3, Zenon
    <3> QED BY <3>1, <3>2, Zenon
  <2>3. /\ req[s].pc # "idle" /\ req'[s].pc # "idle"
        /\ req'[s].pc # "done" => <<req[s].pc, req'[s].pc>> \in Edges /\ DOMAIN req[s] \subseteq DOMAIN req'[s]
        /\ "principal" \in DOMAIN req[s] => "principal" \in DOMAIN req'[s]
    BY <2>1, Zenon DEF Moved, Begun, Changing, Edges, Recorded
  <2>4. "principal" \in DOMAIN req'[s] =>
          req'[s].pc # "idle" /\ req'[s].in.kind \in CloudProviders /\ req'[s].principal.exp = ProofExpiry(req'[s].in)
    BY <1>1, <1>5, <2>1, <2>3, Principals, Zenon DEF ProofAt
  <2>5. /\ req'[s].pc \in {"principal", "precheck", "consume"} => "principal" \in DOMAIN req'[s]
        /\ req'[s].pc = "lookup" /\ req'[s].in.kind \in CloudProviders => "principal" \in DOMAIN req'[s]
    <3> USE Zenon
    <3>1. req'[s].pc = "principal" => "principal" \in DOMAIN req'[s]
      BY <1>1, <1>5, Principals
    <3>2. req'[s].pc = "consume" => "principal" \in DOMAIN req'[s]
      BY <2>1, <2>3 DEF Edges, ProofAt
    <3>3. req'[s].pc = "precheck" => "principal" \in DOMAIN req'[s]
      BY <1>5, <2>1, <2>3, MovedFacts DEF Edges, ProofAt
    <3>4. req'[s].pc = "lookup" /\ req'[s].in.kind \in CloudProviders => "principal" \in DOMAIN req'[s]
      BY <1>1, <1>5, <2>1, <2>3, Principals DEF Edges, ProofAt, At, CloudProviders
    <3> QED BY <3>1, <3>2, <3>3, <3>4
  <2>6. "spentAt" \in DOMAIN req'[s] =>
          /\ "principal" \in DOMAIN req'[s] /\ req'[s].spentAt \in Nat
          /\ \/ ProofExpiry(req'[s].in) <= clock'
             \/ ProofId(req'[s].in) \in DOMAIN guard' /\ guard'[ProofId(req'[s].in)] = ProofExpiry(req'[s].in)
    <3> USE Zenon
    <3>1. CASE "spentAt" \in DOMAIN req[s] /\ req'[s]["spentAt"] = req[s]["spentAt"]
      BY <1>2, <2>1, <2>2, <2>3, <3>1 DEF ProofAt
    <3> QED BY <1>1, <2>1, <2>2, <3>1
  <2>7. ProofAt(s)'
    BY <2>4, <2>5, <2>6, Zenon DEF ProofAt, Kept
  <2>8. \A x \in Slots : x # s => req'[x] = req[x]
    BY <2>1, Zenon DEF Moved
  <2> QED BY <1>3, <2>1, <2>2, <2>3, <2>7, <2>8, ZenonT(30)
<1>6. ASSUME NEW s \in Slots, NEW in \in workload.inputs, Arrives(s, in) PROVE Proofs'
  <2> USE Zenon
  <2>1. PICK v : Started(s, v) /\ DOMAIN v \subseteq ArrivalFields /\ v.pc \in Entrances
    BY <1>1, <1>6, Arrivals
  <2>2. /\ \A x \in Slots : x # s => req'[x] = req[x]
        /\ req'[s].pc \notin {"principal", "precheck", "consume", "lookup"}
        /\ "principal" \notin DOMAIN req'[s] /\ "spentAt" \notin DOMAIN req'[s]
    BY <2>1 DEF Started, ArrivalFields, Entrances
  <2>3. guard' = guard
    BY <1>6, GuardFrame
  <2>4. ProofAt(s)'
    BY <2>2 DEF ProofAt
  <2> QED BY <1>1, <1>3, <1>4, <2>2, <2>3, <2>4
<1>7. CASE Tick \/ UNCHANGED vars
  <2> USE Zenon
  <2>1. UNCHANGED <<guard, req>>
    BY <1>7 DEF Tick, vars
  <2>2. ASSUME NEW x \in Slots PROVE ProofAt(x)'
    BY <1>1, <1>2, <1>4, <2>1 DEF ProofAt, Kept
  <2>3. ProofSpentOnce'
    BY <1>1, <2>1 DEF ProofSpentOnce, Has
  <2> QED BY <1>1, <2>1, <2>2, <2>3 DEF Proofs
<1> QED BY <1>5, <1>6, <1>7, Cases, Zenon

\* Where a callback has taken its login.
Within == {"code", "inspect", "key", "fetch", "verify", "lookup", "sign", "respond"}

LoginTable ==
  \A l \in DOMAIN logins :
    /\ l \in Slots /\ "expires" \in DOMAIN req[l] /\ req[l].pc # "idle"
    /\ logins[l].state = l /\ logins[l].ws = req[l].in.ws /\ logins[l].expires = req[l].expires

LoginAt(s) ==
  /\ "expires" \in DOMAIN req[s] => req[s].pc \in {"url", "done"}
  /\ "state" \in DOMAIN req[s] /\ req[s].in.kind = "callback" => req[s].state \in Slots /\ req[req[s].state].pc = "done"
  /\ req[s].pc \in Within /\ req[s].in.kind = "callback" =>
       {"takenAt", "ws"} \subseteq DOMAIN req[s] /\ req[s].ws = req[req[s].state].in.ws
  /\ "takenAt" \in DOMAIN req[s] =>
       /\ req[s].pc # "idle" /\ req[s].in.kind = "callback" /\ "state" \in DOMAIN req[s]
       /\ "expires" \in DOMAIN req[req[s].state] /\ req[s].state \notin DOMAIN logins
       /\ req[s].takenAt < req[req[s].state].expires
  /\ "token" \in DOMAIN req[s] \/ req[s].pc \in {"sign", "respond"} =>
       /\ req[s].pc # "idle"
       /\ req[s].in.kind = "callback" =>
            {"takenAt", "member"} \subseteq DOMAIN req[s] /\ req[s].member.ws = req[req[s].state].in.ws

Taker == \A s, x \in Slots :
           "takenAt" \in DOMAIN req[s] /\ "takenAt" \in DOMAIN req[x] /\ req[s].state = req[x].state => s = x

Logins == LoginTable /\ (\A s \in Slots : LoginAt(s)) /\ Taker

\* A request that does not change keeps its login.
LEMMA LoginFrame ==
  ASSUME Base, Logins, [Next]_vars, NEW s \in Slots, req'[s] = req[s],
         \A l \in DOMAIN logins' \ DOMAIN logins : req[l].pc # "done"
  PROVE  LoginAt(s)'
<1> USE Zenon
<1>1. LoginAt(s) /\ \A x \in Slots : req[x].pc = "done" => req'[x] = req[x]
  BY DoneStays DEF Logins, At
<1>2. "state" \in DOMAIN req[s] /\ req[s].in.kind = "callback" =>
        /\ req[s].state \in Slots /\ req[req[s].state].pc = "done" /\ req'[req[s].state] = req[req[s].state]
        /\ req[s].state \in DOMAIN logins' => req[s].state \in DOMAIN logins
  BY <1>1 DEF LoginAt
<1> QED BY <1>1, <1>2 DEF LoginAt

\* Steps of a request that do not touch the login it began or took.
LEMMA LoginMoves ==
  ASSUME Base, Logins, [Next]_vars, NEW s \in Slots, RequestStep(s), ~LoginStore(s), ~CallbackTake(s),
         req[s].in.kind = "callback" /\ "member" \in DOMAIN req'[s] =>
           \/ "member" \in DOMAIN req[s] /\ req'[s].member = req[s].member
           \/ At(s, "lookup") /\ req'[s].member.ws = req[s].ws,
         req[s].in.kind = "callback" /\ At(s, "lookup") /\ req'[s].pc = "sign" =>
           "member" \in DOMAIN req'[s] /\ req'[s].member.ws = req[s].ws,
         DOMAIN logins' \subseteq DOMAIN logins
  PROVE  LoginAt(s)'
<1>1. /\ LoginAt(s) /\ (\A x \in Slots : req[x].pc = "done" => req'[x] = req[x])
      /\ Moved(s, Settable) /\ req'[s].in = req[s].in /\ req[s].pc # "idle" /\ req[s].pc # "done" /\ req'[s].pc # "idle"
      /\ Requests /\ PlacedAt(req[s].pc, req[s].in.kind)
  BY DoneStays, StepMoves, MovedFacts, ZenonT(30) DEF Logins, At, Base, Placed, Moved, Begun, Changing, Edges
<1>2. \E fs : Moved(s, fs) /\ fs \intersect {"expires", "nonce", "ws", "takenAt"} = {}
  BY <1>1, Moves DEF RequestStep
<1>3. \A f \in {"expires", "ws", "takenAt"} :
        f \in DOMAIN req'[s] => f \in DOMAIN req[s] /\ req'[s][f] = req[s][f]
  BY <1>2, Zenon DEF Moved
<1>4. /\ "expires" \in DOMAIN req'[s] => "expires" \in DOMAIN req[s] /\ req'[s]["expires"] = req[s]["expires"]
      /\ "ws" \in DOMAIN req'[s] => "ws" \in DOMAIN req[s] /\ req'[s]["ws"] = req[s]["ws"]
      /\ "takenAt" \in DOMAIN req'[s] => "takenAt" \in DOMAIN req[s] /\ req'[s]["takenAt"] = req[s]["takenAt"]
      /\ "state" \in DOMAIN req'[s] => "state" \in DOMAIN req[s] /\ req'[s]["state"] = req[s]["state"]
      /\ "state" \in DOMAIN req[s] => "state" \in DOMAIN req'[s]
      /\ "takenAt" \in DOMAIN req[s] => "takenAt" \in DOMAIN req'[s]
      /\ "member" \in DOMAIN req[s] => "member" \in DOMAIN req'[s]
      /\ "ws" \in DOMAIN req[s] /\ req'[s].pc # "done" => "ws" \in DOMAIN req'[s]
  BY <1>1, <1>3, Zenon DEF Moved, Recorded, Settable
<1>5. "state" \in DOMAIN req[s] /\ req[s].in.kind = "callback" =>
        req[s].state \in Slots /\ req[req[s].state].pc = "done" /\ req'[req[s].state] = req[req[s].state]
  BY <1>1, Zenon DEF LoginAt
<1>6. "expires" \in DOMAIN req'[s] => req'[s].pc \in {"url", "done"}
  BY <1>1, <1>4, Zenon DEF LoginAt, Moved, Edges
<1>7. req'[s].pc \in Within /\ req[s].in.kind = "callback" => req[s].pc \in Within
  <2> USE Zenon
  <2>1. CASE req'[s].pc = "code"
    <3>1. req[s].pc # "take"
      BY StepAt DEF At
    <3> QED BY <1>1, <2>1, <3>1 DEF Moved, Edges
  <2>2. CASE req'[s].pc # "code"
    BY <1>1, <2>2 DEF Moved, Edges, Within, PlacedAt, CloudProviders
  <2> QED BY <2>1, <2>2
<1>8. req'[s].pc \in Within /\ req'[s].in.kind = "callback" =>
        {"takenAt", "ws"} \subseteq DOMAIN req'[s] /\ req'[s].ws = req'[req'[s].state].in.ws
  <2> USE Zenon
  <2>1. ASSUME req'[s].pc \in Within, req[s].in.kind = "callback"
        PROVE  {"takenAt", "ws"} \subseteq DOMAIN req'[s] /\ req'[s].ws = req'[req'[s].state].in.ws
    <3>1. /\ {"takenAt", "ws"} \subseteq DOMAIN req[s] /\ req[s].ws = req[req[s].state].in.ws /\ "state" \in DOMAIN req[s]
          /\ req'[s].pc # "done"
      BY <1>1, <1>7, <2>1 DEF LoginAt, Within
    <3> QED BY <1>4, <1>5, <2>1, <3>1
  <2> QED BY <1>1, <2>1
<1>9. "takenAt" \in DOMAIN req'[s] =>
       /\ req'[s].pc # "idle" /\ req'[s].in.kind = "callback" /\ "state" \in DOMAIN req'[s]
       /\ "expires" \in DOMAIN req'[req'[s].state] /\ req'[s].state \notin DOMAIN logins'
       /\ req'[s].takenAt < req'[req'[s].state].expires
  BY <1>1, <1>4, <1>5, Zenon DEF LoginAt
<1>10. ASSUME "token" \in DOMAIN req'[s] \/ req'[s].pc \in {"sign", "respond"}, req[s].in.kind = "callback"
       PROVE  {"takenAt", "member"} \subseteq DOMAIN req'[s] /\ req'[s].member.ws = req'[req'[s].state].in.ws
  <2>1. CASE "token" \in DOMAIN req[s] \/ req[s].pc \in {"sign", "respond"}
    <3> USE Zenon
    <3>1. /\ {"takenAt", "member"} \subseteq DOMAIN req[s] /\ req[s].member.ws = req[req[s].state].in.ws
          /\ "state" \in DOMAIN req[s]
      BY <1>1, <1>10, <2>1 DEF LoginAt
    <3>2. At(s, "lookup") => req[s].ws = req[req[s].state].in.ws
      BY <1>1, <1>10 DEF LoginAt, Within, At
    <3> QED BY <1>4, <1>5, <1>10, <3>1, <3>2
  <2>2. CASE "token" \notin DOMAIN req[s] /\ req[s].pc \notin {"sign", "respond"}
    <3>1. \E fs : Moved(s, fs) /\ "token" \notin fs
      BY <1>1, <2>2, Moves DEF RequestStep, SignSession, At
    <3>2. "token" \notin DOMAIN req'[s]
      BY <2>2, <3>1, Zenon DEF Moved
    <3>3. req[s].pc = "lookup" /\ req'[s].pc = "sign"
      BY <1>1, <1>10, <2>2, <3>2, Zenon DEF Moved, Edges, PlacedAt, CloudProviders
    <3>4. "takenAt" \in DOMAIN req[s] /\ req[s].ws = req[req[s].state].in.ws /\ "state" \in DOMAIN req[s]
      BY <1>1, <1>10, <3>3, Zenon DEF LoginAt, Within
    <3>5. "member" \in DOMAIN req'[s] /\ req'[s].member.ws = req[s].ws
      BY <1>10, <3>3, Zenon DEF At
    <3> QED BY <1>4, <1>5, <1>10, <3>4, <3>5, ZenonT(30)
  <2> QED BY <2>1, <2>2, Zenon
<1>11. "state" \in DOMAIN req'[s] /\ req'[s].in.kind = "callback" => req'[s].state \in Slots /\ req'[req'[s].state].pc = "done"
  BY <1>1, <1>4, <1>5, Zenon
<1> QED BY <1>1, <1>6, <1>8, <1>9, <1>10, <1>11, Zenon DEF LoginAt

\* A callback finds the membership of a binding in the workspace of its login.
LEMMA BoundMember ==
  ASSUME Base, RowShape, NEW s \in Slots, RequestStep(s), req[s].in.kind = "callback"
  PROVE  /\ "member" \in DOMAIN req'[s] => \/ "member" \in DOMAIN req[s] /\ req'[s].member = req[s].member
                                           \/ At(s, "lookup") /\ req'[s].member.ws = req[s].ws
         /\ At(s, "lookup") /\ req'[s].pc = "sign" => "member" \in DOMAIN req'[s] /\ req'[s].member.ws = req[s].ws
<1>1. Requests /\ PlacedAt(req[s].pc, "callback")
  BY Zenon DEF Base, Placed
<1>2. CASE MembershipLookup(s)
  <2>1. At(s, "lookup")
    BY <1>2, Zenon DEF MembershipLookup
  <2>2. CASE Refuse(s)
    <3>1. req'[s].pc = "done" /\ ("member" \in DOMAIN req'[s] => "member" \in DOMAIN req[s] /\ req'[s]["member"] = req[s]["member"])
      BY <1>1, <2>2, AnswerFields DEF Refuse
    <3> QED BY <3>1, Zenon
  <2>3. CASE ~Refuse(s)
    <3> DEFINE i == Identity(s)
               ws == rows.bindings[i].ws
    <3>1. PICK m \in MemberOf(ws, rows.bindings[i].subject) :
            i \in DOMAIN rows.bindings /\ \E pc : Keep(s, pc, [member |-> m])
      BY <1>2, <2>3, Zenon DEF MembershipLookup
    <3>2. m.ws = ws
      BY DEF MemberOf
    <3>3. i[1] = req[s].ws
      BY Zenon DEF Identity
    <3>4. ws = i[1]
      BY <3>1, Zenon DEF RowShape
    <3>5. "member" \in DOMAIN req'[s] /\ req'[s].member = m
      BY <1>1, <3>1, KeepFields
    <3> QED BY <2>1, <3>2, <3>3, <3>4, <3>5, Zenon
  <2> QED BY <2>2, <2>3, Zenon
<1>3. CASE ~MembershipLookup(s)
  <2>1. ~At(s, "lookup") /\ ~KeyLookup(s)
    BY <1>1, <1>3, StepAt, Zenon DEF KeyLookup, At, PlacedAt
  <2>2. \E fs : Moved(s, fs) /\ "member" \notin fs
    BY <1>1, <1>3, <2>1, Moves DEF RequestStep
  <2>3. "member" \in DOMAIN req'[s] => "member" \in DOMAIN req[s] /\ req'[s]["member"] = req[s]["member"]
    BY <2>2, Zenon DEF Moved
  <2> QED BY <2>1, <2>3, Zenon
<1> QED BY <1>2, <1>3, Zenon

\* Login stores a transaction under a name of its own.
LEMMA LoginStoreKeeps ==
  ASSUME Base, Logins, [Next]_vars, NEW s \in Slots, RequestStep(s), LoginStore(s)
  PROVE  Logins'
<1>1. /\ Requests /\ req[s].pc = "store" /\ req[s].in.kind = "login" /\ LoginAt(s) /\ Moved(s, {"expires"})
      /\ req'[s].in = req[s].in /\ Taker /\ LoginTable
  BY Moves, MovedFacts, Zenon DEF Base, LoginStore, At, Placed, PlacedAt, Logins
<1>2. /\ \A x \in Slots : x # s => req'[x] = req[x]
      /\ req'[s].pc \in {"done", "url"} /\ "takenAt" \notin DOMAIN req'[s]
  <2> USE Zenon
  <2>1. "takenAt" \notin DOMAIN req[s]
    BY <1>1 DEF LoginAt
  <2> QED BY <1>1, <2>1 DEF Moved, Edges
<1> DEFINE live == LiveLogins
           t == [ws |-> req[s].in.ws, state |-> s, nonce |-> s, expires |-> clock + TransactionTTL]
<1>3. /\ DOMAIN live \subseteq DOMAIN logins /\ \A l \in DOMAIN live : live[l] = logins[l]
      /\ s \notin DOMAIN logins
  BY <1>1, Zenon DEF LiveLogins, Without, LoginTable, LoginAt
<1>4. \/ logins' = live
      \/ logins' = With(live, s, t) /\ Keep(s, "url", [expires |-> t.expires])
  BY Zenon DEF LoginStore
<1>5. t.state = s /\ t.ws = req[s].in.ws
  BY Zenon
<1> HIDE DEF live, t
<1>6. \A l \in DOMAIN logins' :
        \/ l \in DOMAIN logins /\ logins'[l] = logins[l]
        \/ l = s /\ logins'[l] = t /\ Keep(s, "url", [expires |-> t.expires])
  BY <1>3, <1>4, Zenon DEF With
<1>7. Keep(s, "url", [expires |-> t.expires]) => "expires" \in DOMAIN req'[s] /\ req'[s].expires = t.expires
  BY <1>1, KeepFields
<1>8. LoginTable'
  BY <1>1, <1>2, <1>3, <1>5, <1>6, <1>7 DEF LoginTable
<1>9. \A x \in Slots : x # s => LoginAt(x)'
  BY <1>1, <1>2, <1>6, LoginFrame, Zenon
<1>10. LoginAt(s)'
  BY <1>1, <1>2, Zenon DEF LoginAt, Within
<1>11. Taker'
  BY <1>1, <1>2, Zenon DEF Taker
<1> QED BY <1>8, <1>9, <1>10, <1>11, Zenon DEF Logins

\* takeTransaction deletes the login: nobody else takes it.
LEMMA CallbackTakeKeeps ==
  ASSUME Base, Logins, [Next]_vars, NEW s \in Slots, RequestStep(s), CallbackTake(s)
  PROVE  Logins'
<1> DEFINE c == req[s].cookie
<1>1. /\ Requests /\ req[s].pc = "take" /\ req[s].in.kind = "callback" /\ LoginAt(s) /\ Moved(s, {"nonce", "ws", "takenAt"})
      /\ req'[s].in = req[s].in /\ Taker /\ LoginTable /\ clock \in Nat
      /\ \A x \in Slots : req[x].pc = "done" => req'[x] = req[x]
  BY Moves, MovedFacts, DoneStays, Zenon DEF Base, Requests, CallbackTake, At, Placed, PlacedAt, Logins
<1>2. /\ \A x \in Slots : x # s => req'[x] = req[x]
      /\ req'[s].pc \in {"done", "code"} /\ "state" \in DOMAIN req[s]
      /\ "state" \in DOMAIN req'[s] /\ req'[s]["state"] = req[s]["state"]
      /\ "expires" \notin DOMAIN req'[s] /\ "expires" \notin DOMAIN req[s]
      /\ "token" \in DOMAIN req'[s] => "token" \in DOMAIN req[s]
      /\ "member" \in DOMAIN req[s] => "member" \in DOMAIN req'[s] /\ req'[s]["member"] = req[s]["member"]
  BY <1>1, Zenon DEF Moved, Edges, LoginAt, Requests, Begun, Recorded
<1>3. /\ \A l \in DOMAIN logins' : l \in DOMAIN logins /\ logins'[l] = logins[l]
      /\ \/ Refuse(s)
         \/ /\ c \in DOMAIN logins /\ c \notin DOMAIN logins' /\ clock < logins[c].expires /\ logins[c].state = req[s].state
            /\ Keep(s, "code", [nonce |-> logins[c].nonce, ws |-> logins[c].ws, takenAt |-> clock])
  BY Zenon DEF CallbackTake, Taken, Without
<1>4. LoginTable'
  <2>1. \A l \in DOMAIN logins : l \in Slots /\ l # s /\ req'[l] = req[l]
    BY <1>1, <1>2, Zenon DEF LoginTable
  <2> QED BY <1>1, <1>3, <2>1 DEF LoginTable
<1>5. \A x \in Slots : x # s => LoginAt(x)'
  BY <1>2, <1>3, LoginFrame, Zenon
<1>6. req[s].state \in Slots /\ req[req[s].state].pc = "done" /\ req'[req[s].state] = req[req[s].state]
  BY <1>1, <1>2, Zenon DEF LoginAt
<1>7. CASE Refuse(s)
  <2>1. "takenAt" \in DOMAIN req'[s] => "takenAt" \in DOMAIN req[s] /\ req'[s]["takenAt"] = req[s]["takenAt"]
    BY <1>1, <1>7, AnswerFields DEF Refuse
  <2>2. req'[s].pc = "done" /\ ("takenAt" \in DOMAIN req[s] => "takenAt" \in DOMAIN req'[s])
    BY <1>1, <1>7, AnswerFields, Zenon DEF Refuse, Recorded
  <2>3. LoginAt(s)'
    BY <1>1, <1>2, <1>3, <1>6, <2>1, <2>2, Zenon DEF LoginAt, Within
  <2>4. Taker'
    BY <1>1, <1>2, <2>1 DEF Taker
  <2> QED BY <1>4, <1>5, <2>3, <2>4, Zenon DEF Logins
<1>8. CASE /\ c \in DOMAIN logins /\ c \notin DOMAIN logins' /\ clock < logins[c].expires /\ logins[c].state = req[s].state
           /\ Keep(s, "code", [nonce |-> logins[c].nonce, ws |-> logins[c].ws, takenAt |-> clock])
  <2>1. c = req[s].state /\ "expires" \in DOMAIN req[c] /\ clock < req[c].expires /\ logins[c].ws = req[c].in.ws
    BY <1>1, <1>8, Zenon DEF LoginTable
  <2>2. {"takenAt", "ws"} \subseteq DOMAIN req'[s] /\ req'[s].takenAt = clock /\ req'[s].ws = logins[c].ws /\ req'[s].pc = "code"
    BY <1>1, <1>8, KeepFields
  <2> HIDE DEF c
  <2>3. LoginAt(s)'
    BY <1>1, <1>2, <1>6, <1>8, <2>1, <2>2, Zenon DEF LoginAt, Within
  <2>4. \A x \in Slots : "takenAt" \in DOMAIN req[x] => req[x].state \notin DOMAIN logins
    BY Zenon DEF Logins, LoginAt
  <2>5. Taker'
    BY <1>1, <1>2, <1>8, <2>1, <2>4 DEF Taker
  <2> QED BY <1>4, <1>5, <2>3, <2>5, Zenon DEF Logins
<1> QED BY <1>3, <1>7, <1>8, Zenon

\* Every step keeps what is known about logins.
LEMMA LoginsStep ==
  ASSUME Base, RowShape, Logins, [Next]_vars
  PROVE  Logins'
<1>1. Requests /\ LoginTable /\ Taker /\ \A x \in Slots : LoginAt(x)
  BY Zenon DEF Base, Logins
<1>2. ASSUME NEW s \in Slots, RequestStep(s), ~LoginStore(s), ~CallbackTake(s) PROVE Logins'
  <2>1. /\ \A l \in DOMAIN logins' : l \in DOMAIN logins /\ logins'[l] = logins[l]
    BY <1>2, GuardFrame, Zenon DEF LoginRedirect, Without
  <2>2. Moved(s, Settable) /\ req'[s].in = req[s].in
    BY <1>1, <1>2, StepMoves, MovedFacts, Zenon
  <2>3. PICK fs : Moved(s, fs) /\ fs \intersect {"expires", "takenAt"} = {}
    BY <1>1, <1>2, Moves DEF RequestStep
  <2>4. /\ \A x \in Slots : x # s => req'[x] = req[x]
        /\ "expires" \in DOMAIN req[s] => "expires" \in DOMAIN req'[s] /\ req'[s]["expires"] = req[s]["expires"]
        /\ "takenAt" \in DOMAIN req'[s] => "takenAt" \in DOMAIN req[s] /\ req'[s]["takenAt"] = req[s]["takenAt"]
        /\ "state" \in DOMAIN req'[s] => "state" \in DOMAIN req[s] /\ req'[s]["state"] = req[s]["state"]
        /\ "state" \in DOMAIN req[s] => "state" \in DOMAIN req'[s]
        /\ req'[s].pc # "idle"
    BY <2>2, <2>3, Zenon DEF Moved, Recorded, Settable, Edges
  <2>5. LoginTable'
    BY <1>1, <2>1, <2>2, <2>4 DEF LoginTable
  <2>6. \A x \in Slots : x # s => LoginAt(x)'
    BY <2>1, <2>4, LoginFrame, Zenon
  <2>7. LoginAt(s)'
    BY <1>2, <2>1, BoundMember, LoginMoves, Zenon
  <2>8. Taker'
    <3> USE Zenon
    <3>1. \A x \in Slots : "takenAt" \in DOMAIN req[x] => "state" \in DOMAIN req[x]
      BY <1>1 DEF LoginAt
    <3>2. \A x \in Slots : "takenAt" \in DOMAIN req'[x] => "takenAt" \in DOMAIN req[x] /\ req'[x].state = req[x].state
      BY <2>4, <3>1
    <3> QED BY <1>1, <3>2 DEF Taker
  <2> QED BY <2>5, <2>6, <2>7, <2>8, Zenon DEF Logins
<1>3. ASSUME NEW s \in Slots, NEW in \in workload.inputs, Arrives(s, in) PROVE Logins'
  <2>1. PICK v : Started(s, v) /\ v.in = in /\ DOMAIN v \subseteq ArrivalFields /\ v.pc \in Entrances
    BY <1>1, <1>3, Arrivals, Zenon
  <2>2. /\ \A x \in Slots : x # s => req'[x] = req[x]
        /\ req'[s].pc \notin {"sign", "respond"} /\ req'[s].in = in /\ req[s].pc = "idle" /\ DOMAIN req[s] = {"pc"}
        /\ {"token", "takenAt", "expires"} \intersect DOMAIN req'[s] = {}
    BY <2>1, Zenon DEF Started, ArrivalFields, Entrances, NoRequest
  <2>3. logins' = logins
    BY <1>3, GuardFrame, Zenon
  <2>4. LoginTable'
    BY <1>1, <2>2, <2>3 DEF LoginTable
  <2>5. \A x \in Slots : x # s => LoginAt(x)'
    BY <2>2, <2>3, LoginFrame, Zenon
  <2>6. ASSUME in.kind = "callback"
        PROVE  /\ "state" \in DOMAIN req'[s] => req'[s].state \in Slots /\ req'[req'[s].state].pc = "done"
               /\ req'[s].pc \notin Within
    <3>1. PICK l : Admit(s, in, l)
      BY <1>3, <2>6, Zenon DEF Arrives, Call, AdminBegin, ChangeMembership, Withdraw
    <3>2. l \in Slots /\ req[l].pc = "done"
      BY <2>6, <3>1, Zenon DEF Admit, At
    <3>3. CASE Started(s, Ended(in, "limited"))
      BY <3>3 DEF Started, Ended, Within
    <3>4. CASE Started(s, Arrived(in, l, in.kind = "key" => Live(in.key), cookie))
      <4>1. req'[s].state = l /\ req'[s].pc = "take"
        BY <2>6, <3>4 DEF Started, Arrived, FirstStep
      <4> QED BY <2>2, <3>2, <4>1, Zenon DEF Within
    <3> QED BY <1>1, <3>1, <3>3, <3>4, Starts1, Zenon
  <2>7. LoginAt(s)'
    BY <2>2, <2>6, Zenon DEF LoginAt
  <2>8. Taker'
    BY <1>1, <2>2, Zenon DEF Taker
  <2> QED BY <2>4, <2>5, <2>7, <2>8, Zenon DEF Logins
<1>4. CASE Tick \/ UNCHANGED vars
  <2> USE Zenon
  <2>1. UNCHANGED <<req, logins>>
    BY <1>4 DEF Tick, vars
  <2> QED BY <1>1, <2>1 DEF Logins, LoginTable, LoginAt, Taker
<1> QED BY <1>2, <1>3, <1>4, Cases, LoginStoreKeeps, CallbackTakeKeeps, Zenon

SpentInv == Base /\ RowShape /\ Drafts /\ Proofs /\ Logins

\* Nothing has been spent at the start.
LEMMA SpentInit == Init => SpentInv
<1> SUFFICES ASSUME Init PROVE SpentInv
  BY Zenon
<1>1. Base /\ RowShape /\ Drafts /\ \A s \in Slots : req[s] = NoRequest
  BY KeyTableInit, Zenon DEF Init, KeyTableInv
<1>2. \A s \in Slots : req[s].pc = "idle" /\ DOMAIN req[s] = {"pc"}
  BY <1>1 DEF NoRequest
<1>3. DOMAIN guard = {} /\ DOMAIN logins = {}
  BY DEF Init
<1>4. Proofs
  BY <1>2, <1>3 DEF Proofs, ProofAt, ProofSpentOnce, Has
<1>5. Logins
  BY <1>2, <1>3 DEF Logins, LoginTable, LoginAt, Taker, Within
<1> QED BY <1>1, <1>4, <1>5, Zenon DEF SpentInv

\* For any requests and interleavings: a cloud proof is spent once before it expires, and a browser login yields
\* one session, in its workspace and in time, although expiries are compared before the locks that spend them.
THEOREM CredentialsAreSpentOnce == Spec => []SpentOnce
<1>1. SpentInv /\ [Next]_vars => SpentInv'
  BY BaseStep, RowStep, DraftsStep, ProofsStep, LoginsStep, Zenon DEF SpentInv
<1>2. SpentInv => SpentOnce
  <2> USE Zenon
  <2> SUFFICES ASSUME SpentInv PROVE LoginRedeemedOnce
    BY DEF SpentInv, Proofs, SpentOnce
  <2>1. Taker /\ \A s \in Slots : LoginAt(s)
    BY DEF SpentInv, Logins
  <2>2. ASSUME NEW s \in Slots, "token" \in DOMAIN req[s], req[s].in.kind = "callback"
        PROVE  /\ "takenAt" \in DOMAIN req[s] /\ req[s].member.ws = req[req[s].state].in.ws
               /\ req[s].takenAt < req[req[s].state].expires
    BY <2>1, <2>2 DEF LoginAt
  <2> QED BY <2>1, <2>2 DEF LoginRedeemedOnce, Signed, Taker
<1> QED BY <1>1, <1>2, SpentInit, PTL DEF Spec

-----------------------------------------------------------------------------
(***************************************************************************)
(* Attempts.  A window that runs counts what it let through; what came     *)
(* before it leaves room for less than a full window, because the window   *)
(* before it started with an attempt that is too old by then.              *)
(***************************************************************************)
Admitted(r, a) == {x \in Slots : "begun" \in DOMAIN r[x] /\ "state" \in DOMAIN r[x] /\ r[x].in.addr = a}
Let(r, a, lo, hi) == {x \in Admitted(r, a) : lo <= r[x].begun /\ r[x].begun <= hi}

Times(r, now) == \A x \in Slots : "begun" \in DOMAIN r[x] => r[x].begun \in Nat /\ r[x].begun <= now

\* The address a has the entry w.
Running(r, a, w, now) ==
  /\ w.started \in Nat /\ w.count \in 1..Attempts /\ w.started <= now
  /\ w = [started |-> w.started, count |-> w.count]
  /\ \A x \in Admitted(r, a) : r[x].begun < w.started + Window
  /\ Cardinality(Let(r, a, w.started, now)) <= w.count
  /\ Let(r, a, w.started, w.started) # {}
  /\ \A t \in Int : t >= w.started => Cardinality(Let(r, a, t - Window + 1, w.started - 1)) <= Attempts - 1

\* The address a has no entry.
Forgotten(r, a, now) ==
  /\ \A x \in Admitted(r, a) : r[x].begun < now
  /\ \A t \in Int : t >= now => Cardinality(Let(r, a, t - Window + 1, now)) <= Attempts - 1

Bounded(r, a) == \A t \in Int : Cardinality(Let(r, a, t - Window + 1, t)) <= 2 * Attempts - 1

\* The limiter's table l, at the time now, for the requests r.
Accounts(r, l, now) ==
  /\ Times(r, now) /\ IsFiniteSet(DOMAIN l) /\ Cardinality(DOMAIN l) <= MaxAddresses
  /\ l = [a \in DOMAIN l |-> l[a]]
  /\ \A a : /\ a \in DOMAIN l => Running(r, a, l[a], now)
            /\ a \notin DOMAIN l => Forgotten(r, a, now)
            /\ Bounded(r, a)
Windows == Accounts(req, limiter, clock)

\* The requests of an address and their times are the same in r and r2, or s is new at the time now.
Same(r, r2, a) == Admitted(r2, a) = Admitted(r, a) /\ \A x \in Admitted(r, a) : r2[x].begun = r[x].begun
Fresh(r, r2, a, s, now) ==
  /\ Admitted(r2, a) = Admitted(r, a) \union {s} /\ s \notin Admitted(r, a) /\ r2[s].begun = now
  /\ \A x \in Admitted(r, a) : r2[x].begun = r[x].begun

\* Sets of attempts are finite.
LEMMA LetFinite ==
  ASSUME Counting, NEW r, NEW a, NEW lo, NEW hi
  PROVE  IsFiniteSet(Let(r, a, lo, hi)) /\ Cardinality(Let(r, a, lo, hi)) \in Nat
<1> USE Zenon
<1>1. Let(r, a, lo, hi) \in SUBSET Slots /\ IsFiniteSet(Slots)
  BY CredentialAssumptions DEF Let, Admitted
<1> QED BY <1>1 DEF Counting, PartsCount, CountsAreNatural

\* A smaller set of attempts has fewer.
LEMMA LetSmaller ==
  ASSUME Counting, NEW r, NEW a, NEW lo, NEW hi, NEW T, T \subseteq Let(r, a, lo, hi)
  PROVE  IsFiniteSet(T) /\ Cardinality(T) \in Nat /\ Cardinality(T) <= Cardinality(Let(r, a, lo, hi))
<1> USE Zenon
<1>1. T \in SUBSET Let(r, a, lo, hi) /\ IsFiniteSet(Let(r, a, lo, hi))
  BY LetFinite
<1> QED BY <1>1 DEF Counting, PartsCount, CountsAreNatural

\* The configured limits.
LEMMA Limits == Attempts \in Nat /\ Attempts >= 1 /\ Window \in Nat /\ Window >= 1 /\ MaxAddresses \in Nat /\ MaxAddresses >= 1
BY CredentialAssumptions

\* Time passes over a window that runs.
LEMMA RunningStays ==
  ASSUME NEW r, NEW r2, NEW a, NEW w, NEW now \in Nat, NEW later \in Nat, later >= now, Same(r, r2, a), Times(r, now),
         Running(r, a, w, now)
  PROVE  Running(r2, a, w, later)
<1>1. w.started \in Nat /\ w.started <= now /\ \A x \in Admitted(r, a) : r[x].begun \in Nat /\ r[x].begun <= now
  BY Zenon DEF Running, Times, Admitted
<1>2. Let(r2, a, w.started, later) = Let(r, a, w.started, now)
  BY <1>1 DEF Same, Let
<1>3. \A lo, hi : Let(r2, a, lo, hi) = Let(r, a, lo, hi)
  BY Zenon DEF Same, Let
<1> QED BY <1>1, <1>2, <1>3 DEF Running, Same

\* Time passes over a forgotten address.
LEMMA ForgottenStays ==
  ASSUME NEW r, NEW r2, NEW a, NEW now \in Nat, NEW later \in Nat, later >= now, Same(r, r2, a), Times(r, now),
         Forgotten(r, a, now)
  PROVE  Forgotten(r2, a, later)
<1>1. \A x \in Admitted(r, a) : r[x].begun \in Nat /\ r[x].begun <= now
  BY Zenon DEF Times, Admitted
<1>2. \A lo : Let(r2, a, lo, later) = Let(r, a, lo, now)
  BY <1>1 DEF Same, Let
<1>3. \A t \in Int : t >= later => Cardinality(Let(r2, a, t - Window + 1, later)) <= Attempts - 1
  <2> TAKE t \in Int
  <2>1. t >= later => t >= now
    OBVIOUS
  <2>2. Let(r2, a, t - Window + 1, later) = Let(r, a, t - Window + 1, now)
    BY <1>2, Zenon
  <2> QED BY <2>1, <2>2, Zenon DEF Forgotten
<1>4. \A x \in Admitted(r2, a) : r2[x].begun < later
  BY <1>1 DEF Forgotten, Same
<1> QED BY <1>3, <1>4, Zenon DEF Forgotten

\* A bound on what stays the same stays.
LEMMA BoundedStays ==
  ASSUME NEW r, NEW r2, NEW a, Same(r, r2, a), Bounded(r, a)
  PROVE  Bounded(r2, a)
<1> USE Zenon
<1>1. \A lo, hi : Let(r2, a, lo, hi) = Let(r, a, lo, hi)
  BY DEF Same, Let
<1> QED BY <1>1 DEF Bounded

\* When a window has ended, its first attempt is too old for any window of now or later.
LEMMA WindowEnds ==
  ASSUME Counting, NEW r, NEW a, NEW w, NEW now \in Nat, Times(r, now), Running(r, a, w, now), now >= w.started + Window
  PROVE  Forgotten(r, a, now)
<1>1. /\ w.started \in Nat /\ w.count \in Nat /\ w.count <= Attempts
      /\ \A x \in Admitted(r, a) : r[x].begun \in Nat /\ r[x].begun <= now /\ r[x].begun < w.started + Window
  BY Limits DEF Running, Times, Admitted
<1>2. \A x \in Admitted(r, a) : r[x].begun < now
  BY <1>1, Limits
<1>3. ASSUME NEW t \in Int, t >= now PROVE Cardinality(Let(r, a, t - Window + 1, now)) <= Attempts - 1
  <2> DEFINE T == Let(r, a, t - Window + 1, now)
             S == Let(r, a, w.started, now)
  <2>1. PICK y : y \in Let(r, a, w.started, w.started)
    BY Zenon DEF Running
  <2>2. y \in S /\ y \notin T
    BY <1>1, <1>3, <2>1, Limits DEF Let
  <2>3. T \subseteq S
    BY <1>1, <1>3, Limits DEF Let
  <2>4. IsFiniteSet(S) /\ Cardinality(S) \in Nat /\ Cardinality(S) <= w.count
    BY LetFinite, Zenon DEF Running
  <2> HIDE DEF T, S
  <2>5. T \in SUBSET S
    BY <2>3, Zenon
  <2>6. IsFiniteSet(T) /\ Cardinality(T) <= Cardinality(S) /\ (Cardinality(S) = Cardinality(T) => S = T)
    BY <2>4, <2>5, Zenon DEF Counting, PartsCount
  <2>7. Cardinality(T) \in Nat /\ S # T
    BY <2>2, <2>6, Zenon DEF Counting, CountsAreNatural
  <2>8. Cardinality(T) <= Attempts - 1
    BY <1>1, <2>4, <2>6, <2>7, Limits
  <2> QED BY <2>8, Zenon DEF T
<1> QED BY <1>2, <1>3, Zenon DEF Forgotten

\* A window opens with an attempt.
LEMMA WindowOpens ==
  ASSUME Counting, NEW r, NEW r2, NEW a, NEW s, NEW now \in Nat, Times(r, now), Forgotten(r, a, now), Fresh(r, r2, a, s, now)
  PROVE  Running(r2, a, [started |-> now, count |-> 1], now)
<1>1. \A x \in Admitted(r, a) : r[x].begun \in Nat /\ r[x].begun < now
  BY Zenon DEF Forgotten, Times, Admitted
<1>2. Let(r2, a, now, now) = {s}
  BY <1>1 DEF Let, Fresh
<1>3. \A lo \in Int : Let(r2, a, lo, now - 1) = Let(r, a, lo, now)
  BY <1>1 DEF Let, Fresh
<1>4. ASSUME NEW t \in Int, t >= now PROVE Cardinality(Let(r2, a, t - Window + 1, now - 1)) <= Attempts - 1
  <2>1. t - Window + 1 \in Int
    BY Limits
  <2> QED BY <1>3, <1>4, <2>1, Zenon DEF Forgotten
<1>5. Cardinality({s}) = 1
  BY Zenon DEF Counting, OneCounts
<1>6. \A x \in Admitted(r2, a) : r2[x].begun < now + Window
  BY <1>1, Limits DEF Fresh
<1> DEFINE w == [started |-> now, count |-> 1]
<1>7. w.started = now /\ w.count = 1 /\ w = [started |-> w.started, count |-> w.count]
  BY Zenon
<1> HIDE DEF w
<1>8. /\ w.started \in Nat /\ w.started <= now /\ w.count \in 1..Attempts
      /\ Let(r2, a, w.started, w.started) # {} /\ Cardinality(Let(r2, a, w.started, now)) <= w.count
  <2>1. w.count \in 1..Attempts
    BY <1>7, Limits
  <2>2. Let(r2, a, w.started, now) = {s} /\ Let(r2, a, w.started, w.started) = {s}
    BY <1>2, <1>7, Zenon
  <2>3. {s} # {}
    BY Zenon
  <2>4. Cardinality(Let(r2, a, w.started, now)) = w.count
    BY <1>5, <1>7, <2>2, Zenon
  <2>5. w.count <= w.count
    BY <1>7
  <2> QED BY <1>7, <2>1, <2>2, <2>3, <2>4, <2>5
<1>9. \A t \in Int : t >= w.started => Cardinality(Let(r2, a, t - Window + 1, w.started - 1)) <= Attempts - 1
  BY <1>4, <1>7, Zenon
<1>10. \A x \in Admitted(r2, a) : r2[x].begun < w.started + Window
  BY <1>6, <1>7, Zenon
<1>11. Running(r2, a, w, now)
  BY <1>7, <1>8, <1>9, <1>10, Zenon DEF Running
<1> QED BY <1>11, Zenon DEF w

\* A window counts another attempt.
LEMMA WindowCounts ==
  ASSUME Counting, NEW r, NEW r2, NEW a, NEW s, NEW w, NEW now \in Nat, Times(r, now), Running(r, a, w, now), now < w.started + Window,
         w.count < Attempts, Fresh(r, r2, a, s, now)
  PROVE  Running(r2, a, [started |-> w.started, count |-> w.count + 1], now)
<1>1. /\ w.started \in Nat /\ w.started <= now /\ w.count \in Nat /\ w.count >= 1
      /\ \A x \in Admitted(r, a) : r[x].begun \in Nat /\ r[x].begun <= now /\ r[x].begun < w.started + Window
  BY Limits DEF Running, Times, Admitted
<1>2. Let(r2, a, w.started, now) = Let(r, a, w.started, now) \union {s}
  BY <1>1 DEF Let, Fresh
<1>3. Cardinality(Let(r2, a, w.started, now)) <= w.count + 1
  <2>1. IsFiniteSet(Let(r, a, w.started, now)) /\ Cardinality(Let(r, a, w.started, now)) \in Nat
        /\ Cardinality(Let(r, a, w.started, now)) <= w.count
    BY LetFinite, Zenon DEF Running
  <2> DEFINE S == Let(r, a, w.started, now)
  <2>2. IsFiniteSet(S) /\ Cardinality(S) \in Nat /\ Cardinality(S) <= w.count
    BY <2>1, Zenon
  <2> HIDE DEF S
  <2>3. Cardinality(S \union {s}) = Cardinality(S) \/ Cardinality(S \union {s}) = Cardinality(S) + 1
    BY <2>2, Zenon DEF Counting, AddingCounts
  <2>4. Cardinality(S \union {s}) <= w.count + 1
    BY <1>1, <2>2, <2>3
  <2>5. Let(r2, a, w.started, now) = S \union {s}
    BY <1>2, Zenon DEF S
  <2> QED BY <2>4, <2>5, Zenon
<1>4. Let(r2, a, w.started, w.started) # {}
  <2> USE Zenon
  <2>1. PICK y : y \in Let(r, a, w.started, w.started)
    BY DEF Running
  <2>2. y \in Let(r2, a, w.started, w.started)
    BY <2>1 DEF Let, Fresh
  <2> QED BY <2>2
<1>5. \A lo : Let(r2, a, lo, w.started - 1) = Let(r, a, lo, w.started - 1)
  BY <1>1 DEF Let, Fresh
<1>6. \A x \in Admitted(r2, a) : r2[x].begun < w.started + Window
  BY <1>1, Zenon DEF Fresh
<1> DEFINE v == [started |-> w.started, count |-> w.count + 1]
<1>7. v.started = w.started /\ v.count = w.count + 1 /\ v = [started |-> v.started, count |-> v.count]
  BY Zenon
<1>8. v.count \in 1..Attempts
  BY <1>1, <1>7, Limits
<1>9. \A t \in Int : t >= w.started => Cardinality(Let(r2, a, t - Window + 1, w.started - 1)) <= Attempts - 1
  BY <1>5, Zenon DEF Running
<1> HIDE DEF v
<1>10. Running(r2, a, v, now)
  BY <1>1, <1>3, <1>4, <1>6, <1>7, <1>8, <1>9, Zenon DEF Running
<1> QED BY <1>10, Zenon DEF v

\* Any stretch of a window's length holds less than a full window before the last start, and at most one after.
LEMMA StretchBounded ==
  ASSUME Counting, NEW r, NEW r2, NEW a, NEW s, NEW w, NEW now \in Nat, Times(r, now), Bounded(r, a), Fresh(r, r2, a, s, now),
         Running(r2, a, w, now)
  PROVE  Bounded(r2, a)
<1>1. /\ \A x \in Admitted(r, a) : r[x].begun \in Nat /\ r[x].begun <= now
      /\ \A x \in Admitted(r2, a) : r2[x].begun \in Nat /\ r2[x].begun <= now
      /\ w.started \in Nat /\ w.started <= now /\ w.count \in Nat /\ w.count <= Attempts
  BY Limits DEF Times, Admitted, Fresh, Running
<1>2. ASSUME NEW t \in Int PROVE Cardinality(Let(r2, a, t - Window + 1, t)) <= 2 * Attempts - 1
  <2>1. CASE t < now
    <3>1. Let(r2, a, t - Window + 1, t) = Let(r, a, t - Window + 1, t)
      BY <1>1, <2>1, Limits DEF Let, Fresh
    <3> QED BY <3>1, Zenon DEF Bounded
  <2>2. CASE t >= now
    <3> DEFINE A == Let(r2, a, t - Window + 1, w.started - 1)
               B == Let(r2, a, w.started, now)
               C == Let(r2, a, t - Window + 1, t)
    <3>1. C \subseteq A \union B
      BY <1>1, <2>2, Limits DEF Let
    <3>2. IsFiniteSet(A) /\ IsFiniteSet(B) /\ Cardinality(A) \in Nat /\ Cardinality(B) \in Nat
      BY LetFinite, Zenon
    <3>3. Cardinality(A) <= Attempts - 1 /\ Cardinality(B) <= w.count
      BY <1>1, <2>2 DEF Running
    <3> HIDE DEF A, B, C
    <3>4. IsFiniteSet(A \union B) /\ IsFiniteSet(A \intersect B)
          /\ Cardinality(A \union B) = Cardinality(A) + Cardinality(B) - Cardinality(A \intersect B)
      <4> USE Zenon
      <4>1. A \intersect B \in SUBSET A
        OBVIOUS
      <4> QED BY <3>2, <4>1 DEF Counting, UnionsCount, PartsCount
    <3>5. Cardinality(A \intersect B) \in Nat
      BY <3>4, Zenon DEF Counting, CountsAreNatural
    <3>6. C \in SUBSET (A \union B)
      BY <3>1, Zenon
    <3>7. IsFiniteSet(C) /\ Cardinality(C) <= Cardinality(A \union B)
      BY <3>4, <3>6, Zenon DEF Counting, PartsCount
    <3>8. Cardinality(C) \in Nat
      BY <3>7, Zenon DEF Counting, CountsAreNatural
    <3>9. Cardinality(C) <= 2 * Attempts - 1
      BY <1>1, <3>2, <3>3, <3>4, <3>5, <3>7, <3>8, Limits
    <3> QED BY <3>9, Zenon DEF C
  <2> QED BY <1>1, <2>1, <2>2
<1> QED BY <1>2, Zenon DEF Bounded

\* A table accounts for requests that stay the same, however late it becomes.
LEMMA AccountsStay ==
  ASSUME NEW r, NEW r2, NEW l, NEW now \in Nat, NEW later \in Nat, later >= now, Accounts(r, l, now), Times(r2, later),
         \A a : Same(r, r2, a)
  PROVE  Accounts(r2, l, later)
<1> USE Zenon
<1>1. Times(r, now)
  BY DEF Accounts
<1>2. ASSUME NEW a
      PROVE  /\ a \in DOMAIN l => Running(r2, a, l[a], later)
             /\ a \notin DOMAIN l => Forgotten(r2, a, later)
             /\ Bounded(r2, a)
  <2>1. /\ a \in DOMAIN l => Running(r, a, l[a], now)
        /\ a \notin DOMAIN l => Forgotten(r, a, now)
        /\ Bounded(r, a)
    BY DEF Accounts
  <2>2. Same(r, r2, a)
    OBVIOUS
  <2>3. CASE a \in DOMAIN l
    BY <1>1, <2>1, <2>2, <2>3, RunningStays, BoundedStays
  <2>4. CASE a \notin DOMAIN l
    BY <1>1, <2>1, <2>2, <2>4, ForgottenStays, BoundedStays
  <2> QED BY <2>3, <2>4
<1> QED BY <1>2 DEF Accounts

\* The table T is l with another entry for the address a, and without the ended windows of E.
Replaces(l, T, E, a, now) ==
  /\ \A x \in E : x \in DOMAIN l /\ now >= l[x].started + Window
  /\ T = [x \in DOMAIN T |-> T[x]] /\ DOMAIN T = (DOMAIN l \ E) \union {a}
  /\ \A x \in DOMAIN l \ E : x # a => T[x] = l[x]
  /\ IsFiniteSet(DOMAIN T) /\ Cardinality(DOMAIN T) <= MaxAddresses

\* It accounts for another request when the entry of its address does, whichever ended windows it drops.
LEMMA AccountsAdmit ==
  ASSUME Counting, NEW r, NEW r2, NEW l, NEW T, NEW E, NEW a, NEW s, NEW now \in Nat, Accounts(r, l, now), Times(r2, now),
         Fresh(r, r2, a, s, now), \A b : b # a => Same(r, r2, b),
         Replaces(l, T, E, a, now), Running(r2, a, T[a], now)
  PROVE  Accounts(r2, T, now)
<1>1. Times(r, now) /\ \A b : Bounded(r, b)
  BY Zenon DEF Accounts
<1>2. ASSUME NEW b
      PROVE  /\ b \in DOMAIN T => Running(r2, b, T[b], now)
             /\ b \notin DOMAIN T => Forgotten(r2, b, now)
             /\ Bounded(r2, b)
  <2>1. CASE b = a
    <3> USE Zenon
    <3>1. b \in DOMAIN T /\ Bounded(r2, b)
      BY <1>1, <2>1, StretchBounded DEF Replaces
    <3> QED BY <2>1, <3>1
  <2>2. CASE b # a
    <3>1. Same(r, r2, b) /\ Bounded(r2, b)
      BY <1>1, <2>2, BoundedStays, Zenon
    <3>2. CASE b \in DOMAIN T
      <4>1. T[b] = l[b] /\ b \in DOMAIN l
        BY <2>2, <3>2 DEF Replaces
      <4>2. Running(r, b, l[b], now)
        BY <4>1, Zenon DEF Accounts
      <4>3. Running(r2, b, l[b], now)
        BY <1>1, <3>1, <4>2, RunningStays
      <4> QED BY <3>1, <3>2, <4>1, <4>3, Zenon
    <3>3. CASE b \notin DOMAIN T
      <4>1. Forgotten(r, b, now)
        <5> USE Zenon
        <5>1. CASE b \notin DOMAIN l
          BY <5>1 DEF Accounts
        <5>2. CASE b \in DOMAIN l
          <6>1. Running(r, b, l[b], now) /\ now >= l[b].started + Window
            BY <2>2, <3>3, <5>2 DEF Accounts, Replaces
          <6> QED BY <1>1, <6>1, WindowEnds
        <5> QED BY <5>1, <5>2
      <4>2. Forgotten(r2, b, now)
        BY <1>1, <3>1, <4>1, ForgottenStays
      <4> QED BY <3>1, <3>3, <4>2, Zenon
    <3> QED BY <3>2, <3>3, Zenon
  <2> QED BY <2>1, <2>2, Zenon
<1> QED BY <1>2, Zenon DEF Accounts, Replaces

\* What Allow may do: refuse, or open a window (in the place of an ended one, if it must), or count.
LEMMA AllowAnswers ==
  ASSUME NEW a, NEW o \in Allow(a)
  PROVE  \/ o.ok = FALSE /\ o.table = limiter
         \/ /\ o.ok = TRUE /\ a \notin DOMAIN limiter
            /\ \E x \in DOMAIN limiter :
                 Expired(limiter[x]) /\ o.table = With(Without(limiter, {x}), a, [started |-> clock, count |-> 1])
         \/ /\ o.ok = TRUE /\ o.table = With(limiter, a, [started |-> clock, count |-> 1])
            /\ \/ a \notin DOMAIN limiter /\ ~(Cardinality(DOMAIN limiter) >= MaxAddresses)
               \/ a \in DOMAIN limiter /\ Expired(limiter[a])
         \/ /\ o.ok = TRUE /\ o.table = [limiter EXCEPT ![a].count = @ + 1]
            /\ a \in DOMAIN limiter /\ ~Expired(limiter[a]) /\ ~(limiter[a].count >= Attempts)
<1> USE Zenon
<1> DEFINE full == a \notin DOMAIN limiter /\ Cardinality(DOMAIN limiter) >= MaxAddresses
           old == {x \in DOMAIN limiter : Expired(limiter[x])}
           tables == IF full /\ old # {} THEN {Without(limiter, {x}) : x \in old} ELSE {limiter}
           Out(t) == IF full /\ old = {} THEN [table |-> t, ok |-> FALSE]
                     ELSE IF a \notin DOMAIN t \/ Expired(t[a])
                          THEN [table |-> With(t, a, [started |-> clock, count |-> 1]), ok |-> TRUE]
                     ELSE IF t[a].count >= Attempts THEN [table |-> t, ok |-> FALSE]
                     ELSE [table |-> [t EXCEPT ![a].count = @ + 1], ok |-> TRUE]
<1>1. PICK t \in tables : o = Out(t)
  BY DEF Allow
<1>2. CASE full /\ old # {}
  <2>1. PICK x \in old : t = Without(limiter, {x})
    BY <1>1, <1>2
  <2>2. a \notin DOMAIN t
    BY <1>2, <2>1 DEF Without
  <2>3. Out(t) = [table |-> With(t, a, [started |-> clock, count |-> 1]), ok |-> TRUE]
    BY <1>2, <2>2
  <2> QED BY <1>1, <1>2, <2>1, <2>3
<1>3. CASE ~(full /\ old # {})
  <2>1. t = limiter
    BY <1>1, <1>3
  <2>2. CASE full
    BY <1>1, <1>3, <2>1, <2>2
  <2>3. CASE ~full
    BY <1>1, <2>1, <2>3
  <2> QED BY <2>2, <2>3
<1> QED BY <1>2, <1>3

\* A request that is let in is accounted for.
LEMMA AdmitAccounts ==
  ASSUME Counting, Windows, clock \in Nat, NEW s, NEW a, NEW r2, NEW o \in Allow(a), o.ok = TRUE, Fresh(req, r2, a, s, clock),
         \A b : b # a => Same(req, r2, b), Times(r2, clock)
  PROVE  Accounts(r2, o.table, clock)
<1> DEFINE T == o.table
           new == [started |-> clock, count |-> 1]
           D == DOMAIN limiter
           N == Cardinality(DOMAIN limiter)
<1>1. /\ Accounts(req, limiter, clock) /\ Times(req, clock) /\ IsFiniteSet(D) /\ N \in Nat /\ N <= MaxAddresses
      /\ limiter = [x \in D |-> limiter[x]] /\ (a \in D => Running(req, a, limiter[a], clock))
      /\ (a \notin D => Forgotten(req, a, clock))
  BY Zenon DEF Windows, Accounts, Counting, CountsAreNatural
<1>2. Forgotten(req, a, clock) => Running(r2, a, new, clock)
  BY <1>1, WindowOpens, Zenon
<1>3. a \in D /\ Expired(limiter[a]) => Forgotten(req, a, clock)
  BY <1>1, WindowEnds, Zenon DEF Expired
<1>4. ASSUME a \notin D, NEW x \in D, Expired(limiter[x]), T = With(Without(limiter, {x}), a, new)
      PROVE  Accounts(r2, T, clock)
  <2>1. /\ DOMAIN T = (D \ {x}) \union {a} /\ T[a] = new /\ T = [y \in DOMAIN T |-> T[y]]
        /\ \A y \in D \ {x} : y # a => T[y] = limiter[y]
    BY <1>4, Zenon DEF With, Without
  <2>2. IsFiniteSet(D \ {x}) /\ Cardinality(D \ {x}) = N - 1
    BY <1>1, <1>4 DEF Counting, RemovingCounts
  <2>3. a \notin D \ {x}
    BY <1>4, Zenon
  <2>4. IsFiniteSet((D \ {x}) \union {a}) /\ Cardinality((D \ {x}) \union {a}) = Cardinality(D \ {x}) + 1
    BY <2>2, <2>3, Zenon DEF Counting, AddingCounts
  <2>5. IsFiniteSet(DOMAIN T) /\ Cardinality(DOMAIN T) <= MaxAddresses
    BY <1>1, <2>1, <2>2, <2>4, Limits
  <2>6. Running(r2, a, T[a], clock)
    BY <1>1, <1>2, <1>4, <2>1, Zenon
  <2>7. \A y \in {x} : y \in D /\ clock >= limiter[y].started + Window
    BY <1>4, Zenon DEF Expired
  <2>8. Replaces(limiter, T, {x}, a, clock)
    BY <2>1, <2>5, <2>7, Zenon DEF Replaces
  <2> HIDE DEF T, new, N
  <2> QED BY <1>1, <2>6, <2>8, AccountsAdmit, Zenon
<1>5. ASSUME T = With(limiter, a, new), \/ a \notin D /\ ~(N >= MaxAddresses)
                                        \/ a \in D /\ Expired(limiter[a])
      PROVE  Accounts(r2, T, clock)
  <2>1. /\ DOMAIN T = (D \ {}) \union {a} /\ T[a] = new /\ T = [y \in DOMAIN T |-> T[y]]
        /\ \A y \in D \ {} : y # a => T[y] = limiter[y]
    BY <1>5, Zenon DEF With
  <2>2. IsFiniteSet(D \union {a}) /\ Cardinality(D \union {a}) = IF a \in D THEN N ELSE N + 1
    BY <1>1 DEF Counting, AddingCounts
  <2>3. DOMAIN T = D \union {a}
    BY <2>1, Zenon
  <2>4. Cardinality(D \union {a}) <= MaxAddresses
    BY <1>1, <1>5, <2>2, Limits
  <2>5. IsFiniteSet(DOMAIN T) /\ Cardinality(DOMAIN T) <= MaxAddresses
    BY <2>2, <2>3, <2>4, Zenon
  <2>6. Running(r2, a, T[a], clock)
    BY <1>1, <1>2, <1>3, <1>5, <2>1, Zenon
  <2>7. \A y \in {} : y \in D /\ clock >= limiter[y].started + Window
    BY Zenon
  <2>8. Replaces(limiter, T, {}, a, clock)
    BY <2>1, <2>5, <2>7, Zenon DEF Replaces
  <2> HIDE DEF T, new, N
  <2> QED BY <1>1, <2>6, <2>8, AccountsAdmit, Zenon
<1>6. ASSUME T = [limiter EXCEPT ![a].count = @ + 1], a \in D, ~Expired(limiter[a]), ~(limiter[a].count >= Attempts)
      PROVE  Accounts(r2, T, clock)
  <2> DEFINE w == limiter[a]
  <2>1. /\ w = [started |-> w.started, count |-> w.count] /\ w.started \in Nat /\ w.count \in Nat
        /\ Running(req, a, w, clock) /\ clock < w.started + Window /\ w.count < Attempts
    BY <1>1, <1>6, Limits DEF Running, Expired
  <2>2. Running(r2, a, [started |-> w.started, count |-> w.count + 1], clock)
    BY <1>1, <2>1, WindowCounts, Zenon
  <2>3. [w EXCEPT !.count = @ + 1] = [started |-> w.started, count |-> w.count + 1]
    BY <2>1
  <2>4. /\ DOMAIN T = (D \ {}) \union {a} /\ T[a] = [w EXCEPT !.count = @ + 1] /\ T = [y \in DOMAIN T |-> T[y]]
        /\ \A y \in D \ {} : y # a => T[y] = limiter[y]
    BY <1>1, <1>6, Zenon
  <2>5. DOMAIN T = D
    BY <1>6, <2>4, Zenon
  <2>6. IsFiniteSet(DOMAIN T) /\ Cardinality(DOMAIN T) <= MaxAddresses
    BY <1>1, <2>5, Zenon
  <2>7. Running(r2, a, T[a], clock)
    BY <2>2, <2>3, <2>4, Zenon
  <2>8. \A y \in {} : y \in D /\ clock >= limiter[y].started + Window
    BY Zenon
  <2>9. Replaces(limiter, T, {}, a, clock)
    BY <2>4, <2>6, <2>8, Zenon DEF Replaces
  <2> HIDE DEF T, w, N
  <2> QED BY <1>1, <2>7, <2>9, AccountsAdmit, Zenon
<1>7. \/ a \notin D /\ \E x \in D : Expired(limiter[x]) /\ T = With(Without(limiter, {x}), a, new)
      \/ T = With(limiter, a, new) /\ (\/ a \notin D /\ ~(N >= MaxAddresses)
                                       \/ a \in D /\ Expired(limiter[a]))
      \/ /\ T = [limiter EXCEPT ![a].count = @ + 1]
         /\ a \in D /\ ~Expired(limiter[a]) /\ ~(limiter[a].count >= Attempts)
  BY AllowAnswers, Zenon
<1> QED BY <1>4, <1>5, <1>6, <1>7, Zenon

\* A request that starts but is not let in is not counted.
LEMMA StartedSame ==
  ASSUME Requests, Windows, NEW s \in Slots, NEW v, Started(s, v), ~("begun" \in DOMAIN v /\ "state" \in DOMAIN v),
         "begun" \in DOMAIN v => v.begun = clock
  PROVE  Times(req', clock) /\ \A a : Same(req, req', a)
<1>1. /\ \A x \in Slots : x # s => req'[x] = req[x]
      /\ req'[s] = v /\ req[s] = NoRequest /\ clock \in Nat
  BY Zenon DEF Started, Requests
<1>2. "begun" \notin DOMAIN req[s] /\ clock <= clock
  BY <1>1 DEF NoRequest
<1>3. Times(req', clock)
  BY <1>1, <1>2, Zenon DEF Windows, Accounts, Times
<1>4. \A a : Admitted(req', a) = Admitted(req, a) /\ s \notin Admitted(req, a)
  BY <1>1, <1>2, Zenon DEF Admitted
<1>5. \A a : \A x \in Admitted(req, a) : req'[x] = req[x]
  BY <1>1, <1>4, Zenon DEF Admitted
<1> QED BY <1>3, <1>4, <1>5, Zenon DEF Same

\* Every step keeps the account.
LEMMA WindowsStep ==
  ASSUME Counting, Base, Windows, [Next]_vars
  PROVE  Windows'
<1>1. Requests /\ clock \in Nat /\ clock' \in Nat /\ clock' >= clock /\ Times(req, clock)
  BY ClockSteps, Zenon DEF Base, Requests, Windows, Accounts
<1>2. ASSUME limiter' = limiter, Times(req', clock'), \A a : Same(req, req', a) PROVE Windows'
  BY <1>1, <1>2, AccountsStay, Zenon DEF Windows
<1>3. ASSUME NEW s \in Slots, RequestStep(s) PROVE Windows'
  <2> USE Zenon
  <2>1. limiter' = limiter /\ clock' = clock
    BY <1>3 DEF RequestStep, KeyLookup, KeyCheck, RotateRetire, AdminCommit, Inspect, ProviderKey, FetchKeys, TokenVerify,
       ParseProof, CallSTS, CheckPrincipal, MembershipLookup, GuardPrecheck, Consume, LoginStore, LoginRedirect,
       CallbackTake, CallbackCode, SignSession, Respond
  <2>2. Moved(s, Settable)
    BY <1>1, <1>3, StepMoves
  <2>3. ASSUME NEW f \in {"begun", "state", "in"}
        PROVE  \A x \in Slots : (f \in DOMAIN req'[x] <=> f \in DOMAIN req[x]) /\ (f \in DOMAIN req[x] => req'[x][f] = req[x][f])
    <3>1. f \in Recorded /\ f \notin Settable \union {"pc", "answer"}
      BY DEF Recorded, Settable
    <3> QED BY <2>2, <3>1, FieldFrame, FieldStays
  <2>4. \A x \in Slots : /\ "begun" \in DOMAIN req'[x] <=> "begun" \in DOMAIN req[x]
                         /\ "begun" \in DOMAIN req[x] => req'[x].begun = req[x].begun
                         /\ "state" \in DOMAIN req'[x] <=> "state" \in DOMAIN req[x]
    BY <2>3
  <2>5. \A x \in Slots : "state" \in DOMAIN req[x] => req'[x].in = req[x].in
    <3> TAKE x \in Slots
    <3>1. CASE x = s
      BY <1>3, <3>1, MovedFacts
    <3>2. CASE x # s
      BY <2>2, <3>2 DEF Moved
    <3> QED BY <3>1, <3>2
  <2>6. Times(req', clock')
    BY <1>1, <2>1, <2>4 DEF Times
  <2>7. \A a : Admitted(req', a) = Admitted(req, a)
    BY <2>4, <2>5 DEF Admitted
  <2>8. \A a : \A x \in Admitted(req, a) : req'[x].begun = req[x].begun
    BY <2>4 DEF Admitted
  <2> QED BY <1>2, <2>1, <2>6, <2>7, <2>8 DEF Same
<1>4. ASSUME NEW s \in Slots, NEW in \in workload.inputs, NEW l, Admit(s, in, l) PROVE Windows'
  <2>1. PICK o \in Allow(in.addr) :
          /\ limiter' = o.table
          /\ req' = [req EXCEPT ![s] = IF ~o.ok THEN Ended(in, "limited")
                                       ELSE Arrived(in, l, in.kind = "key" => Live(in.key), cookie)]
    BY <1>4, Zenon DEF Admit, Ended, Arrived
  <2>2. At(s, "idle") /\ clock' = clock
    BY <1>4, Zenon DEF Admit, Starts
  <2>3. CASE o.ok = FALSE
    <3> USE Zenon
    <3>1. limiter' = limiter
      BY <2>1, <2>3, AllowAnswers
    <3>2. Started(s, Ended(in, "limited"))
      BY <1>1, <2>1, <2>2, <2>3, Starting
    <3>3. "begun" \notin DOMAIN Ended(in, "limited")
      BY DEF Ended
    <3> QED BY <1>1, <1>2, <2>2, <3>1, <3>2, <3>3, StartedSame
  <2>4. CASE o.ok = TRUE
    <3> DEFINE v == Arrived(in, l, in.kind = "key" => Live(in.key), cookie)
               a == in.addr
    <3>1. v.begun = clock /\ v.in = in /\ "begun" \in DOMAIN v /\ "state" \in DOMAIN v
      BY Zenon DEF Arrived
    <3>2. req' = [req EXCEPT ![s] = v]
      BY <2>1, <2>4, Zenon
    <3> HIDE DEF v
    <3>3. Started(s, v)
      BY <1>1, <2>2, <3>2, Starting, Zenon
    <3>4. \A x \in Slots : x # s => req'[x] = req[x]
      BY <3>3, Zenon DEF Started
    <3>5. req'[s] = v /\ "begun" \notin DOMAIN req[s]
      BY <3>3, Zenon DEF Started, NoRequest
    <3>6. Times(req', clock)
      BY <1>1, <3>1, <3>4, <3>5 DEF Times
    <3>7. Fresh(req, req', a, s, clock)
      BY <3>1, <3>4, <3>5, Zenon DEF Fresh, Admitted
    <3>8. \A b : b # a => Same(req, req', b)
      BY <3>1, <3>4, <3>5, Zenon DEF Same, Admitted
    <3>9. Accounts(req', limiter', clock)
      BY <1>1, <2>1, <2>4, <3>6, <3>7, <3>8, AdmitAccounts, Zenon
    <3> QED BY <2>2, <3>9, Zenon DEF Windows
  <2>5. o.ok \in BOOLEAN
    BY AllowAnswers, Zenon
  <2> QED BY <2>3, <2>4, <2>5, Zenon
<1>5. ASSUME NEW s \in Slots, NEW in \in workload.inputs,
             (\E x : Call(s, in, x)) \/ AdminBegin(s, in) \/ ChangeMembership(s, in) \/ Withdraw(s, in)
      PROVE  Windows'
  <2> USE Zenon
  <2>1. limiter' = limiter /\ clock' = clock
    BY <1>5 DEF Call, AdminBegin, ChangeMembership, Withdraw
  <2>2. \E v : Started(s, v) /\ "state" \notin DOMAIN v /\ ("begun" \in DOMAIN v => v.begun = clock)
    <3> DEFINE Fine(v) == "state" \notin DOMAIN v /\ ("begun" \in DOMAIN v => v.begun = clock)
    <3>1. \A y, x : Fine(Ended(in, y)) /\ Fine(Called(in, y, x))
      BY DEF Ended, Called
    <3>2. \A new : Fine(AdminStarted(in, new))
      BY DEF AdminStarted
    <3> HIDE DEF Fine
    <3>3. \E v : Started(s, v) /\ Fine(v)
      BY <1>1, <1>5, <3>1, <3>2, Starts1
    <3> QED BY <3>3 DEF Fine
  <2> QED BY <1>1, <1>2, <2>1, <2>2, StartedSame
<1>6. CASE Tick \/ UNCHANGED vars
  <2>1. limiter' = limiter /\ req' = req
    BY <1>6, Zenon DEF Tick, vars
  <2>2. Times(req', clock') /\ \A a : Same(req, req', a)
    BY <1>1, <2>1 DEF Times, Same, Requests
  <2> QED BY <1>2, <2>1, <2>2, Zenon
<1> QED BY <1>3, <1>4, <1>5, <1>6, Cases, Zenon DEF Arrives

\* Nobody has been let in yet.
LEMMA WindowsInit == ASSUME Counting PROVE Init => Windows
<1> SUFFICES ASSUME Init PROVE Windows
  BY Zenon
<1>1. /\ clock = 0 /\ limiter = << >> /\ \A x \in Slots : "begun" \notin DOMAIN req[x]
  BY Zenon DEF Init, NoRequest
<1>2. \A a, lo, hi : Admitted(req, a) = {} /\ Let(req, a, lo, hi) = {}
  BY <1>1, Zenon DEF Admitted, Let
<1>3. DOMAIN limiter = {} /\ limiter = [a \in DOMAIN limiter |-> limiter[a]] /\ Cardinality({}) = 0 /\ IsFiniteSet({})
  BY <1>1 DEF Counting, NothingCounts
<1>4. ASSUME NEW a PROVE Forgotten(req, a, clock) /\ Bounded(req, a)
  <2>1. \A lo, hi : Cardinality(Let(req, a, lo, hi)) = 0
    BY <1>2, <1>3, Zenon
  <2>2. 0 <= Attempts - 1 /\ 0 <= 2 * Attempts - 1
    BY Limits
  <2>3. Forgotten(req, a, clock)
    BY <1>2, <2>1, <2>2, Zenon DEF Forgotten
  <2>4. Bounded(req, a)
    BY <2>1, <2>2, Zenon DEF Bounded
  <2> QED BY <2>3, <2>4, Zenon
<1>5. Times(req, clock)
  BY <1>1, Zenon DEF Times
<1> QED BY <1>3, <1>4, <1>5, Limits DEF Windows, Accounts

\* The windows keep the promise.
LEMMA WindowsBound ==
  ASSUME Base, Windows
  PROVE  AttemptsBounded
<1>1. Cardinality(DOMAIN limiter) <= MaxAddresses /\ Times(req, clock) /\ workload.ticks \in Nat
  BY WorkloadAssumptions, Zenon DEF Windows, Accounts, Base, Requests
<1>2. ASSUME NEW t \in 0..workload.ticks, NEW a
      PROVE  Cardinality({x \in Slots : Has(x, "begun") /\ Has(x, "state") /\ req[x].in.addr = a
                                        /\ req[x].begun \in (t - Window + 1)..t}) <= 2 * Attempts - 1
  <2>1. t \in Int /\ t - Window + 1 \in Int
    BY <1>1, Limits
  <2>2. {x \in Slots : Has(x, "begun") /\ Has(x, "state") /\ req[x].in.addr = a /\ req[x].begun \in (t - Window + 1)..t}
        = Let(req, a, t - Window + 1, t)
    BY <1>1, <2>1 DEF Has, Let, Admitted, Times
  <2>3. Cardinality(Let(req, a, t - Window + 1, t)) <= 2 * Attempts - 1
    BY <2>1, Zenon DEF Windows, Accounts, Bounded
  <2> QED BY <2>2, <2>3, Zenon
<1> QED BY <1>1, <1>2, Zenon DEF AttemptsBounded

-----------------------------------------------------------------------------
(***************************************************************************)
(* Counting                                                                *)
(***************************************************************************)
\* FiniteSets means what Listed and Counted say.
LEMMA Meaning == \A S : (IsFiniteSet(S) <=> Listed(S)) /\ Cardinality(S) = Counted(S)
BY Zenon DEF IsFiniteSet, Cardinality, Listed, Counted

LOCAL Lib == INSTANCE FiniteSetTheorems

\* The library means the same.
LEMMA OneMeaning == \A S : (Lib!IsFiniteSet(S) <=> IsFiniteSet(S)) /\ Lib!Cardinality(S) = Cardinality(S)
<1> USE Zenon
<1>1. \A S : (Lib!IsFiniteSet(S) <=> Listed(S)) /\ Lib!Cardinality(S) = Counted(S)
  BY DEF Lib!IsFiniteSet, Lib!Cardinality, Listed, Counted
<1> QED BY <1>1, Meaning

\* What the lemmas above assume of finite sets is true.
LEMMA CountingHolds == Counting
<1> USE Zenon
<1>1. NothingCounts /\ OneCounts
  BY Lib!FS_EmptySet, Lib!FS_Singleton, OneMeaning DEF NothingCounts, OneCounts
<1>2. CountsAreNatural
  BY Lib!FS_CardinalityType, OneMeaning DEF CountsAreNatural
<1>3. AddingCounts /\ RemovingCounts
  BY Lib!FS_AddElement, Lib!FS_RemoveElement, OneMeaning DEF AddingCounts, RemovingCounts
<1>4. PartsCount
  BY Lib!FS_Subset, OneMeaning DEF PartsCount
<1>5. UnionsCount
  BY Lib!FS_Union, OneMeaning DEF UnionsCount
<1> QED BY <1>1, <1>2, <1>3, <1>4, <1>5 DEF Counting

\* AttemptLimiter.Allow: for every limit, window, table size and order of requests, at most 2 * Attempts - 1
\* requests of one address are let through in any stretch of one window's length, evictions included.
THEOREM AttemptsAreBounded == Spec => []AttemptsBounded
<1>1. Base /\ Windows /\ [Next]_vars => (Base /\ Windows)'
  BY BaseStep, WindowsStep, CountingHolds, Zenon
<1>2. Base /\ Windows => AttemptsBounded
  BY WindowsBound, Zenon
<1>3. Init => Base /\ Windows
  BY BaseInit, WindowsInit, CountingHolds, Zenon
<1> QED BY <1>1, <1>2, <1>3, PTL DEF Spec
=============================================================================
