--------------------------- MODULE PolicyEnforcer ---------------------------
(***************************************************************************)
(* The policy enforcement point of internal/pep with the auditor that      *)
(* internal/hubruntime gives it: Enforcer.authorize takes a request        *)
(* through validation, role, policy hook and audit, and the ordered        *)
(* auditor writes the durable log before the process log.  The caller gets *)
(* one of four answers: nil ("allowed"), ErrDenied ("denied"),             *)
(* ErrApprovalRequired ("approval") or another error ("failed").           *)
(***************************************************************************)
EXTENDS Naturals, FiniteSets, AuditLog

CONSTANTS NoRequest    \* a request that was not made yet

\* tenancy.Role and tenancy.Action, and Role.Allows.
Roles == {"reader", "operator", "approver", "admin"}
Actions == {"read", "export-audit", "propose-intent"}
Allows(role, action) ==
  \/ action = "read"
  \/ role = "admin" /\ action = "export-audit"
  \/ role = "operator" /\ action = "propose-intent"

VARIABLES
  stage,       \* request -> how far authorize is
  req,         \* request -> scope and input
  decision,    \* request -> the decision that is recorded
  processLog,  \* requests that the structured log of the process holds
  answer       \* request -> what authorize returned

pepVars == <<stage, req, decision, processLog, answer>>
logVars == <<log, told>>

NoDecision == [verdict |-> "none", reason |-> "none"]

PepInit ==
  /\ LogInit
  /\ stage = [t \in Txs |-> "idle"]
  /\ req = [t \in Txs |-> NoRequest]
  /\ decision = [t \in Txs |-> NoDecision]
  /\ processLog = {}
  /\ answer = [t \in Txs |-> "none"]

PepGoTo(t, s) == stage' = [stage EXCEPT ![t] = s]

-----------------------------------------------------------------------------
(***************************************************************************)
(* authorize, up to the decision                                           *)
(***************************************************************************)

\* AuthorizeRead, AuthorizeAuditExport, AuthorizeProposal; "valid" is the
\* outcome of Request.Validate and of the checks on a proposal: the inputs
\* of the two others are built from constants.
Authorize(t, w, role, action, valid) ==
  /\ stage[t] = "idle"
  /\ valid \/ action = "propose-intent"
  /\ req' = [req EXCEPT ![t] = [ws |-> w, role |-> role, action |-> action,
                                valid |-> valid]]
  /\ PepGoTo(t, "deciding")
  /\ UNCHANGED <<decision, processLog, answer, logVars>>

\* AllowReadHook, and any other PolicyHook: it may also fail ("error") or
\* return something that Decision.Validate rejects ("invalid").
HookAnswers == {"allow", "deny", "require-approval", "error", "invalid"}

\* The decision that authorize records: the order of the checks.
Decide(r, hook) ==
  CASE ~r.valid -> [verdict |-> "deny", reason |-> "invalid-request"]
    [] ~Allows(r.role, r.action) ->
         [verdict |-> "deny", reason |-> "role-denied"]
    [] hook \in {"error", "invalid"} -> [verdict |-> "deny", reason |-> "hook"]
    [] OTHER -> [verdict |-> hook, reason |-> "policy"]

Evaluate(t, hook) ==
  /\ stage[t] = "deciding"
  /\ decision' = [decision EXCEPT ![t] = Decide(req[t], hook)]
  /\ PepGoTo(t, "recording")
  /\ UNCHANGED <<req, processLog, answer, logVars>>

-----------------------------------------------------------------------------
(***************************************************************************)
(* orderedPolicyAuditor.Record, and what authorize returns                 *)
(***************************************************************************)

\* The answer once both sinks hold the decision.
RecordedAnswer(d) ==
  CASE d.verdict = "allow" -> "allowed"
    [] d.verdict = "require-approval" -> "approval"
    [] d.reason = "hook" -> "failed"
    [] OTHER -> "denied"

\* The answer when a sink failed: refuse still returns its classification.
FailOpen(d) == RecordedAnswer(d)                    \* mutant
UnrecordedAnswer(d) ==
  IF d.reason \in {"invalid-request", "role-denied"} THEN "denied"
  ELSE "failed"

Finish(t, a) ==
  /\ answer' = [answer EXCEPT ![t] = a]
  /\ PepGoTo(t, "answered")

\* durable.Record: the transaction of AuditChain; the process sink is next
\* only when it returned nil.
RecordDurable(t) ==
  /\ stage[t] = "recording"
  /\ LogAppend(t, req[t].ws, "ok")
  /\ PepGoTo(t, "logging")
  /\ UNCHANGED <<req, decision, processLog, answer>>

DurableFails(t) ==
  /\ stage[t] = "recording"
  /\ LogFail(t) \/ LogAppend(t, req[t].ws, "error")
  /\ Finish(t, UnrecordedAnswer(decision[t]))
  /\ UNCHANGED <<req, decision, processLog>>

\* process.Record: the structured event, which the handler may refuse.
RecordProcess(t) ==
  /\ stage[t] = "logging"
  /\ processLog' = processLog \union {t}
  /\ Finish(t, RecordedAnswer(decision[t]))
  /\ UNCHANGED <<req, decision, logVars>>

ProcessFails(t) ==
  /\ stage[t] = "logging"
  /\ Finish(t, UnrecordedAnswer(decision[t]))
  /\ UNCHANGED <<req, decision, processLog, logVars>>

-----------------------------------------------------------------------------
(***************************************************************************)
(* Properties                                                              *)
(***************************************************************************)

Times(t, w) == {n \in 1 .. Len(log[w]) : log[w][n] = t}

\* Fail closed: whatever the hook and the two sinks do, a caller is allowed
\* only if its role permits the action and the allow decision is in both
\* logs, once, in the log of the caller's own workspace.
AllowedIsRecorded ==
  \A t \in Txs : answer[t] = "allowed" =>
    /\ decision[t].verdict = "allow"
    /\ Allows(req[t].role, req[t].action)
    /\ t \in processLog
    /\ \A w \in Workspaces :
         Cardinality(Times(t, w)) = IF w = req[t].ws THEN 1 ELSE 0
=============================================================================
