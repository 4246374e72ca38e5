------------------------------ MODULE AuditLog ------------------------------
(***************************************************************************)
(* What the durable policy audit promises its callers, without chains,     *)
(* locks or transactions: each workspace has an append-only log, a record  *)
(* extends one log by one event or fails without a trace, and a caller     *)
(* that is told "ok" has its event in the log.  A caller that is told      *)
(* "error" may have its event in the log or not.                           *)
(*                                                                         *)
(* AuditChain implements this specification; PolicyEnforcer and            *)
(* AuditExport are built on it.                                            *)
(***************************************************************************)
EXTENDS Sequences

CONSTANTS Workspaces,  \* tenancy.WorkspaceID values
          Txs          \* calls of Record, each used once

VARIABLES log,   \* workspace -> the calls whose events it holds
          told   \* call -> "none", "ok" or "error"

LogInit ==
  /\ log = [w \in Workspaces |-> <<>>]
  /\ told = [t \in Txs |-> "none"]

LogAppend(t, w, answer) ==
  /\ told[t] = "none"
  /\ log' = [log EXCEPT ![w] = Append(@, t)]
  /\ told' = [told EXCEPT ![t] = answer]

LogFail(t) ==
  /\ told[t] = "none"
  /\ told' = [told EXCEPT ![t] = "error"]
  /\ UNCHANGED log

LogNext ==
  \E t \in Txs :
    \/ \E w \in Workspaces, a \in {"ok", "error"} : LogAppend(t, w, a)
    \/ LogFail(t)

LogSpec == LogInit /\ [][LogNext]_<<log, told>>
=============================================================================
