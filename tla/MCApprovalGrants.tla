-------------------------- MODULE MCApprovalGrants --------------------------
(***************************************************************************)
(* Two subjects, each of whom proposes one action and may approve the      *)
(* action of the other while it holds the role for it.  The chain is empty *)
(* or holds one earlier decision, which leaves room for all but one of the *)
(* entries that the transactions would append.                             *)
(***************************************************************************)
EXTENDS ApprovalGrants, TLC

CONSTANTS alice, bob, restart, scale

MCProposerOf == (restart :> alice) @@ (scale :> bob)

Earlier == [seq |-> 1, event |-> [kind |-> "policy-decision", subject |-> NoTx],
            prev |-> ZeroHash,
            hash |-> EntryHash(1, [kind |-> "policy-decision", subject |-> NoTx],
                               ZeroHash)]

InitNearlyFull ==
  /\ heads = [w \in Workspaces |-> HeadRow(1, Earlier.hash)]
  /\ entries = [w \in Workspaces |-> {Earlier}]
  /\ lockedBy = [w \in Workspaces |-> NoTx]
  /\ stage = [t \in Txs |-> "idle"]
  /\ txWs = [t \in Txs |-> NoTx]
  /\ event = [t \in Txs |-> NoEvent]
  /\ seen = [t \in Txs |-> NoHead]
  /\ acked = [t \in Txs |-> "none"]
  /\ clock = 1
  /\ role = (alice :> "operator") @@ (bob :> "approver")
  /\ shares = [s \in Subjects |-> {}]
  /\ grants = {}
  /\ call = [t \in Txs |-> NoCall]
  /\ stmtAt = [t \in Txs |-> 0]
  /\ draft = [t \in Txs |-> NoGrant]

MCSpec == (Init \/ InitNearlyFull) /\ [][Next]_vars

Symmetry == Permutations(Txs)
=============================================================================
