------------------------ MODULE ApprovalGrantsProofs ------------------------
(***************************************************************************)
(* For any number of subjects, proposals and concurrent calls: a grant is  *)
(* created and spent only by members whose roles still allow it when the   *)
(* transaction commits, it is spent once, in time and for its own proposal, *)
(* and the audit chain tells its story.                                    *)
(*                                                                         *)
(* None of these is inductive.  The first rests on the memberships a       *)
(* transaction holds FOR SHARE from its check to its end (MembersHeld), the *)
(* second on what an uncommitted row may look like (DraftOK) and on no two *)
(* transactions having written the same row (DraftsApart), the third on what *)
(* a transaction is about to append being what it wrote (Announces) and on *)
(* the head it holds meanwhile (HeadHeld).                                 *)
(***************************************************************************)
EXTENDS ApprovalGrants, TLAPS

Stages == {"idle", "members", "statement", "writing", "append", "initialized",
           "locked", "appended", "committed", "rolledback"}
Appending == {"append", "initialized", "locked", "appended"}
Grants == [id : Txs, binding : Bindings, approver : Subjects,
           approvedAt : Int, expiresAt : Int, consumedAt : Int]

\* Rows and calls are well formed; an unused transaction has no call.
WellTyped ==
  /\ stage \in [Txs -> Stages]
  /\ clock \in Int
  /\ role \in [Subjects -> Roles]
  /\ shares \in [Subjects -> SUBSET Txs]
  /\ IsFunctionOn(call, Txs) /\ IsFunctionOn(draft, Txs)
  /\ stmtAt \in [Txs -> Int]
  /\ grants \subseteq Grants
  /\ \A t \in Txs : call[t].op # "none" => /\ call[t].subject \in Subjects
                                           /\ call[t].binding \in Bindings
  /\ \A t \in Txs : stage[t] = "idle" => call[t].op = "none"

\* From the check to the end of the transaction the memberships it relies on
\* are locked, and so they still say what the check read.
MembersHeld(t) ==
  call[t].op # "none" /\ stage[t] \in {"statement", "writing"} \union Appending
    => Authorized(t) /\ \A s \in Relies(t) : t \in shares[s]

\* The row the consuming UPDATE leaves of grant g.
Spent(g, at) == [g EXCEPT !.consumedAt = at]

\* The row an open transaction wrote: its own new grant, or a committed and
\* still spendable one with the time of the statement.
DraftOK(t) ==
  draft[t] # NoGrant =>
    /\ stage[t] \in Appending
    /\ \/ call[t].op = "create" /\ draft[t] = GrantRow(t)
       \/ /\ call[t].op = "consume"
          /\ \E g \in grants : /\ Spendable(g, t)
                               /\ draft[t] = Spent(g, stmtAt[t])

DraftsApart ==
  \A t, u \in Txs :
    draft[t] # NoGrant /\ draft[u] # NoGrant /\ draft[t].id = draft[u].id => t = u

\* A grant is known by the transaction that created it.
GrantsMade ==
  /\ \A g \in grants : stage[g.id] = "committed"
  /\ \A g, h \in grants : g.id = h.id => g = h

ApprovalInv ==
  /\ WellTyped
  /\ \A t \in Txs : MembersHeld(t) /\ DraftOK(t)
  /\ DraftsApart
  /\ GrantsMade

-----------------------------------------------------------------------------
(***************************************************************************)
(* The invariant holds at first and every step preserves it                *)
(***************************************************************************)

\* Without calls and grants there is nothing to hold.
LEMMA InitEstablishesInv == Init => ApprovalInv
BY DEF Init, ChainInit, ApprovalInv, WellTyped, IsFunctionOn, MembersHeld,
   DraftOK, DraftsApart, GrantsMade, NoCall, Stages, Appending, Grants

\* A transaction that goes on keeps the memberships it holds FOR SHARE.
LEMMA MembersKept ==
  ASSUME NEW u \in Txs, MembersHeld(u),
         call'[u] = call[u],
         stage'[u] \in {"statement", "writing"} \union Appending =>
           stage[u] \in {"statement", "writing"} \union Appending,
         \A s \in Relies(u) : u \in shares[s] => u \in shares'[s] /\ role'[s] = role[s]
  PROVE  MembersHeld(u)'
BY Zenon DEF MembersHeld, Authorized, Relies, MayPropose, MayApprove

\* The row it wrote stays good as long as its own state and the row it spends
\* stay as they are.
LEMMA DraftKept ==
  ASSUME NEW u \in Txs, DraftOK(u),
         call'[u] = call[u], stmtAt'[u] = stmtAt[u], draft'[u] = draft[u],
         stage[u] \in Appending => stage'[u] \in Appending,
         \A g \in grants : Spendable(g, u) /\ draft[u] # NoGrant => g \in grants'
  PROVE  DraftOK(u)'
<1> USE Zenon
<1>1. CASE draft[u] = NoGrant
  BY <1>1 DEF DraftOK
<1>2. CASE draft[u] # NoGrant /\ call[u].op = "create" /\ draft[u] = GrantRow(u)
  BY <1>2 DEF DraftOK, GrantRow
<1>3. CASE draft[u] # NoGrant /\ call[u].op = "consume"
  <2>1. PICK g \in grants : /\ Spendable(g, u)
                            /\ draft[u] = Spent(g, stmtAt[u])
    BY <1>3 DEF DraftOK
  <2>2. g \in grants' /\ Spendable(g, u)'
    BY <1>3, <2>1 DEF Spendable
  <2>3. draft'[u] = Spent(g, stmtAt'[u])
    BY <2>1
  <2> QED BY <1>3, <2>2, <2>3 DEF DraftOK
<1> QED BY <1>1, <1>2, <1>3 DEF DraftOK

\* A call arrives: CreateApprovalGrant or ConsumeApprovalGrant before its
\* transaction reads anything.
LEMMA CallPreservesInv ==
  ASSUME ApprovalInv, NEW t \in Txs, stage[t] = "idle",
         NEW c, call' = [call EXCEPT ![t] = c],
         c.op # "none" => c.subject \in Subjects /\ c.binding \in Bindings,
         stage' = [stage EXCEPT ![t] = "members"],
         UNCHANGED <<clock, role, shares, grants, stmtAt, draft>>
  PROVE  ApprovalInv'
<1> USE Zenon
<1>1. WellTyped'
  BY DEF ApprovalInv, WellTyped, IsFunctionOn, Stages
<1>2. ASSUME NEW u \in Txs PROVE MembersHeld(u)' /\ DraftOK(u)'
  <2>1. CASE u = t
    BY <2>1 DEF ApprovalInv, WellTyped, IsFunctionOn, MembersHeld, DraftOK, Appending
  <2>2. CASE u # t
    <3>1. stage'[u] = stage[u] /\ call'[u] = call[u]
      BY <2>2 DEF ApprovalInv, WellTyped, IsFunctionOn
    <3> QED BY <3>1, MembersKept, DraftKept DEF ApprovalInv
  <2> QED BY <2>1, <2>2
<1>3. DraftsApart'
  BY DEF ApprovalInv, DraftsApart
<1>4. GrantsMade'
  BY DEF ApprovalInv, WellTyped, GrantsMade, Grants
<1> QED BY <1>1, <1>2, <1>3, <1>4 DEF ApprovalInv

\* Record's own transactions have no call and write no grant.
LEMMA RecordPreservesInv ==
  ASSUME ApprovalInv, NEW t \in Txs, NEW w \in Workspaces, RecordDecision(t, w)
  PROVE  ApprovalInv'
<1> USE Zenon
<1> USE DEF RecordDecision, Record, BeginAppend, approvalVars
<1>1. WellTyped'
  BY DEF ApprovalInv, WellTyped, IsFunctionOn, Stages
<1>2. ASSUME NEW u \in Txs PROVE MembersHeld(u)' /\ DraftOK(u)'
  <2>1. CASE u = t
    BY <2>1 DEF ApprovalInv, WellTyped, MembersHeld, DraftOK, Appending
  <2>2. CASE u # t
    <3>1. stage'[u] = stage[u]
      BY <2>2 DEF ApprovalInv, WellTyped
    <3> QED BY <3>1, MembersKept, DraftKept DEF ApprovalInv
  <2> QED BY <2>1, <2>2
<1>3. DraftsApart'
  BY DEF ApprovalInv, DraftsApart
<1>4. GrantsMade'
  BY DEF ApprovalInv, WellTyped, GrantsMade, Grants
<1> QED BY <1>1, <1>2, <1>3, <1>4 DEF ApprovalInv

\* The memberships are read and locked in one statement.
LEMMA CheckMembersPreservesInv ==
  ASSUME ApprovalInv, NEW t \in Txs, CheckMembers(t)
  PROVE  ApprovalInv'
<1> USE Zenon
<1> USE DEF CheckMembers, SharesTaken, GoTo
<1>1. WellTyped'
  BY DEF ApprovalInv, WellTyped, IsFunctionOn, Stages
<1>2. ASSUME NEW u \in Txs PROVE MembersHeld(u)' /\ DraftOK(u)'
  <2>1. CASE u = t
    <3>1. call[t].op # "none" => Relies(t) \subseteq Subjects
      BY BindingAssumption DEF ApprovalInv, WellTyped, Relies
    <3>2. MembersHeld(t)'
      BY <3>1 DEF MembersHeld, Authorized, Relies, MayPropose, MayApprove
    <3>3. DraftOK(t)'
      BY DEF ApprovalInv, DraftOK, Appending
    <3> QED BY <2>1, <3>2, <3>3
  <2>2. CASE u # t
    <3>1. stage'[u] = stage[u]
      BY <2>2 DEF ApprovalInv, WellTyped
    <3>2. \A s \in Subjects : u \in shares[s] => u \in shares'[s]
      OBVIOUS
    <3>3. call[u].op # "none" => Relies(u) \subseteq Subjects
      BY BindingAssumption DEF ApprovalInv, WellTyped, Relies
    <3>4. MembersHeld(u)'
      BY <3>1, <3>2, <3>3 DEF ApprovalInv, MembersHeld, Authorized, Relies, MayPropose, MayApprove
    <3>5. DraftOK(u)'
      BY <3>1, DraftKept DEF ApprovalInv
    <3> QED BY <3>4, <3>5
  <2> QED BY <2>1, <2>2
<1>3. DraftsApart'
  BY DEF ApprovalInv, DraftsApart
<1>4. GrantsMade'
  BY DEF ApprovalInv, WellTyped, GrantsMade, Grants
<1> QED BY <1>1, <1>2, <1>3, <1>4 DEF ApprovalInv

\* The statement starts; nothing was written yet.
LEMMA StartStatementPreservesInv ==
  ASSUME ApprovalInv, NEW t \in Txs, StartStatement(t)
  PROVE  ApprovalInv'
<1> USE Zenon
<1> USE DEF StartStatement, GoTo
<1>1. WellTyped'
  BY DEF ApprovalInv, WellTyped, IsFunctionOn, Stages
<1>2. ASSUME NEW u \in Txs PROVE MembersHeld(u)' /\ DraftOK(u)'
  <2>1. stage'[u] = stage[u] \/ (u = t /\ stage[u] = "statement" /\ stage'[u] = "writing")
    BY DEF ApprovalInv, WellTyped
  <2>2. MembersHeld(u)'
    BY <2>1, MembersKept DEF ApprovalInv
  <2>3. DraftOK(u)'
    <3>1. CASE u = t
      BY <3>1 DEF ApprovalInv, DraftOK, Appending
    <3>2. CASE u # t
      <4>1. stmtAt'[u] = stmtAt[u] /\ stage'[u] = stage[u]
        BY <3>2 DEF ApprovalInv, WellTyped
      <4> QED BY <4>1, DraftKept DEF ApprovalInv
    <3> QED BY <3>1, <3>2
  <2> QED BY <2>2, <2>3
<1>3. DraftsApart'
  BY DEF ApprovalInv, DraftsApart
<1>4. GrantsMade'
  BY DEF ApprovalInv, WellTyped, GrantsMade, Grants
<1> QED BY <1>1, <1>2, <1>3, <1>4 DEF ApprovalInv

\* A write puts the transaction into its append, with a row that DraftOK
\* admits and whose identifier no other open transaction has written.
LEMMA WritePreservesInv ==
  ASSUME ApprovalInv, NEW t \in Txs, NEW g, NEW kind, Wrote(t, g, kind),
         stage[t] = "writing", g # NoGrant,
         \/ call[t].op = "create" /\ g = GrantRow(t)
         \/ /\ call[t].op = "consume"
            /\ \E h \in grants : Spendable(h, t) /\ g = Spent(h, stmtAt[t]),
         \A u \in Txs \ {t} : draft[u] # NoGrant => draft[u].id # g.id
  PROVE  ApprovalInv'
<1> USE Zenon
<1>0. /\ stage' = [stage EXCEPT ![t] = "append"]
      /\ draft' = [draft EXCEPT ![t] = g]
      /\ UNCHANGED <<clock, role, shares, grants, call, stmtAt>>
  BY DEF Wrote, BeginAppend
<1>1. WellTyped'
  BY <1>0 DEF ApprovalInv, WellTyped, IsFunctionOn, Stages
<1>2. ASSUME NEW u \in Txs PROVE MembersHeld(u)' /\ DraftOK(u)'
  <2>1. stage'[u] = stage[u] \/ (u = t /\ stage[u] = "writing" /\ stage'[u] = "append")
    BY <1>0 DEF ApprovalInv, WellTyped
  <2>2. MembersHeld(u)'
    BY <1>0, <2>1, MembersKept DEF ApprovalInv
  <2>3. DraftOK(u)'
    <3>1. CASE u = t
      <4>1. draft'[t] = g /\ stage'[t] \in Appending
        BY <1>0 DEF ApprovalInv, WellTyped, IsFunctionOn, Appending
      <4>2. GrantRow(t)' = GrantRow(t)
        BY <1>0 DEF GrantRow
      <4>3. \A h : Spendable(h, t)' <=> Spendable(h, t)
        BY <1>0 DEF Spendable
      <4> QED BY <1>0, <3>1, <4>1, <4>2, <4>3 DEF DraftOK
    <3>2. CASE u # t
      <4>1. draft'[u] = draft[u] /\ stage'[u] = stage[u]
        BY <1>0, <3>2 DEF ApprovalInv, WellTyped, IsFunctionOn
      <4> QED BY <1>0, <4>1, DraftKept DEF ApprovalInv
    <3> QED BY <3>1, <3>2
  <2> QED BY <2>2, <2>3
<1>3. DraftsApart'
  BY <1>0 DEF ApprovalInv, WellTyped, IsFunctionOn, DraftsApart
<1>4. GrantsMade'
  BY <1>0 DEF ApprovalInv, WellTyped, GrantsMade, Grants
<1> QED BY <1>1, <1>2, <1>3, <1>4 DEF ApprovalInv

\* An uncommitted row that spends a grant carries that grant's identifier.
LEMMA SpentId ==
  ASSUME NEW g \in Grants, NEW at \in Int
  PROVE  /\ Spent(g, at) \in Grants
         /\ Spent(g, at).id = g.id
         /\ Spent(g, at).consumedAt = at
BY Zenon DEF Spent, Grants

\* A new row has the identifier of its own transaction, which is no
\* committed grant that another transaction could be spending.
LEMMA InsertPreservesInv ==
  ASSUME ApprovalInv, NEW t \in Txs, InsertGrant(t)
  PROVE  ApprovalInv'
<1>1. GrantRow(t).id = t /\ GrantRow(t) # NoGrant
  BY NoTxAssumption, Zenon DEF GrantRow, NoGrant
<1>2. ASSUME NEW u \in Txs \ {t}, draft[u] # NoGrant
      PROVE  draft[u].id # t
  <2>1. CASE draft[u] = GrantRow(u)
    BY <2>1 DEF GrantRow
  <2>2. CASE draft[u] # GrantRow(u)
    <3>1. PICK g \in grants : draft[u] = Spent(g, stmtAt[u])
      BY <1>2, <2>2, Zenon DEF ApprovalInv, DraftOK
    <3>2. draft[u].id = g.id /\ stage[g.id] = "committed"
      BY <3>1, SpentId DEF ApprovalInv, WellTyped, GrantsMade
    <3> QED BY <3>2, Zenon DEF InsertGrant
  <2> QED BY <2>1, <2>2, Zenon
<1> QED BY <1>1, <1>2, WritePreservesInv, Zenon DEF InsertGrant

\* The row lock keeps a second consumer out while the first is open.
LEMMA UpdatePreservesInv ==
  ASSUME ApprovalInv, NEW t \in Txs, UpdateGrant(t)
  PROVE  ApprovalInv'
<1>1. PICK g \in grants : /\ Spendable(g, t)
                          /\ Wrote(t, Spent(g, stmtAt[t]), "approval-consumed")
  BY Zenon DEF UpdateGrant, Spent
<1>2. Spent(g, stmtAt[t]).id = call[t].grant /\ Spent(g, stmtAt[t]).id \in Txs
  BY <1>1, SpentId, Zenon DEF ApprovalInv, WellTyped, Spendable, Grants
<1>3. Spent(g, stmtAt[t]) # NoGrant
  BY <1>2, NoTxAssumption DEF NoGrant
<1>4. \A u \in Txs \ {t} : draft[u] # NoGrant => draft[u].id # call[t].grant
  BY Zenon DEF UpdateGrant, RowBusy
<1> QED BY <1>1, <1>2, <1>3, <1>4, WritePreservesInv, Zenon DEF UpdateGrant

\* The statements of appendPolicyAuditEntryTx move the transaction on and
\* touch neither memberships nor grants.
LEMMA AppendPreservesInv ==
  ASSUME ApprovalInv, NEW t \in Txs, Append(t)
  PROVE  ApprovalInv'
<1> USE Zenon
<1>0. PICK s \in Appending : /\ stage[t] \in Appending
                             /\ stage' = [stage EXCEPT ![t] = s]
                             /\ UNCHANGED approvalVars
  BY DEF Append, InitHead, LockHead, AppendEntry, Appending
<1> USE DEF approvalVars
<1>1. WellTyped'
  BY <1>0 DEF ApprovalInv, WellTyped, IsFunctionOn, Stages, Appending
<1>2. ASSUME NEW u \in Txs PROVE MembersHeld(u)' /\ DraftOK(u)'
  <2>1. stage'[u] = stage[u] \/ (stage[u] \in Appending /\ stage'[u] \in Appending)
    BY <1>0 DEF ApprovalInv, WellTyped
  <2> QED BY <1>0, <2>1, MembersKept, DraftKept DEF ApprovalInv
<1>3. DraftsApart'
  BY <1>0 DEF ApprovalInv, DraftsApart
<1>4. GrantsMade'
  BY <1>0 DEF ApprovalInv, WellTyped, GrantsMade, Grants, Appending
<1> QED BY <1>1, <1>2, <1>3, <1>4 DEF ApprovalInv

\* A rollback drops the row and the locks of its own transaction only.
LEMMA RollbackPreservesInv ==
  ASSUME ApprovalInv, NEW t \in Txs, stage[t] # "committed",
         Rollback(t), RolledBack(t)
  PROVE  ApprovalInv'
<1> USE Zenon
<1> USE DEF Rollback, RolledBack, Release, SharesLeft
<1>1. WellTyped'
  BY DEF ApprovalInv, WellTyped, IsFunctionOn, Stages
<1>2. ASSUME NEW u \in Txs PROVE MembersHeld(u)' /\ DraftOK(u)'
  <2>1. CASE u = t
    BY <2>1 DEF ApprovalInv, WellTyped, IsFunctionOn, MembersHeld, DraftOK, Appending
  <2>2. CASE u # t
    <3>1. stage'[u] = stage[u] /\ draft'[u] = draft[u]
      BY <2>2 DEF ApprovalInv, WellTyped, IsFunctionOn
    <3>2. \A s \in Subjects : u \in shares[s] => u \in shares'[s]
      BY <2>2
    <3>3. call[u].op # "none" => Relies(u) \subseteq Subjects
      BY BindingAssumption DEF ApprovalInv, WellTyped, Relies
    <3>4. MembersHeld(u)'
      BY <3>1, <3>2, <3>3 DEF ApprovalInv, MembersHeld, Authorized, Relies, MayPropose, MayApprove
    <3>5. DraftOK(u)'
      BY <3>1, DraftKept DEF ApprovalInv
    <3> QED BY <3>4, <3>5
  <2> QED BY <2>1, <2>2
<1>3. DraftsApart'
  BY DEF ApprovalInv, WellTyped, IsFunctionOn, DraftsApart
<1>4. GrantsMade'
  BY DEF ApprovalInv, WellTyped, GrantsMade, Grants
<1> QED BY <1>1, <1>2, <1>3, <1>4 DEF ApprovalInv

\* What a commit does to the table: nothing, one new grant, or one spent one.
LEMMA CommitWrites ==
  ASSUME ApprovalInv, NEW t \in Txs, stage[t] = "appended"
  PROVE  \/ CommittedGrants(t) = grants
         \/ /\ draft[t] = GrantRow(t) /\ GrantRow(t) \in Grants /\ GrantRow(t).id = t
            /\ CommittedGrants(t) = grants \union {GrantRow(t)}
         \/ \E g \in grants :
              /\ Spendable(g, t) /\ draft[t] = Spent(g, stmtAt[t])
              /\ CommittedGrants(t) = (grants \ {g}) \union {Spent(g, stmtAt[t])}
<1>1. CASE draft[t] = NoGrant
  BY <1>1, Zenon DEF CommittedGrants
<1>2. CASE draft[t] # NoGrant /\ call[t].op = "create" /\ draft[t] = GrantRow(t)
  <2>1. GrantRow(t) \in Grants /\ GrantRow(t).id = t
    BY <1>2, LifetimeAssumption DEF ApprovalInv, WellTyped, GrantRow, Grants, Pending
  <2>2. \A g \in grants : g.id # t
    BY Zenon DEF ApprovalInv, GrantsMade
  <2> QED BY <1>2, <2>1, <2>2, Zenon DEF CommittedGrants
<1>3. CASE draft[t] # NoGrant /\ call[t].op = "consume"
  <2>1. PICK g \in grants : Spendable(g, t) /\ draft[t] = Spent(g, stmtAt[t])
    BY <1>3, Zenon DEF ApprovalInv, DraftOK
  <2>2. draft[t].id = g.id
    BY <2>1, SpentId DEF ApprovalInv, WellTyped
  <2>3. {h \in grants : h.id # draft[t].id} = grants \ {g}
    BY <2>2, Zenon DEF ApprovalInv, GrantsMade
  <2>4. CommittedGrants(t) = {h \in grants : h.id # draft[t].id} \union {draft[t]}
    BY <1>3, Zenon DEF CommittedGrants
  <2>5. CommittedGrants(t) = (grants \ {g}) \union {Spent(g, stmtAt[t])}
    BY <2>1, <2>3, <2>4, Zenon
  <2> QED BY <2>1, <2>5, Zenon
<1> QED BY <1>1, <1>2, <1>3, Zenon DEF ApprovalInv, DraftOK

\* The commit publishes the row and lets the memberships go; the row another
\* transaction is spending is not the one that changed.
LEMMA CommitPreservesInv ==
  ASSUME ApprovalInv, NEW t \in Txs, Commit(t)
  PROVE  ApprovalInv'
<1>0. /\ stage[t] = "appended" /\ stage' = [stage EXCEPT ![t] = "committed"]
      /\ grants' = CommittedGrants(t)
      /\ shares' = [s \in Subjects |-> shares[s] \ {t}]
      /\ draft' = [draft EXCEPT ![t] = NoGrant]
      /\ UNCHANGED <<clock, role, call, stmtAt>>
  BY Zenon DEF Commit, CommitAppend, Release, SharesLeft
<1>1. grants' \subseteq Grants
  BY <1>0, CommitWrites, SpentId DEF ApprovalInv, WellTyped
<1>2. WellTyped'
  BY <1>0, <1>1, Zenon DEF ApprovalInv, WellTyped, IsFunctionOn, Stages
<1>3. ASSUME NEW u \in Txs PROVE MembersHeld(u)' /\ DraftOK(u)'
  <2>1. CASE u = t
    BY <1>0, <2>1, Zenon DEF ApprovalInv, WellTyped, IsFunctionOn, MembersHeld, DraftOK, Appending
  <2>2. CASE u # t
    <3>1. stage'[u] = stage[u] /\ draft'[u] = draft[u]
      BY <1>0, <2>2, Zenon DEF ApprovalInv, WellTyped, IsFunctionOn
    <3>2. \A s \in Subjects : u \in shares[s] => u \in shares'[s]
      BY <1>0, <2>2, Zenon
    <3>3. call[u].op # "none" => Relies(u) \subseteq Subjects
      BY BindingAssumption, Zenon DEF ApprovalInv, WellTyped, Relies
    <3>4. MembersHeld(u)'
      BY <1>0, <3>1, <3>2, <3>3, Zenon DEF ApprovalInv, MembersHeld, Authorized, Relies, MayPropose, MayApprove
    <3>5. CASE draft[u] = NoGrant
      BY <3>1, <3>4, <3>5, Zenon DEF DraftOK
    <3>6. CASE draft[u] # NoGrant /\ draft[u] = GrantRow(u) /\ call[u].op = "create"
      <4> USE Zenon
      <4>1. GrantRow(u)' = GrantRow(u)
        BY <1>0 DEF GrantRow
      <4> QED BY <1>0, <3>1, <3>4, <3>6, <4>1 DEF ApprovalInv, DraftOK
    <3>7. CASE draft[u] # NoGrant /\ call[u].op = "consume"
      <4>1. PICK h \in grants : Spendable(h, u) /\ draft[u] = Spent(h, stmtAt[u])
        BY <3>7, Zenon DEF ApprovalInv, DraftOK
      <4>2. draft[u].id = h.id
        BY <4>1, SpentId DEF ApprovalInv, WellTyped
      <4>3. h \in grants'
        <5> USE Zenon
        <5>1. draft[t] # NoGrant => draft[t].id # h.id
          BY <2>2, <3>7, <4>2 DEF ApprovalInv, DraftsApart
        <5> QED BY <1>0, <5>1 DEF CommittedGrants
      <4>4. Spendable(h, u)' /\ draft'[u] = Spent(h, stmtAt'[u])
        BY <1>0, <3>1, <4>1, Zenon DEF Spendable
      <4> QED BY <1>0, <3>1, <3>4, <3>7, <4>3, <4>4, Zenon DEF ApprovalInv, DraftOK
    <3> QED BY <3>5, <3>6, <3>7, Zenon DEF ApprovalInv, DraftOK
  <2> QED BY <2>1, <2>2, Zenon
<1>4. DraftsApart'
  BY <1>0, Zenon DEF ApprovalInv, WellTyped, IsFunctionOn, DraftsApart
<1>5. GrantsMade'
  <2>1. \A g \in grants : stage'[g.id] = "committed"
    BY <1>0, Zenon DEF ApprovalInv, WellTyped, GrantsMade, Grants
  <2>2. stage'[t] = "committed"
    BY <1>0, Zenon DEF ApprovalInv, WellTyped
  <2>3. \A g \in grants : Spent(g, stmtAt[t]).id = g.id
    BY SpentId, Zenon DEF ApprovalInv, WellTyped
  <2>4. \A g \in grants : g.id # t
    BY <1>0, Zenon DEF ApprovalInv, GrantsMade
  <2> QED BY <1>0, <2>1, <2>2, <2>3, <2>4, CommitWrites DEF ApprovalInv, GrantsMade
<1> QED BY <1>2, <1>3, <1>4, <1>5, Zenon DEF ApprovalInv

\* A membership nobody holds FOR SHARE changes: nobody relies on it.
LEMMA SetRolePreservesInv ==
  ASSUME ApprovalInv, NEW s \in Subjects, NEW r \in Roles, SetRole(s, r)
  PROVE  ApprovalInv'
<1> USE Zenon
<1> USE DEF SetRole, chainVars
<1>1. WellTyped'
  BY DEF ApprovalInv, WellTyped, IsFunctionOn
<1>2. ASSUME NEW u \in Txs PROVE MembersHeld(u)' /\ DraftOK(u)'
  <2>1. \A x \in Subjects : u \in shares[x] => role'[x] = role[x]
    BY DEF ApprovalInv, WellTyped
  <2>2. call[u].op # "none" => Relies(u) \subseteq Subjects
    BY BindingAssumption DEF ApprovalInv, WellTyped, Relies
  <2>3. MembersHeld(u)'
    BY <2>1, <2>2 DEF ApprovalInv, MembersHeld, Authorized, Relies, MayPropose, MayApprove
  <2>4. DraftOK(u)'
    BY DraftKept DEF ApprovalInv
  <2> QED BY <2>3, <2>4
<1>3. DraftsApart' /\ GrantsMade'
  BY DEF ApprovalInv, DraftsApart, GrantsMade
<1> QED BY <1>1, <1>2, <1>3 DEF ApprovalInv

\* Every step, one action after the other.
LEMMA NextPreservesInv == ApprovalInv /\ [Next]_vars => ApprovalInv'
<1> SUFFICES ASSUME ApprovalInv, [Next]_vars PROVE ApprovalInv'
  BY Zenon
<1>1. ASSUME NEW t \in Txs, NEW s \in Subjects, NEW b \in Bindings, Create(t, s, b)
      PROVE  ApprovalInv'
  BY <1>1, CallPreservesInv, Zenon DEF Create, GoTo
<1>2. ASSUME NEW t \in Txs, NEW b \in Bindings, NEW g \in Txs \union {NoTx}, Consume(t, b, g)
      PROVE  ApprovalInv'
  BY <1>2, CallPreservesInv, BindingAssumption, Zenon DEF Consume, GoTo
<1>3. ASSUME NEW t \in Txs, NEW w \in Workspaces, RecordDecision(t, w)
      PROVE  ApprovalInv'
  BY <1>3, RecordPreservesInv, Zenon
<1>4. ASSUME NEW t \in Txs, TxStep(t) PROVE ApprovalInv'
  <2> USE Zenon
  <2>1. CASE CheckMembers(t)
    BY <2>1, CheckMembersPreservesInv
  <2>2. CASE StartStatement(t)
    BY <2>2, StartStatementPreservesInv
  <2>3. CASE InsertGrant(t)
    BY <2>3, InsertPreservesInv
  <2>4. CASE UpdateGrant(t)
    BY <2>4, UpdatePreservesInv
  <2>5. CASE Unavailable(t)
    BY <2>5, RollbackPreservesInv DEF Unavailable
  <2>6. CASE Append(t)
    BY <2>6, AppendPreservesInv
  <2>7. CASE AppendFails(t)
    BY <2>7, RollbackPreservesInv DEF AppendFails, FailAppend
  <2>8. CASE Commit(t)
    BY <2>8, CommitPreservesInv
  <2> QED BY <1>4, <2>1, <2>2, <2>3, <2>4, <2>5, <2>6, <2>7, <2>8 DEF TxStep
<1>5. ASSUME NEW t \in Txs, Abort(t) PROVE ApprovalInv'
  BY <1>5, RollbackPreservesInv, Zenon DEF Abort, Interrupt, Open
<1>6. ASSUME NEW s \in Subjects, NEW r \in Roles, SetRole(s, r) PROVE ApprovalInv'
  BY <1>6, SetRolePreservesInv, Zenon
<1>7. ASSUME clock' \in Int, UNCHANGED <<chainVars, role, shares, grants, call, stmtAt, draft>>
      PROVE  ApprovalInv'
  <2> USE Zenon
  <2>1. WellTyped' /\ DraftsApart' /\ GrantsMade'
    BY <1>7 DEF chainVars, ApprovalInv, WellTyped, IsFunctionOn, DraftsApart, GrantsMade
  <2>2. \A u \in Txs : MembersHeld(u)' /\ DraftOK(u)'
    BY <1>7, MembersKept, DraftKept DEF chainVars, ApprovalInv
  <2> QED BY <2>1, <2>2 DEF ApprovalInv
<1>8. CASE Tick \/ Quiet \/ UNCHANGED vars
  <2>1. clock \in Int
    BY Zenon DEF ApprovalInv, WellTyped
  <2> QED BY <1>7, <1>8, <2>1 DEF Tick, Quiet, vars, approvalVars
<1> QED BY <1>1, <1>2, <1>3, <1>4, <1>5, <1>6, <1>8, Zenon DEF Next

\* The invariant holds in every state.
THEOREM InvHolds == Spec => []ApprovalInv
<1> QED BY InitEstablishesInv, NextPreservesInv, PTL DEF Spec

-----------------------------------------------------------------------------
(***************************************************************************)
(* What follows from it                                                    *)
(***************************************************************************)

\* Only Commit ends a transaction as committed.
LEMMA OnlyCommitCommits ==
  ASSUME ApprovalInv, [Next]_vars, NEW t \in Txs,
         stage[t] # "committed", stage'[t] = "committed"
  PROVE  Commit(t)
<1> USE Zenon
<1> USE DEF ApprovalInv, WellTyped
<1>1. ASSUME NEW u \in Txs, NEW x, stage' = [stage EXCEPT ![u] = x], x # "committed"
      PROVE  FALSE
  BY <1>1
<1>2. ASSUME UNCHANGED stage PROVE FALSE
  BY <1>2
<1>3. ASSUME NEW u \in Txs, NEW s \in Subjects, NEW b \in Bindings, Create(u, s, b) PROVE FALSE
  BY <1>1, <1>3 DEF Create, GoTo
<1>4. ASSUME NEW u \in Txs, NEW b \in Bindings, NEW g \in Txs \union {NoTx}, Consume(u, b, g)
      PROVE  FALSE
  BY <1>1, <1>4 DEF Consume, GoTo
<1>5. ASSUME NEW u \in Txs, NEW w \in Workspaces, RecordDecision(u, w) PROVE FALSE
  BY <1>1, <1>5 DEF RecordDecision, Record, BeginAppend
<1>6. ASSUME NEW u \in Txs, CheckMembers(u) \/ StartStatement(u) PROVE FALSE
  BY <1>1, <1>6 DEF CheckMembers, StartStatement, GoTo
<1>7. ASSUME NEW u \in Txs, InsertGrant(u) \/ UpdateGrant(u) PROVE FALSE
  BY <1>1, <1>7 DEF InsertGrant, UpdateGrant, Wrote, BeginAppend
<1>8. ASSUME NEW u \in Txs, Unavailable(u) \/ AppendFails(u) \/ Abort(u) PROVE FALSE
  BY <1>1, <1>8 DEF Unavailable, AppendFails, FailAppend, Abort, Interrupt, Rollback
<1>9. ASSUME NEW u \in Txs, Append(u) PROVE FALSE
  BY <1>1, <1>9 DEF Append, InitHead, LockHead, AppendEntry
<1>10. ASSUME NEW u \in Txs, Commit(u) PROVE u = t
  BY <1>10 DEF Commit, CommitAppend
<1>11. ASSUME \/ \E s \in Subjects, r \in Roles : SetRole(s, r)
              \/ Tick \/ Quiet \/ UNCHANGED vars
       PROVE  FALSE
  BY <1>2, <1>11 DEF SetRole, Tick, Quiet, vars, chainVars
<1> QED BY <1>3, <1>4, <1>5, <1>6, <1>7, <1>8, <1>9, <1>10, <1>11 DEF Next, TxStep

\* No role change slips between the check of a creation or a consumption and
\* its commit: the memberships are locked FOR SHARE until then.
THEOREM RolesHoldAtCommit == Spec => AuthorizedAtCommit
<1>1. ApprovalInv /\ [Next]_vars =>
        [\A t \in Txs : /\ call[t].op # "none"
                        /\ stage[t] # "committed" /\ stage'[t] = "committed"
                        => Authorized(t)]_vars
  BY OnlyCommitCommits, Zenon DEF Commit, CommitAppend, ApprovalInv, MembersHeld, Appending
<1> QED BY <1>1, InvHolds, PTL DEF Spec, AuthorizedAtCommit

\* A grant is never removed and changes at most once, when its own proposal
\* is consumed by a statement that started within its lifetime.
THEOREM GrantsSpentInTime == Spec => SpentOnlyInTime
<1> DEFINE Kept(g) ==
      \E h \in grants' :
        \/ h = g
        \/ /\ g.consumedAt = Pending
           /\ h = [g EXCEPT !.consumedAt = h.consumedAt]
           /\ g.approvedAt <= h.consumedAt /\ h.consumedAt < g.expiresAt
           /\ \E t \in Txs : /\ stage'[t] = "committed" /\ stage[t] # stage'[t]
                             /\ call[t].binding = g.binding
<1>1. ASSUME ApprovalInv, [Next]_vars, NEW g \in grants PROVE Kept(g)
  <2>1. CASE UNCHANGED grants
    BY <2>1, Zenon
  <2>2. ASSUME NEW t \in Txs, Commit(t) PROVE Kept(g)
    <3>1. /\ stage[t] = "appended" /\ stage'[t] = "committed"
          /\ grants' = CommittedGrants(t)
      BY <1>1, <2>2, Zenon DEF Commit, CommitAppend, ApprovalInv, WellTyped
    <3>2. CASE g \in grants'
      BY <3>2, Zenon
    <3>3. CASE g \notin grants'
      <4>1. PICK x \in grants :
              /\ Spendable(x, t)
              /\ CommittedGrants(t) = (grants \ {x}) \union {Spent(x, stmtAt[t])}
        BY <1>1, <3>1, <3>3, CommitWrites, Zenon
      <4>2. x = g
        BY <1>1, <3>1, <3>3, <4>1, Zenon
      <4>3. Spent(g, stmtAt[t]) \in grants' /\ Spent(g, stmtAt[t]).consumedAt = stmtAt[t]
        BY <1>1, <3>1, <4>1, <4>2, SpentId DEF ApprovalInv, WellTyped
      <4>4. Spent(g, stmtAt[t]) = [g EXCEPT !.consumedAt = Spent(g, stmtAt[t]).consumedAt]
        BY <4>3, Zenon DEF Spent
      <4> QED BY <3>1, <4>1, <4>2, <4>3, <4>4, Zenon DEF Spendable
    <3> QED BY <3>2, <3>3, Zenon
  <2>3. UNCHANGED grants \/ \E t \in Txs : Commit(t)
    BY <1>1, Zenon DEF Next, Create, Consume, RecordDecision, TxStep, CheckMembers,
       StartStatement, InsertGrant, UpdateGrant, Wrote, Unavailable, RolledBack,
       Append, AppendFails, Abort, SetRole, Tick, Quiet, vars, approvalVars
  <2> QED BY <2>1, <2>2, <2>3, Zenon
<1>2. ApprovalInv /\ [Next]_vars => [\A g \in grants : Kept(g)]_vars
  BY <1>1, Zenon
<1> QED BY <1>2, InvHolds, PTL DEF Spec, SpentOnlyInTime

-----------------------------------------------------------------------------
(***************************************************************************)
(* The chain and the table tell the same story                             *)
(***************************************************************************)
\* The entries of one kind about one grant.
Lines(E, kind, x) == {e \in E : e.event.kind = kind /\ e.event.subject = x}

\* The chain tells of grant g: its creation, and its consumption, later, if it is spent.
Told(E, g) ==
  \E m \in E :
    /\ Lines(E, "approval-created", g.id) = {m}
    /\ IF g.consumedAt = Pending THEN Lines(E, "approval-consumed", g.id) = {}
       ELSE \E u \in E : Lines(E, "approval-consumed", g.id) = {u} /\ m.seq < u.seq
Ledger(E, G) ==
  /\ \A g \in G : Told(E, g)
  /\ \A e \in E : e.event.kind \in {"approval-created", "approval-consumed"} => \E g \in G : g.id = e.event.subject

\* What an open transaction is about to tell is what it wrote.
Announces(t) ==
  stage[t] \in Appending =>
    /\ txWs[t] \in Workspaces
    /\ draft[t] = NoGrant => event[t].kind = "policy-decision"
    /\ draft[t] # NoGrant /\ call[t].op = "create" =>
         event[t].kind = "approval-created" /\ event[t].subject = t
    /\ draft[t] # NoGrant /\ call[t].op = "consume" =>
         event[t].kind = "approval-consumed" /\ event[t].subject = draft[t].id
\* The database clock starts after the time that stands for NULL.
Timed(t) == stage[t] = "writing" \/ draft[t] # NoGrant => stmtAt[t] >= 1
\* It holds the head from its FOR UPDATE to its end.
HeadHeld(t) == stage[t] \in {"locked", "appended"} => lockedBy[txWs[t]] = t /\ seen[t] = heads[txWs[t]]

\* The unique key of approval_grants, with the rows that are not committed.
OneKey(g, h) == g.binding = h.binding /\ g.approver = h.approver
KeysApart ==
  /\ \A g, h \in grants : OneKey(g, h) => g = h
  /\ \A t, u \in Txs : draft[t] # NoGrant /\ draft[u] # NoGrant /\ OneKey(draft[t], draft[u]) => t = u
  /\ \A t \in Txs, g \in grants : draft[t] # NoGrant /\ call[t].op = "create" => ~OneKey(draft[t], g)

LedgerInv ==
  /\ WellFormed /\ clock >= 1
  /\ \A w \in Workspaces : /\ heads[w].seq \in Int
                           /\ \A e \in entries[w] : e.seq \in Int /\ e.seq <= heads[w].seq
                           /\ Ledger(entries[w], grants)
  /\ \A t \in Txs : Announces(t) /\ Timed(t) /\ HeadHeld(t)
  /\ KeysApart

\* Without grants and entries there is nothing to tell.
LEMMA LedgerInit == Init => LedgerInv
<1> SUFFICES ASSUME Init PROVE LedgerInv
  BY Zenon
<1>1. WellFormed /\ clock = 1
  BY Zenon DEF Init, ChainInit, WellFormed, IsFunctionOn
<1>2. \A w \in Workspaces : heads[w].seq = 0 /\ entries[w] = {} /\ grants = {}
  BY Zenon DEF Init, ChainInit, NoHead
<1>3. \A t \in Txs : stage[t] = "idle" /\ draft[t] = NoGrant
  BY Zenon DEF Init, ChainInit
<1>4. KeysApart
  BY <1>3, Zenon DEF Init, KeysApart
<1> QED BY <1>1, <1>2, <1>3, <1>4 DEF LedgerInv, Ledger, Announces, Timed, HeadHeld, Appending

\* A transaction that does nothing keeps what it announces and holds.
Stays(u) ==
  /\ stage'[u] = stage[u] /\ txWs'[u] = txWs[u] /\ event'[u] = event[u] /\ seen'[u] = seen[u]
  /\ call'[u] = call[u] /\ stmtAt'[u] = stmtAt[u] /\ draft'[u] = draft[u]

\* One transaction goes on, without a commit.
LEMMA OneGoesOn ==
  ASSUME LedgerInv, NEW t \in Txs, UNCHANGED <<heads, entries, grants, clock>>, WellFormed',
         \A u \in Txs \ {t} : Stays(u),
         \A w \in Workspaces : lockedBy[w] \in Txs \ {t} => lockedBy'[w] = lockedBy[w],
         Announces(t)', Timed(t)', HeadHeld(t)', KeysApart'
  PROVE  LedgerInv'
<1> USE Zenon
<1>1. ASSUME NEW u \in Txs PROVE Announces(u)' /\ Timed(u)' /\ HeadHeld(u)'
  <2>1. CASE u = t
    BY <2>1
  <2>2. CASE u # t
    <3>1. Stays(u) /\ Announces(u) /\ Timed(u) /\ HeadHeld(u)
      BY <2>2 DEF LedgerInv
    <3>2. Announces(u)' /\ Timed(u)'
      BY <3>1 DEF Stays, Announces, Timed
    <3>3. HeadHeld(u)'
      <4>1. SUFFICES ASSUME stage[u] \in {"locked", "appended"}
                     PROVE  lockedBy'[txWs[u]] = u /\ seen[u] = heads[txWs[u]]
        BY <3>1 DEF Stays, HeadHeld
      <4>2. txWs[u] \in Workspaces /\ lockedBy[txWs[u]] = u /\ seen[u] = heads[txWs[u]]
        BY <3>1, <4>1 DEF HeadHeld, Announces, Appending
      <4> QED BY <2>2, <4>2
    <3> QED BY <3>2, <3>3
  <2> QED BY <2>1, <2>2
<1>2. \A w \in Workspaces : /\ heads'[w].seq \in Int
                            /\ \A e \in entries'[w] : e.seq \in Int /\ e.seq <= heads'[w].seq
                            /\ Ledger(entries'[w], grants')
  BY DEF LedgerInv
<1>3. clock' >= 1
  BY DEF LedgerInv
<1> QED BY <1>1, <1>2, <1>3 DEF LedgerInv

\* Keys stay apart while no row is written.
LEMMA KeysStay ==
  ASSUME KeysApart, UNCHANGED grants, \A u \in Txs : draft'[u] \in {draft[u], NoGrant},
         \A u \in Txs : draft[u] # NoGrant => call'[u] = call[u]
  PROVE  KeysApart'
BY Zenon DEF KeysApart

\* An idle transaction has written nothing.
LEMMA NothingYet ==
  ASSUME ApprovalInv, NEW t \in Txs, stage[t] \notin Appending PROVE draft[t] = NoGrant
BY Zenon DEF ApprovalInv, DraftOK

\* Calls and checks.
LEMMA BeforeLedger ==
  ASSUME ApprovalInv, LedgerInv, NEW t \in Txs,
         \/ \E s \in Subjects, b \in Bindings : Create(t, s, b)
         \/ \E b \in Bindings, g \in Txs \union {NoTx} : Consume(t, b, g)
         \/ CheckMembers(t) \/ StartStatement(t)
  PROVE  LedgerInv'
<1> USE Zenon
<1>1. PICK st \in {"members", "statement", "writing"} :
        /\ stage' = [stage EXCEPT ![t] = st] /\ stage[t] \notin Appending
        /\ st = "writing" => stmtAt' = [stmtAt EXCEPT ![t] = clock]
        /\ st # "writing" => UNCHANGED stmtAt
        /\ UNCHANGED <<heads, entries, lockedBy, txWs, event, seen, clock, grants, draft>>
  BY DEF Create, Consume, CheckMembers, StartStatement, GoTo, ChainIdle, Appending
<1>2. UNCHANGED call \/ \E c : call' = [call EXCEPT ![t] = c]
  BY DEF Create, Consume, CheckMembers, StartStatement
<1>3. draft[t] = NoGrant
  BY <1>1, NothingYet
<1>4. \A u \in Txs \ {t} : Stays(u)
  BY <1>1, <1>2 DEF Stays, ApprovalInv, WellTyped, IsFunctionOn
<1>5. WellFormed'
  BY <1>1 DEF LedgerInv, WellFormed, IsFunctionOn
<1>6. stage'[t] = st
  BY <1>1 DEF ApprovalInv, WellTyped
<1>7. Announces(t)' /\ HeadHeld(t)'
  BY <1>6 DEF Announces, HeadHeld, Appending
<1>8. Timed(t)'
  <2>1. st = "writing" => stmtAt'[t] = clock
    BY <1>1 DEF ApprovalInv, WellTyped
  <2> QED BY <1>1, <1>3, <1>6, <2>1 DEF Timed, LedgerInv
<1>9. KeysApart'
  <2>1. \A u \in Txs : draft[u] # NoGrant => call'[u] = call[u]
    BY <1>3, <1>4 DEF Stays
  <2> QED BY <1>1, <2>1, KeysStay DEF LedgerInv
<1> QED BY <1>1, <1>4, <1>5, <1>7, <1>8, <1>9, OneGoesOn

\* An event goes to the chain.
LEMMA AnnouncingLedger ==
  ASSUME ApprovalInv, LedgerInv, NEW t \in Txs, NEW w \in Workspaces, NEW e, NEW g,
         BeginAppend(t, w, e), stage[t] \notin Appending, draft' = [draft EXCEPT ![t] = g],
         UNCHANGED <<clock, grants, call, stmtAt>>,
         g = NoGrant => e.kind = "policy-decision",
         g # NoGrant => stage[t] = "writing",
         g # NoGrant /\ call[t].op = "create" => e.kind = "approval-created" /\ e.subject = t,
         g # NoGrant /\ call[t].op = "consume" => e.kind = "approval-consumed" /\ e.subject = g.id,
         KeysApart'
  PROVE  LedgerInv'
<1> USE Zenon
<1>1. /\ stage' = [stage EXCEPT ![t] = "append"] /\ txWs' = [txWs EXCEPT ![t] = w]
      /\ event' = [event EXCEPT ![t] = e] /\ UNCHANGED <<heads, entries, lockedBy, seen>>
  BY DEF BeginAppend
<1>2. /\ stage'[t] = "append" /\ txWs'[t] = w /\ event'[t] = e /\ draft'[t] = g
      /\ \A u \in Txs \ {t} : Stays(u)
  BY <1>1 DEF Stays, ApprovalInv, WellTyped, LedgerInv, WellFormed, IsFunctionOn
<1>3. WellFormed'
  BY <1>1 DEF LedgerInv, WellFormed, IsFunctionOn
<1>4. Announces(t)' /\ HeadHeld(t)'
  BY <1>2 DEF Announces, HeadHeld
<1>5. Timed(t)'
  BY <1>2 DEF Timed, LedgerInv
<1> QED BY <1>1, <1>2, <1>3, <1>4, <1>5, OneGoesOn

\* What an uncommitted row shares with the grant it spends.
LEMMA SpentKey ==
  ASSUME NEW g \in Grants, NEW at \in Int
  PROVE  Spent(g, at).binding = g.binding /\ Spent(g, at).approver = g.approver
BY Zenon DEF Spent, Grants

\* A row that a consumption wrote is about a committed grant with its key.
LEMMA DraftSpends ==
  ASSUME ApprovalInv, NEW u \in Txs, draft[u] # NoGrant, call[u].op # "create"
  PROVE  \E g \in grants : draft[u].id = g.id /\ OneKey(draft[u], g) /\ call[u].op = "consume"
<1>1. PICK g \in grants : draft[u] = Spent(g, stmtAt[u]) /\ call[u].op = "consume"
  BY Zenon DEF ApprovalInv, DraftOK
<1>2. g \in Grants /\ stmtAt[u] \in Int
  BY Zenon DEF ApprovalInv, WellTyped
<1> QED BY <1>1, <1>2, SpentId, SpentKey DEF OneKey

\* The INSERT of a new grant: nothing committed or open has its key.
LEMMA InsertLedger ==
  ASSUME ApprovalInv, LedgerInv, NEW t \in Txs, InsertGrant(t) PROVE LedgerInv'
<1> DEFINE row == GrantRow(t)
<1>1. row.binding = call[t].binding /\ row.approver = call[t].subject /\ row.id = t /\ row # NoGrant
  BY NoTxAssumption, Zenon DEF GrantRow, NoGrant
<1>2. /\ stage[t] = "writing" /\ call[t].op = "create" /\ draft' = [draft EXCEPT ![t] = row]
      /\ \E w \in Workspaces : BeginAppend(t, w, [kind |-> "approval-created", subject |-> row.id])
      /\ UNCHANGED <<clock, grants, call, stmtAt>>
  BY Zenon DEF InsertGrant, Wrote
<1>3. /\ \A u \in Txs \ {t} : ~(draft[u].binding = call[t].binding /\ draft[u].approver = call[t].subject)
      /\ \A g \in grants : ~(g.binding = call[t].binding /\ g.approver = call[t].subject)
  BY Zenon DEF InsertGrant, KeyWaits, KeyTaken, SameKey
<1>4. draft'[t] = row /\ \A u \in Txs \ {t} : draft'[u] = draft[u]
  BY <1>2, Zenon DEF ApprovalInv, WellTyped, IsFunctionOn
<1> HIDE DEF row
<1>5. KeysApart'
  <2>1. \A u \in Txs \ {t} : ~OneKey(draft[u], row) /\ ~OneKey(row, draft[u])
    BY <1>1, <1>3, Zenon DEF OneKey
  <2>2. \A g \in grants : ~OneKey(row, g)
    BY <1>1, <1>3, Zenon DEF OneKey
  <2> QED BY <1>2, <1>4, <2>1, <2>2 DEF LedgerInv, KeysApart
<1>6. PICK w \in Workspaces : BeginAppend(t, w, [kind |-> "approval-created", subject |-> t])
  BY <1>1, <1>2, Zenon
<1>7. stage[t] \notin Appending
  BY <1>2, Zenon DEF Appending
<1> QED BY <1>1, <1>2, <1>5, <1>6, <1>7, AnnouncingLedger, Zenon

\* The UPDATE of a spendable one: the key it has is the grant's own.
LEMMA UpdateLedger ==
  ASSUME ApprovalInv, LedgerInv, NEW t \in Txs, UpdateGrant(t) PROVE LedgerInv'
<1>1. PICK g \in grants : /\ Spendable(g, t)
                          /\ Wrote(t, Spent(g, stmtAt[t]), "approval-consumed")
  BY Zenon DEF UpdateGrant, Spent
<1> DEFINE row == Spent(g, stmtAt[t])
<1>2. g \in Grants /\ stmtAt[t] \in Int
  BY Zenon DEF ApprovalInv, WellTyped
<1>3. row.binding = g.binding /\ row.approver = g.approver /\ row.id = g.id /\ row.id \in Txs
  BY <1>2, SpentId, SpentKey, Zenon DEF Grants
<1>4. /\ stage[t] = "writing" /\ call[t].op = "consume" /\ draft' = [draft EXCEPT ![t] = row]
      /\ \E w \in Workspaces : BeginAppend(t, w, [kind |-> "approval-consumed", subject |-> row.id])
      /\ UNCHANGED <<clock, grants, call, stmtAt>>
  BY <1>1, Zenon DEF UpdateGrant, Wrote
<1> HIDE DEF row
<1>5. draft'[t] = row /\ (\A u \in Txs \ {t} : draft'[u] = draft[u]) /\ row # NoGrant
  BY <1>3, <1>4, NoTxAssumption DEF ApprovalInv, WellTyped, IsFunctionOn, NoGrant
<1>6. ASSUME NEW u \in Txs \ {t}, draft[u] # NoGrant PROVE ~OneKey(draft[u], row) /\ ~OneKey(row, draft[u])
  <2> USE Zenon
  <2>1. CASE call[u].op = "create"
    <3>1. ~OneKey(draft[u], g)
      BY <1>6, <2>1 DEF LedgerInv, KeysApart
    <3> QED BY <1>3, <3>1 DEF OneKey
  <2>2. CASE call[u].op # "create"
    <3>1. PICK h \in grants : draft[u].id = h.id /\ OneKey(draft[u], h)
      BY <1>6, <2>2, DraftSpends
    <3>2. draft[u].id # g.id
      BY <1>1, <1>6 DEF UpdateGrant, RowBusy, Spendable
    <3>3. ~OneKey(h, g)
      BY <3>1, <3>2 DEF LedgerInv, KeysApart
    <3> QED BY <1>3, <3>1, <3>3 DEF OneKey
  <2> QED BY <2>1, <2>2
<1>7. KeysApart'
  BY <1>4, <1>5, <1>6 DEF LedgerInv, KeysApart
<1>8. PICK w \in Workspaces : BeginAppend(t, w, [kind |-> "approval-consumed", subject |-> row.id])
  BY <1>4, Zenon
<1>9. stage[t] \notin Appending
  BY <1>4, Zenon DEF Appending
<1> QED BY <1>4, <1>5, <1>7, <1>8, <1>9, AnnouncingLedger, Zenon

\* Record announces a decision and no grant.
LEMMA RecordLedger ==
  ASSUME ApprovalInv, LedgerInv, NEW t \in Txs, NEW w \in Workspaces, RecordDecision(t, w) PROVE LedgerInv'
<1> USE Zenon
<1>1. stage[t] = "idle" /\ BeginAppend(t, w, Decision(t)) /\ UNCHANGED approvalVars
  BY DEF RecordDecision, Record
<1>2. stage[t] \notin Appending /\ Decision(t).kind = "policy-decision"
  BY <1>1 DEF Appending, Decision
<1>3. draft[t] = NoGrant
  BY <1>2, NothingYet
<1>4. draft' = [draft EXCEPT ![t] = NoGrant] /\ UNCHANGED <<clock, grants, call, stmtAt>>
  BY <1>1, <1>3 DEF approvalVars, ApprovalInv, WellTyped, IsFunctionOn
<1>5. KeysApart'
  BY <1>1, KeysStay DEF approvalVars, LedgerInv
<1> QED BY <1>1, <1>2, <1>4, <1>5, AnnouncingLedger

\* The statements of appendPolicyAuditEntryTx.
LEMMA AppendLedger ==
  ASSUME ApprovalInv, LedgerInv, NEW t \in Txs, Append(t) PROVE LedgerInv'
<1> USE Zenon
<1> DEFINE w == txWs[t]
<1>1. /\ UNCHANGED <<heads, entries, txWs, event>> /\ UNCHANGED approvalVars
      /\ stage[t] \in Appending
      /\ \E st \in Appending : stage' = [stage EXCEPT ![t] = st]
      /\ \/ UNCHANGED lockedBy
         \/ lockedBy[w] \in {NoTx, t} /\ lockedBy' = [lockedBy EXCEPT ![w] = t]
      /\ UNCHANGED seen \/ seen' = [seen EXCEPT ![t] = heads[w]]
  BY DEF Append, InitHead, LockHead, HeadFree, AppendEntry, Appending
<1>2. w \in Workspaces /\ Announces(t) /\ Timed(t) /\ HeadHeld(t)
  BY <1>1 DEF LedgerInv, Announces
<1>3. \A u \in Txs \ {t} : Stays(u)
  BY <1>1 DEF Stays, approvalVars, ApprovalInv, WellTyped, LedgerInv, WellFormed, IsFunctionOn
<1>4. WellFormed'
  BY <1>1 DEF LedgerInv, WellFormed, IsFunctionOn
<1>5. \A v \in Workspaces : lockedBy[v] \in Txs \ {t} => lockedBy'[v] = lockedBy[v]
  BY <1>1, NoTxAssumption DEF LedgerInv, WellFormed, IsFunctionOn
<1>6. stage'[t] \in Appending /\ draft' = draft /\ call' = call /\ stmtAt' = stmtAt /\ grants' = grants /\ clock' = clock
  BY <1>1 DEF approvalVars, ApprovalInv, WellTyped
<1>7. Announces(t)'
  BY <1>1, <1>2, <1>6 DEF Announces
<1>8. Timed(t)'
  BY <1>2, <1>6 DEF Timed, Appending
<1>9. HeadHeld(t)'
  <2>1. CASE LockHead(t)
    BY <1>2, <2>1 DEF LockHead, HeadHeld, LedgerInv, WellFormed, IsFunctionOn
  <2>2. CASE InitHead(t)
    BY <2>2 DEF InitHead, HeadHeld, ApprovalInv, WellTyped
  <2>3. CASE AppendEntry(t)
    BY <1>2, <2>3 DEF AppendEntry, HeadHeld
  <2> QED BY <2>1, <2>2, <2>3 DEF Append
<1>10. KeysApart'
  BY <1>6, KeysStay DEF LedgerInv
<1> QED BY <1>1, <1>3, <1>4, <1>5, <1>6, <1>7, <1>8, <1>9, <1>10, OneGoesOn

\* A rollback tells nothing.
LEMMA RollbackLedger ==
  ASSUME ApprovalInv, LedgerInv, NEW t \in Txs, Rollback(t), RolledBack(t) PROVE LedgerInv'
<1> USE Zenon
<1>1. /\ lockedBy' = Unlock(t) /\ stage' = [stage EXCEPT ![t] = "rolledback"]
      /\ draft' = [draft EXCEPT ![t] = NoGrant]
      /\ UNCHANGED <<heads, entries, txWs, event, seen, clock, call, stmtAt, grants>>
  BY DEF Rollback, RolledBack, Release
<1>2. stage'[t] = "rolledback" /\ draft'[t] = NoGrant /\ \A u \in Txs \ {t} : Stays(u)
  BY <1>1 DEF Stays, ApprovalInv, WellTyped, IsFunctionOn
<1>3. WellFormed'
  BY <1>1 DEF LedgerInv, WellFormed, IsFunctionOn, Unlock
<1>4. \A w \in Workspaces : lockedBy[w] \in Txs \ {t} => lockedBy'[w] = lockedBy[w]
  BY <1>1 DEF Unlock
<1>5. Announces(t)' /\ Timed(t)' /\ HeadHeld(t)'
  BY <1>2 DEF Announces, Timed, HeadHeld, Appending
<1>6. KeysApart'
  <2>1. \A u \in Txs : draft'[u] \in {draft[u], NoGrant}
    BY <1>2 DEF Stays
  <2> QED BY <1>1, <2>1, KeysStay DEF LedgerInv
<1> QED BY <1>1, <1>2, <1>3, <1>4, <1>5, <1>6, OneGoesOn

\* A further entry about something else changes no line.
LEMMA OtherLines ==
  ASSUME NEW E, NEW n, NEW kind, NEW x, ~(n.event.kind = kind /\ n.event.subject = x)
  PROVE  Lines(E \union {n}, kind, x) = Lines(E, kind, x)
BY Zenon DEF Lines

\* So a grant it is not about is told as before.
LEMMA StillTold ==
  ASSUME NEW E, NEW n, NEW g, Told(E, g),
         n.event.kind \in {"approval-created", "approval-consumed"} => n.event.subject # g.id
  PROVE  Told(E \union {n}, g)
<1>1. /\ Lines(E \union {n}, "approval-created", g.id) = Lines(E, "approval-created", g.id)
      /\ Lines(E \union {n}, "approval-consumed", g.id) = Lines(E, "approval-consumed", g.id)
  BY OtherLines
<1> QED BY <1>1, Zenon DEF Told

\* A decision is told besides the grants.
LEMMA LedgerSkips ==
  ASSUME NEW E, NEW G, NEW n, Ledger(E, G), n.event.kind = "policy-decision"
  PROVE  Ledger(E \union {n}, G)
BY StillTold, Zenon DEF Ledger

\* A creation is told with the new grant.
LEMMA LedgerAdds ==
  ASSUME NEW E, NEW G, NEW n, NEW row, Ledger(E, G), row.consumedAt = Pending, \A g \in G : g.id # row.id,
         n.event.kind = "approval-created", n.event.subject = row.id
  PROVE  Ledger(E \union {n}, G \union {row})
<1> USE Zenon
<1>1. \A e \in E : e.event.kind \in {"approval-created", "approval-consumed"} => e.event.subject # row.id
  BY DEF Ledger
<1>2. Lines(E \union {n}, "approval-created", row.id) = {n} /\ Lines(E \union {n}, "approval-consumed", row.id) = {}
  BY <1>1 DEF Lines
<1>3. Told(E \union {n}, row)
  BY <1>2 DEF Told
<1>4. \A g \in G : Told(E \union {n}, g)
  BY StillTold DEF Ledger
<1> QED BY <1>3, <1>4 DEF Ledger

\* A consumption is told after the creation of the grant it spends.
LEMMA LedgerSpends ==
  ASSUME NEW E, NEW G, NEW n, NEW g \in G, NEW row, Ledger(E, G), g.consumedAt = Pending, row.consumedAt # Pending,
         row.id = g.id, \A h \in G : h.id = g.id => h = g,
         n.event.kind = "approval-consumed", n.event.subject = g.id, \A e \in E : e.seq < n.seq
  PROVE  Ledger(E \union {n}, (G \ {g}) \union {row})
<1>1. PICK m \in E : Lines(E, "approval-created", g.id) = {m} /\ Lines(E, "approval-consumed", g.id) = {}
  BY Zenon DEF Ledger, Told
<1>2. Lines(E \union {n}, "approval-created", row.id) = {m}
  BY <1>1, OtherLines
<1>3. Lines(E \union {n}, "approval-consumed", row.id) = {n}
  BY <1>1, Zenon DEF Lines
<1>4. Told(E \union {n}, row)
  BY <1>1, <1>2, <1>3, Zenon DEF Told
<1>5. \A h \in G \ {g} : Told(E \union {n}, h)
  BY StillTold, Zenon DEF Ledger
<1> QED BY <1>4, <1>5, Zenon DEF Ledger

\* The commit publishes the row together with its entry.
LEMMA CommitLedger ==
  ASSUME ApprovalInv, LedgerInv, NEW t \in Txs, Commit(t) PROVE LedgerInv'
<1> DEFINE w == txWs[t]
           n == NewEntry(t)
<1>1. /\ stage[t] = "appended" /\ stage' = [stage EXCEPT ![t] = "committed"]
      /\ entries' = [entries EXCEPT ![w] = @ \union {n}]
      /\ heads' = [heads EXCEPT ![w] = HeadRow(n.seq, n.hash)]
      /\ lockedBy' = Unlock(t) /\ draft' = [draft EXCEPT ![t] = NoGrant] /\ grants' = CommittedGrants(t)
      /\ UNCHANGED <<txWs, event, seen, clock, call, stmtAt>>
  BY Zenon DEF Commit, CommitAppend, Release
<1>2. Announces(t) /\ Timed(t) /\ lockedBy[w] = t /\ seen[t] = heads[w] /\ w \in Workspaces /\ Workspaces = {w}
  <2> USE Zenon
  <2>1. Announces(t) /\ Timed(t) /\ HeadHeld(t)
    BY DEF LedgerInv
  <2> QED BY <1>1, <2>1, WorkspaceAssumption DEF Announces, HeadHeld, Appending
<1>3. /\ stage'[t] = "committed" /\ draft'[t] = NoGrant /\ (\A u \in Txs \ {t} : Stays(u))
      /\ stage \in [Txs -> Stages] /\ grants \subseteq Grants /\ stmtAt \in [Txs -> Int]
  BY <1>1, Zenon DEF Stays, ApprovalInv, WellTyped, IsFunctionOn
<1>4. n.seq = heads[w].seq + 1 /\ n.event = event[t] /\ HeadRow(n.seq, n.hash).seq = n.seq
  BY <1>2, Zenon DEF NewEntry, HeadRow
<1> HIDE DEF n
<1>5. heads'[w].seq = n.seq /\ entries'[w] = entries[w] \union {n}
  BY <1>1, <1>2, <1>4, Zenon DEF LedgerInv, WellFormed, IsFunctionOn
<1>6. heads[w].seq \in Int /\ Ledger(entries[w], grants) /\ \A e \in entries[w] : e.seq \in Int /\ e.seq <= heads[w].seq
  BY <1>2, Zenon DEF LedgerInv
<1>7. \A e \in entries[w] : e.seq < n.seq
  BY <1>4, <1>6
<1>8. Ledger(entries'[w], grants') /\ KeysApart'
  <2>0. KeysApart /\ GrantsMade /\ DraftOK(t) /\ DraftsApart
    BY Zenon DEF LedgerInv, ApprovalInv
  <2>1. CASE draft[t] = NoGrant
    <3> USE Zenon
    <3>1. grants' = grants /\ n.event.kind = "policy-decision"
      BY <1>1, <1>2, <1>4, <2>1 DEF CommittedGrants, Announces, Appending
    <3>2. \A u \in Txs : draft'[u] = draft[u]
      BY <1>3, <2>1 DEF Stays
    <3>3. Ledger(entries[w] \union {n}, grants)
      BY <1>6, <3>1, LedgerSkips
    <3>4. KeysApart'
      BY <1>1, <2>0, <3>1, <3>2, KeysStay
    <3> QED BY <1>5, <3>1, <3>3, <3>4
  <2>2. CASE draft[t] # NoGrant /\ call[t].op = "create"
    <3> DEFINE row == draft[t]
    <3>1. row = GrantRow(t) /\ row.id = t /\ row.consumedAt = Pending
      BY <2>0, <2>2 DEF DraftOK, GrantRow
    <3>2. \A g \in grants : g.id # t
      BY <1>1, <2>0, Zenon DEF GrantsMade
    <3>3. grants' = grants \union {row}
      BY <1>1, <2>2, <3>1, <3>2, Zenon DEF CommittedGrants
    <3>4. n.event.kind = "approval-created" /\ n.event.subject = t
      BY <1>1, <1>2, <1>4, <2>2, Zenon DEF Announces, Appending
    <3> HIDE DEF row
    <3>5. Ledger(entries'[w], grants')
      <4> USE Zenon
      <4>1. Ledger(entries[w] \union {n}, grants \union {row})
        BY <1>6, <3>1, <3>2, <3>4, LedgerAdds
      <4> QED BY <1>5, <3>3, <4>1
    <3>6. \A g \in grants : ~OneKey(row, g) /\ ~OneKey(g, row)
      BY <2>0, <2>2, Zenon DEF KeysApart, OneKey, row
    <3>7. \A u \in Txs \ {t} : draft[u] # NoGrant => ~OneKey(draft[u], row)
      BY <2>0, <2>2, Zenon DEF KeysApart, row
    <3>8. KeysApart'
      BY <1>1, <1>3, <2>0, <3>3, <3>6, <3>7 DEF KeysApart, Stays
    <3> QED BY <3>5, <3>8, Zenon
  <2>3. CASE draft[t] # NoGrant /\ call[t].op # "create"
    <3>1. PICK g \in grants : Spendable(g, t) /\ draft[t] = Spent(g, stmtAt[t]) /\ call[t].op = "consume"
      BY <2>0, <2>3, Zenon DEF DraftOK
    <3> DEFINE row == draft[t]
    <3>2. /\ row.id = g.id /\ row.binding = g.binding /\ row.approver = g.approver
          /\ row.consumedAt = stmtAt[t] /\ g.consumedAt = Pending
      BY <1>3, <3>1, SpentId, SpentKey DEF Spendable
    <3>3. row.consumedAt # Pending
      BY <1>2, <1>3, <2>3, <3>2 DEF Timed, Pending
    <3>4. \A h \in grants : h.id = g.id => h = g
      BY <2>0, Zenon DEF GrantsMade
    <3>5. n.event.kind = "approval-consumed" /\ n.event.subject = g.id
      BY <1>1, <1>2, <1>4, <2>3, <3>1, <3>2, Zenon DEF Announces, Appending
    <3>6. grants' = (grants \ {g}) \union {row}
      <4> USE Zenon
      <4>1. {h \in grants : h.id # row.id} = grants \ {g}
        BY <3>2, <3>4
      <4> QED BY <1>1, <2>3, <4>1 DEF CommittedGrants
    <3> HIDE DEF row
    <3>7. Ledger(entries'[w], grants')
      BY <1>5, <1>6, <1>7, <3>2, <3>3, <3>4, <3>5, <3>6, LedgerSpends
    <3>8. \A h : (OneKey(row, h) <=> OneKey(g, h)) /\ (OneKey(h, row) <=> OneKey(h, g))
      BY <3>2, Zenon DEF OneKey
    <3>9. KeysApart'
      BY <1>1, <1>3, <2>0, <3>6, <3>8 DEF KeysApart, Stays
    <3> QED BY <3>7, <3>9, Zenon
  <2> QED BY <2>1, <2>2, <2>3, Zenon
<1>9. ASSUME NEW u \in Txs PROVE Announces(u)' /\ Timed(u)' /\ HeadHeld(u)'
  <2> USE Zenon
  <2>1. CASE u = t
    BY <1>3, <2>1 DEF Announces, Timed, HeadHeld, Appending
  <2>2. CASE u # t
    <3>1. Stays(u) /\ Announces(u) /\ Timed(u) /\ HeadHeld(u)
      BY <1>3, <2>2 DEF LedgerInv
    <3>2. stage[u] \notin {"locked", "appended"}
      BY <1>2, <2>2, <3>1 DEF HeadHeld, Announces, Appending
    <3> QED BY <3>1, <3>2 DEF Stays, Announces, Timed, HeadHeld
  <2> QED BY <2>1, <2>2
<1>10. WellFormed'
  BY <1>1, Zenon DEF LedgerInv, WellFormed, IsFunctionOn, Unlock
<1>11. \A v \in Workspaces : /\ heads'[v].seq \in Int
                             /\ \A e \in entries'[v] : e.seq \in Int /\ e.seq <= heads'[v].seq
                             /\ Ledger(entries'[v], grants')
  <2> SUFFICES ASSUME NEW v \in Workspaces
               PROVE  /\ heads'[v].seq \in Int
                      /\ \A e \in entries'[v] : e.seq \in Int /\ e.seq <= heads'[v].seq
                      /\ Ledger(entries'[v], grants')
    BY Zenon
  <2>1. v = w
    BY <1>2, Zenon
  <2>2. heads'[w].seq \in Int /\ \A e \in entries'[w] : e.seq \in Int /\ e.seq <= heads'[w].seq
    BY <1>4, <1>5, <1>6
  <2> QED BY <1>8, <2>1, <2>2, Zenon
<1> QED BY <1>1, <1>8, <1>9, <1>10, <1>11, Zenon DEF LedgerInv

\* Every step keeps the story.
LEMMA LedgerStep == ApprovalInv /\ LedgerInv /\ [Next]_vars => LedgerInv'
<1> SUFFICES ASSUME ApprovalInv, LedgerInv, [Next]_vars PROVE LedgerInv'
  BY Zenon
<1>1. ASSUME NEW t \in Txs, TxStep(t) PROVE LedgerInv'
  <2> USE Zenon
  <2>1. CASE CheckMembers(t) \/ StartStatement(t)
    BY <2>1, BeforeLedger
  <2>2. CASE Unavailable(t) \/ AppendFails(t)
    BY <2>2, RollbackLedger DEF Unavailable, AppendFails, FailAppend
  <2> QED BY <1>1, <2>1, <2>2, InsertLedger, UpdateLedger, AppendLedger, CommitLedger DEF TxStep
<1>2. ASSUME NEW t \in Txs, Abort(t) PROVE LedgerInv'
  BY <1>2, RollbackLedger, Zenon DEF Abort, Interrupt
<1>3. ASSUME NEW t \in Txs,
             \/ \E s \in Subjects, b \in Bindings : Create(t, s, b)
             \/ \E b \in Bindings, g \in Txs \union {NoTx} : Consume(t, b, g)
      PROVE  LedgerInv'
  BY <1>3, BeforeLedger, Zenon
<1>4. ASSUME NEW t \in Txs, NEW w \in Workspaces, RecordDecision(t, w) PROVE LedgerInv'
  BY <1>4, RecordLedger, Zenon
<1>5. ASSUME clock' >= 1, UNCHANGED <<chainVars, grants, call, stmtAt, draft>> PROVE LedgerInv'
  <2> USE Zenon
  <2>1. WellFormed' /\ KeysApart'
    BY <1>5 DEF chainVars, LedgerInv, WellFormed, KeysApart
  <2>2. \A t \in Txs : Announces(t)' /\ Timed(t)' /\ HeadHeld(t)'
    BY <1>5 DEF chainVars, LedgerInv, Announces, Timed, HeadHeld
  <2> QED BY <1>5, <2>1, <2>2 DEF chainVars, LedgerInv
<1>6. CASE Tick \/ Quiet \/ UNCHANGED vars \/ \E s \in Subjects, r \in Roles : SetRole(s, r)
  <2>1. clock >= 1 /\ clock \in Int
    BY Zenon DEF ApprovalInv, WellTyped, LedgerInv
  <2>2. clock' >= 1
    BY <1>6, <2>1 DEF Tick, Quiet, SetRole, vars, approvalVars
  <2>3. UNCHANGED <<chainVars, grants, call, stmtAt, draft>>
    BY <1>6, Zenon DEF Tick, Quiet, SetRole, vars, approvalVars
  <2> QED BY <1>5, <2>2, <2>3, Zenon
<1> QED BY <1>1, <1>2, <1>3, <1>4, <1>6, Zenon DEF Next

\* The story the chain tells of a grant, in numbers.
LEMMA ToldInNumbers ==
  ASSUME NEW w, Workspaces = {w}, NEW kind, NEW x
  PROVE  Audited(kind, x) = {e.seq : e \in Lines(entries[w], kind, x)}
BY Zenon DEF Audited, Lines

\* GrantAudited is an invariant: every grant has one approval-created entry
\* and, once it is spent, one later approval-consumed entry; there is no
\* other entry about a grant, and an approver has one grant per proposal
\* (CreateApprovalGrant, ConsumeApprovalGrant and appendPolicyAuditEntryTx).
THEOREM GrantsAreAudited == Spec => []GrantAudited
<1>1. ApprovalInv /\ LedgerInv => GrantAudited
  <2> SUFFICES ASSUME ApprovalInv, LedgerInv PROVE GrantAudited
    BY Zenon
  <2>1. PICK w : Workspaces = {w}
    BY WorkspaceAssumption, Zenon
  <2>2. Ledger(entries[w], grants) /\ \A e \in entries[w] : e.seq \in Int
    BY <2>1, Zenon DEF LedgerInv
  <2>3. \A g, h \in grants : g.binding = h.binding /\ g.approver = h.approver => g = h
    BY Zenon DEF LedgerInv, KeysApart, OneKey
  <2>4. ASSUME NEW t \in Txs, {g \in grants : g.id = t} = {}
        PROVE  Audited("approval-created", t) = {} /\ Audited("approval-consumed", t) = {}
    <3>1. Lines(entries[w], "approval-created", t) = {} /\ Lines(entries[w], "approval-consumed", t) = {}
      BY <2>2, <2>4, Zenon DEF Ledger, Lines
    <3> QED BY <2>1, <3>1, ToldInNumbers
  <2>5. ASSUME NEW t \in Txs, NEW g \in grants, g.id = t
        PROVE  /\ {h \in grants : h.id = t} = {g}
               /\ \E m \in Int :
                    /\ Audited("approval-created", t) = {m}
                    /\ IF g.consumedAt = Pending THEN Audited("approval-consumed", t) = {}
                       ELSE \E u \in Int : Audited("approval-consumed", t) = {u} /\ m < u
    <3>1. {h \in grants : h.id = t} = {g}
      BY <2>5, Zenon DEF ApprovalInv, GrantsMade
    <3>2. Told(entries[w], g)
      BY <2>2, Zenon DEF Ledger
    <3>3. PICK m \in entries[w] :
            /\ Lines(entries[w], "approval-created", t) = {m}
            /\ IF g.consumedAt = Pending THEN Lines(entries[w], "approval-consumed", t) = {}
               ELSE \E u \in entries[w] : Lines(entries[w], "approval-consumed", t) = {u} /\ m.seq < u.seq
      BY <2>5, <3>2, Zenon DEF Told
    <3>4. Audited("approval-created", t) = {m.seq} /\ m.seq \in Int
      BY <2>1, <2>2, <3>3, ToldInNumbers
    <3>5. CASE g.consumedAt = Pending
      <4>1. Audited("approval-consumed", t) = {}
        BY <2>1, <3>3, <3>5, ToldInNumbers
      <4> QED BY <3>1, <3>4, <3>5, <4>1, Zenon
    <3>6. CASE g.consumedAt # Pending
      <4>1. PICK u \in entries[w] : Lines(entries[w], "approval-consumed", t) = {u} /\ m.seq < u.seq
        BY <3>3, <3>6, Zenon
      <4>2. Audited("approval-consumed", t) = {u.seq} /\ u.seq \in Int
        BY <2>1, <2>2, <4>1, ToldInNumbers
      <4> QED BY <3>1, <3>4, <3>6, <4>1, <4>2, Zenon
    <3> QED BY <3>5, <3>6, Zenon
  <2> QED BY <2>3, <2>4, <2>5 DEF GrantAudited
<1> QED BY <1>1, InitEstablishesInv, NextPreservesInv, LedgerInit, LedgerStep, PTL DEF Spec
=============================================================================
