--------------------------- MODULE ApprovalGrants ---------------------------
(***************************************************************************)
(* Approval grants of internal/hubdb, composed with the audit chain.       *)
(* CreateApprovalGrant and ConsumeApprovalGrant are read-committed         *)
(* transactions: they lock the memberships they rely on (FOR SHARE), write *)
(* the grant row with the time of the statement that writes it, and append *)
(* the event to the workspace's audit chain before they commit.  Meanwhile *)
(* memberships change, time passes, and other decisions are recorded.      *)
(*                                                                         *)
(* One workspace: row level security and RequireWorkspace keep every row   *)
(* of these transactions inside the workspace of the binding.              *)
(***************************************************************************)
EXTENDS AuditChain

CONSTANTS Subjects,    \* tenancy subjects
          Bindings,    \* exact proposals: intent, proposer and digest
          ProposerOf,  \* binding -> its proposer
          Lifetime,    \* interval '10 minutes', in clock ticks
          MaxClock     \* bound: ticks of the database clock

ASSUME BindingAssumption == ProposerOf \in [Bindings -> Subjects]
ASSUME WorkspaceAssumption == \E w \in Workspaces : Workspaces = {w}
ASSUME LifetimeAssumption == Lifetime \in Nat \ {0} /\ MaxClock \in Nat

\* Role.Allows: the operator proposes, the approver approves.
Roles == {"operator", "approver", "none"}
MayPropose(r) == r = "operator"
MayApprove(r) == r = "approver"

VARIABLES
  clock,      \* the database clock
  role,       \* subject -> membership role, "none" without a row
  shares,     \* subject -> transactions holding its membership FOR SHARE
  grants,     \* committed rows of approval_grants
  call,       \* transaction -> the call it serves
  stmtAt,     \* transaction -> statement_timestamp() of its write
  draft       \* transaction -> the grant row it wrote

approvalVars == <<clock, role, shares, grants, call, stmtAt, draft>>
vars == <<chainVars, approvalVars>>

NoCall == [op |-> "none", subject |-> NoTx, binding |-> NoTx, grant |-> NoTx]
NoGrant == [id |-> NoTx, binding |-> NoTx, approver |-> NoTx,
            approvedAt |-> 0, expiresAt |-> 0, consumedAt |-> 0]
Pending == 0     \* consumed_at IS NULL; the clock starts at 1

Init ==
  /\ ChainInit
  /\ clock = 1
  /\ role \in [Subjects -> Roles]
  /\ shares = [s \in Subjects |-> {}]
  /\ grants = {}
  /\ call = [t \in Txs |-> NoCall]
  /\ stmtAt = [t \in Txs |-> 0]
  /\ draft = [t \in Txs |-> NoGrant]

GoTo(t, s) == stage' = [stage EXCEPT ![t] = s]
ChainIdle == UNCHANGED <<heads, entries, lockedBy, txWs, event, seen, acked>>

-----------------------------------------------------------------------------
(***************************************************************************)
(* Before the transaction: what the caller's session says                  *)
(***************************************************************************)

\* createApprovalGrant: an approver, not the proposer, asks for binding b.
Create(t, s, b) ==
  /\ stage[t] = "idle"
  /\ s # ProposerOf[b]
  /\ call' = [call EXCEPT ![t] = [op |-> "create", subject |-> s,
                                  binding |-> b, grant |-> t]]
  /\ GoTo(t, "members")
  /\ ChainIdle
  /\ UNCHANGED <<clock, role, shares, grants, stmtAt, draft>>

\* ConsumeApprovalGrant: the proposer of b presents the identifier g, which
\* CreateApprovalGrant returned (for b or for another proposal) or which
\* names no grant (NoTx).
Consume(t, b, g) ==
  /\ stage[t] = "idle"
  /\ g # NoTx => call[g].op = "create" /\ acked[g] = "ok"
  /\ call' = [call EXCEPT ![t] = [op |-> "consume", subject |-> ProposerOf[b],
                                  binding |-> b, grant |-> g]]
  /\ GoTo(t, "members")
  /\ ChainIdle
  /\ UNCHANGED <<clock, role, shares, grants, stmtAt, draft>>

\* Record, the other writer of the chain.
RecordDecision(t, w) == Record(t, w) /\ UNCHANGED approvalVars

-----------------------------------------------------------------------------
(***************************************************************************)
(* Inside the transaction                                                  *)
(***************************************************************************)

\* The memberships a call relies on, and what they must allow.
Relies(t) == {call[t].subject, ProposerOf[call[t].binding]}
Authorized(t) ==
  /\ MayPropose(role[ProposerOf[call[t].binding]])
  /\ call[t].op = "create" => MayApprove(role[call[t].subject])

\* SELECT role ... FOR SHARE.
SharesNone(t) == shares                             \* mutant: no FOR SHARE
SharesTaken(t) == [s \in Subjects |-> IF s \in Relies(t)
                                      THEN shares[s] \union {t}
                                      ELSE shares[s]]

CheckMembers(t) ==
  /\ stage[t] = "members"
  /\ Authorized(t)
  /\ shares' = SharesTaken(t)
  /\ GoTo(t, "statement")
  /\ ChainIdle
  /\ UNCHANGED <<clock, role, grants, call, stmtAt, draft>>

\* The INSERT or UPDATE is sent: its statement_timestamp() is fixed now,
\* also if it then waits for another transaction.
StartStatement(t) ==
  /\ stage[t] = "statement"
  /\ stmtAt' = [stmtAt EXCEPT ![t] = clock]
  /\ GoTo(t, "writing")
  /\ ChainIdle
  /\ UNCHANGED <<clock, role, shares, grants, call, draft>>

\* UNIQUE (workspace_id, intent_id, approver, resolved_digest): a row with
\* the key refuses the INSERT; one that an open transaction wrote makes it
\* wait for the end of that transaction.
SameKey(g, t) == g.binding = call[t].binding /\ g.approver = call[t].subject
KeyTaken(t) == \E g \in grants : SameKey(g, t)
KeyWaitsForever(t) == \E u \in Txs \ {t} :          \* mutant: no wake-up
  call[u].op = "create" /\ call[u].subject = call[t].subject
KeyWaits(t) == \E u \in Txs \ {t} : SameKey(draft[u], t)

\* The row CreateApprovalGrant inserts.
GrantRow(t) == [id |-> t, binding |-> call[t].binding,
                approver |-> call[t].subject, approvedAt |-> stmtAt[t],
                expiresAt |-> stmtAt[t] + Lifetime, consumedAt |-> Pending]

\* The WHERE clause of the consuming UPDATE.
SpendableForever(g, t) ==                           \* mutant: no expiry
  /\ g.id = call[t].grant /\ g.binding = call[t].binding
  /\ g.consumedAt = Pending
Spendable(g, t) ==
  /\ g.id = call[t].grant /\ g.binding = call[t].binding
  /\ g.consumedAt = Pending
  /\ g.approvedAt <= stmtAt[t] /\ stmtAt[t] < g.expiresAt

\* The row lock of another UPDATE; the WHERE clause is evaluated after it.
RowBusyIgnored(t) == FALSE                          \* mutant: no row lock
RowBusy(t) ==
  \E u \in Txs \ {t} : draft[u] # NoGrant /\ draft[u].id = call[t].grant

\* The row is written; its event goes to the audit chain.
Wrote(t, g, kind) ==
  /\ draft' = [draft EXCEPT ![t] = g]
  /\ \E w \in Workspaces :
       BeginAppend(t, w, [kind |-> kind, subject |-> g.id])
  /\ UNCHANGED <<clock, role, shares, grants, call, stmtAt>>

InsertGrant(t) ==
  /\ stage[t] = "writing" /\ call[t].op = "create"
  /\ ~KeyWaits(t)
  /\ ~KeyTaken(t)
  /\ Wrote(t, GrantRow(t), "approval-created")

UpdateGrant(t) ==
  /\ stage[t] = "writing" /\ call[t].op = "consume"
  /\ ~RowBusy(t)
  /\ \E g \in grants :
       /\ Spendable(g, t)
       /\ Wrote(t, [g EXCEPT !.consumedAt = stmtAt[t]], "approval-consumed")

-----------------------------------------------------------------------------
(***************************************************************************)
(* The end of the transaction                                              *)
(***************************************************************************)

SharesLeft(t) == [s \in Subjects |-> shares[s] \ {t}]

Release(t) ==
  /\ shares' = SharesLeft(t)
  /\ draft' = [draft EXCEPT ![t] = NoGrant]
  /\ UNCHANGED <<clock, role, call, stmtAt>>

RolledBack(t) == Release(t) /\ UNCHANGED grants

\* ErrApprovalGrantUnavailable: an early return rolls the transaction back.
Unavailable(t) ==
  /\ \/ stage[t] = "members" /\ ~Authorized(t)
     \/ /\ stage[t] = "writing" /\ call[t].op = "create" /\ ~KeyWaits(t)
        /\ KeyTaken(t)
     \/ /\ stage[t] = "writing" /\ call[t].op = "consume" /\ ~RowBusy(t)
        /\ \A g \in grants : ~Spendable(g, t)
  /\ Rollback(t)
  /\ RolledBack(t)

\* The grant table after the commit of t.
CommittedGrants(t) ==
  IF draft[t] = NoGrant THEN grants
  ELSE {g \in grants : g.id # draft[t].id} \union {draft[t]}

Commit(t) ==
  /\ \E a \in {"ok", "error"} : CommitAppend(t, a)
  /\ grants' = CommittedGrants(t)
  /\ Release(t)

Append(t) ==
  /\ InitHead(t) \/ LockHead(t) \/ AppendEntry(t)
  /\ UNCHANGED approvalVars

\* The append fails, and so does the call; or the call is interrupted.
AppendFails(t) == FailAppend(t) /\ RolledBack(t)
Abort(t) == Interrupt(t) /\ RolledBack(t)

-----------------------------------------------------------------------------
(***************************************************************************)
(* The environment, and the whole                                          *)
(***************************************************************************)

\* A membership is granted, changed or revoked; the row lock of a
\* transaction that holds it FOR SHARE makes the change wait.
SetRole(s, r) ==
  /\ shares[s] = {}
  /\ role[s] # r
  /\ role' = [role EXCEPT ![s] = r]
  /\ UNCHANGED <<chainVars, clock, shares, grants, call, stmtAt, draft>>

Tick ==
  /\ clock < MaxClock
  /\ clock' = clock + 1
  /\ UNCHANGED <<chainVars, role, shares, grants, call, stmtAt, draft>>

TxStep(t) ==
  \/ CheckMembers(t) \/ StartStatement(t) \/ InsertGrant(t) \/ UpdateGrant(t)
  \/ Unavailable(t) \/ Append(t) \/ AppendFails(t) \/ Commit(t)

Quiet == (\A t \in Txs : Ended(t)) /\ UNCHANGED vars

Next ==
  \/ \E t \in Txs :
       \/ \E s \in Subjects, b \in Bindings : Create(t, s, b)
       \/ \E b \in Bindings, g \in Txs \union {NoTx} : Consume(t, b, g)
       \/ \E w \in Workspaces : RecordDecision(t, w)
       \/ TxStep(t)
       \/ Abort(t)
  \/ \E s \in Subjects, r \in Roles : SetRole(s, r)
  \/ Tick
  \/ Quiet

Spec == Init /\ [][Next]_vars

-----------------------------------------------------------------------------
(***************************************************************************)
(* Properties                                                              *)
(***************************************************************************)

Audited(kind, g) ==
  UNION {{e.seq : e \in {r \in entries[w] :
            r.event.kind = kind /\ r.event.subject = g}} : w \in Workspaces}

\* The chain and the table tell the same story of every grant, however
\* creations, consumptions and crashes interleave: a row has one
\* approval-created entry, a spent row has one later approval-consumed
\* entry ("Exactly one conditional update can win"), nothing else has
\* either, and no approver has two grants for one proposal.
GrantAudited ==
  /\ \A t \in Txs :
       LET rows == {g \in grants : g.id = t}
           made == Audited("approval-created", t)
           used == Audited("approval-consumed", t) IN
       IF rows = {} THEN made = {} /\ used = {}
       ELSE \E g \in rows, m \in made :
              /\ rows = {g} /\ made = {m}
              /\ IF g.consumedAt = Pending THEN used = {}
                 ELSE \E u \in used : used = {u} /\ m < u
  /\ \A g, h \in grants :
       g.binding = h.binding /\ g.approver = h.approver => g = h

\* A grant is spent once, for its own proposal, by a statement that ran
\* within its lifetime; nothing else about it ever changes and it is never
\* removed, although the statement may have waited for a lock and committed
\* after the grant expired.
SpentOnlyInTime ==
  [][\A g \in grants : \E h \in grants' :
       \/ h = g
       \/ /\ g.consumedAt = Pending
          /\ h = [g EXCEPT !.consumedAt = h.consumedAt]
          /\ g.approvedAt <= h.consumedAt /\ h.consumedAt < g.expiresAt
          /\ \E t \in Txs : /\ stage'[t] = "committed" /\ stage[t] # stage'[t]
                            /\ call[t].binding = g.binding]_vars

\* A change of membership cannot slip between the check and the commit: at
\* the commit of a creation the proposer may still propose and the approver
\* approve, at the commit of a consumption the proposer may propose.
AuthorizedAtCommit ==
  [][\A t \in Txs :
       /\ call[t].op # "none"
       /\ stage[t] # "committed" /\ stage'[t] = "committed"
       => Authorized(t)]_vars

\* The locks (memberships, grant key or row, chain head) are taken in an
\* order that never closes a circle: while transactions are open, one of
\* them can go on without an interruption, and one that ended has left no
\* lock behind for the others to wait for.
NoStandstill ==
  /\ (\E t \in Txs : Open(t)) => \E t \in Txs : ENABLED TxStep(t)
  /\ \A t \in Txs : ~Open(t) => /\ draft[t] = NoGrant
                                /\ \A s \in Subjects : t \notin shares[s]
=============================================================================
