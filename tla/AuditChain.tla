----------------------------- MODULE AuditChain -----------------------------
(***************************************************************************)
(* The tamper-evident policy audit chain of internal/hubdb.  Every policy  *)
(* decision (Record) and every approval event appends one entry to the     *)
(* chain of its workspace inside a PostgreSQL read-committed transaction:  *)
(* appendPolicyAuditEntryTx makes sure that the head row exists, locks it  *)
(* (FOR UPDATE), inserts the entry that follows it, advances the head.     *)
(*                                                                         *)
(* What a transaction wrote is private to it until it commits; a crash, a  *)
(* canceled context or an error rolls it back.  The hash is modelled as an *)
(* injective function of what is hashed.                                   *)
(***************************************************************************)
EXTENDS Integers

CONSTANTS Workspaces,  \* tenancy.WorkspaceID values
          Txs,         \* transactions, each used once
          NoTx,        \* nobody
          MaxInt64     \* math.MaxInt64, the last sequence number

ASSUME ChainAssumption == MaxInt64 \in Nat
ASSUME NoTxAssumption == NoTx \notin Txs

VARIABLES
  heads,     \* workspace -> committed row of policy_audit_heads
  entries,   \* workspace -> committed rows of policy_audit_entries
  lockedBy,  \* workspace -> the transaction holding the head row
  stage,     \* transaction -> how far it is
  txWs,      \* transaction -> its workspace
  event,     \* transaction -> the event it appends
  seen,      \* transaction -> the head it read under the lock
  acked      \* transaction -> "none", or what its caller was told

chainVars == <<heads, entries, lockedBy, stage, txWs, event, seen, acked>>

\* policyAuditEntryHash, without collisions.
EntryHash(seq, e, prev) == <<seq, e, prev>>
ZeroHash == <<>>
NoEvent  == [kind |-> "none", subject |-> NoTx]

\* A head row; without a row the defaults of the table stand for it.
NoHead == [exists |-> FALSE, seq |-> 0, hash |-> ZeroHash]
HeadRow(n, h) == [exists |-> TRUE, seq |-> n, hash |-> h]

ChainInit ==
  /\ heads    = [w \in Workspaces |-> NoHead]
  /\ entries  = [w \in Workspaces |-> {}]
  /\ lockedBy = [w \in Workspaces |-> NoTx]
  /\ stage    = [t \in Txs |-> "idle"]
  /\ txWs     = [t \in Txs |-> NoTx]
  /\ event    = [t \in Txs |-> NoEvent]
  /\ seen     = [t \in Txs |-> NoHead]
  /\ acked    = [t \in Txs |-> "none"]

-----------------------------------------------------------------------------
(***************************************************************************)
(* appendPolicyAuditEntryTx, from stage "append" to stage "appended"       *)
(***************************************************************************)

\* INSERT ... ON CONFLICT DO NOTHING.  An uncommitted insert of another
\* transaction makes it wait; its own insert holds the new row.
InitHead(t) ==
  LET w == txWs[t] IN
  /\ stage[t] = "append"
  /\ \/ heads[w].exists /\ UNCHANGED lockedBy
     \/ /\ ~heads[w].exists
        /\ lockedBy[w] = NoTx
        /\ lockedBy' = [lockedBy EXCEPT ![w] = t]
  /\ stage' = [stage EXCEPT ![t] = "initialized"]
  /\ UNCHANGED <<heads, entries, txWs, event, seen, acked>>

\* SELECT last_sequence, last_hash ... FOR UPDATE.
HeadFree(t) == lockedBy[txWs[t]] \in {NoTx, t}

LockHead(t) ==
  LET w == txWs[t] IN
  /\ stage[t] = "initialized"
  /\ HeadFree(t)
  /\ lockedBy' = [lockedBy EXCEPT ![w] = t]
  /\ seen' = [seen EXCEPT ![t] = heads[w]]
  /\ stage' = [stage EXCEPT ![t] = "locked"]
  /\ UNCHANGED <<heads, entries, txWs, event, acked>>

\* The row that follows the head the transaction read.
NewEntryUnlinked(t) ==                              \* mutant: forgets the link
  [seq |-> seen[t].seq + 1, event |-> event[t], prev |-> ZeroHash,
   hash |-> EntryHash(seen[t].seq + 1, event[t], ZeroHash)]
NewEntry(t) ==
  [seq |-> seen[t].seq + 1, event |-> event[t], prev |-> seen[t].hash,
   hash |-> EntryHash(seen[t].seq + 1, event[t], seen[t].hash)]

\* The head is usable (the chain is not full), the INSERT does not meet the
\* primary key, and the conditional UPDATE finds the head that was read.
Appendable(t) ==
  /\ seen[t].seq # MaxInt64
  /\ heads[txWs[t]] = seen[t]
  /\ \A e \in entries[txWs[t]] : e.seq # seen[t].seq + 1

AppendEntry(t) ==
  /\ stage[t] = "locked"
  /\ Appendable(t)
  /\ stage' = [stage EXCEPT ![t] = "appended"]
  /\ UNCHANGED <<heads, entries, lockedBy, txWs, event, seen, acked>>

-----------------------------------------------------------------------------
(***************************************************************************)
(* The end of a transaction                                                *)
(***************************************************************************)

UnlockForgotten(t) == lockedBy                      \* mutant
Unlock(t) == [w \in Workspaces |-> IF lockedBy[w] = t THEN NoTx
                                   ELSE lockedBy[w]]

\* COMMIT makes the entry and the head visible.  The caller may still see an
\* error: its connection may break before the acknowledgement arrives.
CommitAppend(t, answer) ==
  LET w == txWs[t] IN
  /\ stage[t] = "appended"
  /\ entries' = [entries EXCEPT ![w] = @ \union {NewEntry(t)}]
  /\ heads' = [heads EXCEPT ![w] = HeadRow(NewEntry(t).seq, NewEntry(t).hash)]
  /\ lockedBy' = Unlock(t)
  /\ stage' = [stage EXCEPT ![t] = "committed"]
  /\ acked' = [acked EXCEPT ![t] = answer]
  /\ UNCHANGED <<txWs, event, seen>>

\* BeginTxFunc rolls back and hands the error to the caller.
ErrorSwallowed == "ok"                              \* mutant
ErrorReturned == "error"

Rollback(t) ==
  /\ lockedBy' = Unlock(t)
  /\ stage' = [stage EXCEPT ![t] = "rolledback"]
  /\ acked' = [acked EXCEPT ![t] = ErrorReturned]
  /\ UNCHANGED <<heads, entries, txWs, event, seen>>

\* A statement of appendPolicyAuditEntryTx must fail.
FailAppend(t) == stage[t] = "locked" /\ ~Appendable(t) /\ Rollback(t)

\* A statement may fail, the context may end, the connection may be lost.
Open(t) == stage[t] \notin {"idle", "committed", "rolledback"}
Interrupt(t) == Open(t) /\ Rollback(t)

-----------------------------------------------------------------------------
(***************************************************************************)
(* Record as the only writer                                               *)
(***************************************************************************)

\* Record begins a transaction for a valid decision e of workspace w.
BeginAppend(t, w, e) ==
  /\ stage' = [stage EXCEPT ![t] = "append"]
  /\ txWs' = [txWs EXCEPT ![t] = w]
  /\ event' = [event EXCEPT ![t] = e]
  /\ UNCHANGED <<heads, entries, lockedBy, seen, acked>>

Decision(t) == [kind |-> "policy-decision", subject |-> t]

Record(t, w) == stage[t] = "idle" /\ BeginAppend(t, w, Decision(t))

AppendStep(t) ==
  \/ InitHead(t) \/ LockHead(t) \/ AppendEntry(t) \/ FailAppend(t)
  \/ \E a \in {"ok", "error"} : CommitAppend(t, a)

Ended(t) == stage[t] \in {"committed", "rolledback"}

\* Every transaction of the bound was used.
ChainQuiet == (\A t \in Txs : Ended(t)) /\ UNCHANGED chainVars

ChainNext ==
  \/ \E t \in Txs : \/ \E w \in Workspaces : Record(t, w)
                    \/ AppendStep(t)
                    \/ Interrupt(t)
  \/ ChainQuiet

ChainSpec == ChainInit /\ [][ChainNext]_chainVars

\* A transaction that is not waiting for a lock goes on.  PostgreSQL grants
\* a row lock in the order of the requests; the bound on Txs makes weak
\* fairness enough for that.
ChainFairSpec ==
  ChainSpec /\ \A t \in Txs : WF_chainVars(AppendStep(t))

-----------------------------------------------------------------------------
(***************************************************************************)
(* Properties                                                              *)
(***************************************************************************)

\* Rows and transactions are well formed; in particular no sequence number
\* passes MaxInt64, which appendPolicyAuditEntryTx checks before it counts on.
ChainTypeOK ==
  /\ \A w \in Workspaces :
       /\ heads[w].seq \in 0 .. MaxInt64
       /\ \A e \in entries[w] : e.seq \in 1 .. MaxInt64
       /\ lockedBy[w] \in Txs \union {NoTx}
  /\ stage \in [Txs -> {"idle", "append", "initialized", "locked",
                        "appended", "committed", "rolledback"}]
  /\ \A t \in Txs : /\ stage[t] # "idle" => txWs[t] \in Workspaces
                    /\ seen[t].seq \in 0 .. MaxInt64
  /\ acked \in [Txs -> {"none", "ok", "error"}]

\* What VerifyPolicyAuditChain accepts (readVerifiedPolicyAuditChainTx): the
\* entries are numbered from one without a gap, each links to the one
\* before it and carries its own hash, and the last one is the head.  A
\* workspace without a head has an empty chain here, where the code answers
\* that there is none yet.
Verifies(head, rows) ==
  /\ \A e \in rows : /\ e.seq \in 1 .. head.seq
                     /\ e.hash = EntryHash(e.seq, e.event, e.prev)
                     /\ e.seq = 1 => e.prev = ZeroHash
                     /\ e.seq = head.seq => e.hash = head.hash
  /\ \A n \in 1 .. head.seq : \E e \in rows : e.seq = n
  /\ \A e, f \in rows : /\ e.seq = f.seq => e = f
                        /\ f.seq = e.seq + 1 => f.prev = e.hash

\* However the writers of a workspace interleave, crash and retry, the
\* committed chain passes its own verification in every state: no fork, no
\* gap, no entry without its head.
ChainVerifies ==
  \A w \in Workspaces : Verifies(heads[w], entries[w])

\* An acknowledged append is in the chain, and a chain entry belongs to one
\* committed transaction: a decision is recorded once or not at all, never
\* half or twice.
AckedIsDurable ==
  \A t \in Txs :
    LET rows(w) == {e \in entries[w] : e.event = event[t]} IN
    /\ acked[t] = "ok" => rows(txWs[t]) # {}
    /\ \A w \in Workspaces :
         rows(w) # {} /\ stage[t] # "idle" =>
           w = txWs[t] /\ stage[t] = "committed"

\* The parts of the inductive invariant: rows and variables are well formed,
\* an empty chain has the zero hash, a transaction between its FOR UPDATE and
\* its end holds the head row and the head it read is still the head, its
\* event and answer fit its stage, and entries belong to committed ones.
IsFunctionOn(f, S) == f = [x \in S |-> f[x]]
WellFormed ==
  /\ IsFunctionOn(heads, Workspaces) /\ IsFunctionOn(entries, Workspaces)
  /\ IsFunctionOn(lockedBy, Workspaces) /\ IsFunctionOn(txWs, Txs)
  /\ IsFunctionOn(event, Txs) /\ IsFunctionOn(seen, Txs)
EmptyHead ==
  \A w \in Workspaces : heads[w].seq = 0 => heads[w].hash = ZeroHash
HoldsHead(t) ==
  /\ stage[t] \in {"locked", "appended"} =>
       lockedBy[txWs[t]] = t /\ seen[t] = heads[txWs[t]]
  /\ stage[t] = "appended" => seen[t].seq # MaxInt64
Accounted(t) ==
  /\ stage[t] # "idle" => event[t] = Decision(t)
  /\ acked[t] = "none" <=> ~Ended(t)
  /\ acked[t] = "ok" => stage[t] = "committed"
  /\ stage[t] = "committed" =>
       \E e \in entries[txWs[t]] : e.event = Decision(t)
EntriesCommitted ==
  \A w \in Workspaces : \A e \in entries[w] :
    \E t \in Txs : /\ e.event = Decision(t)
                   /\ stage[t] = "committed" /\ txWs[t] = w

\* Why the chain verifies whatever the writers do: every one of them advances
\* the head that it holds locked, from the value it read under that lock, and
\* what a transaction wrote shows exactly if it committed.
ChainInv ==
  /\ WellFormed /\ ChainTypeOK /\ ChainVerifies /\ EmptyHead
  /\ \A t \in Txs : HoldsHead(t) /\ Accounted(t)
  /\ EntriesCommitted

\* Entries are never rewritten or removed, and the head only moves forward,
\* by one entry at a time.
AppendOnly ==
  [][\A w \in Workspaces :
       /\ entries[w] \subseteq entries'[w]
       /\ heads'[w].seq \in {heads[w].seq, heads[w].seq + 1}
       /\ heads'[w].seq = heads[w].seq =>
            entries'[w] = entries[w]]_chainVars

\* The transactions whose events the committed chain holds, in its order.
EntryAt(rows, n) == CHOOSE e \in rows : e.seq = n
Recorded(w) ==
  [n \in 1 .. heads[w].seq |-> EntryAt(entries[w], n).event.subject]

\* The transactions together behave as one append-only log with atomic
\* appends: every step of a transaction but its end is invisible.
Log == INSTANCE AuditLog WITH log <- [w \in Workspaces |-> Recorded(w)],
                              told <- acked
ImplementsAuditLog == Log!LogSpec

\* No lock order of concurrent writers keeps a transaction open for ever.
TransactionsEnd ==
  \A t \in Txs : stage[t] = "append" ~> Ended(t)
=============================================================================
