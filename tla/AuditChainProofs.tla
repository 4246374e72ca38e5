-------------------------- MODULE AuditChainProofs --------------------------
(***************************************************************************)
(* For any number of workspaces and transactions: the committed audit      *)
(* chain always verifies, acknowledged appends are durable, the chain is   *)
(* append-only, and the transactions implement AuditLog.  The inductive    *)
(* invariant ChainInv is a definition of AuditChain, so that TLC can       *)
(* evaluate it.                                                            *)
(***************************************************************************)
EXTENDS AuditChain, TLAPS, Sequences

\* The initial chain, without heads and entries, satisfies the invariant.
LEMMA InitEstablishesInv == ChainInit => ChainInv
BY ChainAssumption DEF ChainInit, ChainInv, WellFormed, IsFunctionOn,
   ChainTypeOK, ChainVerifies, Verifies, EmptyHead, HoldsHead, Accounted,
   EntriesCommitted, NoHead, Ended

-----------------------------------------------------------------------------
(***************************************************************************)
(* The steps that leave heads and entries alone                            *)
(***************************************************************************)

\* What depends on the rows alone survives a step that does not touch them.
LEMMA RowsUnchanged ==
  ASSUME ChainInv, UNCHANGED <<heads, entries>>
  PROVE  ChainVerifies' /\ EmptyHead'
BY Zenon DEF ChainInv, ChainVerifies, EmptyHead

\* Record opens a transaction and no more.
LEMMA RecordPreservesInv ==
  ASSUME ChainInv, NEW t \in Txs, NEW w \in Workspaces, Record(t, w)
  PROVE  ChainInv'
<1> USE Zenon
<1> USE DEF Record, BeginAppend
<1>1. WellFormed'
  BY DEF ChainInv, WellFormed, IsFunctionOn
<1>2. ChainTypeOK'
  BY DEF ChainInv, WellFormed, IsFunctionOn, ChainTypeOK
<1>3. ChainVerifies' /\ EmptyHead'
  BY RowsUnchanged
<1>4. ASSUME NEW u \in Txs PROVE HoldsHead(u)' /\ Accounted(u)'
  BY DEF ChainInv, WellFormed, IsFunctionOn, ChainTypeOK, HoldsHead,
     Accounted, Ended
<1>5. EntriesCommitted'
  BY DEF ChainInv, WellFormed, IsFunctionOn, ChainTypeOK, EntriesCommitted
<1> QED BY <1>1, <1>2, <1>3, <1>4, <1>5 DEF ChainInv

\* The INSERT ... ON CONFLICT takes a head row that nobody holds.
LEMMA InitHeadPreservesInv ==
  ASSUME ChainInv, NEW t \in Txs, InitHead(t)
  PROVE  ChainInv'
<1> USE DEF InitHead
<1>1. WellFormed'
  BY Zenon DEF ChainInv, WellFormed, IsFunctionOn
<1>2. ChainTypeOK'
  BY Zenon DEF ChainInv, WellFormed, IsFunctionOn, ChainTypeOK
<1>3. ChainVerifies' /\ EmptyHead'
  BY RowsUnchanged, Zenon
<1>4. ASSUME NEW u \in Txs PROVE HoldsHead(u)' /\ Accounted(u)'
  <2> USE Zenon
  <2>1. u # t => stage'[u] = stage[u]
    BY DEF ChainInv, ChainTypeOK
  <2>2. stage'[t] = "initialized" /\ txWs[t] \in Workspaces
    BY DEF ChainInv, ChainTypeOK
  <2>3. \A w \in Workspaces : lockedBy[w] # NoTx => lockedBy'[w] = lockedBy[w]
    BY <2>2 DEF ChainInv, WellFormed, IsFunctionOn
  <2>4. HoldsHead(u)'
    BY <2>1, <2>2, <2>3, NoTxAssumption DEF ChainInv, ChainTypeOK, HoldsHead
  <2>5. Accounted(u)'
    BY <2>1, <2>2 DEF ChainInv, ChainTypeOK, Accounted, Ended
  <2> QED BY <2>4, <2>5
<1>5. EntriesCommitted'
  BY DEF ChainInv, WellFormed, IsFunctionOn, ChainTypeOK, EntriesCommitted
<1> QED BY <1>1, <1>2, <1>3, <1>4, <1>5, Zenon DEF ChainInv

\* FOR UPDATE takes the head row from nobody and reads the current head.
LEMMA LockHeadPreservesInv ==
  ASSUME ChainInv, NEW t \in Txs, LockHead(t)
  PROVE  ChainInv'
<1> USE DEF LockHead, HeadFree
<1>1. WellFormed'
  BY Zenon DEF ChainInv, WellFormed, IsFunctionOn
<1>2. ChainTypeOK'
  BY Zenon DEF ChainInv, WellFormed, IsFunctionOn, ChainTypeOK
<1>3. ChainVerifies' /\ EmptyHead'
  BY RowsUnchanged, Zenon
<1>4. ASSUME NEW u \in Txs PROVE HoldsHead(u)' /\ Accounted(u)'
  BY NoTxAssumption DEF ChainInv, WellFormed, IsFunctionOn, ChainTypeOK,
     HoldsHead, Accounted, Ended
<1>5. EntriesCommitted'
  BY DEF ChainInv, WellFormed, IsFunctionOn, ChainTypeOK, EntriesCommitted
<1> QED BY <1>1, <1>2, <1>3, <1>4, <1>5, Zenon DEF ChainInv

\* The INSERT of the entry is private to its transaction; the check against
\* MaxInt64 has passed.
LEMMA AppendEntryPreservesInv ==
  ASSUME ChainInv, NEW t \in Txs, AppendEntry(t)
  PROVE  ChainInv'
<1> USE DEF AppendEntry, Appendable
<1>1. WellFormed'
  BY Zenon DEF ChainInv, WellFormed, IsFunctionOn
<1>2. ChainTypeOK'
  BY Zenon DEF ChainInv, WellFormed, IsFunctionOn, ChainTypeOK
<1>3. ChainVerifies' /\ EmptyHead'
  BY RowsUnchanged, Zenon
<1>4. ASSUME NEW u \in Txs PROVE HoldsHead(u)' /\ Accounted(u)'
  BY Zenon DEF ChainInv, WellFormed, IsFunctionOn, ChainTypeOK, HoldsHead,
     Accounted, Ended
<1>5. EntriesCommitted'
  BY DEF ChainInv, WellFormed, IsFunctionOn, ChainTypeOK, EntriesCommitted
<1> QED BY <1>1, <1>2, <1>3, <1>4, <1>5, Zenon DEF ChainInv

\* A rollback releases the locks of its own transaction and no other.
LEMMA RollbackPreservesInv ==
  ASSUME ChainInv, NEW t \in Txs, Open(t), Rollback(t)
  PROVE  ChainInv'
<1> USE DEF Rollback, Open, Unlock, ErrorReturned
<1>1. WellFormed'
  BY Zenon DEF ChainInv, WellFormed, IsFunctionOn
<1>2. ChainTypeOK'
  BY Zenon DEF ChainInv, WellFormed, IsFunctionOn, ChainTypeOK
<1>3. ChainVerifies' /\ EmptyHead'
  BY RowsUnchanged, Zenon
<1>4. ASSUME NEW u \in Txs PROVE HoldsHead(u)' /\ Accounted(u)'
  BY NoTxAssumption DEF ChainInv, WellFormed, IsFunctionOn, ChainTypeOK,
     HoldsHead, Accounted, Ended
<1>5. EntriesCommitted'
  BY DEF ChainInv, WellFormed, IsFunctionOn, ChainTypeOK, EntriesCommitted
<1> QED BY <1>1, <1>2, <1>3, <1>4, <1>5, Zenon DEF ChainInv

-----------------------------------------------------------------------------
(***************************************************************************)
(* The commit                                                              *)
(***************************************************************************)

\* The entry that is committed follows the current head.
LEMMA NextEntry ==
  ASSUME ChainInv, NEW t \in Txs, stage[t] = "appended"
  PROVE  /\ txWs[t] \in Workspaces
         /\ lockedBy[txWs[t]] = t
         /\ NewEntry(t).seq = heads[txWs[t]].seq + 1
         /\ NewEntry(t).seq \in 1 .. MaxInt64
         /\ NewEntry(t).prev = heads[txWs[t]].hash
         /\ NewEntry(t).event = Decision(t)
         /\ NewEntry(t).hash = EntryHash(NewEntry(t).seq, NewEntry(t).event,
                                         NewEntry(t).prev)
BY ChainAssumption DEF ChainInv, ChainTypeOK, HoldsHead, Accounted, NewEntry

\* A chain that verifies still does with an entry that follows its head.
LEMMA ExtendVerifies ==
  ASSUME NEW head, NEW rows, NEW e, head.seq \in Nat,
         head.seq = 0 => head.hash = ZeroHash,
         Verifies(head, rows),
         e.seq = head.seq + 1, e.prev = head.hash,
         e.hash = EntryHash(e.seq, e.event, e.prev)
  PROVE  Verifies(HeadRow(e.seq, e.hash), rows \union {e})
<1> DEFINE h == HeadRow(e.seq, e.hash)
<1>1. h.seq = head.seq + 1 /\ h.hash = e.hash
  BY Zenon DEF HeadRow
<1>2. \A f \in rows : f.seq \in 1 .. head.seq
  BY Zenon DEF Verifies
<1>3. ASSUME NEW f \in rows \union {e}
      PROVE  /\ f.seq \in 1 .. h.seq
             /\ f.hash = EntryHash(f.seq, f.event, f.prev)
             /\ f.seq = 1 => f.prev = ZeroHash
             /\ f.seq = h.seq => f.hash = h.hash
  BY <1>1, <1>2 DEF Verifies
<1>4. \A n \in 1 .. h.seq : \E f \in rows \union {e} : f.seq = n
  BY <1>1 DEF Verifies
<1>5. ASSUME NEW f \in rows \union {e}, NEW g \in rows \union {e}
      PROVE  /\ f.seq = g.seq => f = g
             /\ g.seq = f.seq + 1 => g.prev = f.hash
  BY <1>2 DEF Verifies
<1> QED BY <1>3, <1>4, <1>5, Zenon DEF Verifies

\* The rows after a commit.
LEMMA CommitRows ==
  ASSUME ChainInv, NEW t \in Txs, NEW a, CommitAppend(t, a)
  PROVE  LET w == txWs[t]
             e == NewEntry(t)
         IN /\ entries'[w] = entries[w] \union {e}
            /\ heads'[w] = HeadRow(e.seq, e.hash)
            /\ heads'[w].seq = e.seq /\ heads'[w].hash = e.hash
            /\ \A v \in Workspaces \ {w} : /\ entries'[v] = entries[v]
                                            /\ heads'[v] = heads[v]
<1> USE Zenon
<1>1. stage[t] = "appended" /\ txWs[t] \in Workspaces
  BY NextEntry DEF CommitAppend
<1> QED BY <1>1 DEF CommitAppend, ChainInv, WellFormed, IsFunctionOn, HeadRow

\* Only the committing transaction held the head that it moves.
LEMMA CommitPreservesInv ==
  ASSUME ChainInv, NEW t \in Txs, NEW a \in {"ok", "error"},
         CommitAppend(t, a)
  PROVE  ChainInv'
<1> DEFINE w == txWs[t]
           e == NewEntry(t)
<1>1. stage[t] = "appended" /\ w \in Workspaces
  BY NextEntry, Zenon DEF CommitAppend
<1>2. WellFormed'
  BY Zenon DEF CommitAppend, Unlock, ChainInv, WellFormed, IsFunctionOn
<1>3. /\ entries'[w] = entries[w] \union {e}
      /\ heads'[w] = HeadRow(e.seq, e.hash)
      /\ heads'[w].seq = e.seq /\ heads'[w].hash = e.hash
      /\ \A v \in Workspaces \ {w} : /\ entries'[v] = entries[v]
                                      /\ heads'[v] = heads[v]
  BY CommitRows, Zenon
<1>4. /\ stage'[t] = "committed" /\ acked'[t] = a
      /\ \A u \in Txs \ {t} : stage'[u] = stage[u] /\ acked'[u] = acked[u]
      /\ txWs' = txWs /\ event' = event /\ seen' = seen
  BY Zenon DEF CommitAppend, ChainInv, ChainTypeOK
<1>5. ChainTypeOK'
  <2>1. \A v \in Workspaces : /\ heads'[v].seq \in 0 .. MaxInt64
                              /\ \A f \in entries'[v] : f.seq \in 1 .. MaxInt64
    BY <1>1, <1>3, NextEntry DEF ChainInv, ChainTypeOK
  <2>2. \A v \in Workspaces : lockedBy'[v] \in Txs \union {NoTx}
    BY Zenon DEF CommitAppend, Unlock, ChainInv, ChainTypeOK
  <2> QED BY <2>1, <2>2, Zenon DEF CommitAppend, ChainInv, ChainTypeOK
<1>6. ChainVerifies'
  <2>1. /\ Verifies(heads[w], entries[w])
        /\ heads[w].seq \in Nat
        /\ heads[w].seq = 0 => heads[w].hash = ZeroHash
    BY <1>1, ChainAssumption
       DEF ChainInv, ChainTypeOK, ChainVerifies, EmptyHead
  <2>2. /\ e.seq = heads[w].seq + 1 /\ e.prev = heads[w].hash
        /\ e.hash = EntryHash(e.seq, e.event, e.prev)
    BY <1>1, NextEntry, Zenon
  <2> HIDE DEF e
  <2>3. Verifies(HeadRow(e.seq, e.hash), entries[w] \union {e})
    BY <2>1, <2>2, ExtendVerifies, Zenon
  <2> QED BY <1>1, <1>3, <2>3, Zenon DEF ChainInv, ChainVerifies
<1>7. EmptyHead'
  BY <1>1, <1>3, NextEntry DEF ChainInv, EmptyHead
<1>8. ASSUME NEW u \in Txs PROVE HoldsHead(u)' /\ Accounted(u)'
  <2>1. HoldsHead(u)'
    BY <1>1, <1>3, <1>4, NextEntry
       DEF CommitAppend, Unlock, ChainInv, ChainTypeOK, HoldsHead
  <2>2. Accounted(u)'
    BY <1>1, <1>3, <1>4, NextEntry DEF ChainInv, ChainTypeOK, Accounted, Ended
  <2> QED BY <2>1, <2>2, Zenon
<1>9. EntriesCommitted'
  BY <1>1, <1>3, <1>4, NextEntry DEF ChainInv, EntriesCommitted
<1> QED BY <1>2, <1>5, <1>6, <1>7, <1>8, <1>9, Zenon DEF ChainInv

-----------------------------------------------------------------------------
(***************************************************************************)
(* The invariant, and what follows from it                                 *)
(***************************************************************************)

\* Every step of every writer preserves the invariant.
LEMMA StepPreservesInv == ChainInv /\ [ChainNext]_chainVars => ChainInv'
<1> USE Zenon
<1> SUFFICES ASSUME ChainInv, [ChainNext]_chainVars PROVE ChainInv'
  OBVIOUS
<1>1. ASSUME NEW t \in Txs, NEW w \in Workspaces, Record(t, w) PROVE ChainInv'
  BY <1>1, RecordPreservesInv
<1>2. ASSUME NEW t \in Txs, AppendStep(t) PROVE ChainInv'
  <2>1. FailAppend(t) => Open(t) /\ Rollback(t)
    BY DEF FailAppend, Open
  <2> QED BY <1>2, <2>1, InitHeadPreservesInv, LockHeadPreservesInv,
             AppendEntryPreservesInv, RollbackPreservesInv, CommitPreservesInv
          DEF AppendStep
<1>3. ASSUME NEW t \in Txs, Interrupt(t) PROVE ChainInv'
  BY <1>3, RollbackPreservesInv DEF Interrupt
<1>4. CASE UNCHANGED chainVars
  <2> USE <1>4 DEF chainVars, ChainInv
  <2>1. WellFormed' /\ ChainTypeOK'
    BY DEF WellFormed, IsFunctionOn, ChainTypeOK
  <2>2. ChainVerifies' /\ EmptyHead'
    BY RowsUnchanged
  <2>3. \A t \in Txs : HoldsHead(t)' /\ Accounted(t)'
    BY DEF HoldsHead, Accounted, Ended
  <2>4. EntriesCommitted'
    BY DEF EntriesCommitted
  <2> QED BY <2>1, <2>2, <2>3, <2>4
<1> QED BY <1>1, <1>2, <1>3, <1>4 DEF ChainNext, ChainQuiet

\* The inductive invariant holds in every reachable state.
THEOREM InvHolds == ChainSpec => []ChainInv
BY InitEstablishesInv, StepPreservesInv, PTL DEF ChainSpec

\* Whatever the writers of a workspace do, VerifyPolicyAuditChain accepts the
\* committed chain in every state.
THEOREM ChainAlwaysVerifies == ChainSpec => []ChainVerifies
<1>1. ChainInv => ChainVerifies
  BY Zenon DEF ChainInv
<1> QED BY <1>1, InvHolds, PTL

\* Sequence numbers never pass MaxInt64, and rows stay well formed.
THEOREM ChainTypeCorrect == ChainSpec => []ChainTypeOK
<1>1. ChainInv => ChainTypeOK
  BY Zenon DEF ChainInv
<1> QED BY <1>1, InvHolds, PTL

\* An acknowledged Record is in the chain of its workspace, and the chain
\* holds no event of a transaction that did not commit.
THEOREM AcknowledgedAppendsAreDurable == ChainSpec => []AckedIsDurable
<1>1. ASSUME ChainInv PROVE AckedIsDurable
  <2> USE Zenon
  <2> SUFFICES ASSUME NEW t \in Txs
               PROVE  /\ acked[t] = "ok" =>
                           {e \in entries[txWs[t]] : e.event = event[t]} # {}
                      /\ \A w \in Workspaces :
                           /\ {e \in entries[w] : e.event = event[t]} # {}
                           /\ stage[t] # "idle"
                           => w = txWs[t] /\ stage[t] = "committed"
    BY DEF AckedIsDurable
  <2>1. acked[t] = "ok" =>
          {e \in entries[txWs[t]] : e.event = event[t]} # {}
    BY <1>1 DEF ChainInv, Accounted
  <2>2. ASSUME NEW w \in Workspaces, stage[t] # "idle",
               NEW e \in entries[w], e.event = event[t]
        PROVE  w = txWs[t] /\ stage[t] = "committed"
    <3>1. e.event = Decision(t)
      BY <1>1, <2>2 DEF ChainInv, Accounted
    <3>2. PICK u \in Txs : /\ e.event = Decision(u)
                           /\ stage[u] = "committed" /\ txWs[u] = w
      BY <1>1 DEF ChainInv, EntriesCommitted
    <3>3. Decision(t).subject = t /\ Decision(u).subject = u
      BY DEF Decision
    <3> QED BY <3>1, <3>2, <3>3
  <2> QED BY <2>1, <2>2
<1> QED BY <1>1, InvHolds, PTL

\* Entries are never rewritten or removed, and the head moves by one entry.
THEOREM ChainOnlyGrows == ChainSpec => AppendOnly
<1> DEFINE Grows == \A w \in Workspaces :
             /\ entries[w] \subseteq entries'[w]
             /\ heads'[w].seq \in {heads[w].seq, heads[w].seq + 1}
             /\ heads'[w].seq = heads[w].seq => entries'[w] = entries[w]
<1>1. ChainInv /\ [ChainNext]_chainVars => [Grows]_chainVars
  <2> SUFFICES ASSUME ChainInv, ChainNext PROVE Grows
    BY Zenon
  <2>1. ASSUME NEW t \in Txs, NEW a \in {"ok", "error"}, CommitAppend(t, a)
        PROVE  Grows
    <3>1. stage[t] = "appended"
      BY <2>1, Zenon DEF CommitAppend
    <3>2. /\ NewEntry(t).seq = heads[txWs[t]].seq + 1
          /\ heads[txWs[t]].seq \in 0 .. MaxInt64
      BY <3>1, NextEntry, Zenon DEF ChainInv, ChainTypeOK
    <3> QED BY <2>1, <3>2, CommitRows, ChainAssumption
  <2>2. CASE UNCHANGED <<heads, entries>>
    BY <2>2, Zenon
  <2> QED BY <2>1, <2>2, Zenon DEF ChainNext, Record, BeginAppend, AppendStep,
             InitHead, LockHead, AppendEntry, FailAppend, Interrupt, Rollback,
             ChainQuiet, chainVars
<1> QED BY <1>1, InvHolds, PTL DEF ChainSpec, AppendOnly

-----------------------------------------------------------------------------
(***************************************************************************)
(* The transactions implement the append-only log of AuditLog.             *)
(* PolicyEnforcer and AuditExport use the abstract log in place of the     *)
(* transactions; this is what entitles them to.                            *)
(***************************************************************************)
\* In a chain that verifies, an entry is the only one with its number.
LEMMA TheEntry ==
  ASSUME NEW head, NEW rows, Verifies(head, rows), NEW e \in rows
  PROVE  EntryAt(rows, e.seq) = e
BY Zenon DEF Verifies, EntryAt

\* Each position of the chain stands for one transaction.
LEMMA RecordedIsSeq ==
  ASSUME ChainInv, NEW w \in Workspaces
  PROVE  Recorded(w) \in Seq(Txs) /\ Len(Recorded(w)) = heads[w].seq
<1>1. heads[w].seq \in Nat
  BY ChainAssumption DEF ChainInv, ChainTypeOK
<1>2. ASSUME NEW n \in 1 .. heads[w].seq
      PROVE  EntryAt(entries[w], n).event.subject \in Txs
  <2>1. PICK e \in entries[w] : e.seq = n
    BY Zenon DEF ChainInv, ChainVerifies, Verifies
  <2>2. EntryAt(entries[w], n) = e
    BY <2>1, TheEntry, Zenon DEF ChainInv, ChainVerifies
  <2>3. PICK t \in Txs : e.event = Decision(t)
    BY Zenon DEF ChainInv, EntriesCommitted
  <2> QED BY <2>2, <2>3 DEF Decision
<1>3. Recorded(w) \in [1 .. heads[w].seq -> Txs]
  BY <1>2, Zenon DEF Recorded
<1> QED BY <1>1, <1>3

\* A commit appends its transaction to the log of its workspace, and leaves
\* the other logs alone.
LEMMA CommitAppends ==
  ASSUME ChainInv, ChainInv', NEW t \in Txs, NEW a, CommitAppend(t, a)
  PROVE  /\ Recorded(txWs[t])' = Append(Recorded(txWs[t]), t)
         /\ \A v \in Workspaces \ {txWs[t]} : Recorded(v)' = Recorded(v)
<1> DEFINE w == txWs[t]
           e == NewEntry(t)
<1>1. /\ stage[t] = "appended" /\ w \in Workspaces
      /\ e.seq = heads[w].seq + 1 /\ e.event = Decision(t)
  BY NextEntry, Zenon DEF CommitAppend
<1>2. /\ entries'[w] = entries[w] \union {e}
      /\ heads'[w].seq = heads[w].seq + 1
      /\ \A v \in Workspaces \ {w} : /\ entries'[v] = entries[v]
                                      /\ heads'[v] = heads[v]
  BY <1>1, CommitRows, Zenon
<1>3. txWs' = txWs
  BY Zenon DEF CommitAppend
<1>4. heads[w].seq \in Nat
  BY <1>1, ChainAssumption DEF ChainInv, ChainTypeOK
<1>5. Verifies(heads[w], entries[w]) /\ Verifies(heads'[w], entries'[w])
  BY <1>1, Zenon DEF ChainInv, ChainVerifies
<1> HIDE DEF e
<1>6. ASSUME NEW n \in 1 .. heads[w].seq
      PROVE  EntryAt(entries'[w], n) = EntryAt(entries[w], n)
  <2> USE Zenon
  <2>1. PICK f \in entries[w] : f.seq = n
    BY <1>5 DEF Verifies
  <2>2. EntryAt(entries[w], n) = f
    BY <1>5, <2>1, TheEntry
  <2>3. EntryAt(entries'[w], n) = f
    BY <1>2, <1>5, <2>1, TheEntry
  <2> QED BY <2>2, <2>3
<1>7. EntryAt(entries'[w], heads[w].seq + 1).event.subject = t
  <2>1. EntryAt(entries'[w], e.seq) = e
    BY <1>2, <1>5, TheEntry, Zenon
  <2> QED BY <1>1, <2>1 DEF Decision
<1>8. Recorded(w)' = [n \in 1 .. heads[w].seq + 1 |->
                        EntryAt(entries'[w], n).event.subject]
  BY <1>2, <1>3, Zenon DEF Recorded
<1>9. /\ Recorded(w) = [n \in 1 .. heads[w].seq |->
                          EntryAt(entries[w], n).event.subject]
      /\ Recorded(w) \in Seq(Txs) /\ Len(Recorded(w)) = heads[w].seq
  BY <1>1, RecordedIsSeq, Zenon DEF Recorded
<1>10. Recorded(w)' = Append(Recorded(w), t)
  <2> HIDE DEF w
  <2>1. Append(Recorded(w), t) =
          [n \in 1 .. heads[w].seq + 1 |->
             IF n <= heads[w].seq THEN Recorded(w)[n] ELSE t]
    BY <1>4, <1>9
  <2>2. ASSUME NEW n \in 1 .. heads[w].seq + 1
        PROVE  EntryAt(entries'[w], n).event.subject =
                 IF n <= heads[w].seq THEN Recorded(w)[n] ELSE t
    BY <1>4, <1>6, <1>7, <1>9
  <2> QED BY <1>8, <2>1, <2>2, Zenon
<1>11. \A v \in Workspaces \ {w} : Recorded(v)' = Recorded(v)
  BY <1>2, Zenon DEF Recorded
<1> QED BY <1>10, <1>11, Zenon

\* The log as a function of the workspace, and what the callers were told.
TheLog == [w \in Workspaces |-> Recorded(w)]

\* A commit is an append to the abstract log.
LEMMA CommitRefines ==
  ASSUME ChainInv, ChainInv', NEW t \in Txs, NEW a \in {"ok", "error"},
         CommitAppend(t, a)
  PROVE  Log!LogAppend(t, txWs[t], a)
<1> USE Zenon
<1>1. stage[t] = "appended" /\ txWs[t] \in Workspaces
  BY NextEntry DEF CommitAppend
<1>2. acked[t] = "none"
  BY <1>1 DEF ChainInv, Accounted, Ended
<1>3. TheLog' = [TheLog EXCEPT ![txWs[t]] = Append(@, t)]
  <2>1. txWs' = txWs
    BY DEF CommitAppend
  <2> QED BY <1>1, <2>1, CommitAppends DEF TheLog
<1> QED BY <1>2, <1>3 DEF Log!LogAppend, TheLog, CommitAppend

\* A rollback is a failed append.
LEMMA RollbackRefines ==
  ASSUME ChainInv, NEW t \in Txs, Open(t), Rollback(t)
  PROVE  Log!LogFail(t)
<1> USE Zenon
<1>1. acked[t] = "none"
  BY DEF ChainInv, Accounted, Ended, Open, ChainTypeOK
<1>2. UNCHANGED TheLog
  BY DEF Rollback, TheLog, Recorded
<1> QED BY <1>1, <1>2 DEF Log!LogFail, TheLog, Rollback, ErrorReturned

\* Every step of the transactions is an append, a failed append or invisible.
LEMMA StepRefines ==
  ASSUME ChainInv, ChainInv', [ChainNext]_chainVars
  PROVE  [Log!LogNext]_<<TheLog, acked>>
<1> USE Zenon
<1>1. ASSUME NEW t \in Txs, NEW a \in {"ok", "error"}, CommitAppend(t, a)
      PROVE  Log!LogNext
  <2>1. txWs[t] \in Workspaces
    BY <1>1, NextEntry DEF CommitAppend
  <2> QED BY <1>1, <2>1, CommitRefines DEF Log!LogNext
<1>2. ASSUME NEW t \in Txs, FailAppend(t) \/ Interrupt(t)
      PROVE  Log!LogNext
  <2>1. Open(t) /\ Rollback(t)
    BY <1>2 DEF FailAppend, Interrupt, Open
  <2> QED BY <2>1, RollbackRefines DEF Log!LogNext
<1>3. CASE UNCHANGED <<heads, entries, acked>>
  BY <1>3 DEF TheLog, Recorded
<1> QED BY <1>1, <1>2, <1>3
        DEF ChainNext, Record, BeginAppend, AppendStep, InitHead, LockHead,
            AppendEntry, ChainQuiet, chainVars

\* The concurrent transactions of Record implement one append-only log with
\* atomic appends per workspace.
THEOREM ChainImplementsLog == ChainSpec => ImplementsAuditLog
<1>1. ChainInit => Log!LogInit
  BY DEF ChainInit, Log!LogInit, Recorded, NoHead
<1>2. ChainInv /\ ChainInv' /\ [ChainNext]_chainVars
        => [Log!LogNext]_<<TheLog, acked>>
  BY StepRefines, Zenon
<1> QED BY <1>1, <1>2, InvHolds, PTL
        DEF ChainSpec, ImplementsAuditLog, Log!LogSpec, TheLog
=============================================================================
