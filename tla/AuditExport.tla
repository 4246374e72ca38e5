---------------------------- MODULE AuditExport -----------------------------
(***************************************************************************)
(* Downloading a workspace's audit chain: the handler of                   *)
(* internal/hubserver/audit_export.go (slots, authorization, response),    *)
(* the reads of internal/hubdb (the whole chain, or one page of the        *)
(* snapshot that the first page fixed), and the PageSequenceVerifier of    *)
(* internal/auditrecord with which a client checks the pages it collects.  *)
(*                                                                         *)
(* Each request appends its own authorization to the chain it reads, other *)
(* requests append too, responses are lost, repeated and reordered.        *)
(*                                                                         *)
(* The hash of an entry is a function of the entry and of the hash before  *)
(* it, so the hash of entry n is modelled by the first n entries.          *)
(***************************************************************************)
EXTENDS PolicyEnforcer

CONSTANTS Clients,     \* programs that download
          MaxSlots,    \* maxConcurrentAuditExports
          MaxEntries,  \* auditrecord.MaxEntries, of a page and of a chain
          MaxOthers    \* bound: requests of the hub that are not downloads

ASSUME ExportAssumption == /\ MaxSlots \in Nat \ {0} /\ MaxEntries \in Nat \ {0}
                           /\ MaxOthers \in Nat

VARIABLES
  slots,     \* the requests that hold a slot
  http,      \* request -> how far its HTTP exchange is
  ask,       \* request -> client, resource and cursor
  doc,       \* request -> the document it is answered with
  verifier,  \* client -> its PageSequenceVerifier
  got,       \* client -> the entries of the pages the verifier accepted
  cursor     \* client -> where it continues

exportVars == <<slots, http, ask, doc, verifier, got, cursor>>
vars == <<logVars, pepVars, exportVars>>

Hash(l, n) == SubSeq(l, 1, n)
ZeroHash == <<>>

NoAsk == [client |-> NoRequest, resource |-> "none"]
FirstPage == [initial |-> TRUE]
NoDoc == [resource |-> "none"]
NewVerifier == [initialized |-> FALSE, complete |-> FALSE, next |-> 1,
                prev |-> ZeroHash]

Init ==
  /\ PepInit
  /\ slots = {}
  /\ http = [t \in Txs |-> "none"]
  /\ ask = [t \in Txs |-> NoAsk]
  /\ doc = [t \in Txs |-> NoDoc]
  /\ verifier = [c \in Clients |-> NewVerifier]
  /\ got = [c \in Clients |-> <<>>]
  /\ cursor = [c \in Clients |-> FirstPage]

-----------------------------------------------------------------------------
(***************************************************************************)
(* The handler until the document is read                                  *)
(***************************************************************************)

SlotFree == Cardinality(slots) < MaxSlots

\* A client asks for the chain, or for the page at its cursor.  The slot is
\* taken before the policy decision.
Accept(t, c, w, role, resource) ==
  /\ http[t] = "none"
  /\ SlotFree
  /\ slots' = slots \union {t}
  /\ http' = [http EXCEPT ![t] = "open"]
  /\ ask' = [ask EXCEPT ![t] = [client |-> c, resource |-> resource,
                                cursor |-> cursor[c]]]
  /\ Authorize(t, w, role, "export-audit", TRUE)
  /\ UNCHANGED <<doc, verifier, got, cursor>>

\* 503 with Retry-After: nothing is authorized or recorded.
Busy(t, c) ==
  /\ http[t] = "none"
  /\ ~SlotFree
  /\ http' = [http EXCEPT ![t] = "busy"]
  /\ UNCHANGED <<logVars, pepVars, slots, ask, doc, verifier, got, cursor>>

\* AllowReadHook.Decide.
AllowReadHook(r) ==
  IF r.action \in {"read", "export-audit"} THEN "allow" ELSE "deny"

\* The request of a proposer is decided by whatever PolicyHook is wired in.
AuthorizeStep(t) ==
  /\ \/ \E h \in HookAnswers :
          /\ Evaluate(t, h)
          /\ http[t] = "other" \/ h = AllowReadHook(req[t])
     \/ RecordDurable(t) \/ DurableFails(t)
     \/ RecordProcess(t) \/ ProcessFails(t)
  /\ UNCHANGED exportVars

\* Another request of the hub, for a read or a proposal, goes through the
\* enforcement point at the same time.
OtherRequest(t, w, role, action, valid) ==
  /\ http[t] = "none"
  /\ Cardinality({u \in Txs : http[u] = "other"}) < MaxOthers
  /\ action # "export-audit"
  /\ Authorize(t, w, role, action, valid)
  /\ http' = [http EXCEPT ![t] = "other"]
  /\ UNCHANGED <<slots, ask, doc, verifier, got, cursor>>

-----------------------------------------------------------------------------
(***************************************************************************)
(* Reading one document in a repeatable-read transaction                   *)
(***************************************************************************)

\* readVerifiedPolicyAuditPageTx: the snapshot, the first entry and the hash
\* before it, from the cursor or from the current head.
Snapshot(k, l) ==
  IF k.initial THEN [head |-> Len(l), hash |-> Hash(l, Len(l))]
  ELSE k.snapshot
From(k) == IF k.initial THEN 1 ELSE k.next
Before(k) == IF k.initial THEN ZeroHash ELSE k.prev

\* ContinuePage and the anchors: the cursor is of this workspace, and the
\* retained rows at its boundaries carry its hashes.
AnchoredToHead(k, w, l) ==                          \* mutant: frozen head
  ~k.initial => k.ws = w /\ k.snapshot.head = Len(l)
Anchored(k, w, l) ==
  ~k.initial => /\ k.ws = w
                /\ k.snapshot.head <= Len(l) /\ k.next <= k.snapshot.head
                /\ k.prev = Hash(l, k.next - 1)
                /\ k.snapshot.hash = Hash(l, k.snapshot.head)

PageEnd(from, head) ==
  IF head - from + 1 > MaxEntries THEN from + MaxEntries - 1 ELSE head

\* newPolicyAuditPage; EncodePageCursor makes the continuation.
Page(k, w, l) ==
  LET s == Snapshot(k, l)
      end == PageEnd(From(k), s.head) IN
  [resource |-> "pages", ws |-> w, snapshot |-> s, start |-> From(k),
   prev |-> Before(k), entries |-> SubSeq(l, From(k), end),
   next |-> IF end = s.head THEN FirstPage
            ELSE [initial |-> FALSE, ws |-> w, snapshot |-> s,
                  next |-> end + 1, prev |-> Hash(l, end)]]

\* Page.VerifyForWorkspace and PageRequest.ValidatePage.
LastHash(p) == p.prev \o p.entries
LastSeq(p) == p.start + Len(p.entries) - 1
Valid(p, k) ==
  /\ Len(p.entries) \in 1 .. MaxEntries
  /\ LastSeq(p) <= p.snapshot.head
  /\ IF LastSeq(p) = p.snapshot.head
     THEN p.next = FirstPage /\ LastHash(p) = p.snapshot.hash
     ELSE /\ Len(p.entries) = MaxEntries
          /\ ~p.next.initial
          /\ p.next.snapshot = p.snapshot
          /\ p.next.next = LastSeq(p) + 1 /\ p.next.prev = LastHash(p)
  /\ p.start = From(k) /\ p.prev = Before(k)
  /\ ~k.initial => p.snapshot = k.snapshot

\* ExportPolicyAuditChain and Export.VerifyForWorkspace.
ChainSeenBefore(w, l) ==                            \* mutant: old snapshot
  [resource |-> "chain", ws |-> w, entries |-> SubSeq(l, 1, Len(l) - 1)]
Chain(w, l) == [resource |-> "chain", ws |-> w, entries |-> l]

\* The retained rows that request t reads, what it asks for, and whether
\* every check on the way to the response passes.
Rows(t) == log[req[t].ws]
Document(t) == IF ask[t].resource = "chain" THEN Chain(req[t].ws, Rows(t))
               ELSE Page(ask[t].cursor, req[t].ws, Rows(t))
Available(t) ==
  IF ask[t].resource = "chain" THEN Len(Rows(t)) \in 1 .. MaxEntries
  ELSE /\ Rows(t) # <<>>
       /\ Anchored(ask[t].cursor, req[t].ws, Rows(t))
       /\ Valid(Document(t), ask[t].cursor)

Allowed(t) == http[t] = "open" /\ answer[t] = "allowed"

Read(t) ==
  /\ Allowed(t)
  /\ Available(t)
  /\ doc' = [doc EXCEPT ![t] = Document(t)]
  /\ http' = [http EXCEPT ![t] = "read"]
  /\ UNCHANGED <<logVars, pepVars, slots, ask, verifier, got, cursor>>

-----------------------------------------------------------------------------
(***************************************************************************)
(* The response                                                            *)
(***************************************************************************)

SlotsFreed(t) == slots \ {t}

Respond(t, status) ==
  /\ http' = [http EXCEPT ![t] = status]
  /\ slots' = SlotsFreed(t)
  /\ UNCHANGED <<logVars, pepVars, ask, doc, verifier, got, cursor>>

Send(t) == http[t] = "read" /\ Respond(t, "sent")

Refuse(t) ==
  /\ http[t] = "open" /\ answer[t] \notin {"none", "allowed"}
  /\ Respond(t, "refused")

\* The read fails: what it asks for does not exist, or the database fails.
Unavailable(t) ==
  /\ Allowed(t)
  /\ ~Available(t)
  /\ Respond(t, "unavailable")

ReadFails(t) == Allowed(t) /\ Respond(t, "failed")

-----------------------------------------------------------------------------
(***************************************************************************)
(* The client                                                              *)
(***************************************************************************)

\* PageSequenceVerifier.Add accepts p.
AcceptsAnyOrder(v, p) ==                            \* mutant: no continuity
  ~v.complete /\ (v.initialized => p.snapshot = v.snapshot)
Accepts(v, p) ==
  /\ ~v.complete
  /\ v.initialized => p.ws = v.ws /\ p.snapshot = v.snapshot
  /\ p.start = v.next /\ p.prev = v.prev

Added(v, p) ==
  [initialized |-> TRUE, complete |-> p.next.initial, ws |-> p.ws,
   snapshot |-> p.snapshot, next |-> LastSeq(p) + 1, prev |-> LastHash(p)]

\* A page arrives; the verifier refuses one that does not continue.
Receive(t) ==
  LET c == ask[t].client
      p == doc[t] IN
  /\ http[t] = "sent" /\ p.resource = "pages"
  /\ http' = [http EXCEPT ![t] = "received"]
  /\ IF Accepts(verifier[c], p)
     THEN /\ verifier' = [verifier EXCEPT ![c] = Added(@, p)]
          /\ got' = [got EXCEPT ![c] = @ \o p.entries]
          /\ cursor' = [cursor EXCEPT ![c] = p.next]
     ELSE UNCHANGED <<verifier, got, cursor>>
  /\ UNCHANGED <<logVars, pepVars, slots, ask, doc>>

-----------------------------------------------------------------------------
HandlerStep(t) ==
  AuthorizeStep(t) \/ Read(t) \/ Send(t) \/ Refuse(t) \/ Unavailable(t)

Quiet == /\ \A t \in Txs : http[t] \notin {"none", "open", "read"}
         /\ \A t \in Txs : http[t] = "other" => answer[t] # "none"
         /\ UNCHANGED vars

Next ==
  \/ \E t \in Txs :
       \/ \E c \in Clients, w \in Workspaces, r \in {"admin", "reader"},
             x \in {"chain", "pages"} : Accept(t, c, w, r, x)
       \/ \E c \in Clients : Busy(t, c)
       \/ \E w \in Workspaces, r \in Roles, a \in Actions, v \in BOOLEAN :
            OtherRequest(t, w, r, a, v)
       \/ HandlerStep(t) \/ ReadFails(t) \/ Receive(t)
  \/ Quiet

Spec == Init /\ [][Next]_vars

-----------------------------------------------------------------------------
(***************************************************************************)
(* Properties                                                              *)
(***************************************************************************)

\* A sequence of pages that PageSequenceVerifier accepts as complete is the
\* workspace's log up to one moment, no entry lost, repeated or taken from
\* another workspace, although every page request extended the log and
\* responses were lost, repeated and reordered.
CompleteExportIsHistory ==
  \A c \in Clients : verifier[c].complete =>
    /\ got[c] = SubSeq(log[verifier[c].ws], 1, verifier[c].snapshot.head)
    /\ Len(got[c]) = verifier[c].snapshot.head

\* A continuation that the hub handed out stays good while the log grows:
\* only a chain over the limit and a cursor of another workspace are
\* unavailable, and whichever of its early returns the handler takes, a
\* request that was answered holds no slot that a retry would need.
ContinuationHonoured ==
  /\ \A t \in Txs : http[t] = "unavailable" =>
       \/ ask[t].resource = "chain" /\ Len(log[req[t].ws]) > MaxEntries
       \/ ask[t].resource = "pages" /\ ~ask[t].cursor.initial
          /\ ask[t].cursor.ws # req[t].ws
  /\ slots = {t \in Txs : http[t] \in {"open", "read"}}

\* Nothing is disclosed before its disclosure is on record: a document
\* exists only for an administrator of its workspace, the durable log holds
\* the request, and a chain or a first page shows that very entry.
DisclosureOnRecord ==
  \A t \in Txs : doc[t] # NoDoc =>
    /\ req[t].role = "admin" /\ doc[t].ws = req[t].ws
    /\ Times(t, doc[t].ws) # {}
    /\ doc[t].resource = "chain" => t \in {doc[t].entries[n] :
                                           n \in DOMAIN doc[t].entries}
    /\ doc[t].resource = "pages" /\ ask[t].cursor.initial =>
         \E n \in 1 .. doc[t].snapshot.head : log[doc[t].ws][n] = t
=============================================================================
