------------------------- MODULE AuditExportProofs --------------------------
(***************************************************************************)
(* For any number of requests, clients and workspaces, any page size and   *)
(* any number of slots: the enforcement point is fail closed, nothing is   *)
(* disclosed before it is on record, a download the verifier calls         *)
(* complete is a prefix of the log, and continuations stay good.           *)
(*                                                                         *)
(* The argument is that every cursor, page and verifier, wherever it is on *)
(* its way, describes a prefix of its workspace's log (GoodCursor,         *)
(* GoodPage, GoodVerifier).  These speak of the log as a parameter, so     *)
(* that they can be carried from one log to the next.                      *)
(***************************************************************************)
EXTENDS AuditExport, Integers, TLAPS, FiniteSetTheorems

Logs == [Workspaces -> Seq(Txs)]
IsFunctionOn(f, S) == f = [x \in S |-> f[x]]

Absent(t, lg) == \A v \in Workspaces : \A m \in 1 .. Len(lg[v]) : lg[v][m] # t
RecordedOnce(t, w, lg) ==
  /\ w \in Workspaces
  /\ \E n \in 1 .. Len(lg[w]) :
       \A v \in Workspaces : \A m \in 1 .. Len(lg[v]) :
         lg[v][m] = t <=> v = w /\ m = n

GoodSnapshot(s, w, lg) ==
  /\ w \in Workspaces
  /\ s.head \in 0 .. Len(lg[w]) /\ s.hash = SubSeq(lg[w], 1, s.head)

GoodCursor(k, lg) ==
  \/ k = FirstPage
  \/ /\ k.initial = FALSE
     /\ GoodSnapshot(k.snapshot, k.ws, lg)
     /\ k.next \in 2 .. k.snapshot.head
     /\ k.prev = SubSeq(lg[k.ws], 1, k.next - 1)

GoodPage(p, lg) ==
  /\ GoodSnapshot(p.snapshot, p.ws, lg)
  /\ p.start \in 1 .. p.snapshot.head
  /\ p.prev = SubSeq(lg[p.ws], 1, p.start - 1)
  /\ \E end \in p.start .. p.snapshot.head :
       /\ p.entries = SubSeq(lg[p.ws], p.start, end)
       /\ p.next.initial => end = p.snapshot.head
  /\ GoodCursor(p.next, lg)

GoodVerifier(v, g, lg) ==
  \/ v = NewVerifier /\ g = <<>>
  \/ /\ v.initialized
     /\ GoodSnapshot(v.snapshot, v.ws, lg)
     /\ v.next \in 1 .. v.snapshot.head + 1
     /\ v.prev = SubSeq(lg[v.ws], 1, v.next - 1) /\ g = v.prev
     /\ v.complete => v.next = v.snapshot.head + 1

-----------------------------------------------------------------------------
(***************************************************************************)
(* Logs that grow                                                          *)
(***************************************************************************)

Grows(lg, new) ==
  \A w \in Workspaces : \/ new[w] = lg[w]
                        \/ \E t \in Txs : new[w] = Append(lg[w], t)

\* A prefix of a log stays one when an entry is appended.
LEMMA PrefixKept ==
  ASSUME NEW lg \in Logs, NEW new \in Logs, Grows(lg, new),
         NEW w \in Workspaces, NEW n \in 0 .. Len(lg[w])
  PROVE  n \in 0 .. Len(new[w]) /\ SubSeq(new[w], 1, n) = SubSeq(lg[w], 1, n)
<1>1. lg[w] \in Seq(Txs)
  BY Zenon DEF Logs
<1> QED BY <1>1 DEF Grows

\* So does any part of it.
LEMMA PartKept ==
  ASSUME NEW lg \in Logs, NEW new \in Logs, Grows(lg, new),
         NEW w \in Workspaces, NEW m \in 1 .. Len(lg[w]), NEW n \in m .. Len(lg[w])
  PROVE  SubSeq(new[w], m, n) = SubSeq(lg[w], m, n)
<1>1. lg[w] \in Seq(Txs)
  BY Zenon DEF Logs
<1> QED BY <1>1 DEF Grows

\* A snapshot taken of a shorter log is still one of the longer log.
LEMMA SnapshotKept ==
  ASSUME NEW lg \in Logs, NEW new \in Logs, Grows(lg, new),
         NEW s, NEW w, GoodSnapshot(s, w, lg)
  PROVE  GoodSnapshot(s, w, new)
BY PrefixKept, Zenon DEF GoodSnapshot

\* And so is a cursor.
LEMMA CursorKept ==
  ASSUME NEW lg \in Logs, NEW new \in Logs, Grows(lg, new),
         NEW k, GoodCursor(k, lg)
  PROVE  GoodCursor(k, new)
<1>1. CASE k = FirstPage
  BY <1>1, Zenon DEF GoodCursor
<1>2. CASE k # FirstPage
  <2>1. /\ k.initial = FALSE
        /\ GoodSnapshot(k.snapshot, k.ws, lg) /\ k.next \in 2 .. k.snapshot.head
        /\ k.prev = SubSeq(lg[k.ws], 1, k.next - 1)
    BY <1>2, Zenon DEF GoodCursor
  <2>2. k.ws \in Workspaces /\ k.next - 1 \in 0 .. Len(lg[k.ws])
    BY <2>1 DEF GoodSnapshot, Logs
  <2>3. SubSeq(new[k.ws], 1, k.next - 1) = SubSeq(lg[k.ws], 1, k.next - 1)
    BY <2>2, PrefixKept, Zenon
  <2> QED BY <2>1, <2>3, SnapshotKept, Zenon DEF GoodCursor
<1> QED BY <1>1, <1>2, Zenon

\* And a page.
LEMMA PageKept ==
  ASSUME NEW lg \in Logs, NEW new \in Logs, Grows(lg, new),
         NEW p, GoodPage(p, lg)
  PROVE  GoodPage(p, new)
<1>1. p.ws \in Workspaces /\ lg[p.ws] \in Seq(Txs) /\ p.snapshot.head \in 0 .. Len(lg[p.ws])
  BY Zenon DEF GoodPage, GoodSnapshot, Logs
<1>2. p.start \in 1 .. p.snapshot.head /\ p.start - 1 \in 0 .. Len(lg[p.ws])
  BY <1>1 DEF GoodPage
<1>3. SubSeq(new[p.ws], 1, p.start - 1) = SubSeq(lg[p.ws], 1, p.start - 1)
  BY <1>1, <1>2, PrefixKept, Zenon
<1>4. ASSUME NEW end \in p.start .. p.snapshot.head
      PROVE  SubSeq(new[p.ws], p.start, end) = SubSeq(lg[p.ws], p.start, end)
  <2>1. p.start \in 1 .. Len(lg[p.ws]) /\ end \in p.start .. Len(lg[p.ws])
    BY <1>1, <1>2, <1>4
  <2> QED BY <1>1, <2>1, PartKept, Zenon
<1> QED BY <1>3, <1>4, SnapshotKept, CursorKept, Zenon DEF GoodPage

\* And the state of a verifier.
LEMMA VerifierKept ==
  ASSUME NEW lg \in Logs, NEW new \in Logs, Grows(lg, new),
         NEW v, NEW g, GoodVerifier(v, g, lg)
  PROVE  GoodVerifier(v, g, new)
<1>1. CASE v = NewVerifier /\ g = <<>>
  BY <1>1, Zenon DEF GoodVerifier
<1>2. CASE ~(v = NewVerifier /\ g = <<>>)
  <2>1. v.ws \in Workspaces /\ lg[v.ws] \in Seq(Txs) /\ v.next - 1 \in 0 .. Len(lg[v.ws])
    BY <1>2 DEF GoodVerifier, GoodSnapshot, Logs
  <2>2. SubSeq(new[v.ws], 1, v.next - 1) = SubSeq(lg[v.ws], 1, v.next - 1)
    BY <2>1, PrefixKept, Zenon
  <2> QED BY <1>2, <2>2, SnapshotKept, Zenon DEF GoodVerifier
<1> QED BY <1>1, <1>2, Zenon

\* A sequence that is not empty has a first element.
LEMMA LenOfNonEmpty ==
  ASSUME NEW s \in Seq(Txs), s # <<>> PROVE Len(s) \in Nat \ {0}
OBVIOUS

IsAppend(lg, new, w, u) == new = [lg EXCEPT ![w] = Append(@, u)]

\* What one append changes.
LEMMA Appended ==
  ASSUME NEW lg \in Logs, NEW u \in Txs, NEW w \in Workspaces, NEW new,
         IsAppend(lg, new, w, u)
  PROVE  /\ new \in Logs /\ Grows(lg, new)
         /\ \A t \in Txs : t # u /\ Absent(t, lg) => Absent(t, new)
         /\ \A t \in Txs : \A v : t # u /\ RecordedOnce(t, v, lg) => RecordedOnce(t, v, new)
         /\ Absent(u, lg) => RecordedOnce(u, w, new)
<1>1. \A v \in Workspaces : lg[v] \in Seq(Txs)
  BY Zenon DEF Logs
<1>2. /\ \A v \in Workspaces : v # w => new[v] = lg[v]
      /\ new[w] = Append(lg[w], u)
  BY Zenon DEF Logs, IsAppend
<1>3. /\ Append(lg[w], u) \in Seq(Txs) /\ Len(Append(lg[w], u)) = Len(lg[w]) + 1
      /\ Append(lg[w], u)[Len(lg[w]) + 1] = u
      /\ \A i \in 1 .. Len(lg[w]) : Append(lg[w], u)[i] = lg[w][i]
  BY <1>1
<1>4. new \in Logs /\ Grows(lg, new)
  BY <1>2, <1>3, Zenon DEF Logs, Grows, IsAppend
<1>5. /\ \A v \in Workspaces : Len(lg[v]) \in Nat /\ Len(new[v]) \in Nat
      /\ \A v \in Workspaces : \A m \in 1 .. Len(new[v]) :
           new[v][m] = IF v = w /\ m = Len(lg[w]) + 1 THEN u ELSE lg[v][m]
      /\ \A v \in Workspaces : Len(new[v]) = IF v = w THEN Len(lg[v]) + 1 ELSE Len(lg[v])
  BY <1>1, <1>2, <1>3
<1>6. \A t \in Txs : t # u /\ Absent(t, lg) => Absent(t, new)
  BY <1>5 DEF Absent
<1>7. ASSUME NEW t \in Txs, NEW v, t # u, RecordedOnce(t, v, lg) PROVE RecordedOnce(t, v, new)
  <2>1. PICK n \in 1 .. Len(lg[v]) : \A x \in Workspaces : \A m \in 1 .. Len(lg[x]) :
          lg[x][m] = t <=> x = v /\ m = n
    BY <1>7, Zenon DEF RecordedOnce
  <2>2. v \in Workspaces /\ n \in 1 .. Len(new[v])
    BY <1>5, <1>7 DEF RecordedOnce
  <2>3. \A x \in Workspaces : \A m \in 1 .. Len(new[x]) : new[x][m] = t <=> x = v /\ m = n
    BY <1>5, <1>7, <2>1, <2>2
  <2> QED BY <2>2, <2>3, Zenon DEF RecordedOnce
<1>8. ASSUME Absent(u, lg) PROVE RecordedOnce(u, w, new)
  <2>1. Len(lg[w]) + 1 \in 1 .. Len(new[w])
    BY <1>5
  <2>2. \A x \in Workspaces : \A m \in 1 .. Len(new[x]) :
          new[x][m] = u <=> x = w /\ m = Len(lg[w]) + 1
    BY <1>5, <1>8 DEF Absent
  <2> QED BY <2>1, <2>2, Zenon DEF RecordedOnce
<1> QED BY <1>4, <1>6, <1>7, <1>8, Zenon

-----------------------------------------------------------------------------
(***************************************************************************)
(* The invariant                                                           *)
(***************************************************************************)

WellTyped ==
  /\ log \in Logs
  /\ told \in [Txs -> {"none", "ok", "error"}]
  /\ stage \in [Txs -> {"idle", "deciding", "recording", "logging", "answered"}]
  /\ answer \in [Txs -> {"none", "allowed", "approval", "failed", "denied"}]
  /\ IsFunctionOn(req, Txs) /\ IsFunctionOn(decision, Txs)
  /\ http \in [Txs -> {"none", "busy", "other", "open", "read", "sent", "received",
                       "refused", "unavailable", "failed"}]
  /\ IsFunctionOn(ask, Txs) /\ IsFunctionOn(doc, Txs)
  /\ IsFunctionOn(verifier, Clients) /\ IsFunctionOn(got, Clients)
  /\ IsFunctionOn(cursor, Clients)

\* A request inside the enforcement point: it is in the log at most once, and
\* once it is allowed both logs hold its decision.
RequestOK(t) ==
  /\ stage[t] # "idle" => req[t].ws \in Workspaces
  /\ stage[t] \in {"idle", "deciding", "recording"} => told[t] = "none"
  /\ stage[t] # "answered" => answer[t] = "none"
  /\ told[t] = "none" => Absent(t, log)
  /\ stage[t] = "logging" \/ answer[t] = "allowed" => RecordedOnce(t, req[t].ws, log)
  /\ stage[t] \notin {"idle", "deciding"} /\ decision[t].verdict = "allow"
       => Allows(req[t].role, req[t].action)
  /\ answer[t] = "allowed" => decision[t].verdict = "allow" /\ t \in processLog

\* The handler around it.
HandlerOK(t) ==
  /\ stage[t] = "idle" => http[t] \in {"none", "busy"}
  /\ http[t] = "open" => /\ req[t].action = "export-audit"
                         /\ ask[t].client \in Clients
                         /\ ask[t].resource \in {"chain", "pages"}
                         /\ GoodCursor(ask[t].cursor, log)
  /\ http[t] \in {"read", "sent"} => ask[t].client \in Clients
  /\ http[t] \in {"none", "busy", "other", "open"} => doc[t] = NoDoc

\* What it discloses.
DocOK(t) ==
  doc[t] # NoDoc =>
    /\ answer[t] = "allowed"
    /\ req[t].role = "admin" /\ doc[t].ws = req[t].ws
    /\ doc[t].resource \in {"chain", "pages"}
    /\ doc[t].resource = "chain" =>
         t \in {doc[t].entries[n] : n \in DOMAIN doc[t].entries}
    /\ doc[t].resource = "pages" =>
         /\ GoodPage(doc[t], log)
         /\ ask[t].cursor.initial =>
              \E n \in 1 .. doc[t].snapshot.head : log[doc[t].ws][n] = t

ClientOK(c) == GoodCursor(cursor[c], log) /\ GoodVerifier(verifier[c], got[c], log)

ExportInv ==
  /\ WellTyped
  /\ \A t \in Txs : RequestOK(t) /\ HandlerOK(t) /\ DocOK(t)
  /\ \A c \in Clients : ClientOK(c)

-----------------------------------------------------------------------------
(***************************************************************************)
(* What a step leaves alone stays good                                     *)
(***************************************************************************)

\* A request that this step is not about.
LEMMA RequestKept ==
  ASSUME NEW t \in Txs, RequestOK(t),
         stage'[t] = stage[t], told'[t] = told[t], answer'[t] = answer[t],
         req'[t] = req[t], decision'[t] = decision[t],
         processLog \subseteq processLog',
         Absent(t, log) => Absent(t, log'),
         \A v : RecordedOnce(t, v, log) => RecordedOnce(t, v, log')
  PROVE  RequestOK(t)'
<1> USE Zenon
<1>1. RequestOK(t)' <=>
        /\ stage'[t] # "idle" => req'[t].ws \in Workspaces
        /\ stage'[t] \in {"idle", "deciding", "recording"} => told'[t] = "none"
        /\ stage'[t] # "answered" => answer'[t] = "none"
        /\ told'[t] = "none" => Absent(t, log')
        /\ stage'[t] = "logging" \/ answer'[t] = "allowed"
             => RecordedOnce(t, req'[t].ws, log')
        /\ stage'[t] \notin {"idle", "deciding"} /\ decision'[t].verdict = "allow"
             => Allows(req'[t].role, req'[t].action)
        /\ answer'[t] = "allowed" => decision'[t].verdict = "allow" /\ t \in processLog'
  BY DEF RequestOK
<1> QED BY <1>1 DEF RequestOK

\* A handler that this step is not about, while the log may grow.
LEMMA HandlerKept ==
  ASSUME NEW t \in Txs, HandlerOK(t), log \in Logs, log' \in Logs, Grows(log, log'),
         stage'[t] = stage[t], req'[t] = req[t],
         http'[t] = http[t], ask'[t] = ask[t], doc'[t] = doc[t]
  PROVE  HandlerOK(t)'
<1> USE Zenon
<1>1. GoodCursor(ask[t].cursor, log) => GoodCursor(ask'[t].cursor, log')
  BY CursorKept
<1> QED BY <1>1 DEF HandlerOK

\* A document, while the log may grow.
LEMMA DocKept ==
  ASSUME NEW t \in Txs, DocOK(t), log \in Logs, log' \in Logs, Grows(log, log'),
         req'[t] = req[t], answer'[t] = answer[t], ask'[t] = ask[t], doc'[t] = doc[t]
  PROVE  DocOK(t)'
<1>1. CASE doc[t] = NoDoc \/ doc[t].resource # "pages"
  BY <1>1, Zenon DEF DocOK
<1>2. CASE doc[t] # NoDoc /\ doc[t].resource = "pages"
  <2>1. GoodPage(doc[t], log) /\ GoodPage(doc'[t], log')
    BY <1>2, PageKept, Zenon DEF DocOK
  <2>2. /\ doc[t].ws \in Workspaces /\ log[doc[t].ws] \in Seq(Txs)
        /\ doc[t].snapshot.head \in 0 .. Len(log[doc[t].ws])
    BY <2>1, Zenon DEF GoodPage, GoodSnapshot, Logs
  <2>3. \A n \in 1 .. doc[t].snapshot.head : log'[doc[t].ws][n] = log[doc[t].ws][n]
    BY <2>2 DEF Grows
  <2> QED BY <1>2, <2>1, <2>3, Zenon DEF DocOK
<1> QED BY <1>1, <1>2, Zenon

\* A client, while the log may grow.
LEMMA ClientKept ==
  ASSUME NEW c \in Clients, ClientOK(c), log \in Logs, log' \in Logs, Grows(log, log'),
         verifier'[c] = verifier[c], got'[c] = got[c], cursor'[c] = cursor[c]
  PROVE  ClientOK(c)'
<1> USE Zenon
<1>1. GoodCursor(cursor'[c], log')
  BY CursorKept DEF ClientOK
<1>2. GoodVerifier(verifier'[c], got'[c], log')
  BY VerifierKept DEF ClientOK
<1> QED BY <1>1, <1>2 DEF ClientOK

\* A log that stays as it is grows by nothing.
LEMMA SameLogGrows == ASSUME NEW lg PROVE Grows(lg, lg)
BY Zenon DEF Grows

-----------------------------------------------------------------------------
(***************************************************************************)
(* Every step preserves it                                                 *)
(***************************************************************************)

\* An empty log, no requests and new verifiers.
LEMMA InitEstablishesInv == Init => ExportInv
<1> SUFFICES ASSUME Init PROVE ExportInv
  BY Zenon
<1> USE DEF Init, PepInit, LogInit
<1>1. WellTyped
  BY DEF WellTyped, Logs, IsFunctionOn
<1>2. ASSUME NEW t \in Txs PROVE RequestOK(t) /\ HandlerOK(t) /\ DocOK(t)
  <2>1. Absent(t, log)
    BY DEF Absent
  <2> QED BY <2>1, Zenon DEF RequestOK, HandlerOK, DocOK
<1>3. ASSUME NEW c \in Clients PROVE ClientOK(c)
  BY Zenon DEF ClientOK, GoodCursor, GoodVerifier
<1> QED BY <1>1, <1>2, <1>3, Zenon DEF ExportInv

\* A new request: it is in no log yet.
LEMMA AuthorizeKeeps ==
  ASSUME ExportInv, NEW t \in Txs, NEW w \in Workspaces, NEW role, NEW action, NEW valid,
         Authorize(t, w, role, action, valid)
  PROVE  \A u \in Txs : RequestOK(u)'
<1> USE Zenon
<1> SUFFICES ASSUME NEW u \in Txs PROVE RequestOK(u)'
  OBVIOUS
<1>0. /\ stage \in [Txs -> {"idle", "deciding", "recording", "logging", "answered"}]
      /\ IsFunctionOn(req, Txs) /\ RequestOK(u) /\ RequestOK(t)
  BY DEF ExportInv, WellTyped
<1>1. CASE u # t
  BY <1>0, <1>1, RequestKept DEF Authorize, PepGoTo, logVars, IsFunctionOn
<1>2. CASE u = t
  <2>1. /\ stage[t] = "idle" /\ stage'[t] = "deciding" /\ req'[t].ws = w
        /\ UNCHANGED <<decision, processLog, answer, log, told>>
    BY <1>0 DEF Authorize, PepGoTo, logVars, IsFunctionOn
  <2>2. told[t] = "none" /\ answer[t] = "none" /\ Absent(t, log)
    BY <1>0, <2>1 DEF RequestOK
  <2> QED BY <1>2, <2>1, <2>2 DEF RequestOK
<1> QED BY <1>1, <1>2

\* Accept and OtherRequest.
LEMMA AcceptPreservesInv ==
  ASSUME ExportInv, NEW t \in Txs, NEW w \in Workspaces, NEW role, NEW action, NEW valid,
         Authorize(t, w, role, action, valid),
         http[t] = "none",
         \/ /\ http' = [http EXCEPT ![t] = "open"] /\ action = "export-audit"
            /\ \E c \in Clients, x \in {"chain", "pages"} :
                 ask' = [ask EXCEPT ![t] = [client |-> c, resource |-> x, cursor |-> cursor[c]]]
         \/ http' = [http EXCEPT ![t] = "other"] /\ ask' = ask,
         UNCHANGED <<doc, verifier, got, cursor>>
  PROVE  ExportInv'
<1> USE Zenon
<1> USE DEF ExportInv
<1>1. log' = log /\ told' = told /\ log \in Logs /\ Grows(log, log')
  BY SameLogGrows DEF WellTyped, Authorize, logVars
<1>2. WellTyped'
  BY <1>1 DEF WellTyped, Authorize, PepGoTo, IsFunctionOn
<1>3. \A u \in Txs : RequestOK(u)'
  BY AuthorizeKeeps
<1>4. ASSUME NEW u \in Txs, u # t PROVE HandlerOK(u)' /\ DocOK(u)'
  BY <1>1, <1>4, HandlerKept, DocKept DEF WellTyped, Authorize, PepGoTo, IsFunctionOn
<1>5. HandlerOK(t)' /\ DocOK(t)'
  <2>1. doc[t] = NoDoc /\ doc'[t] = NoDoc
    BY DEF HandlerOK
  <2>2. stage'[t] = "deciding" /\ req'[t].action = action
    BY DEF WellTyped, Authorize, PepGoTo, IsFunctionOn
  <2>3. CASE http' = [http EXCEPT ![t] = "other"]
    <3>1. http'[t] = "other"
      BY <2>3 DEF WellTyped
    <3> QED BY <2>1, <2>2, <3>1 DEF HandlerOK, DocOK
  <2>4. CASE http' = [http EXCEPT ![t] = "open"] /\ http' # [http EXCEPT ![t] = "other"]
    <3>1. http'[t] = "open" /\ action = "export-audit"
      BY <2>4 DEF WellTyped
    <3>2. PICK c \in Clients, x \in {"chain", "pages"} :
            ask' = [ask EXCEPT ![t] = [client |-> c, resource |-> x, cursor |-> cursor[c]]]
      BY <2>4
    <3>3. ask'[t].client = c /\ ask'[t].cursor = cursor[c] /\ ask'[t].resource = x
      BY <3>2 DEF WellTyped, IsFunctionOn
    <3>4. GoodCursor(ask'[t].cursor, log')
      BY <1>1, <3>3 DEF ClientOK
    <3> QED BY <2>1, <2>2, <3>1, <3>3, <3>4 DEF HandlerOK, DocOK
  <2> QED BY <2>3, <2>4
<1>6. \A c \in Clients : ClientOK(c)'
  BY <1>1, ClientKept
<1> QED BY <1>2, <1>3, <1>4, <1>5, <1>6

\* A step inside the enforcement point: only the request it is about changes,
\* and the log gains at most its entry.
LEMMA EnforcementKeeps ==
  ASSUME ExportInv, NEW t \in Txs, AuthorizeStep(t)
  PROVE  /\ WellTyped' /\ Grows(log, log') /\ UNCHANGED req
         /\ stage[t] \notin {"idle", "answered"} /\ stage'[t] # "idle"
         /\ \A u \in Txs : RequestOK(u)'
         /\ \A u \in Txs : u # t => stage'[u] = stage[u] /\ answer'[u] = answer[u]
<1>0. WellTyped /\ RequestOK(t) /\ log \in Logs
  BY Zenon DEF ExportInv, WellTyped
<1>s. UNCHANGED exportVars
  BY Zenon DEF AuthorizeStep
<1>1. CASE \E h \in HookAnswers : Evaluate(t, h)
  <2> USE Zenon
  <2>1. PICK h \in HookAnswers : Evaluate(t, h)
    BY <1>1
  <2>2. /\ log' = log /\ told' = told /\ answer' = answer /\ processLog' = processLog /\ req' = req
        /\ stage[t] = "deciding" /\ stage'[t] = "recording"
        /\ decision'[t] = Decide(req[t], h)
        /\ \A u \in Txs : u # t => stage'[u] = stage[u] /\ decision'[u] = decision[u]
    BY <1>0, <2>1 DEF Evaluate, PepGoTo, logVars, WellTyped, IsFunctionOn
  <2>3. WellTyped'
    BY <1>0, <1>s, <2>1, <2>2 DEF WellTyped, Evaluate, PepGoTo, IsFunctionOn, exportVars
  <2>4. Decide(req[t], h).verdict = "allow" => Allows(req[t].role, req[t].action)
    BY DEF Decide
  <2>5. RequestOK(t)'
    BY <1>0, <2>2, <2>4 DEF RequestOK
  <2>6. \A u \in Txs : u # t => RequestOK(u)'
    BY <2>2, RequestKept DEF ExportInv
  <2> QED BY <1>0, <2>2, <2>3, <2>5, <2>6, SameLogGrows
<1>2. CASE RecordDurable(t)
  <2> USE Zenon
  <2>1. /\ log' = [log EXCEPT ![req[t].ws] = Append(@, t)] /\ stage[t] = "recording"
        /\ told'[t] = "ok" /\ stage'[t] = "logging"
        /\ answer' = answer /\ processLog' = processLog /\ req' = req /\ decision' = decision
        /\ \A u \in Txs : u # t => stage'[u] = stage[u] /\ told'[u] = told[u]
    BY <1>0, <1>2 DEF RecordDurable, LogAppend, PepGoTo, WellTyped
  <2>2. req[t].ws \in Workspaces /\ Absent(t, log) /\ answer[t] = "none"
    BY <1>0, <2>1 DEF RequestOK
  <2>3. /\ log' \in Logs /\ Grows(log, log') /\ RecordedOnce(t, req[t].ws, log')
        /\ \A u \in Txs : u # t /\ Absent(u, log) => Absent(u, log')
        /\ \A u \in Txs : \A v : u # t /\ RecordedOnce(u, v, log) => RecordedOnce(u, v, log')
    <3>1. log \in Logs /\ IsAppend(log, log', req[t].ws, t)
      BY <1>0, <2>1 DEF IsAppend
    <3> QED BY <2>2, <3>1, Appended
  <2>4. WellTyped'
    BY <1>0, <1>2, <1>s, <2>1, <2>3 DEF WellTyped, RecordDurable, LogAppend, PepGoTo, exportVars
  <2>5. RequestOK(t)'
    BY <1>0, <2>1, <2>2, <2>3 DEF RequestOK
  <2>6. \A u \in Txs : u # t => RequestOK(u)'
    BY <2>1, <2>3, RequestKept DEF ExportInv
  <2> QED BY <2>1, <2>3, <2>4, <2>5, <2>6
<1>3. CASE DurableFails(t)
  <2>1. /\ stage[t] = "recording" /\ stage'[t] = "answered"
        /\ answer'[t] = UnrecordedAnswer(decision[t]) /\ told'[t] = "error"
        /\ processLog' = processLog /\ req' = req /\ decision' = decision
        /\ \A u \in Txs : u # t => stage'[u] = stage[u] /\ told'[u] = told[u] /\ answer'[u] = answer[u]
        /\ log' = log \/ log' = [log EXCEPT ![req[t].ws] = Append(@, t)]
    BY <1>0, <1>3, Zenon DEF DurableFails, LogAppend, LogFail, PepGoTo, Finish, WellTyped
  <2>2. req[t].ws \in Workspaces
    BY <1>0, <2>1, Zenon DEF RequestOK
  <2>3. /\ log' \in Logs /\ Grows(log, log')
        /\ \A u \in Txs : u # t /\ Absent(u, log) => Absent(u, log')
        /\ \A u \in Txs : \A v : u # t /\ RecordedOnce(u, v, log) => RecordedOnce(u, v, log')
    <3>1. log \in Logs /\ (log' = log \/ IsAppend(log, log', req[t].ws, t))
      BY <1>0, <2>1, Zenon DEF IsAppend
    <3> QED BY <2>2, <3>1, Appended, SameLogGrows
  <2>4. UnrecordedAnswer(decision[t]) \in {"denied", "failed"}
    BY Zenon DEF UnrecordedAnswer
  <2>5. WellTyped'
    BY <1>0, <1>3, <1>s, <2>1, <2>3, <2>4
       DEF WellTyped, DurableFails, LogAppend, LogFail, PepGoTo, Finish, exportVars
  <2>6. RequestOK(t)'
    BY <1>0, <2>1, <2>2, <2>4, Zenon DEF RequestOK
  <2>7. \A u \in Txs : u # t => RequestOK(u)'
    BY <2>1, <2>3, RequestKept, Zenon DEF ExportInv
  <2> QED BY <2>1, <2>3, <2>5, <2>6, <2>7, Zenon
<1>4. CASE RecordProcess(t) \/ ProcessFails(t)
  <2>1. /\ stage[t] = "logging" /\ stage'[t] = "answered"
        /\ log' = log /\ told' = told /\ req' = req /\ decision' = decision
        /\ processLog \subseteq processLog'
        /\ \A u \in Txs : u # t => stage'[u] = stage[u] /\ answer'[u] = answer[u]
        /\ \/ answer'[t] = RecordedAnswer(decision[t]) /\ t \in processLog'
           \/ answer'[t] = UnrecordedAnswer(decision[t])
    BY <1>0, <1>4, Zenon DEF RecordProcess, ProcessFails, PepGoTo, Finish, logVars, WellTyped
  <2>2. /\ UnrecordedAnswer(decision[t]) \in {"denied", "failed"}
        /\ RecordedAnswer(decision[t]) \in {"allowed", "approval", "failed", "denied"}
        /\ RecordedAnswer(decision[t]) = "allowed" => decision[t].verdict = "allow"
    BY Zenon DEF UnrecordedAnswer, RecordedAnswer
  <2>3. WellTyped'
    BY <1>0, <1>4, <1>s, <2>1, <2>2
       DEF WellTyped, RecordProcess, ProcessFails, PepGoTo, Finish, exportVars
  <2>4. RequestOK(t)'
    BY <1>0, <2>1, <2>2, Zenon DEF RequestOK
  <2>5. \A u \in Txs : u # t => RequestOK(u)'
    BY <2>1, RequestKept, Zenon DEF ExportInv
  <2> QED BY <1>0, <2>1, <2>3, <2>4, <2>5, SameLogGrows, Zenon
<1> QED BY <1>1, <1>2, <1>3, <1>4, Zenon DEF AuthorizeStep

\* AuthorizeStep as a whole: no document exists before the answer.
LEMMA AuthorizeStepPreservesInv ==
  ASSUME ExportInv, NEW t \in Txs, AuthorizeStep(t) PROVE ExportInv'
<1> USE Zenon
<1>1. /\ WellTyped' /\ Grows(log, log') /\ req' = req
      /\ stage[t] \notin {"idle", "answered"} /\ stage'[t] # "idle"
      /\ \A u \in Txs : RequestOK(u)'
      /\ \A u \in Txs : u # t => stage'[u] = stage[u] /\ answer'[u] = answer[u]
  BY EnforcementKeeps
<1>2. /\ log \in Logs /\ log' \in Logs
      /\ http' = http /\ ask' = ask /\ doc' = doc
      /\ verifier' = verifier /\ got' = got /\ cursor' = cursor
  BY <1>1 DEF ExportInv, WellTyped, AuthorizeStep, exportVars
<1>3. \A u \in Txs : u # t => HandlerOK(u)' /\ DocOK(u)'
  BY <1>1, <1>2, HandlerKept, DocKept DEF ExportInv
<1>4. HandlerOK(t)' /\ DocOK(t)'
  <2>1. RequestOK(t) /\ HandlerOK(t) /\ DocOK(t)
    BY DEF ExportInv
  <2>2. doc'[t] = NoDoc
    BY <1>1, <1>2, <2>1 DEF RequestOK, DocOK
  <2>3. GoodCursor(ask[t].cursor, log) => GoodCursor(ask'[t].cursor, log')
    BY <1>1, <1>2, CursorKept
  <2> QED BY <1>1, <1>2, <2>1, <2>2, <2>3 DEF HandlerOK, DocOK
<1>5. \A c \in Clients : ClientOK(c)'
  BY <1>1, <1>2, ClientKept DEF ExportInv
<1> QED BY <1>1, <1>3, <1>4, <1>5 DEF ExportInv

-----------------------------------------------------------------------------
(***************************************************************************)
(* Pages                                                                   *)
(***************************************************************************)

\* The entries before a position and the entries from there on.
LEMMA Joined ==
  ASSUME NEW l \in Seq(Txs), NEW m \in 1 .. Len(l), NEW n \in m .. Len(l)
  PROVE  /\ SubSeq(l, 1, m - 1) \o SubSeq(l, m, n) = SubSeq(l, 1, n)
         /\ Len(SubSeq(l, m, n)) = n - m + 1
OBVIOUS

\* Cursor k may be presented for workspace w, and page p answers it.
Presentable(k, w, lg) ==
  /\ w \in Workspaces /\ lg[w] # <<>> /\ GoodCursor(k, lg)
  /\ k.initial = FALSE => k.ws = w
Answers(p, k, w, lg) ==
  /\ p.resource = "pages" /\ p.ws = w
  /\ k.initial => p.snapshot.head = Len(lg[w])
  /\ GoodPage(p, lg) /\ Anchored(k, w, lg[w]) /\ Valid(p, k)

\* What the hub builds for a cursor it handed out, or for none: a page of
\* the frozen snapshot that passes every check, whatever was appended since.
LEMMA PageIsGood ==
  ASSUME NEW lg \in Logs, NEW w, NEW k, Presentable(k, w, lg)
  PROVE  Answers(Page(k, w, lg[w]), k, w, lg)
<1>0. /\ w \in Workspaces /\ lg[w] # <<>> /\ GoodCursor(k, lg)
      /\ k.initial = FALSE => k.ws = w
  BY Zenon DEF Presentable
<1> DEFINE l == lg[w]
           sn == Snapshot(k, l)
           from == From(k)
           end == PageEnd(from, sn.head)
           p == Page(k, w, l)
<1>1. l \in Seq(Txs) /\ Len(l) \in Nat \ {0}
  <2> USE Zenon
  <2>1. lg[w] \in Seq(Txs)
    BY <1>0 DEF Logs
  <2> QED BY <1>0, <2>1, LenOfNonEmpty
<1>2. /\ k.initial \in BOOLEAN
      /\ GoodSnapshot(sn, w, lg) /\ from \in 1 .. sn.head
      /\ Before(k) = SubSeq(l, 1, from - 1)
      /\ k.initial => sn.head = Len(l)
      /\ ~k.initial => sn = k.snapshot /\ from = k.next
  <2>1. CASE k = FirstPage
    BY <1>0, <1>1, <2>1 DEF FirstPage, Snapshot, From, Before, GoodSnapshot, Hash, ZeroHash
  <2>2. CASE k # FirstPage
    <3>1. /\ k.initial = FALSE /\ k.ws = w
          /\ GoodSnapshot(k.snapshot, w, lg) /\ k.next \in 2 .. k.snapshot.head
          /\ k.prev = SubSeq(lg[w], 1, k.next - 1)
      BY <1>0, <2>2, Zenon DEF GoodCursor
    <3>2. sn = k.snapshot /\ from = k.next /\ Before(k) = k.prev
      BY <3>1, Zenon DEF Snapshot, From, Before
    <3>3. k.snapshot.head \in Nat /\ k.next \in 1 .. k.snapshot.head
      BY <1>1, <3>1 DEF GoodSnapshot
    <3> HIDE DEF sn, from
    <3> QED BY <3>1, <3>2, <3>3, Zenon
  <2> QED BY <2>1, <2>2, Zenon
<1>3. sn.head \in 1 .. Len(l) /\ sn.hash = SubSeq(l, 1, sn.head)
  BY <1>1, <1>2 DEF GoodSnapshot
<1>4. /\ end \in from .. sn.head /\ end - from + 1 <= MaxEntries
      /\ end # sn.head => end - from + 1 = MaxEntries
  BY <1>1, <1>2, <1>3, ExportAssumption DEF PageEnd
<1>5. /\ p.resource = "pages" /\ p.ws = w /\ p.snapshot = sn /\ p.start = from
      /\ p.prev = SubSeq(l, 1, from - 1) /\ p.entries = SubSeq(l, from, end)
      /\ p.next = IF end = sn.head THEN FirstPage
                  ELSE [initial |-> FALSE, ws |-> w, snapshot |-> sn,
                        next |-> end + 1, prev |-> SubSeq(l, 1, end)]
  BY <1>2, Zenon DEF Page, Hash
<1>6. /\ GoodCursor(p.next, lg) /\ (p.next.initial => end = sn.head)
      /\ end # sn.head => /\ ~p.next.initial /\ p.next.snapshot = sn
                          /\ p.next.next = end + 1 /\ p.next.prev = SubSeq(l, 1, end)
  <2>1. CASE end = sn.head
    BY <1>5, <2>1, Zenon DEF GoodCursor
  <2>2. CASE end # sn.head
    <3>1. end + 1 \in 2 .. sn.head /\ end + 1 - 1 = end
      BY <1>1, <1>2, <1>3, <1>4, <2>2
    <3> HIDE DEF sn, end, from, p
    <3>2. /\ p.next.initial = FALSE /\ p.next.ws = w /\ p.next.snapshot = sn
          /\ p.next.next = end + 1 /\ p.next.prev = SubSeq(l, 1, end)
      <4> USE Zenon
      <4> DEFINE c == [initial |-> FALSE, ws |-> w, snapshot |-> sn,
                       next |-> end + 1, prev |-> SubSeq(l, 1, end)]
      <4>1. p.next = c
        BY <1>5, <2>2
      <4>2. /\ c.initial = FALSE /\ c.ws = w /\ c.snapshot = sn
            /\ c.next = end + 1 /\ c.prev = SubSeq(l, 1, end)
        OBVIOUS
      <4> HIDE DEF c
      <4> QED BY <4>1, <4>2
    <3>3. GoodCursor(p.next, lg)
      <4>1. GoodSnapshot(p.next.snapshot, p.next.ws, lg)
        BY <1>2, <3>2, Zenon
      <4>2. p.next.next \in 2 .. p.next.snapshot.head
        BY <3>1, <3>2, Zenon
      <4>3. p.next.prev = SubSeq(lg[p.next.ws], 1, p.next.next - 1)
        <5>1. p.next.next - 1 = end
          <6>1. end \in Int /\ p.next.next = end + 1
            BY <1>1, <1>2, <1>3, <1>4, <3>2
          <6> QED BY <6>1
        <5> QED BY <3>2, <5>1, Zenon
      <4> QED BY <3>2, <4>1, <4>2, <4>3, Zenon DEF GoodCursor
    <3> QED BY <2>2, <3>2, <3>3, Zenon
  <2> QED BY <2>1, <2>2, Zenon
<1> HIDE DEF sn, end, from, p
<1>7. GoodPage(p, lg)
  BY <1>2, <1>4, <1>5, <1>6, Zenon DEF GoodPage
<1>8. /\ p.prev \o p.entries = SubSeq(l, 1, end) /\ Len(p.entries) = end - from + 1
  <2>1. from \in 1 .. Len(l) /\ end \in from .. Len(l)
    BY <1>1, <1>2, <1>3, <1>4
  <2>2. /\ SubSeq(l, 1, from - 1) \o SubSeq(l, from, end) = SubSeq(l, 1, end)
        /\ Len(SubSeq(l, from, end)) = end - from + 1
    BY <1>1, <2>1, Joined, Zenon
  <2> QED BY <1>5, <2>2, Zenon
<1>9. Valid(p, k)
  <2>1. /\ Len(p.entries) \in 1 .. MaxEntries /\ LastSeq(p) = end
        /\ LastHash(p) = SubSeq(l, 1, end)
        /\ end # sn.head => Len(p.entries) = MaxEntries
    <3>1. from \in Nat /\ end \in Nat /\ from <= end /\ p.start = from
      BY <1>1, <1>2, <1>3, <1>4, <1>5
    <3>2. LastSeq(p) = from + (end - from + 1) - 1 /\ LastHash(p) = SubSeq(l, 1, end)
      BY <1>8, <3>1, Zenon DEF LastSeq, LastHash
    <3> QED BY <1>4, <1>8, <3>1, <3>2, ExportAssumption
  <2>2. p.start = From(k) /\ p.prev = Before(k) /\ (~k.initial => p.snapshot = k.snapshot)
    BY <1>2, <1>5, Zenon DEF from
  <2>3. end <= sn.head
    BY <1>1, <1>2, <1>3, <1>4
  <2> QED BY <1>3, <1>5, <1>6, <2>1, <2>2, <2>3, Zenon DEF Valid
<1>10. Anchored(k, w, l)
  <2>1. CASE k.initial
    BY <2>1, Zenon DEF Anchored
  <2>2. CASE ~k.initial
    <3>1. k # FirstPage /\ k.ws = w
      BY <1>0, <1>2, <2>2 DEF FirstPage
    <3> QED BY <1>0, <1>1, <3>1 DEF Anchored, GoodCursor, GoodSnapshot, Hash
  <2> QED BY <2>1, <2>2, Zenon
<1> QED BY <1>2, <1>5, <1>7, <1>9, <1>10, Zenon DEF l, p, Answers

\* PageSequenceVerifier.Add keeps the verifier on one prefix of one log.
LEMMA AddedIsGood ==
  ASSUME NEW lg \in Logs, NEW v, NEW g, NEW p,
         GoodVerifier(v, g, lg), GoodPage(p, lg), Accepts(v, p)
  PROVE  GoodVerifier(Added(v, p), g \o p.entries, lg)
<1>1. p.ws \in Workspaces /\ lg[p.ws] \in Seq(Txs) /\ p.snapshot.head \in 0 .. Len(lg[p.ws])
  BY Zenon DEF GoodPage, GoodSnapshot, Logs
<1>2. PICK end \in p.start .. p.snapshot.head :
        p.entries = SubSeq(lg[p.ws], p.start, end) /\ (p.next.initial => end = p.snapshot.head)
  BY Zenon DEF GoodPage
<1>3. p.start \in 1 .. p.snapshot.head /\ p.prev = SubSeq(lg[p.ws], 1, p.start - 1)
  BY Zenon DEF GoodPage
<1>4. g = p.prev
  BY DEF GoodVerifier, Accepts, NewVerifier, ZeroHash
<1>5. p.prev \o p.entries = SubSeq(lg[p.ws], 1, end) /\ Len(p.entries) = end - p.start + 1
  <2>1. p.start \in 1 .. Len(lg[p.ws]) /\ end \in p.start .. Len(lg[p.ws])
    BY <1>1, <1>2, <1>3
  <2>2. /\ SubSeq(lg[p.ws], 1, p.start - 1) \o SubSeq(lg[p.ws], p.start, end)
             = SubSeq(lg[p.ws], 1, end)
        /\ Len(SubSeq(lg[p.ws], p.start, end)) = end - p.start + 1
    BY <1>1, <2>1, Joined, Zenon
  <2> QED BY <1>2, <1>3, <2>2, Zenon
<1>6. LastSeq(p) + 1 = end + 1 /\ LastHash(p) = SubSeq(lg[p.ws], 1, end)
  <2>1. p.start \in Int /\ end \in Int
    BY <1>1, <1>2, <1>3
  <2> QED BY <1>5, <2>1 DEF LastSeq, LastHash
<1>7. end + 1 \in 1 .. p.snapshot.head + 1 /\ end + 1 - 1 = end
  BY <1>1, <1>2, <1>3
<1>8. /\ Added(v, p).initialized /\ Added(v, p).complete = p.next.initial
      /\ Added(v, p).ws = p.ws /\ Added(v, p).snapshot = p.snapshot
      /\ Added(v, p).next = end + 1 /\ Added(v, p).prev = SubSeq(lg[p.ws], 1, end)
  BY <1>6, Zenon DEF Added
<1>9. GoodSnapshot(p.snapshot, p.ws, lg)
  BY Zenon DEF GoodPage
<1> QED BY <1>2, <1>4, <1>5, <1>7, <1>8, <1>9 DEF GoodVerifier

-----------------------------------------------------------------------------
(***************************************************************************)
(* Reading, answering and receiving preserve it                            *)
(***************************************************************************)

\* A request that was allowed is in its workspace's log.
LEMMA AllowedIsThere ==
  ASSUME ExportInv, NEW t \in Txs, answer[t] = "allowed"
  PROVE  /\ req[t].ws \in Workspaces /\ log[req[t].ws] # <<>>
         /\ \E n \in 1 .. Len(log[req[t].ws]) : log[req[t].ws][n] = t
<1>1. RequestOK(t) /\ log \in Logs
  BY Zenon DEF ExportInv, WellTyped
<1>2. RecordedOnce(t, req[t].ws, log)
  BY <1>1, Zenon DEF RequestOK
<1>3. log[req[t].ws] \in Seq(Txs)
  BY <1>1, <1>2, Zenon DEF RecordedOnce, Logs
<1> QED BY <1>2, <1>3 DEF RecordedOnce

\* The requests and clients when only the handler of t moves.
LEMMA OthersKept ==
  ASSUME ExportInv, NEW t \in Txs, UNCHANGED <<logVars, pepVars, ask>>,
         NEW h, http' = [http EXCEPT ![t] = h],
         \A u \in Txs : u # t => doc'[u] = doc[u]
  PROVE  /\ \A u \in Txs : RequestOK(u)'
         /\ \A u \in Txs : u # t => HandlerOK(u)' /\ DocOK(u)'
         /\ UNCHANGED <<verifier, got, cursor>> => \A c \in Clients : ClientOK(c)'
<1> USE Zenon
<1>1. /\ log' = log /\ told' = told /\ stage' = stage /\ req' = req /\ decision' = decision
      /\ processLog' = processLog /\ answer' = answer /\ ask' = ask
      /\ log \in Logs /\ Grows(log, log')
      /\ \A u \in Txs : u # t => http'[u] = http[u]
  BY SameLogGrows DEF ExportInv, WellTyped, logVars, pepVars
<1>2. \A u \in Txs : RequestOK(u)'
  BY <1>1, RequestKept DEF ExportInv
<1>3. \A u \in Txs : u # t => HandlerOK(u)' /\ DocOK(u)'
  BY <1>1, HandlerKept, DocKept DEF ExportInv
<1>4. ASSUME UNCHANGED <<verifier, got, cursor>>, NEW c \in Clients PROVE ClientOK(c)'
  BY <1>1, <1>4, ClientKept DEF ExportInv
<1> QED BY <1>2, <1>3, <1>4

\* Busy, Send, Refuse, Unavailable and ReadFails only end the exchange.
LEMMA AnswerPreservesInv ==
  ASSUME ExportInv, NEW t \in Txs,
         UNCHANGED <<logVars, pepVars, ask, doc, verifier, got, cursor>>,
         \/ http[t] = "none" /\ http' = [http EXCEPT ![t] = "busy"]
         \/ http[t] = "read" /\ http' = [http EXCEPT ![t] = "sent"]
         \/ /\ http[t] = "open"
            /\ \E h \in {"refused", "unavailable", "failed"} : http' = [http EXCEPT ![t] = h]
  PROVE  ExportInv'
<1>1. WellTyped'
  BY DEF ExportInv, WellTyped, logVars, pepVars
<1>2. PICK h : http' = [http EXCEPT ![t] = h]
  BY Zenon
<1>3. /\ \A u \in Txs : RequestOK(u)'
      /\ \A u \in Txs : u # t => HandlerOK(u)' /\ DocOK(u)'
      /\ \A c \in Clients : ClientOK(c)'
  BY <1>2, OthersKept, Zenon
<1>4. HandlerOK(t)' /\ DocOK(t)'
  <2> USE Zenon
  <2>1. /\ HandlerOK(t) /\ DocOK(t) /\ log \in Logs /\ Grows(log, log')
        /\ stage' = stage /\ req' = req /\ answer' = answer /\ ask' = ask /\ doc' = doc
        /\ log' = log
    BY SameLogGrows DEF ExportInv, WellTyped, logVars, pepVars
  <2>2. DocOK(t)'
    BY <2>1, DocKept
  <2>3. \/ http[t] = "none" /\ http'[t] = "busy"
        \/ http[t] = "read" /\ http'[t] = "sent"
        \/ http[t] = "open" /\ http'[t] \in {"refused", "unavailable", "failed"}
    BY DEF ExportInv, WellTyped
  <2>4. HandlerOK(t)'
    BY <2>1, <2>3 DEF HandlerOK
  <2> QED BY <2>2, <2>4
<1> QED BY <1>1, <1>3, <1>4, Zenon DEF ExportInv

\* Read: an administrator's request that the log holds gets a document.
LEMMA ReadPreservesInv == ASSUME ExportInv, NEW t \in Txs, Read(t) PROVE ExportInv'
<1>1. /\ http[t] = "open" /\ answer[t] = "allowed" /\ Available(t)
      /\ doc' = [doc EXCEPT ![t] = Document(t)] /\ http' = [http EXCEPT ![t] = "read"]
      /\ UNCHANGED <<logVars, pepVars, slots, ask, verifier, got, cursor>>
  BY Zenon DEF Read, Allowed
<1>2. WellTyped'
  BY <1>1, Zenon DEF ExportInv, WellTyped, IsFunctionOn, logVars, pepVars
<1>3. \A u \in Txs : u # t => doc'[u] = doc[u]
  BY <1>1, Zenon DEF ExportInv, WellTyped, IsFunctionOn
<1>4. /\ \A u \in Txs : RequestOK(u)'
      /\ \A u \in Txs : u # t => HandlerOK(u)' /\ DocOK(u)'
      /\ \A c \in Clients : ClientOK(c)'
  BY <1>1, <1>3, OthersKept, Zenon
<1>5. /\ RequestOK(t) /\ HandlerOK(t) /\ log \in Logs
      /\ log' = log /\ req' = req /\ answer' = answer /\ ask' = ask /\ stage' = stage
      /\ doc'[t] = Document(t) /\ http'[t] = "read"
  BY <1>1, Zenon DEF ExportInv, WellTyped, IsFunctionOn, logVars, pepVars
<1>6. HandlerOK(t)'
  BY <1>1, <1>5, Zenon DEF HandlerOK
<1>7. /\ req[t].ws \in Workspaces /\ log[req[t].ws] # <<>>
      /\ \E n \in 1 .. Len(log[req[t].ws]) : log[req[t].ws][n] = t
  BY <1>1, AllowedIsThere, Zenon
<1>8. req[t].role = "admin"
  BY <1>1, <1>5, Zenon DEF RequestOK, HandlerOK, Allows
<1>9. DocOK(t)'
  <2>1. CASE ask[t].resource = "chain"
    <3>1. Document(t) = [resource |-> "chain", ws |-> req[t].ws, entries |-> log[req[t].ws]]
      BY <2>1, Zenon DEF Document, Chain, Rows
    <3>2. /\ doc'[t].resource = "chain" /\ doc'[t].ws = req[t].ws
          /\ doc'[t].entries = log[req[t].ws]
      BY <1>5, <3>1
    <3>3. log[req[t].ws] \in Seq(Txs) /\ DOMAIN log[req[t].ws] = 1 .. Len(log[req[t].ws])
      BY <1>5, <1>7 DEF Logs
    <3> QED BY <1>1, <1>5, <1>7, <1>8, <3>2, <3>3, Zenon DEF DocOK
  <2>2. CASE ask[t].resource # "chain"
    <3> USE Zenon
    <3>1. doc'[t] = Page(ask[t].cursor, req[t].ws, log[req[t].ws])
      BY <1>5, <2>2 DEF Document, Rows
    <3>2. Anchored(ask[t].cursor, req[t].ws, log[req[t].ws])
      BY <1>1, <2>2 DEF Available, Rows
    <3>3. /\ GoodCursor(ask[t].cursor, log)
          /\ ask[t].cursor.initial = FALSE => ask[t].cursor.ws = req[t].ws
      BY <1>1, <1>5, <3>2 DEF HandlerOK, Anchored
    <3>4. /\ doc'[t].resource = "pages" /\ doc'[t].ws = req[t].ws /\ GoodPage(doc'[t], log)
          /\ ask[t].cursor.initial => doc'[t].snapshot.head = Len(log[req[t].ws])
      <4>1. Presentable(ask[t].cursor, req[t].ws, log)
        BY <1>7, <3>3 DEF Presentable
      <4>2. Answers(doc'[t], ask[t].cursor, req[t].ws, log)
        BY <1>5, <3>1, <4>1, PageIsGood
      <4> QED BY <4>2 DEF Answers
    <3> QED BY <1>1, <1>5, <1>7, <1>8, <3>4 DEF DocOK
  <2> QED BY <2>1, <2>2, Zenon
<1> QED BY <1>2, <1>4, <1>6, <1>9, Zenon DEF ExportInv

\* Receive: the client of the request looks at a page that is good.
LEMMA ReceivePreservesInv == ASSUME ExportInv, NEW t \in Txs, Receive(t) PROVE ExportInv'
<1> DEFINE c == ask[t].client
           p == doc[t]
<1>1. /\ http[t] = "sent" /\ p.resource = "pages" /\ http' = [http EXCEPT ![t] = "received"]
      /\ UNCHANGED <<logVars, pepVars, slots, ask, doc>>
  BY Zenon DEF Receive
<1>2. /\ HandlerOK(t) /\ DocOK(t) /\ log \in Logs /\ log' = log /\ Grows(log, log')
      /\ stage' = stage /\ req' = req /\ answer' = answer /\ ask' = ask /\ doc' = doc
      /\ http'[t] = "received"
      /\ IsFunctionOn(verifier, Clients) /\ IsFunctionOn(got, Clients)
      /\ IsFunctionOn(cursor, Clients)
  BY <1>1, SameLogGrows, Zenon DEF ExportInv, WellTyped, logVars, pepVars
<1>3. /\ \A u \in Txs : RequestOK(u)'
      /\ \A u \in Txs : u # t => HandlerOK(u)' /\ DocOK(u)'
  BY <1>1, OthersKept, Zenon
<1>4. HandlerOK(t)' /\ DocOK(t)'
  <2> USE Zenon
  <2>1. DocOK(t)'
    BY <1>2, DocKept
  <2>2. HandlerOK(t)'
    BY <1>1, <1>2 DEF HandlerOK
  <2> QED BY <2>1, <2>2
<1>5. c \in Clients /\ ClientOK(c)
  BY <1>1, <1>2, Zenon DEF HandlerOK, ExportInv
<1>6. GoodPage(p, log)
  BY <1>1, <1>2 DEF DocOK, NoDoc
<1>7. CASE Accepts(verifier[c], p)
  <2>1. /\ verifier' = [verifier EXCEPT ![c] = Added(verifier[c], p)]
        /\ got' = [got EXCEPT ![c] = got[c] \o p.entries]
        /\ cursor' = [cursor EXCEPT ![c] = p.next]
    BY <1>7, Zenon DEF Receive
  <2>2. WellTyped'
    BY <1>1, <2>1, Zenon DEF ExportInv, WellTyped, IsFunctionOn, logVars, pepVars
  <2>3. /\ verifier'[c] = Added(verifier[c], p) /\ got'[c] = got[c] \o p.entries
        /\ cursor'[c] = p.next
        /\ \A d \in Clients : d # c => /\ verifier'[d] = verifier[d] /\ got'[d] = got[d]
                                       /\ cursor'[d] = cursor[d]
    BY <1>2, <1>5, <2>1, Zenon DEF IsFunctionOn
  <2>4. GoodVerifier(verifier'[c], got'[c], log')
    BY <1>2, <1>5, <1>6, <1>7, <2>3, AddedIsGood DEF ClientOK
  <2>5. GoodCursor(cursor'[c], log')
    BY <1>2, <1>6, <2>3, Zenon DEF GoodPage
  <2>6. \A d \in Clients : d # c => ClientOK(d)'
    BY <1>2, <2>3, ClientKept, Zenon DEF ExportInv
  <2>7. ClientOK(c)'
    BY <1>2, <2>4, <2>5, Zenon DEF ClientOK
  <2> QED BY <1>2, <1>3, <1>4, <2>2, <2>6, <2>7, Zenon DEF ExportInv
<1>8. CASE ~Accepts(verifier[c], p)
  <2> USE Zenon
  <2>1. UNCHANGED <<verifier, got, cursor>>
    BY <1>8 DEF Receive
  <2>2. WellTyped'
    BY <1>1, <2>1 DEF ExportInv, WellTyped, logVars, pepVars
  <2>3. \A d \in Clients : ClientOK(d)'
    BY <1>2, <2>1, ClientKept DEF ExportInv
  <2> HIDE DEF c, p
  <2> QED BY <1>3, <1>4, <2>2, <2>3 DEF ExportInv
<1> QED BY <1>7, <1>8, Zenon

\* Every step of the hub, its clients and its other requests.
LEMMA NextPreservesInv == ExportInv /\ [Next]_vars => ExportInv'
<1> USE Zenon
<1> SUFFICES ASSUME ExportInv, [Next]_vars PROVE ExportInv'
  OBVIOUS
<1>1. ASSUME NEW t \in Txs, NEW c \in Clients, NEW w \in Workspaces, NEW r,
             NEW x \in {"chain", "pages"}, Accept(t, c, w, r, x)
      PROVE  ExportInv'
  <2>1. /\ Authorize(t, w, r, "export-audit", TRUE) /\ http[t] = "none"
        /\ http' = [http EXCEPT ![t] = "open"]
        /\ ask' = [ask EXCEPT ![t] = [client |-> c, resource |-> x, cursor |-> cursor[c]]]
        /\ UNCHANGED <<doc, verifier, got, cursor>>
    BY <1>1 DEF Accept
  <2> QED BY <2>1, AcceptPreservesInv
<1>2. ASSUME NEW t \in Txs, NEW w \in Workspaces, NEW r, NEW a, NEW v,
             OtherRequest(t, w, r, a, v)
      PROVE  ExportInv'
  <2>1. /\ Authorize(t, w, r, a, v) /\ http[t] = "none"
        /\ http' = [http EXCEPT ![t] = "other"] /\ ask' = ask
        /\ UNCHANGED <<doc, verifier, got, cursor>>
    BY <1>2 DEF OtherRequest
  <2> QED BY <2>1, AcceptPreservesInv
<1>3. ASSUME NEW t \in Txs, NEW c \in Clients, Busy(t, c) PROVE ExportInv'
  BY <1>3, AnswerPreservesInv DEF Busy
<1>4. ASSUME NEW t \in Txs, Send(t) \/ Refuse(t) \/ Unavailable(t) \/ ReadFails(t)
      PROVE  ExportInv'
  BY <1>4, AnswerPreservesInv DEF Send, Refuse, Unavailable, ReadFails, Allowed, Respond
<1>5. CASE UNCHANGED vars
  <2>1. /\ log' = log /\ told' = told /\ stage' = stage /\ req' = req /\ decision' = decision
        /\ processLog' = processLog /\ answer' = answer /\ http' = http /\ ask' = ask
        /\ doc' = doc /\ verifier' = verifier /\ got' = got /\ cursor' = cursor
        /\ log \in Logs /\ Grows(log, log')
    BY <1>5, SameLogGrows DEF vars, logVars, pepVars, exportVars, ExportInv, WellTyped
  <2>2. WellTyped'
    BY <2>1 DEF ExportInv, WellTyped
  <2>3. \A u \in Txs : RequestOK(u)' /\ HandlerOK(u)' /\ DocOK(u)'
    BY <2>1, RequestKept, HandlerKept, DocKept DEF ExportInv
  <2>4. \A c \in Clients : ClientOK(c)'
    BY <2>1, ClientKept DEF ExportInv
  <2> QED BY <2>2, <2>3, <2>4 DEF ExportInv
<1> QED BY <1>1, <1>2, <1>3, <1>4, <1>5, AuthorizeStepPreservesInv, ReadPreservesInv,
           ReceivePreservesInv DEF Next, HandlerStep, Quiet

\* ExportInv holds of the hub and its clients, whatever they do.
THEOREM InvHolds == Spec => []ExportInv
<1>1. Init => ExportInv
  BY InitEstablishesInv, Zenon
<1>2. ExportInv /\ [Next]_vars => ExportInv'
  BY NextPreservesInv, Zenon
<1> QED BY <1>1, <1>2, PTL DEF Spec

-----------------------------------------------------------------------------
(***************************************************************************)
(* What it shows                                                           *)
(***************************************************************************)

\* Enforcer.authorize is fail closed: a caller is allowed only if its role
\* permits the action and both sinks hold the decision, once, in the log of
\* its own workspace, whatever the hook and the sinks did.
THEOREM EnforcementFailsClosed == Spec => []AllowedIsRecorded
<1>1. ExportInv => AllowedIsRecorded
  <2> USE Zenon
  <2> SUFFICES ASSUME ExportInv, NEW t \in Txs, answer[t] = "allowed"
               PROVE  /\ decision[t].verdict = "allow"
                      /\ Allows(req[t].role, req[t].action)
                      /\ t \in processLog
                      /\ \A w \in Workspaces :
                           Cardinality(Times(t, w)) = IF w = req[t].ws THEN 1 ELSE 0
    BY DEF AllowedIsRecorded
  <2>1. RequestOK(t) /\ log \in Logs /\ stage[t] = "answered"
    BY DEF ExportInv, WellTyped, RequestOK
  <2>2. PICK n \in 1 .. Len(log[req[t].ws]) :
          \A v \in Workspaces : \A m \in 1 .. Len(log[v]) :
            log[v][m] = t <=> v = req[t].ws /\ m = n
    BY <2>1 DEF RequestOK, RecordedOnce
  <2>3. ASSUME NEW w \in Workspaces
        PROVE  Cardinality(Times(t, w)) = IF w = req[t].ws THEN 1 ELSE 0
    <3>1. CASE w = req[t].ws
      <4>1. Times(t, w) = {n}
        BY <2>2, <3>1 DEF Times
      <4> QED BY <3>1, <4>1, FS_Singleton
    <3>2. CASE w # req[t].ws
      <4>1. Times(t, w) = {}
        BY <2>2, <3>2 DEF Times
      <4> QED BY <3>2, <4>1, FS_EmptySet
    <3> QED BY <3>1, <3>2
  <2> QED BY <2>1, <2>3 DEF RequestOK
<1> QED BY <1>1, InvHolds, PTL

\* Nothing is disclosed before its disclosure is on record, and a chain or a
\* first page shows the very entry that authorized it.
THEOREM NothingUnrecordedIsDisclosed == Spec => []DisclosureOnRecord
<1>1. ExportInv => DisclosureOnRecord
  <2> USE Zenon
  <2> SUFFICES ASSUME ExportInv, NEW t \in Txs, doc[t] # NoDoc
               PROVE  /\ req[t].role = "admin" /\ doc[t].ws = req[t].ws
                      /\ Times(t, doc[t].ws) # {}
                      /\ doc[t].resource = "chain" =>
                           t \in {doc[t].entries[n] : n \in DOMAIN doc[t].entries}
                      /\ doc[t].resource = "pages" /\ ask[t].cursor.initial =>
                           \E n \in 1 .. doc[t].snapshot.head : log[doc[t].ws][n] = t
    BY DEF DisclosureOnRecord
  <2>1. DocOK(t)
    BY DEF ExportInv
  <2>2. Times(t, req[t].ws) # {}
    BY <2>1, AllowedIsThere DEF DocOK, Times
  <2> QED BY <2>1, <2>2 DEF DocOK
<1> QED BY <1>1, InvHolds, PTL

\* Pages that PageSequenceVerifier calls complete are the log up to one
\* moment, for any page size and any loss, repetition and reordering.
THEOREM CompleteExportsAreHistory == Spec => []CompleteExportIsHistory
<1>1. ExportInv => CompleteExportIsHistory
  <2> SUFFICES ASSUME ExportInv, NEW c \in Clients, verifier[c].complete
               PROVE  /\ got[c] = SubSeq(log[verifier[c].ws], 1, verifier[c].snapshot.head)
                      /\ Len(got[c]) = verifier[c].snapshot.head
    BY Zenon DEF CompleteExportIsHistory
  <2>1. GoodVerifier(verifier[c], got[c], log) /\ log \in Logs
    BY Zenon DEF ExportInv, ClientOK, WellTyped
  <2>2. verifier[c] # NewVerifier
    BY DEF NewVerifier
  <2>3. /\ GoodSnapshot(verifier[c].snapshot, verifier[c].ws, log)
        /\ verifier[c].next = verifier[c].snapshot.head + 1
        /\ got[c] = SubSeq(log[verifier[c].ws], 1, verifier[c].next - 1)
    BY <2>1, <2>2, Zenon DEF GoodVerifier
  <2>4. /\ log[verifier[c].ws] \in Seq(Txs)
        /\ verifier[c].snapshot.head \in 0 .. Len(log[verifier[c].ws])
    BY <2>1, <2>3, Zenon DEF GoodSnapshot, Logs
  <2>5. verifier[c].next - 1 = verifier[c].snapshot.head
    BY <2>3, <2>4
  <2> QED BY <2>3, <2>4, <2>5
<1> QED BY <1>1, InvHolds, PTL

-----------------------------------------------------------------------------
(***************************************************************************)
(* Continuations                                                           *)
(***************************************************************************)

\* Why request t may be unavailable, and who holds a slot.
Excused(t, lg) ==
  \/ ask[t].resource = "chain" /\ Len(lg[req[t].ws]) > MaxEntries
  \/ ask[t].resource = "pages" /\ ~ask[t].cursor.initial /\ ask[t].cursor.ws # req[t].ws
Holding == {t \in Txs : http[t] \in {"open", "read"}}

\* Only a chain over the limit and a cursor of another workspace are
\* unavailable when they are asked for.
LEMMA UnavailableIsExcused ==
  ASSUME ExportInv, NEW t \in Txs, Unavailable(t) PROVE Excused(t, log)
<1>1. http[t] = "open" /\ answer[t] = "allowed" /\ ~Available(t)
  BY Zenon DEF Unavailable, Allowed
<1>2. /\ req[t].ws \in Workspaces /\ log[req[t].ws] # <<>> /\ log \in Logs
      /\ ask[t].resource \in {"chain", "pages"} /\ GoodCursor(ask[t].cursor, log)
  BY <1>1, AllowedIsThere, Zenon DEF ExportInv, WellTyped, HandlerOK
<1>3. log[req[t].ws] \in Seq(Txs) /\ Len(log[req[t].ws]) \in Nat \ {0}
  <2> USE Zenon
  <2>1. log[req[t].ws] \in Seq(Txs)
    BY <1>2 DEF Logs
  <2> QED BY <1>2, <2>1, LenOfNonEmpty
<1>4. CASE ask[t].resource = "chain"
  BY <1>1, <1>3, <1>4, ExportAssumption DEF Available, Rows, Excused
<1>5. CASE ask[t].resource = "pages"
  <2>1. ask[t].cursor.initial \in BOOLEAN
    <3>1. CASE ask[t].cursor = FirstPage
      BY <3>1 DEF FirstPage
    <3>2. CASE ask[t].cursor # FirstPage
      BY <1>2, <3>2, Zenon DEF GoodCursor
    <3> QED BY <3>1, <3>2, Zenon
  <2>2. CASE ~ask[t].cursor.initial /\ ask[t].cursor.ws # req[t].ws
    BY <1>5, <2>2, Zenon DEF Excused
  <2>3. CASE ~(~ask[t].cursor.initial /\ ask[t].cursor.ws # req[t].ws)
    <3> USE Zenon
    <3>1. Presentable(ask[t].cursor, req[t].ws, log)
      BY <1>2, <2>1, <2>3 DEF Presentable
    <3>2. Answers(Page(ask[t].cursor, req[t].ws, log[req[t].ws]), ask[t].cursor, req[t].ws, log)
      BY <1>2, <3>1, PageIsGood
    <3>3. Available(t)
      BY <1>2, <1>5, <3>2 DEF Answers, Available, Document, Rows
    <3> QED BY <1>1, <3>3
  <2> QED BY <2>2, <2>3, Zenon
<1> QED BY <1>2, <1>4, <1>5, Zenon

\* An excuse stays one while the log grows.
LEMMA ExcusedKept ==
  ASSUME NEW t \in Txs, log \in Logs, Grows(log, log'), req[t].ws \in Workspaces,
         ask'[t] = ask[t], req'[t] = req[t], Excused(t, log)
  PROVE  Excused(t, log)'
<1>1. log[req[t].ws] \in Seq(Txs)
  BY Zenon DEF Logs
<1>2. Len(log'[req[t].ws]) \in {Len(log[req[t].ws]), Len(log[req[t].ws]) + 1}
  BY <1>1 DEF Grows
<1>3. Len(log[req[t].ws]) > MaxEntries => Len(log'[req[t].ws]) > MaxEntries
  BY <1>1, <1>2, ExportAssumption
<1> QED BY <1>3, Zenon DEF Excused

\* What a step may do to the exchange, the slots, the log and the inputs of
\* a request that was accepted before it.
LEMMA ExchangeSteps ==
  ASSUME ExportInv, [Next]_vars, slots = Holding
  PROVE  /\ slots' = Holding' /\ Grows(log, log')
         /\ \A u \in Txs : http'[u] = "unavailable" =>
              /\ ask'[u] = ask[u] /\ req'[u] = req[u]
              /\ http[u] = "unavailable" \/ Unavailable(u)
<1> DEFINE Q == /\ slots' = Holding' /\ Grows(log, log')
                /\ \A u \in Txs : http'[u] = "unavailable" =>
                     /\ ask'[u] = ask[u] /\ req'[u] = req[u]
                     /\ http[u] = "unavailable" \/ Unavailable(u)
<1>0. WellTyped /\ Grows(log, log)
  BY SameLogGrows, Zenon DEF ExportInv
<1>1. ASSUME NEW t \in Txs, NEW w, NEW r, NEW a, NEW v, Authorize(t, w, r, a, v),
             http[t] = "none",
             \/ /\ http' = [http EXCEPT ![t] = "open"] /\ slots' = slots \union {t}
                /\ \E k : ask' = [ask EXCEPT ![t] = k]
             \/ http' = [http EXCEPT ![t] = "other"] /\ slots' = slots /\ ask' = ask
      PROVE  Q
  BY <1>0, <1>1 DEF Authorize, logVars, WellTyped, IsFunctionOn, Holding
<1>2. ASSUME NEW t \in Txs, NEW h, UNCHANGED <<log, req, ask>>,
             http' = [http EXCEPT ![t] = h],
             \/ /\ slots' = slots
                /\ \/ http[t] = "none" /\ h = "busy"
                   \/ http[t] = "open" /\ h = "read"
                   \/ http[t] = "sent" /\ h = "received"
             \/ /\ slots' = slots \ {t}
                /\ \/ h \in {"sent", "refused", "failed"}
                   \/ h = "unavailable" /\ Unavailable(t)
      PROVE  Q
  BY <1>0, <1>2, Zenon DEF WellTyped, Holding
<1>3. ASSUME NEW t \in Txs, AuthorizeStep(t) PROVE Q
  BY <1>3, EnforcementKeeps, Zenon DEF AuthorizeStep, exportVars, Holding
<1>4. ASSUME UNCHANGED vars PROVE Q
  BY <1>0, <1>4, Zenon DEF vars, logVars, pepVars, exportVars, Holding
<1> HIDE DEF Q
<1>5. ASSUME NEW t \in Txs, NEW c \in Clients, NEW w \in Workspaces, NEW r, NEW x,
             Accept(t, c, w, r, x)
      PROVE  Q
  BY <1>1, <1>5, Zenon DEF Accept
<1>6. ASSUME NEW t \in Txs, NEW w \in Workspaces, NEW r, NEW a, NEW v,
             OtherRequest(t, w, r, a, v)
      PROVE  Q
  BY <1>1, <1>6, Zenon DEF OtherRequest
<1>7. ASSUME NEW t \in Txs, NEW c \in Clients, Busy(t, c) PROVE Q
  BY <1>2, <1>7, Zenon DEF Busy, logVars, pepVars
<1>8. ASSUME NEW t \in Txs, Read(t) PROVE Q
  BY <1>2, <1>8, Zenon DEF Read, Allowed, logVars, pepVars
<1>9. ASSUME NEW t \in Txs, Receive(t) PROVE Q
  BY <1>2, <1>9, Zenon DEF Receive, logVars, pepVars
<1>10. ASSUME NEW t \in Txs, Send(t) \/ Refuse(t) \/ Unavailable(t) \/ ReadFails(t) PROVE Q
  <2> USE Zenon
  <2>1. PICK h : /\ Respond(t, h)
                 /\ \/ h \in {"sent", "refused", "failed"}
                    \/ h = "unavailable" /\ Unavailable(t)
    BY <1>10 DEF Send, Refuse, Unavailable, ReadFails
  <2> QED BY <1>2, <2>1 DEF Respond, SlotsFreed, logVars, pepVars
<1>11. Q
  BY <1>3, <1>4, <1>5, <1>6, <1>7, <1>8, <1>9, <1>10, Zenon DEF Next, HandlerStep, Quiet
<1> QED BY <1>11, Zenon DEF Q

\* A continuation that the hub handed out stays good while the log grows,
\* and every way out of the handler frees its slot.
THEOREM ContinuationsAreHonoured == Spec => []ContinuationHonoured
<1>1. Init => ContinuationHonoured
  BY Zenon DEF Init, ContinuationHonoured
<1>2. ExportInv /\ ContinuationHonoured /\ [Next]_vars => ContinuationHonoured'
  <2> USE Zenon
  <2> SUFFICES ASSUME ExportInv, ContinuationHonoured, [Next]_vars
               PROVE  ContinuationHonoured'
    OBVIOUS
  <2>1. /\ slots' = Holding' /\ Grows(log, log')
        /\ \A u \in Txs : http'[u] = "unavailable" =>
             /\ ask'[u] = ask[u] /\ req'[u] = req[u]
             /\ http[u] = "unavailable" \/ Unavailable(u)
    <3>1. slots = Holding
      BY DEF ContinuationHonoured, Holding
    <3> QED BY <3>1, ExchangeSteps
  <2>2. ASSUME NEW u \in Txs, http'[u] = "unavailable" PROVE Excused(u, log)'
    <3>1. Excused(u, log)
      BY <2>1, <2>2, UnavailableIsExcused DEF ContinuationHonoured, Excused
    <3>2. req[u].ws \in Workspaces /\ log \in Logs
      <4>1. http[u] \in {"unavailable", "open"}
        BY <2>1, <2>2 DEF Unavailable, Allowed
      <4> QED BY <4>1 DEF ExportInv, WellTyped, HandlerOK, RequestOK
    <3> QED BY <2>1, <2>2, <3>1, <3>2, ExcusedKept
  <2> QED BY <2>1, <2>2 DEF ContinuationHonoured, Excused, Holding
<1> QED BY <1>1, <1>2, InvHolds, PTL DEF Spec
=============================================================================
