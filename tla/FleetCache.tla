----------------------------- MODULE FleetCache -----------------------------
(***************************************************************************)
(* The local fleet cache, internal/fleetcache/store.go: last-known objects *)
(* of the clusters ("scopes") that were discovered, with what is known of  *)
(* their coverage.  Every operation runs under the store's mutex, so each  *)
(* one is an action; readers wait for changes with WaitForChange.          *)
(*                                                                         *)
(* All state is kept per workspace and no operation reads another one: the *)
(* model is the store of one workspace.  A scope has at most one object of *)
(* a kind; 0 stands for its absence and a positive number for one of its   *)
(* versions.  The age of observations, labels and aliases are left out.    *)
(***************************************************************************)
EXTENDS Naturals, FiniteSets

CONSTANTS Kinds,     \* resource kinds
          Scopes,    \* names of clusters
          Waiters,   \* callers of WaitForChange
          MaxObject  \* bound: versions of an object

ASSUME ObjectAssumption == MaxObject \in Nat

VARIABLES
  records,      \* kind -> scope -> cached object
  coverage,     \* kind -> unreachable, stale and truncated scopes
  scopes,       \* scope -> "none" (not discovered), "down" or "up"
  warmed,       \* kinds that were reconciled at least once
  syncing,      \* a reconciliation is active
  paused,       \* mutations are frozen
  syncError,    \* the last reconciliation failed
  watchErrors,  \* kinds whose watch reported an error
  behind,       \* waiters that know an older version than the store's
  blocked       \* waiters that wait for the channel to close

dataVars == <<records, coverage, scopes, warmed, watchErrors>>
cacheVars == <<dataVars, syncing, paused, syncError, behind, blocked>>

NoCoverage == [unreachable |-> {}, stale |-> {}, truncated |-> {}]

CacheInit ==
  /\ records = [k \in Kinds |-> [s \in Scopes |-> 0]]
  /\ coverage = [k \in Kinds |-> NoCoverage]
  /\ scopes = [s \in Scopes |-> "none"]
  /\ warmed = {} /\ watchErrors = {}
  /\ syncing = FALSE /\ paused = FALSE /\ syncError = FALSE
  /\ behind = {} /\ blocked = {}

Discovered == {s \in Scopes : scopes[s] # "none"}

-----------------------------------------------------------------------------
(***************************************************************************)
(* Changes and the readers that wait for them                              *)
(***************************************************************************)

\* notifyLocked: the version moves past what every reader knows, and closing
\* the channel wakes those that wait for it.
WakeNobody == blocked                               \* mutant: no close(changed)
WakeAll == {}

Notify == behind' = Waiters /\ blocked' = WakeAll
NoNotify == UNCHANGED <<behind, blocked>>

\* WaitForChange: returns at once when the version moved, else takes the
\* current channel under the lock and waits for it.
WaitForChange(w) ==
  /\ w \notin blocked
  /\ IF w \in behind THEN behind' = behind \ {w} /\ UNCHANGED blocked
     ELSE blocked' = blocked \union {w} /\ UNCHANGED behind
  /\ UNCHANGED <<dataVars, syncing, paused, syncError>>

-----------------------------------------------------------------------------
(***************************************************************************)
(* Reconciliation                                                          *)
(***************************************************************************)

CanBeginSync == ~paused /\ ~syncing

BeginSync ==
  /\ CanBeginSync
  /\ syncing' = TRUE
  /\ syncError' = FALSE
  /\ Notify
  /\ UNCHANGED <<dataVars, paused>>

EndSync(failed) ==
  /\ syncing' = FALSE
  /\ syncError' = failed
  /\ Notify
  /\ UNCHANGED <<dataVars, paused>>

SetPaused(p) ==
  /\ paused # p
  /\ paused' = p
  /\ Notify
  /\ UNCHANGED <<dataVars, syncing, syncError>>

\* A mutation of a paused store is dropped without an error.
FrozenNever == FALSE                                \* mutant
Frozen == paused
Dropped == UNCHANGED cacheVars

\* found: scope -> "none", "down" or "up".
SetDiscovery(found) ==
  IF Frozen THEN Dropped
  ELSE /\ scopes' = found
       /\ Notify
       /\ UNCHANGED <<records, coverage, warmed, watchErrors, syncing, paused,
                      syncError>>

\* Replace keeps the last-known rows of scopes that the query did not see
\* completely.
PreserveAll(r) == Scopes                            \* mutant
PreserveNothing(r) == {}                            \* mutant
Preserve(r) == r.unreachable \union r.truncated

Replaced(k, r) ==
  [s \in Scopes |-> IF r.rows[s] # 0 THEN r.rows[s]
                    ELSE IF s \in Preserve(r) THEN records[k][s] ELSE 0]

\* markScopeWorkspaceLocked for the scopes of the new rows.
Marked(seen) ==
  [s \in Scopes |-> IF s \in seen /\ scopes[s] = "none" THEN "down"
                    ELSE scopes[s]]

Replace(k, r) ==
  IF Frozen THEN Dropped
  ELSE /\ records' = [records EXCEPT ![k] = Replaced(k, r)]
       /\ scopes' = Marked({s \in Scopes : r.rows[s] # 0})
       /\ coverage' = [coverage EXCEPT ![k] =
            [unreachable |-> r.unreachable, stale |-> r.stale,
             truncated |-> r.truncated]]
       /\ watchErrors' = IF r.unreachable = {} THEN watchErrors \ {k}
                         ELSE watchErrors
       /\ warmed' = warmed \union {k}
       /\ Notify
       /\ UNCHANGED <<syncing, paused, syncError>>

-----------------------------------------------------------------------------
(***************************************************************************)
(* Watch events                                                            *)
(***************************************************************************)

\* markScopeReachableLocked and markScopeUnreachableLocked.
Reached(c, s) == [c EXCEPT !.unreachable = @ \ {s}, !.stale = @ \ {s}]
Lost(c, s) ==
  [c EXCEPT !.unreachable = @ \union {s}, !.stale = @ \union {s}]

\* The coverage of the event's kind after the event.
Covered(e) ==
  LET c == coverage[e.kind] IN
  CASE e.type = "error" -> Lost(c, e.scope)
    [] e.type = "snapshot" ->
         [Reached(c, e.scope) EXCEPT !.truncated = @ \ {e.scope}]
    [] OTHER -> Reached(c, e.scope)

\* ApplyWatchEvent fails, and changes nothing, for a scope that is not
\* discovered; upserts and snapshots carry the object, a delete removes it.
UnknownScope(e) == ~paused /\ scopes[e.scope] = "none"

ApplyWatchEvent(e) ==
  IF Frozen THEN Dropped
  ELSE /\ coverage' = [coverage EXCEPT ![e.kind] = Covered(e)]
       /\ IF e.type = "error"
          THEN /\ watchErrors' = watchErrors \union {e.kind}
               /\ UNCHANGED <<records, scopes>>
          ELSE /\ records' = [records EXCEPT ![e.kind][e.scope] = e.object]
               /\ scopes' = [scopes EXCEPT ![e.scope] = "up"]
               /\ watchErrors' = IF Covered(e).unreachable = {}
                                 THEN watchErrors \ {e.kind} ELSE watchErrors
       /\ warmed' = warmed \union {e.kind}
       /\ Notify
       /\ UNCHANGED <<syncing, paused, syncError>>

-----------------------------------------------------------------------------
(***************************************************************************)
(* Query: the coverage and the state a reader sees for kind k              *)
(***************************************************************************)

Pending(k) == k \notin warmed

\* coverageLocked: nothing is known of a pending kind.
SeenUnreachable(k) ==
  {s \in Discovered : ~Pending(k) /\ (\/ s \in coverage[k].unreachable
                                     \/ scopes[s] = "down")}
SeenReachable(k) ==
  IF Pending(k) THEN {} ELSE Discovered \ SeenUnreachable(k)
SeenPartial(k) ==
  SeenReachable(k) \intersect (coverage[k].stale \union coverage[k].truncated)

\* lastErrorLocked # "".
HasError(k) == syncError \/ k \in watchErrors
AnyRecord == \E k \in Kinds, s \in Scopes : records[k][s] # 0

\* stateLocked, its cases in the order of the code.
StateOf(k) ==
  IF paused THEN "paused"
  ELSE IF Pending(k) /\ syncing THEN "warming"
  ELSE IF Pending(k) /\ ~HasError(k) THEN "cold"
  ELSE IF ~AnyRecord /\ syncing THEN "warming"
  ELSE IF ~AnyRecord /\ warmed = {} THEN "cold"
  ELSE IF SeenReachable(k) = {} /\ (AnyRecord \/ HasError(k)) THEN "offline"
  ELSE IF SeenUnreachable(k) \union SeenPartial(k) # {} \/ HasError(k)
       THEN "degraded"
  ELSE IF syncing THEN "warming"
  ELSE "warm"
=============================================================================
