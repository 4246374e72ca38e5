------------------------------ MODULE Hydrator ------------------------------
(***************************************************************************)
(* The loop that keeps the fleet cache warm, internal/hydrate/hydrator.go, *)
(* with the kubeconfig connector it reads from and the user who refreshes, *)
(* pauses and resumes (internal/tui, internal/webui).                      *)
(*                                                                         *)
(* Run synchronises once, then applies the events of watch streams, one    *)
(* goroutine per kind and scope, until a timer, a new kind or the end of   *)
(* the streams makes it start over.  A user's refresh runs the same        *)
(* synchronisation beside it.  A synchronisation discovers the scopes,     *)
(* publishes them in the cache, then queries and replaces each kind; every *)
(* one of these is a separate step, and a watch event, a pause or a change *)
(* in a cluster may come in between.                                       *)
(*                                                                         *)
(* The clusters and the kubeconfig are the environment.  The object of a   *)
(* kind in a scope has a revision: it exists while that is odd.  A session *)
(* is followed until its process ends, which discards the cache.           *)
(***************************************************************************)
EXTENDS FleetCache, Sequences

CONSTANTS InitialKinds,  \* kinds configured at the start
          Runner,        \* the background loop
          Users,         \* concurrent refreshes by the user
          Limit,         \* queries in flight of one synchronisation
          Buffer,        \* capacity of the channel of watch events
          MaxEvents,     \* bound: what environment and user do
          NoResult

ASSUME HydratorAssumption ==
  /\ InitialKinds \subseteq Kinds /\ InitialKinds # {}
  /\ Runner \notin Users
  /\ Limit \in Nat \ {0} /\ Buffer \in Nat \ {0}

Syncers == Users \union {Runner}

VARIABLES
  config,      \* environment: contexts of the kubeconfig
  up,          \* environment: clusters that answer
  world,       \* environment: kind -> scope -> revision of the object
  dropped,     \* history: contexts that were removed from the kubeconfig
  budget,      \* events the environment and the user have left
  adapter,     \* the connector's scopes, like the cache's
  discovered,  \* the connector discovered once
  kinds,       \* the hydrator's kinds
  changed,     \* the kinds changed since Run opened its streams
  run,         \* where Run is
  sync,        \* syncer -> its synchronisation
  stream,      \* kind -> scope -> goroutine and last revision sent
  queue        \* the channel of watch events

envVars == <<config, up, world, dropped>>
streamVars == <<stream, queue>>
hydratorVars == <<adapter, discovered, kinds, changed, run, sync, streamVars>>
vars == <<cacheVars, envVars, budget, hydratorVars>>

Idle == [stage |-> "idle", kinds |-> {}, found |-> [s \in Scopes |-> "none"],
         todo |-> {}, held |-> [k \in Kinds |-> NoResult], failed |-> FALSE]
Called(ks) == [Idle EXCEPT !.stage = "called", !.kinds = ks]
Off == [at |-> "off", sent |-> 0]
NoStreams == [k \in Kinds |-> [s \in Scopes |-> Off]]

\* Any kubeconfig and any set of live clusters; every object exists.
Init ==
  /\ CacheInit
  /\ config \in SUBSET Scopes
  /\ up \in SUBSET Scopes
  /\ world = [k \in Kinds |-> [s \in Scopes |-> 1]]
  /\ dropped = {}
  /\ budget = MaxEvents
  /\ adapter = [s \in Scopes |-> "none"]
  /\ discovered = FALSE
  /\ kinds = InitialKinds
  /\ changed = FALSE
  /\ run = "syncing"
  /\ sync = [a \in Syncers |->
               IF a = Runner THEN Called(InitialKinds) ELSE Idle]
  /\ stream = NoStreams
  /\ queue = <<>>

-----------------------------------------------------------------------------
(***************************************************************************)
(* The environment and the user                                            *)
(***************************************************************************)

Spend == budget > 0 /\ budget' = budget - 1

Write(k, s) ==
  /\ Spend
  /\ world[k][s] < MaxObject
  /\ world' = [world EXCEPT ![k][s] = @ + 1]
  /\ UNCHANGED <<cacheVars, config, up, dropped, hydratorVars>>

Outage(s) ==
  /\ Spend
  /\ up' = (up \ {s}) \union ({s} \ up)
  /\ UNCHANGED <<cacheVars, config, world, dropped, hydratorVars>>

EditConfig(s) ==
  /\ Spend
  /\ config' = (config \ {s}) \union ({s} \ config)
  /\ dropped' = dropped \union (config \intersect {s})
  /\ UNCHANGED <<cacheVars, up, world, hydratorVars>>

\* ":pause" freezes the store; ":resume" thaws it and asks for a refresh.
Pause ==
  /\ Spend
  /\ SetPaused(TRUE)
  /\ UNCHANGED <<envVars, hydratorVars>>

Resume(a) ==
  /\ a \in Users /\ sync[a].stage = "idle"
  /\ SetPaused(FALSE)
  /\ sync' = [sync EXCEPT ![a] = Called(kinds)]
  /\ UNCHANGED <<envVars, budget, adapter, discovered, kinds, changed, run,
                 streamVars>>

\* SyncOnce asks for the hydrator's kinds, SyncKinds for the given ones.
Refresh(a, ks) ==
  /\ a \in Users /\ sync[a].stage = "idle"
  /\ Spend
  /\ sync' = [sync EXCEPT ![a] = Called(ks)]
  /\ UNCHANGED <<cacheVars, envVars, adapter, discovered, kinds, changed, run,
                 streamVars>>

-----------------------------------------------------------------------------
(***************************************************************************)
(* One synchronisation                                                     *)
(***************************************************************************)

\* sync[a] moves to stage st.
To(a, st) == sync' = [sync EXCEPT ![a].stage = st]

\* A paused store, or one that another synchronisation holds, refuses.
SyncRefused(a) ==
  /\ sync[a].stage = "called"
  /\ ~CanBeginSync
  /\ To(a, "returned")
  /\ UNCHANGED <<cacheVars, envVars, budget, adapter, discovered, kinds,
                 changed, run, streamVars>>

SyncBegins(a) ==
  /\ sync[a].stage = "called"
  /\ BeginSync
  /\ To(a, "discovering")
  /\ UNCHANGED <<envVars, budget, adapter, discovered, kinds, changed, run,
                 streamVars>>

\* Discover probes every context of the kubeconfig.
Probed ==
  [s \in Scopes |-> IF s \notin config THEN "none"
                    ELSE IF s \in up THEN "up" ELSE "down"]

Discover(a) ==
  /\ sync[a].stage = "discovering"
  /\ adapter' = Probed
  /\ discovered' = TRUE
  /\ sync' = [sync EXCEPT ![a].stage = "publishing", ![a].found = Probed]
  /\ UNCHANGED <<cacheVars, envVars, budget, kinds, changed, run, streamVars>>

\* The kubeconfig cannot be read.
DiscoverFails(a) ==
  /\ sync[a].stage = "discovering"
  /\ Spend
  /\ sync' = [sync EXCEPT ![a].stage = "ending", ![a].failed = TRUE]
  /\ UNCHANGED <<cacheVars, envVars, adapter, discovered, kinds, changed, run,
                 streamVars>>

Publish(a) ==
  /\ sync[a].stage = "publishing"
  /\ SetDiscovery(sync[a].found)
  /\ sync' = [sync EXCEPT ![a].stage = "querying", ![a].todo = sync[a].kinds]
  /\ UNCHANGED <<envVars, budget, adapter, discovered, kinds, changed, run,
                 streamVars>>

\* What Query answers for kind k: a scope that was found down or does not
\* answer is unreachable, the answer for the scopes in cut is truncated and
\* misses the object.
Names == {s \in Scopes : adapter[s] # "none"}
Row(n) == IF n % 2 = 1 THEN n ELSE 0
Answered == {s \in Names : adapter[s] = "up" /\ s \in up}
AnswerTo(k, cut) ==
  [rows |-> [s \in Scopes |->
               IF s \in Answered \ cut THEN Row(world[k][s]) ELSE 0],
   unreachable |-> Names \ Answered, stale |-> Names \ Answered,
   truncated |-> cut]

InFlight(a) == {k \in Kinds : sync[a].held[k] # NoResult}

Query(a, k, cut) ==
  /\ sync[a].stage = "querying"
  /\ k \in sync[a].todo
  /\ Cardinality(InFlight(a)) < Limit
  /\ IF cut = {} THEN UNCHANGED budget ELSE Spend
  /\ sync' = [sync EXCEPT ![a].todo = @ \ {k},
                          ![a].held[k] = AnswerTo(k, cut)]
  /\ UNCHANGED <<cacheVars, envVars, adapter, discovered, kinds, changed, run,
                 streamVars>>

Store(a, k) ==
  /\ k \in InFlight(a)
  /\ Replace(k, sync[a].held[k])
  /\ sync' = [sync EXCEPT ![a].held[k] = NoResult]
  /\ UNCHANGED <<envVars, budget, adapter, discovered, kinds, changed, run,
                 streamVars>>

WorkersDone(a) ==
  /\ sync[a].stage = "querying"
  /\ sync[a].todo = {} /\ InFlight(a) = {}

\* The deferred EndSync.
SyncEnds(a) ==
  /\ WorkersDone(a) \/ sync[a].stage = "ending"
  /\ EndSync(sync[a].failed)
  /\ To(a, "returned")
  /\ UNCHANGED <<envVars, budget, adapter, discovered, kinds, changed, run,
                 streamVars>>

\* registerKinds, which SyncKinds calls after the synchronisation whether it
\* succeeded or not; the kinds of SyncOnce are known already.
RegisterKinds(ks) ==
  /\ kinds' = kinds \union ks
  /\ changed' = (changed \/ ~(ks \subseteq kinds))

Return(a) ==
  /\ sync[a].stage = "returned"
  /\ sync' = [sync EXCEPT ![a] = Idle]
  /\ RegisterKinds(sync[a].kinds)
  /\ run' = IF a = Runner THEN "opening" ELSE run
  /\ UNCHANGED <<cacheVars, envVars, budget, adapter, discovered, streamVars>>

-----------------------------------------------------------------------------
(***************************************************************************)
(* Run                                                                     *)
(***************************************************************************)

\* SyncOnce within Run.
CallSyncOnce ==
  /\ run' = "syncing"
  /\ sync' = [sync EXCEPT ![Runner] = Called(kinds)]

\* Watch starts a goroutine for every scope of the connector and kind; the
\* one of a scope that was found down only reports that.  ensureDiscovered
\* discovers at the first use, and does not tell the cache.
Streams(ks, known) ==
  [k \in Kinds |-> [s \in Scopes |->
     IF k \notin ks \/ known[s] = "none" THEN Off
     ELSE [at |-> IF known[s] = "up" THEN "list" ELSE "report", sent |-> 0]]]

OpenWatch ==
  /\ run = "opening"
  /\ LET known == IF discovered THEN adapter ELSE Probed IN
       /\ adapter' = known
       /\ discovered' = TRUE
       /\ stream' = Streams(kinds, known)
  /\ queue' = <<>>
  /\ changed' = FALSE
  /\ run' = "watching"
  /\ UNCHANGED <<cacheVars, envVars, budget, kinds, sync>>

\* The kubeconfig cannot be read at the first use: try again later.
OpenFails ==
  /\ run = "opening"
  /\ ~discovered
  /\ Spend
  /\ run' = "retrying"
  /\ UNCHANGED <<cacheVars, envVars, adapter, discovered, kinds, changed,
                 sync, streamVars>>

\* cancel: the goroutines stop and nobody reads their channel any more.
CancelStreams == stream' = NoStreams /\ queue' = <<>>

ApplyEvent ==
  /\ run = "watching" /\ queue # <<>>
  /\ ~UnknownScope(Head(queue))
  /\ ApplyWatchEvent(Head(queue))
  /\ queue' = Tail(queue)
  /\ UNCHANGED <<envVars, budget, adapter, discovered, kinds, changed, run,
                 sync, stream>>

\* The cache does not know the event's scope: Run returns the error.
ApplyFails ==
  /\ run = "watching" /\ queue # <<>>
  /\ UnknownScope(Head(queue))
  /\ run' = "ended"
  /\ CancelStreams
  /\ UNCHANGED <<cacheVars, envVars, budget, adapter, discovered, kinds,
                 changed, sync>>

KindsChanged ==
  /\ run = "watching" /\ changed
  /\ run' = "opening"
  /\ CancelStreams
  /\ UNCHANGED <<cacheVars, envVars, budget, adapter, discovered, kinds,
                 changed, sync>>

\* The resync timer fires.
Resync ==
  /\ run = "watching"
  /\ CallSyncOnce
  /\ CancelStreams
  /\ UNCHANGED <<cacheVars, envVars, budget, adapter, discovered, kinds,
                 changed>>

\* The channel is closed once every goroutine returned.
StreamsClosed ==
  /\ run = "watching" /\ queue = <<>>
  /\ \A k \in Kinds, s \in Scopes : stream[k][s].at = "off"
  /\ run' = "retrying"
  /\ UNCHANGED <<cacheVars, envVars, budget, adapter, discovered, kinds,
                 changed, sync, streamVars>>

RetryTimer ==
  /\ run = "retrying"
  /\ CallSyncOnce
  /\ UNCHANGED <<cacheVars, envVars, budget, adapter, discovered, kinds,
                 changed, streamVars>>

-----------------------------------------------------------------------------
(***************************************************************************)
(* The goroutine of one kind and scope                                     *)
(***************************************************************************)

Emit(k, s, type, n, next) ==
  /\ Len(queue) < Buffer
  /\ queue' = Append(queue, [type |-> type, kind |-> k, scope |-> s,
                             object |-> Row(n)])
  /\ stream' = [stream EXCEPT ![k][s] = [at |-> next, sent |-> n]]
  /\ UNCHANGED <<cacheVars, envVars, budget, adapter, discovered, kinds,
                 changed, run, sync>>

ReportDown(k, s) ==
  /\ stream[k][s].at = "report"
  /\ Emit(k, s, "error", 0, "off")

\* The list succeeds and its revision starts the watch, or fails and is tried
\* again.
List(k, s) ==
  /\ stream[k][s].at = "list"
  /\ IF s \in up THEN Emit(k, s, "snapshot", world[k][s], "live")
     ELSE Emit(k, s, "error", 0, "list")

\* The next change of the object after the last revision sent.
Deliver(k, s) ==
  /\ stream[k][s].at = "live" /\ s \in up
  /\ stream[k][s].sent < world[k][s]
  /\ LET n == stream[k][s].sent + 1 IN
       Emit(k, s, IF n % 2 = 1 THEN "upsert" ELSE "delete", n, "live")

BreakStream(k, s) ==
  /\ stream[k][s].at = "live" /\ s \notin up
  /\ Emit(k, s, "error", 0, "list")

\* The server ends the watch without an error: list again.
ServerCloses(k, s) ==
  /\ stream[k][s].at = "live"
  /\ stream' = [stream EXCEPT ![k][s] = [at |-> "list", sent |-> 0]]
  /\ UNCHANGED <<cacheVars, envVars, budget, adapter, discovered, kinds,
                 changed, run, sync, queue>>

-----------------------------------------------------------------------------
\* A reader of the cache, such as the terminal view.
Wait(w) ==
  /\ WaitForChange(w)
  /\ UNCHANGED <<envVars, budget, hydratorVars>>

Environment ==
  \/ \E k \in Kinds, s \in Scopes : Write(k, s)
  \/ \E s \in Scopes : Outage(s) \/ EditConfig(s)
  \/ Pause
  \/ \E a \in Users : Resume(a)
  \/ \E a \in Users : Refresh(a, kinds) \/ \E k \in Kinds : Refresh(a, {k})
  \/ \E a \in Syncers : DiscoverFails(a)
  \/ \E a \in Syncers, k \in Kinds, cut \in SUBSET Answered \ {{}} :
       Query(a, k, cut)
  \/ OpenFails

SyncStep(a) ==
  \/ SyncRefused(a) \/ SyncBegins(a) \/ Discover(a) \/ Publish(a)
  \/ \E k \in Kinds : Query(a, k, {}) \/ Store(a, k)
  \/ SyncEnds(a) \/ Return(a)

RunStep ==
  \/ OpenWatch \/ ApplyEvent \/ ApplyFails \/ KindsChanged
  \/ StreamsClosed \/ RetryTimer

StreamStep(k, s) ==
  ReportDown(k, s) \/ List(k, s) \/ Deliver(k, s) \/ BreakStream(k, s)

\* Only after Run returned may nothing be left to do.
Quiet ==
  /\ run = "ended" /\ \A a \in Syncers : sync[a].stage = "idle"
  /\ UNCHANGED vars

Next ==
  \/ Environment
  \/ \E a \in Syncers : SyncStep(a)
  \/ RunStep \/ Resync
  \/ \E k \in Kinds, s \in Scopes : StreamStep(k, s) \/ ServerCloses(k, s)
  \/ \E w \in Waiters : Wait(w)
  \/ Quiet

Spec == Init /\ [][Next]_vars

-----------------------------------------------------------------------------
(***************************************************************************)
(* Fairness: every goroutine that can proceed does, requests time out, and *)
(* the resync timer fires again and again.  The user owes nothing.         *)
(***************************************************************************)
FairSpec ==
  /\ Spec
  /\ \A a \in Syncers : WF_vars(SyncStep(a))
  /\ WF_vars(RunStep)
  /\ WF_vars(Resync)
  /\ \A k \in Kinds, s \in Scopes : WF_vars(StreamStep(k, s))

-----------------------------------------------------------------------------
\* WaitForChange misses no change: a reader that waits for the channel knows
\* the store's current version.
NoLostWakeup == blocked \intersect behind = {}

\* Pause gives "a stable read": while it lasts, no synchronisation that was
\* under way, no answer in flight and no buffered event changes what is cached.
PausedIsStable == [][paused /\ paused' => UNCHANGED dataVars]_vars

\* Replace "preserv[es] last-known rows for failed scopes": outages,
\* truncated answers, pauses and late events never make a row disappear whose
\* object was not deleted in its cluster and whose context was not removed
\* from the kubeconfig.
RowsOutliveOutages ==
  [][\A k \in Kinds, s \in Scopes :
       records[k][s] # 0 /\ records'[k][s] = 0 =>
         world[k][s] > 1 \/ s \in dropped]_vars

\* Whatever order events, answers and refreshes came in (an answer older than
\* an applied event included), once the clusters are left alone the cache
\* ends up with their objects: the watch streams and the safety resync of Run
\* repair it, unless it is paused or Run ended.  A scope that does not answer
\* is shown as unreachable, its kinds never as warm, and one that left the
\* kubeconfig has no rows.
Accurate(k, s) ==
  IF s \notin config THEN records[k][s] = 0 /\ s \notin Discovered
  ELSE IF s \in up THEN records[k][s] = Row(world[k][s]) /\ s \in SeenReachable(k)
  ELSE s \in SeenUnreachable(k) /\ StateOf(k) # "warm"
CacheConverges ==
  <>[](\/ paused \/ run = "ended"
       \/ \A k \in kinds, s \in Scopes : Accurate(k, s))

\* "Run keeps the configured cache warm": within a session it does not stop.
RunSurvives == run # "ended"
=============================================================================
