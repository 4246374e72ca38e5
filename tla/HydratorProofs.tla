--------------------------- MODULE HydratorProofs ---------------------------
(***************************************************************************)
(* Proofs about the local fleet cache and the loop that keeps it warm, for *)
(* any kinds, clusters, readers, concurrent refreshes and buffer sizes:    *)
(* readers miss no change, a pause freezes what is cached, and a row goes  *)
(* away only with its object or its context.                               *)
(***************************************************************************)
EXTENDS Hydrator, TLAPS

\* Readers: WaitForChange registers under the lock that notifyLocked takes.
LEMMA WakeupStep == NoLostWakeup /\ [Next]_vars => NoLostWakeup'
<1> USE Zenon
<1> SUFFICES ASSUME NoLostWakeup, [Next]_vars PROVE NoLostWakeup'
  OBVIOUS
<1> USE DEF NoLostWakeup
<1>1. ASSUME Notify \/ UNCHANGED <<behind, blocked>> PROVE NoLostWakeup'
  BY <1>1 DEF Notify, WakeAll
<1>2. CASE Environment
  BY <1>1, <1>2 DEF Environment, Write, Outage, EditConfig, Pause, Resume, Refresh, DiscoverFails, Query, OpenFails,
     SetPaused, cacheVars
<1>3. ASSUME NEW a \in Syncers, SyncStep(a) PROVE NoLostWakeup'
  BY <1>1, <1>3 DEF SyncStep, SyncRefused, SyncBegins, BeginSync, Discover, Publish, SetDiscovery, Dropped, Query,
     Store, Replace, SyncEnds, EndSync, Return, cacheVars
<1>4. CASE RunStep \/ Resync
  BY <1>1, <1>4 DEF RunStep, Resync, OpenWatch, ApplyEvent, ApplyWatchEvent, Dropped, ApplyFails, KindsChanged,
     StreamsClosed, RetryTimer, cacheVars
<1>5. ASSUME NEW k \in Kinds, NEW s \in Scopes, StreamStep(k, s) \/ ServerCloses(k, s) PROVE NoLostWakeup'
  BY <1>1, <1>5 DEF StreamStep, ReportDown, List, Deliver, BreakStream, Emit, ServerCloses, cacheVars
<1>6. ASSUME NEW w \in Waiters, Wait(w) PROVE NoLostWakeup'
  BY <1>6 DEF Wait, WaitForChange
<1>7. CASE Quiet \/ UNCHANGED vars
  BY <1>1, <1>7 DEF Quiet, vars, cacheVars
<1> QED BY <1>2, <1>3, <1>4, <1>5, <1>6, <1>7 DEF Next

\* However mutations, pauses and readers interleave, a reader that waits for the channel knows the store's
\* current version (WaitForChange, notifyLocked).
THEOREM WakeupsAreKept == Spec => []NoLostWakeup
<1>1. Init => NoLostWakeup
  BY Zenon DEF Init, CacheInit, NoLostWakeup
<1> QED BY <1>1, WakeupStep, PTL DEF Spec

-----------------------------------------------------------------------------
\* Every mutation asks whether the store is frozen first.
LEMMA PausedStep == [Next]_vars => (paused /\ paused' => UNCHANGED dataVars)
<1> USE Zenon
<1> SUFFICES ASSUME [Next]_vars, paused, paused' PROVE UNCHANGED dataVars
  OBVIOUS
<1> USE DEF Frozen
<1>2. CASE Environment
  BY <1>2 DEF Environment, Write, Outage, EditConfig, Pause, Resume, Refresh, DiscoverFails, Query, OpenFails,
     SetPaused, cacheVars
<1>3. ASSUME NEW a \in Syncers, SyncStep(a) PROVE UNCHANGED dataVars
  BY <1>3 DEF SyncStep, SyncRefused, SyncBegins, BeginSync, Discover, Publish, SetDiscovery, Dropped, Query,
     Store, Replace, SyncEnds, EndSync, Return, cacheVars
<1>4. CASE RunStep \/ Resync
  BY <1>4 DEF RunStep, Resync, OpenWatch, ApplyEvent, ApplyWatchEvent, Dropped, ApplyFails, KindsChanged,
     StreamsClosed, RetryTimer, cacheVars
<1>5. ASSUME NEW k \in Kinds, NEW s \in Scopes, StreamStep(k, s) \/ ServerCloses(k, s) PROVE UNCHANGED dataVars
  BY <1>5 DEF StreamStep, ReportDown, List, Deliver, BreakStream, Emit, ServerCloses, cacheVars
<1>6. ASSUME NEW w \in Waiters, Wait(w) PROVE UNCHANGED dataVars
  BY <1>6 DEF Wait, WaitForChange
<1>7. CASE Quiet \/ UNCHANGED vars
  BY <1>7 DEF Quiet, vars, cacheVars
<1> QED BY <1>2, <1>3, <1>4, <1>5, <1>6, <1>7 DEF Next

\* No synchronisation under way, answer in flight or buffered event changes what a paused store caches
\* (SetDiscovery, Replace and ApplyWatchEvent return early).
THEOREM PauseFreezes == Spec => PausedIsStable
BY PausedStep, PTL DEF Spec, PausedIsStable

-----------------------------------------------------------------------------
(***************************************************************************)
(* Rows outlive outages.  A scope counts as met once the connector knows   *)
(* it or its context was dropped; every row, answer, stream and event is   *)
(* of a scope that was met, and what an answer leaves out unexplained is   *)
(* deleted or not among the scopes of the connector.  The connector's      *)
(* scopes do not change while an answer is in flight, because only the     *)
(* synchronisation that holds the store discovers.                         *)
(***************************************************************************)
Holding == {"discovering", "publishing", "querying", "ending"}
Stages == {"idle", "called", "returned"} \union Holding
Conditions == {"none", "down", "up"}
Answers == [rows : [Scopes -> Nat], unreachable : SUBSET Scopes, stale : SUBSET Scopes, truncated : SUBSET Scopes]
Syncs == [stage : Stages, kinds : SUBSET Kinds, found : [Scopes -> Conditions], todo : SUBSET Kinds,
          held : [Kinds -> Answers \union {NoResult}], failed : BOOLEAN]
Events == [type : {"error", "snapshot", "upsert", "delete"}, kind : Kinds, scope : Scopes, object : Nat]

Shape ==
  /\ records \in [Kinds -> [Scopes -> Nat]]
  /\ config \in SUBSET Scopes /\ dropped \in SUBSET Scopes
  /\ world \in [Kinds -> [Scopes -> Nat \ {0}]]
  /\ adapter \in [Scopes -> Conditions]
  /\ kinds \in SUBSET Kinds
  /\ sync \in [Syncers -> Syncs]
  /\ stream \in [Kinds -> [Scopes -> [at : {"off", "report", "list", "live"}, sent : Nat]]]
  /\ queue \in Seq(Events)
  /\ discovered \in BOOLEAN

\* One synchronisation at a time, and it has discovered before it queries.
Exclusive ==
  /\ \A a \in Syncers : sync[a].stage \in Holding => syncing
  /\ \A a, b \in Syncers : sync[a].stage \in Holding /\ sync[b].stage \in Holding => a = b
  /\ \A a \in Syncers : sync[a].stage \in {"publishing", "querying"} => discovered
  /\ \A a \in Syncers, k \in Kinds : sync[a].held[k] # NoResult => sync[a].stage = "querying"

\* The connector knows scope s, or its context was dropped.
Met(s) == adapter[s] # "none" \/ s \in dropped

AnswerFits(k, r) ==
  \A s \in Scopes :
    /\ r.rows[s] # 0 => Met(s)
    /\ r.rows[s] = 0 /\ s \notin r.unreachable \union r.truncated => world[k][s] > 1 \/ adapter[s] = "none"

EventFits(e) == Met(e.scope) /\ (e.type # "error" /\ e.object = 0 => world[e.kind][e.scope] > 1)

Explained ==
  /\ \A s \in Scopes : adapter[s] # "none" => s \in config \union dropped
  /\ \A k \in Kinds, s \in Scopes : records[k][s] # 0 => Met(s)
  /\ \A a \in Syncers, k \in Kinds : sync[a].held[k] # NoResult => AnswerFits(k, sync[a].held[k])
  /\ \A k \in Kinds, s \in Scopes : stream[k][s].at # "off" => Met(s)
  /\ \A i \in 1 .. Len(queue) : EventFits(queue[i])

Inv == Shape /\ Exclusive /\ Explained

-----------------------------------------------------------------------------
\* A synchronisation that is idle or was just called holds no answer.
LEMMA IdleFits ==
  ASSUME NEW ks \in SUBSET Kinds
  PROVE  /\ Idle \in Syncs /\ Idle.stage = "idle" /\ Idle.held = [k \in Kinds |-> NoResult]
         /\ Called(ks) \in Syncs /\ Called(ks).stage = "called" /\ Called(ks).held = [k \in Kinds |-> NoResult]
BY Zenon DEF Idle, Called, Syncs, Stages, Holding, Conditions

\* Syncer a starts or ends a synchronisation; the cache, the connector and the streams stay.
LEMMA CallKeeps ==
  ASSUME Inv, NEW a \in Syncers, NEW v \in Syncs, v.stage \in {"idle", "called"},
         v.held = [k \in Kinds |-> NoResult], sync' = [sync EXCEPT ![a] = v],
         kinds' \in SUBSET Kinds, UNCHANGED <<records, syncing, envVars, adapter, discovered>>,
         UNCHANGED streamVars \/ CancelStreams
  PROVE  Inv'
<1>1. /\ sync' \in [Syncers -> Syncs] /\ sync'[a] = v
      /\ \A b \in Syncers : b # a => sync'[b] = sync[b]
  BY Zenon DEF Inv, Shape
<1>2. \/ stream' = stream /\ queue' = queue
      \/ stream' = NoStreams /\ queue' = <<>>
  BY Zenon DEF streamVars, CancelStreams
<1>a. NoStreams \in [Kinds -> [Scopes -> [at : {"off", "report", "list", "live"}, sent : Nat]]]
  BY Zenon DEF NoStreams, Off
<1>b. <<>> \in Seq(Events)
  OBVIOUS
<1>3. Shape'
  BY <1>1, <1>2, <1>a, <1>b, Zenon DEF Inv, Shape, envVars
<1>4. Exclusive'
  BY <1>1 DEF Inv, Exclusive, Holding
<1>5. /\ \A k \in Kinds, s \in Scopes : stream'[k][s].at # "off" => Met(s)
      /\ \A i \in 1 .. Len(queue') : EventFits(queue'[i])
  BY <1>2 DEF Inv, Explained, NoStreams, Off
<1>6. Explained'
  BY <1>1, <1>5 DEF Inv, Explained, AnswerFits, EventFits, Met, envVars
<1> QED BY <1>3, <1>4, <1>6, Zenon DEF Inv

\* Syncer a moves on without touching its answers.
LEMMA MoveKeeps ==
  ASSUME Inv, NEW a \in Syncers, NEW st \in Stages, sync' \in [Syncers -> Syncs],
         \A b \in Syncers : b # a => sync'[b] = sync[b],
         sync'[a].stage = st, sync'[a].held = sync[a].held,
         st \notin {"discovering", "querying"} => \A k \in Kinds : sync[a].held[k] = NoResult,
         st = "discovering" => ~syncing /\ syncing',
         st \in Holding \ {"discovering"} => sync[a].stage \in Holding /\ syncing' = syncing,
         st \notin Holding => syncing' = syncing \/ sync[a].stage \in Holding,
         st = "querying" => sync[a].stage \in {"publishing", "querying"},
         st # "publishing",
         UNCHANGED <<records, envVars, adapter, discovered, kinds, streamVars>>
  PROVE  Inv'
<1>1. Shape'
  BY Zenon DEF Inv, Shape, envVars, streamVars
<1>2. Exclusive'
  BY DEF Inv, Exclusive, Holding, Stages
<1>3. \A b \in Syncers : sync'[b].held = sync[b].held
  BY Zenon
<1>4. Explained'
  BY <1>3 DEF Inv, Explained, AnswerFits, EventFits, Met, envVars, streamVars
<1> QED BY <1>1, <1>2, <1>4, Zenon DEF Inv

\* The connector's scopes are read from the kubeconfig: what was met stays met.
LEMMA ProbedFits ==
  ASSUME Shape
  PROVE  /\ Probed \in [Scopes -> Conditions]
         /\ \A s \in Scopes : Probed[s] # "none" <=> s \in config
BY Zenon DEF Shape, Probed, Conditions

\* What is in the channel are events.
LEMMA EventsQueued == Shape => \A i \in 1 .. Len(queue) : queue[i] \in Events
BY DEF Shape

\* Discover, by the synchronisation that holds the store.
LEMMA DiscoverKeeps ==
  ASSUME Inv, NEW a \in Syncers, Discover(a)
  PROVE  Inv'
<1>1. /\ sync[a].stage = "discovering" /\ adapter' = Probed /\ discovered' = TRUE
      /\ sync' = [sync EXCEPT ![a].stage = "publishing", ![a].found = Probed]
      /\ UNCHANGED <<records, syncing, envVars, kinds, streamVars>>
  BY Zenon DEF Discover, cacheVars, dataVars
<1>2. sync \in [Syncers -> Syncs] /\ Probed \in [Scopes -> Conditions]
  BY ProbedFits, Zenon DEF Inv, Shape
<1>3. sync' \in [Syncers -> Syncs] /\ sync'[a].stage = "publishing" /\ sync'[a].held = sync[a].held
  BY <1>1, <1>2 DEF Syncs, Stages, Holding
<1>4. \A b \in Syncers : b # a => sync'[b] = sync[b]
  BY <1>1, <1>2, Zenon
<1>5. Shape'
  BY <1>1, <1>2, <1>3, Zenon DEF Inv, Shape, envVars, streamVars
<1>6. Exclusive'
  BY <1>1, <1>3, <1>4 DEF Inv, Exclusive, Holding
<1>7. \A b \in Syncers, k \in Kinds : sync'[b].held[k] = NoResult
  BY <1>1, <1>3, <1>4 DEF Inv, Exclusive, Holding
<1>8. \A s \in Scopes : Met(s) => Met(s)'
  BY <1>1, ProbedFits, Zenon DEF Inv, Explained, Met, envVars
<1>9. \A i \in 1 .. Len(queue) : queue[i].scope \in Scopes
  BY EventsQueued, Zenon DEF Inv, Events
<1>10. Explained'
  BY <1>1, <1>7, <1>8, <1>9, ProbedFits, Zenon DEF Inv, Explained, EventFits, envVars, streamVars
<1> QED BY <1>5, <1>6, <1>10, Zenon DEF Inv

\* The answer to a query accounts for the scopes of the connector.
LEMMA AnswerToFits ==
  ASSUME Inv, NEW k \in Kinds, NEW cut \in SUBSET Answered
  PROVE  AnswerTo(k, cut) \in Answers /\ AnswerFits(k, AnswerTo(k, cut))
<1>1. \A s \in Scopes : Row(world[k][s]) \in Nat /\ (Row(world[k][s]) = 0 => world[k][s] > 1)
  <2> TAKE s \in Scopes
  <2>1. world[k][s] \in Nat \ {0}
    BY DEF Inv, Shape
  <2> QED BY <2>1 DEF Row
<1>2. Answered \subseteq Names /\ Names \subseteq Scopes
  BY Zenon DEF Answered, Names
<1>3. AnswerTo(k, cut) \in Answers
  BY <1>1, <1>2, Zenon DEF AnswerTo, Answers
<1>4. \A s \in Scopes : adapter[s] # "none" <=> s \in Names
  BY Zenon DEF Names
<1> QED BY <1>1, <1>2, <1>3, <1>4, Zenon DEF AnswerTo, AnswerFits, Met

\* Query takes the answer of the connector as it is now.
LEMMA QueryKeeps ==
  ASSUME Inv, NEW a \in Syncers, NEW k \in Kinds, NEW cut \in SUBSET Answered, Query(a, k, cut)
  PROVE  Inv'
<1> DEFINE r == AnswerTo(k, cut)
<1>1. /\ sync[a].stage = "querying"
      /\ sync' = [sync EXCEPT ![a].todo = @ \ {k}, ![a].held[k] = r]
      /\ UNCHANGED <<records, syncing, envVars, adapter, discovered, kinds, streamVars>>
  BY Zenon DEF Query, cacheVars, dataVars
<1>2. sync \in [Syncers -> Syncs] /\ r \in Answers /\ AnswerFits(k, r)
  BY AnswerToFits, Zenon DEF Inv, Shape
<1> HIDE DEF r
<1>3. /\ sync' \in [Syncers -> Syncs] /\ sync'[a].stage = "querying"
      /\ sync'[a].held = [sync[a].held EXCEPT ![k] = r]
  BY <1>1, <1>2 DEF Syncs
<1>4. \A b \in Syncers : b # a => sync'[b] = sync[b]
  BY <1>1, <1>2, Zenon
<1>5. /\ \A b \in Syncers : sync'[b].stage = sync[b].stage
      /\ \A b \in Syncers, j \in Kinds : sync'[b].held[j] = IF b = a /\ j = k THEN r ELSE sync[b].held[j]
  BY <1>1, <1>2, <1>3, <1>4 DEF Syncs
<1>6. Shape'
  BY <1>1, <1>3, Zenon DEF Inv, Shape, envVars, streamVars
<1>7. Exclusive'
  <2> USE Zenon
  <2>1. \A b \in Syncers, j \in Kinds : sync'[b].held[j] # NoResult => sync'[b].stage = "querying"
    <3>1. \A b \in Syncers, j \in Kinds : sync[b].held[j] # NoResult => sync[b].stage = "querying"
      BY DEF Inv, Exclusive
    <3>2. \A b \in Syncers, j \in Kinds : b = a \/ sync'[b].held[j] = sync[b].held[j]
      BY <1>5
    <3>3. ASSUME NEW b \in Syncers, NEW j \in Kinds, sync'[b].held[j] # NoResult PROVE sync[b].stage = "querying"
      <4>1. CASE b = a
        BY <1>1, <4>1
      <4>2. CASE b # a
        BY <3>1, <3>2, <3>3, <4>2
      <4> QED BY <4>1, <4>2
    <3> QED BY <1>5, <3>3
  <2> QED BY <1>1, <1>5, <2>1 DEF Inv, Exclusive
<1>8. Explained'
  BY <1>1, <1>2, <1>5 DEF Inv, Explained, AnswerFits, EventFits, Met, envVars, streamVars
<1> QED BY <1>6, <1>7, <1>8, Zenon DEF Inv

\* Replace: a row goes only where the answer explains it.
LEMMA StoreKeeps ==
  ASSUME Inv, NEW a \in Syncers, NEW k \in Kinds, Store(a, k)
  PROVE  /\ Inv'
         /\ \A j \in Kinds, s \in Scopes : records[j][s] # 0 /\ records'[j][s] = 0 => world[j][s] > 1 \/ s \in dropped
<1> DEFINE r == sync[a].held[k]
<1>1. /\ r # NoResult /\ sync' = [sync EXCEPT ![a].held[k] = NoResult]
      /\ UNCHANGED <<syncing, envVars, adapter, discovered, kinds, streamVars>>
      /\ records' = records \/ records' = [records EXCEPT ![k] = Replaced(k, r)]
  BY Zenon DEF Store, InFlight, Replace, Dropped, cacheVars, dataVars
<1>2. /\ sync \in [Syncers -> Syncs] /\ sync[a] \in Syncs /\ records \in [Kinds -> [Scopes -> Nat]]
  BY Zenon DEF Inv, Shape
<1>3. r \in Answers /\ AnswerFits(k, r)
  BY <1>1, <1>2, Zenon DEF Inv, Explained, Syncs
<1> HIDE DEF r
<1>4. \A s \in Scopes : /\ Replaced(k, r)[s] = IF r.rows[s] # 0 THEN r.rows[s]
                                              ELSE IF s \in r.unreachable \union r.truncated THEN records[k][s] ELSE 0
                        /\ Replaced(k, r)[s] \in Nat
  BY <1>2, <1>3, Zenon DEF Replaced, Preserve, Answers
<1>5. Replaced(k, r) \in [Scopes -> Nat]
  BY <1>4, Zenon DEF Replaced
<1>6. records' \in [Kinds -> [Scopes -> Nat]]
  BY <1>1, <1>2, <1>5, Zenon
<1>7. \A j \in Kinds, s \in Scopes : records'[j][s] = records[j][s] \/ (j = k /\ records'[j][s] = Replaced(k, r)[s])
  BY <1>1, <1>2, Zenon
<1>8. \A j \in Kinds, s \in Scopes : records'[j][s] # 0 => Met(s)
  BY <1>3, <1>4, <1>7 DEF Inv, Explained, AnswerFits
<1>9. \A j \in Kinds, s \in Scopes : records[j][s] # 0 /\ records'[j][s] = 0 => world[j][s] > 1 \/ s \in dropped
  <2> USE Zenon
  <2> SUFFICES ASSUME NEW j \in Kinds, NEW s \in Scopes, records[j][s] # 0, records'[j][s] = 0
               PROVE  world[j][s] > 1 \/ s \in dropped
    OBVIOUS
  <2>1. j = k /\ r.rows[s] = 0 /\ s \notin r.unreachable \union r.truncated
    BY <1>4, <1>7
  <2>2. Met(s) /\ (world[k][s] > 1 \/ adapter[s] = "none")
    BY <1>3, <2>1 DEF Inv, Explained, AnswerFits
  <2> QED BY <2>1, <2>2 DEF Met
<1>10. sync' \in [Syncers -> Syncs] /\ \A b \in Syncers : sync'[b].stage = sync[b].stage
  BY <1>1, <1>2, Zenon DEF Syncs
<1>11. \A b \in Syncers, j \in Kinds : sync'[b].held[j] \in {NoResult, sync[b].held[j]}
  BY <1>1, <1>2, Zenon DEF Syncs
<1>12. Shape'
  BY <1>1, <1>6, <1>10, Zenon DEF Inv, Shape, envVars, streamVars
<1>13. Exclusive'
  BY <1>1, <1>10, <1>11 DEF Inv, Exclusive
<1>14. Explained'
  BY <1>1, <1>8, <1>11 DEF Inv, Explained, AnswerFits, EventFits, Met, envVars, streamVars
<1> QED BY <1>9, <1>12, <1>13, <1>14, Zenon DEF Inv

\* The clusters and the kubeconfig move.
LEMMA WorldKeeps ==
  ASSUME Inv, UNCHANGED <<cacheVars, hydratorVars>>,
         \/ \E k \in Kinds, s \in Scopes : Write(k, s)
         \/ \E s \in Scopes : Outage(s) \/ EditConfig(s)
  PROVE  Inv'
<1>1. UNCHANGED <<records, syncing, adapter, discovered, kinds, sync, stream, queue>>
  BY Zenon DEF cacheVars, dataVars, hydratorVars, streamVars
<1>2. /\ config' \in SUBSET Scopes /\ dropped' \in SUBSET Scopes /\ dropped \subseteq dropped'
      /\ config \union dropped \subseteq config' \union dropped'
  BY Zenon DEF Inv, Shape, Write, Outage, EditConfig
<1>3. /\ world' \in [Kinds -> [Scopes -> Nat \ {0}]]
      /\ \A k \in Kinds, s \in Scopes : world[k][s] > 1 => world'[k][s] > 1
  <2>1. CASE world' = world
    BY <2>1, Zenon DEF Inv, Shape
  <2>2. CASE \E k \in Kinds, s \in Scopes : Write(k, s)
    <3>1. PICK k \in Kinds, s \in Scopes : world' = [world EXCEPT ![k][s] = @ + 1]
      BY <2>2, Zenon DEF Write
    <3> QED BY <3>1 DEF Inv, Shape
  <2> QED BY <2>1, <2>2, Zenon DEF Outage, EditConfig
<1>4. \A s \in Scopes : Met(s) => Met(s)'
  BY <1>1, <1>2, Zenon DEF Met
<1>5. Shape'
  BY <1>1, <1>2, <1>3, Zenon DEF Inv, Shape
<1>6. Exclusive'
  BY <1>1, Zenon DEF Inv, Exclusive
<1>7. \A k \in Kinds : \A r : AnswerFits(k, r) => AnswerFits(k, r)'
  BY <1>1, <1>3, <1>4, Zenon DEF AnswerFits
<1>8. \A i \in 1 .. Len(queue) : EventFits(queue[i])'
  BY <1>1, <1>3, <1>4, EventsQueued, Zenon DEF Inv, Explained, EventFits, Events
<1>9. Explained'
  BY <1>1, <1>2, <1>4, <1>7, <1>8, Zenon DEF Inv, Explained
<1> QED BY <1>5, <1>6, <1>9, Zenon DEF Inv

\* ApplyWatchEvent: a row goes only with a delete of its object.
LEMMA ApplyKeeps ==
  ASSUME Inv, ApplyEvent
  PROVE  /\ Inv'
         /\ \A j \in Kinds, s \in Scopes : records[j][s] # 0 /\ records'[j][s] = 0 => world[j][s] > 1
<1> DEFINE e == Head(queue)
<1>1. /\ queue # <<>> /\ queue' = Tail(queue)
      /\ UNCHANGED <<syncing, envVars, adapter, discovered, kinds, sync, stream>>
      /\ records' = records \/ (e.type # "error" /\ records' = [records EXCEPT ![e.kind][e.scope] = e.object])
  BY Zenon DEF ApplyEvent, ApplyWatchEvent, Dropped, cacheVars, dataVars
<1>2. queue \in Seq(Events) /\ records \in [Kinds -> [Scopes -> Nat]]
  BY Zenon DEF Inv, Shape
<1>3. /\ e = queue[1] /\ 1 \in 1 .. Len(queue) /\ queue' \in Seq(Events) /\ Len(queue') = Len(queue) - 1
      /\ \A i \in 1 .. Len(queue') : queue'[i] = queue[i + 1] /\ i + 1 \in 1 .. Len(queue)
  BY <1>1, <1>2
<1>4. e \in Events /\ EventFits(e)
  BY <1>3, EventsQueued, Zenon DEF Inv, Explained
<1> HIDE DEF e
<1>5. e.kind \in Kinds /\ e.scope \in Scopes /\ e.object \in Nat
  BY <1>4, Zenon DEF Events
<1>6. /\ records' \in [Kinds -> [Scopes -> Nat]]
      /\ \A j \in Kinds, s \in Scopes : \/ records'[j][s] = records[j][s]
                                        \/ /\ j = e.kind /\ s = e.scope /\ e.type # "error"
                                           /\ records'[j][s] = e.object
  <2> USE Zenon
  <2>1. CASE records' = records
    BY <1>2, <2>1
  <2>2. CASE e.type # "error" /\ records' = [records EXCEPT ![e.kind][e.scope] = e.object]
    <3>1. records' \in [Kinds -> [Scopes -> Nat]]
      BY <1>2, <1>5, <2>2
    <3>2. \A j \in Kinds : j # e.kind => records'[j] = records[j]
      BY <1>2, <2>2
    <3>3. records'[e.kind] = [records[e.kind] EXCEPT ![e.scope] = e.object]
      BY <1>2, <1>5, <2>2
    <3>4. records[e.kind] \in [Scopes -> Nat]
      BY <1>2, <1>5
    <3>5. \A s \in Scopes : records'[e.kind][s] = IF s = e.scope THEN e.object ELSE records[e.kind][s]
      BY <3>3, <3>4
    <3> QED BY <2>2, <3>1, <3>2, <3>5
  <2> QED BY <1>1, <2>1, <2>2
<1>7. /\ \A j \in Kinds, s \in Scopes : records'[j][s] # 0 => Met(s)
      /\ \A j \in Kinds, s \in Scopes : records[j][s] # 0 /\ records'[j][s] = 0 => world[j][s] > 1
  BY <1>4, <1>6, Zenon DEF Inv, Explained, EventFits
<1>8. Shape' /\ Exclusive'
  BY <1>1, <1>3, <1>6, Zenon DEF Inv, Shape, Exclusive, envVars
<1>9. \A i \in 1 .. Len(queue') : EventFits(queue'[i])
  BY <1>3, Zenon DEF Inv, Explained
<1>10. Explained'
  BY <1>1, <1>7, <1>9 DEF Inv, Explained, AnswerFits, EventFits, Met, envVars
<1> QED BY <1>7, <1>8, <1>10, Zenon DEF Inv

\* The goroutine of a scope that was met sends an event.
LEMMA EmitKeeps ==
  ASSUME Inv, NEW k \in Kinds, NEW s \in Scopes, NEW type \in {"error", "snapshot", "upsert", "delete"}, NEW n \in Nat,
         NEW next \in {"off", "list", "live"}, Emit(k, s, type, n, next), stream[k][s].at # "off",
         type # "error" => n > 0 /\ n <= world[k][s]
  PROVE  Inv'
<1> DEFINE e == [type |-> type, kind |-> k, scope |-> s, object |-> Row(n)]
<1>1. /\ queue' = Append(queue, e) /\ stream' = [stream EXCEPT ![k][s] = [at |-> next, sent |-> n]]
      /\ UNCHANGED <<records, syncing, envVars, adapter, discovered, kinds, sync>>
  BY Zenon DEF Emit, cacheVars, dataVars
<1>2. Row(n) \in Nat /\ (Row(n) = 0 /\ n > 0 => n > 1)
  BY DEF Row
<1>3. world[k][s] \in Nat
  BY Zenon DEF Inv, Shape
<1>4. e \in Events /\ e.scope = s /\ e.kind = k /\ e.type = type /\ e.object = Row(n)
  BY <1>2, Zenon DEF Events
<1> HIDE DEF e
<1>5. EventFits(e)
  <2>1. Met(s)
    BY Zenon DEF Inv, Explained
  <2> QED BY <1>2, <1>3, <1>4, <2>1 DEF EventFits
<1>6. queue \in Seq(Events)
  BY Zenon DEF Inv, Shape
<1>7. /\ queue' \in Seq(Events) /\ Len(queue') = Len(queue) + 1
      /\ \A i \in 1 .. Len(queue') : queue'[i] = IF i = Len(queue) + 1 THEN e ELSE queue[i]
  BY <1>1, <1>4, <1>6
<1>8. \A i \in 1 .. Len(queue') : EventFits(queue'[i])
  BY <1>5, <1>6, <1>7 DEF Inv, Explained
<1>9. /\ stream' \in [Kinds -> [Scopes -> [at : {"off", "report", "list", "live"}, sent : Nat]]]
      /\ \A j \in Kinds, x \in Scopes : stream'[j][x].at # "off" => stream[j][x].at # "off"
  BY <1>1, Zenon DEF Inv, Shape
<1>10. Shape' /\ Exclusive'
  BY <1>1, <1>7, <1>9, Zenon DEF Inv, Shape, Exclusive, envVars
<1>11. Explained'
  BY <1>1, <1>8, <1>9, Zenon DEF Inv, Explained, AnswerFits, EventFits, Met, envVars
<1> QED BY <1>10, <1>11, Zenon DEF Inv

\* The goroutines of the streams.
LEMMA StreamKeeps ==
  ASSUME Inv, NEW k \in Kinds, NEW s \in Scopes, StreamStep(k, s) \/ ServerCloses(k, s)
  PROVE  Inv'
<1>1. world[k][s] \in Nat \ {0} /\ stream[k][s] \in [at : {"off", "report", "list", "live"}, sent : Nat]
  BY DEF Inv, Shape
<1>2. CASE ReportDown(k, s)
  BY <1>2, EmitKeeps, Zenon DEF ReportDown
<1>3. CASE List(k, s)
  BY <1>1, <1>3, EmitKeeps DEF List
<1>4. CASE Deliver(k, s)
  <2> DEFINE n == stream[k][s].sent + 1
             t == IF n % 2 = 1 THEN "upsert" ELSE "delete"
  <2>1. /\ n \in Nat /\ n > 0 /\ n <= world[k][s] /\ stream[k][s].at # "off" /\ Emit(k, s, t, n, "live")
        /\ t \in {"error", "snapshot", "upsert", "delete"}
    BY <1>1, <1>4 DEF Deliver
  <2> HIDE DEF n, t
  <2> QED BY <2>1, EmitKeeps, Zenon
<1>5. CASE BreakStream(k, s)
  BY <1>5, EmitKeeps, Zenon DEF BreakStream
<1>6. CASE ServerCloses(k, s)
  <2> USE Zenon
  <2>1. /\ stream' = [stream EXCEPT ![k][s] = [at |-> "list", sent |-> 0]] /\ stream[k][s].at # "off"
        /\ UNCHANGED <<records, syncing, envVars, adapter, discovered, kinds, sync, queue>>
    BY <1>6 DEF ServerCloses, cacheVars, dataVars
  <2>2. /\ stream' \in [Kinds -> [Scopes -> [at : {"off", "report", "list", "live"}, sent : Nat]]]
        /\ \A j \in Kinds, x \in Scopes : stream'[j][x].at # "off" => stream[j][x].at # "off"
    BY <2>1 DEF Inv, Shape
  <2>3. Shape' /\ Exclusive'
    BY <2>1, <2>2 DEF Inv, Shape, Exclusive, envVars
  <2>4. Explained'
    BY <2>1, <2>2 DEF Inv, Explained, AnswerFits, EventFits, Met, envVars
  <2> QED BY <2>3, <2>4 DEF Inv
<1> QED BY <1>2, <1>3, <1>4, <1>5, <1>6, Zenon DEF StreamStep

\* Watch opens a stream for the scopes of the connector, which discovers here only if it never did.
LEMMA OpenKeeps ==
  ASSUME Inv, OpenWatch
  PROVE  Inv'
<1> DEFINE known == IF discovered THEN adapter ELSE Probed
<1>1. /\ adapter' = known /\ discovered' = TRUE /\ stream' = Streams(kinds, known) /\ queue' = <<>>
      /\ UNCHANGED <<records, syncing, envVars, kinds, sync>>
  BY Zenon DEF OpenWatch, cacheVars, dataVars
<1>2. /\ known \in [Scopes -> Conditions]
      /\ \A s \in Scopes : known[s] # "none" => s \in config \union dropped
      /\ \A s \in Scopes : Met(s) => known[s] # "none" \/ s \in dropped
      /\ discovered => known = adapter
  BY ProbedFits, Zenon DEF Inv, Shape, Explained, Met
<1> HIDE DEF known
<1>3. /\ stream' \in [Kinds -> [Scopes -> [at : {"off", "report", "list", "live"}, sent : Nat]]]
      /\ \A k \in Kinds, s \in Scopes : stream'[k][s].at # "off" => known[s] # "none"
  BY <1>1, Zenon DEF Streams, Off
<1>4. \A s \in Scopes : Met(s) => Met(s)'
  BY <1>1, <1>2, Zenon DEF Met, envVars
<1>5. Shape'
  BY <1>1, <1>2, <1>3 DEF Inv, Shape, envVars
<1>6. Exclusive'
  BY <1>1, Zenon DEF Inv, Exclusive
<1>7. ASSUME NEW a \in Syncers, NEW k \in Kinds, sync[a].held[k] # NoResult
      PROVE  AnswerFits(k, sync[a].held[k])'
  <2> USE Zenon
  <2>1. discovered /\ AnswerFits(k, sync[a].held[k])
    BY <1>7 DEF Inv, Exclusive, Explained
  <2> QED BY <1>1, <1>2, <2>1 DEF AnswerFits, Met, envVars
<1>8. Explained'
  BY <1>1, <1>2, <1>3, <1>4, <1>7 DEF Inv, Explained, Met, envVars
<1> QED BY <1>5, <1>6, <1>8, Zenon DEF Inv

\* Steps that leave rows, connector and synchronisations alone, and at most cancel the streams.
LEMMA FrameKeeps ==
  ASSUME Inv, UNCHANGED <<records, syncing, envVars, adapter, discovered, kinds, sync>>,
         UNCHANGED streamVars \/ CancelStreams
  PROVE  Inv'
<1>1. /\ NoStreams \in [Kinds -> [Scopes -> [at : {"off", "report", "list", "live"}, sent : Nat]]]
      /\ \A k \in Kinds, s \in Scopes : NoStreams[k][s].at = "off"
  BY Zenon DEF NoStreams, Off
<1>2. <<>> \in Seq(Events)
  OBVIOUS
<1>3. Shape' /\ Exclusive'
  BY <1>1, <1>2, Zenon DEF Inv, Shape, Exclusive, envVars, streamVars, CancelStreams
<1>4. Explained'
  BY <1>1 DEF Inv, Explained, AnswerFits, EventFits, Met, envVars, streamVars, CancelStreams
<1> QED BY <1>3, <1>4, Zenon DEF Inv

\* The stages of a synchronisation that leave its answers alone.
LEMMA StageKeeps ==
  ASSUME Inv, NEW a \in Syncers,
         SyncRefused(a) \/ SyncBegins(a) \/ DiscoverFails(a) \/ Publish(a) \/ SyncEnds(a)
  PROVE  Inv'
<1> USE Zenon
<1>1. sync \in [Syncers -> Syncs] /\ sync[a] \in Syncs
  BY DEF Inv, Shape
<1>2. sync[a].stage # "querying" => \A k \in Kinds : sync[a].held[k] = NoResult
  BY DEF Inv, Exclusive
<1>3. CASE SyncRefused(a)
  <2>1. /\ sync[a].stage = "called" /\ sync' = [sync EXCEPT ![a].stage = "returned"]
        /\ UNCHANGED <<records, syncing, envVars, adapter, discovered, kinds, streamVars>>
    BY <1>3 DEF SyncRefused, To, cacheVars, dataVars
  <2>2. /\ sync' \in [Syncers -> Syncs] /\ sync'[a].stage = "returned" /\ sync'[a].held = sync[a].held
        /\ \A b \in Syncers : b # a => sync'[b] = sync[b]
    BY <1>1, <2>1 DEF Syncs, Stages, Holding
  <2>3. "returned" \in Stages \ Holding
    BY DEF Stages, Holding
  <2> QED BY <1>2, <2>1, <2>2, <2>3, MoveKeeps
<1>4. CASE SyncBegins(a)
  <2>1. /\ sync[a].stage = "called" /\ sync' = [sync EXCEPT ![a].stage = "discovering"] /\ ~syncing /\ syncing' = TRUE
        /\ UNCHANGED <<records, envVars, adapter, discovered, kinds, streamVars>>
    BY <1>4 DEF SyncBegins, BeginSync, CanBeginSync, To, dataVars
  <2>2. /\ sync' \in [Syncers -> Syncs] /\ sync'[a].stage = "discovering" /\ sync'[a].held = sync[a].held
        /\ \A b \in Syncers : b # a => sync'[b] = sync[b]
    BY <1>1, <2>1 DEF Syncs, Stages, Holding
  <2>3. "discovering" \in Stages \intersect Holding
    BY DEF Stages, Holding
  <2> QED BY <1>2, <2>1, <2>2, <2>3, MoveKeeps
<1>5. CASE DiscoverFails(a)
  <2>1. /\ sync[a].stage = "discovering"
        /\ sync' = [sync EXCEPT ![a].stage = "ending", ![a].failed = TRUE]
        /\ UNCHANGED <<records, syncing, envVars, adapter, discovered, kinds, streamVars>>
    BY <1>5 DEF DiscoverFails, cacheVars, dataVars
  <2>2. /\ sync' \in [Syncers -> Syncs] /\ sync'[a].stage = "ending" /\ sync'[a].held = sync[a].held
        /\ \A b \in Syncers : b # a => sync'[b] = sync[b]
    BY <1>1, <2>1 DEF Syncs, Stages, Holding
  <2>3. "ending" \in Stages /\ sync[a].stage \in Holding
    BY <2>1 DEF Stages, Holding
  <2> QED BY <1>2, <2>1, <2>2, <2>3, MoveKeeps
<1>6. CASE Publish(a)
  <2>1. /\ sync[a].stage = "publishing"
        /\ sync' = [sync EXCEPT ![a].stage = "querying", ![a].todo = sync[a].kinds]
        /\ UNCHANGED <<records, syncing, envVars, adapter, discovered, kinds, streamVars>>
    BY <1>6 DEF Publish, SetDiscovery, Dropped, cacheVars, dataVars
  <2>2. /\ sync' \in [Syncers -> Syncs] /\ sync'[a].stage = "querying" /\ sync'[a].held = sync[a].held
        /\ \A b \in Syncers : b # a => sync'[b] = sync[b]
    BY <1>1, <2>1 DEF Syncs, Stages, Holding
  <2>3. "querying" \in Stages /\ sync[a].stage \in Holding
    BY <2>1 DEF Stages, Holding
  <2> QED BY <2>1, <2>2, <2>3, MoveKeeps
<1>7. CASE SyncEnds(a)
  <2>1. /\ WorkersDone(a) \/ sync[a].stage = "ending"
        /\ sync' = [sync EXCEPT ![a].stage = "returned"]
        /\ UNCHANGED <<records, envVars, adapter, discovered, kinds, streamVars>>
    BY <1>7 DEF SyncEnds, EndSync, To, dataVars
  <2>2. /\ sync' \in [Syncers -> Syncs] /\ sync'[a].stage = "returned" /\ sync'[a].held = sync[a].held
        /\ \A b \in Syncers : b # a => sync'[b] = sync[b]
    BY <1>1, <2>1 DEF Syncs, Stages, Holding
  <2>3. /\ "returned" \in Stages \ Holding /\ sync[a].stage \in Holding
        /\ \A k \in Kinds : sync[a].held[k] = NoResult
    BY <1>2, <2>1 DEF Stages, Holding, WorkersDone, InFlight
  <2> QED BY <2>1, <2>2, <2>3, MoveKeeps
<1> QED BY <1>3, <1>4, <1>5, <1>6, <1>7

\* Calls and returns of synchronisations, by the user and by Run.
LEMMA CallStepKeeps ==
  ASSUME Inv, NEW a \in Syncers,
         \/ Resume(a) \/ Refresh(a, kinds) \/ (\E k \in Kinds : Refresh(a, {k})) \/ Return(a)
         \/ a = Runner /\ (Resync \/ RetryTimer)
  PROVE  Inv' /\ records' = records
<1> USE Zenon
<1>1. kinds \in SUBSET Kinds /\ sync \in [Syncers -> Syncs] /\ sync[a].kinds \in SUBSET Kinds
  BY DEF Inv, Shape, Syncs
<1>2. \A ks \in SUBSET Kinds : /\ Idle \in Syncs /\ Idle.stage = "idle" /\ Idle.held = [k \in Kinds |-> NoResult]
                               /\ Called(ks) \in Syncs /\ Called(ks).stage = "called"
                               /\ Called(ks).held = [k \in Kinds |-> NoResult]
  BY IdleFits
<1>3. \A k \in Kinds : {k} \in SUBSET Kinds
  OBVIOUS
<1>4. CASE Resume(a) \/ Refresh(a, kinds) \/ (\E k \in Kinds : Refresh(a, {k})) \/ (a = Runner /\ (Resync \/ RetryTimer))
  <2>1. /\ \E ks \in SUBSET Kinds : sync' = [sync EXCEPT ![a] = Called(ks)]
        /\ UNCHANGED <<records, syncing, envVars, adapter, discovered, kinds>>
        /\ UNCHANGED streamVars \/ CancelStreams
    BY <1>1, <1>3, <1>4 DEF Resume, SetPaused, Refresh, Resync, RetryTimer, CallSyncOnce, cacheVars, dataVars
  <2>2. PICK ks \in SUBSET Kinds : sync' = [sync EXCEPT ![a] = Called(ks)]
    BY <2>1
  <2> QED BY <1>1, <1>2, <2>1, <2>2, CallKeeps
<1>5. CASE Return(a)
  <2>1. /\ sync' = [sync EXCEPT ![a] = Idle] /\ kinds' = kinds \union sync[a].kinds
        /\ UNCHANGED <<records, syncing, envVars, adapter, discovered, streamVars>>
    BY <1>5 DEF Return, RegisterKinds, cacheVars, dataVars
  <2> QED BY <1>1, <1>2, <2>1, CallKeeps
<1> QED BY <1>4, <1>5

\* Every step keeps the invariant and takes away only rows that are explained.
LEMMA InvStep ==
  ASSUME Inv, [Next]_vars
  PROVE  /\ Inv'
         /\ \A k \in Kinds, s \in Scopes : records[k][s] # 0 /\ records'[k][s] = 0 => world[k][s] > 1 \/ s \in dropped
<1> USE Zenon
<1> DEFINE Goal == /\ Inv'
                   /\ \A k \in Kinds, s \in Scopes :
                        records[k][s] # 0 /\ records'[k][s] = 0 => world[k][s] > 1 \/ s \in dropped
<1> SUFFICES Goal
  OBVIOUS
<1>0. Inv' /\ records' = records => Goal
  OBVIOUS
<1>1. {} \in SUBSET Answered /\ Runner \in Syncers /\ Users \subseteq Syncers
  BY DEF Syncers
<1>2. CASE Environment
  <2>1. CASE (\E k \in Kinds, s \in Scopes : Write(k, s)) \/ (\E s \in Scopes : Outage(s) \/ EditConfig(s))
    <3>1. UNCHANGED <<cacheVars, hydratorVars>>
      BY <2>1 DEF Write, Outage, EditConfig
    <3> QED BY <1>0, <2>1, <3>1, WorldKeeps DEF cacheVars, dataVars
  <2>2. CASE Pause \/ OpenFails
    BY <1>0, <2>2, FrameKeeps DEF Pause, OpenFails, SetPaused, cacheVars, dataVars, hydratorVars
  <2>3. ASSUME NEW a \in Users, Resume(a) \/ Refresh(a, kinds) \/ (\E k \in Kinds : Refresh(a, {k})) PROVE Goal
    BY <1>0, <1>1, <2>3, CallStepKeeps
  <2>4. ASSUME NEW a \in Syncers, DiscoverFails(a) PROVE Goal
    BY <1>0, <2>4, StageKeeps DEF DiscoverFails, cacheVars, dataVars
  <2>5. ASSUME NEW a \in Syncers, NEW k \in Kinds, NEW cut \in SUBSET Answered, Query(a, k, cut) PROVE Goal
    BY <1>0, <2>5, QueryKeeps DEF Query, cacheVars, dataVars
  <2> QED BY <1>2, <2>1, <2>2, <2>3, <2>4, <2>5 DEF Environment
<1>3. ASSUME NEW a \in Syncers, SyncStep(a) PROVE Goal
  <2>1. CASE SyncRefused(a) \/ SyncBegins(a) \/ Publish(a) \/ SyncEnds(a)
    <3>1. records' = records
      BY <2>1 DEF SyncRefused, SyncBegins, BeginSync, Publish, SetDiscovery, Dropped, SyncEnds, EndSync, cacheVars,
         dataVars
    <3> QED BY <1>0, <2>1, <3>1, StageKeeps
  <2>2. CASE Discover(a)
    BY <1>0, <2>2, DiscoverKeeps DEF Discover, cacheVars, dataVars
  <2>3. ASSUME NEW k \in Kinds, Query(a, k, {}) PROVE Goal
    BY <1>0, <1>1, <2>3, QueryKeeps DEF Query, cacheVars, dataVars
  <2>4. ASSUME NEW k \in Kinds, Store(a, k) PROVE Goal
    BY <2>4, StoreKeeps
  <2>5. CASE Return(a)
    BY <1>0, <2>5, CallStepKeeps
  <2> QED BY <1>3, <2>1, <2>2, <2>3, <2>4, <2>5 DEF SyncStep
<1>4. CASE RunStep \/ Resync
  <2>1. CASE OpenWatch
    BY <1>0, <2>1, OpenKeeps DEF OpenWatch, cacheVars, dataVars
  <2>2. CASE ApplyEvent
    BY <2>2, ApplyKeeps
  <2>3. CASE ApplyFails \/ KindsChanged \/ StreamsClosed
    BY <1>0, <2>3, FrameKeeps DEF ApplyFails, KindsChanged, StreamsClosed, cacheVars, dataVars
  <2>4. CASE Resync \/ RetryTimer
    BY <1>0, <1>1, <2>4, CallStepKeeps
  <2> QED BY <1>4, <2>1, <2>2, <2>3, <2>4 DEF RunStep
<1>5. ASSUME NEW k \in Kinds, NEW s \in Scopes, StreamStep(k, s) \/ ServerCloses(k, s) PROVE Goal
  <2>1. records' = records
    BY <1>5 DEF StreamStep, ReportDown, List, Deliver, BreakStream, Emit, ServerCloses, cacheVars, dataVars
  <2> QED BY <1>0, <1>5, <2>1, StreamKeeps
<1>6. CASE (\E w \in Waiters : Wait(w)) \/ Quiet \/ UNCHANGED vars
  <2>1. UNCHANGED <<records, syncing, envVars, adapter, discovered, kinds, sync, streamVars>>
    BY <1>6 DEF Wait, WaitForChange, Quiet, vars, cacheVars, dataVars, hydratorVars
  <2> QED BY <1>0, <2>1, FrameKeeps
<1> QED BY <1>2, <1>3, <1>4, <1>5, <1>6 DEF Next

\* A session starts with an empty cache and nothing in flight.
LEMMA InvInit == Init => Inv
<1> SUFFICES ASSUME Init PROVE Inv
  BY Zenon
<1>1. /\ sync = [a \in Syncers |-> IF a = Runner THEN Called(InitialKinds) ELSE Idle]
      /\ InitialKinds \in SUBSET Kinds
  BY HydratorAssumption, Zenon DEF Init
<1>2. /\ sync \in [Syncers -> Syncs]
      /\ \A a \in Syncers : sync[a].stage \in {"idle", "called"} /\ sync[a].held = [k \in Kinds |-> NoResult]
  BY <1>1, IdleFits, Zenon
<1>a. NoStreams \in [Kinds -> [Scopes -> [at : {"off", "report", "list", "live"}, sent : Nat]]]
  BY Zenon DEF NoStreams, Off
<1>b. <<>> \in Seq(Events)
  OBVIOUS
<1>c. records \in [Kinds -> [Scopes -> Nat]] /\ world \in [Kinds -> [Scopes -> Nat \ {0}]]
  BY DEF Init, CacheInit
<1>d. adapter \in [Scopes -> Conditions] /\ queue \in Seq(Events) /\ discovered \in BOOLEAN
  BY <1>b, Zenon DEF Init, Conditions
<1>3. Shape
  BY <1>1, <1>2, <1>a, <1>c, <1>d, Zenon DEF Init, Shape
<1>4. Exclusive
  BY <1>2, Zenon DEF Exclusive, Holding
<1>5. Explained
  BY <1>2 DEF Init, CacheInit, Explained, NoStreams, Off
<1> QED BY <1>3, <1>4, <1>5, Zenon DEF Inv

\* The inductive invariant: one synchronisation at a time, and every row, answer, stream and event is of a
\* scope the connector knows or whose context was dropped (syncKinds, Query, Watch).
THEOREM InvHolds == Spec => []Inv
BY InvInit, InvStep, PTL DEF Spec

\* For any clusters, kinds, refreshes and buffer sizes: outages, truncated answers, answers older than an
\* applied event, pauses and late events never make a row disappear whose object was not deleted in its
\* cluster and whose context was not removed from the kubeconfig (Replace, ApplyWatchEvent).
THEOREM RowsAreKept == Spec => RowsOutliveOutages
<1>1. Inv /\ [Next]_vars => [\A k \in Kinds, s \in Scopes :
                               records[k][s] # 0 /\ records'[k][s] = 0 => world[k][s] > 1 \/ s \in dropped]_vars
  BY InvStep, Zenon
<1> QED BY <1>1, InvHolds, PTL DEF Spec, RowsOutliveOutages
=============================================================================
