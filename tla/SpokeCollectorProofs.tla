------------------------ MODULE SpokeCollectorProofs ------------------------
(***************************************************************************)
(* What a refresh of a workspace leaves behind is honest, for any number   *)
(* of spokes and workers and wherever it is cancelled, fails or panics.    *)
(*                                                                         *)
(* The requested spokes are at every moment the ones still to admit, the   *)
(* ones in the active map, the one being persisted and the settled ones;   *)
(* the coverage and the store agree on the settled ones as long as no      *)
(* error has ended the loop, and everything settled was observed once.     *)
(***************************************************************************)
EXTENDS SpokeCollector, TLAPS, FiniteSetTheorems

Panics == {"panicked", "store-panicked"}
Errors == {"none", "list", "canceled", "store"} \union Panics
Rows == [facts : {"none", "old", "new"}, error : {"none"} \union Failures]
Coverages == [reachable : Nat, unreachable : SUBSET Spokes, stale : SUBSET Spokes]

\* The spokes whose attempt is over.
Settled == requested \ (todo \union active \union {current.spoke})

\* The shape of the state.
Shape ==
  /\ registered \in SUBSET Spokes /\ requested \in SUBSET Spokes
  /\ todo \in SUBSET requested /\ active \in SUBSET requested
  /\ store \in [Spokes -> Rows]
  /\ pc \in {"listing", "loop", "persisting", "draining", "returned"}
  /\ inFlight = Cardinality(active)
  /\ worker \in [Workers -> {"idle", "collecting", "sending", "exited"}]
  /\ job \in [Workers -> Spokes \union {None}]
  /\ result \in [Workers -> Results \union {"none"}]
  /\ current \in [spoke : requested \union {None}, result : {"none", "snapshot"} \union Failures]
  /\ coverage \in Coverages
  /\ err \in Errors
  /\ observed \in [Spokes -> Nat]

\* Who has which spoke.
Pool ==
  /\ todo \intersect active = {}
  /\ current.spoke \notin todo \union active
  /\ pc = "persisting" => current.spoke \in requested /\ current.result # "none"
  /\ pc # "persisting" => current = NoCurrent
  /\ pc = "listing" => requested = {}
  /\ \A w \in Busy : job[w] \in active
  /\ \A w, x \in Busy : job[w] = job[x] => w = x
  /\ \A w \in Workers : worker[w] = "sending" => result[w] \in Results
  /\ pc \in {"listing", "returned"} => Busy = {} /\ \A w \in Workers : worker[w] = "exited"

\* Why the loop ended.
Ended ==
  /\ pc \in {"listing", "loop", "persisting"} => err = "none"
  /\ pc \in {"draining", "returned"} /\ err = "none" => todo = {} /\ active = {}
  /\ pc \in {"draining", "returned"} /\ err \notin {"none", "list"} => observeCanceled
  /\ err = "list" => requested = {}

\* Attempts are observed once.
Observations ==
  \A s \in Spokes :
    /\ observed[s] <= 1
    /\ s \notin requested \/ s \in todo => observed[s] = 0
    /\ pc # "returned" /\ (s \in active \/ s = current.spoke) => observed[s] = 0
    /\ err \notin Panics /\ s \in Settled => observed[s] = 1
    /\ err \notin Panics /\ pc = "returned" /\ s \in active => observed[s] = 1

\* The coverage is about the settled spokes, and the store says the same.
Agreement ==
  err = "none" =>
    /\ coverage.unreachable \subseteq Settled
    /\ \A s \in Spokes \ Settled : store[s].facts # "new" /\ store[s].error = "none"
    /\ \A s \in Settled : IF s \in coverage.unreachable THEN store[s].facts # "new" /\ store[s].error # "none"
                         ELSE store[s].facts = "new" /\ store[s].error = "none"
    /\ coverage.reachable = Cardinality(Settled \ coverage.unreachable)
    /\ coverage.stale = {s \in coverage.unreachable : store[s].facts = "old"}

Inv == Shape /\ Pool /\ Ended /\ Observations /\ Agreement

-----------------------------------------------------------------------------
(***************************************************************************)
(* The set of spokes                                                       *)
(***************************************************************************)

\* Spokes are positive numbers, finitely many.
LEMMA FiniteSpokes ==
  /\ None \notin Spokes
  /\ \A S \in SUBSET Spokes : IsFiniteSet(S) /\ Cardinality(S) \in Nat
<1>1. IsFiniteSet(Spokes)
  BY PoolAssumption, FS_Interval DEF Spokes
<1>2. \A S \in SUBSET Spokes : IsFiniteSet(S)
  BY <1>1, FS_Subset, Zenon
<1> QED BY <1>2, PoolAssumption, FS_CardinalityType DEF Spokes, None

\* Adding and removing a spoke counts.
LEMMA CountSpokes ==
  ASSUME NEW S \in SUBSET Spokes, NEW s \in Spokes
  PROVE  /\ s \notin S => Cardinality(S \union {s}) = Cardinality(S) + 1
         /\ s \in S => Cardinality(S \ {s}) = Cardinality(S) - 1
         /\ Cardinality(S) = 0 => S = {}
BY FiniteSpokes, FS_AddElement, FS_RemoveElement, FS_EmptySet, Zenon

-----------------------------------------------------------------------------
(***************************************************************************)
(* Steps of the workers and of the environment                             *)
(***************************************************************************)

\* A worker that exits had nothing the loop still counts on.
LEMMA WorkerKeeps ==
  ASSUME Inv, NEW w \in Workers, WorkerStep(w) PROVE Inv'
<1>1. /\ UNCHANGED <<storeVars, lifecycleDone, loopVars, shutVars, observed>>
      /\ worker[w] # "exited"
  BY Zenon DEF WorkerStep, WorkerStops, CollectAbandoned, SendAbandoned, Collected, Exit
<1>2. Ended' /\ Observations' /\ Agreement'
  BY <1>1, Zenon DEF Inv, Ended, Observations, Agreement, Settled, storeVars, loopVars, shutVars
<1>3. pc \notin {"listing", "returned"}
  BY <1>1, Zenon DEF Inv, Pool
<1>4. CASE Exit(w)
  <2> USE Zenon
  <2>1. Shape'
    BY <1>1, <1>4 DEF Inv, Shape, Exit, storeVars, loopVars
  <2>2. \A x \in Workers : x # w => worker'[x] = worker[x] /\ job'[x] = job[x] /\ result'[x] = result[x]
    BY <1>4 DEF Inv, Shape, Exit
  <2>3. worker'[w] = "exited"
    BY <1>4 DEF Inv, Shape, Exit
  <2>4. Busy' \subseteq Busy \ {w}
    BY <2>2, <2>3 DEF Busy
  <2>5. Pool'
    BY <1>1, <1>3, <2>2, <2>3, <2>4 DEF Inv, Pool, Busy, loopVars
  <2> QED BY <1>2, <2>1, <2>5 DEF Inv
<1>5. ASSUME NEW r \in Results, Collected(w, r) PROVE Inv'
  <2>1. Shape'
    BY <1>1, <1>5, Zenon DEF Inv, Shape, Collected, storeVars, loopVars
  <2>2. \A x \in Workers : x # w => worker'[x] = worker[x] /\ job'[x] = job[x] /\ result'[x] = result[x]
    BY <1>5, Zenon DEF Inv, Shape, Collected
  <2>3. worker[w] = "collecting" /\ worker'[w] = "sending" /\ job'[w] = job[w] /\ result'[w] = r
    BY <1>5, Zenon DEF Inv, Shape, Collected
  <2>4. Busy' = Busy
    BY <2>2, <2>3, Zenon DEF Busy
  <2>5. Pool'
    BY <1>1, <1>3, <2>2, <2>3, <2>4 DEF Inv, Pool, Busy, loopVars
  <2> QED BY <1>2, <2>1, <2>5, Zenon DEF Inv
<1> QED BY <1>4, <1>5, Zenon DEF WorkerStep, WorkerStops, CollectAbandoned, SendAbandoned

\* The hub stops, or a registration goes: the loop only sees it later.
LEMMA EnvironmentKeeps ==
  ASSUME Inv, StopHub \/ (\E s \in Spokes : Deregister(s)) \/ UNCHANGED vars PROVE Inv'
<1> USE Zenon
<1>1. UNCHANGED <<store, loopVars, poolVars, shutVars, observed>> /\ registered' \subseteq registered
  BY DEF StopHub, Deregister, vars, storeVars, loopVars, poolVars, shutVars
<1>2. Shape'
  BY <1>1 DEF Inv, Shape, loopVars, poolVars
<1>3. Pool' /\ Ended'
  BY <1>1 DEF Inv, Pool, Ended, Busy, loopVars, poolVars, shutVars
<1>4. Observations' /\ Agreement'
  BY <1>1 DEF Inv, Observations, Agreement, Settled, loopVars
<1> QED BY <1>2, <1>3, <1>4 DEF Inv

-----------------------------------------------------------------------------
(***************************************************************************)
(* Steps of the loop                                                       *)
(***************************************************************************)

\* The listing starts the pool, or ends the refresh.
LEMMA ListKeeps ==
  ASSUME Inv, List \/ ListFails PROVE Inv'
<1>1. pc = "listing" /\ requested = {} /\ todo = {} /\ active = {} /\ current = NoCurrent /\ err = "none" /\ Busy = {}
  BY Zenon DEF List, ListFails, Inv, Pool, Ended, Shape
<1>2. Settled = {} /\ coverage.unreachable = {} /\ coverage.reachable = 0 /\ coverage.stale = {}
  <2> USE Zenon
  <2>1. Settled = {}
    BY <1>1 DEF Settled
  <2> QED BY <1>1, <2>1, FS_EmptySet DEF Inv, Agreement
<1>3. \A s \in Spokes : observed[s] = 0 /\ store[s].facts # "new" /\ store[s].error = "none"
  BY <1>1, <1>2, Zenon DEF Inv, Observations, Agreement
<1>4. CASE List
  <2>1. /\ requested' = registered /\ todo' = registered /\ pc' \in {"loop", "returned"}
        /\ pc' = "returned" <=> registered = {}
        /\ UNCHANGED <<registered, store, active, inFlight, job, result, current, coverage, err, observed>>
    BY <1>4, Zenon DEF List, storeVars
  <2>2. worker' \in [Workers -> {"idle", "exited"}] /\ (registered = {} => \A w \in Workers : worker'[w] = "exited")
    BY <1>4, PoolAssumption, FS_EmptySet DEF List, Workers
  <2>3. Shape'
    BY <1>1, <2>1, <2>2, Zenon DEF Inv, Shape
  <2>4. Busy' = {}
    BY <2>2, Zenon DEF Busy
  <2>5. Pool'
    BY <1>1, <2>1, <2>2, <2>4, FiniteSpokes, Zenon DEF Inv, Shape, Pool, NoCurrent
  <2>6. Settled' = {}
    BY <2>1, Zenon DEF Settled
  <2>7. Ended' /\ Observations'
    BY <1>1, <1>3, <2>1, <2>6, FiniteSpokes DEF Ended, Observations, NoCurrent
  <2>8. Agreement'
    BY <1>2, <1>3, <2>1, <2>6, FS_EmptySet, Zenon DEF Agreement
  <2> QED BY <2>3, <2>5, <2>7, <2>8, Zenon DEF Inv
<1>5. CASE ListFails
  <2>1. /\ pc' = "returned" /\ err' = "list"
        /\ UNCHANGED <<registered, store, requested, todo, active, inFlight, worker, job, result, current, coverage,
                       observed>>
    BY <1>5, Zenon DEF ListFails, storeVars, poolVars
  <2>2. Shape'
    BY <2>1, Zenon DEF Inv, Shape, Errors
  <2>3. Pool'
    BY <1>1, <2>1, Zenon DEF Inv, Pool, Busy
  <2>4. Ended' /\ Observations' /\ Agreement'
    BY <1>1, <1>3, <2>1 DEF Ended, Observations, Agreement, Settled
  <2> QED BY <2>2, <2>3, <2>4, Zenon DEF Inv
<1> QED BY <1>4, <1>5, Zenon

\* A spoke is handed to an idle worker.
LEMMA AdmitKeeps ==
  ASSUME Inv, NEW w \in Workers, Admit(w) PROVE Inv'
<1>1. PICK s \in todo : /\ todo' = todo \ {s} /\ active' = active \union {s} /\ inFlight' = inFlight + 1
                        /\ worker' = [worker EXCEPT ![w] = "collecting"] /\ job' = [job EXCEPT ![w] = s]
  BY Zenon DEF Admit
<1>2. /\ pc = "loop" /\ worker[w] = "idle"
      /\ UNCHANGED <<registered, store, pc, requested, current, coverage, err, result, observed, observeCanceled>>
  BY Zenon DEF Admit, storeVars, shutVars
<1>3. s \in Spokes /\ s \in requested /\ s \notin active /\ current.spoke # s /\ active \in SUBSET Spokes
  BY Zenon DEF Inv, Shape, Pool
<1>4. Shape'
  <2> USE Zenon
  <2>1. inFlight' = Cardinality(active')
    BY <1>1, <1>3, CountSpokes DEF Inv, Shape
  <2> QED BY <1>1, <1>2, <1>3, <2>1 DEF Inv, Shape
<1>5. \A x \in Workers : x # w => worker'[x] = worker[x] /\ job'[x] = job[x]
  BY <1>1, Zenon DEF Inv, Shape
<1>6. worker'[w] = "collecting" /\ job'[w] = s
  BY <1>1, Zenon DEF Inv, Shape
<1>7. Busy' = Busy \union {w} /\ w \notin Busy
  BY <1>2, <1>5, <1>6, Zenon DEF Busy
<1>8. Pool'
  BY <1>1, <1>2, <1>3, <1>5, <1>6, <1>7 DEF Inv, Pool, Busy
<1>9. Settled' = Settled
  BY <1>1, <1>2, <1>3, Zenon DEF Settled
<1>10. Ended' /\ Observations' /\ Agreement'
  BY <1>1, <1>2, <1>3, <1>9, Zenon DEF Inv, Ended, Observations, Agreement
<1> QED BY <1>4, <1>8, <1>10, Zenon DEF Inv

\* The loop gives up, or is done: nothing is counted differently.
LEMMA StopKeeps ==
  ASSUME Inv, ParentDone \/ Finish PROVE Inv'
<1> USE Zenon
<1>1. /\ pc = "loop" /\ pc' = "draining" /\ current = NoCurrent /\ err = "none"
      /\ UNCHANGED <<registered, store, requested, todo, active, inFlight, worker, job, result, current, coverage,
                     observed>>
  BY DEF ParentDone, Finish, Shutdown, storeVars, poolVars, Inv, Pool, Ended
<1>2. \/ err' = "canceled" /\ observeCanceled' = TRUE
      \/ err' = "none" /\ todo = {} /\ active = {}
  BY CountSpokes DEF ParentDone, Finish, Shutdown, Inv, Shape
<1>3. Shape'
  BY <1>1, <1>2 DEF Inv, Shape, Errors
<1>4. Pool'
  BY <1>1 DEF Inv, Pool, Busy
<1>5. Ended'
  BY <1>1, <1>2 DEF Ended
<1>6. Settled' = Settled
  BY <1>1 DEF Settled
<1>7. Observations' /\ Agreement'
  BY <1>1, <1>2, <1>6 DEF Inv, Observations, Agreement, Panics
<1> QED BY <1>3, <1>4, <1>5, <1>7 DEF Inv

\* A worker's result is taken: its attempt is settled unless the hub is stopping.
LEMMA ReceiveKeeps ==
  ASSUME Inv, NEW w \in Workers, Receive(w) PROVE Inv'
<1> DEFINE s == job[w]
<1>1. /\ pc = "loop" /\ worker[w] = "sending" /\ AfterResult(s, result[w])
      /\ worker' = [worker EXCEPT ![w] = "idle"] /\ job' = [job EXCEPT ![w] = None]
      /\ result' = [result EXCEPT ![w] = "none"]
      /\ UNCHANGED <<registered, store, requested, todo, coverage, observed>>
  BY Zenon DEF Receive, storeVars
<1>2. w \in Busy /\ s \in active /\ s \in requested /\ s \in Spokes /\ s \notin todo /\ s # None /\ result[w] \in Results
      /\ active \in SUBSET Spokes
  BY <1>1, FiniteSpokes DEF Busy, Inv, Pool, Shape
<1>3. current = NoCurrent /\ err = "none"
  BY <1>1, Zenon DEF Inv, Pool, Ended
<1>4. /\ \A x \in Workers : x # w => worker'[x] = worker[x] /\ job'[x] = job[x] /\ result'[x] = result[x]
      /\ worker'[w] = "idle"
      /\ worker' \in [Workers -> {"idle", "collecting", "sending", "exited"}]
      /\ job' \in [Workers -> Spokes \union {None}] /\ result' \in [Workers -> Results \union {"none"}]
  BY <1>1, Zenon DEF Inv, Shape
<1>5. Busy' = Busy \ {w}
  BY <1>4, Zenon DEF Busy
<1>6. \A x \in Busy' : job'[x] \in active \ {s} /\ job'[x] = job[x]
  BY <1>2, <1>4, <1>5, Zenon DEF Inv, Pool, Busy
<1>7. CASE lifecycleDone
  <2>1. /\ pc' = "draining" /\ observeCanceled' = TRUE /\ err' = "canceled" /\ UNCHANGED <<active, inFlight, current>>
    BY <1>1, <1>7, Zenon DEF AfterResult, Shutdown
  <2>2. Shape'
    BY <1>1, <1>4, <2>1, Zenon DEF Inv, Shape, Errors
  <2>3. Pool'
    BY <1>1, <1>3, <1>4, <1>5, <1>6, <2>1 DEF Inv, Pool, Busy
  <2>4. Settled' = Settled
    BY <1>1, <2>1, Zenon DEF Settled
  <2>5. Ended' /\ Observations' /\ Agreement'
    BY <1>1, <1>3, <2>1, <2>4, Zenon DEF Inv, Ended, Observations, Agreement, Panics
  <2> QED BY <2>2, <2>3, <2>5, Zenon DEF Inv
<1>8. CASE ~lifecycleDone
  <2>1. active' = active \ {s} /\ inFlight' = inFlight - 1
    BY <1>1, <1>8, Zenon DEF AfterResult, Settle
  <2>2. inFlight' = Cardinality(active')
    BY <1>2, <2>1, CountSpokes, Zenon DEF Inv, Shape
  <2>3. CASE result[w] = "panicked"
    <3>1. pc' = "draining" /\ observeCanceled' = TRUE /\ err' = "panicked" /\ UNCHANGED current
      BY <1>1, <1>8, <2>3, Zenon DEF AfterResult, Shutdown
    <3>2. Shape'
      BY <1>1, <1>4, <2>1, <2>2, <3>1, Zenon DEF Inv, Shape, Errors, Panics
    <3>3. Pool'
      BY <1>1, <1>3, <1>4, <1>5, <1>6, <2>1, <3>1 DEF Inv, Pool, Busy
    <3>4. Ended' /\ Observations' /\ Agreement'
      BY <1>1, <1>3, <2>1, <3>1, Zenon DEF Inv, Ended, Observations, Agreement, Panics
    <3> QED BY <3>2, <3>3, <3>4, Zenon DEF Inv
  <2>4. CASE result[w] # "panicked"
    <3>1. pc' = "persisting" /\ current' = [spoke |-> s, result |-> result[w]] /\ UNCHANGED <<err, observeCanceled>>
      BY <1>1, <1>8, <2>4, Zenon DEF AfterResult, shutVars
    <3>2. result[w] \in {"snapshot"} \union Failures
      BY <1>2, <2>4, Zenon DEF Results
    <3>3. Shape'
      BY <1>1, <1>2, <1>4, <2>1, <2>2, <3>1, <3>2, Zenon DEF Inv, Shape
    <3>4. Pool'
      BY <1>1, <1>2, <1>4, <1>5, <1>6, <2>1, <3>1, <3>2 DEF Inv, Pool, Busy, Failures
    <3>5. Settled' = Settled
      BY <1>1, <1>2, <1>3, <2>1, <3>1, FiniteSpokes DEF Settled, NoCurrent, Inv, Shape
    <3>6. Ended' /\ Observations' /\ Agreement'
      BY <1>1, <1>2, <1>3, <2>1, <3>1, <3>5, Zenon DEF Inv, Ended, Observations, Agreement
    <3> QED BY <3>3, <3>4, <3>6, Zenon DEF Inv
  <2> QED BY <2>3, <2>4, Zenon
<1> QED BY <1>7, <1>8, Zenon

\* The row a result leaves.
LEMMA StoreRows ==
  ASSUME store \in [Spokes -> Rows], NEW s \in Spokes, NEW r \in {"snapshot"} \union Failures
  PROVE  /\ StoreRow(s, r) \in Rows
         /\ r = "snapshot" => StoreRow(s, r).facts = "new" /\ StoreRow(s, r).error = "none"
         /\ r # "snapshot" => StoreRow(s, r).facts = store[s].facts /\ StoreRow(s, r).error = r
<1> USE Zenon
<1>1. store[s] \in Rows
  OBVIOUS
<1> QED BY <1>1 DEF StoreRow, Rows

\* The coverage a result leaves.
LEMMA CoveredFields ==
  ASSUME coverage \in Coverages, NEW s \in Spokes, NEW r
  PROVE  /\ Covered(s, r) \in Coverages
         /\ r = "snapshot" =>
              /\ Covered(s, r).reachable = coverage.reachable + 1
              /\ Covered(s, r).unreachable = coverage.unreachable
              /\ Covered(s, r).stale = coverage.stale
         /\ r # "snapshot" =>
              /\ Covered(s, r).reachable = coverage.reachable
              /\ Covered(s, r).unreachable = coverage.unreachable \union {s}
              /\ Covered(s, r).stale = IF store[s].facts # "none" THEN coverage.stale \union {s} ELSE coverage.stale
<1>1. CASE r = "snapshot"
  BY <1>1 DEF Covered, Coverages
<1>2. CASE r # "snapshot"
  <2> DEFINE u == coverage.unreachable \union {s}
             t == IF store[s].facts # "none" THEN coverage.stale \union {s} ELSE coverage.stale
  <2>1. Covered(s, r) = [coverage EXCEPT !.unreachable = u, !.stale = t]
    BY <1>2, Zenon DEF Covered
  <2>2. u \in SUBSET Spokes /\ t \in SUBSET Spokes
    BY Zenon DEF Coverages
  <2> HIDE DEF u, t
  <2>3. Covered(s, r) = [reachable |-> coverage.reachable, unreachable |-> u, stale |-> t]
    BY <2>1, Zenon DEF Coverages
  <2>4. Covered(s, r) \in Coverages
    BY <2>2, <2>3 DEF Coverages
  <2>5. Covered(s, r).reachable = coverage.reachable /\ Covered(s, r).unreachable = u /\ Covered(s, r).stale = t
    BY <2>3
  <2> QED BY <1>2, <2>4, <2>5, Zenon DEF u, t
<1> QED BY <1>1, <1>2, Zenon

\* The result is in the store and in the coverage.
LEMMA PersistKeeps ==
  ASSUME Inv, PersistSucceeds PROVE Inv'
<1> DEFINE s == current.spoke
           r == current.result
<1>1. /\ pc = "persisting" /\ pc' = "loop" /\ store' = [store EXCEPT ![s] = StoreRow(s, r)]
      /\ coverage' = Covered(s, r) /\ observed' = [observed EXCEPT ![s] = @ + 1] /\ current' = NoCurrent
      /\ UNCHANGED <<registered, requested, todo, active, inFlight, worker, job, result, err, observeCanceled>>
  BY Zenon DEF PersistSucceeds, Observe, poolVars, shutVars
<1>2. /\ s \in requested /\ s \in Spokes /\ s \notin todo /\ s \notin active /\ r \in {"snapshot"} \union Failures
      /\ err = "none" /\ s \notin Settled /\ Settled \in SUBSET Spokes
  BY <1>1, Zenon DEF Inv, Pool, Shape, Ended, Settled
<1> HIDE DEF s, r
<1>a. store \in [Spokes -> Rows] /\ coverage \in Coverages /\ observed \in [Spokes -> Nat]
  BY Zenon DEF Inv, Shape
<1>b. /\ StoreRow(s, r) \in Rows
      /\ r = "snapshot" => StoreRow(s, r).facts = "new" /\ StoreRow(s, r).error = "none"
      /\ r # "snapshot" => StoreRow(s, r).facts = store[s].facts /\ StoreRow(s, r).error = r
  BY <1>a, <1>2, StoreRows, Zenon
<1>c. /\ Covered(s, r) \in Coverages
      /\ r = "snapshot" =>
           /\ Covered(s, r).reachable = coverage.reachable + 1
           /\ Covered(s, r).unreachable = coverage.unreachable
           /\ Covered(s, r).stale = coverage.stale
      /\ r # "snapshot" =>
           /\ Covered(s, r).reachable = coverage.reachable
           /\ Covered(s, r).unreachable = coverage.unreachable \union {s}
           /\ Covered(s, r).stale = IF store[s].facts # "none" THEN coverage.stale \union {s} ELSE coverage.stale
  BY <1>a, <1>2, CoveredFields, Zenon
<1>3. /\ store' \in [Spokes -> Rows] /\ coverage' \in Coverages /\ observed' \in [Spokes -> Nat]
      /\ \A x \in Spokes : x # s => store'[x] = store[x] /\ observed'[x] = observed[x]
      /\ store'[s] = StoreRow(s, r) /\ observed'[s] = observed[s] + 1
  BY <1>1, <1>2, <1>a, <1>b, <1>c
<1>4. Shape'
  BY <1>1, <1>3, Zenon DEF Inv, Shape, NoCurrent
<1>5. Pool'
  BY <1>1, FiniteSpokes, Zenon DEF Inv, Shape, Pool, Busy, NoCurrent
<1>6. Settled' = Settled \union {s}
  BY <1>1, <1>2, FiniteSpokes, Zenon DEF Settled, NoCurrent, Inv, Shape, s
<1>7. observed[s] = 0
  BY <1>1, <1>2, Zenon DEF Inv, Observations, s
<1>8. Ended' /\ Observations'
  BY <1>1, <1>2, <1>3, <1>6, <1>7, FiniteSpokes DEF Inv, Ended, Observations, NoCurrent, Settled
<1>9. Agreement'
  <2>1. /\ store[s].facts \in {"none", "old"} /\ store[s].error = "none" /\ s \notin coverage.unreachable
        /\ coverage.unreachable \subseteq Settled /\ coverage \in Coverages
    BY <1>2, Zenon DEF Inv, Agreement, Shape, Rows
  <2>2. CASE r = "snapshot"
    <3>1. /\ coverage'.reachable = coverage.reachable + 1 /\ coverage'.unreachable = coverage.unreachable
          /\ coverage'.stale = coverage.stale /\ store'[s].facts = "new" /\ store'[s].error = "none"
      BY <1>1, <1>3, <1>b, <1>c, <2>2, Zenon
    <3>2. Settled' \ coverage'.unreachable = (Settled \ coverage.unreachable) \union {s}
      BY <1>6, <2>1, <3>1, Zenon
    <3>3. Cardinality(Settled' \ coverage'.unreachable) = coverage'.reachable
      BY <1>2, <3>1, <3>2, CountSpokes DEF Inv, Agreement
    <3> QED BY <1>1, <1>2, <1>3, <1>6, <2>1, <3>1, <3>3 DEF Inv, Agreement
  <2>3. CASE r # "snapshot"
    <3>1. /\ coverage'.reachable = coverage.reachable /\ coverage'.unreachable = coverage.unreachable \union {s}
          /\ coverage'.stale = (IF store[s].facts # "none" THEN coverage.stale \union {s} ELSE coverage.stale)
          /\ store'[s].facts = store[s].facts /\ store'[s].error # "none"
      BY <1>1, <1>2, <1>3, <1>b, <1>c, <2>3, Zenon DEF Failures
    <3>2. Settled' \ coverage'.unreachable = Settled \ coverage.unreachable
      BY <1>2, <1>6, <2>1, <3>1, Zenon
    <3>3. coverage'.stale = {x \in coverage'.unreachable : store'[x].facts = "old"}
      <4>1. coverage.stale = {x \in coverage.unreachable : store[x].facts = "old"}
        BY <1>2, Zenon DEF Inv, Agreement
      <4> QED BY <1>2, <1>3, <2>1, <3>1, <4>1
    <3> QED BY <1>1, <1>2, <1>3, <1>6, <2>1, <3>1, <3>2, <3>3 DEF Inv, Agreement
  <2> QED BY <2>2, <2>3, Zenon
<1> QED BY <1>4, <1>5, <1>8, <1>9, Zenon DEF Inv

\* The store refuses, loses its answer or panics: the refresh ends with an error.
LEMMA PersistErrorKeeps ==
  ASSUME Inv, PersistFails \/ PersistPanics PROVE Inv'
<1> DEFINE s == current.spoke
<1>1. /\ pc = "persisting" /\ pc' = "draining" /\ current' = NoCurrent /\ observeCanceled' = TRUE
      /\ UNCHANGED <<registered, requested, todo, active, inFlight, worker, job, result, coverage>>
      /\ store' = store \/ store' = [store EXCEPT ![s] = StoreRow(s, current.result)]
      /\ \/ err' = "store" /\ observed' = [observed EXCEPT ![s] = @ + 1]
         \/ err' = "store-panicked" /\ observed' = observed
  BY Zenon DEF PersistFails, PersistPanics, Shutdown, Observe, storeVars, poolVars
<1>2. /\ s \in requested /\ s \in Spokes /\ s \notin todo /\ s \notin active
      /\ current.result \in {"snapshot"} \union Failures
  BY <1>1, Zenon DEF Inv, Pool, Shape
<1> HIDE DEF s
<1>a. store \in [Spokes -> Rows]
  BY Zenon DEF Inv, Shape
<1>b. StoreRow(s, current.result) \in Rows
  BY <1>a, <1>2, StoreRows, Zenon
<1>3. store' \in [Spokes -> Rows]
  BY <1>1, <1>2, <1>a, <1>b, Zenon
<1>4. observed' \in [Spokes -> Nat] /\ \A x \in Spokes : x # s => observed'[x] = observed[x]
  BY <1>1, <1>2 DEF Inv, Shape
<1>5. Shape'
  BY <1>1, <1>3, <1>4, Zenon DEF Inv, Shape, NoCurrent, Errors, Panics
<1>6. Pool'
  BY <1>1, FiniteSpokes, Zenon DEF Inv, Shape, Pool, Busy, NoCurrent
<1>7. Settled' = Settled \union {s} /\ s \notin Settled
  BY <1>1, <1>2, FiniteSpokes DEF Settled, NoCurrent, Inv, Shape, s
<1>8. observed[s] = 0 /\ err = "none"
  BY <1>1, <1>2, Zenon DEF Inv, Observations, Ended, s
<1>9. err' = "store" => observed'[s] = 1
  BY <1>1, <1>2, <1>8 DEF Inv, Shape
<1>10. err' = "store-panicked" => observed'[s] = 0
  BY <1>1, <1>8, Zenon
<1>11. Ended' /\ Agreement'
  BY <1>1, Zenon DEF Ended, Agreement
<1>12. Observations'
  BY <1>1, <1>2, <1>4, <1>7, <1>8, <1>9, <1>10, FiniteSpokes DEF Inv, Observations, NoCurrent, Panics
<1> QED BY <1>5, <1>6, <1>11, <1>12, Zenon DEF Inv

\* The workers have gone; the attempts they left are observed now.
LEMMA DrainedKeeps ==
  ASSUME Inv, Drained PROVE Inv'
<1>1. /\ pc = "draining" /\ pc' = "returned" /\ \A w \in Workers : worker[w] = "exited"
      /\ observed' = [s \in Spokes |-> IF observeCanceled /\ s \in active THEN observed[s] + 1 ELSE observed[s]]
      /\ UNCHANGED <<registered, store, requested, todo, active, inFlight, worker, job, result, current, coverage, err,
                     observeCanceled>>
  BY Zenon DEF Drained, WorkersDone, storeVars, poolVars, shutVars
<1>2. Shape'
  BY <1>1 DEF Inv, Shape
<1>3. Pool'
  BY <1>1, Zenon DEF Inv, Pool, Busy
<1>4. Settled' = Settled
  BY <1>1, Zenon DEF Settled
<1>5. Ended' /\ Agreement'
  BY <1>1, <1>4, Zenon DEF Inv, Ended, Agreement
<1>6. \A s \in Spokes : s \in active => observed[s] = 0 /\ s \notin Settled /\ s \in requested /\ s \notin todo
  BY <1>1, Zenon DEF Inv, Observations, Settled, Shape, Pool
<1>7. \A s \in Spokes : observed'[s] = IF observeCanceled /\ s \in active THEN 1 ELSE observed[s]
  BY <1>1, <1>6
<1>8. Observations'
  BY <1>1, <1>4, <1>6, <1>7 DEF Inv, Observations, Ended
<1> QED BY <1>2, <1>3, <1>5, <1>8, Zenon DEF Inv

-----------------------------------------------------------------------------
\* The start of a refresh.
LEMMA InvInit == Init => Inv
<1> SUFFICES ASSUME Init PROVE Inv
  BY Zenon
<1>1. Settled = {} /\ Busy = {}
  BY Zenon DEF Init, Settled, Busy
<1>2. Shape
  BY FS_EmptySet, Zenon DEF Init, Shape, Rows, Coverages, NoCurrent, Errors, Results, Spokes
<1>3. Pool /\ Ended
  BY <1>1, Zenon DEF Init, Pool, Ended
<1>4. Observations /\ Agreement
  BY <1>1, FS_EmptySet, FiniteSpokes DEF Init, Observations, Agreement, NoCurrent
<1> QED BY <1>2, <1>3, <1>4, Zenon DEF Inv

\* Every step keeps the invariant.
LEMMA InvStep == Inv /\ [Next]_vars => Inv'
BY WorkerKeeps, EnvironmentKeeps, ListKeeps, AdmitKeeps, StopKeeps, ReceiveKeeps, PersistKeeps, PersistErrorKeeps,
   DrainedKeeps, Zenon DEF Next, LoopStep, Returned

\* The inductive invariant: the requested spokes are the ones to admit, the active ones, the one being
\* persisted and the settled ones, and store, coverage and observations agree on the settled ones
\* (collectWorkspace, persistSpokeResult).
THEOREM InvHolds == Spec => []Inv
BY InvInit, InvStep, PTL DEF Spec

\* Whatever is cancelled, fails or panics, for any number of spokes and workers: a refresh that returns
\* without an error returns a coverage that accounts for every requested spoke the way the store has
\* it, each admitted attempt was observed once unless a panic ended it, and no worker is left.
THEOREM RefreshIsHonest == Spec => []CoverageHonest
<1>1. Inv => CoverageHonest
  <2> USE Zenon
  <2> SUFFICES ASSUME Inv, pc = "returned"
               PROVE  /\ err = "none" =>
                           /\ coverage.reachable = Cardinality(Reached)
                           /\ Reached = requested \ coverage.unreachable
                           /\ coverage.unreachable = {s \in requested : store[s].error # "none"}
                           /\ coverage.stale = {s \in coverage.unreachable : store[s].facts = "old"}
                      /\ \A s \in Spokes :
                           /\ observed[s] <= 1
                           /\ s \in requested \ todo /\ err \notin Panics => observed[s] = 1
                      /\ Busy = {}
    BY DEF CoverageHonest, Panics
  <2>1. current = NoCurrent /\ Busy = {} /\ requested \in SUBSET Spokes
    BY DEF Inv, Pool, Shape
  <2>2. ASSUME NEW s \in Spokes, s \in requested \ todo, err \notin Panics PROVE observed[s] = 1
    BY <2>1, <2>2, FiniteSpokes DEF Inv, Observations, Settled, NoCurrent
  <2>3. ASSUME err = "none"
        PROVE  /\ coverage.reachable = Cardinality(Reached) /\ Reached = requested \ coverage.unreachable
               /\ coverage.unreachable = {s \in requested : store[s].error # "none"}
               /\ coverage.stale = {s \in coverage.unreachable : store[s].facts = "old"}
    <3>1. Settled = requested
      BY <2>1, <2>3, FiniteSpokes DEF Inv, Ended, Settled, NoCurrent
    <3>2. Reached = Settled \ coverage.unreachable
      BY <2>1, <2>3, <3>1 DEF Inv, Agreement, Reached
    <3> QED BY <2>1, <2>3, <3>1, <3>2 DEF Inv, Agreement
  <2> QED BY <2>1, <2>2, <2>3 DEF Inv, Observations
<1> QED BY <1>1, InvHolds, PTL
=============================================================================
