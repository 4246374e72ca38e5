--------------------------- MODULE SpokeCollector ---------------------------
(***************************************************************************)
(* One workspace refresh: Collector.collectWorkspace of internal/hubfleet. *)
(* A loop lists the registered spokes, hands them one by one to a pool of  *)
(* worker goroutines over an unbuffered channel, receives their results    *)
(* over another, and persists each result before it looks at the next.     *)
(* Any error cancels the workers, closes the job channel and waits for     *)
(* them.  An unbuffered send and its receive are one step of both sides.   *)
(***************************************************************************)
EXTENDS Integers, FiniteSets

CONSTANTS NumSpokes,            \* spoke IDs are 1 .. NumSpokes, in ID order
          MaxConcurrentSpokes   \* CollectorConfig.MaxConcurrentSpokes

ASSUME PoolAssumption == /\ NumSpokes \in Nat
                         /\ MaxConcurrentSpokes \in Nat \ {0}

Spokes  == 1 .. NumSpokes
Workers == 1 .. MaxConcurrentSpokes
None    == 0

Failures == {"transport", "deadline", "invalid-snapshot"}
\* What collectSpoke returns: a validated snapshot, a failure kind, or a
\* recovered panic (errRefreshFlightPanicked).
Results  == {"snapshot", "panicked"} \union Failures

VARIABLES
  registered,    \* rows of sith.clusters of this workspace
  store,         \* spoke -> facts kept ("none" | "old" | "new") and last error
  lifecycleDone, \* ctx of the flight is done (hub shutdown)
  pc,            \* "listing" "loop" "persisting" "draining" "returned"
  requested,     \* the listed spokes
  todo,          \* spokes[next:]
  active,        \* keys of the active map
  inFlight,      \* the inFlight counter
  worker,        \* worker -> "idle" "collecting" "sending" "exited"
  job, result,   \* worker -> the spoke it has, what it found
  current,       \* the result being persisted
  canceled,      \* collectionContext was canceled by shutdown
  observeCanceled, \* argument of the shutdown call that runs
  coverage,      \* reachable count, unreachable and stale spokes
  err,           \* what collectWorkspace returns
  observed       \* spoke -> snapshot outcomes observed in this refresh

storeVars == <<registered, store>>
loopVars  == <<pc, requested, todo, active, inFlight, current, coverage, err>>
poolVars  == <<worker, job, result>>
shutVars  == <<canceled, observeCanceled>>
vars == <<registered, store, lifecycleDone, pc, requested, todo, active,
          inFlight, worker, job, result, current, canceled, observeCanceled,
          coverage, err, observed>>

NoCurrent == [spoke |-> None, result |-> "none"]

\* A refresh starts on the facts earlier refreshes left behind.  Failures of
\* earlier refreshes are never read, so error says what this one recorded.
Init ==
  /\ registered \in SUBSET Spokes
  /\ store \in [Spokes -> [facts : {"none", "old"}, error : {"none"}]]
  /\ lifecycleDone = FALSE
  /\ pc = "listing"
  /\ requested = {}
  /\ todo = {}
  /\ active = {}
  /\ inFlight = 0
  /\ worker = [w \in Workers |-> "exited"]
  /\ job = [w \in Workers |-> None]
  /\ result = [w \in Workers |-> "none"]
  /\ current = NoCurrent
  /\ canceled = FALSE
  /\ observeCanceled = FALSE
  /\ coverage = [reachable |-> 0, unreachable |-> {}, stale |-> {}]
  /\ err = "none"
  /\ observed = [s \in Spokes |-> 0]

\* collectionContext is done: canceled itself, or with its parent.
ContextDone == canceled \/ lifecycleDone

Observe(s) == [observed EXCEPT ![s] = @ + 1]

-----------------------------------------------------------------------------
(***************************************************************************)
(* The loop goroutine                                                      *)
(***************************************************************************)

\* RegisteredSpokes and validateSpokes succeed; the pool is started.
List ==
  /\ pc = "listing"
  /\ requested' = registered
  /\ todo' = registered
  /\ pc' = IF registered = {} THEN "returned" ELSE "loop"
  /\ worker' = [w \in Workers |->
                  IF w <= Cardinality(registered) THEN "idle" ELSE "exited"]
  /\ UNCHANGED <<storeVars, lifecycleDone, active, inFlight, job, result,
                 current, shutVars, coverage, err, observed>>

ListFails ==
  /\ pc = "listing"
  /\ pc' = "returned"
  /\ err' = "list"
  /\ UNCHANGED <<storeVars, lifecycleDone, requested, todo, active, inFlight,
                 current, coverage, poolVars, shutVars, observed>>

\* admission <- spoke meets an idle worker: spokes[next], the least one left.
Admit(w) ==
  /\ pc = "loop"
  /\ worker[w] = "idle"
  /\ \E s \in todo :
       /\ \A x \in todo : s <= x
       /\ todo' = todo \ {s}
       /\ active' = active \union {s}
       /\ inFlight' = inFlight + 1
       /\ worker' = [worker EXCEPT ![w] = "collecting"]
       /\ job' = [job EXCEPT ![w] = s]
  /\ UNCHANGED <<storeVars, lifecycleDone, pc, requested, current, coverage,
                 err, result, shutVars, observed>>

\* shutdown(observe): cancel(), close(jobs); waitGroup.Wait() is Drained.
Shutdown(observe, e) ==
  /\ pc' = "draining"
  /\ canceled' = TRUE
  /\ observeCanceled' = observe
  /\ err' = e

\* case <-ctx.Done().
ParentDone ==
  /\ pc = "loop"
  /\ todo # {} \/ inFlight > 0
  /\ lifecycleDone
  /\ Shutdown(TRUE, "canceled")
  /\ UNCHANGED <<storeVars, lifecycleDone, requested, todo, active, inFlight,
                 current, coverage, poolVars, observed>>

\* The attempt is over: delete(active, ...) and inFlight--.
Settle(s) == active' = active \ {s} /\ inFlight' = inFlight - 1

\* case result := <-results, with its two early returns.
AfterResult(s, r) ==
  \/ /\ lifecycleDone
     /\ Shutdown(TRUE, "canceled")
     /\ UNCHANGED <<active, inFlight, current>>
  \/ /\ ~lifecycleDone
     /\ Settle(s)
     /\ \/ /\ r = "panicked"
           /\ Shutdown(TRUE, "panicked")
           /\ UNCHANGED current
        \/ /\ r # "panicked"
           /\ pc' = "persisting"
           /\ current' = [spoke |-> s, result |-> r]
           /\ UNCHANGED <<err, shutVars>>

Receive(w) ==
  /\ pc = "loop"
  /\ worker[w] = "sending"
  /\ worker' = [worker EXCEPT ![w] = "idle"]
  /\ job' = [job EXCEPT ![w] = None]
  /\ result' = [result EXCEPT ![w] = "none"]
  /\ AfterResult(job[w], result[w])
  /\ UNCHANGED <<storeVars, lifecycleDone, requested, todo, coverage,
                 observed>>

\* ReplaceSnapshot and MarkSnapshotFailure commit: the facts are replaced as
\* a whole, or kept beside the failure kind.
StoreRowDropping(s, r) ==                                       \* mutant
  IF r = "snapshot" THEN [facts |-> "new", error |-> "none"]
  ELSE [facts |-> "none", error |-> r]
StoreRow(s, r) ==
  IF r = "snapshot" THEN [facts |-> "new", error |-> "none"]
  ELSE [store[s] EXCEPT !.error = r]

\* recordFailure and the success path of persistSpokeResult.  retained is
\* read from the row that was updated.
Covered(s, r) ==
  IF r = "snapshot" THEN [coverage EXCEPT !.reachable = @ + 1]
  ELSE [coverage EXCEPT !.unreachable = @ \union {s},
                        !.stale = IF store[s].facts # "none"
                                  THEN @ \union {s} ELSE @]

PersistSucceeds ==
  LET s == current.spoke
      r == current.result
  IN /\ pc = "persisting"
     /\ s \in registered
     /\ store' = [store EXCEPT ![s] = StoreRow(s, r)]
     /\ coverage' = Covered(s, r)
     /\ observed' = Observe(s)
     /\ current' = NoCurrent
     /\ pc' = "loop"
     /\ UNCHANGED <<registered, lifecycleDone, requested, todo, active,
                    inFlight, poolVars, shutVars, err>>

\* The store refuses (ErrSpokeNotRegistered, a database error, the context),
\* or the acknowledgement of its commit is lost.
PersistFails ==
  LET s == current.spoke
      r == current.result
  IN /\ pc = "persisting"
     /\ \/ UNCHANGED store
        \/ s \in registered /\ store' = [store EXCEPT ![s] = StoreRow(s, r)]
     /\ observed' = Observe(s)
     /\ current' = NoCurrent
     /\ Shutdown(TRUE, "store")
     /\ UNCHANGED <<registered, lifecycleDone, requested, todo, active,
                    inFlight, poolVars, coverage>>

\* The store panics: the deferred shutdown(true) runs, then run recovers.
PersistPanics ==
  /\ pc = "persisting"
  /\ current' = NoCurrent
  /\ Shutdown(TRUE, "store-panicked")
  /\ UNCHANGED <<storeVars, lifecycleDone, requested, todo, active, inFlight,
                 poolVars, coverage, observed>>

\* The loop condition is false.
Finish ==
  /\ pc = "loop"
  /\ todo = {} /\ inFlight = 0
  /\ Shutdown(FALSE, "none")
  /\ UNCHANGED <<storeVars, lifecycleDone, requested, todo, active, inFlight,
                 current, coverage, poolVars, observed>>

\* waitGroup.Wait() returns; shutdown observes the attempts still active.
WorkersDone == \A w \in Workers : worker[w] = "exited"

Drained ==
  /\ pc = "draining"
  /\ WorkersDone
  /\ pc' = "returned"
  /\ observed' = [s \in Spokes |-> IF observeCanceled /\ s \in active
                                   THEN observed[s] + 1 ELSE observed[s]]
  /\ UNCHANGED <<storeVars, lifecycleDone, requested, todo, active, inFlight,
                 current, coverage, err, poolVars, shutVars>>

LoopStep ==
  \/ List \/ ListFails \/ ParentDone \/ Finish \/ Drained
  \/ PersistSucceeds \/ PersistFails \/ PersistPanics
  \/ \E w \in Workers : Admit(w) \/ Receive(w)

-----------------------------------------------------------------------------
(***************************************************************************)
(* The worker goroutines                                                   *)
(***************************************************************************)

Exit(w) ==
  /\ worker' = [worker EXCEPT ![w] = "exited"]
  /\ job' = [job EXCEPT ![w] = None]
  /\ result' = [result EXCEPT ![w] = "none"]
  /\ UNCHANGED <<storeVars, lifecycleDone, loopVars, shutVars, observed>>

\* The first select of collectSpokeWorker: ctx.Done(), or jobs is closed.
WorkerStops(w) ==
  /\ worker[w] = "idle"
  /\ ContextDone \/ pc = "draining"
  /\ Exit(w)

\* collectSpoke returns with a result: the transport answered or timed out
\* and the context is still live, or the transport panicked.
Collected(w, r) ==
  /\ worker[w] = "collecting"
  /\ r = "panicked" \/ ~ContextDone
  /\ worker' = [worker EXCEPT ![w] = "sending"]
  /\ result' = [result EXCEPT ![w] = r]
  /\ UNCHANGED <<storeVars, lifecycleDone, loopVars, job, shutVars, observed>>

\* collectSpoke returns ok = false: the context above the timeout is done.
AbandonsOnTimeout == TRUE                                       \* mutant
Abandons == ContextDone

CollectAbandoned(w) ==
  /\ worker[w] = "collecting"
  /\ Abandons
  /\ Exit(w)

\* The second select of collectSpokeWorker takes ctx.Done().
SendAbandoned(w) ==
  /\ worker[w] = "sending"
  /\ ContextDone
  /\ Exit(w)

WorkerStep(w) ==
  \/ WorkerStops(w) \/ CollectAbandoned(w) \/ SendAbandoned(w)
  \/ \E r \in Results : Collected(w, r)

-----------------------------------------------------------------------------
(***************************************************************************)
(* The environment, and the whole                                          *)
(***************************************************************************)

\* The hub is told to stop.
StopHub ==
  /\ ~lifecycleDone
  /\ pc # "returned"
  /\ lifecycleDone' = TRUE
  /\ UNCHANGED <<storeVars, loopVars, poolVars, shutVars, observed>>

\* Somebody deletes a spoke's registration while the refresh runs.
Deregister(s) ==
  /\ s \in registered
  /\ pc # "returned"
  /\ registered' = registered \ {s}
  /\ UNCHANGED <<store, lifecycleDone, loopVars, poolVars, shutVars, observed>>

Returned == pc = "returned" /\ UNCHANGED vars

Next ==
  \/ LoopStep
  \/ \E w \in Workers : WorkerStep(w)
  \/ StopHub
  \/ \E s \in Spokes : Deregister(s)
  \/ Returned

Spec == Init /\ [][Next]_vars

\* Goroutines run; a transport call ends by its own timeout; the store
\* answers.  Nothing is assumed of the environment.
FairSpec == /\ Spec
            /\ WF_vars(LoopStep)
            /\ \A w \in Workers : WF_vars(WorkerStep(w))

-----------------------------------------------------------------------------
(***************************************************************************)
(* Properties                                                              *)
(***************************************************************************)

Busy == {w \in Workers : worker[w] \in {"collecting", "sending"}}
Reached == {s \in requested : store[s].facts = "new"}

\* What collectWorkspace leaves behind when it returns, whatever failed.  A
\* coverage without an error accounts for every requested spoke, and every
\* spoke it names is in the store the way the coverage says: reachable means
\* the facts of this refresh, unreachable means the failure of this refresh,
\* stale means that facts of an earlier refresh were kept.  Each attempt it
\* admitted was observed exactly once (success, failure, store error or
\* canceled), unless a panic ended it, and no worker goroutine is left.
CoverageHonest ==
  pc = "returned" =>
    /\ err = "none" =>
         /\ coverage.reachable = Cardinality(Reached)
         /\ Reached = requested \ coverage.unreachable
         /\ coverage.unreachable = {s \in requested : store[s].error # "none"}
         /\ coverage.stale = {s \in coverage.unreachable : store[s].facts = "old"}
    /\ \A s \in Spokes :
         /\ observed[s] <= 1
         /\ s \in requested \ todo /\ err \notin {"panicked", "store-panicked"}
              => observed[s] = 1
    /\ Busy = {}

\* A refresh always returns: no cancellation, panic or store failure at any
\* point leaves the loop, a worker or waitGroup.Wait() waiting for the other.
Terminates == <>(pc = "returned")
=============================================================================
