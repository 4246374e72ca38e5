# Sith: TLA+ models and proofs

A verification development for the Go program in `src/`. It models the parts of
Sith in which several goroutines, transactions, requests or clusters meet and the
pure functions that evidence passes through, checks them on small instances with
TLC, and proves most of their safety properties for every size with TLAPS. The code
is the reference for every definition; `PROJECT.json` maps each one to the lines it
stands for.

## 1. The system

Sith is a read-only fleet console for Kubernetes with two modes.

*Local mode* reads the contexts of a kubeconfig. The kubeconfig **connector**
probes, lists and watches clusters behind an **operation gate**; the **hydrator**
reconciles what it reads into the **fleet cache**; the terminal UI, the web UI, the
desktop shell and the MCP server read the cache and wait for its changes. The web and
desktop surfaces also edit objects (after a reviewed preview) and keep port-forward
tunnels; the desktop swaps its whole session when a folder is imported.

*Hub mode* is a multi-tenant server. A request is authenticated (`hubauth`,
`hubserver`, with API keys, OIDC, browser logins or cloud proofs), resolved to a
workspace scope (`tenancy`) and authorized by the **policy enforcement point**
(`pep`), which records its decision in the **policy audit chain** in PostgreSQL
(`hubdb`) and in the process log. An authorized refresh goes through the
**single-flight coordinator** to the **spoke collector** (`hubfleet`), which reads
registered clusters through OCM (`hubocm`) and persists **snapshots**
(`hubdb/fleet.go`), from which reads and searches are served. **Approval grants**
(`hubdb`) bind a human approval to one exact proposal. Administrators download the
audit chain through the **paged export** (`hubserver`, `auditrecord`).

In both modes **evidence connectors** project what other systems report into facts,
the **graph** joins them, the **brain** evaluates rules over them, and a confirmed
verdict can be **resolved** into the exact arguments of a pull request.

### Inventory

| Package (`src/internal/...`) | What it is | Here |
|---|---|---|
| `hubfleet` coordinator | one refresh flight per workspace | `RefreshCoordinator`, `SharedRefresh`, proofs |
| `hubfleet` collector | worker pool over the spokes | `SpokeCollector`, proofs |
| `hubocm`, `hubfleet` validation, `hubdb` fleet | snapshot of one spoke, its rows | `SpokeSnapshot`, `FleetStore` |
| `hubfleet` source and searches, `hubserver` fleet | reads of the rows | `FleetStore` |
| `hubdb` policy audit | hash chain, one head row per workspace | `AuditChain`, `AuditLog`, proofs |
| `hubdb` approvals | single-use grants | `ApprovalGrants`, proofs |
| `pep`, `hubruntime` policy audit | enforcement point, ordered sinks | `PolicyEnforcer`, proofs |
| `hubserver` audit export, `auditrecord` | export handler, pages, verifier | `AuditExport`, proofs |
| `hubauth`, `tenancy` | claims, roles, key cache, replay guard, sessions | `Tokens`, `HubCredentials`, proofs |
| `hubdb` api keys, oidc, cloud identities | credentials and bindings | `HubCredentials`, proofs |
| `hubserver` exchange, browser login, auth | limiter, login transactions, middleware | `HubCredentials`, proofs |
| `fleetcache` | store behind every local surface | `FleetCache`, proofs (with `Hydrator`) |
| `hydrate`, `tui` commands | background loop, pause and refresh | `Hydrator`, proofs |
| `connector/kubeconfig` | gate, discovery, objects; watch | `KubeAdapter`, proofs (with `LocalApp`); `Hydrator` |
| `webui`, `cli/desktop*.go` | leases, previews, forwards, session swap | `LocalApp`, proofs |
| `fleet` | entities, facts, graph, CVEs, coverage | `FleetGraph`, `SpokeSnapshot`, `FleetStore` |
| `connector/argocd`, `github` | desired state and changes | `ChangeConnectors` |
| `connector/prometheus`, `dcgm`, `elasticsearch`, `opencost`, `awseks` | telemetry, costs | `TelemetryConnectors` |
| `brain` | rules, verdicts, fleet correlation | `Brain` |
| `connector` registry, `connector/github` planner, `intent*` | typed actions | `ActionConnectors` |
| `remediation` | provenance and resolution | `GitOpsResolver` |
| `hubdb` migrate, `hubruntime`, `auditdelivery`, `mcpserver`, `cli`, `config`, `observability`, ... | wiring and I/O | not modelled (section 5) |

`PROJECT.json` has this list with the reasons (`components`) and the places where
an untested order of events could bite (`hazards`), covered and not covered.

## 2. The modules

```
SharedRefresh <--implements-- RefreshCoordinator -- RefreshCoordinatorProofs
SpokeCollector -- SpokeCollectorProofs

AuditLog <--implements-- AuditChain -- AuditChainProofs
   ^                         ^
   |extends                  |extends
   |                     ApprovalGrants -- ApprovalGrantsProofs
PolicyEnforcer <--extends-- AuditExport -- AuditExportProofs

FleetCache <--extends-- Hydrator -- HydratorProofs
Tokens <--extends-- HubCredentials -- HubCredentialsProofs --+
KubeAdapter <--extends-- LocalApp -- LocalAppProofs ---------+-- Counting

FleetGraph <- SpokeSnapshot <- FleetStore
    ^
    +-- ChangeConnectors <- TelemetryConnectors <- Brain <- ActionConnectors
                                            <- GitOpsResolver <- Investigation
```

`MC` modules give the constants their values for TLC. A line marked `\* mutant`
defines a plausible bug in the operator after it. No specification uses it; it is
there to see that the properties can fail.

`AuditLog` is what the audit chain promises: one append-only sequence per
workspace with atomic appends. The enforcement point and the export are built on
that promise, and the chain of concurrent transactions is proved to keep it, so
nothing is modelled twice.

**RefreshCoordinator** (`refresh_coordinator.go`, `Collector.Collect`). A caller
goes through authorization, the `ctx.Err()` check, the critical section that finds
or makes the flight of its workspace, and the three nested selects of
`waitForRefresh`; its context may end at any time. A flight's goroutine ends with a
coverage, an error or a recovered panic; `finish` stores and deletes under the
mutex, then closes `done`. A select with two ready cases is a nondeterministic
choice. A flight is named by the number of the call that made it.

**SpokeCollector** (`collectWorkspace`). One refresh: the loop that admits
spokes to an unbuffered channel or receives a result, the workers, `collectSpoke`
with its recovered panics, persistence of a snapshot or of a failure, and the
`shutdown` that cancels, closes, drains and observes. The hub's own shutdown, the
deregistration of a spoke, and store failures and panics may come at any point. An
unbuffered send and its receive are one step.

**SpokeSnapshot** (`direct.go`, the validation in `collector.go`) has what one
snapshot contains as pure operators: the facts of every kind of object, the
correlation of vulnerability reports with the digests that Pods run, and what is
accepted before it is stored. **FleetStore** makes the steps of it: an attempt
reads its lists page by page under one shared budget while the cluster changes, then
replaces the rows (UPDATE, DELETE, COPY) or marks a failure, each statement on its
own, for several replicas; readers run the two statements of a repeatable-read query
and answer lists, searches and correlations.

**AuditChain** (`Record`, `appendPolicyAuditEntryTx`, `inWorkspace`). Read-committed
transactions: insert the head row if missing, lock it `FOR UPDATE`, insert the
entry, advance the head, commit. What a transaction wrote is private until its
commit. Errors, canceled contexts and crashes roll back; a commit may succeed while
its caller is told of an error. The hash is an injective function of what is
hashed.

**ApprovalGrants** (`approvals.go`) adds the two grant transactions to the chain's:
`FOR SHARE` on the memberships, the conditional insert or update with
`statement_timestamp()`, the audit append, the commit. Membership rows change,
the clock ticks, other decisions are recorded.

**PolicyEnforcer** (`pep.go`, `hubruntime/policy_audit.go`). One request: validity,
role, hook (any answer, an invalid one or an error), record (durable sink, then
process sink, each may fail), answer. With a scope that `tenancy` verified, the
refusals that cannot be audited are unreachable and are left out.

**AuditExport** (`audit_export.go`, `page.go`) extends it with the handler's slots,
the read of the whole chain or of a page, the opaque cursor, and a client with a
`PageSequenceVerifier` whose responses may be lost, repeated or reordered. Each
request appends its own authorization to the log that it reads, and requests that
are no downloads go through the enforcement point beside them.

**Tokens** has what the hub accepts as proof of identity, as predicates of one
credential and one clock reading. **HubCredentials** makes processes of the
requests: exchange handlers behind the attempt limiter, API-key issue, rotation,
revocation and exchange, cloud proofs with the replay guard, ID tokens with the key
cache, browser login and callback, and the session middleware. Every database round
trip, provider call, mutex and clock reading is a step.

**FleetCache** (`store.go`) has an action for each mutating method of `Store` and
the coverage and lifecycle state that a reader sees. **Hydrator** (`hydrator.go`,
`watch.go`, the commands of `tui/model.go`) composes it with `Run`, with users'
refreshes, with the watch goroutines and their bounded channel, and with the
environment: objects appear and vanish, clusters stop answering, the kubeconfig
is edited, answers are truncated. Every synchronisation is a sequence of steps
between which all of that may happen.

**KubeAdapter** (`adapter.go`, `local_objects.go`) has the operation gate, with the
operations that outlive their callers, the registry of contexts that `Discover` and
first use fill, and the API servers' optimistic concurrency. **LocalApp** (`webui`,
`desktop.go`) composes it with the request handlers: leases on the current session, a
folder import that swaps it, the host's and the application's Close, preview tokens,
edits, and port-forward tunnels with their three goroutines.

**FleetGraph** (`fleet/graph.go`, `resource.go`) says what a valid fact is and
joins facts into nodes. **ChangeConnectors** and **TelemetryConnectors** have one
projector per evidence source, from a decoded response to facts or a refusal. **Brain**
has the observations, the rules, composition and fleet correlation.
**ActionConnectors** has the verb registry and the pull-request planner.
**GitOpsResolver** has provenance bundles and `Resolve`. All of these are pure
operators. **Investigation** makes a machine of them, one investigation end to end:
connectors are registered, responses are projected into facts, the cache is read, the
rules are evaluated, a cost rollup is built, and one verdict is resolved and planned
while the clock moves between the reads of `Resolve`. The caller of the cost rollup is not
in the repository; it may drop a response that was refused or pass on the zero snapshot
that comes with the error.

## 3. What is checked

| Run | Instance | What it shows |
|---|---|---|
| `refresh` | 2 workspaces, 2 callers, 3 calls | One flight per workspace (`SingleFlight`); the coordinator implements `SharedRefresh`; calls return if flights do (`CallsAnswered`), canceled ones even if their flight hangs (`CanceledWaitEnds`). |
| `collector` | 3 spokes, 2 workers | Coverage agrees with the store, every admitted attempt is observed once and no worker is left (`CoverageHonest`); every refresh returns (`Terminates`). |
| `snapshots` | 2 attempts, 1 reader, 6 workloads | Stored facts are those of one attempt (`OneAttemptStored`) and complete (`SnapshotComplete`); an image is called running only if the same snapshot proves it (`RuntimeProven`); an answer describes one state of the database and accounts for every spoke (`AnswersConsistent`). |
| `chain` | 2 workspaces, 4 transactions, sequence limit 3 | The chain verifies in every state (`ChainVerifies`), transactions implement `AuditLog` and end (`TransactionsEnd`). |
| `approvals` | 3 transactions, 2 subjects, 2 proposals, lifetime 2, 3 ticks; chain empty or one entry from full | Table and chain agree (`GrantAudited`), the lock order never closes a circle (`NoStandstill`), a grant is spent once and in time (`SpentOnlyInTime`), with roles that hold at the commit (`AuthorizedAtCommit`). |
| `export` | 2 workspaces, 3 downloads, 1 other request, 1 client, 2 slots, pages of 1 entry | Fail closed (`AllowedIsRecorded`); a complete download is a prefix of the log (`CompleteExportIsHistory`), cursors stay good while it grows and slots come back (`ContinuationHonoured`), nothing is sent before it is on record (`DisclosureOnRecord`). |
| `sessions` | 4 request slots, 9 workloads | What was revoked stays revoked (`RevocationHolds`), a key has one successor (`OneSuccessor`), attempts are bounded (`AttemptsBounded`), a withdrawn signing key is not trusted past the cache lifetime (`TrustedKeyFresh`), proofs and login transactions are spent once (`SpentOnce`). |
| `cache` | 1 scope, 2 kinds, 1 reader, 1 user, 3 environment events | No lost wakeup, a paused view is stable, rows outlive outages, and the cache converges to the clusters. |
| `surfaces` | 2 sessions, 2 contexts, 3 requests, 6 workloads | The gate's count is exact and loses no wake-up (`GateSound`); only a reviewed edit is written, over what was reviewed (`ReviewedIsWritten`); forward slots are exact (`SlotsExact`); a replaced session closes after its requests (`LeaseHonoured`) and is torn down in the end (`RetiredIsTornDown`). |
| `evidence` | 2 clusters, 2 namespaces, a handful of responses per connector | What projectors emit the graph accepts (`ProjectionsAccepted`), a history that was cut says so and a cost rollup reports exactly the scopes whose response was accepted (`OmissionsDisclosed`), order decides nothing (`OrderFree`), a fleet verdict names exactly the clusters with a verdict and fresh evidence of their own (`FleetVerdictHonest`), a resolution is ready only while its provenance is valid (`ReadyIsCurrent`). |
| `evidence_stale`, `cache_run` | as `evidence` and `cache` | *Violations* (section 6). |

**Bounds.** Three calls of two callers let a caller start a flight, give up, come
back and join or outlive it while the other one waits for it, or start a second
flight of the workspace after the first. Three spokes on two workers leave
one spoke unadmitted while two are in flight, which is the smallest case in which
shutdown drops something in each place. Two attempts on one spoke are two
replicas, or one replica and its successor. Four transactions on two chains give three
writers on one head and one elsewhere; the sequence limit 3 stands for `MaxInt64` so
that the full chain is reached. Three export requests with pages of one entry give
a first page, a continuation and a writer in between; two slots are fewer than the
requests. For grants, lifetime 2 and three ticks place a statement before, at and
after the expiry. In `cache`, the budget of three events covers every combination of
three changes, outages, edits, pauses, refreshes and truncated answers; the
program's own steps are not bounded. In `evidence`, a limit of two expected scopes and
lists of one to three, one with a scope twice, give rollups that are complete, partial, and refused. It has one scope, which the kubeconfig may lose
and regain; a second scope multiplies the watch goroutines beyond TLC's reach.

`sessions`, `snapshots` and `surfaces` start in one of several *workloads*, a
record that says which requests may arrive and how often the environment may act.
Each is one kind of trouble (a rotation beside an exchange, two replicas on a
changing spoke, a folder import under running tunnels), because all kinds at once
do not fit. Within a workload every order is explored.

Deadlock is checked in `refresh`, `collector`, `chain`, `approvals`, `export` and
`cache`, where a `Quiet` (`Returned`) step stands for the end of the observation and is
enabled only when every call of the bound has ended. The other runs set
`CHECK_DEADLOCK FALSE` because a workload simply ends.

**Symmetry** is used in `approvals` and `export`, which check no liveness and
treat transactions and workspaces alike.

**Fairness.**
- `refresh`: weak fairness of each caller's own steps, since a runnable goroutine runs.
  That flights end is not part of the specification; `CallsAnswered` assumes it and
  `CanceledWaitEnds` does not.
- `collector`: weak fairness of the loop and of each worker. A transport call ends
  because `collectSpoke` gives it a deadline; store calls are assumed to answer.
- `chain`: weak fairness of each transaction that is not waiting for a lock. Every
  transaction is used once, so an unfair lock queue cannot starve one for ever.
- `cache`: weak fairness of synchronisations, of `Run`, of the watch goroutines, and of
  the resync timer. The user and the clusters owe nothing.
- `surfaces`: goroutines are scheduled, deadlines pass, a stopped tunnel returns and
  PortForward's own API calls answer. An operation behind the gate need never return.

## 4. What is proved

Eight modules of proofs establish the following for every set of workspaces, callers,
transactions, requests, spokes, sessions or clusters and every bound. The assumptions
on constants are named in the modules that declare them, and TLC evaluates them in
the runs. They say that bounds and limits are naturals, most of them positive
(`CallsAssumption`, `ChainAssumption`, `LifetimeAssumption`, `ExportAssumption`,
`PoolAssumption`, `HydratorAssumption`, `AppAssumption`, `CredentialAssumptions`);
that "nobody" is not somebody and names do not clash (`NoWorkspaceAssumption`,
`NoTxAssumption`, `AppsAssumption`, `CallersAssumption`); that a proposal has a
proposer and its grants are in one workspace (`BindingAssumption`,
`WorkspaceAssumption`); and what a workload and the first rows of the database look
like (`WorkloadsAssumption`, `WorkloadAssumptions`, `RowAssumptions`: a token request
goes to a configured provider, a digest stands for one cloud proof, a binding is
stored in its own workspace, an initial key has its columns).

| Module | Proved |
|---|---|
| `RefreshCoordinatorProofs` | `SingleFlight`, `OwnWorkspaceResult`, `JoinsLiveFlight`, implements `SharedRefresh` |
| `SpokeCollectorProofs` | `CoverageHonest` |
| `AuditChainProofs` | `ChainVerifies`, `ChainTypeOK`, `AckedIsDurable`, `AppendOnly`, implements `AuditLog` |
| `ApprovalGrantsProofs` | `AuthorizedAtCommit`, `SpentOnlyInTime`, `GrantAudited` |
| `AuditExportProofs` | `AllowedIsRecorded`, `DisclosureOnRecord`, `CompleteExportIsHistory`, `ContinuationHonoured` |
| `HydratorProofs` | `NoLostWakeup`, `PausedIsStable`, `RowsOutliveOutages` |
| `HubCredentialsProofs` | `TrustedKeyFresh`, `RevocationHolds`, `OneSuccessor`, `SpentOnce`, `AttemptsBounded` |
| `LocalAppProofs` | `LeaseHonoured`, `ReviewedIsWritten`, `GateSound`, `SlotsExact` |

Few of these are inductive. What each proof adds, and why:

**Audit chain.** A chain that verifies is not inductive: an append could link to a head
that is no longer the head. `ChainInv` adds what rules this out. A transaction between
its `FOR UPDATE` and its end holds the head row, and the head that it read is still
the committed one (`HoldsHead`); an empty chain has the zero hash (`EmptyHead`);
answers and entries fit the stages (`Accounted`, `EntriesCommitted`). The only step
that touches rows is the commit; `ExtendVerifies` shows that the rows with the entry
after the head verify against the new head. For the refinement, the log of a workspace
is the sequence of the transactions in its entries; a commit appends to it, a rollback
is a failed append, every other step is invisible.

**Refresh coordinator.** `CoordinatorInv` says that the map holds exactly the running
flights (`FlightsTracked`), that the flight inside `finish` holds the mutex and is no
longer in the map, and that calls in progress are distinct and those that wait hold a
flight of their workspace (`CallersTracked`). Two unclosed flights of a workspace are
then both in the map, both hold the mutex, or one is in a map entry that the other
emptied. For the refinement, closing `done` completes the refresh, and since the
flight is the only one of its workspace, all undecided callers of the workspace are
waiting for it.

**Collector.** The requested spokes are the ones to admit, the active ones, the one
being persisted and the rest, the settled ones (`Pool`). On the settled ones store,
coverage and observations say the same (`Agreement`, `Observations`), with
`coverage.reachable` a cardinality; the other ones have no facts of this refresh. The
loop ends without an error only when nothing is left to admit or active (`Ended`).

**Approval grants.** The roles were checked several statements before the commit, so
`ApprovalInv` says what keeps them: from its check to its end a call holds the
membership rows `FOR SHARE` (`MembersHeld`), and what it has written and not committed
is its own new grant or one that it may still spend, which no other call has written
(`DraftOK`, `DraftsApart`). `LedgerInv` relates table and chain for `GrantAudited`: what a
transaction is about to append is what it wrote (`Announces`), entries end at the head
that it holds (`HeadHeld`), and the unique key covers uncommitted rows as well
(`KeysApart`).

**Export.** The log grows between any two pages, so `ExportInv` follows every cursor,
page and verifier wherever it is on its way (request, response, client): each
describes a prefix of the log of its workspace (`GoodCursor`, `GoodPage`,
`GoodVerifier`), and such a description survives an append (`CursorKept`, `PageKept`,
`VerifierKept`). `PageIsGood` shows that the page read for a good cursor passes every
check.

**Cache and hydrator.** `NoLostWakeup` is inductive and `PausedIsStable` needs no
invariant: every mutation asks whether the store is paused first. `RowsOutliveOutages`
does need one. Rows are removed by answers and events that were made earlier, so the
invariant says of each row, answer, stream and queued event that its scope is known
to the connector or its context was dropped (`Met`), and that what an answer leaves
out without saying so was deleted or is of no scope of the connector (`AnswerFits`).
The connector's scopes do not change under an answer, because only the one
synchronisation that holds the store discovers (`Exclusive`).

**Credentials.** Four invariants over one account of the stages of a request (`Base`).
`KeyTimes`: the time of a fetch is read before it, so a cached key that was withdrawn
since was fetched before that. `KeyTableInv`: a key that was dead when an exchange began
stays dead, whatever is rotated, removed or added again, and so is the row that the
exchange read (`Dead`, `RevokedAt`); the key that a committed rotation replaced names
it (`Successors`). `SpentInv`: the guard keeps a spent proof until it expires (`Kept`),
although the expiry is compared before the mutex; a login that was taken is no longer in
the table, and one callback took it (`LoginAt`, `Taker`). `Windows`, for the limiter: an
entry counts what its window let through (`Running`), and before it, or after an
eviction (`Forgotten`), less than a full window remains in any stretch, because the
earlier window began with an attempt that is too old by then.

**Local surfaces.** `LeaseInv`: outside a closing host only a retired session without
leaseholders is past "open". `EditInv` follows versions. A preview's manifest is no newer
than the object it was compared with, and its dry run succeeds only on the manifest's
version, so the object compared is the one of that version. One apply spends the
preview's token, carries the same manifest into every operation it starts, and an
update of it succeeds only on that version. `GateInv` says that the gate's count is the
number of operations and admitted callers of the context. A release must take one from
that number, so no two operations may be alike: a handler starts each kind of operation
at most once, since how far it is decides what it starts next (`OncePerCaller`).
`SlotInv` follows a slot from hand to hand: a request that starts a tunnel has it, the
registered tunnel takes it over, and the first of the tunnel's monitor, its deletion and
`closeAll` gives it back. What is in the map, was taken by `closeAll` or is being deleted
is a tunnel that was registered (`Entered`), and it no longer runs unstopped when it is
released (`TunnelFits`, `DeletesEntered`).

**How the proofs are organised.** An invariant is proved step by step, with one lemma
per action or per group of actions that change the same things, and lemmas about what
a change of one record leaves true. Lemmas that count assume `Counting`, seven facts
about finite sets collected in the module of that name, and each module that uses them
proves `Counting` from the library (`CountingHolds`) before its theorems; in this way the
library's theorems are not in scope of proofs that do not count. Steps of pure logic
name the prover `Zenon`, or the proof they belong to does (`USE Zenon`); the others are
left to the default.

**Only model-checked:**

- Liveness (`CallsAnswered`, `CanceledWaitEnds`, `Terminates`, `TransactionsEnd`,
  `CacheConverges`, `RetiredIsTornDown`) and `NoStandstill`, which speaks of `ENABLED`:
  outside the prover.
- `OneAttemptStored`, `SnapshotComplete`, `RuntimeProven`, `AnswersConsistent` (`FleetStore`) and
  `ProjectionsAccepted`, `OmissionsDisclosed`, `OrderFree`, `FleetVerdictHonest`, `ReadyIsCurrent`
  (`Investigation`): what they say is computed by folds over rows, facts and responses,
  and needs induction over that data, which the prover does not do.

## 5. What is not modelled

- PostgreSQL's isolation is represented by what the statements rely on: row locks,
  waiting on uncommitted keys, a re-evaluated `WHERE`, repeatable-read snapshots,
  commit and rollback. Row-level security and `RequireWorkspace` keep a transaction in
  its workspace; that is taken from the code, not checked. `RotateAPIKey` is one step: its
  `FOR UPDATE` is assumed, so the model would not notice if it were lost. Migrations run in one
  serializable transaction under an advisory lock, so a model of them would assume what
  it is asked to show.
- Cryptography, signatures, JWKS parsing, TLS and key files are the outcome that the
  code gets from them. A hash or a digest is what it digests. Strict JSON decoders are
  one bit, whether the bytes are accepted; the scan of payloads for sensitive keys
  (`hubfleet/collector.go` 609-690) is not modelled.
- Limits on encoded bytes (the input of a cost rollup and the rollup itself, `opencost/rollup.go`
  251 and 170, and payloads elsewhere); limits on numbers of things are modelled.
- An audit chain without a head row: `Verifies` holds of it, where the code answers that the
  chain is not initialized (`hubdb/policy_audit.go` 361-368). A resolver whose clock reads
  the zero time (`remediation/gitops.go` 344-346): the modelled clock starts at 1.
- A restart of the hub, which empties the attempt limiter, the replay guard and the login
  transactions. Everything in the database is modelled without reference to a process.
- `runPollingFallback`, the path of the hydrator for a reader without `Watch`, and
  byte budgets and bookmarks of the list-watch loop.
- In the local surfaces: logs and exec (client-go streams without state), the flag of
  `handleSync`, a second `Discover` of one session, read-only views, and the discovery call
  that precedes an operation on a kind that is not built in (`local_objects.go` 205-212).
  `desktopHost.Close` retires the session and starts its close in one step.
- The panels of the terminal UI.
- `hubruntime` (process composition; the waiting is inside `net/http`), delivery of
  authentication refusals (best-effort datagrams), the MCP server, the command line,
  configuration, logging, metrics (except the collector's per-attempt observation),
  formatting and release tools.

## 6. Disagreements and observations

Two runs show that the code does other than its documentation says:

- `cache_run`: `hydrator.go:142` says that `Run` keeps the cache warm. An event of a
  scope that the store has not discovered ends it with an error (`hydrator.go:193`),
  for example after a refresh dropped the context of a stream that still runs.
- `evidence_stale`: `E2-readfed-brain-integrations.md:499` says that stale LIVE evidence
  leaves R7 unconfirmed. `unavailable` (`brain/evaluate.go:138`) asks for any
  fresh observation of the lens, so a stale trigger beside another fresh one is
  confirmed.

The following were met while modelling. The models behave this way; no run checks it.

- *Collector*: a recovered panic of one spoke's transport ends the collection before its
  peers are collected (`collector.go:290`; the comment at 136 speaks of failures).
- *Cache*: a kind stays warm when a later synchronisation of other kinds discovers
  another scope (`store.go:618`), while `F11.2-F11.5-local-fleet-ux.md:127` defines warm
  as "all reachable contexts hydrated".
- *Snapshots*: of two replicas the older attempt may commit last. `QueryFleet` caps the
  facts at its limit without setting `Coverage.Truncated`. A Pod with more than 64
  digests, or an image with more than 256 CVE ids, fails its whole snapshot.
  `hubdb` validates with the default age whatever age is configured.
- *Sessions*: only the OIDC service, the limiter and the browser handler are wired into
  the hub (`hubruntime/config.go`); API-key and cloud exchanges are modelled from the
  library. Two tabs share the one login cookie.
- *Surfaces*: `ensureLocalContext` stores "unreachable" for a context whose first probe was
  cancelled by its caller, until the next `Discover`. A slot is freed before its tunnel has
  ended. A preview in flight at `Close` may issue a token after the clear. An apply
  reported as timed out may still land. `PortForward` runs outside the gate with no
  timeout, so an API server that hangs keeps a retired session leased.
- *Evidence*: facts from the kubeconfig carry a `gvr` attribute on their reference, with
  which no verdict is valid, so verdicts from the cache always abstain. The resolver and
  `FromGraphFacts` are not wired into the command line. R1 is never `confirmed`.
- *Terminal* (not modelled): a late text or stream (`tui/model.go:205`, `:212`) is shown
  in whatever panel is open.
