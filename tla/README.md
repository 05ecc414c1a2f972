# Verification of the UKIP back end

TLA+ models of the parts of the Universal Knowledge Intelligence Platform that run
concurrently and fail, checked with TLC on small instances and, for their safety, proved
with TLAPS for every instance.  Paths below are relative to the repository
(`backend/` is `src/backend/`).

## 1. The system and its components

UKIP is a FastAPI back end over SQLAlchemy (PostgreSQL in production, SQLite in
development), with in-process scheduler threads, separate job worker and job scheduler
processes, a Rust compute engine reached over gRPC, and a web front end.  Most of its code is
sequential: request handlers that query, compute and answer.  The parts below keep state
that several actors change.

| component | state | operations | actors and interaction | what makes it correct |
|---|---|---|---|---|
| durable job runtime (`backend/jobs/{states,service,runtime}.py`, `routers/jobs.py`) | table `background_jobs`: status, attempt, available_at, lease | enqueue, claim, renew_lease, complete, fail, promote, recover, cancel, replay, purge | producers, any number of workers, one scheduler, operators; they meet in the table only | the state machine, one holder per attempt, bounded attempts, backoff, every job ends |
| circuit breaker (`backend/circuit_breaker.py`) | state, failure count, time of the last failure | call, state, reset | enrichment tasks and API threads share one object per provider | trips, probes, reopens, heals |
| job migration and handlers (`jobs/migration.py`, `jobs/handlers.py`) | mode in the environment, mode in the payload | dispatch_due, enqueue_occurrence, the three handlers | scheduler threads produce, workers execute | an occurrence is executed once, by the side the mode names |
| job metrics (`jobs/metrics.py`) | heartbeats of one process | heartbeat, live_workers, health | workers write, the API reads | health tells the truth |
| scheduled reports and imports (`routers/scheduled_*.py`) | last_status, next_run_at | CRUD, trigger, due scan, execute | a thread per API process, requests, job workers | a due schedule runs, none is stuck |
| enrichment worker and schedule (`enrichment_worker.py`, `services/enrichment_scheduler.py`, enrichment endpoints of `routers/entities.py`) | enrichment_status per entity | claim, provider cascade, write back, queue in bulk or by schedule, startup reset | a loop per API process, job workers, requests, a scheduler | no entity stuck in processing, none claimed twice, a pending one is settled |
| authority batch (`authority/auto_enqueue.py`, `batch_worker.py`, `batch_resolution.py`, batch endpoint of `routers/authority.py`) | table `authority_resolve_jobs`, authority records | enqueue, claim, resolve a label, finish, fail, reset_stale_jobs | ingests, requests, a worker per API process | one worker per job, no label resolved twice, no job lost at a restart |
| cache (`cache/`) | entries with expiry, in process or in Redis | get_or_load, set, invalidate | all request threads | no stale value after an invalidation |
| websocket manager (`ws/manager.py`) | connections per channel | connect, disconnect, broadcast | coroutines of one loop | no send to a removed socket, no leak |
| coauthorship (`write_coauthor_artifacts` and `coauthor_recompute_loop` in `enrichment_worker.py`, `coauthorship/recompute.py`) | contributions, edges, statistics, dirty markers | record a contribution, mark, recompute, force | enrichment sessions, a loop per API process, requests | an entity counts once, no write is forgotten by the statistics |
| retrospective layer (`retrospective/`) | append-only facts | emit, write, snapshot | all writers | at most one fact per key |
| compute engine (`engine/src/{jobs,server,main}.rs`, `services/engine_client.py`) | permits, jobs in memory, rows of `engine_jobs` | submit, run, settle, evict, query, shut down, recover; fall back to Python | tokio tasks, gRPC requests, the ingest | memory and rows agree, permits return, a batch is materialized once |
| tenant quotas (`tenant_quotas.py`) | usage counts | check, consume | requests | limits hold |
| workflow engine (`workflow_engine.py`) | runs and their steps | trigger, run | events, requests | a run ends in one status |

The rest (adapters, analyzers, exporters, importers, OLAP and retrieval, language-model
agents, internationalisation, the front end) computes over query results or calls external
services and has no protocol of its own; `PROJECT.json` lists it as not modelled.

What is hard to test here, line by line, is the `hazards` list of `PROJECT.json`.

## 2. The modules

| module | models | used by |
|---|---|---|
| `JobLifecycle` | the state machine of `jobs/states.py` as the sessions move it: single statements, and checks that are written later | implemented by `JobQueue` |
| `JobQueue` | the job runtime, commit by commit | `MCJobQueue`, `JobQueueProofs`, `JobLifecycleProofs` |
| `CircuitBreaker` | the breaker, critical section by critical section | `MCCircuitBreaker`, `CircuitBreakerProofs` |
| `ScheduleDispatch` | scheduled reports and imports, their dispatch in process or to the job runtime, and the handlers | `MCScheduleDispatch`, `ScheduleProofs` |
| `EnrichmentQueue` | `enrichment_status`: the loops that claim, the sessions that do not, everyone who queues | `MCEnrichmentQueue`, `EnrichmentProofs` |
| `Coauthorship` | what an enrichment writes to the co-authorship graph, and its statistics | `MCCoauthorship`, `CoauthorshipProofs` |
| `AuthorityBatch` | the jobs that resolve ingested labels | `MCAuthorityBatch`, `AuthorityProofs` |
| `EngineJobs` | asynchronous jobs of the compute engine, and its client | `MCEngineJobs`, `EngineProofs` |

An `MC...` module declares the model values of the runs and the symmetry; the `.cfg` of a run
has the same name as the run.  Variables under "history" record what happened for the
properties to refer to; no guard reads them.  A definition whose comment begins with "Mutant" is not part
of a specification: it is a bug one could write in the definition that follows it, and
`PROJECT.json` names the property that would notice.  `PROJECT.json` also gives the source
lines of every definition.

### JobQueue

The columns of `background_jobs` are the functions `status`, `attempt`, `wait`
(`available_at`), `owner` and `ttl` (the lease).  Each worker, scheduler and cancel request
is a database session.  What matters is where sessions commit:

- `claim` selects a candidate (`ClaimSelect`) and updates it if it is still queued
  (`ClaimUpdate`), in two statements;
- `complete`, `fail` and `cancel` check the transition on the row the session has loaded
  (`Settle`, `CancelRead`) and write it by primary key (`SettleCommit`, `CancelCommit`).  A
  commit of another session in between is overwritten: the ORM's UPDATE has no condition on
  the status;
- `recover_abandoned_leases` reads the stale set (`SupScan`) and fails its jobs one commit at
  a time (`SupNext`, `SupCommit`); an `InvalidTransition` ends the tick;
- `promote_retry_ready` is one UPDATE (`Promote`).

`JobLifecycle` says the same with less: a transition of `claim`, `promote_retry_ready`, the
insertion or the purge is one statement (`Move`); the others are checked (`Check`), held as an
intent of the session, and written whatever the row has become (`Write`).  `JobQueue` implements
it with `Intents`, the workers, schedulers and cancel requests between their check and their
commit.  So every change of a status is one the table allows from what some session read: that
is what is left of the state machine when check and write are apart.  What the documents claim
beyond it (`ComparesAndSets`, `AttemptsBounded`, `LeaseExclusive`, `RunningNotCancelled`) stands
at the end of the module, and fails.

On PostgreSQL `_select_candidate_id` also locks the candidate (`FOR UPDATE SKIP LOCKED`);
the model leaves the lock out and so admits every behaviour of the SQLite path, which
includes those of PostgreSQL.  Jobs of equal priority are claimed in any order.  Time is
relative and saturates where only a comparison with zero matters.  A handler that never
commits keeps the row its session loaded at the claim; that is a `Settle` taken early.

### CircuitBreaker

`call()` is two critical sections (`Start`, then `RecordSuccess` or `RecordFailure`) with the
provider's answer outside the lock in between, where it may raise (`Raise`).  `_current_state`
changes the state when it is read (`CurrentState`).  The failure count saturates at the
threshold and the time since the last failure at the recovery timeout, because they are only
compared with those; the counters for display are left out.

### ScheduleDispatch

A row of `scheduled_reports` or `scheduled_imports` is `active`, `last` (`last_status`), `due`
and `occ`, the number of its current `next_run_at`.  The processes are the scheduler threads of
the API replicas, the job workers and the manual triggers.  All execute alike: `Begin` commits
`running`, `Reload` reads the row again after the commit expired it, `Work`, `Err` or `Raise` is
what happens, `Finish` commits the outcome and the next `next_run_at`.  `loaded` is the
`last_status` in the session: SQLAlchemy writes a column only when it differs from the loaded
value, so an executor that finds its own outcome already there does not write it, and with
overlapping executions that decides who has the last word.

A replica reads the due list (`Scan`), and dispatches its entries one after the other
(`Proceed`) without checking them again.  In shadow and queue mode `dispatch_due` enqueues
first: `Find` looks the key up, `Insert` inserts it or meets the unique constraint, and these
are two statements, so two replicas may both find nothing.  `EnqueueFails` is the exception
`dispatch_due` swallows.  A job carries the mode of its dispatch in its payload; its handler
(`Claim`) does nothing for a shadow job.  The job runtime is here by what matters to its users: a
claim takes a queued job, `complete` and `fail` check it (`SettleRead`) and write it by primary key
later (`SettleWrite`), the recovery does the same (`Recover`, `RecoverWrite`) to the job of a dead
worker or of one that is too slow, and either may write over the other.

`Raise` is an exception that leaves the executor at any point, after the work too: the commit
that follows the mail may fail, and the `except` of `_execute_report` then commits on a session that
needs a rollback.  A worker's job is then failed and retried, a thread goes on or gives up its
list.  `FirstStatuses` has the first `last_status` of a schedule: `pending` for reports, NULL
(`None`) for imports.  History: `done` and `sent` count the work done by a thread and for a job,
`lapses` the leases that expired and the executions that raised after the work, `flipped` has the
replicas restarted in another mode, `stranded` the schedules left `running` by a lost executor.

Left out: creating and deleting schedules while the system runs, cancelling and replaying
their jobs, two values of `next_run_at` within a second (the key has no microseconds), an
interval changed back to its former value (which restores the former `next_run_at`), and the
rows a raising import leaves in a scheduler thread's session, which the next commit of that
session writes.

### EnrichmentQueue

`status` is the column `enrichment_status`.  The loop of each API process claims with a SELECT
(`ClaimSelect`, in no order) and an UPDATE that checks the status again (`ClaimUpdate`), reads
the row (`Get`), searches (`Enrich`, over `Cascade`, where a provider behind a breaker answers
with a match, nothing, `CircuitOpenError` or another exception) and commits (`Commit`).  As in
`ScheduleDispatch`, a status equal to the one that was loaded is not written.  `Escape` is an
exception that leaves `enrich_single_record`.  The row endpoint (`EnrichRow`) and the handler of
`enrichment.execute` (`ExecuteJob`) enrich without claiming.  Entities are queued by the bulk
endpoints, which load and write by primary key (`BulkRead`, `BulkCommit`), and by the scheduler
(`SchedulerSelect`, `SchedulerRequeue`), in every migration mode.  `Startup` is
`reset_stale_processing_records`, which takes back the entities of every process.  The bootstrap is
fail-open (`main.py:280-293`): when it raises, the process starts its loop without the reset
(`StartupFails`).  `disturbed` remembers the entities whose status somebody wrote under a loop that
held them, `orphaned` those an exception, or a process that came up without the reset, left in
processing.

The breaker is taken from outside, by its answers; `CircuitBreaker` has it in detail.  The page
of the bulk selection, the log of scheduler runs and what follows the commit (caches, events,
derived signals) are left out; the co-authorship writes have a module of their own.

### Coauthorship

One pair of authors and the scopes (organisation, domain) their entities may be in.  `contrib[e]`
is the scope of the entity's `CoauthorContribution` and `AuthorPublication` rows, `weight` the
edge, `stats` the weight the statistics were computed from, `marker` the row of the dirty queue.
A writer is a session after an enrichment: it reads the scope (`Start`) and the old publications
(`Publications`), inserts the contribution, where it waits for another inserter of the same key
(`Contribution`), loads the edge (`Edge`) and the marker (`Mark`), and its caller commits
(`Commit`): the weight stored is the one loaded plus one, a row that appeared since its lookup
is an IntegrityError (`Taken`), a marker that disappeared may be one too (`Vanished`).  The loop
loads the markers past the debounce window (`Scan`) and goes through them (`ReadEdges`, `Wipe`,
`WriteStats`, which deletes the marker); a request recomputes one scope (`ForceRecompute`).
`departed` counts the contributions deleted from a scope by a reassignment, `raced` has the scopes in
which a write and a recompute, or two recomputes, overlapped, `crowded` those in which a writer stored
an edge that another one had loaded.

Left out: several pairs per entity (whose edges two sessions update in orders of their own), the
merge of authors, the migration script and the graph algorithms.

### AuthorityBatch

One organisation, field and entity type.  `live[v]` counts the resolutions whose records label v
has.  An ingest commits a label, looks for an open job and unresolved labels (`Check`) and
inserts a job (`Enqueue`), in that order and unprotected; requests insert without looking
(`Request`).  The worker of each API process claims the oldest pending job (`ClaimSelect`,
`ClaimUpdate`), selects its labels once (`SelectValues`) and resolves them with a commit after
each (`Resolve`); `Finish` and `Fail` write the job by primary key, `Escape` is a failure that
cannot be written, `Startup` is `reset_stale_jobs`, `StartupFails` a start at which it raised, which
`main.py:199-203` swallows, or which the bootstrap did not reach.  A request with `sync=true` runs the same
resolution without a job and commits once at the end (`InlineSelect`, `InlineCommit`).
`Discard` rejects or deletes the records of a label.  `overlapped` records that two runs were
under way together or one was told not to skip what exists.  The candidates of a label, and so
their scoring, are one value.

### EngineJobs

A job is an import batch.  `mem` and `row` are its status in the job manager and in
`engine_jobs`, `task` the program counter of the gRPC handler and of the task it spawns.  `Accept`
takes a permit, which the handler and then the task hold until they end, however they end
(`SettleMem`, `Panic`, `Cancel`).  The row is written before memory (`SettleRow`, `SettleMem`), and
`WriteRow` lets any write fail, which the engine logs and ignores.  `View` is `get_or_fetch`.
Shutdown fails the active jobs in memory and then in the table while tasks go on (`FailMem`,
`FailRows`, `Exit`), a crash ends everything, `Restart` is `recover_stale_jobs`.  The client gives
up after its deadline (`Timeout`) and materializes the batch in Python (`Fallback`).

Left out: `process_sync`, which takes no permit and keeps no row, the progress stream, the
pipelines, and the client's shadow and no-fallback modes.

## 3. What the runs show

Passing runs:

| run | instance | properties |
|---|---|---|
| `JobQueueSafety` | 2 jobs, 2 workers, 1 scheduler, 2 attempts, a crash, lost updates | two workers never hold the same attempt (`ClaimsDistinct`); a running row has a lease, so the supervisor can find it (`RunningIsLeased`); a lease changes hands only through the table (`LeaseHandover`); backoff holds (`NoEarlyClaim`); recovery takes only expired leases (`RecoverOnlyExpired`); lost updates cost at most one extra attempt per other worker (`AttemptsCapped`) |
| `JobQueueLiveness` | 1 job, 2 workers, 1 scheduler, a cancel request, renewal and purge, 2 crashes, lost updates | the table implements `JobLifecycle` (`FollowsLifecycle`); a row that can be claimed has no lease (`ClaimableUnleased`); every job ends (`EveryJobEnds`) |
| `CircuitBreaker` | 3 threads, threshold 3 | a failed probe reopens (`FailureReopens`); a closed circuit has a failure to spare (`ClosedBelowThreshold`); the circuit heals once the provider stays up (`SelfHeals`) |
| `ScheduleFaults` | 1 schedule with a first status or none, 2 replicas, 2 workers, every mode and a change of it, 2 crashes or expired leases, 1 exception, failed enqueue or restart | one job per occurrence (`OneJobPerOccurrence`); the work of a job is repeated only as often as a lease expired or an execution raised after it (`EffectsExplained`); thread and job do not both execute an occurrence unless the mode was changed (`OnePath`) |
| `ScheduleThreads` | 2 schedules, 2 replicas that work through due lists of their own, every mode and a change of it, 1 exception, failed enqueue or restart | a thread works once per occurrence, however stale its list is (`ThreadRunsOnce`) |
| `ScheduleLiveness` | as `ScheduleFaults`, with 1 replica, 1 worker, a manual trigger, a crash or expired lease | `running` is left behind only by an executor that was lost (`RunningHasExecutor`); the same of a thread beside workers and triggers (`ThreadRunsOnce`); a due schedule is executed, unless it never had a status, its executor was lost or its job is a dead end (`DueRuns`) |
| `Enrichment` | 2 entities, one without a label, 2 loops, a session that does not claim, a bulk request, the scheduler in shadow or queue mode, a restart, an exception or a failed reset | an entity is claimed once until somebody writes over the claim (`ClaimExclusive`); `processing` is left behind only by an exception or a failed reset (`ProcessingHasWorker`); a pending entity is settled or so left behind (`PendingSettles`) |
| `CoauthorWrites` | 2 writers, 2 entities, 2 scopes, 2 moves | an edge counts the contributions its scope has and has had, none twice, and none is missed unless two writers had loaded the edge (`ContributionsCounted`) |
| `CoauthorRecompute` | an entity enriched any number of times and moved once between 2 scopes, 2 recomputers, a forced recompute | stale statistics have a marker unless something overlapped (`StaleIsMarked`); a marked scope is recomputed (`DirtyRecomputed`) |
| `AuthorityBatch` | 2 labels, one of them unknown to the sources, an ingest, 2 workers, 2 jobs or one and an inline request, a restart, an escaped exception or a failed reset, a discarded label | one worker per job (`ClaimExclusive`); no label is resolved twice (`ResolvedOnce`); `processing` is left behind only by an exception or a failed reset (`ProcessingHasWorker`); a pending job ends or is so left behind (`PendingEnds`) |
| `EngineJobs` | 2 batches, 1 permit, 2 shutdowns or crashes, 2 lost writes or panics | permits balance (`PermitsBalance`); what a client was told is final (`ToldIsFinal`); a batch is materialized twice only if its client stopped waiting (`TwiceOnlyLate`), and at least once or reported as failed (`SubmissionSettles`) |

Violated, with a finding in `PROJECT.json`:

| run | what TLC finds |
|---|---|
| `CoauthorWeight` | two sessions enrich two entities of the same pair of authors, load the same weight and both store it plus one: both contributions are recorded, the edge has grown by one, and no later enrichment repairs it, since both are skipped as counted (`ContributesOnce`) |

The modules show more.  The following are formulas of the modules, or properties without one of
their exceptions, that TLC refutes on the instance of the named run; they are why the properties
say what they say:

- `ComparesAndSets` fails in `JobQueueLiveness`: a cancel request reads a queued job, a worker claims
  it, the request commits (`jobs/service.py:283-290`), and `cancelled` is written over `running` with
  the lease still there.  `jobs/states.py:9-10` says "Transitions are compare-and-set; an invalid
  transition fails closed".  What holds instead is `FollowsLifecycle`.
- `LeaseExclusive` fails in `JobQueueSafety`: `run_once` (`jobs/runtime.py:74`) settles without checking that it
  still owns the lease, so a late worker fails the run of the next holder and the job is handed
  out again within that holder's lease.  `jobs/service.py:4-5` says "both guarantee at most one
  worker claims a job".  `renew_lease` has no caller.
- `OneProbe` fails in `CircuitBreaker`: `call()` rejects in OPEN only, so several threads probe a
  half-open circuit; `circuit_breaker.py:8` says "one probe request is allowed".
- `DueRuns` needs each of its three exceptions.  A process that is restarted, dies or raises in the
  middle of an execution leaves `running`, which the due scan excludes (`stranded`).  A new import has
  a NULL `last_status` (`routers/scheduled_imports.py:175-183`), of which `!= 'running'` is not true
  (line 527), so it is never run until somebody triggers it.  The key of an occurrence does not
  change, so a job that failed for good, or that was made in shadow mode before a change to queue
  mode, ends its schedule until somebody replays it (`DeadEnd`).
- `AttemptsBounded` fails in `JobQueueSafety` (lost updates): the runbook's "stops retrying" is
  only `AttemptsCapped`.  `RunningNotCancelled` fails there too: a cancel request that read the
  row while it was queued writes over the claim.
- `RecoverOnlyExpired` fails with two schedulers: the loop checks the status of each row again,
  not its lease.  `run_job_scheduler.py` calls a second instance merely redundant.
- `CoolsDown` fails in `CircuitBreaker`: the late success of a call from before the trip closes a
  circuit that is cooling down.
- `OneJobPerOccurrence` fails with `Tenant = FALSE` and two replicas: NULL `org_id`s do not
  collide in the unique constraint.
- `EffectsExplained` without `lapses` fails in `ScheduleFaults`: a worker that dies, loses its lease or
  raises between mailing the report and its commit has its job executed again.  `jobs/handlers.py:6`
  and `jobs/runtime.py:8` speak of idempotent handlers; these are not.
- `OnePath` without `flipped` fails there too: a restart from queue to off mode while a job is queued
  has the occurrence executed by both.  And in off and shadow mode every replica executes an
  occurrence: the due scan of one does not keep the other out, so `ThreadRunsOnce` is said of each
  thread.
- `DueRuns` fails with `InProcess = FALSE`: `dispatch_due` is called by the scheduler threads only,
  so `UKIP_INPROCESS_SCHEDULERS=0` stops the production of jobs, also in queue mode.
- `ProcessingHasWorker`, `PendingSettles` and `PendingEnds` without `orphaned` fail in `Enrichment` and
  `AuthorityBatch`: after a kill and a start whose reset failed, an entity or a job stays in
  `processing` until the next start that succeeds.
- `ClaimExclusive` without `e \notin disturbed` fails in `Enrichment`, and without
  `j \notin disturbed` in `AuthorityBatch`: the startup of one API process (in `Enrichment` a
  request, too) takes back what another one is working on, and it is done twice at the same time.
- `StaleIsMarked` without `raced` fails in `CoauthorRecompute`: a write that commits after the edges were
  read loses its marker to the recompute, which deletes it by key.
- `ResolvedOnce` without `overlapped` fails in `AuthorityBatch`: the jobs of an ingest and of
  a request made at the same time, run by two workers, resolve the same labels.
- `TwiceOnlyLate` with FALSE on the right fails in `EngineJobs`: a client that gives up while the
  engine accepts the batch materializes it a second time.
- `ContributesOnce` fails in `CoauthorWrites` in a second way: an edge keeps its weight when an entity
  changes its scope, so one that returns is counted again, and so is one that two sessions move at
  once.  `enrichment_worker.py:449-450` speaks of edges that "lose this entity's contributions", which
  nothing does; `ContributionsCounted` therefore counts what a scope has had too (`departed`), and is
  no statement that an entity counts once.  It fails without `crowded`: that is `CoauthorWeight`.

Seen while modelling, and outside the modules: sessions that enrich entities with several common
authors update edges in orders of their own and may deadlock (`enrichment_worker.py:484`); labels
ingested while a job is open get no job of their own (`authority/auto_enqueue.py:59`); labels no
source knows are selected again by every job and may fill its limit
(`authority/batch_resolution.py:240`); heartbeats of workers are kept in the worker's process
and read in the API's (`jobs/metrics.py:25`).

### Bounds

Two workers are the least with a race for a job, and three actors (holder, late worker,
scheduler) meet in every counterexample found; two jobs make a stale set with a rest.
`MaxAttempts = 2` gives a first, a retried and a dead-lettered attempt, and leaves room for
the attempt too many.  A lease and a backoff of one tick can be running and expired.  Three
callers at threshold 3 can trip the circuit, probe and arrive late at once.  `MaxOcc = 1`
is one occurrence of a schedule that falls due and is executed; the last number never falls due, it
is the state after the bound, in which late executions of the first still end.  `MaxCrashes` bounds
crashes (and, in `ScheduleDispatch`, leases lost by live workers): with 2 and two attempts a job can
be dead-lettered.  `MaxFaults` bounds exceptions, failed enqueues and restarts of API processes,
`MaxDelay` `available_at` of a new job.

In `Enrichment` two loops compete for an entity while a third session and a request write over
it; `MaxRequests = 2` lets a request follow another, `MaxRestarts = 1` and `MaxErrors = 1` let one
process take back what another one holds, or an exception left.  In `CoauthorWrites` two entities and
two moves are the least with an edge that two writers load (an entity that returns meets the other
one), and with an entity that leaves and returns; there are no recomputers, which do not touch the
weights.  In `CoauthorRecompute` one writer is enough for the liveness property and keeps the state
space in reach; `MaxForced = 1` lets a forced recompute meet a pass.  The proofs hold for any number of
each.  In `AuthorityBatch` `MaxJobs = 2`, which counts inline requests too, is the least with a
duplicate, by an ingest and a request; two ingests are covered by the proofs.  `Limit = 2` lets a job
stop between two labels, `MaxRestarts` and `MaxErrors` bound restarts and escaped exceptions or failed
resets, `MaxDiscards` labels that lose their records.  In `EngineJobs` two
batches for one permit wait for each other, `MaxStops = 2` allows a crash after a shutdown's
restart, `MaxFaults = 2` two of lost writes and panics.

### Fairness

Weak fairness of each worker, scheduler, executor and, where it has one, of the clock: the
worker and scheduler loops poll for ever and catch every exception, supervisors restart dead
processes, handlers and requests are assumed to return.  Nothing makes an operator act, a
schedule fall due or a provider recover: `SelfHeals` has "the provider stays up from some
point on" as its premise.

In the later modules the loops of the API processes, the tasks of the engine and the start of a
process that is down, with or without the reset, are weakly fair; requests, imports, restarts and exceptions are not.
`PendingSettles` relies on the bound of requests: the candidate SELECT has no ORDER BY, so with
an endless supply of pending entities one of them may never be selected.  `DirtyRecomputed`
relies on `MaxForced` in the same way: a forced recompute that collides with every pass ends the
pass, and starves the scopes after it.  The engine's client has a deadline, its pipelines are
assumed to return.

## 4. What is proved

TLAPS proves, for every value of the constants that satisfies the named assumptions:

| theorem | statement | argument |
|---|---|---|
| `TypeCorrect`, `BreakerTypeCorrect`, `DispatchTypeCorrect`, `EnrichmentTypeCorrect`, `CoauthorTypeCorrect`, `AuthorityTypeCorrect`, `EngineTypeCorrect` | `Spec => []TypeOK` of the seven modules | inductive as they are |
| `ClaimsExclusive` | `[]ClaimsDistinct` | `ClaimInv`: a worker's claim number never exceeds the row's attempt counter, which every claim raises and nothing lowers |
| `RunningLeased`, `BackoffRespected`, `LeasesHandedOver` | `[]RunningIsLeased`, `NoEarlyClaim`, `LeaseHandover` | `LeaseInv`: `running` and the lease are written together, and a selected row that is still queued is still due |
| `RecoveryOfExpiredOnly` | `RecoverOnlyExpired`, for one scheduler and no renewal | `RecoverInv`: a watched row cannot be queued again before the scheduler's own next promotion |
| `AttemptsStayCapped` | `[]AttemptsCapped`, for one scheduler | `AttemptsPaid`: once the attempts are used up, a row gets back to `retry_wait` only by a worker that read it before (`Reverters`), and each of these does so once; the worker that claimed last is not one of them.  `RecoveryUnclaimed`: while the scheduler fails a job nobody claims it, so that what it writes is decided from the attempts the row has |
| `ClaimableWithoutLease` | `[]ClaimableUnleased` | every write that takes a row back to `retry_wait` clears the lease columns, and `Promote` and the insertion leave them clear |
| `ImplementsLifecycle` | `FollowsLifecycle`, with every race of the code | each step maps to a `Move`, a `Check`, a `Write` or `Drop` of one intent, or a stutter; the sessions' intents are distinct because each has at most one |
| `CountFollowsState`, `FailedProbeReopens` | `[](TrippedCountsFull /\ ClosedBelowThreshold)`, `FailureReopens` | a tripped circuit keeps a full count, so the comparison in HALF_OPEN always succeeds |
| `SingleJob` | `[]OneJobPerOccurrence`, for `Tenant` | only `Insert` makes a job, and only where there is none |
| `RunningObserved` | `[]RunningHasExecutor` | `RunningHasWriter`: some executor will write an outcome, or one was lost.  One that found another outcome in its row may not write, so counting executors alone is not inductive |
| `ThreadWorksOnce` | `[]ThreadRunsOnce` | `ThreadOnce`: once a thread has done the work, the schedule has moved on or is shown as running, so that no scan takes the occurrence up again |
| `RepetitionExplained` | `[]EffectsExplained` | `Explained`: work done, plus executions that may still do it, plus a job that may still be handed out, plus sessions that will write it back, are never more than one plus the lapses |
| `OneWayOnly` | `[]OnePath` | `PathInv`: the mode of a replica that was not flipped decides where its occurrences go (`PathByMode`), its jobs carry that mode (`JobModes`), and the handler of a shadow job does not execute (`WorkerPath`) |
| `EntityClaimedOnce`, `JobClaimedOnce` | `[]ClaimExclusive` of `EnrichmentQueue` and of `AuthorityBatch` | `ClaimInv`: what a worker holds is in processing unless it is disturbed, and the claim's UPDATE takes only what is pending |
| `NoForgottenEntity`, `NoForgottenJob` | `[]ProcessingHasWorker` of the two | `OwedInv` for entities: some loop that holds it will write its status, or it is left to a process that is down (`LeftDown`) or `orphaned`; one that loaded the outcome of another session will not write, so holding alone is not inductive.  For jobs, whose end is always written, the property is inductive as it is |
| `LabelResolvedOnce` | `[]ResolvedOnce` | `RunInv`: while no runs overlapped, at most one worker or request is running, and what it has still to resolve has no records |
| `StaleStatisticsMarked` | `[]StaleIsMarked` | `StaleInv`: what a recomputer has read is the weight still, and a marker a writer has seen is there still, unless the scope is in `raced` |
| `EdgeCounts` | `[]ContributionsCounted`, for a finite set of entities | `CountInv`: inserters exclude each other on an entity, so the contribution one found missing is missing still; a weight that was loaded is the weight still, or the writer will find the key taken, or the scope is `crowded`; and a commit adds exactly one to what is due (`DueGrows`) |
| `PermitsStayBalanced` | `[]PermitsBalance` | every step moves a job into or out of the holders and the count with it |
| `AnswersAreFinal` | `[]ToldIsFinal` | `ToldInv`: memory, row and task of a job agree; an answer was given after the task's last write and is in the row |
| `FallbackOnlyLate` | `[]TwiceOnlyLate` | `LateInv`: a refused job has no task, and Python works only on what was refused or got no answer |

The assumptions are those named in the modules (`...Assumption`): bounds are natural numbers,
kinds of processes are disjoint, `None` is not a member, entities, jobs and workers that are
counted form finite sets.

Only model-checked: the liveness properties (`EveryJobEnds`, `SelfHeals`, `DueRuns`,
`PendingSettles`, `DirtyRecomputed`, `PendingEnds`, `SubmissionSettles`), since fairness and ENABLED
are out of the prover's reach.  Every other property of a passing run is stated by a theorem.

Three theorems have a hypothesis beyond these: one scheduler (`RecoveryOfExpiredOnly`, where also no
lease is renewed, and `AttemptsStayCapped`), which is how it is deployed, and `Tenant` (`SingleJob`), a
schedule that belongs to an organisation.  Section 3 says what happens otherwise.

## 5. Not modelled, and the plan

In the order of their importance:

1. `Cache` (`cache/`): `get_or_load` against an invalidation by another process; failover between
   the backends.
2. `ConnectionManager` (`ws/manager.py`): connect, disconnect and broadcast over await points.
3. Tenant quotas (`tenant_quotas.py`): a count that is checked and an insert, in two statements.
4. What the modelled components leave out (section 2): several pairs of authors and the merge of
   authors, `process_sync` of the engine, creation and deletion of schedules.
5. Job health, the workflow engine, the retrospective layer.

Abstract specifications worth stating: a work queue with a reset, which `EnrichmentQueue` and
`AuthorityBatch` both implement; a map with invalidation for the cache.

The other components listed in `PROJECT.json` stay out for the reasons given there.  They are most
of the code by volume: the front end, request and response schemas, table declarations,
adapters of external services, exports, reports, analytics and language-model calls are input
and output or computation over query results, with no state that several actors change, and a
model of them would say nothing their tests do not.
