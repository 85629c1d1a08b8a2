# Cauveris in TLA+

Cauveris takes an incident bundle and investigates it: an orchestrator runs 18
stages, an HTTP API starts, cancels, retries and resets investigations and
streams their progress, and a job queue lets worker processes run the same
pipeline. These modules model the part of the repository where order matters,
check it with TLC and prove the main results with TLAPS. Paths are relative to
`src/cauveris/`.

## 1. The system

| Component | State | Operations | Hard behaviour |
|---|---|---|---|
| Pipeline orchestrator (`state_machine/orchestrator.py`) | status of each stage, `current_state`, `_cancelled`, `_task`, `_bg_task` | `process_incident`, `_run_pipeline`, `_execute_stage`, `_block_dependent_stages`, `cancel` | cancellation at any await, also before the first step of a task; handlers that write after `cancel` has written |
| Stage rows (`state_machine/persistence.py`) | one row per incident and stage, event log | initialize, update, `cancel_incident_stages` | rows belong to the incident, not to the run: two runs may write them |
| Investigation API (`api/main.py`) | `pipeline_tasks`, `pipeline_progress`, `pipeline_contexts` | reconstruct, reports, cancel, retry, reset, events, websocket, event stream | five writers of one progress entry; a check before an await and the act after it |
| Job queue (`job_queue.py`) and workers (`worker.py`) | job rows or queues, leases, retry counts | enqueue, dequeue, requeue, complete, fail, cancel; the worker loop | several processes on one database, stale reads, dead workers, leases, TTLs |
| Concurrency slots (`concurrency.py`) | holders per key, waiters | acquire, release, heartbeat, cleanup | a wake-up consumed by a waiter that gave up; stale holders still at work |
| Idempotency keys (`idempotency.py`) | one record per key | check, save | two requests with one key; a request that dies while PROCESSING |
| Rate and creation limits (`rate_limit.py`, `api/main.py`) | a log of time stamps per key and window, counts of incidents | check_limit, the checks of `create_incident` | all windows or none; calls that reach the log out of the order of their clocks |
| Model gateway (`model_gateway/`) | breaker, budget, cache | acquire, record, fallback chain | breaker, budget and cache are looked at once, before the waits |
| Repair packages (`packaging/`) | one index file for all candidates, its temporary file, archive files, a copy of the index per request | request, build, download | read-modify-write of the whole index by several processes; a process that dies while building |
| Authentication (`auth.py`) | users, sessions, refresh tokens, audit log | login, refresh, permission checks | none: single reads and writes by token |
| Ingestion, stage computations, temporal and holographic analysis, web client | none shared | pure computation, file I/O, rendering | none that order changes |

The API starts a run by putting an orchestrator in `pipeline_tasks` and calling
`_run_pipeline` in a task; the run calls back to write `pipeline_progress`; the
streams poll that entry; the orchestrator writes the rows as it goes. A
worker's pipeline job calls the same wrapper with an orchestrator that is
registered nowhere. What makes each component correct:

* orchestrator: stages only behind prerequisites that ended well, a verdict the
  stages justify, cancellation that is final, rows that agree with the verdict,
  and an end to every run;
* API: one investigation per incident, progress and rows that say RUNNING only
  while a run is at work, a reset that holds, a stream that ends;
* queue: no job lost, attempts accounted for and bounded, nothing given up
  without cause, one worker per lease;
* idempotency: one execution per key, replays of the answer that created, no key
  refused for ever;
* limits: no interval lets more through than a window's limit, nothing counts in
  one window only;
* gateway: a breaker that trips at its threshold whatever answers come late, a
  budget passed by no more than the calls under way;
* slots: no slot outlives its holders, and no holder loses its slot but by
  cleanup;
* packages: what is READY has an archive, the latest one sealed, and BUILDING
  ends; both as far as builds follow each other, which the code does not ensure.

`PROJECT.json` lists every hazard found in the survey with its line and the
properties that cover it.

## 2. The modules

| Module | What it is |
|---|---|
| `StageGraph` | the stages as a graph (constants and their assumptions), statuses, blocking and halting |
| `CanonicalStages` | the 18 stages of `CANONICAL_STAGE_DEFINITIONS`: count, required ones, prerequisites |
| `Pipeline` | the orchestrator's actions on any number of runs that share one incident's rows |
| `PipelineSystem` | runs on their own: `Init`, `Next`, fairness, and the properties of a run |
| `Lifecycle` | abstract specification: what those who see only `current_state` and the current stage may rely on |
| `Investigation` | the API's registry and handlers, composed with the `Pipeline` actions, and one follower of the progress entry |
| `SQLiteQueue` | `SQLiteQueueBackend` shared by worker processes running `JobQueue._worker_loop` |
| `WorkerPipeline` | composes `SQLiteQueue` and `Pipeline`: worker processes whose pipeline jobs write one incident's rows, with `stop_worker` and deaths |
| `InMemoryQueue` | `InMemoryQueueBackend` with the worker loops of its process, each running several jobs |
| `JobLifecycle` | abstract specification: what a client of a queue may rely on for each job; `InMemoryQueue` refines it |
| `RedisQueue` | `RedisQueueBackend`: worker processes and a client that mix their Redis commands |
| `Admission` | requests with one idempotency key through the middleware, the rate limiter and `create_incident` |
| `RateLimiter` | `check_limit` of the in-memory and the Redis limiter |
| `ModelGateway` | `NebiusModelGateway.generate` under its `ConcurrencyAndCostController` |
| `ConcurrencySlots` | `InMemoryConcurrencyStore` and `ConcurrencyManager.acquire` for one scope |
| `PackageBuilds` | request, build and download of repair packages of any candidates over their one index |
| `ApiServices` | the five modules above side by side |
| `MCPipeline`, `MCInvestigation`, `MCSQLiteQueue`, `MCWorkerPipeline`, `MCInMemoryQueue`, `MCRedisQueue`, `MCApiServices`, `MCAdmission` | instances for TLC |
| `PipelineProofs`, `PipelineSystemProofs`, `InvestigationProofs`, `SQLiteQueueProofs`, `WorkerPipelineProofs`, `InMemoryQueueProofs`, `RedisQueueProofs`, `ServicesProofs` | the theorems |

### State and steps of the pipeline

Everything runs on one asyncio loop, so a step of the model is the code between
two awaits. `pc[r]` says at which await run `r` is suspended: its task has not
begun (`scheduled`), its inner task has not begun (`created`), it is inside a
stage's action (`executing`), a `CancelledError` is on its way (`cancelling`,
`aborting`), the inner task has ended and the outer one has not resumed
(`returned`, `raised`). `at[r]` is the stage it is in, `status[r]` the stages in
memory, `rows` the persisted ones. `StageSucceeds` covers everything from the
return of a stage's action to the next await: the stage's status, the entry of
the next stage or the verdict, and all `_persist_stage` calls in between.
A stage whose action never suspends cannot be overtaken in the code but can in
the model, which therefore has more behaviours, never fewer.

`Cancel` is all of `PipelineOrchestrator.cancel`: the flag, `Task.cancel`, the
sweep of the stages, the state and the sweep of the rows. The error it sends is
delivered later, as `Unwind`: the handlers of `_execute_stage` and
`_run_pipeline`, which write stage, rows and state again. `Interrupt` is a
cancellation of the task from outside (loop shutdown, `stop_worker`).

The following code is unreachable, and the model shows it: the refusals at the
start of `_execute_stage` (378-401; `PrerequisitesMet` and `CancelIsFinal`), and
the branch of the cancel handler that rewrites a RUNNING progress entry without
an active run (`api/main.py` 3887-3897; lemma `IdleRegistered`, from
`ProgressHonest`; the action keeps both branches).

### The API

Each handler is one action from its last await on; `retry` is two, since its
state check precedes the await of its audit write. `kind` records how a run was
started, which decides whether it has a progress callback, whether the
`_run_pipeline` wrapper encloses it, and what `is_running` sees: `http`
(reconstruct and retry), `report` (inside `generate_incident_report`), `queue`
(a worker's job), `reset` (the object a reset registers). `BuildReport` may run
whenever the stored context is not that of a successful run, which includes the
code's condition (no report on disk, no hypotheses, no patches).

### The SQLite queue

A step is one transaction. Python's `sqlite3` opens it at the first UPDATE or
INSERT, so a SELECT before that (`ReadDead`, `ReadRetries`, `CountJobs`) is a
step of its own, and `dead` and `budget` are what it returned. Time is two
flags per job, `overdue` and `ttlOver`, set at any moment after the claim and
the submission. `Crash` is the death, or cancellation, and restart of a worker
process; `claims` is a history variable.

### The workers

`WorkerPipeline` gives each worker process of `SQLiteQueue` an orchestrator: that
of `process_pipeline_job`, alive from the load of the incident (`Launch`) to the
return of the handler (`Discard`, part of whatever ends it). `run[w]` is its
`pc`, `stages[w]` its stages; the rows are shared. `_run_pipeline` logs and swallows
every `CancelledError` and `Exception`, so the handler returns whichever way the
pipeline ended and the loop completes the job without another await (`Finish`);
`Fail` is a load that raised, or a `complete` that did. `Stop` is `stop_worker`
running into its time-out, which cancels the pipeline the handler awaits; the
process ends once the handler has returned. `Die` is a process that dies, or is
stopped before its handler began; a supervisor starts it again. The steps of the
queue are those of `SQLiteQueue`, without the end of a TTL. `lapsed`,
`concluded`, `stopped` and `orphaned` are history variables.

What the composition shows: a job whose pipeline `stop_worker` cancelled is
`completed` all the same and never run again (`CompletedForCause` names this as
one of two causes); a RUNNING row is left behind by a death only
(`RunningRowsHeld`); nothing renews a claim, so a pipeline longer than
`claim_timeout` is run by two processes at the same time, which write the same
rows. Before that the rows are those of the one run (`RowsBackLoneVerdict`). Two
jobs for one incident may run at once as well, so that property is about one.

### The in-memory queue

One event loop runs it, and its methods await nothing but uncontended locks, so
a method is one step; `dequeue` is one step per iteration of the worker loop,
which first looks for a job (`Take`, `TakeNothing`) and later ends one of those
it holds (`LetGo` is the code they share). A lane is the list of one tenant,
`place` the position of a job in it: a job put back goes behind the others of
its priority. `Purged` are the expired jobs that the search removes on its way.
`fail` is two alternatives, `Retry` and `GiveUp`, as is its end when the job was
cancelled meanwhile (`EndUnclaimed`). Two things the model keeps as the code has
them: a job whose TTL ends while it is processed is completed and pruned in the
same call, and `cancel` relabels a job that is already completed. `dequeue`'s
comment says "Find highest priority job across all tenants", but the loop stops
at the first tenant with a job: the order holds inside a tenant only, which is
what `TenantOrderKept` says.

### The Redis queue

Every method is a sequence of commands without a transaction, so a step is one
command that other processes can see, together with the reads next to it, and
a worker may die between any two. `pc[p]` names the next command, `job[p]` and
`copy[p]` what the process has read of the record, `stalled[p]` the overdue
claims it still has to drop. `submit`, `requeue` and `reclaim` share `enqueue`
(`Count` or `Refuse`, `Store`, `Push`). Redis ends records by their TTL
(`TtlEnds`, `RecordEnds`), which leaves entries of the sorted set without one
(`Discard`). `lapsed` is a history variable.

Three ways lose a job, and `LostForCause` shows that there is no fourth: a death
between two commands, a queue that is full when a stalled job is put back, and
`Discard` of an expired entry that was renewed after it was read. A failed job
that a full queue does not take back is not lost but dead-lettered before its
retries are spent, which `GivenUpForCause` says. The first way contradicts the
code's own word: the comment at 704-706, "A dead worker must not take the job
with it.", stands over the call of `_reclaim_stalled_jobs`, which looks at claims
only, while `dequeue` itself removes the job (742) before it claims it (770).
`DeadWorkerKeepsJob` states the comment, and the run `redis_death` refutes it.
`orphaned`, `dropped` and `refused` are the history variables that tell these
cases apart.

### The services

* `Admission`. A record is a Python object that requests hold across an await,
  so it is named by the request that created it, and `entry` is the one under
  the key. A request really suspends only at its body, in the rate limiter, in
  the audit log and at its response; `create_incident` does not suspend between
  its limits and its counts, so `Create` is one step. Nothing lowers the counts
  of active incidents: `_record_incident_completed` and `_deleted` have no caller.
* `RateLimiter`. The in-memory limiter reads the clock, checks and consumes in
  one step; the Redis script is atomic too, but works with the time its caller
  read before it was sent. `MaxDelay` is the longest such trip, 0 for the
  former, and `WindowsHold` is stated for any.
* `ModelGateway`. `Start` is `generate` up to its first await: breaker, budget
  and cache are looked at here and never again. The waits for the semaphore and
  for the provider follow, and answers come in any order. Facts the model keeps:
  HALF_OPEN admits every caller, the last 5xx of a call is raised without being
  counted, the budget is never reset.
* `ConcurrencySlots`. A method is atomic, but `acquire` waits for an event or for
  half a second. A waiter that timed out leaves its event behind, where a wake-up
  may be spent on it; the poll makes up for that. No endpoint acquires a slot.
* `PackageBuilds`. `index.json` holds the records of all candidates. Each request
  loads all of it, works on its copy, and writes the whole copy back at each
  change (`SaveIndex`), with the records of other candidates as they were when it
  loaded; the temporary file (`tmp`) has one name for all processes, so a `Rename`
  may publish what another process has just written, and the loser finds the file
  gone. A step ends at each file written or renamed. Within one process builds
  follow each other, but `Dockerfile.api` starts two workers on one store.
  `overlapped` records whether a build was begun while another was under way, of
  the same candidate or not. While it is false, a READY build is its candidate's
  latest with the archive it sealed (`ReadyTrue`), and BUILDING means that a process
  is at work or has died (`BuildingForCause`), after which further requests are
  refused for good. When builds overlap, even those of two candidates, an old
  copy may put BUILDING back after the build has ended, for good, or bring back an
  old history so that a number is used twice; all that is left is that READY has
  an archive.

The services share no state and never call each other, so `ApiServices` lets
only one of them move per behaviour (`focus`): an interleaving of them shows
nothing that each alone does not.

## 3. The runs

| Run | Instance | Properties |
|---|---|---|
| `pipeline` | 1 run, 18 stages, old rows absent, fresh or of an earlier success | `TypeOK`, `PrerequisitesMet`, `VerdictMatchesStages`, `RowsBackVerdict`, `CancelIsFinal`, `FinishedStagesStay`, `RunEnds`, `KeepsPromise` |
| `investigation` | 3 orchestrators, 3 stages (an optional one and the two package stages), every kind of start, 1 pending retry; about 364,000 states | `SingleInvestigation`, `ProgressHonest`, `RowsHonest`, `CancelIsFinal`, `RunningIsTemporary`, `EveryRunEnds` |
| `sqlite_queue` | 2 workers, 2 jobs, room for 1, 1 retry, 1 crash; about 370,000 states | `AttemptsAccounted`, `RetriesBounded`, `GivenUpForCause` |
| `worker_pipeline` | 2 workers, 1 job, 3 stages (an optional one and the two package stages), old rows absent or of an earlier success, 1 retry, 1 death, 1 stop; about 509,000 states | `CompletedForCause`, `RunningRowsHeld`, `RowsBackLoneVerdict`, `JobsEnd` |
| `memory_queue` | 2 worker loops with 2 jobs each at a time, 4 jobs (two ordinary and an urgent one of a tenant, one without tenant of a type the workers do not handle), room for 2, 1 retry; about 472,000 states | `NothingMislaid`, `OneRunner`, `ShareRespected`, `TenantOrderKept`, `LifecycleKept` |
| `redis_queue` | 2 workers and a client, 1 job, room for 1, 2 retries, 2 deaths; about 2.1 million states | `LostForCause`, `GivenUpForCause`, `LeaseExclusive` |
| `services` | 3 requests, 2 bodies, 4 limiter calls, windows of 2 and 4 ticks with limits 2 and 3, clock to 5, 3 generations, 4 tasks of 3 owners, 2 slots, 3 requests for packages of 2 candidates, 1 death; about 989,000 states | `AtMostOnce`, `ReplayTrue`, `StuckForCause`, `WindowsHold`, `CountedEverywhere`, `TripsAtThreshold`, `BudgetHeld`, `NoSlotLeaks`, `HoldersCovered`, `ReadyTrue`, `BuildingForCause` |
| `reset` | violated, 3 orchestrators, 4 stages | `ResetHolds` |
| `stream` | violated | `StreamEnds` |
| `lease` | violated | `LeaseRespected` |
| `stuck_key` | violated, 2 requests | `NoKeyStuck` |
| `redis_death` | violated, 1 retry, 1 death | `DeadWorkerKeepsJob` |

The type invariants of the API and of the queues are theorems (section 4), so the
runs do not repeat them.

Bounds. The full stage graph needs one run only; the interplay of runs needs
no more than an optional stage and the two package stages. Two
orchestrators are enough for a late run to meet its successor, the third lets
one more request come in between (a retry while the first is still unwinding, a
report after a reset). `MaxRetries` bounds the retry requests between check and
start. For the SQLite queue two workers are the least that can act on each
other's stale reads, two jobs the least that make `dequeue` choose, one retry
the least with a budget to be spent twice, and the room for one job makes
`enqueue` refuse. `MaxCrashes` bounds only how often processes die. For the
workers one job is enough for two processes to be at one incident, after a lapsed
lease, and three stages are enough to fail behind one, degrade in one and die in
one; `MaxStops` bounds how often `stop_worker` interrupts a pipeline. The
in-memory queue needs three jobs of a tenant for an order with a priority and
two equal ones, and room for two so that the third, and a retry, are refused.
For Redis one job is where commands collide; two deaths let the second worker die
over what the first left behind, and two retries let a retried job fail again. Two
jobs with one retry and no death (16 million states), and two jobs without
retries and one death (540,000), were checked as well and hold, but the first
takes too long for a regular run.
Among the services three callers are one more than the limits of two; two
windows are the least in which one can deny what another allows, and with limits
of 2 and 3 for four calls each of them denies one that the other would let pass;
the clock's end at 5 lets the longer window slide once. Two candidates and three
requests are the least in which a build of another candidate writes between two
of one. Where requests are interchangeable, symmetry is used, in runs of safety
properties only.
In `investigation`, the runs derived from it, and the runs of the queues in
memory and in Redis and of the services, deadlock is not checked: the objects,
jobs and requests are used up, after which all may be at rest.

Fairness. The event loop runs every ready task and a stage's await ends, so the
steps of each run are weakly fair together. Requests, cancellations and crashes
are not fair. `stream` adds fairness of the follower's poll, a loop with a
sleep. For the workers, each process polls, and awaits in its
handler, for ever, so its `QueueStep` and `HandlerStep` together are weakly fair,
and a claim that stays gets older than its lease, so `Lapse` is. With this
`JobsEnd` holds: a job that was accepted comes to an end whichever process dies.
A process that died is taken to be started again. The other modules state safety
only.

### What the violated runs show

* `reset`: `reset_incident` cancels the running orchestrator and at once writes
  a fresh progress entry and fresh rows. When it comes while a stage is executing,
  as in the trace (`Reconstruct`, `BeginRun`, `RunStep`, `Reset`, `RunStep`, `EndRun`),
  the cancelled task unwinds afterwards and writes that stage as CANCELLED over the
  fresh row and its own summary over the fresh progress, so the incident that was
  "reset back to ready IDLE state" ends CANCELLED with a CANCELLED row.
* `stream`: the stream and the websocket wait for SUCCESS, FAILED or CANCELLED;
  a run that ends PARTIAL or DEGRADED is streamed for ever. The comment at the
  loop lists the states without these two.
* `lease`: two workers read the same lapsed lease before their transactions;
  each puts the job back by id and claims it, and both run it.
* `stuck_key`: the idempotency middleware deletes or completes its record only
  when a response comes back. The rate limiter's middleware lies inside it and
  raises its 429; neither that nor an unhandled error of the endpoint becomes a
  response on the way, so the record stays PROCESSING and the key is refused for
  a day. The comment at `api/main.py` 534-536 says that a retry "is not
  permanently rejected by a record stuck in the PROCESSING state."
* `redis_death`: a job is submitted, a worker reads the head of the queue, removes
  it and dies before it has written the claim. The job is in no queue and in no
  claim, so no reclaim ever sees it, although a dead worker "must not take the job
  with it".

Next to each definition that a plausible bug would change stands that bug as an
operator of its own, marked "Defect"; `PROJECT.json` pairs it with the property
that catches it.

## 4. The proofs

Every invariant and every action property of the runs is a theorem below; TLC
alone checks the liveness properties (`RunEnds`, `RunningIsTemporary`,
`EveryRunEnds`, `JobsEnd`), which are out of the prover's reach.

All theorems hold for any number of runs, workers, tenants, jobs, retries,
requests, calls, tasks and limits, and for any stage graph that satisfies
`GraphAssumption` (prerequisites come first, the package stages are last and
required) and `LeadAssumption` (every stage after a required one depends on
it). Each module's assumptions on its constants are named in it, and TLC
evaluates them in the runs.

* `PipelineProofs` holds what both systems around a run need: the invariant of one
  run and one lemma per action of `Pipeline` for each of `PrerequisitesMet`,
  `FinishedStagesStay` and the verdicts.
* `PipelineSystemProofs`. The properties are not inductive: whether `Unwind`
  may relabel a stage depends on how the run came to be cancelled.
  `PipelineInv` adds, per run, what holds at each `pc`: a cancelled run has
  state CANCELLED and no RUNNING stage; an executing run has its stage RUNNING,
  every earlier stage ended well, with DEGRADED only for optional ones, and
  every later stage untouched; a run that has not begun is fresh. From it:
  `PipelineTyped`, `PrerequisitesAlwaysMet`, `CancellationIsFinal`,
  `FinishedStagesAreFinal` and the refinement `PipelineKeepsPromise`, in which
  each action is shown to be a `Lifecycle` step or to stutter.
  `VerdictsMatchStages` adds `VerdictInv`: by `LeadAssumption` a failed required
  stage leaves nothing to execute, so a run that reaches its end has what its
  verdict claims. `RowsBackVerdicts` is for a single run, as its hypothesis
  says: rows are shared, and a second run may overwrite them.
* `InvestigationProofs`. `ApiInv` adds to the same invariant of each run that a
  run of the API with work left is the registered one, what the progress entry
  may say at each `pc`, and that rows saying RUNNING belong to a run at work.
  `OneInvestigation`, `ProgressIsHonest`, `RowsAreHonest`,
  `ApiCancellationIsFinal` and `ApiTyped` follow. `ApiPrerequisitesMet`,
  `ApiFinishedStagesStay` and `ApiVerdictsJustified` carry the promises of the
  pipeline over to runs that requests start, cancel, retry and reset. Rows are
  left out there: runs of one incident share them, and a late one overwrites them.
* `SQLiteQueueProofs`. `QueueInv` adds that a job in the queue has a retry
  nobody has used (`ClaimsInv`), and that what a worker read to be without
  retries still is, since retries only grow (`SpentInv`): this is why stale
  reads cannot make `AttemptsAreAccounted` or `JobsGivenUpForCause` fail.
  `RetriesAreBounded` counts the workers that read the budget in time, and
  `AttemptsAreBounded` adds up both: a job is claimed at most `MaxRetries` times and
  once per worker.
* `WorkerPipelineProofs`. `KeepsQueue` shows that every step of the composed system
  is a step of `SQLiteQueue` or a stutter, so each theorem above holds of it.
  `WorkerPipelineInv` adds that only a process with a job has an orchestrator
  (`HandlerInv`), that a run that returned has a verdict while one on its way out
  with an error belongs to a job that was stopped (`EndsInv`), and that the stage in
  memory that is RUNNING is the one the process is in (`StageInv`). Lemma
  `PipelineStepEffect` says what any step of the pipeline does to one run and to
  the rows, so the invariant is shown from that and not per action of `Pipeline`.
  From it `JobsCompletedForCause` and `RunningRowsAreHeld`.

  Mutual exclusion is not in the queue, whose leases run out; it holds while they
  last. `LoneInv` says of a job whose lease never ran out that nobody has listed
  it as dead, that only the process failing it has read its budget, and that a job
  still waiting is held by no one; so `JobsHaveOneRunner`. `OwnInv` adds that its
  row names the holder and says processing, or cancelled by the API:
  `WorkersOwnTheirJobs`, and `LeasesAreHeld` for its steps. `complete` writes its
  row without looking at worker or status, so what it can overwrite before a lease
  runs out is its own row or a cancellation, and nothing else.

  `RowsBackLoneVerdicts` needs all of it: stages end in the order of their numbers
  (`OrderInv`, from which also `PrerequisitesMetByWorkers`), a job has one runner, and
  then the rows are what that runner last reported, up to the stage it is in
  (`MirrorInv`). Its hypothesis `NumJobs = 1` is what the property is about: two
  jobs of one incident have different leases and write the same rows.
* `InMemoryQueueProofs`. `QueueInv` ties the five places of a job together:
  which table it is in by its status, that waiting jobs have distinct places in
  their lane, that claims count retries, and who holds what. From it
  `MemoryQueueKeepsJobs`, `MemoryQueueOneRunner`, `MemoryQueueShares`,
  `MemoryQueueOrder`, `MemoryQueueTyped` and the refinement
  `MemoryQueueKeepsLifecycle`.
* `RedisQueueProofs`. The three properties of the run are not inductive, because
  every command works on what an earlier one has read. `RedisInv` adds the points
  a process can be at (`TypeOK`), that nobody but its submitter knows a new job
  (`NewInv`), that only jobs whose claim was overdue are reclaimed (`LapseInv`),
  that any other job has a single token, its queue entry or one process
  (`TokenInv`), and that a job marked as processed is claimed or still in the
  hands of a process that will write its record (`AttendedInv`: its entry in the
  queue is not enough, since `Discard` may take it). Each part has a lemma that
  reduces a step to what its one process does to the jobs it touches
  (`NewStep`, `TokenStep`, `AttendedStep`, `FoundStep`), and each of the 24
  actions a lemma that shows just that. `RedisQueueLosesForCause`,
  `RedisQueueGivesUpForCause`, `RedisQueueLease` and `RedisQueueTyped` follow.
* `ServicesProofs`. Of the limiter `LimiterCounts` and `LimiterHolds`: what is allowed
  in an interval was in one log at one moment. Of the gateway `GatewayTrips`,
  `GatewayBudget` and `GatewayCache`. Of the slots `SlotsDoNotLeak` and
  `SlotsCoverHolders`. Of admission `AdmissionOnce`, `AdmissionReplays` and
  `AdmissionStuck`, from an invariant that says who may be executing for the record
  under the key, and what the records other requests still hold may say.

  The packages need an invariant that relates the copies of the index, the
  temporary file and the index on disk (`PackagesInv`). Whatever is overwritten, each
  of them numbers a candidate's builds without a gap and calls READY only what has
  an archive (`Indexes`), and a process at its record finds its number in its copy
  (`NumberInv`). While builds follow each other (`SoloInv`) only one process is at a
  build, of whatever candidate; its copy is the disk's but for the record it has
  yet to rename into place, the temporary file is its own, and nothing of its
  candidate is READY from its record on, so that no number is used twice
  (`NumbersDiffer`). From it `ReadyIsTrue`, `BuildingHasCause` and
  `BuildNumbersDiffer`. Only the first says something of overlapping builds.

  The theorems are about each service's own specification, which is what
  `ApiServices` lets move; they are not restated for the composition, whose
  variables are disjoint. The type invariants and `CacheTrue` are not in the run,
  since the theorems show more.

## 5. Not modelled

Of the modelled files: what stages compute, the `simulate_*` hooks,
`workflow_status`, an exception in `_run_pipeline` outside a stage (900-909),
store errors, which `_persist_stage` swallows, the event log, restarts of the
API process, `reset_stage_for_retry` and `PipelineOrchestrator.reset` (unused
on live runs), `requeue` and `fail` without retry of the SQLite queue (not
reached as the worker is wired), more than one concurrent job per worker, and
the clock a `dequeue` reads at its start, for which the model takes the one at
its transaction. Interruption from outside is in `PipelineSystem` and
`WorkerPipeline` and not in `Investigation`. `Investigation` and `Admission` model one API
process, whose registry, records and counts are in its memory; `Dockerfile.api` starts
two, which know nothing of each other's runs, keys and counts. The workers' other jobs (simulation
and patch generation) return what they compute and keep no state. One interrupted
run keeps state RUNNING without a verdict: the one whose inner task was cancelled before its first step.

Of the Redis queue: the sorted sets of several tenants, the `processing` hash
and `active_queues`, on which no decision rests, lost connections and several
jobs at a time per worker. RabbitMQ: delivery and redelivery are the broker's,
and the class keeps its records in one process as the in-memory queue does; its
`dequeue` trusts the message alone, so a cancelled job is delivered all the same. Of
idempotency: the Redis store and the `idempotent` decorator. Of the gateway: the
provider chain, a loop over providers that keeps no state. Of the slots: the
heartbeat's time stamps (cleanup may take any slot). Of the packages: the
contents of an archive, half-written files, writes of the index that fail other
than by a vanished temporary file, `mark_deleted`, `retire_stale_for_incident`.

Sessions are read and written once each by their token, with no step in between
that another request could meet. Ingestion, the computations of the stages, the
temporal and holographic analysis and the report are numeric and text processing
of one incident without shared state; they are most of the repository's lines,
and to the pipeline they succeed, degrade or fail. The web application is a
client.

## 6. Plan

Done, in this order: the pipeline and its abstract lifecycle, the API, the
SQLite queue and the workers that run the pipeline; the in-memory queue with
`JobLifecycle`, the Redis queue, admission, limits, gateway, slots and packages;
the theorems of all of them.

Left, in the order of what they would add:

1. RabbitMQ, with the broker's redelivery as an environment.
2. Liveness of the queues in memory and in Redis under fair workers.
