# Verification of veltravia-ai in TLA+

This directory holds TLA+ modules for the parts of veltravia-ai where several
callers, processes and stores meet, the TLC configurations that check them on
small instances, and TLAPS proofs of the results that hold for every instance.

- [The system](#the-system)
- [Modules and the code](#modules-and-the-code)
- [Runs](#runs), [Bounds](#bounds), [Fairness](#fairness)
- [Where the code and its documents disagree](#where-the-code-and-its-documents-disagree)
- [Proofs](#proofs)
- [Not modelled](#not-modelled), [Plan](#plan)

## The system

A TypeScript monorepo: an API server (`apps/api`), two clients, and some forty
packages of managers behind ports. State is in memory or, with a database URL,
in PostgreSQL; several API processes may then share one database. The code has
no threads, but every `await` lets other requests in, and other processes run
at any time.

| Component | State it keeps | Operations | What is hard |
|---|---|---|---|
| Task manager (`orchestration/core`) | none between calls | create, transition, assign, dependencies, progress, checkpoint, start/finish attempt, review, cancel, retry | every operation is read, decide, write with awaits in between |
| Task store (`storage/postgres/.../tasks.ts`) | `tasks`, `task_events`, `task_dependencies`, `task_attempts` | read (3 queries), save (compare and set plus events), append, dependency writes, saveAttempt | which writes share a transaction, what decides a race |
| Worker manager (`orchestration/worker/src/runner.ts`) | `handles`, `cancelling`, per process | delegate, start, review, cancel, requeue, recoverStalled, progress | one call spans many awaits; another process cannot see the maps; a crash empties them |
| Worker store (`.../workers.ts`) | `workers`, `worker_events` | insert, read, save, appendEvents | no transaction; unique indexes decide |
| Scheduler (`orchestration/worker/src/scheduler.ts`, `resources.ts`) | decisions | plan, dispatch | plans on old reads; the limit and the claims are shared |
| Executor (`orchestration/superagent`) | none | run | may fail, never answer, ignore the abort signal |
| Change integration (`change-integration/core`) | change sets, records, a lease with a lifetime | integrate, rollback, recoverInterrupted | the lease expires under its holder, a crash between two records, a restore over later work |
| Source storage (`source-storage/core`) over the project engine's tree | snapshots; `file_nodes` | change set, snapshot, restore | no transaction over the tree: compensation, other writers in between |
| GitHub sync (`sync/core`) | connections, base, plans, history | connect, plan, resolve, approve, apply, cancel, expire, disconnect | a plan outlives the state it was made from; three parties write two trees |
| Preview runtime (`runtime/core`) | records, per process | create, start, stop, cancel, expire, restart, cleanup | every operation awaits and goes on from the record as it is then |
| Export (`export/core`) over the durable mirror (`apps/api/src/durable-state.ts`) | records; archives, write queue, rows, files | create, discard, list; prepare, enqueue, flush | memory ahead of the tables; reads cut by edits; crashes in the queue |
| AI gateway (`ai/gateway`) | connections with key pools, preferences, usage; the vault | create, replace, add and remove keys, delete, generate, stream | whole records are put back after awaiting the provider |
| Tool system (`tools/core`) | confirmations, invocations | invoke, approve, execute | bound to an input, used once, expiring |
| Version control (`version-control/core`) | revisions, checkpoints | capture, compare, two-phase rollback | append-only history against concurrent edits |
| Sandbox, agents, generation, testing, intelligence, connectors, clients | runs, indexes | pipelines around a model or a service | mostly I/O and heuristics |

How they meet: routes call `Scheduler.dispatch` or the worker manager; the
worker manager calls the task manager for every attempt, review, cancel and
retry, and writes its own row before or after; both managers go to their store.
A worker's files arrive as change sets, which change integration puts into the
project through source storage, which writes the tree of the project engine one
call at a time. GitHub sync, exports and previews read the same workspace, by
its revision; coding agent, app builder and editor write it directly. What the
API keeps in memory for an owner (exports, gateway records) is loaded once and
written behind, through the queue of the durable mirror.

What makes each of them correct is, in short:

- **Tasks**: a decision taken on an old read has no effect; the event list and
  the row agree; attempts are begun once each and within the budget; finished
  means finished; dependencies have no loops.
- **Workers**: a worker is done only if its task is; a run ends; a late result
  does not undo a verdict; each run is a new attempt; a process knows the runs
  it drives.
- **Scheduling**: workers whose claims meet do not run at once; no more run than
  the limit; none runs before its dependencies.
- **Change integration, source storage**: one integration at a time; a set is
  integrated once; a failed one leaves nothing; what is taken back, restored or
  updated is only what the caller meant.
- **Sync**: no edit of either side is lost or deleted without somebody's
  decision; a plan publishes once.
- **Previews**: the executor hosts what the records say; what is shown was built
  from the revision it names; what ended stays so.
- **Exports**: what was answered is stored; archives are of one revision; what a
  restart lists can be downloaded; the limit bounds the disk.
- **Gateway**: keys and secrets match; the ceiling holds; retired keys rest.

Most of these hold only up to a race, and finding out exactly which one is the
larger part of this work: a property then names its exceptions, each a
condition on history (`lapsed`, `stale`, `swayed`, `unplanned`, ...), and says
that there is no other way to get there. `PROJECT.json` lists the hazards
behind them, each at its line.

## Modules and the code

| Module | Models |
|---|---|
| `TaskRecords` | the task record, the lifecycle table, and each operation as a condition and a new record (`lifecycle.ts`, `tasks.ts`). Pure: `TaskManager` and `WorkerManager` both build on it |
| `TaskContract` | what the service promises: atomic moves on the current record. Abstract, no versions or callers |
| `TaskManager` | all operations as concurrent calls over the PostgreSQL store |
| `TaskDependencies` | addDependency, removeDependency and the loop check, one query a step |
| `WorkerManager` | the runner, every stage between two awaits a step, in several processes that may crash |
| `Scheduler` | delegate, plan and dispatch over claims on paths |
| `ChangeIntegration` | change sets, integrate, rollback and recovery under the lease |
| `SourceRepository` | the tree port, change sets with compensation, snapshots, restores |
| `GitHubSync` | the three-way planner and the life of a plan, over both trees |
| `PreviewRuntime` | the runtime manager over its executor |
| `DurableExports` | the export manager over the durable mirror, its queue, the table and the disk |
| `ProviderGateway` | the gateway's records over the vault and the usage log |
| `MC...` | the same with symmetry sets and small inputs for TLC |
| `...Proofs` | the theorems |

**TaskManager.** `row`, `history` and `attempt` are the tables `tasks`,
`task_events` and `task_attempts`. The events of a task are kept as what a
reader can replay from them: how many there are, the status they end in (or
that two of them do not fit together), and which attempts they begin and end.
A call is a slot: `RequireTask` reads the row, `ReadEventSeq` the highest event
number (a later query of the same `read`, so an event may slip in between),
then one operation decides on what was read and `Save` runs the transaction of
`repositories/tasks.ts`: the update finds the version that was read, and the
events' primary keys are free, or everything is rolled back. `recordProgress`
appends an event and leaves the version alone. `startAttempt` and
`finishAttempt` write the attempt row in a later step, between which the
process may die (`Crash`). A refusal of any kind is `GiveUp`.

**TaskDependencies.** The walk of `assertNoCycle` is `StartWalk`, one `Visit`
for each task read, and `AddDependency` when nothing is pending. `overlap`
remembers which calls have been in flight together; it is a history variable
and no action reads it.

**WorkerManager.** `worker` and `log` are the tables `workers` and
`worker_events`; `task` and `open` what the task manager holds, changed one
step per call of it (`Ask`), which `TaskManagerProofs` justifies: each of its
operations takes effect atomically or not at all, and a refusal is always
possible. `handles[p]` and `cancelling[p]` are the two private maps of process
`p`. A call goes through stages named after what it will do next:
`start` is `Start`, `Move` (assigned, starting), `OpenAttempt`, `Register`,
`BeginRun`, `ExecutorEnds`, `AfterRun`, `FinishAttempt`, and then `SaveResult`
or `FailWorker`; `recoverStalled` enters at `FinishAttempt`; a cancel is
`Cancel`, `CancelTask`, `ReadToMark`, `MarkCancelled`, the last two also
reached by a run that finds itself cancelled. `Save` is the compare and set on
`version`, with the unique index that allows one live worker per task and the
event whose number progress may have taken: then the row is updated, the event
is lost and the call fails.

**Scheduler.** A worker's row is reduced to what plans look at: queued, holding
its claims (assigned to awaiting review), idle (failed, timed out) or over.
`Delegate` is the listing of live workers with the comparison of claims and
`Insert` the insert behind the unique index; `ReadWorkers` and `Plan` are the
two queries of `plan`, `Dispatch` each start of what was chosen. `StartDirectly`
is the route that starts a worker without a plan. `unlisted` and `unplanned`
remember, for a worker, who was not there yet when its delegation listed and
when its plan was made.

**ChangeIntegration.** `sets`, `records` and `lease` are the tables
`change_sets`, `integration_records` and `project_integration_locks`, `tree` the
project's files by content hash, `held` the snapshots that exist only in the
process. `run[i]` is a call of `integrate` and goes from stage to stage: lock,
check against the tree, prepare the snapshot and the record, write, verify,
finish, mark the sets, release; a failed write compensates. `LeaseExpires` is
the lifetime of `memory.ts`, `Crash` a restart, which empties `held` and kills
the calls, `Edit` a writer without the lease. `Rollback` and `Recover` are cut
at their awaits too.

**SourceRepository.** The tree port is `Accepts` (what `FileTreeManager` does
not refuse) and `Done` (what it makes of the tree), with revisions per node;
`Perform` and `Interfere` are the steps that change the tree (`nodes`). A job is
a call of the API: `Load` is the read that a caller's revisions come from,
`Submit` the checks before the first write (no path is named by two operations,
`ChangedOnce`; the simulation of `preflight`, `Passes`), `PrepareCalls` works
out the port calls of the next operation from the tree as it is then, `MakeCall`
makes one of them and, after the last, remembers how to take the operation back
(`undo`), `TakeBack` makes one port call of the compensation; `CreateSnapshot`,
`Read` and `Store`; `RestoreSnapshot`, `Put`, `RemoveExtra` and `Restored`.
`Interfere` is a port call of another writer.

**GitHubSync.** `local`/`revision` and `remote`/`head` are the two trees, `base`
what they last agreed on. `Compare`, `ReadOther`, `BuildPlan` and `Fetch` are
the awaits of `plan`; `Apply`, `Collect`, `Publish`, `WriteFile` (one per path),
`RereadLocal` and `Finish` those of `apply`; a call that fails or whose answer
is lost is `CallFails`. A plan's texts are kept in the process and dropped when
it ends, which a call in flight can meet. In a call, `late` holds the paths of
the project that changed since the revision was compared, and `swayed` says that
the plan had expired (`expired`, a history field of the plan) or was resolved
anew before its texts were collected.

**PreviewRuntime.** `rt[r]` is a record of the manager, `held` whether its map
still has it, `hosted` what the executor runs. Every operation is a call that
goes on (`Proceed`) from the record as it finds it. `raced` marks the records
about which one of three named races happened.

**DurableExports.** `records` is the manager's map, `archives` and `bytes` the
mirror, `writes` its queue, `rows`, `objects` and `files` the two tables and the
disk. A request is `Arrive`, `LoadRows`, `Hydrate`, its handler, and `Answer`,
which waits for the queue as `onSend` does. A creation is `Sweep`, `Open`, the
awaits of `readConsistently` and `Pack` or `GiveUp`. `Write` and `WriteFails`
work the queue off; `Crash` empties the process. Archives deleted in one loop
are queued in any order (`Orders`).

**ProviderGateway.** `connection[n]` is a stored connection, of which the status
of each key is kept; `vault` the references with a secret; `used` the usage
records of the day. Every call that puts a record back reads it first
(`fresh` becomes false when somebody else's put comes between), so `stale` and
`crossed` say which records were put back from an outdated read.

Left out everywhere: owners (every query filters on one), text, secrets,
timestamps, and limits that only refuse. Times are choices: a heartbeat is old
when somebody says so, a timer may fire at any moment of a run, a plan or an
archive expires at any time.

## Runs

| Run | Configuration | Shows |
|---|---|---|
| `task_manager` | `TaskManager.cfg` | two calls on one task, crashes: `HistoryTellsStatus`, `AttemptsWithinBudget`, `AttemptRowsFollowHistory`, their inductive form `Consistent`, and that the manager implements `TaskContract` (`ImplementsContract`) |
| `task_dependencies` | `TaskDependencies.cfg` | three tasks, two calls: `LoopNeedsTwoTasks`, a loop needs two additions on different tasks in flight together |
| `worker_manager` | `WorkerManager.cfg` | two processes, two calls, crashes: `CompletedWorkIsAccepted`, `LiveRunsAreKnown`, `FinishedWorkersStay`, `RunsAreFreshAttempts` |
| `worker_runs` | `WorkerRuns.cfg` | liveness: a run that is not cancelled yet leaves the running status (`RunsEnd`) |
| `scheduler` | `Scheduler.cfg` | `SharedFilesNeedAStalePlan`, `CrowdNeedsAStalePlan`, `SharedClaimsNeedARace`: claims and the limit are only overrun by a plan or a delegation that did not see a worker yet, or past the plan; `PlannedWorkHasItsDependencies` however old the plan |
| `change_integration` | `ChangeIntegration.cfg` | `OneAtATime` and `IntegratedOnce` but for expired leases and restarts; `CompensationSparesOthers`; `ApplyingHasACall`: what recovery will restore; `IntegratedSetsHaveARecord` |
| `change_rollback` | `ChangeRollback.cfg` | expects a violation of `RollbackErasesNoLaterWork` (below) |
| `source_repository` | `SourceRepository.cfg` | `NothingWasKept` of a change set that fails; `UpdatesSeeWhatTheyReplace` in spite of revisions that start over; `RestoreAloneIsExact` |
| `github_sync` | `GitHubSync.cfg` | `ProjectEditsSurvive`, `BranchEditsSurvive`, `DeletionsAreApproved`, each with its exceptions; `PublishedOnce` |
| `preview_runtime` | `PreviewRuntime.cfg` | `QuietRuntimesMatchTheExecutor`, `PlansFitTheirRevision`, `RestartRetires`, `EndedStaysEnded` |
| `durable_exports` | `DurableExports.cfg` | `AnsweredIsStored`, `ArchivesAreOneRevision`, `ReadyRowsHaveTheirArchive` at every crash, `QuietMirrorMatches`, `ArchivesAreBounded` |
| `provider_gateway` | `ProviderGateway.cfg` | `QuietVaultMatchesPools`, `CeilingHoldsButForOverlap`, `DefaultExists`, `RetiredKeysStayRetired` |

Every passing property has a mutant in `PROJECT.json`: a change of one
definition, as a plausible bug in the mapped lines would make it, under which
TLC finds the property violated.

Deadlock is not checked: calls stop at the bounds, tasks finish, plans end, and
a system with nothing to do is a legal end.

### Bounds

Every bound sits in a guard of an action that begins something; what was begun
is never cut off.

- `task_manager`: one task is enough because no operation of the module touches
  two; the proofs cover any number. Two calls give every pair of racing
  decisions. `MaxVersion = 5`, `MaxSeq` and two attempts let a task fail, be
  retried, and be reviewed.
- `task_dependencies`: three tasks with limits 1 and 2 make the shortest loops,
  an indirect loop, a full task and a walk that is cut short.
- `worker_manager`: one worker of one task that two processes start, recover,
  cancel, review and requeue. `MaxVersion = 6` lets a worker be timed out
  (running or still starting), be requeued, and run again after the latter,
  while the first start is still going or its process is dead. With one worker
  the unique index never rejects; `Scheduler` has the case.
- `worker_runs`: `MaxVersion = 3` allows both starts (from queued and from
  assigned) with their attempts, timeouts, recoveries and cancels; `OwnerMoves`
  lets the owner complete the task under the run.
- `scheduler`: three workers, of which each pair of neighbours has claims that
  meet in another way (a directory and a file in it, a directory in a
  directory), the second task after the first; two dispatches at once, one
  direct start, one requeue and one cancellation.
- `change_integration`: two sets on one path, on two, and one that deletes; two
  integrations; one mishap (restart, expired lease, failed restore or foreign
  edit) anywhere. A second mishap only adds a second cause to those that the
  properties name. `change_rollback` allows none: no mishap is needed.
- `source_repository`: four paths, so that there is a root file, a directory and
  a file in it, and a target to move to; each operation followed by one that
  fails, and one that moves a file and then tries to remove what it moved; two
  foreign port calls, which is what it takes to delete a file and
  create it again; one snapshot of each kind, so that the next one prunes.
- `github_sync`: two files, so that one may be done when the call for the other
  fails; one edit on each side, two plans and two applies, so that a plan is
  applied twice or after another; two links; one mishap.
- `preview_runtime`: two runtimes, as a restart needs, two calls, one edit, of a
  workspace that gets a build by it.
- `durable_exports`: a limit of one archive, two exports, so that the second
  evicts the first; two reads; two events of any kind (edit, failed query or
  write, crash, expiry).
- `provider_gateway`: two connections, so that a default can be handed over, two
  keys, so that a pool can rotate, a ceiling of one.

### Fairness

`FairSpec` of `WorkerManager` asks weak fairness of the next step of each call
that is under way: promises of the database and of the task manager settle, and
a run ends because its executor answers or because its timer resolves the race
in `start`. It asks nothing of a run that was cancelled (`Aborted`): `cancel`
clears the timer, so only an executor that heeds the signal ends it. Nothing is
asked of callers: nobody has to start, review, recover or cancel. Crashes are
off in this run; a crashed process ends nothing. The other modules state safety
only: what they promise to do eventually they do within the call.

## Where the code and its documents disagree

**A rollback takes later work away** (`change_rollback`).
`docs/change-integration.md:79`: "An accepted integration can be reverted, but
only if nothing changed since", and `manager.ts:15`: "Rollback refuses when the
project has moved since the integration". `rollback` compares the files that
this integration applied (`manager.ts:711`) and then restores the snapshot of the
whole tree: a later integration of other files is erased, while its record and
its sets go on to say integrated.

Seen while modelling, without a run of their own:

- *Tasks.* `running -> completed` is in the table and not guarded, so a plain
  `transition` completes a task without a review (`lifecycle.ts:41`, against
  `README.md:15`); `retry` takes `partially_completed` to `queued`, an edge the
  table lacks; the attempt row is a transaction of its own, against
  `repositories/tasks.ts:6`; dependency loops are decided before the insert
  (`tasks.ts:425`), and so is the number of tasks of an owner (`tasks.ts:197`).
- *Workers.* A cancel between `Register` and `BeginRun` clears the timer, its own
  save loses to the running row and is swallowed: only the executor ends that
  run (`runner.ts:636`, against `runner.ts:363`); the update of a row and its event
  are two statements, against `repositories/workers.ts:5`; a start that finds the
  worker `assigned` saves `running` directly, against `worker/src/lifecycle.ts:4`;
  a lost save of the running row leaves a handle behind that makes the process
  refuse the worker for good; a cancel may lose to a timeout against the comment
  at `runner.ts:604`; requeue ignores that the task manager refused
  (`runner.ts:675`); a final answer that is complete and names a blocked reason
  leaves the worker waiting for a review that the task then refuses
  (`executor.ts:438`).
- *Sync.* Resolving a conflict anew keeps the approval of a plan that now
  deletes files (`manager.ts:623`); a plan that only pulls is not refused when
  the branch moved (against `docs/github-sync.md:30`); an apply that finishes
  late writes the connection that was disconnected meanwhile.
- *Previews.* `state/index.ts` says that a stopped runtime never runs again, and
  `start` takes stopped ones (`manager/index.ts:397`); the limit of runtimes in a
  workspace is counted before an await and not again.
- *Exports.* The 503 says "Nothing was recorded" although memory keeps it; a
  failed write is reported to whoever flushes first, and the request that queued
  it is then answered as a success; an export that is discarded while it is made
  comes back with its rows; a `running` row stays so after a crash; an owner
  whose load failed is not loaded again.
- *Gateway.* A stream that rotates writes the pool it first read a second time
  and un-retires a key (against `keypool.ts:16`); a pool of one key does not
  retry timeouts and server errors although its comment says so; an abort
  between two attempts and an abandoned stream leave no usage record; a key
  removed during a call comes back with the call's put.

## Proofs

Eight modules hold theorems. Each proves its results for every value of the
constants, from the assumptions its component's module names, which TLC
evaluates in the runs; these say that bounds are numbers, that null values are
no members, and, in `Scheduler`, that claims have non-empty paths. Two modules
also hold the proofs of a neighbour, whose names differ from theirs for that
reason: `SchedulerProofs` those of `TaskDependencies` (`LinkSpec`), whose edges
the scheduler relies on, and `ChangeIntegrationProofs` those of
`SourceRepository` (`SourceSpec`), the layer its calls go through. What the
latter assumes, `ConstantsAreSound`, is that paths are the non-empty sequences of
names that their prefixes are too, that a project begins as a tree, and that
callers submit operations and other writers make calls of the known kinds.

| Theorem | States, for every instance |
|---|---|
| `TaskManagerProofs`: `AlwaysConsistent` | `Spec => []Consistent` |
| `TypeCorrect`, `HistoryIsFaithful`, `BudgetIsKept`, `AttemptRowsAreBacked` | the invariants of the run, from it |
| `FinishedTasksAreFinal` | `Spec => FinishedStaysFinished` |
| `Implements` | `Spec => ImplementsContract`, the refinement of `TaskContract` |
| `NothingMovesAFinishedRecord` | no operation of `TaskRecords` moves a finished record |
| `WorkerManagerProofs`: `CompletedWorkStaysAccepted`, `LiveRunsStayKnown` | `Spec => []CompletedWorkIsAccepted`, `Spec => []LiveRunsAreKnown` |
| `FinishedWorkersAreFinal`, `EveryRunIsAFreshAttempt` | `Spec => FinishedWorkersStay`, `Spec => RunsAreFreshAttempts` |
| `ChangeIntegrationProofs`: `IntegrationTypes`, `LeaseExcludes` | `Spec => []TypeOK`, `Spec => []OneAtATime` |
| `SetsAreIntegratedOnce`, `ApplyingRecordsHaveACall` | `Spec => []IntegratedOnce`, `Spec => []ApplyingHasACall` |
| `IntegratedSetsAreRecorded`, `CompensationRestoresItsOwn` | `Spec => []IntegratedSetsHaveARecord`, `Spec => CompensationSparesOthers` |
| `SourceInvariant` | `SourceSpec => []SourceInv` |
| `RefusedSetsLeaveNothing`, `UpdatesReplaceWhatWasLoaded`, `RestoresAloneAreExact` | `SourceSpec => NothingWasKept`, `SourceSpec => UpdatesSeeWhatTheyReplace`, `SourceSpec => RestoreAloneIsExact`, from it |
| `SchedulerProofs`: `HoldersAreApart`, `DelegationsAreApart` | `Spec => []SharedFilesNeedAStalePlan`, `Spec => []SharedClaimsNeedARace` |
| `DependenciesComeFirst`, `LimitHolds` | `Spec => []PlannedWorkHasItsDependencies`, `Spec => CrowdNeedsAStalePlan` |
| `LoopsNeedTwoTasks` | `LinkSpec => []LoopNeedsTwoTasks` |
| `PreviewRuntimeProofs`: `PlansFit`, `RestartsRetire` | `Spec => []PlansFitTheirRevision`, `Spec => []RestartRetires` |
| `EndsAreFinal`, `QuietRuntimesMatch` | `Spec => EndedStaysEnded`, `Spec => []QuietRuntimesMatchTheExecutor` |
| `GitHubSyncProofs`: `PlansPublishOnce` | `Spec => []PublishedOnce` |
| `SyncsSpareTheProject`, `SyncsSpareTheBranch` | `Spec => ProjectEditsSurvive`, `Spec => BranchEditsSurvive` |
| `DeletionsNeedAPerson` | `Spec => DeletionsAreApproved` |
| `DurableExportsProofs`: `ReadyRowsAreBacked`, `ReadsAreOneRevision` | `Spec => []ReadyRowsHaveTheirArchive`, `Spec => ArchivesAreOneRevision` |
| `QuietMirrorsMatch`, `AnswersAreStored` | `Spec => []QuietMirrorMatches`, `Spec => AnsweredIsStored` |
| `LimitHoldsPerProcess` | `Spec => []ArchivesAreBounded` |
| `ProviderGatewayProofs`: `CeilingHolds`, `RetiredKeysRest` | `Spec => []CeilingHoldsButForOverlap`, `Spec => RetiredKeysStayRetired` |
| `VaultMatchesPools`, `TheDefaultExists` | `Spec => []QuietVaultMatchesPools`, `Spec => []DefaultExists` |

None of these invariants is inductive: each forgets what the calls in flight
hold from earlier reads. Each module therefore has an inductive invariant
that says what such a read is still worth, one lemma per action or group of
actions, and one step lemma. Where two results have little in common there are
two invariants, the second resting on the first. TLC has checked each of them
on the instance of its run before it was proved, and where that found a case
too many, the property was corrected (exports and sync, below). `SourceInv` is the
exception: it says that a sequence of looks of the tree exists, which TLC cannot
enumerate.

**Tasks.** `Consistent` adds what makes snapshots harmless
(`SnapshotsAreSound`): a call that has still to decide has seen an older version
of the row, or the row itself. Then `Save`, which compares versions, either does
nothing or acts on the current row (`SnapshotIsTheRow`). It needs that every
record written has a greater version (`CountersGrow`, where a forgotten
increment would break the proof), that rows of tasks that do not exist are blank
(`AbsentTasksAreBlank`), and that an attempt row about to be written belongs to
an attempt the history has (`PendingRowsAreRecorded`). `StepsAreAtomic` then
shows that every step is an operation of `TaskRecords` applied to the current
row of one task, or leaves rows alone; `FinishedTasksAreFinal` and `Implements`
follow. The event *numbers* play no part (versions alone decide), which is
itself a result: the key of `task_events` is a second line of defence.

**Dependencies.** Without a loop means that every nonempty set of tasks has one
without a dependency in the set (`NoLoop`), so nothing has to be said of the
length of a path. An added dependency could close a loop only if the task can be
reached from what it is to depend on; the walk that found nothing is the
evidence. `WalksAreClosed` says what it is worth at any moment: the tasks
visited and to be visited are closed under the dependencies of those visited,
and the task itself is not among the visited. A removal keeps it so, and so does
an insert on the same task, whose dependencies the walk has not followed; only
an insert on another task does not, hence the exception for additions on two
tasks.

**Workers.** A worker's call decides on a row that it read some awaits ago.
`ReadsSoundly` is what saves it: while the version is the one it read, so is the
row, so a save that passes overwrites what was decided on. The rest ties the two
other memories of a call to the shared state: the attempt number it was given to
its task (`CallSound`: greater than the row's, no greater than the task's, which
makes every run a fresh attempt), and the handle in its process to the run it
drives (`RunsAreKnown`). The last is not inductive alone: a start that gives up
deletes the handle of its process, so it needs that no two calls of one process
can both come to run one worker unless a cancel has claimed it
(`OneRunPerProcess`). That a completed worker's task stays accepted uses that
nothing moves a finished task, from `TaskRecords`.

**Change integration.** `OneAtATime` holds because a call between its lock and
its release is the owner of the lease unless the lease lapsed under it; the
invariant (`LeaseFollowsCalls` in `LeaseInv`) says so for every stage of the call.
`WorkInv` ties the three tables to these stages. A record is `applying` only
while its call works on it, or has thrown or died (`RecordsFollowCalls`); a set
says integrated only when the call that it names is past its record and has
settled it (`IntegratedByItsCall`). `IntegratedOnce` compares records, which say
what was applied before the sets are marked: `WorkIsClosed` says that a call
which ended has closed all it applied, and `NoSecondUse` that no other call has
chosen, or is about to apply, what this one did. `SnapshotsHold` is for the
compensation: as long as it may come, the tree outside the call's own files is
as its snapshot has it.

**Source storage.** `NothingWasKept` is about lists of port calls, of any
length, that are taken back one by one. The proof speaks of what a reader sees
of the tree (`Held`: revisions apart) and of lists of calls that *lead* from one
look to another (`Leads`: there is a sequence of looks, each the outcome of the
call before it). That concatenating two lists concatenates the looks
(`LeadsOn`), and that a list loses its first call as it is made
(`LeadsThrough`), needs no induction, so neither does the invariant: what is in
`undo` leads from the present look to the one at the start, and in the middle of
an operation what is left of it leads to a look from which its own inverse does
(`UnderWayBack` in `KeptInv`). What is particular to the code is that the calls
of one operation and its inverse are such lists (`TakenBack`): for a write, a
removal or a move one call back; for a new file the directories that were
missing above it, taken back from the innermost. Where the chain of directories
breaks off is found with the least element of a set of numbers. An inverse also
names a revision, which `Leads` does not see: `RevisionsKnown` says that the
file an inverse writes has the revision it names, as no other operation of the
set names its path. That rests on `ChangedOnce`, which the first attempt at the
proof found missing in the model: without it an update followed by a removal of
the same file cannot be taken back, for the file comes back with revision 1.

`UpdatesSeeWhatTheyReplace` needs to relate revisions over time: `StillFits`
says that a path which was not emptied since a caller loaded it has the node it
had, or a later revision, so equal revisions mean equal contents. `RestoreInv`
says of a restore that is alone that the files it has put are in place, and the
extras that it has still to remove are the only ones left; the attempt found
that a directory where a file belongs makes a restore fail too, which the
property now says, and that a snapshot of an empty project is restored like any
other.

**Scheduler.** `CallHolds` says what a plan may still rely on when it
dispatches: those it chose are apart in their claims from each other and from
those it listed, their dependencies are completed, and together they are no more
than the limit. A claim never changes and a completed task stays completed, so
this survives everything that happens between plan and dispatch; the rows
remember whom the plan did not know. `ListedAreApart` and `KnownAreApart` are
the invariants of the rows themselves. That two claims which cover a file
conflict (`SharedFileConflicts`) rests on `PrefixesMeet`: two prefixes of one
path are comparable.

**Previews.** The evidence of a runtime is never older than its revision
(`EvidenceIsLater`), and a start that waits has looked at the workspace after
the evidence was taken; if it then finds the revision unchanged, all three are
equal. For restarts, `CallHolds` carries what the pass over the map has left to
do: a preview that lived at the beginning and still lives is the one being
stopped or lies ahead of the pass, and is in the map. `HostInv` speaks of one
runtime at a time: what is hosted has a live record in the map (`RowFits`), what
a record says runs is hosted or has a call that is ending it (`MustHost`), at
most one start of a runtime is underway, and a call that starts or ends one
finds the record it left or one that was cancelled (`StageFits`). Without
the last two, a late probe could mark as running what a stop has taken down. When
no call is about the runtime, only the match is left.

**Sync.** A commit is made only on the head that its plan was made against, and
moves it. A plan that has published was therefore made against an older head
than the present one (`PlanFits`), and no call can have read a later head than
there is (`JobFits`): a second publication of the same plan cannot find its head.

That no work is lost is `LossInv`, which follows texts and not only heads. A
plan pulls over a file only where its snapshot held what both sides once agreed
on, nothing, or a withheld text, and while the revision is the plan's the files
are the snapshot (`PlanIsSafe`); the same holds of pushes and the head.
`WritesSafely` carries this through apply: each file that is still to be written
is in that state unless it changed since (`late`) or was resolved. The base is
computed late and from several sources, so the invariant also says of every text
that a call carries on which side it was seen (`TextsAreSeen`), and that the base
was seen on both. For deletions, `DeletionAsks` says that a plan which would
delete asks for approval as long as it holds its texts; texts are dropped when
its time runs out (then it is `expired`), or when it was applied, and then either
it had nothing to publish or its head is gone. That `expired` is history of its
own and not read off the status is what the search for this invariant showed: a
second call that fails overwrites the status (`manager.ts`'s
`{...plan, status: "failed"}`), and the first then deletes on the branch what
nobody approved, with nothing in the plan to tell. With it, `BranchEditsSurvive`
needs no exception for such plans: they delete unapproved, but only what the
project had held.

**Exports.** `QueueIsSafe` speaks of the rows on the disk and of the queue as it
stands: a row that says ready, stored or queued, has its archive on the disk or
earlier in the queue, and only dropped archives are queued for deletion. Batches
are appended (`QueueGrows`) and worked off from the front, one write at a time,
so it holds at every crash. `ReadsAreSound` says of a read that is still
collecting that what it has is of its revision as long as the workspace has not
moved on, and of one that has passed the check of the revision that it has all
of it.

`MirrorInv` looks at the queue once more, export by export: `Settles` says
that the row, after the first `n` queued writes, is one of a set of statuses, and
that a write of any other status has a later one behind it among the `n`. For the
whole queue the set is what the map says (`MirrorSettles`), for a request
waiting to answer it is what it is about to answer, with `n` the writes it
waits for (`AnswersSettle`). It excludes exports that two calls made or discarded
at once or whose write failed (`tangled`, `lost`), as the properties do. For the
limit, `Fits` counts the files there would be after any number of queued writes:
the archives of this process and a base that earlier ones left, which grows by
one limit per crash. The limit is per process because `prepare` marks an owner as
loaded before its first query (`durable-state.ts:222`): a request that overlaps
the load sweeps archives that it cannot see. A bound of one more archive per
crash holds only for a limit of one, as TLC showed for a limit of two.

**Gateway.** `CeilingLeft` counts the calls that passed the check together with
what is recorded. `ReadsAreFaithful` says that a call whose read is current has
every key retired that the store has retired, and so cannot bring one back with
its put; `NamesAreKnown` and `CreatorsAreAlone` keep others away from a
connection that is being created. `VaultInv` gives each disagreement between vault
and pools its culprit: a key on offer without a secret has a call that is about
to put the connection back without it (`OffersAreBacked`), a secret on no offer
one that will put it (`SecretsAreUsed`), and a call whose read is current knows
every secret of its connection (`SecretsAreHeld`). With no call underway there is
nobody to blame. `PreferenceInv` does the same for the default: one that is gone
is about to be replaced.

Only model-checked is `RunsEnd`: liveness under fairness, like ENABLED, is out
of the proof system's reach. `RollbackErasesNoLaterWork` is false, as its run
shows. Every other property of a run has a theorem.

Induction over data is out of reach as a rule of proof, and modules proved about
have no recursive operators: what the recursive function in `Passes` computes is
used nowhere, and where a least index is needed it is taken by `WFMin`. That one
walk or one change set *ends* is likewise not shown.

## Not modelled

The components `PROJECT.json` marks `not_modelled`, each with its reason: the
tool system and version control, which are in the plan; the lifecycle of
sandboxes, which resembles that of previews;
rule tables, prompts, heuristics and clients, because nothing in them is
concurrent or stateful; agents, generation, testing and media jobs, because they
are pipelines around a model or a service whose answers a specification could
only choose at will; providers, connectors and the operating-system side of
sandboxes, because they are I/O. Together these are most of the repository's
lines, which is why the modelled share of it is small.

Inside the modelled parts:

- tasks and workers: `expectedVersion` (it only refuses more), the worker actor
  of `transition` (the API never passes it), list and read endpoints, the
  in-memory test stores, the two queries of one worker save (one step, with the
  failure between them as an outcome), and failures of the database other than
  lost calls (`GiveUp`, `Crash`);
- scheduling: the decisions recorded for clients, the clamping of limits, and
  claims that normalise to the empty path (`./`);
- source storage: attribution of changes to authors, comparison of snapshots;
  of the tree, moves of whole directories;
- sync: names of files, screening rules, the rows of past syncs;
- the durable mirror: the rows of the sync port and of runs, which go through
  the same queue;
- exports: secret screening, the zip format, downloads;
- gateway: the router, the adapters, rate limits and prices;
- previews: plan detection, logs and views; only the mock executor exists.

## Plan

1. Confirmations of the tool system: used once, by the input they were given
   for, before they expire.
2. Rollback in two phases of version control, beside writers of the tree.
3. The other ports of the durable mirror over the queue of `DurableExports`.
4. Proofs: that `ChangeIntegration`'s write of a set, one step there, is what a
   job of `SourceRepository` does when it is alone, now that what such a job
   leaves behind is proved.
