# Skyulf: a verification project

Skyulf is an MLOps application: a FastAPI backend (`src/backend`), Celery
workers on Redis (`src/celery_worker.py`), a React canvas
(`src/frontend/ml-canvas`) and a numeric library (`src/skyulf-core`). Users
upload data, have it profiled, draw a pipeline, submit it as training jobs,
follow the jobs, deploy a model and ask it for predictions. What can go wrong
and is hard to test lies in two places.

* *The backend.* HTTP requests, background tasks, worker threads, the broker and
  the start-up of the API all write the same database rows, each on the state it
  last read, and almost nothing but the database orders them.
* *The browser.* Every answer is awaited and comes back to a page that has moved
  on: the list was reloaded, the graph undone, the model undeployed, the tab
  reloaded or left. Timers, a socket and localStorage, which tabs share, add to
  it; and the canvas computes by itself what the backend computes again.

These modules model both.

This directory holds TLA+ modules, TLC configurations (`*.cfg`, with an `MC*`
module each component instantiates), TLAPS proofs (`*Proofs.tla`) and
`PROJECT.json`, which maps every definition to its source lines and lists the
runs, mutants, findings, hazards and theorems.

To check: `tlc -workers 2 -config JobsBatch.cfg MCJobLifecycle.tla`, and so on
(the table of runs below), and `tlapm JobLifecycleProofs.tla`.

Paths below are relative to `src/backend`, those that begin with `core/`,
`components/`, `pages/` or `modules/` to `src/frontend/ml-canvas/src`, unless they
begin with `src/`.

## 1. Inventory

### Parts, their state and their operations

| Part | Source | State | Operations | Module |
|---|---|---|---|---|
| Job submission | `ml_pipeline/_internal/_routers/run_pipeline.py` | `_submit_locks` (one asyncio.Lock per node and branch, per process) | lock, `find_active_job`, allocate a version, create the row, dispatch one batch task, attach its id | `SubmitDedupe`, `JobLifecycle` |
| Job manager | `ml_pipeline/_execution/jobs.py`, `job_manager_base.py`, `*_manager.py` | `training_jobs` rows | create, cancel, find, attach, list, promote | `JobLifecycle`, `SubmitDedupe` |
| Version allocation | `ml_pipeline/model_registry/service.py` | `model_version_counters` | `get_next_version`: UPDATE .. RETURNING, else seed and INSERT, else retry | `VersionAllocation`, `VersionSequence` |
| Pipeline worker | `ml_pipeline/tasks.py`, `ml_pipeline/_services/pipeline_execution_service.py`, `ml_pipeline/_execution/strategies.py` | the row it executes, artifacts | set running, record the artifact folder, run the engine, refresh the status, write success or failure | `JobLifecycle` |
| Broker and workers | `celery_app.py`, `src/celery_worker.py` | messages, registered tasks | deliver, acknowledge late, redeliver, revoke, discard | in each module that dispatches |
| API start-up | `main.py` | none of its own | `_reset_stale_jobs`: active rows older than the cutoff become failed | `JobLifecycle` |
| Deployment | `ml_pipeline/deployment` | `deployments` rows, `is_active` | deploy, deactivate, get the active one, predict | `Deployment` |
| Data ingestion | `data_ingestion` | upload files, `data_sources` rows with one JSON `source_metadata` | create, trigger, ingest, cancel, delete | `Ingestion` |
| EDA reports | `eda` | `eda_reports` rows | analyze, run, cancel, read the latest | `EdaReport` |
| Database | `database` | engines and sessions | READ COMMITTED row locks on PostgreSQL, autocommit statements on SQLite | the steps of the modules above |
| Realtime events | `realtime` | local bus, websocket clients, trial buffers | publish, subscribe, broadcast, evict | `JobFeed`, as a client sees it |
| Pipeline versions | `ml_pipeline/_services/pipeline_versions_service.py` | `pipeline_versions` rows | save with max+1, list, delete | not modelled |
| Branch partition, preview | `ml_pipeline/_execution/graph_utils.py`, `ml_pipeline/_internal/_routers/preview.py` | none | split a configuration into branches and tabs | `PathLetters` |
| Pipeline engine | `ml_pipeline/_execution/engine` | in-memory results of a run | run the nodes in order, merge inputs, advise | `CanvasGraph` (the advisory), else not modelled |
| Canvas graph | `core/store/useGraphStore.ts`, `core/hooks/useClipboard.ts`, `components/canvas/FlowCanvas.tsx` | nodes, edges, history, clipboard, dialogs, results | add, connect, delete, paste, undo, chain, load, run | `CanvasGraph` |
| Conversion and validation | `core/utils/pipeline*.ts` | none | configuration from graph; connection, cycle and leakage issues | `PipelineGraph` |
| Branch letters | `core/hooks/useBranchColors.ts`, `components/canvas/FlowCanvas.tsx` | the nodes of an earlier render | the branches and their order | `PathLetters`, `CanvasLetters` |
| Autosave, recovery, recent pipelines | `core/hooks/useCanvasAutoSave.ts`, `core/utils/canvasPersistence.ts`, `core/utils/recentPipelines.ts`, `components/layout/RestoreSessionBanner.tsx` | two values in localStorage, a timer, a banner | save, flush, probe, restore, discard; push, pin, rename, delete, clear | `CanvasSession` |
| Job events socket | `core/realtime/jobEventsSocket.ts` | one socket, reference count, retry timer | subscribe, open, drop, reconnect, close | `JobFeed` |
| Job list | `core/store/useJobStore.ts` | rows, offset, a polling loop with its deadline, a debounce timer | fetch, load more, tick, submit, cancel, retry | `JobStore` |
| Job polling | `core/hooks/useJobPolling.ts` | aggregate status, interval, failure counts | mount, round, give up, settle, unmount | `JobPolling` |
| Inference page | `components/pages/InferencePage.tsx` | run in flight, display, history; a marker and the history in localStorage | run, retry, cancel, restore, clear, undeploy | `InferenceRuns` |
| Other pages and forms, thresholds, evaluation, artifacts, monitoring, catalog, connectors, export, middleware, settings, `skyulf-core` | see `PROJECT.json` | | rendering, reads, numeric code, I/O | not modelled |

### How the parts interact

* **Submission to worker.** `POST /pipeline/run` commits one `queued` row per
  branch, sends one message for all of them and only then writes the Celery task
  id into the rows. Without Celery the "message" is a FastAPI background task
  of the API process.
* **Worker to row.** One thread per branch loads the row, sets `running`
  whatever it held, runs the engine for minutes to hours, refreshes the status
  and writes the result.
* **Cancel.** The endpoint reads the row, sends a revoke for its task id (which
  is that of the whole batch) and commits `cancelled`.
* **Start-up.** Every start of the API fails the active rows that look too old,
  while Celery workers may be running them.
* **Deployment** reads `artifact_uri` from a `completed` row.
* **Ingestion and EDA** have the same shape (row, message, worker, cancel), less
  protection, and meet in the deletion of a data source, which unlinks the file
  and cascades to the reports.

* **Canvas to backend.** A preview or a run converts the graph into a
  configuration; the engine runs its nodes in the order in which they are listed;
  the preview's tabs come back under letters that the canvas has given as well.
* **Jobs to browser.** `GET /jobs` by offset and limit, newest first; `/ws/jobs`
  says only which job changed and may lose events; both the list and the
  components that poll single jobs share one socket.
* **Inference page to itself.** A reloaded page learns of the run it lost from a
  marker in localStorage, which every tab reads and writes.

### Hard behaviours

Interleaving of requests in one event loop, of processes and of threads on one
row; statuses read before a long computation and acted upon after it; redelivery
after a lost worker, and beside a live one; a revoke that comes before the commit
it belongs to, or gets lost; crashes of the API and of workers between two
commits; queues for two kinds of locks; database-dependent isolation. In the
browser: answers out of order and onto captured state; a confirmation that is
awaited while shortcuts still work; debounced writes against unmounting, clearing
and reloading; a socket closed by its last user just before the next one comes;
two algorithms that must agree. Section 6
of this file and the `hazards` of `PROJECT.json` list them line by line.

### What makes each part correct

* *Submission:* one active job per node and branch; no request hangs; the lock
  table does not leak; a job id given to a client belongs to a job that is run.
* *Versions:* unique per pair, continuing the older jobs without gaps, never
  "retries exhausted".
* *Jobs:* no active row without somebody who will write it; terminal statuses
  reached; cancels respected; a completed row is the work of one attempt.
* *Deployment:* what a deploy that ran alone says is what is served; service is
  not interrupted by deploying; at most one active row.
* *Ingestion:* files and rows in step; a stored profile is not lost; the status
  poll ends.
* *EDA:* a completed report stays; no report without its source; PENDING ends.
* *Canvas:* no dangling edge, no loop; only sound configurations are sent, in an
  order the engine can run; canvas and preview speak of the same branches.
* *Session:* what was drawn survives a reload; what is offered exists; pins stay.
* *Live jobs:* the list has no gaps or doubles; a submitted job is followed to its
  end; polling stops, and not before; a wanted connection comes back.
* *Inference:* predictions and their label belong together; no run is forgotten,
  and each is recorded once and as it ended.

## 2. Plan

Modules in the order of their importance to the application, all written:

1. **VersionAllocation / VersionSequence**: the row-lock protocol and the atomic
   sequence it implements.
2. **JobLifecycle**: rows, requests, broker, threads, cancels, crashes and sweeps.
3. **SubmitDedupe**: two kinds of locks around check and create.
4. **Deployment**, 5. **Ingestion**, **EdaReport**.
6. **JobFeed**, and on it **JobStore** and **JobPolling**, composed in
   **LiveJobs**: two users of one socket and one list of rows.
7. **PipelineGraph**, and on it **PathLetters**, **CanvasGraph** and **CanvasLetters**:
   pure functions of the canvas and the preview endpoint, compared on every graph the
   user can draw; **CanvasSession** beside them.
8. **InferenceRuns**.

What could follow: the backend's event bus step by step (attach, detach,
reconnect), under Celery with trial buffers in the wrong process; one browser tab
composed with `JobLifecycle` instead of with the abstract rows of `JobFeed`; a
deletion of a data source under `Ingestion` and `EdaReport` together; an abstract
one-row job that `JobLifecycle` with its named exceptions implements; a proof of
`LettersAgree`.

## 3. Modules and code

Comments beginning "Mutant of" precede operators that no specification uses: each
is a plausible wrong version of the definition after it, substituted for it to
see that a property notices (`mutants` in `PROJECT.json`).

### VersionAllocation, VersionSequence

`get_next_version` first tries one `UPDATE .. SET current_version =
current_version + 1 .. RETURNING` (`Increment`, or `MissRow` when there is no
committed row), then computes a seed from the job tables (`ComputeSeed`), inserts
(`InsertRow`; `InsertConflict` is the IntegrityError, rollback and next iteration
of the bounded loop) and commits (`Commit`). `lock` is the row lock of the open
transaction: an uncommitted row is invisible to an UPDATE and makes an INSERT
wait. `CreateJob` is the commit of the job that carries the version, and from
then on `JobVersions` contains it. `Abort` is a call whose process or connection
dies anywhere. `VersionSequence` says the same with one action `Take`.

### JobLifecycle

One row per branch (`status`, `taskId`, `artifact`, `metrics`, and `old` for
`started_at` before the cutoff). `submit`, `attached` follow
`_submit_branch_jobs` and `_dispatch_branch_tasks`; `cancel`, `cancelTask` follow
`_cancel_job`, whose read, revoke and commit are three steps. `task`, `tries`,
`live` and `revoked` are the broker's view: `task = "unacked"` while a worker
holds the message. A thread (`pc[j][n]`, job j in attempt n) goes `find`,
`start`, `store`, `engine`, `write`, or through `except` and `fail`; each step is
one commit or one read of `execute_pipeline`. `seen` is the status the session
loaded last, because SQLAlchemy writes a column only if it changed since then
(`SetStatus`); `metrics` and `artifact` hold the number of the attempt whose value
they are. `ApiCrash` and `ApiStart` are a restart of the API process, with the
sweep of `_reset_stale_jobs`; in-process tasks die with it. What is external:
Celery's delivery, redelivery and termination, from the settings in
`celery_app.py` (`task_acks_late`, `task_reject_on_worker_lost`). `UseCelery` and
`Fallible` say of each run how it is executed and whether statements for it may fail.

Two history variables serve properties only: `yields` (threads whose engine ran
when a cancel was committed) and `late` (runs delivered beside a live attempt).

### SubmitDedupe

The same request, seen from the locks. A coroutine interleaves with others only
where it awaits; the table of locks is touched between awaits, so `TakeLock` and
`ReleaseAndEvict` are parts of the steps around them. A lock object is a queue
(asyncio.Lock is first come, first served) named after the request that made it,
so that an evicted object with waiters and its successor in the table are
different things. `rowLock` is the FOR UPDATE lock of an open transaction;
`Visible` is what SKIP LOCKED leaves; the request's session commits at
`AllocateVersion`, `CreateJob` and `AttachCommit` and is closed after the response
(`CloseSession`). A preview skips the allocation (`FindNothing`). Branches of one
request are submitted in order, and a request may submit more than another.

### Deployment

`Begin` .. `Commit` follow `deploy_model` statement by statement:
`ReadActive` (the predecessor), the UPDATE that deactivates, the INSERT and
commit. On PostgreSQL the UPDATE takes its snapshot when it begins
(`UpdateBegins`), waits for locked rows and rechecks them (`UpdateLocks`), and all
becomes visible at `Commit`; on SQLite, opened with `isolation_level=None`, each
statement commits (`UpdateAtOnce`). `created_at` values decide what
`get_active_deployment` returns; on PostgreSQL `now()` is the transaction's begin.

### Ingestion

`SaveFile`, `InsertRow`, `Trigger` follow the create request, `Load` ..
`Complete` the task. The profile and the status live in one JSON value which every
writer copies and stores whole; `copy` (the task) and `seen` (the cancel) are
those copies. `DeleteUnlink` and `DeleteRow` are the two steps of a deletion. Any
statement of the task, of the trigger, of a cancel and of a deletion may fail
(`DbFails`): inside the task's try that leads to its handler (`Raise`), outside of it, or
in the handler itself, nobody catches it (`LoadFails`, `FailAgain`). `abandoned` is a
history variable: sources whose task died with the API, or ended in such a failure. The
column `test_status` is left out.

### EdaReport

The analyze request (`CheckSource`, `InsertReport`, `Dispatch`, `StoreTaskId`),
the background run step by step between its awaits (`ReadReport` .. `Save`,
with `MarkFailed`, `CommitFails`, `FailReportSafely` as its three layers of error
handling), the cancel, and the deletion of the source with the ORM cascade over
the reports it listed and the database's ON DELETE CASCADE over the rest. With
Celery the message is thrown away (`Discard`), because `src/celery_worker.py` does
not import the task's module. The last layer may fail too: `ReadFails` is a session or a
first read that fails with no report in hand to mark, and `FailReportSafely` may find the
database still refusing, which the code only logs; `unmarked` remembers both.

### JobFeed, JobStore, JobPolling, LiveJobs

`JobFeed` holds what the tab shares: the backend's rows (`created`, `state`; jobs
are numbered in the order of creation, so that `PageAfter` is the answer of `GET
/jobs`), and `jobEventsSocket` (`socket`, `refCount`, `retryTimer`; `closing` is a
socket that `close()` gave up and whose `onclose` is still to come). `Publish` is
the backend's event, which reaches the socket or does not. A job is an `orphan`
when it is active but older than the two hours after which the list no longer
counts it. `RowGoes` (with `DeleteRow`) is a row that disappears.

`JobStore` follows `useJobStore` handler by handler: what runs before an await is
one action, which puts the answer of the server at that moment into `answers`, and
what runs after it another (`TickAnswered`, `FetchAnswered`, `MoreAnswered`,
`RequestFails`), in any order, with what it captured. `deadline` abstracts thirty
minutes of the loop. `lapses` is a history variable that names what the properties
excuse: `"moved"`, that offsets no longer fit the list (`Moved`, a `fetchJobs` whose
reset of `skip` was not followed by its own answer, a row that went), and `"stale"`,
that something outlived its time or was shown late.

`JobPolling` is `useJobPolling`: `rounds` holds what the rounds in flight have
read, `misses` is `failureCountsRef`, `Verdict` what a round says of all ids
together. `LiveJobs` composes the three: a socket event or a change of the
connection reaches both users in one step, since the listeners are called
synchronously. `close()`, called for the last subscriber, notifies as well, and the only
status listener left then is that of the effect being cleaned up, which sets its
interval again (`UnmountPolling`). Nobody clears that one (`orphan`): its rounds show
nothing, since their effect is over, but they read the ids tracked by then and count in
`failureCountsRef` (`OrphanRound`), as a round does that was in flight at the cleanup
(`late`, `LateRound`).

### Lists, PipelineGraph, PathLetters, CanvasGraph, CanvasLetters

`Lists` is `Array.filter` as a recursive function (`Picked`), which, unlike the
filters of the libraries, a proof can reason about.

A graph is the pair of arrays of `useGraphStore` (their order matters for the
conversion and for the letters) and the set of nodes with `execution_mode`
parallel. `Order`, `Inputs`, `SpecOnly` and `Pruned` make up `Config`, the result of
`convertGraphToPipelineConfig`: a breadth-first walk, what an ensemble takes from
the models wired into it, and what is not sent. `ConnectionIssues`, `LeakageIssues`
and `CycleIssues` are the validation, of which issues with the settings of single
nodes are left out.

`PathLetters` states the two lettering algorithms side by side: `CanvasBranches`
(terminals, sorted by their place in `Levels`) and `PreviewTabs` (partition for
training, dangling leaves, sorted by their place in the configuration). `CanvasLetters`
adds to the canvas what `FlowCanvas` gives the first of them: not the nodes of the graph
but those `useBranchStableNodes` kept from an earlier render (`modes`, the execution modes
in them). `Rerender` follows every step: the nodes are taken anew when their list has
changed, or may be when types, labels or titles may have (`Relabels`), and not for a new
mode or a new edge; `Remount` is the page being left and opened again.

`CanvasGraph` has one action per operation of the canvas. `Commit` and `Remember`
are zundo's history (external). `AskDelete` and `AskChain` open a dialog with what
they captured; `ConfirmDelete`, `ConfirmChain` and `Decline` answer it, and in
between undo, redo and answers of runs go on. `HandleRun` sends the configuration
of a valid graph, `RunAnswered` shows the result over whatever the canvas holds.
Histories: `raced` (an undo under a delete dialog) and `looped` (nodes chained that
are no siblings any more). A saved pipeline is one that was saved from a canvas that
neither had happened to: it has no loop, every edge has its nodes and is one that may be
drawn (`CanvasAssumption`). `Fits` is what decides the latter, but for loops: the handles
a node has and `isModelEndpointViolation`.

### CanvasSession

`Became` is what the effects of `useCanvasAutoSave` and of the banner make of a new
canvas, `TimerFires` and `Leave` the two writers of the snapshot, `Probed` the
banner's look at the storage, which may refuse (`SaveSnapshot`, `Diagnoses`). A
reload unmounts nothing. `Push` and `CapUnpinned` are `pushRecentPipeline`; a save
is pushed when its answer comes, also to a page that was left.

### InferenceRuns

An instance of the page is mounted, left (its request goes on, its state setters do
nothing) or closed (its request dies). `SubmitRun` writes the marker `lsPending`
and sends; `Settle` is the rest of `submitRun`, for an answer, a failure, the
timeout or a cancel. React runs the updater that stores the history one render
later: `unsaved` is the record in between, and `AppendRunHistory` that render.
`Mount` turns a marker left behind into a failed run. `outcome`, `dropped` and
`adrift` are history variables: how a run ended for its page, runs the user or the
age limit removed, and runs whose page was left or shared the storage with another.

## 4. Runs

| Run | Instance | Checks | Distinct states |
|---|---|---|---|
| `versions` | 3 calls on one pair with two older jobs, a preview, 5 attempts | `UniqueVersions`, `VersionsContinueSequence`, `NeverGivesUp`, `EveryCallCreatesItsJob`, `ImplementsSequence` | 11 k |
| `jobs_batch` | Celery, 1 run of 2 branches, 1 delivery, cancels, API crashes, database errors | `TypeOK`, `NoSilentOrphan`, `TaskFindsItsRows` | 1.9 M (symmetry of branches) |
| `jobs_settle` | 1 run of 1 branch, under Celery (2 deliveries) or in process; cancels, API crashes, lost workers, late redeliveries; database errors in process | `CompletedRowIsOneAttempt`, `CancelMidRunSticks`, `EveryJobSettles`, `RestartsSettleOrphans` | 206 k |
| `submit` | 3 requests (2, 1 and 1 branches), 1 worker, both databases, early ends, failing creations | `NoDuplicateOnSQLite`, `LockTableDrains`, `SharedJobIsDispatched`, `EveryRequestEnds` | 215 k |
| `deploy` | 3 deploys, 1 deactivation, both databases, failures | `SoloRequestDecides`, `ServiceNeverDrops` | 24 k (symmetry of deploys) |
| `ingest` | 1 upload, 1 S3 source, both modes, every failure, 2 of them lost workers, crashes or failing statements | `FilesMatchRows`, `ProfileSurvives`, `EverySourceSettles` | 688 k |
| `eda` | 2 reports, 4 installations, every failure, those of the analysis' database session included | `ReportsHaveTheirSource`, `CompletedStays`, `BackgroundReportSettles` | 58 k |
| `inference` | 2 instances of the page, 2 runs after an earlier one, 1 model, 1 input, history of 2 | `ResultsMatchProvenance`, `RunsAreRemembered`, `RecordsAreTrue` | 698 k (symmetry of pages) |
| `live_jobs` | 2 jobs, pages of 1 row; 2 requests in flight of which 1 may fail, or 2 rounds, 1 lost connection, 1 failing read or deleted row | `RowsAreContiguous`, `BusyWhileAwaited`, `SocketServesItsUsers`, `FollowedToItsEnd`, `PollingSettles`, `Reconnects` | 601 k |
| `canvas` | 9 nodes, 3 saved pipelines, 3 edits (undo, redo, answers of dialogs and runs do not count), history of 2; 3 canvases, 2 saves | `EdgesHaveNodes`, `NoLoops`, `RunsAreSound`, `LettersAgree`, `StoredIsCurrent`, `OfferIsKept`, `PinnedSurvive` | 208 k |
| `eda_never_runs` | Celery, 1 report | violates `EveryReportSettles` | |
| `sent_order` | as `canvas` | violates `SentInRunnableOrder` | |

Symmetry is used only in runs without liveness properties.

### Bounds, and why they are enough

* *Calls and requests.* A race of the code needs two parties; the third is there
  for what the second leaves behind: the call that finds the row the winner
  inserted while a loser retries, the request that arrives after an eviction with
  a waiter still in the queue, the deploy after a race. The proofs remove the
  bound for versions, for all invariants of jobs and for the properties of
  submission, deployment, ingestion and reports that section 8 lists.
* *Branches.* Two: a sibling is what a batch revoke hits, and the second branch is
  what a creation fails on after the first is committed.
* *`MaxDeliveries`* is 2 where redelivery matters: the second attempt meets the
  rows of the first, dead or alive. A worker is lost, or a late redelivery
  happens, only while the bound leaves room for another delivery. The invariants
  are proved for every bound.
* *`MaxFaults`* (`Ingestion`) is 2: a task whose statement fails, or whose worker is
  lost, may meet a second failure while it is handled or redelivered. Files, data, unlinks
  and the broker fail as often as they like. In `EdaReport` every failure may happen again
  and again but for `ApiCrash`, which happens once, and after which nothing settles a
  report.
* *One delivery in `jobs_batch`.* That run has no redelivery; its invariants hold of
  redelivered tasks, late ones included, by the theorems of section 8, and what one run of
  one branch does when redelivered is in `jobs_settle`.
* *`old`* abstracts two hours and more of age to a Boolean: any active row may
  cross the cutoff at any moment.
* *One cancel and one delete per report and source*; a job may be cancelled again
  and again.
* *Inference.* Two instances are what it takes to share the storage, or to have a
  page that was left beside the next one; of two runs one may be in flight while
  the other is recorded, and a history of two drops the oldest. The three properties
  are proved for any number of instances and runs and any limit.
* *Live jobs.* Two jobs on pages of one row give a second page, an offset that
  moves and a job hidden by a newer one; two requests overtake each other; two
  failures in a row are `GiveUp` (five in the code). `MCLiveJobs` lets in one
  behaviour either the list or a polling component act, over the same socket: they
  meet nowhere else, and the product of both is out of reach. Where an effect has left an
  interval or a round behind, no connection is lost and a component tracks one job: what is
  left behind acts on failure counts only. It ends a behaviour at
  its first lapse, since nothing but `BusyWhileAwaited` and `SocketServesItsUsers` is
  asserted after one. The three invariants are proved for any jobs, requests, page size,
  failures and drops, lapsed or not.
* *Canvas.* Three saved pipelines put the edits where the interesting graphs are (a
  split with rows preprocessed twice, an ensemble of two models, two steps merged by
  a third), and three edits more connect, delete, paste, parallelise or chain
  there; from an empty canvas three edits make the first edge. All
  properties but `LettersAgree` are proved for any nodes, saved pipelines, edits and
  limits. `MCCanvas` checks graph and session as
  two sets of behaviours of one run: they share no variable.

`CHECK_DEADLOCK FALSE` is set for `eda`, `eda_never_runs`, `ingest`, `inference`,
`live_jobs`, `canvas` and `sent_order`: when every request, task and message is done,
or the bound on what users do is used up, these systems rest. The other modules have an
explicit `Rest` step, so that TLC would report a real deadlock.

## 5. Fairness

* `VersionAllocation`, `SubmitDedupe`: weak fairness of each call's next step. The
  event loop runs every ready coroutine, and the database answers a statement
  whose lock is free. No strong fairness is needed, since each call passes a lock a
  bounded number of times.
* `JobLifecycle`: weak fairness of the requests' steps, of delivery, of threads, of
  acknowledging, of the passing of time (`GrowOld`) and of `ApiStart` (a supervisor
  restarts the process). None for crashes, errors, cancels, nor for `Terminate`: a
  revoke cannot stop a thread of the solo pool that the compose file uses.
  `RestartsSettleOrphans` moreover assumes that the API is restarted again and
  again; that is its statement, since only a start-up repairs those rows.
* `LiveJobs`: weak fairness of answers, timers, rounds, of a connection that is
  wanted and of events that have reached the socket; none of users, workers,
  failures or drops, whose number is bounded, so that after the last one the socket
  does open. Only the oldest answer and the oldest round are promised: in between
  they come in any order.
* `Ingestion`, `EdaReport`: weak fairness of the task's and of the request's steps
  (the event loop or a worker gets round to them), not of cancels or deletions.

## 6. Properties, and the exceptions they name

A property that would be false as stated in its simplest form names what breaks
it; the exception is part of what the reader should learn.

* `NoSilentOrphan`: an active row has a request, a message or a live thread behind
  it, except when (`Abandoned`) the request died before the dispatch, the batch was
  revoked, the in-process task died with the API, or the database refused the
  final write. Revoking one branch of a batch does abandon its siblings.
* `EveryJobSettles`: the liveness of the same; `RestartsSettleOrphans`: the sweep
  gets what is abandoned, whatever happened.
* `CompletedRowIsOneAttempt`, `CancelMidRunSticks`: except after a redelivery beside
  a live attempt, where two threads write one row and neither holds. The second is about
  cancels committed while the engine runs; one committed after the status was refreshed,
  just before the final commit, is overwritten.
* `NoDuplicateOnSQLite`: one process and no row locks, so only the asyncio lock
  protects; except through the eviction of a lock others wait for, which takes a
  job of the branch that ended or failed to be created.
* `SharedJobIsDispatched`: except when the creator fails on a later branch.
* `ServiceNeverDrops`: on PostgreSQL; on SQLite a deploy that fails after its
  UPDATE leaves no active model.
* `SoloRequestDecides`: whatever races left behind (two active rows), the next
  deploy that runs alone heals.
* `FilesMatchRows`: the exceptions are an API that died inside a request, a broker
  that refused the task after the row was committed (the row stays pending without
  its file), and an unlink that failed.
* `ProfileSurvives`: except a cancel that read the metadata before the profile was
  stored.
* `EverySourceSettles`, `BackgroundReportSettles`: except an API that dies with the
  background task, since there is no sweep for sources and reports, and a failure that
  cannot be recorded: no database session for the task, a first read of the report that
  fails, or a statement that fails while the failure is being written.
* `RowsAreContiguous`: except when offsets have moved (a job came or went between the
  reads of two pages on display, a second page was asked for with no first one shown, or
  `fetchJobs` reset `skip` and its answer was not the next one shown); offset paging
  cannot do better about the first, the reset before the await could.
* `FollowedToItsEnd`: except when newer jobs fill the first page, when a job or the
  loop outlives its time, or when an older answer was shown after a newer one.
* `PollingSettles`: except when a round was shown after a later one; it speaks of the
  interval of the mounted component, not of one that an earlier one left behind.
* In `JobFeed` an ended job stays ended. A row that the sweep failed under a running
  worker is completed after that (section 7), which `FollowedToItsEnd` and
  `PollingSettles` take for the same end.
* `RestartsSettleOrphans` asks that every row settles, not that it is settled once: a
  worker's `completed` over the sweep's `failed` passes.
* `EdgesHaveNodes`: except an undo or redo under an open delete dialog, after which
  the confirmed deletion removes the nodes but not the edges that came back.
* `NoLoops`: except chaining siblings on an advisory that is older than the graph.
* `RunsAreSound`: after such a chain what is sent may lack an input; after a delete that
  was raced by an undo nothing is claimed.
* `LettersAgree`: on plain canvases (no ensembles, no clusterings, either everything
  ends in a training node or nothing does, previews beside another consumer); on
  others only the order, wherever both sides see the same branches, since section 7
  lists how they do not. In both cases once the canvas has taken the modes of its nodes in.
* `OfferIsKept`: except that clearing the canvas with a save pending stores the
  empty one.
* `RunsAreRemembered`, `RecordsAreTrue`: except runs whose page was left, or that
  shared the storage with another live instance.

## 7. Divergences

Two have a run (`findings` in `PROJECT.json`): EDA reports that stay PENDING for ever
under Celery (`eda_never_runs`), and a configuration whose nodes are not in an order the
engine can run (`sent_order`).

The modules show more of them, each a consequence of transitions that the runs
above cover.

*Jobs, versions, deployment, data*

* A cancel committed after a worker has received the task is overwritten by its
  first write (`SetRunning`), and the job runs to `completed`;
  `ml_pipeline/_execution/job_manager_base.py:68` says that "the status guard in
  update_status_sync still keeps the row at CANCELLED even if the worker writes
  back", but the worker does not go through it.
* Two active jobs for one branch with a single worker on PostgreSQL:
  `find_active_job` locks the row it returns, and the next request's SKIP LOCKED
  skips exactly that row (`Visible`); `src/docs/guides/job_idempotency.md:67` says
  that "the default single-worker configuration is fully protected on both
  databases."
* Two deploys that read before either commits both stay active;
  `src/docs/guides/platform_walkthrough.md:222` says that "only one model can be
  active at a time."
* The sweep fails a row whose Celery worker still runs it, and the worker then
  completes it (`ApiStart`, `WriteSuccess`);
  `ml_pipeline/_internal/_routers/jobs.py:32` says that failed and cancelled jobs
  "have reached a state that will never mutate again on its own."
* With an evicted lock two requests are in the check at once (`ReleaseAndEvict`,
  `TakeLock`); `ml_pipeline/_internal/_routers/run_pipeline.py:180` says that "no
  two coroutines race through it at the same time."
* With two workers on PostgreSQL two first requests both create, since there is no
  row to lock yet; `src/docs/guides/job_idempotency.md:60` says that the second one
  "waits for lock".
* Two racing deploys can record the same `previous_deployment_id`;
  `database/models.py:387` speaks of "an unbroken replacement chain".
* The ingestion task sets `processing` over a committed cancel
  (`MarkProcessing`), and a stale cancel leaves a source that is usable
  (`test_status` success), cancelled and without profile;
  `data_ingestion/service.py:126` promises "a non-running state", line 55 "only
  successfully ingested data sources".
* A running EDA analysis completes over CANCELLED (`Save`);
  `src/docs/guides/backend_api.md:276` says "Cancel a running EDA analysis."
* Without Celery too a report stays PENDING if its session or its first read fails
  (`ReadFails`), or if marking it FAILED does (`FailReportSafely`); a source stays
  pending or processing if the task gets no session (`LoadFails`) or its handler fails
  (`FailAgain`). Only a log says so.

*Live jobs*

* `fetchJobs` resets `skip` before its await (`core/store/useJobStore.ts:146`): if it
  fails, the next page repeats rows; beside a `loadMoreJobs` in flight it leaves a
  gap, and a second `fetchJobs` answered after that one leaves `skip` past a list of one
  page (`FetchAnswered`).
* When the first read fails, the drawer's auto-load
  (`components/panels/JobsDrawer.tsx:131`) asks for the second page, which becomes the
  head of an empty list (`LoadMoreJobs`).
* An answer read before a submit and shown after it stops the loop the submit
  started (`TickAnswered`); the comment at `core/store/useJobStore.ts:297`, that an
  event revives the loop, does not hold: it causes one tick.
* A round of `useJobPolling` shown after the one that settled everything leaves
  "running" on display with the interval stopped; a reconnect re-arms an interval
  that had been stopped (`core/hooks/useJobPolling.ts:213`). The doc at line 54,
  that the status is running while any job is, does not hold once one has failed.

* The cleanup of `useJobPolling` clears its interval before it unsubscribes. If it was the
  last user of an open socket, `close()` notifies its status listener
  (`core/realtime/jobEventsSocket.ts:165`), which sets an interval that nobody clears
  (`UnmountPolling`, `orphan`); the comment at `core/hooks/useJobPolling.ts:12`
  says "We stop polling once every tracked job has hit a terminal state".

*Canvas*

* `useBranchStableNodes` (`components/canvas/FlowCanvas.tsx:63`) leaves `execution_mode` out
  of its signature, which the letters depend on: after the Merge/Parallel toggle the canvas
  keeps its old letters until nodes, types, models, labels or titles change, while the next
  preview has the new tabs (`Rerender`; `LettersAgree` excepts these
  states). The comment at line 49
  says that branch colours depend on "node topology — id, type, model metadata" only.
* The canvas shows a dangling step as a path of its own where the preview, with one
  training node that does not run in parallel, has a single tab; the comments in
  `preview.py` and at `core/hooks/useBranchColors.ts:104` say that they match. They
  also differ with a lone preview node, with the target wire of a feature-target
  split into a parallel node, with a clustering before an ensemble, and with an
  ensemble that has a data edge of its own.
* A clustering or an ensemble may be wired into an ensemble, whose configuration
  then takes it as data; the comment in `core/utils/pipelineConverter.ts:199` speaks
  of models as recipes.
* `chainSiblings` says that no cycle check is needed; with an advisory older than
  the graph it closes a loop (`looped`), and it drops what else fed the siblings. A
  loop that no dataset reaches is not reported but silently not sent, while a node that
  needs its output is: `findCycleIssues` ignores inputs that are not sent.
* The delete dialog is awaited while Ctrl+Z works (`raced`).
* A confirmed deletion needs two undos; selecting an edge makes a history entry.
* A quick refresh within the debounce loses the last edit, which the comment at
  `core/hooks/useCanvasAutoSave.ts:16` denies; clearing within it stores the empty
  canvas (comment at line 31); adding one node overwrites the session that the
  banner was offering.
* `pages/CanvasPage.tsx:154` looks for `n.type === 'dataset_node'` while `addNode`
  sets `custom`: the dataset node is added again.
* Results of an older graph stay on display beside the current one.

*Inference*

* Retry sends the last attempt, not the failed run that is shown after a restore
  (`components/pages/InferencePage.tsx:1299`).
* A run whose page is left in mid-flight is recorded nowhere, and a second tab turns
  the first one's live run into a failed one, or removes its marker.
* `ml_pipeline/deployment/api.py:107` reads the active deployment once more after
  the prediction was made, so that `model_version` may name another model.

## 8. Proofs

Checked with TLAPS 1.4.5 (SMT, Zenon, PTL). They assume only the named ASSUMEs of
the modules, which TLC evaluates in every run of the module: that the constants
have their types, that there are at least two attempts, that runs own disjoint,
nonempty sets of rows, that bounds are positive, that there are finitely many nodes
and that saved pipelines are neither torn nor looped nor wired in ways the canvas
refuses. The inductive invariant of a
module is called `IInv` where there is one, and has one lemma per action or group of
actions. The invariants of the larger proofs (`AInv`, `Books`, `Wired`, `Loopless`)
were checked by TLC on the states of the runs before they were proved.

**VersionAllocationProofs.** `IInv` is the type invariant and seven parts. Only
the row-lock part (`LockInv`: a row is locked exactly by the call about to commit
it) lets one say that the value a call computed is still current when it commits
(`ValueInv`); from that the committed counter bounds what was handed out
(`CounterInv`), versions differ (`DistinctInv`), none is missing (`CoverInv`), and
a call that lost the insert race finds the row in its second attempt
(`AttemptInv`). One lemma per action proves that `IInv` is kept. From it:
`AllocatorTypeOK`, `VersionsAreUnique`, `VersionsContinue`,
`AllocationNeverGivesUp`, `CounterOnlyGrows`, and `AllocationIsASequence`: every
step of the protocol is `Take` (the `Commit`) or a stutter of `VersionSequence`. The
types and the growth of the counter are proved only: no run repeats them.

**JobLifecycleProofs.** `IInv` is stated run by run (`RunInv`), so that a step of one
run leaves the others alone (`OtherRuns`): how far the request is fixes what the
broker holds and which rows exist (`SubmitInv`), task ids stay within the run
(`IdInv`), threads run only in live attempts (`ThreadInv`), without Celery nothing
is delivered twice (`BackgroundInv`), and an active row of a delivered task is
owned by a thread that will still change it (`OwnerInv`). The last part is the
strengthening `NoSilentOrphan` needs: a thread about to write counts only if what
it loaded was active, since otherwise its session would write nothing. From it:
`LifecycleTypeOK`, `WorkersFindTheirRows`, `NoRowIsOrphaned`, for any runs,
branches, deliveries, either mode and any environment, late redelivery included.

Two more need that attempts do not overlap, which holds until the broker redelivers
a task beside a live one (`late`). `AInv` says of the other runs that the latest
attempt is the only one alive and later ones have not begun (`Sole`), and of a row what
its one thread knows at each step (`Progress`): a row is not completed from the
moment the thread sets it running, its artifact is the thread's once the engine runs,
and a thread cancelled in the engine finds the cancellation. From it
`CompletedRowsAreOneAttempt` and, as an action property, `CancelsStick`.

**SubmitDedupeProofs.** A request inside the critical section is queued on the lock
it will release and holds it after the check (`QueueInv`), and every lock in the table
has somebody inside, or one that failed there (`TableInv`): so the table drains. A row of a
request is on a branch it is through with, and what it answers with is a row
(`AnswerInv`, `SentInv`): so what is shared is dispatched. `NoDuplicates` takes one
worker and adds `Mutex`: as long as no row of a branch has ended and nobody has failed
on it, all its requests use one lock until the first row is there, and from then on
nobody passes the check.

**ServingProofs.** Of deployments: `LockInv` and `WaitInv` say who holds row locks and why;
`AloneInv` what a request that ran alone so far knows of the active rows, which
gives `AloneDecides`. `ServiceIsKept` needs no invariant: no single step breaks it.

Of the inference page: `DisplayIsOneRun` follows action by action: seven handlers
and the mount effect write the display, all of them as a whole. `NoRunForgotten`
needs `Tracked`: pages that are not mounted have nothing to record (`PagesTidy`),
whoever shares the storage holds only adrift runs (`SharersAdrift`), the marker is that
of the run in flight and the other way round (`MarkerTrue`, `FlightMarked`), and the
history of a mounted page differs from the stored one in excused runs only
(`HistoriesAgree`), so that the list it writes forgets nothing else. `RecordsTellTheTruth`
needs `Books`: every list of records names each run once and as it ended (`ListsSound`),
a page has recorded neither the run it has in flight nor the one it is about to record
(`NextRecords`), the run of a marker is recorded nowhere (`MarkerUnrecorded`), and has no
outcome unless a page still has it in flight (`MarkerInterrupted`): so the failed run
that a mount makes of a marker is the truth.

**IngestionProofs.** `SourceInv` relates, source by source, how far the request, the
task and the deletion are to the file and the row; the exceptions that
`FilesMatchRows` names are what is left over. `ProfilesSurvive` needs that the copy
a task is about to store is not behind the row (`CopyInv`).

**EdaReportProofs.** A row exists from the insert on and goes with its source
(`ReportsHaveTheirSource` is nearly inductive); the insert precedes the message and the
message the run (`OrderInv`), and a completed report is one whose run has ended
(`CompletedInv`), which gives `CompletedReportsStay`.

**LiveJobsProofs.** `IInv` has the types, that a job has a state exactly once it exists,
and that those who are subscribed are those whom `refCount` counts (`UsersAreServed` is
its last part). On it rest two more. `WaitInv` says that only a `fetchJobs` ends an action
or starts the loop, and that whatever the list waits for is on its way
(`NothingStaysBusy`). `ListInv` is what `RowsStayContiguous` needs, as long as offsets fit:
the list starts with the first page of some moment, so that it fills a page unless it goes
down to the oldest job (`FromFirst`); every answer on its way holds such a page, or the
rows that follow those it captured (`AnswerInv`); and whenever more can be asked for,
`skip` and a page are as many rows as are on display, unless `fetchJobs` has reset it and
is still awaited (`Fit`, `Resets`). The first attempt at this proof failed for good
reasons: a read of the second page onto an empty list, and a second `fetchJobs` answered
after a `loadMoreJobs`, which the model had not counted as lapses and section 7 now lists.

**CanvasProofs.** Of the session: `BannerInv`, that a banner that shows a snapshot
read it from the storage, which nobody writes while the canvas stays empty, but for the
pending save that `wiped` names (`AutosaveCatchesUp`, `OffersAreKept`); and `Listed`,
that no name is in the list of recent pipelines twice, without which a cap that counts
entries could drop a pinned one (`PinsAreSafe`).

Of the canvas: `CanvasIsTyped`, over every operation; `NoEdgeLosesAnEnd`, from `Wired`:
as long as nothing was undone under a delete dialog, every graph on the canvas or in
its histories has the nodes of its edges, and the dialog holds every edge of the nodes it
is about to take; and `TheCanvasHasNoLoops`, from `Loopless`: none of the
graphs that may come back has a loop, and the nodes a chain dialog lists are different
ones, none of them the one they end in. What an operation does to loops is told by
sets: a graph has none if for each node a set that no edge leads out of holds its
successors and not the node (`AcyclicBySets`). Fewer edges close none (`FewerEdges`), one edge
closes one only if its source was downstream of its target (`EdgeAdded`), which is what
connecting asks, and a chain is built one edge at a time (`ChainFacts`).

`RunsSendSoundPipelines` takes both and two more parts. `Fitted`: every edge of every
graph that may come back is one that may be drawn, and what a chain dialog lists are
neither datasets, previews nor models, since an advisory names siblings with a common
ancestor that feed a data node (`AdvisedProcess`); `Checked`: the graph of a run had no
issues when the run began. The rest is about the conversion of one such graph
(`SentIsSound`). What is walked holds the datasets and all that edges lead to from there
(`OrderFacts`: the walk has as many steps as datasets and edges, and every step takes one
of them off what is left to do); what is sent is what is walked but for recipes and for
nodes of which everything that consumes them is dropped too (`PrunedFacts`,
`ConfigFacts`). Without loops nothing can be left over on either side: a node of an
acyclic graph that is not walked has a predecessor that is not walked either, and one
that is dropped a consumer that is dropped, without end (`EndsSomewhere`). That nothing
sent needs itself follows from the least round of Kahn's algorithm that orders it
(`OrderedFacts`). And a path of the canvas from a step that learns to a splitter is one of
the configuration, because only ensembles accept models, so that every node of the path
is data and is sent. The attempt to prove it in its first form failed: after siblings were
chained that had ceased to be, an input may not be sent. The property now says so, and
section 7 lists it.

`LetteredCanvas` says that the canvas with its letters is edited as the canvas alone, so
that all this holds of what the run `canvas` checks; `LettersAreTyped` is the type
invariant of the letters.

`Downstream`, `Picked` and `ChainSiblings` are recursive functions. What they compute
is proved without an induction rule, by sets: the rounds at which a claim fails are a
set of numbers, and if it had an element it would have a least one (`UpTo`,
`Recursion`). That `Downstream` is closed after as many rounds as there are nodes is a
count: a round that adds nothing is the last, and every other adds a node
(`GrowthFacts`, for every closure of the model).

Only model-checked: everything temporal (`EveryCallCreatesItsJob`, `EveryJobSettles`,
`RestartsSettleOrphans`, `EveryRequestEnds`, `EverySourceSettles`,
`BackgroundReportSettles`, `FollowedToItsEnd`, `PollingSettles`, `Reconnects`),
because the prover has neither fairness nor ENABLED in reach; and `LettersAgree`, which
compares two sorts, one by levels and one by the order of a breadth-first walk, of paths
that two different recursions find: an induction over data that sets of rounds do not
replace.

## 9. Not modelled, and why

* Most lines of the front end, and so of the repository's JavaScript and TypeScript:
  forms for node settings, charts, tables, result panels, themes, read-only pages
  and the API client. They render one response or edit one form; what they do to
  shared state goes through the stores and hooks modelled here. The built bundles
  under `src/static` are generated.
* Of the modelled front-end parts: positions and selections on the canvas, settings
  of nodes but for the execution mode, templates, import and export; the banner of a
  parallel run in the job list; input formats and CSV of the inference page.
* The event bus inside the backend, the trial buffers and pipeline versions (section
  2); the engine's node bodies and merge strategies.
* Promotion of a job, listings, conversions, `update_status_sync` (no caller in
  production code), log and progress columns: they change nothing the properties
  read.
* Whether two files or artifacts collide: their names contain the job id and a
  time stamp.
* Numeric code, statistics, text generation, settings, middleware, pure reads.
* The insides of Celery, Redis, asyncio and SQLAlchemy, but for the behaviour named
  in section 3, and errors of the database beyond "a statement fails".
