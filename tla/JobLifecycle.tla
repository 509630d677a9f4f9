---------------------------- MODULE JobLifecycle ----------------------------
(***************************************************************************)
(* The life of a training job: the row in training_jobs and everybody who  *)
(* writes it.  The API creates the rows of a run, dispatches one batch     *)
(* task for all of them and attaches the task id to each row; a worker     *)
(* runs one thread per row (execute_pipeline); the cancel endpoint reads   *)
(* the row, revokes the task and commits; every API start fails the rows   *)
(* that look orphaned.  No two of these share a lock: each commits what it *)
(* decided on the status it last read.                                     *)
(*                                                                         *)
(* Without Celery the batch runs as a background task of the API process   *)
(* and dies with it.  With Celery the broker redelivers a task whose       *)
(* worker is lost (acks_late, reject_on_worker_lost) and, when a task      *)
(* outlives the visibility timeout, delivers it again beside the first.    *)
(***************************************************************************)
EXTENDS Integers, FiniteSets

CONSTANTS
  Jobs,           \* job rows
  Runs,           \* accepted POST /pipeline/run requests, one batch task each
  RunJobs,        \* the rows a run creates, one per branch
  UseCelery,      \* Settings.USE_CELERY when the request of a run came
  MaxDeliveries,  \* bound: how often the broker delivers one task
  Environment,    \* what users and the environment do besides submitting
  Fallible,       \* runs for which a statement or the broker may fail
  NoTask          \* no celery_task_id in job_metadata

Events == {"cancel", "apiCrash", "workerLost", "lateRedelivery"}

ASSUME RunsAssumption ==
  /\ RunJobs \in [Runs -> SUBSET Jobs]
  /\ \A r \in Runs : RunJobs[r] # {}
  /\ \A r, s \in Runs : r # s => RunJobs[r] \cap RunJobs[s] = {}
  /\ \A j \in Jobs : \E r \in Runs : j \in RunJobs[r]
  /\ UseCelery \in [Runs -> BOOLEAN]
  /\ MaxDeliveries \in Nat \ {0}
  /\ Environment \subseteq Events
  /\ Fallible \subseteq Runs
  /\ NoTask \notin Runs

VARIABLES
  status,      \* status column; "none" before the row exists
  taskId,      \* job_metadata.celery_task_id
  artifact,    \* the attempt whose store artifact_uri names, 0 if null
  metrics,     \* the attempt whose results the metrics column holds, 0 if null
  old,         \* started_at is before the orphan cutoff
  apiUp,       \* the API process runs
  submit,      \* progress of the run_pipeline request
  attached,    \* rows the attach loop has been through
  cancel,      \* progress of a cancel request on a row
  cancelTask,  \* the task id that request read
  task,        \* the batch task, as the broker sees it
  tries,       \* deliveries so far
  live,        \* attempts whose worker (process) is alive
  revoked,     \* the workers were told to terminate the task
  pc,          \* the thread of attempt n that executes job j
  seen,        \* the status that thread loaded last
  yields,      \* history: threads whose engine was running when j was cancelled
  late         \* history: runs whose task was redelivered beside a live attempt

row == <<status, taskId, artifact, metrics, old>>
api == <<apiUp, submit, attached, cancel, cancelTask>>
broker == <<task, tries, live, revoked>>
threads == <<pc, seen>>
history == <<yields, late>>
vars == <<row, api, broker, threads, history>>

Attempts == 1 .. MaxDeliveries
Active == {"queued", "running"}
Terminal == {"completed", "failed", "cancelled"}
Statuses == Active \cup Terminal \cup {"none"}
ThreadSteps == {"idle", "find", "start", "store", "engine", "write", "except", "fail",
                "done", "unrecorded", "dead"}
Ended == {"done", "unrecorded", "dead"}

TypeOK ==
  /\ status \in [Jobs -> Statuses]
  /\ taskId \in [Jobs -> Runs \cup {NoTask}]
  /\ artifact \in [Jobs -> 0 .. MaxDeliveries]
  /\ metrics \in [Jobs -> 0 .. MaxDeliveries]
  /\ old \in [Jobs -> BOOLEAN]
  /\ apiUp \in BOOLEAN
  /\ submit \in [Runs -> {"idle", "creating", "dispatch", "attaching", "done", "dead"}]
  /\ attached \in SUBSET Jobs
  /\ cancel \in [Jobs -> {"idle", "read", "revoked"}]
  /\ cancelTask \in [Jobs -> Runs \cup {NoTask}]
  /\ task \in [Runs -> {"none", "queued", "unacked", "gone", "lost"}]
  /\ tries \in [Runs -> 0 .. MaxDeliveries]
  /\ live \in [Runs -> SUBSET Attempts]
  /\ revoked \in [Runs -> BOOLEAN]
  /\ pc \in [Jobs -> [Attempts -> ThreadSteps]]
  /\ seen \in [Jobs -> [Attempts -> Statuses]]
  /\ yields \in [Jobs -> SUBSET Attempts]
  /\ late \subseteq Runs

\* A request may be refused before it has created a row.
Init ==
  /\ status = [j \in Jobs |-> "none"]
  /\ taskId = [j \in Jobs |-> NoTask]
  /\ artifact = [j \in Jobs |-> 0]
  /\ metrics = [j \in Jobs |-> 0]
  /\ old = [j \in Jobs |-> FALSE]
  /\ apiUp = TRUE
  /\ submit \in [Runs -> {"idle", "dead"}]
  /\ attached = {}
  /\ cancel = [j \in Jobs |-> "idle"]
  /\ cancelTask = [j \in Jobs |-> NoTask]
  /\ task = [r \in Runs |-> "none"]
  /\ tries = [r \in Runs |-> 0]
  /\ live = [r \in Runs |-> {}]
  /\ revoked = [r \in Runs |-> FALSE]
  /\ pc = [j \in Jobs |-> [n \in Attempts |-> "idle"]]
  /\ seen = [j \in Jobs |-> [n \in Attempts |-> "none"]]
  /\ yields = [j \in Jobs |-> {}]
  /\ late = {}

-----------------------------------------------------------------------------
(* Submission: _submit_branch_jobs, then _dispatch_branch_tasks.           *)

\* create_job inserts and commits one queued row; the loop ends in dispatch.
CreateRow(r, j) ==
  /\ apiUp
  /\ submit[r] \in {"idle", "creating"}
  /\ j \in RunJobs[r] /\ status[j] = "none"
  /\ status' = [status EXCEPT ![j] = "queued"]
  /\ submit' = [submit EXCEPT ![r] =
       IF \E i \in RunJobs[r] \ {j} : status[i] = "none" THEN "creating" ELSE "dispatch"]
  /\ UNCHANGED <<taskId, artifact, metrics, old, apiUp, attached, cancel, cancelTask,
                 broker, threads, history>>

\* Mutant of Dispatch: the task is sent while rows are still being created.
DispatchEarly(r) ==
  /\ apiUp
  /\ submit[r] \in {"creating", "dispatch"}
  /\ task' = [task EXCEPT ![r] = "queued"]
  /\ submit' = [submit EXCEPT ![r] = IF UseCelery[r] THEN "attaching" ELSE "done"]
  /\ UNCHANGED <<row, apiUp, attached, cancel, cancelTask, tries, live, revoked, threads, history>>

\* run_pipeline_batch_task.delay(payloads), or BackgroundTasks.add_task.
Dispatch(r) ==
  /\ apiUp
  /\ submit[r] = "dispatch"
  /\ task' = [task EXCEPT ![r] = "queued"]
  /\ submit' = [submit EXCEPT ![r] = IF UseCelery[r] THEN "attaching" ELSE "done"]
  /\ UNCHANGED <<row, apiUp, attached, cancel, cancelTask, tries, live, revoked, threads, history>>

\* create_job raised on a later branch, or the broker refused the task: the
\* request ends and the rows it has committed stay behind.
SubmitFails(r) ==
  /\ r \in Fallible
  /\ submit[r] \in {"creating", "dispatch"}
  /\ submit' = [submit EXCEPT ![r] = "dead"]
  /\ UNCHANGED <<row, apiUp, attached, cancel, cancelTask, broker, threads, history>>

\* attach_celery_task_id; an exception is logged and the loop goes on.
AttachTaskId(r, j) ==
  /\ apiUp
  /\ submit[r] = "attaching"
  /\ j \in RunJobs[r] \ attached
  /\ attached' = attached \cup {j}
  /\ \/ taskId' = [taskId EXCEPT ![j] = r]
     \/ r \in Fallible /\ UNCHANGED taskId
  /\ submit' = [submit EXCEPT ![r] = IF RunJobs[r] \subseteq attached' THEN "done" ELSE @]
  /\ UNCHANGED <<status, artifact, metrics, old, apiUp, cancel, cancelTask, broker, threads,
                 history>>

-----------------------------------------------------------------------------
(* Cancellation: TrainingJobManagerBase._cancel_job.                       *)

CancelRead(j) ==
  /\ "cancel" \in Environment
  /\ apiUp
  /\ cancel[j] = "idle"
  /\ status[j] \in Active
  /\ cancel' = [cancel EXCEPT ![j] = "read"]
  /\ cancelTask' = [cancelTask EXCEPT ![j] = taskId[j]]
  /\ UNCHANGED <<row, apiUp, submit, attached, broker, threads, history>>

\* Best effort: the revoke may be lost, and it comes before the commit.
CancelRevoke(j) ==
  /\ cancel[j] = "read"
  /\ cancel' = [cancel EXCEPT ![j] = "revoked"]
  /\ \/ UNCHANGED revoked
     \/ cancelTask[j] # NoTask /\ revoked' = [revoked EXCEPT ![cancelTask[j]] = TRUE]
  /\ UNCHANGED <<row, apiUp, submit, attached, cancelTask, task, tries, live, threads, history>>

\* Mutant of CancelCommit: another spelling of the status.
CancelMisspelt(j) ==
  /\ cancel[j] = "revoked"
  /\ status' = [status EXCEPT ![j] = "canceled"]
  /\ cancel' = [cancel EXCEPT ![j] = "idle"]
  /\ cancelTask' = [cancelTask EXCEPT ![j] = NoTask]
  /\ UNCHANGED <<taskId, artifact, metrics, old, apiUp, submit, attached, broker, threads, history>>

CancelCommit(j) ==
  /\ cancel[j] = "revoked"
  /\ status' = [status EXCEPT ![j] = "cancelled"]
  /\ cancel' = [cancel EXCEPT ![j] = "idle"]
  /\ cancelTask' = [cancelTask EXCEPT ![j] = NoTask]
  /\ yields' = [yields EXCEPT ![j] = @ \cup {n \in Attempts : pc[j][n] \in {"store", "engine"}}]
  /\ UNCHANGED <<taskId, artifact, metrics, old, apiUp, submit, attached, broker, threads, late>>

-----------------------------------------------------------------------------
(* The broker and its workers (external), as the settings in celery_app.py *)
(* and the decorators in tasks.py make them behave.                        *)

\* A new attempt: one thread per row of the batch.
StartAttempt(r) ==
  LET n == tries[r] + 1 IN
  /\ tries[r] < MaxDeliveries
  /\ tries' = [tries EXCEPT ![r] = n]
  /\ live' = [live EXCEPT ![r] = @ \cup {n}]
  /\ task' = [task EXCEPT ![r] = "unacked"]
  /\ pc' = [j \in Jobs |-> IF j \in RunJobs[r] THEN [pc[j] EXCEPT ![n] = "find"] ELSE pc[j]]
  /\ UNCHANGED <<row, api, revoked, seen, yields>>

Deliver(r) ==
  /\ task[r] = "queued" /\ ~revoked[r]
  /\ UseCelery[r] \/ apiUp
  /\ StartAttempt(r)
  /\ UNCHANGED late

\* The visibility timeout passes while a worker still holds the task.
RedeliverLate(r) ==
  /\ "lateRedelivery" \in Environment /\ UseCelery[r]
  /\ task[r] = "unacked" /\ ~revoked[r]
  /\ StartAttempt(r)
  /\ late' = late \cup {r}

\* Attempt n of run r stops where it is.
KillAttempt(r, n) ==
  /\ live' = [live EXCEPT ![r] = @ \ {n}]
  /\ pc' = [j \in Jobs |-> IF j \in RunJobs[r] /\ pc[j][n] \notin Ended
                           THEN [pc[j] EXCEPT ![n] = "dead"] ELSE pc[j]]

\* Mutant of WorkerLost: the task was acknowledged when it was received.
LostTaskDropped(r, n) ==
  /\ "workerLost" \in Environment /\ UseCelery[r]
  /\ n \in live[r] /\ tries[r] < MaxDeliveries
  /\ KillAttempt(r, n)
  /\ task' = [task EXCEPT ![r] = "gone"]
  /\ UNCHANGED <<row, api, tries, revoked, seen, history>>

\* The worker process dies; the broker queues its task again.
WorkerLost(r, n) ==
  /\ "workerLost" \in Environment /\ UseCelery[r]
  /\ n \in live[r] /\ tries[r] < MaxDeliveries
  /\ KillAttempt(r, n)
  /\ task' = [task EXCEPT ![r] = "queued"]
  /\ UNCHANGED <<row, api, tries, revoked, seen, history>>

\* SIGTERM from a revoke: the task ends and is not queued again.
Terminate(r, n) ==
  /\ revoked[r] /\ n \in live[r]
  /\ KillAttempt(r, n)
  /\ task' = [task EXCEPT ![r] = "gone"]
  /\ UNCHANGED <<row, api, tries, revoked, seen, history>>

\* A revoked task that reaches a worker is dropped.
DropRevoked(r) ==
  /\ task[r] = "queued" /\ revoked[r]
  /\ task' = [task EXCEPT ![r] = "gone"]
  /\ UNCHANGED <<row, api, tries, live, revoked, threads, history>>

\* run_pipeline_batch_task returns once every branch thread has.
Acknowledge(r, n) ==
  /\ n \in live[r]
  /\ \A j \in RunJobs[r] : pc[j][n] \in {"done", "unrecorded"}
  /\ live' = [live EXCEPT ![r] = @ \ {n}]
  /\ task' = [task EXCEPT ![r] = IF @ = "unacked" THEN "gone" ELSE @]
  /\ UNCHANGED <<row, api, tries, revoked, threads, history>>

-----------------------------------------------------------------------------
(* One thread: execute_pipeline(j) in attempt n.                           *)

At(j, n, step) == pc[j][n] = step
Goto(j, n, step) == pc' = [pc EXCEPT ![j][n] = step]
Load(j, n) == seen' = [seen EXCEPT ![j][n] = status[j]]

\* The session writes a column only when its loaded value changes.
SetStatus(j, n, new) ==
  status' = IF seen[j][n] = new THEN status ELSE [status EXCEPT ![j] = new]

FindJob(j, n) ==
  /\ At(j, n, "find")
  /\ Load(j, n)
  /\ Goto(j, n, IF status[j] = "none" THEN "done" ELSE "start")
  /\ UNCHANGED <<row, api, broker, history>>

\* Mutant of SetRunning: only a queued row becomes running.
SetRunningIfQueued(j, n) ==
  /\ At(j, n, "start")
  /\ status' = IF seen[j][n] = "queued" THEN [status EXCEPT ![j] = "running"] ELSE status
  /\ old' = [old EXCEPT ![j] = FALSE]
  /\ Goto(j, n, "store")
  /\ UNCHANGED <<taskId, artifact, metrics, seen, api, broker, history>>

\* status = "running", started_at = now, whatever the status was.
SetRunning(j, n) ==
  /\ At(j, n, "start")
  /\ SetStatus(j, n, "running")
  /\ old' = [old EXCEPT ![j] = FALSE]
  /\ Goto(j, n, "store")
  /\ UNCHANGED <<taskId, artifact, metrics, seen, api, broker, history>>

\* The attempt's own artifact folder is recorded before the engine runs.
StoreArtifactUri(j, n) ==
  /\ At(j, n, "store")
  /\ artifact' = [artifact EXCEPT ![j] = n]
  /\ Goto(j, n, "engine")
  /\ UNCHANGED <<status, taskId, metrics, old, seen, api, broker, history>>

\* Mutant of RefreshStatus: the result is written whatever the status.
RefreshWithoutCheck(j, n) ==
  /\ At(j, n, "engine")
  /\ Load(j, n)
  /\ Goto(j, n, "write")
  /\ UNCHANGED <<row, api, broker, history>>

\* engine.run has returned: refresh the status, yield to a cancellation.
RefreshStatus(j, n) ==
  /\ At(j, n, "engine")
  /\ Load(j, n)
  /\ Goto(j, n, IF status[j] = "cancelled" THEN "done" ELSE "write")
  /\ UNCHANGED <<row, api, broker, history>>

\* _write_pipeline_result, success.  artifact_uri is written again only if the
\* session last loaded another attempt's value.
WriteSuccess(j, n) ==
  /\ At(j, n, "write")
  /\ SetStatus(j, n, "completed")
  /\ metrics' = [metrics EXCEPT ![j] = n]
  /\ \E a \in {n, artifact[j]} : artifact' = [artifact EXCEPT ![j] = a]
  /\ Goto(j, n, "done")
  /\ UNCHANGED <<taskId, old, seen, api, broker, history>>

\* _write_pipeline_result with a failed node, or handle_failure after an exception.
WriteFailure(j, n) ==
  /\ pc[j][n] \in {"write", "fail"}
  /\ SetStatus(j, n, "failed")
  /\ Goto(j, n, "done")
  /\ UNCHANGED <<taskId, artifact, metrics, old, seen, api, broker, history>>

\* The database may refuse a statement of the row's run.
StatementFails(j) == \E r \in Fallible : j \in RunJobs[r]

\* An exception in execute_pipeline; a failed statement raises anywhere.
Raise(j, n) ==
  /\ \/ pc[j][n] \in {"store", "engine"}
     \/ StatementFails(j) /\ pc[j][n] \in {"find", "start", "write"}
  /\ Goto(j, n, "except")
  /\ UNCHANGED <<row, seen, api, broker, history>>

\* Mutant of HandleException: only the status "running" is turned into a failure.
HandleIfRunning(j, n) ==
  /\ At(j, n, "except")
  /\ Load(j, n)
  /\ Goto(j, n, IF seen[j][n] # "running" THEN "done" ELSE "fail")
  /\ UNCHANGED <<row, api, broker, history>>

\* _handle_execution_exception reads the row again.
HandleException(j, n) ==
  /\ At(j, n, "except")
  /\ Load(j, n)
  /\ Goto(j, n, IF status[j] = "cancelled" THEN "done" ELSE "fail")
  /\ UNCHANGED <<row, api, broker, history>>

\* Recording the failure fails too and is only logged.
FailureUnrecorded(j, n) ==
  /\ StatementFails(j)
  /\ pc[j][n] \in {"except", "fail"}
  /\ Goto(j, n, "unrecorded")
  /\ UNCHANGED <<row, seen, api, broker, history>>

Thread(j, n) ==
  \/ FindJob(j, n) \/ SetRunning(j, n) \/ StoreArtifactUri(j, n) \/ RefreshStatus(j, n)
  \/ WriteSuccess(j, n) \/ WriteFailure(j, n) \/ HandleException(j, n)

-----------------------------------------------------------------------------
(* API restarts.                                                           *)

\* started_at falls behind the cutoff (JOB_ORPHAN_STALE_HOURS).
GrowOld(j) ==
  /\ status[j] \in Active /\ ~old[j]
  /\ old' = [old EXCEPT ![j] = TRUE]
  /\ UNCHANGED <<status, taskId, artifact, metrics, api, broker, threads, history>>

\* The API process stops: requests in flight die, background tasks with them.
ApiCrash ==
  /\ "apiCrash" \in Environment
  /\ apiUp /\ apiUp' = FALSE
  /\ submit' = [r \in Runs |-> IF submit[r] \in {"creating", "dispatch", "attaching"}
                                 THEN "dead" ELSE submit[r]]
  /\ cancel' = [j \in Jobs |-> "idle"]
  /\ cancelTask' = [j \in Jobs |-> NoTask]
  /\ task' = [r \in Runs |-> IF ~UseCelery[r] /\ task[r] \in {"queued", "unacked"}
                              THEN "lost" ELSE task[r]]
  /\ live' = [r \in Runs |-> IF UseCelery[r] THEN live[r] ELSE {}]
  /\ pc' = [j \in Jobs |-> [n \in Attempts |->
             IF pc[j][n] \notin Ended \cup {"idle"} /\ (\E r \in Runs : j \in RunJobs[r] /\ ~UseCelery[r])
             THEN "dead" ELSE pc[j][n]]]
  /\ UNCHANGED <<row, attached, tries, revoked, seen, history>>

\* Mutant of ApiStart: only running rows are reset.
ApiStartRunningOnly ==
  /\ ~apiUp /\ apiUp' = TRUE
  /\ status' = [j \in Jobs |-> IF status[j] = "running" /\ old[j] THEN "failed" ELSE status[j]]
  /\ UNCHANGED <<taskId, artifact, metrics, old, submit, attached, cancel, cancelTask,
                 broker, threads, history>>

\* lifespan: _reset_stale_jobs, one UPDATE, before requests are served.
ApiStart ==
  /\ ~apiUp /\ apiUp' = TRUE
  /\ status' = [j \in Jobs |-> IF status[j] \in Active /\ old[j] THEN "failed" ELSE status[j]]
  /\ UNCHANGED <<taskId, artifact, metrics, old, submit, attached, cancel, cancelTask,
                 broker, threads, history>>

\* Nothing is in progress any more: the system rests.
Rest ==
  /\ \A r \in Runs : /\ submit[r] \in {"done", "dead"}
                     /\ task[r] \notin {"queued", "unacked"} /\ live[r] = {}
  /\ \A j \in Jobs : cancel[j] = "idle"
  /\ UNCHANGED vars

Next ==
  \/ \E r \in Runs :
       \/ \E j \in RunJobs[r] : CreateRow(r, j) \/ AttachTaskId(r, j)
       \/ Dispatch(r) \/ SubmitFails(r)
       \/ Deliver(r) \/ RedeliverLate(r) \/ DropRevoked(r)
       \/ \E n \in Attempts : WorkerLost(r, n) \/ Terminate(r, n) \/ Acknowledge(r, n)
  \/ \E j \in Jobs : CancelRead(j) \/ CancelRevoke(j) \/ CancelCommit(j) \/ GrowOld(j)
  \/ \E j \in Jobs, n \in Attempts : Thread(j, n) \/ Raise(j, n) \/ FailureUnrecorded(j, n)
  \/ ApiCrash
  \/ ApiStart
  \/ Rest

Spec == Init /\ [][Next]_vars

\* Requests and threads keep running while their process lives, the broker
\* delivers; time passes; a crashed API is started again.  Nothing is assumed
\* about users, crashes, errors, or that a revoke stops a running task (the solo
\* pool cannot).
Fairness ==
  /\ \A r \in Runs :
       /\ \A j \in RunJobs[r] : WF_vars(CreateRow(r, j)) /\ WF_vars(AttachTaskId(r, j))
       /\ WF_vars(Dispatch(r)) /\ WF_vars(Deliver(r)) /\ WF_vars(DropRevoked(r))
       /\ \A n \in Attempts : WF_vars(Acknowledge(r, n))
  /\ \A j \in Jobs : WF_vars(CancelRevoke(j)) /\ WF_vars(CancelCommit(j)) /\ WF_vars(GrowOld(j))
  /\ \A j \in Jobs, n \in Attempts : WF_vars(Thread(j, n))
  /\ WF_vars(ApiStart)

FairSpec == Spec /\ Fairness

-----------------------------------------------------------------------------
(* Properties.                                                             *)

\* A thread of some live attempt still works on the row.
Executing(r, j) == \E n \in live[r] : pc[j][n] \notin Ended

\* What may leave a row of run r without anybody to write it: the request died
\* before the dispatch, the batch was revoked (by a cancel of any of its rows),
\* the background task died with the API process, or the database refused the
\* thread's final write.
Abandoned(r, j) ==
  \/ submit[r] = "dead" /\ task[r] = "none"
  \/ revoked[r]
  \/ task[r] = "lost"
  \/ \E n \in Attempts : pc[j][n] = "unrecorded"

\* A queued or running row has somebody who will still write it: the request
\* that has not dispatched yet, the broker, or a live thread.  The only
\* exceptions are the losses Abandoned names.
NoSilentOrphan ==
  \A r \in Runs : \A j \in RunJobs[r] : status[j] \in Active =>
    \/ apiUp /\ submit[r] \in {"creating", "dispatch"}
    \/ task[r] = "queued"
    \/ Executing(r, j)
    \/ Abandoned(r, j)

\* "Respect a concurrent cancellation": a cancel committed while the engine runs
\* is final for that thread, whether the engine returns or raises.  A task the
\* broker redelivered beside a live attempt is the exception: the second attempt
\* sets the row running again.
CancelMidRunSticks ==
  [][\A r \in Runs \ late : \A j \in RunJobs[r] : \A n \in yields[j] :
       status'[j] # status[j] => pc'[j][n] = pc[j][n] \/ status'[j] = "cancelled"]_vars

\* A completed row never pairs the metrics of one attempt with the artifact
\* folder of another, however often the broker redelivers the task after a
\* worker is lost (the deployment reads artifact_uri from such a row); only two
\* attempts that run side by side can mix theirs.
CompletedRowIsOneAttempt ==
  \A r \in Runs \ late : \A j \in RunJobs[r] :
    status[j] = "completed" => artifact[j] # 0 /\ artifact[j] = metrics[j]

\* A worker never looks for a row that is not committed yet, and the task id on
\* a row is that of the batch that executes it: a revoke hits no other run.
TaskFindsItsRows ==
  \A r \in Runs : \A j \in RunJobs[r] :
    /\ task[r] # "none" => status[j] # "none"
    /\ taskId[j] \in {r, NoTask} /\ cancelTask[j] \in {r, NoTask}
    /\ taskId[j] = r => task[r] # "none"

\* Every row reaches a terminal status, over lost workers, late redeliveries and
\* cancels of itself or of a sibling, unless it is abandoned in one of the ways
\* that only the next start-up sweep repairs.
EveryJobSettles ==
  \A r \in Runs : \A j \in RunJobs[r] :
    status[j] \in Active ~> status[j] \in Terminal \/ Abandoned(r, j)

\* Whatever is cancelled, lost or refused: if the API is restarted again and
\* again, no row stays active for ever ("without this reset the frontend polls
\* forever").
RestartsSettleOrphans ==
  ([]<>apiUp /\ []<>~apiUp)
    => \A j \in Jobs : status[j] \in Active ~> status[j] \in Terminal
=============================================================================
