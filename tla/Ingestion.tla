------------------------------ MODULE Ingestion ------------------------------
(***************************************************************************)
(* Data ingestion: a data source is created by an upload (a file and a row) *)
(* or from an S3 address (a row), a task profiles it in a Celery worker or  *)
(* in a thread of the API process, and the user may cancel or delete it at  *)
(* any moment.  The status and the profile are parts of one JSON column,    *)
(* source_metadata, which every writer copies, changes and stores whole;    *)
(* test_status, a column of its own that the task's end sets, is left out.   *)
(*                                                                         *)
(* An ORM UPDATE of a row that is gone raises StaleDataError.  One cancel   *)
(* and one delete request per source; samples and exports are left out.     *)
(***************************************************************************)
EXTENDS Naturals

CONSTANTS
  Files,        \* sources made by an upload
  Remotes,      \* sources made from an S3 address
  UseCelery,    \* the values of USE_CELERY considered
  Environment,  \* what may go wrong; see IngestionAssumption
  MaxFaults,    \* bound: workers lost, API crashes, failing statements
  NoRow

Sources == Files \cup Remotes

ASSUME IngestionAssumption ==
  /\ Files \cap Remotes = {}
  /\ UseCelery \subseteq BOOLEAN
  /\ Environment \subseteq {"brokerFails", "fetchFails", "unlinkFails", "dbFails",
                            "workerLost", "apiCrash", "cancel", "delete"}
  /\ MaxFaults \in Nat

Status == {"pending", "processing", "completed", "failed", "cancelled"}
Row == [status : Status, profile : BOOLEAN]

ASSUME NoRowAssumption == NoRow \notin Row

VARIABLES
  celery,  \* USE_CELERY, never changed
  req,     \* the request that creates the source
  file,    \* uploads on disk
  row,     \* the DataSource row
  msg,     \* the task message: in Redis, or a background task of the API
  task,    \* where ingest_data_task is
  copy,    \* the task's copy of source_metadata: whether it holds a profile
  cancel,  \* the cancel request
  seen,    \* its copy of source_metadata
  delete,  \* the delete request
  faults,  \* workers lost, API crashes and failing statements so far
  abandoned \* history: sources whose task died with the API, or could not record its failure

vars == <<celery, req, file, row, msg, task, copy, cancel, seen, delete, faults, abandoned>>
apiVars == <<celery, req, cancel, seen, delete>>
taskVars == <<msg, task, copy>>

TypeOK ==
  /\ celery \in UseCelery
  /\ req \in [Sources -> {"none", "saving", "inserted", "done", "failed", "dead"}]
  /\ file \subseteq Files
  /\ row \in [Sources -> Row \cup {NoRow}]
  /\ msg \in [Sources -> {"none", "queued", "taken"}]
  /\ task \in [Sources -> {"idle", "mark", "fetch", "complete", "except", "fail", "ended"}]
  /\ copy \in [Sources -> BOOLEAN]
  /\ cancel \in [Sources -> {"idle", "read", "done"}]
  /\ seen \in [Sources -> BOOLEAN]
  /\ delete \in [Sources -> {"idle", "unlinked", "kept", "done", "orphaned", "dead"}]
  /\ faults \in 0..MaxFaults
  /\ abandoned \subseteq Sources

Init ==
  /\ celery \in UseCelery
  /\ req = [s \in Sources |-> "none"]
  /\ file = {}
  /\ row = [s \in Sources |-> NoRow]
  /\ msg = [s \in Sources |-> "none"]
  /\ task = [s \in Sources |-> "idle"]
  /\ copy = [s \in Sources |-> FALSE]
  /\ cancel = [s \in Sources |-> "idle"]
  /\ seen = [s \in Sources |-> FALSE]
  /\ delete = [s \in Sources |-> "idle"]
  /\ faults = 0
  /\ abandoned = {}

Exists(s) == row[s] # NoRow
Running(s) == Exists(s) /\ row[s].status \in {"pending", "processing"}

\* A query or a commit fails with the row there.
DbFails ==
  /\ "dbFails" \in Environment /\ faults < MaxFaults
  /\ faults' = faults + 1

TaskGoto(s, step) == task' = [task EXCEPT ![s] = step]

\* source_metadata is stored whole: the status with the profile of the copy.
StoreMetadata(s, status, profile) ==
  row' = [row EXCEPT ![s] = [status |-> status, profile |-> profile]]

-----------------------------------------------------------------------------
\* The request that creates a source.

SaveFile(s) ==
  /\ s \in Files /\ req[s] = "none"
  /\ req' = [req EXCEPT ![s] = "saving"]
  /\ file' = file \cup {s}
  /\ UNCHANGED <<celery, row, taskVars, cancel, seen, delete, faults, abandoned>>

\* Mutant of SaveFails: the partial file stays.
SaveFailsKeepsFile(s) ==
  /\ req[s] = "saving"
  /\ req' = [req EXCEPT ![s] = "failed"]
  /\ UNCHANGED <<celery, file, row, taskVars, cancel, seen, delete, faults, abandoned>>

\* The upload is over the limit or breaks off, or the INSERT fails.
SaveFails(s) ==
  /\ req[s] = "saving"
  /\ req' = [req EXCEPT ![s] = "failed"]
  /\ file' = file \ {s}
  /\ UNCHANGED <<celery, row, taskVars, cancel, seen, delete, faults, abandoned>>

InsertRow(s) ==
  /\ req[s] = IF s \in Files THEN "saving" ELSE "none"
  /\ req' = [req EXCEPT ![s] = "inserted"]
  /\ row' = [row EXCEPT ![s] = [status |-> "pending", profile |-> FALSE]]
  /\ UNCHANGED <<celery, file, taskVars, cancel, seen, delete, faults, abandoned>>

\* refresh the row, then _trigger_ingestion.
Trigger(s) ==
  /\ req[s] = "inserted" /\ Exists(s)
  /\ req' = [req EXCEPT ![s] = "done"]
  /\ msg' = [msg EXCEPT ![s] = "queued"]
  /\ UNCHANGED <<celery, file, row, task, copy, cancel, seen, delete, faults, abandoned>>

\* The row is gone when it is refreshed or the refresh fails, or the broker refuses
\* the message: the saved file is removed, the row (if there is one) stays pending.
TriggerFails(s) ==
  /\ req[s] = "inserted"
  /\ \/ /\ ~Exists(s) \/ (celery /\ "brokerFails" \in Environment)
        /\ UNCHANGED faults
     \/ DbFails
  /\ req' = [req EXCEPT ![s] = "failed"]
  /\ file' = file \ {s}
  /\ UNCHANGED <<celery, row, taskVars, cancel, seen, delete, abandoned>>

-----------------------------------------------------------------------------
\* ingest_data_task.

\* Mutant of Load: a source that is not pending is left alone.
LoadPendingOnly(s) ==
  /\ msg[s] = "queued" /\ task[s] = "idle"
  /\ msg' = [msg EXCEPT ![s] = "taken"]
  /\ TaskGoto(s, IF Exists(s) /\ row[s].status = "pending" THEN "mark" ELSE "ended")
  /\ copy' = [copy EXCEPT ![s] = Exists(s) /\ row[s].profile]
  /\ UNCHANGED <<apiVars, file, row, faults, abandoned>>

\* The row is read; none, and the task returns.
Load(s) ==
  /\ msg[s] = "queued" /\ task[s] = "idle"
  /\ msg' = [msg EXCEPT ![s] = "taken"]
  /\ TaskGoto(s, IF Exists(s) THEN "mark" ELSE "ended")
  /\ copy' = [copy EXCEPT ![s] = Exists(s) /\ row[s].profile]
  /\ UNCHANGED <<apiVars, file, row, faults, abandoned>>

\* The query fails inside the try; or there is no session, outside of it.
LoadFails(s) ==
  /\ msg[s] = "queued" /\ task[s] = "idle" /\ DbFails
  /\ msg' = [msg EXCEPT ![s] = "taken"]
  /\ \/ TaskGoto(s, "except") /\ UNCHANGED abandoned
     \/ TaskGoto(s, "ended") /\ abandoned' = abandoned \cup {s}
  /\ UNCHANGED <<apiVars, file, row, copy>>

\* Mutant of MarkProcessing: the status replaces the whole metadata.
MarkWipes(s) ==
  /\ task[s] = "mark" /\ Exists(s)
  /\ StoreMetadata(s, "processing", FALSE)
  /\ TaskGoto(s, "fetch")
  /\ UNCHANGED <<apiVars, file, msg, copy, faults, abandoned>>

MarkProcessing(s) ==
  /\ task[s] = "mark" /\ Exists(s)
  /\ StoreMetadata(s, "processing", copy[s])
  /\ TaskGoto(s, "fetch")
  /\ UNCHANGED <<apiVars, file, msg, copy, faults, abandoned>>

\* The row's config is read again after the commit; the data is loaded and profiled.
Fetch(s) ==
  /\ task[s] = "fetch"
  /\ Exists(s) /\ (s \in Files => s \in file)
  /\ TaskGoto(s, "complete")
  /\ UNCHANGED <<apiVars, file, row, msg, copy, faults, abandoned>>

Complete(s) ==
  /\ task[s] = "complete" /\ Exists(s)
  /\ StoreMetadata(s, "completed", TRUE)
  /\ TaskGoto(s, "ended")
  /\ UNCHANGED <<apiVars, file, msg, copy, faults, abandoned>>

\* The row is gone or a statement on it fails, the file is gone, or the data cannot
\* be read.
Raise(s) ==
  /\ task[s] \in {"mark", "fetch", "complete"}
  /\ \/ /\ \/ ~Exists(s)
           \/ task[s] = "fetch" /\ (s \in Files \ file \/ "fetchFails" \in Environment)
        /\ UNCHANGED faults
     \/ DbFails
  /\ TaskGoto(s, "except")
  /\ UNCHANGED <<apiVars, file, row, msg, copy, abandoned>>

\* _handle_ingestion_failure reads the row afresh ...
FailRead(s) ==
  /\ task[s] = "except"
  /\ TaskGoto(s, IF Exists(s) THEN "fail" ELSE "ended")
  /\ copy' = [copy EXCEPT ![s] = Exists(s) /\ row[s].profile]
  /\ UNCHANGED <<apiVars, file, row, msg, faults, abandoned>>

\* ... and commits the failure; if the row is gone by now, that raises again.
FailWrite(s) ==
  /\ task[s] = "fail"
  /\ IF Exists(s) THEN StoreMetadata(s, "failed", copy[s]) ELSE UNCHANGED row
  /\ TaskGoto(s, "ended")
  /\ UNCHANGED <<apiVars, file, msg, copy, faults, abandoned>>

\* Nobody catches what fails in the handler: the rollback, the query, the commit.
FailAgain(s) ==
  /\ task[s] \in {"except", "fail"} /\ DbFails
  /\ TaskGoto(s, "ended")
  /\ abandoned' = abandoned \cup {s}
  /\ UNCHANGED <<apiVars, file, row, msg, copy>>

\* acks_late: the message is acknowledged when the task has ended, its locals gone.
Acknowledge(s) ==
  /\ task[s] = "ended"
  /\ msg' = [msg EXCEPT ![s] = "none"]
  /\ TaskGoto(s, "idle")
  /\ copy' = [copy EXCEPT ![s] = FALSE]
  /\ UNCHANGED <<apiVars, file, row, faults, abandoned>>

\* reject_on_worker_lost: the message goes back to the queue.
WorkerLost(s) ==
  /\ "workerLost" \in Environment /\ celery /\ faults < MaxFaults
  /\ msg[s] = "taken"
  /\ msg' = [msg EXCEPT ![s] = "queued"]
  /\ TaskGoto(s, "idle")
  /\ copy' = [copy EXCEPT ![s] = FALSE]
  /\ faults' = faults + 1
  /\ UNCHANGED <<apiVars, file, row, abandoned>>

-----------------------------------------------------------------------------
\* cancel_ingestion and delete_source.

CancelRead(s) ==
  /\ "cancel" \in Environment
  /\ cancel[s] = "idle" /\ Running(s)
  /\ cancel' = [cancel EXCEPT ![s] = "read"]
  /\ seen' = [seen EXCEPT ![s] = row[s].profile]
  /\ UNCHANGED <<celery, req, file, row, taskVars, delete, faults, abandoned>>

CancelCommit(s) ==
  /\ cancel[s] = "read"
  /\ \/ Exists(s) /\ StoreMetadata(s, "cancelled", seen[s]) /\ UNCHANGED faults
     \/ ~Exists(s) /\ UNCHANGED <<row, faults>>
     \/ DbFails /\ UNCHANGED row
  /\ cancel' = [cancel EXCEPT ![s] = "done"]
  /\ seen' = [seen EXCEPT ![s] = FALSE]
  /\ UNCHANGED <<celery, req, file, taskVars, delete, abandoned>>

\* The file is removed first; failing to is only logged.
DeleteUnlink(s) ==
  /\ "delete" \in Environment
  /\ delete[s] = "idle" /\ Exists(s)
  /\ \/ file' = file \ {s} /\ delete' = [delete EXCEPT ![s] = "unlinked"]
     \/ /\ "unlinkFails" \in Environment /\ s \in file
        /\ delete' = [delete EXCEPT ![s] = "kept"]
        /\ UNCHANGED file
  /\ UNCHANGED <<celery, req, row, taskVars, cancel, seen, faults, abandoned>>

\* The deletion breaks off when its commit fails.
DeleteFails(s) ==
  /\ delete[s] \in {"unlinked", "kept"} /\ DbFails
  /\ delete' = [delete EXCEPT ![s] = "dead"]
  /\ UNCHANGED <<celery, req, file, row, taskVars, cancel, seen, abandoned>>

DeleteRow(s) ==
  /\ delete[s] \in {"unlinked", "kept"}
  /\ delete' = [delete EXCEPT ![s] = IF @ = "kept" THEN "orphaned" ELSE "done"]
  /\ row' = [row EXCEPT ![s] = NoRow]
  /\ UNCHANGED <<celery, req, file, taskVars, cancel, seen, faults, abandoned>>

\* The API process dies, and with it its requests and, without Celery, its
\* background tasks.  No start-up sweep looks at data sources.
ApiCrash ==
  /\ "apiCrash" \in Environment /\ faults < MaxFaults
  /\ faults' = faults + 1
  /\ req' = [s \in Sources |-> IF req[s] \in {"saving", "inserted"} THEN "dead" ELSE req[s]]
  /\ cancel' = [s \in Sources |-> IF cancel[s] = "read" THEN "done" ELSE cancel[s]]
  /\ delete' = [s \in Sources |-> IF delete[s] \in {"unlinked", "kept"} THEN "dead" ELSE delete[s]]
  /\ IF celery
       THEN UNCHANGED <<taskVars, abandoned>>
       ELSE /\ msg' = [s \in Sources |-> "none"]
            /\ task' = [s \in Sources |-> "idle"]
            /\ copy' = [s \in Sources |-> FALSE]
            /\ abandoned' = abandoned \cup {s \in Sources : msg[s] # "none"}
  /\ seen' = [s \in Sources |-> FALSE]
  /\ UNCHANGED <<celery, file, row>>

-----------------------------------------------------------------------------
TaskStep(s) ==
  \/ Load(s) \/ LoadFails(s) \/ MarkProcessing(s) \/ Fetch(s) \/ Complete(s) \/ Raise(s)
  \/ FailRead(s) \/ FailWrite(s) \/ FailAgain(s) \/ Acknowledge(s)

RequestStep(s) == Trigger(s) \/ TriggerFails(s)

Next ==
  \/ \E s \in Sources :
       \/ SaveFile(s) \/ SaveFails(s) \/ InsertRow(s) \/ RequestStep(s) \/ TaskStep(s)
       \/ WorkerLost(s) \/ CancelRead(s) \/ CancelCommit(s) \/ DeleteUnlink(s)
       \/ DeleteRow(s) \/ DeleteFails(s)
  \/ ApiCrash

Spec == Init /\ [][Next]_vars

\* A worker (or thread) that has taken a task runs it and there is one to take it;
\* the API finishes the requests it has begun.
FairSpec ==
  /\ Spec
  /\ \A s \in Sources : WF_vars(TaskStep(s)) /\ WF_vars(RequestStep(s))

-----------------------------------------------------------------------------
\* Every writer stores the whole metadata, often from a copy read long before:
\* a profile once stored must survive them all (a redelivered task, a failure,
\* a cancel of another attempt), except a cancel that read the metadata before
\* the profile was there.
ProfileSurvives ==
  [][\A s \in Sources :
       Exists(s) /\ row[s].profile /\ Exists(s)' /\ ~row[s].profile' => cancel[s] = "read"]_row

\* Uploads on disk and rows stay in step over failed requests, deletions and
\* tasks.  A row without its file is being deleted (or that broke off), or its
\* task could not be sent; a file without a row belongs to an upload (or the
\* API died at it), or its deletion could not unlink it.
FilesMatchRows ==
  \A s \in Files :
    /\ Exists(s) /\ s \notin file => delete[s] \in {"unlinked", "dead"} \/ req[s] = "failed"
    /\ s \in file /\ ~Exists(s) => req[s] \in {"saving", "dead"} \/ delete[s] = "orphaned"

\* Every source whose ingestion was started reaches an end that the status poll
\* shows, or is deleted, although workers are lost and statements fail on the way.
\* What leaves it running for ever is the death of the API process with the
\* background task in it, and a database that fails where no handler is left: no
\* session for the task, or a failure that cannot be recorded.
EverySourceSettles ==
  \A s \in Sources :
    Running(s) /\ req[s] = "done" ~> ~Running(s) \/ s \in abandoned
=============================================================================
