------------------------------ MODULE EdaReport ------------------------------
(***************************************************************************)
(* EDA reports: POST /eda/{dataset}/analyze inserts a PENDING report and    *)
(* dispatches run_eda_analysis, to Celery or to a background task of the    *)
(* API's event loop; the report can be cancelled, and goes with its data    *)
(* source when that is deleted.                                             *)
(*                                                                         *)
(* The worker imports the modules celery_worker.py names; backend.eda.tasks *)
(* is not among them, so it knows no task "eda.generate_profile" and throws *)
(* such a message away.  The broker and that rule are Celery's.             *)
(*                                                                         *)
(* Sessions have expire_on_commit False: the analysis keeps the report as   *)
(* it read it.  An UPDATE of a row that is gone raises StaleDataError.  One *)
(* data source; each report has one analyze and one cancel request.         *)
(***************************************************************************)
EXTENDS Naturals, FiniteSets

CONSTANTS
  Reports,
  Settings,     \* the installations considered; see EdaAssumption
  Environment   \* what may happen besides; see EdaAssumption

ASSUME EdaAssumption ==
  /\ Settings \subseteq [celery : BOOLEAN, cascade : BOOLEAN]
  /\ Environment \subseteq {"fail", "dbFails", "cancel", "delete", "apiCrash"}

VARIABLES
  settings, \* the installation, never changed
  source,   \* the data source: "there", "deleting" (its reports were listed), "gone"
  listed,   \* the reports the deletion has listed
  row,      \* status of the EDAReport row, "none" without one
  profile,  \* rows with profile_data
  req,      \* the analyze request
  taskId,   \* rows whose config names the Celery task
  msg,      \* messages waiting in Redis, or background tasks not yet begun
  run,      \* where run_eda_analysis is
  cancel,   \* the cancel request
  up,       \* the API process has not crashed
  unmarked  \* history: reports whose failure the database refused to record

vars == <<settings, source, listed, row, profile, req, taskId, msg, run, cancel, up, unmarked>>

Celery == settings.celery        \* USE_CELERY
CascadeInDb == settings.cascade  \* the foreign key cascades in the database (not in old SQLite files)

TypeOK ==
  /\ settings \in Settings
  /\ source \in {"there", "deleting", "gone"}
  /\ listed \subseteq Reports
  /\ row \in [Reports -> {"none", "PENDING", "COMPLETED", "FAILED", "CANCELLED"}]
  /\ profile \subseteq Reports
  /\ req \in [Reports -> {"none", "checked", "inserted", "sent", "done", "failed"}]
  /\ taskId \subseteq Reports
  /\ msg \subseteq Reports
  /\ run \in [Reports -> {"idle", "source", "load", "analyze", "save", "fail", "rollback", "ended"}]
  /\ cancel \in [Reports -> {"idle", "read", "done"}]
  /\ up \in BOOLEAN
  /\ unmarked \subseteq Reports

Init ==
  /\ settings \in Settings
  /\ source = "there"
  /\ listed = {}
  /\ row = [r \in Reports |-> "none"]
  /\ profile = {}
  /\ req = [r \in Reports |-> "none"]
  /\ taskId = {}
  /\ msg = {}
  /\ run = [r \in Reports |-> "idle"]
  /\ cancel = [r \in Reports |-> "idle"]
  /\ up = TRUE
  /\ unmarked = {}

Exists(r) == row[r] # "none"
ReqGoto(r, step) == req' = [req EXCEPT ![r] = step]
RunGoto(r, step) == run' = [run EXCEPT ![r] = step]
SetStatus(r, status) == row' = [row EXCEPT ![r] = status]
MayFail == "fail" \in Environment    \* files, data and the analysis
DbMayFail == "dbFails" \in Environment  \* any statement of the analysis' session

-----------------------------------------------------------------------------
\* trigger_analysis and _dispatch_analysis_job.

CheckSource(r) ==
  /\ up /\ req[r] = "none"
  /\ ReqGoto(r, IF source = "gone" THEN "failed" ELSE "checked")
  /\ UNCHANGED <<settings, source, listed, row, profile, taskId, msg, run, cancel, up, unmarked>>

\* The INSERT; where the database enforces the foreign key a missing source fails it.
InsertReport(r) ==
  /\ up /\ req[r] = "checked"
  /\ IF CascadeInDb /\ source = "gone"
       THEN ReqGoto(r, "failed") /\ UNCHANGED row
       ELSE ReqGoto(r, "inserted") /\ SetStatus(r, "PENDING")
  /\ UNCHANGED <<settings, source, listed, profile, taskId, msg, run, cancel, up, unmarked>>

\* refresh the report, then hand it over; a report deleted by now fails the request.
Dispatch(r) ==
  /\ up /\ req[r] = "inserted"
  /\ ReqGoto(r, IF ~Exists(r) THEN "failed" ELSE IF Celery THEN "sent" ELSE "done")
  /\ msg' = IF Exists(r) THEN msg \cup {r} ELSE msg
  /\ UNCHANGED <<settings, source, listed, row, profile, taskId, run, cancel, up, unmarked>>

\* The task id goes into the report's config.
StoreTaskId(r) ==
  /\ up /\ req[r] = "sent"
  /\ ReqGoto(r, IF Exists(r) THEN "done" ELSE "failed")
  /\ taskId' = IF Exists(r) THEN taskId \cup {r} ELSE taskId
  /\ UNCHANGED <<settings, source, listed, row, profile, msg, run, cancel, up, unmarked>>

-----------------------------------------------------------------------------
\* The worker receives a message for a task it has not registered.
Discard(r) ==
  /\ Celery /\ r \in msg
  /\ msg' = msg \ {r}
  /\ UNCHANGED <<settings, source, listed, row, profile, req, taskId, run, cancel, up, unmarked>>

\* run_eda_background in the API's event loop, step by step between its awaits.

ReadReport(r) ==
  /\ ~Celery /\ up /\ r \in msg
  /\ msg' = msg \ {r}
  /\ RunGoto(r, IF Exists(r) THEN "source" ELSE "ended")
  /\ UNCHANGED <<settings, source, listed, row, profile, req, taskId, cancel, up, unmarked>>

\* No session, or the read raises: with no report in hand none is marked.
ReadFails(r) ==
  /\ DbMayFail /\ ~Celery /\ up /\ r \in msg
  /\ msg' = msg \ {r}
  /\ RunGoto(r, "ended")
  /\ unmarked' = unmarked \cup {r}
  /\ UNCHANGED <<settings, source, listed, row, profile, req, taskId, cancel, up>>

\* No data source, or one without a file path: the report fails.
ReadSource(r) ==
  /\ up /\ run[r] = "source"
  /\ \/ source # "gone" /\ RunGoto(r, "load")
     \/ (source = "gone" \/ MayFail) /\ RunGoto(r, "fail")
     \/ (MayFail \/ DbMayFail) /\ RunGoto(r, "rollback")
  /\ UNCHANGED <<settings, source, listed, row, profile, req, taskId, msg, cancel, up, unmarked>>

LoadFrame(r) ==
  /\ up /\ run[r] = "load"
  /\ RunGoto(r, "analyze") \/ (MayFail /\ RunGoto(r, "fail"))
  /\ UNCHANGED <<settings, source, listed, row, profile, req, taskId, msg, cancel, up, unmarked>>

Analyze(r) ==
  /\ up /\ run[r] = "analyze"
  /\ RunGoto(r, "save") \/ (MayFail /\ RunGoto(r, "fail"))
  /\ UNCHANGED <<settings, source, listed, row, profile, req, taskId, msg, cancel, up, unmarked>>

\* Mutant of Save: what follows the commit may raise, inside the same try.
SaveThenRaise(r) ==
  /\ up /\ run[r] = "save" /\ Exists(r)
  /\ SetStatus(r, "COMPLETED")
  /\ profile' = profile \cup {r}
  /\ RunGoto(r, "rollback")
  /\ UNCHANGED <<settings, source, listed, req, taskId, msg, cancel, up, unmarked>>

\* Profile and status in one commit.
Save(r) ==
  /\ up /\ run[r] = "save" /\ Exists(r)
  /\ SetStatus(r, "COMPLETED")
  /\ profile' = profile \cup {r}
  /\ RunGoto(r, "ended")
  /\ UNCHANGED <<settings, source, listed, req, taskId, msg, cancel, up, unmarked>>

\* Mutant of MarkFailed: the failure is not recorded.
FailSilently(r) ==
  /\ up /\ run[r] = "fail" /\ Exists(r)
  /\ RunGoto(r, "ended")
  /\ UNCHANGED <<settings, source, listed, row, profile, req, taskId, msg, cancel, up, unmarked>>

MarkFailed(r) ==
  /\ up /\ run[r] = "fail" /\ Exists(r)
  /\ SetStatus(r, "FAILED")
  /\ RunGoto(r, "ended")
  /\ UNCHANGED <<settings, source, listed, profile, req, taskId, msg, cancel, up, unmarked>>

\* What is to be stored is refused, or the row is gone, or the commit fails:
\* _fail_report_safely.
CommitFails(r) ==
  /\ up /\ run[r] \in {"save", "fail"}
  /\ ~Exists(r) \/ MayFail \/ DbMayFail
  /\ RunGoto(r, "rollback")
  /\ UNCHANGED <<settings, source, listed, row, profile, req, taskId, msg, cancel, up, unmarked>>

\* After the rollback it marks the report FAILED as well as it can: an error here
\* is only logged.
FailReportSafely(r) ==
  /\ up /\ run[r] = "rollback"
  /\ RunGoto(r, "ended")
  /\ \/ /\ IF Exists(r) THEN SetStatus(r, "FAILED") ELSE UNCHANGED row
        /\ UNCHANGED unmarked
     \/ DbMayFail /\ unmarked' = unmarked \cup {r} /\ UNCHANGED row
  /\ UNCHANGED <<settings, source, listed, profile, req, taskId, msg, cancel, up>>

-----------------------------------------------------------------------------
\* cancel_analysis: the report is read and its Celery task revoked, if the config
\* names it; then CANCELLED is committed.

CancelRead(r) ==
  /\ "cancel" \in Environment
  /\ up /\ cancel[r] = "idle" /\ row[r] = "PENDING"
  /\ cancel' = [cancel EXCEPT ![r] = "read"]
  /\ msg' = IF r \in taskId THEN msg \ {r} ELSE msg
  /\ UNCHANGED <<settings, source, listed, row, profile, req, taskId, run, up, unmarked>>

CancelCommit(r) ==
  /\ up /\ cancel[r] = "read"
  /\ cancel' = [cancel EXCEPT ![r] = "done"]
  /\ IF Exists(r) THEN SetStatus(r, "CANCELLED") ELSE UNCHANGED row
  /\ UNCHANGED <<settings, source, listed, profile, req, taskId, msg, run, up, unmarked>>

\* delete_source: the ORM lists the reports of the source ...
DeleteLists ==
  /\ "delete" \in Environment
  /\ up /\ source = "there"
  /\ source' = "deleting"
  /\ listed' = {r \in Reports : Exists(r)}
  /\ UNCHANGED <<settings, row, profile, req, taskId, msg, run, cancel, up, unmarked>>

\* Mutant of DeleteCommits: the database is not asked to cascade.
DeleteListedOnly ==
  /\ up /\ source = "deleting"
  /\ source' = "gone"
  /\ row' = [r \in Reports |-> IF r \in listed THEN "none" ELSE row[r]]
  /\ profile' = profile \ listed
  /\ UNCHANGED <<settings, listed, req, taskId, msg, run, cancel, up, unmarked>>

\* ... and deletes these and then the source; a database with ON DELETE CASCADE
\* deletes the others too.
DeleteCommits ==
  /\ up /\ source = "deleting"
  /\ source' = "gone"
  /\ LET deleted == IF CascadeInDb THEN Reports ELSE listed IN
       /\ row' = [r \in Reports |-> IF r \in deleted THEN "none" ELSE row[r]]
       /\ profile' = profile \ deleted
  /\ UNCHANGED <<settings, listed, req, taskId, msg, run, cancel, up, unmarked>>

\* The API process dies; nothing looks after the reports when it comes back.
ApiCrash ==
  /\ "apiCrash" \in Environment
  /\ up
  /\ up' = FALSE
  /\ UNCHANGED <<settings, source, listed, row, profile, req, taskId, msg, run, cancel, unmarked>>

-----------------------------------------------------------------------------
RequestStep(r) == CheckSource(r) \/ InsertReport(r) \/ Dispatch(r) \/ StoreTaskId(r)

RunStep(r) ==
  \/ ReadReport(r) \/ ReadFails(r) \/ ReadSource(r) \/ LoadFrame(r) \/ Analyze(r)
  \/ Save(r) \/ MarkFailed(r) \/ CommitFails(r) \/ FailReportSafely(r)

Next ==
  \/ \E r \in Reports :
       \/ RequestStep(r) \/ Discard(r) \/ RunStep(r)
       \/ CancelRead(r) \/ CancelCommit(r)
  \/ DeleteLists \/ DeleteCommits \/ ApiCrash

Spec == Init /\ [][Next]_vars

\* The event loop gets round to every request and background task, the worker to
\* every message.
FairSpec ==
  /\ Spec
  /\ \A r \in Reports : WF_vars(RequestStep(r)) /\ WF_vars(RunStep(r)) /\ WF_vars(Discard(r))

-----------------------------------------------------------------------------
\* A COMPLETED report, which /latest serves, has its profile and keeps its status
\* over the failure handling of its own run; only a cancel that had read it as
\* PENDING turns it into CANCELLED.
CompletedStays ==
  [][\A r \in Reports : row[r] = "COMPLETED" =>
       /\ r \in profile
       /\ \/ row'[r] \in {"COMPLETED", "none"}
          \/ row'[r] = "CANCELLED" /\ cancel[r] = "read"]_row

\* Where the foreign key cascades no report outlives its data source, also not
\* one that was being inserted while the source was deleted.
ReportsHaveTheirSource == CascadeInDb => \A r \in Reports : Exists(r) => source # "gone"

Dispatched(r) == req[r] = "done" /\ row[r] = "PENDING"

\* Without Celery every dispatched report leaves PENDING, whatever fails in its
\* run, a commit of the run included; unless the API process dies with the
\* background task (nothing sweeps reports), or the database fails where no handler
\* is left: at the first read, or again when the failure is recorded.
BackgroundReportSettles ==
  \A r \in Reports : ~Celery /\ Dispatched(r) ~> row[r] # "PENDING" \/ ~up \/ r \in unmarked

\* The walkthrough says that the backend runs the analysis, with Celery or
\* without: no dispatched report stays PENDING for ever.
EveryReportSettles == \A r \in Reports : Dispatched(r) ~> row[r] # "PENDING"
=============================================================================
