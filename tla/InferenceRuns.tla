---------------------------- MODULE InferenceRuns ----------------------------
(***************************************************************************)
(* Prediction runs of the inference page.  A run is submitted, timed out,  *)
(* cancelled or answered, and is to end in one durable record that says    *)
(* which run it was and how it ended.                                      *)
(*                                                                         *)
(* An instance of the page lives from its mount until the user navigates   *)
(* away (the component is unmounted but its request goes on, in the same   *)
(* tab) or until the tab is closed or reloaded (the request dies).  All    *)
(* instances share the localStorage of the browser: the history of settled *)
(* runs and one marker for the run in flight.  The editor may hold any     *)
(* text at any time; what a run sent is kept with it.  Meanwhile other     *)
(* users deploy and undeploy models.                                       *)
(*                                                                         *)
(* React runs a state updater when it renders, and only in a mounted       *)
(* component: appendRunHistory persists one render after submitRun has     *)
(* removed the marker, or never.                                           *)
(***************************************************************************)
EXTENDS Naturals, Sequences, FiniteSets

CONSTANTS
  Pages,      \* instances of the page, each mounted at most once
  Models,     \* jobs whose model may be deployed
  Inputs,     \* what the editor may hold
  Earlier,    \* runs 1 .. Earlier succeeded and were recorded before
  MaxRuns,    \* bound: runs submitted by all instances, the earlier ones included
  MaxRecent,  \* MAX_RECENT_RUNS
  NoModel     \* no active deployment

ASSUME InferenceAssumption ==
  /\ MaxRecent \in Nat \ {0}
  /\ Earlier \in 0 .. MaxRecent
  /\ MaxRuns \in Nat /\ Earlier <= MaxRuns
  /\ NoModel \notin Models

VARIABLES
  page,        \* "unvisited", "mounted", "left" (in-app navigation) or "closed"
  loaded,      \* loadActiveDeployment has been answered
  deployment,  \* activeDeployment
  flight,      \* activeRunIdRef, the run in flight, or 0
  attempt,     \* lastAttemptRef, or 0
  shown,       \* currentRunMeta, a record or None
  results,     \* the run whose predictions are displayed, or 0
  error,       \* an error message is displayed
  unsaved,     \* the record appendRunHistory has queued, or None
  history,     \* runHistory, newest first
  undeploying, \* handleDeactivate awaits the server
  lsPending,   \* LS_PENDING_RUN, or 0
  lsHistory,   \* LS_RUN_HISTORY
  deployed,    \* the server's active deployment
  answered,    \* runs the server has answered with predictions
  sent,        \* how many runs were submitted: they are 1 .. sent
  request,     \* what run r sent
  outcome,     \* history: how run r ended for the page that sent it
  dropped,     \* history: runs cleared, expired or pushed out of the history
  adrift       \* history: runs whose page was left, or that shared the storage

display == <<shown, results, error>>
session == <<page, loaded, deployment, flight, attempt, display, unsaved, history,
             undeploying>>
storage == <<lsPending, lsHistory>>
server == <<deployed, answered>>
submitted == <<sent, request>>
observed == <<outcome, dropped, adrift>>
inferenceVars == <<session, storage, server, submitted, observed>>

Runs == 1 .. MaxRuns
Outcomes == {"success", "failure", "cancelled"}
RunRecords == [run : Runs, status : Outcomes]
None == [run |-> 0, status |-> "none"]
RunRequests == [model : Models, input : Inputs]

InferenceTypeOK ==
  /\ page \in [Pages -> {"unvisited", "mounted", "left", "closed"}]
  /\ loaded \in [Pages -> BOOLEAN]
  /\ deployment \in [Pages -> Models \cup {NoModel}]
  /\ flight \in [Pages -> 0 .. MaxRuns]
  /\ attempt \in [Pages -> 0 .. MaxRuns]
  /\ shown \in [Pages -> RunRecords \cup {None}]
  /\ results \in [Pages -> 0 .. MaxRuns]
  /\ error \in [Pages -> BOOLEAN]
  /\ unsaved \in [Pages -> RunRecords \cup {None}]
  /\ history \in [Pages -> Seq(RunRecords)]
  /\ undeploying \in [Pages -> BOOLEAN]
  /\ lsPending \in 0 .. MaxRuns
  /\ lsHistory \in Seq(RunRecords)
  /\ deployed \in Models \cup {NoModel}
  /\ answered \subseteq Runs
  /\ sent \in 0 .. MaxRuns
  /\ request \in [1 .. sent -> RunRequests]
  /\ outcome \in [Runs -> Outcomes \cup {"pending", "unknown"}]
  /\ dropped \subseteq Runs
  /\ adrift \subseteq Runs

InferenceInit ==
  /\ page = [p \in Pages |-> "unvisited"]
  /\ loaded = [p \in Pages |-> FALSE]
  /\ deployment = [p \in Pages |-> NoModel]
  /\ flight = [p \in Pages |-> 0]
  /\ attempt = [p \in Pages |-> 0]
  /\ shown = [p \in Pages |-> None]
  /\ results = [p \in Pages |-> 0]
  /\ error = [p \in Pages |-> FALSE]
  /\ unsaved = [p \in Pages |-> None]
  /\ history = [p \in Pages |-> << >>]
  /\ undeploying = [p \in Pages |-> FALSE]
  /\ lsPending = 0
  /\ lsHistory = [i \in 1 .. Earlier |-> [run |-> Earlier + 1 - i, status |-> "success"]]
  /\ deployed \in Models \cup {NoModel}
  /\ answered = {}
  /\ sent = Earlier
  /\ request \in [1 .. Earlier -> RunRequests]
  /\ outcome = [r \in Runs |-> IF r <= Earlier THEN "success" ELSE "pending"]
  /\ dropped = {}
  /\ adrift = {}

-----------------------------------------------------------------------------
(* Records.                                                                *)

RunsOf(records) == {records[i].run : i \in 1 .. Len(records)}

\* Mutant of Recent: the slice is taken from the other end.
Oldest(records) == SubSeq(records, IF Len(records) < MaxRecent THEN 1 ELSE Len(records) - MaxRecent + 1, Len(records))

\* The newest MAX_RECENT_RUNS records.
Recent(records) == SubSeq(records, 1, IF Len(records) < MaxRecent THEN Len(records) ELSE MaxRecent)

\* An instance whose JavaScript still runs and may write the storage.
Alive(p) == page[p] = "mounted" \/ (page[p] = "left" /\ (flight[p] # 0 \/ undeploying[p]))

\* Runs some live instance has in flight or is about to record.
Unsettled == (UNION {{flight[p], unsaved[p].run} : p \in {q \in Pages : Alive(q)}}) \ {0}

\* Mutant of ShowRecord: a run that fails leaves the predictions of another in place.
ShowOverOld(p, record) ==
  /\ shown' = [shown EXCEPT ![p] = record]
  /\ results' = [results EXCEPT ![p] = IF record.status = "success" THEN record.run ELSE @]

\* The run and the predictions that are displayed.
ShowRecord(p, record) ==
  /\ shown' = [shown EXCEPT ![p] = record]
  /\ results' = [results EXCEPT ![p] = IF record.status = "success" THEN record.run ELSE 0]

\* What a page displays of a record, its error message included.
Display(p, record) ==
  /\ ShowRecord(p, record)
  /\ error' = [error EXCEPT ![p] = record.status \in {"failure", "cancelled"}]

\* The user looks at a mounted page that has rendered its last update.
AtPage(p) == page[p] = "mounted" /\ unsaved[p] = None

-----------------------------------------------------------------------------
(* The page comes and goes.                                                *)

\* loadRunHistory: the records that have not expired, a prefix.
Unexpired(keep) == SubSeq(lsHistory, 1, keep)

\* First render and mount effect: a marker left behind becomes a failed run
\* of unknown outcome, otherwise the latest surviving record is displayed.
Mount(p) ==
  \E keep \in 0 .. Len(lsHistory) :
    LET survivors == Unexpired(keep)
        interrupted == [run |-> lsPending, status |-> "failure"]
    IN
    /\ page[p] = "unvisited"
    /\ page' = [page EXCEPT ![p] = "mounted"]
    /\ history' = [history EXCEPT ![p] = survivors]
    /\ IF lsPending # 0
       THEN Display(p, interrupted) /\ unsaved' = [unsaved EXCEPT ![p] = interrupted]
       ELSE Display(p, IF keep > 0 THEN survivors[1] ELSE None) /\ UNCHANGED unsaved
    /\ lsPending' = 0
    /\ dropped' = dropped \cup (RunsOf(lsHistory) \ RunsOf(survivors))
    /\ adrift' = adrift \cup Unsettled
    /\ UNCHANGED <<loaded, deployment, flight, attempt, undeploying, lsHistory, server,
                   submitted, outcome>>

\* The next render runs the updater of appendRunHistory: older records are
\* pushed out and the list replaces the stored one.
AppendRunHistory(p) ==
  LET next == Recent(<<unsaved[p]>> \o history[p]) IN
  /\ page[p] = "mounted" /\ unsaved[p] # None
  /\ unsaved' = [unsaved EXCEPT ![p] = None]
  /\ history' = [history EXCEPT ![p] = next]
  /\ lsHistory' = next
  /\ dropped' = dropped \cup (RunsOf(history[p]) \ RunsOf(next))
  /\ UNCHANGED <<page, loaded, deployment, flight, attempt, display, undeploying,
                 lsPending, server, submitted, outcome, adrift>>

\* loadActiveDeployment: the active deployment, or nothing if the call fails.
LoadActiveDeployment(p) ==
  /\ AtPage(p) /\ ~loaded[p]
  /\ loaded' = [loaded EXCEPT ![p] = TRUE]
  /\ \E d \in {deployed, NoModel} : deployment' = [deployment EXCEPT ![p] = d]
  /\ UNCHANGED <<page, flight, attempt, display, unsaved, history, undeploying, storage, server,
                 submitted, observed>>

\* The state of the component is gone.
Discard(p) ==
  /\ loaded' = [loaded EXCEPT ![p] = FALSE]
  /\ deployment' = [deployment EXCEPT ![p] = NoModel]
  /\ attempt' = [attempt EXCEPT ![p] = 0]
  /\ Display(p, None)
  /\ unsaved' = [unsaved EXCEPT ![p] = None]
  /\ history' = [history EXCEPT ![p] = << >>]

\* In-app navigation unmounts the component; what it awaits goes on.
Leave(p) ==
  /\ page[p] = "mounted"
  /\ page' = [page EXCEPT ![p] = "left"]
  /\ adrift' = adrift \cup ({flight[p], unsaved[p].run} \ {0})
  /\ Discard(p)
  /\ UNCHANGED <<flight, undeploying, storage, server, submitted, outcome, dropped>>

\* The tab is closed or reloaded; a record that is still queued is lost.
CloseTab(p) ==
  /\ Alive(p)
  /\ page' = [page EXCEPT ![p] = "closed"]
  /\ flight' = [flight EXCEPT ![p] = 0]
  /\ undeploying' = [undeploying EXCEPT ![p] = FALSE]
  /\ answered' = answered \ {flight[p]}
  /\ outcome' = IF flight[p] = 0 THEN outcome ELSE [outcome EXCEPT ![flight[p]] = "unknown"]
  /\ adrift' = adrift \cup ({unsaved[p].run} \ {0})
  /\ Discard(p)
  /\ UNCHANGED <<storage, deployed, submitted, dropped>>

-----------------------------------------------------------------------------
(* A run.                                                                  *)

\* submitRun: the marker is written before the request is sent.
SubmitRun(p, text) ==
  LET r == sent + 1 IN
  /\ AtPage(p)
  /\ deployment[p] # NoModel /\ flight[p] = 0
  /\ sent < MaxRuns
  /\ sent' = r
  /\ request' = Append(request, [model |-> deployment[p], input |-> text])
  /\ flight' = [flight EXCEPT ![p] = r]
  /\ attempt' = [attempt EXCEPT ![p] = r]
  /\ lsPending' = r
  /\ error' = [error EXCEPT ![p] = FALSE]
  /\ adrift' = IF \E q \in Pages \ {p} : Alive(q) THEN adrift \cup {r} ELSE adrift
  /\ UNCHANGED <<page, loaded, deployment, shown, results, unsaved, history, undeploying,
                 lsHistory, server, outcome, dropped>>

\* handlePredict sends the editor's text.
Predict(p) == \E text \in Inputs : SubmitRun(p, text)

\* handleRetryRun sends what the last attempt sent; the button is beside an error.
RetryOffered(p) == attempt[p] # 0 /\ error[p]
RetryRun(p) == RetryOffered(p) /\ SubmitRun(p, request[attempt[p]].input)

\* predict_endpoint answers if some model is active.
ServePrediction(r) ==
  /\ \E p \in Pages : flight[p] = r
  /\ r \notin answered /\ deployed # NoModel
  /\ answered' = answered \cup {r}
  /\ UNCHANGED <<session, storage, deployed, submitted, observed>>

\* Mutant of Settle: the marker outlives the run.
SettleMarked(p, status) ==
  LET r == flight[p]
      record == [run |-> r, status |-> status]
  IN
  /\ r # 0
  /\ answered' = answered \ {r}
  /\ flight' = [flight EXCEPT ![p] = 0]
  /\ outcome' = [outcome EXCEPT ![r] = status]
  /\ IF page[p] = "mounted"
     THEN /\ ShowRecord(p, record)
          /\ error' = [error EXCEPT ![p] = @ \/ status # "success"]
          /\ unsaved' = [unsaved EXCEPT ![p] = record]
     ELSE UNCHANGED <<display, unsaved>>
  /\ UNCHANGED <<page, loaded, deployment, attempt, history, undeploying, storage,
                 deployed, submitted, dropped, adrift>>

\* The rest of submitRun: in a page that was left the state setters do
\* nothing, but the marker is removed all the same, whoever wrote it.  An
\* answer does not clear the error of a record restored meanwhile.
Settle(p, status) ==
  LET r == flight[p]
      record == [run |-> r, status |-> status]
  IN
  /\ r # 0
  /\ answered' = answered \ {r}
  /\ flight' = [flight EXCEPT ![p] = 0]
  /\ lsPending' = 0
  /\ outcome' = [outcome EXCEPT ![r] = status]
  /\ IF page[p] = "mounted"
     THEN /\ ShowRecord(p, record)
          /\ error' = [error EXCEPT ![p] = @ \/ status # "success"]
          /\ unsaved' = [unsaved EXCEPT ![p] = record]
     ELSE UNCHANGED <<display, unsaved>>
  /\ UNCHANGED <<page, loaded, deployment, attempt, history, undeploying, lsHistory,
                 deployed, submitted, dropped, adrift>>

\* The answer arrives.
Succeed(p) == flight[p] \in answered /\ Settle(p, "success")

\* The server or the network fails, or PREDICT_TIMEOUT_MS passes.
FailOrTimeOut(p) == Settle(p, "failure")

\* handleCancelRun aborts the request, which rejects at once.
CancelRun(p) == page[p] = "mounted" /\ Settle(p, "cancelled")

-----------------------------------------------------------------------------
(* What the user does with the results.                                    *)

\* handlePredict refuses a text it cannot parse.
RefuseInput(p) ==
  /\ AtPage(p) /\ deployment[p] # NoModel /\ flight[p] = 0
  /\ error' = [error EXCEPT ![p] = TRUE]
  /\ UNCHANGED <<page, loaded, deployment, flight, attempt, shown, results, unsaved,
                 history, undeploying, storage, server, submitted, observed>>

\* handleClearInput
ClearInput(p) ==
  /\ AtPage(p)
  /\ Display(p, None)
  /\ UNCHANGED <<page, loaded, deployment, flight, attempt, unsaved, history, undeploying, storage,
                 server, submitted, observed>>

\* handleRestoreRun displays a record of the history again, with its input.
RestoreRun(p) ==
  /\ AtPage(p)
  /\ \E i \in 1 .. Len(history[p]) : Display(p, history[p][i])
  /\ UNCHANGED <<page, loaded, deployment, flight, attempt, unsaved, history, undeploying, storage,
                 server, submitted, observed>>

\* setRunHistory([]) and persistRunHistory([]), of two handlers below.
EmptyHistory(p) ==
  /\ history' = [history EXCEPT ![p] = << >>]
  /\ lsHistory' = << >>
  /\ dropped' = dropped \cup RunsOf(history[p]) \cup RunsOf(lsHistory)

\* handleClearRunHistory
ClearRunHistory(p) ==
  /\ AtPage(p) /\ history[p] # << >>
  /\ EmptyHistory(p)
  /\ UNCHANGED <<page, loaded, deployment, flight, attempt, display, unsaved, undeploying,
                 lsPending, server, submitted, outcome, adrift>>

\* handleDeactivate: the server is asked first (bound: one request of a page
\* at a time) ...
Undeploy(p) ==
  /\ AtPage(p) /\ deployment[p] # NoModel /\ ~undeploying[p]
  /\ undeploying' = [undeploying EXCEPT ![p] = TRUE]
  /\ deployed' \in {deployed, NoModel}
  /\ UNCHANGED <<page, loaded, deployment, flight, attempt, display, unsaved, history,
                 storage, answered, submitted, observed>>

\* ... then everything on display is cleared, but for a run in flight; a page
\* that was left still empties the stored history.
ClearUndeployed(p) ==
  /\ undeploying[p] /\ unsaved[p] = None
  /\ undeploying' = [undeploying EXCEPT ![p] = FALSE]
  /\ EmptyHistory(p)
  /\ IF page[p] = "mounted"
     THEN /\ deployment' = [deployment EXCEPT ![p] = NoModel]
          /\ results' = [results EXCEPT ![p] = 0]
          /\ shown' = [shown EXCEPT ![p] = None]
     ELSE UNCHANGED <<deployment, results, shown>>
  /\ UNCHANGED <<page, loaded, flight, attempt, error, unsaved, lsPending, server,
                 submitted, outcome, adrift>>

\* The request failed: a toast, nothing else.
UndeployFails(p) ==
  /\ undeploying[p]
  /\ undeploying' = [undeploying EXCEPT ![p] = FALSE]
  /\ UNCHANGED <<page, loaded, deployment, flight, attempt, display, unsaved, history,
                 storage, server, submitted, observed>>

\* Somebody deploys a model.
Deploy(m) ==
  /\ deployed # m
  /\ deployed' = m
  /\ UNCHANGED <<session, storage, answered, submitted, observed>>

-----------------------------------------------------------------------------
Run(p) == Predict(p) \/ RetryRun(p) \/ CancelRun(p) \/ RefuseInput(p)
Answer(p) == Succeed(p) \/ FailOrTimeOut(p)
Browse(p) == Mount(p) \/ LoadActiveDeployment(p) \/ Leave(p) \/ CloseTab(p)
Review(p) ==
  \/ ClearInput(p)
  \/ RestoreRun(p)
  \/ ClearRunHistory(p)
  \/ Undeploy(p)
  \/ ClearUndeployed(p)
  \/ UndeployFails(p)

InferenceNext ==
  \/ \E p \in Pages : Run(p) \/ Answer(p) \/ AppendRunHistory(p) \/ Browse(p) \/ Review(p)
  \/ \E r \in Runs : ServePrediction(r)
  \/ \E m \in Models : Deploy(m)

InferenceSpec == InferenceInit /\ [][InferenceNext]_inferenceVars

-----------------------------------------------------------------------------
(* Properties.                                                             *)

\* The predictions on display, and hence in an exported file, are those of the
\* run whose label, model and outcome are displayed beside them: seven handlers
\* and the mount effect write both.
ResultsMatchProvenance ==
  \A p \in Pages : page[p] = "mounted" =>
    /\ results[p] # 0 <=> shown[p].status = "success"
    /\ results[p] # 0 => results[p] = shown[p].run

\* A run is in flight or about to be recorded in a mounted page, or marked as
\* pending, or recorded in the storage, unless the user cleared it or it aged
\* out ...
Remembered(r) ==
  \/ \E p \in Pages : page[p] = "mounted" /\ r \in {flight[p], unsaved[p].run}
  \/ lsPending = r
  \/ r \in RunsOf(lsHistory)
  \/ r \in dropped

\* ... whenever a tab is closed or reloaded; not so if its page was left, or the
\* tab closed just before the record was stored, or if another instance wrote
\* the same storage.
RunsAreRemembered == \A r \in 1 .. sent : r \notin adrift => Remembered(r)

\* A run is recorded once, and with the outcome its page saw: a reload turns no
\* settled run into one "still in progress", and none that was interrupted is
\* counted as answered.
RecordsAreTrue ==
  \A i \in 1 .. Len(lsHistory) :
    LET record == lsHistory[i] IN
    /\ \A k \in 1 .. Len(lsHistory) : lsHistory[k].run = record.run => k = i
    /\ record.run \notin adrift =>
         record.status = IF outcome[record.run] = "unknown" THEN "failure" ELSE outcome[record.run]
=============================================================================
