------------------------------ MODULE JobStore ------------------------------
(***************************************************************************)
(* useJobStore: the list of jobs of one tab.  It is read in pages; a loop  *)
(* of ticks refreshes the first page from a submit until no fresh job is   *)
(* active in an answer, or for thirty minutes; job events and reconnects   *)
(* trigger a tick of their own.  Every request is awaited, nothing orders  *)
(* the answers, and each handler goes on with what it captured before.     *)
(*                                                                         *)
(* A request is read by the server when it is sent and answered any time   *)
(* later (read later, it would be a later request); a run, cancel or retry *)
(* request that is refused changes nothing, and one whose answer is lost   *)
(* is a job somebody else started or ended.  The banner of a parallel run  *)
(* is left out: nothing else depends on it.                                *)
(***************************************************************************)
EXTENDS JobFeed, SequencesExt

CONSTANTS
  MaxRequests,  \* bound: GET requests in flight
  MaxFailures   \* bound: GET requests that fail

ASSUME StoreAssumption == MaxRequests \in Nat /\ MaxFailures \in Nat

VARIABLES
  jobs,         \* the rows on display
  isLoading,
  hasMore,
  skip,
  answers,      \* answers on their way, in the order they were read
  polling,      \* pollingInterval is set
  deadline,     \* pollingDeadline: "none", "armed" or "passed"
  listening,    \* unsubscribeWs and unsubscribeStatus are set
  refreshTimer,
  pending,      \* jobs with an entry in pendingJobActions
  failures,
  mine,         \* history: jobs submitted or retried here
  lapses        \* history: what the properties excuse

rows == <<jobs, isLoading, hasMore, skip>>
requests == <<answers, failures>>
loop == <<polling, deadline, listening, refreshTimer>>
storeVars == <<rows, requests, loop, pending, mine, lapses>>

\* "moved": offsets no longer fit the list (a job came or went between the reads
\* of two pages, a second page was asked for with no first one on display, or
\* fetchJobs reset skip and its answer was not the next shown);
\* "stale": a job outlived its two hours or the loop its thirty minutes, or an
\* answer was shown after a newer one.
Lapses == {"moved", "stale"}

\* What an answer is for: the handler that awaits it, the offset, the rows that
\* loadMoreJobs captured, the job whose action ends with it (0 if none), whether
\* startPolling follows; and whether it is older than an answer displayed since, or
\* than the loop that runs now.
Answers == [kind : {"tick", "fetch", "more"}, skip : Nat, captured : Seq(Row),
            job : Jobs \cup {0}, poll : BOOLEAN, page : Seq(Row), late : BOOLEAN]

StoreTypeOK ==
  /\ jobs \in Seq(Row) /\ isLoading \in BOOLEAN /\ hasMore \in BOOLEAN /\ skip \in Nat
  /\ answers \in Seq(Answers) /\ Len(answers) <= MaxRequests
  /\ polling \in BOOLEAN /\ deadline \in {"none", "armed", "passed"}
  /\ listening \in BOOLEAN /\ refreshTimer \in BOOLEAN
  /\ pending \subseteq Jobs
  /\ failures \in 0 .. MaxFailures
  /\ mine \subseteq Jobs
  /\ lapses \subseteq Lapses

StoreInit ==
  /\ jobs = << >> /\ isLoading = FALSE /\ hasMore = TRUE /\ skip = 0
  /\ answers = << >>
  /\ polling = FALSE /\ deadline = "none" /\ listening = FALSE /\ refreshTimer = FALSE
  /\ pending = {}
  /\ failures = 0
  /\ mine = {}
  /\ lapses = {}

-----------------------------------------------------------------------------
(* Requests and answers.                                                   *)

\* The answer to a request sent now, of the rows after the step, behind those
\* that wait already.
Ask(waiting, kind, from, captured, job, poll) ==
  /\ Len(waiting) < MaxRequests
  /\ answers' = Append(waiting,
       [kind |-> kind, skip |-> from, captured |-> captured, job |-> job, poll |-> poll,
        page |-> PageAfter(from)', late |-> FALSE])

LoadingMore == \E i \in 1 .. Len(answers) : answers[i].kind = "more"

\* Another job has come between two reads, or nothing was read yet: offsets do
\* not fit.
Moved(shown, newest) == IF shown = << >> \/ shown[1].id # newest THEN {"moved"} ELSE {}

\* Answer i has been dealt with; if it showed the first page or started the loop
\* (news), answers read before it, and lists that loadMoreJobs captured, are late.
Consume(i, news) ==
  answers' = RemoveAt([k \in 1 .. Len(answers) |->
    IF news /\ (k < i \/ answers[k].kind = "more")
    THEN [answers[k] EXCEPT !.late = TRUE] ELSE answers[k]], i)

Noted(q) == IF q.late THEN {"stale"} ELSE {}

-----------------------------------------------------------------------------
(* The polling loop.                                                       *)

\* startPolling subscribes once and keeps the subscription.
StartPolling ==
  /\ deadline' = "armed"
  /\ polling' = TRUE
  /\ listening' = TRUE
  /\ IF listening THEN UNCHANGED wire ELSE Subscribe
  /\ refreshTimer' = (refreshTimer \/ (~listening /\ socket = "open"))

StopPolling == polling' = FALSE /\ deadline' = "none"

\* runPollTick up to its await.
Tick ==
  /\ UNCHANGED <<rows, failures, listening, pending, mine, lapses, feedVars>>
  /\ IF deadline = "passed"
     THEN StopPolling /\ UNCHANGED answers
     ELSE Ask(answers, "tick", 0, << >>, 0, FALSE) /\ UNCHANGED <<polling, deadline>>

IntervalTick == polling /\ Tick /\ UNCHANGED refreshTimer

\* The timer of scheduleRefresh.
RefreshTick == refreshTimer /\ refreshTimer' = FALSE /\ Tick

HasActive(page) == \E i \in 1 .. Len(page) : page[i].state = "active"

\* Mutant of TickAnswered: the old first page stays above the later pages.
TickPrepends(i) ==
  LET page == answers[i].page IN
  /\ i \in 1 .. Len(answers) /\ answers[i].kind = "tick"
  /\ jobs' = IF Len(jobs) <= PageSize THEN page ELSE page \o jobs
  /\ IF HasActive(page) THEN UNCHANGED <<polling, deadline>> ELSE StopPolling
  /\ Consume(i, TRUE)
  /\ lapses' = lapses \cup Noted(answers[i])
  /\ UNCHANGED <<isLoading, hasMore, skip, failures, listening, refreshTimer, pending, mine,
                 feedVars>>

\* Mutant of TickAnswered: an answer without active jobs ends the loop before
\* its rows are shown.
TickStopsFirst(i) ==
  LET page == answers[i].page IN
  /\ i \in 1 .. Len(answers) /\ answers[i].kind = "tick"
  /\ IF HasActive(page)
     THEN jobs' = page /\ UNCHANGED <<polling, deadline>>
     ELSE StopPolling /\ UNCHANGED jobs
  /\ Consume(i, TRUE)
  /\ lapses' = lapses \cup Noted(answers[i])
  /\ UNCHANGED <<isLoading, hasMore, skip, failures, listening, refreshTimer, pending, mine,
                 feedVars>>

\* The rest of runPollTick: the first page is replaced; the loop stops if it
\* holds no active job.
TickAnswered(i) ==
  LET page == answers[i].page IN
  /\ i \in 1 .. Len(answers) /\ answers[i].kind = "tick"
  /\ jobs' = IF Len(jobs) <= PageSize THEN page
             ELSE page \o SubSeq(jobs, PageSize + 1, Len(jobs))
  /\ IF HasActive(page) THEN UNCHANGED <<polling, deadline>> ELSE StopPolling
  /\ Consume(i, TRUE)
  /\ lapses' = lapses \cup Noted(answers[i])
                      \cup (IF Len(jobs) > PageSize THEN Moved(jobs, page[1].id) ELSE {})
  /\ UNCHANGED <<isLoading, hasMore, skip, failures, listening, refreshTimer, pending, mine,
                 feedVars>>

\* Thirty minutes after the last startPolling.
DeadlinePasses ==
  /\ deadline = "armed" /\ deadline' = "passed"
  /\ lapses' = lapses \cup {"stale"}
  /\ UNCHANGED <<rows, requests, polling, listening, refreshTimer, pending, mine, feedVars>>

-----------------------------------------------------------------------------
(* The list.                                                               *)

\* fetchJobs up to its await, for an action on job (0 if none) and before
\* startPolling if poll says so.
FetchJobs(waiting, job, poll) ==
  /\ isLoading' = TRUE /\ skip' = 0
  /\ Ask(waiting, "fetch", 0, << >>, job, poll)
  /\ lapses' = IF LoadingMore THEN lapses \cup {"moved"} ELSE lapses
  /\ UNCHANGED <<jobs, hasMore, failures>>

\* What follows in the action that awaits fetchJobs, whether it failed or not.
Continue(q) ==
  /\ pending' = pending \ {q.job}
  /\ IF q.poll THEN StartPolling ELSE UNCHANGED <<loop, wire>>

FetchAnswered(i) ==
  LET q == answers[i] IN
  /\ i \in 1 .. Len(answers) /\ q.kind = "fetch"
  /\ jobs' = q.page
  /\ isLoading' = FALSE
  /\ hasMore' = (Len(q.page) = PageSize)
  /\ Continue(q)
  /\ Consume(i, TRUE)
  /\ lapses' = lapses \cup Noted(q) \cup (IF skip # 0 THEN {"moved"} ELSE {})
  /\ UNCHANGED <<skip, failures, mine, board>>

\* loadMoreJobs up to its await.
LoadMoreJobs ==
  /\ ~isLoading /\ hasMore
  /\ UNCHANGED <<jobs, hasMore, skip, failures, loop, pending, mine, feedVars>>
  /\ isLoading' = TRUE
  /\ Ask(answers, "more", skip + PageSize, jobs, 0, FALSE)
  /\ lapses' = lapses \cup Moved(jobs, created)

\* The rest of it: the captured rows are put back.
MoreAnswered(i) ==
  LET q == answers[i] IN
  /\ i \in 1 .. Len(answers) /\ q.kind = "more"
  /\ jobs' = q.captured \o q.page
  /\ isLoading' = FALSE
  /\ skip' = q.skip
  /\ hasMore' = (Len(q.page) = PageSize)
  /\ Consume(i, FALSE)
  /\ lapses' = lapses \cup Noted(q)
  /\ UNCHANGED <<failures, loop, pending, mine, feedVars>>

\* Mutant of RequestFails: only the error is logged.
RequestFailsBusy(i) ==
  LET q == answers[i] IN
  /\ i \in 1 .. Len(answers)
  /\ failures < MaxFailures /\ failures' = failures + 1
  /\ Consume(i, q.poll)
  /\ Continue(q)
  /\ lapses' = IF q.kind = "fetch" /\ Len(jobs) > PageSize THEN lapses \cup {"moved"} ELSE lapses
  /\ UNCHANGED <<jobs, isLoading, hasMore, skip, mine, board>>

\* A request fails: it is logged and its caller goes on.
RequestFails(i) ==
  LET q == answers[i] IN
  /\ i \in 1 .. Len(answers)
  /\ failures < MaxFailures /\ failures' = failures + 1
  /\ Consume(i, q.poll)
  /\ isLoading' = (isLoading /\ q.kind = "tick")
  /\ Continue(q)
  /\ lapses' = IF q.kind = "fetch" /\ Len(jobs) > PageSize THEN lapses \cup {"moved"} ELSE lapses
  /\ UNCHANGED <<jobs, hasMore, skip, mine, board>>

-----------------------------------------------------------------------------
(* What the user does.                                                     *)

\* toggleDrawer(true), or the refresh button.
Refresh ==
  /\ UNCHANGED <<loop, pending, mine, feedVars>>
  /\ FetchJobs(answers, 0, FALSE)

\* submitJob: the run request, then fetchJobs, then startPolling.
SubmitJob ==
  /\ CreateRow
  /\ FetchJobs(answers, 0, TRUE)
  /\ mine' = mine \cup {created + 1}
  /\ UNCHANGED <<loop, pending>>

\* handleRunAll with several branches (bound: one of its jobs): startPolling
\* first, then the drawer opens and reads the list.
RunAll ==
  /\ NewRow
  /\ StartPolling
  /\ FetchJobs([k \in 1 .. Len(answers) |-> [answers[k] EXCEPT !.late = TRUE]], 0, FALSE)
  /\ mine' = mine \cup {created + 1}
  /\ UNCHANGED pending

\* cancelJob, offered on a row that is not terminal, then fetchJobs.
CancelJob(j) ==
  /\ j \notin pending
  /\ \E i \in 1 .. Len(jobs) : jobs[i].id = j /\ jobs[i].state # "ended"
  /\ EndJob(j)
  /\ pending' = pending \cup {j}
  /\ FetchJobs(answers, j, FALSE)
  /\ UNCHANGED <<loop, mine>>

\* retryJob, offered on a terminal row: a new job, fetchJobs, startPolling.
RetryJob(j) ==
  /\ j \notin pending
  /\ \E i \in 1 .. Len(jobs) : jobs[i].id = j /\ jobs[i].state = "ended"
  /\ CreateRow
  /\ pending' = pending \cup {j}
  /\ FetchJobs(answers, j, TRUE)
  /\ mine' = mine \cup {created + 1}
  /\ UNCHANGED loop

\* The event listener, and the status listener when told TRUE: scheduleRefresh.
StoreHears ==
  /\ refreshTimer' = (refreshTimer \/ listening)
  /\ UNCHANGED <<rows, requests, polling, deadline, listening, pending, mine, lapses>>

-----------------------------------------------------------------------------
(* Properties.                                                             *)

\* The rows on display are a run of consecutive jobs, newest first: no job twice,
\* none left out.  Paging by offset breaks it when a job came or went between the
\* reads of two pages on display, when a second page is asked for while no first
\* one is shown (as the drawer does once the first read has failed), and when
\* fetchJobs has reset skip but its answer is not the next one shown: it fails,
\* or a loadMoreJobs comes between.
RowsAreContiguous ==
  "moved" \notin lapses =>
    \A i \in 1 .. Len(jobs) - 1 : jobs[i].id = jobs[i + 1].id + 1

\* Nothing on display waits for an answer that will not come: while the list says
\* that it is loading, rows are asked for, and while the buttons of a job are
\* disabled, the answer that ends its action is on its way, whatever fails and
\* whatever else is asked for meanwhile.
BusyWhileAwaited ==
  /\ isLoading => \E i \in 1 .. Len(answers) : answers[i].kind # "tick"
  /\ \A j \in pending : \E i \in 1 .. Len(answers) : answers[i].job = j

Shown(j) == \E i \in 1 .. Len(jobs) : jobs[i].id = j /\ jobs[i].state = "ended"

\* Jobs submitted here are followed to their end: again and again the list says
\* of each one that has ended that it has, whatever events and requests are lost,
\* unless a page of newer jobs hides it or the list has lapsed.
FollowedToItsEnd ==
  []<>(\A j \in mine : state[j] = "ended" =>
         Shown(j) \/ created >= j + PageSize \/ lapses # {})

=============================================================================
