------------------------------ MODULE LiveJobs ------------------------------
(***************************************************************************)
(* One tab: the job store and a component that polls single jobs, on one   *)
(* socket.  What the socket reports reaches both.                          *)
(***************************************************************************)
EXTENDS JobStore, JobPolling

liveVars == <<feedVars, storeVars, pollVars>>

LiveTypeOK == FeedTypeOK /\ StoreTypeOK /\ PollTypeOK

LiveInit == FeedInit /\ StoreInit /\ PollInit

-----------------------------------------------------------------------------
StoreStep ==
  /\ \/ \E i \in 1 .. MaxRequests :
          TickAnswered(i) \/ FetchAnswered(i) \/ MoreAnswered(i) \/ RequestFails(i)
     \/ IntervalTick \/ RefreshTick \/ DeadlinePasses
     \/ Refresh \/ LoadMoreJobs \/ SubmitJob \/ RunAll
     \/ \E j \in Jobs : CancelJob(j) \/ RetryJob(j)
  /\ UNCHANGED pollVars

PollStep ==
  /\ \/ \E ids \in SUBSET Jobs : MountPolling(ids)
     \/ UnmountPolling
     \/ IntervalRound \/ TimerRound
     \/ OrphanRound \/ LateRound
     \/ \E k \in 1 .. MaxRounds : ShowRound(k)
  /\ UNCHANGED storeVars

\* A row goes, and later rows take its place in every page of the list.
RowGoes ==
  /\ \E j \in Jobs : DeleteRow(j)
  /\ lapses' = lapses \cup {"moved"}
  /\ UNCHANGED <<rows, requests, loop, pending, mine>>

\* Somebody else starts a job, a worker or another user ends one.
BackendStep ==
  /\ \/ CreateRow /\ UNCHANGED lapses
     \/ \E j \in Jobs : EndJob(j) /\ UNCHANGED lapses
  /\ UNCHANGED <<rows, requests, loop, pending, mine, pollVars>>

Opens == SocketOpens /\ StoreHears /\ PollStatus(TRUE) /\ UNCHANGED board
Drops == SocketDrops /\ PollStatus(FALSE) /\ UNCHANGED <<board, storeVars>>
OldCloses == OldSocketCloses /\ PollStatus(FALSE) /\ UNCHANGED <<board, storeVars>>
Retries == Reconnect /\ UNCHANGED <<board, storeVars, pollVars>>
Hears(j) == EventArrives(j) /\ StoreHears /\ PollHears(j) /\ UNCHANGED board

LiveNext ==
  \/ StoreStep \/ PollStep \/ RowGoes \/ BackendStep
  \/ Opens \/ Drops \/ OldCloses \/ Retries
  \/ \E j \in Jobs : Hears(j)

LiveSpec == LiveInit /\ [][LiveNext]_liveVars

\* Requests are answered, timers fire, a connection that is asked for opens once
\* the drops are over.  Nothing is assumed about users, workers and failures.
LiveFairness ==
  /\ WF_liveVars((TickAnswered(1) \/ FetchAnswered(1) \/ MoreAnswered(1)) /\ UNCHANGED pollVars)
  /\ WF_liveVars(IntervalTick /\ UNCHANGED pollVars)
  /\ WF_liveVars(RefreshTick /\ UNCHANGED pollVars)
  /\ WF_liveVars(IntervalRound /\ UNCHANGED storeVars)
  /\ WF_liveVars(TimerRound /\ UNCHANGED storeVars)
  /\ WF_liveVars(ShowRound(1) /\ UNCHANGED storeVars)
  /\ WF_liveVars(Opens) /\ WF_liveVars(Retries)
  /\ \A j \in Jobs : WF_liveVars(Hears(j))

LiveFairSpec == LiveSpec /\ LiveFairness

-----------------------------------------------------------------------------
\* Those who are subscribed are those whom refCount counts, and there is a socket,
\* or a timer that will connect one, exactly while somebody is: neither a drop
\* nor the late close of an older socket leaves a user without one, or opens one
\* that nobody would close.
SocketServesItsUsers ==
  /\ refCount = (IF listening THEN 1 ELSE 0) + (IF tracked # {} THEN 1 ELSE 0)
  /\ refCount > 0 <=> socket # "none" \/ retryTimer
=============================================================================
