------------------------- MODULE JobLifecycleProofs -------------------------
(***************************************************************************)
(* What JobLifecycle promises for every set of runs, every number of       *)
(* deliveries and every environment: a worker finds its rows, and a queued *)
(* or running row has somebody who will still write it.  The inductive     *)
(* invariant ties together what the four parties know: how far the request *)
(* is, what the broker holds, which attempts live, and what each thread    *)
(* last read.  It is stated run by run, so that a step of one run leaves   *)
(* the others alone (OtherRuns).                                           *)
(***************************************************************************)
EXTENDS JobLifecycle, TLAPS

Running(j, n) == pc[j][n] \notin Ended \cup {"idle"}

\* How far the request is determines what the broker has and which rows exist.
SubmitInv(r) ==
  /\ submit[r] = "idle" => \A j \in RunJobs[r] : status[j] = "none"
  /\ submit[r] \in {"creating", "dispatch", "attaching"} => apiUp
  /\ submit[r] \in {"idle", "creating", "dispatch"} => task[r] = "none"
  /\ submit[r] \in {"attaching", "done"} => task[r] # "none"
  /\ submit[r] = "dispatch" \/ task[r] # "none" =>
       \A j \in RunJobs[r] : status[j] # "none"

\* Task ids on rows and in cancel requests are those of the row's own run, and
\* only a row that exists is cancelled.
IdInv(r) == \A j \in RunJobs[r] :
  /\ cancel[j] # "idle" => status[j] # "none"
  /\ taskId[j] \in {r, NoTask} /\ cancelTask[j] \in {r, NoTask}
  /\ taskId[j] = r => task[r] # "none"

\* Threads run only inside live attempts, and only a dispatched task has any.
ThreadInv(r) ==
  /\ task[r] = "none" => live[r] = {}
  /\ \A j \in RunJobs[r], n \in Attempts : Running(j, n) => n \in live[r]

\* Without Celery nothing is delivered twice.
BackgroundInv(r) == ~UseCelery[r] =>
  /\ live[r] \subseteq {1}
  /\ task[r] # "unacked" => live[r] = {}
  /\ task[r] \in {"none", "queued"} => tries[r] = 0

\* The thread will still change an active row: if it is about to write, what it
\* read was not the value it writes.
Works(j, n) == /\ pc[j][n] \notin Ended
               /\ pc[j][n] \in {"write", "fail"} => seen[j][n] \in Active

\* Somebody works on the row, or could not record how it ended.
Owned(r, j) == \/ \E n \in live[r] : Works(j, n)
               \/ \E n \in Attempts : pc[j][n] = "unrecorded"

\* An active row of a delivered task that was not revoked is owned.
OwnerInv(r) == \A j \in RunJobs[r] :
  task[r] \in {"unacked", "gone"} /\ ~revoked[r] /\ status[j] \in Active => Owned(r, j)

RunInv(r) == SubmitInv(r) /\ IdInv(r) /\ ThreadInv(r) /\ BackgroundInv(r) /\ OwnerInv(r)

IInv == TypeOK /\ \A r \in Runs : RunInv(r)

-----------------------------------------------------------------------------
(* Facts every step uses.                                                  *)

LEMMA Branches ==
  /\ \A r \in Runs : RunJobs[r] \subseteq Jobs
  /\ \A r, s \in Runs : \A j : j \in RunJobs[r] /\ j \in RunJobs[s] => r = s
  /\ \A j \in Jobs : \E r \in Runs : j \in RunJobs[r]
  /\ NoTask \notin Runs
BY RunsAssumption

LEMMA InitIInv == Init => IInv
BY RunsAssumption
DEF Init, IInv, TypeOK, RunInv, SubmitInv, IdInv, ThreadInv, BackgroundInv, OwnerInv, Running,
    Attempts, Active, Terminal, Statuses, ThreadSteps, Ended

\* A run none of whose state changes keeps its invariant.
LEMMA RunFrame ==
  ASSUME NEW r \in Runs, RunInv(r), apiUp' = apiUp,
         submit'[r] = submit[r], task'[r] = task[r], tries'[r] = tries[r],
         live'[r] = live[r], revoked'[r] = revoked[r],
         \A j \in RunJobs[r] :
           /\ status'[j] = status[j] /\ taskId'[j] = taskId[j]
           /\ cancel'[j] = cancel[j] /\ cancelTask'[j] = cancelTask[j] /\ pc'[j] = pc[j] /\ seen'[j] = seen[j]
  PROVE  RunInv(r)'
<1>1. SubmitInv(r)' BY DEF RunInv, SubmitInv
<1>2. IdInv(r)' BY DEF RunInv, IdInv
<1>3. ThreadInv(r)' BY DEF RunInv, ThreadInv, Running
<1>4. BackgroundInv(r)' BY DEF RunInv, BackgroundInv
<1>5. OwnerInv(r)' BY DEF RunInv, OwnerInv, Owned, Works
<1> QED BY <1>1, <1>2, <1>3, <1>4, <1>5 DEF RunInv

\* A step that touches at most the state of run r.
OnlyRun(r) ==
  /\ apiUp' = apiUp
  /\ \A s \in Runs \ {r} :
       /\ submit'[s] = submit[s] /\ task'[s] = task[s] /\ tries'[s] = tries[s]
       /\ live'[s] = live[s] /\ revoked'[s] = revoked[s]
  /\ \A j \in Jobs \ RunJobs[r] :
       /\ status'[j] = status[j] /\ taskId'[j] = taskId[j]
       /\ cancel'[j] = cancel[j] /\ cancelTask'[j] = cancelTask[j] /\ pc'[j] = pc[j] /\ seen'[j] = seen[j]

LEMMA OtherRuns ==
  ASSUME IInv, NEW r \in Runs, OnlyRun(r), TypeOK', RunInv(r)'
  PROVE  IInv'
<1>1. ASSUME NEW s \in Runs, s # r PROVE RunInv(s)'
  <2>1. \A j \in RunJobs[s] : j \in Jobs \ RunJobs[r] BY <1>1, Branches
  <2> QED BY <1>1, <2>1, RunFrame DEF IInv, OnlyRun
<1> QED BY <1>1 DEF IInv

\* A thread that runs has a row.
LEMMA RunningRow ==
  ASSUME IInv, NEW r \in Runs, NEW j \in RunJobs[r], NEW n \in Attempts, Running(j, n)
  PROVE  status[j] # "none" /\ n \in live[r] /\ task[r] # "none"
BY DEF IInv, RunInv, ThreadInv, SubmitInv

-----------------------------------------------------------------------------
(* The request.                                                            *)

LEMMA CreateRowIInv ==
  ASSUME IInv, NEW r \in Runs, NEW j \in RunJobs[r], CreateRow(r, j)
  PROVE  IInv'
<1> USE Branches DEF CreateRow, row, api, broker, threads, history
<1>1. TypeOK' BY DEF IInv, TypeOK, Statuses, Active
<1>2. OnlyRun(r) BY DEF IInv, TypeOK, OnlyRun
<1>3. RunInv(r) /\ task[r] = "none" /\ task' = task BY DEF IInv, RunInv, SubmitInv
<1>4. SubmitInv(r)'
  <2>1. \A i \in RunJobs[r] : status'[i] = "none" <=> i # j /\ status[i] = "none"
    BY DEF IInv, TypeOK
  <2>2. submit'[r] = IF \E i \in RunJobs[r] \ {j} : status[i] = "none"
                     THEN "creating" ELSE "dispatch"
    BY DEF IInv, TypeOK
  <2> QED BY <1>3, <2>1, <2>2 DEF RunInv, SubmitInv
<1>5. IdInv(r)'
  <2>1. \A i \in RunJobs[r] : status'[i] = "none" => status[i] = "none" BY DEF IInv, TypeOK
  <2> QED BY <1>3, <2>1 DEF RunInv, IdInv
<1>6. ThreadInv(r)' BY <1>3 DEF RunInv, ThreadInv, Running
<1>7. BackgroundInv(r)' BY <1>3 DEF RunInv, BackgroundInv
<1>8. OwnerInv(r)' BY <1>3 DEF OwnerInv
<1> QED BY <1>1, <1>2, <1>4, <1>5, <1>6, <1>7, <1>8, OtherRuns DEF RunInv

LEMMA DispatchIInv ==
  ASSUME IInv, NEW r \in Runs, Dispatch(r)
  PROVE  IInv'
<1> USE Branches DEF Dispatch, row, api, broker, threads, history
<1>1. TypeOK' BY DEF IInv, TypeOK
<1>2. OnlyRun(r) BY DEF IInv, TypeOK, OnlyRun
<1>3. RunInv(r) /\ task[r] = "none" /\ live[r] = {} /\ apiUp
  BY DEF IInv, RunInv, SubmitInv, ThreadInv
<1>4. task'[r] = "queued" /\ submit'[r] \in {"attaching", "done"} BY DEF IInv, TypeOK
<1>5. SubmitInv(r)' BY <1>3, <1>4 DEF RunInv, SubmitInv
<1>6. IdInv(r)' BY <1>3, <1>4 DEF RunInv, IdInv
<1>7. ThreadInv(r)' BY <1>3, <1>4 DEF RunInv, ThreadInv, Running
<1>8. BackgroundInv(r)' BY <1>3, <1>4 DEF RunInv, BackgroundInv
<1>9. OwnerInv(r)' BY <1>4 DEF OwnerInv
<1> QED BY <1>1, <1>2, <1>5, <1>6, <1>7, <1>8, <1>9, OtherRuns DEF RunInv

LEMMA SubmitFailsIInv ==
  ASSUME IInv, NEW r \in Runs, SubmitFails(r)
  PROVE  IInv'
<1> USE Branches DEF SubmitFails, row, api, broker, threads, history
<1>1. TypeOK' BY DEF IInv, TypeOK
<1>2. OnlyRun(r) BY DEF IInv, TypeOK, OnlyRun
<1>3. RunInv(r) BY DEF IInv
<1>4. submit'[r] = "dead" BY DEF IInv, TypeOK
<1>5. SubmitInv(r)' BY <1>3, <1>4 DEF RunInv, SubmitInv
<1>6. IdInv(r)' /\ BackgroundInv(r)' BY <1>3 DEF RunInv, IdInv, BackgroundInv
<1>7. ThreadInv(r)' BY <1>3 DEF RunInv, ThreadInv, Running
<1>8. OwnerInv(r)' BY <1>3 DEF RunInv, OwnerInv, Owned, Works
<1> QED BY <1>1, <1>2, <1>5, <1>6, <1>7, <1>8, OtherRuns DEF RunInv

LEMMA AttachTaskIdIInv ==
  ASSUME IInv, NEW r \in Runs, NEW j \in RunJobs[r], AttachTaskId(r, j)
  PROVE  IInv'
<1> USE Branches DEF AttachTaskId, row, api, broker, threads, history
<1>1. taskId' \in [Jobs -> Runs \cup {NoTask}]
  <2>1. taskId \in [Jobs -> Runs \cup {NoTask}] BY DEF IInv, TypeOK
  <2>2. CASE taskId' = taskId BY <2>1, <2>2
  <2>3. CASE taskId' = [taskId EXCEPT ![j] = r] BY <2>1, <2>3
  <2> QED BY <2>2, <2>3
<1>2. TypeOK' BY <1>1 DEF IInv, TypeOK
<1>3. OnlyRun(r) BY DEF IInv, TypeOK, OnlyRun
<1>4. RunInv(r) /\ task[r] # "none" BY DEF IInv, RunInv, SubmitInv
<1>5. submit'[r] \in {"attaching", "done"} /\ apiUp BY DEF IInv, TypeOK
<1>6. \A i \in RunJobs[r] : taskId'[i] \in {taskId[i], r} BY DEF IInv, TypeOK
<1>7. SubmitInv(r)' BY <1>4, <1>5 DEF RunInv, SubmitInv
<1>8. IdInv(r)' BY <1>4, <1>6 DEF RunInv, IdInv
<1>9. BackgroundInv(r)' BY <1>4 DEF RunInv, BackgroundInv
<1>10. ThreadInv(r)' BY <1>4 DEF RunInv, ThreadInv, Running
<1>11. OwnerInv(r)' BY <1>4 DEF RunInv, OwnerInv, Owned, Works
<1> QED BY <1>2, <1>3, <1>7, <1>8, <1>9, <1>10, <1>11, OtherRuns DEF RunInv

-----------------------------------------------------------------------------
(* Cancellation.                                                           *)

LEMMA CancelReadIInv ==
  ASSUME IInv, NEW j \in Jobs, CancelRead(j)
  PROVE  IInv'
<1> USE Branches DEF CancelRead, row, api, broker, threads, history
<1>1. TypeOK' BY DEF IInv, TypeOK
<1>2. PICK r \in Runs : j \in RunJobs[r] OBVIOUS
<1>3. OnlyRun(r) BY <1>2 DEF IInv, TypeOK, OnlyRun
<1>4. RunInv(r) BY DEF IInv
<1>5. \A i \in RunJobs[r] : /\ cancelTask'[i] \in {cancelTask[i], taskId[i]}
                            /\ cancel'[i] # "idle" => cancel[i] # "idle" \/ status[i] # "none"
  BY DEF IInv, TypeOK, Active
<1>6. IdInv(r)' BY <1>4, <1>5 DEF RunInv, IdInv
<1>7. SubmitInv(r)' /\ BackgroundInv(r)' BY <1>4 DEF RunInv, SubmitInv, BackgroundInv
<1>8. ThreadInv(r)' BY <1>4 DEF RunInv, ThreadInv, Running
<1>9. OwnerInv(r)' BY <1>4 DEF RunInv, OwnerInv, Owned, Works
<1> QED BY <1>1, <1>3, <1>6, <1>7, <1>8, <1>9, OtherRuns DEF RunInv

LEMMA CancelRevokeIInv ==
  ASSUME IInv, NEW j \in Jobs, CancelRevoke(j)
  PROVE  IInv'
<1> USE Branches DEF CancelRevoke, row, api, broker, threads, history
<1>1. TypeOK' BY DEF IInv, TypeOK
<1>2. PICK r \in Runs : j \in RunJobs[r] OBVIOUS
<1>3. RunInv(r) BY DEF IInv
<1>4. cancelTask[j] \in {r, NoTask} BY <1>2, <1>3 DEF RunInv, IdInv
<1>5. OnlyRun(r) BY <1>2, <1>4 DEF IInv, TypeOK, OnlyRun
<1>6. /\ revoked[r] => revoked'[r]
      /\ \A i \in RunJobs[r] : cancel'[i] # "idle" => cancel[i] # "idle"
  BY DEF IInv, TypeOK
<1>7. SubmitInv(r)' /\ BackgroundInv(r)' /\ IdInv(r)'
  BY <1>3, <1>6 DEF RunInv, SubmitInv, BackgroundInv, IdInv
<1>8. ThreadInv(r)' BY <1>3 DEF RunInv, ThreadInv, Running
<1>9. OwnerInv(r)' BY <1>3, <1>6 DEF RunInv, OwnerInv, Owned, Works
<1> QED BY <1>1, <1>5, <1>7, <1>8, <1>9, OtherRuns DEF RunInv

LEMMA CancelCommitIInv ==
  ASSUME IInv, NEW j \in Jobs, CancelCommit(j)
  PROVE  IInv'
<1> USE Branches DEF CancelCommit, row, api, broker, threads, history
<1>1. TypeOK' BY DEF IInv, TypeOK, Statuses, Terminal, Active
<1>2. PICK r \in Runs : j \in RunJobs[r] OBVIOUS
<1>3. OnlyRun(r) BY <1>2 DEF IInv, TypeOK, OnlyRun
<1>4. RunInv(r) BY DEF IInv
<1>5. status[j] # "none" BY <1>2, <1>4 DEF RunInv, IdInv
<1>6. \A i \in RunJobs[r] : /\ cancelTask'[i] = IF i = j THEN NoTask ELSE cancelTask[i]
                            /\ cancel'[i] = IF i = j THEN "idle" ELSE cancel[i]
                            /\ status'[i] = IF i = j THEN "cancelled" ELSE status[i]
  BY DEF IInv, TypeOK
<1>7. SubmitInv(r)' BY <1>2, <1>4, <1>5, <1>6 DEF RunInv, SubmitInv
<1>8. IdInv(r)' BY <1>4, <1>6 DEF RunInv, IdInv
<1>9. BackgroundInv(r)' BY <1>4 DEF RunInv, BackgroundInv
<1>10. ThreadInv(r)' BY <1>4 DEF RunInv, ThreadInv, Running
<1>11. OwnerInv(r)' BY <1>4, <1>6 DEF RunInv, OwnerInv, Owned, Works, Active
<1> QED BY <1>1, <1>3, <1>7, <1>8, <1>9, <1>10, <1>11, OtherRuns DEF RunInv

-----------------------------------------------------------------------------
(* The broker and the workers.                                             *)

LEMMA StartAttemptIInv ==
  ASSUME IInv, NEW r \in Runs, StartAttempt(r), late' \in SUBSET Runs, task[r] # "none",
         UseCelery[r] \/ task[r] = "queued"
  PROVE  IInv'
<1> USE Branches DEF StartAttempt, row, api, broker, threads, history
<1>1. PICK n \in Attempts : n = tries[r] + 1 /\ n \in 0 .. MaxDeliveries
  BY RunsAssumption DEF IInv, TypeOK, Attempts
<1>2. TypeOK' BY <1>1 DEF IInv, TypeOK, ThreadSteps
<1>3. OnlyRun(r) BY DEF IInv, TypeOK, OnlyRun
<1>4. RunInv(r) BY DEF IInv
<1>5. task'[r] = "unacked" /\ live'[r] = live[r] \cup {n} /\ tries'[r] = n
  BY <1>1 DEF IInv, TypeOK
<1>6. \A j \in RunJobs[r] : /\ pc'[j][n] = "find"
                            /\ \A m \in Attempts \ {n} : pc'[j][m] = pc[j][m]
  BY <1>1 DEF IInv, TypeOK
<1>7. SubmitInv(r)' BY <1>4, <1>5 DEF RunInv, SubmitInv
<1>8. IdInv(r)' BY <1>4, <1>5 DEF RunInv, IdInv
<1>9. ThreadInv(r)' BY <1>4, <1>5, <1>6 DEF RunInv, ThreadInv, Running
<1>10. BackgroundInv(r)' BY <1>4, <1>5 DEF RunInv, BackgroundInv
<1>11. \A j \in RunJobs[r] : Works(j, n)' BY <1>6 DEF Works, Ended
<1>12. OwnerInv(r)' BY <1>5, <1>11 DEF OwnerInv, Owned
<1> QED BY <1>2, <1>3, <1>7, <1>8, <1>9, <1>10, <1>12, OtherRuns DEF RunInv

LEMMA DeliverIInv ==
  ASSUME IInv, NEW r \in Runs, Deliver(r) \/ RedeliverLate(r)
  PROVE  IInv'
<1>1. late' \in SUBSET Runs BY DEF Deliver, RedeliverLate, IInv, TypeOK
<1> QED BY <1>1, StartAttemptIInv DEF Deliver, RedeliverLate

\* What stopping an attempt leaves of its run.
LEMMA KillAttemptRun ==
  ASSUME IInv, NEW r \in Runs, NEW n \in Attempts, n \in live[r], KillAttempt(r, n),
         NEW s \in {"queued", "gone"}, task' = [task EXCEPT ![r] = s],
         s = "gone" => revoked[r], s = "queued" => UseCelery[r],
         UNCHANGED <<row, api, tries, revoked, seen>>
  PROVE  /\ live' \in [Runs -> SUBSET Attempts] /\ pc' \in [Jobs -> [Attempts -> ThreadSteps]]
         /\ OnlyRun(r) /\ RunInv(r)'
<1> USE Branches DEF KillAttempt, row, api, broker, threads, history
<1>1. RunInv(r) /\ task[r] # "none" BY DEF IInv, RunInv, ThreadInv
<1>2. live' \in [Runs -> SUBSET Attempts] /\ live'[r] = live[r] \ {n} /\ task'[r] = s
  BY DEF IInv, TypeOK
<1>3. pc' \in [Jobs -> [Attempts -> ThreadSteps]] BY DEF IInv, TypeOK, ThreadSteps
<1>4. OnlyRun(r) BY DEF IInv, TypeOK, OnlyRun
<1>5. \A j \in RunJobs[r] : /\ pc'[j][n] \in Ended
                            /\ \A m \in Attempts \ {n} : pc'[j][m] = pc[j][m]
  BY DEF IInv, TypeOK, Ended
<1>6. SubmitInv(r)' BY <1>1, <1>2 DEF RunInv, SubmitInv
<1>7. IdInv(r)' BY <1>1, <1>2 DEF RunInv, IdInv
<1>8. ThreadInv(r)' BY <1>1, <1>2, <1>5 DEF RunInv, ThreadInv, Running
<1>9. BackgroundInv(r)' BY <1>1, <1>2 DEF RunInv, BackgroundInv
<1>10. OwnerInv(r)' BY <1>2 DEF OwnerInv
<1>11. RunInv(r)' BY <1>6, <1>7, <1>8, <1>9, <1>10 DEF RunInv
<1> QED BY <1>2, <1>3, <1>4, <1>11

LEMMA WorkerLostIInv ==
  ASSUME IInv, NEW r \in Runs, NEW n \in Attempts, WorkerLost(r, n)
  PROVE  IInv'
<1>1. OnlyRun(r) /\ RunInv(r)' /\ live' \in [Runs -> SUBSET Attempts]
        /\ pc' \in [Jobs -> [Attempts -> ThreadSteps]]
  BY KillAttemptRun DEF WorkerLost
<1>2. TypeOK' BY <1>1 DEF IInv, TypeOK, WorkerLost, row, api, history
<1> QED BY <1>1, <1>2, OtherRuns

LEMMA TerminateIInv ==
  ASSUME IInv, NEW r \in Runs, NEW n \in Attempts, Terminate(r, n)
  PROVE  IInv'
<1>1. OnlyRun(r) /\ RunInv(r)' /\ live' \in [Runs -> SUBSET Attempts]
        /\ pc' \in [Jobs -> [Attempts -> ThreadSteps]]
  BY KillAttemptRun DEF Terminate
<1>2. TypeOK' BY <1>1 DEF IInv, TypeOK, Terminate, row, api, history
<1> QED BY <1>1, <1>2, OtherRuns

LEMMA DropRevokedIInv ==
  ASSUME IInv, NEW r \in Runs, DropRevoked(r)
  PROVE  IInv'
<1> USE Branches DEF DropRevoked, row, api, broker, threads, history
<1>1. TypeOK' BY DEF IInv, TypeOK
<1>2. OnlyRun(r) BY DEF IInv, TypeOK, OnlyRun
<1>3. RunInv(r) /\ task'[r] = "gone" BY DEF IInv, TypeOK
<1>4. SubmitInv(r)' BY <1>3 DEF RunInv, SubmitInv
<1>5. IdInv(r)' BY <1>3 DEF RunInv, IdInv
<1>6. ThreadInv(r)' BY <1>3 DEF RunInv, ThreadInv, Running
<1>7. BackgroundInv(r)' BY <1>3 DEF RunInv, BackgroundInv
<1>8. OwnerInv(r)' BY DEF OwnerInv
<1> QED BY <1>1, <1>2, <1>4, <1>5, <1>6, <1>7, <1>8, OtherRuns DEF RunInv

LEMMA AcknowledgeIInv ==
  ASSUME IInv, NEW r \in Runs, NEW n \in Attempts, Acknowledge(r, n)
  PROVE  IInv'
<1> USE Branches DEF Acknowledge, row, api, broker, threads, history
<1>1. TypeOK' BY DEF IInv, TypeOK
<1>2. OnlyRun(r) BY DEF IInv, TypeOK, OnlyRun
<1>3. RunInv(r) /\ live'[r] = live[r] \ {n} BY DEF IInv, TypeOK
<1>4. task[r] # "none" /\ task'[r] = IF task[r] = "unacked" THEN "gone" ELSE task[r]
  BY <1>3 DEF IInv, TypeOK, RunInv, ThreadInv
<1>5. SubmitInv(r)' BY <1>3, <1>4 DEF RunInv, SubmitInv
<1>6. IdInv(r)' BY <1>3, <1>4 DEF RunInv, IdInv
<1>7. ThreadInv(r)' BY <1>3, <1>4 DEF RunInv, ThreadInv, Running, Ended
<1>8. BackgroundInv(r)' BY <1>3, <1>4 DEF RunInv, BackgroundInv
<1>9. OwnerInv(r)'
  <2> SUFFICES ASSUME NEW j \in RunJobs[r], Owned(r, j) PROVE Owned(r, j)'
    BY <1>3, <1>4 DEF RunInv, OwnerInv
  <2>1. CASE \E m \in Attempts : pc[j][m] = "unrecorded" BY <2>1 DEF Owned
  <2>2. CASE \E m \in live[r] : Works(j, m)
    <3>1. PICK m \in live[r] : Works(j, m) BY <2>2
    <3>2. m # n BY <3>1 DEF Works, Ended
    <3>3. Works(j, m)' BY <3>1 DEF Works
    <3> QED BY <1>3, <3>1, <3>2, <3>3 DEF Owned
  <2> QED BY <2>1, <2>2 DEF Owned
<1> QED BY <1>1, <1>2, <1>5, <1>6, <1>7, <1>8, <1>9, OtherRuns DEF RunInv

-----------------------------------------------------------------------------
(* The threads.                                                            *)

\* A step of thread (j, n) keeps the invariant if it leaves an active row to
\* somebody who works on it.
LEMMA ThreadStepIInv ==
  ASSUME IInv, NEW j \in Jobs, NEW n \in Attempts, NEW step \in ThreadSteps \ {"idle"},
         Running(j, n), Goto(j, n, step), TypeOK',
         UNCHANGED <<taskId, api, broker>>,
         \A i \in Jobs \ {j} : status'[i] = status[i] /\ seen'[i] = seen[i],
         \A m \in Attempts \ {n} : seen'[j][m] = seen[j][m],
         status'[j] # "none",
         status'[j] \in Active =>
           \/ step = "unrecorded"
           \/ Works(j, n)'
           \/ status[j] \in Active /\ ~Works(j, n)
  PROVE  IInv'
<1> USE Branches DEF Goto, api, broker
<1>1. PICK r \in Runs : j \in RunJobs[r] OBVIOUS
<1>2. /\ pc'[j][n] = step
      /\ \A m \in Attempts \ {n} : pc'[j][m] = pc[j][m]
      /\ \A i \in Jobs \ {j} : pc'[i] = pc[i]
  BY DEF IInv, TypeOK
<1>3. OnlyRun(r) BY <1>1, <1>2 DEF OnlyRun
<1>4. RunInv(r) BY DEF IInv
<1>5. status[j] # "none" /\ n \in live[r] /\ task[r] # "none" BY <1>1, RunningRow
<1>6. \A i \in RunJobs[r] : status'[i] = "none" <=> status[i] = "none" BY <1>1, <1>5
<1>7. SubmitInv(r)' BY <1>4, <1>6 DEF RunInv, SubmitInv
<1>8. IdInv(r)' BY <1>4, <1>6 DEF RunInv, IdInv
<1>9. ThreadInv(r)'
  <2>1. ASSUME NEW i \in RunJobs[r], NEW m \in Attempts, Running(i, m)' PROVE m \in live[r]
    <3>1. CASE i = j /\ m = n BY <1>5, <3>1
    <3>2. CASE i # j \/ m # n BY <1>2, <1>4, <2>1, <3>2 DEF RunInv, ThreadInv, Running
    <3> QED BY <3>1, <3>2
  <2> QED BY <1>4, <2>1 DEF RunInv, ThreadInv
<1>10. BackgroundInv(r)' BY <1>4 DEF RunInv, BackgroundInv
<1>11. ASSUME NEW i \in RunJobs[r], task[r] \in {"unacked", "gone"}, ~revoked[r],
              status'[i] \in Active
       PROVE  Owned(r, i)'
  <2>1. CASE i # j
    <3>1. Owned(r, i) BY <1>4, <1>11, <2>1 DEF RunInv, OwnerInv
    <3> QED BY <1>2, <2>1, <3>1 DEF Owned, Works
  <2>2. CASE i = j /\ step = "unrecorded" BY <1>2, <2>2 DEF Owned
  <2>3. CASE i = j /\ Works(j, n)' BY <1>5, <2>3 DEF Owned
  <2>4. CASE i = j /\ status[j] \in Active /\ ~Works(j, n)
    <3>1. Owned(r, j) BY <1>4, <1>11, <2>4 DEF RunInv, OwnerInv
    <3>2. CASE \E m \in Attempts : pc[j][m] = "unrecorded"
      <4>1. PICK m \in Attempts : pc[j][m] = "unrecorded" BY <3>2
      <4>2. m # n BY <4>1 DEF Running, Ended
      <4> QED BY <1>2, <2>4, <4>1, <4>2 DEF Owned
    <3>3. CASE \E m \in live[r] : Works(j, m)
      <4>1. PICK m \in live[r] : Works(j, m) /\ m # n BY <2>4, <3>3
      <4>2. m \in Attempts BY DEF IInv, TypeOK
      <4>3. Works(j, m)' BY <1>2, <4>1, <4>2 DEF Works
      <4> QED BY <2>4, <4>1, <4>3 DEF Owned
    <3> QED BY <3>1, <3>2, <3>3 DEF Owned
  <2> QED BY <1>11, <2>1, <2>2, <2>3, <2>4
<1>12. OwnerInv(r)' BY <1>11 DEF OwnerInv
<1> QED BY <1>3, <1>7, <1>8, <1>9, <1>10, <1>12, OtherRuns DEF RunInv

\* A running thread's row exists, whichever run it belongs to.
LEMMA RowExists ==
  ASSUME IInv, NEW j \in Jobs, NEW n \in Attempts, Running(j, n)
  PROVE  status[j] # "none"
BY Branches, RunningRow

LEMMA FindJobIInv ==
  ASSUME IInv, NEW j \in Jobs, NEW n \in Attempts, FindJob(j, n)
  PROVE  IInv'
<1> DEFINE step == IF status[j] = "none" THEN "done" ELSE "start"
<1> USE DEF FindJob, At, Load, SetStatus, row, api, broker, threads, history
<1>1. Running(j, n) BY DEF Running, Ended
<1>2. status[j] # "none" BY <1>1, RowExists
<1>3. step \in ThreadSteps \ {"idle"} BY DEF ThreadSteps
<1>4. TypeOK' BY DEF IInv, TypeOK, Goto, ThreadSteps, Statuses, Active, Terminal
<1>5. pc'[j][n] = step BY DEF IInv, TypeOK, Goto
<1>6. /\ status' = status /\ seen'[j][n] = status[j]
      /\ \A i \in Jobs \ {j} : seen'[i] = seen[i]
      /\ \A m \in Attempts \ {n} : seen'[j][m] = seen[j][m]
  BY DEF IInv, TypeOK
<1>7. status[j] \in Active => Works(j, n)'
  BY <1>5, <1>6 DEF Works, Active, Ended
<1>8. Goto(j, n, step) /\ UNCHANGED <<taskId, api, broker>> OBVIOUS
<1> HIDE DEF step, FindJob, Load, api, broker
<1> QED BY <1>1, <1>2, <1>3, <1>4, <1>6, <1>7, <1>8, ThreadStepIInv

LEMMA SetRunningIInv ==
  ASSUME IInv, NEW j \in Jobs, NEW n \in Attempts, SetRunning(j, n)
  PROVE  IInv'
<1> DEFINE step == "store"
<1> USE DEF SetRunning, At, Load, SetStatus, row, api, broker, threads, history
<1>1. Running(j, n) BY DEF Running, Ended
<1>2. status[j] # "none" BY <1>1, RowExists
<1>3. step \in ThreadSteps \ {"idle"} BY DEF ThreadSteps
<1>4. TypeOK' BY DEF IInv, TypeOK, Goto, ThreadSteps, Statuses, Active, Terminal
<1>5. pc'[j][n] = step BY DEF IInv, TypeOK, Goto
<1> QED BY <1>1, <1>2, <1>3, <1>4, <1>5, ThreadStepIInv DEF IInv, TypeOK, Works, Active, Ended

LEMMA StoreArtifactUriIInv ==
  ASSUME IInv, NEW j \in Jobs, NEW n \in Attempts, StoreArtifactUri(j, n)
  PROVE  IInv'
<1> DEFINE step == "engine"
<1> USE DEF StoreArtifactUri, At, Load, SetStatus, row, api, broker, threads, history
<1>1. Running(j, n) BY DEF Running, Ended
<1>2. status[j] # "none" BY <1>1, RowExists
<1>3. step \in ThreadSteps \ {"idle"} BY DEF ThreadSteps
<1>4. TypeOK'
  <2>1. n \in 0 .. MaxDeliveries BY RunsAssumption DEF Attempts
  <2> QED BY <2>1 DEF IInv, TypeOK, Goto, ThreadSteps
<1>5. pc'[j][n] = step BY DEF IInv, TypeOK, Goto
<1> QED BY <1>1, <1>2, <1>3, <1>4, <1>5, ThreadStepIInv DEF IInv, TypeOK, Works, Active, Ended

LEMMA RefreshStatusIInv ==
  ASSUME IInv, NEW j \in Jobs, NEW n \in Attempts, RefreshStatus(j, n)
  PROVE  IInv'
<1> DEFINE step == IF status[j] = "cancelled" THEN "done" ELSE "write"
<1> USE DEF RefreshStatus, At, Load, SetStatus, row, api, broker, threads, history
<1>1. Running(j, n) BY DEF Running, Ended
<1>2. status[j] # "none" BY <1>1, RowExists
<1>3. step \in ThreadSteps \ {"idle"} BY DEF ThreadSteps
<1>4. TypeOK' BY DEF IInv, TypeOK, Goto, ThreadSteps, Statuses, Active, Terminal
<1>5. pc'[j][n] = step BY DEF IInv, TypeOK, Goto
<1>6. /\ status' = status /\ seen'[j][n] = status[j]
      /\ \A i \in Jobs \ {j} : seen'[i] = seen[i]
      /\ \A m \in Attempts \ {n} : seen'[j][m] = seen[j][m]
  BY DEF IInv, TypeOK
<1>7. status[j] \in Active => Works(j, n)'
  BY <1>5, <1>6 DEF Works, Active, Ended
<1>8. Goto(j, n, step) /\ UNCHANGED <<taskId, api, broker>> OBVIOUS
<1> HIDE DEF step, RefreshStatus, Load, api, broker
<1> QED BY <1>1, <1>2, <1>3, <1>4, <1>6, <1>7, <1>8, ThreadStepIInv

LEMMA WriteSuccessIInv ==
  ASSUME IInv, NEW j \in Jobs, NEW n \in Attempts, WriteSuccess(j, n)
  PROVE  IInv'
<1> DEFINE step == "done"
<1> USE DEF WriteSuccess, At, Load, SetStatus, row, api, broker, threads, history
<1>1. Running(j, n) BY DEF Running, Ended
<1>2. status[j] # "none" BY <1>1, RowExists
<1>3. step \in ThreadSteps \ {"idle"} BY DEF ThreadSteps
<1>4. TypeOK'
  <2>1. n \in 0 .. MaxDeliveries BY RunsAssumption DEF Attempts
  <2>2. artifact' \in [Jobs -> 0 .. MaxDeliveries] /\ metrics' \in [Jobs -> 0 .. MaxDeliveries]
    BY <2>1 DEF IInv, TypeOK
  <2>3. status' \in [Jobs -> Statuses] BY DEF IInv, TypeOK, Statuses, Terminal
  <2> QED BY <2>2, <2>3 DEF IInv, TypeOK, Goto, ThreadSteps
<1>5. pc'[j][n] = step BY DEF IInv, TypeOK, Goto
<1> QED BY <1>1, <1>2, <1>3, <1>4, <1>5, ThreadStepIInv DEF IInv, TypeOK, Works, Active, Ended

LEMMA WriteFailureIInv ==
  ASSUME IInv, NEW j \in Jobs, NEW n \in Attempts, WriteFailure(j, n)
  PROVE  IInv'
<1> DEFINE step == "done"
<1> USE DEF WriteFailure, At, Load, SetStatus, row, api, broker, threads, history
<1>1. Running(j, n) BY DEF Running, Ended
<1>2. status[j] # "none" BY <1>1, RowExists
<1>3. step \in ThreadSteps \ {"idle"} BY DEF ThreadSteps
<1>4. TypeOK' BY DEF IInv, TypeOK, Goto, ThreadSteps, Statuses, Active, Terminal
<1>5. pc'[j][n] = step BY DEF IInv, TypeOK, Goto
<1> QED BY <1>1, <1>2, <1>3, <1>4, <1>5, ThreadStepIInv DEF IInv, TypeOK, Works, Active, Ended

LEMMA RaiseIInv ==
  ASSUME IInv, NEW j \in Jobs, NEW n \in Attempts, Raise(j, n)
  PROVE  IInv'
<1> DEFINE step == "except"
<1> USE DEF Raise, At, Load, SetStatus, row, api, broker, threads, history
<1>1. Running(j, n) BY DEF Running, Ended
<1>2. status[j] # "none" BY <1>1, RowExists
<1>3. step \in ThreadSteps \ {"idle"} BY DEF ThreadSteps
<1>4. TypeOK' BY DEF IInv, TypeOK, Goto, ThreadSteps, Statuses, Active, Terminal
<1>5. pc'[j][n] = step BY DEF IInv, TypeOK, Goto
<1> QED BY <1>1, <1>2, <1>3, <1>4, <1>5, ThreadStepIInv DEF IInv, TypeOK, Works, Active, Ended

LEMMA HandleExceptionIInv ==
  ASSUME IInv, NEW j \in Jobs, NEW n \in Attempts, HandleException(j, n)
  PROVE  IInv'
<1> DEFINE step == IF status[j] = "cancelled" THEN "done" ELSE "fail"
<1> USE DEF HandleException, At, Load, SetStatus, row, api, broker, threads, history
<1>1. Running(j, n) BY DEF Running, Ended
<1>2. status[j] # "none" BY <1>1, RowExists
<1>3. step \in ThreadSteps \ {"idle"} BY DEF ThreadSteps
<1>4. TypeOK' BY DEF IInv, TypeOK, Goto, ThreadSteps, Statuses, Active, Terminal
<1>5. pc'[j][n] = step BY DEF IInv, TypeOK, Goto
<1>6. /\ status' = status /\ seen'[j][n] = status[j]
      /\ \A i \in Jobs \ {j} : seen'[i] = seen[i]
      /\ \A m \in Attempts \ {n} : seen'[j][m] = seen[j][m]
  BY DEF IInv, TypeOK
<1>7. status[j] \in Active => Works(j, n)'
  BY <1>5, <1>6 DEF Works, Active, Ended
<1>8. Goto(j, n, step) /\ UNCHANGED <<taskId, api, broker>> OBVIOUS
<1> HIDE DEF step, HandleException, Load, api, broker
<1> QED BY <1>1, <1>2, <1>3, <1>4, <1>6, <1>7, <1>8, ThreadStepIInv

LEMMA FailureUnrecordedIInv ==
  ASSUME IInv, NEW j \in Jobs, NEW n \in Attempts, FailureUnrecorded(j, n)
  PROVE  IInv'
<1> DEFINE step == "unrecorded"
<1> USE DEF FailureUnrecorded, At, Load, SetStatus, row, api, broker, threads, history
<1>1. Running(j, n) BY DEF Running, Ended
<1>2. status[j] # "none" BY <1>1, RowExists
<1>3. step \in ThreadSteps \ {"idle"} BY DEF ThreadSteps
<1>4. TypeOK' BY DEF IInv, TypeOK, Goto, ThreadSteps, Statuses, Active, Terminal
<1>5. pc'[j][n] = step BY DEF IInv, TypeOK, Goto
<1> QED BY <1>1, <1>2, <1>3, <1>4, <1>5, ThreadStepIInv DEF IInv, TypeOK, Works, Active, Ended

-----------------------------------------------------------------------------
(* Time and restarts.                                                      *)

LEMMA GrowOldIInv ==
  ASSUME IInv, NEW j \in Jobs, GrowOld(j)
  PROVE  IInv'
<1> USE DEF GrowOld, row, api, broker, threads, history
<1>1. TypeOK' BY DEF IInv, TypeOK
<1>2. ASSUME NEW r \in Runs PROVE RunInv(r)' BY RunFrame DEF IInv
<1> QED BY <1>1, <1>2 DEF IInv

LEMMA ApiCrashIInv ==
  ASSUME IInv, ApiCrash
  PROVE  IInv'
<1> USE Branches DEF ApiCrash, row, api, broker, threads, history
<1>1. TypeOK'
  <2>1. /\ task' \in [Runs -> {"none", "queued", "unacked", "gone", "lost"}]
        /\ live' \in [Runs -> SUBSET Attempts]
    BY DEF IInv, TypeOK
  <2>2. pc' \in [Jobs -> [Attempts -> ThreadSteps]] BY DEF IInv, TypeOK, ThreadSteps
  <2> QED BY <2>1, <2>2 DEF IInv, TypeOK
<1> SUFFICES ASSUME NEW r \in Runs PROVE RunInv(r)' BY <1>1 DEF IInv
<1>2. RunInv(r) BY DEF IInv
<1>3. submit'[r] = IF submit[r] \in {"creating", "dispatch", "attaching"} THEN "dead" ELSE submit[r]
  BY DEF IInv, TypeOK
<1>4. \A j \in RunJobs[r] : cancel'[j] = "idle" /\ cancelTask'[j] = NoTask BY DEF IInv, TypeOK
<1>5. CASE UseCelery[r]
  <2>1. task'[r] = task[r] /\ live'[r] = live[r] BY <1>5 DEF IInv, TypeOK
  <2>2. \A j \in RunJobs[r] : pc'[j] = pc[j]
    <3> SUFFICES ASSUME NEW j \in RunJobs[r] PROVE pc'[j] = pc[j] OBVIOUS
    <3>1. j \in Jobs /\ \A s \in Runs : j \in RunJobs[s] => UseCelery[s] BY <1>5
    <3>2. pc[j] \in [Attempts -> ThreadSteps] BY <3>1 DEF IInv, TypeOK
    <3>3. pc'[j] = [n \in Attempts |-> pc[j][n]] BY <3>1
    <3> QED BY <3>2, <3>3
  <2>3. SubmitInv(r)' /\ BackgroundInv(r)' BY <1>2, <1>3, <1>5, <2>1 DEF RunInv, SubmitInv, BackgroundInv
  <2>4. IdInv(r)' BY <1>2, <1>4, <2>1 DEF RunInv, IdInv
  <2>5. ThreadInv(r)' BY <1>2, <2>1, <2>2 DEF RunInv, ThreadInv, Running
  <2>6. ASSUME NEW j \in RunJobs[r], Owned(r, j) PROVE Owned(r, j)'
    BY <2>1, <2>2, <2>6 DEF Owned, Works
  <2>7. OwnerInv(r)' BY <1>2, <2>1, <2>6 DEF RunInv, OwnerInv
  <2> QED BY <2>3, <2>4, <2>5, <2>7 DEF RunInv
<1>6. CASE ~UseCelery[r]
  <2>1. /\ task'[r] = IF task[r] \in {"queued", "unacked"} THEN "lost" ELSE task[r]
        /\ live'[r] = {}
    BY <1>6 DEF IInv, TypeOK
  <2>2. \A j \in RunJobs[r], n \in Attempts :
          pc'[j][n] = IF pc[j][n] \in Ended \cup {"idle"} THEN pc[j][n] ELSE "dead"
    BY <1>6 DEF IInv, TypeOK
  <2>3. SubmitInv(r)' BY <1>2, <1>3, <2>1 DEF RunInv, SubmitInv
  <2>4. IdInv(r)' BY <1>2, <1>4, <2>1 DEF RunInv, IdInv
  <2>5. ThreadInv(r)' BY <2>1, <2>2 DEF ThreadInv, Running, Ended
  <2>6. BackgroundInv(r)' BY <1>2, <2>1 DEF RunInv, BackgroundInv
  <2>7. OwnerInv(r)'
    <3> SUFFICES ASSUME NEW j \in RunJobs[r], task[r] = "gone", ~revoked[r], status[j] \in Active
                 PROVE  Owned(r, j)'
      BY <2>1 DEF OwnerInv
    <3>1. Owned(r, j) /\ live[r] = {} BY <1>2, <1>6 DEF RunInv, OwnerInv, BackgroundInv
    <3>2. PICK n \in Attempts : pc[j][n] = "unrecorded" BY <3>1 DEF Owned
    <3>3. pc'[j][n] = "unrecorded" BY <2>2, <3>2 DEF Ended
    <3> QED BY <3>3 DEF Owned
  <2> QED BY <2>3, <2>4, <2>5, <2>6, <2>7 DEF RunInv
<1> QED BY <1>5, <1>6, RunsAssumption

LEMMA ApiStartIInv ==
  ASSUME IInv, ApiStart
  PROVE  IInv'
<1> USE Branches DEF ApiStart, row, api, broker, threads, history
<1>1. TypeOK' BY DEF IInv, TypeOK, Statuses, Terminal
<1> SUFFICES ASSUME NEW r \in Runs PROVE RunInv(r)' BY <1>1 DEF IInv
<1>2. RunInv(r) BY DEF IInv
<1>3. \A j \in RunJobs[r] : /\ status'[j] = "none" <=> status[j] = "none"
                            /\ status'[j] \in Active => status[j] \in Active
  BY DEF IInv, TypeOK, Active
<1>4. SubmitInv(r)' BY <1>2, <1>3 DEF RunInv, SubmitInv
<1>5. IdInv(r)' BY <1>2, <1>3 DEF RunInv, IdInv
<1>6. ThreadInv(r)' BY <1>2 DEF RunInv, ThreadInv, Running
<1>7. BackgroundInv(r)' BY <1>2 DEF RunInv, BackgroundInv
<1>8. OwnerInv(r)' BY <1>2, <1>3 DEF RunInv, OwnerInv, Owned, Works
<1> QED BY <1>4, <1>5, <1>6, <1>7, <1>8 DEF RunInv

LEMMA StutterIInv ==
  ASSUME IInv, UNCHANGED vars
  PROVE  IInv'
<1> USE DEF vars, row, api, broker, threads, history
<1>1. TypeOK' BY DEF IInv, TypeOK
<1>2. ASSUME NEW r \in Runs PROVE RunInv(r)' BY RunFrame DEF IInv
<1> QED BY <1>1, <1>2 DEF IInv

-----------------------------------------------------------------------------
(* The theorems.                                                           *)

LEMMA NextIInv == IInv /\ [Next]_vars => IInv'
<1> SUFFICES ASSUME IInv, [Next]_vars PROVE IInv' OBVIOUS
<1>1. ASSUME NEW r \in Runs, NEW j \in RunJobs[r], CreateRow(r, j) \/ AttachTaskId(r, j)
      PROVE  IInv'
  BY <1>1, CreateRowIInv, AttachTaskIdIInv
<1>2. ASSUME NEW r \in Runs,
             Dispatch(r) \/ SubmitFails(r) \/ Deliver(r) \/ RedeliverLate(r) \/ DropRevoked(r)
      PROVE  IInv'
  BY <1>2, DispatchIInv, SubmitFailsIInv, DeliverIInv, DropRevokedIInv
<1>3. ASSUME NEW r \in Runs, NEW n \in Attempts,
             WorkerLost(r, n) \/ Terminate(r, n) \/ Acknowledge(r, n)
      PROVE  IInv'
  BY <1>3, WorkerLostIInv, TerminateIInv, AcknowledgeIInv
<1>4. ASSUME NEW j \in Jobs, CancelRead(j) \/ CancelRevoke(j) \/ CancelCommit(j) \/ GrowOld(j)
      PROVE  IInv'
  BY <1>4, CancelReadIInv, CancelRevokeIInv, CancelCommitIInv, GrowOldIInv
<1>5. ASSUME NEW j \in Jobs, NEW n \in Attempts,
             Thread(j, n) \/ Raise(j, n) \/ FailureUnrecorded(j, n)
      PROVE  IInv'
  BY <1>5, FindJobIInv, SetRunningIInv, StoreArtifactUriIInv, RefreshStatusIInv,
     WriteSuccessIInv, WriteFailureIInv, RaiseIInv, HandleExceptionIInv, FailureUnrecordedIInv
  DEF Thread
<1>6. CASE ApiCrash BY <1>6, ApiCrashIInv
<1>7. CASE ApiStart BY <1>7, ApiStartIInv
<1>8. CASE Rest \/ UNCHANGED vars BY <1>8, StutterIInv DEF Rest
<1> QED BY <1>1, <1>2, <1>3, <1>4, <1>5, <1>6, <1>7, <1>8 DEF Next

LEMMA IInvAlways == Spec => []IInv
BY InitIInv, NextIInv, PTL DEF Spec

\* Every column, queue and thread keeps its type, whatever the environment does.
THEOREM LifecycleTypeOK == Spec => []TypeOK
BY IInvAlways, PTL DEF IInv

\* A worker never looks for a row that is not committed, and the task id a
\* cancel request may revoke is that of the row's own batch.
THEOREM WorkersFindTheirRows == Spec => []TaskFindsItsRows
<1>1. IInv => TaskFindsItsRows
  BY DEF IInv, RunInv, SubmitInv, IdInv, TaskFindsItsRows
<1> QED BY <1>1, IInvAlways, PTL

\* No row stays queued or running with nobody left to write it, but for the
\* exceptions that NoSilentOrphan names.
THEOREM NoRowIsOrphaned == Spec => []NoSilentOrphan
<1>1. IInv => NoSilentOrphan
  <2> SUFFICES ASSUME IInv, NEW r \in Runs, NEW j \in RunJobs[r], status[j] \in Active,
                      ~(apiUp /\ submit[r] \in {"creating", "dispatch"}),
                      task[r] \notin {"queued", "lost"}, ~revoked[r],
                      ~(submit[r] = "dead" /\ task[r] = "none"),
                      ~ \E n \in Attempts : pc[j][n] = "unrecorded"
               PROVE  Executing(r, j)
    BY DEF NoSilentOrphan, Abandoned
  <2>1. RunInv(r) /\ submit[r] \in {"idle", "creating", "dispatch", "attaching", "done", "dead"}
          /\ task[r] \in {"none", "queued", "unacked", "gone", "lost"}
    BY DEF IInv, TypeOK
  <2>2. task[r] \in {"unacked", "gone"} BY <2>1 DEF RunInv, SubmitInv, Active
  <2>3. Owned(r, j) BY <2>1, <2>2 DEF RunInv, OwnerInv
  <2> QED BY <2>3 DEF Owned, Works, Executing
<1> QED BY <1>1, IInvAlways, PTL

-----------------------------------------------------------------------------
(* One attempt at a time.  Unless the broker redelivers a task beside a    *)
(* live attempt, at most one thread per row runs, the row belongs to it    *)
(* from "start" to its last write, and what it has written is its own.     *)

\* The latest attempt is the only one that may live, and later ones are unborn.
Sole(r) ==
  /\ live[r] \subseteq {tries[r]}
  /\ task[r] = "queued" => live[r] = {}
  /\ \A j \in RunJobs[r], n \in Attempts : n > tries[r] => pc[j][n] = "idle"

OneAttempt(j) == status[j] = "completed" => artifact[j] # 0 /\ artifact[j] = metrics[j]

\* What the row says while thread (j, n) is on its way: not completed from the
\* moment it is set running; its artifact is the thread's once the engine runs;
\* and a thread that was cancelled in the engine finds the cancellation.
Progress(j, n) ==
  /\ pc[j][n] \in {"store", "engine", "write"} => status[j] # "completed"
  /\ pc[j][n] = "start" /\ seen[j][n] = "running" => status[j] # "completed"
  /\ pc[j][n] \in {"engine", "write"} => artifact[j] = n
  /\ pc[j][n] = "write" => seen[j][n] # "completed"
  /\ n \in yields[j] => \/ pc[j][n] \in Ended
                        \/ pc[j][n] \in {"store", "engine", "except"} /\ status[j] = "cancelled"

RowInv(j) == OneAttempt(j) /\ \A n \in Attempts : Progress(j, n)

AttemptInv(r) == r \notin late => Sole(r) /\ \A j \in RunJobs[r] : RowInv(j)

AInv == \A r \in Runs : AttemptInv(r)

LEMMA InitAInv == Init => AInv
BY RunsAssumption
DEF Init, AInv, AttemptInv, Sole, RowInv, OneAttempt, Progress, Attempts

\* A row nobody touches keeps its invariant, and so does a run.
LEMMA RowStays ==
  ASSUME NEW j \in Jobs, RowInv(j), status'[j] = status[j], artifact'[j] = artifact[j],
         metrics'[j] = metrics[j], pc'[j] = pc[j], seen'[j] = seen[j], yields'[j] = yields[j]
  PROVE  RowInv(j)'
BY DEF RowInv, OneAttempt, Progress

LEMMA SoleStays ==
  ASSUME NEW r \in Runs, Sole(r), live'[r] = live[r], tries'[r] = tries[r],
         task'[r] = task[r] \/ task'[r] # "queued" \/ live[r] = {},
         \A j \in RunJobs[r], n \in Attempts : pc[j][n] = "idle" => pc'[j][n] = "idle"
  PROVE  Sole(r)'
BY DEF Sole

\* Steps that leave rows and threads alone.
LEMMA ElsewhereAInv ==
  ASSUME AInv, UNCHANGED <<status, artifact, metrics, live, tries, threads, yields>>, late' = late,
         \A r \in Runs : task'[r] = task[r] \/ task'[r] # "queued" \/ live[r] = {}
  PROVE  AInv'
<1> SUFFICES ASSUME NEW r \in Runs, r \notin late PROVE Sole(r)' /\ \A j \in RunJobs[r] : RowInv(j)'
  BY DEF AInv, AttemptInv
<1>1. Sole(r) /\ \A j \in RunJobs[r] : RowInv(j) BY DEF AInv, AttemptInv
<1>2. Sole(r)' BY <1>1, SoleStays DEF threads
<1>3. \A j \in RunJobs[r] : RowInv(j)' BY <1>1, RowStays, Branches DEF threads
<1> QED BY <1>2, <1>3

\* Steps that write the status of rows, and touch no thread: a row is completed
\* by none of them, and one that was cancelled stays so.
LEMMA StatusAInv ==
  ASSUME IInv, AInv, UNCHANGED <<artifact, metrics, live, tries, task, threads, late>>,
         \A j \in Jobs : /\ status'[j] = "completed" => status[j] = "completed"
                         /\ status[j] = "cancelled" => status'[j] = "cancelled"
                         /\ \A n \in yields'[j] : n \in yields[j] \/
                              (pc[j][n] \in {"store", "engine"} /\ status'[j] = "cancelled")
  PROVE  AInv'
<1> SUFFICES ASSUME NEW r \in Runs, r \notin late PROVE Sole(r)' /\ \A j \in RunJobs[r] : RowInv(j)'
  BY DEF AInv, AttemptInv
<1>1. Sole(r) /\ \A j \in RunJobs[r] : RowInv(j) BY DEF AInv, AttemptInv
<1>2. Sole(r)' BY <1>1, SoleStays DEF threads
<1>3. ASSUME NEW j \in RunJobs[r] PROVE RowInv(j)'
  <2>1. RowInv(j) /\ j \in Jobs BY <1>1, Branches
  <2>2. OneAttempt(j)' BY <2>1 DEF RowInv, OneAttempt
  <2>3. ASSUME NEW n \in Attempts PROVE Progress(j, n)'
    BY <2>1 DEF RowInv, Progress, threads
  <2> QED BY <2>2, <2>3 DEF RowInv
<1> QED BY <1>2, <1>3

LEMMA StartAttemptAInv ==
  ASSUME IInv, AInv, NEW r \in Runs, StartAttempt(r),
         (late' = late /\ task[r] = "queued") \/ late' = late \cup {r}
  PROVE  AInv'
<1> USE Branches DEF StartAttempt, row, api, broker, threads, history
<1> SUFFICES ASSUME NEW s \in Runs, s \notin late' PROVE Sole(s)' /\ \A j \in RunJobs[s] : RowInv(j)'
  BY DEF AInv, AttemptInv
<1>1. Sole(s) /\ \A j \in RunJobs[s] : RowInv(j) BY DEF AInv, AttemptInv
<1>2. CASE s # r
  <2>1. \A j \in RunJobs[s] : j \in Jobs /\ pc'[j] = pc[j] BY <1>2
  <2>2. live'[s] = live[s] /\ tries'[s] = tries[s] /\ task'[s] = task[s] BY <1>2 DEF IInv, TypeOK
  <2>3. Sole(s)' BY <1>1, <2>1, <2>2, SoleStays
  <2>4. \A j \in RunJobs[s] : RowInv(j)' BY <1>1, <2>1, RowStays
  <2> QED BY <2>3, <2>4
<1>3. CASE s = r
  <2>1. PICK n \in Attempts : n = tries[r] + 1 /\ tries[r] \in Nat
    BY RunsAssumption DEF IInv, TypeOK, Attempts
  <2>2. live[r] = {} BY <1>1, <1>3 DEF Sole
  <2>3. live'[r] = {n} /\ tries'[r] = n /\ task'[r] = "unacked" BY <2>1, <2>2 DEF IInv, TypeOK
  <2>4. \A j \in RunJobs[r] : /\ pc[j][n] = "idle" /\ pc'[j][n] = "find"
                              /\ \A m \in Attempts \ {n} : pc'[j][m] = pc[j][m]
    BY <1>1, <1>3, <2>1 DEF IInv, TypeOK, Sole
  <2>5. Sole(r)' BY <1>1, <1>3, <2>1, <2>3, <2>4 DEF Sole, Attempts
  <2>6. ASSUME NEW j \in RunJobs[r] PROVE RowInv(j)'
    <3>1. RowInv(j) BY <1>1, <1>3
    <3>2. OneAttempt(j)' BY <3>1 DEF RowInv, OneAttempt
    <3>3. Progress(j, n)'
      <4>1. n \notin yields[j] BY <2>4, <3>1 DEF RowInv, Progress, Ended
      <4> QED BY <2>4, <4>1 DEF Progress
    <3>4. ASSUME NEW m \in Attempts \ {n} PROVE Progress(j, m)'
      <4>1. pc'[j][m] = pc[j][m] BY <2>4
      <4>2. Progress(j, m) BY <3>1 DEF RowInv
      <4> QED BY <4>1, <4>2 DEF Progress
    <3> QED BY <3>2, <3>3, <3>4 DEF RowInv
  <2> QED BY <1>3, <2>5, <2>6
<1> QED BY <1>2, <1>3

\* A thread that is stopped where it is has ended.
LEMMA RowStops ==
  ASSUME NEW j \in Jobs, RowInv(j), UNCHANGED <<row, seen, yields>>,
         \A n \in Attempts : pc'[j][n] \in {pc[j][n], "dead"}
  PROVE  RowInv(j)'
<1>1. OneAttempt(j)' BY DEF RowInv, OneAttempt, row
<1>2. ASSUME NEW n \in Attempts PROVE Progress(j, n)' BY DEF RowInv, Progress, row, Ended
<1> QED BY <1>1, <1>2 DEF RowInv

LEMMA KillAttemptAInv ==
  ASSUME IInv, AInv, NEW r \in Runs, NEW n \in Attempts, n \in live[r], KillAttempt(r, n),
         UNCHANGED <<row, tries, seen, history>>,
         \A s \in Runs \ {r} : task'[s] = task[s]
  PROVE  AInv'
<1> USE Branches DEF KillAttempt, history
<1> SUFFICES ASSUME NEW s \in Runs, s \notin late PROVE Sole(s)' /\ \A j \in RunJobs[s] : RowInv(j)'
  BY DEF AInv, AttemptInv
<1>1. Sole(s) /\ \A j \in RunJobs[s] : RowInv(j) BY DEF AInv, AttemptInv
<1>2. live'[s] = IF s = r THEN live[r] \ {n} ELSE live[s] BY DEF IInv, TypeOK
<1>3. s = r => live'[s] = {} BY <1>1, <1>2 DEF Sole
<1>4. \A j \in RunJobs[s], m \in Attempts :
        pc'[j][m] \in {pc[j][m], "dead"} /\ (pc'[j][m] # pc[j][m] => s = r /\ m = n)
  BY DEF IInv, TypeOK
<1>5. Sole(s)'
  <2>1. CASE s # r BY <1>1, <1>2, <1>4, <2>1 DEF Sole
  <2>2. CASE s = r
    <3>1. ~(n > tries[s]) BY <1>1, <2>2 DEF Sole, Attempts, IInv, TypeOK
    <3> QED BY <1>1, <1>3, <1>4, <2>2, <3>1 DEF Sole
  <2> QED BY <2>1, <2>2
<1>6. \A j \in RunJobs[s] : RowInv(j)' BY <1>1, <1>4, RowStops
<1> QED BY <1>5, <1>6

LEMMA ApiCrashAInv ==
  ASSUME IInv, AInv, ApiCrash
  PROVE  AInv'
<1> USE Branches DEF ApiCrash, row, broker, threads, history
<1> SUFFICES ASSUME NEW r \in Runs, r \notin late PROVE Sole(r)' /\ \A j \in RunJobs[r] : RowInv(j)'
  BY DEF AInv, AttemptInv
<1>1. Sole(r) /\ \A j \in RunJobs[r] : RowInv(j) BY DEF AInv, AttemptInv
<1>2. live'[r] \in {live[r], {}} /\ (task'[r] = "queued" => task[r] = "queued") BY DEF IInv, TypeOK
<1>3. \A j \in RunJobs[r], n \in Attempts :
        pc'[j][n] \in {pc[j][n], "dead"} /\ (pc[j][n] = "idle" => pc'[j][n] = "idle")
  BY DEF IInv, TypeOK
<1>4. Sole(r)' BY <1>1, <1>2, <1>3 DEF Sole
<1>5. \A j \in RunJobs[r] : RowInv(j)' BY <1>1, <1>3, RowStops
<1> QED BY <1>4, <1>5

\* A step of thread (j, n), the only one of its row that runs: it suffices that
\* the row is its own again.
LEMMA ThreadAInv ==
  ASSUME IInv, AInv, NEW j \in Jobs, NEW n \in Attempts, NEW step, Running(j, n), Goto(j, n, step),
         UNCHANGED <<broker, history>>,
         \A i \in Jobs \ {j} : /\ status'[i] = status[i] /\ artifact'[i] = artifact[i]
                               /\ metrics'[i] = metrics[i] /\ seen'[i] = seen[i],
         RowInv(j) => OneAttempt(j)' /\ Progress(j, n)'
  PROVE  AInv'
<1> USE Branches DEF Goto, broker, history
<1> SUFFICES ASSUME NEW r \in Runs, r \notin late PROVE Sole(r)' /\ \A i \in RunJobs[r] : RowInv(i)'
  BY DEF AInv, AttemptInv
<1>1. Sole(r) /\ \A i \in RunJobs[r] : RowInv(i) BY DEF AInv, AttemptInv
<1>2. \A i \in Jobs, m \in Attempts : i # j \/ m # n => pc'[i][m] = pc[i][m] BY DEF IInv, TypeOK
<1>3. \A i \in Jobs \ {j} : pc'[i] = pc[i] BY DEF IInv, TypeOK
<1>4. pc[j][n] # "idle" BY DEF Running
<1>5. Sole(r)' BY <1>1, <1>2, <1>4, SoleStays
<1>6. ASSUME NEW i \in RunJobs[r], i # j PROVE RowInv(i)' BY <1>1, <1>3, <1>6, RowStays
<1>7. CASE j \in RunJobs[r]
  <2>1. ASSUME NEW m \in Attempts \ {n} PROVE Progress(j, m)'
    <3>1. \A k \in Attempts : Running(j, k) => k = tries[r]
      BY <1>1, <1>7 DEF IInv, RunInv, ThreadInv, Sole
    <3>2. pc[j][m] \in Ended \cup {"idle"} BY <3>1 DEF Running
    <3>3. Progress(j, m) BY <1>1, <1>7 DEF RowInv
    <3> QED BY <1>2, <3>2, <3>3 DEF Progress, Ended
  <2> QED BY <1>1, <1>5, <1>6, <1>7, <2>1 DEF RowInv
<1> QED BY <1>5, <1>6, <1>7

LEMMA ThreadStepsAInv ==
  ASSUME IInv, AInv, NEW j \in Jobs, NEW n \in Attempts,
         Thread(j, n) \/ Raise(j, n) \/ FailureUnrecorded(j, n)
  PROVE  AInv'
<1> USE DEF At, Load, SetStatus, row, api, broker, threads, history, RowInv, OneAttempt, Progress, Ended
<1>1. n \in Nat \ {0} BY RunsAssumption DEF Attempts
<1>2. \A step : Goto(j, n, step) => pc'[j][n] = step BY DEF Goto, IInv, TypeOK
<1>3. CASE FindJob(j, n)
  <2>1. seen'[j][n] = status[j] BY <1>3 DEF FindJob, IInv, TypeOK
  <2>2. Running(j, n) /\ Goto(j, n, IF status[j] = "none" THEN "done" ELSE "start")
    BY <1>3 DEF FindJob, Running
  <2> QED BY <1>2, <1>3, <2>1, <2>2, ThreadAInv DEF FindJob, IInv, TypeOK
<1>4. CASE SetRunning(j, n)
  <2>1. Running(j, n) /\ Goto(j, n, "store") BY <1>4 DEF SetRunning, Running
  <2>2. RowInv(j) => status'[j] # "completed" /\ n \notin yields[j] BY <1>4 DEF SetRunning, IInv, TypeOK
  <2> QED BY <1>2, <1>4, <2>1, <2>2, ThreadAInv DEF SetRunning, IInv, TypeOK
<1>5. CASE StoreArtifactUri(j, n)
  <2>1. Running(j, n) /\ Goto(j, n, "engine") BY <1>5 DEF StoreArtifactUri, Running
  <2>2. artifact'[j] = n BY <1>5 DEF StoreArtifactUri, IInv, TypeOK
  <2> QED BY <1>2, <1>5, <2>1, <2>2, ThreadAInv DEF StoreArtifactUri, IInv, TypeOK
<1>6. CASE RefreshStatus(j, n)
  <2>1. Running(j, n) /\ Goto(j, n, IF status[j] = "cancelled" THEN "done" ELSE "write")
    BY <1>6 DEF RefreshStatus, Running
  <2>2. seen'[j][n] = status[j] BY <1>6 DEF RefreshStatus, IInv, TypeOK
  <2> QED BY <1>2, <1>6, <2>1, <2>2, ThreadAInv DEF RefreshStatus, IInv, TypeOK
<1>7. CASE WriteSuccess(j, n)
  <2>1. Running(j, n) /\ Goto(j, n, "done") BY <1>7 DEF WriteSuccess, Running
  <2>2. metrics'[j] = n /\ artifact'[j] \in {n, artifact[j]} BY <1>7 DEF WriteSuccess, IInv, TypeOK
  <2> QED BY <1>1, <1>2, <1>7, <2>1, <2>2, ThreadAInv DEF WriteSuccess, IInv, TypeOK
<1>8. CASE WriteFailure(j, n)
  <2>1. Running(j, n) /\ Goto(j, n, "done") BY <1>8 DEF WriteFailure, Running
  <2>2. status'[j] \in {"failed", status[j]} BY <1>8 DEF WriteFailure, IInv, TypeOK
  <2> QED BY <1>2, <1>8, <2>1, <2>2, ThreadAInv DEF WriteFailure, IInv, TypeOK
<1>9. CASE Raise(j, n)
  <2>1. Running(j, n) /\ Goto(j, n, "except") BY <1>9 DEF Raise, Running
  <2> QED BY <1>2, <1>9, <2>1, ThreadAInv DEF Raise, IInv, TypeOK
<1>10. CASE HandleException(j, n)
  <2>1. Running(j, n) /\ Goto(j, n, IF status[j] = "cancelled" THEN "done" ELSE "fail")
    BY <1>10 DEF HandleException, Running
  <2> QED BY <1>2, <1>10, <2>1, ThreadAInv DEF HandleException, IInv, TypeOK
<1>11. CASE FailureUnrecorded(j, n)
  <2>1. Running(j, n) /\ Goto(j, n, "unrecorded") BY <1>11 DEF FailureUnrecorded, Running
  <2> QED BY <1>2, <1>11, <2>1, ThreadAInv DEF FailureUnrecorded, IInv, TypeOK
<1> QED BY <1>3, <1>4, <1>5, <1>6, <1>7, <1>8, <1>9, <1>10, <1>11 DEF Thread

LEMMA NextAInv == IInv /\ AInv /\ [Next]_vars => AInv'
<1> SUFFICES ASSUME IInv, AInv, [Next]_vars PROVE AInv' OBVIOUS
<1> USE Branches DEF row, api, broker, threads, history
<1>1. ASSUME NEW r \in Runs, NEW j \in RunJobs[r], CreateRow(r, j) PROVE AInv'
  <2>1. \A i \in Jobs : status'[i] = IF i = j THEN "queued" ELSE status[i]
    BY <1>1 DEF CreateRow, IInv, TypeOK
  <2> QED BY <1>1, <2>1, StatusAInv DEF CreateRow
<1>2. ASSUME NEW r \in Runs, NEW j \in RunJobs[r], AttachTaskId(r, j) PROVE AInv'
  BY <1>2, ElsewhereAInv DEF AttachTaskId
<1>3. ASSUME NEW r \in Runs, Dispatch(r) PROVE AInv'
  <2>1. live[r] = {} BY <1>3 DEF Dispatch, IInv, RunInv, SubmitInv, ThreadInv
  <2>2. \A s \in Runs \ {r} : task'[s] = task[s] BY <1>3 DEF Dispatch, IInv, TypeOK
  <2> QED BY <1>3, <2>1, <2>2, ElsewhereAInv DEF Dispatch
<1>4. ASSUME NEW r \in Runs, SubmitFails(r) PROVE AInv' BY <1>4, ElsewhereAInv DEF SubmitFails
<1>5. ASSUME NEW r \in Runs, Deliver(r) \/ RedeliverLate(r) PROVE AInv'
  BY <1>5, StartAttemptAInv DEF Deliver, RedeliverLate
<1>6. ASSUME NEW r \in Runs, DropRevoked(r) PROVE AInv'
  <2>1. \A s \in Runs : task'[s] \in {task[s], "gone"} BY <1>6 DEF DropRevoked, IInv, TypeOK
  <2> QED BY <1>6, <2>1, ElsewhereAInv DEF DropRevoked
<1>7. ASSUME NEW r \in Runs, NEW n \in Attempts, WorkerLost(r, n) \/ Terminate(r, n) PROVE AInv'
  <2>1. \A s \in Runs \ {r} : task'[s] = task[s] BY <1>7 DEF WorkerLost, Terminate, IInv, TypeOK
  <2> QED BY <1>7, <2>1, KillAttemptAInv DEF WorkerLost, Terminate
<1>8. ASSUME NEW r \in Runs, NEW n \in Attempts, Acknowledge(r, n) PROVE AInv'
  <2>1. ASSUME NEW s \in Runs, s \notin late PROVE Sole(s)' /\ \A j \in RunJobs[s] : RowInv(j)'
    <3>1. Sole(s) /\ \A j \in RunJobs[s] : RowInv(j) BY <2>1 DEF AInv, AttemptInv
    <3>2. live'[s] \subseteq live[s] /\ task'[s] \in {task[s], "gone"}
      BY <1>8 DEF Acknowledge, IInv, TypeOK
    <3>3. Sole(s)' BY <1>8, <3>1, <3>2 DEF Acknowledge, Sole
    <3>4. \A j \in RunJobs[s] : RowInv(j)' BY <1>8, <3>1, RowStays DEF Acknowledge
    <3> QED BY <3>3, <3>4
  <2> QED BY <1>8, <2>1 DEF Acknowledge, AInv, AttemptInv
<1>9. ASSUME NEW j \in Jobs, CancelRead(j) \/ CancelRevoke(j) \/ GrowOld(j) PROVE AInv'
  BY <1>9, ElsewhereAInv DEF CancelRead, CancelRevoke, GrowOld
<1>10. ASSUME NEW j \in Jobs, CancelCommit(j) PROVE AInv'
  <2>1. \A i \in Jobs : /\ status'[i] = IF i = j THEN "cancelled" ELSE status[i]
                        /\ yields'[i] = IF i = j THEN yields[i] \cup {n \in Attempts : pc[i][n] \in {"store", "engine"}}
                                        ELSE yields[i]
    BY <1>10 DEF CancelCommit, IInv, TypeOK
  <2>2. UNCHANGED <<artifact, metrics, live, tries, task, threads, late>> BY <1>10 DEF CancelCommit
  <2>3. \A i \in Jobs : status'[i] = "completed" => status[i] = "completed" BY <2>1
  <2>4. \A i \in Jobs : status[i] = "cancelled" => status'[i] = "cancelled" BY <2>1
  <2>5. \A i \in Jobs : \A n \in yields'[i] :
          n \in yields[i] \/ (pc[i][n] \in {"store", "engine"} /\ status'[i] = "cancelled")
    BY <2>1
  <2> QED BY <2>2, <2>3, <2>4, <2>5, StatusAInv
<1>11. ASSUME NEW j \in Jobs, NEW n \in Attempts, Thread(j, n) \/ Raise(j, n) \/ FailureUnrecorded(j, n)
       PROVE  AInv'
  BY <1>11, ThreadStepsAInv
<1>12. CASE ApiCrash BY <1>12, ApiCrashAInv
<1>13. CASE ApiStart
  <2>1. \A j \in Jobs : status'[j] = IF status[j] \in Active /\ old[j] THEN "failed" ELSE status[j]
    BY <1>13 DEF ApiStart, IInv, TypeOK
  <2> QED BY <1>13, <2>1, StatusAInv DEF ApiStart, Active
<1>14. CASE Rest \/ UNCHANGED vars BY <1>14, ElsewhereAInv DEF Rest, vars
<1> QED
  BY <1>1, <1>2, <1>3, <1>4, <1>5, <1>6, <1>7, <1>8, <1>9, <1>10, <1>11, <1>12, <1>13, <1>14 DEF Next

LEMMA AInvAlways == Spec => [](IInv /\ AInv)
BY InitAInv, NextAInv, IInvAlways, PTL DEF Spec

\* A completed row pairs metrics and artifact of one attempt, for any runs,
\* branches, lost workers and restarts, unless two attempts ran side by side.
THEOREM CompletedRowsAreOneAttempt == Spec => []CompletedRowIsOneAttempt
<1>1. AInv => CompletedRowIsOneAttempt
  BY DEF AInv, AttemptInv, RowInv, OneAttempt, CompletedRowIsOneAttempt
<1> QED BY <1>1, AInvAlways, PTL

\* A thread that was in the engine when its row was cancelled writes no other
\* status, whatever the broker, the API and the other threads do, unless the
\* task was redelivered beside it.
THEOREM CancelsStick == Spec => CancelMidRunSticks
<1> DEFINE Sticks == \A r \in Runs \ late : \A j \in RunJobs[r] : \A n \in yields[j] :
              status'[j] # status[j] => pc'[j][n] = pc[j][n] \/ status'[j] = "cancelled"
<1>1. ASSUME IInv, AInv, Next PROVE Sticks
  <2> SUFFICES ASSUME NEW r \in Runs \ late, NEW j \in RunJobs[r], NEW n \in yields[j],
                      status'[j] # status[j], status'[j] # "cancelled"
               PROVE  pc'[j][n] = pc[j][n]
    OBVIOUS
  <2> USE Branches DEF row, api, broker, threads, history
  <2>1. j \in Jobs /\ n \in Attempts BY <1>1 DEF IInv, TypeOK
  <2>2. pc[j][n] \in Ended \cup {"store", "engine", "except"}
    BY <1>1, <2>1 DEF AInv, AttemptInv, RowInv, Progress
  <2>3. ASSUME NEW i \in Jobs, NEW m \in Attempts, Thread(i, m) PROVE pc'[j][n] = pc[j][n]
    <3>1. CASE SetRunning(i, m) \/ WriteSuccess(i, m) \/ WriteFailure(i, m)
      <4>1. i # j \/ m # n BY <2>2, <3>1 DEF SetRunning, WriteSuccess, WriteFailure, At, Ended
      <4> QED BY <1>1, <2>1, <2>3, <3>1, <4>1 DEF SetRunning, WriteSuccess, WriteFailure, Goto, IInv, TypeOK
    <3>2. CASE status' = status BY <3>2
    <3> QED BY <2>3, <3>1, <3>2 DEF Thread, FindJob, StoreArtifactUri, RefreshStatus, HandleException
  <2>4. ASSUME NEW i \in Jobs, CancelRead(i) \/ CancelRevoke(i) \/ CancelCommit(i) \/ GrowOld(i)
        PROVE  pc' = pc
    BY <2>4 DEF CancelRead, CancelRevoke, CancelCommit, GrowOld
  <2>5. ASSUME NEW s \in Runs, NEW m \in Attempts, WorkerLost(s, m) \/ Terminate(s, m) \/ Acknowledge(s, m)
        PROVE  FALSE
    BY <2>5 DEF WorkerLost, Terminate, Acknowledge
  <2>6. ASSUME NEW s \in Runs,
               \/ Dispatch(s) \/ SubmitFails(s) \/ Deliver(s) \/ RedeliverLate(s) \/ DropRevoked(s)
               \/ \E i \in RunJobs[s] : CreateRow(s, i) \/ AttachTaskId(s, i)
        PROVE  pc' = pc
    BY <2>6 DEF Dispatch, SubmitFails, Deliver, RedeliverLate, DropRevoked, StartAttempt, CreateRow, AttachTaskId
  <2>7. CASE ApiStart BY <2>7 DEF ApiStart
  <2>8. CASE ApiCrash \/ Rest BY <2>8 DEF ApiCrash, Rest, vars
  <2>9. ASSUME NEW i \in Jobs, NEW m \in Attempts, Raise(i, m) \/ FailureUnrecorded(i, m) PROVE FALSE
    BY <2>9 DEF Raise, FailureUnrecorded
  <2> QED BY <1>1, <2>3, <2>4, <2>5, <2>6, <2>7, <2>8, <2>9 DEF Next
<1>2. IInv /\ AInv /\ [Next]_vars => [Sticks]_vars BY <1>1
<1> QED BY <1>2, AInvAlways, PTL DEF Spec, CancelMidRunSticks
=============================================================================
