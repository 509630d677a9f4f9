---------------------------- MODULE SubmitDedupe ----------------------------
(***************************************************************************)
(* Submission of a run and its deduplication: _submit_branch_jobs calls    *)
(* _submit_or_dedupe_branch_job for one branch after the other, then the   *)
(* created rows are dispatched and get their task id.                      *)
(*                                                                         *)
(* Within a process, coroutines interleave only where they wait: for a     *)
(* submit lock or for a database statement.  The guard of the lock table   *)
(* is never held across a wait, so taking or evicting a lock is part of    *)
(* the step around it.  asyncio.Lock serves its waiters in order: a lock   *)
(* object is the queue of its users, the first of them holds it.           *)
(*                                                                         *)
(* find_active_job selects FOR UPDATE SKIP LOCKED: on PostgreSQL the rows  *)
(* it returns stay locked until the session commits or closes, and rows    *)
(* another session has locked are skipped; SQLite ignores the clause.      *)
(***************************************************************************)
EXTENDS Naturals, Sequences, FiniteSets

CONSTANTS
  Requests,    \* requests for the same dataset and terminal node
  Workers,     \* uvicorn worker processes
  WorkerOf,    \* the worker that serves a request
  Branches,    \* how many branches each request submits, in order
  Databases,   \* the databases the deployment may use
  Environment, \* "leave": jobs may end early, "createFails": create_job may raise
  NoRequest

ASSUME RequestsAssumption ==
  /\ WorkerOf \in [Requests -> Workers]
  /\ Branches \in [Requests -> Nat \ {0}]
  /\ Databases \subseteq {"SQLite", "PostgreSQL"}
  /\ Environment \subseteq {"leave", "createFails"}
  /\ NoRequest \notin Requests

VARIABLES
  database, \* the database in use, never changed
  pc,       \* where each request is
  branch,   \* the branch it submits
  locks,    \* _submit_locks of each worker: lock object per branch key
  ref,      \* the lock object a request took from it
  queue,    \* users of a lock object; the first one holds it
  row,      \* job created by a request for a branch
  rowLock,  \* the session that has locked that row
  answer,   \* the job id a request returns for a branch: its creator
  sent,     \* requests whose created jobs have been dispatched
  todo      \* created rows the attach loop has not been through

vars == <<database, pc, branch, locks, ref, queue, row, rowLock, answer, sent, todo>>

Branch == UNION {1 .. Branches[q] : q \in Requests}
\* A lock object and a job id are both named after the request that made them.
Lock == Requests \cup {NoRequest}

PostgreSQL == database = "PostgreSQL"

TypeOK ==
  /\ database \in Databases
  /\ pc \in [Requests -> {"start", "find", "allocate", "create", "dispatch", "attach",
                          "commit", "end", "done", "failed"}]
  /\ branch \in [Requests -> Nat]
  /\ \A q \in Requests : branch[q] \in 1 .. Branches[q] + 1
  /\ locks \in [Workers -> [Branch -> Lock]]
  /\ ref \in [Requests -> Lock]
  /\ queue \in [Branch -> [Requests -> Seq(Requests)]]
  /\ row \in [Requests -> [Branch -> {"none", "active", "ended"}]]
  /\ rowLock \in [Requests -> [Branch -> Lock]]
  /\ answer \in [Requests -> [Branch -> Lock]]
  /\ sent \subseteq Requests
  /\ todo \in [Requests -> SUBSET Branch]

Init ==
  /\ database \in Databases
  /\ pc = [q \in Requests |-> "start"]
  /\ branch = [q \in Requests |-> 1]
  /\ locks = [w \in Workers |-> [b \in Branch |-> NoRequest]]
  /\ ref = [q \in Requests |-> NoRequest]
  /\ queue = [b \in Branch |-> [l \in Requests |-> <<>>]]
  /\ row = [q \in Requests |-> [b \in Branch |-> "none"]]
  /\ rowLock = [q \in Requests |-> [b \in Branch |-> NoRequest]]
  /\ answer = [q \in Requests |-> [b \in Branch |-> NoRequest]]
  /\ sent = {}
  /\ todo = [q \in Requests |-> {}]

At(q, step) == pc[q] = step
Goto(q, step) == pc' = [pc EXCEPT ![q] = step]

\* Mutant of Holds: the lock is not waited for.
HoldsAnyway(q) == TRUE

\* q holds the lock object it waits for.
Holds(q) == Head(queue[branch[q]][ref[q]]) = q

\* The row locks of a session end with its transaction.
Unlocked(q) == [p \in Requests |-> [b \in Branch |->
                  IF rowLock[p][b] = q THEN NoRequest ELSE rowLock[p][b]]]

\* Rows the query of find_active_job returns to q: active, recent, and on
\* PostgreSQL not locked by another session.
Visible(q) ==
  {pb \in Requests \X Branch :
     /\ row[pb[1]][pb[2]] = "active"
     /\ PostgreSQL => rowLock[pb[1]][pb[2]] \in {q, NoRequest}}

\* Mutant of ReleaseAndEvict: the lock object stays in the table.
ReleaseOnly(q) ==
  /\ queue' = [queue EXCEPT ![branch[q]][ref[q]] = Tail(@)]
  /\ UNCHANGED locks

\* Leave the critical section and evict the lock object, whoever waits for it.
ReleaseAndEvict(q) ==
  /\ queue' = [queue EXCEPT ![branch[q]][ref[q]] = Tail(@)]
  /\ locks' = [locks EXCEPT ![WorkerOf[q]][branch[q]] = NoRequest]

NextBranch(q) ==
  /\ branch' = [branch EXCEPT ![q] = @ + 1]
  /\ Goto(q, IF branch[q] = Branches[q] THEN "dispatch" ELSE "start")

-----------------------------------------------------------------------------
\* _get_submit_lock: reuse the lock object of the key or make one; queue for it.
TakeLock(q) ==
  /\ At(q, "start")
  /\ LET old == locks[WorkerOf[q]][branch[q]]
         l == IF old = NoRequest THEN q ELSE old
     IN /\ locks' = [locks EXCEPT ![WorkerOf[q]][branch[q]] = l]
        /\ ref' = [ref EXCEPT ![q] = l]
        /\ queue' = [queue EXCEPT ![branch[q]][l] = Append(@, q)]
  /\ Goto(q, "find")
  /\ UNCHANGED <<database, branch, row, rowLock, answer, sent, todo>>

\* find_active_job locks every row it returns, those of other branches too;
\* the branch index is compared afterwards.
LockVisible(q) ==
  rowLock' = [p \in Requests |-> [b \in Branch |->
                IF PostgreSQL /\ <<p, b>> \in Visible(q) THEN q ELSE rowLock[p][b]]]

FindDuplicate(q) ==
  /\ At(q, "find") /\ Holds(q)
  /\ \E p \in Requests :
       /\ <<p, branch[q]>> \in Visible(q)
       /\ answer' = [answer EXCEPT ![q][branch[q]] = p]
  /\ LockVisible(q)
  /\ ReleaseAndEvict(q)
  /\ NextBranch(q)
  /\ UNCHANGED <<database, ref, row, sent, todo>>

\* No duplicate: a version is allocated next, except for a preview.
FindNothing(q) ==
  /\ At(q, "find") /\ Holds(q)
  /\ \A p \in Requests : <<p, branch[q]>> \notin Visible(q)
  /\ LockVisible(q)
  /\ \E step \in {"allocate", "create"} : Goto(q, step)
  /\ UNCHANGED <<database, branch, locks, ref, queue, row, answer, sent, todo>>

\* get_next_version commits: the row locks of the session end before the row is
\* there to be found.
AllocateVersion(q) ==
  /\ At(q, "allocate")
  /\ rowLock' = Unlocked(q)
  /\ Goto(q, "create")
  /\ UNCHANGED <<database, branch, locks, ref, queue, row, answer, sent, todo>>

\* create_job commits the row.
CreateJob(q) ==
  /\ At(q, "create")
  /\ row' = [row EXCEPT ![q][branch[q]] = "active"]
  /\ answer' = [answer EXCEPT ![q][branch[q]] = q]
  /\ rowLock' = Unlocked(q)
  /\ ReleaseAndEvict(q)
  /\ NextBranch(q)
  /\ UNCHANGED <<database, ref, sent, todo>>

\* create_job raises: the lock is released but stays in the table, the
\* request ends and nothing it created is dispatched.
CreateFails(q) ==
  /\ "createFails" \in Environment
  /\ pc[q] \in {"allocate", "create"}
  /\ queue' = [queue EXCEPT ![branch[q]][ref[q]] = Tail(@)]
  /\ rowLock' = Unlocked(q)
  /\ Goto(q, "failed")
  /\ UNCHANGED <<database, branch, locks, ref, row, answer, sent, todo>>

\* Mutant of Dispatch: a request that shares any job dispatches nothing.
DispatchIfAllNew(q) ==
  /\ At(q, "dispatch")
  /\ LET created == {b \in Branch : answer[q][b] = q}
     IN /\ todo' = [todo EXCEPT ![q] = created]
        /\ IF Cardinality(created) # Branches[q] THEN sent' = sent /\ Goto(q, "end")
                               ELSE sent' = sent \cup {q} /\ Goto(q, "attach")
  /\ UNCHANGED <<database, branch, locks, ref, queue, row, rowLock, answer>>

\* _dispatch_branch_tasks: one batch task for the created rows, if any.
Dispatch(q) ==
  /\ At(q, "dispatch")
  /\ LET created == {b \in Branch : answer[q][b] = q}
     IN /\ todo' = [todo EXCEPT ![q] = created]
        /\ IF created = {} THEN sent' = sent /\ Goto(q, "end")
                           ELSE sent' = sent \cup {q} /\ Goto(q, "attach")
  /\ UNCHANGED <<database, branch, locks, ref, queue, row, rowLock, answer>>

\* Mutant of AttachUpdate: the loop never advances.
AttachUpdateAgain(q, b) ==
  /\ At(q, "attach")
  /\ b \in todo[q] /\ \A c \in todo[q] : b <= c
  /\ PostgreSQL => rowLock[q][b] \in {q, NoRequest}
  /\ rowLock' = IF PostgreSQL THEN [rowLock EXCEPT ![q][b] = q] ELSE rowLock
  /\ Goto(q, "commit")
  /\ UNCHANGED <<database, branch, locks, ref, queue, row, answer, sent, todo>>

\* attach_celery_task_id updates the created rows in order, one transaction
\* each: it waits for the row and holds it until the commit.
AttachUpdate(q, b) ==
  /\ At(q, "attach")
  /\ b \in todo[q] /\ \A c \in todo[q] : b <= c
  /\ PostgreSQL => rowLock[q][b] \in {q, NoRequest}
  /\ rowLock' = IF PostgreSQL THEN [rowLock EXCEPT ![q][b] = q] ELSE rowLock
  /\ todo' = [todo EXCEPT ![q] = @ \ {b}]
  /\ Goto(q, "commit")
  /\ UNCHANGED <<database, branch, locks, ref, queue, row, answer, sent>>

AttachCommit(q) ==
  /\ At(q, "commit")
  /\ rowLock' = Unlocked(q)
  /\ Goto(q, IF todo[q] = {} THEN "end" ELSE "attach")
  /\ UNCHANGED <<database, branch, locks, ref, queue, row, answer, sent, todo>>

\* The session is closed after the response: its transaction is rolled back.
CloseSession(q) ==
  /\ At(q, "end")
  /\ rowLock' = Unlocked(q)
  /\ Goto(q, "done")
  /\ UNCHANGED <<database, branch, locks, ref, queue, row, answer, sent, todo>>

\* The job ends, or is no longer within the idempotency window.
JobLeaves(q, b) ==
  /\ "leave" \in Environment
  /\ row[q][b] = "active"
  /\ row' = [row EXCEPT ![q][b] = "ended"]
  /\ UNCHANGED <<database, pc, branch, locks, ref, queue, rowLock, answer, sent, todo>>

Step(q) ==
  \/ TakeLock(q) \/ FindDuplicate(q) \/ FindNothing(q) \/ AllocateVersion(q) \/ CreateJob(q)
  \/ Dispatch(q)
  \/ (\E b \in Branch : AttachUpdate(q, b)) \/ AttachCommit(q) \/ CloseSession(q)

Rest == (\A q \in Requests : pc[q] \in {"done", "failed"}) /\ UNCHANGED vars

Next ==
  \/ \E q \in Requests : Step(q) \/ CreateFails(q)
  \/ \E q \in Requests, b \in Branch : JobLeaves(q, b)
  \/ Rest

Spec == Init /\ [][Next]_vars

\* The event loop runs every coroutine that can run; the database answers.
FairSpec == Spec /\ \A q \in Requests : WF_vars(Step(q))

-----------------------------------------------------------------------------

\* Where there are no row locks to skip and one worker, so that the submit lock
\* alone makes check and create one step, this holds unless the evicted lock of
\* a waiter lets two requests in: that takes a job of the branch that has ended,
\* or could not be created, while the waiter was in the queue.
NoDuplicateOnSQLite ==
  ~PostgreSQL => \A p, q \in Requests : \A b \in Branch :
    p # q /\ row[p][b] = "active" /\ row[q][b] = "active"
      => \E o \in Requests : row[o][b] = "ended" \/ (pc[o] = "failed" /\ branch[o] = b)

\* A client that was given the id of another request's job is not left with a
\* job nobody runs: the creator has dispatched it, is still on its way there (and
\* gets there, EveryRequestEnds), or failed on a later branch.
SharedJobIsDispatched ==
  \A p, q \in Requests : \A b \in Branch :
    answer[q][b] = p => \/ p \in sent
                        \/ pc[p] \in {"start", "find", "allocate", "create", "dispatch"}
                        \/ pc[p] = "failed"

\* Every request ends: no request waits for ever for a submit lock or a row.
EveryRequestEnds == <>(\A q \in Requests : pc[q] \in {"done", "failed"})

\* When no submission is in progress the lock table is empty again, whatever
\* lock objects were evicted while others waited for them ("the eviction only
\* prevents the dict from growing unbounded"); only a creation that failed
\* leaves its lock object behind.
LockTableDrains ==
  (\A q \in Requests : pc[q] \in {"dispatch", "attach", "commit", "end", "done", "failed"})
    => \A w \in Workers, b \in Branch : locks[w][b] # NoRequest =>
         \E q \in Requests : pc[q] = "failed" /\ branch[q] = b /\ WorkerOf[q] = w
=============================================================================
