------------------------- MODULE SubmitDedupeProofs -------------------------
(***************************************************************************)
(* What submission promises for any number of requests and branches.  The  *)
(* invariant follows each request through its critical section: it is in   *)
(* the queue of the lock object it took, at its head once it has passed    *)
(* the check, and the lock table names only objects of such requests.      *)
(***************************************************************************)
EXTENDS SubmitDedupe, TLAPS

Inside == {"find", "allocate", "create"}
MyQueue(q) == queue[branch[q]][ref[q]]
InQueue(q) == \E i \in 1 .. Len(MyQueue(q)) : MyQueue(q)[i] = q

\* A request that is not through works on one of its branches.
BranchInv(q) ==
  /\ pc[q] \in {"start"} \cup Inside => branch[q] \in 1 .. Branches[q]
  /\ pc[q] \in Inside => ref[q] \in Requests

\* In the critical section it is queued, and after the check it holds the lock.
QueueInv(q) ==
  /\ pc[q] \in Inside => InQueue(q)
  /\ pc[q] \in {"allocate", "create"} => Holds(q)

\* Every entry of the lock table is some request's in its critical section, or
\* was left behind by one that failed there.
TableInv ==
  \A w \in Workers, b \in Branch : locks[w][b] # NoRequest =>
    \E q \in Requests : WorkerOf[q] = w /\ branch[q] = b /\ pc[q] \in Inside \cup {"failed"}

\* A row of a request is on a branch it is through with, and it answers with it;
\* whoever answers with a job answers with a row.
AnswerInv(q) == \A b \in Branch :
  /\ row[q][b] # "none" => answer[q][b] = q /\ b < branch[q]
  /\ answer[q][b] # NoRequest => row[answer[q][b]][b] # "none"

\* A request that is through has dispatched what it created.
SentInv(q) ==
  pc[q] \in {"attach", "commit", "end", "done"} /\ q \notin sent => \A b \in Branch : answer[q][b] # q

RequestInv(q) == BranchInv(q) /\ QueueInv(q) /\ AnswerInv(q) /\ SentInv(q)

IInv == TypeOK /\ TableInv /\ \A q \in Requests : RequestInv(q)

-----------------------------------------------------------------------------
(* Branches and queues.                                                    *)

LEMMA BranchFacts ==
  /\ \A q \in Requests : 1 .. Branches[q] \subseteq Branch
  /\ Branch \subseteq Nat
  /\ \A q \in Requests : Branches[q] \in Nat \ {0} /\ WorkerOf[q] \in Workers
  /\ NoRequest \notin Requests
<1>1. ASSUME NEW b \in Branch PROVE b \in Nat
  <2>1. PICK q \in Requests : b \in 1 .. Branches[q] BY DEF Branch
  <2> QED BY <2>1, RequestsAssumption
<1> QED BY <1>1, RequestsAssumption DEF Branch

\* Who joins a queue is in it, nobody leaves it, and its head stays.
LEMMA JoinQueue ==
  ASSUME NEW s \in Seq(Requests), NEW q \in Requests
  PROVE  /\ Append(s, q) \in Seq(Requests)
         /\ \E i \in 1 .. Len(Append(s, q)) : Append(s, q)[i] = q
         /\ \A p : (\E i \in 1 .. Len(s) : s[i] = p) =>
              /\ \E i \in 1 .. Len(Append(s, q)) : Append(s, q)[i] = p
              /\ Head(Append(s, q)) = Head(s)
<1>1. Len(Append(s, q)) = Len(s) + 1 /\ Append(s, q)[Len(s) + 1] = q OBVIOUS
<1>2. \A i \in 1 .. Len(s) : Append(s, q)[i] = s[i] OBVIOUS
<1>3. Len(s) \in Nat OBVIOUS
<1>4. ASSUME NEW p, NEW i \in 1 .. Len(s), s[i] = p
      PROVE  (\E k \in 1 .. Len(Append(s, q)) : Append(s, q)[k] = p) /\ Head(Append(s, q)) = Head(s)
  <2>1. i \in 1 .. Len(Append(s, q)) BY <1>1, <1>3
  <2>2. Append(s, q)[i] = p BY <1>2, <1>4
  <2>3. 1 \in 1 .. Len(s) BY <1>3
  <2> QED BY <1>1, <1>2, <2>1, <2>2, <2>3
<1> QED BY <1>1, <1>3, <1>4

\* When the head leaves, the others stay.
LEMMA LeaveQueue ==
  ASSUME NEW s \in Seq(Requests), s # << >>
  PROVE  /\ Tail(s) \in Seq(Requests)
         /\ \A p : p # Head(s) /\ (\E i \in 1 .. Len(s) : s[i] = p) =>
              \E i \in 1 .. Len(Tail(s)) : Tail(s)[i] = p
<1>1. ASSUME NEW p, p # Head(s), NEW i \in 1 .. Len(s), s[i] = p
      PROVE  \E k \in 1 .. Len(Tail(s)) : Tail(s)[k] = p
  <2>1. i # 1 BY <1>1
  <2>2. i - 1 \in 1 .. Len(Tail(s)) /\ Tail(s)[i - 1] = s[i] BY <2>1
  <2> QED BY <1>1, <2>2
<1> QED BY <1>1

LEMMA InitIInv == Init => IInv
BY BranchFacts, RequestsAssumption
DEF Init, IInv, TypeOK, TableInv, RequestInv, BranchInv, QueueInv, AnswerInv, SentInv, Inside, Lock

-----------------------------------------------------------------------------
(* Types.                                                                  *)

\* A request in its critical section has a queue to leave.
LEMMA MyQueueType ==
  ASSUME TypeOK, NEW q \in Requests, pc[q] \in Inside, BranchInv(q), QueueInv(q)
  PROVE  /\ branch[q] \in Branch /\ ref[q] \in Requests
         /\ MyQueue(q) \in Seq(Requests) /\ MyQueue(q) # << >>
<1>1. branch[q] \in Branch /\ ref[q] \in Requests BY BranchFacts DEF BranchInv
<1>2. MyQueue(q) \in Seq(Requests) BY <1>1 DEF MyQueue, TypeOK
<1>3. MyQueue(q) # << >> BY <1>2 DEF QueueInv, InQueue
<1> QED BY <1>1, <1>2, <1>3

\* Leaving it keeps the types.
LEMMA ReleaseTypes ==
  ASSUME TypeOK, NEW q \in Requests, pc[q] \in Inside, BranchInv(q), QueueInv(q)
  PROVE  /\ [queue EXCEPT ![branch[q]][ref[q]] = Tail(@)] \in [Branch -> [Requests -> Seq(Requests)]]
         /\ [locks EXCEPT ![WorkerOf[q]][branch[q]] = NoRequest] \in [Workers -> [Branch -> Lock]]
<1>1. Tail(MyQueue(q)) \in Seq(Requests) BY MyQueueType, LeaveQueue
<1>2. branch[q] \in Branch /\ ref[q] \in Requests BY MyQueueType
<1> QED BY <1>1, <1>2, BranchFacts DEF TypeOK, MyQueue, Lock

\* The row locks of other sessions and the closed one's.
LEMMA UnlockedTypes ==
  ASSUME TypeOK, NEW q PROVE Unlocked(q) \in [Requests -> [Branch -> Lock]]
BY DEF TypeOK, Unlocked, Lock

LEMMA NextBranchTypes ==
  ASSUME TypeOK, NEW q \in Requests, branch[q] \in 1 .. Branches[q], NextBranch(q)
  PROVE  /\ branch' \in [Requests -> Nat] /\ \A p \in Requests : branch'[p] \in 1 .. Branches[p] + 1
         /\ pc' = [pc EXCEPT ![q] = IF branch[q] = Branches[q] THEN "dispatch" ELSE "start"]
         /\ branch'[q] = branch[q] + 1 /\ \A p \in Requests \ {q} : branch'[p] = branch[p]
         /\ pc'[q] = "start" => branch'[q] \in 1 .. Branches[q]
<1>1. branch' = [branch EXCEPT ![q] = branch[q] + 1] BY DEF NextBranch
<1>2. branch[q] \in Nat /\ Branches[q] \in Nat BY BranchFacts DEF TypeOK
<1>3. branch' \in [Requests -> Nat] /\ branch'[q] = branch[q] + 1
  BY <1>1, <1>2 DEF TypeOK
<1>4. \A p \in Requests \ {q} : branch'[p] = branch[p] BY <1>1 DEF TypeOK
<1>5. branch'[q] \in 1 .. Branches[q] + 1 BY <1>2, <1>3
<1>6. pc' = [pc EXCEPT ![q] = IF branch[q] = Branches[q] THEN "dispatch" ELSE "start"] BY DEF NextBranch, Goto
<1>7. pc'[q] = "start" => branch[q] # Branches[q] BY <1>6 DEF TypeOK
<1>8. \A p \in Requests : branch'[p] \in 1 .. Branches[p] + 1 BY <1>4, <1>5 DEF TypeOK
<1> QED BY <1>2, <1>3, <1>4, <1>6, <1>7, <1>8

LEMMA StepTypeOK ==
  ASSUME IInv, [Next]_vars PROVE TypeOK'
<1> USE BranchFacts DEF IInv, RequestInv, TypeOK, Goto, At, Inside, Lock
<1>1. ASSUME NEW q \in Requests, TakeLock(q) PROVE TypeOK'
  <2> DEFINE old == locks[WorkerOf[q]][branch[q]]
             l == IF old = NoRequest THEN q ELSE old
  <2>1. branch[q] \in Branch BY <1>1 DEF TakeLock, BranchInv
  <2>2. l \in Requests BY <2>1
  <2>3. queue' \in [Branch -> [Requests -> Seq(Requests)]] BY <1>1, <2>1, <2>2, JoinQueue DEF TakeLock
  <2>4. locks' \in [Workers -> [Branch -> Lock]] BY <1>1, <2>1, <2>2 DEF TakeLock
  <2> QED BY <1>1, <2>2, <2>3, <2>4 DEF TakeLock
<1>2. ASSUME NEW q \in Requests, FindDuplicate(q) PROVE TypeOK'
  <2>1. branch[q] \in 1 .. Branches[q] /\ branch[q] \in Branch BY <1>2 DEF FindDuplicate, BranchInv
  <2>2. /\ queue' \in [Branch -> [Requests -> Seq(Requests)]]
        /\ locks' \in [Workers -> [Branch -> Lock]]
    BY <1>2, ReleaseTypes DEF FindDuplicate, ReleaseAndEvict
  <2>3. /\ branch' \in [Requests -> Nat] /\ \A p \in Requests : branch'[p] \in 1 .. Branches[p] + 1
        /\ pc' = [pc EXCEPT ![q] = IF branch[q] = Branches[q] THEN "dispatch" ELSE "start"]
    BY <1>2, <2>1, NextBranchTypes DEF FindDuplicate
  <2>4. answer' \in [Requests -> [Branch -> Lock]] BY <1>2, <2>1 DEF FindDuplicate
  <2>5. rowLock' \in [Requests -> [Branch -> Lock]] BY <1>2 DEF FindDuplicate, LockVisible
  <2> QED BY <1>2, <2>2, <2>3, <2>4, <2>5 DEF FindDuplicate
<1>3. ASSUME NEW q \in Requests, FindNothing(q) PROVE TypeOK'
  <2>1. rowLock' \in [Requests -> [Branch -> Lock]] BY <1>3 DEF FindNothing, LockVisible
  <2> QED BY <1>3, <2>1 DEF FindNothing
<1>4. ASSUME NEW q \in Requests, AllocateVersion(q) \/ AttachCommit(q) \/ CloseSession(q) PROVE TypeOK'
  <2>1. CASE AllocateVersion(q) BY <2>1, UnlockedTypes DEF AllocateVersion
  <2>2. CASE AttachCommit(q) BY <2>2, UnlockedTypes DEF AttachCommit
  <2>3. CASE CloseSession(q) BY <2>3, UnlockedTypes DEF CloseSession
  <2> QED BY <1>4, <2>1, <2>2, <2>3
<1>5. ASSUME NEW q \in Requests, CreateJob(q) PROVE TypeOK'
  <2>1. branch[q] \in 1 .. Branches[q] /\ branch[q] \in Branch BY <1>5 DEF CreateJob, BranchInv
  <2>2. /\ queue' \in [Branch -> [Requests -> Seq(Requests)]]
        /\ locks' \in [Workers -> [Branch -> Lock]]
    BY <1>5, ReleaseTypes DEF CreateJob, ReleaseAndEvict
  <2>3. /\ branch' \in [Requests -> Nat] /\ \A p \in Requests : branch'[p] \in 1 .. Branches[p] + 1
        /\ pc' = [pc EXCEPT ![q] = IF branch[q] = Branches[q] THEN "dispatch" ELSE "start"]
    BY <1>5, <2>1, NextBranchTypes DEF CreateJob
  <2>4. answer' \in [Requests -> [Branch -> Lock]] BY <1>5, <2>1 DEF CreateJob
  <2>5. row' \in [Requests -> [Branch -> {"none", "active", "ended"}]] BY <1>5, <2>1 DEF CreateJob
  <2> QED BY <1>5, <2>2, <2>3, <2>4, <2>5, UnlockedTypes DEF CreateJob
<1>6. ASSUME NEW q \in Requests, CreateFails(q) PROVE TypeOK'
  <2>1. queue' \in [Branch -> [Requests -> Seq(Requests)]] BY <1>6, ReleaseTypes DEF CreateFails
  <2> QED BY <1>6, <2>1, UnlockedTypes DEF CreateFails
<1>7. ASSUME NEW q \in Requests, Dispatch(q) PROVE TypeOK'
  <2>1. todo' \in [Requests -> SUBSET Branch] BY <1>7 DEF Dispatch
  <2>2. pc' \in [Requests -> {"end", "attach"} \cup {pc[p] : p \in Requests}] BY <1>7 DEF Dispatch
  <2>3. sent' \subseteq Requests BY <1>7 DEF Dispatch
  <2> QED BY <1>7, <2>1, <2>2, <2>3 DEF Dispatch
<1>8. ASSUME NEW q \in Requests, NEW b \in Branch, AttachUpdate(q, b) PROVE TypeOK' BY <1>8 DEF AttachUpdate
<1>9. ASSUME NEW q \in Requests, NEW b \in Branch, JobLeaves(q, b) PROVE TypeOK' BY <1>9 DEF JobLeaves
<1>10. CASE UNCHANGED vars BY <1>10 DEF vars
<1> QED BY <1>1, <1>2, <1>3, <1>4, <1>5, <1>6, <1>7, <1>8, <1>9, <1>10 DEF Next, Step, Rest

-----------------------------------------------------------------------------
(* A step of one request, seen from another.                               *)

Same(p) == pc'[p] = pc[p] /\ branch'[p] = branch[p] /\ ref'[p] = ref[p]
Through(p) == pc[p] \notin Inside

\* Rows never go away, and p gets none.
RowsStay(p) == \A r \in Requests, b \in Branch :
  /\ row[r][b] # "none" => row'[r][b] # "none"
  /\ row[p][b] = "none" => row'[p][b] = "none"

LEMMA OtherRequest ==
  ASSUME IInv, TypeOK', NEW p \in Requests, Same(p), QueueInv(p)', RowsStay(p),
         answer'[p] = answer[p], p \in sent' <=> p \in sent
  PROVE  RequestInv(p)'
<1> USE DEF IInv, RequestInv, Same
<1>1. BranchInv(p)' BY DEF BranchInv
<1>2. SentInv(p)' BY DEF SentInv
<1>3. AnswerInv(p)' BY DEF AnswerInv, RowsStay, TypeOK, Lock
<1> QED BY <1>1, <1>2, <1>3

\* It keeps its place in the queues if they do not change ...
LEMMA QueuesStay ==
  ASSUME IInv, NEW p \in Requests, Same(p), queue' = queue PROVE QueueInv(p)'
BY DEF IInv, RequestInv, Same, QueueInv, InQueue, Holds, MyQueue

\* ... if another request joins one ...
LEMMA QueuesGrow ==
  ASSUME IInv, NEW p \in Requests, Same(p), NEW q \in Requests, NEW b \in Branch, NEW l \in Requests,
         queue' = [queue EXCEPT ![b][l] = Append(@, q)]
  PROVE  QueueInv(p)'
<1> USE DEF IInv, RequestInv, Same
<1>1. CASE pc[p] \in Inside
  <2>1. branch[p] \in Branch /\ ref[p] \in Requests BY <1>1, BranchFacts DEF BranchInv
  <2>2. MyQueue(p) \in Seq(Requests) BY <2>1 DEF TypeOK, MyQueue
  <2>3. MyQueue(p)' = MyQueue(p) \/ MyQueue(p)' = Append(MyQueue(p), q) BY <2>1 DEF TypeOK, MyQueue
  <2>4. InQueue(p) BY <1>1 DEF QueueInv
  <2>5. CASE MyQueue(p)' = MyQueue(p) BY <1>1, <2>4, <2>5 DEF QueueInv, Holds, InQueue, MyQueue
  <2>6. CASE MyQueue(p)' = Append(MyQueue(p), q)
    <3>1. \E i \in 1 .. Len(MyQueue(p)) : MyQueue(p)[i] = p BY <2>4 DEF InQueue
    <3>2. /\ \E i \in 1 .. Len(Append(MyQueue(p), q)) : Append(MyQueue(p), q)[i] = p
          /\ Head(Append(MyQueue(p), q)) = Head(MyQueue(p))
      BY <2>2, <3>1, JoinQueue
    <3>3. InQueue(p)' BY <2>6, <3>2 DEF InQueue
    <3> QED BY <2>6, <3>2, <3>3 DEF QueueInv, Holds, MyQueue
  <2> QED BY <2>3, <2>5, <2>6
<1>2. CASE pc[p] \notin Inside BY <1>2 DEF QueueInv, Inside
<1> QED BY <1>1, <1>2

\* ... and if another one that holds the lock leaves.
LEMMA QueuesShrink ==
  ASSUME IInv, NEW p \in Requests, Same(p), NEW q \in Requests \ {p}, pc[q] \in Inside, Holds(q),
         queue' = [queue EXCEPT ![branch[q]][ref[q]] = Tail(@)]
  PROVE  QueueInv(p)'
<1> USE DEF IInv, RequestInv, Same
<1>1. CASE pc[p] \in Inside
  <2>1. branch[p] \in Branch /\ ref[p] \in Requests BY <1>1, BranchFacts DEF BranchInv
  <2>2. InQueue(p) BY <1>1 DEF QueueInv
  <2>3. MyQueue(q) \in Seq(Requests) /\ MyQueue(q) # << >> /\ branch[q] \in Branch /\ ref[q] \in Requests
    BY MyQueueType
  <2>4. CASE branch[p] = branch[q] /\ ref[p] = ref[q]
    <3>1. MyQueue(p) = MyQueue(q) /\ MyQueue(p)' = Tail(MyQueue(q)) BY <2>1, <2>4 DEF TypeOK, MyQueue
    <3>2. Head(MyQueue(q)) # p BY DEF Holds, MyQueue
    <3>3. \E i \in 1 .. Len(MyQueue(q)) : MyQueue(q)[i] = p BY <2>2, <3>1 DEF InQueue
    <3>4. \E i \in 1 .. Len(Tail(MyQueue(q))) : Tail(MyQueue(q))[i] = p BY <2>3, <3>2, <3>3, LeaveQueue
    <3>5. InQueue(p)' BY <3>1, <3>4 DEF InQueue
    <3>6. pc[p] \notin {"allocate", "create"} BY <3>1, <3>2 DEF QueueInv, Holds, MyQueue
    <3> QED BY <3>5, <3>6 DEF QueueInv
  <2>5. CASE ~(branch[p] = branch[q] /\ ref[p] = ref[q])
    <3>1. MyQueue(p)' = MyQueue(p) BY <2>1, <2>3, <2>5 DEF TypeOK, MyQueue
    <3> QED BY <2>2, <3>1 DEF QueueInv, InQueue, Holds, MyQueue
  <2> QED BY <2>4, <2>5
<1>2. CASE pc[p] \notin Inside BY <1>2 DEF QueueInv, Inside
<1> QED BY <1>1, <1>2

-----------------------------------------------------------------------------
(* The steps.                                                              *)

LEMMA TakeLockIInv ==
  ASSUME IInv, TypeOK', NEW q \in Requests, TakeLock(q) PROVE IInv'
<1> USE BranchFacts
<1> DEFINE old == locks[WorkerOf[q]][branch[q]]
           l == IF old = NoRequest THEN q ELSE old
<1>1. branch[q] \in 1 .. Branches[q] /\ branch[q] \in Branch BY DEF TakeLock, At, IInv, RequestInv, BranchInv
<1>2. l \in Requests BY <1>1 DEF IInv, TypeOK, Lock
<1>3. /\ queue' = [queue EXCEPT ![branch[q]][l] = Append(@, q)]
      /\ ref' = [ref EXCEPT ![q] = l]
      /\ locks' = [locks EXCEPT ![WorkerOf[q]][branch[q]] = l]
      /\ UNCHANGED <<branch, row, answer, sent>>
  BY DEF TakeLock
<1>7. pc'[q] = "find" /\ \A p \in Requests \ {q} : pc'[p] = pc[p] BY DEF TakeLock, Goto, IInv, TypeOK
<1> HIDE DEF l
<1>4. ASSUME NEW p \in Requests \ {q} PROVE RequestInv(p)'
  <2>1. Same(p) BY <1>3, <1>7 DEF Same, IInv, TypeOK
  <2>2. QueueInv(p)' BY <1>1, <1>2, <1>3, <2>1, QueuesGrow
  <2> QED BY <1>3, <2>1, <2>2, OtherRequest DEF RowsStay
<1>5. RequestInv(q)'
  <2>1. pc'[q] = "find" /\ branch'[q] = branch[q] /\ ref'[q] = l BY <1>3, <1>7 DEF IInv, TypeOK
  <2>2. MyQueue(q)' = Append(queue[branch[q]][l], q) BY <1>1, <1>2, <1>3, <2>1 DEF MyQueue, IInv, TypeOK
  <2>3. queue[branch[q]][l] \in Seq(Requests) BY <1>1, <1>2 DEF IInv, TypeOK
  <2>4. \E i \in 1 .. Len(MyQueue(q)') : MyQueue(q)'[i] = q
    <3>1. PICK i \in 1 .. Len(Append(queue[branch[q]][l], q)) : Append(queue[branch[q]][l], q)[i] = q
      BY <2>3, JoinQueue
    <3> QED BY <2>2, <3>1
  <2>5. BranchInv(q)' /\ QueueInv(q)' BY <1>1, <1>2, <2>1, <2>4 DEF BranchInv, QueueInv, InQueue
  <2>6. AnswerInv(q)' /\ SentInv(q)' BY <1>3, <2>1 DEF IInv, RequestInv, AnswerInv, SentInv
  <2> QED BY <2>5, <2>6 DEF RequestInv
<1>6. TableInv'
  <2> SUFFICES ASSUME NEW w \in Workers, NEW b \in Branch, locks'[w][b] # NoRequest
               PROVE  \E p \in Requests : WorkerOf[p] = w /\ branch[p] = b /\ pc'[p] \in Inside \cup {"failed"}
    BY <1>3 DEF TableInv
  <2>2. CASE w = WorkerOf[q] /\ b = branch[q] BY <1>7, <2>2 DEF Inside
  <2>3. CASE ~(w = WorkerOf[q] /\ b = branch[q])
    <3>1. locks'[w][b] = locks[w][b] BY <1>1, <1>3, <2>3 DEF IInv, TypeOK
    <3>2. locks[w][b] # NoRequest BY <3>1
    <3>3. PICK p \in Requests : WorkerOf[p] = w /\ branch[p] = b /\ pc[p] \in Inside \cup {"failed"}
      <4>1. TableInv BY DEF IInv
      <4> QED BY <3>2, <4>1 DEF TableInv
    <3> QED BY <1>7, <3>3 DEF Inside
  <2> QED BY <2>2, <2>3
<1> QED BY <1>4, <1>5, <1>6 DEF IInv

\* The critical section ends with an answer: a row another request created, or its own.
LEMMA ReleaseIInv ==
  ASSUME IInv, TypeOK', NEW q \in Requests, pc[q] \in Inside, Holds(q), ReleaseAndEvict(q), NextBranch(q),
         NEW p \in Requests, answer' = [answer EXCEPT ![q][branch[q]] = p], UNCHANGED <<ref, sent>>,
         \/ row' = row /\ row[p][branch[q]] # "none"
         \/ row' = [row EXCEPT ![q][branch[q]] = "active"] /\ p = q
  PROVE  IInv'
<1> USE BranchFacts
<1>1. branch[q] \in 1 .. Branches[q] /\ branch[q] \in Branch BY DEF IInv, RequestInv, BranchInv
<1>2. /\ pc' = [pc EXCEPT ![q] = IF branch[q] = Branches[q] THEN "dispatch" ELSE "start"]
      /\ branch'[q] = branch[q] + 1 /\ \A t \in Requests \ {q} : branch'[t] = branch[t]
      /\ pc'[q] = "start" => branch'[q] \in 1 .. Branches[q]
  BY <1>1, NextBranchTypes DEF IInv
<1>3. pc'[q] \in {"dispatch", "start"} /\ \A t \in Requests \ {q} : pc'[t] = pc[t] BY <1>2 DEF IInv, TypeOK
<1>4. row[q][branch[q]] = "none"
  <2>1. branch[q] \in Nat BY DEF IInv, TypeOK
  <2> QED BY <1>1, <2>1 DEF IInv, RequestInv, AnswerInv, TypeOK
<1>5. row'[p][branch[q]] # "none" /\ \A r \in Requests, b \in Branch : row[r][b] # "none" => row'[r][b] # "none"
  <2>1. CASE row' = row /\ row[p][branch[q]] # "none" BY <2>1
  <2>2. CASE row' = [row EXCEPT ![q][branch[q]] = "active"] /\ p = q BY <1>1, <2>2 DEF IInv, TypeOK
  <2> QED BY <2>1, <2>2
<1>6. ASSUME NEW t \in Requests \ {q} PROVE RequestInv(t)'
  <2>1. Same(t) BY <1>2, <1>3 DEF Same
  <2>2. QueueInv(t)' BY <2>1, QueuesShrink DEF ReleaseAndEvict
  <2>3. answer'[t] = answer[t] BY DEF IInv, TypeOK
  <2>4. RowsStay(t) BY <1>5 DEF RowsStay, IInv, TypeOK
  <2> QED BY <2>1, <2>2, <2>3, <2>4, OtherRequest
<1>7. RequestInv(q)'
  <2>1. BranchInv(q)' BY <1>2, <1>3 DEF BranchInv, Inside
  <2>2. QueueInv(q)' BY <1>3 DEF QueueInv, Inside
  <2>3. SentInv(q)' BY <1>3 DEF SentInv
  <2>4. AnswerInv(q)'
    <3> SUFFICES ASSUME NEW b \in Branch
                 PROVE  /\ row'[q][b] # "none" => answer'[q][b] = q /\ b < branch'[q]
                        /\ answer'[q][b] # NoRequest => row'[answer'[q][b]][b] # "none"
      BY DEF AnswerInv
    <3>1. CASE b = branch[q]
      <4>1. answer'[q][b] = p BY <1>1, <3>1 DEF IInv, TypeOK
      <4>2. row'[q][b] # "none" => p = q BY <1>4, <3>1 
      <4>3. b < branch'[q] BY <1>2, <3>1 DEF IInv, TypeOK
      <4> QED BY <1>5, <3>1, <4>1, <4>2, <4>3
    <3>2. CASE b # branch[q]
      <4>1. answer'[q][b] = answer[q][b] /\ row'[q][b] = row[q][b] BY <1>1, <3>2 DEF IInv, TypeOK
      <4>2. b < branch[q] => b < branch'[q] BY <1>2 DEF IInv, TypeOK
      <4>3. answer[q][b] \in Lock BY DEF IInv, TypeOK
      <4>4. answer[q][b] # NoRequest => answer[q][b] \in Requests BY <4>3 DEF Lock
      <4> QED BY <1>5, <4>1, <4>2, <4>4 DEF IInv, RequestInv, AnswerInv
    <3> QED BY <3>1, <3>2
  <2> QED BY <2>1, <2>2, <2>3, <2>4 DEF RequestInv
<1>8. TableInv'
  <2> SUFFICES ASSUME NEW w \in Workers, NEW b \in Branch, locks'[w][b] # NoRequest
               PROVE  \E t \in Requests : WorkerOf[t] = w /\ branch'[t] = b /\ pc'[t] \in Inside \cup {"failed"}
    BY DEF TableInv
  <2>3. locks' = [locks EXCEPT ![WorkerOf[q]][branch[q]] = NoRequest] BY DEF ReleaseAndEvict
  <2>4. ~(w = WorkerOf[q] /\ b = branch[q]) BY <1>1, <2>3 DEF IInv, TypeOK
  <2>1. locks'[w][b] = locks[w][b] /\ locks[w][b] # NoRequest BY <1>1, <2>3, <2>4 DEF IInv, TypeOK
  <2>2. PICK t \in Requests : WorkerOf[t] = w /\ branch[t] = b /\ pc[t] \in Inside \cup {"failed"}
    BY <2>1 DEF IInv, TableInv
  <2> QED BY <1>2, <1>3, <2>2, <2>4
<1> QED BY <1>6, <1>7, <1>8 DEF IInv

\* The steps around the check and the version, which only move a request on.
LEMMA FindNothingIInv ==
  ASSUME IInv, TypeOK', NEW q \in Requests, FindNothing(q) \/ AllocateVersion(q) PROVE IInv'
<1>1. UNCHANGED <<branch, ref, queue, locks, row, answer, sent>> BY DEF FindNothing, AllocateVersion
<1>2. /\ pc[q] \in Inside /\ pc'[q] \in {"allocate", "create"} /\ \A p \in Requests \ {q} : pc'[p] = pc[p]
      /\ Holds(q)
  <2>1. CASE FindNothing(q) BY <2>1 DEF FindNothing, At, Goto, IInv, TypeOK, Inside
  <2>2. CASE AllocateVersion(q)
    BY <2>2 DEF AllocateVersion, At, Goto, IInv, TypeOK, Inside, RequestInv, QueueInv
  <2> QED BY <2>1, <2>2
<1>3. ASSUME NEW p \in Requests \ {q} PROVE RequestInv(p)'
  BY <1>1, <1>2, QueuesStay, OtherRequest DEF Same, RowsStay
<1>4. RequestInv(q)'
  BY <1>1, <1>2
  DEF IInv, RequestInv, BranchInv, QueueInv, AnswerInv, SentInv, Inside, InQueue, MyQueue, Holds
<1>5. TableInv' BY <1>1, <1>2 DEF IInv, TableInv, Inside
<1> QED BY <1>3, <1>4, <1>5 DEF IInv

LEMMA FindDuplicateIInv ==
  ASSUME IInv, TypeOK', NEW q \in Requests, FindDuplicate(q) PROVE IInv'
<1>1. PICK p \in Requests : /\ <<p, branch[q]>> \in Visible(q)
                            /\ answer' = [answer EXCEPT ![q][branch[q]] = p]
  BY DEF FindDuplicate
<1>2. row[p][branch[q]] # "none" BY <1>1 DEF Visible
<1>3. pc[q] \in Inside /\ Holds(q) /\ ReleaseAndEvict(q) /\ NextBranch(q) /\ UNCHANGED <<ref, row, sent>>
  BY DEF FindDuplicate, At, Inside
<1> QED BY <1>1, <1>2, <1>3, ReleaseIInv

LEMMA CreateJobIInv ==
  ASSUME IInv, TypeOK', NEW q \in Requests, CreateJob(q) PROVE IInv'
<1>1. /\ pc[q] \in Inside /\ ReleaseAndEvict(q) /\ NextBranch(q) /\ UNCHANGED <<ref, sent>>
      /\ row' = [row EXCEPT ![q][branch[q]] = "active"]
      /\ answer' = [answer EXCEPT ![q][branch[q]] = q]
  BY DEF CreateJob, At, Inside
<1>2. Holds(q) BY DEF CreateJob, At, IInv, RequestInv, QueueInv
<1> QED BY <1>1, <1>2, ReleaseIInv

LEMMA CreateFailsIInv ==
  ASSUME IInv, TypeOK', NEW q \in Requests, CreateFails(q) PROVE IInv'
<1>1. /\ UNCHANGED <<branch, ref, locks, row, answer, sent>>
      /\ queue' = [queue EXCEPT ![branch[q]][ref[q]] = Tail(@)]
  BY DEF CreateFails
<1>2. /\ pc[q] \in Inside /\ pc'[q] = "failed" /\ \A p \in Requests \ {q} : pc'[p] = pc[p]
      /\ Holds(q)
  BY DEF CreateFails, Goto, IInv, TypeOK, Inside, RequestInv, QueueInv
<1>3. ASSUME NEW p \in Requests \ {q} PROVE RequestInv(p)'
  BY <1>1, <1>2, QueuesShrink, OtherRequest DEF Same, RowsStay
<1>4. RequestInv(q)'
  BY <1>1, <1>2 DEF IInv, RequestInv, BranchInv, QueueInv, AnswerInv, SentInv, Inside
<1>5. TableInv' BY <1>1, <1>2 DEF IInv, TableInv, Inside
<1> QED BY <1>3, <1>4, <1>5 DEF IInv

\* Dispatch, and what the request does with its rows afterwards.
LEMMA AfterwardsIInv ==
  ASSUME IInv, TypeOK', NEW q \in Requests,
         Dispatch(q) \/ (\E b \in Branch : AttachUpdate(q, b)) \/ AttachCommit(q) \/ CloseSession(q)
  PROVE  IInv'
<1>1. UNCHANGED <<branch, ref, queue, locks, row, answer>>
  BY DEF Dispatch, AttachUpdate, AttachCommit, CloseSession
<1>2. /\ pc[q] \notin Inside \cup {"start", "failed"}
      /\ pc'[q] \in {"attach", "commit", "end", "done"}
      /\ \A p \in Requests \ {q} : pc'[p] = pc[p] /\ (p \in sent' <=> p \in sent)
  <2>1. CASE Dispatch(q) BY <2>1 DEF Dispatch, At, Goto, IInv, TypeOK, Inside
  <2>2. CASE \E b \in Branch : AttachUpdate(q, b) BY <2>2 DEF AttachUpdate, At, Goto, IInv, TypeOK, Inside
  <2>3. CASE AttachCommit(q) \/ CloseSession(q)
    BY <2>3 DEF AttachCommit, CloseSession, At, Goto, IInv, TypeOK, Inside
  <2> QED BY <2>1, <2>2, <2>3
<1>3. ASSUME NEW p \in Requests \ {q} PROVE RequestInv(p)'
  BY <1>1, <1>2, QueuesStay, OtherRequest DEF Same, RowsStay
<1>4. SentInv(q)'
  <2>1. CASE Dispatch(q) BY <1>1, <2>1 DEF Dispatch, SentInv
  <2>2. CASE ~Dispatch(q)
    <3>1. sent' = sent /\ pc[q] \in {"attach", "commit", "end", "done"}
      BY <2>2 DEF AttachUpdate, AttachCommit, CloseSession, At
    <3> QED BY <1>1, <3>1 DEF IInv, RequestInv, SentInv
  <2> QED BY <2>1, <2>2
<1>5. RequestInv(q)'
  BY <1>1, <1>2, <1>4 DEF IInv, RequestInv, BranchInv, QueueInv, AnswerInv, Inside
<1>6. TableInv' BY <1>1, <1>2 DEF IInv, TableInv, Inside
<1> QED BY <1>3, <1>5, <1>6 DEF IInv

LEMMA JobLeavesIInv ==
  ASSUME IInv, TypeOK', NEW q \in Requests, NEW b \in Branch, JobLeaves(q, b) PROVE IInv'
<1>1. UNCHANGED <<pc, branch, ref, queue, locks, answer, sent>> BY DEF JobLeaves
<1>2. \A r \in Requests, c \in Branch : row'[r][c] = "none" <=> row[r][c] = "none"
  BY DEF JobLeaves, IInv, TypeOK
<1>3. ASSUME NEW p \in Requests PROVE RequestInv(p)'
  BY <1>1, <1>2, QueuesStay, OtherRequest DEF Same, RowsStay
<1>4. TableInv' BY <1>1 DEF IInv, TableInv
<1> QED BY <1>3, <1>4 DEF IInv

LEMMA StepIInv == IInv /\ [Next]_vars => IInv'
<1> SUFFICES ASSUME IInv, [Next]_vars PROVE IInv' OBVIOUS
<1>1. TypeOK' BY StepTypeOK
<1>2. CASE UNCHANGED vars
  <2>1. UNCHANGED <<pc, branch, ref, queue, locks, row, answer, sent>> BY <1>2 DEF vars
  <2>2. ASSUME NEW p \in Requests PROVE RequestInv(p)'
    BY <1>1, <2>1, QueuesStay, OtherRequest DEF Same, RowsStay
  <2>3. TableInv' BY <2>1 DEF IInv, TableInv
  <2> QED BY <1>1, <2>2, <2>3 DEF IInv
<1> QED
  BY <1>1, <1>2, TakeLockIInv, FindNothingIInv, FindDuplicateIInv, CreateJobIInv, CreateFailsIInv,
     AfterwardsIInv, JobLeavesIInv DEF Next, Step, Rest

LEMMA SpecIInv == Spec => []IInv
BY InitIInv, StepIInv, PTL DEF Spec

-----------------------------------------------------------------------------
\* Requests, locks, rows and answers keep their types.
THEOREM SubmitTypeOK == Spec => []TypeOK
<1>1. IInv => TypeOK BY DEF IInv
<1> QED BY <1>1, SpecIInv, PTL

\* For any number of workers, requests and branches: the lock table is empty when
\* no submission is in progress, but for lock objects of failed ones.
THEOREM TablesDrain == Spec => []LockTableDrains
<1>1. ASSUME IInv PROVE LockTableDrains
  <2> SUFFICES ASSUME \A q \in Requests : pc[q] \in {"dispatch", "attach", "commit", "end", "done", "failed"},
                      NEW w \in Workers, NEW b \in Branch, locks[w][b] # NoRequest
               PROVE  \E q \in Requests : pc[q] = "failed" /\ branch[q] = b /\ WorkerOf[q] = w
    BY DEF LockTableDrains
  <2>1. TableInv BY <1>1 DEF IInv
  <2>2. PICK q \in Requests : WorkerOf[q] = w /\ branch[q] = b /\ pc[q] \in Inside \cup {"failed"}
    BY <2>1 DEF TableInv
  <2> QED BY <2>2 DEF Inside
<1> QED BY <1>1, SpecIInv, PTL

\* For any number of workers, requests and branches: a job handed to a client is
\* dispatched by its creator, unless that is still on its way or failed.
THEOREM SharedJobsAreDispatched == Spec => []SharedJobIsDispatched
<1>1. ASSUME IInv, NEW p \in Requests, NEW q \in Requests, NEW b \in Branch, answer[q][b] = p
      PROVE  p \in sent \/ pc[p] \in {"start", "find", "allocate", "create", "dispatch", "failed"}
  <2>1. row[p][b] # "none" BY <1>1, BranchFacts DEF IInv, RequestInv, AnswerInv
  <2>2. answer[p][b] = p BY <1>1, <2>1 DEF IInv, RequestInv, AnswerInv
  <2>3. pc[p] \in {"attach", "commit", "end", "done"} => p \in sent
    BY <1>1, <2>2 DEF IInv, RequestInv, SentInv
  <2> QED BY <1>1, <2>3 DEF IInv, TypeOK
<1>2. IInv => SharedJobIsDispatched BY <1>1 DEF SharedJobIsDispatched
<1> QED BY <1>2, SpecIInv, PTL

-----------------------------------------------------------------------------
(* One worker on SQLite: the submit lock alone makes check and create one  *)
(* step.  Until a branch has its first row nobody has left its queue, so   *)
(* all share one lock object; from then on every check finds that row.     *)

\* Nobody failed on the branch and no job of it has ended.
Clean(b) == \A o \in Requests : row[o][b] # "ended" /\ ~(pc[o] = "failed" /\ branch[o] = b)

HasJob(b) == \E p \in Requests : row[p][b] = "active"

MutexInv(b) == Clean(b) =>
  /\ ~HasJob(b) => \A q \in Requests : pc[q] \in Inside /\ branch[q] = b => ref[q] = locks[WorkerOf[q]][b]
  /\ HasJob(b) => \A q \in Requests : branch[q] = b => pc[q] \notin {"allocate", "create"}
  /\ \A p, q \in Requests : row[p][b] = "active" /\ row[q][b] = "active" => p = q

Mutex == ~PostgreSQL => \A b \in Branch : MutexInv(b)

OneWorker == \A p, q \in Requests : WorkerOf[p] = WorkerOf[q]

\* What a branch that is not of the step keeps.
LEMMA MutexFrame ==
  ASSUME NEW b \in Branch, MutexInv(b), Clean(b),
         \A p \in Requests : row'[p][b] = row[p][b],
         \A w \in Workers : locks'[w][b] = locks[w][b],
         \A q \in Requests : pc'[q] \in Inside /\ branch'[q] = b =>
           /\ branch[q] = b /\ pc[q] \in Inside /\ ref'[q] = ref[q]
           /\ pc'[q] \in {"allocate", "create"} => pc[q] \in {"allocate", "create"} \/ ~HasJob(b)
  PROVE  MutexInv(b)'
BY BranchFacts DEF MutexInv, HasJob, Inside

\* A branch that is clean after a step was clean before.
LEMMA CleanBefore ==
  ASSUME IInv, TypeOK', [Next]_vars, NEW b \in Branch, Clean(b)' PROVE Clean(b)
<1> SUFFICES ASSUME NEW o \in Requests PROVE row[o][b] # "ended" /\ ~(pc[o] = "failed" /\ branch[o] = b)
  BY DEF Clean
<1>1. row[o][b] = "ended" => row'[o][b] = "ended"
  <2>1. ASSUME NEW q \in Requests, CreateJob(q) PROVE row[o][b] = "ended" => row'[o][b] = "ended"
    <3>1. branch[q] \in Branch /\ branch[q] \in Nat BY <2>1, BranchFacts DEF IInv, RequestInv, BranchInv, CreateJob, At, Inside
    <3>2. row[q][branch[q]] = "none" BY <3>1 DEF IInv, RequestInv, AnswerInv
    <3> QED BY <2>1, <3>1, <3>2 DEF CreateJob, IInv, TypeOK
  <2>2. ASSUME NEW q \in Requests, NEW c \in Branch, JobLeaves(q, c)
        PROVE  row[o][b] = "ended" => row'[o][b] = "ended"
    BY <2>2 DEF JobLeaves, IInv, TypeOK
  <2> QED
    BY <2>1, <2>2
    DEF Next, Step, Rest, vars, TakeLock, FindDuplicate, FindNothing, AllocateVersion, CreateFails, Dispatch,
        AttachUpdate, AttachCommit, CloseSession
<1>2. pc[o] = "failed" => pc'[o] = "failed" /\ branch'[o] = branch[o]
  <2> SUFFICES ASSUME pc[o] = "failed" PROVE pc'[o] = "failed" /\ branch'[o] = branch[o] OBVIOUS
  <2> USE DEF IInv, TypeOK, At, Goto, NextBranch
  <2>1. ASSUME NEW q \in Requests, Step(q) \/ CreateFails(q) PROVE pc'[o] = "failed" /\ branch'[o] = branch[o]
    <3>1. q # o
      BY <2>1 DEF Step, TakeLock, FindDuplicate, FindNothing, AllocateVersion, CreateJob, CreateFails, Dispatch,
                  AttachUpdate, AttachCommit, CloseSession
    <3>2. pc'[o] = pc[o]
      BY <2>1, <3>1 DEF Step, TakeLock, FindDuplicate, FindNothing, AllocateVersion, CreateJob, CreateFails,
                        Dispatch, AttachUpdate, AttachCommit, CloseSession
    <3>3. branch'[o] = branch[o]
      BY <2>1, <3>1 DEF Step, TakeLock, FindDuplicate, FindNothing, AllocateVersion, CreateJob, CreateFails,
                        Dispatch, AttachUpdate, AttachCommit, CloseSession
    <3> QED BY <3>2, <3>3
  <2>2. ASSUME NEW q \in Requests, NEW c \in Branch, JobLeaves(q, c)
        PROVE  pc'[o] = "failed" /\ branch'[o] = branch[o]
    BY <2>2 DEF JobLeaves
  <2> QED BY <2>1, <2>2 DEF Next, Rest, vars
<1> QED BY <1>1, <1>2 DEF Clean

LEMMA MutexTakeLock ==
  ASSUME OneWorker, IInv, Mutex, ~PostgreSQL, TypeOK', NEW q \in Requests, TakeLock(q),
         NEW b \in Branch, Clean(b)
  PROVE  MutexInv(b)'
<1> USE BranchFacts
<1> DEFINE old == locks[WorkerOf[q]][branch[q]]
           l == IF old = NoRequest THEN q ELSE old
<1>1. branch[q] \in Branch BY DEF TakeLock, At, IInv, RequestInv, BranchInv
<1>2. /\ ref' = [ref EXCEPT ![q] = l]
      /\ locks' = [locks EXCEPT ![WorkerOf[q]][branch[q]] = l]
      /\ UNCHANGED <<branch, row>>
  BY DEF TakeLock
<1>3. pc'[q] = "find" /\ \A p \in Requests \ {q} : pc'[p] = pc[p] BY DEF TakeLock, Goto, IInv, TypeOK
<1>4. MutexInv(b) BY DEF Mutex
<1>5. CASE b # branch[q]
  <2>1. \A w \in Workers : locks'[w][b] = locks[w][b] BY <1>1, <1>2, <1>5 DEF IInv, TypeOK
  <2>2. \A p \in Requests \ {q} : ref'[p] = ref[p] BY <1>2 DEF IInv, TypeOK
  <2> QED BY <1>2, <1>3, <1>4, <1>5, <2>1, <2>2, MutexFrame
<1>6. CASE b = branch[q]
  <2>1. ref'[q] = l /\ \A p \in Requests \ {q} : ref'[p] = ref[p] BY <1>2 DEF IInv, TypeOK
  <2>2. \A p \in Requests : locks'[WorkerOf[p]][b] = l BY <1>1, <1>2, <1>6 DEF IInv, TypeOK, OneWorker
  <2>3. ASSUME ~HasJob(b), NEW p \in Requests \ {q}, pc[p] \in Inside, branch[p] = b PROVE ref[p] = l
    <3>1. ref[p] = locks[WorkerOf[p]][b] BY <1>4, <2>3 DEF MutexInv
    <3>2. ref[p] \in Requests BY <2>3 DEF IInv, RequestInv, BranchInv
    <3>3. WorkerOf[p] = WorkerOf[q] BY DEF OneWorker
    <3> QED BY <1>6, <3>1, <3>2, <3>3
  <2>4. HasJob(b)' <=> HasJob(b) BY <1>2 DEF HasJob
  <2> HIDE DEF l
  <2>5. ~HasJob(b) => \A p \in Requests : pc'[p] \in Inside /\ branch'[p] = b => ref'[p] = locks'[WorkerOf[p]][b]
    BY <1>2, <1>3, <2>1, <2>2, <2>3
  <2>6. HasJob(b) => \A p \in Requests : branch'[p] = b => pc'[p] \notin {"allocate", "create"}
    BY <1>2, <1>3, <1>4 DEF MutexInv
  <2> QED BY <1>2, <1>4, <2>4, <2>5, <2>6 DEF MutexInv
<1> QED BY <1>5, <1>6

\* The row is visible, and stays.
LEMMA MutexFindDuplicate ==
  ASSUME IInv, Mutex, ~PostgreSQL, NEW q \in Requests, FindDuplicate(q), NEW b \in Branch, Clean(b)
  PROVE  MutexInv(b)'
<1> USE BranchFacts
<1>1. branch[q] \in 1 .. Branches[q] /\ branch[q] \in Branch
  BY DEF FindDuplicate, At, Inside, IInv, RequestInv, BranchInv
<1>2. /\ pc' = [pc EXCEPT ![q] = IF branch[q] = Branches[q] THEN "dispatch" ELSE "start"]
      /\ \A t \in Requests \ {q} : branch'[t] = branch[t]
  BY <1>1, NextBranchTypes DEF IInv, FindDuplicate
<1>3. pc'[q] \in {"dispatch", "start"} /\ \A t \in Requests \ {q} : pc'[t] = pc[t] BY <1>2 DEF IInv, TypeOK
<1>4. HasJob(branch[q]) BY DEF FindDuplicate, Visible, HasJob
<1>5. MutexInv(b) BY DEF Mutex
<1>6. UNCHANGED <<row, ref>> /\ locks' = [locks EXCEPT ![WorkerOf[q]][branch[q]] = NoRequest]
  BY DEF FindDuplicate, ReleaseAndEvict
<1>7. CASE b # branch[q]
  <2>1. \A w \in Workers : locks'[w][b] = locks[w][b] BY <1>1, <1>6, <1>7 DEF IInv, TypeOK
  <2> QED BY <1>2, <1>3, <1>5, <1>6, <2>1, MutexFrame DEF Inside
<1>8. CASE b = branch[q]
  BY <1>2, <1>3, <1>4, <1>5, <1>6, <1>8 DEF MutexInv, HasJob
<1> QED BY <1>7, <1>8

LEMMA MutexCreateJob ==
  ASSUME OneWorker, IInv, Mutex, ~PostgreSQL, NEW q \in Requests, CreateJob(q), NEW b \in Branch, Clean(b)
  PROVE  MutexInv(b)'
<1> USE BranchFacts
<1>1. pc[q] = "create" /\ branch[q] \in 1 .. Branches[q] /\ branch[q] \in Branch
  BY DEF CreateJob, At, Inside, IInv, RequestInv, BranchInv
<1>2. /\ pc' = [pc EXCEPT ![q] = IF branch[q] = Branches[q] THEN "dispatch" ELSE "start"]
      /\ branch'[q] = branch[q] + 1 /\ \A t \in Requests \ {q} : branch'[t] = branch[t]
  BY <1>1, NextBranchTypes DEF IInv, CreateJob
<1>3. pc'[q] \in {"dispatch", "start"} /\ \A t \in Requests \ {q} : pc'[t] = pc[t] BY <1>2 DEF IInv, TypeOK
<1>4. MutexInv(b) BY DEF Mutex
<1>5. /\ ref' = ref /\ locks' = [locks EXCEPT ![WorkerOf[q]][branch[q]] = NoRequest]
      /\ row' = [row EXCEPT ![q][branch[q]] = "active"]
  BY DEF CreateJob, ReleaseAndEvict
<1>6. CASE b # branch[q]
  <2>1. \A w \in Workers : locks'[w][b] = locks[w][b] BY <1>1, <1>5, <1>6 DEF IInv, TypeOK
  <2>2. \A p \in Requests : row'[p][b] = row[p][b] BY <1>1, <1>5, <1>6 DEF IInv, TypeOK
  <2> QED BY <1>2, <1>3, <1>4, <1>5, <2>1, <2>2, MutexFrame DEF Inside
<1>7. CASE b = branch[q]
  <2>1. ~HasJob(b) BY <1>1, <1>4, <1>7 DEF MutexInv
  <2>2. row'[q][b] = "active" /\ \A p \in Requests \ {q} : row'[p][b] # "active"
    BY <1>1, <1>5, <1>7, <2>1 DEF HasJob, IInv, TypeOK
  <2>3. ASSUME NEW p \in Requests \ {q}, branch[p] = b, pc[p] \in {"allocate", "create"} PROVE FALSE
    <3>1. ref[p] = locks[WorkerOf[p]][b] /\ ref[q] = locks[WorkerOf[q]][b]
      BY <1>1, <1>4, <1>7, <2>1, <2>3 DEF MutexInv, Inside
    <3>2. ref[p] = ref[q] BY <3>1 DEF OneWorker
    <3>3. Holds(p) /\ Holds(q) BY <1>1, <2>3 DEF IInv, RequestInv, QueueInv
    <3> QED BY <1>7, <2>3, <3>2, <3>3 DEF Holds
  <2>4. HasJob(b)' BY <2>2 DEF HasJob
  <2>5. \A p \in Requests : branch'[p] = b => pc'[p] \notin {"allocate", "create"} BY <1>2, <1>3, <2>3
  <2> QED BY <2>2, <2>4, <2>5 DEF MutexInv
<1> QED BY <1>6, <1>7

\* The other steps move one request on, or spoil the branch they are about.
LEMMA MutexOthers ==
  ASSUME IInv, Mutex, ~PostgreSQL, TypeOK', NEW q \in Requests, NEW b \in Branch, Clean(b), Clean(b)',
         \/ FindNothing(q) \/ AllocateVersion(q) \/ CreateFails(q) \/ Dispatch(q) \/ AttachCommit(q)
         \/ CloseSession(q) \/ (\E c \in Branch : AttachUpdate(q, c) \/ JobLeaves(q, c))
  PROVE  MutexInv(b)'
<1>1. UNCHANGED <<branch, ref, locks>>
  BY DEF FindNothing, AllocateVersion, CreateFails, Dispatch, AttachCommit, CloseSession, AttachUpdate, JobLeaves
<1>2. \A p \in Requests : row'[p][b] = row[p][b]
  <2>1. ASSUME NEW c \in Branch, JobLeaves(q, c) PROVE c # b /\ \A p \in Requests : row'[p][b] = row[p][b]
    BY <2>1 DEF JobLeaves, Clean, IInv, TypeOK
  <2> QED BY <2>1
    DEF FindNothing, AllocateVersion, CreateFails, Dispatch, AttachCommit, CloseSession, AttachUpdate
<1>3. \A p \in Requests : pc'[p] \in Inside =>
        /\ pc[p] \in Inside
        /\ pc'[p] \in {"allocate", "create"} => pc[p] \in {"allocate", "create"} \/ FindNothing(p)
  <2>1. CASE FindNothing(q) BY <2>1 DEF FindNothing, At, Goto, IInv, TypeOK, Inside
  <2>2. CASE AllocateVersion(q) \/ CreateFails(q)
    BY <2>2 DEF AllocateVersion, CreateFails, At, Goto, IInv, TypeOK, Inside
  <2>3. CASE Dispatch(q) \/ AttachCommit(q) \/ CloseSession(q)
    BY <2>3 DEF Dispatch, AttachCommit, CloseSession, At, Goto, IInv, TypeOK, Inside
  <2>4. ASSUME NEW c \in Branch, AttachUpdate(q, c) \/ JobLeaves(q, c)
        PROVE  \A p \in Requests : pc'[p] \in Inside => pc'[p] = pc[p]
    BY <2>4 DEF AttachUpdate, JobLeaves, At, Goto, IInv, TypeOK, Inside
  <2> QED BY <2>1, <2>2, <2>3, <2>4
<1>4. ASSUME NEW p \in Requests, FindNothing(p), branch[p] = b PROVE ~HasJob(b)
  BY <1>4 DEF FindNothing, Visible, HasJob
<1>5. MutexInv(b) BY DEF Mutex
<1> QED BY <1>1, <1>2, <1>3, <1>4, <1>5, MutexFrame

LEMMA StepMutex ==
  ASSUME OneWorker, IInv, Mutex, [Next]_vars PROVE Mutex'
<1>1. TypeOK' BY StepTypeOK
<1>2. PostgreSQL' <=> PostgreSQL
  BY DEF PostgreSQL, Next, Step, Rest, vars, TakeLock, FindDuplicate, FindNothing, AllocateVersion, CreateJob,
         CreateFails, Dispatch, AttachUpdate, AttachCommit, CloseSession, JobLeaves
<1> SUFFICES ASSUME ~PostgreSQL, NEW b \in Branch PROVE MutexInv(b)' BY <1>2 DEF Mutex
<1>3. CASE ~Clean(b)' BY <1>3 DEF MutexInv
<1>4. CASE Clean(b)'
  <2>1. Clean(b) BY <1>1, <1>4, CleanBefore
  <2>2. CASE UNCHANGED vars
    <3>1. MutexInv(b) BY DEF Mutex
    <3> QED BY <2>1, <2>2, <3>1, MutexFrame DEF vars
  <2> QED
    BY <1>1, <1>4, <2>1, <2>2, MutexTakeLock, MutexFindDuplicate, MutexCreateJob, MutexOthers
    DEF Next, Step, Rest
<1> QED BY <1>3, <1>4

\* With one worker on SQLite two requests never both leave an active job of a
\* branch, for any number of requests and branches, unless a job of that branch
\* has ended or a request failed on it.
THEOREM NoDuplicates ==
  ASSUME OneWorker PROVE Spec => []NoDuplicateOnSQLite
<1>1. Init => Mutex
  BY BranchFacts DEF Init, Mutex, MutexInv, HasJob, Inside
<1>2. IInv /\ Mutex /\ [Next]_vars => Mutex' BY StepMutex
<1>3. IInv /\ Mutex => NoDuplicateOnSQLite
  <2> SUFFICES ASSUME IInv, Mutex, ~PostgreSQL, NEW p \in Requests, NEW q \in Requests, NEW b \in Branch,
                      p # q, row[p][b] = "active", row[q][b] = "active"
               PROVE  \E o \in Requests : row[o][b] = "ended" \/ (pc[o] = "failed" /\ branch[o] = b)
    BY DEF NoDuplicateOnSQLite
  <2> QED BY DEF Mutex, MutexInv, Clean
<1> QED BY <1>1, <1>2, <1>3, SpecIInv, PTL DEF Spec
=============================================================================
