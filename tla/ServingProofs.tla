---------------------------- MODULE ServingProofs ----------------------------
(***************************************************************************)
(* What holds of serving a model, from its deployment to the predictions   *)
(* on display.                                                             *)
(*                                                                         *)
(* Deployment, for every set of requests: a request that ran alone decides *)
(* what is deployed, and on PostgreSQL no deploy interrupts service.  The  *)
(* invariant says what a request that overlaps no other knows: nobody else *)
(* is in flight, so the active rows are still those it has read and        *)
(* locked.                                                                 *)
(*                                                                         *)
(* The inference page, for any number of pages, models, runs and records:  *)
(* the types, the match of the displayed predictions with their label,     *)
(* that no run is forgotten without a reason, and that the records tell    *)
(* the truth.                                                              *)
(***************************************************************************)
EXTENDS Deployment, InferenceRuns, SequenceTheorems, TLAPS

-----------------------------------------------------------------------------
(* Deployment.                                                             *)

\* A row is locked by a transaction that is about to commit.
LockInv == \A d \in Deploys : lock[d] # NoDeployment => pc[lock[d]] = "commit"

\* Only PostgreSQL lets an UPDATE wait for a lock.
WaitInv == \A q \in Requests : pc[q] = "wait" => PostgreSQL

\* What a request that ran alone so far knows of the active rows.
Alone(q) ==
  /\ InFlight = {q}
  /\ PostgreSQL /\ pc[q] = "wait" => snapshot[q] = active
  /\ PostgreSQL /\ pc[q] = "commit" => \A d \in active : lock[d] = q
  /\ ~PostgreSQL /\ pc[q] = "commit" => active = {}
  /\ q \in Deploys /\ pc[q] \in {"update", "wait", "commit"} /\ PostgreSQL =>
       IF active = {} THEN previous[q] = NoDeployment ELSE previous[q] \in active

AloneInv == \A q \in InFlight \ overlapped : Alone(q)

IInv == TypeOK /\ LockInv /\ WaitInv /\ AloneInv

-----------------------------------------------------------------------------
LEMMA InitIInv == Init => IInv
BY DeployAssumption
DEF Init, IInv, TypeOK, LockInv, WaitInv, AloneInv, Alone, InFlight, Requests

\* Every step keeps the types.
LEMMA StepTypeOK == TypeOK /\ [Next]_vars => TypeOK'
<1> SUFFICES ASSUME TypeOK, [Next]_vars PROVE TypeOK' OBVIOUS
<1> USE DeployAssumption DEF TypeOK, Requests, Goto
<1>1. ASSUME NEW q \in Requests, Begin(q) PROVE TypeOK' BY <1>1 DEF Begin, InFlight
<1>2. ASSUME NEW q \in Requests, Reject(q) PROVE TypeOK' BY <1>2 DEF Reject
<1>3. ASSUME NEW q \in Requests, ReadActive(q) PROVE TypeOK' BY <1>3 DEF ReadActive
<1>4. ASSUME NEW q \in Requests, UpdateAtOnce(q) PROVE TypeOK' BY <1>4 DEF UpdateAtOnce
<1>5. ASSUME NEW q \in Requests, UpdateBegins(q) PROVE TypeOK' BY <1>5 DEF UpdateBegins
<1>6. ASSUME NEW q \in Requests, UpdateLocks(q) PROVE TypeOK' BY <1>6 DEF UpdateLocks
<1>7. ASSUME NEW q \in Requests, Commit(q) PROVE TypeOK' BY <1>7 DEF Commit, Unlocked
<1>8. ASSUME NEW q \in Requests, Fail(q) PROVE TypeOK' BY <1>8 DEF Fail, Unlocked
<1>9. CASE UNCHANGED vars BY <1>9 DEF vars
<1> QED BY <1>1, <1>2, <1>3, <1>4, <1>5, <1>6, <1>7, <1>8, <1>9 DEF Next, Rest

\* A step of one request leaves who is in flight and alone to that request: what
\* another knows cannot matter, it is not alone.
LEMMA OnlyOneAlone ==
  ASSUME IInv, NEW q \in InFlight, NEW p \in InFlight \ overlapped
  PROVE  p = q
BY DEF IInv, AloneInv, Alone

LEMMA BeginIInv ==
  ASSUME IInv, TypeOK', NEW q \in Requests, Begin(q) PROVE IInv'
<1> USE DEF Begin, At, Goto, IInv, PostgreSQL
<1>1. LockInv' BY DEF LockInv, TypeOK
<1>2. WaitInv' BY DEF WaitInv, TypeOK
<1>3. InFlight' = InFlight \cup {q} BY DEF InFlight, TypeOK
<1>4. ASSUME NEW p \in (InFlight \ overlapped)' PROVE Alone(p)'
  <2>1. InFlight = {} /\ p = q BY <1>3, <1>4
  <2> QED BY <1>3, <2>1 DEF Alone, TypeOK
<1> QED BY <1>1, <1>2, <1>4 DEF AloneInv

\* A request in flight that moves on or ends, and changes only what it owns.
LEMMA MoveIInv ==
  ASSUME IInv, TypeOK', NEW q \in InFlight, NEW step, Goto(q, step),
         UNCHANGED <<database, overlapped>>, LockInv', WaitInv',
         q \notin overlapped /\ step \notin {"done", "failed"} /\ InFlight' = {q} => Alone(q)',
         step \in {"read", "update", "wait", "commit", "done", "failed"}
  PROVE  IInv'
<1>1. q \in Requests BY DEF InFlight
<1>2. InFlight' = IF step \in {"done", "failed"} THEN InFlight \ {q} ELSE InFlight
  BY <1>1 DEF InFlight, Goto, IInv, TypeOK
<1>3. ASSUME NEW p \in (InFlight \ overlapped)' PROVE Alone(p)'
  <2>1. p \in InFlight \ overlapped BY <1>2
  <2>2. p = q BY <2>1, OnlyOneAlone
  <2>3. InFlight = {q} BY <2>1, <2>2 DEF IInv, AloneInv, Alone
  <2> QED BY <1>2, <2>1, <2>2, <2>3
<1> QED BY <1>3 DEF IInv, AloneInv

LEMMA ReadActiveIInv ==
  ASSUME IInv, TypeOK', NEW q \in Requests, ReadActive(q) PROVE IInv'
<1> USE DEF ReadActive, At, Goto, PostgreSQL
<1>1. q \in InFlight BY DEF InFlight
<1>2. LockInv' /\ WaitInv' BY DEF IInv, LockInv, WaitInv, TypeOK
<1>3. q \notin overlapped /\ InFlight' = {q} => Alone(q)'
  BY DEF IInv, Alone, TypeOK, Newest
<1> QED BY <1>1, <1>2, <1>3, MoveIInv

LEMMA UpdateAtOnceIInv ==
  ASSUME IInv, TypeOK', NEW q \in Requests, UpdateAtOnce(q) PROVE IInv'
<1> USE DEF UpdateAtOnce, At, Goto, PostgreSQL
<1>1. q \in InFlight BY DEF InFlight
<1>2. LockInv' /\ WaitInv' BY DEF IInv, LockInv, WaitInv, TypeOK
<1>3. q \notin overlapped /\ InFlight' = {q} => Alone(q)' BY DEF IInv, Alone, TypeOK
<1> QED BY <1>1, <1>2, <1>3, MoveIInv

LEMMA UpdateBeginsIInv ==
  ASSUME IInv, TypeOK', NEW q \in Requests, UpdateBegins(q) PROVE IInv'
<1> USE DEF UpdateBegins, At, Goto, PostgreSQL
<1>1. q \in InFlight BY DEF InFlight
<1>2. LockInv' /\ WaitInv' BY DEF IInv, LockInv, WaitInv, TypeOK
<1>3. q \notin overlapped => Alone(q) BY <1>1 DEF IInv, AloneInv
<1>4. q \notin overlapped /\ InFlight' = {q} => Alone(q)' BY <1>3 DEF IInv, Alone, TypeOK
<1> QED BY <1>1, <1>2, <1>4, MoveIInv

LEMMA UpdateLocksIInv ==
  ASSUME IInv, TypeOK', NEW q \in Requests, UpdateLocks(q) PROVE IInv'
<1> USE DEF UpdateLocks, At, Goto, PostgreSQL
<1>1. q \in InFlight BY DEF InFlight
<1>2. LockInv' BY DEF IInv, LockInv, TypeOK
<1>3. WaitInv' BY DEF IInv, WaitInv, TypeOK
<1>4. PostgreSQL BY DEF IInv, WaitInv
<1>5. q \notin overlapped => Alone(q) BY <1>1 DEF IInv, AloneInv
<1>6. q \notin overlapped /\ InFlight' = {q} => Alone(q)' BY <1>4, <1>5 DEF IInv, Alone, TypeOK
<1> QED BY <1>1, <1>2, <1>3, <1>6, MoveIInv

\* Rejected, committed or failed: the request is no longer in flight and holds no lock.
LEMMA EndIInv ==
  ASSUME IInv, TypeOK', NEW q \in Requests, Reject(q) \/ Commit(q) \/ Fail(q) PROVE IInv'
<1> USE DEF At, Goto, PostgreSQL
<1>1. q \in InFlight BY DEF InFlight, Reject, Commit, Fail
<1>2. \E step \in {"done", "failed"} : Goto(q, step) BY DEF Reject, Commit, Fail
<1>3. UNCHANGED <<database, overlapped>> BY DEF Reject, Commit, Fail
<1>4. LockInv'
  <2>1. CASE Reject(q) BY <2>1 DEF Reject, IInv, LockInv, TypeOK
  <2>2. CASE Commit(q) BY <2>2, DeployAssumption DEF Commit, Unlocked, IInv, LockInv, TypeOK
  <2>3. CASE Fail(q) BY <2>3, DeployAssumption DEF Fail, Unlocked, IInv, LockInv, TypeOK
  <2> QED BY <2>1, <2>2, <2>3
<1>5. WaitInv' BY <1>2, <1>3 DEF IInv, WaitInv, TypeOK
<1> QED BY <1>1, <1>2, <1>3, <1>4, <1>5, MoveIInv

LEMMA StepIInv == IInv /\ [Next]_vars => IInv'
<1> SUFFICES ASSUME IInv, [Next]_vars PROVE IInv' OBVIOUS
<1>1. TypeOK' BY StepTypeOK DEF IInv
<1>2. CASE UNCHANGED vars
  BY <1>2 DEF vars, IInv, TypeOK, LockInv, WaitInv, AloneInv, Alone, InFlight, PostgreSQL
<1> QED
  BY <1>1, <1>2, BeginIInv, ReadActiveIInv, UpdateAtOnceIInv, UpdateBeginsIInv,
     UpdateLocksIInv, EndIInv DEF Next, Rest

LEMMA SpecIInv == Spec => []IInv
<1> QED BY InitIInv, StepIInv, PTL DEF Spec

-----------------------------------------------------------------------------
\* The variables of DeploymentService's rows and requests keep their types.
THEOREM DeploymentTypeOK == Spec => []TypeOK
<1>1. IInv => TypeOK BY DEF IInv
<1> QED BY <1>1, SpecIInv, PTL

\* A deploy or deactivation that overlapped no other leaves exactly its own row
\* active, or none, whatever earlier races and failures had left.
THEOREM AloneDecides == Spec => SoloRequestDecides
<1> DEFINE Decides(q) ==
      At(q, "commit") /\ At(q, "done")' =>
        /\ active' = {q} \cap Deploys
        /\ PostgreSQL /\ q \in Deploys =>
             IF active = {} THEN previous[q] = NoDeployment ELSE previous[q] \in active
<1>1. ASSUME IInv, [Next]_vars, NEW q \in Requests \ overlapped PROVE Decides(q)
  <2> SUFFICES ASSUME pc[q] = "commit", pc'[q] = "done"
               PROVE  /\ active' = {q} \cap Deploys
                      /\ PostgreSQL /\ q \in Deploys =>
                           IF active = {} THEN previous[q] = NoDeployment ELSE previous[q] \in active
    BY DEF At
  <2>1. Alone(q) BY <1>1 DEF IInv, AloneInv, InFlight
  <2>2. TypeOK BY <1>1 DEF IInv
  <2>3. Commit(q)
    BY <1>1, <2>2 DEF Next, Begin, Reject, ReadActive, UpdateAtOnce, UpdateBegins, UpdateLocks,
                      Commit, Fail, Rest, vars, Goto, At, TypeOK
  <2>4. \A d \in active : d \in Deploys /\ (PostgreSQL => lock[d] = q) BY <1>1, <2>1 DEF IInv, TypeOK, Alone
  <2>5. ~PostgreSQL => active = {} BY <2>1 DEF Alone
  <2>6. active' = {q} \cap Deploys BY <2>3, <2>4, <2>5 DEF Commit
  <2> QED BY <2>1, <2>6 DEF Alone
<1>2. IInv /\ [Next]_vars => [\A q \in Requests \ overlapped : Decides(q)]_vars BY <1>1
<1> QED BY <1>2, SpecIInv, PTL DEF Spec, SoloRequestDecides

\* On PostgreSQL the set of active rows is emptied by a deactivation that
\* commits, and by nothing else, for any number of racing deploys.
THEOREM ServiceIsKept == Spec => ServiceNeverDrops
<1> DEFINE Kept == PostgreSQL /\ active # {} /\ active' = {} => \E q \in Deactivations : At(q, "commit")
<1>1. ASSUME NEW q \in Requests, Commit(q) PROVE Kept BY <1>1 DEF Commit, Requests
<1>2. [Next]_vars => [Kept]_active
  <2>1. ASSUME NEW q \in Requests,
               Begin(q) \/ Reject(q) \/ ReadActive(q) \/ UpdateBegins(q) \/ UpdateLocks(q) \/ Fail(q)
        PROVE  active' = active
    BY <2>1 DEF Begin, Reject, ReadActive, UpdateBegins, UpdateLocks, Fail
  <2>2. ASSUME NEW q \in Requests, UpdateAtOnce(q) PROVE Kept BY <2>2 DEF UpdateAtOnce
  <2> QED BY <1>1, <2>1, <2>2 DEF Next, Rest, vars
<1> QED BY <1>2, PTL DEF Spec, ServiceNeverDrops

-----------------------------------------------------------------------------
(* The inference page.                                                     *)
-----------------------------------------------------------------------------
(* Records and lists of records.                                           *)

LEMMA RecentFacts ==
  ASSUME NEW s \in Seq(RunRecords)
  PROVE  /\ Recent(s) \in Seq(RunRecords)
         /\ RunsOf(Recent(s)) \subseteq RunsOf(s)
         /\ s # << >> => s[1].run \in RunsOf(Recent(s))
<1> DEFINE n == IF Len(s) < MaxRecent THEN Len(s) ELSE MaxRecent
<1>1. n \in 0 .. Len(s) /\ (s # << >> => n >= 1) BY InferenceAssumption
<1>2. Recent(s) = SubSeq(s, 1, n) BY DEF Recent
<1>3. /\ SubSeq(s, 1, n) \in Seq(RunRecords) /\ Len(SubSeq(s, 1, n)) = n
      /\ \A i \in 1 .. n : SubSeq(s, 1, n)[i] = s[i]
  BY <1>1
<1> HIDE DEF n
<1> QED BY <1>1, <1>2, <1>3 DEF RunsOf

LEMMA PushFacts ==
  ASSUME NEW u \in RunRecords, NEW h \in Seq(RunRecords)
  PROVE  /\ <<u>> \o h \in Seq(RunRecords) /\ <<u>> \o h # << >>
         /\ (<<u>> \o h)[1] = u
         /\ RunsOf(<<u>> \o h) = {u.run} \cup RunsOf(h)
<1>1. /\ <<u>> \o h \in Seq(RunRecords) /\ Len(<<u>> \o h) = Len(h) + 1 /\ (<<u>> \o h)[1] = u
      /\ \A i \in 1 .. Len(h) : (<<u>> \o h)[i + 1] = h[i]
      /\ Len(h) \in Nat
  OBVIOUS
<1>2. \A i \in 2 .. Len(h) + 1 : (<<u>> \o h)[i] = h[i - 1] BY <1>1
<1>3. RunsOf(<<u>> \o h) \subseteq {u.run} \cup RunsOf(h)
  <2> SUFFICES ASSUME NEW i \in 1 .. Len(h) + 1 PROVE (<<u>> \o h)[i].run \in {u.run} \cup RunsOf(h)
    BY <1>1 DEF RunsOf
  <2>1. CASE i = 1 BY <1>1, <2>1
  <2>2. CASE i # 1
    <3>1. i - 1 \in 1 .. Len(h) /\ (<<u>> \o h)[i] = h[i - 1] BY <1>1, <1>2, <2>2
    <3> QED BY <3>1 DEF RunsOf
  <2> QED BY <2>1, <2>2
<1>4. {u.run} \cup RunsOf(h) \subseteq RunsOf(<<u>> \o h)
  <2>1. u.run \in RunsOf(<<u>> \o h) BY <1>1 DEF RunsOf
  <2>2. ASSUME NEW i \in 1 .. Len(h) PROVE h[i].run \in RunsOf(<<u>> \o h)
    <3>1. i + 1 \in 1 .. Len(<<u>> \o h) /\ (<<u>> \o h)[i + 1] = h[i] BY <1>1
    <3> QED BY <3>1 DEF RunsOf
  <2> QED BY <2>1, <2>2 DEF RunsOf
<1> QED BY <1>1, <1>3, <1>4

LEMMA NewestFacts ==
  ASSUME NEW u \in RunRecords, NEW h \in Seq(RunRecords)
  PROVE  /\ Recent(<<u>> \o h) \in Seq(RunRecords)
         /\ RunsOf(Recent(<<u>> \o h)) \subseteq {u.run} \cup RunsOf(h)
         /\ u.run \in RunsOf(Recent(<<u>> \o h))
<1> DEFINE s == <<u>> \o h
<1>1. s \in Seq(RunRecords) /\ s # << >> /\ s[1] = u /\ RunsOf(s) = {u.run} \cup RunsOf(h) BY PushFacts
<1> HIDE DEF s
<1>2. /\ Recent(s) \in Seq(RunRecords) /\ RunsOf(Recent(s)) \subseteq RunsOf(s)
      /\ s[1].run \in RunsOf(Recent(s))
  BY <1>1, RecentFacts
<1>3. RunsOf(Recent(s)) \subseteq {u.run} \cup RunsOf(h) /\ u.run \in RunsOf(Recent(s)) BY <1>1, <1>2
<1> QED BY <1>2, <1>3 DEF s

LEMMA PrefixFacts ==
  ASSUME NEW s \in Seq(RunRecords), NEW n \in 0 .. Len(s)
  PROVE  /\ SubSeq(s, 1, n) \in Seq(RunRecords)
         /\ RunsOf(SubSeq(s, 1, n)) \subseteq RunsOf(s)
         /\ n > 0 => SubSeq(s, 1, n)[1] \in RunRecords
<1>1. /\ SubSeq(s, 1, n) \in Seq(RunRecords) /\ Len(SubSeq(s, 1, n)) = n
      /\ \A i \in 1 .. n : SubSeq(s, 1, n)[i] = s[i]
  OBVIOUS
<1> QED BY <1>1 DEF RunsOf

LEMMA RecordFacts ==
  /\ None.run = 0 /\ None.status = "none" /\ None \notin RunRecords
  /\ \A u \in RunRecords : u.run \in Runs /\ u.run # 0 /\ u.status \in Outcomes
  /\ \A r \in Runs, s \in Outcomes :
       /\ [run |-> r, status |-> s] \in RunRecords
       /\ [run |-> r, status |-> s].run = r
       /\ [run |-> r, status |-> s].status = s
BY InferenceAssumption DEF None, RunRecords, Runs, Outcomes

-----------------------------------------------------------------------------
(* Types.                                                                  *)

\* Every attempt is a run that was submitted.
AttemptsSubmitted == \A p \in Pages : attempt[p] <= sent

Typed == InferenceTypeOK /\ AttemptsSubmitted

\* What is on display is an outcome of the run beside it.
LEMMA ShowTyped ==
  ASSUME InferenceTypeOK, NEW p \in Pages, NEW u \in RunRecords \cup {None}, ShowRecord(p, u)
  PROVE  /\ shown' \in [Pages -> RunRecords \cup {None}]
         /\ results' \in [Pages -> 0 .. MaxRuns]
<1>1. u.run \in 0 .. MaxRuns BY RecordFacts, InferenceAssumption DEF Runs
<1> QED BY <1>1, InferenceAssumption DEF InferenceTypeOK, ShowRecord

LEMMA DisplayTyped ==
  ASSUME InferenceTypeOK, NEW p \in Pages, NEW u \in RunRecords \cup {None}, Display(p, u)
  PROVE  /\ shown' \in [Pages -> RunRecords \cup {None}]
         /\ results' \in [Pages -> 0 .. MaxRuns]
         /\ error' \in [Pages -> BOOLEAN]
<1>1. ShowRecord(p, u) BY DEF Display
<1>2. shown' \in [Pages -> RunRecords \cup {None}] /\ results' \in [Pages -> 0 .. MaxRuns]
  BY <1>1, ShowTyped
<1>3. (u.status \in {"failure", "cancelled"}) \in BOOLEAN OBVIOUS
<1> QED BY <1>2, <1>3 DEF InferenceTypeOK, Display

LEMMA TypedInit == InferenceInit => Typed
<1> SUFFICES ASSUME InferenceInit PROVE Typed OBVIOUS
<1>1. lsHistory \in Seq(RunRecords)
  <2>1. \A i \in 1 .. Earlier : [run |-> Earlier + 1 - i, status |-> "success"] \in RunRecords
    BY InferenceAssumption DEF RunRecords, Runs, Outcomes
  <2>2. [i \in 1 .. Earlier |-> [run |-> Earlier + 1 - i, status |-> "success"]] \in [1 .. Earlier -> RunRecords]
    BY <2>1
  <2>3. Earlier \in Nat BY InferenceAssumption
  <2>4. lsHistory \in [1 .. Earlier -> RunRecords] BY <2>2 DEF InferenceInit
  <2> QED BY <2>3, <2>4
<1>2. outcome \in [Runs -> Outcomes \cup {"pending", "unknown"}]
  BY DEF InferenceInit, Outcomes
<1>3. None \in RunRecords \cup {None} /\ << >> \in Seq(RunRecords) OBVIOUS
<1>4. /\ request \in [1 .. sent -> RunRequests] /\ sent \in 0 .. MaxRuns
      /\ deployed \in Models \cup {NoModel} /\ lsPending \in 0 .. MaxRuns
      /\ answered \subseteq Runs /\ dropped \subseteq Runs /\ adrift \subseteq Runs
  BY InferenceAssumption DEF InferenceInit
<1>5. AttemptsSubmitted BY InferenceAssumption DEF InferenceInit, AttemptsSubmitted
<1>6. /\ page \in [Pages -> {"unvisited", "mounted", "left", "closed"}]
      /\ loaded \in [Pages -> BOOLEAN]
      /\ deployment \in [Pages -> Models \cup {NoModel}]
      /\ flight \in [Pages -> 0 .. MaxRuns]
      /\ attempt \in [Pages -> 0 .. MaxRuns]
      /\ results \in [Pages -> 0 .. MaxRuns]
      /\ error \in [Pages -> BOOLEAN]
      /\ undeploying \in [Pages -> BOOLEAN]
  BY InferenceAssumption DEF InferenceInit
<1>7. /\ shown \in [Pages -> RunRecords \cup {None}]
      /\ unsaved \in [Pages -> RunRecords \cup {None}]
      /\ history \in [Pages -> Seq(RunRecords)]
  BY <1>3 DEF InferenceInit
<1> QED BY <1>1, <1>2, <1>4, <1>5, <1>6, <1>7 DEF Typed, InferenceTypeOK

LEMMA SubmitTyped ==
  ASSUME Typed, NEW p \in Pages, NEW text \in Inputs, SubmitRun(p, text)
  PROVE  Typed'
<1> DEFINE q == [model |-> deployment[p], input |-> text]
<1>1. sent + 1 \in 0 .. MaxRuns /\ sent + 1 \in Runs /\ sent \in Nat
  BY InferenceAssumption DEF SubmitRun, Typed, InferenceTypeOK, Runs
<1>2. q \in RunRequests
  <2>1. deployment[p] \in Models BY DEF SubmitRun, Typed, InferenceTypeOK
  <2> QED BY <2>1 DEF RunRequests
<1> HIDE DEF q
<1>3. request' \in [1 .. sent' -> RunRequests]
  <2>1. request \in Seq(RunRequests) /\ Len(request) = sent
    BY <1>1 DEF Typed, InferenceTypeOK
  <2>2. request' = Append(request, q) BY DEF SubmitRun, q
  <2>3. Append(request, q) \in Seq(RunRequests) /\ Len(Append(request, q)) = sent + 1
    BY <1>2, <2>1
  <2>4. sent' = sent + 1 BY DEF SubmitRun
  <2>5. request' \in [1 .. Len(request') -> RunRequests]
    BY <2>2, <2>3, LenProperties
  <2> QED BY <2>2, <2>3, <2>4, <2>5
<1>4. (adrift \cup {sent + 1}) \subseteq Runs BY <1>1 DEF Typed, InferenceTypeOK
<1>5. adrift' \subseteq Runs BY <1>4 DEF SubmitRun, Typed, InferenceTypeOK
<1>6. /\ flight' \in [Pages -> 0 .. MaxRuns] /\ attempt' \in [Pages -> 0 .. MaxRuns]
      /\ lsPending' \in 0 .. MaxRuns /\ sent' \in 0 .. MaxRuns
      /\ error' \in [Pages -> BOOLEAN]
  BY <1>1 DEF SubmitRun, Typed, InferenceTypeOK
<1>7. AttemptsSubmitted'
  BY <1>1 DEF SubmitRun, Typed, InferenceTypeOK, AttemptsSubmitted
<1> QED BY <1>3, <1>5, <1>6, <1>7 DEF SubmitRun, Typed, InferenceTypeOK, server

LEMMA SettleTyped ==
  ASSUME Typed, NEW p \in Pages, NEW s \in Outcomes, Settle(p, s)
  PROVE  Typed'
<1> DEFINE r == flight[p]
           u == [run |-> r, status |-> s]
<1>1. r \in Runs BY InferenceAssumption DEF Settle, Typed, InferenceTypeOK, Runs
<1>2. u \in RunRecords \cup {None} BY <1>1, RecordFacts
<1>3. InferenceTypeOK BY DEF Typed
<1>4. /\ shown' \in [Pages -> RunRecords \cup {None}]
      /\ results' \in [Pages -> 0 .. MaxRuns]
      /\ error' \in [Pages -> BOOLEAN]
      /\ unsaved' \in [Pages -> RunRecords \cup {None}]
  <2>1. CASE page[p] = "mounted"
    <3>1. /\ ShowRecord(p, u)
          /\ error' = [error EXCEPT ![p] = @ \/ s # "success"]
          /\ unsaved' = [unsaved EXCEPT ![p] = u]
      BY <2>1 DEF Settle
    <3> HIDE DEF u
    <3>2. shown' \in [Pages -> RunRecords \cup {None}] /\ results' \in [Pages -> 0 .. MaxRuns]
      BY <1>2, <1>3, <3>1, ShowTyped
    <3>3. error' \in [Pages -> BOOLEAN] BY <1>3, <3>1 DEF InferenceTypeOK
    <3> QED BY <1>2, <1>3, <3>1, <3>2, <3>3 DEF InferenceTypeOK
  <2>2. CASE page[p] # "mounted" BY <1>3, <2>2 DEF Settle, InferenceTypeOK, display
  <2> QED BY <2>1, <2>2
<1>5. /\ answered' \subseteq Runs /\ flight' \in [Pages -> 0 .. MaxRuns] /\ lsPending' \in 0 .. MaxRuns
      /\ outcome' \in [Runs -> Outcomes \cup {"pending", "unknown"}]
  BY <1>1, <1>3, InferenceAssumption DEF Settle, InferenceTypeOK
<1> HIDE DEF u, r
<1> QED BY <1>4, <1>5 DEF Settle, Typed, InferenceTypeOK, AttemptsSubmitted, submitted

LEMMA MountTyped ==
  ASSUME Typed, NEW p \in Pages, Mount(p)
  PROVE  Typed'
<1>1. InferenceTypeOK BY DEF Typed
<1>2. PICK keep \in 0 .. Len(lsHistory) : Mount(p)!(keep)
  BY DEF Mount
<1> DEFINE survivors == Unexpired(keep)
           interrupted == [run |-> lsPending, status |-> "failure"]
<1>3. /\ survivors \in Seq(RunRecords) /\ RunsOf(survivors) \subseteq RunsOf(lsHistory)
      /\ keep > 0 => survivors[1] \in RunRecords
  BY <1>1, PrefixFacts DEF Unexpired, InferenceTypeOK
<1>4. lsPending # 0 => interrupted \in RunRecords
  <2>1. lsPending # 0 => lsPending \in Runs BY <1>1, InferenceAssumption DEF InferenceTypeOK, Runs
  <2>2. "failure" \in Outcomes BY DEF Outcomes
  <2> QED BY <2>1, <2>2, RecordFacts
<1>5. RunsOf(lsHistory) \subseteq Runs
  BY <1>1, RecordFacts DEF InferenceTypeOK, RunsOf
<1>6. Unsettled \subseteq Runs
  <2>1. ASSUME NEW q \in Pages PROVE {flight[q], unsaved[q].run} \ {0} \subseteq Runs
    <3>1. unsaved[q] \in RunRecords \cup {None} /\ flight[q] \in 0 .. MaxRuns BY <1>1 DEF InferenceTypeOK
    <3>2. unsaved[q].run \in Runs \cup {0} BY <3>1, RecordFacts
    <3>3. flight[q] \in Runs \cup {0} BY <3>1, InferenceAssumption DEF Runs
    <3> QED BY <3>2, <3>3
  <2> QED BY <2>1 DEF Unsettled
<1>7. /\ shown' \in [Pages -> RunRecords \cup {None}]
      /\ results' \in [Pages -> 0 .. MaxRuns]
      /\ error' \in [Pages -> BOOLEAN]
      /\ unsaved' \in [Pages -> RunRecords \cup {None}]
  <2>1. CASE lsPending # 0
    <3>1. Display(p, interrupted) /\ unsaved' = [unsaved EXCEPT ![p] = interrupted] BY <1>2, <2>1
    <3>2. interrupted \in RunRecords \cup {None} BY <1>4, <2>1
    <3> HIDE DEF interrupted
    <3> QED BY <1>1, <3>1, <3>2, DisplayTyped DEF InferenceTypeOK
  <2>2. CASE lsPending = 0
    <3> DEFINE u == IF keep > 0 THEN survivors[1] ELSE None
    <3>1. Display(p, u) /\ UNCHANGED unsaved BY <1>2, <2>2
    <3>2. u \in RunRecords \cup {None} BY <1>3
    <3> HIDE DEF u
    <3> QED BY <1>1, <3>1, <3>2, DisplayTyped DEF InferenceTypeOK
  <2> QED BY <2>1, <2>2
<1>8. /\ page' \in [Pages -> {"unvisited", "mounted", "left", "closed"}]
      /\ history' \in [Pages -> Seq(RunRecords)]
      /\ lsPending' \in 0 .. MaxRuns /\ dropped' \subseteq Runs /\ adrift' \subseteq Runs
  <2> HIDE DEF survivors, interrupted
  <2>1. /\ page' = [page EXCEPT ![p] = "mounted"] /\ history' = [history EXCEPT ![p] = survivors]
        /\ lsPending' = 0 /\ dropped' = dropped \cup (RunsOf(lsHistory) \ RunsOf(survivors))
        /\ adrift' = adrift \cup Unsettled
    BY <1>2 DEF survivors
  <2> QED BY <1>1, <1>3, <1>5, <1>6, <2>1, InferenceAssumption DEF InferenceTypeOK
<1>9. UNCHANGED <<loaded, deployment, flight, attempt, undeploying, lsHistory, server,
                  submitted, outcome>>
  BY <1>2
<1> HIDE DEF survivors, interrupted
<1> QED BY <1>7, <1>8, <1>9 DEF Typed, InferenceTypeOK, AttemptsSubmitted, server, submitted

LEMMA DiscardTyped ==
  ASSUME Typed, NEW p \in Pages, Discard(p)
  PROVE  /\ loaded' \in [Pages -> BOOLEAN]
         /\ deployment' \in [Pages -> Models \cup {NoModel}]
         /\ attempt' \in [Pages -> 0 .. MaxRuns]
         /\ \A q \in Pages : attempt'[q] <= sent
         /\ shown' \in [Pages -> RunRecords \cup {None}]
         /\ results' \in [Pages -> 0 .. MaxRuns]
         /\ error' \in [Pages -> BOOLEAN]
         /\ unsaved' \in [Pages -> RunRecords \cup {None}]
         /\ history' \in [Pages -> Seq(RunRecords)]
<1>1. Display(p, None) /\ InferenceTypeOK BY DEF Discard, Typed
<1>2. << >> \in Seq(RunRecords) OBVIOUS
<1>3. shown' \in [Pages -> RunRecords \cup {None}] /\ results' \in [Pages -> 0 .. MaxRuns]
      /\ error' \in [Pages -> BOOLEAN]
  BY <1>1, DisplayTyped
<1>4. /\ loaded' \in [Pages -> BOOLEAN] /\ deployment' \in [Pages -> Models \cup {NoModel}]
      /\ unsaved' \in [Pages -> RunRecords \cup {None}] /\ history' \in [Pages -> Seq(RunRecords)]
  BY <1>1, <1>2 DEF Discard, InferenceTypeOK
<1>5. attempt' \in [Pages -> 0 .. MaxRuns] /\ \A q \in Pages : attempt'[q] <= sent
  BY <1>1, InferenceAssumption DEF Discard, InferenceTypeOK, Typed, AttemptsSubmitted
<1> QED BY <1>3, <1>4, <1>5

LEMMA RunTyped ==
  ASSUME Typed, NEW p \in Pages, Run(p) \/ Answer(p)
  PROVE  Typed'
<1>1. InferenceTypeOK BY DEF Typed
<1>2. ASSUME Predict(p) PROVE Typed'
  <2>1. PICK text \in Inputs : SubmitRun(p, text) BY <1>2 DEF Predict
  <2> QED BY <2>1, SubmitTyped
<1>3. ASSUME RetryRun(p) PROVE Typed'
  <2>1. attempt[p] \in 1 .. sent
    BY <1>1, <1>3, InferenceAssumption DEF RetryRun, RetryOffered, Typed, AttemptsSubmitted, InferenceTypeOK
  <2>2. request[attempt[p]] \in RunRequests BY <1>1, <2>1 DEF InferenceTypeOK
  <2>3. request[attempt[p]].input \in Inputs BY <2>2 DEF RunRequests
  <2> QED BY <1>3, <2>3, SubmitTyped DEF RetryRun
<1>4. ASSUME NEW s \in Outcomes, Settle(p, s) PROVE Typed' BY <1>4, SettleTyped
<1>5. CancelRun(p) \/ Succeed(p) \/ FailOrTimeOut(p) => Typed'
  BY <1>4 DEF CancelRun, Succeed, FailOrTimeOut, Outcomes
<1>6. ASSUME RefuseInput(p) PROVE Typed'
  BY <1>1, <1>6 DEF RefuseInput, storage, server, submitted, observed, Typed, AttemptsSubmitted,
                    InferenceTypeOK
<1> QED BY <1>2, <1>3, <1>5, <1>6 DEF Run, Answer

LEMMA AppendTyped ==
  ASSUME Typed, NEW p \in Pages, AppendRunHistory(p)
  PROVE  Typed'
<1> DEFINE next == Recent(<<unsaved[p]>> \o history[p])
<1>1. InferenceTypeOK BY DEF Typed
<1>2. unsaved[p] \in RunRecords /\ history[p] \in Seq(RunRecords)
  BY <1>1 DEF AppendRunHistory, InferenceTypeOK
<1>3. next \in Seq(RunRecords) BY <1>2, NewestFacts
<1>4. RunsOf(history[p]) \subseteq Runs BY <1>2, RecordFacts DEF RunsOf
<1>5. /\ unsaved' = [unsaved EXCEPT ![p] = None]
      /\ history' = [history EXCEPT ![p] = next] /\ lsHistory' = next
      /\ dropped' = dropped \cup (RunsOf(history[p]) \ RunsOf(next))
      /\ UNCHANGED <<page, loaded, deployment, flight, attempt, display, undeploying,
                     lsPending, server, submitted, outcome, adrift>>
  BY DEF AppendRunHistory
<1> HIDE DEF next
<1>6. /\ unsaved' \in [Pages -> RunRecords \cup {None}]
      /\ history' \in [Pages -> Seq(RunRecords)] /\ lsHistory' \in Seq(RunRecords)
      /\ dropped' \subseteq Runs
  BY <1>1, <1>3, <1>4, <1>5 DEF InferenceTypeOK
<1> QED BY <1>5, <1>6 DEF Typed, InferenceTypeOK, AttemptsSubmitted, display, server, submitted

LEMMA LeaveTyped ==
  ASSUME Typed, NEW p \in Pages, Leave(p) \/ CloseTab(p)
  PROVE  Typed'
<1>1. InferenceTypeOK /\ Discard(p) BY DEF Typed, Leave, CloseTab
<1>2. {flight[p], unsaved[p].run} \ {0} \subseteq Runs
  <2>1. unsaved[p] \in RunRecords \cup {None} /\ flight[p] \in 0 .. MaxRuns BY <1>1 DEF InferenceTypeOK
  <2>2. unsaved[p].run \in Runs \cup {0} BY <2>1, RecordFacts
  <2>3. flight[p] \in Runs \cup {0} BY <2>1, InferenceAssumption DEF Runs
  <2> QED BY <2>2, <2>3
<1>3. ASSUME Leave(p) PROVE Typed'
  <2>1. page' \in [Pages -> {"unvisited", "mounted", "left", "closed"}] /\ adrift' \subseteq Runs
    BY <1>1, <1>2, <1>3 DEF Leave, InferenceTypeOK
  <2>2. UNCHANGED <<flight, undeploying, storage, server, submitted, outcome, dropped>>
    BY <1>3 DEF Leave
  <2> QED BY <1>1, <2>1, <2>2, DiscardTyped DEF Typed, InferenceTypeOK, AttemptsSubmitted, storage,
                                                server, submitted
<1>4. ASSUME CloseTab(p) PROVE Typed'
  <2>1. page' \in [Pages -> {"unvisited", "mounted", "left", "closed"}] /\ adrift' \subseteq Runs
    BY <1>1, <1>2, <1>4 DEF CloseTab, InferenceTypeOK
  <2>2. /\ flight' \in [Pages -> 0 .. MaxRuns] /\ undeploying' \in [Pages -> BOOLEAN]
        /\ answered' \subseteq Runs /\ outcome' \in [Runs -> Outcomes \cup {"pending", "unknown"}]
    <3>1. flight[p] = 0 \/ flight[p] \in Runs BY <1>1, InferenceAssumption DEF InferenceTypeOK, Runs
    <3>2. outcome' \in [Runs -> Outcomes \cup {"pending", "unknown"}]
      BY <1>1, <1>4, <3>1 DEF CloseTab, InferenceTypeOK
    <3>3. flight' \in [Pages -> 0 .. MaxRuns]
      BY <1>1, <1>4, InferenceAssumption DEF CloseTab, InferenceTypeOK
    <3>4. undeploying' \in [Pages -> BOOLEAN] /\ answered' \subseteq Runs
      BY <1>1, <1>4 DEF CloseTab, InferenceTypeOK
    <3> QED BY <3>2, <3>3, <3>4
  <2>3. UNCHANGED <<storage, deployed, submitted, dropped>> BY <1>4 DEF CloseTab
  <2> QED BY <1>1, <2>1, <2>2, <2>3, DiscardTyped DEF Typed, InferenceTypeOK, AttemptsSubmitted,
                                                      storage, submitted
<1> QED BY <1>3, <1>4

LEMMA ReviewTyped ==
  ASSUME Typed, NEW p \in Pages, LoadActiveDeployment(p) \/ Review(p)
  PROVE  Typed'
<1>1. InferenceTypeOK BY DEF Typed
<1>2. ASSUME LoadActiveDeployment(p) PROVE Typed'
  BY <1>1, <1>2 DEF LoadActiveDeployment, display, storage, server, submitted, observed, Typed,
                    AttemptsSubmitted, InferenceTypeOK
<1>3. ASSUME NEW u \in RunRecords \cup {None}, Display(p, u),
             UNCHANGED <<page, loaded, deployment, flight, attempt, unsaved, history, undeploying,
                         storage, server, submitted, observed>>
      PROVE  Typed'
  BY <1>1, <1>3, DisplayTyped DEF storage, server, submitted, observed, Typed, AttemptsSubmitted,
                                  InferenceTypeOK
<1>4. ASSUME ClearInput(p) PROVE Typed' BY <1>3, <1>4 DEF ClearInput
<1>5. ASSUME RestoreRun(p) PROVE Typed'
  <2>1. PICK i \in 1 .. Len(history[p]) : Display(p, history[p][i]) BY <1>5 DEF RestoreRun
  <2>2. history[p] \in Seq(RunRecords) BY <1>1 DEF InferenceTypeOK
  <2>3. history[p][i] \in RunRecords BY <2>1, <2>2
  <2> QED BY <1>3, <1>5, <2>1, <2>3 DEF RestoreRun
<1>6. ASSUME EmptyHistory(p)
      PROVE  /\ history' \in [Pages -> Seq(RunRecords)] /\ lsHistory' \in Seq(RunRecords)
             /\ dropped' \subseteq Runs
  <2>1. /\ << >> \in Seq(RunRecords) /\ lsHistory \in Seq(RunRecords)
        /\ history[p] \in Seq(RunRecords)
    BY <1>1 DEF InferenceTypeOK
  <2>2. RunsOf(history[p]) \subseteq Runs /\ RunsOf(lsHistory) \subseteq Runs
    BY <2>1, RecordFacts DEF RunsOf
  <2> QED BY <1>1, <1>6, <2>1, <2>2 DEF EmptyHistory, InferenceTypeOK
<1>7. ASSUME ClearRunHistory(p) PROVE Typed'
  BY <1>1, <1>6, <1>7 DEF ClearRunHistory, display, server, submitted, Typed, AttemptsSubmitted,
                          InferenceTypeOK
<1>8. ASSUME Undeploy(p) PROVE Typed'
  BY <1>1, <1>8 DEF Undeploy, display, storage, submitted, observed, Typed, AttemptsSubmitted,
                    InferenceTypeOK
<1>9. ASSUME ClearUndeployed(p) PROVE Typed'
  <2>1. EmptyHistory(p) BY <1>9 DEF ClearUndeployed
  <2>2. /\ undeploying' \in [Pages -> BOOLEAN]
        /\ deployment' \in [Pages -> Models \cup {NoModel}]
        /\ results' \in [Pages -> 0 .. MaxRuns]
        /\ shown' \in [Pages -> RunRecords \cup {None}]
    <3>1. undeploying' \in [Pages -> BOOLEAN] BY <1>1, <1>9 DEF ClearUndeployed, InferenceTypeOK
    <3>2. CASE page[p] = "mounted"
      <4>1. /\ deployment' = [deployment EXCEPT ![p] = NoModel]
            /\ results' = [results EXCEPT ![p] = 0] /\ shown' = [shown EXCEPT ![p] = None]
        BY <1>9, <3>2 DEF ClearUndeployed
      <4> QED BY <1>1, <3>1, <4>1, InferenceAssumption DEF InferenceTypeOK
    <3>3. CASE page[p] # "mounted"
      BY <1>1, <1>9, <3>1, <3>3 DEF ClearUndeployed, InferenceTypeOK
    <3> QED BY <3>2, <3>3
  <2>3. UNCHANGED <<page, loaded, flight, attempt, error, unsaved, lsPending, server,
                    submitted, outcome, adrift>>
    BY <1>9 DEF ClearUndeployed
  <2> QED BY <1>1, <1>6, <2>1, <2>2, <2>3 DEF server, submitted, Typed, AttemptsSubmitted,
                                              InferenceTypeOK
<1>10. ASSUME UndeployFails(p) PROVE Typed'
  BY <1>1, <1>10 DEF UndeployFails, display, storage, server, submitted, observed, Typed,
                     AttemptsSubmitted, InferenceTypeOK
<1> QED BY <1>2, <1>4, <1>5, <1>7, <1>8, <1>9, <1>10 DEF Review

LEMMA TypedNext == Typed /\ [InferenceNext]_inferenceVars => Typed'
<1> SUFFICES ASSUME Typed, [InferenceNext]_inferenceVars PROVE Typed' OBVIOUS
<1>1. InferenceTypeOK BY DEF Typed
<1>2. ASSUME NEW p \in Pages, Run(p) \/ Answer(p) \/ AppendRunHistory(p) \/ Browse(p) \/ Review(p)
      PROVE  Typed'
  BY <1>2, RunTyped, AppendTyped, MountTyped, LeaveTyped, ReviewTyped DEF Browse
<1>3. ASSUME NEW r \in Runs, ServePrediction(r) PROVE Typed'
  BY <1>1, <1>3 DEF ServePrediction, session, display, storage, submitted, observed, Typed,
                    AttemptsSubmitted, InferenceTypeOK
<1>4. ASSUME NEW m \in Models, Deploy(m) PROVE Typed'
  BY <1>1, <1>4 DEF Deploy, session, display, storage, submitted, observed, Typed,
                    AttemptsSubmitted, InferenceTypeOK
<1>5. CASE UNCHANGED inferenceVars
  BY <1>1, <1>5 DEF inferenceVars, session, display, storage, server, submitted, observed, Typed,
                    AttemptsSubmitted, InferenceTypeOK
<1> QED BY <1>2, <1>3, <1>4, <1>5 DEF InferenceNext

\* The variables have their types in every reachable state.
THEOREM InferenceTyped == InferenceSpec => []InferenceTypeOK
<1>1. InferenceInit => Typed BY TypedInit
<1>2. Typed /\ [InferenceNext]_inferenceVars => Typed' BY TypedNext
<1>3. Typed => InferenceTypeOK BY DEF Typed
<1> QED BY <1>1, <1>2, <1>3, PTL DEF InferenceSpec

-----------------------------------------------------------------------------
(* The predictions on display belong to the label beside them.             *)

\* What every step does to the display of a page: it shows another record as a
\* whole, or leaves the record and its predictions alone, or the page goes.
Redisplays(p) ==
  \/ \E u \in RunRecords \cup {None} :
       /\ shown'[p] = u
       /\ results'[p] = IF u.status = "success" THEN u.run ELSE 0
  \/ shown'[p] = shown[p] /\ results'[p] = results[p] /\ page'[p] = page[p]
  \/ page'[p] # "mounted"

LEMMA ShowRedisplays ==
  ASSUME InferenceTypeOK, NEW p \in Pages, NEW u \in RunRecords \cup {None}, ShowRecord(p, u),
         page' = [page EXCEPT ![p] = "mounted"] \/ page' = page
  PROVE  \A q \in Pages : Redisplays(q)
BY DEF InferenceTypeOK, ShowRecord, Redisplays

LEMMA DisplayRedisplays ==
  ASSUME InferenceTypeOK, NEW p \in Pages, NEW u \in RunRecords \cup {None}, Display(p, u),
         page' = [page EXCEPT ![p] = "mounted"] \/ page' = page
  PROVE  \A q \in Pages : Redisplays(q)
BY ShowRedisplays DEF Display

LEMMA EveryStepRedisplays ==
  ASSUME Typed, [InferenceNext]_inferenceVars
  PROVE  \A q \in Pages : Redisplays(q)
<1>1. InferenceTypeOK BY DEF Typed
<1>2. None \in RunRecords \cup {None} OBVIOUS
<1>3. ASSUME UNCHANGED <<page, shown, results>> PROVE \A q \in Pages : Redisplays(q)
  BY <1>3 DEF Redisplays
<1>4. ASSUME NEW p \in Pages, NEW s \in Outcomes, Settle(p, s) PROVE \A q \in Pages : Redisplays(q)
  <2> DEFINE u == [run |-> flight[p], status |-> s]
  <2>1. u \in RunRecords \cup {None}
    <3>1. flight[p] \in Runs
      BY <1>1, <1>4, InferenceAssumption DEF Settle, InferenceTypeOK, Runs
    <3> QED BY <3>1, RecordFacts
  <2>2. CASE page[p] = "mounted"
    <3>1. ShowRecord(p, u) /\ page' = page BY <1>4, <2>2 DEF Settle
    <3> HIDE DEF u
    <3> QED BY <1>1, <2>1, <3>1, ShowRedisplays
  <2>3. CASE page[p] # "mounted" BY <1>3, <1>4, <2>3 DEF Settle, display
  <2> QED BY <2>2, <2>3
<1>5. ASSUME NEW p \in Pages, Mount(p) PROVE \A q \in Pages : Redisplays(q)
  <2>1. PICK keep \in 0 .. Len(lsHistory) : Mount(p)!(keep) BY <1>5 DEF Mount
  <2> DEFINE survivors == Unexpired(keep)
             interrupted == [run |-> lsPending, status |-> "failure"]
             u == IF lsPending # 0 THEN interrupted ELSE IF keep > 0 THEN survivors[1] ELSE None
  <2>2. keep > 0 => survivors[1] \in RunRecords
    BY <1>1, PrefixFacts DEF Unexpired, InferenceTypeOK
  <2>3. lsPending # 0 => interrupted \in RunRecords
    <3>1. lsPending # 0 => lsPending \in Runs BY <1>1, InferenceAssumption DEF InferenceTypeOK, Runs
    <3>2. "failure" \in Outcomes BY DEF Outcomes
    <3> QED BY <3>1, <3>2, RecordFacts
  <2>4. u \in RunRecords \cup {None} BY <2>2, <2>3
  <2>5. Display(p, u) /\ page' = [page EXCEPT ![p] = "mounted"] BY <2>1
  <2> HIDE DEF u
  <2> QED BY <1>1, <2>4, <2>5, DisplayRedisplays
<1>6. ASSUME NEW p \in Pages, Leave(p) \/ CloseTab(p) PROVE \A q \in Pages : Redisplays(q)
  BY <1>1, <1>6 DEF Leave, CloseTab, Discard, Display, ShowRecord, Redisplays, InferenceTypeOK
<1>7. ASSUME NEW p \in Pages, RestoreRun(p) PROVE \A q \in Pages : Redisplays(q)
  <2>1. PICK i \in 1 .. Len(history[p]) : Display(p, history[p][i]) BY <1>7 DEF RestoreRun
  <2>2. history[p] \in Seq(RunRecords) BY <1>1 DEF InferenceTypeOK
  <2>3. history[p][i] \in RunRecords BY <2>1, <2>2
  <2>4. page' = page BY <1>7 DEF RestoreRun
  <2> QED BY <1>1, <2>1, <2>3, <2>4, DisplayRedisplays
<1>8. ASSUME NEW p \in Pages, ClearInput(p) PROVE \A q \in Pages : Redisplays(q)
  BY <1>1, <1>2, <1>8, DisplayRedisplays DEF ClearInput
<1>9. ASSUME NEW p \in Pages, ClearUndeployed(p) PROVE \A q \in Pages : Redisplays(q)
  <2>1. CASE page[p] = "mounted"
    <3>1. /\ results' = [results EXCEPT ![p] = 0] /\ shown' = [shown EXCEPT ![p] = None]
          /\ page' = page
      BY <1>9, <2>1 DEF ClearUndeployed
    <3>2. None.status # "success" BY RecordFacts
    <3> QED BY <1>1, <1>2, <3>1, <3>2 DEF Redisplays, InferenceTypeOK
  <2>2. CASE page[p] # "mounted" BY <1>3, <1>9, <2>2 DEF ClearUndeployed
  <2> QED BY <2>1, <2>2
<1>10. ASSUME NEW p \in Pages,
              \/ Predict(p) \/ RetryRun(p) \/ RefuseInput(p) \/ AppendRunHistory(p)
              \/ LoadActiveDeployment(p) \/ ClearRunHistory(p) \/ Undeploy(p) \/ UndeployFails(p)
       PROVE  \A q \in Pages : Redisplays(q)
  BY <1>3, <1>10 DEF Predict, RetryRun, SubmitRun, RefuseInput, AppendRunHistory,
                     LoadActiveDeployment, ClearRunHistory, Undeploy, UndeployFails, display
<1>11. CASE UNCHANGED inferenceVars BY <1>3, <1>11 DEF inferenceVars, session, display
<1>12. ASSUME NEW r \in Runs, ServePrediction(r) PROVE \A q \in Pages : Redisplays(q)
  BY <1>3, <1>12 DEF ServePrediction, session, display
<1>13. ASSUME NEW m \in Models, Deploy(m) PROVE \A q \in Pages : Redisplays(q)
  BY <1>3, <1>13 DEF Deploy, session, display
<1>14. ASSUME NEW p \in Pages, CancelRun(p) \/ Succeed(p) \/ FailOrTimeOut(p)
       PROVE  \A q \in Pages : Redisplays(q)
  BY <1>4, <1>14 DEF CancelRun, Succeed, FailOrTimeOut, Outcomes
<1>15. ASSUME NEW p \in Pages, Run(p) \/ Answer(p) \/ AppendRunHistory(p) \/ Browse(p) \/ Review(p)
       PROVE  \A q \in Pages : Redisplays(q)
  BY <1>5, <1>6, <1>7, <1>8, <1>9, <1>10, <1>14, <1>15 DEF Run, Answer, Browse, Review
<1> QED BY <1>11, <1>12, <1>13, <1>15 DEF InferenceNext

\* Whatever the order of runs, failures, restores, undeployments and mounts,
\* the predictions and the label on display are of one run.
THEOREM DisplayIsOneRun == InferenceSpec => []ResultsMatchProvenance
<1>1. InferenceInit => Typed /\ ResultsMatchProvenance
  BY TypedInit DEF InferenceInit, ResultsMatchProvenance
<1>2. Typed /\ ResultsMatchProvenance /\ [InferenceNext]_inferenceVars =>
        Typed' /\ ResultsMatchProvenance'
  <2> SUFFICES ASSUME Typed, ResultsMatchProvenance, [InferenceNext]_inferenceVars
               PROVE  Typed' /\ ResultsMatchProvenance'
    OBVIOUS
  <2>1. Typed' BY TypedNext
  <2>2. ASSUME NEW p \in Pages, page'[p] = "mounted"
        PROVE  /\ results'[p] # 0 <=> shown'[p].status = "success"
               /\ results'[p] # 0 => results'[p] = shown'[p].run
    <3>1. Redisplays(p) BY EveryStepRedisplays
    <3>2. CASE \E u \in RunRecords \cup {None} :
                 /\ shown'[p] = u
                 /\ results'[p] = IF u.status = "success" THEN u.run ELSE 0
      BY <3>2, RecordFacts
    <3>3. CASE shown'[p] = shown[p] /\ results'[p] = results[p] /\ page'[p] = page[p]
      BY <2>2, <3>3 DEF ResultsMatchProvenance
    <3> QED BY <2>2, <3>1, <3>2, <3>3 DEF Redisplays
  <2> QED BY <2>1, <2>2 DEF ResultsMatchProvenance
<1> QED BY <1>1, <1>2, PTL DEF InferenceSpec

-----------------------------------------------------------------------------
(* Every run is remembered.                                                *)

Held(p) == {flight[p], unsaved[p].run}
Excused == dropped \cup adrift

\* A page that is not mounted has nothing to record, and a run that goes on in
\* one is adrift; a page records a run only once it has ended.
PagesTidy ==
  \A p \in Pages :
    /\ page[p] # "mounted" => unsaved[p] = None
    /\ page[p] \in {"unvisited", "closed"} => flight[p] = 0
    /\ page[p] = "left" => flight[p] \in adrift \cup {0}
    /\ flight[p] # 0 => unsaved[p] = None

\* Where another live instance shares the storage, what a page holds is adrift.
SharersAdrift ==
  \A p, q \in Pages : p # q /\ page[p] = "mounted" /\ Alive(q) => Held(p) \subseteq adrift \cup {0}

\* The marker is that of the only live instance's run, and the other way round.
MarkerTrue ==
  \A p \in Pages : lsPending \notin adrift \cup {0} /\ Alive(p) => flight[p] = lsPending
FlightMarked ==
  \A p \in Pages : flight[p] \notin adrift \cup {0} => lsPending = flight[p]

\* The stored history and that of a mounted page differ in excused runs only.
HistoriesAgree ==
  \A p \in Pages : page[p] = "mounted" =>
    /\ RunsOf(lsHistory) \subseteq RunsOf(history[p]) \cup Excused
    /\ RunsOf(history[p]) \subseteq RunsOf(lsHistory) \cup Excused

\* The inductive invariant.
Tracked ==
  /\ Typed
  /\ PagesTidy
  /\ SharersAdrift
  /\ MarkerTrue
  /\ FlightMarked
  /\ HistoriesAgree
  /\ RunsAreRemembered

LEMMA HeldFacts ==
  ASSUME Typed, NEW p \in Pages
  PROVE  /\ flight[p] \in Nat /\ lsPending \in Nat /\ sent \in Nat
         /\ unsaved[p] \in RunRecords \cup {None}
         /\ unsaved[p].run \in Nat
         /\ unsaved[p] = None <=> unsaved[p].run = 0
<1>1. unsaved[p] \in RunRecords \cup {None} BY DEF Typed, InferenceTypeOK
<1>2. unsaved[p].run \in Runs \cup {0} /\ (unsaved[p] = None <=> unsaved[p].run = 0)
  BY <1>1, RecordFacts
<1>3. flight[p] \in Nat /\ lsPending \in Nat /\ sent \in Nat
  BY InferenceAssumption DEF Typed, InferenceTypeOK
<1> QED BY <1>1, <1>2, <1>3, InferenceAssumption DEF Runs

LEMMA TrackedInit == InferenceInit => Tracked
<1> SUFFICES ASSUME InferenceInit PROVE Tracked OBVIOUS
<1>1. Typed BY TypedInit
<1>2. PagesTidy /\ SharersAdrift /\ MarkerTrue /\ FlightMarked /\ HistoriesAgree
  BY DEF InferenceInit, PagesTidy, SharersAdrift, MarkerTrue, FlightMarked, HistoriesAgree
<1>3. ASSUME NEW r \in 1 .. sent PROVE r \in RunsOf(lsHistory)
  <2>1. sent = Earlier /\ Earlier \in Nat BY InferenceAssumption DEF InferenceInit
  <2>2. lsHistory = [i \in 1 .. Earlier |-> [run |-> Earlier + 1 - i, status |-> "success"]]
    BY DEF InferenceInit
  <2>3. Len(lsHistory) = Earlier BY <2>1, <2>2
  <2>4. Earlier + 1 - r \in 1 .. Earlier /\ Earlier + 1 - (Earlier + 1 - r) = r BY <2>1
  <2>5. lsHistory[Earlier + 1 - r].run = r BY <2>2, <2>4
  <2> QED BY <2>3, <2>4, <2>5 DEF RunsOf
<1>4. RunsAreRemembered BY <1>3 DEF RunsAreRemembered, Remembered
<1> QED BY <1>1, <1>2, <1>4 DEF Tracked

\* A step that touches none of these, and brings no instance to life.
LEMMA Frame ==
  ASSUME Tracked, Typed',
         UNCHANGED <<page, flight, unsaved, history, storage, sent, dropped, adrift>>,
         \A p \in Pages : Alive(p)' => Alive(p)
  PROVE  Tracked'
<1>1. PagesTidy' BY DEF Tracked, PagesTidy
<1>2. SharersAdrift' BY DEF Tracked, SharersAdrift, Held
<1>3. MarkerTrue' BY DEF Tracked, MarkerTrue, storage
<1>4. FlightMarked' BY DEF Tracked, FlightMarked, storage
<1>5. HistoriesAgree' BY DEF Tracked, HistoriesAgree, RunsOf, Excused, storage
<1>6. RunsAreRemembered' BY DEF Tracked, RunsAreRemembered, Remembered, RunsOf, storage
<1> QED BY <1>1, <1>2, <1>3, <1>4, <1>5, <1>6 DEF Tracked

LEMMA MountTracked ==
  ASSUME Tracked, Typed', NEW p \in Pages, Mount(p)
  PROVE  Tracked'
<1>0. Typed /\ InferenceTypeOK BY DEF Tracked, Typed
<1>1. PICK keep \in 0 .. Len(lsHistory) : Mount(p)!(keep) BY DEF Mount
<1> DEFINE survivors == Unexpired(keep)
           interrupted == [run |-> lsPending, status |-> "failure"]
<1>2. /\ page[p] = "unvisited" /\ page' = [page EXCEPT ![p] = "mounted"]
      /\ history' = [history EXCEPT ![p] = survivors]
      /\ lsPending' = 0 /\ lsHistory' = lsHistory /\ flight' = flight /\ sent' = sent
      /\ undeploying' = undeploying
      /\ dropped' = dropped \cup (RunsOf(lsHistory) \ RunsOf(survivors))
      /\ adrift' = adrift \cup Unsettled
  BY <1>1 DEF submitted
<1>3. unsaved' = IF lsPending = 0 THEN unsaved ELSE [unsaved EXCEPT ![p] = interrupted]
  BY <1>1
<1>4. flight[p] = 0 /\ unsaved[p] = None /\ None.run = 0 BY <1>2, RecordFacts DEF Tracked, PagesTidy
<1>5. unsaved'[p].run = lsPending /\ \A q \in Pages : q # p => unsaved'[q] = unsaved[q]
  BY <1>0, <1>3, <1>4 DEF InferenceTypeOK
<1>6. RunsOf(survivors) \subseteq RunsOf(lsHistory)
  BY <1>0, PrefixFacts DEF Unexpired, InferenceTypeOK
<1> HIDE DEF survivors, interrupted
<1>7. \A q \in Pages : q # p /\ Alive(q)' => Alive(q) BY <1>0, <1>2 DEF Alive, InferenceTypeOK
<1>8. \A q \in Pages : Alive(q) => Held(q) \subseteq adrift' \cup {0}
  BY <1>2 DEF Held, Unsettled
<1>9. \A q \in Pages : flight[q] \in adrift' \cup {0}
  <2> SUFFICES ASSUME NEW q \in Pages, flight[q] # 0 PROVE flight[q] \in adrift' \cup {0} OBVIOUS
  <2>1. Alive(q) BY <1>0 DEF Tracked, PagesTidy, Alive, InferenceTypeOK
  <2> QED BY <1>8, <2>1 DEF Held
<1>10. \A q \in Pages : Alive(q) => lsPending \in adrift' \cup {0}
  BY <1>2, <1>9 DEF Tracked, MarkerTrue
<1>11. PagesTidy'
  BY <1>0, <1>2, <1>4, <1>5, <1>9 DEF Tracked, PagesTidy, InferenceTypeOK
<1>12. SharersAdrift'
  <2> SUFFICES ASSUME NEW a \in Pages, NEW b \in Pages, a # b, page'[a] = "mounted", Alive(b)'
               PROVE  {flight'[a], unsaved'[a].run} \subseteq adrift' \cup {0}
    BY DEF SharersAdrift, Held
  <2>1. CASE a = p
    BY <1>2, <1>4, <1>5, <1>7, <1>10, <2>1
  <2>2. CASE a # p
    <3>1. Alive(a) BY <1>0, <1>2, <2>2 DEF Alive, InferenceTypeOK
    <3> QED BY <1>2, <1>5, <1>8, <2>2, <3>1 DEF Held
  <2> QED BY <2>1, <2>2
<1>13. MarkerTrue' BY <1>2 DEF MarkerTrue
<1>14. FlightMarked' BY <1>2, <1>9 DEF FlightMarked
<1>15. HistoriesAgree'
  <2> SUFFICES ASSUME NEW q \in Pages, page'[q] = "mounted"
               PROVE  /\ RunsOf(lsHistory) \subseteq RunsOf(history'[q]) \cup dropped' \cup adrift'
                      /\ RunsOf(history'[q]) \subseteq RunsOf(lsHistory) \cup dropped' \cup adrift'
    BY <1>2 DEF HistoriesAgree, Excused, RunsOf
  <2>1. CASE q = p BY <1>0, <1>2, <1>6, <2>1 DEF InferenceTypeOK
  <2>2. CASE q # p
    BY <1>0, <1>2, <2>2 DEF Tracked, HistoriesAgree, Excused, InferenceTypeOK
  <2> QED BY <2>1, <2>2
<1>16. RunsAreRemembered'
  <2> SUFFICES ASSUME NEW r \in 1 .. sent, r \notin adrift'
               PROVE  Remembered(r)'
    BY <1>2 DEF RunsAreRemembered
  <2>1. Remembered(r) /\ r # 0 BY <1>0, <1>2, HeldFacts DEF Tracked, RunsAreRemembered
  <2>2. CASE \E q \in Pages : page[q] = "mounted" /\ r \in {flight[q], unsaved[q].run}
    BY <1>0, <1>2, <1>5, <2>2 DEF Remembered, InferenceTypeOK
  <2>3. CASE lsPending = r
    BY <1>0, <1>2, <1>5, <2>3 DEF Remembered, InferenceTypeOK
  <2>4. CASE r \in RunsOf(lsHistory) \cup dropped
    BY <1>2, <2>4 DEF Remembered, RunsOf
  <2> QED BY <2>1, <2>2, <2>3, <2>4 DEF Remembered
<1> QED BY <1>11, <1>12, <1>13, <1>14, <1>15, <1>16 DEF Tracked

LEMMA AppendTracked ==
  ASSUME Tracked, Typed', NEW p \in Pages, AppendRunHistory(p)
  PROVE  Tracked'
<1> DEFINE next == Recent(<<unsaved[p]>> \o history[p])
<1>0. Typed /\ InferenceTypeOK BY DEF Tracked, Typed
<1>1. /\ page[p] = "mounted" /\ unsaved[p] # None
      /\ unsaved' = [unsaved EXCEPT ![p] = None] /\ history' = [history EXCEPT ![p] = next]
      /\ lsHistory' = next
      /\ dropped' = dropped \cup (RunsOf(history[p]) \ RunsOf(next))
      /\ page' = page /\ flight' = flight /\ undeploying' = undeploying /\ lsPending' = lsPending
      /\ sent' = sent /\ adrift' = adrift
  BY DEF AppendRunHistory, submitted
<1>2. unsaved[p] \in RunRecords /\ history[p] \in Seq(RunRecords)
  BY <1>0, <1>1 DEF InferenceTypeOK
<1>3. /\ RunsOf(next) \subseteq {unsaved[p].run} \cup RunsOf(history[p])
      /\ unsaved[p].run \in RunsOf(next)
  BY <1>2, NewestFacts
<1> HIDE DEF next
<1>4. \A q \in Pages : Alive(q)' <=> Alive(q) BY <1>1 DEF Alive
<1>5. None.run = 0 BY RecordFacts
<1>6. PagesTidy' BY <1>0, <1>1 DEF Tracked, PagesTidy, InferenceTypeOK
<1>7. SharersAdrift'
  <2> SUFFICES ASSUME NEW a \in Pages, NEW b \in Pages, a # b, page[a] = "mounted", Alive(b)
               PROVE  {flight[a], unsaved'[a].run} \subseteq adrift \cup {0}
    BY <1>1, <1>4 DEF SharersAdrift, Held
  <2>1. {flight[a], unsaved[a].run} \subseteq adrift \cup {0} BY DEF Tracked, SharersAdrift, Held
  <2> QED BY <1>0, <1>1, <1>5, <2>1 DEF InferenceTypeOK
<1>8. MarkerTrue' BY <1>1, <1>4 DEF Tracked, MarkerTrue
<1>9. FlightMarked' BY <1>1 DEF Tracked, FlightMarked
<1>10. HistoriesAgree'
  <2> SUFFICES ASSUME NEW q \in Pages, page[q] = "mounted"
               PROVE  /\ RunsOf(next) \subseteq RunsOf(history'[q]) \cup dropped' \cup adrift
                      /\ RunsOf(history'[q]) \subseteq RunsOf(next) \cup dropped' \cup adrift
    BY <1>1 DEF HistoriesAgree, Excused, RunsOf
  <2>1. CASE q = p BY <1>0, <1>1, <2>1 DEF InferenceTypeOK
  <2>2. CASE q # p
    <3>1. unsaved[p].run \in adrift
      <4>1. Alive(q) BY DEF Alive
      <4>2. Held(p) \subseteq adrift \cup {0} BY <1>1, <2>2, <4>1 DEF Tracked, SharersAdrift
      <4>3. unsaved[p].run # 0 BY <1>2, RecordFacts
      <4> QED BY <4>2, <4>3 DEF Held
    <3>2. history'[q] = history[q] BY <1>0, <1>1, <2>2 DEF InferenceTypeOK
    <3>3. /\ RunsOf(lsHistory) \subseteq RunsOf(history[p]) \cup Excused
          /\ RunsOf(history[p]) \subseteq RunsOf(lsHistory) \cup Excused
          /\ RunsOf(lsHistory) \subseteq RunsOf(history[q]) \cup Excused
          /\ RunsOf(history[q]) \subseteq RunsOf(lsHistory) \cup Excused
      BY <1>1 DEF Tracked, HistoriesAgree
    <3> QED BY <1>1, <1>3, <3>1, <3>2, <3>3 DEF Excused
  <2> QED BY <2>1, <2>2
<1>11. RunsAreRemembered'
  <2> SUFFICES ASSUME NEW r \in 1 .. sent, r \notin adrift
               PROVE  Remembered(r)'
    BY <1>1 DEF RunsAreRemembered
  <2>1. Remembered(r) BY DEF Tracked, RunsAreRemembered
  <2>2. r \in RunsOf(next) \/ r \in dropped' => Remembered(r)' BY <1>1 DEF Remembered, RunsOf
  <2>3. ASSUME NEW q \in Pages, page[q] = "mounted", r \in {flight[q], unsaved[q].run}
        PROVE  Remembered(r)'
    <3>1. CASE q # p
      <4>1. unsaved'[q] = unsaved[q] BY <1>0, <1>1, <3>1 DEF InferenceTypeOK
      <4> QED BY <1>1, <2>3, <4>1 DEF Remembered
    <3>2. CASE q = p /\ r = flight[q] BY <1>1, <2>3, <3>2 DEF Remembered
    <3>3. CASE q = p /\ r = unsaved[q].run BY <1>3, <2>2, <3>3
    <3> QED BY <2>3, <3>1, <3>2, <3>3
  <2>4. CASE lsPending = r BY <1>1, <2>4 DEF Remembered
  <2>5. CASE r \in RunsOf(lsHistory) \cup dropped
    <3>1. RunsOf(lsHistory) \subseteq RunsOf(history[p]) \cup Excused
      BY <1>1 DEF Tracked, HistoriesAgree
    <3> QED BY <1>1, <2>2, <2>5, <3>1 DEF Excused
  <2> QED BY <2>1, <2>3, <2>4, <2>5 DEF Remembered
<1> QED BY <1>6, <1>7, <1>8, <1>9, <1>10, <1>11 DEF Tracked

LEMMA SubmitTracked ==
  ASSUME Tracked, Typed', NEW p \in Pages, NEW text \in Inputs, SubmitRun(p, text)
  PROVE  Tracked'
<1> DEFINE r == sent + 1
<1>0. Typed /\ InferenceTypeOK BY DEF Tracked, Typed
<1>1. /\ page[p] = "mounted" /\ unsaved[p] = None /\ flight[p] = 0 /\ Alive(p)
      /\ sent' = r /\ flight' = [flight EXCEPT ![p] = r] /\ lsPending' = r
      /\ adrift' = IF \E q \in Pages \ {p} : Alive(q) THEN adrift \cup {r} ELSE adrift
      /\ page' = page /\ unsaved' = unsaved /\ history' = history /\ undeploying' = undeploying
      /\ lsHistory' = lsHistory /\ dropped' = dropped
  BY DEF SubmitRun, AtPage, Alive
<1>2. /\ flight'[p] = r /\ r # 0 /\ r \in Nat /\ None.run = 0
      /\ \A q \in Pages : q # p => flight'[q] = flight[q]
  BY <1>0, <1>1, HeldFacts, RecordFacts DEF InferenceTypeOK
<1> HIDE DEF r
<1>3. \A q \in Pages : Alive(q)' => Alive(q) BY <1>0, <1>1, <1>2 DEF Alive
<1>4. \A q \in Pages : q # p /\ Alive(q) => r \in adrift' BY <1>1
<1>5. adrift \subseteq adrift' BY <1>1
<1>6. \A q \in Pages : flight[q] \in adrift \cup {0}
  <2> SUFFICES ASSUME NEW q \in Pages, flight[q] # 0 PROVE flight[q] \in adrift OBVIOUS
  <2>1. page[q] \in {"mounted", "left"} BY <1>0 DEF Tracked, PagesTidy, InferenceTypeOK
  <2>2. CASE page[q] = "left" BY <2>2 DEF Tracked, PagesTidy
  <2>3. CASE page[q] = "mounted"
    <3>1. q # p BY <1>1
    <3>2. Held(q) \subseteq adrift \cup {0} BY <1>1, <2>3, <3>1 DEF Tracked, SharersAdrift
    <3> QED BY <3>2 DEF Held
  <2> QED BY <2>1, <2>2, <2>3
<1>7. PagesTidy' BY <1>1, <1>2, <1>5 DEF Tracked, PagesTidy
<1>8. SharersAdrift'
  <2> SUFFICES ASSUME NEW a \in Pages, NEW b \in Pages, a # b, page[a] = "mounted", Alive(b)
               PROVE  {flight'[a], unsaved[a].run} \subseteq adrift' \cup {0}
    BY <1>1, <1>3 DEF SharersAdrift, Held
  <2>1. CASE a = p BY <1>1, <1>2, <1>4, <2>1
  <2>2. CASE a # p
    <3>1. Held(a) \subseteq adrift \cup {0} BY DEF Tracked, SharersAdrift
    <3> QED BY <1>2, <1>5, <2>2, <3>1 DEF Held
  <2> QED BY <2>1, <2>2
<1>9. MarkerTrue' BY <1>1, <1>2, <1>3, <1>4 DEF MarkerTrue
<1>10. FlightMarked' BY <1>1, <1>2, <1>5, <1>6 DEF FlightMarked
<1>11. HistoriesAgree' BY <1>1, <1>5 DEF Tracked, HistoriesAgree, Excused, RunsOf
<1>12. RunsAreRemembered'
  <2> SUFFICES ASSUME NEW x \in 1 .. r, x \notin adrift' PROVE Remembered(x)'
    BY <1>1 DEF RunsAreRemembered
  <2>1. CASE x = r BY <1>1, <1>2, <2>1 DEF Remembered
  <2>2. CASE x # r
    <3>1. x \in 1 .. sent /\ x # 0 BY <1>0, <2>2, HeldFacts DEF r
    <3>2. Remembered(x) /\ x \notin adrift BY <1>5, <3>1 DEF Tracked, RunsAreRemembered
    <3>3. CASE \E q \in Pages : page[q] = "mounted" /\ x \in {flight[q], unsaved[q].run}
      <4>1. PICK q \in Pages : page[q] = "mounted" /\ x \in {flight[q], unsaved[q].run} BY <3>3
      <4>2. q # p BY <1>1, <1>2, <3>1, <4>1
      <4> QED BY <1>1, <1>2, <4>1, <4>2 DEF Remembered
    <3>4. lsPending # x BY <1>1, <3>1, <3>2 DEF Tracked, MarkerTrue
    <3>5. CASE x \in RunsOf(lsHistory) \cup dropped BY <1>1, <3>5 DEF Remembered, RunsOf
    <3> QED BY <3>2, <3>3, <3>4, <3>5 DEF Remembered
  <2> QED BY <2>1, <2>2
<1> QED BY <1>7, <1>8, <1>9, <1>10, <1>11, <1>12 DEF Tracked

LEMMA SettleTracked ==
  ASSUME Tracked, Typed', NEW p \in Pages, NEW s \in Outcomes, Settle(p, s)
  PROVE  Tracked'
<1> DEFINE r == flight[p]
<1>0. Typed /\ InferenceTypeOK BY DEF Tracked, Typed
<1>1. /\ r # 0 /\ flight' = [flight EXCEPT ![p] = 0] /\ lsPending' = 0
      /\ page' = page /\ history' = history /\ undeploying' = undeploying /\ lsHistory' = lsHistory
      /\ sent' = sent /\ dropped' = dropped /\ adrift' = adrift
  BY DEF Settle, submitted
<1>2. /\ flight'[p] = 0 /\ \A q \in Pages : q # p => flight'[q] = flight[q]
      /\ unsaved[p] = None /\ None.run = 0
  BY <1>0, <1>1, RecordFacts DEF Tracked, PagesTidy, InferenceTypeOK
<1>3. /\ page[p] = "mounted" => unsaved'[p].run = r
      /\ page[p] # "mounted" => unsaved' = unsaved
      /\ \A q \in Pages : q # p => unsaved'[q] = unsaved[q]
  <2>1. CASE page[p] = "mounted"
    <3>1. unsaved' = [unsaved EXCEPT ![p] = [run |-> r, status |-> s]] BY <2>1 DEF Settle
    <3> QED BY <1>0, <2>1, <3>1 DEF InferenceTypeOK
  <2>2. CASE page[p] # "mounted" BY <2>2 DEF Settle
  <2> QED BY <2>1, <2>2
<1>4. Alive(p) /\ page[p] \in {"mounted", "left"}
  BY <1>0, <1>1 DEF Tracked, PagesTidy, Alive, InferenceTypeOK
<1> HIDE DEF r
<1>5. \A q \in Pages : Alive(q)' => Alive(q) BY <1>1, <1>2 DEF Alive
<1>6. PagesTidy' BY <1>1, <1>2, <1>3 DEF Tracked, PagesTidy
<1>7. SharersAdrift'
  <2> SUFFICES ASSUME NEW a \in Pages, NEW b \in Pages, a # b, page[a] = "mounted", Alive(b)
               PROVE  {flight'[a], unsaved'[a].run} \subseteq adrift \cup {0}
    BY <1>1, <1>5 DEF SharersAdrift, Held
  <2>1. {flight[a], unsaved[a].run} \subseteq adrift \cup {0} BY DEF Tracked, SharersAdrift, Held
  <2>2. CASE a = p BY <1>2, <1>3, <2>1, <2>2 DEF r
  <2>3. CASE a # p BY <1>2, <1>3, <2>1, <2>3
  <2> QED BY <2>2, <2>3
<1>8. MarkerTrue' BY <1>1 DEF MarkerTrue
<1>9. FlightMarked'
  <2> SUFFICES ASSUME NEW q \in Pages, flight'[q] # 0 PROVE flight'[q] \in adrift'
    BY DEF FlightMarked
  <2>1. q # p /\ flight'[q] = flight[q] BY <1>2
  <2>2. page[q] \in {"mounted", "left"} BY <1>0, <2>1 DEF Tracked, PagesTidy, InferenceTypeOK
  <2>3. CASE page[q] = "left" BY <1>1, <2>1, <2>3 DEF Tracked, PagesTidy
  <2>4. CASE page[q] = "mounted"
    <3>1. Held(q) \subseteq adrift \cup {0} BY <1>4, <2>1, <2>4 DEF Tracked, SharersAdrift
    <3> QED BY <1>1, <2>1, <3>1 DEF Held
  <2> QED BY <2>2, <2>3, <2>4
<1>10. HistoriesAgree' BY <1>1 DEF Tracked, HistoriesAgree, Excused, RunsOf
<1>11. RunsAreRemembered'
  <2> SUFFICES ASSUME NEW x \in 1 .. sent, x \notin adrift PROVE Remembered(x)'
    BY <1>1 DEF RunsAreRemembered
  <2>1. Remembered(x) /\ x # 0 BY <1>0, HeldFacts DEF Tracked, RunsAreRemembered
  <2>2. CASE x = r
    <3>1. page[p] = "mounted" BY <1>1, <1>4, <2>2 DEF Tracked, PagesTidy, r
    <3> QED BY <1>1, <1>3, <2>2, <3>1 DEF Remembered
  <2>3. CASE x # r
    <3>1. lsPending # x BY <1>4, <2>1, <2>3 DEF Tracked, MarkerTrue, r
    <3>2. ASSUME NEW q \in Pages, page[q] = "mounted", x \in {flight[q], unsaved[q].run}
          PROVE  Remembered(x)'
      <4>1. q # p BY <1>2, <2>1, <2>3, <3>2 DEF r
      <4> QED BY <1>1, <1>2, <1>3, <3>2, <4>1 DEF Remembered
    <3>3. CASE x \in RunsOf(lsHistory) \cup dropped BY <1>1, <3>3 DEF Remembered, RunsOf
    <3> QED BY <2>1, <3>1, <3>2, <3>3 DEF Remembered
  <2> QED BY <2>2, <2>3
<1> QED BY <1>6, <1>7, <1>8, <1>9, <1>10, <1>11 DEF Tracked

LEMMA GoneTracked ==
  ASSUME Tracked, Typed', NEW p \in Pages, Leave(p) \/ CloseTab(p)
  PROVE  Tracked'
<1>0. Typed /\ InferenceTypeOK BY DEF Tracked, Typed
<1>1. /\ Alive(p) /\ page' = [page EXCEPT ![p] = IF Leave(p) THEN "left" ELSE "closed"]
      /\ unsaved' = [unsaved EXCEPT ![p] = None] /\ history' = [history EXCEPT ![p] = << >>]
      /\ lsPending' = lsPending /\ lsHistory' = lsHistory /\ sent' = sent /\ dropped' = dropped
  BY DEF Leave, CloseTab, Discard, Alive, storage, submitted
<1>2. /\ page'[p] \in {"left", "closed"} /\ unsaved'[p] = None
      /\ \A q \in Pages : q # p => /\ page'[q] = page[q] /\ unsaved'[q] = unsaved[q]
                                   /\ history'[q] = history[q]
  BY <1>0, <1>1 DEF InferenceTypeOK
<1>3. /\ adrift \subseteq adrift' /\ unsaved[p].run \in adrift' \cup {0}
      /\ page'[p] = "left" => flight' = flight /\ undeploying' = undeploying
                              /\ flight[p] \in adrift' \cup {0}
      /\ page'[p] = "closed" => /\ flight' = [flight EXCEPT ![p] = 0]
                                /\ undeploying' = [undeploying EXCEPT ![p] = FALSE]
  BY <1>0 DEF Leave, CloseTab, InferenceTypeOK
<1>4. \A q \in Pages : flight'[q] = flight[q] \/ flight'[q] = 0
  BY <1>0, <1>2, <1>3 DEF InferenceTypeOK
<1>5. \A q \in Pages : q # p => flight'[q] = flight[q] /\ undeploying'[q] = undeploying[q]
  BY <1>0, <1>2, <1>3 DEF InferenceTypeOK
<1>6. \A q \in Pages : Alive(q)' => Alive(q) /\ flight'[q] = flight[q]
  <2> SUFFICES ASSUME NEW q \in Pages, Alive(q)' PROVE Alive(q) /\ flight'[q] = flight[q] OBVIOUS
  <2>1. CASE q = p BY <1>1, <1>2, <1>3, <2>1 DEF Alive
  <2>2. CASE q # p BY <1>2, <1>5, <2>2 DEF Alive
  <2> QED BY <2>1, <2>2
<1>7. page'[p] = "closed" => flight'[p] = 0 BY <1>0, <1>3 DEF InferenceTypeOK
<1>8. PagesTidy'
  <2> SUFFICES ASSUME NEW q \in Pages
               PROVE  /\ page'[q] # "mounted" => unsaved'[q] = None
                      /\ page'[q] \in {"unvisited", "closed"} => flight'[q] = 0
                      /\ page'[q] = "left" => flight'[q] \in adrift' \cup {0}
                      /\ flight'[q] # 0 => unsaved'[q] = None
    BY DEF PagesTidy
  <2>1. CASE q = p BY <1>2, <1>3, <1>7, <2>1
  <2>2. CASE q # p BY <1>2, <1>3, <1>5, <2>2 DEF Tracked, PagesTidy
  <2> QED BY <2>1, <2>2
<1>9. SharersAdrift'
  <2> SUFFICES ASSUME NEW a \in Pages, NEW b \in Pages, a # b, page'[a] = "mounted", Alive(b)'
               PROVE  {flight'[a], unsaved'[a].run} \subseteq adrift' \cup {0}
    BY DEF SharersAdrift, Held
  <2>1. a # p BY <1>2
  <2>2. Held(a) \subseteq adrift \cup {0} BY <1>2, <1>6, <2>1 DEF Tracked, SharersAdrift
  <2> QED BY <1>2, <1>3, <1>5, <2>1, <2>2 DEF Held
<1>10. MarkerTrue' BY <1>1, <1>3, <1>6 DEF Tracked, MarkerTrue
<1>11. FlightMarked' BY <1>1, <1>3, <1>4 DEF Tracked, FlightMarked
<1>12. HistoriesAgree' BY <1>1, <1>2, <1>3 DEF Tracked, HistoriesAgree, Excused, RunsOf
<1>13. RunsAreRemembered'
  <2> SUFFICES ASSUME NEW r \in 1 .. sent, r \notin adrift' PROVE Remembered(r)'
    BY <1>1 DEF RunsAreRemembered
  <2>1. Remembered(r) /\ r \notin adrift /\ r # 0
    BY <1>0, <1>3, HeldFacts DEF Tracked, RunsAreRemembered
  <2>2. ASSUME NEW q \in Pages, page[q] = "mounted", r \in {flight[q], unsaved[q].run}
        PROVE  Remembered(r)'
    <3>1. CASE q # p BY <1>2, <1>5, <2>2, <3>1 DEF Remembered
    <3>2. CASE q = p
      <4>1. r = flight[p] BY <1>3, <2>1, <2>2, <3>2
      <4>2. lsPending = r BY <2>1, <4>1 DEF Tracked, FlightMarked
      <4> QED BY <1>1, <4>2 DEF Remembered
    <3> QED BY <3>1, <3>2
  <2>3. CASE lsPending = r BY <1>1, <2>3 DEF Remembered
  <2>4. CASE r \in RunsOf(lsHistory) \cup dropped BY <1>1, <2>4 DEF Remembered, RunsOf
  <2> QED BY <2>1, <2>2, <2>3, <2>4 DEF Remembered
<1> QED BY <1>8, <1>9, <1>10, <1>11, <1>12, <1>13 DEF Tracked

LEMMA EmptyTracked ==
  ASSUME Tracked, Typed', NEW p \in Pages, EmptyHistory(p),
         UNCHANGED <<page, flight, unsaved, lsPending, sent, adrift>>,
         \A q \in Pages : Alive(q)' => Alive(q)
  PROVE  Tracked'
<1>0. Typed /\ InferenceTypeOK BY DEF Tracked, Typed
<1>1. /\ history' = [history EXCEPT ![p] = << >>] /\ lsHistory' = << >>
      /\ dropped' = dropped \cup RunsOf(history[p]) \cup RunsOf(lsHistory)
      /\ RunsOf(<< >>) = {}
  BY DEF EmptyHistory, RunsOf
<1>2. PagesTidy' BY DEF Tracked, PagesTidy
<1>3. SharersAdrift' BY DEF Tracked, SharersAdrift, Held
<1>4. MarkerTrue' BY DEF Tracked, MarkerTrue
<1>5. FlightMarked' BY DEF Tracked, FlightMarked
<1>6. HistoriesAgree'
  <2> SUFFICES ASSUME NEW q \in Pages, page[q] = "mounted"
               PROVE  RunsOf(history'[q]) \subseteq dropped' \cup adrift
    BY <1>1 DEF HistoriesAgree, Excused, RunsOf
  <2>1. CASE q = p BY <1>0, <1>1, <2>1 DEF InferenceTypeOK
  <2>2. CASE q # p BY <1>0, <1>1, <2>2 DEF Tracked, HistoriesAgree, Excused, InferenceTypeOK
  <2> QED BY <2>1, <2>2
<1>7. RunsAreRemembered' BY <1>1 DEF Tracked, RunsAreRemembered, Remembered
<1> QED BY <1>2, <1>3, <1>4, <1>5, <1>6, <1>7 DEF Tracked

LEMMA TrackedNext == Tracked /\ [InferenceNext]_inferenceVars => Tracked'
<1> SUFFICES ASSUME Tracked, [InferenceNext]_inferenceVars PROVE Tracked' OBVIOUS
<1>0. Typed /\ InferenceTypeOK BY DEF Tracked, Typed
<1>1. Typed' BY <1>0, TypedNext
<1>2. ASSUME NEW p \in Pages, NEW s \in Outcomes, Settle(p, s) PROVE Tracked'
  BY <1>1, <1>2, SettleTracked
<1>3. ASSUME NEW p \in Pages, Run(p) PROVE Tracked'
  <2>1. CASE Predict(p) BY <1>1, <2>1, SubmitTracked DEF Predict
  <2>2. CASE RetryRun(p)
    <3>1. attempt[p] \in 1 .. sent
      BY <1>0, <2>2, InferenceAssumption DEF RetryRun, RetryOffered, Typed, AttemptsSubmitted,
                                             InferenceTypeOK
    <3>2. request[attempt[p]] \in RunRequests BY <1>0, <3>1 DEF InferenceTypeOK
    <3>3. request[attempt[p]].input \in Inputs BY <3>2 DEF RunRequests
    <3> QED BY <1>1, <2>2, <3>3, SubmitTracked DEF RetryRun
  <2>3. CASE CancelRun(p) BY <1>2, <2>3 DEF CancelRun, Outcomes
  <2>4. CASE RefuseInput(p)
    BY <1>1, <2>4, Frame DEF RefuseInput, submitted, observed, Alive
  <2> QED BY <1>3, <2>1, <2>2, <2>3, <2>4 DEF Run
<1>4. ASSUME NEW p \in Pages, Answer(p) PROVE Tracked'
  BY <1>2, <1>4 DEF Answer, Succeed, FailOrTimeOut, Outcomes
<1>5. ASSUME NEW p \in Pages, AppendRunHistory(p) PROVE Tracked' BY <1>1, <1>5, AppendTracked
<1>6. ASSUME NEW p \in Pages, Browse(p) PROVE Tracked'
  <2>1. CASE LoadActiveDeployment(p)
    BY <1>1, <2>1, Frame DEF LoadActiveDeployment, submitted, observed, Alive
  <2> QED BY <1>1, <1>6, <2>1, MountTracked, GoneTracked DEF Browse
<1>7. ASSUME NEW p \in Pages, Review(p) PROVE Tracked'
  <2>1. CASE ClearInput(p) \/ RestoreRun(p)
    BY <1>1, <2>1, Frame DEF ClearInput, RestoreRun, submitted, observed, Alive
  <2>2. CASE ClearRunHistory(p)
    BY <1>1, <2>2, EmptyTracked DEF ClearRunHistory, submitted, Alive
  <2>3. CASE Undeploy(p)
    <3>1. \A q \in Pages : Alive(q)' => Alive(q)
      BY <1>0, <2>3 DEF Undeploy, AtPage, Alive, InferenceTypeOK
    <3> QED BY <1>1, <2>3, <3>1, Frame DEF Undeploy, submitted, observed
  <2>4. CASE ClearUndeployed(p)
    <3>1. \A q \in Pages : Alive(q)' => Alive(q)
      BY <1>0, <2>4 DEF ClearUndeployed, Alive, InferenceTypeOK
    <3> QED BY <1>1, <2>4, <3>1, EmptyTracked DEF ClearUndeployed, submitted
  <2>5. CASE UndeployFails(p)
    <3>1. \A q \in Pages : Alive(q)' => Alive(q)
      BY <1>0, <2>5 DEF UndeployFails, Alive, InferenceTypeOK
    <3> QED BY <1>1, <2>5, <3>1, Frame DEF UndeployFails, submitted, observed
  <2> QED BY <1>7, <2>1, <2>2, <2>3, <2>4, <2>5 DEF Review
<1>8. ASSUME NEW r \in Runs, ServePrediction(r) PROVE Tracked'
  BY <1>1, <1>8, Frame DEF ServePrediction, session, submitted, observed, Alive
<1>9. ASSUME NEW m \in Models, Deploy(m) PROVE Tracked'
  BY <1>1, <1>9, Frame DEF Deploy, session, submitted, observed, Alive
<1>10. CASE UNCHANGED inferenceVars
  BY <1>1, <1>10, Frame DEF inferenceVars, session, submitted, observed, Alive
<1> QED BY <1>3, <1>4, <1>5, <1>6, <1>7, <1>8, <1>9, <1>10 DEF InferenceNext

\* No run is forgotten, whichever of its steps a closed tab or a reload falls
\* between, unless it was cleared, aged out, or its page was left or shared the
\* storage.
THEOREM NoRunForgotten == InferenceSpec => []RunsAreRemembered
<1>1. InferenceInit => Tracked BY TrackedInit
<1>2. Tracked /\ [InferenceNext]_inferenceVars => Tracked' BY TrackedNext
<1>3. Tracked => RunsAreRemembered BY DEF Tracked
<1> QED BY <1>1, <1>2, <1>3, PTL DEF InferenceSpec

-----------------------------------------------------------------------------
(* Every record is of one run and tells how it ended.                      *)

\* How a record names the end of a run: one that a reload interrupted failed.
Ending(o) == IF o = "unknown" THEN "failure" ELSE o

\* With n runs submitted, the adrift ones a and the outcomes o.
Truthful(u, a, o) == u.run \notin a => u.status = Ending(o[u.run])
Sound(h, n, a, o) ==
  /\ RunsOf(h) \subseteq 1 .. n
  /\ \A i, k \in 1 .. Len(h) : h[k].run = h[i].run => k = i
  /\ \A i \in 1 .. Len(h) : Truthful(h[i], a, o)

ListsSound ==
  /\ Sound(lsHistory, sent, adrift, outcome)
  /\ \A p \in Pages : Sound(history[p], sent, adrift, outcome)

\* A page has not recorded the run it has in flight, nor the one it is about
\* to record.
NextRecords ==
  \A p \in Pages :
    /\ flight[p] \in 0 .. sent /\ flight[p] \notin RunsOf(history[p])
    /\ unsaved[p] # None => /\ unsaved[p].run \in 1 .. sent \ RunsOf(history[p])
                            /\ Truthful(unsaved[p], adrift, outcome)

\* The run marked as pending is recorded nowhere, and nobody is about to record
\* it but the page that has it in flight, if it still is.
MarkerUnrecorded ==
  lsPending # 0 =>
    /\ lsPending \in 1 .. sent \ RunsOf(lsHistory)
    /\ \A p \in Pages : lsPending \notin RunsOf(history[p]) \cup {unsaved[p].run}
MarkerInterrupted ==
  lsPending \notin adrift \cup {0} =>
    outcome[lsPending] = "unknown" \/ \E p \in Pages : flight[p] = lsPending

\* The inductive invariant.
Books ==
  /\ Tracked
  /\ ListsSound
  /\ NextRecords
  /\ MarkerUnrecorded
  /\ MarkerInterrupted

\* A sound list stays so while runs are submitted and set adrift and the runs it
\* names keep their outcomes.
LEMMA SoundLater ==
  ASSUME NEW h \in Seq(RunRecords), NEW n \in Nat, NEW m \in Nat, n <= m,
         NEW a, NEW b, a \subseteq b, NEW o, NEW q,
         Sound(h, n, a, o), \A r \in RunsOf(h) : r \notin b => q[r] = o[r]
  PROVE  Sound(h, m, b, q)
<1>1. \A i \in 1 .. Len(h) : h[i].run \in RunsOf(h) BY DEF RunsOf
<1>2. \A i \in 1 .. Len(h) : Truthful(h[i], b, q) BY <1>1 DEF Sound, Truthful
<1>3. RunsOf(h) \subseteq 1 .. m BY DEF Sound
<1> QED BY <1>2, <1>3 DEF Sound

LEMMA SoundPrefix ==
  ASSUME NEW h \in Seq(RunRecords), NEW k \in 0 .. Len(h), NEW n, NEW a, NEW o, Sound(h, n, a, o)
  PROVE  Sound(SubSeq(h, 1, k), n, a, o)
<1>1. /\ Len(SubSeq(h, 1, k)) = k /\ \A i \in 1 .. k : i \in 1 .. Len(h) /\ SubSeq(h, 1, k)[i] = h[i]
      /\ RunsOf(SubSeq(h, 1, k)) \subseteq RunsOf(h)
  BY PrefixFacts
<1> QED BY <1>1 DEF Sound

LEMMA SoundPush ==
  ASSUME NEW u \in RunRecords, NEW h \in Seq(RunRecords), NEW n, NEW a, NEW o,
         Sound(h, n, a, o), u.run \in 1 .. n \ RunsOf(h), Truthful(u, a, o)
  PROVE  Sound(Recent(<<u>> \o h), n, a, o)
<1> DEFINE s == <<u>> \o h
<1>1. /\ s \in Seq(RunRecords) /\ Len(s) = Len(h) + 1 /\ s[1] = u /\ Len(h) \in Nat
      /\ RunsOf(s) = {u.run} \cup RunsOf(h)
  BY PushFacts
<1>2. \A i \in 1 .. Len(s) : i # 1 => i - 1 \in 1 .. Len(h) /\ s[i] = h[i - 1] BY <1>1
<1>3. \A i \in 1 .. Len(h) : h[i].run \in RunsOf(h) BY DEF RunsOf
<1> HIDE DEF s
<1>4. \A i \in 1 .. Len(s) : Truthful(s[i], a, o) BY <1>1, <1>2 DEF Sound
<1>5. ASSUME NEW i \in 1 .. Len(s), NEW k \in 1 .. Len(s), s[k].run = s[i].run PROVE k = i
  <2>1. CASE i = 1 \/ k = 1 BY <1>1, <1>2, <1>3, <1>5, <2>1
  <2>2. CASE i # 1 /\ k # 1
    <3>1. h[k - 1].run = h[i - 1].run /\ k - 1 \in 1 .. Len(h) /\ i - 1 \in 1 .. Len(h)
      BY <1>2, <1>5, <2>2
    <3>2. k - 1 = i - 1 BY <3>1 DEF Sound
    <3> QED BY <3>2
  <2> QED BY <2>1, <2>2
<1>6. Sound(s, n, a, o) BY <1>1, <1>4, <1>5 DEF Sound
<1>7. (IF Len(s) < MaxRecent THEN Len(s) ELSE MaxRecent) \in 0 .. Len(s) BY <1>1, InferenceAssumption
<1>8. Sound(Recent(s), n, a, o) BY <1>1, <1>6, <1>7, SoundPrefix DEF Recent
<1> QED BY <1>8 DEF s

LEMMA SoundEmpty == \A n, a, o : Sound(<< >>, n, a, o) BY DEF Sound, RunsOf

LEMMA BooksInit == InferenceInit => Books
<1> SUFFICES ASSUME InferenceInit PROVE Books OBVIOUS
<1>1. Tracked BY TrackedInit
<1>2. sent = Earlier /\ Earlier \in Nat /\ Earlier <= MaxRuns /\ MaxRuns \in Nat
  BY InferenceAssumption DEF InferenceInit
<1>3. /\ Len(lsHistory) = Earlier
      /\ \A i \in 1 .. Earlier : lsHistory[i] = [run |-> Earlier + 1 - i, status |-> "success"]
  BY <1>2 DEF InferenceInit
<1>4. \A i \in 1 .. Earlier : lsHistory[i].run = Earlier + 1 - i /\ lsHistory[i].status = "success"
  BY <1>3
<1>5. \A r \in 1 .. Earlier : outcome[r] = "success" BY <1>2 DEF InferenceInit, Runs
<1>6. Sound(lsHistory, sent, adrift, outcome)
  <2>1. \A i \in 1 .. Earlier : Earlier + 1 - i \in 1 .. Earlier BY <1>2
  <2>2. RunsOf(lsHistory) \subseteq 1 .. sent BY <1>2, <1>3, <1>4, <2>1 DEF RunsOf
  <2>3. \A i \in 1 .. Earlier : Truthful(lsHistory[i], adrift, outcome)
    BY <1>4, <1>5, <2>1 DEF Truthful, Ending
  <2>4. \A i, k \in 1 .. Earlier : Earlier + 1 - k = Earlier + 1 - i => k = i BY <1>2
  <2> QED BY <1>3, <1>4, <2>2, <2>3, <2>4 DEF Sound
<1>7. ListsSound BY <1>6, SoundEmpty DEF ListsSound, InferenceInit
<1>8. NextRecords BY <1>2 DEF NextRecords, InferenceInit, RunsOf
<1>9. MarkerUnrecorded /\ MarkerInterrupted BY DEF MarkerUnrecorded, MarkerInterrupted, InferenceInit
<1> QED BY <1>1, <1>7, <1>8, <1>9 DEF Books

LEMMA FrameBooks ==
  ASSUME Books, Tracked',
         UNCHANGED <<flight, unsaved, history, storage, sent, outcome>>, adrift \subseteq adrift'
  PROVE  Books'
<1>0. /\ sent \in Nat /\ lsHistory \in Seq(RunRecords)
      /\ \A p \in Pages : history[p] \in Seq(RunRecords)
  BY InferenceAssumption DEF Books, Tracked, Typed, InferenceTypeOK
<1>1. ListsSound' BY <1>0, SoundLater DEF Books, ListsSound, storage
<1>2. NextRecords' BY DEF Books, NextRecords, RunsOf, Truthful
<1>3. MarkerUnrecorded' BY DEF Books, MarkerUnrecorded, RunsOf, storage
<1>4. MarkerInterrupted' BY DEF Books, MarkerInterrupted, storage
<1> QED BY <1>1, <1>2, <1>3, <1>4 DEF Books

LEMMA MountBooks ==
  ASSUME Books, Tracked', NEW p \in Pages, Mount(p)
  PROVE  Books'
<1>0. Tracked /\ Typed /\ InferenceTypeOK BY DEF Books, Tracked, Typed
<1>1. PICK keep \in 0 .. Len(lsHistory) : Mount(p)!(keep) BY DEF Mount
<1> DEFINE survivors == Unexpired(keep)
           u == [run |-> lsPending, status |-> "failure"]
<1>2. /\ page[p] = "unvisited" /\ history' = [history EXCEPT ![p] = survivors]
      /\ lsPending' = 0 /\ lsHistory' = lsHistory /\ flight' = flight /\ sent' = sent
      /\ outcome' = outcome /\ adrift' = adrift \cup Unsettled
  BY <1>1 DEF submitted
<1>3. unsaved' = IF lsPending = 0 THEN unsaved ELSE [unsaved EXCEPT ![p] = u] BY <1>1
<1>4. flight[p] = 0 /\ unsaved[p] = None BY <1>0, <1>2 DEF Tracked, PagesTidy
<1>5. /\ sent \in Nat /\ lsHistory \in Seq(RunRecords)
      /\ \A q \in Pages : history[q] \in Seq(RunRecords)
  BY <1>0, InferenceAssumption DEF InferenceTypeOK
<1>6. /\ survivors \in Seq(RunRecords) /\ RunsOf(survivors) \subseteq RunsOf(lsHistory)
      /\ Sound(survivors, sent, adrift, outcome)
  BY <1>5, PrefixFacts, SoundPrefix DEF Unexpired, Books, ListsSound
<1>7. 0 \notin RunsOf(survivors) BY <1>6 DEF Sound
<1> HIDE DEF survivors
<1>8. \A q \in Pages : history'[q] = IF q = p THEN survivors ELSE history[q]
  BY <1>0, <1>2 DEF InferenceTypeOK
<1>9. ListsSound'
  BY <1>2, <1>5, <1>6, <1>8, SoundLater DEF Books, ListsSound
<1>10. lsPending # 0 => /\ lsPending \in 1 .. sent \ RunsOf(survivors)
                        /\ Truthful(u, adrift', outcome)
  <2> SUFFICES ASSUME lsPending # 0 PROVE /\ lsPending \in 1 .. sent \ RunsOf(survivors)
                                          /\ Truthful(u, adrift', outcome)
    OBVIOUS
  <2>1. lsPending \in 1 .. sent \ RunsOf(survivors) BY <1>6 DEF Books, MarkerUnrecorded
  <2>2. ASSUME lsPending \notin adrift' PROVE outcome[lsPending] = "unknown"
    <3>1. ASSUME NEW q \in Pages, flight[q] = lsPending PROVE FALSE
      <4>1. Alive(q) BY <1>0, <3>1 DEF Tracked, PagesTidy, Alive, InferenceTypeOK
      <4> QED BY <1>2, <2>2, <3>1, <4>1 DEF Unsettled
    <3> QED BY <1>2, <2>2, <3>1 DEF Books, MarkerInterrupted
  <2> QED BY <2>1, <2>2 DEF Truthful, Ending
<1>11. NextRecords'
  <2> SUFFICES ASSUME NEW q \in Pages
               PROVE  /\ flight[q] \in 0 .. sent /\ flight[q] \notin RunsOf(history'[q])
                      /\ unsaved'[q] # None => /\ unsaved'[q].run \in 1 .. sent \ RunsOf(history'[q])
                                               /\ Truthful(unsaved'[q], adrift', outcome)
    BY <1>2 DEF NextRecords, RunsOf
  <2>1. CASE q = p
    <3>1. unsaved'[p] = IF lsPending = 0 THEN None ELSE u BY <1>0, <1>3, <1>4 DEF InferenceTypeOK
    <3>2. u.run = lsPending OBVIOUS
    <3> HIDE DEF u
    <3> QED BY <1>4, <1>5, <1>7, <1>8, <1>10, <2>1, <3>1, <3>2
  <2>2. CASE q # p
    <3>1. unsaved'[q] = unsaved[q] BY <1>0, <1>3, <2>2 DEF InferenceTypeOK
    <3> QED BY <1>2, <1>8, <2>2, <3>1 DEF Books, NextRecords, Truthful
  <2> QED BY <2>1, <2>2
<1>12. MarkerUnrecorded' /\ MarkerInterrupted' BY <1>2 DEF MarkerUnrecorded, MarkerInterrupted
<1> QED BY <1>9, <1>11, <1>12 DEF Books

LEMMA AppendBooks ==
  ASSUME Books, Tracked', NEW p \in Pages, AppendRunHistory(p)
  PROVE  Books'
<1> DEFINE next == Recent(<<unsaved[p]>> \o history[p])
<1>0. Tracked /\ Typed /\ InferenceTypeOK BY DEF Books, Tracked, Typed
<1>1. /\ unsaved[p] # None
      /\ unsaved' = [unsaved EXCEPT ![p] = None] /\ history' = [history EXCEPT ![p] = next]
      /\ lsHistory' = next /\ flight' = flight /\ lsPending' = lsPending
      /\ sent' = sent /\ adrift' = adrift /\ outcome' = outcome
  BY DEF AppendRunHistory, submitted
<1>2. unsaved[p] \in RunRecords /\ history[p] \in Seq(RunRecords)
  BY <1>0, <1>1 DEF InferenceTypeOK
<1>3. RunsOf(next) \subseteq {unsaved[p].run} \cup RunsOf(history[p])
  BY <1>2, NewestFacts
<1>4. Sound(next, sent, adrift, outcome)
  BY <1>1, <1>2, SoundPush DEF Books, ListsSound, NextRecords
<1> HIDE DEF next
<1>5. \A q \in Pages : /\ history'[q] = IF q = p THEN next ELSE history[q]
                       /\ unsaved'[q] = IF q = p THEN None ELSE unsaved[q]
  BY <1>0, <1>1 DEF InferenceTypeOK
<1>6. flight[p] = 0 /\ 0 \notin RunsOf(next) BY <1>0, <1>1, <1>4 DEF Tracked, PagesTidy, Sound
<1>7. ListsSound' BY <1>1, <1>4, <1>5 DEF Books, ListsSound
<1>8. NextRecords'
  <2> SUFFICES ASSUME NEW q \in Pages
               PROVE  /\ flight[q] \in 0 .. sent /\ flight[q] \notin RunsOf(history'[q])
                      /\ unsaved'[q] # None => /\ unsaved'[q].run \in 1 .. sent \ RunsOf(history'[q])
                                               /\ Truthful(unsaved'[q], adrift, outcome)
    BY <1>1 DEF NextRecords, RunsOf
  <2>1. CASE q = p BY <1>5, <1>6, <2>1 DEF Books, NextRecords
  <2>2. CASE q # p BY <1>5, <2>2 DEF Books, NextRecords
  <2> QED BY <2>1, <2>2
<1>9. MarkerUnrecorded'
  <2> SUFFICES ASSUME lsPending # 0
               PROVE  /\ lsPending \in 1 .. sent \ RunsOf(next)
                      /\ \A q \in Pages : lsPending \notin RunsOf(history'[q]) \cup {unsaved'[q].run}
    BY <1>1 DEF MarkerUnrecorded, RunsOf
  <2>1. lsPending \in 1 .. sent \ RunsOf(next) BY <1>3 DEF Books, MarkerUnrecorded
  <2> QED BY <1>5, <2>1, RecordFacts DEF Books, MarkerUnrecorded
<1>10. MarkerInterrupted' BY <1>1 DEF Books, MarkerInterrupted
<1> QED BY <1>7, <1>8, <1>9, <1>10 DEF Books

LEMMA SubmitBooks ==
  ASSUME Books, Tracked', NEW p \in Pages, NEW text \in Inputs, SubmitRun(p, text)
  PROVE  Books'
<1> DEFINE r == sent + 1
<1>0. Tracked /\ Typed /\ InferenceTypeOK BY DEF Books, Tracked, Typed
<1>1. /\ unsaved[p] = None /\ sent' = r /\ flight' = [flight EXCEPT ![p] = r] /\ lsPending' = r
      /\ adrift \subseteq adrift' /\ unsaved' = unsaved /\ history' = history
      /\ lsHistory' = lsHistory /\ outcome' = outcome
  BY DEF SubmitRun, AtPage
<1>2. /\ sent \in Nat /\ lsHistory \in Seq(RunRecords)
      /\ \A q \in Pages : history[q] \in Seq(RunRecords)
  BY <1>0, InferenceAssumption DEF InferenceTypeOK
<1>3. r \in 1 .. r /\ r \notin 1 .. sent /\ r # 0 /\ sent <= r /\ 0 .. sent \subseteq 0 .. r
      /\ 1 .. sent \subseteq 1 .. r /\ r \in Nat /\ r \in 0 .. r
  BY <1>2
<1> HIDE DEF r
<1>4. \A q \in Pages : flight'[q] = IF q = p THEN r ELSE flight[q] BY <1>0, <1>1 DEF InferenceTypeOK
<1>5. r \notin RunsOf(lsHistory) /\ \A q \in Pages : r \notin RunsOf(history[q])
  BY <1>3 DEF Books, ListsSound, Sound
<1>6. \A q \in Pages : r # unsaved[q].run
  BY <1>3, RecordFacts DEF Books, NextRecords
<1>7. ListsSound' BY <1>1, <1>2, <1>3, SoundLater DEF Books, ListsSound
<1>8. NextRecords'
  <2> SUFFICES ASSUME NEW q \in Pages
               PROVE  /\ flight'[q] \in 0 .. r /\ flight'[q] \notin RunsOf(history[q])
                      /\ unsaved[q] # None => /\ unsaved[q].run \in 1 .. r \ RunsOf(history[q])
                                              /\ Truthful(unsaved[q], adrift', outcome)
    BY <1>1 DEF NextRecords, RunsOf
  <2>1. flight'[q] \in 0 .. r /\ flight'[q] \notin RunsOf(history[q])
    BY <1>3, <1>4, <1>5 DEF Books, NextRecords
  <2>2. unsaved[q] # None => /\ unsaved[q].run \in 1 .. r \ RunsOf(history[q])
                             /\ Truthful(unsaved[q], adrift', outcome)
    BY <1>1, <1>3 DEF Books, NextRecords, Truthful
  <2> QED BY <2>1, <2>2
<1>9. MarkerUnrecorded' BY <1>1, <1>3, <1>5, <1>6 DEF MarkerUnrecorded, RunsOf
<1>10. MarkerInterrupted' BY <1>1, <1>4 DEF MarkerInterrupted
<1> QED BY <1>7, <1>8, <1>9, <1>10 DEF Books

LEMMA SettleBooks ==
  ASSUME Books, Tracked', NEW p \in Pages, NEW s \in Outcomes, Settle(p, s)
  PROVE  Books'
<1> DEFINE r == flight[p]
           u == [run |-> r, status |-> s]
<1>0. Tracked /\ Typed /\ InferenceTypeOK BY DEF Books, Tracked, Typed
<1>1. /\ r # 0 /\ flight' = [flight EXCEPT ![p] = 0] /\ lsPending' = 0
      /\ outcome' = [outcome EXCEPT ![r] = s] /\ history' = history /\ lsHistory' = lsHistory
      /\ sent' = sent /\ adrift' = adrift
  BY DEF Settle, submitted
<1>2. /\ sent \in Nat /\ lsHistory \in Seq(RunRecords)
      /\ \A q \in Pages : history[q] \in Seq(RunRecords)
  BY <1>0, InferenceAssumption DEF InferenceTypeOK
<1>3. r \in 1 .. sent /\ r \in Runs
  <2>1. r \in 0 .. sent /\ r \in 0 .. MaxRuns BY <1>0 DEF Books, NextRecords, InferenceTypeOK
  <2> QED BY <1>1, <1>2, <2>1, InferenceAssumption DEF Runs
<1>4. /\ outcome'[r] = s /\ \A x \in Runs : x # r => outcome'[x] = outcome[x]
      /\ Ending(s) = s
  <2>1. outcome'[r] = s /\ \A x \in Runs : x # r => outcome'[x] = outcome[x]
    BY <1>0, <1>1, <1>3 DEF InferenceTypeOK
  <2> QED BY <2>1 DEF Outcomes, Ending
<1>5. r \notin adrift =>
        /\ r \notin RunsOf(lsHistory)
        /\ \A q \in Pages : r \notin RunsOf(history[q]) \cup {unsaved[q].run}
  <2>1. r \notin adrift => lsPending = r BY <1>0, <1>1 DEF Tracked, FlightMarked
  <2> QED BY <1>1, <2>1 DEF Books, MarkerUnrecorded
<1>6. ListsSound'
  <2>1. ASSUME NEW h \in Seq(RunRecords), Sound(h, sent, adrift, outcome),
               r \notin adrift => r \notin RunsOf(h)
        PROVE  Sound(h, sent, adrift, outcome')
    <3>1. RunsOf(h) \subseteq Runs BY RecordFacts DEF RunsOf
    <3>2. \A x \in RunsOf(h) : x \notin adrift => outcome'[x] = outcome[x]
      BY <1>4, <2>1, <3>1
    <3>3. sent <= sent /\ adrift \subseteq adrift BY <1>2
    <3> QED BY <1>2, <2>1, <3>2, <3>3, SoundLater
  <2> QED BY <1>1, <1>2, <1>5, <2>1 DEF Books, ListsSound
<1>7. \A q \in Pages : flight'[q] = IF q = p THEN 0 ELSE flight[q]
  BY <1>0, <1>1 DEF InferenceTypeOK
<1>8. NextRecords'
  <2> SUFFICES ASSUME NEW q \in Pages
               PROVE  /\ flight'[q] \in 0 .. sent /\ flight'[q] \notin RunsOf(history[q])
                      /\ unsaved'[q] # None => /\ unsaved'[q].run \in 1 .. sent \ RunsOf(history[q])
                                               /\ Truthful(unsaved'[q], adrift, outcome')
    BY <1>1 DEF NextRecords, RunsOf
  <2>1. 0 \notin RunsOf(history[q])
    <3>1. Sound(history[q], sent, adrift, outcome) BY DEF Books, ListsSound
    <3>2. RunsOf(history[q]) \subseteq 1 .. sent BY <3>1 DEF Sound
    <3>3. 0 \notin 1 .. sent BY <1>2
    <3> QED BY <3>2, <3>3
  <2>2. flight'[q] \in 0 .. sent /\ flight'[q] \notin RunsOf(history[q])
    BY <1>2, <1>7, <2>1 DEF Books, NextRecords
  <2>3. CASE unsaved'[q] = unsaved[q]
    <3> SUFFICES ASSUME unsaved[q] # None
                 PROVE  /\ unsaved[q].run \in 1 .. sent \ RunsOf(history[q])
                        /\ Truthful(unsaved[q], adrift, outcome')
      BY <2>2, <2>3
    <3>1. unsaved[q].run \in Runs BY <1>0, RecordFacts DEF InferenceTypeOK
    <3>2. unsaved[q].run \notin adrift => outcome'[unsaved[q].run] = outcome[unsaved[q].run]
      BY <1>4, <1>5, <3>1
    <3> QED BY <3>2 DEF Books, NextRecords, Truthful
  <2>4. CASE unsaved'[q] # unsaved[q]
    <3>1. page[p] = "mounted" /\ unsaved' = [unsaved EXCEPT ![p] = u] BY <2>4 DEF Settle
    <3>2. q = p /\ unsaved'[q] = u BY <1>0, <2>4, <3>1 DEF InferenceTypeOK
    <3>3. u.run = r /\ u.status = s OBVIOUS
    <3>4. r \notin RunsOf(history[p]) BY DEF Books, NextRecords
    <3> HIDE DEF u, r
    <3> QED BY <1>3, <1>4, <2>2, <3>2, <3>3, <3>4 DEF Truthful
  <2> QED BY <2>3, <2>4
<1>9. MarkerUnrecorded' /\ MarkerInterrupted' BY <1>1 DEF MarkerUnrecorded, MarkerInterrupted
<1> QED BY <1>6, <1>8, <1>9 DEF Books

LEMMA GoneBooks ==
  ASSUME Books, Tracked', NEW p \in Pages, Leave(p) \/ CloseTab(p)
  PROVE  Books'
<1> DEFINE r == flight[p]
<1>0. Tracked /\ Typed /\ InferenceTypeOK BY DEF Books, Tracked, Typed
<1>1. /\ unsaved' = [unsaved EXCEPT ![p] = None] /\ history' = [history EXCEPT ![p] = << >>]
      /\ lsPending' = lsPending /\ lsHistory' = lsHistory /\ sent' = sent
      /\ adrift \subseteq adrift'
  BY DEF Leave, CloseTab, Discard, storage, submitted
<1>2. \/ flight' = flight /\ outcome' = outcome
      \/ /\ flight' = [flight EXCEPT ![p] = 0]
         /\ outcome' = IF r = 0 THEN outcome ELSE [outcome EXCEPT ![r] = "unknown"]
  BY DEF Leave, CloseTab
<1>3. /\ sent \in Nat /\ lsHistory \in Seq(RunRecords)
      /\ \A q \in Pages : history[q] \in Seq(RunRecords)
  BY <1>0, InferenceAssumption DEF InferenceTypeOK
<1>4. r # 0 => r \in Runs BY <1>0, InferenceAssumption DEF InferenceTypeOK, Runs
<1>5. r \notin adrift \cup {0} =>
        /\ r \notin RunsOf(lsHistory)
        /\ \A q \in Pages : r \notin RunsOf(history[q]) \cup {unsaved[q].run}
  <2>1. r \notin adrift \cup {0} => lsPending = r BY <1>0 DEF Tracked, FlightMarked
  <2> QED BY <2>1 DEF Books, MarkerUnrecorded
<1>6. \A x \in Runs : x # r => outcome'[x] = outcome[x] BY <1>0, <1>2, <1>4 DEF InferenceTypeOK
<1>7. \A q \in Pages : /\ history'[q] = IF q = p THEN << >> ELSE history[q]
                       /\ unsaved'[q] = IF q = p THEN None ELSE unsaved[q]
                       /\ flight'[q] = flight[q] \/ (q = p /\ flight'[q] = 0)
  BY <1>0, <1>1, <1>2 DEF InferenceTypeOK
<1>8. ListsSound'
  <2>1. ASSUME NEW h \in Seq(RunRecords), Sound(h, sent, adrift, outcome),
               r \notin adrift \cup {0} => r \notin RunsOf(h)
        PROVE  Sound(h, sent, adrift', outcome')
    <3>1. RunsOf(h) \subseteq Runs /\ 0 \notin Runs BY RecordFacts DEF RunsOf, Runs
    <3>2. \A x \in RunsOf(h) : x \notin adrift' => outcome'[x] = outcome[x]
      BY <1>1, <1>6, <2>1, <3>1
    <3> QED BY <1>1, <1>3, <2>1, <3>2, SoundLater
  <2>2. Sound(lsHistory, sent, adrift', outcome')
    BY <1>3, <1>5, <2>1 DEF Books, ListsSound
  <2>3. \A q \in Pages : Sound(history[q], sent, adrift', outcome')
    BY <1>3, <1>5, <2>1 DEF Books, ListsSound
  <2> QED BY <1>1, <1>7, <2>2, <2>3, SoundEmpty DEF ListsSound
<1>9. NextRecords'
  <2> SUFFICES ASSUME NEW q \in Pages
               PROVE  /\ flight'[q] \in 0 .. sent /\ flight'[q] \notin RunsOf(history'[q])
                      /\ unsaved'[q] # None => /\ unsaved'[q].run \in 1 .. sent \ RunsOf(history'[q])
                                               /\ Truthful(unsaved'[q], adrift', outcome')
    BY <1>1 DEF NextRecords, RunsOf
  <2>1. flight[q] \in 0 .. sent /\ 0 \in 0 .. sent BY <1>3 DEF Books, NextRecords
  <2>2. RunsOf(<< >>) = {} BY DEF RunsOf
  <2>3. CASE q = p BY <1>7, <2>1, <2>2, <2>3
  <2>4. CASE q # p
    <3>1. flight'[q] = flight[q] /\ history'[q] = history[q] /\ unsaved'[q] = unsaved[q]
      BY <1>7, <2>4
    <3>2. ASSUME unsaved[q] # None PROVE Truthful(unsaved[q], adrift', outcome')
      <4>1. unsaved[q].run \in Runs /\ 0 \notin Runs
        BY <1>0, <3>2, RecordFacts DEF InferenceTypeOK, Runs
      <4>2. unsaved[q].run \notin adrift => outcome'[unsaved[q].run] = outcome[unsaved[q].run]
        BY <1>5, <1>6, <4>1
      <4>3. Truthful(unsaved[q], adrift, outcome) BY <3>2 DEF Books, NextRecords
      <4> QED BY <1>1, <4>2, <4>3 DEF Truthful
    <3> QED BY <3>1, <3>2 DEF Books, NextRecords
  <2> QED BY <2>3, <2>4
<1>10. MarkerUnrecorded'
  <2> SUFFICES ASSUME lsPending # 0
               PROVE  /\ lsPending \in 1 .. sent \ RunsOf(lsHistory)
                      /\ \A q \in Pages : lsPending \notin RunsOf(history'[q]) \cup {unsaved'[q].run}
    BY <1>1 DEF MarkerUnrecorded, RunsOf
  <2>1. RunsOf(<< >>) = {} BY DEF RunsOf
  <2> QED BY <1>7, <2>1, RecordFacts DEF Books, MarkerUnrecorded
<1>11. MarkerInterrupted'
  <2> SUFFICES ASSUME lsPending \notin adrift \cup {0}
               PROVE  outcome'[lsPending] = "unknown" \/ \E q \in Pages : flight'[q] = lsPending
    BY <1>1 DEF MarkerInterrupted
  <2>1. lsPending \in Runs BY <1>0, InferenceAssumption DEF InferenceTypeOK, Runs
  <2>2. CASE lsPending = r
    BY <1>0, <1>2, <2>1, <2>2 DEF InferenceTypeOK
  <2>3. CASE lsPending # r
    <3>1. outcome'[lsPending] = outcome[lsPending] BY <1>6, <2>1, <2>3
    <3>2. \A q \in Pages : flight[q] = lsPending => flight'[q] = lsPending BY <1>7, <2>3
    <3> QED BY <3>1, <3>2 DEF Books, MarkerInterrupted
  <2> QED BY <2>2, <2>3
<1> QED BY <1>8, <1>9, <1>10, <1>11 DEF Books

LEMMA EmptyBooks ==
  ASSUME Books, Tracked', NEW p \in Pages, EmptyHistory(p),
         UNCHANGED <<flight, unsaved, lsPending, sent, outcome, adrift>>
  PROVE  Books'
<1>0. InferenceTypeOK BY DEF Books, Tracked, Typed
<1>1. lsHistory' = << >> /\ RunsOf(<< >>) = {} BY DEF EmptyHistory, RunsOf
<1>2. \A q \in Pages : history'[q] = IF q = p THEN << >> ELSE history[q]
  BY <1>0 DEF EmptyHistory, InferenceTypeOK
<1>3. ListsSound' BY <1>1, <1>2, SoundEmpty DEF Books, ListsSound
<1>4. NextRecords'
  <2> SUFFICES ASSUME NEW q \in Pages
               PROVE  /\ flight[q] \in 0 .. sent /\ flight[q] \notin RunsOf(history'[q])
                      /\ unsaved[q] # None => /\ unsaved[q].run \in 1 .. sent \ RunsOf(history'[q])
                                              /\ Truthful(unsaved[q], adrift, outcome)
    BY DEF NextRecords, RunsOf
  <2> QED BY <1>1, <1>2 DEF Books, NextRecords
<1>5. MarkerUnrecorded'
  <2> SUFFICES ASSUME lsPending # 0
               PROVE  /\ lsPending \in 1 .. sent \ RunsOf(<< >>)
                      /\ \A q \in Pages : lsPending \notin RunsOf(history'[q]) \cup {unsaved[q].run}
    BY <1>1 DEF MarkerUnrecorded, RunsOf
  <2> QED BY <1>1, <1>2 DEF Books, MarkerUnrecorded
<1>6. MarkerInterrupted' BY DEF Books, MarkerInterrupted
<1> QED BY <1>3, <1>4, <1>5, <1>6 DEF Books

LEMMA BooksNext == Books /\ [InferenceNext]_inferenceVars => Books'
<1> SUFFICES ASSUME Books, [InferenceNext]_inferenceVars PROVE Books' OBVIOUS
<1>0. Tracked /\ Typed /\ InferenceTypeOK BY DEF Books, Tracked, Typed
<1>1. Tracked' BY <1>0, TrackedNext
<1>2. ASSUME NEW p \in Pages, NEW s \in Outcomes, Settle(p, s) PROVE Books'
  BY <1>1, <1>2, SettleBooks
<1>3. ASSUME NEW p \in Pages, Run(p) PROVE Books'
  <2>1. CASE Predict(p) BY <1>1, <2>1, SubmitBooks DEF Predict
  <2>2. CASE RetryRun(p)
    <3>1. attempt[p] \in 1 .. sent
      BY <1>0, <2>2, InferenceAssumption DEF RetryRun, RetryOffered, Typed, AttemptsSubmitted,
                                             InferenceTypeOK
    <3>2. request[attempt[p]] \in RunRequests BY <1>0, <3>1 DEF InferenceTypeOK
    <3>3. request[attempt[p]].input \in Inputs BY <3>2 DEF RunRequests
    <3> QED BY <1>1, <2>2, <3>3, SubmitBooks DEF RetryRun
  <2>3. CASE CancelRun(p) BY <1>2, <2>3 DEF CancelRun, Outcomes
  <2>4. CASE RefuseInput(p) BY <1>1, <2>4, FrameBooks DEF RefuseInput, submitted, observed
  <2> QED BY <1>3, <2>1, <2>2, <2>3, <2>4 DEF Run
<1>4. ASSUME NEW p \in Pages, Answer(p) PROVE Books'
  BY <1>2, <1>4 DEF Answer, Succeed, FailOrTimeOut, Outcomes
<1>5. ASSUME NEW p \in Pages, AppendRunHistory(p) PROVE Books' BY <1>1, <1>5, AppendBooks
<1>6. ASSUME NEW p \in Pages, Browse(p) PROVE Books'
  <2>1. CASE LoadActiveDeployment(p)
    BY <1>1, <2>1, FrameBooks DEF LoadActiveDeployment, submitted, observed
  <2> QED BY <1>1, <1>6, <2>1, MountBooks, GoneBooks DEF Browse
<1>7. ASSUME NEW p \in Pages, Review(p) PROVE Books'
  <2>1. CASE ClearInput(p) \/ RestoreRun(p)
    BY <1>1, <2>1, FrameBooks DEF ClearInput, RestoreRun, submitted, observed
  <2>2. CASE ClearRunHistory(p) BY <1>1, <2>2, EmptyBooks DEF ClearRunHistory, submitted
  <2>3. CASE Undeploy(p) BY <1>1, <2>3, FrameBooks DEF Undeploy, submitted, observed
  <2>4. CASE ClearUndeployed(p) BY <1>1, <2>4, EmptyBooks DEF ClearUndeployed, submitted
  <2>5. CASE UndeployFails(p) BY <1>1, <2>5, FrameBooks DEF UndeployFails, submitted, observed
  <2> QED BY <1>7, <2>1, <2>2, <2>3, <2>4, <2>5 DEF Review
<1>8. ASSUME NEW r \in Runs, ServePrediction(r) PROVE Books'
  BY <1>1, <1>8, FrameBooks DEF ServePrediction, session, submitted, observed
<1>9. ASSUME NEW m \in Models, Deploy(m) PROVE Books'
  BY <1>1, <1>9, FrameBooks DEF Deploy, session, submitted, observed
<1>10. CASE UNCHANGED inferenceVars
  BY <1>1, <1>10, FrameBooks DEF inferenceVars, session, submitted, observed
<1> QED BY <1>3, <1>4, <1>5, <1>6, <1>7, <1>8, <1>9, <1>10 DEF InferenceNext

\* Whatever reloads, tabs and late answers do, the stored history names a run
\* once, and a run that is not adrift with the outcome its page saw.
THEOREM RecordsTellTheTruth == InferenceSpec => []RecordsAreTrue
<1>1. InferenceInit => Books BY BooksInit
<1>2. Books /\ [InferenceNext]_inferenceVars => Books' BY BooksNext
<1>3. Books => RecordsAreTrue
  BY DEF Books, ListsSound, Sound, Truthful, Ending, RecordsAreTrue
<1> QED BY <1>1, <1>2, <1>3, PTL DEF InferenceSpec
=============================================================================
