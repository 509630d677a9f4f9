--------------------------- MODULE EdaReportProofs ---------------------------
(***************************************************************************)
(* What EdaReport promises for every set of reports: where the foreign key *)
(* cascades no report outlives its source, and a completed report, which   *)
(* has its profile, is overwritten by no failure handling.  The latter     *)
(* rests on a run that begins once: its message is sent once, after the    *)
(* INSERT, and is taken before the first step.                             *)
(***************************************************************************)
EXTENDS EdaReport, TLAPS

\* The INSERT comes before the message, the message before the run.
OrderInv(r) ==
  /\ req[r] \in {"none", "checked"} => ~Exists(r)
  /\ req[r] \in {"none", "checked", "inserted"} => run[r] = "idle" /\ r \notin msg
  /\ run[r] # "idle" => r \notin msg

\* A completed report is one whose run has ended after storing the profile.
CompletedInv(r) == row[r] = "COMPLETED" => r \in profile /\ run[r] = "ended"

ReportInv(r) == OrderInv(r) /\ CompletedInv(r)

IInv == TypeOK /\ ReportsHaveTheirSource /\ \A r \in Reports : ReportInv(r)

-----------------------------------------------------------------------------
LEMMA InitIInv == Init => IInv
BY EdaAssumption
DEF Init, IInv, TypeOK, ReportsHaveTheirSource, ReportInv, OrderInv, CompletedInv, Exists

LEMMA StepTypeOK == TypeOK /\ [Next]_vars => TypeOK'
<1> SUFFICES ASSUME TypeOK, [Next]_vars PROVE TypeOK' OBVIOUS
<1> USE DEF TypeOK, ReqGoto, RunGoto, SetStatus
<1>1. ASSUME NEW r \in Reports, RequestStep(r) PROVE TypeOK'
  <2>1. CASE CheckSource(r) BY <2>1 DEF CheckSource
  <2>2. CASE InsertReport(r) BY <2>2 DEF InsertReport
  <2>3. CASE Dispatch(r) BY <2>3 DEF Dispatch
  <2>4. CASE StoreTaskId(r) BY <2>4 DEF StoreTaskId
  <2> QED BY <1>1, <2>1, <2>2, <2>3, <2>4 DEF RequestStep
<1>2. ASSUME NEW r \in Reports, Discard(r) PROVE TypeOK' BY <1>2 DEF Discard
<1>3. ASSUME NEW r \in Reports, RunStep(r) PROVE TypeOK'
  <2>1. CASE ReadReport(r) BY <2>1 DEF ReadReport
  <2>2. CASE ReadSource(r) BY <2>2 DEF ReadSource
  <2>3. CASE LoadFrame(r) BY <2>3 DEF LoadFrame
  <2>4. CASE Analyze(r) BY <2>4 DEF Analyze
  <2>5. CASE Save(r) BY <2>5 DEF Save
  <2>6. CASE MarkFailed(r) BY <2>6 DEF MarkFailed
  <2>7. CASE CommitFails(r) BY <2>7 DEF CommitFails
  <2>8. CASE FailReportSafely(r) BY <2>8 DEF FailReportSafely
  <2>9. CASE ReadFails(r) BY <2>9 DEF ReadFails
  <2> QED BY <1>3, <2>1, <2>2, <2>3, <2>4, <2>5, <2>6, <2>7, <2>8, <2>9 DEF RunStep
<1>4. ASSUME NEW r \in Reports, CancelRead(r) \/ CancelCommit(r) PROVE TypeOK'
  BY <1>4 DEF CancelRead, CancelCommit
<1>5. CASE DeleteLists \/ ApiCrash BY <1>5 DEF DeleteLists, ApiCrash
<1>6. CASE DeleteCommits BY <1>6 DEF DeleteCommits
<1>7. CASE UNCHANGED vars BY <1>7 DEF vars
<1> QED BY <1>1, <1>2, <1>3, <1>4, <1>5, <1>6, <1>7 DEF Next

-----------------------------------------------------------------------------
(* One step of one report.                                                 *)

\* What a step of report r leaves of the others and of the source.
OnlyReport(r) ==
  /\ UNCHANGED <<settings, source>>
  /\ \A t \in Reports \ {r} :
       /\ row'[t] = row[t] /\ req'[t] = req[t] /\ run'[t] = run[t]
       /\ (t \in msg' <=> t \in msg) /\ (t \in profile' <=> t \in profile)

LEMMA OtherReports ==
  ASSUME IInv, TypeOK', NEW r \in Reports, OnlyReport(r), ReportInv(r)',
         CascadeInDb /\ Exists(r)' => source # "gone"
  PROVE  IInv'
<1>1. \A t \in Reports \ {r} : ReportInv(t)'
  BY DEF IInv, OnlyReport, ReportInv, OrderInv, CompletedInv, Exists
<1>2. ReportsHaveTheirSource' BY DEF IInv, OnlyReport, ReportsHaveTheirSource, Exists, CascadeInDb
<1> QED BY <1>1, <1>2 DEF IInv

LEMMA RequestIInv ==
  ASSUME IInv, TypeOK', NEW r \in Reports, RequestStep(r) \/ Discard(r) PROVE IInv'
<1> USE DEF RequestStep, CheckSource, InsertReport, Dispatch, StoreTaskId, Discard,
            IInv, TypeOK, ReqGoto, SetStatus, Exists
<1>1. OnlyReport(r) BY DEF OnlyReport
<1>2. OrderInv(r)' BY DEF ReportInv, OrderInv
<1>3. CompletedInv(r)' BY DEF ReportInv, CompletedInv
<1>4. CascadeInDb /\ Exists(r)' => source # "gone" BY DEF ReportsHaveTheirSource
<1> QED BY <1>1, <1>2, <1>3, <1>4, OtherReports DEF ReportInv

LEMMA RunIInv ==
  ASSUME IInv, TypeOK', NEW r \in Reports, RunStep(r) PROVE IInv'
<1> USE DEF RunStep, ReadReport, ReadFails, ReadSource, LoadFrame, Analyze, Save, MarkFailed,
            CommitFails, FailReportSafely, IInv, TypeOK, RunGoto, SetStatus, Exists
<1>1. OnlyReport(r) BY DEF OnlyReport
<1>2. OrderInv(r)' BY DEF ReportInv, OrderInv
<1>3. CompletedInv(r)' BY DEF ReportInv, CompletedInv, OrderInv
<1>4. CascadeInDb /\ Exists(r)' => source # "gone" BY DEF ReportsHaveTheirSource
<1> QED BY <1>1, <1>2, <1>3, <1>4, OtherReports DEF ReportInv

LEMMA CancelIInv ==
  ASSUME IInv, TypeOK', NEW r \in Reports, CancelRead(r) \/ CancelCommit(r) PROVE IInv'
<1> USE DEF CancelRead, CancelCommit, IInv, TypeOK, SetStatus, Exists
<1>1. OnlyReport(r) BY DEF OnlyReport
<1>2. OrderInv(r)' BY DEF ReportInv, OrderInv
<1>3. CompletedInv(r)' BY DEF ReportInv, CompletedInv
<1>4. CascadeInDb /\ Exists(r)' => source # "gone" BY DEF ReportsHaveTheirSource
<1> QED BY <1>1, <1>2, <1>3, <1>4, OtherReports DEF ReportInv

LEMMA DeleteIInv ==
  ASSUME IInv, TypeOK', DeleteLists \/ DeleteCommits \/ ApiCrash PROVE IInv'
<1> USE DEF DeleteLists, DeleteCommits, ApiCrash, IInv, TypeOK, Exists
<1>1. \A r \in Reports : OrderInv(r)' BY DEF ReportInv, OrderInv
<1>2. \A r \in Reports : CompletedInv(r)' BY DEF ReportInv, CompletedInv
<1>3. ReportsHaveTheirSource' BY DEF ReportsHaveTheirSource, CascadeInDb
<1> QED BY <1>1, <1>2, <1>3 DEF ReportInv

LEMMA StepIInv == IInv /\ [Next]_vars => IInv'
<1> SUFFICES ASSUME IInv, [Next]_vars PROVE IInv' OBVIOUS
<1>1. TypeOK' BY StepTypeOK DEF IInv
<1>2. CASE UNCHANGED vars
  BY <1>2 DEF vars, IInv, TypeOK, ReportsHaveTheirSource, ReportInv, OrderInv, CompletedInv, Exists,
              CascadeInDb
<1> QED BY <1>1, <1>2, RequestIInv, RunIInv, CancelIInv, DeleteIInv DEF Next

LEMMA SpecIInv == Spec => []IInv
BY InitIInv, StepIInv, PTL DEF Spec

-----------------------------------------------------------------------------
\* The state of reports, requests and runs keeps its type.
THEOREM EdaTypeOK == Spec => []TypeOK
<1>1. IInv => TypeOK BY DEF IInv
<1> QED BY <1>1, SpecIInv, PTL

\* For every set of reports: with ON DELETE CASCADE none is left without its source.
THEOREM NoReportWithoutSource == Spec => []ReportsHaveTheirSource
<1>1. IInv => ReportsHaveTheirSource BY DEF IInv
<1> QED BY <1>1, SpecIInv, PTL

\* For every set of reports and every failure: a completed report keeps its
\* profile and its status, but for a cancel that had read it as PENDING.
THEOREM CompletedReportsStay == Spec => CompletedStays
<1> DEFINE Stays(r) == row[r] = "COMPLETED" =>
             /\ r \in profile
             /\ \/ row'[r] \in {"COMPLETED", "none"}
                \/ (row'[r] = "CANCELLED" /\ cancel[r] = "read")
<1>1. ASSUME IInv, [Next]_vars, row' # row, NEW r \in Reports PROVE Stays(r)
  <2> SUFFICES ASSUME row[r] = "COMPLETED" PROVE Stays(r) OBVIOUS
  <2> USE DEF IInv, TypeOK, SetStatus
  <2>1. r \in profile /\ run[r] = "ended" BY <1>1 DEF ReportInv, CompletedInv
  <2>2. req[r] # "checked" BY <1>1 DEF ReportInv, OrderInv, Exists
  <2>3. ASSUME NEW t \in Reports, RequestStep(t) \/ Discard(t) PROVE row'[r] = row[r]
    BY <1>1, <2>2, <2>3 DEF RequestStep, CheckSource, InsertReport, Dispatch, StoreTaskId, Discard
  <2>4. ASSUME NEW t \in Reports, RunStep(t) PROVE row'[r] = row[r]
    BY <1>1, <2>1, <2>4 DEF RunStep, ReadReport, ReadFails, ReadSource, LoadFrame, Analyze, Save, MarkFailed,
                      CommitFails, FailReportSafely
  <2>5. ASSUME NEW t \in Reports, CancelRead(t) \/ CancelCommit(t)
        PROVE  row'[r] = row[r] \/ (row'[r] = "CANCELLED" /\ cancel[r] = "read")
    BY <1>1, <2>5 DEF CancelRead, CancelCommit
  <2>6. CASE DeleteLists \/ DeleteCommits \/ ApiCrash
    BY <1>1, <2>1, <2>6 DEF DeleteLists, DeleteCommits, ApiCrash
  <2> QED BY <1>1, <2>1, <2>3, <2>4, <2>5, <2>6 DEF Next, vars
<1>2. IInv /\ [Next]_vars => [\A r \in Reports : Stays(r)]_row BY <1>1
<1> QED BY <1>2, SpecIInv, PTL DEF Spec, CompletedStays
=============================================================================
