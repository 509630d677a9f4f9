--------------------------- MODULE IngestionProofs ---------------------------
(***************************************************************************)
(* What Ingestion promises for every set of sources: files and rows stay   *)
(* in step, and a stored profile survives every writer but a cancel that   *)
(* read the metadata before it was there.  Every writer stores a copy of   *)
(* the whole metadata; the invariant says that a copy which lacks the      *)
(* profile is about a row that lacks it too, or is that cancel's.          *)
(***************************************************************************)
EXTENDS Ingestion, TLAPS

\* A source begins with its upload: nobody cancels or deletes it before its row.
BeginInv(s) ==
  /\ req[s] \in {"none", "saving"} => ~Exists(s) /\ delete[s] = "idle" /\ cancel[s] = "idle"
  /\ req[s] = "saving" => s \in file
  /\ delete[s] = "unlinked" => s \notin file

FileInv(s) ==
  /\ Exists(s) /\ s \notin file => delete[s] \in {"unlinked", "dead"} \/ req[s] = "failed"
  /\ s \in file /\ ~Exists(s) => req[s] \in {"saving", "dead"} \/ delete[s] = "orphaned"

\* Copies that are going to be stored are not behind the row.
CopyInv(s) ==
  /\ Exists(s) /\ row[s].profile /\ task[s] \in {"mark", "fail"} => copy[s]
  /\ Exists(s) /\ cancel[s] = "read" /\ seen[s] => row[s].profile

SourceInv(s) == BeginInv(s) /\ (s \in Files => FileInv(s)) /\ CopyInv(s)

IInv == TypeOK /\ \A s \in Sources : SourceInv(s)

-----------------------------------------------------------------------------
(* Types.                                                                  *)

\* Storing a status with a profile keeps the row a row.
LEMMA StoreType ==
  ASSUME TypeOK, NEW s \in Sources, Exists(s), NEW status \in Status, NEW profile \in BOOLEAN,
         StoreMetadata(s, status, profile)
  PROVE  /\ row' \in [Sources -> Row \cup {NoRow}]
         /\ row'[s] = [status |-> status, profile |-> profile]
         /\ \A t \in Sources \ {s} : row'[t] = row[t]
         /\ Exists(s)'
<1>1. [status |-> status, profile |-> profile] \in Row BY DEF Row
<1> QED BY <1>1, NoRowAssumption DEF TypeOK, StoreMetadata, Exists

\* The writers of the metadata.
LEMMA StoredRows ==
  ASSUME TypeOK, NEW s \in Sources,
         MarkProcessing(s) \/ Complete(s) \/ FailWrite(s) \/ CancelCommit(s)
  PROVE  row' \in [Sources -> Row \cup {NoRow}]
<1>1. /\ copy[s] \in BOOLEAN /\ seen[s] \in BOOLEAN
      /\ {"processing", "completed", "failed", "cancelled"} \subseteq Status
  BY DEF TypeOK, Status
<1>2. CASE MarkProcessing(s) BY <1>1, <1>2, StoreType DEF MarkProcessing
<1>3. CASE Complete(s) BY <1>1, <1>3, StoreType DEF Complete
<1>4. CASE Exists(s) /\ StoreMetadata(s, "failed", copy[s]) BY <1>1, <1>4, StoreType
<1>5. CASE Exists(s) /\ StoreMetadata(s, "cancelled", seen[s]) BY <1>1, <1>5, StoreType
<1>6. CASE UNCHANGED row BY <1>6 DEF TypeOK
<1> QED BY <1>2, <1>3, <1>4, <1>5, <1>6 DEF FailWrite, CancelCommit

\* The API process dies.
LEMMA CrashTypeOK == ASSUME TypeOK, ApiCrash PROVE TypeOK'
<1>1. faults' \in 0 .. MaxFaults BY IngestionAssumption DEF TypeOK, ApiCrash
<1>2. abandoned' \subseteq Sources BY DEF TypeOK, ApiCrash, taskVars
<1>3. req' \in [Sources -> {"none", "saving", "inserted", "done", "failed", "dead"}]
  BY DEF TypeOK, ApiCrash
<1>4. cancel' \in [Sources -> {"idle", "read", "done"}] BY DEF TypeOK, ApiCrash
<1>5. delete' \in [Sources -> {"idle", "unlinked", "kept", "done", "orphaned", "dead"}]
  BY DEF TypeOK, ApiCrash
<1>6. /\ msg' \in [Sources -> {"none", "queued", "taken"}]
      /\ task' \in [Sources -> {"idle", "mark", "fetch", "complete", "except", "fail", "ended"}]
      /\ copy' \in [Sources -> BOOLEAN]
  <2>1. CASE celery BY <2>1 DEF TypeOK, ApiCrash, taskVars
  <2>2. CASE ~celery BY <2>2 DEF ApiCrash
  <2> QED BY <2>1, <2>2
<1>7. seen' \in [Sources -> BOOLEAN] BY DEF ApiCrash
<1> QED BY <1>1, <1>2, <1>3, <1>4, <1>5, <1>6, <1>7 DEF TypeOK, ApiCrash

LEMMA StepTypeOK == TypeOK /\ [Next]_vars => TypeOK'
<1> SUFFICES ASSUME TypeOK, [Next]_vars PROVE TypeOK' OBVIOUS
<1> USE IngestionAssumption, NoRowAssumption DEF TypeOK, apiVars, taskVars, TaskGoto
<1> USE DEF Exists, Row, Status
<1>1. ASSUME NEW s \in Sources, SaveFile(s) PROVE TypeOK' BY <1>1 DEF SaveFile
<1>2. ASSUME NEW s \in Sources, SaveFails(s) PROVE TypeOK' BY <1>2 DEF SaveFails
<1>3. ASSUME NEW s \in Sources, InsertRow(s) PROVE TypeOK' BY <1>3 DEF InsertRow
<1>4. ASSUME NEW s \in Sources, RequestStep(s) PROVE TypeOK' BY <1>4 DEF RequestStep, Trigger, TriggerFails, DbFails
<1>5. ASSUME NEW s \in Sources, TaskStep(s) PROVE TypeOK'
  <2>1. CASE Load(s) BY <2>1 DEF Load
  <2>2. CASE MarkProcessing(s)
    <3>1. row' \in [Sources -> Row \cup {NoRow}] BY <2>2, StoredRows
    <3> QED BY <2>2, <3>1 DEF MarkProcessing
  <2>3. CASE Fetch(s) BY <2>3 DEF Fetch
  <2>4. CASE Complete(s)
    <3>1. row' \in [Sources -> Row \cup {NoRow}] BY <2>4, StoredRows
    <3> QED BY <2>4, <3>1 DEF Complete
  <2>5. CASE Raise(s) BY <2>5 DEF Raise, DbFails
  <2>6. CASE FailRead(s) BY <2>6 DEF FailRead
  <2>7. CASE FailWrite(s)
    <3>1. row' \in [Sources -> Row \cup {NoRow}] BY <2>7, StoredRows
    <3> QED BY <2>7, <3>1 DEF FailWrite
  <2>8. CASE Acknowledge(s) BY <2>8 DEF Acknowledge
  <2>9. CASE LoadFails(s) \/ FailAgain(s) BY <2>9 DEF LoadFails, FailAgain, DbFails
  <2> QED BY <1>5, <2>1, <2>2, <2>3, <2>4, <2>5, <2>6, <2>7, <2>8, <2>9 DEF TaskStep
<1>6. ASSUME NEW s \in Sources, WorkerLost(s) PROVE TypeOK'
  <2>1. faults' \in 0 .. MaxFaults BY <1>6 DEF WorkerLost
  <2> QED BY <1>6, <2>1 DEF WorkerLost
<1>7. ASSUME NEW s \in Sources, CancelRead(s) PROVE TypeOK' BY <1>7 DEF CancelRead, Running
<1>8. ASSUME NEW s \in Sources, CancelCommit(s) PROVE TypeOK'
  <2>1. row' \in [Sources -> Row \cup {NoRow}] BY <1>8, StoredRows
  <2>2. faults' \in 0 .. MaxFaults BY <1>8 DEF CancelCommit, DbFails
  <2> QED BY <1>8, <2>1, <2>2 DEF CancelCommit
<1>9. ASSUME NEW s \in Sources, DeleteUnlink(s) \/ DeleteRow(s) \/ DeleteFails(s) PROVE TypeOK'
  BY <1>9 DEF DeleteUnlink, DeleteRow, DeleteFails, DbFails
<1>10. CASE ApiCrash BY <1>10, CrashTypeOK
<1>11. CASE UNCHANGED vars BY <1>11 DEF vars
<1> QED BY <1>1, <1>2, <1>3, <1>4, <1>5, <1>6, <1>7, <1>8, <1>9, <1>10, <1>11 DEF Next

-----------------------------------------------------------------------------
(* One step of one source.                                                 *)

LEMMA InitIInv == Init => IInv
BY IngestionAssumption, NoRowAssumption
DEF Init, IInv, TypeOK, SourceInv, BeginInv, FileInv, CopyInv, Exists, Sources

\* A source none of whose state changes keeps its invariant.
LEMMA SourceFrame ==
  ASSUME NEW t, SourceInv(t), req'[t] = req[t], row'[t] = row[t], t \in file' <=> t \in file,
         task'[t] = task[t], copy'[t] = copy[t], cancel'[t] = cancel[t], seen'[t] = seen[t],
         delete'[t] = delete[t]
  PROVE  SourceInv(t)'
BY DEF SourceInv, BeginInv, FileInv, CopyInv, Exists

\* What a step of source s leaves alone.
OnlySource(s) ==
  \A t \in Sources \ {s} :
    /\ req'[t] = req[t] /\ row'[t] = row[t] /\ (t \in file' <=> t \in file)
    /\ task'[t] = task[t] /\ copy'[t] = copy[t] /\ cancel'[t] = cancel[t]
    /\ seen'[t] = seen[t] /\ delete'[t] = delete[t]

LEMMA OtherSources ==
  ASSUME IInv, TypeOK', NEW s \in Sources, OnlySource(s), SourceInv(s)'
  PROVE  IInv'
BY SourceFrame DEF IInv, OnlySource

\* The request that creates a source.
LEMMA RequestIInv ==
  ASSUME IInv, TypeOK', NEW s \in Sources, SaveFile(s) \/ SaveFails(s) \/ InsertRow(s) \/ RequestStep(s)
  PROVE  IInv'
<1> USE IngestionAssumption, NoRowAssumption
        DEF SaveFile, SaveFails, InsertRow, RequestStep, Trigger, TriggerFails, taskVars, TypeOK,
            Exists, Row, Sources
<1>1. OnlySource(s) BY DEF IInv, OnlySource
<1>2. BeginInv(s)' BY DEF IInv, SourceInv, BeginInv
<1>3. s \in Files => FileInv(s)'
  <2> USE DEF IInv, SourceInv, BeginInv, FileInv
  <2>1. CASE SaveFile(s) \/ SaveFails(s) \/ Trigger(s) BY <2>1
  <2>2. CASE InsertRow(s)
    <3>1. [status |-> "pending", profile |-> FALSE] \in Row BY DEF Status
    <3>2. Exists(s)' BY <2>2, <3>1
    <3> QED BY <2>2, <3>2
  <2>3. CASE TriggerFails(s) BY <2>3
  <2> QED BY <2>1, <2>2, <2>3
<1>4. CopyInv(s)' BY DEF IInv, SourceInv, BeginInv, CopyInv
<1> QED BY <1>1, <1>2, <1>3, <1>4, OtherSources DEF SourceInv

\* The ingestion task, and a worker that is lost with it.
LEMMA TaskIInv ==
  ASSUME IInv, TypeOK', NEW s \in Sources, TaskStep(s) \/ WorkerLost(s)
  PROVE  IInv'
<1> USE NoRowAssumption DEF apiVars, TaskGoto, Exists
<1>1. Exists(s)' <=> Exists(s)
  <2> USE DEF IInv, TypeOK, Status
  <2>1. CASE MarkProcessing(s) BY <2>1, StoreType DEF MarkProcessing
  <2>2. CASE Complete(s) BY <2>2, StoreType DEF Complete
  <2>3. CASE FailWrite(s) BY <2>3, StoreType DEF FailWrite
  <2>4. CASE \/ Load(s) \/ LoadFails(s) \/ Fetch(s) \/ Raise(s) \/ FailRead(s) \/ FailAgain(s)
             \/ Acknowledge(s) \/ WorkerLost(s)
    BY <2>4 DEF Load, LoadFails, Fetch, Raise, FailRead, FailAgain, Acknowledge, WorkerLost
  <2> QED BY <2>1, <2>2, <2>3, <2>4 DEF TaskStep
<1>2. UNCHANGED <<req, cancel, seen, delete, file>>
  BY DEF TaskStep, Load, LoadFails, MarkProcessing, Fetch, Complete, Raise, FailRead, FailWrite, FailAgain,
         Acknowledge, WorkerLost
<1>3. OnlySource(s)
  <2>1. \A t \in Sources \ {s} : row'[t] = row[t]
    BY DEF TaskStep, Load, LoadFails, MarkProcessing, Fetch, Complete, Raise, FailRead, FailWrite,
           FailAgain, Acknowledge, WorkerLost, StoreMetadata, IInv, TypeOK
  <2>2. \A t \in Sources \ {s} : task'[t] = task[t] /\ copy'[t] = copy[t]
    <3> USE DEF IInv, TypeOK
    <3>1. CASE Load(s) \/ LoadFails(s) BY <3>1 DEF Load, LoadFails
    <3>2. CASE MarkProcessing(s) BY <3>2 DEF MarkProcessing
    <3>3. CASE Fetch(s) BY <3>3 DEF Fetch
    <3>4. CASE Complete(s) BY <3>4 DEF Complete
    <3>5. CASE Raise(s) \/ FailRead(s) \/ FailWrite(s) \/ FailAgain(s)
      BY <3>5 DEF Raise, FailRead, FailWrite, FailAgain
    <3>6. CASE Acknowledge(s) BY <3>6 DEF Acknowledge
    <3>7. CASE WorkerLost(s) BY <3>7 DEF WorkerLost
    <3> QED BY <3>1, <3>2, <3>3, <3>4, <3>5, <3>6, <3>7 DEF TaskStep
  <2> QED BY <1>2, <2>1, <2>2 DEF OnlySource
<1>4. BeginInv(s)' /\ (s \in Files => FileInv(s)') BY <1>1, <1>2 DEF IInv, SourceInv, BeginInv, FileInv
<1>5. CopyInv(s)'
  <2> USE DEF IInv, SourceInv, CopyInv, TypeOK
  <2>1. CASE MarkProcessing(s)
    <3>1. row'[s] = [status |-> "processing", profile |-> copy[s]]
      BY <2>1, StoreType DEF MarkProcessing, Status
    <3>2. task'[s] = "fetch" BY <2>1 DEF MarkProcessing
    <3> QED BY <1>1, <1>2, <2>1, <3>1, <3>2 DEF MarkProcessing
  <2>2. CASE Load(s) BY <1>1, <1>2, <2>2 DEF Load, Row
  <2>3. CASE FailRead(s) BY <1>1, <1>2, <2>3 DEF FailRead, Row
  <2>4. CASE FailWrite(s) /\ Exists(s)
    <3>1. row'[s] = [status |-> "failed", profile |-> copy[s]]
      BY <2>4, StoreType DEF FailWrite, Status
    <3> QED BY <1>1, <1>2, <2>4, <3>1 DEF FailWrite
  <2>5. CASE Complete(s)
    <3>1. row'[s] = [status |-> "completed", profile |-> TRUE] BY <2>5, StoreType DEF Complete, Status
    <3> QED BY <1>1, <1>2, <2>5, <3>1 DEF Complete
  <2>6. CASE LoadFails(s) \/ Fetch(s) \/ Raise(s) \/ FailAgain(s) \/ Acknowledge(s) \/ WorkerLost(s)
    BY <1>1, <1>2, <2>6 DEF LoadFails, Fetch, Raise, FailAgain, Acknowledge, WorkerLost
  <2>7. CASE FailWrite(s) /\ ~Exists(s) BY <1>1, <1>2, <2>7 DEF FailWrite
  <2> QED BY <2>1, <2>2, <2>3, <2>4, <2>5, <2>6, <2>7 DEF TaskStep
<1> QED BY <1>3, <1>4, <1>5, OtherSources DEF SourceInv

\* Cancel and delete.
LEMMA UserIInv ==
  ASSUME IInv, TypeOK', NEW s \in Sources,
         CancelRead(s) \/ CancelCommit(s) \/ DeleteUnlink(s) \/ DeleteRow(s) \/ DeleteFails(s)
  PROVE  IInv'
<1> USE NoRowAssumption DEF taskVars, TypeOK, Exists, IInv
<1>1. CASE CancelCommit(s) /\ Exists(s) /\ StoreMetadata(s, "cancelled", seen[s])
  <2>1. /\ row'[s] = [status |-> "cancelled", profile |-> seen[s]]
        /\ \A t \in Sources \ {s} : row'[t] = row[t]
        /\ Exists(s)'
    BY <1>1, StoreType DEF Status
  <2>2. OnlySource(s) BY <1>1, <2>1 DEF CancelCommit, OnlySource
  <2>3. SourceInv(s)' BY <1>1, <2>1 DEF CancelCommit, SourceInv, BeginInv, FileInv, CopyInv
  <2> QED BY <2>2, <2>3, OtherSources
<1>2. CASE \/ CancelRead(s) \/ (CancelCommit(s) /\ UNCHANGED row)
           \/ DeleteUnlink(s) \/ DeleteRow(s) \/ DeleteFails(s)
  <2> USE <1>2 DEF CancelRead, CancelCommit, DeleteUnlink, DeleteRow, DeleteFails, Running
  <2>1. OnlySource(s) BY DEF OnlySource
  <2>2. BeginInv(s)' BY DEF SourceInv, BeginInv
  <2>3. s \in Files => FileInv(s)' BY DEF SourceInv, BeginInv, FileInv
  <2>4. CopyInv(s)' BY DEF SourceInv, CopyInv
  <2> QED BY <2>1, <2>2, <2>3, <2>4, OtherSources DEF SourceInv
<1> QED BY <1>1, <1>2 DEF CancelCommit

LEMMA CrashIInv == ASSUME IInv, TypeOK', ApiCrash PROVE IInv'
<1>1. ASSUME NEW s \in Sources PROVE SourceInv(s)'
  <2> USE DEF ApiCrash, IInv, TypeOK, Exists, taskVars
  <2>1. BeginInv(s)' BY <1>1 DEF SourceInv, BeginInv
  <2>2. s \in Files => FileInv(s)' BY <1>1 DEF SourceInv, FileInv
  <2>3. CopyInv(s)' BY <1>1 DEF SourceInv, CopyInv
  <2> QED BY <2>1, <2>2, <2>3 DEF SourceInv
<1> QED BY <1>1 DEF IInv

LEMMA StepIInv == IInv /\ [Next]_vars => IInv'
<1> SUFFICES ASSUME IInv, [Next]_vars PROVE IInv' OBVIOUS
<1>1. TypeOK' BY StepTypeOK DEF IInv
<1>2. CASE UNCHANGED vars
  <2>1. \A s \in Sources : SourceInv(s)' BY <1>2, SourceFrame DEF vars, IInv
  <2> QED BY <1>1, <2>1 DEF IInv
<1> QED BY <1>1, <1>2, RequestIInv, TaskIInv, UserIInv, CrashIInv DEF Next

LEMMA SpecIInv == Spec => []IInv
BY InitIInv, StepIInv, PTL DEF Spec

-----------------------------------------------------------------------------
\* The state of the DataSource rows, requests and tasks keeps its type.
THEOREM IngestionTypeOK == Spec => []TypeOK
<1>1. IInv => TypeOK BY DEF IInv
<1> QED BY <1>1, SpecIInv, PTL

\* For every set of sources and every choice of what may go wrong, a row without
\* its file and a file without its row are the exceptions FilesMatchRows names.
THEOREM FilesAndRowsMatch == Spec => []FilesMatchRows
<1>1. IInv => FilesMatchRows BY DEF IInv, SourceInv, FileInv, FilesMatchRows, Sources
<1> QED BY <1>1, SpecIInv, PTL

\* However often a task is delivered, fails or is lost, only a cancel loses a profile.
THEOREM ProfilesSurvive == Spec => ProfileSurvives
<1> DEFINE Loses(s) == Exists(s) /\ row[s].profile /\ Exists(s)' /\ ~row[s].profile'
<1>1. ASSUME IInv, [Next]_vars, row' # row, NEW s \in Sources, Loses(s) PROVE cancel[s] = "read"
  <2> USE DEF IInv, TypeOK, Exists
  <2>1. CASE \E t \in Sources : MarkProcessing(t)
    <3>1. PICK t \in Sources : MarkProcessing(t) BY <2>1
    <3>2. /\ row'[t] = [status |-> "processing", profile |-> copy[t]]
          /\ \A u \in Sources \ {t} : row'[u] = row[u]
      <4>1. Exists(t) /\ StoreMetadata(t, "processing", copy[t]) BY <3>1 DEF MarkProcessing
      <4>2. "processing" \in Status /\ copy[t] \in BOOLEAN /\ TypeOK BY <1>1 DEF Status
      <4> QED BY <4>1, <4>2, StoreType
    <3>3. s = t => copy[t] BY <1>1, <3>1 DEF MarkProcessing, SourceInv, CopyInv
    <3> QED BY <1>1, <3>2, <3>3
  <2>2. CASE \E t \in Sources : CancelCommit(t)
    <3>1. PICK t \in Sources : CancelCommit(t) BY <2>2
    <3>2. \A u \in Sources \ {t} : row'[u] = row[u]
      BY <1>1, <3>1 DEF CancelCommit, StoreMetadata
    <3> QED BY <1>1, <3>1, <3>2 DEF CancelCommit
  <2>3. CASE \E t \in Sources : FailWrite(t)
    BY <1>1, <2>3 DEF FailWrite, StoreMetadata, SourceInv, CopyInv
  <2>4. CASE \E t \in Sources : Complete(t) BY <1>1, <2>4 DEF Complete, StoreMetadata
  <2>5. CASE \E t \in Sources : InsertRow(t) \/ DeleteRow(t)
    BY <1>1, <2>5 DEF InsertRow, DeleteRow, SourceInv, BeginInv, Sources
  <2> QED
    BY <1>1, <2>1, <2>2, <2>3, <2>4, <2>5
    DEF Next, SaveFile, SaveFails, RequestStep, Trigger, TriggerFails, TaskStep, Load, LoadFails, Fetch,
        Raise, FailRead, FailAgain, Acknowledge, WorkerLost, CancelRead, DeleteUnlink, DeleteFails,
        ApiCrash, vars, apiVars, taskVars
<1>2. IInv /\ [Next]_vars => [\A s \in Sources : Loses(s) => cancel[s] = "read"]_row BY <1>1
<1> QED BY <1>2, SpecIInv, PTL DEF Spec, ProfileSurvives
=============================================================================
