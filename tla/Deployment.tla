----------------------------- MODULE Deployment -----------------------------
(***************************************************************************)
(* DeploymentService: deploy_model reads the active deployment, deactivates *)
(* every active row with one UPDATE and inserts its own row as active;     *)
(* deactivate_current_deployment is the UPDATE alone.  Nothing but the     *)
(* database orders two such requests.                                      *)
(*                                                                         *)
(* PostgreSQL runs a request in one READ COMMITTED transaction: the UPDATE *)
(* works on the rows that were active when it began, waits for those       *)
(* another transaction has locked and then skips the ones that are no      *)
(* longer active.  SQLite is opened in autocommit mode (isolation_level    *)
(* None): every statement is a transaction of its own.                     *)
(*                                                                         *)
(* The locks of one UPDATE are taken together; created_at values differ.   *)
(***************************************************************************)
EXTENDS Naturals

CONSTANTS
  Deploys,        \* POST /deployment/deploy requests; each inserts one row
  Deactivations,  \* POST /deployment/deactivate requests
  Databases,      \* the databases the deployment may use
  Environment,    \* "fail": a statement or the request itself may fail
  NoDeployment

Requests == Deploys \cup Deactivations

ASSUME DeployAssumption ==
  /\ Deploys \cap Deactivations = {}
  /\ Databases \subseteq {"SQLite", "PostgreSQL"}
  /\ Environment \subseteq {"fail"}
  /\ NoDeployment \notin Requests

VARIABLES
  database,   \* the database in use, never changed
  pc,         \* where each request is
  clock,      \* ticks whenever a created_at value is taken
  created,    \* created_at of a row, taken when its transaction begins (SQLite: its INSERT)
  exists,     \* committed rows, named after the request that inserted them
  active,     \* those with is_active
  previous,   \* the active row a request has read: previous_deployment_id
  snapshot,   \* rows the UPDATE of a request has found active
  lock,       \* the request whose open transaction has updated a row
  overlapped  \* history: requests that ran while another one was in flight

vars == <<database, pc, clock, created, exists, active, previous, snapshot, lock, overlapped>>

PostgreSQL == database = "PostgreSQL"
InFlight == {q \in Requests : pc[q] \in {"read", "update", "wait", "commit"}}

TypeOK ==
  /\ database \in Databases
  /\ pc \in [Requests -> {"idle", "read", "update", "wait", "commit", "done", "failed"}]
  /\ clock \in Nat
  /\ created \in [Deploys -> Nat]
  /\ exists \subseteq Deploys
  /\ active \subseteq exists
  /\ previous \in [Deploys -> Deploys \cup {NoDeployment}]
  /\ snapshot \in [Requests -> SUBSET Deploys]
  /\ lock \in [Deploys -> Requests \cup {NoDeployment}]
  /\ overlapped \subseteq Requests

Init ==
  /\ database \in Databases
  /\ pc = [q \in Requests |-> "idle"]
  /\ clock = 0
  /\ created = [d \in Deploys |-> 0]
  /\ exists = {}
  /\ active = {}
  /\ previous = [d \in Deploys |-> NoDeployment]
  /\ snapshot = [q \in Requests |-> {}]
  /\ lock = [d \in Deploys |-> NoDeployment]
  /\ overlapped = {}

At(q, step) == pc[q] = step
Goto(q, step) == pc' = [pc EXCEPT ![q] = step]
Unlocked(q) == [d \in Deploys |-> IF lock[d] = q THEN NoDeployment ELSE lock[d]]

\* get_active_deployment: the newest active row.
Newest(d) == d \in active /\ \A e \in active : created[e] <= created[d]

-----------------------------------------------------------------------------
\* The request arrives; its first statement begins the transaction.
Begin(q) ==
  /\ At(q, "idle")
  /\ Goto(q, IF q \in Deploys THEN "read" ELSE "update")
  /\ overlapped' = overlapped \cup (IF InFlight = {} THEN {} ELSE InFlight \cup {q})
  /\ IF PostgreSQL /\ q \in Deploys
       THEN clock' = clock + 1 /\ created' = [created EXCEPT ![q] = clock + 1]
       ELSE UNCHANGED <<clock, created>>
  /\ UNCHANGED <<database, exists, active, previous, snapshot, lock>>

\* _validate_job_for_deployment: the job is unknown or has not completed.
Reject(q) ==
  /\ q \in Deploys /\ At(q, "read")
  /\ Goto(q, "failed")
  /\ UNCHANGED <<database, clock, created, exists, active, previous, snapshot, lock, overlapped>>

ReadActive(q) ==
  /\ q \in Deploys /\ At(q, "read")
  /\ \E d \in Deploys \cup {NoDeployment} :
       /\ IF active = {} THEN d = NoDeployment ELSE Newest(d)
       /\ previous' = [previous EXCEPT ![q] = d]
  /\ Goto(q, "update")
  /\ UNCHANGED <<database, clock, created, exists, active, snapshot, lock, overlapped>>

\* Mutant of UpdateAtOnce: only the newest active row is deactivated.
UpdateNewestAtOnce(q) ==
  /\ ~PostgreSQL
  /\ At(q, "update")
  /\ active' = {d \in active : ~Newest(d)}
  /\ Goto(q, "commit")
  /\ UNCHANGED <<database, clock, created, exists, previous, snapshot, lock, overlapped>>

\* UPDATE deployments SET is_active = false WHERE is_active, as SQLite does it.
UpdateAtOnce(q) ==
  /\ ~PostgreSQL
  /\ At(q, "update")
  /\ active' = {}
  /\ Goto(q, "commit")
  /\ UNCHANGED <<database, clock, created, exists, previous, snapshot, lock, overlapped>>

\* Mutant of UpdateBegins: only the newest active row is deactivated.
UpdateNewest(q) ==
  /\ PostgreSQL
  /\ At(q, "update")
  /\ snapshot' = [snapshot EXCEPT ![q] = {d \in active : Newest(d)}]
  /\ Goto(q, "wait")
  /\ UNCHANGED <<database, clock, created, exists, active, previous, lock, overlapped>>

\* The same on PostgreSQL: the rows are those active when the UPDATE begins.
UpdateBegins(q) ==
  /\ PostgreSQL
  /\ At(q, "update")
  /\ snapshot' = [snapshot EXCEPT ![q] = active]
  /\ Goto(q, "wait")
  /\ UNCHANGED <<database, clock, created, exists, active, previous, lock, overlapped>>

\* Mutant of UpdateLocks: the UPDATE is committed on its own.
UpdateCommits(q) ==
  /\ At(q, "wait")
  /\ \A d \in snapshot[q] : lock[d] = NoDeployment
  /\ active' = active \ snapshot[q]
  /\ Goto(q, "commit")
  /\ UNCHANGED <<database, clock, created, exists, previous, snapshot, lock, overlapped>>

\* None of them is locked any more; those still active are updated.
UpdateLocks(q) ==
  /\ At(q, "wait")
  /\ \A d \in snapshot[q] : lock[d] = NoDeployment
  /\ lock' = [d \in Deploys |-> IF d \in snapshot[q] \cap active THEN q ELSE lock[d]]
  /\ Goto(q, "commit")
  /\ UNCHANGED <<database, clock, created, exists, active, previous, snapshot, overlapped>>

\* The INSERT of a deployment and the commit; for SQLite the INSERT alone.
Commit(q) ==
  /\ At(q, "commit")
  /\ exists' = exists \cup ({q} \cap Deploys)
  /\ active' = (active \ {d \in Deploys : lock[d] = q}) \cup ({q} \cap Deploys)
  /\ IF ~PostgreSQL /\ q \in Deploys
       THEN clock' = clock + 1 /\ created' = [created EXCEPT ![q] = clock + 1]
       ELSE UNCHANGED <<clock, created>>
  /\ lock' = Unlocked(q)
  /\ Goto(q, "done")
  /\ UNCHANGED <<database, previous, snapshot, overlapped>>

\* A statement fails or the client goes away: the session is rolled back.
Fail(q) ==
  /\ "fail" \in Environment
  /\ q \in InFlight
  /\ lock' = Unlocked(q)
  /\ Goto(q, "failed")
  /\ UNCHANGED <<database, clock, created, exists, active, previous, snapshot, overlapped>>

Rest == (\A q \in Requests : pc[q] \in {"done", "failed"}) /\ UNCHANGED vars

Next ==
  \/ \E q \in Requests :
       \/ Begin(q) \/ Reject(q) \/ ReadActive(q) \/ UpdateAtOnce(q)
       \/ UpdateBegins(q) \/ UpdateLocks(q) \/ Commit(q) \/ Fail(q)
  \/ Rest

Spec == Init /\ [][Next]_vars

-----------------------------------------------------------------------------
\* A request that overlaps no other decides alone what is deployed: after a
\* deploy its row is the only active one and names an active row it replaced,
\* after a deactivation no row is active.  This also heals what an earlier race
\* or failure left behind, two active rows or none.
SoloRequestDecides ==
  [][\A q \in Requests \ overlapped : At(q, "commit") /\ At(q, "done")' =>
       /\ active' = {q} \cap Deploys
       /\ PostgreSQL /\ q \in Deploys =>
            IF active = {} THEN previous[q] = NoDeployment ELSE previous[q] \in active]_vars

\* On PostgreSQL /deployment/active and /predict never lose their model to a
\* deploy, whether it succeeds, fails or races: only a deactivation that commits
\* empties the set of active rows.
ServiceNeverDrops ==
  [][PostgreSQL /\ active # {} /\ active' = {} => \E q \in Deactivations : At(q, "commit")]_active
=============================================================================
