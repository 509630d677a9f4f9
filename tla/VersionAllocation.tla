------------------------- MODULE VersionAllocation -------------------------
(***************************************************************************)
(* Model versions: ModelRegistryService.get_next_version and the two job   *)
(* creators that call it (create_training_job, create_tuning_job).         *)
(*                                                                         *)
(* Every call runs in its own database session, possibly in another API    *)
(* process.  A statement that writes the counter row of a (dataset, model  *)
(* type) pair locks it until the session commits; until then the new value *)
(* is visible to nobody else.  A row inserted and not yet committed is     *)
(* invisible to an UPDATE and makes a second INSERT wait.                  *)
(***************************************************************************)
EXTENDS Integers

CONSTANTS
  Keys,         \* (dataset_source_id, model_type) pairs
  Calls,        \* one per call of a job creator, each with its own session
  KeyOf,        \* the pair a call versions
  Previews,     \* the calls made with is_preview
  LegacyMax,    \* greatest version of the jobs older than the counter table
  MaxAttempts,  \* _MAX_VERSION_ALLOCATION_ATTEMPTS
  NoCall        \* nobody holds the row lock

ASSUME CallsAssumption ==
  /\ KeyOf \in [Calls -> Keys]
  /\ Previews \subseteq Calls
  /\ LegacyMax \in [Keys -> Nat]
  /\ MaxAttempts \in Nat
  /\ MaxAttempts >= 2
  /\ NoCall \notin Calls

VARIABLES
  counter,   \* committed current_version, NoRow before the row exists
  lock,      \* the call whose open transaction wrote the counter row
  pc,        \* where each call is
  value,     \* the version a call has computed (seed) or was handed
  attempt    \* iteration of the retry loop, from 1

vars == <<counter, lock, pc, value, attempt>>

NoRow == -1

Steps == {"start", "update", "commitUpdate", "seed", "insert", "commitInsert",
          "create", "created", "raised", "aborted"}

TypeOK ==
  /\ counter \in [Keys -> Nat \cup {NoRow}]
  /\ lock \in [Keys -> Calls \cup {NoCall}]
  /\ pc \in [Calls -> Steps]
  /\ value \in [Calls -> Nat]
  /\ attempt \in [Calls -> 1 .. MaxAttempts]

Init ==
  /\ counter = [k \in Keys |-> NoRow]
  /\ lock = [k \in Keys |-> NoCall]
  /\ pc = [c \in Calls |-> "start"]
  /\ value = [c \in Calls |-> 0]
  /\ attempt = [c \in Calls |-> 1]

At(c, step) == pc[c] = step
Goto(c, step) == pc' = [pc EXCEPT ![c] = step]

\* The versions of the job rows that exist for the pair k.
JobVersions(k) ==
  {LegacyMax[k]} \cup {value[c] : c \in {d \in Calls \ Previews : KeyOf[d] = k /\ At(d, "created")}}

-----------------------------------------------------------------------------
\* A preview job takes version 0 and never touches the counter.
Begin(c) ==
  /\ At(c, "start")
  /\ Goto(c, IF c \in Previews THEN "create" ELSE "update")
  /\ UNCHANGED <<counter, lock, value, attempt>>

\* Mutant of Increment: a plain read of the counter, no row lock awaited.
IncrementUnlocked(c) ==
  /\ At(c, "update")
  /\ counter[KeyOf[c]] # NoRow
  /\ lock' = [lock EXCEPT ![KeyOf[c]] = c]
  /\ value' = [value EXCEPT ![c] = counter[KeyOf[c]] + 1]
  /\ Goto(c, "commitUpdate")
  /\ UNCHANGED <<counter, attempt>>

\* UPDATE ... SET current_version = current_version + 1 ... RETURNING found the row.
Increment(c) ==
  /\ At(c, "update")
  /\ counter[KeyOf[c]] # NoRow
  /\ lock[KeyOf[c]] = NoCall
  /\ lock' = [lock EXCEPT ![KeyOf[c]] = c]
  /\ value' = [value EXCEPT ![c] = counter[KeyOf[c]] + 1]
  /\ Goto(c, "commitUpdate")
  /\ UNCHANGED <<counter, attempt>>

\* Mutant of MissRow: the UPDATE misses a row that exists.
MissAnyRow(c) ==
  /\ At(c, "update")
  /\ Goto(c, "seed")
  /\ UNCHANGED <<counter, lock, value, attempt>>

\* The UPDATE matched no committed row.
MissRow(c) ==
  /\ At(c, "update")
  /\ counter[KeyOf[c]] = NoRow
  /\ Goto(c, "seed")
  /\ UNCHANGED <<counter, lock, value, attempt>>

\* Mutant of ComputeSeed: max(version) without the + 1.
SeedWithoutIncrement(c) ==
  /\ At(c, "seed")
  /\ \E m \in JobVersions(KeyOf[c]) :
       /\ \A v \in JobVersions(KeyOf[c]) : v <= m
       /\ value' = [value EXCEPT ![c] = m]
  /\ Goto(c, "insert")
  /\ UNCHANGED <<counter, lock, attempt>>

\* _compute_seed_version: max(version) + 1 over the pair's job rows.
ComputeSeed(c) ==
  /\ At(c, "seed")
  /\ \E m \in JobVersions(KeyOf[c]) :
       /\ \A v \in JobVersions(KeyOf[c]) : v <= m
       /\ value' = [value EXCEPT ![c] = m + 1]
  /\ Goto(c, "insert")
  /\ UNCHANGED <<counter, lock, attempt>>

\* Mutant of InsertRow: an upsert, no conflict on a row that exists.
InsertOverRow(c) ==
  /\ At(c, "insert")
  /\ lock[KeyOf[c]] = NoCall
  /\ lock' = [lock EXCEPT ![KeyOf[c]] = c]
  /\ Goto(c, "commitInsert")
  /\ UNCHANGED <<counter, value, attempt>>

InsertRow(c) ==
  /\ At(c, "insert")
  /\ counter[KeyOf[c]] = NoRow
  /\ lock[KeyOf[c]] = NoCall
  /\ lock' = [lock EXCEPT ![KeyOf[c]] = c]
  /\ Goto(c, "commitInsert")
  /\ UNCHANGED <<counter, value, attempt>>

\* IntegrityError: another call inserted the row first; roll back and loop.
InsertConflict(c) ==
  /\ At(c, "insert")
  /\ counter[KeyOf[c]] # NoRow
  /\ IF attempt[c] < MaxAttempts
       THEN attempt' = [attempt EXCEPT ![c] = @ + 1] /\ Goto(c, "update")
       ELSE attempt' = attempt /\ Goto(c, "raised")
  /\ UNCHANGED <<counter, lock, value>>

\* Mutant of Commit: the session stays open and keeps the row locked.
CommitKeepsLock(c) ==
  /\ pc[c] \in {"commitUpdate", "commitInsert"}
  /\ counter' = [counter EXCEPT ![KeyOf[c]] = value[c]]
  /\ Goto(c, "create")
  /\ UNCHANGED <<lock, value, attempt>>

Commit(c) ==
  /\ pc[c] \in {"commitUpdate", "commitInsert"}
  /\ counter' = [counter EXCEPT ![KeyOf[c]] = value[c]]
  /\ lock' = [lock EXCEPT ![KeyOf[c]] = NoCall]
  /\ Goto(c, "create")
  /\ UNCHANGED <<value, attempt>>

\* The job row is added with the version and committed.
CreateJob(c) ==
  /\ At(c, "create")
  /\ Goto(c, "created")
  /\ UNCHANGED <<counter, lock, value, attempt>>

\* The request dies (process crash, lost connection): its open transaction is
\* rolled back; a version it was already handed is never given out again.
Abort(c) ==
  /\ pc[c] \notin {"created", "raised", "aborted"}
  /\ lock' = [k \in Keys |-> IF lock[k] = c THEN NoCall ELSE lock[k]]
  /\ Goto(c, "aborted")
  /\ value' = [value EXCEPT ![c] = IF At(c, "create") THEN @ ELSE 0]
  /\ UNCHANGED <<counter, attempt>>

Step(c) ==
  \/ Begin(c) \/ Increment(c) \/ MissRow(c) \/ ComputeSeed(c)
  \/ InsertRow(c) \/ InsertConflict(c) \/ Commit(c) \/ CreateJob(c)

\* Every call has ended: the system rests.
Rest == (\A c \in Calls : pc[c] \in {"created", "raised", "aborted"}) /\ UNCHANGED vars

Next == (\E c \in Calls : Step(c) \/ Abort(c)) \/ Rest

Spec == Init /\ [][Next]_vars

\* A call keeps running unless it dies; a lock is released when its holder
\* commits or dies, so no call waits for ever.
FairSpec == Spec /\ \A c \in Calls : WF_vars(Step(c))

-----------------------------------------------------------------------------
\* The calls that were handed a version: the commit that published it is done.
Allocated(c) ==
  \/ c \notin Previews /\ pc[c] \in {"create", "created"}
  \/ At(c, "aborted") /\ value[c] > 0

\* No two calls for one pair are ever handed the same version, and none is
\* handed a version that a job older than the counter table already has
\* (the duplicate that get_next_version was rewritten to rule out).
UniqueVersions ==
  \A c, d \in Calls :
    /\ Allocated(c) => value[c] > LegacyMax[KeyOf[c]]
    /\ c # d /\ KeyOf[c] = KeyOf[d] /\ Allocated(c) /\ Allocated(d)
         => value[c] # value[d]

\* The versions handed out continue the sequence of the older jobs without a
\* hole, up to the counter, whatever calls lost the insert race or died
\* (the promise in the docstring of _compute_seed_version).
VersionsContinueSequence ==
  \A k \in Keys : counter[k] # NoRow =>
    {value[c] : c \in {d \in Calls : KeyOf[d] = k /\ Allocated(d)}}
      = LegacyMax[k] + 1 .. counter[k]

\* The RuntimeError that ends get_next_version is unreachable: a call loses the
\* insert race at most once, because the row it lost to is never removed.
NeverGivesUp == \A c \in Calls : ~At(c, "raised") /\ attempt[c] <= 2

\* The counter of a pair never goes back, not even when a transaction aborts.
CounterNeverRewinds == [][\A k \in Keys : counter'[k] >= counter[k]]_counter

\* Every call that does not die ends with a job row.
EveryCallCreatesItsJob ==
  \A c \in Calls : At(c, "update") ~> pc[c] \in {"created", "aborted"}

\* The counter as callers see it: until the row exists, the older jobs count.
Last == [k \in Keys |-> IF counter[k] = NoRow THEN LegacyMax[k] ELSE counter[k]]
Given == [c \in Calls |-> IF Allocated(c) THEN value[c] ELSE 0]

Sequence == INSTANCE VersionSequence WITH last <- Last, given <- Given

\* Every allocation is one atomic step of a gapless sequence, whatever calls
\* run, collide, retry and die in between (the atomic UPDATE ... RETURNING that
\* replaced max(version) + 1 in get_next_version).
ImplementsSequence == Sequence!Spec
=============================================================================
