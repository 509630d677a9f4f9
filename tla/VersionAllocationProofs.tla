---------------------- MODULE VersionAllocationProofs ----------------------
(***************************************************************************)
(* What VersionAllocation promises for every set of pairs and calls:       *)
(* versions are unique and continue the older sequence, and no call runs   *)
(* out of attempts.  The inductive invariant ties the uncommitted value of *)
(* the call that holds a row lock to the committed counter.                *)
(***************************************************************************)
EXTENDS VersionAllocation, TLAPS

Committing(c) == pc[c] \in {"commitUpdate", "commitInsert"}

\* Preview calls stay away from the counter.
PreviewInv == \A c \in Previews :
  pc[c] \in {"start", "create", "created", "aborted"} /\ value[c] = 0

\* A row is locked exactly by the call that is about to commit it.
LockInv ==
  /\ \A k \in Keys : lock[k] # NoCall => KeyOf[lock[k]] = k /\ Committing(lock[k])
  /\ \A c \in Calls : Committing(c) => lock[KeyOf[c]] = c

\* What a call in flight has computed, seen from the committed counter.
ValueInv == \A c \in Calls :
  /\ At(c, "commitUpdate") =>
       counter[KeyOf[c]] # NoRow /\ value[c] = counter[KeyOf[c]] + 1
  /\ At(c, "commitInsert") => counter[KeyOf[c]] = NoRow
  /\ pc[c] \in {"insert", "commitInsert"} /\ counter[KeyOf[c]] = NoRow =>
       value[c] = LegacyMax[KeyOf[c]] + 1

\* The counter bounds the versions handed out, from above.
CounterInv ==
  /\ \A k \in Keys : counter[k] # NoRow => counter[k] > LegacyMax[k]
  /\ \A c \in Calls \ Previews : Allocated(c) =>
       /\ counter[KeyOf[c]] # NoRow
       /\ LegacyMax[KeyOf[c]] < value[c]
       /\ value[c] <= counter[KeyOf[c]]

DistinctInv == \A c, d \in Calls :
  c # d /\ KeyOf[c] = KeyOf[d] /\ Allocated(c) /\ Allocated(d) => value[c] # value[d]

\* Every version between the older jobs and the counter was handed to a call.
CoverInv == \A k \in Keys : counter[k] # NoRow =>
  \A v \in LegacyMax[k] + 1 .. counter[k] :
    \E c \in Calls : KeyOf[c] = k /\ Allocated(c) /\ value[c] = v

\* A call that lost the insert race finds the row in its next attempt.
AttemptInv == \A c \in Calls :
  /\ attempt[c] <= 2
  /\ ~At(c, "raised")
  /\ attempt[c] = 2 => /\ counter[KeyOf[c]] # NoRow
                       /\ pc[c] \notin {"start", "seed", "insert", "commitInsert"}

IInv == /\ TypeOK /\ PreviewInv /\ LockInv /\ ValueInv /\ CounterInv
        /\ DistinctInv /\ CoverInv /\ AttemptInv

USE CallsAssumption

LEMMA InitIInv == Init => IInv
BY DEF Init, IInv, TypeOK, PreviewInv, LockInv, ValueInv, CounterInv, DistinctInv, CoverInv,
       AttemptInv, Steps, At, Allocated, Committing, NoRow

\* While a pair has no counter row, no job of the pair carries a version of its
\* own, so the seed continues the older jobs.
LEMMA NoJobWithoutRow ==
  ASSUME IInv, NEW k \in Keys, counter[k] = NoRow
  PROVE  JobVersions(k) = {LegacyMax[k]}
<1>1. \A d \in Calls \ Previews : KeyOf[d] = k => ~At(d, "created")
  BY DEF IInv, CounterInv, Allocated, At
<1> QED BY <1>1 DEF JobVersions

\* A step that publishes no counter value leaves the versions handed out as
\* they were.
LEMMA NothingHandedOut ==
  ASSUME IInv, counter' = counter,
         \A c \in Calls : Allocated(c)' <=> Allocated(c),
         \A c \in Calls : Allocated(c) => value'[c] = value[c]
  PROVE  CounterInv' /\ DistinctInv' /\ CoverInv'
<1>1. CounterInv' BY DEF IInv, CounterInv
<1>2. DistinctInv' BY DEF IInv, DistinctInv
<1>3. CoverInv' BY DEF IInv, CoverInv
<1> QED BY <1>1, <1>2, <1>3

LEMMA BeginStep == ASSUME IInv, NEW c \in Calls, Begin(c) PROVE IInv'
<1> USE DEF Begin, Goto, At, NoRow
<1>1. TypeOK' BY DEF IInv, TypeOK, Steps
<1>2. PreviewInv' BY DEF IInv, TypeOK, PreviewInv
<1>3. LockInv' BY DEF IInv, TypeOK, LockInv, PreviewInv, Committing
<1>4. ValueInv' BY DEF IInv, TypeOK, ValueInv, LockInv, Committing
<1>5. AttemptInv' BY DEF IInv, TypeOK, AttemptInv
<1>6. \A d \in Calls : Allocated(d)' <=> Allocated(d)
  BY DEF IInv, TypeOK, Allocated, PreviewInv, CounterInv
<1>7. \A d \in Calls : Allocated(d) => value'[d] = value[d]
  BY DEF IInv, TypeOK, Allocated, PreviewInv
<1>8. CounterInv' /\ DistinctInv' /\ CoverInv'
  BY <1>6, <1>7, NothingHandedOut
<1> QED BY <1>1, <1>2, <1>3, <1>4, <1>5, <1>8 DEF IInv

LEMMA IncrementStep == ASSUME IInv, NEW c \in Calls, Increment(c) PROVE IInv'
<1> USE DEF Increment, Goto, At, NoRow
<1>1. TypeOK' BY DEF IInv, TypeOK, Steps
<1>2. PreviewInv' BY DEF IInv, TypeOK, PreviewInv
<1>3. LockInv' BY DEF IInv, TypeOK, LockInv, PreviewInv, Committing
<1>4. ValueInv' BY DEF IInv, TypeOK, ValueInv, LockInv, Committing
<1>5. AttemptInv' BY DEF IInv, TypeOK, AttemptInv
<1>6. \A d \in Calls : Allocated(d)' <=> Allocated(d)
  BY DEF IInv, TypeOK, Allocated, PreviewInv, CounterInv
<1>7. \A d \in Calls : Allocated(d) => value'[d] = value[d]
  BY DEF IInv, TypeOK, Allocated, PreviewInv
<1>8. CounterInv' /\ DistinctInv' /\ CoverInv'
  BY <1>6, <1>7, NothingHandedOut
<1> QED BY <1>1, <1>2, <1>3, <1>4, <1>5, <1>8 DEF IInv

LEMMA MissRowStep == ASSUME IInv, NEW c \in Calls, MissRow(c) PROVE IInv'
<1> USE DEF MissRow, Goto, At, NoRow
<1>1. TypeOK' BY DEF IInv, TypeOK, Steps
<1>2. PreviewInv' BY DEF IInv, TypeOK, PreviewInv
<1>3. LockInv' BY DEF IInv, TypeOK, LockInv, PreviewInv, Committing
<1>4. ValueInv' BY DEF IInv, TypeOK, ValueInv, LockInv, Committing
<1>5. AttemptInv' BY DEF IInv, TypeOK, AttemptInv
<1>6. \A d \in Calls : Allocated(d)' <=> Allocated(d)
  BY DEF IInv, TypeOK, Allocated, PreviewInv, CounterInv
<1>7. \A d \in Calls : Allocated(d) => value'[d] = value[d]
  BY DEF IInv, TypeOK, Allocated, PreviewInv
<1>8. CounterInv' /\ DistinctInv' /\ CoverInv'
  BY <1>6, <1>7, NothingHandedOut
<1> QED BY <1>1, <1>2, <1>3, <1>4, <1>5, <1>8 DEF IInv

LEMMA ComputeSeedStep == ASSUME IInv, NEW c \in Calls, ComputeSeed(c) PROVE IInv'
<1> USE DEF ComputeSeed, Goto, At, NoRow
<1>0. counter[KeyOf[c]] = NoRow => value'[c] = LegacyMax[KeyOf[c]] + 1
  BY NoJobWithoutRow DEF IInv, TypeOK
<1>1. JobVersions(KeyOf[c]) \subseteq Nat
  BY DEF IInv, TypeOK, JobVersions
<1>1a. TypeOK' BY <1>1 DEF IInv, TypeOK, Steps
<1>2. PreviewInv' BY DEF IInv, TypeOK, PreviewInv
<1>3. LockInv' BY DEF IInv, TypeOK, LockInv, PreviewInv, Committing
<1>4. ValueInv' BY <1>0 DEF IInv, TypeOK, ValueInv, LockInv, Committing
<1>5. AttemptInv' BY DEF IInv, TypeOK, AttemptInv
<1>6. \A d \in Calls : Allocated(d)' <=> Allocated(d)
  BY DEF IInv, TypeOK, Allocated, PreviewInv, CounterInv
<1>7. \A d \in Calls : Allocated(d) => value'[d] = value[d]
  BY DEF IInv, TypeOK, Allocated, PreviewInv
<1>8. CounterInv' /\ DistinctInv' /\ CoverInv'
  BY <1>6, <1>7, NothingHandedOut
<1> QED BY <1>1a, <1>2, <1>3, <1>4, <1>5, <1>8 DEF IInv

LEMMA InsertRowStep == ASSUME IInv, NEW c \in Calls, InsertRow(c) PROVE IInv'
<1> USE DEF InsertRow, Goto, At, NoRow
<1>1. TypeOK' BY DEF IInv, TypeOK, Steps
<1>2. PreviewInv' BY DEF IInv, TypeOK, PreviewInv
<1>3. LockInv' BY DEF IInv, TypeOK, LockInv, PreviewInv, Committing
<1>4. ValueInv' BY DEF IInv, TypeOK, ValueInv, LockInv, Committing
<1>5. AttemptInv' BY DEF IInv, TypeOK, AttemptInv
<1>6. \A d \in Calls : Allocated(d)' <=> Allocated(d)
  BY DEF IInv, TypeOK, Allocated, PreviewInv, CounterInv
<1>7. \A d \in Calls : Allocated(d) => value'[d] = value[d]
  BY DEF IInv, TypeOK, Allocated, PreviewInv
<1>8. CounterInv' /\ DistinctInv' /\ CoverInv'
  BY <1>6, <1>7, NothingHandedOut
<1> QED BY <1>1, <1>2, <1>3, <1>4, <1>5, <1>8 DEF IInv

LEMMA InsertConflictStep == ASSUME IInv, NEW c \in Calls, InsertConflict(c) PROVE IInv'
<1> USE DEF InsertConflict, Goto, At, NoRow
<1>1. TypeOK' BY DEF IInv, TypeOK, Steps
<1>2. PreviewInv' BY DEF IInv, TypeOK, PreviewInv
<1>3. LockInv' BY DEF IInv, TypeOK, LockInv, PreviewInv, Committing
<1>4. ValueInv' BY DEF IInv, TypeOK, ValueInv, LockInv, Committing
<1>5. AttemptInv' BY DEF IInv, TypeOK, AttemptInv
<1>6. \A d \in Calls : Allocated(d)' <=> Allocated(d)
  BY DEF IInv, TypeOK, Allocated, PreviewInv, CounterInv
<1>7. \A d \in Calls : Allocated(d) => value'[d] = value[d]
  BY DEF IInv, TypeOK, Allocated, PreviewInv
<1>8. CounterInv' /\ DistinctInv' /\ CoverInv'
  BY <1>6, <1>7, NothingHandedOut
<1> QED BY <1>1, <1>2, <1>3, <1>4, <1>5, <1>8 DEF IInv

LEMMA CreateJobStep == ASSUME IInv, NEW c \in Calls, CreateJob(c) PROVE IInv'
<1> USE DEF CreateJob, Goto, At, NoRow
<1>1. TypeOK' BY DEF IInv, TypeOK, Steps
<1>2. PreviewInv' BY DEF IInv, TypeOK, PreviewInv
<1>3. LockInv' BY DEF IInv, TypeOK, LockInv, PreviewInv, Committing
<1>4. ValueInv' BY DEF IInv, TypeOK, ValueInv, LockInv, Committing
<1>5. AttemptInv' BY DEF IInv, TypeOK, AttemptInv
<1>6. \A d \in Calls : Allocated(d)' <=> Allocated(d)
  BY DEF IInv, TypeOK, Allocated, PreviewInv, CounterInv
<1>7. \A d \in Calls : Allocated(d) => value'[d] = value[d]
  BY DEF IInv, TypeOK, Allocated, PreviewInv
<1>8. CounterInv' /\ DistinctInv' /\ CoverInv'
  BY <1>6, <1>7, NothingHandedOut
<1> QED BY <1>1, <1>2, <1>3, <1>4, <1>5, <1>8 DEF IInv

LEMMA AbortStep == ASSUME IInv, NEW c \in Calls, Abort(c) PROVE IInv'
<1> USE DEF Abort, Goto, At, NoRow
<1>1. TypeOK' BY DEF IInv, TypeOK, Steps
<1>2. PreviewInv' BY DEF IInv, TypeOK, PreviewInv
<1>3. LockInv' BY DEF IInv, TypeOK, LockInv, PreviewInv, Committing
<1>4. ValueInv' BY DEF IInv, TypeOK, ValueInv, LockInv, Committing
<1>5. AttemptInv' BY DEF IInv, TypeOK, AttemptInv
<1>6. \A d \in Calls : Allocated(d)' <=> Allocated(d)
  BY DEF IInv, TypeOK, Allocated, PreviewInv, CounterInv
<1>7. \A d \in Calls : Allocated(d) => value'[d] = value[d]
  BY DEF IInv, TypeOK, Allocated, PreviewInv
<1>8. CounterInv' /\ DistinctInv' /\ CoverInv'
  BY <1>6, <1>7, NothingHandedOut
<1> QED BY <1>1, <1>2, <1>3, <1>4, <1>5, <1>8 DEF IInv

\* The commit hands its value to c: one more than every version before it.
LEMMA CommitStep == ASSUME IInv, NEW c \in Calls, Commit(c) PROVE IInv'
<1> DEFINE k == KeyOf[c]
<1> USE DEF Commit, Goto, At, NoRow
<1>1. k \in Keys /\ lock[k] = c /\ c \notin Previews
  BY DEF IInv, LockInv, PreviewInv, Committing
<1>2. value[c] = (IF counter[k] = NoRow THEN LegacyMax[k] ELSE counter[k]) + 1
  BY DEF IInv, ValueInv
<1>3. counter'[k] = value[c] /\ \A l \in Keys \ {k} : counter'[l] = counter[l]
  BY <1>1 DEF IInv, TypeOK
<1>4. \A d \in Calls : Allocated(d)' <=> Allocated(d) \/ d = c
  BY <1>1 DEF IInv, TypeOK, Allocated
<1>5. ~Allocated(c)
  BY DEF Allocated
<1>6. \A d \in Calls : Allocated(d) => d \notin Previews
  BY DEF IInv, PreviewInv, Allocated
<1>7. TypeOK' BY DEF IInv, TypeOK, Steps
<1>8. PreviewInv' BY <1>1 DEF IInv, TypeOK, PreviewInv
<1>9. LockInv' BY <1>1 DEF IInv, TypeOK, LockInv, Committing
<1>10. ValueInv'
  <2> SUFFICES ASSUME NEW d \in Calls PROVE
        /\ At(d, "commitUpdate")' =>
             counter'[KeyOf[d]] # NoRow /\ value'[d] = counter'[KeyOf[d]] + 1
        /\ At(d, "commitInsert")' => counter'[KeyOf[d]] = NoRow
        /\ pc'[d] \in {"insert", "commitInsert"} /\ counter'[KeyOf[d]] = NoRow =>
             value'[d] = LegacyMax[KeyOf[d]] + 1
    BY DEF ValueInv
  <2>1. CASE d = c BY <2>1 DEF IInv, TypeOK
  <2>2. CASE d # c /\ KeyOf[d] = k
    BY <2>2, <1>1, <1>3 DEF IInv, TypeOK, LockInv, Committing
  <2>3. CASE KeyOf[d] # k
    BY <2>3, <1>3 DEF IInv, TypeOK, ValueInv
  <2> QED BY <2>1, <2>2, <2>3
<1>11. CounterInv'
  <2>1. \A l \in Keys : counter'[l] # NoRow => counter'[l] > LegacyMax[l]
    BY <1>1, <1>2, <1>3 DEF IInv, TypeOK, CounterInv
  <2>2. ASSUME NEW d \in Calls \ Previews, Allocated(d)'
        PROVE  /\ counter'[KeyOf[d]] # NoRow
               /\ LegacyMax[KeyOf[d]] < value'[d]
               /\ value'[d] <= counter'[KeyOf[d]]
    <3>1. CASE d = c
      BY <3>1, <1>1, <1>2, <1>3 DEF IInv, TypeOK, CounterInv
    <3>2. CASE d # c /\ KeyOf[d] = k
      BY <3>2, <2>2, <1>1, <1>2, <1>3, <1>4 DEF IInv, TypeOK, CounterInv
    <3>3. CASE KeyOf[d] # k
      BY <3>3, <2>2, <1>3, <1>4 DEF IInv, TypeOK, CounterInv
    <3> QED BY <3>1, <3>2, <3>3
  <2> QED BY <2>1, <2>2 DEF CounterInv
<1>12. \A d \in Calls : Allocated(d) /\ KeyOf[d] = k => value[d] < value[c]
  BY <1>2, <1>6 DEF IInv, TypeOK, CounterInv
<1>13. DistinctInv'
  BY <1>4, <1>12 DEF IInv, TypeOK, DistinctInv
<1>14. CoverInv'
  <2> SUFFICES ASSUME NEW l \in Keys, counter'[l] # NoRow,
                      NEW v \in LegacyMax[l] + 1 .. counter'[l]
               PROVE  \E d \in Calls : KeyOf[d] = l /\ Allocated(d)' /\ value'[d] = v
    BY DEF CoverInv
  <2>1. CASE l = k /\ v = value[c]
    BY <2>1, <1>4
  <2>2. CASE l # k \/ v # value[c]
    <3>1. counter[l] # NoRow /\ v \in LegacyMax[l] + 1 .. counter[l]
      BY <2>2, <1>1, <1>2, <1>3 DEF IInv, TypeOK
    <3>2. PICK d \in Calls : KeyOf[d] = l /\ Allocated(d) /\ value[d] = v
      BY <3>1 DEF IInv, CoverInv
    <3> QED BY <3>2, <1>4
  <2> QED BY <2>1, <2>2
<1>15. AttemptInv'
  <2>1. \A l \in Keys : counter[l] # NoRow => counter'[l] # NoRow
    BY <1>1, <1>3 DEF IInv, TypeOK
  <2> QED BY <2>1, <1>1, <1>3 DEF IInv, TypeOK, AttemptInv
<1> QED BY <1>7, <1>8, <1>9, <1>10, <1>11, <1>13, <1>14, <1>15 DEF IInv

LEMMA NextIInv == IInv /\ [Next]_vars => IInv'
<1> SUFFICES ASSUME IInv, [Next]_vars PROVE IInv' OBVIOUS
<1>1. ASSUME NEW c \in Calls, Step(c) PROVE IInv'
  BY <1>1, BeginStep, IncrementStep, MissRowStep, ComputeSeedStep, InsertRowStep,
     InsertConflictStep, CommitStep, CreateJobStep DEF Step
<1>2. ASSUME NEW c \in Calls, Abort(c) PROVE IInv'
  BY <1>2, AbortStep
<1>3. CASE UNCHANGED vars
  BY <1>3 DEF vars, IInv, TypeOK, PreviewInv, LockInv, ValueInv, CounterInv, DistinctInv,
       CoverInv, AttemptInv, Allocated, Committing, At
<1> QED BY <1>1, <1>2, <1>3 DEF Next, Rest

LEMMA IInvAlways == Spec => []IInv
BY InitIInv, NextIInv, PTL DEF Spec

\* The state of the allocator is always well typed.
THEOREM AllocatorTypeOK == Spec => []TypeOK
<1>1. IInv => TypeOK BY DEF IInv
<1> QED BY <1>1, IInvAlways, PTL

\* No version is handed out twice for one (dataset, model type) pair, whatever
\* the number of concurrent job creators (get_next_version).
THEOREM VersionsAreUnique == Spec => []UniqueVersions
<1>1. IInv => UniqueVersions
  <2>1. ASSUME IInv, NEW c \in Calls, Allocated(c)
        PROVE  value[c] > LegacyMax[KeyOf[c]]
    BY <2>1 DEF IInv, TypeOK, CounterInv, PreviewInv, Allocated
  <2> QED BY <2>1 DEF IInv, DistinctInv, UniqueVersions
<1> QED BY <1>1, IInvAlways, PTL

\* The versions handed out continue the older jobs' sequence without a hole
\* (_compute_seed_version).
THEOREM VersionsContinue == Spec => []VersionsContinueSequence
<1>1. IInv => VersionsContinueSequence
  <2> SUFFICES ASSUME IInv, NEW k \in Keys, counter[k] # NoRow
               PROVE  {value[c] : c \in {d \in Calls : KeyOf[d] = k /\ Allocated(d)}}
                        = LegacyMax[k] + 1 .. counter[k]
    BY DEF VersionsContinueSequence
  <2>1. \A d \in Calls : KeyOf[d] = k /\ Allocated(d) =>
          value[d] \in LegacyMax[k] + 1 .. counter[k]
    BY DEF IInv, TypeOK, CounterInv, PreviewInv, Allocated, NoRow
  <2>2. \A v \in LegacyMax[k] + 1 .. counter[k] :
          \E d \in Calls : KeyOf[d] = k /\ Allocated(d) /\ value[d] = v
    BY DEF IInv, CoverInv
  <2> QED BY <2>1, <2>2
<1> QED BY <1>1, IInvAlways, PTL

\* The RuntimeError of get_next_version is unreachable for every number of
\* concurrent creators, as long as two attempts are allowed.
THEOREM AllocationNeverGivesUp == Spec => []NeverGivesUp
<1>1. IInv => NeverGivesUp BY DEF IInv, AttemptInv, NeverGivesUp
<1> QED BY <1>1, IInvAlways, PTL

\* A counter never goes back, whichever transactions commit or roll back.
THEOREM CounterOnlyGrows == Spec => CounterNeverRewinds
<1> DEFINE Grows == \A k \in Keys : counter'[k] >= counter[k]
<1>1. ASSUME IInv, NEW c \in Calls, Commit(c) PROVE Grows
  <2>1. lock[KeyOf[c]] = c /\ c \notin Previews
    BY <1>1 DEF IInv, LockInv, PreviewInv, Committing, Commit
  <2>2. value[c] >= counter[KeyOf[c]]
    BY <1>1 DEF IInv, TypeOK, ValueInv, Commit, At, NoRow
  <2> QED BY <1>1, <2>2 DEF Commit, IInv, TypeOK, NoRow
<1>2. ASSUME IInv, NEW c \in Calls, Step(c) \/ Abort(c), ~Commit(c) PROVE UNCHANGED counter
  BY <1>2 DEF Step, Begin, Increment, MissRow, ComputeSeed, InsertRow, InsertConflict,
              CreateJob, Abort
<1>3. IInv /\ [Next]_vars => [Grows]_counter
  BY <1>1, <1>2 DEF Next, Rest, vars
<1> QED BY <1>3, IInvAlways, PTL DEF Spec, CounterNeverRewinds

\* Allocation implements the atomic sequence: the commit of a call is the step
\* that gives it its version, every other step changes nothing visible.
THEOREM AllocationIsASequence == Spec => ImplementsSequence
<1>1. Init => Sequence!Init
  BY DEF Init, Sequence!Init, Last, Given, Allocated, At, NoRow
<1>2. ASSUME IInv, NEW c \in Calls, Commit(c) PROVE Sequence!Take(c)
  <2> DEFINE k == KeyOf[c]
  <2>1. k \in Keys /\ lock[k] = c /\ c \notin Previews
    BY <1>2 DEF IInv, LockInv, PreviewInv, Committing, Commit
  <2>2. value[c] = Last[k] + 1
    BY <1>2, <2>1 DEF IInv, ValueInv, Commit, At, Last
  <2>3. Last' = [Last EXCEPT ![k] = value[c]]
    <3>1. \A l \in Keys : counter'[l] = IF l = k THEN value[c] ELSE counter[l]
      BY <1>2, <2>1 DEF IInv, TypeOK, Commit
    <3>2. value[c] # NoRow BY <1>2 DEF IInv, TypeOK, NoRow
    <3>3. \A l \in Keys : Last'[l] = IF l = k THEN value[c] ELSE Last[l] BY <3>1, <3>2 DEF Last
    <3> QED BY <3>3 DEF Last
  <2>4. Given[c] = 0 /\ Given' = [Given EXCEPT ![c] = value[c]]
    <3>1. ~Allocated(c) /\ \A d \in Calls : Allocated(d)' <=> Allocated(d) \/ d = c
      BY <1>2, <2>1 DEF IInv, TypeOK, Commit, Allocated, At, Goto
    <3>2. \A d \in Calls : Given'[d] = IF d = c THEN value[c] ELSE Given[d]
      BY <1>2, <3>1 DEF Commit, Given
    <3> QED BY <3>1, <3>2 DEF Given
  <2> QED BY <2>2, <2>3, <2>4 DEF Sequence!Take
<1>3. ASSUME IInv, NEW c \in Calls, Step(c) \/ Abort(c), ~Commit(c) PROVE UNCHANGED <<Last, Given>>
  <2>1. counter' = counter
    BY <1>3 DEF Step, Begin, Increment, MissRow, ComputeSeed, InsertRow, InsertConflict,
                CreateJob, Abort
  <2>2. ASSUME NEW d \in Calls
        PROVE  /\ Allocated(d)' <=> Allocated(d)
               /\ Allocated(d) => value'[d] = value[d]
    <3>1. CASE Step(c)
      BY <1>3, <3>1 DEF Step, Begin, Increment, MissRow, ComputeSeed, InsertRow,
           InsertConflict, CreateJob, Goto, At, IInv, TypeOK, Allocated, PreviewInv
    <3>2. CASE Abort(c)
      <4>1. CASE d # c BY <1>3, <3>2, <4>1 DEF Abort, Goto, At, IInv, TypeOK, Allocated
      <4>2. CASE d = c /\ pc[c] = "create"
        <5>1. c \in Previews => value[c] = 0 BY <1>3 DEF IInv, PreviewInv
        <5>2. c \notin Previews => value[c] > 0
          BY <1>3, <4>2 DEF IInv, TypeOK, CounterInv, Allocated, At
        <5>3. pc'[c] = "aborted" /\ value'[c] = value[c]
          BY <1>3, <3>2, <4>2 DEF Abort, Goto, At, IInv, TypeOK
        <5> QED BY <4>2, <5>1, <5>2, <5>3 DEF Allocated, At
      <4>3. CASE d = c /\ pc[c] # "create"
        BY <1>3, <3>2, <4>3 DEF Abort, Goto, At, IInv, TypeOK, Allocated
      <4> QED BY <4>1, <4>2, <4>3
    <3> QED BY <1>3, <3>1, <3>2
  <2> QED BY <2>1, <2>2 DEF Last, Given
<1>4. IInv /\ [Next]_vars => [Sequence!Next]_(Sequence!vars)
  <2>1. CASE UNCHANGED vars
    BY <2>1 DEF vars, Sequence!vars, Last, Given, Allocated, At
  <2> QED BY <1>2, <1>3, <2>1 DEF Next, Rest, Sequence!Next, Sequence!vars
<1> QED BY <1>1, <1>4, IInvAlways, PTL DEF Spec, Sequence!Spec, ImplementsSequence
=============================================================================
