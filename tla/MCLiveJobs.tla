----------------------------- MODULE MCLiveJobs -----------------------------
(***************************************************************************)
(* One of the two users of the socket acts in a behaviour: the job store,  *)
(* over one connection that is never lost (bound: events still are), or a  *)
(* component that polls jobs, over one that is, where either a read fails  *)
(* or a row is deleted.  Where an effect leaves an interval or a round     *)
(* behind, no connection is lost and the next effects have one job each.   *)
(* A behaviour ends with the first lapse, which excuses what comes after.  *)
(***************************************************************************)
EXTENDS LiveJobs

VARIABLE focus

FocusInit ==
  /\ LiveInit /\ focus \in {"store", "component"}
  /\ focus = "component" => \A j \in Jobs : state[j] # "orphan"

FocusNext ==
  /\ LiveNext /\ UNCHANGED focus
  /\ ~lapsed /\ (focus = "store" => lapses = {})
  /\ focus = "component" /\ tracked' # {} => created = MaxJobs
  /\ errors' + Cardinality(gone') <= 1
  /\ orphan' \/ late' => drops' = 0 /\ Cardinality(tracked') <= 1
  /\ focus = "store" => (created' # created => mine' # mine)
  /\ IF focus = "store" THEN UNCHANGED <<pollVars, drops>>
     ELSE UNCHANGED <<rows, requests, loop, pending, mine>>

FocusSpec == FocusInit /\ [][FocusNext]_<<liveVars, focus>> /\ LiveFairness
=============================================================================
