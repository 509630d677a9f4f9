--------------------------- MODULE MCJobLifecycle ---------------------------
(***************************************************************************)
(* Instances of JobLifecycle: one run with two branches on Celery; or one  *)
(* with a single branch, on Celery or as a background task of the API.     *)
(***************************************************************************)
EXTENDS JobLifecycle, TLC
CONSTANTS r1, r2, j1, j2

TwoBranches == r1 :> {j1, j2}
BranchSymmetry == Permutations({j1, j2})
AllCelery == [r \in Runs |-> TRUE]

OneOfEach == r1 :> {j1} @@ r2 :> {j2}
OnlyFirstCelery == [r \in Runs |-> r = r1]

\* One of the runs is requested; the database fails a background task only.
OneRunInit == Init /\ Cardinality({r \in Runs : submit[r] = "idle"}) = 1
OneRunSpec == OneRunInit /\ [][Next]_vars /\ Fairness
=============================================================================
