--------------------------- MODULE MCSubmitDedupe ---------------------------
(***************************************************************************)
(* Instances of SubmitDedupe: a click on a run of two branches and two on  *)
(* an edited pipeline that has only the first, served by one worker.       *)
(***************************************************************************)
EXTENDS SubmitDedupe
CONSTANTS q1, q2, q3, w1

MixedBranches == [q \in Requests |-> IF q = q1 THEN 2 ELSE 1]
OneWorker == [q \in Requests |-> w1]
=============================================================================
