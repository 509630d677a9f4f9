---------------------------- MODULE MCDeployment ----------------------------
(***************************************************************************)
(* Instances of Deployment: three deploys and one deactivation, any two of *)
(* which may race.                                                         *)
(***************************************************************************)
EXTENDS Deployment, TLC
CONSTANTS d1, d2, d3, x1

DeploySymmetry == Permutations({d1, d2, d3})
=============================================================================
