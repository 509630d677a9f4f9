--------------------------- MODULE MCInferenceRuns ---------------------------
(***************************************************************************)
(* Two instances of the inference page, which are interchangeable.         *)
(***************************************************************************)
EXTENDS InferenceRuns, TLC

Symmetry == Permutations(Pages)
=============================================================================
