-------------------------- MODULE MCRegressionStore --------------------------
(* The model-checking instance of RegressionStore. *)
EXTENDS RegressionStore, TLC

Interchangeable == Permutations(TestIds)
=============================================================================
