------------------------------ MODULE MCScaler ------------------------------
(***************************************************************************)
(* Scaler on small instances.                                              *)
(***************************************************************************)
EXTENDS Scaler, TLC

CONSTANTS j1, j2

TwoJobs == {j1, j2}
JobSymmetry == Permutations(TwoJobs)   \* sound: used for safety only
=============================================================================
