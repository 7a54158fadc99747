------------------------------ MODULE MCRefresh ------------------------------
(* Instances of Refresh for TLC.                                           *)
EXTENDS Refresh, TLC

WorkerSymmetry == Permutations(Workers)

=============================================================================
