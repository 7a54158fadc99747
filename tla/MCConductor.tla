---------------------------- MODULE MCConductor -----------------------------
(* Instances of Conductor for TLC.                                         *)
EXTENDS Conductor, TLC

ModelSymmetry == Permutations(Models)

\* A wait that the ladder decides, one with a floor, one that is fixed, one
\* that cooldowns being disabled does not lift, and a failure without any.
\* The other kinds wait as not_found does, each for a time of its own.
CoreKinds ==
    {"quota", "cloudflare", "not_found", "model_not_supported", "other"}

=============================================================================
