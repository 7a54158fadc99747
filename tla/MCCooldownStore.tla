--------------------------- MODULE MCCooldownStore ---------------------------
(* Instances of CooldownStore for TLC.                                     *)
EXTENDS CooldownStore

=============================================================================
