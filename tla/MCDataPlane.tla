----------------------------- MODULE MCDataPlane -----------------------------
(* Instances of DataPlane for TLC.                                         *)
EXTENDS DataPlane

CONSTANTS base, moved, outside, tls

MCMode == [c \in Configs |-> IF c = outside THEN "external" ELSE "embedded"]

\* moved asks for a child that is started anew.
MCBoot == [c \in Configs |-> IF c = moved THEN "b2" ELSE "b1"]

=============================================================================
