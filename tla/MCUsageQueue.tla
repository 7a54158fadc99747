---------------------------- MODULE MCUsageQueue ----------------------------
(* Instances of UsageQueue for TLC.                                        *)
EXTENDS UsageQueue

=============================================================================
