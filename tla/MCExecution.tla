----------------------------- MODULE MCExecution -----------------------------
(* Instances of Execution for TLC.                                         *)
EXTENDS Execution

CONSTANTS c1, c2

\* c1 has a number of retries of its own.
MCOverride == [c \in Creds |-> IF c = c1 THEN 1 ELSE NoOverride]

\* Without a cap; with one, a longer wait and fewer retries.
MCSettings ==
    {[retry |-> 1, cap |-> 0, interval |-> 1],
     [retry |-> 0, cap |-> 1, interval |-> 2]}

MCKinds == {"quota", "transient"}

=============================================================================
