----------------------------- MODULE MCDelivery -----------------------------
(* Instances of Delivery for TLC.                                          *)
EXTENDS Delivery

CallerSymmetry == Permutations(Callers)

\* One call at a time, whatever it is; and calls that overtake one another
\* while requests pick.
Alone(c) ==
    [callers |-> {c}, kinds |-> Kinds, hints |-> Hints, switching |-> TRUE,
     rebinding |-> TRUE, requesting |-> FALSE, failing |-> FALSE]
Concurrent ==
    [callers |-> Callers, kinds |-> {"quota"}, hints |-> {}, switching |-> FALSE,
     rebinding |-> FALSE, requesting |-> TRUE, failing |-> TRUE]

MCSettings == {Alone(c) : c \in Callers} \cup {Concurrent}
MCKinds == {"quota", "unauthorized", "transient"}

=============================================================================
