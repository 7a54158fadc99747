---------------------------- MODULE MCScheduler -----------------------------
(* Instances of Scheduler for TLC.                                         *)
EXTENDS Scheduler

CONSTANTS p1, p2

Ready(p, q) == [provider |-> p, priority |-> q, websocket |-> FALSE,
                serves |-> TRUE, wait |-> 0, window |-> 0]

\* The order of a mixed request.
BothProviders == <<p1, p2>>

\* Ready, with and without a websocket, waiting at a higher priority for a
\* quota window that outlasts the retry time, waiting at the other provider for
\* another reason, and without the model.
PoolRecords ==
    {Ready(p1, 0),
     [Ready(p1, 0) EXCEPT !.websocket = TRUE],
     [Ready(p1, 1) EXCEPT !.wait = 1, !.window = 2],
     [Ready(p2, 1) EXCEPT !.wait = 1],
     [Ready(p1, 0) EXCEPT !.serves = FALSE]}

\* Ready at two providers, and one that may wait: what the rotation depends on.
RotationRecords ==
    {Ready(p1, 0), Ready(p2, 0), [Ready(p1, 0) EXCEPT !.wait = 1]}

\* The history does not influence the rest: a run that does not check it leaves
\* it out of the state.
WithoutHistory == <<now, auths, answer, shards, mixedCursor, strategy>>

=============================================================================
