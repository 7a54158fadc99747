--------------------------- MODULE CredentialPool ---------------------------
(***************************************************************************)
(* What the scheduler promises for the requests of one model: whatever it  *)
(* caches and rotates, a request gets a credential that is not blocked,    *)
(* of the best rank there is, or an error that tells the truth about the   *)
(* credentials that could have served it.  Scheduler.tla implements this.  *)
(***************************************************************************)
EXTENDS Integers, FiniteSets, FiniteSetsExt

CONSTANTS
    Ids,        \* credentials, ordered by their IDs
    Providers,
    Priorities

VARIABLES
    now,    \* time.Now()
    auths,  \* the record last delivered for each credential
    answer  \* the answer to the last request, until something else happens

poolVars == <<now, auths, answer>>

Never == 0

\* What selection reads of a credential.  retryAt is Never when the state of
\* the model is not flagged unavailable; exceeded and recoverAt are those of
\* its quota record.  absent also stands for a disabled credential.
Record ==
    [absent : BOOLEAN, provider : Providers, priority : Priorities,
     websocket : BOOLEAN, serves : BOOLEAN, exceeded : BOOLEAN,
     retryAt : Nat, recoverAt : Nat]

Kinds == {"none", "auth", "cooldown", "unavailable", "not_found"}

NoAnswer == [kind |-> "none", id |-> 0, at |-> Never]

Waiting(a) == a.retryAt > now

\* The instant an error reports for a waiting credential.
ReportedRetry(a, t) == IF a.recoverAt > t THEN a.recoverAt ELSE a.retryAt

Candidates(from, excluded) ==
    {i \in Ids \ excluded : /\ ~auths[i].absent
                            /\ auths[i].provider \in from
                            /\ auths[i].serves}

\* Credentials that nothing holds back.  One whose retry time has come inside
\* an open quota window may be served and may be held back.
Open(C) == {i \in C : ~Waiting(auths[i]) /\ auths[i].recoverAt <= now}

\* A request over a websocket prefers any credential that supports it.
Outranks(i, j, websocket) ==
    IF websocket /\ auths[i].websocket # auths[j].websocket
    THEN auths[i].websocket
    ELSE auths[i].priority > auths[j].priority

Serve(C, websocket) ==
    \E i \in C :
        /\ ~Waiting(auths[i])
        /\ ~\E j \in Open(C) : Outranks(j, i, websocket)
        /\ answer' = [kind |-> "auth", id |-> i, at |-> Never]

Refuse(C) ==
    /\ Open(C) = {}
    /\ answer' =
         CASE C = {} -> [NoAnswer EXCEPT !.kind = "not_found"]
           [] C # {} /\ (\A i \in C : auths[i].exceeded) ->
                [kind |-> "cooldown", id |-> 0,
                 at |-> Min({ReportedRetry(auths[i], now) : i \in C})]
           [] OTHER -> [NoAnswer EXCEPT !.kind = "unavailable"]

Request(from, excluded, websocket) ==
    LET C == Candidates(from, excluded)
    IN  /\ Serve(C, websocket) \/ Refuse(C)
        /\ UNCHANGED <<now, auths>>

\* A record is delivered or taken away.
Deliver(i) ==
    /\ auths'[i] \in Record
    /\ auths' = [auths EXCEPT ![i] = auths'[i]]
    /\ answer' = NoAnswer
    /\ UNCHANGED now

Pass ==
    /\ now' = now + 1
    /\ answer' = NoAnswer
    /\ UNCHANGED auths

PoolInit ==
    /\ now = 1
    /\ auths \in [Ids -> {a \in Record : a.absent}]
    /\ answer = NoAnswer

PoolNext ==
    \/ \E from \in SUBSET Providers, excluded \in SUBSET Ids,
          websocket \in BOOLEAN : Request(from, excluded, websocket)
    \/ \E i \in Ids : Deliver(i)
    \/ Pass

PoolSpec == PoolInit /\ [][PoolNext]_poolVars

=============================================================================
