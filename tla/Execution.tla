------------------------------ MODULE Execution ------------------------------
(***************************************************************************)
(* One client request on its way through Execute, ExecuteCount or          *)
(* ExecuteStream of conductor.go: rounds over the credentials, the wait    *)
(* for one that cools down between two rounds, and the results reported on *)
(* the way.  Other requests report results of the same credentials at any  *)
(* time, and the operator switches, resets and reconfigures.               *)
(*                                                                         *)
(* Every credential serves one upstream model; the home server and the     *)
(* fallback on Antigravity credits are left out.  What a result does to a  *)
(* credential is Cooldown's; how the Manager's scheduler comes to know it  *)
(* is Delivery's, so that a pick reads the records here.                   *)
(*                                                                         *)
(* Time is relative: the clock always shows Present and a tick moves the   *)
(* deadlines towards it, where they stay once elapsed.  Nothing in         *)
(* Cooldown tells two elapsed deadlines apart, and no bound on the clock   *)
(* is needed.                                                              *)
(***************************************************************************)
EXTENDS Cooldown, FiniteSetsExt, Functions

CONSTANTS
    Creds,          \* the credentials that serve the model
    NoOverride,     \* "the credential has no request_retry of its own"
    Override,       \* [Creds -> Nat \cup {NoOverride}]
    Settings,       \* the retry settings the operator switches between
    JitterDivisor,  \* 4: the jitter is below this part of the wait
    JitterCap,      \* cooldownWaitJitterCap
    Reliable,       \* those whose provider may serve everything, and which the
                    \* operator then leaves switched on
    Kinds           \* the failures that occur

ASSUME ExecutionAssumption ==
    /\ Kinds \subseteq FailureKinds /\ Reliable \subseteq Creds
    /\ IsFiniteSet(Creds) /\ IsFiniteSet(Settings)
    /\ Override \in [Creds -> Nat \cup {NoOverride}]
    /\ Settings \subseteq [retry : Nat, cap : Nat, interval : Nat]
    /\ JitterDivisor \in Nat \ {0} /\ JitterCap \in Nat

VARIABLES
    creds,     \* m.auths: the switch and the state of the model
    cooling,   \* FALSE when cooldowns are configured off
    healthy,   \* the credentials whose provider serves everything: unknown
               \* to the program
    config,    \* requestRetry, maxRetryCredentials and maxRetryInterval
    req        \* the request

vars == <<creds, cooling, healthy, config, req>>

Present == 1
Model   == CHOOSE m \in Models : TRUE

NoError == [kind |-> "none", hint |-> NoHint]

\* tried, last: executeMixedOnce.  cap, interval: what retrySettings returned.
\* calls, target, renewed: history (calls of the whole request, credentials
\* whose end of block it waits for, and those of them that failed since).
\* answer: how the last request failed, if it did.
Idle ==
    [at |-> "idle", round |-> 0, tried |-> {}, cred |-> NoOverride,
     last |-> NoError, wait |-> 0, cap |-> 0, interval |-> 0,
     calls |-> 0, target |-> {}, renewed |-> {}, answer |-> "none"]

Init ==
    /\ creds = [c \in Creds |-> [disabled |-> FALSE, state |-> CleanState]]
    /\ cooling \in BOOLEAN
    /\ healthy \in SUBSET Reliable
    /\ config \in Settings
    /\ req = Idle

-----------------------------------------------------------------------------
(* Results and what they do to a credential                                *)

\* MarkResult, the part that decides whether the model is blocked.
MarkSuccess(c) == creds' = [creds EXCEPT ![c].state = CleanState]

\* That the model has an error decides nothing here and is not kept.
MarkFailure(c, k, h) ==
    creds' = [creds EXCEPT ![c].state =
        [Expired(FailedModel(@, k, h, cooling, Present), Present)
            EXCEPT !.failed = FALSE]]

HintsOf(k) == IF k = "quota" THEN Hints \cup {NoHint} ELSE {NoHint}

-----------------------------------------------------------------------------
(* A round: executeMixedOnce and executeStreamMixedOnce                    *)

Start ==
    /\ req.at = "idle"
    /\ req' = [Idle EXCEPT !.at = "pick", !.cap = config.cap,
                           !.interval = config.interval]
    /\ UNCHANGED <<creds, cooling, healthy, config>>

CapReached == req.cap > 0 /\ Cardinality(req.tried) >= req.cap

CoolingDown(c) == ~creds[c].disabled /\ Cooling(creds[c].state, Present)

Ready(c) == ~creds[c].disabled /\ ~CoolingDown(c)

\* pickNextMixed.  Which of the ready ones it takes is the Scheduler's.
Pick(c) ==
    /\ req.at = "pick" /\ ~CapReached
    /\ c \notin req.tried /\ Ready(c)
    /\ req' = [req EXCEPT !.at = "call", !.cred = c, !.calls = @ + 1,
                          !.tried = @ \cup {c}]
    /\ UNCHANGED <<creds, cooling, healthy, config>>

\* The error of a pick is that of the last call, if there was one.
EndRound ==
    /\ req.at = "pick"
    /\ CapReached \/ \A c \in Creds \ req.tried : ~Ready(c)
    /\ req' = [req EXCEPT !.at = "decide", !.cred = NoOverride]
    /\ UNCHANGED <<creds, cooling, healthy, config>>

Answered ==
    /\ req.at = "call"
    /\ MarkSuccess(req.cred)
    /\ req' = Idle
    /\ UNCHANGED <<cooling, healthy, config>>

\* Mutant: a failure ends the round.
FailureEndsRound(k, h) ==
    /\ req.at = "call" /\ req.cred \notin healthy
    /\ MarkFailure(req.cred, k, h)
    /\ req' = [req EXCEPT !.at = "decide", !.cred = NoOverride,
                          !.last = [kind |-> k, hint |-> h]]
    /\ UNCHANGED <<cooling, healthy, config>>

\* A preparation that fails, a call, or a stream before its first payload:
\* on to the next credential.
Refused(k, h) ==
    /\ req.at = "call" /\ req.cred \notin healthy
    /\ MarkFailure(req.cred, k, h)
    /\ req' = [req EXCEPT !.at = "pick", !.last = [kind |-> k, hint |-> h]]
    /\ UNCHANGED <<cooling, healthy, config>>

\* isRequestInvalidError: the fault of the request, also when it comes as a
\* status 500, which blocks the credential all the same.
Invalid(k) ==
    /\ req.at = "call" /\ (k = "transient" => req.cred \notin healthy)
    /\ MarkFailure(req.cred, k, NoHint)
    /\ req' = Idle
    /\ UNCHANGED <<cooling, healthy, config>>

\* The stream has shown its first payload: the client has its answer, and
\* wrapStreamResult reports when the stream is over.
StreamOpens ==
    /\ req.at = "call"
    /\ req' = [Idle EXCEPT !.at = "stream", !.cred = req.cred]
    /\ UNCHANGED <<creds, cooling, healthy, config>>

StreamEnds ==
    /\ req.at = "stream"
    /\ MarkSuccess(req.cred)
    /\ req' = Idle
    /\ UNCHANGED <<cooling, healthy, config>>

\* A failing chunk is reported without its Retry-After.
StreamBreaks(k) ==
    /\ req.at = "stream" /\ req.cred \notin healthy
    /\ MarkFailure(req.cred, k, NoHint)
    /\ req' = Idle
    /\ UNCHANGED <<cooling, healthy, config>>

\* The client's context ends: nothing is reported, neither for the call nor
\* for the stream it was reading.
Cancelled ==
    /\ req.at \in {"call", "wait", "stream"}
    /\ req' = Idle
    /\ UNCHANGED <<creds, cooling, healthy, config>>

-----------------------------------------------------------------------------
(* Between two rounds: shouldRetryAfterError, waitForCooldown              *)

\* Mutant: the number of retries is one more than configured.
GenerousBudget(c) ==
    1 + (IF Override[c] = NoOverride THEN config.retry ELSE Override[c])

\* The retries a credential allows: its own number or the current setting.
Budget(c) == IF Override[c] = NoOverride THEN config.retry ELSE Override[c]

Retriable(c) == req.round < Budget(c)

WaitFor(c) == ReportedRetry(creds[c].state, Present) - Present

Waiting == {c \in Creds : Retriable(c) /\ CoolingDown(c)}

\* Mutant: the request may wake up before the credential is back.
EarlyWait ==
    IF Waiting # {} THEN Max({1, Min({WaitFor(c) : c \in Waiting}) - 1})
    ELSE IF req.last.kind = "quota" /\ req.last.hint # NoHint
              /\ \E c \in Creds : Retriable(c)
         THEN req.last.hint ELSE 0

\* closestCooldownWait when a credential cools down; otherwise the last
\* error's Retry-After, where a retry is allowed at all.  0: do not retry.
RetryWait ==
    IF Waiting # {} THEN Min({WaitFor(c) : c \in Waiting})
    ELSE IF req.last.kind = "quota" /\ req.last.hint # NoHint
              /\ \E c \in Creds : Retriable(c)
         THEN req.last.hint ELSE 0

\* Mutant: the jitter goes past the limit of the wait.
LimitlessJitter(w, limit) ==
    0..Min({w \div JitterDivisor, JitterCap})

\* jitteredCooldownWait, rounded up.
Jitter(w, limit) ==
    0..Min({w \div JitterDivisor, JitterCap, limit - w})

\* History: the first to come back, unless its quota window is the shorter of
\* its two deadlines and its block lasts longer than it says.
Awaited ==
    {c \in Waiting : /\ \A d \in Waiting : WaitFor(c) <= WaitFor(d)
                     /\ creds[c].state.retryAt - Present <= WaitFor(c)}

WaitForCooldown ==
    /\ req.at = "decide"
    /\ RetryWait \in 1..req.interval
    /\ \E j \in Jitter(RetryWait, req.interval) :
          req' = [req EXCEPT !.at = "wait", !.wait = RetryWait + j,
                             !.target = Awaited, !.renewed = {}]
    /\ UNCHANGED <<creds, cooling, healthy, config>>

\* Mutant: the request gives up only when the wait is too long.
GiveUpBeyondLimit ==
    /\ req.at = "decide"
    /\ RetryWait > req.interval
    /\ req' = [Idle EXCEPT
                   !.answer = IF req.cap = 0 THEN "exhausted" ELSE "capped"]
    /\ UNCHANGED <<creds, cooling, healthy, config>>

GiveUp ==
    /\ req.at = "decide"
    /\ RetryWait \notin 1..req.interval
    /\ req' = [Idle EXCEPT
                   !.answer = IF req.cap = 0 THEN "exhausted" ELSE "capped"]
    /\ UNCHANGED <<creds, cooling, healthy, config>>

NextRound ==
    /\ req.at = "wait" /\ req.wait = 0
    /\ req' = [req EXCEPT !.at = "pick", !.round = @ + 1, !.tried = {},
                          !.last = NoError, !.target = {}, !.renewed = {}]
    /\ UNCHANGED <<creds, cooling, healthy, config>>

-----------------------------------------------------------------------------
(* Everybody else                                                          *)

OtherSucceeds(c) ==
    /\ MarkSuccess(c)
    /\ UNCHANGED <<cooling, healthy, config, req>>

OtherFails(c, k, h) ==
    /\ c \notin healthy
    /\ MarkFailure(c, k, h)
    /\ req' = [req EXCEPT !.renewed = @ \cup (req.target \cap {c})]
    /\ UNCHANGED <<cooling, healthy, config>>

\* Update with the switched record; switching off clears the cooldown.
SetDisabled(c, b) ==
    /\ c \notin healthy /\ b # creds[c].disabled
    /\ creds' = [creds EXCEPT
           ![c] = [disabled |-> b,
                   state |-> IF b \/ ~cooling
                             THEN Expired(Wiped(@.state), Present)
                             ELSE @.state]]
    /\ UNCHANGED <<cooling, healthy, config, req>>

ResetQuota(c) ==
    /\ creds' = [creds EXCEPT ![c].state = CleanState]
    /\ UNCHANGED <<cooling, healthy, config, req>>

\* SetRetryConfig
Reconfigure ==
    /\ config' \in Settings
    /\ UNCHANGED <<creds, cooling, healthy, req>>

Nearer(t) == IF t > Present THEN t - 1 ELSE t

Sooner(s) == [s EXCEPT !.retryAt = Nearer(@), !.quota.recoverAt = Nearer(@)]

Tick ==
    /\ creds' = [c \in Creds |-> [creds[c] EXCEPT !.state = Sooner(@)]]
    /\ req' = [req EXCEPT !.wait = IF @ > 0 THEN @ - 1 ELSE 0]
    /\ UNCHANGED <<cooling, healthy, config>>

-----------------------------------------------------------------------------

Call ==
    \/ Answered \/ StreamOpens \/ Cancelled
    \/ \E k \in Kinds : \E h \in HintsOf(k) : Refused(k, h)
    \/ \E k \in {"other", "transient"} : Invalid(k)
    \/ StreamEnds \/ \E k \in Kinds : StreamBreaks(k)

Round ==
    \/ \E c \in Creds : Pick(c)
    \/ EndRound \/ WaitForCooldown \/ GiveUp \/ NextRound

Others ==
    \/ \E c \in Creds : OtherSucceeds(c) \/ ResetQuota(c)
    \/ \E c \in Creds, k \in Kinds : \E h \in HintsOf(k) : OtherFails(c, k, h)
    \/ \E c \in Creds, b \in BOOLEAN : SetDisabled(c, b)
    \/ Reconfigure

Next == Start \/ Call \/ Round \/ Others \/ Tick

Spec == Init /\ [][Next]_vars

\* The goroutine of a request runs, the provider answers or its connection
\* ends, and time passes.  Nothing is assumed of the others.
Fairness == WF_vars(Call \/ Round) /\ WF_vars(Tick)

FairSpec == Spec /\ Fairness

-----------------------------------------------------------------------------
(* Properties                                                              *)

Errors == [kind : Kinds \cup {"none"}, hint : Hints \cup {NoHint}]

Budgets == {s.retry : s \in Settings} \cup (Range(Override) \ {NoOverride})

Stages == {"idle", "pick", "call", "stream", "decide", "wait"}

Requests ==
    [at : Stages, round : Nat, tried : SUBSET Creds,
     cred : Creds \cup {NoOverride}, last : Errors, wait : Nat, cap : Nat,
     interval : Nat, calls : Nat, target : SUBSET Creds,
     renewed : SUBSET Creds, answer : {"none", "exhausted", "capped"}]

\* The records are those of Cooldown, the request has one of its stages.
TypeOK ==
    /\ creds \in [Creds -> [disabled : BOOLEAN, state : ModelState]]
    /\ cooling \in BOOLEAN /\ healthy \in SUBSET Creds /\ config \in Settings
    /\ req \in Requests

\* While a provider serves everything and its credential may be tried, no
\* request ends in a failure: it goes on from credential to credential past
\* any other failure, whatever happens to the others meanwhile.
HealthyServes == req.answer = "exhausted" => healthy = {}

\* What bounds a request's calls, whatever is reconfigured while it is under
\* way.  The cap it started with holds from one wait to the next and not for the
\* request: each round begins with nothing tried (attempted, executeMixedOnce),
\* so that with retries more different credentials are called than the cap
\* says, against config.example.yaml:119 (max-retry-credentials).  The rounds
\* are no more than the highest number of retries allows.
CallsAreBounded ==
    /\ req.calls <= (req.round + 1) *
                    (IF req.cap = 0 THEN Cardinality(Creds) ELSE req.cap)
    /\ req.round <= Max(Budgets)

\* No wait is longer than the limit the request read, jitter included.
WaitsWithinLimit == req.at = "wait" => req.wait <= req.interval

\* A request does not wake up in vain: at every instant of the wait its rest
\* covers what is left of the block it waits for, unless the credential
\* failed again meanwhile.
WaitCoversBlock ==
    \A c \in req.target \ req.renewed :
        CoolingDown(c) => creds[c].state.retryAt - Present <= req.wait

\* Every request ends, whatever the providers answer and others do to the
\* credentials and the settings.
RequestsEnd == req.at # "idle" ~> req.at = "idle"

=============================================================================
