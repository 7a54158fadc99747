------------------------------ MODULE Conductor -----------------------------
(***************************************************************************)
(* The Manager's bookkeeping for one credential: every operation of        *)
(* conductor.go that changes the availability of a registered credential   *)
(* while it holds m.mu.  Results of concurrent executions arrive in any    *)
(* order and at any time, also for a model that is already blocked (the    *)
(* execution started before the block) and for a disabled credential.      *)
(*                                                                         *)
(* What happens after m.mu is released (scheduler, registry, cooldown      *)
(* files) is added by the modules that extend this one.                    *)
(***************************************************************************)
EXTENDS Cooldown

CONSTANTS
    Kinds,        \* the failures that occur, a subset of FailureKinds
    AuthResults,  \* whether results without a model occur
    MaxTime       \* bound: the clock stops here

ASSUME ConductorAssumption ==
    /\ Kinds \subseteq FailureKinds
    /\ AuthResults \in BOOLEAN
    /\ MaxTime \in Nat \ {0}

VARIABLES
    now,         \* time.Now()
    auth,        \* m.auths[id]
    cooling,     \* FALSE when the configuration disables cooldowns for it
    clearing,    \* SetConfig stored a configuration and has not cleared yet
    ladderEnd,   \* history: end of the last window the quota ladder opened
    aggregated,  \* history: the credential's own fields were last written by
                 \* updateAggregatedAvailability
    unsupported  \* history: the models that the latest result refused as
                 \* not supported

conductorVars ==
    <<now, auth, cooling, clearing, ladderEnd, aggregated, unsupported>>

ConductorTypeOK ==
    /\ now \in Nat \ {0}
    /\ auth \in Auth
    /\ cooling \in BOOLEAN
    /\ clearing \in BOOLEAN
    /\ ladderEnd \in [Models -> Nat]
    /\ aggregated \in BOOLEAN
    /\ unsupported \in SUBSET Models

ConductorInit ==
    /\ now = 1
    /\ auth = FreshAuth
    /\ cooling \in BOOLEAN
    /\ clearing = FALSE
    /\ ladderEnd = [m \in Models |-> Never]
    /\ aggregated = TRUE
    /\ unsupported = {}

-----------------------------------------------------------------------------
(* MarkResult, the part under m.mu.                                        *)

RecordSuccess(m) ==
    /\ auth' = Settled(Aggregate([auth EXCEPT !.ms[m] = CleanState], now))
    /\ ladderEnd' = [ladderEnd EXCEPT ![m] = Never]
    /\ unsupported' = unsupported \ {m}
    /\ aggregated' = TRUE
    /\ UNCHANGED <<now, cooling, clearing>>

\* A window counts as the ladder's when a 429 without a hint opened it.
LadderEndAfter(m, kind, hint, old, new) ==
    CASE kind \notin QuotaKinds -> ladderEnd[m]
      [] kind = "quota" /\ hint = NoHint /\ cooling ->
            IF new.recoverAt = old.recoverAt THEN ladderEnd[m]
                                             ELSE new.recoverAt
      [] OTHER -> Never

RecordFailure(m, kind, hint) ==
    LET s == FailedModel(auth.ms[m], kind, hint, cooling, now)
    IN  /\ auth' = Aggregate([auth EXCEPT !.failed = TRUE, !.ms[m] = s], now)
        /\ ladderEnd' = [ladderEnd EXCEPT
               ![m] = LadderEndAfter(m, kind, hint, auth.ms[m].quota, s.quota)]
        /\ unsupported' = IF kind = "model_not_supported"
                          THEN unsupported \cup {m} ELSE unsupported \ {m}
        /\ aggregated' = TRUE
        /\ UNCHANGED <<now, cooling, clearing>>

RecordAuthSuccess ==
    /\ AuthResults
    /\ auth' = SucceededAuth(auth)
    /\ aggregated' = FALSE
    /\ UNCHANGED <<now, cooling, clearing, ladderEnd, unsupported>>

RecordAuthFailure(kind, hint) ==
    /\ AuthResults
    /\ auth' = FailedAuth(auth, kind, hint, cooling, now)
    /\ aggregated' = FALSE
    /\ UNCHANGED <<now, cooling, clearing, ladderEnd, unsupported>>

-----------------------------------------------------------------------------
(* Management and configuration.                                           *)

Forget == ladderEnd' = [m \in Models |-> Never] /\ unsupported' = {}

\* ResetQuota: the operator clears every model and the credential itself.
ResetQuota ==
    LET reset == [auth EXCEPT !.ms = [m \in Models |->
                     IF auth.ms[m].known THEN CleanState ELSE AbsentState]]
        a     == ClearCooldown(reset, now)
    IN  /\ auth' = IF auth.disabled THEN a ELSE Settled(a)
        /\ aggregated' = TRUE
        /\ Forget
        /\ UNCHANGED <<now, cooling, clearing>>

\* ReconcileRegistryModelStates, after the credential's models were
\* registered again as S: states of other models go, the rest is reset.
Reconcile(S) ==
    /\ Known(auth) \ S # {} \/ \E m \in Known(auth) : auth.ms[m] # CleanState
    /\ auth' = Settled(Aggregate(
                  [auth EXCEPT !.ms = [m \in Models |->
                      IF m \in Known(auth) \cap S THEN CleanState
                                                  ELSE AbsentState]], now))
    /\ aggregated' = TRUE
    /\ Forget
    /\ UNCHANGED <<now, cooling, clearing>>

\* SetConfig stores the new configuration first ...
StoreConfig(b) ==
    /\ ~clearing
    /\ b # cooling
    /\ cooling' = b
    /\ clearing' = TRUE
    /\ UNCHANGED <<now, auth, ladderEnd, aggregated, unsupported>>

\* ... and then clears the credentials it no longer cools
\* (clearDisabledCooldownStates).
ClearDisabledCooldownStates ==
    /\ clearing
    /\ clearing' = FALSE
    /\ IF cooling /\ ~auth.disabled
       THEN UNCHANGED <<auth, ladderEnd, aggregated, unsupported>>
       ELSE /\ auth' = ClearCooldown(auth, now)
            /\ aggregated' = TRUE
            /\ Forget
    /\ UNCHANGED <<now, cooling>>

\* The operator switches the credential off or on: Update with a clone of
\* the current record.  Cooldowns are cleared when it is off or not cooled.
SetDisabled(b) ==
    LET a == [auth EXCEPT !.disabled = b, !.failed = FALSE]
        clear == b \/ ~cooling
    IN  /\ b # auth.disabled
        /\ auth' = IF clear THEN ClearCooldown(a, now) ELSE a
        /\ aggregated' = (clear \/ aggregated)
        /\ IF clear THEN Forget ELSE UNCHANGED <<ladderEnd, unsupported>>
        /\ UNCHANGED <<now, cooling, clearing>>

Tick ==
    /\ now < MaxTime
    /\ now' = now + 1
    /\ UNCHANGED <<auth, cooling, clearing, ladderEnd, aggregated,
                   unsupported>>

-----------------------------------------------------------------------------

HintsFor(kind) == IF kind = "quota" THEN Hints \cup {NoHint} ELSE {NoHint}

Results ==
    \/ \E m \in Models : RecordSuccess(m)
    \/ \E m \in Models, k \in Kinds : \E h \in HintsFor(k) :
           RecordFailure(m, k, h)
    \/ RecordAuthSuccess
    \/ \E k \in Kinds : \E h \in HintsFor(k) : RecordAuthFailure(k, h)

Management ==
    \/ ResetQuota
    \/ \E S \in SUBSET Models : Reconcile(S)
    \/ \E b \in BOOLEAN : StoreConfig(b)
    \/ ClearDisabledCooldownStates
    \/ \E b \in BOOLEAN : SetDisabled(b)

ConductorNext == Results \/ Management \/ Tick

ConductorSpec == ConductorInit /\ [][ConductorNext]_conductorVars

-----------------------------------------------------------------------------
(* Properties                                                              *)

ModelBlocked(m) == Cooling(auth.ms[m], now)

AuthBlocked == auth.unavailable /\ auth.retryAt > now

\* However results interleave, no deadline lies further ahead than one
\* failure imposes: waits never add up, so every block ends on its own.
BlocksEndInTime ==
    /\ auth.retryAt <= now + LongestWait
    /\ auth.quota.recoverAt <= now + LongestWait
    /\ \A m \in Models :
          /\ auth.ms[m].retryAt <= now + LongestWait
          /\ auth.ms[m].quota.recoverAt <= now + LongestWait

\* The availability shown for the credential is the one of its models at
\* every instant until the next result, also while deadlines elapse and no
\* code runs: it is unavailable exactly while every model it has a state
\* for is blocked, and its quota record covers those of the models.
AggregateAgrees ==
    aggregated =>
        /\ AuthBlocked <=> /\ Known(auth) # {}
                           /\ \A m \in Known(auth) : ModelBlocked(m)
        /\ \A m \in Models :
              /\ auth.ms[m].quota.exceeded => auth.quota.exceeded
              /\ auth.ms[m].quota.level <= auth.quota.level

\* Once SetConfig has disabled cooldowns and returned, the one thing that
\* takes a model out of rotation is a latest result that refused it as not
\* supported, and the credential is out only while every model it has a
\* state for is.  config.example.yaml:126 promises more, that disable-cooling
\* "prevents blackout windows after failure states": the code blocks an
\* unsupported model for 12 hours whatever the setting.
NoBlackoutWithoutCooling ==
    ~cooling /\ ~clearing =>
        /\ \A m \in Models : ModelBlocked(m) => m \in unsupported
        /\ AuthBlocked => /\ Known(auth) # {}
                          /\ \A m \in Known(auth) : ModelBlocked(m)

\* A burst of failures climbs the quota ladder once: a new ladder window
\* opens only after the previous one has ended, whatever other failures,
\* successes of other models or configuration changes came in between.
WindowsDoNotOverlap ==
    [][\A m \in Models :
          ladderEnd'[m] # ladderEnd[m] /\ ladderEnd'[m] # Never
             => ladderEnd[m] <= now]_conductorVars

\* The ladder is left only at the bottom: no result lowers the backoff of a
\* model by part of its way, and none lowers it while blocking the model.
LadderFallsToGround ==
    [][\A m \in Models :
          auth'.ms[m].quota.level < auth.ms[m].quota.level
             => auth'.ms[m].quota.level = 0 /\ ~ModelBlocked(m)']_conductorVars

=============================================================================
