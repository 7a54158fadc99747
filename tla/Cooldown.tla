------------------------------ MODULE Cooldown ------------------------------
(***************************************************************************)
(* The availability record of one upstream credential, as the Manager of   *)
(* sdk/cliproxy/auth keeps it: the per-model states, the availability      *)
(* aggregated over them, the quota backoff ladder and the rules by which   *)
(* an execution result changes them.  This module holds the pure part: one *)
(* operator per function of conductor.go and selector.go that maps a       *)
(* record to a record.  Conductor.tla turns them into actions.             *)
(*                                                                         *)
(* Time is a natural number of abstract seconds.  The zero time.Time of    *)
(* Go ("no deadline") is Never = 0, and the clock never shows 0.           *)
(***************************************************************************)
EXTENDS Integers, FiniteSets

CONSTANTS
    Models,           \* the model keys of one credential
    NoHint,           \* "the provider sent no Retry-After"
    Hints,            \* the Retry-After durations a provider may send
    QuotaBase,        \* quotaBackoffBase
    QuotaMax,         \* quotaBackoffMax
    LadderTop,        \* first backoff level whose cooldown reaches QuotaMax
    CloudflareFloor,  \* the 10 seconds of nextCloudflareCooldown
    TransientWait,    \* nextTransientErrorRetryAfter; 0 when configured off
    AuthErrorWait,    \* the 30 minutes after invalid_grant, 401, 402 and 403
    MissingWait,      \* the 12 hours after 404 and model_not_supported
    LongestWait       \* bound on all of the above

\* The ladder doubles from QuotaBase and is cut at QuotaMax; LadderTop is
\* where the cut happens (11 for the 1 second and 30 minutes of the source).
ASSUME LadderAssumption ==
    /\ QuotaBase \in Nat \ {0}
    /\ QuotaMax \in Nat \ {0}
    /\ LadderTop \in Nat
    /\ \A l \in 0..LadderTop :
          /\ QuotaBase * 2^l \in Nat \ {0}
          /\ QuotaBase * 2^l >= QuotaMax <=> l = LadderTop

ASSUME WaitAssumption ==
    /\ CloudflareFloor \in Nat \ {0}
    /\ TransientWait \in Nat
    /\ AuthErrorWait \in Nat \ {0}
    /\ MissingWait \in Nat \ {0}
    /\ Hints \subseteq Nat
    /\ NoHint \notin Hints
    /\ LongestWait \in Nat
    /\ \A w \in Hints \cup {QuotaMax, CloudflareFloor, TransientWait,
                            AuthErrorWait, MissingWait} : w <= LongestWait

Never == 0

-----------------------------------------------------------------------------
(* The records.  In a model state failed stands for Status = error and     *)
(* LastError, which a failure sets and a reset clears together; in the     *)
(* credential it stands for Status = error.  known says that ModelStates   *)
(* has an entry for the model.                                             *)

Quota == [exceeded : BOOLEAN, recoverAt : Nat, level : 0..LadderTop]

NoQuota == [exceeded |-> FALSE, recoverAt |-> Never, level |-> 0]

ModelState ==
    [known : BOOLEAN, failed : BOOLEAN, unavailable : BOOLEAN,
     retryAt : Nat, quota : Quota]

AbsentState ==
    [known |-> FALSE, failed |-> FALSE, unavailable |-> FALSE,
     retryAt |-> Never, quota |-> NoQuota]

\* resetModelState: the entry stays, everything in it is cleared.
CleanState == [AbsentState EXCEPT !.known = TRUE]

Auth ==
    [disabled : BOOLEAN, failed : BOOLEAN, unavailable : BOOLEAN,
     retryAt : Nat, quota : Quota, ms : [Models -> ModelState]]

\* A credential as Register leaves it.
FreshAuth ==
    [disabled |-> FALSE, failed |-> FALSE, unavailable |-> FALSE,
     retryAt |-> Never, quota |-> NoQuota,
     ms |-> [m \in Models |-> AbsentState]]

Known(a) == {m \in Models : a.ms[m].known}

-----------------------------------------------------------------------------
(* Is the credential blocked?  (isAuthBlockedForModel)                     *)

\* A state flagged unavailable without a deadline does not block.
Cooling(s, now) == s.unavailable /\ s.retryAt > now

Blocked(a, m, now) == a.disabled \/ Cooling(a.ms[m], now)

BlockReason(a, m, now) ==
    CASE a.disabled                       -> "disabled"
      [] ~a.disabled /\ ~Cooling(a.ms[m], now) -> "none"
      [] OTHER -> IF a.ms[m].quota.exceeded THEN "cooldown" ELSE "other"

\* The instant reported with the block: an open quota window takes
\* precedence over the retry deadline.
ReportedRetry(s, now) ==
    IF s.quota.recoverAt > now THEN s.quota.recoverAt ELSE s.retryAt

-----------------------------------------------------------------------------
(* The quota ladder.                                                       *)

\* Mutant: the level goes on rising above the top of the ladder.
UncappedQuotaCooldown(level) ==
    [wait |-> IF QuotaBase * 2^level >= QuotaMax THEN QuotaMax
                                                 ELSE QuotaBase * 2^level,
     level |-> level + 1]

\* nextQuotaCooldown: the wait of this level and the level to go on from.
NextQuotaCooldown(level) ==
    IF QuotaBase * 2^level >= QuotaMax
    THEN [wait |-> QuotaMax, level |-> level]
    ELSE [wait |-> QuotaBase * 2^level, level |-> level + 1]

\* Mutant: a failure in an open window opens another one.
EscalatingCooldown(q, now) ==
    LET n == NextQuotaCooldown(q.level)
    IN  [at |-> now + n.wait, level |-> n.level]

\* Mutant: a failure in an open window is waited for after that window.
QueuedCooldown(q, now) ==
    LET n == NextQuotaCooldown(q.level)
    IN  [at |-> (IF q.recoverAt > now THEN q.recoverAt ELSE now) + n.wait,
         level |-> n.level]

\* quotaCooldownAfterFailure: an open window is reused, not escalated.
QuotaCooldownAfterFailure(q, now) ==
    IF q.recoverAt > now
    THEN [at |-> q.recoverAt, level |-> q.level]
    ELSE LET n == NextQuotaCooldown(q.level)
         IN  [at |-> now + n.wait, level |-> n.level]

\* nextCloudflareCooldown: always escalates, and waits at least the floor.
NextCloudflareCooldown(q, now) ==
    LET n == NextQuotaCooldown(q.level)
    IN  [at |-> now + (IF n.wait < CloudflareFloor THEN CloudflareFloor
                                                   ELSE n.wait),
         level |-> n.level]

\* Mutant: a window that takes its length from the hint forgets the level.
HintForgetsLevel(q, kind, hint, cooling, now) ==
    CASE ~cooling -> [at |-> Never, level |-> q.level]
      [] cooling /\ kind = "cloudflare" -> NextCloudflareCooldown(q, now)
      [] cooling /\ kind # "cloudflare" /\ hint # NoHint ->
            [at |-> now + hint, level |-> 0]
      [] OTHER -> QuotaCooldownAfterFailure(q, now)

\* The window opened by a 429 or a Cloudflare challenge.
QuotaWindow(q, kind, hint, cooling, now) ==
    CASE ~cooling -> [at |-> Never, level |-> q.level]
      [] cooling /\ kind = "cloudflare" -> NextCloudflareCooldown(q, now)
      [] cooling /\ kind # "cloudflare" /\ hint # NoHint ->
            [at |-> now + hint, level |-> q.level]
      [] OTHER -> QuotaCooldownAfterFailure(q, now)

-----------------------------------------------------------------------------
(* What a failure does to a model state and to the credential itself.      *)

QuotaKinds == {"quota", "cloudflare"}
FixedKinds == {"invalid_grant", "unauthorized", "payment_required",
               "not_found", "transient"}
FailureKinds ==
    QuotaKinds \cup FixedKinds \cup {"model_not_supported", "other"}

FixedWait(kind) ==
    CASE kind = "transient" -> TransientWait
      [] kind = "not_found" -> MissingWait
      [] OTHER              -> AuthErrorWait

\* Mutant: a 404 is waited for although cooldowns are disabled.
MissingAlwaysWaits(kind, cooling, now) ==
    IF (cooling \/ kind = "not_found") /\ FixedWait(kind) # 0
    THEN now + FixedWait(kind) ELSE Never

FixedDeadline(kind, cooling, now) ==
    IF cooling /\ FixedWait(kind) # 0 THEN now + FixedWait(kind) ELSE Never

\* The quota record of a model state or a credential, and its deadline.
Limited(x, w) ==
    [x EXCEPT !.retryAt = w.at,
              !.quota = [exceeded |-> TRUE, recoverAt |-> w.at,
                         level |-> w.level]]

\* The failure branches of MarkResult for one model.  An unsupported model is
\* blocked whether cooling is enabled or not; an unclassified error clears
\* the deadline.
FailedModel(s, kind, hint, cooling, now) ==
    LET f == [s EXCEPT !.known = TRUE, !.failed = TRUE, !.unavailable = TRUE]
        w == QuotaWindow(s.quota, kind, hint, cooling, now)
    IN  CASE kind \in QuotaKinds -> Limited(f, w)
          [] kind \in FixedKinds ->
               [f EXCEPT !.retryAt = FixedDeadline(kind, cooling, now)]
          [] kind = "model_not_supported" ->
               [f EXCEPT !.retryAt = now + MissingWait]
          [] OTHER -> [f EXCEPT !.retryAt = Never]

\* applyAuthFailureState: a result that names no model.  Errors it does not
\* classify keep whatever deadline there was.
FailedAuth(a, kind, hint, cooling, now) ==
    LET f == [a EXCEPT !.failed = TRUE, !.unavailable = TRUE]
        w == QuotaWindow(a.quota, kind, hint, cooling, now)
    IN  CASE kind \in QuotaKinds -> Limited(f, w)
          [] kind \in FixedKinds ->
               [f EXCEPT !.retryAt = FixedDeadline(kind, cooling, now)]
          [] OTHER -> f

-----------------------------------------------------------------------------
(* The availability aggregated over the models.                            *)

\* The earliest of a set of deadlines, Never when there is none.
Earliest(T) ==
    IF T \subseteq {Never} THEN Never
    ELSE CHOOSE t \in T \ {Never} : \A u \in T \ {Never} : t <= u

Highest(L) == CHOOSE l \in L : \A k \in L : k <= l

\* An elapsed deadline lowers the flag; the quota record is kept.
Expired(s, now) ==
    IF s.unavailable /\ s.retryAt # Never /\ s.retryAt <= now
    THEN [s EXCEPT !.unavailable = FALSE, !.retryAt = Never]
    ELSE s

AggregateQuota(ms) ==
    LET over == {m \in Models : ms[m].known /\ ms[m].quota.exceeded}
    IN  IF over = {} THEN NoQuota
        ELSE [exceeded  |-> TRUE,
              recoverAt |-> Earliest({ms[m].quota.recoverAt : m \in over}),
              level     |-> Highest({ms[m].quota.level : m \in over})]

\* Mutant: the credential waits for the last of its models.
AggregateWithLatest(a, now) ==
    LET ms  == [m \in Models |-> Expired(a.ms[m], now)]
        all == Known(a) # {} /\ \A m \in Known(a) : Cooling(ms[m], now)
    IN  [a EXCEPT !.ms = ms,
                  !.unavailable = all,
                  !.retryAt = IF all THEN Highest({ms[m].retryAt : m \in Known(a)})
                                     ELSE Never,
                  !.quota = AggregateQuota(ms)]

\* updateAggregatedAvailability: the credential is unavailable when every
\* model it has a state for is, until the first of them recovers.
Aggregate(a, now) ==
    LET ms  == [m \in Models |-> Expired(a.ms[m], now)]
        all == Known(a) # {} /\ \A m \in Known(a) : Cooling(ms[m], now)
    IN  [a EXCEPT !.ms = ms,
                  !.unavailable = all,
                  !.retryAt = IF all
                              THEN Earliest({ms[m].retryAt : m \in Known(a)})
                              ELSE Never,
                  !.quota = AggregateQuota(ms)]

\* hasModelError
HasModelError(a) == \E m \in Models : a.ms[m].known /\ a.ms[m].failed

-----------------------------------------------------------------------------
(* Clearing.                                                               *)

Dirty(x) ==
    x.unavailable \/ x.retryAt # Never \/ x.quota.exceeded
                  \/ x.quota.recoverAt # Never

Wiped(x) ==
    IF Dirty(x)
    THEN [x EXCEPT !.unavailable = FALSE, !.retryAt = Never, !.quota = NoQuota]
    ELSE x

\* clearCooldownStateForAuth: deadlines and quota go, errors stay.
ClearCooldown(a, now) ==
    LET b == [Wiped(a) EXCEPT !.ms = [m \in Models |-> Wiped(a.ms[m])]]
    IN  IF Known(a) = {} THEN b ELSE Aggregate(b, now)

\* The tail that MarkResult, ResetQuota and reconciliation share: the
\* credential is active again once no model of it has an error left.
Settled(a) == IF HasModelError(a) THEN a ELSE [a EXCEPT !.failed = FALSE]

\* clearAuthStateOnSuccess: a success that names no model.
SucceededAuth(a) ==
    [a EXCEPT !.failed = FALSE, !.unavailable = FALSE, !.retryAt = Never,
              !.quota = NoQuota]

=============================================================================
