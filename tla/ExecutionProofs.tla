--------------------------- MODULE ExecutionProofs --------------------------
(***************************************************************************)
(* Proofs about Execution for every finite set of credentials, every set   *)
(* of retry settings and every length of the waits: what a request can     *)
(* cost, which credentials it reaches and how long it waits.               *)
(***************************************************************************)
EXTENDS Execution, WellFoundedInduction, FiniteSetTheorems, TLAPS

-----------------------------------------------------------------------------
(* The greatest and the least of a finite set.                             *)

\* Every non-empty set of natural numbers has a least element.
LEMMA NatMinimum ==
    ASSUME NEW T \in SUBSET Nat, T # {}
    PROVE  \E t \in T : \A u \in T : t <= u
<1>. DEFINE Less == {ss \in Nat \X Nat : ss[1] < ss[2]}
<1>1. OpToRel(<, Nat) = Less
    BY Zenon DEF OpToRel
<1>2. IsWellFoundedOn(Less, Nat)
    BY <1>1, NatLessThanWellFounded, Zenon
<1>3. PICK x \in T : \A y \in T : ~(<<y, x>> \in Less)
    <2>. HIDE DEF Less
    <2>1. T \subseteq Nat
        OBVIOUS
    <2>2. \E x \in T : \A y \in T : ~(<<y, x>> \in Less)
        BY <1>2, <2>1, WFMin, Zenon
    <2>. QED BY <2>2
<1>4. \A y \in T : x <= y
    <2>. SUFFICES ASSUME NEW y \in T, ~(x <= y) PROVE FALSE
        OBVIOUS
    <2>1. x \in Nat /\ y \in Nat /\ y < x
        OBVIOUS
    <2>2. <<y, x>> \in Less
        BY <2>1
    <2>. QED BY <1>3, <2>2
<1>. QED BY <1>4

\* A finite set of numbers has a greatest one.
LEMMA FiniteMaximum ==
    ASSUME NEW S \in SUBSET Nat, IsFiniteSet(S), S # {}
    PROVE  Max(S) \in S /\ \A x \in S : x <= Max(S)
<1>. DEFINE Bad == {T \in SUBSET S : T # {} /\ \A m \in T : \E x \in T : ~(x <= m)}
            Less == StrictSubsetOrdering(S)
<1>1. Bad \subseteq FiniteSubsetsOf(S)
    BY FS_FiniteSubsetsOfFinite
<1>2. IsWellFoundedOn(Less, FiniteSubsetsOf(S))
    BY FS_StrictSubsetOrderingWellFounded
<1>3. Bad = {}
    <2>. SUFFICES ASSUME Bad # {} PROVE FALSE
        OBVIOUS
    <2>1. \E T \in Bad : \A U \in Bad : ~(<<U, T>> \in Less)
        <3>. HIDE DEF Bad, Less
        <3>. QED BY <1>1, <1>2, WFMin, Zenon
    <2>2. PICK T \in Bad : \A U \in Bad : ~(<<U, T>> \in Less)
        BY <2>1
    <2>3. PICK a \in T : TRUE
        OBVIOUS
    <2>4. PICK U \in SUBSET S : U = T \ {a}
        OBVIOUS
    <2>5. <<U, T>> \in Less
        BY <2>3, <2>4 DEF StrictSubsetOrdering
    <2>6. U \notin Bad
        BY <2>2, <2>5
    <2>7. CASE U = {}
        BY <2>3, <2>4, <2>7
    <2>8. CASE U # {}
        <3>1. PICK m \in U : \A x \in U : x <= m
            BY <2>6, <2>8
        <3>2. a \in Nat /\ m \in Nat /\ m \in T
            BY <2>4
        <3>3. CASE a <= m
            BY <2>4, <3>1, <3>2, <3>3
        <3>4. CASE m <= a
            <4>1. \A x \in T : x <= a
                BY <2>4, <3>1, <3>2, <3>4
            <4>. QED BY <2>3, <4>1
        <3>. QED BY <3>2, <3>3, <3>4
    <2>. QED BY <2>7, <2>8
<1>4. \E m \in S : \A x \in S : m >= x
    <2>1. \E m \in S : \A x \in S : x <= m
        BY <1>3
    <2>. QED BY <2>1
<1>. QED BY <1>4 DEF Max

\* The least element of a non-empty set of numbers.
LEMMA MinIsLeast ==
    ASSUME NEW S \in SUBSET Nat, S # {}
    PROVE  Min(S) \in S /\ \A x \in S : Min(S) <= x
BY NatMinimum DEF Min

-----------------------------------------------------------------------------
(* The record of a model's failures: well-typed, with deadlines that lie   *)
(* no further ahead of time n than the longest wait.                       *)

\* The records without a deadline.
LEMMA EmptyRecords ==
    /\ NoQuota \in Quota /\ NoQuota.recoverAt = 0 /\ NoQuota.level = 0
    /\ AbsentState \in ModelState
    /\ AbsentState.retryAt = 0 /\ AbsentState.quota = NoQuota
    /\ CleanState \in ModelState
    /\ CleanState.retryAt = 0 /\ CleanState.quota = NoQuota
<1>1. NoQuota \in Quota /\ NoQuota.recoverAt = 0 /\ NoQuota.level = 0
    BY LadderAssumption DEF LadderAssumption, NoQuota, Quota, Never
<1>2. /\ AbsentState \in ModelState
      /\ AbsentState.retryAt = 0 /\ AbsentState.quota = NoQuota
    BY <1>1 DEF AbsentState, ModelState, Never
<1>3. /\ CleanState \in ModelState
      /\ CleanState.retryAt = 0 /\ CleanState.quota = NoQuota
    BY <1>2 DEF CleanState, ModelState
<1>. QED BY <1>1, <1>2, <1>3

Timely(x, n) ==
    /\ x.retryAt <= n + LongestWait
    /\ x.quota.recoverAt <= n + LongestWait

\* No step of the ladder waits for longer than LongestWait or leaves it.
LEMMA LadderStep ==
    ASSUME NEW level \in 0..LadderTop
    PROVE  /\ NextQuotaCooldown(level).wait \in Nat \ {0}
           /\ NextQuotaCooldown(level).wait <= LongestWait
           /\ NextQuotaCooldown(level).level \in 0..LadderTop
<1>. DEFINE p == QuotaBase * 2^level
<1>1. /\ p \in Nat \ {0}
      /\ p >= QuotaMax <=> level = LadderTop
      /\ QuotaMax \in Nat \ {0} /\ LadderTop \in Nat
    BY LadderAssumption DEF LadderAssumption
<1>2. QuotaMax <= LongestWait /\ LongestWait \in Nat
    BY WaitAssumption DEF WaitAssumption
<1>3. NextQuotaCooldown(level) =
          IF p >= QuotaMax THEN [wait |-> QuotaMax, level |-> level]
                           ELSE [wait |-> p, level |-> level + 1]
    BY DEF NextQuotaCooldown
<1>. HIDE DEF p
<1>. QED BY <1>1, <1>2, <1>3

\* A quota window is at most LongestWait long, unless it is the window that
\* was open already.
LEMMA QuotaWindowBounded ==
    ASSUME NEW q \in Quota, NEW n \in Nat, NEW kind, NEW c \in BOOLEAN,
           NEW hint \in Hints \cup {NoHint}
    PROVE  LET w == QuotaWindow(q, kind, hint, c, n)
           IN  /\ w.at \in Nat
               /\ w.level \in 0..LadderTop
               /\ w.at <= n + LongestWait \/ w.at = q.recoverAt
<1>1. /\ q.level \in 0..LadderTop /\ q.recoverAt \in Nat
      /\ LongestWait \in Nat
      /\ CloudflareFloor \in Nat /\ CloudflareFloor <= LongestWait
      /\ hint # NoHint => hint \in Nat /\ hint <= LongestWait
    BY WaitAssumption DEF WaitAssumption, Quota
<1>. DEFINE s == NextQuotaCooldown(q.level)
<1>2. /\ s.wait \in Nat \ {0} /\ s.wait <= LongestWait
      /\ s.level \in 0..LadderTop
    BY <1>1, LadderStep
<1>. HIDE DEF s
<1>3. LET w == QuotaCooldownAfterFailure(q, n)
      IN  /\ w.at \in Nat /\ w.level \in 0..LadderTop
          /\ w.at <= n + LongestWait \/ w.at = q.recoverAt
    BY <1>1, <1>2 DEF QuotaCooldownAfterFailure, s
<1>4. LET w == NextCloudflareCooldown(q, n)
      IN  /\ w.at \in Nat /\ w.level \in 0..LadderTop
          /\ w.at <= n + LongestWait
    BY <1>1, <1>2 DEF NextCloudflareCooldown, s
<1>. QED BY <1>1, <1>3, <1>4 DEF QuotaWindow, Never

\* The deadlines a failure sets are within reach.
LEMMA FixedDeadlineBounded ==
    ASSUME NEW kind, NEW c \in BOOLEAN, NEW n \in Nat
    PROVE  /\ FixedDeadline(kind, c, n) \in Nat
           /\ FixedDeadline(kind, c, n) <= n + LongestWait
BY WaitAssumption DEF WaitAssumption, FixedDeadline, FixedWait, Never

\* A failed result leaves the state of its model within reach.
LEMMA FailedModelTimely ==
    ASSUME NEW s \in ModelState, NEW kind, NEW hint \in Hints \cup {NoHint},
           NEW c \in BOOLEAN, NEW n \in Nat, Timely(s, n)
    PROVE  /\ FailedModel(s, kind, hint, c, n) \in ModelState
           /\ Timely(FailedModel(s, kind, hint, c, n), n)
<1>. DEFINE w == QuotaWindow(s.quota, kind, hint, c, n)
            d == FixedDeadline(kind, c, n)
            f == [s EXCEPT !.known = TRUE, !.failed = TRUE, !.unavailable = TRUE]
<1>1. /\ s.quota \in Quota /\ s.retryAt \in Nat
      /\ s.retryAt <= n + LongestWait
      /\ s.quota.recoverAt <= n + LongestWait
    BY DEF ModelState, Timely
<1>2. /\ w.at \in Nat /\ w.level \in 0..LadderTop
      /\ w.at <= n + LongestWait
    <2>. HIDE DEF w
    <2>1. /\ w.at \in Nat /\ w.level \in 0..LadderTop
          /\ w.at <= n + LongestWait \/ w.at = s.quota.recoverAt
        BY <1>1, QuotaWindowBounded DEF w
    <2>. QED BY <1>1, <2>1
<1>3. d \in Nat /\ d <= n + LongestWait
    BY FixedDeadlineBounded
<1>4. /\ LongestWait \in Nat
      /\ n + MissingWait \in Nat /\ n + MissingWait <= n + LongestWait
    BY WaitAssumption DEF WaitAssumption
<1>5. f \in ModelState /\ f.quota = s.quota
    BY DEF ModelState
<1>. HIDE DEF w, d, f
<1>6. CASE kind \in QuotaKinds
    <2>. DEFINE q == [exceeded |-> TRUE, recoverAt |-> w.at, level |-> w.level]
    <2>1. FailedModel(s, kind, hint, c, n) = Limited(f, w)
        BY <1>6 DEF FailedModel, QuotaKinds, FixedKinds, w, f
    <2>2. q \in Quota /\ q.recoverAt = w.at
        BY <1>2 DEF Quota
    <2>3. Limited(f, w) = [f EXCEPT !.retryAt = w.at, !.quota = q]
        BY DEF Limited
    <2>. HIDE DEF q
    <2>. QED BY <1>2, <1>5, <2>1, <2>2, <2>3 DEF ModelState, Timely
<1>7. CASE kind \notin QuotaKinds
    <2>1. \E t \in {d, n + MissingWait, Never} :
              FailedModel(s, kind, hint, c, n) = [f EXCEPT !.retryAt = t]
        BY <1>7 DEF FailedModel, w, d, f
    <2>. QED BY <1>1, <1>3, <1>4, <1>5, <2>1 DEF ModelState, Timely, Never
<1>. QED BY <1>6, <1>7

\* An elapsed deadline is dropped, the quota record is kept.
LEMMA ExpiredTimely ==
    ASSUME NEW s \in ModelState, NEW n \in Nat, Timely(s, n)
    PROVE  /\ Expired(s, n) \in ModelState
           /\ Timely(Expired(s, n), n)
           /\ Expired(s, n).quota = s.quota
<1>1. /\ s.quota \in Quota /\ s.retryAt <= n + LongestWait
      /\ LongestWait \in Nat
    BY WaitAssumption DEF WaitAssumption, ModelState, Timely
<1>. DEFINE e == [s EXCEPT !.unavailable = FALSE, !.retryAt = Never]
<1>3. e \in ModelState /\ e.retryAt = 0 /\ e.quota = s.quota
    BY DEF ModelState, Never
<1>4. Expired(s, n) = s \/ Expired(s, n) = e
    BY DEF Expired
<1>. HIDE DEF e
<1>. QED BY <1>1, <1>3, <1>4 DEF Timely

-----------------------------------------------------------------------------
(* What results and the operator do to a credential                        *)

Entry == [disabled : BOOLEAN, state : ModelState]

\* A record whose deadlines lie within reach of the present.
Sound(s) == s \in ModelState /\ Timely(s, Present)

Marked(s, k, h, cool) ==
    [Expired(FailedModel(s, k, h, cool, Present), Present)
        EXCEPT !.failed = FALSE]

\* A failure leaves the record of its model sound.
LEMMA MarkedSound ==
    ASSUME NEW s, Sound(s), NEW k, NEW h \in Hints \cup {NoHint},
           NEW cool \in BOOLEAN
    PROVE  Sound(Marked(s, k, h, cool))
<1>. DEFINE f == FailedModel(s, k, h, cool, Present)
            e == Expired(f, Present)
<1>0. Present \in Nat
    BY DEF Present
<1>1. f \in ModelState /\ Timely(f, Present)
    BY <1>0, FailedModelTimely DEF Sound
<1>. HIDE DEF f
<1>2. e \in ModelState /\ Timely(e, Present)
    BY <1>0, <1>1, ExpiredTimely
<1>3. Marked(s, k, h, cool) = [e EXCEPT !.failed = FALSE]
    BY DEF Marked, f
<1>. HIDE DEF e
<1>. QED BY <1>2, <1>3 DEF Sound, ModelState, Timely

\* A success, a reset and the cooldown's end on switching off leave the
\* record sound, without a deadline.
LEMMA ClearedSound ==
    /\ Sound(CleanState) /\ CleanState.retryAt = Never
    /\ ~CleanState.unavailable
    /\ \A s : Sound(s) =>
          /\ Sound(Expired(Wiped(s), Present))
          /\ Expired(Wiped(s), Present).retryAt = Never
<1>0. LongestWait \in Nat
    BY WaitAssumption DEF WaitAssumption
<1>1. /\ Sound(CleanState) /\ CleanState.retryAt = Never
      /\ ~CleanState.unavailable
    BY <1>0, EmptyRecords
    DEF Sound, Timely, Never, Present, CleanState, AbsentState
<1>2. ASSUME NEW s, Sound(s)
      PROVE  Sound(Wiped(s)) /\ Wiped(s).retryAt = Never
    <2>1. s \in ModelState /\ Timely(s, Present)
        BY <1>2 DEF Sound
    <2>2. /\ NoQuota \in Quota /\ NoQuota.recoverAt <= Present + LongestWait
          /\ Never \in Nat /\ Never <= Present + LongestWait
        BY <1>0, EmptyRecords DEF Never, Present
    <2>3. Wiped(s) \in ModelState /\ Timely(Wiped(s), Present)
        BY <2>1, <2>2 DEF ModelState, Wiped, Timely
    <2>4. Wiped(s).retryAt = Never
        BY <2>1 DEF Wiped, Dirty, ModelState
    <2>. QED BY <2>3, <2>4 DEF Sound
<1>3. ASSUME NEW s, Sound(s), s.retryAt = Never
      PROVE  Expired(s, Present) = s
    BY <1>3 DEF Expired
<1>. QED BY <1>1, <1>2, <1>3

-----------------------------------------------------------------------------
(* Type correctness, with the deadlines within reach                       *)

CredsSound ==
    /\ creds \in [Creds -> Entry]
    /\ \A c \in Creds : Sound(creds[c].state)

TypeInv ==
    /\ TypeOK /\ CredsSound
    /\ req.at \in {"call", "stream"} => req.cred \in Creds

\* Replacing one record by a sound one.
LEMMA ReplacedSound ==
    ASSUME CredsSound, NEW c \in Creds, NEW s, Sound(s),
           creds' = [creds EXCEPT ![c].state = s]
    PROVE  CredsSound'
BY DEF CredsSound, Entry, Sound

LEMMA SuccessSound ==
    ASSUME CredsSound, NEW c \in Creds, MarkSuccess(c)
    PROVE  CredsSound'
BY ClearedSound, ReplacedSound DEF MarkSuccess

LEMMA FailureSound ==
    ASSUME CredsSound, cooling \in BOOLEAN, NEW c \in Creds, NEW k,
           NEW h \in Hints \cup {NoHint}, MarkFailure(c, k, h)
    PROVE  CredsSound'
<1>1. Sound(Marked(creds[c].state, k, h, cooling))
    BY MarkedSound DEF CredsSound
<1>2. creds' = [creds EXCEPT ![c].state =
                    Marked(creds[c].state, k, h, cooling)]
    BY DEF MarkFailure, Marked
<1>. QED BY <1>1, <1>2, ReplacedSound

LEMMA SwitchSound ==
    ASSUME CredsSound, NEW c \in Creds, NEW b \in BOOLEAN, SetDisabled(c, b)
    PROVE  CredsSound'
<1>. DEFINE s == IF b \/ ~cooling
                 THEN Expired(Wiped(creds[c].state), Present)
                 ELSE creds[c].state
<1>1. Sound(s)
    BY ClearedSound DEF CredsSound
<1>2. creds' = [creds EXCEPT ![c] = [disabled |-> b, state |-> s]]
    BY DEF SetDisabled
<1>. HIDE DEF s
<1>3. s \in ModelState
    BY <1>1 DEF Sound
<1>. QED BY <1>1, <1>2, <1>3 DEF CredsSound, Entry

LEMMA TickSound ==
    ASSUME CredsSound, Tick
    PROVE  CredsSound'
<1>1. \A t \in Nat : Nearer(t) \in Nat /\ Nearer(t) <= t
    BY DEF Nearer, Present
<1>2. ASSUME NEW s, Sound(s)
      PROVE  Sound(Sooner(s))
    <2>1. /\ s \in ModelState /\ s.quota \in Quota
          /\ s.retryAt \in Nat /\ s.quota.recoverAt \in Nat
          /\ LongestWait \in Nat
        BY <1>2, WaitAssumption DEF Sound, ModelState, Quota, WaitAssumption
    <2>2. Sooner(s) = [s EXCEPT !.retryAt = Nearer(s.retryAt),
                               !.quota = [s.quota EXCEPT !.recoverAt =
                                            Nearer(s.quota.recoverAt)]]
        BY <2>1 DEF Sooner, ModelState, Quota
    <2>. DEFINE q == [s.quota EXCEPT !.recoverAt = Nearer(s.quota.recoverAt)]
    <2>3. q \in Quota /\ q.recoverAt = Nearer(s.quota.recoverAt)
        BY <1>1, <2>1 DEF Quota
    <2>4. /\ Nearer(s.retryAt) \in Nat
          /\ Nearer(s.retryAt) <= Present + LongestWait
          /\ Nearer(s.quota.recoverAt) <= Present + LongestWait
        BY <1>1, <1>2, <2>1 DEF Sound, Timely, Present
    <2>. HIDE DEF q
    <2>5. Sooner(s) = [s EXCEPT !.retryAt = Nearer(s.retryAt), !.quota = q]
        BY <2>2 DEF q
    <2>. QED BY <2>1, <2>3, <2>4, <2>5 DEF Sound, Timely, ModelState
<1>3. creds' = [c \in Creds |-> [disabled |-> creds[c].disabled,
                                 state |-> Sooner(creds[c].state)]]
    BY DEF Tick, CredsSound, Entry
<1>4. \A c \in Creds : Sooner(creds[c].state) \in ModelState
    BY <1>2 DEF CredsSound, Sound
<1>. QED BY <1>2, <1>3, <1>4 DEF CredsSound, Entry

LEMMA TypeInvInit == Init => TypeInv
<1>. SUFFICES ASSUME Init PROVE TypeInv
    OBVIOUS
<1>1. Idle \in Requests
    BY DEF Idle, Requests, Stages, Errors, NoError
<1>2. CleanState \in ModelState /\ Sound(CleanState)
    BY ClearedSound DEF Sound
<1>3. CredsSound
    <2>1. creds = [c \in Creds |-> [disabled |-> FALSE, state |-> CleanState]]
        BY DEF Init
    <2>. QED BY <1>2, <2>1 DEF CredsSound, Entry
<1>4. TypeOK
    <2>1. healthy \in SUBSET Creds
        BY ExecutionAssumption DEF ExecutionAssumption, Init
    <2>2. cooling \in BOOLEAN /\ config \in Settings /\ req \in Requests
        BY <1>1 DEF Init
    <2>. QED BY <1>3, <2>1, <2>2 DEF TypeOK, CredsSound, Entry
<1>5. req.at = "idle"
    BY DEF Init, Idle
<1>. QED BY <1>3, <1>4, <1>5 DEF TypeInv

\* The request keeps one of its stages, and a call is to a credential.
LEMMA RequestStep ==
    ASSUME TypeInv, Next
    PROVE  /\ req' \in Requests
           /\ req'.at \in {"call", "stream"} => req'.cred \in Creds
<1>1. /\ req \in Requests /\ config \in Settings
      /\ req.at \in {"call", "stream"} => req.cred \in Creds
    BY DEF TypeInv, TypeOK
<1>2. /\ config.cap \in Nat /\ config.interval \in Nat
    BY <1>1, ExecutionAssumption DEF ExecutionAssumption
<1>3. Idle \in Requests /\ Idle.at = "idle" /\ NoError \in Errors
    BY DEF Idle, Requests, Stages, Errors, NoError
<1>4. CASE req' = Idle
    BY <1>3, <1>4
<1>5. CASE req' = req
    BY <1>1, <1>5
<1>6. CASE Start
    BY <1>2, <1>3, <1>6 DEF Start, Requests, Stages
<1>7. ASSUME NEW c \in Creds, Pick(c)
      PROVE  req' \in Requests /\ req'.cred \in Creds
    <2>. DEFINE r == [req EXCEPT !.at = "call", !.cred = c]
                n == req.calls + 1
                t == req.tried \cup {c}
    <2>1. r \in Requests /\ r.cred = c
        BY <1>1 DEF Requests, Stages
    <2>2. n \in Nat /\ t \in SUBSET Creds
        BY <1>1 DEF Requests
    <2>3. req' = [r EXCEPT !.calls = n, !.tried = t]
        BY <1>7 DEF Pick
    <2>. HIDE DEF r, n, t
    <2>. QED BY <2>1, <2>2, <2>3 DEF Requests
<1>8. CASE EndRound
    BY <1>1, <1>8 DEF EndRound, Requests, Stages
<1>9. ASSUME NEW k \in Kinds, NEW h \in HintsOf(k), Refused(k, h)
      PROVE  req' \in Requests /\ req'.at = "pick"
    <2>. DEFINE e == [kind |-> k, hint |-> h]
    <2>1. e \in Errors
        BY <1>9 DEF HintsOf, Errors
    <2>2. req' = [req EXCEPT !.at = "pick", !.last = e]
        BY <1>9 DEF Refused
    <2>. HIDE DEF e
    <2>. QED BY <1>1, <2>1, <2>2 DEF Requests, Stages
<1>10. CASE StreamOpens
    BY <1>1, <1>3, <1>10 DEF StreamOpens, Requests, Stages
<1>11. CASE WaitForCooldown
    <2>1. PICK j \in Jitter(RetryWait, req.interval) :
              req' = [req EXCEPT !.at = "wait", !.wait = RetryWait + j,
                                 !.target = Awaited, !.renewed = {}]
        BY <1>11 DEF WaitForCooldown
    <2>2. RetryWait \in Nat
        BY <1>1, <1>11 DEF WaitForCooldown, Requests
    <2>3. j \in Nat
        BY DEF Jitter
    <2>. DEFINE w == RetryWait + j
                r == [req EXCEPT !.at = "wait", !.wait = w]
                t == Awaited
                none == {}
    <2>4. t \in SUBSET Creds /\ none \in SUBSET Creds
        BY DEF Awaited, Waiting
    <2>5. r \in Requests /\ r.at = "wait"
        <3>1. w \in Nat
            BY <2>2, <2>3
        <3>. HIDE DEF w
        <3>. QED BY <1>1, <3>1 DEF Requests, Stages
    <2>6. req' = [r EXCEPT !.target = t, !.renewed = none]
        BY <2>1
    <2>. HIDE DEF r, t, none
    <2>. QED BY <2>4, <2>5, <2>6 DEF Requests
<1>12. CASE GiveUp
    <2>1. \E w \in {"exhausted", "capped"} :
              req' = [Idle EXCEPT !.answer = w]
        BY <1>12 DEF GiveUp
    <2>. QED BY <1>3, <2>1 DEF Requests
<1>13. CASE NextRound
    <2>. DEFINE none == {}
                n == req.round + 1
                r == [req EXCEPT !.at = "pick", !.round = n, !.last = NoError]
    <2>1. none \in SUBSET Creds
        OBVIOUS
    <2>2. r \in Requests /\ r.at = "pick"
        <3>1. n \in Nat
            BY <1>1 DEF Requests
        <3>. HIDE DEF n
        <3>. QED BY <1>1, <1>3, <3>1 DEF Requests, Stages
    <2>3. req' = [r EXCEPT !.tried = none, !.target = none, !.renewed = none]
        BY <1>13 DEF NextRound
    <2>. HIDE DEF none, r
    <2>. QED BY <2>1, <2>2, <2>3 DEF Requests
<1>14. ASSUME NEW c \in Creds, NEW k, NEW h, OtherFails(c, k, h)
       PROVE  /\ req' \in Requests /\ req'.at = req.at
              /\ req'.cred = req.cred
    BY <1>1, <1>14 DEF OtherFails, Requests, Stages
<1>15. CASE Tick
    BY <1>1, <1>15 DEF Tick, Requests, Stages
<1>16. \/ req' = Idle \/ req' = req
       \/ Start \/ EndRound \/ StreamOpens \/ WaitForCooldown \/ GiveUp
       \/ NextRound \/ Tick
       \/ \E c \in Creds : Pick(c)
       \/ \E k \in Kinds : \E h \in HintsOf(k) : Refused(k, h)
       \/ \E c \in Creds, k \in Kinds : \E h \in HintsOf(k) : OtherFails(c, k, h)
    BY DEF Next, Call, Round, Others, Answered, Cancelled, Invalid,
           StreamEnds, StreamBreaks, OtherSucceeds, ResetQuota, SetDisabled,
           Reconfigure
<1>. QED BY <1>1, <1>3, <1>4, <1>5, <1>6, <1>7, <1>8, <1>9, <1>10, <1>11,
            <1>12, <1>13, <1>14, <1>15, <1>16

\* Every step leaves the records sound.
LEMMA CredsStep ==
    ASSUME TypeInv, Next
    PROVE  CredsSound'
<1>1. /\ CredsSound /\ cooling \in BOOLEAN
      /\ req.at \in {"call", "stream"} => req.cred \in Creds
    BY DEF TypeInv, TypeOK
<1>2. ASSUME creds' = creds PROVE CredsSound'
    BY <1>1, <1>2 DEF CredsSound
<1>3. \A k : HintsOf(k) \subseteq Hints \cup {NoHint}
    BY DEF HintsOf
<1>4. CASE Call
    <2>1. \/ creds' = creds
          \/ req.cred \in Creds /\ MarkSuccess(req.cred)
          \/ /\ req.cred \in Creds
             /\ \E k \in Kinds \cup {"other", "transient"} :
                \E h \in Hints \cup {NoHint} : MarkFailure(req.cred, k, h)
        BY <1>1, <1>3, <1>4
        DEF Call, Answered, Refused, Invalid, StreamOpens, StreamEnds,
            StreamBreaks, Cancelled
    <2>. QED BY <1>1, <1>2, <2>1, SuccessSound, FailureSound
<1>5. CASE Start \/ Round
    BY <1>2, <1>5 DEF Start, Round, Pick, EndRound, WaitForCooldown, GiveUp,
                      NextRound
<1>6. CASE Others
    <2>1. \/ creds' = creds
          \/ \E c \in Creds : MarkSuccess(c)
          \/ \E c \in Creds, k \in Kinds :
                \E h \in Hints \cup {NoHint} : MarkFailure(c, k, h)
          \/ \E c \in Creds, b \in BOOLEAN : SetDisabled(c, b)
        BY <1>3, <1>6 DEF Others, OtherSucceeds, ResetQuota, OtherFails,
                          Reconfigure, MarkSuccess
    <2>. QED BY <1>1, <1>2, <2>1, SuccessSound, FailureSound, SwitchSound
<1>7. CASE Tick
    BY <1>1, <1>7, TickSound
<1>. QED BY <1>4, <1>5, <1>6, <1>7 DEF Next

LEMMA TypeInvStep == TypeInv /\ [Next]_vars => TypeInv'
<1>. SUFFICES ASSUME TypeInv, [Next]_vars PROVE TypeInv'
    OBVIOUS
<1>1. CASE Next
    <2>1. healthy' = healthy /\ cooling' = cooling /\ config' \in Settings
        BY <1>1 DEF TypeInv, TypeOK, Next, Start, Call, Round, Others, Tick,
            Answered, Refused, Invalid, StreamOpens, StreamEnds, StreamBreaks,
            Cancelled, Pick, EndRound, WaitForCooldown, GiveUp, NextRound,
            OtherSucceeds, OtherFails, SetDisabled, ResetQuota, Reconfigure
    <2>2. TypeOK'
        BY <1>1, <2>1, CredsStep, RequestStep
        DEF TypeInv, TypeOK, CredsSound, Entry
    <2>. QED BY <1>1, <2>2, CredsStep, RequestStep DEF TypeInv
<1>2. CASE UNCHANGED vars
    BY <1>2 DEF vars, TypeInv, TypeOK, CredsSound
<1>. QED BY <1>1, <1>2

LEMMA TypeInvariant == Spec => []TypeInv
<1>1. Init => TypeInv
    BY TypeInvInit
<1>2. TypeInv /\ [Next]_vars => TypeInv'
    BY TypeInvStep
<1>. QED BY <1>1, <1>2, PTL DEF Spec

\* Type correctness: whatever the providers answer and others do to the
\* credentials and the settings, records and request stay well-formed.
THEOREM ExecutionTypeCorrect == Spec => []TypeOK
<1>1. TypeInv => TypeOK
    BY DEF TypeInv
<1>. QED BY <1>1, TypeInvariant, PTL

-----------------------------------------------------------------------------
(* HealthyServes.  A credential whose provider serves everything never     *)
(* gets a deadline, so that a round without a cap cannot pass it over.     *)

HealthyInv ==
    /\ \A c \in healthy : /\ ~creds[c].disabled
                          /\ creds[c].state.retryAt = Never
    /\ req.at = "pick" => req.tried \cap healthy = {}
    /\ req.at = "call" => (req.tried \ {req.cred}) \cap healthy = {}
    /\ req.at = "decide" /\ req.cap = 0 => healthy = {}
    /\ HealthyServes

\* An error that is the request's own leaves no deadline.
LEMMA OtherLeavesNoDeadline ==
    ASSUME NEW s \in ModelState, NEW cool
    PROVE  Marked(s, "other", NoHint, cool).retryAt = Never
<1>. DEFINE f == FailedModel(s, "other", NoHint, cool, Present)
<1>1. f = [s EXCEPT !.known = TRUE, !.failed = TRUE, !.unavailable = TRUE,
                   !.retryAt = Never]
    BY DEF FailedModel, QuotaKinds, FixedKinds
<1>. HIDE DEF f
<1>2. f.retryAt = Never /\ f \in ModelState
    <2>1. Never \in Nat
        BY DEF Never
    <2>. QED BY <1>1, <2>1 DEF ModelState
<1>3. Expired(f, Present) = f
    BY <1>2 DEF Expired
<1>4. Marked(s, "other", NoHint, cool) = [f EXCEPT !.failed = FALSE]
    BY <1>3 DEF Marked, f
<1>. QED BY <1>2, <1>4 DEF ModelState

\* No step gives a healthy credential a deadline or switches it off.
LEMMA HealthyStaysReady ==
    ASSUME TypeInv, HealthyInv, Next, NEW c \in healthy
    PROVE  ~creds'[c].disabled /\ creds'[c].state.retryAt = Never
<1>1. /\ c \in Creds /\ creds \in [Creds -> Entry]
      /\ creds[c].state \in ModelState
      /\ ~creds[c].disabled /\ creds[c].state.retryAt = Never
    BY DEF TypeInv, TypeOK, CredsSound, Entry, HealthyInv, Sound
<1>2. ASSUME NEW d \in Creds, MarkSuccess(d)
      PROVE  ~creds'[c].disabled /\ creds'[c].state.retryAt = Never
    BY <1>1, <1>2, ClearedSound DEF MarkSuccess, Entry
<1>3. ASSUME NEW d \in Creds, NEW k, NEW h, MarkFailure(d, k, h), d \notin healthy
      PROVE  ~creds'[c].disabled /\ creds'[c].state.retryAt = Never
    <2>1. creds'[c] = creds[c]
        BY <1>1, <1>3 DEF MarkFailure
    <2>. QED BY <1>1, <2>1
<1>4. ASSUME NEW d \in Creds, MarkFailure(d, "other", NoHint)
      PROVE  ~creds'[c].disabled /\ creds'[c].state.retryAt = Never
    <2>1. creds' = [creds EXCEPT ![d].state =
                        Marked(creds[d].state, "other", NoHint, cooling)]
        BY <1>4 DEF MarkFailure, Marked
    <2>2. Marked(creds[c].state, "other", NoHint, cooling).retryAt = Never
        BY <1>1, OtherLeavesNoDeadline
    <2>. QED BY <1>1, <2>1, <2>2 DEF Entry
<1>5. ASSUME NEW d \in Creds, NEW b, SetDisabled(d, b)
      PROVE  ~creds'[c].disabled /\ creds'[c].state.retryAt = Never
    <2>1. creds'[c] = creds[c]
        BY <1>1, <1>5 DEF SetDisabled
    <2>. QED BY <1>1, <2>1
<1>6. CASE Tick
    <2>1. creds'[c] = [creds[c] EXCEPT !.state = Sooner(creds[c].state)]
        BY <1>1, <1>6 DEF Tick
    <2>2. Sooner(creds[c].state).retryAt = Never
        BY <1>1 DEF Sooner, Nearer, Never, Present, ModelState
    <2>. QED BY <1>1, <2>1, <2>2 DEF Entry
<1>7. req.at \in {"call", "stream"} => req.cred \in Creds
    BY DEF TypeInv
<1>8. \/ creds' = creds \/ Tick
      \/ \E d \in Creds : \/ MarkSuccess(d)
                          \/ MarkFailure(d, "other", NoHint)
                          \/ \E b \in BOOLEAN : SetDisabled(d, b)
                          \/ /\ d \notin healthy
                             /\ \E k \in Kinds \cup {"transient"} :
                                \E h \in Hints \cup {NoHint} :
                                    MarkFailure(d, k, h)
    <2>1. \A k : HintsOf(k) \subseteq Hints \cup {NoHint}
        BY DEF HintsOf
    <2>2. CASE Call
        BY <1>7, <2>1, <2>2
        DEF Call, Answered, Refused, Invalid, StreamOpens, StreamEnds,
            StreamBreaks, Cancelled
    <2>3. CASE Others
        BY <2>1, <2>3 DEF Others, OtherSucceeds, ResetQuota, OtherFails,
                          Reconfigure, MarkSuccess
    <2>4. CASE Start \/ Round
        BY <2>4 DEF Start, Round, Pick, EndRound, WaitForCooldown, GiveUp,
                    NextRound
    <2>. QED BY <2>2, <2>3, <2>4 DEF Next
<1>. QED BY <1>1, <1>2, <1>3, <1>4, <1>5, <1>6, <1>8

\* A round without a cap ends only when it has tried every healthy one.
LEMMA RoundReachesHealthy ==
    ASSUME TypeInv, HealthyInv, EndRound, req.cap = 0
    PROVE  healthy = {}
<1>1. \A c \in Creds \ req.tried : ~Ready(c)
    BY DEF EndRound, CapReached, TypeInv, TypeOK, Requests
<1>2. ASSUME NEW c \in healthy PROVE Ready(c) /\ c \in Creds
    BY DEF Ready, CoolingDown, Cooling, HealthyInv, Never, Present, TypeInv,
           TypeOK
<1>3. req.tried \cap healthy = {}
    BY DEF HealthyInv, EndRound
<1>. QED BY <1>1, <1>2, <1>3

LEMMA HealthyInvStep == TypeInv /\ HealthyInv /\ [Next]_vars => HealthyInv'
<1>. SUFFICES ASSUME TypeInv, HealthyInv, [Next]_vars PROVE HealthyInv'
    OBVIOUS
<1>. DEFINE Tried == /\ req.at = "pick" => req.tried \cap healthy = {}
                     /\ req.at = "call" =>
                            (req.tried \ {req.cred}) \cap healthy = {}
                     /\ req.at = "decide" /\ req.cap = 0 => healthy = {}
                     /\ HealthyServes
<1>0. req \in Requests /\ Tried
    BY DEF TypeInv, TypeOK, HealthyInv
<1>1. CASE UNCHANGED vars
    BY <1>1 DEF vars, HealthyInv, HealthyServes
<1>2. CASE Next
    <2>1. healthy' = healthy
        BY <1>2 DEF Next, Start, Call, Round, Others, Tick,
            Answered, Refused, Invalid, StreamOpens, StreamEnds, StreamBreaks,
            Cancelled, Pick, EndRound, WaitForCooldown, GiveUp, NextRound,
            OtherSucceeds, OtherFails, SetDisabled, ResetQuota, Reconfigure
    <2>2. ASSUME /\ req'.at = req.at /\ req'.tried = req.tried
                 /\ req'.cred = req.cred /\ req'.cap = req.cap
                 /\ req'.answer = req.answer
          PROVE  Tried'
        BY <1>0, <2>1, <2>2 DEF HealthyServes
    <2>3. ASSUME req'.at \in {"idle", "stream", "wait"} /\ req'.answer = "none" PROVE Tried'
        BY <2>3 DEF HealthyServes
    <2>4. ASSUME Start \/ NextRound PROVE Tried'
        <3>1. req'.at = "pick" /\ req'.tried = {}
            BY <1>0, <2>4 DEF Start, NextRound, Idle, Requests
        <3>2. req'.answer \in {req.answer, "none"}
            BY <1>0, <2>4 DEF Start, NextRound, Idle, Requests
        <3>. QED BY <1>0, <2>1, <3>1, <3>2 DEF HealthyServes
    <2>5. ASSUME NEW c \in Creds, Pick(c) PROVE Tried'
        <3>1. /\ req'.at = "call" /\ req'.cred = c
              /\ req'.tried = req.tried \cup {c} /\ req'.answer = req.answer
            BY <1>0, <2>5 DEF Pick, Requests
        <3>2. req.tried \cap healthy = {}
            BY <1>0, <2>5 DEF Pick
        <3>. QED BY <1>0, <2>1, <3>1, <3>2 DEF HealthyServes
    <2>6. ASSUME EndRound PROVE Tried'
        <3>1. /\ req'.at = "decide" /\ req'.cap = req.cap
              /\ req'.answer = req.answer
            BY <1>0, <2>6 DEF EndRound, Requests
        <3>. QED BY <1>0, <2>1, <2>6, <3>1, RoundReachesHealthy
                 DEF HealthyServes
    <2>7. ASSUME NEW k, NEW h, Refused(k, h) PROVE Tried'
        <3>1. /\ req'.at = "pick" /\ req'.tried = req.tried
              /\ req'.answer = req.answer
            BY <1>0, <2>7 DEF Refused, Requests
        <3>2. req.at = "call" /\ req.cred \notin healthy
            BY <2>7 DEF Refused
        <3>. QED BY <1>0, <2>1, <3>1, <3>2 DEF HealthyServes
    <2>8. ASSUME WaitForCooldown PROVE Tried'
        <3>1. req'.at = "wait" /\ req'.answer = req.answer
            BY <1>0, <2>8 DEF WaitForCooldown, Requests
        <3>. QED BY <1>0, <2>1, <3>1 DEF HealthyServes
    <2>9. ASSUME GiveUp PROVE Tried'
        <3>1. /\ req'.at = "idle"
              /\ req'.answer = IF req.cap = 0 THEN "exhausted" ELSE "capped"
            BY <2>9 DEF GiveUp, Idle
        <3>2. req.at = "decide"
            BY <2>9 DEF GiveUp
        <3>. QED BY <1>0, <2>1, <3>1, <3>2 DEF HealthyServes
    <2>10. \/ req' = Idle \/ req' = req \/ Tick \/ StreamOpens
           \/ Start \/ EndRound \/ WaitForCooldown \/ GiveUp \/ NextRound
           \/ \E c \in Creds : Pick(c)
           \/ \E k \in Kinds : \E h \in HintsOf(k) : Refused(k, h)
           \/ \E c \in Creds, k \in Kinds : \E h \in HintsOf(k) :
                  OtherFails(c, k, h)
        BY <1>2 DEF Next, Call, Round, Others, Answered, Cancelled, Invalid,
               StreamEnds, StreamBreaks, OtherSucceeds, ResetQuota,
               SetDisabled, Reconfigure
    <2>11. ASSUME Tick \/ \E c, k, h : OtherFails(c, k, h)
           PROVE  Tried'
        <3>1. /\ req'.at = req.at /\ req'.tried = req.tried
              /\ req'.cred = req.cred /\ req'.cap = req.cap
              /\ req'.answer = req.answer
            BY <1>0, <2>11 DEF Tick, OtherFails, Requests
        <3>. QED BY <2>2, <3>1
    <2>12. ASSUME req' = Idle \/ StreamOpens PROVE Tried'
        <3>0. Idle \in Requests /\ Idle.at = "idle" /\ Idle.answer = "none"
            BY DEF Idle, Requests, Stages, Errors, NoError
        <3>1. req'.at \in {"idle", "stream"} /\ req'.answer = "none"
            BY <2>12, <3>0 DEF StreamOpens, Requests
        <3>. QED BY <2>3, <3>1
    <2>13. Tried'
        <3>. HIDE DEF Tried
        <3>. QED BY <2>2, <2>4, <2>5, <2>6, <2>7, <2>8, <2>9, <2>10, <2>11,
                    <2>12
    <2>14. \A c \in healthy' : /\ ~creds'[c].disabled
                               /\ creds'[c].state.retryAt = Never
        BY <1>2, <2>1, HealthyStaysReady
    <2>. QED BY <2>13, <2>14 DEF HealthyInv, HealthyServes
<1>. QED BY <1>1, <1>2

\* No request without a cap fails while a provider serves everything.
THEOREM HealthyAlwaysServes == Spec => []HealthyServes
<1>1. Init => HealthyInv
    <2>. SUFFICES ASSUME Init PROVE HealthyInv
        OBVIOUS
    <2>1. req.at = "idle" /\ req.answer = "none"
        BY DEF Init, Idle
    <2>2. healthy \subseteq Creds
        BY ExecutionAssumption DEF ExecutionAssumption, Init
    <2>3. \A c \in healthy : /\ ~creds[c].disabled
                             /\ creds[c].state.retryAt = Never
        BY <2>2, ClearedSound DEF Init
    <2>. QED BY <2>1, <2>3 DEF HealthyInv, HealthyServes
<1>2. TypeInv /\ HealthyInv /\ [Next]_vars => HealthyInv'
    BY HealthyInvStep
<1>3. HealthyInv => HealthyServes
    BY DEF HealthyInv
<1>. QED BY <1>1, <1>2, <1>3, TypeInvariant, PTL DEF Spec

-----------------------------------------------------------------------------
(* WaitsWithinLimit and WaitCoversBlock: how long a request waits          *)

\* The jitter of a wait stays below the limit of the request.
LEMMA JitterWithinLimit ==
    ASSUME NEW limit \in Nat, NEW w \in 1..limit, NEW j \in Jitter(w, limit)
    PROVE  w + j \in Nat /\ w <= w + j /\ w + j <= limit
<1>. DEFINE part == w \div JitterDivisor
            S == {part, JitterCap, limit - w}
<1>1. JitterDivisor \in Nat /\ JitterDivisor > 0 /\ JitterCap \in Nat
    BY ExecutionAssumption DEF ExecutionAssumption
<1>2. part \in Nat
    BY <1>1
<1>3. limit - w \in Nat
    OBVIOUS
<1>. HIDE DEF part
<1>4. S \in SUBSET Nat /\ S # {} /\ limit - w \in S
    BY <1>1, <1>2, <1>3
<1>5. j \in 0..Min(S)
    BY DEF Jitter, part
<1>. HIDE DEF S
<1>6. Min(S) \in Nat /\ Min(S) <= limit - w
    BY <1>4, MinIsLeast
<1>. QED BY <1>5, <1>6

\* The rest of a block that lasts is a number of its own.
LEMMA WaitingHaveRest ==
    ASSUME TypeInv, NEW c \in Waiting
    PROVE  WaitFor(c) \in Nat
<1>1. c \in Creds /\ CoolingDown(c)
    BY DEF Waiting
<1>2. /\ creds[c].state \in ModelState
      /\ creds[c].state.retryAt \in Nat
      /\ creds[c].state.quota.recoverAt \in Nat
    BY <1>1 DEF TypeInv, CredsSound, Sound, ModelState, Quota
<1>3. creds[c].state.retryAt > Present
    BY <1>1 DEF CoolingDown, Cooling
<1>. QED BY <1>2, <1>3 DEF WaitFor, ReportedRetry, Present

\* The request waits as long as those it waits for, or longer.
LEMMA WaitReachesAwaited ==
    ASSUME TypeInv, NEW c \in Awaited
    PROVE  creds[c].state.retryAt - Present <= RetryWait
<1>. DEFINE W == {WaitFor(d) : d \in Waiting}
<1>1. /\ c \in Waiting /\ \A d \in Waiting : WaitFor(c) <= WaitFor(d)
      /\ creds[c].state.retryAt - Present <= WaitFor(c)
    BY DEF Awaited
<1>2. W \in SUBSET Nat /\ W # {}
    BY <1>1, WaitingHaveRest
<1>3. RetryWait = Min(W)
    BY <1>1 DEF RetryWait
<1>4. Min(W) \in W
    BY <1>2, MinIsLeast
<1>5. PICK d \in Waiting : Min(W) = WaitFor(d)
    BY <1>4
<1>. HIDE DEF W
<1>6. /\ WaitFor(c) \in Nat /\ WaitFor(d) \in Nat
      /\ WaitFor(c) <= RetryWait
    BY <1>1, <1>3, <1>5, WaitingHaveRest
<1>7. creds[c].state.retryAt - Present \in Int
    BY <1>1 DEF Waiting, TypeInv, CredsSound, Sound, ModelState, Present
<1>. QED BY <1>1, <1>3, <1>5, <1>6, <1>7

Covered(c, w) ==
    Cooling(creds[c].state, Present) => creds[c].state.retryAt - Present <= w

WaitInv ==
    /\ req.at # "wait" => req.target = {}
    /\ WaitsWithinLimit
    /\ \A c \in req.target \ req.renewed : Covered(c, req.wait)

\* What the others do to a credential that is waited for shortens its block,
\* or shows in renewed.
LEMMA CoverageKept ==
    ASSUME TypeInv, WaitInv, Others, NEW c \in req'.target \ req'.renewed
    PROVE  Covered(c, req.wait)'
<1>1. req \in Requests /\ CredsSound /\ req.target \in SUBSET Creds
    BY DEF TypeInv, TypeOK, Requests
<1>2. /\ req'.wait = req.wait /\ req'.target = req.target
      /\ req.renewed \subseteq req'.renewed
    BY <1>1 DEF Others, OtherSucceeds, ResetQuota, OtherFails, SetDisabled,
                Reconfigure, Requests
<1>3. c \in Creds /\ c \in req.target \ req.renewed /\ Covered(c, req.wait)
    BY <1>1, <1>2 DEF WaitInv
<1>4. CASE creds'[c] = creds[c]
    BY <1>2, <1>3, <1>4 DEF Covered
<1>5. CASE creds'[c].state.retryAt = Never
    BY <1>5 DEF Covered, Cooling, Never, Present
<1>6. \/ creds' = creds
      \/ \E d \in Creds : \/ MarkSuccess(d)
                          \/ \E b \in BOOLEAN : SetDisabled(d, b)
                          \/ \E k \in Kinds : \E h \in HintsOf(k) :
                                OtherFails(d, k, h)
    BY DEF Others, OtherSucceeds, ResetQuota, Reconfigure, MarkSuccess
<1>7. ASSUME NEW d \in Creds, MarkSuccess(d) PROVE Covered(c, req.wait)'
    <2>1. creds'[c] = creds[c] \/ creds'[c].state = CleanState
        BY <1>1, <1>3, <1>7 DEF MarkSuccess, CredsSound, Entry
    <2>. QED BY <1>4, <1>5, <2>1, ClearedSound
<1>8. ASSUME NEW d \in Creds, NEW b \in BOOLEAN, SetDisabled(d, b)
      PROVE  Covered(c, req.wait)'
    <2>1. CASE d # c
        BY <1>1, <1>3, <1>4, <1>8, <2>1 DEF SetDisabled, CredsSound
    <2>2. CASE d = c /\ (b \/ ~cooling)
        <3>1. creds'[c].state = Expired(Wiped(creds[c].state), Present)
            BY <1>1, <1>3, <1>8, <2>2 DEF SetDisabled, CredsSound
        <3>. QED BY <1>1, <1>3, <1>5, <3>1, ClearedSound DEF CredsSound
    <2>3. CASE d = c /\ ~(b \/ ~cooling)
        <3>1. creds'[c].state = creds[c].state
            BY <1>1, <1>3, <1>8, <2>3 DEF SetDisabled, CredsSound
        <3>. QED BY <1>2, <1>3, <3>1 DEF Covered
    <2>. QED BY <2>1, <2>2, <2>3
<1>9. ASSUME NEW d \in Creds, NEW k, NEW h, OtherFails(d, k, h)
      PROVE  Covered(c, req.wait)'
    <2>1. req'.renewed = req.renewed \cup (req.target \cap {d})
        BY <1>1, <1>9 DEF OtherFails, Requests
    <2>2. d # c
        BY <1>3, <2>1
    <2>. QED BY <1>1, <1>3, <1>4, <1>9, <2>2
             DEF OtherFails, MarkFailure, CredsSound
<1>. QED BY <1>4, <1>6, <1>7, <1>8, <1>9

\* Time brings the end of a block and the end of the wait equally closer.
LEMMA TickCovers ==
    ASSUME TypeInv, WaitInv, Tick, NEW c \in req.target \ req.renewed
    PROVE  Covered(c, req.wait)'
<1>. DEFINE s == creds[c].state
<1>1. /\ req \in Requests /\ c \in Creds /\ CredsSound
      /\ s \in ModelState /\ Covered(c, req.wait)
    BY DEF TypeInv, TypeOK, CredsSound, Sound, Requests, WaitInv
<1>2. creds'[c].state = Sooner(s)
    BY <1>1 DEF Tick, CredsSound, Entry
<1>3. req'.wait = IF req.wait > 0 THEN req.wait - 1 ELSE 0
    BY <1>1 DEF Tick, Requests
<1>4. /\ Sooner(s).retryAt = Nearer(s.retryAt)
      /\ Sooner(s).unavailable = s.unavailable
    BY <1>1 DEF Sooner, ModelState
<1>5. s.retryAt \in Nat /\ req.wait \in Nat
    BY <1>1 DEF ModelState, Requests
<1>. HIDE DEF s
<1>6. Cooling(s, Present) => s.retryAt - Present <= req.wait
    BY <1>1 DEF Covered, s
<1>. QED BY <1>2, <1>3, <1>4, <1>5, <1>6 DEF Covered, Cooling, Nearer, Present

LEMMA WaitInvStep == TypeInv /\ WaitInv /\ [Next]_vars => WaitInv'
<1>. SUFFICES ASSUME TypeInv, WaitInv, [Next]_vars PROVE WaitInv'
    OBVIOUS
<1>0. req \in Requests
    BY DEF TypeInv, TypeOK
<1>1. CASE UNCHANGED vars
    BY <1>1 DEF vars, WaitInv, WaitsWithinLimit, Covered
<1>2. ASSUME req'.at # "wait", req'.target = {} PROVE WaitInv'
    BY <1>2 DEF WaitInv, WaitsWithinLimit
<1>3. CASE Start \/ Call \/ NextRound \/ GiveUp
    <2>1. Idle \in Requests /\ Idle.at = "idle" /\ Idle.target = {}
        BY DEF Idle, Requests, Stages, Errors, NoError
    <2>2. req.at = "call" => req.target = {}
        BY DEF WaitInv
    <2>3. req'.at # "wait" /\ req'.target = {}
        BY <1>0, <1>3, <2>1, <2>2
        DEF Start, Call, NextRound, GiveUp, Answered, StreamOpens, Cancelled,
            Refused, Invalid, StreamEnds, StreamBreaks, Requests
    <2>. QED BY <1>2, <2>3
<1>4. CASE EndRound \/ \E c \in Creds : Pick(c)
    <2>1. req.target = {}
        BY <1>4 DEF WaitInv, EndRound, Pick
    <2>2. req'.at # "wait" /\ req'.target = {}
        BY <1>0, <1>4, <2>1 DEF EndRound, Pick, Requests
    <2>. QED BY <1>2, <2>2
<1>5. CASE WaitForCooldown
    <2>1. PICK j \in Jitter(RetryWait, req.interval) :
              req' = [req EXCEPT !.at = "wait", !.wait = RetryWait + j,
                                 !.target = Awaited, !.renewed = {}]
        BY <1>5 DEF WaitForCooldown
    <2>2. RetryWait \in 1..req.interval /\ req.interval \in Nat
        BY <1>0, <1>5 DEF WaitForCooldown, Requests
    <2>3. /\ RetryWait <= RetryWait + j /\ RetryWait + j <= req.interval
          /\ RetryWait + j \in Nat
        BY <2>2, JitterWithinLimit
    <2>4. /\ req'.at = "wait" /\ req'.wait = RetryWait + j
          /\ req'.target = Awaited /\ req'.interval = req.interval
        BY <1>0, <2>1 DEF Requests
    <2>5. creds' = creds
        BY <1>5 DEF WaitForCooldown
    <2>6. ASSUME NEW c \in Awaited PROVE Covered(c, req.wait)'
        <3>1. c \in Creds /\ creds[c].state.retryAt \in Nat
            BY DEF Awaited, Waiting, TypeInv, CredsSound, Sound, ModelState
        <3>2. creds[c].state.retryAt - Present <= RetryWait
            BY WaitReachesAwaited
        <3>. QED BY <2>2, <2>3, <2>4, <2>5, <3>1, <3>2 DEF Covered, Present
    <2>. QED BY <2>3, <2>4, <2>6 DEF WaitInv, WaitsWithinLimit
<1>6. CASE Others
    <2>1. /\ req'.at = req.at /\ req'.wait = req.wait
          /\ req'.interval = req.interval /\ req'.target = req.target
        BY <1>0, <1>6 DEF Others, OtherSucceeds, ResetQuota, OtherFails,
                          SetDisabled, Reconfigure, Requests
    <2>2. \A c \in req'.target \ req'.renewed : Covered(c, req.wait)'
        BY <1>6, CoverageKept
    <2>. QED BY <2>1, <2>2 DEF WaitInv, WaitsWithinLimit
<1>7. CASE Tick
    <2>1. /\ req'.at = req.at /\ req'.interval = req.interval
          /\ req'.wait = IF req.wait > 0 THEN req.wait - 1 ELSE 0
          /\ req'.target = req.target /\ req'.renewed = req.renewed
          /\ req.wait \in Nat /\ req.interval \in Nat
        BY <1>0, <1>7 DEF Tick, Requests
    <2>2. \A c \in req'.target \ req'.renewed : Covered(c, req.wait)'
        BY <1>7, <2>1, TickCovers
    <2>. QED BY <2>1, <2>2 DEF WaitInv, WaitsWithinLimit
<1>. QED BY <1>1, <1>3, <1>4, <1>5, <1>6, <1>7 DEF Next, Round

LEMMA WaitInvariant == Spec => []WaitInv
<1>1. Init => WaitInv
    BY DEF Init, Idle, WaitInv, WaitsWithinLimit
<1>2. TypeInv /\ WaitInv /\ [Next]_vars => WaitInv'
    BY WaitInvStep
<1>. QED BY <1>1, <1>2, TypeInvariant, PTL DEF Spec

\* No wait is longer than the limit the request has read.
THEOREM WaitsAreLimited == Spec => []WaitsWithinLimit
<1>1. WaitInv => WaitsWithinLimit
    BY DEF WaitInv
<1>. QED BY <1>1, WaitInvariant, PTL

\* No request wakes up before the block it waits for is over, unless the
\* credential has failed again.
THEOREM NoVainAwakening == Spec => []WaitCoversBlock
<1>1. WaitInv => WaitCoversBlock
    BY DEF WaitInv, WaitCoversBlock, Covered, CoolingDown
<1>. QED BY <1>1, WaitInvariant, PTL

-----------------------------------------------------------------------------
(* CallsAreBounded: what a request costs                                   *)

RoundOf(r) == IF r.cap = 0 THEN Cardinality(Creds) ELSE r.cap

Paid(r) ==
    /\ r.calls <= r.round * RoundOf(r) + Cardinality(r.tried)
    /\ Cardinality(r.tried) <= RoundOf(r)
    /\ r.round <= Max(Budgets)
    /\ r.at = "wait" => r.round + 1 <= Max(Budgets)

CallsPerRound == RoundOf(req)

CostInv == Paid(req)

\* The budgets are numbers with a greatest one, and every credential has one.
LEMMA BudgetsAreBounded ==
    ASSUME Settings # {}
    PROVE  /\ Max(Budgets) \in Nat
           /\ config \in Settings =>
                \A c \in Creds : Budget(c) \in Nat /\ Budget(c) <= Max(Budgets)
<1>. DEFINE R == {s.retry : s \in Settings}
            f == [s \in Settings |-> s.retry]
            O == Range(Override) \ {NoOverride}
<1>1. /\ IsFiniteSet(Settings) /\ IsFiniteSet(Creds)
      /\ Settings \subseteq [retry : Nat, cap : Nat, interval : Nat]
      /\ Override \in [Creds -> Nat \cup {NoOverride}]
    BY ExecutionAssumption DEF ExecutionAssumption
<1>2. R \in SUBSET Nat /\ IsFiniteSet(R)
    <2>1. f \in Surjection(Settings, R)
        BY DEF Surjection
    <2>2. IsFiniteSet(R)
        <3>. HIDE DEF f, R
        <3>. QED BY <1>1, <2>1, FS_Surjection
    <2>. QED BY <1>1, <2>2
<1>3. O \in SUBSET Nat /\ IsFiniteSet(O)
    <2>1. Override \in Surjection(Creds, Range(Override))
        BY <1>1 DEF Surjection, Range
    <2>2. IsFiniteSet(Range(Override))
        BY <1>1, <2>1, FS_Surjection
    <2>3. IsFiniteSet(O)
        BY <2>2, FS_Subset
    <2>. QED BY <1>1, <2>3 DEF Range
<1>4. Budgets = R \cup O
    BY DEF Budgets
<1>5. config \in Settings => \A c \in Creds : Budget(c) \in Budgets
    BY <1>1 DEF Budgets, Budget, Range
<1>6. \E s \in Settings : s.retry \in Budgets
    BY DEF Budgets
<1>. HIDE DEF R, O
<1>7. /\ Budgets \in SUBSET Nat /\ IsFiniteSet(Budgets) /\ Budgets # {}
    BY <1>2, <1>3, <1>4, <1>6, FS_Union
<1>. QED BY <1>5, <1>7, FiniteMaximum

\* A request that waits has a retry left.
LEMMA WaitHasBudget ==
    ASSUME TypeInv, WaitForCooldown
    PROVE  req.round + 1 <= Max(Budgets)
<1>1. req.round \in Nat /\ req.interval \in Nat /\ config \in Settings
    BY DEF TypeInv, TypeOK, Requests
<1>2. RetryWait \in 1..req.interval
    BY DEF WaitForCooldown
<1>3. RetryWait # 0
    BY <1>1, <1>2
<1>4. \E c \in Creds : Retriable(c)
    BY <1>3 DEF RetryWait, Waiting
<1>. QED BY <1>1, <1>4, BudgetsAreBounded DEF Retriable

\* One more credential tried, where the round still had one to try.
LEMMA PickIsPaid ==
    ASSUME TypeInv, CostInv, NEW c \in Creds, Pick(c)
    PROVE  CostInv'
<1>. DEFINE t == req.tried \cup {c}
            V == CallsPerRound
            n == Cardinality(req.tried)
            p == req.round * V
<1>1. /\ req \in Requests /\ IsFiniteSet(Creds) /\ req.cap \in Nat
      /\ req.tried \in SUBSET Creds /\ req.round \in Nat /\ req.calls \in Nat
    BY ExecutionAssumption DEF ExecutionAssumption, TypeInv, TypeOK, Requests
<1>2. /\ req'.calls = req.calls + 1 /\ req'.round = req.round
      /\ req'.tried = t /\ req'.cap = req.cap /\ req'.at = "call"
    BY <1>1 DEF Pick, Requests
<1>3. /\ IsFiniteSet(req.tried) /\ n \in Nat
      /\ IsFiniteSet(t) /\ Cardinality(t) = n + 1
    <2>1. IsFiniteSet(req.tried)
        BY <1>1, FS_Subset
    <2>2. c \notin req.tried
        BY DEF Pick
    <2>. QED BY <2>1, <2>2, FS_AddElement, FS_CardinalityType
<1>4. Cardinality(t) <= V
    <2>1. CASE req.cap = 0
        <3>1. t \in SUBSET Creds
            BY <1>1
        <3>2. Cardinality(t) <= Cardinality(Creds)
            <4>. HIDE DEF t
            <4>. QED BY <1>1, <3>1, FS_Subset
        <3>. QED BY <2>1, <3>2 DEF CallsPerRound, RoundOf
    <2>2. CASE req.cap # 0
        <3>1. ~(n >= req.cap)
            BY <1>1, <2>2 DEF Pick, CapReached
        <3>. QED BY <1>1, <1>3, <2>2, <3>1 DEF CallsPerRound, RoundOf
    <2>. QED BY <2>1, <2>2
<1>5. CallsPerRound' = V
    BY <1>2 DEF CallsPerRound, RoundOf
<1>6. V \in Nat
    BY <1>1, FS_CardinalityType DEF CallsPerRound, RoundOf
<1>7. req.calls <= p + n /\ req.round <= Max(Budgets) /\ p \in Nat
    BY <1>1, <1>6 DEF CostInv, Paid, CallsPerRound
<1>. HIDE DEF t, V, n, p
<1>8. req.calls + 1 <= p + Cardinality(t)
    BY <1>1, <1>3, <1>7
<1>9. /\ req'.calls <= p + Cardinality(req'.tried)
      /\ Cardinality(req'.tried) <= V
      /\ req'.round <= Max(Budgets) /\ req'.at # "wait"
    BY <1>2, <1>4, <1>7, <1>8
<1>10. p = req'.round * CallsPerRound'
    BY <1>2, <1>5 DEF p
<1>11. Max(Budgets)' = Max(Budgets)
    BY DEF Max, Budgets
<1>. QED BY <1>5, <1>9, <1>10, <1>11 DEF CostInv, Paid, CallsPerRound

\* A new round starts with nothing tried; what was spent fits the rounds
\* before it.
LEMMA NextRoundIsPaid ==
    ASSUME TypeInv, CostInv, NextRound
    PROVE  CostInv'
<1>. DEFINE V == CallsPerRound
            n == Cardinality(req.tried)
            p == req.round * V
<1>1. /\ req \in Requests /\ IsFiniteSet(Creds) /\ req.cap \in Nat
      /\ req.tried \in SUBSET Creds /\ req.round \in Nat /\ req.calls \in Nat
    BY ExecutionAssumption DEF ExecutionAssumption, TypeInv, TypeOK, Requests
<1>2. /\ req'.calls = req.calls /\ req'.round = req.round + 1
      /\ req'.tried = {} /\ req'.cap = req.cap /\ req'.at = "pick"
      /\ req.at = "wait"
    BY <1>1 DEF NextRound, Requests
<1>3. V \in Nat /\ n \in Nat
    BY <1>1, FS_CardinalityType, FS_Subset DEF CallsPerRound, RoundOf
<1>4. /\ req.calls <= p + n /\ n <= V
      /\ req.round + 1 <= Max(Budgets)
    BY <1>2 DEF CostInv, Paid, CallsPerRound
<1>5. p + V = (req.round + 1) * V /\ p \in Nat
    BY <1>1, <1>3
<1>. HIDE DEF n, p
<1>6. req.calls <= p + V
    <2>. HIDE DEF V
    <2>. QED BY <1>1, <1>3, <1>4, <1>5
<1>7. CallsPerRound' = V
    BY <1>2 DEF CallsPerRound, RoundOf
<1>8. Max(Budgets)' = Max(Budgets)
    BY DEF Max, Budgets
<1>9. Cardinality(req'.tried) = 0
    BY <1>2, FS_EmptySet
<1>10. req'.round * CallsPerRound' = p + V
    BY <1>2, <1>5, <1>7
<1>. HIDE DEF V
<1>. QED BY <1>1, <1>2, <1>3, <1>4, <1>5, <1>6, <1>7, <1>8, <1>9, <1>10
         DEF CostInv, Paid, CallsPerRound

\* A request that has not started, or is over.
LEMMA IdleIsPaid ==
    ASSUME Settings # {}, NEW r, r.round = 0, r.calls = 0, r.tried = {},
           r.cap \in Nat, r.at # "wait"
    PROVE  Paid(r)
<1>1. Max(Budgets) \in Nat
    BY BudgetsAreBounded
<1>2. RoundOf(r) \in Nat
    BY FS_CardinalityType, ExecutionAssumption
    DEF ExecutionAssumption, RoundOf
<1>3. Cardinality(r.tried) = 0
    BY FS_EmptySet
<1>4. r.round * RoundOf(r) = 0
    BY <1>2
<1>. QED BY <1>1, <1>2, <1>3, <1>4 DEF Paid

LEMMA CostInvStep == TypeInv /\ CostInv /\ [Next]_vars => CostInv'
<1>. SUFFICES ASSUME TypeInv, CostInv, [Next]_vars PROVE CostInv'
    OBVIOUS
<1>0. /\ req \in Requests /\ config \in Settings /\ config' \in Settings
    <2>1. TypeOK /\ TypeOK'
        BY TypeInvStep DEF TypeInv
    <2>. QED BY <2>1 DEF TypeOK
<1>1. Max(Budgets)' = Max(Budgets)
    BY DEF Max, Budgets
<1>2. ASSUME /\ req'.round = 0 /\ req'.calls = 0 /\ req'.tried = {}
             /\ req'.cap \in Nat /\ req'.at # "wait"
      PROVE  CostInv'
    BY <1>0, <1>2, IdleIsPaid DEF CostInv
<1>3. ASSUME /\ req'.round = req.round /\ req'.calls = req.calls
             /\ req'.tried = req.tried /\ req'.cap = req.cap
             /\ req'.at = "wait" => req.round + 1 <= Max(Budgets)
      PROVE  CostInv'
    BY <1>1, <1>3 DEF CostInv, Paid, CallsPerRound, RoundOf
<1>4. CASE req' = req \/ UNCHANGED vars
    BY <1>3, <1>4 DEF vars, CostInv
<1>5. CASE req' = Idle \/ Start \/ StreamOpens \/ GiveUp
    <2>1. /\ Idle \in Requests /\ Idle.at = "idle" /\ Idle.round = 0
          /\ Idle.calls = 0 /\ Idle.tried = {} /\ Idle.cap = 0
        BY DEF Idle, Requests, Stages, Errors, NoError
    <2>2. config.cap \in Nat
        BY <1>0, ExecutionAssumption DEF ExecutionAssumption
    <2>3. /\ req'.round = 0 /\ req'.calls = 0 /\ req'.tried = {}
          /\ req'.cap \in Nat /\ req'.at # "wait"
        BY <1>5, <2>1, <2>2 DEF Start, StreamOpens, GiveUp, Requests
    <2>. QED BY <1>2, <2>3
<1>6. CASE EndRound
    BY <1>0, <1>3, <1>6 DEF EndRound, Requests
<1>7. ASSUME NEW k, NEW h, Refused(k, h) PROVE CostInv'
    BY <1>0, <1>3, <1>7 DEF Refused, Requests
<1>8. CASE WaitForCooldown
    <2>1. /\ req'.round = req.round /\ req'.calls = req.calls
          /\ req'.tried = req.tried /\ req'.cap = req.cap
        BY <1>0, <1>8 DEF WaitForCooldown, Requests
    <2>. QED BY <1>3, <1>8, <2>1, WaitHasBudget
<1>9. ASSUME Tick \/ \E c, k, h : OtherFails(c, k, h) PROVE CostInv'
    <2>1. /\ req'.round = req.round /\ req'.calls = req.calls
          /\ req'.tried = req.tried /\ req'.cap = req.cap
          /\ req'.at = req.at
        BY <1>0, <1>9 DEF Tick, OtherFails, Requests
    <2>. QED BY <1>3, <2>1 DEF CostInv, Paid, CallsPerRound
<1>10. \/ req' = Idle \/ req' = req \/ Tick \/ StreamOpens
       \/ Start \/ EndRound \/ WaitForCooldown \/ GiveUp \/ NextRound
       \/ \E c \in Creds : Pick(c)
       \/ \E k \in Kinds : \E h \in HintsOf(k) : Refused(k, h)
       \/ \E c \in Creds, k \in Kinds : \E h \in HintsOf(k) :
              OtherFails(c, k, h)
       \/ UNCHANGED vars
    BY DEF Next, Call, Round, Others, Answered, Cancelled, Invalid,
           StreamEnds, StreamBreaks, OtherSucceeds, ResetQuota,
           SetDisabled, Reconfigure
<1>. QED BY <1>4, <1>5, <1>6, <1>7, <1>8, <1>9, <1>10, PickIsPaid,
            NextRoundIsPaid

\* However the settings change under way, a request makes at most one call
\* per credential, or as many as its cap, from one wait to the next, and no
\* more rounds than the highest number of retries allows; the cap is not one
\* for the whole request.
THEOREM RequestsAreAffordable == Spec => []CallsAreBounded
<1>1. Init => CostInv
    BY IdleIsPaid DEF Init, Idle, CostInv
<1>2. TypeInv /\ CostInv /\ [Next]_vars => CostInv'
    BY CostInvStep
<1>3. TypeInv /\ CostInv => CallsAreBounded
    <2>. SUFFICES ASSUME TypeInv, CostInv PROVE CallsAreBounded
        OBVIOUS
    <2>. DEFINE V == CallsPerRound
                p == req.round * V
    <2>1. /\ req.cap \in Nat /\ req.round \in Nat /\ req.calls \in Nat
          /\ IsFiniteSet(Creds) /\ req.tried \in SUBSET Creds
        BY ExecutionAssumption
        DEF ExecutionAssumption, TypeInv, TypeOK, Requests
    <2>2. V \in Nat /\ Cardinality(req.tried) \in Nat
        BY <2>1, FS_CardinalityType, FS_Subset DEF CallsPerRound, RoundOf
    <2>3. p + V = (req.round + 1) * V /\ p \in Nat
        BY <2>1, <2>2
    <2>4. /\ req.calls <= p + Cardinality(req.tried)
          /\ Cardinality(req.tried) <= V /\ req.round <= Max(Budgets)
        BY DEF CostInv, Paid, CallsPerRound
    <2>. HIDE DEF p
    <2>5. req.calls <= p + V
        <3>. HIDE DEF V
        <3>. QED BY <2>1, <2>2, <2>3, <2>4
    <2>. QED BY <2>3, <2>4, <2>5 DEF CallsAreBounded, CallsPerRound, RoundOf
<1>. QED BY <1>1, <1>2, <1>3, TypeInvariant, PTL DEF Spec

=============================================================================
