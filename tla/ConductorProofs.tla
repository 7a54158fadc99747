--------------------------- MODULE ConductorProofs --------------------------
(***************************************************************************)
(* Proofs about Conductor and Delivery for every set of models, every      *)
(* schedule of the backoff ladder and every length of the waits that       *)
(* satisfies the assumptions of Cooldown.  Of the credential: deadlines    *)
(* end in time, the ladder is climbed window by window, and what is shown  *)
(* is what its models say.  Of the deliveries: they leave the record to    *)
(* the Manager, so that all of this carries over; the scheduler's copies   *)
(* are no worse than the record, a request is refused for a reason, and    *)
(* between calls the registry and the scheduler say what the record says.  *)
(***************************************************************************)
EXTENDS Delivery, WellFoundedInduction, FiniteSetTheorems, TLAPS

-----------------------------------------------------------------------------
(* What the operations of Cooldown preserve: a well-typed record stays so, *)
(* and no deadline comes to lie further ahead than the longest wait.       *)

\* Every non-empty set of natural numbers has a least element.
LEMMA NatMinimum ==
    ASSUME NEW T \in SUBSET Nat, T # {}
    PROVE  \E t \in T : \A u \in T : t <= u
<1>. DEFINE Less == {ss \in Nat \X Nat : ss[1] < ss[2]}
<1>1. OpToRel(<, Nat) = Less
    BY Zenon DEF OpToRel
<1>2. IsWellFoundedOn(Less, Nat)
    BY <1>1, NatLessThanWellFounded, Zenon
<1>3. PICK x \in T : \A y \in T : ~(<<y, x>> \in Less)
    <2>. HIDE DEF Less
    <2>1. T \subseteq Nat
        OBVIOUS
    <2>2. \E x \in T : \A y \in T : ~(<<y, x>> \in Less)
        BY <1>2, <2>1, WFMin, Zenon
    <2>. QED BY <2>2
<1>4. \A y \in T : x <= y
    <2>. SUFFICES ASSUME NEW y \in T, ~(x <= y) PROVE FALSE
        OBVIOUS
    <2>1. x \in Nat /\ y \in Nat /\ y < x
        OBVIOUS
    <2>2. <<y, x>> \in Less
        BY <2>1
    <2>. QED BY <1>3, <2>2
<1>. QED BY <1>4

-----------------------------------------------------------------------------
(* The earliest and the highest of a set.                                  *)

\* The earliest of a set of deadlines is one of them and no later than any
\* other; it is Never only when the set holds no deadline.
LEMMA EarliestIsMember ==
    ASSUME NEW T \in SUBSET Nat
    PROVE  /\ Earliest(T) \in Nat
           /\ Earliest(T) # Never => Earliest(T) \in T
           /\ Earliest(T) = Never => T \subseteq {Never}
           /\ \A t \in T \ {Never} : Earliest(T) <= t
<1>1. CASE T \subseteq {Never}
    BY <1>1 DEF Earliest, Never
<1>2. CASE ~(T \subseteq {Never})
    <2>1. \E t \in T \ {Never} : \A u \in T \ {Never} : t <= u
        BY <1>2, NatMinimum
    <2>2. Earliest(T) = CHOOSE t \in T \ {Never} : \A u \in T \ {Never} : t <= u
        BY <1>2 DEF Earliest
    <2>. QED BY <2>1, <2>2
<1>. QED BY <1>1, <1>2

\* The highest of some backoff levels is one of them.
LEMMA HighestIsMember ==
    ASSUME NEW L \in SUBSET (0..LadderTop), L # {}
    PROVE  /\ Highest(L) \in L
           /\ \A l \in L : l <= Highest(L)
<1>. DEFINE D == {LadderTop - l : l \in L}
<1>1. LadderTop \in Nat
    BY LadderAssumption DEF LadderAssumption
<1>2. D \in SUBSET Nat /\ D # {}
    <2>1. \A l \in L : LadderTop - l \in Nat
        BY <1>1
    <2>. QED BY <2>1
<1>3. PICK d \in D : \A e \in D : d <= e
    BY <1>2, NatMinimum
<1>4. PICK h \in L : d = LadderTop - h
    BY <1>3
<1>5. \A k \in L : k <= h
    <2>. SUFFICES ASSUME NEW k \in L PROVE k <= h
        OBVIOUS
    <2>1. LadderTop - k \in D
        OBVIOUS
    <2>. QED BY <1>1, <1>3, <1>4, <2>1
<1>. QED BY <1>5 DEF Highest

-----------------------------------------------------------------------------
(* What the helpers return.                                                *)

\* No step of the ladder waits for longer than LongestWait or leaves it.
LEMMA LadderStep ==
    ASSUME NEW level \in 0..LadderTop
    PROVE  /\ NextQuotaCooldown(level).wait \in Nat \ {0}
           /\ NextQuotaCooldown(level).wait <= LongestWait
           /\ NextQuotaCooldown(level).level \in 0..LadderTop
<1>. DEFINE p == QuotaBase * 2^level
<1>1. /\ p \in Nat \ {0}
      /\ p >= QuotaMax <=> level = LadderTop
      /\ QuotaMax \in Nat \ {0} /\ LadderTop \in Nat
    BY LadderAssumption DEF LadderAssumption
<1>2. QuotaMax <= LongestWait /\ LongestWait \in Nat
    BY WaitAssumption DEF WaitAssumption
<1>3. NextQuotaCooldown(level) =
          IF p >= QuotaMax THEN [wait |-> QuotaMax, level |-> level]
                           ELSE [wait |-> p, level |-> level + 1]
    BY DEF NextQuotaCooldown
<1>. HIDE DEF p
<1>. QED BY <1>1, <1>2, <1>3

\* A quota window is at most LongestWait long, unless it is the window that
\* was open already.
LEMMA QuotaWindowBounded ==
    ASSUME NEW q \in Quota, NEW n \in Nat, NEW kind, NEW c \in BOOLEAN,
           NEW hint \in Hints \cup {NoHint}
    PROVE  LET w == QuotaWindow(q, kind, hint, c, n)
           IN  /\ w.at \in Nat
               /\ w.level \in 0..LadderTop
               /\ w.at <= n + LongestWait \/ w.at = q.recoverAt
<1>1. /\ q.level \in 0..LadderTop /\ q.recoverAt \in Nat
      /\ LongestWait \in Nat
      /\ CloudflareFloor \in Nat /\ CloudflareFloor <= LongestWait
      /\ hint # NoHint => hint \in Nat /\ hint <= LongestWait
    BY WaitAssumption DEF WaitAssumption, Quota
<1>. DEFINE s == NextQuotaCooldown(q.level)
<1>2. /\ s.wait \in Nat \ {0} /\ s.wait <= LongestWait
      /\ s.level \in 0..LadderTop
    BY <1>1, LadderStep
<1>. HIDE DEF s
<1>3. LET w == QuotaCooldownAfterFailure(q, n)
      IN  /\ w.at \in Nat /\ w.level \in 0..LadderTop
          /\ w.at <= n + LongestWait \/ w.at = q.recoverAt
    BY <1>1, <1>2 DEF QuotaCooldownAfterFailure, s
<1>4. LET w == NextCloudflareCooldown(q, n)
      IN  /\ w.at \in Nat /\ w.level \in 0..LadderTop
          /\ w.at <= n + LongestWait
    BY <1>1, <1>2 DEF NextCloudflareCooldown, s
<1>. QED BY <1>1, <1>3, <1>4 DEF QuotaWindow, Never

\* The records without a deadline.
LEMMA EmptyRecords ==
    /\ NoQuota \in Quota /\ NoQuota.recoverAt = 0 /\ NoQuota.level = 0
    /\ AbsentState \in ModelState
    /\ AbsentState.retryAt = 0 /\ AbsentState.quota = NoQuota
    /\ CleanState \in ModelState
    /\ CleanState.retryAt = 0 /\ CleanState.quota = NoQuota
    /\ FreshAuth \in Auth
    /\ FreshAuth.retryAt = 0 /\ FreshAuth.quota = NoQuota
    /\ \A m \in Models : FreshAuth.ms[m] = AbsentState
<1>1. NoQuota \in Quota /\ NoQuota.recoverAt = 0 /\ NoQuota.level = 0
    BY LadderAssumption DEF LadderAssumption, NoQuota, Quota, Never
<1>2. /\ AbsentState \in ModelState
      /\ AbsentState.retryAt = 0 /\ AbsentState.quota = NoQuota
    BY <1>1 DEF AbsentState, ModelState, Never
<1>3. /\ CleanState \in ModelState
      /\ CleanState.retryAt = 0 /\ CleanState.quota = NoQuota
    BY <1>2 DEF CleanState, ModelState
<1>4. /\ FreshAuth \in Auth
      /\ FreshAuth.retryAt = 0 /\ FreshAuth.quota = NoQuota
      /\ \A m \in Models : FreshAuth.ms[m] = AbsentState
    BY <1>1, <1>2 DEF FreshAuth, Auth, Never
<1>. QED BY <1>1, <1>2, <1>3, <1>4

-----------------------------------------------------------------------------
(* Records whose deadlines lie within reach of time n.  Every operation    *)
(* maps such records to such records, and time only widens the reach.      *)

Timely(x, n) ==
    /\ x.retryAt <= n + LongestWait
    /\ x.quota.recoverAt <= n + LongestWait

TimelyAuth(a, n) ==
    /\ a \in Auth
    /\ Timely(a, n)
    /\ \A m \in Models : Timely(a.ms[m], n)

\* The deadlines a failure sets are within reach.
LEMMA FixedDeadlineBounded ==
    ASSUME NEW kind, NEW c \in BOOLEAN, NEW n \in Nat
    PROVE  /\ FixedDeadline(kind, c, n) \in Nat
           /\ FixedDeadline(kind, c, n) <= n + LongestWait
BY WaitAssumption DEF WaitAssumption, FixedDeadline, FixedWait, Never

\* A failed result leaves the state of its model within reach.
LEMMA FailedModelTimely ==
    ASSUME NEW s \in ModelState, NEW kind, NEW hint \in Hints \cup {NoHint},
           NEW c \in BOOLEAN, NEW n \in Nat, Timely(s, n)
    PROVE  /\ FailedModel(s, kind, hint, c, n) \in ModelState
           /\ Timely(FailedModel(s, kind, hint, c, n), n)
<1>. DEFINE w == QuotaWindow(s.quota, kind, hint, c, n)
            d == FixedDeadline(kind, c, n)
            f == [s EXCEPT !.known = TRUE, !.failed = TRUE, !.unavailable = TRUE]
<1>1. /\ s.quota \in Quota /\ s.retryAt \in Nat
      /\ s.retryAt <= n + LongestWait
      /\ s.quota.recoverAt <= n + LongestWait
    BY DEF ModelState, Timely
<1>2. /\ w.at \in Nat /\ w.level \in 0..LadderTop
      /\ w.at <= n + LongestWait
    <2>. HIDE DEF w
    <2>1. /\ w.at \in Nat /\ w.level \in 0..LadderTop
          /\ w.at <= n + LongestWait \/ w.at = s.quota.recoverAt
        BY <1>1, QuotaWindowBounded DEF w
    <2>. QED BY <1>1, <2>1
<1>3. d \in Nat /\ d <= n + LongestWait
    BY FixedDeadlineBounded
<1>4. /\ LongestWait \in Nat
      /\ n + MissingWait \in Nat /\ n + MissingWait <= n + LongestWait
    BY WaitAssumption DEF WaitAssumption
<1>5. f \in ModelState /\ f.quota = s.quota
    BY DEF ModelState
<1>. HIDE DEF w, d, f
<1>6. CASE kind \in QuotaKinds
    <2>. DEFINE q == [exceeded |-> TRUE, recoverAt |-> w.at, level |-> w.level]
    <2>1. FailedModel(s, kind, hint, c, n) = Limited(f, w)
        BY <1>6 DEF FailedModel, QuotaKinds, FixedKinds, w, f
    <2>2. q \in Quota /\ q.recoverAt = w.at
        BY <1>2 DEF Quota
    <2>3. Limited(f, w) = [f EXCEPT !.retryAt = w.at, !.quota = q]
        BY DEF Limited
    <2>. HIDE DEF q
    <2>. QED BY <1>2, <1>5, <2>1, <2>2, <2>3 DEF ModelState, Timely
<1>7. CASE kind \notin QuotaKinds
    <2>1. \E t \in {d, n + MissingWait, Never} :
              FailedModel(s, kind, hint, c, n) = [f EXCEPT !.retryAt = t]
        BY <1>7 DEF FailedModel, w, d, f
    <2>. QED BY <1>1, <1>3, <1>4, <1>5, <2>1 DEF ModelState, Timely, Never
<1>. QED BY <1>6, <1>7

\* A failed result that names no model leaves the credential within reach.
LEMMA FailedAuthTimely ==
    ASSUME NEW a, NEW kind, NEW hint \in Hints \cup {NoHint},
           NEW c \in BOOLEAN, NEW n \in Nat, TimelyAuth(a, n)
    PROVE  TimelyAuth(FailedAuth(a, kind, hint, c, n), n)
<1>. DEFINE w == QuotaWindow(a.quota, kind, hint, c, n)
            d == FixedDeadline(kind, c, n)
            f == [a EXCEPT !.failed = TRUE, !.unavailable = TRUE]
<1>1. /\ a.quota \in Quota
      /\ a.quota.recoverAt <= n + LongestWait
    BY DEF Auth, Timely, TimelyAuth
<1>2. /\ w.at \in Nat /\ w.level \in 0..LadderTop
      /\ w.at <= n + LongestWait
    <2>. HIDE DEF w
    <2>1. /\ w.at \in Nat /\ w.level \in 0..LadderTop
          /\ w.at <= n + LongestWait \/ w.at = a.quota.recoverAt
        BY <1>1, QuotaWindowBounded DEF w
    <2>. QED BY <1>1, <2>1
<1>3. d \in Nat /\ d <= n + LongestWait
    BY FixedDeadlineBounded
<1>4. /\ f \in Auth /\ f.quota = a.quota /\ f.retryAt = a.retryAt
      /\ f.ms = a.ms
    BY DEF Auth, TimelyAuth
<1>. HIDE DEF w, d, f
<1>5. CASE kind \in QuotaKinds
    <2>. DEFINE q == [exceeded |-> TRUE, recoverAt |-> w.at, level |-> w.level]
    <2>1. FailedAuth(a, kind, hint, c, n) = Limited(f, w)
        BY <1>5 DEF FailedAuth, QuotaKinds, FixedKinds, w, f
    <2>2. q \in Quota /\ q.recoverAt = w.at
        BY <1>2 DEF Quota
    <2>3. Limited(f, w) = [f EXCEPT !.retryAt = w.at, !.quota = q]
        BY DEF Limited
    <2>. HIDE DEF q
    <2>. QED BY <1>2, <1>4, <2>1, <2>2, <2>3, ZenonT(40) DEF Auth, Timely, TimelyAuth
<1>6. CASE kind \in FixedKinds /\ kind \notin QuotaKinds
    <2>1. FailedAuth(a, kind, hint, c, n) = [f EXCEPT !.retryAt = d]
        BY <1>6 DEF FailedAuth, d, f
    <2>. QED BY <1>1, <1>3, <1>4, <2>1 DEF Auth, Timely, TimelyAuth
<1>7. CASE kind \notin FixedKinds \cup QuotaKinds
    <2>1. FailedAuth(a, kind, hint, c, n) = f
        BY <1>7 DEF FailedAuth, f
    <2>. QED BY <1>4, <2>1 DEF Timely, TimelyAuth
<1>. QED BY <1>5, <1>6, <1>7

\* An elapsed deadline is dropped, the quota record is kept.
LEMMA ExpiredTimely ==
    ASSUME NEW s \in ModelState, NEW n \in Nat, Timely(s, n)
    PROVE  /\ Expired(s, n) \in ModelState
           /\ Timely(Expired(s, n), n)
           /\ Expired(s, n).quota = s.quota
<1>1. /\ s.quota \in Quota /\ s.retryAt <= n + LongestWait
      /\ LongestWait \in Nat
    BY WaitAssumption DEF WaitAssumption, ModelState, Timely
<1>. DEFINE e == [s EXCEPT !.unavailable = FALSE, !.retryAt = Never]
<1>3. e \in ModelState /\ e.retryAt = 0 /\ e.quota = s.quota
    BY DEF ModelState, Never
<1>4. Expired(s, n) = s \/ Expired(s, n) = e
    BY DEF Expired
<1>. HIDE DEF e
<1>. QED BY <1>1, <1>3, <1>4 DEF Timely

\* The quota aggregated over the models is one that some model has.
LEMMA AggregateQuotaTimely ==
    ASSUME NEW ms \in [Models -> ModelState], NEW n \in Nat,
           \A m \in Models : Timely(ms[m], n)
    PROVE  /\ AggregateQuota(ms) \in Quota
           /\ AggregateQuota(ms).recoverAt <= n + LongestWait
<1>. DEFINE over == {m \in Models : ms[m].known /\ ms[m].quota.exceeded}
            T == {ms[m].quota.recoverAt : m \in over}
            L == {ms[m].quota.level : m \in over}
<1>1. LadderTop \in Nat /\ LongestWait \in Nat
    BY LadderAssumption, WaitAssumption DEF LadderAssumption, WaitAssumption
<1>2. \A m \in over : /\ ms[m].quota.recoverAt \in Nat
                       /\ ms[m].quota.recoverAt <= n + LongestWait
                       /\ ms[m].quota.level \in 0..LadderTop
    BY DEF ModelState, Quota, Timely
<1>3. CASE over = {}
    BY <1>1, <1>3 DEF AggregateQuota, NoQuota, Quota, Never
<1>4. CASE over # {}
    <2>1. T \in SUBSET Nat /\ \A t \in T : t <= n + LongestWait
        BY <1>2
    <2>2. L \in SUBSET (0..LadderTop) /\ L # {}
        BY <1>2, <1>4
    <2>3. AggregateQuota(ms) = [exceeded  |-> TRUE, recoverAt |-> Earliest(T),
                                level |-> Highest(L)]
        BY <1>4 DEF AggregateQuota
    <2>. HIDE DEF over, T, L
    <2>4. Earliest(T) \in Nat /\ Earliest(T) <= n + LongestWait
        BY <1>1, <2>1, EarliestIsMember DEF Never
    <2>5. Highest(L) \in 0..LadderTop
        BY <2>2, HighestIsMember
    <2>. QED BY <2>3, <2>4, <2>5 DEF Quota
<1>. QED BY <1>3, <1>4

\* The aggregate over models within reach is within reach.
LEMMA AggregateTimely ==
    ASSUME NEW a, NEW n \in Nat, TimelyAuth(a, n)
    PROVE  TimelyAuth(Aggregate(a, n), n)
<1>. DEFINE ms  == [m \in Models |-> Expired(a.ms[m], n)]
            all == Known(a) # {} /\ \A m \in Known(a) : Cooling(ms[m], n)
            T   == {ms[m].retryAt : m \in Known(a)}
            r   == IF all THEN Earliest(T) ELSE Never
            q   == AggregateQuota(ms)
<1>1. /\ a \in Auth /\ LongestWait \in Nat
      /\ \A m \in Models : a.ms[m] \in ModelState /\ Timely(a.ms[m], n)
    BY WaitAssumption DEF WaitAssumption, TimelyAuth, Auth
<1>2. /\ ms \in [Models -> ModelState]
      /\ \A m \in Models : Timely(ms[m], n)
    BY <1>1, ExpiredTimely
<1>3. Aggregate(a, n) = [a EXCEPT !.ms = ms, !.unavailable = all,
                                  !.retryAt = r, !.quota = q]
    BY DEF Aggregate
<1>. HIDE DEF ms
<1>4. T \in SUBSET Nat /\ \A t \in T : t <= n + LongestWait
    BY <1>2 DEF Known, ModelState, Timely
<1>5. r \in Nat /\ r <= n + LongestWait
    <2>. HIDE DEF T
    <2>. QED BY <1>1, <1>4, EarliestIsMember DEF Never
<1>6. q \in Quota /\ q.recoverAt <= n + LongestWait
    BY <1>2, AggregateQuotaTimely
<1>7. all \in BOOLEAN
    OBVIOUS
<1>. HIDE DEF all, r, q
<1>. QED BY <1>1, <1>2, <1>3, <1>5, <1>6, <1>7 DEF TimelyAuth, Timely, Auth

\* The record that clearing aggregates: everything wiped.
AllWiped(a) == [Wiped(a) EXCEPT !.ms = [m \in Models |-> Wiped(a.ms[m])]]

\* Wiping leaves a record within reach.
LEMMA WipedTimely ==
    ASSUME NEW a, NEW n \in Nat, TimelyAuth(a, n)
    PROVE  /\ TimelyAuth(AllWiped(a), n)
           /\ \A m \in Models : AllWiped(a).ms[m] = Wiped(a.ms[m])
<1>. DEFINE b == AllWiped(a)
<1>0. NoQuota \in Quota /\ NoQuota.recoverAt <= n + LongestWait
    BY LadderAssumption, WaitAssumption
    DEF LadderAssumption, WaitAssumption, NoQuota, Quota, Never
<1>1. Never \in Nat /\ Never <= n + LongestWait
    BY WaitAssumption DEF WaitAssumption, Never
<1>2. Wiped(a) \in Auth /\ Timely(Wiped(a), n)
    BY <1>0, <1>1 DEF TimelyAuth, Auth, Wiped, Timely
<1>3. ASSUME NEW m \in Models
      PROVE  Wiped(a.ms[m]) \in ModelState /\ Timely(Wiped(a.ms[m]), n)
    <2>1. a.ms[m] \in ModelState /\ Timely(a.ms[m], n)
        BY DEF TimelyAuth, Auth
    <2>. QED BY <1>0, <1>1, <2>1 DEF ModelState, Wiped, Timely
<1>. QED BY <1>2, <1>3 DEF TimelyAuth, Auth, Timely, AllWiped

\* Clearing the cooldown of a disabled credential leaves it within reach.
LEMMA ClearCooldownTimely ==
    ASSUME NEW a, NEW n \in Nat, TimelyAuth(a, n)
    PROVE  TimelyAuth(ClearCooldown(a, n), n)
<1>1. TimelyAuth(AllWiped(a), n)
    BY WipedTimely
<1>2. ClearCooldown(a, n) =
          IF Known(a) = {} THEN AllWiped(a) ELSE Aggregate(AllWiped(a), n)
    BY DEF ClearCooldown, AllWiped
<1>. QED BY <1>1, <1>2, AggregateTimely

\* Clearing the credential's own failure leaves it within reach.
LEMMA SettledTimely ==
    ASSUME NEW a, NEW n \in Nat, TimelyAuth(a, n)
    PROVE  TimelyAuth(Settled(a), n)
BY DEF TimelyAuth, Settled, Auth, Timely

\* A record within reach stays so when one of its models is replaced.
LEMMA ReplaceModelsTimely ==
    ASSUME NEW a, NEW n \in Nat, TimelyAuth(a, n),
           NEW f \in [Models -> ModelState],
           \A m \in Models : Timely(f[m], n)
    PROVE  TimelyAuth([a EXCEPT !.ms = f], n)
BY DEF TimelyAuth, Auth, Timely

\* Replacing one model's state by one within reach.
LEMMA ReplaceModelTimely ==
    ASSUME NEW a, NEW n \in Nat, TimelyAuth(a, n), NEW m \in Models,
           NEW s \in ModelState, Timely(s, n)
    PROVE  TimelyAuth([a EXCEPT !.ms[m] = s], n)
BY DEF TimelyAuth, Auth, Timely

-----------------------------------------------------------------------------
(* Type correctness and BlocksEndInTime, proved together: each of them     *)
(* needs the other to be preserved.                                        *)

TimelyState == ConductorTypeOK /\ TimelyAuth(auth, now)

\* A new credential has no deadline.
LEMMA TimelyInit == ConductorInit => TimelyState
<1>. SUFFICES ASSUME ConductorInit PROVE TimelyState
    OBVIOUS
<1>1. LongestWait \in Nat
    BY WaitAssumption DEF WaitAssumption
<1>2. /\ now = 1 /\ auth = FreshAuth /\ cooling \in BOOLEAN
      /\ ladderEnd \in [Models -> Nat]
    BY DEF ConductorInit, Never
<1>3. ConductorTypeOK
    <2>1. auth \in Auth
        BY <1>2, EmptyRecords
    <2>2. clearing \in BOOLEAN /\ aggregated \in BOOLEAN
        BY Zenon DEF ConductorInit
    <2>3. unsupported \in SUBSET Models
        BY DEF ConductorInit
    <2>. QED BY <1>2, <2>1, <2>2, <2>3 DEF ConductorTypeOK
<1>4. TimelyAuth(auth, now)
    BY <1>1, <1>2, EmptyRecords DEF TimelyAuth, Timely
<1>. QED BY <1>3, <1>4 DEF TimelyState

\* Every step leaves a set of models as the history of refusals.
LEMMA RefusedModels ==
    ASSUME unsupported \in SUBSET Models, [ConductorNext]_conductorVars
    PROVE  unsupported' \in SUBSET Models
<1>1. CASE Results
    BY <1>1 DEF Results, RecordSuccess, RecordFailure, RecordAuthSuccess,
                RecordAuthFailure
<1>2. CASE Management
    BY <1>2 DEF Management, ResetQuota, Reconcile, StoreConfig, SetDisabled,
                ClearDisabledCooldownStates, Forget
<1>. QED BY <1>1, <1>2 DEF ConductorNext, Tick, conductorVars

\* Every operation preserves the strengthened invariant.
LEMMA TimelyStep == TimelyState /\ [ConductorNext]_conductorVars => TimelyState'
<1>. SUFFICES ASSUME TimelyState, [ConductorNext]_conductorVars
              PROVE  TimelyState'
    OBVIOUS
<1>1. /\ now \in Nat /\ now # 0 /\ cooling \in BOOLEAN /\ clearing \in BOOLEAN
      /\ ladderEnd \in [Models -> Nat] /\ aggregated \in BOOLEAN
      /\ TimelyAuth(auth, now)
    BY DEF TimelyState, ConductorTypeOK
<1>2. /\ auth \in Auth /\ auth.ms \in [Models -> ModelState]
      /\ \A m \in Models : auth.ms[m] \in ModelState /\ Timely(auth.ms[m], now)
    BY <1>1 DEF TimelyAuth, Auth
<1>3. LongestWait \in Nat
    BY WaitAssumption DEF WaitAssumption
<1>4. /\ AbsentState \in ModelState /\ Timely(AbsentState, now)
      /\ CleanState \in ModelState /\ Timely(CleanState, now)
    BY <1>1, <1>3, EmptyRecords DEF Timely
<1>0. unsupported' \in SUBSET Models
    BY RefusedModels DEF TimelyState, ConductorTypeOK
\* What every action has to establish: the clock moves at most forward, and
\* the record stays within reach.
<1>5. ASSUME /\ now' \in Nat /\ now <= now'
             /\ cooling' \in BOOLEAN /\ clearing' \in BOOLEAN
             /\ ladderEnd' \in [Models -> Nat] /\ aggregated' \in BOOLEAN
             /\ TimelyAuth(auth', now)
      PROVE  TimelyState'
    <2>1. TimelyAuth(auth', now')
        <3>1. auth' \in Auth
            BY <1>5 DEF TimelyAuth
        <3>2. \A m \in Models : /\ auth'.ms[m].retryAt \in Nat
                                /\ auth'.ms[m].quota.recoverAt \in Nat
            BY <3>1 DEF Auth, ModelState, Quota
        <3>3. auth'.retryAt \in Nat /\ auth'.quota.recoverAt \in Nat
            BY <3>1 DEF Auth, Quota
        <3>. QED BY <1>1, <1>3, <1>5, <3>1, <3>2, <3>3 DEF TimelyAuth, Timely
    <2>2. now' \in Nat \ {0}
        BY <1>1, <1>5
    <2>. QED BY <1>0, <1>5, <2>1, <2>2
         DEF TimelyState, ConductorTypeOK, TimelyAuth
<1>6. ASSUME NEW m \in Models, RecordSuccess(m)
      PROVE  TimelyState'
    <2>. DEFINE a == [auth EXCEPT !.ms[m] = CleanState]
    <2>1. TimelyAuth(a, now)
        BY <1>1, <1>4, ReplaceModelTimely
    <2>2. auth' = Settled(Aggregate(a, now))
        BY <1>6 DEF RecordSuccess
    <2>. HIDE DEF a
    <2>3. TimelyAuth(auth', now)
        BY <1>1, <2>1, <2>2, AggregateTimely, SettledTimely
    <2>. QED BY <1>1, <1>5, <1>6, <2>3 DEF RecordSuccess, Never
<1>7. ASSUME NEW m \in Models, NEW k \in Kinds, NEW h \in HintsFor(k),
             RecordFailure(m, k, h)
      PROVE  TimelyState'
    <2>. DEFINE s == FailedModel(auth.ms[m], k, h, cooling, now)
                a == [auth EXCEPT !.failed = TRUE, !.ms[m] = s]
    <2>1. h \in Hints \cup {NoHint}
        BY DEF HintsFor
    <2>2. s \in ModelState /\ Timely(s, now)
        BY <1>1, <1>2, <2>1, FailedModelTimely
    <2>3. /\ auth' = Aggregate(a, now)
          /\ UNCHANGED <<now, cooling, clearing>> /\ aggregated' = TRUE
          /\ ladderEnd' = [ladderEnd EXCEPT
                 ![m] = LadderEndAfter(m, k, h, auth.ms[m].quota, s.quota)]
        BY <1>7 DEF RecordFailure
    <2>. HIDE DEF s
    <2>4. TimelyAuth(a, now)
        <3>1. TimelyAuth([auth EXCEPT !.failed = TRUE], now)
            BY <1>1 DEF TimelyAuth, Auth, Timely
        <3>2. a = [[auth EXCEPT !.failed = TRUE] EXCEPT !.ms[m] = s]
            OBVIOUS
        <3>. QED BY <1>1, <2>2, <3>1, <3>2, ReplaceModelTimely
    <2>. HIDE DEF a
    <2>5. TimelyAuth(auth', now)
        BY <1>1, <2>3, <2>4, AggregateTimely
    <2>6. LadderEndAfter(m, k, h, auth.ms[m].quota, s.quota) \in Nat
        BY <1>1, <2>2 DEF LadderEndAfter, ModelState, Quota, Never
    <2>. QED BY <1>1, <1>5, <2>3, <2>5, <2>6
<1>8. ASSUME RecordAuthSuccess PROVE TimelyState'
    <2>1. TimelyAuth(SucceededAuth(auth), now)
        <3>. DEFINE s == SucceededAuth(auth)
        <3>1. /\ s \in Auth /\ s.retryAt = 0 /\ s.quota = NoQuota
              /\ s.ms = auth.ms
            BY <1>2, EmptyRecords DEF Auth, SucceededAuth, Never
        <3>. HIDE DEF s
        <3>2. TimelyAuth(s, now)
            BY <1>1, <1>2, <1>3, <3>1, EmptyRecords DEF TimelyAuth, Timely
        <3>. QED BY <3>2 DEF s
    <2>2. /\ auth' = SucceededAuth(auth) /\ aggregated' \in BOOLEAN
          /\ UNCHANGED <<now, cooling, clearing, ladderEnd>>
        BY <1>8, Zenon DEF RecordAuthSuccess
    <2>3. TimelyAuth(auth', now)
        BY <2>1, <2>2
    <2>. QED BY <1>1, <1>5, <2>2, <2>3
<1>9. ASSUME NEW k \in Kinds, NEW h \in HintsFor(k), RecordAuthFailure(k, h)
      PROVE  TimelyState'
    <2>1. h \in Hints \cup {NoHint}
        BY DEF HintsFor
    <2>2. TimelyAuth(FailedAuth(auth, k, h, cooling, now), now)
        BY <1>1, <2>1, FailedAuthTimely
    <2>3. /\ auth' = FailedAuth(auth, k, h, cooling, now)
          /\ aggregated' \in BOOLEAN
          /\ UNCHANGED <<now, cooling, clearing, ladderEnd>>
        BY <1>9, Zenon DEF RecordAuthFailure
    <2>4. TimelyAuth(auth', now)
        BY <2>2, <2>3
    <2>. QED BY <1>1, <1>5, <2>3, <2>4
<1>10. ASSUME ResetQuota PROVE TimelyState'
    <2>. DEFINE f == [m \in Models |-> IF auth.ms[m].known THEN CleanState
                                                         ELSE AbsentState]
                a == ClearCooldown([auth EXCEPT !.ms = f], now)
    <2>1. TimelyAuth([auth EXCEPT !.ms = f], now)
        BY <1>1, <1>4, ReplaceModelsTimely
    <2>2. /\ auth' = a \/ auth' = Settled(a)
          /\ UNCHANGED <<now, cooling, clearing>> /\ aggregated' = TRUE
          /\ ladderEnd' \in [Models -> Nat]
        BY <1>10 DEF ResetQuota, Forget, Never
    <2>. HIDE DEF f
    <2>3. TimelyAuth(a, now)
        BY <1>1, <2>1, ClearCooldownTimely
    <2>. HIDE DEF a
    <2>. QED BY <1>1, <1>5, <2>2, <2>3, SettledTimely
<1>11. ASSUME NEW S \in SUBSET Models, Reconcile(S) PROVE TimelyState'
    <2>. DEFINE f == [m \in Models |-> IF m \in Known(auth) \cap S
                                      THEN CleanState ELSE AbsentState]
    <2>1. TimelyAuth([auth EXCEPT !.ms = f], now)
        BY <1>1, <1>4, ReplaceModelsTimely
    <2>2. /\ auth' = Settled(Aggregate([auth EXCEPT !.ms = f], now))
          /\ UNCHANGED <<now, cooling, clearing>> /\ aggregated' = TRUE
          /\ ladderEnd' \in [Models -> Nat]
        BY <1>11 DEF Reconcile, Forget, Never
    <2>. HIDE DEF f
    <2>3. TimelyAuth(auth', now)
        BY <1>1, <2>1, <2>2, AggregateTimely, SettledTimely
    <2>. QED BY <1>1, <1>5, <2>2, <2>3
<1>12. ASSUME NEW b \in BOOLEAN, StoreConfig(b) PROVE TimelyState'
    BY <1>1, <1>5, <1>12 DEF StoreConfig
<1>13. ASSUME ClearDisabledCooldownStates PROVE TimelyState'
    <2>1. TimelyAuth(ClearCooldown(auth, now), now)
        BY <1>1, ClearCooldownTimely
    <2>2. /\ UNCHANGED <<now, cooling>>
          /\ clearing' \in BOOLEAN /\ aggregated' \in BOOLEAN
          /\ \/ auth' = auth /\ ladderEnd' = ladderEnd
             \/ /\ auth' = ClearCooldown(auth, now)
                /\ ladderEnd' = [m \in Models |-> Never]
        BY <1>1, <1>13, Zenon DEF ClearDisabledCooldownStates, Forget
    <2>3. TimelyAuth(auth', now)
        BY <1>1, <2>1, <2>2
    <2>4. ladderEnd' \in [Models -> Nat]
        BY <1>1, <2>2 DEF Never
    <2>. QED BY <1>1, <1>5, <2>2, <2>3, <2>4
<1>14. ASSUME NEW b \in BOOLEAN, SetDisabled(b) PROVE TimelyState'
    <2>. DEFINE a == [auth EXCEPT !.disabled = b, !.failed = FALSE]
    <2>1. TimelyAuth(a, now)
        BY <1>1 DEF TimelyAuth, Auth, Timely
    <2>2. /\ auth' = a \/ auth' = ClearCooldown(a, now)
          /\ UNCHANGED <<now, cooling, clearing>>
          /\ ladderEnd' \in [Models -> Nat] /\ aggregated' \in BOOLEAN
        BY <1>1, <1>14 DEF SetDisabled, Forget, Never
    <2>. HIDE DEF a
    <2>3. TimelyAuth(auth', now)
        BY <1>1, <2>1, <2>2, ClearCooldownTimely
    <2>. QED BY <1>1, <1>5, <2>2, <2>3
<1>15. ASSUME Tick PROVE TimelyState'
    BY <1>1, <1>5, <1>15 DEF Tick
<1>16. ASSUME UNCHANGED conductorVars PROVE TimelyState'
    BY <1>1, <1>5, <1>16 DEF conductorVars
<1>. QED BY <1>6, <1>7, <1>8, <1>9, <1>10, <1>11, <1>12, <1>13, <1>14, <1>15, <1>16
         DEF ConductorNext, Results, Management

\* The state of the model is well typed in every behaviour: in particular no
\* result takes the backoff level above the top of the ladder.
THEOREM ConductorTypeCorrect == ConductorSpec => []ConductorTypeOK
<1>1. TimelyState => ConductorTypeOK
    BY DEF TimelyState
<1>. QED BY <1>1, TimelyInit, TimelyStep, PTL DEF ConductorSpec

\* Every block ends on its own: no deadline is ever further ahead than the
\* longest wait a single failure imposes.
THEOREM EveryBlockEnds == ConductorSpec => []BlocksEndInTime
<1>1. TimelyState => BlocksEndInTime
    BY DEF TimelyState, TimelyAuth, Timely, BlocksEndInTime
<1>. QED BY <1>1, TimelyInit, TimelyStep, PTL DEF ConductorSpec

-----------------------------------------------------------------------------
(* What the operations on a whole record do to the quota of one model.     *)

\* Aggregation touches no quota record and blocks no model.
LEMMA AggregateModels ==
    ASSUME NEW a \in Auth, NEW n, NEW m \in Models
    PROVE  /\ Aggregate(a, n).ms[m] = Expired(a.ms[m], n)
           /\ Aggregate(a, n).ms[m].quota = a.ms[m].quota
           /\ Aggregate(a, n).ms[m].unavailable => a.ms[m].unavailable
<1>1. Aggregate(a, n).ms[m] = Expired(a.ms[m], n)
    BY DEF Aggregate, Auth
<1>2. a.ms[m] \in ModelState
    BY DEF Auth
<1>. QED BY <1>1, <1>2 DEF Expired, ModelState

\* The tail of the operations touches no model.
LEMMA SettledModels ==
    ASSUME NEW a \in Auth
    PROVE  Settled(a).ms = a.ms
BY DEF Settled, Auth

\* The model is at the foot of the ladder and not blocked.
Rests(s) == s.quota = NoQuota /\ ~s.unavailable

\* Clearing leaves a model's quota alone or takes all of it.
LEMMA ClearCooldownModels ==
    ASSUME NEW a \in Auth, NEW n, NEW m \in Models
    PROVE  LET s == ClearCooldown(a, n).ms[m]
           IN  \/ /\ s.quota = a.ms[m].quota
                  /\ s.unavailable => a.ms[m].unavailable
               \/ Rests(s)
<1>. DEFINE f == [l \in Models |-> Wiped(a.ms[l])]
            b == [Wiped(a) EXCEPT !.ms = f]
<1>1. \A l \in Models :
          /\ Wiped(a.ms[l]) \in ModelState
          /\ Wiped(a.ms[l]) = a.ms[l] \/ Rests(Wiped(a.ms[l]))
    BY EmptyRecords DEF Auth, ModelState, Wiped, Rests, Never
<1>2. f \in [Models -> ModelState] /\ f[m] = Wiped(a.ms[m])
    BY <1>1
<1>3. Wiped(a) \in Auth
    BY EmptyRecords DEF Auth, Wiped, Never
<1>4. ClearCooldown(a, n) = IF Known(a) = {} THEN b ELSE Aggregate(b, n)
    BY DEF ClearCooldown
<1>. HIDE DEF f
<1>5. b \in Auth /\ b.ms[m] = Wiped(a.ms[m])
    BY <1>2, <1>3 DEF Auth
<1>. HIDE DEF b
<1>6. /\ Aggregate(b, n).ms[m].quota = b.ms[m].quota
      /\ Aggregate(b, n).ms[m].unavailable => b.ms[m].unavailable
    BY <1>5, AggregateModels
<1>7. \/ ClearCooldown(a, n).ms[m] = b.ms[m]
      \/ ClearCooldown(a, n).ms[m] = Aggregate(b, n).ms[m]
    BY <1>4
<1>. QED BY <1>1, <1>5, <1>6, <1>7 DEF Rests

\* The quota r after a failure is no lower than q before it, untouched unless
\* the failure is one of quota, and in the same window while that is open.
Above(q, r, kind, hint, c, n) ==
    /\ r.level \in Nat /\ r.level >= q.level
    /\ kind \notin QuotaKinds => r = q
    /\ kind = "quota" /\ hint = NoHint /\ c /\ r.recoverAt # q.recoverAt
          => q.recoverAt <= n

\* A failure lowers no backoff level, and a window that is open stays.
LEMMA FailureClimbs ==
    ASSUME NEW s \in ModelState, NEW kind, NEW hint \in Hints \cup {NoHint},
           NEW n \in Nat, NEW c \in BOOLEAN
    PROVE  Above(s.quota, FailedModel(s, kind, hint, c, n).quota,
                 kind, hint, c, n)
<1>. DEFINE w == QuotaWindow(s.quota, kind, hint, c, n)
            x == NextQuotaCooldown(s.quota.level)
            f == [s EXCEPT !.known = TRUE, !.failed = TRUE, !.unavailable = TRUE]
<1>1. /\ s.quota.level \in 0..LadderTop /\ s.quota.recoverAt \in Nat
      /\ LadderTop \in Nat
    BY LadderAssumption DEF LadderAssumption, ModelState, Quota
<1>2. x.level \in Nat /\ x.level >= s.quota.level
    BY <1>1 DEF NextQuotaCooldown
<1>3. f \in ModelState /\ f.quota = s.quota
    BY DEF ModelState
<1>. HIDE DEF x, f
<1>4. w.level \in Nat /\ w.level >= s.quota.level
    BY <1>1, <1>2 DEF QuotaWindow, NextCloudflareCooldown,
       QuotaCooldownAfterFailure, x
<1>5. ASSUME kind = "quota", hint = NoHint, c, w.at # s.quota.recoverAt
      PROVE  s.quota.recoverAt <= n
    BY <1>1, <1>5 DEF QuotaWindow, QuotaCooldownAfterFailure
<1>. HIDE DEF w
<1>6. CASE kind \in QuotaKinds
    <2>1. FailedModel(s, kind, hint, c, n) = Limited(f, w)
        BY <1>6 DEF FailedModel, QuotaKinds, FixedKinds, f, w
    <2>2. /\ Limited(f, w).quota.level = w.level
          /\ Limited(f, w).quota.recoverAt = w.at
        BY <1>3 DEF Limited, ModelState
    <2>. QED BY <1>4, <1>5, <1>6, <2>1, <2>2 DEF Above
<1>7. CASE kind \notin QuotaKinds
    <2>1. \E t \in {FixedDeadline(kind, c, n), n + MissingWait, Never} :
              FailedModel(s, kind, hint, c, n) = [f EXCEPT !.retryAt = t]
        BY <1>7 DEF FailedModel, f
    <2>2. FailedModel(s, kind, hint, c, n).quota = s.quota
        BY <1>3, <2>1 DEF ModelState
    <2>. QED BY <1>1, <1>7, <2>2 DEF QuotaKinds, Above
<1>. QED BY <1>6, <1>7

-----------------------------------------------------------------------------
(* What one step does to the ladder of one model.                          *)

\* The quota is untouched, and the last window is remembered or forgotten.
Kept(m) ==
    /\ auth'.ms[m].quota = auth.ms[m].quota
    /\ ladderEnd'[m] \in {ladderEnd[m], Never}

\* The model is reset.
Grounded(m) == Rests(auth'.ms[m]) /\ ladderEnd'[m] = Never

\* A failure moved the window or the level, upwards.
Climbed(m) ==
    /\ auth'.ms[m].quota.level \in Nat
    /\ auth'.ms[m].quota.level >= auth.ms[m].quota.level
    /\ \/ ladderEnd'[m] = Never
       \/ /\ ladderEnd'[m] = ladderEnd[m]
          /\ auth'.ms[m].quota.recoverAt = auth.ms[m].quota.recoverAt
       \/ /\ ladderEnd'[m] = auth'.ms[m].quota.recoverAt
          /\ auth.ms[m].quota.recoverAt <= now

Moves == \A m \in Models : Kept(m) \/ Grounded(m) \/ Climbed(m)

\* A success resets its model and leaves the others alone.
LEMMA SuccessMoves ==
    ASSUME TimelyState, NEW m \in Models, RecordSuccess(m)
    PROVE  Moves
<1>. DEFINE a == [auth EXCEPT !.ms[m] = CleanState]
<1>1. auth \in Auth /\ ladderEnd \in [Models -> Nat]
    BY DEF TimelyState, ConductorTypeOK
<1>2. /\ a \in Auth /\ a.ms[m] = CleanState
      /\ \A l \in Models \ {m} : a.ms[l] = auth.ms[l]
    BY <1>1, EmptyRecords DEF Auth
<1>3. /\ auth' = Settled(Aggregate(a, now))
      /\ ladderEnd' = [ladderEnd EXCEPT ![m] = Never]
    BY DEF RecordSuccess
<1>. HIDE DEF a
<1>4. TimelyAuth(Aggregate(a, now), now)
    <2>1. /\ now \in Nat /\ LongestWait \in Nat /\ TimelyAuth(auth, now)
        BY WaitAssumption DEF TimelyState, ConductorTypeOK, WaitAssumption
    <2>2. Timely(CleanState, now)
        BY <2>1, EmptyRecords DEF Timely
    <2>3. TimelyAuth(a, now)
        BY <2>1, <2>2, EmptyRecords, ReplaceModelTimely DEF a
    <2>. QED BY <2>1, <2>3, AggregateTimely
<1>5. auth'.ms = Aggregate(a, now).ms
    BY <1>3, <1>4, SettledModels DEF TimelyAuth
<1>6. ~CleanState.unavailable
    BY DEF CleanState, AbsentState
<1>7. Grounded(m)
    BY <1>1, <1>2, <1>3, <1>5, <1>6, AggregateModels, EmptyRecords
    DEF Grounded, Rests
<1>8. \A l \in Models \ {m} : Kept(l)
    BY <1>1, <1>2, <1>3, <1>5, AggregateModels DEF Kept
<1>. QED BY <1>7, <1>8 DEF Moves

\* A failure lets its model climb and leaves the others alone.
LEMMA FailureMoves ==
    ASSUME TimelyState, NEW m \in Models, NEW k \in Kinds,
           NEW h \in HintsFor(k), RecordFailure(m, k, h)
    PROVE  Moves
<1>. DEFINE s == FailedModel(auth.ms[m], k, h, cooling, now)
            q == auth.ms[m].quota
            a == [auth EXCEPT !.failed = TRUE, !.ms[m] = s]
<1>1. /\ auth \in Auth /\ ladderEnd \in [Models -> Nat] /\ now \in Nat
      /\ cooling \in BOOLEAN /\ h \in Hints \cup {NoHint}
      /\ auth.ms[m] \in ModelState /\ Timely(auth.ms[m], now)
    BY DEF TimelyState, ConductorTypeOK, TimelyAuth, Auth, HintsFor
<1>2. s \in ModelState
    BY <1>1, FailedModelTimely
<1>3. Above(q, s.quota, k, h, cooling, now)
    BY <1>1, FailureClimbs
<1>4. /\ auth' = Aggregate(a, now)
      /\ ladderEnd' = [ladderEnd EXCEPT
             ![m] = LadderEndAfter(m, k, h, q, s.quota)]
    BY DEF RecordFailure
<1>. HIDE DEF s
<1>5. /\ a \in Auth /\ a.ms[m] = s
      /\ \A l \in Models \ {m} : a.ms[l] = auth.ms[l]
    BY <1>1, <1>2 DEF Auth
<1>. HIDE DEF a
<1>6. \A l \in Models : auth'.ms[l].quota = a.ms[l].quota
    BY <1>4, <1>5, AggregateModels
<1>7. Climbed(m) \/ Kept(m)
    <2>1. /\ auth'.ms[m].quota = s.quota
          /\ ladderEnd'[m] = LadderEndAfter(m, k, h, q, s.quota)
        BY <1>1, <1>4, <1>5, <1>6
    <2>2. CASE k \notin QuotaKinds
        BY <1>3, <2>1, <2>2 DEF LadderEndAfter, Kept, Above
    <2>3. CASE k = "quota" /\ h = NoHint /\ cooling
        BY <1>3, <2>1, <2>3 DEF Above, LadderEndAfter, Climbed, QuotaKinds
    <2>4. CASE k \in QuotaKinds /\ ~(k = "quota" /\ h = NoHint /\ cooling)
        BY <1>3, <2>1, <2>4 DEF Above, LadderEndAfter, Climbed
    <2>. QED BY <2>2, <2>3, <2>4
<1>8. \A l \in Models \ {m} : Kept(l)
    BY <1>1, <1>4, <1>5, <1>6 DEF Kept
<1>. QED BY <1>7, <1>8 DEF Moves

\* Clearing grounds a model or leaves it alone.
LEMMA ClearingMoves ==
    ASSUME TimelyState, NEW a \in Auth, a.ms = auth.ms,
           auth' = ClearCooldown(a, now), Forget
    PROVE  Moves
<1>1. \A m \in Models : ladderEnd'[m] = Never
    BY DEF Forget
<1>2. \A m \in Models : \/ auth'.ms[m].quota = auth.ms[m].quota
                        \/ Rests(auth'.ms[m])
    BY ClearCooldownModels
<1>. QED BY <1>1, <1>2 DEF Moves, Kept, Grounded

\* A step that touches neither the models nor the history.
LEMMA StillMoves ==
    ASSUME auth'.ms = auth.ms, ladderEnd' = ladderEnd
    PROVE  Moves
BY DEF Moves, Kept

\* Replacing the states by empty ones grounds every model.
LEMMA ResetMoves ==
    ASSUME NEW f \in [Models -> {CleanState, AbsentState}],
           \A m \in Models : \/ /\ auth'.ms[m].quota = f[m].quota
                                /\ auth'.ms[m].unavailable => f[m].unavailable
                             \/ Rests(auth'.ms[m]),
           Forget
    PROVE  Moves
<1>1. ~CleanState.unavailable /\ ~AbsentState.unavailable
    BY DEF CleanState, AbsentState
<1>2. \A m \in Models : ladderEnd'[m] = Never
    BY DEF Forget
<1>3. \A m \in Models : f[m] = CleanState \/ f[m] = AbsentState
    OBVIOUS
<1>. QED BY <1>1, <1>2, <1>3, EmptyRecords DEF Moves, Grounded, Rests

\* The operator's reset grounds every model.
LEMMA ResetQuotaMoves ==
    ASSUME TimelyState, ResetQuota
    PROVE  Moves
<1>. DEFINE f == [m \in Models |-> IF auth.ms[m].known THEN CleanState
                                                       ELSE AbsentState]
            a == [auth EXCEPT !.ms = f]
            b == ClearCooldown(a, now)
<1>1. /\ now \in Nat /\ LongestWait \in Nat /\ TimelyAuth(auth, now)
      /\ auth \in Auth
    BY WaitAssumption DEF TimelyState, ConductorTypeOK, WaitAssumption
<1>2. /\ f \in [Models -> {CleanState, AbsentState}]
      /\ f \in [Models -> ModelState]
      /\ \A m \in Models : Timely(f[m], now)
    BY <1>1, EmptyRecords DEF Timely
<1>3. (auth' = b \/ auth' = Settled(b)) /\ Forget
    BY DEF ResetQuota
<1>. HIDE DEF f
<1>4. TimelyAuth(a, now) /\ a \in Auth /\ a.ms = f
    BY <1>1, <1>2, ReplaceModelsTimely DEF TimelyAuth, Auth
<1>. HIDE DEF a
<1>5. b \in Auth
    BY <1>1, <1>4, ClearCooldownTimely DEF TimelyAuth
<1>6. auth'.ms = b.ms
    BY <1>3, <1>5, SettledModels
<1>7. \A m \in Models : \/ /\ b.ms[m].quota = f[m].quota
                           /\ b.ms[m].unavailable => f[m].unavailable
                        \/ Rests(b.ms[m])
    BY <1>4, ClearCooldownModels
<1>. HIDE DEF b
<1>. QED BY <1>2, <1>3, <1>6, <1>7, ResetMoves

\* So does the reconciliation with the registry.
LEMMA ReconcileMoves ==
    ASSUME TimelyState, NEW S \in SUBSET Models, Reconcile(S)
    PROVE  Moves
<1>. DEFINE f == [m \in Models |-> IF m \in Known(auth) \cap S
                                   THEN CleanState ELSE AbsentState]
            a == [auth EXCEPT !.ms = f]
            b == Aggregate(a, now)
<1>1. /\ now \in Nat /\ LongestWait \in Nat /\ TimelyAuth(auth, now)
      /\ auth \in Auth
    BY WaitAssumption DEF TimelyState, ConductorTypeOK, WaitAssumption
<1>2. /\ f \in [Models -> {CleanState, AbsentState}]
      /\ f \in [Models -> ModelState]
      /\ \A m \in Models : Timely(f[m], now)
    BY <1>1, EmptyRecords DEF Timely
<1>3. auth' = Settled(b) /\ Forget
    BY DEF Reconcile
<1>. HIDE DEF f
<1>4. TimelyAuth(a, now) /\ a \in Auth /\ a.ms = f
    BY <1>1, <1>2, ReplaceModelsTimely DEF TimelyAuth, Auth
<1>. HIDE DEF a
<1>5. b \in Auth
    BY <1>1, <1>4, AggregateTimely DEF TimelyAuth
<1>6. auth'.ms = b.ms
    BY <1>3, <1>5, SettledModels
<1>7. \A m \in Models : /\ b.ms[m].quota = f[m].quota
                        /\ b.ms[m].unavailable => f[m].unavailable
    BY <1>4, AggregateModels
<1>. HIDE DEF b
<1>. QED BY <1>2, <1>3, <1>6, <1>7, ResetMoves

\* A result that names no model changes no model.
LEMMA AuthResultMoves ==
    ASSUME TimelyState,
           \/ RecordAuthSuccess
           \/ \E k \in Kinds : \E h \in HintsFor(k) : RecordAuthFailure(k, h)
    PROVE  Moves
<1>1. auth \in Auth
    BY DEF TimelyState, ConductorTypeOK
<1>2. SucceededAuth(auth).ms = auth.ms
    BY <1>1 DEF SucceededAuth, Auth
<1>3. \A k, h : FailedAuth(auth, k, h, cooling, now).ms = auth.ms
    BY <1>1 DEF FailedAuth, Limited, Auth
<1>. QED BY <1>2, <1>3, StillMoves DEF RecordAuthSuccess, RecordAuthFailure

\* Every step moves every model in one of the three ways.
LEMMA EveryStepMoves ==
    ASSUME TimelyState, [ConductorNext]_conductorVars
    PROVE  Moves
<1>1. auth \in Auth
    BY DEF TimelyState, ConductorTypeOK
<1>2. CASE Results
    BY <1>2, SuccessMoves, FailureMoves, AuthResultMoves DEF Results
<1>3. ASSUME NEW b \in BOOLEAN, StoreConfig(b) PROVE Moves
    BY <1>3, StillMoves DEF StoreConfig
<1>4. ASSUME ClearDisabledCooldownStates PROVE Moves
    BY <1>1, <1>4, StillMoves, ClearingMoves DEF ClearDisabledCooldownStates
<1>5. ASSUME NEW b \in BOOLEAN, SetDisabled(b) PROVE Moves
    <2>. DEFINE a == [auth EXCEPT !.disabled = b, !.failed = FALSE]
    <2>1. a \in Auth /\ a.ms = auth.ms
        BY <1>1 DEF Auth
    <2>2. \/ auth' = a /\ UNCHANGED ladderEnd
          \/ auth' = ClearCooldown(a, now) /\ Forget
        BY <1>5 DEF SetDisabled
    <2>. HIDE DEF a
    <2>. QED BY <2>1, <2>2, StillMoves, ClearingMoves
<1>6. CASE Tick \/ UNCHANGED conductorVars
    BY <1>6, StillMoves DEF Tick, conductorVars
<1>. QED BY <1>2, <1>3, <1>4, <1>5, <1>6, ResetQuotaMoves, ReconcileMoves
         DEF ConductorNext, Management

-----------------------------------------------------------------------------
(* The two properties of the ladder.                                       *)

\* The window that the history remembers is the one the model has.
WindowRemembered ==
    \A m \in Models :
        ladderEnd[m] # Never => ladderEnd[m] = auth.ms[m].quota.recoverAt

LadderInv == TimelyState /\ WindowRemembered

\* It holds at the start and every step preserves it.
LEMMA LadderInductive ==
    /\ ConductorInit => LadderInv
    /\ LadderInv /\ [ConductorNext]_conductorVars => LadderInv'
<1>1. ConductorInit => WindowRemembered
    BY DEF ConductorInit, WindowRemembered
<1>2. ASSUME LadderInv, [ConductorNext]_conductorVars
      PROVE  WindowRemembered'
    <2>1. Moves
        BY <1>2, EveryStepMoves DEF LadderInv
    <2>. QED BY <1>2, <2>1 DEF LadderInv, WindowRemembered, Moves, Kept,
                              Grounded, Climbed
<1>. QED BY <1>1, <1>2, TimelyInit, TimelyStep DEF LadderInv

\* A burst of failures climbs the ladder once: whatever else happens to the
\* credential, a ladder window opens only after the one before it has ended.
THEOREM OneWindowAtATime == ConductorSpec => WindowsDoNotOverlap
<1>. DEFINE OneWindow ==
        \A m \in Models :
            ladderEnd'[m] # ladderEnd[m] /\ ladderEnd'[m] # Never
               => ladderEnd[m] <= now
<1>1. LadderInv /\ [ConductorNext]_conductorVars => [OneWindow]_conductorVars
    <2>. SUFFICES ASSUME LadderInv, [ConductorNext]_conductorVars
                  PROVE  OneWindow
        OBVIOUS
    <2>1. Moves /\ WindowRemembered /\ now \in Nat
        BY EveryStepMoves DEF LadderInv, TimelyState, ConductorTypeOK
    <2>. QED BY <2>1 DEF Moves, Kept, Grounded, Climbed, WindowRemembered, Never
<1>. QED BY <1>1, LadderInductive, PTL DEF ConductorSpec, WindowsDoNotOverlap

\* The ladder is left only at its foot, and only by a model that is not
\* blocked.
THEOREM LadderLeftAtFoot == ConductorSpec => LadderFallsToGround
<1>. DEFINE Falls ==
        \A m \in Models :
            auth'.ms[m].quota.level < auth.ms[m].quota.level
               => auth'.ms[m].quota.level = 0 /\ ~ModelBlocked(m)'
<1>1. TimelyState /\ [ConductorNext]_conductorVars => [Falls]_conductorVars
    <2>. SUFFICES ASSUME TimelyState, [ConductorNext]_conductorVars
                  PROVE  Falls
        OBVIOUS
    <2>1. Moves
        BY EveryStepMoves
    <2>2. \A m \in Models : auth.ms[m].quota.level \in Nat
        BY LadderAssumption
        DEF LadderAssumption, TimelyState, ConductorTypeOK, Auth, ModelState, Quota
    <2>. QED BY <2>1, <2>2, EmptyRecords DEF Moves, Kept, Grounded, Climbed,
                Rests, ModelBlocked, Cooling
<1>. QED BY <1>1, TimelyInit, TimelyStep, PTL DEF ConductorSpec, LadderFallsToGround

-----------------------------------------------------------------------------
(* Records whose parts fit together.                                       *)

\* A model without an entry has nothing, and a backoff level is kept only
\* with the quota that raised it.
Tidy(a) ==
    \A m \in Models : /\ ~a.ms[m].known => a.ms[m] = AbsentState
                      /\ a.ms[m].quota.level # 0 => a.ms[m].quota.exceeded

Open(a, n) == a.unavailable /\ a.retryAt > n

AllCooling(a, n) == Known(a) # {} /\ \A m \in Known(a) : Cooling(a.ms[m], n)

\* The credential's own record covers the quotas of its models.
QuotaCovers(a) ==
    \A m \in Models : /\ a.ms[m].quota.exceeded => a.quota.exceeded
                      /\ a.ms[m].quota.level <= a.quota.level

\* From instant n on the credential is blocked exactly while its models are.
Mirrors(a, n) ==
    /\ \A t \in Nat : t >= n => (Open(a, t) <=> AllCooling(a, t))
    /\ QuotaCovers(a)

\* The empty states are tidy.
LEMMA EmptyTidy ==
    /\ ~AbsentState.known /\ ~AbsentState.unavailable
    /\ CleanState.known /\ ~CleanState.unavailable
    /\ NoQuota.level = 0 /\ ~NoQuota.exceeded
BY DEF AbsentState, CleanState, NoQuota

\* Aggregation keeps the states tidy.
LEMMA AggregateTidy ==
    ASSUME NEW a \in Auth, NEW n \in Nat, Tidy(a)
    PROVE  Tidy(Aggregate(a, n)) /\ Known(Aggregate(a, n)) = Known(a)
<1>. DEFINE b == Aggregate(a, n)
<1>1. \A m \in Models : b.ms[m] = Expired(a.ms[m], n) /\ a.ms[m] \in ModelState
    BY AggregateModels DEF Auth
<1>. HIDE DEF b
<1>2. \A m \in Models : /\ b.ms[m].quota = a.ms[m].quota
                        /\ b.ms[m].known = a.ms[m].known
                        /\ ~a.ms[m].unavailable => b.ms[m] = a.ms[m]
    BY <1>1 DEF Expired, ModelState
<1>3. Tidy(b)
    BY <1>2, EmptyTidy DEF Tidy
<1>4. Known(b) = Known(a)
    BY <1>2 DEF Known
<1>. QED BY <1>3, <1>4 DEF b

\* The aggregated quota covers the quotas it was aggregated over.
LEMMA AggregateQuotaCovers ==
    ASSUME NEW a \in Auth, Tidy(a), NEW m \in Models
    PROVE  /\ a.ms[m].quota.exceeded => AggregateQuota(a.ms).exceeded
           /\ a.ms[m].quota.level <= AggregateQuota(a.ms).level
<1>. DEFINE over == {l \in Models : a.ms[l].known /\ a.ms[l].quota.exceeded}
            L == {a.ms[l].quota.level : l \in over}
<1>1. /\ \A l \in Models : a.ms[l].quota.level \in 0..LadderTop
      /\ LadderTop \in Nat
    BY LadderAssumption DEF LadderAssumption, Auth, ModelState, Quota
<1>2. m \notin over => ~a.ms[m].quota.exceeded /\ a.ms[m].quota.level = 0
    BY EmptyTidy, EmptyRecords DEF Tidy
<1>3. CASE over = {}
    <2>1. AggregateQuota(a.ms) = NoQuota
        BY <1>3 DEF AggregateQuota
    <2>. QED BY <1>2, <1>3, <2>1, EmptyTidy
<1>4. CASE over # {}
    <2>1. L \in SUBSET (0..LadderTop) /\ L # {}
        BY <1>1, <1>4
    <2>2. AggregateQuota(a.ms).exceeded /\ AggregateQuota(a.ms).level = Highest(L)
        BY <1>4 DEF AggregateQuota
    <2>3. m \in over => a.ms[m].quota.level \in L
        OBVIOUS
    <2>. DEFINE q == AggregateQuota(a.ms)
    <2>. HIDE DEF over, L, q
    <2>4. Highest(L) \in L /\ \A l \in L : l <= Highest(L)
        BY <2>1, HighestIsMember
    <2>5. a.ms[m].quota.level <= q.level
        <3>1. a.ms[m].quota.level = 0 \/ a.ms[m].quota.level \in L
            BY <1>2, <2>3
        <3>2. q.level >= 0
            <4>1. Highest(L) \in 0..LadderTop
                BY <2>1, <2>4
            <4>2. q.level = Highest(L)
                BY <2>2 DEF q
            <4>. HIDE DEF q
            <4>. QED BY <4>1, <4>2
        <3>3. \A l \in L : l <= q.level
            BY <2>2, <2>4 DEF q
        <3>4. CASE a.ms[m].quota.level = 0
            BY <3>2, <3>4
        <3>5. CASE a.ms[m].quota.level \in L
            BY <3>3, <3>5
        <3>. QED BY <3>1, <3>4, <3>5
    <2>. QED BY <2>2, <2>5 DEF q
<1>. QED BY <1>3, <1>4

\* After the aggregation the credential mirrors its models, and goes on to
\* while the clock advances.
LEMMA AggregateMirrors ==
    ASSUME NEW a \in Auth, NEW n \in Nat, Tidy(a), TimelyAuth(a, n)
    PROVE  Mirrors(Aggregate(a, n), n)
<1>. DEFINE b == Aggregate(a, n)
            T == {b.ms[m].retryAt : m \in Known(a)}
<1>1. TimelyAuth(b, n)
    BY AggregateTimely
<1>2. Tidy(b) /\ Known(b) = Known(a)
    BY AggregateTidy
<1>3. /\ b.unavailable = AllCooling(b, n)
      /\ b.retryAt = IF AllCooling(b, n) THEN Earliest(T) ELSE Never
      /\ b.quota = AggregateQuota(b.ms)
    <2>. DEFINE ms == [m \in Models |-> Expired(a.ms[m], n)]
                all == Known(a) # {} /\ \A m \in Known(a) : Cooling(ms[m], n)
                r == IF all THEN Earliest({ms[m].retryAt : m \in Known(a)})
                            ELSE Never
    <2>1. b = [a EXCEPT !.ms = ms, !.unavailable = all, !.retryAt = r,
                        !.quota = AggregateQuota(ms)]
        BY DEF Aggregate
    <2>. HIDE DEF ms, all, r, b
    <2>2. /\ b.ms = ms /\ b.unavailable = all /\ b.retryAt = r
          /\ b.quota = AggregateQuota(ms)
        BY <2>1 DEF Auth
    <2>3. all = AllCooling(b, n)
        BY <1>2, <2>2, Zenon DEF AllCooling, all
    <2>. QED BY <2>2, <2>3 DEF r
<1>. HIDE DEF b
<1>4. b \in Auth /\ \A m \in Models : b.ms[m].retryAt \in Nat
    BY <1>1 DEF TimelyAuth, Auth, ModelState
<1>5. T \in SUBSET Nat
    BY <1>4 DEF Known
<1>6. ASSUME NEW t \in Nat, t >= n PROVE Open(b, t) <=> AllCooling(b, t)
    <2>1. CASE ~AllCooling(b, n)
        <3>1. ~AllCooling(b, t)
            BY <1>4, <1>6, <2>1 DEF AllCooling, Cooling, Known
        <3>. QED BY <1>3, <2>1, <3>1 DEF Open
    <2>2. CASE AllCooling(b, n)
        <3>1. /\ b.unavailable /\ b.retryAt = Earliest(T)
              /\ Known(b) # {}
              /\ \A m \in Known(b) : b.ms[m].unavailable /\ b.ms[m].retryAt > n
            BY <1>3, <2>2 DEF AllCooling, Cooling
        <3>2. \A m \in Known(b) : b.ms[m].retryAt \in T \ {Never}
            BY <1>2, <1>4, <3>1 DEF Known, Never
        <3>3. ~(T \subseteq {Never})
            BY <3>1, <3>2
        <3>. DEFINE e == Earliest(T)
        <3>4. e \in T /\ \A u \in T \ {Never} : e <= u
            <4>. HIDE DEF T
            <4>. QED BY <1>5, <3>3, EarliestIsMember
        <3>5. PICK m \in Known(b) : e = b.ms[m].retryAt
            BY <1>2, <3>4
        <3>. HIDE DEF e, T
        <3>6. Open(b, t) <=> e > t
            BY <3>1 DEF Open, e
        <3>7. AllCooling(b, t) <=> \A l \in Known(b) : b.ms[l].retryAt > t
            BY <3>1 DEF AllCooling, Cooling
        <3>8. \A l \in Known(b) : e <= b.ms[l].retryAt /\ b.ms[l].retryAt \in Nat
            BY <1>4, <3>2, <3>4 DEF Known
        <3>. QED BY <3>5, <3>6, <3>7, <3>8
    <2>. QED BY <2>1, <2>2
<1>7. QuotaCovers(b)
    BY <1>2, <1>3, <1>4, AggregateQuotaCovers DEF QuotaCovers
<1>. QED BY <1>6, <1>7 DEF Mirrors, b

\* Clearing keeps the states tidy and makes the credential mirror them.
LEMMA ClearCooldownMirrors ==
    ASSUME NEW a \in Auth, NEW n \in Nat, Tidy(a), TimelyAuth(a, n)
    PROVE  LET b == ClearCooldown(a, n) IN Tidy(b) /\ Mirrors(b, n)
<1>. DEFINE b == AllWiped(a)
<1>1. /\ b \in Auth /\ TimelyAuth(b, n)
      /\ \A m \in Models : b.ms[m] = Wiped(a.ms[m]) /\ a.ms[m] \in ModelState
    BY WipedTimely DEF TimelyAuth, Auth
<1>2. /\ ~b.unavailable
      /\ b.retryAt = Never
      /\ b.quota.level \in Nat
    <2>1. /\ b.unavailable = Wiped(a).unavailable
          /\ b.retryAt = Wiped(a).retryAt
        BY EmptyRecords DEF AllWiped, Wiped, Auth
    <2>2. b.quota.level \in Nat
        BY <1>1, LadderAssumption DEF LadderAssumption, Auth, Quota
    <2>. QED BY <2>1, <2>2 DEF Wiped, Dirty, Auth
<1>. HIDE DEF b
<1>3. ASSUME NEW m \in Models
      PROVE  /\ b.ms[m].known = a.ms[m].known
             /\ b.ms[m] = a.ms[m] \/ b.ms[m].quota = NoQuota
             /\ a.ms[m] = AbsentState => b.ms[m] = AbsentState
    <2>. DEFINE s == a.ms[m]
                e == [s EXCEPT !.unavailable = FALSE, !.retryAt = Never,
                               !.quota = NoQuota]
    <2>1. b.ms[m] = IF Dirty(s) THEN e ELSE s
        BY <1>1 DEF Wiped
    <2>2. s \in ModelState
        BY <1>1
    <2>. HIDE DEF s
    <2>3. e.known = s.known /\ e.quota = NoQuota
        BY <2>2 DEF ModelState
    <2>4. s = AbsentState => ~Dirty(s)
        BY DEF Dirty, AbsentState, NoQuota
    <2>. HIDE DEF e
    <2>. QED BY <2>1, <2>3, <2>4 DEF s
<1>4. Tidy(b) /\ Known(b) = Known(a)
    BY <1>3, EmptyTidy DEF Tidy, Known
<1>5. ClearCooldown(a, n) = IF Known(a) = {} THEN b ELSE Aggregate(b, n)
    BY DEF ClearCooldown, AllWiped, b
<1>6. CASE Known(a) # {}
    BY <1>1, <1>4, <1>5, <1>6, AggregateTidy, AggregateMirrors
<1>7. CASE Known(a) = {}
    <2>1. \A m \in Models : b.ms[m] = AbsentState
        BY <1>4, <1>7 DEF Known, Tidy
    <2>2. QuotaCovers(b)
        BY <1>2, <2>1, EmptyTidy, EmptyRecords DEF QuotaCovers
    <2>3. \A t \in Nat : ~Open(b, t) /\ ~AllCooling(b, t)
        BY <1>2, <1>4, <1>7 DEF Open, AllCooling
    <2>. QED BY <1>4, <1>5, <1>7, <2>2, <2>3 DEF Mirrors
<1>. QED BY <1>6, <1>7

\* Two records that differ at most in their flags disabled and failed.
SameView(a, b) ==
    /\ a.unavailable = b.unavailable /\ a.retryAt = b.retryAt
    /\ a.quota = b.quota /\ a.ms = b.ms

\* These flags matter to none of the facts above.
LEMMA SameViewSame ==
    ASSUME NEW a, NEW b, NEW n, SameView(a, b)
    PROVE  /\ Tidy(a) => Tidy(b)
           /\ Mirrors(a, n) => Mirrors(b, n)
BY DEF SameView, Tidy, Mirrors, Open, AllCooling, Known, QuotaCovers

\* The tail of the operations changes only the flag failed.
LEMMA SettledView ==
    ASSUME NEW a \in Auth
    PROVE  SameView(a, Settled(a))
BY DEF Settled, SameView, Auth

-----------------------------------------------------------------------------
(* The availability that is shown is the one of the models.                *)

MirrorInv == TimelyState /\ Tidy(auth) /\ (aggregated => Mirrors(auth, now))

\* A result for a model leads to a tidy record and its aggregate.
LEMMA TidyFailure ==
    ASSUME NEW s \in ModelState, NEW kind, NEW hint, NEW c, NEW n,
           s.quota.level # 0 => s.quota.exceeded
    PROVE  LET r == FailedModel(s, kind, hint, c, n)
           IN  r.known /\ (r.quota.level # 0 => r.quota.exceeded)
<1>. DEFINE w == QuotaWindow(s.quota, kind, hint, c, n)
            f == [s EXCEPT !.known = TRUE, !.failed = TRUE, !.unavailable = TRUE]
<1>1. f \in ModelState /\ f.quota = s.quota /\ f.known
    BY DEF ModelState
<1>. HIDE DEF w, f
<1>2. CASE kind \in QuotaKinds
    <2>1. FailedModel(s, kind, hint, c, n) = Limited(f, w)
        BY <1>2 DEF FailedModel, QuotaKinds, FixedKinds, f, w
    <2>. QED BY <1>1, <2>1 DEF Limited, ModelState
<1>3. CASE kind \notin QuotaKinds
    <2>1. \E t \in {FixedDeadline(kind, c, n), n + MissingWait, Never} :
              FailedModel(s, kind, hint, c, n) = [f EXCEPT !.retryAt = t]
        BY <1>3 DEF FailedModel, f
    <2>. QED BY <1>1, <2>1 DEF ModelState
<1>. QED BY <1>2, <1>3

\* One model's state is replaced by a known and tidy one, then aggregated.
LEMMA MirrorResult ==
    ASSUME MirrorInv, TimelyState', UNCHANGED now, NEW m \in Models,
           NEW s \in ModelState, Timely(s, now), s.known,
           s.quota.level # 0 => s.quota.exceeded,
           NEW f \in BOOLEAN,
           LET b == Aggregate([auth EXCEPT !.failed = f, !.ms[m] = s], now)
           IN  auth' = b \/ auth' = Settled(b)
    PROVE  MirrorInv'
<1>. DEFINE a == [auth EXCEPT !.failed = f, !.ms[m] = s]
            b == Aggregate(a, now)
<1>1. /\ now \in Nat /\ TimelyAuth(auth, now) /\ auth \in Auth /\ Tidy(auth)
    BY DEF MirrorInv, TimelyState, ConductorTypeOK
<1>2. /\ a \in Auth /\ a.ms[m] = s
      /\ \A l \in Models \ {m} : a.ms[l] = auth.ms[l]
    BY <1>1 DEF Auth
<1>3. TimelyAuth(a, now)
    <2>1. Timely(a, now)
        BY <1>1 DEF TimelyAuth, Auth, Timely
    <2>. QED BY <1>1, <1>2, <2>1 DEF TimelyAuth
<1>. HIDE DEF a
<1>4. Tidy(a)
    BY <1>1, <1>2 DEF Tidy
<1>5. b \in Auth /\ Tidy(b) /\ Mirrors(b, now)
    BY <1>1, <1>2, <1>3, <1>4, AggregateTidy, AggregateMirrors, AggregateTimely
    DEF TimelyAuth
<1>6. auth' = b \/ auth' = Settled(b)
    BY DEF a
<1>. HIDE DEF b
<1>7. Tidy(auth') /\ Mirrors(auth', now)
    BY <1>5, <1>6, SettledView, SameViewSame
<1>8. Tidy(auth)' /\ Mirrors(auth, now)'
    BY <1>7
<1>. QED BY <1>8 DEF MirrorInv

\* The record is replaced by one that is tidy and mirrors its models.
LEMMA MirrorReplace ==
    ASSUME MirrorInv, TimelyState', UNCHANGED now,
           NEW b \in Auth, Tidy(b), Mirrors(b, now),
           auth' = b \/ auth' = Settled(b)
    PROVE  MirrorInv'
<1>1. Tidy(auth') /\ Mirrors(auth', now)
    BY SettledView, SameViewSame
<1>2. Tidy(auth)' /\ Mirrors(auth, now)'
    BY <1>1
<1>. QED BY <1>2 DEF MirrorInv

\* The models are replaced by empty states: the record stays tidy.
LEMMA EmptiedTidy ==
    ASSUME NEW a \in Auth, NEW n \in Nat, TimelyAuth(a, n),
           NEW f \in [Models -> {CleanState, AbsentState}]
    PROVE  LET b == [a EXCEPT !.ms = f]
           IN  b \in Auth /\ Tidy(b) /\ TimelyAuth(b, n)
<1>1. /\ f \in [Models -> ModelState]
      /\ \A m \in Models : f[m] = CleanState \/ f[m] = AbsentState
    BY EmptyRecords
<1>2. \A m \in Models : Timely(f[m], n)
    BY <1>1, EmptyRecords, WaitAssumption DEF Timely, WaitAssumption
<1>3. TimelyAuth([a EXCEPT !.ms = f], n) /\ [a EXCEPT !.ms = f].ms = f
    BY <1>1, <1>2, ReplaceModelsTimely DEF Auth
<1>. QED BY <1>1, <1>3, EmptyTidy, EmptyRecords DEF Tidy, TimelyAuth

\* Every operation leaves a record that its models agree with, or marks it as
\* written by a result without a model.
LEMMA MirrorStep == MirrorInv /\ [ConductorNext]_conductorVars => MirrorInv'
<1>. SUFFICES ASSUME MirrorInv, [ConductorNext]_conductorVars PROVE MirrorInv'
    OBVIOUS
<1>1. TimelyState /\ TimelyState'
    BY TimelyStep DEF MirrorInv
<1>2. /\ now \in Nat /\ TimelyAuth(auth, now) /\ auth \in Auth /\ Tidy(auth)
      /\ LongestWait \in Nat /\ cooling \in BOOLEAN
      /\ \A m \in Models : auth.ms[m] \in ModelState /\ Timely(auth.ms[m], now)
    BY WaitAssumption DEF MirrorInv, TimelyState, ConductorTypeOK, TimelyAuth,
                          WaitAssumption, Auth
<1>3. ASSUME NEW m \in Models, RecordSuccess(m) PROVE MirrorInv'
    <2>1. /\ CleanState \in ModelState /\ Timely(CleanState, now)
          /\ CleanState.known /\ CleanState.quota.level = 0
        BY <1>2, EmptyRecords, EmptyTidy DEF Timely
    <2>2. /\ [auth EXCEPT !.ms[m] = CleanState]
                = [auth EXCEPT !.failed = auth.failed, !.ms[m] = CleanState]
          /\ auth.failed \in BOOLEAN
        BY <1>2 DEF Auth
    <2>3. /\ auth' = Settled(Aggregate([auth EXCEPT !.failed = auth.failed,
                                                    !.ms[m] = CleanState], now))
          /\ UNCHANGED now
        BY <1>3, <2>2 DEF RecordSuccess
    <2>. QED BY <1>1, <2>1, <2>2, <2>3, MirrorResult
<1>4. ASSUME NEW m \in Models, NEW k \in Kinds, NEW h \in HintsFor(k),
             RecordFailure(m, k, h)
      PROVE  MirrorInv'
    <2>. DEFINE s == FailedModel(auth.ms[m], k, h, cooling, now)
    <2>1. h \in Hints \cup {NoHint}
        BY DEF HintsFor
    <2>2. s \in ModelState /\ Timely(s, now)
        BY <1>2, <2>1, FailedModelTimely
    <2>3. s.known /\ (s.quota.level # 0 => s.quota.exceeded)
        BY <1>2, TidyFailure DEF Tidy
    <2>4. /\ auth' = Aggregate([auth EXCEPT !.failed = TRUE, !.ms[m] = s], now)
          /\ UNCHANGED now
        BY <1>4 DEF RecordFailure
    <2>. HIDE DEF s
    <2>. QED BY <1>1, <2>2, <2>3, <2>4, MirrorResult
<1>5. ASSUME auth'.ms = auth.ms, aggregated' = FALSE PROVE MirrorInv'
    BY <1>1, <1>2, <1>5 DEF MirrorInv, Tidy
<1>6. ASSUME RecordAuthSuccess PROVE MirrorInv'
    <2>1. SucceededAuth(auth).ms = auth.ms
        BY <1>2 DEF SucceededAuth, Auth
    <2>. QED BY <1>5, <1>6, <2>1 DEF RecordAuthSuccess
<1>7. ASSUME NEW k \in Kinds, NEW h \in HintsFor(k), RecordAuthFailure(k, h)
      PROVE  MirrorInv'
    <2>1. FailedAuth(auth, k, h, cooling, now).ms = auth.ms
        BY <1>2 DEF FailedAuth, Limited, Auth
    <2>. QED BY <1>5, <1>7, <2>1 DEF RecordAuthFailure
<1>8. ASSUME ResetQuota PROVE MirrorInv'
    <2>. DEFINE f == [m \in Models |-> IF auth.ms[m].known THEN CleanState
                                                           ELSE AbsentState]
                a == [auth EXCEPT !.ms = f]
                b == ClearCooldown(a, now)
    <2>1. f \in [Models -> {CleanState, AbsentState}]
        OBVIOUS
    <2>2. UNCHANGED now /\ (auth' = b \/ auth' = Settled(b))
        BY <1>8 DEF ResetQuota
    <2>. HIDE DEF f
    <2>3. a \in Auth /\ Tidy(a) /\ TimelyAuth(a, now)
        BY <1>2, <2>1, EmptiedTidy
    <2>. HIDE DEF a
    <2>4. b \in Auth /\ Tidy(b) /\ Mirrors(b, now)
        BY <1>2, <2>3, ClearCooldownMirrors, ClearCooldownTimely DEF TimelyAuth
    <2>. HIDE DEF b
    <2>. QED BY <1>1, <2>2, <2>4, MirrorReplace
<1>9. ASSUME NEW S \in SUBSET Models, Reconcile(S) PROVE MirrorInv'
    <2>. DEFINE f == [m \in Models |-> IF m \in Known(auth) \cap S
                                       THEN CleanState ELSE AbsentState]
                a == [auth EXCEPT !.ms = f]
                b == Aggregate(a, now)
    <2>1. f \in [Models -> {CleanState, AbsentState}]
        OBVIOUS
    <2>2. UNCHANGED now /\ auth' = Settled(b)
        BY <1>9 DEF Reconcile
    <2>. HIDE DEF f
    <2>3. a \in Auth /\ Tidy(a) /\ TimelyAuth(a, now)
        BY <1>2, <2>1, EmptiedTidy
    <2>. HIDE DEF a
    <2>4. b \in Auth /\ Tidy(b) /\ Mirrors(b, now)
        BY <1>2, <2>3, AggregateTidy, AggregateMirrors, AggregateTimely
        DEF TimelyAuth
    <2>. HIDE DEF b
    <2>. QED BY <1>1, <2>2, <2>4, MirrorReplace
<1>10. ASSUME NEW a \in Auth, SameView(auth, a), auth' = ClearCooldown(a, now),
              UNCHANGED now
       PROVE  MirrorInv'
    <2>1. Tidy(a) /\ TimelyAuth(a, now)
        BY <1>2, <1>10, SameViewSame DEF SameView, TimelyAuth, Timely
    <2>. DEFINE b == ClearCooldown(a, now)
    <2>2. b \in Auth /\ Tidy(b) /\ Mirrors(b, now)
        BY <1>2, <2>1, ClearCooldownMirrors, ClearCooldownTimely DEF TimelyAuth
    <2>. HIDE DEF b
    <2>3. auth' = b
        BY <1>10 DEF b
    <2>. QED BY <1>1, <1>10, <2>2, <2>3, MirrorReplace
<1>11. ASSUME SameView(auth, auth'), aggregated' => aggregated,
              now' \in Nat, now <= now'
       PROVE  MirrorInv'
    <2>1. Tidy(auth)'
        BY <1>2, <1>11, SameViewSame
    <2>2. ASSUME aggregated' PROVE Mirrors(auth', now')
        <3>1. Mirrors(auth, now)
            BY <1>11, <2>2 DEF MirrorInv
        <3>2. Mirrors(auth, now')
            BY <1>2, <1>11, <3>1 DEF Mirrors
        <3>. QED BY <1>11, <3>2, SameViewSame
    <2>. QED BY <1>1, <2>1, <2>2 DEF MirrorInv
<1>12. ASSUME NEW b \in BOOLEAN, StoreConfig(b) PROVE MirrorInv'
    BY <1>2, <1>11, <1>12 DEF StoreConfig, SameView
<1>13. ASSUME ClearDisabledCooldownStates PROVE MirrorInv'
    BY <1>2, <1>10, <1>11, <1>13 DEF ClearDisabledCooldownStates, SameView
<1>14. ASSUME NEW d \in BOOLEAN, SetDisabled(d) PROVE MirrorInv'
    <2>. DEFINE a == [auth EXCEPT !.disabled = d, !.failed = FALSE]
    <2>1. a \in Auth /\ SameView(auth, a)
        BY <1>2 DEF Auth, SameView
    <2>2. /\ UNCHANGED now
          /\ \/ auth' = ClearCooldown(a, now)
             \/ auth' = a /\ (aggregated' => aggregated)
        BY <1>14 DEF SetDisabled
    <2>. HIDE DEF a
    <2>. QED BY <1>2, <1>10, <1>11, <2>1, <2>2
<1>15. ASSUME Tick \/ UNCHANGED conductorVars PROVE MirrorInv'
    BY <1>2, <1>11, <1>15 DEF Tick, conductorVars, SameView
<1>. QED BY <1>3, <1>4, <1>6, <1>7, <1>8, <1>9, <1>12, <1>13, <1>14, <1>15
         DEF ConductorNext, Results, Management

LEMMA MirrorInit == ConductorInit => MirrorInv
<1>. SUFFICES ASSUME ConductorInit PROVE MirrorInv
    OBVIOUS
<1>1. auth = FreshAuth
    BY DEF ConductorInit
<1>2. /\ ~auth.unavailable /\ Known(auth) = {} /\ auth.quota.level = 0
      /\ \A m \in Models : auth.ms[m] = AbsentState
    BY <1>1, EmptyRecords, EmptyTidy DEF FreshAuth, Known
<1>3. Tidy(auth) /\ Mirrors(auth, now)
    BY <1>2, EmptyRecords, EmptyTidy
    DEF Tidy, Mirrors, Open, AllCooling, QuotaCovers
<1>. QED BY <1>3, TimelyInit DEF MirrorInv

\* At every instant until the next result, also while deadlines elapse and no
\* code runs, the credential is shown as blocked exactly while every model it
\* has a state for is, and its quota record covers those of the models.
THEOREM AggregateIsTrue == ConductorSpec => []AggregateAgrees
<1>1. MirrorInv => AggregateAgrees
    BY DEF MirrorInv, TimelyState, ConductorTypeOK, Mirrors, QuotaCovers, Open,
           AllCooling, AggregateAgrees, AuthBlocked, ModelBlocked
<1>. QED BY <1>1, MirrorInit, MirrorStep, PTL DEF ConductorSpec

-----------------------------------------------------------------------------
(* Cooldowns disabled.                                                     *)

\* Only the deadlines of models in U lie ahead, and the credential waits only
\* while each of its models does, for the first of them.
OnlyRefused(a, n, U) ==
    /\ \A m \in Models : m \in U \/ a.ms[m].retryAt <= n
    /\ a.retryAt <= n \/ /\ Known(a) # {}
                         /\ \A m \in Known(a) : /\ a.ms[m].unavailable
                                                /\ a.retryAt <= a.ms[m].retryAt

\* The aggregate waits for no more than its models do.
LEMMA AggregateOnlyRefused ==
    ASSUME NEW a \in Auth, NEW n \in Nat, NEW U,
           \A m \in Models : m \in U \/ a.ms[m].retryAt <= n
    PROVE  OnlyRefused(Aggregate(a, n), n, U)
<1>. DEFINE ms  == [m \in Models |-> Expired(a.ms[m], n)]
            all == Known(a) # {} /\ \A m \in Known(a) : Cooling(ms[m], n)
            T   == {ms[m].retryAt : m \in Known(a)}
            r   == IF all THEN Earliest(T) ELSE Never
            b   == Aggregate(a, n)
<1>1. \A m \in Models : /\ ms[m].retryAt \in Nat /\ ms[m].known = a.ms[m].known
                        /\ m \in U \/ ms[m].retryAt <= n
    BY DEF Auth, ModelState, Expired, Never
<1>2. b = [a EXCEPT !.ms = ms, !.unavailable = all,
                    !.retryAt = r, !.quota = AggregateQuota(ms)]
    BY DEF Aggregate
<1>3. b.ms = ms /\ b.retryAt = r
    BY <1>2 DEF Auth
<1>4. Known(b) = Known(a)
    BY <1>1, <1>3 DEF Known
<1>5. ASSUME all
      PROVE  \A m \in Known(a) : ms[m].unavailable /\ r <= ms[m].retryAt
    <2>1. \A m \in Known(a) : /\ m \in Models /\ ms[m].unavailable
                              /\ ms[m].retryAt > n
        BY <1>5 DEF Cooling, Known
    <2>2. T \subseteq Nat
        BY <1>1, <2>1
    <2>3. \A m \in Known(a) : ms[m].retryAt \in T \ {Never}
        BY <1>1, <2>1 DEF Never
    <2>. HIDE DEF T
    <2>4. \A t \in T \ {Never} : Earliest(T) <= t
        BY <2>2, EarliestIsMember
    <2>. QED BY <1>5, <2>1, <2>3, <2>4
<1>6. all \/ r <= n
    BY DEF Never
<1>7. all => Known(a) # {}
    OBVIOUS
<1>. HIDE DEF ms, all, r, b
<1>8. OnlyRefused(b, n, U)
    BY <1>1, <1>3, <1>4, <1>5, <1>6, <1>7 DEF OnlyRefused
<1>. QED BY <1>8 DEF b

\* A record that is cleared waits for nothing.
LEMMA ClearCooldownElapsed ==
    ASSUME NEW a, NEW n \in Nat, TimelyAuth(a, n), NEW U
    PROVE  OnlyRefused(ClearCooldown(a, n), n, U)
<1>. DEFINE b == AllWiped(a)
<1>1. /\ b \in Auth
      /\ \A m \in Models : b.ms[m] = Wiped(a.ms[m]) /\ a.ms[m] \in ModelState
    BY WipedTimely DEF TimelyAuth, Auth
<1>2. \A m \in Models : b.ms[m].retryAt = 0
    BY <1>1 DEF Wiped, Dirty, ModelState, Never
<1>3. b.retryAt = 0
    <2>1. b.retryAt = Wiped(a).retryAt
        BY EmptyRecords DEF AllWiped, Wiped, Auth, TimelyAuth
    <2>. QED BY <2>1 DEF Wiped, Dirty, Auth, TimelyAuth, Never
<1>4. ClearCooldown(a, n) = IF Known(a) = {} THEN b ELSE Aggregate(b, n)
    BY DEF ClearCooldown, AllWiped
<1>. HIDE DEF b
<1>5. OnlyRefused(b, n, U)
    BY <1>2, <1>3 DEF OnlyRefused
<1>6. OnlyRefused(Aggregate(b, n), n, U)
    BY <1>1, <1>2, AggregateOnlyRefused
<1>. QED BY <1>4, <1>5, <1>6

\* With cooldowns disabled a failure of a model blocks nothing, unless it
\* says that the model is not supported.
LEMMA FailedModelElapsed ==
    ASSUME NEW s \in ModelState, NEW kind \in FailureKinds,
           kind # "model_not_supported", NEW hint, NEW n \in Nat
    PROVE  FailedModel(s, kind, hint, FALSE, n).retryAt = 0
<1>. DEFINE f == [s EXCEPT !.known = TRUE, !.failed = TRUE, !.unavailable = TRUE]
            w == QuotaWindow(s.quota, kind, hint, FALSE, n)
<1>1. f \in ModelState
    BY DEF ModelState
<1>2. w.at = 0 /\ FixedDeadline(kind, FALSE, n) = 0
    BY DEF QuotaWindow, FixedDeadline, Never
<1>. HIDE DEF f, w
<1>3. CASE kind \in QuotaKinds
    <2>1. FailedModel(s, kind, hint, FALSE, n) = Limited(f, w)
        BY <1>3 DEF FailedModel, QuotaKinds, FixedKinds, f, w
    <2>. QED BY <1>1, <1>2, <2>1 DEF Limited, ModelState
<1>4. CASE kind \notin QuotaKinds
    <2>1. \E t \in {FixedDeadline(kind, FALSE, n), Never} :
              FailedModel(s, kind, hint, FALSE, n) = [f EXCEPT !.retryAt = t]
        BY <1>4 DEF FailedModel, f
    <2>. QED BY <1>1, <1>2, <2>1 DEF ModelState, Never
<1>. QED BY <1>3, <1>4

\* Neither does a failure that names no model.
LEMMA FailedAuthElapsed ==
    ASSUME NEW a \in Auth, NEW kind, NEW hint, NEW n \in Nat, NEW U,
           OnlyRefused(a, n, U)
    PROVE  OnlyRefused(FailedAuth(a, kind, hint, FALSE, n), n, U)
<1>. DEFINE f == [a EXCEPT !.failed = TRUE, !.unavailable = TRUE]
            w == QuotaWindow(a.quota, kind, hint, FALSE, n)
            r == FailedAuth(a, kind, hint, FALSE, n)
<1>1. f \in Auth /\ f.retryAt = a.retryAt /\ f.ms = a.ms
    BY DEF Auth
<1>2. w.at = 0 /\ FixedDeadline(kind, FALSE, n) = 0
    BY DEF QuotaWindow, FixedDeadline, Never
<1>. HIDE DEF f, w
<1>3. r.ms = a.ms /\ r.retryAt \in {0, a.retryAt}
    <2>1. CASE kind \in QuotaKinds
        <3>1. r = Limited(f, w)
            BY <2>1 DEF FailedAuth, QuotaKinds, FixedKinds, f, w
        <3>. QED BY <1>1, <1>2, <3>1 DEF Limited, Auth
    <2>2. CASE kind \notin QuotaKinds
        <3>1. \/ r = [f EXCEPT !.retryAt = FixedDeadline(kind, FALSE, n)]
              \/ r = f
            BY <2>2 DEF FailedAuth, f
        <3>. QED BY <1>1, <1>2, <3>1 DEF Auth
    <2>. QED BY <2>1, <2>2
<1>. HIDE DEF r
<1>4. OnlyRefused(r, n, U)
    BY <1>3 DEF OnlyRefused, Known
<1>. QED BY <1>4 DEF r

\* Without cooldowns, and with what they left cleared, only the models that
\* were refused as not supported wait.
ElapsedInv ==
    /\ TimelyState
    /\ ~cooling /\ ~clearing => OnlyRefused(auth, now, unsupported)

\* Every operation preserves it.
LEMMA ElapsedStep ==
    ASSUME ElapsedInv, [ConductorNext]_conductorVars
    PROVE  ElapsedInv'
<1>1. TimelyState /\ TimelyState'
    BY TimelyStep DEF ElapsedInv
<1>2. /\ now \in Nat /\ TimelyAuth(auth, now) /\ auth \in Auth
      /\ cooling \in BOOLEAN /\ now' \in Nat /\ auth' \in Auth
      /\ LongestWait \in Nat
    BY <1>1, WaitAssumption DEF TimelyState, ConductorTypeOK, WaitAssumption
<1>3. ASSUME UNCHANGED <<now, cooling, clearing>>,
             NEW b \in Auth, auth' = b \/ auth' = Settled(b),
             ~cooling /\ ~clearing /\ OnlyRefused(auth, now, unsupported)
                 => OnlyRefused(b, now, unsupported')
      PROVE  ElapsedInv'
    <2>1. auth'.retryAt = b.retryAt /\ auth'.ms = b.ms
        BY <1>3, SettledView DEF SameView
    <2>. QED BY <1>1, <1>3, <2>1 DEF ElapsedInv, OnlyRefused, Known
<1>4. ASSUME NEW m \in Models, RecordSuccess(m) PROVE ElapsedInv'
    <2>. DEFINE a == [auth EXCEPT !.ms[m] = CleanState]
                b == Aggregate(a, now)
    <2>1. /\ a \in Auth /\ a.ms[m] = CleanState
          /\ \A l \in Models \ {m} : a.ms[l] = auth.ms[l]
        BY <1>2, EmptyRecords DEF Auth
    <2>2. TimelyAuth(a, now)
        BY <1>2, EmptyRecords, ReplaceModelTimely DEF Timely
    <2>3. /\ auth' = Settled(b) /\ UNCHANGED <<now, cooling, clearing>>
          /\ unsupported' = unsupported \ {m}
        BY <1>4 DEF RecordSuccess
    <2>. HIDE DEF a
    <2>4. b \in Auth
        BY <1>2, <2>2, AggregateTimely DEF TimelyAuth
    <2>5. OnlyRefused(auth, now, unsupported) => OnlyRefused(b, now, unsupported')
        <3>. SUFFICES ASSUME OnlyRefused(auth, now, unsupported)
                      PROVE  OnlyRefused(b, now, unsupported')
            OBVIOUS
        <3>1. \A l \in Models : l \in unsupported' \/ a.ms[l].retryAt <= now
            BY <1>2, <2>1, <2>3, EmptyRecords DEF OnlyRefused
        <3>. QED BY <1>2, <2>1, <3>1, AggregateOnlyRefused
    <2>. HIDE DEF b
    <2>. QED BY <1>3, <2>3, <2>4, <2>5
<1>5. ASSUME NEW m \in Models, NEW k \in Kinds, NEW h \in HintsFor(k),
             RecordFailure(m, k, h)
      PROVE  ElapsedInv'
    <2>. DEFINE s == FailedModel(auth.ms[m], k, h, cooling, now)
                a == [auth EXCEPT !.failed = TRUE, !.ms[m] = s]
                b == Aggregate(a, now)
    <2>1. /\ h \in Hints \cup {NoHint} /\ k \in FailureKinds
          /\ auth.ms[m] \in ModelState /\ Timely(auth.ms[m], now)
        BY <1>2, ConductorAssumption
        DEF HintsFor, ConductorAssumption, TimelyAuth, Auth
    <2>2. s \in ModelState /\ Timely(s, now)
        BY <1>2, <2>1, FailedModelTimely
    <2>3. ~cooling /\ k # "model_not_supported" => s.retryAt = 0
        <3>. SUFFICES ASSUME ~cooling, k # "model_not_supported"
                      PROVE  s.retryAt = 0
            OBVIOUS
        <3>1. cooling = FALSE
            BY <1>2
        <3>. QED BY <1>2, <2>1, <3>1, FailedModelElapsed
    <2>4. /\ auth' = b /\ UNCHANGED <<now, cooling, clearing>>
          /\ unsupported' = IF k = "model_not_supported"
                            THEN unsupported \cup {m} ELSE unsupported \ {m}
        BY <1>5 DEF RecordFailure
    <2>. HIDE DEF s
    <2>5. /\ a \in Auth /\ a.ms[m] = s
          /\ \A l \in Models \ {m} : a.ms[l] = auth.ms[l]
        BY <1>2, <2>2 DEF Auth
    <2>. HIDE DEF a
    <2>6. ~cooling /\ OnlyRefused(auth, now, unsupported)
              => OnlyRefused(b, now, unsupported')
        <3>. SUFFICES ASSUME ~cooling, OnlyRefused(auth, now, unsupported)
                      PROVE  OnlyRefused(b, now, unsupported')
            OBVIOUS
        <3>1. m \in unsupported' \/ a.ms[m].retryAt <= now
            BY <1>2, <2>3, <2>4, <2>5
        <3>2. \A l \in Models \ {m} : l \in unsupported' \/ a.ms[l].retryAt <= now
            BY <2>4, <2>5 DEF OnlyRefused
        <3>. QED BY <1>2, <2>5, <3>1, <3>2, AggregateOnlyRefused
    <2>7. b \in Auth
        BY <1>2, <2>4
    <2>. HIDE DEF b
    <2>. QED BY <1>3, <2>4, <2>6, <2>7
<1>6. ASSUME RecordAuthSuccess PROVE ElapsedInv'
    <2>. DEFINE b == SucceededAuth(auth)
    <2>1. b.retryAt = 0 /\ b.ms = auth.ms
        BY <1>2 DEF SucceededAuth, Auth, Never
    <2>2. auth' = b /\ UNCHANGED <<now, cooling, clearing, unsupported>>
        BY <1>6 DEF RecordAuthSuccess
    <2>. HIDE DEF b
    <2>. QED BY <1>2, <1>3, <2>1, <2>2 DEF OnlyRefused
<1>7. ASSUME NEW k \in Kinds, NEW h \in HintsFor(k), RecordAuthFailure(k, h)
      PROVE  ElapsedInv'
    <2>. DEFINE b == FailedAuth(auth, k, h, cooling, now)
    <2>1. auth' = b /\ UNCHANGED <<now, cooling, clearing, unsupported>>
        BY <1>7 DEF RecordAuthFailure
    <2>2. ~cooling /\ OnlyRefused(auth, now, unsupported)
              => OnlyRefused(b, now, unsupported')
        <3>. SUFFICES ASSUME ~cooling, OnlyRefused(auth, now, unsupported)
                      PROVE  OnlyRefused(b, now, unsupported')
            OBVIOUS
        <3>1. cooling = FALSE /\ unsupported' = unsupported
            BY <1>2, <2>1
        <3>. QED BY <1>2, <3>1, FailedAuthElapsed
    <2>. HIDE DEF b
    <2>. QED BY <1>2, <1>3, <2>1, <2>2
<1>8. ASSUME NEW f \in [Models -> {CleanState, AbsentState}]
      PROVE  LET a == [auth EXCEPT !.ms = f]
             IN  /\ a \in Auth /\ TimelyAuth(a, now)
                 /\ \A m \in Models : a.ms[m].retryAt = 0
    <2>1. [auth EXCEPT !.ms = f].ms = f
        BY <1>2 DEF Auth
    <2>2. \A m \in Models : f[m].retryAt = 0
        BY EmptyRecords
    <2>. QED BY <1>2, <1>8, <2>1, <2>2, EmptiedTidy
<1>9. ASSUME ResetQuota PROVE ElapsedInv'
    <2>. DEFINE f == [m \in Models |-> IF auth.ms[m].known THEN CleanState
                                                           ELSE AbsentState]
                a == [auth EXCEPT !.ms = f]
                b == ClearCooldown(a, now)
    <2>1. f \in [Models -> {CleanState, AbsentState}]
        OBVIOUS
    <2>2. /\ auth' = b \/ auth' = Settled(b)
          /\ UNCHANGED <<now, cooling, clearing>>
        BY <1>9 DEF ResetQuota
    <2>. HIDE DEF f
    <2>3. TimelyAuth(a, now)
        BY <1>8, <2>1
    <2>. HIDE DEF a
    <2>4. b \in Auth /\ OnlyRefused(b, now, unsupported')
        BY <1>2, <2>3, ClearCooldownTimely, ClearCooldownElapsed DEF TimelyAuth
    <2>. HIDE DEF b
    <2>. QED BY <1>3, <2>2, <2>4
<1>10. ASSUME NEW S \in SUBSET Models, Reconcile(S) PROVE ElapsedInv'
    <2>. DEFINE f == [m \in Models |-> IF m \in Known(auth) \cap S
                                       THEN CleanState ELSE AbsentState]
                a == [auth EXCEPT !.ms = f]
                b == Aggregate(a, now)
    <2>1. f \in [Models -> {CleanState, AbsentState}]
        OBVIOUS
    <2>2. auth' = Settled(b) /\ UNCHANGED <<now, cooling, clearing>>
        BY <1>10 DEF Reconcile
    <2>. HIDE DEF f
    <2>3. /\ a \in Auth /\ TimelyAuth(a, now)
          /\ \A m \in Models : a.ms[m].retryAt = 0
        BY <1>8, <2>1
    <2>. HIDE DEF a
    <2>4. b \in Auth /\ OnlyRefused(b, now, unsupported')
        BY <1>2, <2>3, AggregateTimely, AggregateOnlyRefused DEF TimelyAuth
    <2>. HIDE DEF b
    <2>. QED BY <1>3, <2>2, <2>4
<1>11. ASSUME NEW b \in BOOLEAN, StoreConfig(b) PROVE ElapsedInv'
    BY <1>1, <1>11 DEF StoreConfig, ElapsedInv
<1>12. ASSUME ClearDisabledCooldownStates PROVE ElapsedInv'
    <2>1. UNCHANGED <<now, cooling>>
        BY <1>12 DEF ClearDisabledCooldownStates
    <2>2. ~cooling => auth' = ClearCooldown(auth, now)
        BY <1>12 DEF ClearDisabledCooldownStates
    <2>3. ~cooling => OnlyRefused(auth', now, unsupported')
        BY <1>2, <2>2, ClearCooldownElapsed
    <2>. QED BY <1>1, <2>1, <2>3 DEF ElapsedInv
<1>13. ASSUME NEW d \in BOOLEAN, SetDisabled(d) PROVE ElapsedInv'
    <2>. DEFINE a == [auth EXCEPT !.disabled = d, !.failed = FALSE]
    <2>1. TimelyAuth(a, now) /\ a.retryAt = auth.retryAt /\ a.ms = auth.ms
        BY <1>2 DEF TimelyAuth, Auth, Timely
    <2>2. /\ UNCHANGED <<now, cooling, clearing>>
          /\ \/ auth' = ClearCooldown(a, now)
             \/ auth' = a /\ UNCHANGED unsupported
        BY <1>13 DEF SetDisabled
    <2>. HIDE DEF a
    <2>3. OnlyRefused(auth, now, unsupported)
              => OnlyRefused(auth', now, unsupported')
        <3>1. CASE auth' = ClearCooldown(a, now)
            BY <1>2, <2>1, <3>1, ClearCooldownElapsed
        <3>2. CASE auth' = a /\ UNCHANGED unsupported
            BY <2>1, <3>2 DEF OnlyRefused, Known
        <3>. QED BY <2>2, <3>1, <3>2
    <2>. QED BY <1>2, <1>3, <2>2, <2>3
<1>14. ASSUME Tick \/ UNCHANGED conductorVars PROVE ElapsedInv'
    <2>1. now <= now' /\ UNCHANGED <<auth, cooling, clearing, unsupported>>
        BY <1>2, <1>14 DEF Tick, conductorVars
    <2>2. /\ auth.retryAt \in Nat
          /\ \A m \in Models : auth.ms[m].retryAt \in Nat
        BY <1>2 DEF Auth, ModelState
    <2>. QED BY <1>1, <1>2, <2>1, <2>2 DEF ElapsedInv, OnlyRefused
<1>. QED BY <1>4, <1>5, <1>6, <1>7, <1>9, <1>10, <1>11, <1>12, <1>13, <1>14
         DEF ConductorNext, Results, Management

\* Once SetConfig has disabled cooldowns and returned, whatever failures
\* follow, a model waits only if its latest result refused it as not
\* supported, and the credential only while all of its models do.
THEOREM OnlyRefusedModelsWait == ConductorSpec => []NoBlackoutWithoutCooling
<1>1. ConductorInit => ElapsedInv
    <2>. SUFFICES ASSUME ConductorInit PROVE ElapsedInv
        OBVIOUS
    <2>1. auth = FreshAuth /\ now = 1
        BY DEF ConductorInit
    <2>. QED BY <2>1, EmptyRecords, TimelyInit DEF ElapsedInv, OnlyRefused
<1>2. ElapsedInv /\ [ConductorNext]_conductorVars => ElapsedInv'
    BY ElapsedStep
<1>3. ElapsedInv => NoBlackoutWithoutCooling
    <2>. SUFFICES ASSUME ElapsedInv, ~cooling, ~clearing
                  PROVE  NoBlackoutWithoutCooling
        BY DEF NoBlackoutWithoutCooling
    <2>1. OnlyRefused(auth, now, unsupported) /\ now \in Nat /\ auth \in Auth
        BY DEF ElapsedInv, TimelyState, ConductorTypeOK
    <2>2. /\ auth.retryAt \in Nat /\ Known(auth) \subseteq Models
          /\ \A m \in Models : auth.ms[m].retryAt \in Nat
        BY <2>1 DEF Auth, ModelState, Known
    <2>3. \A m \in Models : ModelBlocked(m) => m \in unsupported
        BY <2>1, <2>2 DEF OnlyRefused, ModelBlocked, Cooling
    <2>4. ASSUME AuthBlocked
          PROVE  Known(auth) # {} /\ \A m \in Known(auth) : ModelBlocked(m)
        <3>1. /\ Known(auth) # {}
              /\ \A m \in Known(auth) : /\ auth.ms[m].unavailable
                                        /\ auth.retryAt <= auth.ms[m].retryAt
            BY <2>1, <2>2, <2>4 DEF OnlyRefused, AuthBlocked
        <3>2. \A m \in Known(auth) : auth.ms[m].retryAt > now
            BY <2>1, <2>2, <2>4, <3>1 DEF AuthBlocked
        <3>. QED BY <3>1, <3>2 DEF ModelBlocked, Cooling
    <2>. QED BY <2>3, <2>4 DEF NoBlackoutWithoutCooling
<1>. QED BY <1>1, <1>2, <1>3, PTL DEF ConductorSpec

-----------------------------------------------------------------------------
(* Deliveries leave the Manager's record to the Manager.                   *)

\* One step of the Manager's, whoever delivers and requests around it.
LEMMA ManagerActs ==
    ASSUME setting \in Settings, [DeliveryNext]_deliveryVars
    PROVE  [ConductorNext]_conductorVars /\ setting' = setting
<1>1. setting.kinds \subseteq Kinds /\ Models \in SUBSET Models
    BY DeliveryAssumption DEF DeliveryAssumption
<1>2. setting' = setting
    BY DEF DeliveryNext, deliveryVars
<1>3. CASE UNCHANGED deliveryVars
    BY <1>2, <1>3 DEF deliveryVars
<1>4. CASE Request
    <2>1. UNCHANGED conductorVars
        BY <1>4, Zenon DEF Request, Ask, FirstPick, SnapshotAuths, Rebuild,
           SecondPick, Answer, Pick
    <2>. QED BY <1>2, <2>1
<1>5. CASE Tick
    BY <1>2, <1>5 DEF ConductorNext
<1>6. ASSUME NEW c, Begin(c) PROVE [ConductorNext]_conductorVars
    <2>1. CASE MarkResult(c)
        <3>1. CASE \E m \in Models : RecordSuccess(m)
            BY <3>1, Zenon DEF ConductorNext, Results
        <3>2. ASSUME NEW m \in Models, NEW k \in setting.kinds,
                     NEW h \in HintsFor(k) \cap (setting.hints \cup {NoHint}),
                     RecordFailure(m, k, h)
              PROVE  ConductorNext
            <4>1. k \in Kinds /\ h \in HintsFor(k)
                BY <1>1
            <4>. QED BY <3>2, <4>1, Zenon DEF ConductorNext, Results
        <3>. QED BY <2>1, <3>1, <3>2, Zenon DEF MarkResult
    <2>2. CASE Reset(c)
        BY <2>2, Zenon DEF Reset, ConductorNext, Management
    <2>3. CASE \E b \in BOOLEAN : Store(c, b)
        BY <2>3, Zenon DEF Store, ConductorNext, Management
    <2>4. CASE \E b \in BOOLEAN : Update(c, b)
        BY <2>4, Zenon DEF Update, ConductorNext, Management
    <2>5. CASE ClearDisabled(c)
        BY <2>5, Zenon DEF ClearDisabled, ConductorNext, Management
    <2>6. CASE Rebind(c)
        BY <2>6, Zenon DEF Rebind
    <2>. QED BY <1>6, <2>1, <2>2, <2>3, <2>4, <2>5, <2>6, Zenon DEF Begin
<1>7. ASSUME NEW c, Deliver(c) PROVE [ConductorNext]_conductorVars
    <2>1. CASE DeliverReconcile(c)
        <3>1. CASE Reconcile(Models)
            BY <1>1, <3>1, Zenon DEF ConductorNext, Management
        <3>. QED BY <2>1, <3>1, Zenon DEF DeliverReconcile
    <2>2. CASE ~DeliverReconcile(c)
        BY <1>7, <2>2, Zenon DEF Deliver, DeliverSchedule, DeliverMark,
           DeliverRefresh
    <2>. QED BY <2>1, <2>2
<1>. QED BY <1>2, <1>3, <1>4, <1>5, <1>6, <1>7, Zenon DEF DeliveryNext

\* Whatever is delivered and requested around it, the record of the
\* credential goes through the behaviours of Conductor, so that what is
\* proved about them holds here as well.
THEOREM ManagerIsConductor == DeliverySpec => ConductorSpec
<1>1. DeliveryInit => ConductorInit /\ setting \in Settings
    BY DEF DeliveryInit
<1>2. setting \in Settings /\ [DeliveryNext]_deliveryVars
          => [ConductorNext]_conductorVars /\ (setting \in Settings)'
    BY ManagerActs
<1>. QED BY <1>1, <1>2, PTL DEF DeliverySpec, ConductorSpec

-----------------------------------------------------------------------------
(* Every record that is kept somewhere is within reach, and so are the     *)
(* deadlines computed from it.                                             *)

\* The records and copies without a deadline out of reach at n.
TimelyRecords(n) == {a \in Auth : TimelyAuth(a, n)}

Refs(n) == [live : BOOLEAN, rec : TimelyRecords(n)]

\* What callers may still have to deliver.
MarkOps == {"clear_quota", "mark_quota", "resume", "suspend"}

Deliveries(n) ==
    [op : {"schedule"}, ref : Refs(n)]
        \cup [op : MarkOps, model : Models]
        \cup [op : {"reconcile", "refresh"}]

\* What the scheduler may hold at n.
Entries(n) ==
    {e \in [present : BOOLEAN, ref : Refs(n), next : [Models -> Nat]] :
        \A m \in Models : e.next[m] <= n + LongestWait}

\* Where a request may be.
Requests(n) ==
    [pc : {"idle", "asked", "empty", "copied", "rebuilt", "served", "refused"},
     model : Models, snapshot : TimelyRecords(n), excused : BOOLEAN]

\* No copy of the record has a deadline out of reach, wherever it is kept.
CopiesTimely ==
    /\ TimelyState
    /\ setting \in Settings
    /\ todo \in [Callers -> Seq(Deliveries(now))]
    /\ entry \in Entries(now)
    /\ request \in Requests(now)

\* What is within reach stays so.
LEMMA TimelyLater ==
    ASSUME NEW n \in Nat, NEW k \in Nat, n <= k
    PROVE  /\ TimelyRecords(n) \subseteq TimelyRecords(k)
           /\ Refs(n) \subseteq Refs(k)
           /\ Deliveries(n) \subseteq Deliveries(k)
           /\ Entries(n) \subseteq Entries(k)
           /\ Requests(n) \subseteq Requests(k)
<1>1. LongestWait \in Nat
    BY WaitAssumption DEF WaitAssumption
<1>2. ASSUME NEW a \in Auth, TimelyAuth(a, n) PROVE TimelyAuth(a, k)
    <2>1. a.retryAt \in Nat /\ a.quota.recoverAt \in Nat
        BY DEF Auth, Quota
    <2>2. \A m \in Models : /\ a.ms[m].retryAt \in Nat
                            /\ a.ms[m].quota.recoverAt \in Nat
        BY DEF Auth, ModelState, Quota
    <2>. QED BY <1>1, <1>2, <2>1, <2>2 DEF TimelyAuth, Timely
<1>3. TimelyRecords(n) \subseteq TimelyRecords(k)
    BY <1>2 DEF TimelyRecords
<1>4. Refs(n) \subseteq Refs(k)
    BY <1>3 DEF Refs
<1>5. Deliveries(n) \subseteq Deliveries(k)
    BY <1>4 DEF Deliveries
<1>6. Entries(n) \subseteq Entries(k)
    BY <1>1, <1>4 DEF Entries
<1>7. Requests(n) \subseteq Requests(k)
    BY <1>3 DEF Requests
<1>. QED BY <1>3, <1>4, <1>5, <1>6, <1>7

\* The deadline of a record within reach is within reach.
LEMMA NextRetryTimely ==
    ASSUME NEW a \in TimelyRecords(now), now \in Nat, NEW m \in Models
    PROVE  NextRetryAt(a, m) \in Nat /\ NextRetryAt(a, m) <= now + LongestWait
<1>1. LongestWait \in Nat
    BY WaitAssumption DEF WaitAssumption
<1>2. a.ms[m] \in ModelState /\ Timely(a.ms[m], now)
    BY DEF TimelyRecords, TimelyAuth, Auth
<1>. QED BY <1>1, <1>2
         DEF NextRetryAt, ReportedRetry, ModelState, Quota, Timely, Never

\* The record behind a reference.
LEMMA RecordTimely ==
    ASSUME TimelyState, NEW ref \in Refs(now)
    PROVE  Record(ref) \in TimelyRecords(now)
BY DEF Refs, Record, TimelyRecords, TimelyState, ConductorTypeOK

\* A new record has no deadline that lies too far ahead.
LEMMA FreshTimely ==
    ASSUME NEW n \in Nat
    PROVE  FreshAuth \in TimelyRecords(n)
<1>1. LongestWait \in Nat
    BY WaitAssumption DEF WaitAssumption
<1>. QED BY <1>1, EmptyRecords DEF TimelyRecords, TimelyAuth, Timely

\* What the scheduler's operations make of a reference and an entry.
LEMMA UpsertTimely ==
    ASSUME TimelyState, NEW ref \in Refs(now)
    PROVE  Upsert(ref) \in Entries(now)
<1>. DEFINE a == Record(ref)
            f == [m \in Models |-> NextRetryAt(a, m)]
<1>1. now \in Nat /\ LongestWait \in Nat
    BY WaitAssumption DEF WaitAssumption, TimelyState, ConductorTypeOK
<1>2. /\ f \in [Models -> Nat]
      /\ \A m \in Models : f[m] <= now + LongestWait
    BY <1>1, RecordTimely, NextRetryTimely
<1>3. NoEntry \in Entries(now)
    BY <1>1, FreshTimely DEF NoEntry, Copy, Entries, Refs, Never
<1>4. Upsert(ref) = IF a.disabled THEN NoEntry
                    ELSE [present |-> TRUE, ref |-> ref, next |-> f]
    BY DEF Upsert
<1>. HIDE DEF f
<1>5. [present |-> TRUE, ref |-> ref, next |-> f] \in Entries(now)
    BY <1>2 DEF Entries
<1>. QED BY <1>3, <1>4, <1>5, Zenon

\* Promotion keeps the entry well-typed.
LEMMA PromoteTimely ==
    ASSUME TimelyState, NEW e \in Entries(now), NEW m \in Models
    PROVE  Promote(e, m) \in Entries(now)
<1>. DEFINE r == NextRetryAt(Record(e.ref), m)
<1>1. now \in Nat /\ LongestWait \in Nat
    BY WaitAssumption DEF WaitAssumption, TimelyState, ConductorTypeOK
<1>2. r \in Nat /\ r <= now + LongestWait
    BY <1>1, RecordTimely, NextRetryTimely DEF Entries
<1>3. Promote(e, m) \in {e, [e EXCEPT !.next[m] = r]}
    BY DEF Promote
<1>. HIDE DEF r
<1>4. [e EXCEPT !.next[m] = r] \in Entries(now)
    BY <1>2 DEF Entries
<1>. QED BY <1>3, <1>4

\* A record that is replaced stays behind as a copy.
LEMMA OrphanTimely ==
    ASSUME TimelyState, NEW ref \in Refs(now)
    PROVE  Orphan(ref) \in Refs(now)
BY DEF Refs, Orphan, Copy, TimelyRecords, TimelyState, ConductorTypeOK

\* The orders in which a reset goes through the models.
LEMMA ResetOrderFacts ==
    ASSUME auth \in Auth, NEW models \in ResetOrders
    PROVE  /\ models \in Seq(Models) /\ Len(models) \in Nat
           /\ \A m \in Known(auth) : \E i \in 1..Len(models) : models[i] = m
<1>. DEFINE S == IF Known(auth) = {} THEN Models ELSE Known(auth)
            n == Cardinality(S)
<1>1. S \subseteq Models /\ Known(auth) \subseteq S
    BY DEF Known
<1>. HIDE DEF S
<1>2. IsFiniteSet(S) /\ n \in Nat
    BY <1>1, DeliveryAssumption, FS_Subset, FS_CardinalityType
    DEF DeliveryAssumption
<1>3. /\ models \in [1..n -> S]
      /\ \A i, j \in 1..n : i # j => models[i] # models[j]
    BY DEF ResetOrders, SetToSeqs, S
<1>. HIDE DEF n
<1>4. /\ models \in Seq(Models) /\ Len(models) = n
    <2>1. models \in Seq(S) /\ Len(models) = n
        BY <1>2, <1>3
    <2>. QED BY <1>1, <2>1
<1>5. \A m \in S : \E i \in 1..n : models[i] = m
    <2>1. IsFiniteSet(1..n) /\ Cardinality(1..n) = n
        BY <1>2, FS_Interval
    <2>2. models \in Injection(1..n, S)
        BY <1>3 DEF Injection, IsInjective
    <2>3. models \in Surjection(1..n, S)
        BY <1>2, <2>1, <2>2, FS_Injection DEF n
    <2>. QED BY <2>3 DEF Surjection
<1>. QED BY <1>1, <1>2, <1>4, <1>5

\* A sequence over a set is one over every larger set.
LEMMA SeqLarger ==
    ASSUME NEW S, NEW T, S \subseteq T, NEW s \in Seq(S)
    PROVE  s \in Seq(T)
OBVIOUS

\* The empty sequence and the sequence of one element.
LEMMA ShortSeq ==
    ASSUME NEW S
    PROVE  <<>> \in Seq(S) /\ \A x \in S : <<x>> \in Seq(S)
OBVIOUS

\* The halves of an odd and an even index.
LEMMA Halves ==
    ASSUME NEW i \in Nat
    PROVE  /\ (2 * i - 1) % 2 = 1 /\ (2 * i - 1 + 1) \div 2 = i
           /\ (2 * i) % 2 # 1 /\ (2 * i) \div 2 = i
OBVIOUS

\* The deliveries that an operation leaves to be made.
LEMMA ResetDeliveries ==
    ASSUME NEW models \in Seq(Models)
    PROVE  /\ RegistryReset(models) \in
                  Seq([op : {"clear_quota", "resume"}, model : Models])
           /\ Len(RegistryReset(models)) = 2 * Len(models)
           /\ \A i \in 1..Len(models) :
                 /\ RegistryReset(models)[2 * i - 1] = ClearQuota(models[i])
                 /\ RegistryReset(models)[2 * i] = Resume(models[i])
<1>. DEFINE n == Len(models)
            D == [op : {"clear_quota", "resume"}, model : Models]
            s == RegistryReset(models)
<1>1. n \in Nat /\ \A i \in 1..n : models[i] \in Models
    OBVIOUS
<1>2. s = [i \in 1..2 * n |-> IF i % 2 = 1 THEN ClearQuota(models[(i + 1) \div 2])
                                           ELSE Resume(models[i \div 2])]
    BY DEF RegistryReset
<1>3. \A m \in Models : ClearQuota(m) \in D /\ Resume(m) \in D
    BY DEF ClearQuota, Resume
<1>. HIDE DEF n, D, s
<1>4. \A i \in 1..2 * n : s[i] \in D
    <2>. SUFFICES ASSUME NEW i \in 1..2 * n PROVE s[i] \in D
        OBVIOUS
    <2>1. CASE i % 2 = 1
        <3>1. (i + 1) \div 2 \in 1..n
            BY <1>1, <2>1
        <3>. QED BY <1>1, <1>2, <1>3, <2>1, <3>1, Zenon
    <2>2. CASE i % 2 # 1
        <3>1. i \div 2 \in 1..n
            BY <1>1, <2>2
        <3>. QED BY <1>1, <1>2, <1>3, <2>2, <3>1, Zenon
    <2>. QED BY <2>1, <2>2
<1>5. s \in [1..2 * n -> D]
    BY <1>2, <1>4
<1>6. s \in Seq(D) /\ Len(s) = 2 * n
    BY <1>1, <1>5
<1>7. ASSUME NEW i \in 1..n
      PROVE  s[2 * i - 1] = ClearQuota(models[i]) /\ s[2 * i] = Resume(models[i])
    <2>1. /\ 2 * i - 1 \in 1..2 * n /\ (2 * i - 1) % 2 = 1
          /\ (2 * i - 1 + 1) \div 2 = i
          /\ 2 * i \in 1..2 * n /\ (2 * i) % 2 # 1 /\ (2 * i) \div 2 = i
        <3>1. 2 * i - 1 \in 1..2 * n /\ 2 * i \in 1..2 * n /\ i \in Nat
            BY <1>1
        <3>. QED BY <3>1, Halves, Zenon
    <2>. QED BY <1>2, <2>1, Zenon
<1>. QED BY <1>6, <1>7 DEF n, s, D

\* A delivery to the scheduler takes a timely record with it.
LEMMA ScheduleTimely ==
    ASSUME NEW n \in Nat, NEW a \in TimelyRecords(n)
    PROVE  Copy(a) \in Refs(n) /\ Schedule(Copy(a)) \in Deliveries(n)
BY DEF Copy, Schedule, Refs, Deliveries

\* The deliveries to the registry are deliveries.
LEMMA MarksTyped ==
    ASSUME NEW n \in Nat, NEW m \in Models
    PROVE  /\ ClearQuota(m) \in Deliveries(n) /\ MarkQuota(m) \in Deliveries(n)
           /\ Resume(m) \in Deliveries(n) /\ Suspend(m) \in Deliveries(n)
BY DEF ClearQuota, MarkQuota, Resume, Suspend, Deliveries, MarkOps

\* So are the two of a new binding.
LEMMA RebindTyped ==
    ASSUME NEW n \in Nat
    PROVE  ReconcileAfter \in Deliveries(n) /\ RefreshEntry \in Deliveries(n)
<1>1. /\ ReconcileAfter \in [op : {"reconcile", "refresh"}]
      /\ RefreshEntry \in [op : {"reconcile", "refresh"}]
    BY DEF ReconcileAfter, RefreshEntry
<1>. QED BY <1>1, Zenon DEF Deliveries

\* A call that begins: what it leaves to be delivered is within reach.
LEMMA BeginTimely ==
    ASSUME CopiesTimely, NEW c \in Callers, Begin(c), TimelyState'
    PROVE  /\ now' = now
           /\ todo' \in [Callers -> Seq(Deliveries(now))]
           /\ entry' \in Entries(now)
<1>. DEFINE D == Deliveries(now)
            s == Schedule(Copy(auth'))
<1>1. /\ now \in Nat /\ todo \in [Callers -> Seq(D)] /\ entry \in Entries(now)
      /\ auth \in Auth /\ TimelyState
    BY DEF CopiesTimely, TimelyState, ConductorTypeOK
<1>2. now' = now => s \in D
    BY <1>1, ScheduleTimely DEF TimelyState, ConductorTypeOK, TimelyRecords
<1>3. \A m \in Models : /\ ClearQuota(m) \in D /\ MarkQuota(m) \in D
                        /\ Resume(m) \in D /\ Suspend(m) \in D
    BY <1>1, MarksTyped
<1>4. ReconcileAfter \in D /\ RefreshEntry \in D
    BY <1>1, RebindTyped
<1>. HIDE DEF D, s
<1>5. ASSUME NEW ds \in Seq(D), Call(c, ds), now' = now
      PROVE  todo' \in [Callers -> Seq(D)] /\ entry' \in Entries(now)
    BY <1>1, <1>5 DEF Call
<1>6. CASE MarkResult(c)
    <2>1. ASSUME NEW m \in Models, RecordSuccess(m), Call(c, AfterSuccess(m))
          PROVE  now' = now /\ todo' \in [Callers -> Seq(D)]
                            /\ entry' \in Entries(now)
        <3>1. now' = now
            BY <2>1 DEF RecordSuccess
        <3>2. AfterSuccess(m) \in Seq(D)
            BY <1>2, <1>3, <3>1 DEF AfterSuccess, s
        <3>. QED BY <1>5, <2>1, <3>1, <3>2
    <2>2. ASSUME NEW m \in Models, NEW k, NEW h, RecordFailure(m, k, h),
                 Call(c, AfterFailure(m, k))
          PROVE  now' = now /\ todo' \in [Callers -> Seq(D)]
                            /\ entry' \in Entries(now)
        <3>1. now' = now
            BY <2>2 DEF RecordFailure
        <3>2. AfterFailure(m, k) \in Seq(D)
            BY <1>2, <1>3, <3>1 DEF AfterFailure, s
        <3>. QED BY <1>5, <2>2, <3>1, <3>2
    <2>. QED BY <1>6, <2>1, <2>2, Zenon DEF MarkResult, D
<1>7. CASE Reset(c)
    <2>1. now' = now
        BY <1>7, Zenon DEF Reset, ResetQuota
    <2>2. ASSUME NEW models \in ResetOrders PROVE AfterReset(models) \in Seq(D)
        <3>1. [op : {"clear_quota", "resume"}, model : Models] \subseteq D
            BY DEF D, Deliveries, MarkOps
        <3>2. RegistryReset(models) \in
                  Seq([op : {"clear_quota", "resume"}, model : Models])
            BY <1>1, ResetOrderFacts, ResetDeliveries, Zenon
        <3>3. RegistryReset(models) \in Seq(D)
            BY <3>1, <3>2, SeqLarger, Zenon
        <3>. QED BY <1>2, <2>1, <3>3 DEF AfterReset, s
    <2>3. PICK ds \in Seq(D) : Call(c, ds)
        <3>1. <<>> \in Seq(D)
            OBVIOUS
        <3>. QED BY <1>7, <2>2, <3>1, Zenon DEF Reset
    <2>. QED BY <1>5, <2>1, <2>3 DEF D
<1>8. CASE \E b \in BOOLEAN : Store(c, b)
    <2>1. now' = now /\ Call(c, <<>>)
        BY <1>8, Zenon DEF Store, StoreConfig
    <2>2. <<>> \in Seq(D)
        OBVIOUS
    <2>. QED BY <1>5, <2>1, <2>2 DEF D
<1>9. CASE \E b \in BOOLEAN : Update(c, b)
    <2>1. PICK b \in BOOLEAN : SetDisabled(b) /\ Update(c, b)
        BY <1>9, Zenon DEF Update
    <2>2. now' = now
        BY <2>1 DEF SetDisabled
    <2>3. Live \in Refs(now)
        BY <1>1, FreshTimely DEF Live, Refs
    <2>4. Schedule(Live) \in D
        BY <2>3 DEF Schedule, Deliveries, D
    <2>. DEFINE g(d) == [i \in DOMAIN todo[d] |->
                    IF todo[d][i].op = "schedule"
                    THEN Schedule(Orphan(todo[d][i].ref)) ELSE todo[d][i]]
    <2>5. ASSUME NEW d \in Callers PROVE g(d) \in Seq(D)
        <3>1. todo[d] \in Seq(D)
            BY <1>1
        <3>2. ASSUME NEW x \in D, x.op = "schedule"
              PROVE  Schedule(Orphan(x.ref)) \in D
            <4>1. x.ref \in Refs(now)
                BY <3>2 DEF D, Deliveries, MarkOps
            <4>. QED BY <1>1, <4>1, OrphanTimely DEF Schedule, Deliveries, D
        <3>3. \A i \in 1..Len(todo[d]) : todo[d][i] \in D
            BY <3>1
        <3>. DEFINE q == todo[d]
        <3>. HIDE DEF q
        <3>4. g(d) = [i \in 1..Len(q) |->
                         IF q[i].op = "schedule" THEN Schedule(Orphan(q[i].ref))
                                                 ELSE q[i]]
            BY <3>1 DEF q
        <3>5. \A i \in 1..Len(q) : g(d)[i] \in D
            BY <3>2, <3>3, <3>4, Zenon DEF q
        <3>. DEFINE h == g(d)
        <3>6. \A i \in 1..Len(q) : h[i] \in D
            BY <3>5
        <3>7. Len(q) \in Nat /\ h = [i \in 1..Len(q) |-> h[i]]
            BY <3>1, <3>4 DEF q
        <3>. HIDE DEF g, h
        <3>8. h \in Seq(D)
            BY <3>6, <3>7
        <3>. QED BY <3>8 DEF h
    <2>6. todo' = [d \in Callers |-> IF d = c THEN <<Schedule(Live)>> ELSE g(d)]
        BY <2>1 DEF Update
    <2>. HIDE DEF g
    <2>7. todo' \in [Callers -> Seq(D)]
        BY <2>4, <2>5, <2>6
    <2>8. entry' = [entry EXCEPT !.ref = Orphan(entry.ref)]
        BY <2>1 DEF Update
    <2>9. entry' \in Entries(now)
        <3>1. Orphan(entry.ref) \in Refs(now)
            BY <1>1, OrphanTimely DEF Entries
        <3>. QED BY <1>1, <2>8, <3>1 DEF Entries
    <2>. QED BY <2>2, <2>7, <2>9 DEF D
<1>10. CASE ClearDisabled(c)
    <2>1. now' = now
        BY <1>10, Zenon DEF ClearDisabled, ClearDisabledCooldownStates
    <2>2. <<>> \in Seq(D) /\ <<s>> \in Seq(D)
        BY <1>2, <2>1
    <2>3. PICK ds \in Seq(D) : Call(c, ds)
        BY <1>10, <2>2, Zenon DEF ClearDisabled, s
    <2>. QED BY <1>5, <2>1, <2>3 DEF D
<1>11. CASE Rebind(c)
    <2>1. /\ now' = now /\ entry' = entry
          /\ todo' = [todo EXCEPT ![c] = <<ReconcileAfter, RefreshEntry>>]
        BY <1>11, Zenon DEF Rebind, conductorVars
    <2>. QED BY <1>1, <1>4, <2>1 DEF D
<1>. QED BY <1>6, <1>7, <1>8, <1>9, <1>10, <1>11, Zenon DEF Begin

\* A delivery.
LEMMA DeliverTimely ==
    ASSUME CopiesTimely, NEW c \in Callers, Deliver(c), TimelyState'
    PROVE  /\ now' = now
           /\ todo' \in [Callers -> Seq(Deliveries(now))]
           /\ entry' \in Entries(now)
<1>. DEFINE D == Deliveries(now)
<1>1. /\ now \in Nat /\ todo \in [Callers -> Seq(D)] /\ entry \in Entries(now)
      /\ auth \in TimelyRecords(now) /\ TimelyState
    BY DEF CopiesTimely, TimelyState, ConductorTypeOK, TimelyRecords
<1>2. now' = now => Schedule(Copy(auth')) \in D
    BY <1>1, ScheduleTimely DEF TimelyState, ConductorTypeOK, TimelyRecords
<1>3. Schedule(Copy(auth)) \in D
    BY <1>1, ScheduleTimely
<1>4. todo[c] \in Seq(D)
    BY <1>1
<1>5. ~Idle(c) => Head(todo[c]) \in D /\ Tail(todo[c]) \in Seq(D)
    BY <1>4 DEF Idle
<1>6. \A x \in D : x.op = "schedule" => x.ref \in Refs(now)
    BY DEF Deliveries, MarkOps
<1>. HIDE DEF D
<1>7. CASE DeliverSchedule(c)
    <2>1. /\ ~Idle(c) /\ Head(todo[c]).op = "schedule" /\ now' = now
          /\ entry' = Upsert(Head(todo[c]).ref)
          /\ todo' = [todo EXCEPT ![c] = Tail(todo[c])]
        BY <1>7, Zenon DEF DeliverSchedule, conductorVars
    <2>2. entry' \in Entries(now)
        BY <1>1, <1>5, <1>6, <2>1, UpsertTimely
    <2>. QED BY <1>1, <1>5, <2>1, <2>2 DEF D
<1>8. CASE DeliverMark(c)
    <2>1. /\ ~Idle(c) /\ now' = now /\ entry' = entry
          /\ todo' = [todo EXCEPT ![c] = Tail(todo[c])]
        BY <1>8, Zenon DEF DeliverMark, conductorVars
    <2>. QED BY <1>1, <1>5, <2>1 DEF D
<1>9. CASE DeliverReconcile(c)
    <2>1. ~Idle(c) /\ entry' = entry /\ now' = now
        BY <1>9, Zenon DEF DeliverReconcile, Reconcile, conductorVars
    <2>2. \/ todo' = [todo EXCEPT ![c] = <<Schedule(Copy(auth'))>> \o Tail(todo[c])]
          \/ todo' = [todo EXCEPT ![c] = Tail(todo[c])]
        BY <1>9, Zenon DEF DeliverReconcile
    <2>3. <<Schedule(Copy(auth'))>> \o Tail(todo[c]) \in Seq(D)
        BY <1>2, <1>5, <2>1
    <2>. QED BY <1>1, <1>5, <2>1, <2>2, <2>3 DEF D
<1>10. CASE DeliverRefresh(c)
    <2>1. /\ ~Idle(c) /\ now' = now /\ entry' = entry
          /\ todo' = [todo EXCEPT ![c] = <<Schedule(Copy(auth))>> \o Tail(todo[c])]
        BY <1>10, Zenon DEF DeliverRefresh, conductorVars
    <2>2. <<Schedule(Copy(auth))>> \o Tail(todo[c]) \in Seq(D)
        BY <1>3, <1>5, <2>1
    <2>. QED BY <1>1, <2>1, <2>2 DEF D
<1>. QED BY <1>7, <1>8, <1>9, <1>10, Zenon DEF Deliver

\* A step of the request.
LEMMA RequestTimely ==
    ASSUME CopiesTimely, Request
    PROVE  /\ UNCHANGED <<conductorVars, todo>>
           /\ entry' \in Entries(now)
           /\ request' \in Requests(now)
<1>1. /\ request \in Requests(now) /\ entry \in Entries(now) /\ now \in Nat
      /\ auth \in TimelyRecords(now) /\ TimelyState
    BY DEF CopiesTimely, TimelyState, ConductorTypeOK, TimelyRecords
<1>2. /\ request.model \in Models /\ request.snapshot \in TimelyRecords(now)
      /\ FreshAuth \in TimelyRecords(now)
    BY <1>1, FreshTimely DEF Requests
<1>3. ASSUME NEW m \in Models, Ask(m)
      PROVE  /\ UNCHANGED <<conductorVars, todo>>
             /\ entry' \in Entries(now) /\ request' \in Requests(now)
    <2>1. Blocked(auth, m, now) \in BOOLEAN
        BY DEF Blocked, Cooling, CopiesTimely, TimelyState, ConductorTypeOK, Auth,
           ModelState
    <2>. DEFINE b == Blocked(auth, m, now)
    <2>2. /\ UNCHANGED <<conductorVars, todo, entry>>
          /\ request' = [NoRequest(m) EXCEPT !.pc = "asked", !.excused = b]
        BY <1>3 DEF Ask
    <2>. HIDE DEF b
    <2>3. request' \in Requests(now)
        BY <1>2, <2>1, <2>2 DEF NoRequest, Requests, b
    <2>. QED BY <1>1, <2>2, <2>3
<1>4. ASSUME NEW p, NEW q \in {"refused", "empty"}, Pick(p, q)
      PROVE  /\ UNCHANGED <<conductorVars, todo>>
             /\ entry' \in Entries(now) /\ request' \in Requests(now)
    <2>1. /\ UNCHANGED <<conductorVars, todo>>
          /\ entry' = Promote(entry, request.model)
          /\ \E r \in {"served", q} : request' = [request EXCEPT !.pc = r]
        BY <1>4 DEF Pick
    <2>2. entry' \in Entries(now)
        BY <1>1, <1>2, <2>1, PromoteTimely
    <2>3. request' \in Requests(now)
        BY <1>1, <2>1 DEF Requests
    <2>. QED BY <2>1, <2>2, <2>3
<1>5. CASE SnapshotAuths
    BY <1>1, <1>5 DEF SnapshotAuths, Requests
<1>6. CASE Rebuild
    <2>1. /\ UNCHANGED <<conductorVars, todo>>
          /\ entry' = Upsert(Copy(request.snapshot))
          /\ request' = [request EXCEPT !.pc = "rebuilt"]
        BY <1>6 DEF Rebuild
    <2>2. entry' \in Entries(now)
        BY <1>1, <1>2, <2>1, ScheduleTimely, UpsertTimely
    <2>. QED BY <1>1, <2>1, <2>2 DEF Requests
<1>7. CASE Answer
    BY <1>1, <1>2, <1>7 DEF Answer, NoRequest, Requests
<1>. QED BY <1>3, <1>4, <1>5, <1>6, <1>7, Zenon
         DEF Request, FirstPick, SecondPick

\* Only the excuse of a request changes with the steps of others.
LEMMA WatchFacts ==
    ASSUME request \in Requests(now), Watch, auth' \in Auth
    PROVE  /\ request' \in Requests(now)
           /\ request'.pc = request.pc /\ request'.model = request.model
           /\ request'.snapshot = request.snapshot
           /\ request'.excused <=>
                  /\ request.pc # "idle"
                  /\ \/ request.excused \/ Blocked(auth', request.model, now')
                     \/ entry' # entry
<1>. DEFINE b == /\ request.pc # "idle"
                 /\ \/ request.excused \/ Blocked(auth', request.model, now')
                    \/ entry' # entry
<1>1. b \in BOOLEAN
    OBVIOUS
<1>2. request' = [request EXCEPT !.excused = b]
    BY DEF Watch
<1>. HIDE DEF b
<1>3. /\ request' \in Requests(now)
      /\ request'.pc = request.pc /\ request'.model = request.model
      /\ request'.snapshot = request.snapshot
      /\ request'.excused = b
    BY <1>1, <1>2 DEF Requests
<1>. QED BY <1>3, Zenon DEF b

\* Nothing is on its way at first, and the entry is the new record's.
LEMMA CopiesTimelyInit == DeliveryInit => CopiesTimely
<1>. SUFFICES ASSUME DeliveryInit PROVE CopiesTimely
    OBVIOUS
<1>1. TimelyState
    BY TimelyInit DEF DeliveryInit
<1>2. now \in Nat
    BY <1>1 DEF TimelyState, ConductorTypeOK
<1>3. setting \in Settings
    BY DEF DeliveryInit
<1>4. todo \in [Callers -> Seq(Deliveries(now))]
    BY DEF DeliveryInit
<1>5. entry \in Entries(now)
    <2>1. Live \in Refs(now)
        BY <1>2, FreshTimely DEF Live, Refs
    <2>. QED BY <1>1, <2>1, UpsertTimely DEF DeliveryInit
<1>6. request \in Requests(now)
    <2>1. PICK m \in Models : request = NoRequest(m)
        BY DEF DeliveryInit
    <2>. QED BY <1>2, <2>1, FreshTimely DEF NoRequest, Requests
<1>. QED BY <1>1, <1>3, <1>4, <1>5, <1>6 DEF CopiesTimely

\* No step takes a copy that is untimely, or makes one so.
LEMMA CopiesTimelyStep ==
    CopiesTimely /\ [DeliveryNext]_deliveryVars => CopiesTimely'
<1>. SUFFICES ASSUME CopiesTimely, [DeliveryNext]_deliveryVars
              PROVE  CopiesTimely'
    OBVIOUS
<1>1. /\ now \in Nat /\ setting \in Settings /\ TimelyState
      /\ todo \in [Callers -> Seq(Deliveries(now))]
      /\ entry \in Entries(now) /\ request \in Requests(now)
    BY DEF CopiesTimely, TimelyState, ConductorTypeOK
<1>2. TimelyState' /\ setting' \in Settings
    BY <1>1, ManagerActs, TimelyStep
<1>3. now' \in Nat /\ auth' \in Auth
    BY <1>2 DEF TimelyState, ConductorTypeOK
<1>4. setting.callers \subseteq Callers
    BY <1>1, DeliveryAssumption DEF DeliveryAssumption
<1>5. ASSUME now \in Nat, now' \in Nat, now <= now',
             todo' \in [Callers -> Seq(Deliveries(now))],
             entry' \in Entries(now), request' \in Requests(now)
      PROVE  CopiesTimely'
    <2>1. /\ Deliveries(now) \subseteq Deliveries(now')
          /\ Entries(now) \subseteq Entries(now')
          /\ Requests(now) \subseteq Requests(now')
        BY <1>5, TimelyLater
    <2>2. \A c \in Callers : todo'[c] \in Seq(Deliveries(now'))
        BY <1>5, <2>1, SeqLarger
    <2>3. /\ todo' \in [Callers -> Seq(Deliveries(now'))]
          /\ entry' \in Entries(now') /\ request' \in Requests(now')
        BY <1>5, <2>1, <2>2
    <2>4. /\ Deliveries(now') = Deliveries(now)'
          /\ Entries(now') = Entries(now)' /\ Requests(now') = Requests(now)'
        BY DEF Deliveries, Refs, TimelyRecords, Entries, Requests, TimelyAuth,
           Timely
    <2>. QED BY <1>2, <2>3, <2>4 DEF CopiesTimely
<1>6. ASSUME NEW c \in setting.callers, Begin(c) \/ Deliver(c), Watch
      PROVE  CopiesTimely'
    <2>1. /\ now' = now
          /\ todo' \in [Callers -> Seq(Deliveries(now))]
          /\ entry' \in Entries(now)
        BY <1>2, <1>4, <1>6, BeginTimely, DeliverTimely
    <2>2. request' \in Requests(now)
        BY <1>1, <1>3, <1>6, WatchFacts
    <2>. QED BY <1>1, <1>5, <2>1, <2>2
<1>7. ASSUME Tick, UNCHANGED <<todo, entry, quotaMarks, suspended>>, Watch
      PROVE  CopiesTimely'
    <2>1. now' = now + 1 /\ todo' = todo /\ entry' = entry
        BY <1>7 DEF Tick
    <2>2. request' \in Requests(now)
        BY <1>1, <1>3, <1>7, WatchFacts
    <2>. QED BY <1>1, <1>3, <1>5, <2>1, <2>2
<1>8. CASE Request
    <2>1. /\ UNCHANGED <<conductorVars, todo>>
          /\ entry' \in Entries(now) /\ request' \in Requests(now)
        BY <1>8, RequestTimely
    <2>2. now' = now /\ todo' = todo
        BY <2>1 DEF conductorVars
    <2>. QED BY <1>1, <1>5, <2>1, <2>2
<1>9. CASE UNCHANGED deliveryVars
    BY <1>1, <1>5, <1>9 DEF deliveryVars, conductorVars
<1>. QED BY <1>6, <1>7, <1>8, <1>9, Zenon DEF DeliveryNext

\* A stale entry of the scheduler does not block for longer than the Manager
\* itself would: whatever copies overtake one another, their deadlines lie
\* within the longest wait.
THEOREM StaleEntriesRecover == DeliverySpec => []StaleBlocksEnd
<1>1. CopiesTimely => StaleBlocksEnd
    BY DEF CopiesTimely, Entries, StaleBlocksEnd
<1>. QED BY <1>1, CopiesTimelyInit, CopiesTimelyStep, PTL DEF DeliverySpec

-----------------------------------------------------------------------------
(* Refusals.                                                               *)

\* A request without an excuse: its credential has not been blocked, the copy
\* it took is not, and the scheduler it rebuilt offers the credential.
ExcuseInv ==
    LET m == request.model
    IN  request.excused \/
            /\ request.pc # "idle" => ~Blocked(auth, m, now)
            /\ request.pc = "copied" => ~Blocked(request.snapshot, m, now)
            /\ request.pc = "rebuilt" => Selectable(entry, m)
            /\ request.pc # "refused"

\* What is not blocked is not blocked later either.
LEMMA UnblockedLater ==
    ASSUME NEW a \in Auth, NEW m \in Models, NEW n \in Nat, NEW k \in Nat,
           n <= k, ~Blocked(a, m, n)
    PROVE  ~Blocked(a, m, k)
BY DEF Blocked, Cooling, Auth, ModelState

\* There is no request at first.
LEMMA ExcuseInit == DeliveryInit => ExcuseInv
BY DEF DeliveryInit, ExcuseInv, NoRequest

\* A request that is not excused goes on as ExcuseInv says, whatever step
\* is taken next to it.
LEMMA ExcuseStep ==
    CopiesTimely /\ CopiesTimely' /\ ExcuseInv /\ [DeliveryNext]_deliveryVars
        => ExcuseInv'
<1>. SUFFICES ASSUME CopiesTimely, CopiesTimely', ExcuseInv,
                     [DeliveryNext]_deliveryVars
              PROVE  ExcuseInv'
    OBVIOUS
<1>1. /\ now \in Nat /\ now' \in Nat /\ auth \in Auth /\ auth' \in Auth
      /\ request \in Requests(now) /\ request.model \in Models
      /\ request.snapshot \in Auth
    BY DEF CopiesTimely, TimelyState, ConductorTypeOK, Requests, TimelyRecords
\* While others act, an excuse is missing only if nothing has changed.
<1>2. ASSUME Watch, now <= now' PROVE ExcuseInv'
    <2>1. /\ request'.pc = request.pc /\ request'.model = request.model
          /\ request'.snapshot = request.snapshot
          /\ request'.excused <=>
                  /\ request.pc # "idle"
                  /\ \/ request.excused \/ Blocked(auth', request.model, now')
                     \/ entry' # entry
        BY <1>1, <1>2, WatchFacts
    <2>2. ~Blocked(request.snapshot, request.model, now)
              => ~Blocked(request.snapshot, request.model, now')
        BY <1>1, <1>2, UnblockedLater
    <2>. QED BY <2>1, <2>2, Zenon DEF ExcuseInv
<1>3. ASSUME NEW c \in setting.callers, Begin(c) \/ Deliver(c), Watch
      PROVE  ExcuseInv'
    <2>1. c \in Callers
        BY <1>3, DeliveryAssumption DEF DeliveryAssumption, CopiesTimely
    <2>2. now' = now
        BY <1>3, <2>1, BeginTimely, DeliverTimely DEF CopiesTimely
    <2>. QED BY <1>1, <1>2, <1>3, <2>2
<1>4. CASE Tick /\ Watch
    BY <1>1, <1>2, <1>4 DEF Tick
<1>5. ASSUME NEW m \in Models, Ask(m) PROVE ExcuseInv'
    <2>1. /\ now' = now /\ auth' = auth
          /\ request'.pc = "asked" /\ request'.model = m
          /\ request'.excused = Blocked(auth, m, now)
        BY <1>5 DEF Ask, NoRequest, conductorVars
    <2>. QED BY <2>1 DEF ExcuseInv
<1>6. ASSUME UNCHANGED <<conductorVars, todo, quotaMarks, suspended>>,
             NEW p, request' = [request EXCEPT !.pc = p],
             request.pc # "idle", p \in {"served", "empty", "rebuilt"},
             request.excused \/ (p = "rebuilt" => Selectable(entry', request.model))
      PROVE  ExcuseInv'
    <2>1. /\ now' = now /\ auth' = auth
          /\ request'.pc = p /\ request'.model = request.model
          /\ request'.excused = request.excused
        BY <1>1, <1>6 DEF Requests, conductorVars
    <2>. QED BY <1>6, <2>1 DEF ExcuseInv
<1>7. CASE FirstPick
    <2>1. \E p \in {"served", "empty"} : request' = [request EXCEPT !.pc = p]
        BY <1>7 DEF FirstPick, Pick
    <2>2. /\ UNCHANGED <<conductorVars, todo, quotaMarks, suspended>>
          /\ request.pc = "asked"
        BY <1>7 DEF FirstPick, Pick
    <2>. QED BY <1>6, <2>1, <2>2
<1>8. CASE SnapshotAuths
    <2>1. /\ now' = now /\ auth' = auth /\ request.pc = "empty"
          /\ request'.pc = "copied" /\ request'.model = request.model
          /\ request'.snapshot = auth /\ request'.excused = request.excused
        BY <1>1, <1>8 DEF SnapshotAuths, Requests, conductorVars
    <2>. QED BY <2>1 DEF ExcuseInv
\* The rebuilt scheduler offers what is not blocked.
<1>9. CASE Rebuild
    <2>1. /\ UNCHANGED <<conductorVars, todo, quotaMarks, suspended>>
          /\ request.pc = "copied"
          /\ request' = [request EXCEPT !.pc = "rebuilt"]
          /\ entry' = Upsert(Copy(request.snapshot))
        BY <1>9 DEF Rebuild
    <2>2. ASSUME ~Blocked(request.snapshot, request.model, now)
          PROVE  Selectable(entry', request.model)
        <3>1. /\ ~request.snapshot.disabled
              /\ Record(Copy(request.snapshot)) = request.snapshot
            BY <2>2 DEF Blocked, Record, Copy
        <3>2. entry' = [present |-> TRUE, ref |-> Copy(request.snapshot),
                 next |-> [m \in Models |-> NextRetryAt(request.snapshot, m)]]
            BY <2>1, <3>1 DEF Upsert
        <3>. QED BY <1>1, <2>2, <3>2 DEF Selectable, NextRetryAt
    <2>. QED BY <1>6, <2>1, <2>2 DEF ExcuseInv
\* What is offered is served.
<1>10. CASE SecondPick
    <2>1. /\ UNCHANGED <<conductorVars, todo, quotaMarks, suspended>>
          /\ request.pc = "rebuilt"
          /\ request' = [request EXCEPT !.pc =
                 IF Selectable(Promote(entry, request.model), request.model)
                 THEN "served" ELSE "refused"]
        BY <1>10 DEF SecondPick, Pick
    <2>2. CASE request.excused
        <3>1. request'.excused = request.excused
            BY <1>1, <2>1 DEF Requests
        <3>. QED BY <2>2, <3>1 DEF ExcuseInv
    <2>3. CASE ~request.excused
        <3>1. Selectable(entry, request.model)
            BY <2>1, <2>3 DEF ExcuseInv
        <3>2. Promote(entry, request.model) = entry
            BY <3>1 DEF Selectable, Promote
        <3>3. request' = [request EXCEPT !.pc = "served"]
            BY <2>1, <3>1, <3>2
        <3>. QED BY <1>6, <2>1, <3>3
    <2>. QED BY <2>2, <2>3
<1>11. CASE Answer
    <2>1. request'.pc = "idle"
        BY <1>11 DEF Answer, NoRequest
    <2>. QED BY <2>1 DEF ExcuseInv
<1>12. CASE UNCHANGED deliveryVars
    <2>1. /\ request' = request /\ auth' = auth /\ now' = now /\ entry' = entry
        BY <1>12 DEF deliveryVars, conductorVars
    <2>. QED BY <2>1 DEF ExcuseInv
<1>. QED BY <1>3, <1>4, <1>5, <1>7, <1>8, <1>9, <1>10, <1>11, <1>12, Zenon
         DEF DeliveryNext, Request

\* A request is refused only for a reason of its own time: because the
\* credential was blocked, or the scheduler changed under it.
THEOREM RefusalsAreExcused == DeliverySpec => []RefusalIsExcused
<1>1. ExcuseInv => RefusalIsExcused
    BY DEF ExcuseInv, RefusalIsExcused
<1>. QED BY <1>1, CopiesTimelyInit, CopiesTimelyStep, ExcuseInit, ExcuseStep, PTL
         DEF DeliverySpec

-----------------------------------------------------------------------------
(* One call at a time.  What is still to be delivered is taken as a set.   *)

\* What a caller has still to deliver, in any order.
Due(c) == ToSet(todo[c])

\* What remains of a sequence without its head.
LEMMA ToSetTail ==
    ASSUME NEW S, NEW s \in Seq(S), s # <<>>
    PROVE  ToSet(s) = {Head(s)} \cup ToSet(Tail(s))
<1>1. /\ Len(s) \in Nat /\ Len(s) >= 1 /\ DOMAIN s = 1..Len(s)
      /\ DOMAIN Tail(s) = 1..(Len(s) - 1) /\ Head(s) = s[1]
      /\ \A i \in 1..(Len(s) - 1) : Tail(s)[i] = s[i + 1]
    OBVIOUS
<1>2. ASSUME NEW i \in 1..Len(s) PROVE s[i] \in {Head(s)} \cup ToSet(Tail(s))
    <2>1. CASE i = 1
        BY <1>1, <2>1
    <2>2. CASE i # 1
        <3>1. i - 1 \in 1..(Len(s) - 1) /\ Tail(s)[i - 1] = s[i]
            BY <1>1, <2>2
        <3>. QED BY <1>1, <3>1 DEF ToSet
    <2>. QED BY <2>1, <2>2
<1>3. ASSUME NEW i \in 1..(Len(s) - 1) PROVE Tail(s)[i] \in ToSet(s)
    BY <1>1 DEF ToSet
<1>4. Head(s) \in ToSet(s)
    BY <1>1 DEF ToSet
<1>. QED BY <1>1, <1>2, <1>3, <1>4 DEF ToSet

\* What two sequences hold together.
LEMMA ToSetConcat ==
    ASSUME NEW S, NEW s \in Seq(S), NEW t \in Seq(S)
    PROVE  ToSet(s \o t) = ToSet(s) \cup ToSet(t)
<1>1. /\ Len(s) \in Nat /\ Len(t) \in Nat
      /\ DOMAIN s = 1..Len(s) /\ DOMAIN t = 1..Len(t)
      /\ DOMAIN (s \o t) = 1..(Len(s) + Len(t))
      /\ \A i \in 1..(Len(s) + Len(t)) :
            (s \o t)[i] = IF i <= Len(s) THEN s[i] ELSE t[i - Len(s)]
    OBVIOUS
<1>. DEFINE st == s \o t
<1>. HIDE DEF st
<1>2. ASSUME NEW i \in DOMAIN st PROVE st[i] \in ToSet(s) \cup ToSet(t)
    <2>1. CASE i <= Len(s)
        BY <1>1, <2>1 DEF st, ToSet
    <2>2. CASE ~(i <= Len(s))
        <3>1. i - Len(s) \in 1..Len(t) /\ st[i] = t[i - Len(s)]
            BY <1>1, <2>2 DEF st
        <3>. QED BY <1>1, <3>1 DEF ToSet
    <2>. QED BY <2>1, <2>2
<1>3. ASSUME NEW i \in 1..Len(s) PROVE s[i] \in ToSet(st)
    <2>1. i \in DOMAIN st /\ st[i] = s[i]
        BY <1>1 DEF st
    <2>. QED BY <2>1 DEF ToSet
<1>4. ASSUME NEW i \in 1..Len(t) PROVE t[i] \in ToSet(st)
    <2>1. i + Len(s) \in DOMAIN st /\ st[i + Len(s)] = t[i]
        BY <1>1 DEF st
    <2>. QED BY <2>1 DEF ToSet
<1>. QED BY <1>1, <1>2, <1>3, <1>4 DEF ToSet, st

\* What short sequences hold.
LEMMA ToSetSmall ==
    /\ ToSet(<<>>) = {}
    /\ \A x : ToSet(<<x>>) = {x}
    /\ \A x, y : ToSet(<<x, y>>) = {x, y}
    /\ \A x, y, z : ToSet(<<x, y, z>>) = {x, y, z}
<1>1. ToSet(<<>>) = {}
    BY DEF ToSet
<1>2. ASSUME NEW x PROVE ToSet(<<x>>) = {x}
    BY DEF ToSet
<1>3. ASSUME NEW x, NEW y PROVE ToSet(<<x, y>>) = {x, y}
    <2>. DEFINE s == <<x, y>>
    <2>1. DOMAIN s = {1, 2} /\ s[1] = x /\ s[2] = y
        OBVIOUS
    <2>. HIDE DEF s
    <2>2. ToSet(s) = {x, y}
        BY <2>1 DEF ToSet
    <2>. QED BY <2>2 DEF s
<1>4. ASSUME NEW x, NEW y, NEW z PROVE ToSet(<<x, y, z>>) = {x, y, z}
    <2>. DEFINE s == <<x, y, z>>
    <2>1. DOMAIN s = {1, 2, 3} /\ s[1] = x /\ s[2] = y /\ s[3] = z
        OBVIOUS
    <2>. HIDE DEF s
    <2>2. ToSet(s) = {x, y, z}
        BY <2>1 DEF ToSet
    <2>. QED BY <2>2 DEF s
<1>. QED BY <1>1, <1>2, <1>3, <1>4

\* Errors of the models outlive aggregation and clearing.
LEMMA AggregateFailed ==
    ASSUME NEW a \in Auth, NEW n, NEW m \in Models
    PROVE  Aggregate(a, n).ms[m].failed = a.ms[m].failed
<1>1. Aggregate(a, n).ms[m] = Expired(a.ms[m], n) /\ a.ms[m] \in ModelState
    BY AggregateModels DEF Auth
<1>. QED BY <1>1 DEF Expired, ModelState

\* Clearing the cooldown forgets no failure.
LEMMA ClearCooldownFailed ==
    ASSUME NEW a, NEW n \in Nat, TimelyAuth(a, n), NEW m \in Models
    PROVE  ClearCooldown(a, n).ms[m].failed = a.ms[m].failed
<1>. DEFINE b == AllWiped(a)
<1>1. b \in Auth /\ b.ms[m] = Wiped(a.ms[m]) /\ a \in Auth
    BY WipedTimely DEF TimelyAuth
<1>2. b.ms[m].failed = a.ms[m].failed
    BY <1>1 DEF Wiped, Auth, ModelState
<1>3. ClearCooldown(a, n) = IF Known(a) = {} THEN b ELSE Aggregate(b, n)
    BY DEF ClearCooldown, AllWiped
<1>. QED BY <1>1, <1>2, <1>3, AggregateFailed

\* What is to be delivered after an operation: the new record to the
\* scheduler, and marks.
Reschedules(c) ==
    /\ \E d \in Due(c)' : d.op = "schedule"
    /\ \A d \in Due(c)' : /\ d.op \in {"schedule"} \cup MarkOps
                          /\ d.op = "schedule" => Record(d.ref)' = auth'

\* The new record is all that is delivered to the scheduler.
LEMMA ReschedulesWith ==
    ASSUME NEW c \in Callers, NEW M \in SUBSET [op : MarkOps, model : Models],
           Due(c)' = {Schedule(Copy(auth'))} \cup M
    PROVE  Reschedules(c)
<1>. DEFINE s == Schedule(Copy(auth'))
<1>1. s.op = "schedule" /\ s.ref.live = FALSE /\ s.ref.rec = auth'
    BY DEF Schedule, Copy
<1>. HIDE DEF s
<1>2. ASSUME NEW d, d = s PROVE Record(d.ref)' = auth'
    BY <1>1, <1>2 DEF Record
<1>3. \A d \in M : d.op \in MarkOps /\ d.op # "schedule"
    BY DEF MarkOps
<1>4. Due(c)' = {s} \cup M
    BY DEF s
<1>. QED BY <1>1, <1>2, <1>3, <1>4 DEF Reschedules

\* What a success leaves to be delivered: nothing that hides its model.
LEMMA SuccessLeaves ==
    ASSUME CopiesTimely, NEW c \in Callers, NEW m \in Models,
           RecordSuccess(m), Call(c, AfterSuccess(m))
    PROVE  /\ Due(c)' = {Schedule(Copy(auth'))} \cup {ClearQuota(m), Resume(m)}
           /\ Reschedules(c)
           /\ \A l \in Models \ {m} : auth'.ms[l].failed = auth.ms[l].failed
<1>1. todo \in [Callers -> Seq(Deliveries(now))] /\ auth \in Auth
      /\ now \in Nat
    BY DEF CopiesTimely, TimelyState, ConductorTypeOK
<1>2. todo'[c] = <<Schedule(Copy(auth')), ClearQuota(m), Resume(m)>>
    BY <1>1 DEF Call, AfterSuccess
<1>3. Due(c)' = {Schedule(Copy(auth'))} \cup {ClearQuota(m), Resume(m)}
    BY <1>2, ToSetSmall DEF Due
<1>4. Reschedules(c)
    <2>1. {ClearQuota(m), Resume(m)} \subseteq [op : MarkOps, model : Models]
        BY DEF ClearQuota, Resume, MarkOps
    <2>. QED BY <1>3, <2>1, ReschedulesWith
<1>5. ASSUME NEW l \in Models \ {m}
      PROVE  auth'.ms[l].failed = auth.ms[l].failed
    <2>. DEFINE a == [auth EXCEPT !.ms[m] = CleanState]
    <2>1. a \in Auth /\ a.ms[l] = auth.ms[l]
        BY <1>1, EmptyRecords DEF Auth
    <2>2. auth' = Settled(Aggregate(a, now))
        BY DEF RecordSuccess
    <2>3. TimelyAuth(Aggregate(a, now), now)
        <3>1. TimelyAuth(auth, now) /\ Timely(CleanState, now)
            BY <1>1, EmptyRecords, WaitAssumption
            DEF CopiesTimely, TimelyState, Timely, WaitAssumption
        <3>. QED BY <1>1, <3>1, EmptyRecords, ReplaceModelTimely, AggregateTimely
    <2>. HIDE DEF a
    <2>4. auth'.ms = Aggregate(a, now).ms
        BY <2>2, <2>3, SettledModels DEF TimelyAuth
    <2>. QED BY <1>1, <2>1, <2>4, AggregateFailed
<1>. QED BY <1>3, <1>4, <1>5

\* What a failure leaves to be delivered: it hides only the model that failed.
LEMMA FailureLeaves ==
    ASSUME CopiesTimely, NEW c \in Callers, NEW m \in Models, NEW k \in Kinds,
           NEW h \in HintsFor(k),
           RecordFailure(m, k, h), Call(c, AfterFailure(m, k))
    PROVE  /\ Due(c)' \subseteq {Schedule(Copy(auth')), MarkQuota(m), Suspend(m)}
           /\ Reschedules(c)
           /\ auth'.ms[m].failed
           /\ \A l \in Models \ {m} : auth'.ms[l].failed = auth.ms[l].failed
<1>1. todo \in [Callers -> Seq(Deliveries(now))] /\ auth \in Auth
      /\ now \in Nat /\ TimelyAuth(auth, now) /\ cooling \in BOOLEAN
    BY DEF CopiesTimely, TimelyState, ConductorTypeOK
<1>. DEFINE d == Schedule(Copy(auth'))
<1>2. PICK M \in SUBSET {MarkQuota(m), Suspend(m)} : Due(c)' = {d} \cup M
    <2>. DEFINE q == IF k = "quota" /\ cooling THEN <<MarkQuota(m)>> ELSE <<>>
                r == IF Suspends(k) THEN <<Suspend(m)>> ELSE <<>>
                S == {d, MarkQuota(m), Suspend(m)}
    <2>1. todo'[c] = <<d>> \o q \o r
        <3>1. todo'[c] = AfterFailure(m, k)
            BY <1>1 DEF Call
        <3>. QED BY <3>1, Zenon DEF AfterFailure
    <2>. HIDE DEF d
    <2>2. <<d>> \in Seq(S) /\ q \in Seq(S) /\ r \in Seq(S)
        <3>1. d \in S /\ MarkQuota(m) \in S /\ Suspend(m) \in S
            OBVIOUS
        <3>. HIDE DEF S
        <3>. QED BY <3>1, ShortSeq, Zenon
    <2>3. /\ ToSet(q) \in {{}, {MarkQuota(m)}} /\ ToSet(r) \in {{}, {Suspend(m)}}
          /\ ToSet(<<d>>) = {d}
        BY ToSetSmall
    <2>. HIDE DEF S, q, r
    <2>4. <<d>> \o q \in Seq(S)
        BY <2>2
    <2>5. /\ ToSet(<<d>> \o q \o r) = ToSet(<<d>> \o q) \cup ToSet(r)
          /\ ToSet(<<d>> \o q) = ToSet(<<d>>) \cup ToSet(q)
        <3>1. ToSet(<<d>> \o q \o r) = ToSet(<<d>> \o q) \cup ToSet(r)
            BY <2>2, <2>4, ToSetConcat, ZenonT(30)
        <3>2. ToSet(<<d>> \o q) = ToSet(<<d>>) \cup ToSet(q)
            BY <2>2, ToSetConcat, ZenonT(30)
        <3>. QED BY <3>1, <3>2
    <2>6. Due(c)' = ToSet(<<d>> \o q \o r)
        BY <2>1 DEF Due
    <2>7. Due(c)' = {d} \cup (ToSet(q) \cup ToSet(r))
        BY <2>3, <2>5, <2>6
    <2>8. ToSet(q) \cup ToSet(r) \in SUBSET {MarkQuota(m), Suspend(m)}
        BY <2>3
    <2>. QED BY <2>7, <2>8, Zenon
<1>3. Reschedules(c)
    <2>1. {MarkQuota(m), Suspend(m)} \subseteq [op : MarkOps, model : Models]
        BY DEF MarkQuota, Suspend, MarkOps
    <2>2. M \in SUBSET [op : MarkOps, model : Models]
        BY <2>1
    <2>. QED BY <1>2, <2>2, ReschedulesWith
<1>. DEFINE s == FailedModel(auth.ms[m], k, h, cooling, now)
            a == [auth EXCEPT !.failed = TRUE, !.ms[m] = s]
<1>4. s \in ModelState /\ s.failed
    <2>1. h \in Hints \cup {NoHint} /\ auth.ms[m] \in ModelState
          /\ Timely(auth.ms[m], now)
        BY <1>1 DEF HintsFor, TimelyAuth, Auth
    <2>2. s \in ModelState
        BY <1>1, <2>1, FailedModelTimely
    <2>3. s.failed
        BY <2>1 DEF FailedModel, Limited, ModelState
    <2>. QED BY <2>2, <2>3
<1>5. auth' = Aggregate(a, now)
    BY DEF RecordFailure
<1>. HIDE DEF s
<1>6. a \in Auth /\ a.ms[m] = s /\ \A l \in Models \ {m} : a.ms[l] = auth.ms[l]
    BY <1>1, <1>4 DEF Auth
<1>. HIDE DEF a, d
<1>7. \A l \in Models : auth'.ms[l].failed = a.ms[l].failed
    BY <1>5, <1>6, AggregateFailed
<1>8. Due(c)' \subseteq {d, MarkQuota(m), Suspend(m)}
    BY <1>2
<1>. QED BY <1>3, <1>4, <1>6, <1>7, <1>8 DEF d

\* A reset clears the marks of every model that has a state.
LEMMA ResetLeaves ==
    ASSUME CopiesTimely, NEW c \in Callers, ResetQuota,
           NEW models \in ResetOrders, Call(c, AfterReset(models))
    PROVE  /\ Reschedules(c)
           /\ \A d \in Due(c)' : d.op \notin {"mark_quota", "suspend"}
           /\ \A m \in Known(auth) : ClearQuota(m) \in Due(c)'
                                     /\ Resume(m) \in Due(c)'
<1>. DEFINE R == [op : {"clear_quota", "resume"}, model : Models]
            r == RegistryReset(models)
            s == Schedule(Copy(auth'))
<1>1. todo \in [Callers -> Seq(Deliveries(now))] /\ auth \in Auth
    BY DEF CopiesTimely, TimelyState, ConductorTypeOK
<1>2. /\ models \in Seq(Models) /\ Len(models) \in Nat
      /\ \A m \in Known(auth) : \E i \in 1..Len(models) : models[i] = m
    BY <1>1, ResetOrderFacts
<1>3. /\ r \in Seq(R) /\ Len(r) = 2 * Len(models)
      /\ \A i \in 1..Len(models) : /\ r[2 * i - 1] = ClearQuota(models[i])
                                   /\ r[2 * i] = Resume(models[i])
    BY <1>2, ResetDeliveries, Zenon
<1>4. todo'[c] = r \o <<s>>
    BY <1>1 DEF Call, AfterReset
<1>. HIDE DEF r, s
<1>5. Due(c)' = ToSet(r) \cup {s}
    <2>1. r \in Seq(R \cup {s}) /\ <<s>> \in Seq(R \cup {s})
        <3>1. R \subseteq R \cup {s}
            OBVIOUS
        <3>2. r \in Seq(R \cup {s})
            BY <1>3, <3>1, SeqLarger, Zenon
        <3>. HIDE DEF R
        <3>3. <<s>> \in Seq(R \cup {s})
            OBVIOUS
        <3>. QED BY <3>2, <3>3
    <2>2. ToSet(r \o <<s>>) = ToSet(r) \cup ToSet(<<s>>)
        <3>. DEFINE T == R \cup {s}
        <3>1. r \in Seq(T) /\ <<s>> \in Seq(T)
            BY <2>1
        <3>. HIDE DEF T
        <3>. QED BY <3>1, ToSetConcat
    <2>. QED BY <1>4, <2>2, ToSetSmall DEF Due
<1>6. ToSet(r) \subseteq R
    <2>. HIDE DEF R
    <2>. QED BY <1>3 DEF ToSet
<1>7. R \subseteq [op : MarkOps, model : Models]
    BY DEF MarkOps
<1>8. Reschedules(c)
    <2>1. Due(c)' = {Schedule(Copy(auth'))} \cup ToSet(r)
        BY <1>5 DEF s
    <2>2. ToSet(r) \in SUBSET [op : MarkOps, model : Models]
        BY <1>6, <1>7
    <2>. QED BY <2>1, <2>2, ReschedulesWith
<1>9. \A d \in Due(c)' : d.op \notin {"mark_quota", "suspend"}
    <2>1. s.op = "schedule"
        BY DEF s, Schedule
    <2>. QED BY <1>5, <1>6, <2>1
<1>10. ASSUME NEW m \in Known(auth)
       PROVE  ClearQuota(m) \in Due(c)' /\ Resume(m) \in Due(c)'
    <2>1. PICK i \in 1..Len(models) : models[i] = m
        BY <1>2
    <2>2. 2 * i - 1 \in DOMAIN r /\ 2 * i \in DOMAIN r
        <3>1. DOMAIN r = 1..(2 * Len(models))
            <4>. HIDE DEF R
            <4>. QED BY <1>3
        <3>. QED BY <1>2, <3>1
    <2>3. r[2 * i - 1] = ClearQuota(m) /\ r[2 * i] = Resume(m)
        BY <1>3, <2>1
    <2>4. r[2 * i - 1] \in ToSet(r) /\ r[2 * i] \in ToSet(r)
        BY <2>2, Zenon DEF ToSet
    <2>. QED BY <1>5, <2>3, <2>4
<1>. QED BY <1>8, <1>9, <1>10

\* Clearing and switching keep the errors of the models, and deliver nothing
\* but the record.
LEMMA ClearLeaves ==
    ASSUME CopiesTimely, NEW c \in Callers, ClearDisabled(c)
    PROVE  /\ Due(c)' \subseteq {Schedule(Copy(auth'))}
           /\ \A m \in Models : auth'.ms[m].failed = auth.ms[m].failed
           /\ UNCHANGED <<quotaMarks, suspended, entry>> /\ Idle(c)
<1>1. /\ todo \in [Callers -> Seq(Deliveries(now))] /\ now \in Nat
      /\ TimelyAuth(auth, now)
    BY DEF CopiesTimely, TimelyState, ConductorTypeOK
<1>2. \E ds \in {<<>>, <<Schedule(Copy(auth'))>>} : Call(c, ds)
    BY DEF ClearDisabled
<1>3. /\ todo'[c] \in {<<>>, <<Schedule(Copy(auth'))>>}
      /\ UNCHANGED <<quotaMarks, suspended, entry>> /\ Idle(c)
    BY <1>1, <1>2 DEF Call
<1>4. auth' = auth \/ auth' = ClearCooldown(auth, now)
    BY Zenon DEF ClearDisabled, ClearDisabledCooldownStates
<1>5. \A m \in Models : auth'.ms[m].failed = auth.ms[m].failed
    BY <1>1, <1>4, ClearCooldownFailed
<1>6. Due(c)' \subseteq {Schedule(Copy(auth'))}
    BY <1>3, ToSetSmall DEF Due
<1>. QED BY <1>3, <1>5, <1>6

\* What an update leaves to be delivered.
LEMMA UpdateLeaves ==
    ASSUME CopiesTimely, NEW c \in Callers, NEW b \in BOOLEAN, Update(c, b)
    PROVE  /\ Due(c)' = {Schedule(Live)}
           /\ \A m \in Models : auth'.ms[m].failed = auth.ms[m].failed
           /\ UNCHANGED <<quotaMarks, suspended>> /\ Idle(c)
<1>1. /\ todo \in [Callers -> Seq(Deliveries(now))] /\ now \in Nat
      /\ TimelyAuth(auth, now)
    BY DEF CopiesTimely, TimelyState, ConductorTypeOK
<1>2. /\ todo'[c] = <<Schedule(Live)>>
      /\ UNCHANGED <<quotaMarks, suspended>> /\ Idle(c)
    BY DEF Update
<1>. DEFINE a == [auth EXCEPT !.disabled = b, !.failed = FALSE]
<1>3. TimelyAuth(a, now) /\ a.ms = auth.ms
    BY <1>1 DEF TimelyAuth, Auth, Timely
<1>4. auth' = a \/ auth' = ClearCooldown(a, now)
    BY DEF Update, SetDisabled
<1>. HIDE DEF a
<1>5. \A m \in Models : auth'.ms[m].failed = auth.ms[m].failed
    BY <1>1, <1>3, <1>4, ClearCooldownFailed
<1>6. Due(c)' = {Schedule(Live)}
    BY <1>2, ToSetSmall DEF Due
<1>. QED BY <1>2, <1>5, <1>6

\* What a new binding leaves to be delivered: the registry starts anew.
LEMMA RebindLeaves ==
    ASSUME CopiesTimely, NEW c \in Callers, Rebind(c)
    PROVE  /\ todo'[c] = <<ReconcileAfter, RefreshEntry>>
           /\ Due(c)' = {ReconcileAfter, RefreshEntry}
           /\ UNCHANGED <<conductorVars, entry>>
           /\ quotaMarks' = {} /\ suspended' = {} /\ ~auth.disabled
<1>1. /\ todo \in [Callers -> Seq(Deliveries(now))]
    BY DEF CopiesTimely
<1>2. todo'[c] = <<ReconcileAfter, RefreshEntry>>
    BY <1>1 DEF Rebind
<1>. QED BY <1>2, ToSetSmall, Zenon DEF Rebind, Due

\* A change of the configuration touches neither record nor mirrors.
LEMMA StoreLeaves ==
    ASSUME CopiesTimely, NEW c \in Callers, NEW b \in BOOLEAN, Store(c, b)
    PROVE  /\ Due(c)' = {} /\ Idle(c)
           /\ auth' = auth /\ now' = now
           /\ UNCHANGED <<quotaMarks, suspended, entry>>
<1>1. /\ todo \in [Callers -> Seq(Deliveries(now))]
    BY DEF CopiesTimely
<1>2. todo'[c] = <<>>
    BY <1>1 DEF Store, Call
<1>. QED BY <1>2, ToSetSmall, Zenon DEF Store, Call, StoreConfig, Due

\* What one delivery takes from the set, and adds to it.
LEMMA DeliveryTakes ==
    ASSUME CopiesTimely, NEW c \in Callers, ~Idle(c)
    PROVE  /\ todo[c] \in Seq(Deliveries(now)) /\ todo[c] # <<>>
           /\ Head(todo[c]) \in Due(c)
           /\ Due(c) = {Head(todo[c])} \cup ToSet(Tail(todo[c]))
           /\ \A t : todo' = [todo EXCEPT ![c] = t] => Due(c)' = ToSet(t)
<1>1. /\ todo \in [Callers -> Seq(Deliveries(now))] /\ todo[c] # <<>>
    BY DEF CopiesTimely, Idle
<1>2. todo[c] \in Seq(Deliveries(now))
    BY <1>1
<1>3. Due(c) = {Head(todo[c])} \cup ToSet(Tail(todo[c]))
    BY <1>1, <1>2, ToSetTail, Zenon DEF Due
<1>4. ASSUME NEW t, todo' = [todo EXCEPT ![c] = t] PROVE Due(c)' = ToSet(t)
    <2>1. todo'[c] = t
        BY <1>1, <1>4
    <2>. QED BY <2>1 DEF Due
<1>. QED BY <1>1, <1>2, <1>3, <1>4

\* An idle caller has nothing to deliver.
LEMMA IdleDue == ASSUME NEW c, Idle(c) PROVE Due(c) = {}
BY ToSetSmall DEF Idle, Due

\* What a reconciliation leaves to be delivered.
LEMMA ReconcileLeaves ==
    ASSUME CopiesTimely, NEW c \in Callers, DeliverReconcile(c),
           todo[c] = <<ReconcileAfter, RefreshEntry>>
    PROVE  /\ \/ Due(c)' = {Schedule(Copy(auth')), RefreshEntry}
              \/ Due(c)' = {RefreshEntry} /\ UNCHANGED conductorVars
           /\ UNCHANGED <<entry, quotaMarks, suspended>>
<1>1. /\ todo \in [Callers -> Seq(Deliveries(now))]
    BY DEF CopiesTimely
<1>2. Tail(todo[c]) = <<RefreshEntry>>
    OBVIOUS
<1>. DEFINE s == Schedule(Copy(auth'))
<1>3. /\ \/ todo' = [todo EXCEPT ![c] = <<s>> \o <<RefreshEntry>>]
         \/ todo' = [todo EXCEPT ![c] = <<RefreshEntry>>] /\ UNCHANGED conductorVars
      /\ UNCHANGED <<entry, quotaMarks, suspended>>
    BY <1>2, Zenon DEF DeliverReconcile
<1>. HIDE DEF s
<1>4. ToSet(<<s>> \o <<RefreshEntry>>) = {s, RefreshEntry}
    <2>. DEFINE S == {s, RefreshEntry}
    <2>1. s \in S /\ RefreshEntry \in S
        OBVIOUS
    <2>2. <<s>> \in Seq(S) /\ <<RefreshEntry>> \in Seq(S)
        BY <2>1, ShortSeq, Zenon
    <2>. HIDE DEF S
    <2>3. ToSet(<<s>> \o <<RefreshEntry>>) = ToSet(<<s>>) \cup ToSet(<<RefreshEntry>>)
        BY <2>2, ToSetConcat
    <2>4. ToSet(<<s>>) = {s} /\ ToSet(<<RefreshEntry>>) = {RefreshEntry}
        BY ToSetSmall, Zenon
    <2>. QED BY <2>3, <2>4
<1>5. \/ todo'[c] = <<s>> \o <<RefreshEntry>>
      \/ todo'[c] = <<RefreshEntry>> /\ UNCHANGED conductorVars
    BY <1>1, <1>3
<1>6. ToSet(<<RefreshEntry>>) = {RefreshEntry}
    BY ToSetSmall, Zenon
<1>. QED BY <1>3, <1>4, <1>5, <1>6, Zenon DEF Due, s

-----------------------------------------------------------------------------
(* The registry's marks.  Between calls a mark is justified by an error of *)
(* its model; while a call is delivering, an unjustified mark is about to  *)
(* be cleared, and none is set that is not justified.                      *)

\* Once c has delivered the rest, the marks are those the record calls for.
MarksSettle(c) ==
    /\ \A m \in Models :
          MarkQuota(m) \in Due(c) \/ Suspend(m) \in Due(c) => auth.ms[m].failed
    /\ \A m \in quotaMarks : auth.ms[m].failed \/ ClearQuota(m) \in Due(c)
    /\ \A m \in suspended : auth.ms[m].failed \/ Resume(m) \in Due(c)
    /\ ReconcileAfter \in Due(c) =>
          /\ quotaMarks = {} /\ suspended = {}
          /\ todo[c] = <<ReconcileAfter, RefreshEntry>>

\* The calls of a behaviour come from one caller and none fails.
Lone(c) == setting.callers = {c} /\ ~setting.failing

\* While a single caller is at work, its deliveries settle the marks.
RegistryInv ==
    /\ quotaMarks \subseteq Models /\ suspended \subseteq Models
    /\ \A c \in Callers : Lone(c) => MarksSettle(c)

\* The kinds of deliveries are told apart by their names.
LEMMA OpsDiffer ==
    ASSUME NEW m \in Models
    PROVE  /\ ClearQuota(m).op = "clear_quota" /\ MarkQuota(m).op = "mark_quota"
           /\ Resume(m).op = "resume" /\ Suspend(m).op = "suspend"
           /\ ReconcileAfter.op = "reconcile" /\ RefreshEntry.op = "refresh"
           /\ ClearQuota(m).model = m /\ MarkQuota(m).model = m
           /\ Resume(m).model = m /\ Suspend(m).model = m
BY DEF ClearQuota, MarkQuota, Resume, Suspend, ReconcileAfter, RefreshEntry

\* A delivery to the scheduler and its record.
LEMMA ScheduleOp == \A ref : Schedule(ref).op = "schedule" /\ Schedule(ref).ref = ref
BY DEF Schedule

\* The two deliveries of a new binding.
LEMMA WholeOps ==
    ReconcileAfter.op = "reconcile" /\ RefreshEntry.op = "refresh"
BY DEF ReconcileAfter, RefreshEntry

\* Marks stay justified when no error goes and no mark comes.
LEMMA MarksKept ==
    ASSUME NEW c, MarksSettle(c), Due(c) = {},
           \A d \in Due(c)' : d.op \in {"schedule", "refresh"},
           UNCHANGED <<quotaMarks, suspended>>,
           quotaMarks \subseteq Models, suspended \subseteq Models,
           \A m \in Models : auth'.ms[m].failed = auth.ms[m].failed
    PROVE  MarksSettle(c)'
<1>1. \A m \in Models : MarkQuota(m) \notin Due(c)' /\ Suspend(m) \notin Due(c)'
    BY OpsDiffer
<1>2. ReconcileAfter \notin Due(c)'
    BY WholeOps
<1>3. /\ \A m \in quotaMarks' : m \in Models /\ auth'.ms[m].failed
      /\ \A m \in suspended' : m \in Models /\ auth'.ms[m].failed
    BY DEF MarksSettle
<1>. QED BY <1>1, <1>2, <1>3 DEF MarksSettle

\* A call that begins leaves the marks to settle.
LEMMA MarksOfBegin ==
    ASSUME CopiesTimely, Tidy(auth), NEW c \in Callers, Lone(c), Begin(c),
           MarksSettle(c), quotaMarks \subseteq Models, suspended \subseteq Models
    PROVE  /\ quotaMarks' \subseteq Models /\ suspended' \subseteq Models
           /\ MarksSettle(c)'
<1>1. Due(c) = {}
    <2>1. Idle(c)
        BY Zenon DEF Begin, MarkResult, Reset, Store, Update, ClearDisabled, Rebind,
           Call
    <2>. QED BY <2>1, IdleDue
<1>2. /\ \A m \in quotaMarks : m \in Models /\ auth.ms[m].failed
      /\ \A m \in suspended : m \in Models /\ auth.ms[m].failed
    BY <1>1 DEF MarksSettle
<1>3. ASSUME NEW m \in Models, RecordSuccess(m), Call(c, AfterSuccess(m))
      PROVE  /\ UNCHANGED <<quotaMarks, suspended>> /\ MarksSettle(c)'
    <2>1. /\ UNCHANGED <<quotaMarks, suspended>>
          /\ Due(c)' = {Schedule(Copy(auth'))} \cup {ClearQuota(m), Resume(m)}
          /\ \A l \in Models \ {m} : auth'.ms[l].failed = auth.ms[l].failed
        BY <1>3, SuccessLeaves DEF Call
    <2>. DEFINE s == Schedule(Copy(auth'))
    <2>2. s.op = "schedule"
        BY ScheduleOp
    <2>3. \A d \in Due(c)' : d.op \in {"schedule", "clear_quota", "resume"}
        BY <2>1, <2>2, OpsDiffer
    <2>4. /\ \A l \in Models : MarkQuota(l) \notin Due(c)' /\ Suspend(l) \notin Due(c)'
          /\ ReconcileAfter \notin Due(c)'
        BY <2>3, OpsDiffer, WholeOps
    <2>5. /\ \A l \in quotaMarks' : auth'.ms[l].failed \/ ClearQuota(l) \in Due(c)'
          /\ \A l \in suspended' : auth'.ms[l].failed \/ Resume(l) \in Due(c)'
        BY <1>2, <2>1
    <2>. QED BY <2>1, <2>4, <2>5 DEF MarksSettle
<1>4. ASSUME NEW m \in Models, NEW k \in Kinds, NEW h \in HintsFor(k),
             RecordFailure(m, k, h), Call(c, AfterFailure(m, k))
      PROVE  /\ UNCHANGED <<quotaMarks, suspended>> /\ MarksSettle(c)'
    <2>. DEFINE s == Schedule(Copy(auth'))
    <2>1. /\ UNCHANGED <<quotaMarks, suspended>>
          /\ Due(c)' \subseteq {s, MarkQuota(m), Suspend(m)}
          /\ auth'.ms[m].failed
          /\ \A l \in Models \ {m} : auth'.ms[l].failed = auth.ms[l].failed
        BY <1>4, FailureLeaves DEF Call
    <2>2. s.op = "schedule"
        BY ScheduleOp
    <2>. HIDE DEF s
    <2>3. \A l \in Models : MarkQuota(l) \in Due(c)' \/ Suspend(l) \in Due(c)' => l = m
        BY <2>1, <2>2, OpsDiffer
    <2>4. ReconcileAfter \notin Due(c)'
        BY <2>1, <2>2, OpsDiffer, WholeOps
    <2>5. /\ \A l \in quotaMarks' : auth'.ms[l].failed
          /\ \A l \in suspended' : auth'.ms[l].failed
        BY <1>2, <2>1
    <2>. QED BY <2>1, <2>3, <2>4, <2>5 DEF MarksSettle
<1>5. CASE Reset(c)
    <2>1. PICK models \in ResetOrders : ResetQuota /\ Call(c, AfterReset(models))
        BY <1>5 DEF Reset, Lone
    <2>2. /\ UNCHANGED <<quotaMarks, suspended>>
          /\ Reschedules(c)
          /\ \A d \in Due(c)' : d.op \notin {"mark_quota", "suspend"}
          /\ \A m \in Known(auth) : ClearQuota(m) \in Due(c)' /\ Resume(m) \in Due(c)'
        BY <2>1, ResetLeaves DEF Call
    <2>3. \A m \in Models : auth.ms[m].failed => m \in Known(auth)
        BY DEF Tidy, Known, AbsentState
    <2>4. /\ \A l \in quotaMarks' : ClearQuota(l) \in Due(c)'
          /\ \A l \in suspended' : Resume(l) \in Due(c)'
        BY <1>2, <2>2, <2>3
    <2>5. \A l \in Models : MarkQuota(l) \notin Due(c)' /\ Suspend(l) \notin Due(c)'
        BY <2>2, OpsDiffer
    <2>6. ReconcileAfter \notin Due(c)'
        BY <2>2, WholeOps DEF Reschedules, MarkOps
    <2>. QED BY <2>2, <2>4, <2>5, <2>6 DEF MarksSettle
<1>6. CASE ClearDisabled(c)
    BY <1>1, <1>6, ClearLeaves, ScheduleOp, MarksKept
<1>7. ASSUME NEW b \in BOOLEAN, Update(c, b)
      PROVE  /\ UNCHANGED <<quotaMarks, suspended>> /\ MarksSettle(c)'
    BY <1>1, <1>7, UpdateLeaves, ScheduleOp, MarksKept
<1>8. CASE Rebind(c)
    <2>1. /\ todo'[c] = <<ReconcileAfter, RefreshEntry>>
          /\ Due(c)' = {ReconcileAfter, RefreshEntry}
          /\ quotaMarks' = {} /\ suspended' = {}
        BY <1>8, RebindLeaves
    <2>2. \A l \in Models : MarkQuota(l) \notin Due(c)' /\ Suspend(l) \notin Due(c)'
        BY <2>1, OpsDiffer, WholeOps
    <2>. QED BY <2>1, <2>2 DEF MarksSettle
<1>9. ASSUME NEW b \in BOOLEAN, Store(c, b)
      PROVE  /\ UNCHANGED <<quotaMarks, suspended>> /\ MarksSettle(c)'
    BY <1>1, <1>9, StoreLeaves, MarksKept
<1>10. CASE MarkResult(c)
    <2>1. \A k \in setting.kinds : k \in Kinds
        BY DeliveryAssumption DEF CopiesTimely, DeliveryAssumption
    <2>2. \/ \E m \in Models : RecordSuccess(m) /\ Call(c, AfterSuccess(m))
          \/ \E m \in Models, k \in Kinds : \E h \in HintsFor(k) :
                RecordFailure(m, k, h) /\ Call(c, AfterFailure(m, k))
        <3>1. \A k, h : h \in HintsFor(k) \cap (setting.hints \cup {NoHint})
                            => h \in HintsFor(k)
            OBVIOUS
        <3>. QED BY <1>10, <2>1, <3>1, Zenon DEF MarkResult
    <2>. QED BY <1>3, <1>4, <2>2
<1>. QED BY <1>5, <1>6, <1>7, <1>8, <1>9, <1>10 DEF Begin

\* A delivery leaves the marks to settle.
LEMMA MarksOfDelivery ==
    ASSUME CopiesTimely, NEW c \in Callers, Deliver(c),
           MarksSettle(c), quotaMarks \subseteq Models, suspended \subseteq Models
    PROVE  /\ quotaMarks' \subseteq Models /\ suspended' \subseteq Models
           /\ MarksSettle(c)'
<1>. DEFINE h == Head(todo[c])
            T == ToSet(Tail(todo[c]))
            t == todo[c]
<1>1. ~Idle(c)
    BY Zenon DEF Deliver, DeliverSchedule, DeliverMark, DeliverReconcile,
       DeliverRefresh
<1>2. /\ h \in Due(c) /\ Due(c) = {h} \cup T
      /\ todo[c] \in Seq(Deliveries(now)) /\ h \in Deliveries(now)
      /\ \A u : todo' = [todo EXCEPT ![c] = u] => Due(c)' = ToSet(u)
    BY <1>1, DeliveryTakes DEF Idle
<1>3. ReconcileAfter \in Due(c) => h = ReconcileAfter /\ T = {RefreshEntry}
    <2>. SUFFICES ASSUME ReconcileAfter \in Due(c)
                  PROVE  h = ReconcileAfter /\ T = {RefreshEntry}
        OBVIOUS
    <2>1. t = <<ReconcileAfter, RefreshEntry>>
        BY DEF MarksSettle
    <2>2. Head(t) = ReconcileAfter /\ Tail(t) = <<RefreshEntry>>
        BY <2>1
    <2>. QED BY <2>2, ToSetSmall, Zenon
<1>. HIDE DEF h, T, t
\* What remains true of the deliveries that remain.
<1>4. ASSUME auth' = auth, Due(c)' \subseteq T \cup {Schedule(Copy(auth))},
             T \subseteq Due(c)', ReconcileAfter \notin T,
             quotaMarks' \subseteq Models, suspended' \subseteq Models,
             \A m \in quotaMarks' : auth.ms[m].failed \/ ClearQuota(m) \in T,
             \A m \in suspended' : auth.ms[m].failed \/ Resume(m) \in T
      PROVE  MarksSettle(c)'
    <2>1. \A m \in Models :
              MarkQuota(m) \in Due(c)' \/ Suspend(m) \in Due(c)' => auth'.ms[m].failed
        BY <1>2, <1>4, OpsDiffer, ScheduleOp DEF MarksSettle
    <2>2. ReconcileAfter \notin Due(c)'
        BY <1>4, OpsDiffer, WholeOps, ScheduleOp
    <2>3. /\ \A m \in quotaMarks' : auth'.ms[m].failed \/ ClearQuota(m) \in Due(c)'
          /\ \A m \in suspended' : auth'.ms[m].failed \/ Resume(m) \in Due(c)'
        BY <1>4
    <2>. QED BY <2>1, <2>2, <2>3 DEF MarksSettle
<1>5. h.op # "reconcile" => ReconcileAfter \notin T
    BY <1>2, <1>3, WholeOps
<1>6. CASE DeliverSchedule(c)
    <2>1. /\ h.op = "schedule" /\ auth' = auth /\ UNCHANGED <<quotaMarks, suspended>>
          /\ todo' = [todo EXCEPT ![c] = Tail(todo[c])]
        BY <1>6, Zenon DEF DeliverSchedule, conductorVars, h
    <2>2. Due(c)' = T
        BY <1>2, <2>1 DEF T
    <2>3. /\ \A m \in quotaMarks : ClearQuota(m) # h
          /\ \A m \in suspended : Resume(m) # h
        BY <2>1, OpsDiffer
    <2>. QED BY <1>2, <1>4, <1>5, <2>1, <2>2, <2>3 DEF MarksSettle
<1>7. CASE DeliverMark(c)
    <2>1. /\ h.op \in MarkOps /\ auth' = auth
          /\ todo' = [todo EXCEPT ![c] = Tail(todo[c])]
        BY <1>7, Zenon DEF DeliverMark, conductorVars, h, MarkOps
    <2>2. Due(c)' = T
        BY <1>2, <2>1 DEF T
    <2>3. h \in [op : MarkOps, model : Models]
        BY <1>2, <2>1 DEF Deliveries, MarkOps
    <2>4. /\ quotaMarks' = CASE h.op = "mark_quota"  -> quotaMarks \cup {h.model}
                             [] h.op = "clear_quota" -> quotaMarks \ {h.model}
                             [] OTHER                -> quotaMarks
          /\ suspended' = CASE h.op = "suspend" -> suspended \cup {h.model}
                            [] h.op = "resume"  -> suspended \ {h.model}
                            [] OTHER            -> suspended
        BY <1>7 DEF DeliverMark, h
    <2>5. ReconcileAfter \notin T
        BY <1>5, <2>1 DEF MarkOps
    <2>6. /\ h.op = "clear_quota" => h = ClearQuota(h.model)
          /\ h.op = "mark_quota"  => h = MarkQuota(h.model)
          /\ h.op = "suspend"     => h = Suspend(h.model)
          /\ h.op = "resume"      => h = Resume(h.model)
        BY <2>3 DEF ClearQuota, MarkQuota, Suspend, Resume
    <2>7. \A m \in quotaMarks' : /\ m \in Models
                                 /\ auth.ms[m].failed \/ ClearQuota(m) \in T
        <3>1. CASE h.op = "mark_quota"
            <4>1. quotaMarks' = quotaMarks \cup {h.model} /\ auth.ms[h.model].failed
                BY <1>2, <2>3, <2>4, <2>6, <3>1 DEF MarksSettle
            <4>2. \A m \in Models : ClearQuota(m) # h
                BY <3>1, OpsDiffer
            <4>. QED BY <1>2, <2>3, <4>1, <4>2 DEF MarksSettle
        <3>2. CASE h.op = "clear_quota"
            <4>1. quotaMarks' = quotaMarks \ {h.model}
                BY <2>4, <3>2
            <4>2. \A m \in Models : ClearQuota(m) = h => m = h.model
                BY OpsDiffer
            <4>. QED BY <1>2, <4>1, <4>2 DEF MarksSettle
        <3>3. CASE h.op \notin {"mark_quota", "clear_quota"}
            <4>1. quotaMarks' = quotaMarks
                BY <2>4, <3>3
            <4>2. \A m \in Models : ClearQuota(m) # h
                BY <3>3, OpsDiffer
            <4>. QED BY <1>2, <4>1, <4>2 DEF MarksSettle
        <3>. QED BY <3>1, <3>2, <3>3
    <2>8. \A m \in suspended' : /\ m \in Models
                                /\ auth.ms[m].failed \/ Resume(m) \in T
        <3>1. CASE h.op = "suspend"
            <4>1. suspended' = suspended \cup {h.model} /\ auth.ms[h.model].failed
                BY <1>2, <2>3, <2>4, <2>6, <3>1 DEF MarksSettle
            <4>2. \A m \in Models : Resume(m) # h
                BY <3>1, OpsDiffer
            <4>. QED BY <1>2, <2>3, <4>1, <4>2 DEF MarksSettle
        <3>2. CASE h.op = "resume"
            <4>1. suspended' = suspended \ {h.model}
                BY <2>4, <3>2
            <4>2. \A m \in Models : Resume(m) = h => m = h.model
                BY OpsDiffer
            <4>. QED BY <1>2, <4>1, <4>2 DEF MarksSettle
        <3>3. CASE h.op \notin {"suspend", "resume"}
            <4>1. suspended' = suspended
                BY <2>4, <3>3
            <4>2. \A m \in Models : Resume(m) # h
                BY <3>3, OpsDiffer
            <4>. QED BY <1>2, <4>1, <4>2 DEF MarksSettle
        <3>. QED BY <3>1, <3>2, <3>3
    <2>. QED BY <1>4, <2>1, <2>2, <2>5, <2>7, <2>8
<1>8. CASE DeliverReconcile(c)
    <2>1. h.op = "reconcile" /\ h \in [op : {"reconcile", "refresh"}]
        BY <1>2, <1>8 DEF DeliverReconcile, h, Deliveries, MarkOps
    <2>2. h = ReconcileAfter
        BY <2>1 DEF ReconcileAfter
    <2>3. /\ quotaMarks = {} /\ suspended = {}
          /\ todo[c] = <<ReconcileAfter, RefreshEntry>>
        BY <1>2, <2>2 DEF MarksSettle
    <2>4. /\ \A d \in Due(c)' : d.op \in {"schedule", "refresh"}
          /\ quotaMarks' = {} /\ suspended' = {}
        BY <1>8, <2>3, ReconcileLeaves, ScheduleOp, WholeOps
    <2>5. \A m \in Models : MarkQuota(m) \notin Due(c)' /\ Suspend(m) \notin Due(c)'
        BY <2>4, OpsDiffer
    <2>6. ReconcileAfter \notin Due(c)'
        BY <2>4, WholeOps
    <2>. QED BY <2>4, <2>5, <2>6 DEF MarksSettle
<1>9. CASE DeliverRefresh(c)
    <2>1. /\ h.op = "refresh" /\ auth' = auth /\ UNCHANGED <<quotaMarks, suspended>>
          /\ todo' = [todo EXCEPT ![c] = <<Schedule(Copy(auth))>> \o Tail(todo[c])]
        BY <1>9, Zenon DEF DeliverRefresh, conductorVars, h
    <2>2. Due(c)' = {Schedule(Copy(auth))} \cup T
        <3>. DEFINE s == Schedule(Copy(auth))
                    S == Deliveries(now)
        <3>1. s \in S /\ Tail(todo[c]) \in Seq(S)
            <4>1. now \in Nat /\ auth \in TimelyRecords(now)
                BY DEF CopiesTimely, TimelyState, ConductorTypeOK, TimelyRecords
            <4>2. s \in S
                BY <4>1, ScheduleTimely
            <4>3. Tail(todo[c]) \in Seq(S)
                <5>. HIDE DEF S
                <5>. QED BY <1>1, <1>2 DEF Idle, S
            <4>. QED BY <4>2, <4>3
        <3>. HIDE DEF S, s
        <3>2. <<s>> \in Seq(S)
            BY <3>1, ShortSeq, Zenon
        <3>3. ToSet(<<s>> \o Tail(todo[c])) = ToSet(<<s>>) \cup T
            BY <3>1, <3>2, ToSetConcat, ZenonT(40) DEF T
        <3>4. ToSet(<<s>>) = {s}
            BY ToSetSmall, Zenon
        <3>. QED BY <1>2, <2>1, <3>3, <3>4 DEF s
    <2>3. /\ \A m \in quotaMarks : ClearQuota(m) # h
          /\ \A m \in suspended : Resume(m) # h
        BY <2>1, OpsDiffer
    <2>. QED BY <1>2, <1>4, <1>5, <2>1, <2>2, <2>3 DEF MarksSettle
<1>. QED BY <1>6, <1>7, <1>8, <1>9 DEF Deliver

\* What the registry's marks rest on.
TidyInv == CopiesTimely /\ MirrorInv

\* The strengthened invariant holds at first.
LEMMA TidyInit == DeliveryInit => TidyInv
<1>. SUFFICES ASSUME DeliveryInit PROVE TidyInv
    OBVIOUS
<1>1. MirrorInv
    BY MirrorInit DEF DeliveryInit
<1>. QED BY <1>1, CopiesTimelyInit DEF TidyInv

\* Every step preserves it.
LEMMA TidyStep == TidyInv /\ [DeliveryNext]_deliveryVars => TidyInv'
<1>. SUFFICES ASSUME TidyInv, [DeliveryNext]_deliveryVars PROVE TidyInv'
    OBVIOUS
<1>1. [ConductorNext]_conductorVars
    BY ManagerActs DEF TidyInv, CopiesTimely
<1>2. MirrorInv' /\ CopiesTimely'
    BY <1>1, MirrorStep, CopiesTimelyStep DEF TidyInv
<1>. QED BY <1>2 DEF TidyInv

\* Nothing is hidden at first.
LEMMA RegistryInit == DeliveryInit => RegistryInv
<1>. SUFFICES ASSUME DeliveryInit PROVE RegistryInv
    OBVIOUS
<1>1. \A c \in Callers : Due(c) = {}
    BY IdleDue DEF DeliveryInit, Idle
<1>. QED BY <1>1 DEF DeliveryInit, RegistryInv, MarksSettle

\* Every step leaves the marks of a lone caller to settle.
LEMMA RegistryStep ==
    TidyInv /\ RegistryInv /\ [DeliveryNext]_deliveryVars => RegistryInv'
<1>. SUFFICES ASSUME TidyInv, RegistryInv, [DeliveryNext]_deliveryVars
              PROVE  RegistryInv'
    OBVIOUS
<1>1. /\ CopiesTimely /\ Tidy(auth) /\ setting' = setting
      /\ quotaMarks \subseteq Models /\ suspended \subseteq Models
      /\ setting.callers \subseteq Callers
    BY ManagerActs, DeliveryAssumption
    DEF TidyInv, MirrorInv, RegistryInv, CopiesTimely, DeliveryAssumption
<1>2. ASSUME UNCHANGED <<auth, todo, quotaMarks, suspended>> PROVE RegistryInv'
    <2>1. ASSUME NEW c \in Callers, MarksSettle(c) PROVE MarksSettle(c)'
        BY <1>2, <2>1 DEF MarksSettle, Due
    <2>. QED BY <1>1, <1>2, <2>1 DEF RegistryInv, Lone
<1>3. ASSUME NEW c \in setting.callers, Begin(c) \/ Deliver(c)
      PROVE  RegistryInv'
    <2>1. quotaMarks' \subseteq Models /\ suspended' \subseteq Models
        <3>1. CASE Begin(c)
            BY <1>1, <3>1, Zenon DEF Begin, MarkResult, Reset, Store, Update,
               ClearDisabled, Rebind, Call
        <3>2. CASE Deliver(c)
            <4>1. CASE DeliverMark(c)
                <5>. DEFINE d == Head(todo[c])
                <5>1. ~Idle(c) /\ d.op \in MarkOps
                    BY <4>1 DEF DeliverMark, MarkOps
                <5>2. d \in Deliveries(now)
                    BY <1>1, <1>3, <5>1, DeliveryTakes
                <5>3. d.model \in Models
                    BY <5>1, <5>2 DEF Deliveries, MarkOps
                <5>. HIDE DEF d
                <5>4. /\ quotaMarks' \subseteq quotaMarks \cup {d.model}
                      /\ suspended' \subseteq suspended \cup {d.model}
                    BY <4>1 DEF DeliverMark, d
                <5>. QED BY <1>1, <5>3, <5>4
            <4>2. CASE ~DeliverMark(c)
                BY <1>1, <3>2, <4>2, Zenon DEF Deliver, DeliverSchedule,
                   DeliverReconcile, DeliverRefresh
            <4>. QED BY <4>1, <4>2
        <3>. QED BY <1>3, <3>1, <3>2
    <2>2. ASSUME NEW e \in Callers, Lone(e)' PROVE MarksSettle(e)'
        <3>1. Lone(e) /\ c = e
            BY <1>1, <2>2 DEF Lone
        <3>2. MarksSettle(e)
            BY <3>1 DEF RegistryInv
        <3>. QED BY <1>1, <1>3, <3>1, <3>2, MarksOfBegin, MarksOfDelivery
    <2>. QED BY <2>1, <2>2 DEF RegistryInv
<1>4. CASE Tick /\ UNCHANGED <<todo, entry, quotaMarks, suspended>>
    BY <1>2, <1>4 DEF Tick
<1>5. CASE Request
    BY <1>2, <1>5, Zenon DEF Request, Ask, FirstPick, SnapshotAuths, Rebuild,
       SecondPick, Answer, Pick, conductorVars
<1>6. CASE UNCHANGED deliveryVars
    BY <1>2, <1>6 DEF deliveryVars, conductorVars
<1>. QED BY <1>3, <1>4, <1>5, <1>6, Zenon DEF DeliveryNext

\* The calls of one caller end their writing to the file.
LoneCallsSucceed ==
    \A s \in Settings : (\E c \in Callers : s.callers = {c}) => ~s.failing

\* With one call at a time, none of which fails to write its file, the
\* registry hides between calls no model whose last result was a success or
\* that was reset since.
THEOREM MarksAreJustified ==
    ASSUME LoneCallsSucceed
    PROVE  DeliverySpec => []RegistryAgrees
<1>1. TidyInv /\ RegistryInv => RegistryAgrees
    <2>. SUFFICES ASSUME TidyInv, RegistryInv, OneAtATime, AllIdle,
                         NEW m \in quotaMarks \cup suspended
                  PROVE  auth.ms[m].failed
        BY DEF RegistryAgrees
    <2>1. PICK c \in Callers : setting.callers = {c}
        BY DEF OneAtATime
    <2>2. ~setting.failing
        BY <2>1 DEF LoneCallsSucceed, TidyInv, CopiesTimely
    <2>3. MarksSettle(c) /\ Due(c) = {}
        BY <2>1, <2>2, IdleDue DEF RegistryInv, Lone, AllIdle
    <2>. QED BY <2>3 DEF MarksSettle
<1>. QED BY <1>1, TidyInit, TidyStep, RegistryInit, RegistryStep, PTL DEF DeliverySpec

-----------------------------------------------------------------------------
(* The scheduler's entry.  Between calls it was computed from the record as *)
(* it is, at some instant that has come; while a call is delivering, that   *)
(* record is still to come.                                                 *)

\* The scheduler's entry is one that was made of the record at some earlier instant.
Synced ==
    /\ entry.present <=> ~auth.disabled
    /\ entry.present =>
          /\ Record(entry.ref) = auth
          /\ \A m \in Models : \E t \in Nat :
                /\ t <= now
                /\ entry.next[m] = IF Blocked(auth, m, t)
                                   THEN ReportedRetry(auth.ms[m], t) ELSE Never

\* Once c has delivered the rest, the scheduler has the record as it is.
ScheduleSettles(c) ==
    /\ \A d \in Due(c) : d.op = "schedule" => Record(d.ref) = auth
    /\ Synced \/ \E d \in Due(c) : d.op \in {"schedule", "refresh"}
    /\ ReconcileAfter \in Due(c) => todo[c] = <<ReconcileAfter, RefreshEntry>>

\* Without a quota exceeded the credential has no quota record at all.
QuotaTidy(a) == ~a.quota.exceeded => a.quota = NoQuota

\* While a single caller is at work, its deliveries settle the entry.
SchedulerInv ==
    /\ QuotaTidy(auth)
    /\ setting.requesting \/ request.pc = "idle"
    /\ \A c \in Callers : Lone(c) /\ ~setting.requesting => ScheduleSettles(c)

\* The aggregation sums up a quota or leaves none.
LEMMA AggregateQuotaTidy ==
    ASSUME NEW a \in Auth, NEW n
    PROVE  QuotaTidy(Aggregate(a, n))
<1>1. \E ms : Aggregate(a, n).quota = AggregateQuota(ms)
    <2>. DEFINE ms == [m \in Models |-> Expired(a.ms[m], n)]
    <2>1. Aggregate(a, n).quota = AggregateQuota(ms)
        BY DEF Aggregate, Auth
    <2>. QED BY <2>1
<1>2. \A ms : ~AggregateQuota(ms).exceeded => AggregateQuota(ms) = NoQuota
    BY DEF AggregateQuota
<1>. QED BY <1>1, <1>2 DEF QuotaTidy

\* Clearing the cooldown keeps quota records tidy ...
LEMMA ClearCooldownQuotaTidy ==
    ASSUME NEW a, NEW n \in Nat, TimelyAuth(a, n), QuotaTidy(a)
    PROVE  QuotaTidy(ClearCooldown(a, n))
<1>. DEFINE b == AllWiped(a)
<1>1. b \in Auth /\ a \in Auth
    BY WipedTimely DEF TimelyAuth
<1>2. b.quota \in {a.quota, NoQuota}
    BY <1>1 DEF AllWiped, Wiped, Auth
<1>3. ClearCooldown(a, n) = IF Known(a) = {} THEN b ELSE Aggregate(b, n)
    BY DEF ClearCooldown, AllWiped
<1>. HIDE DEF b
<1>. QED BY <1>1, <1>2, <1>3, AggregateQuotaTidy DEF QuotaTidy

\* ... and so does settling them.
LEMMA SettledQuotaTidy ==
    ASSUME NEW a \in Auth, QuotaTidy(a)
    PROVE  QuotaTidy(Settled(a))
BY DEF Settled, QuotaTidy, Auth

\* Clearing a record that has nothing to clear changes nothing.
LEMMA NothingToClear ==
    ASSUME NEW a \in Auth, NEW n, QuotaTidy(a),
           ~Dirty(a), \A m \in Models : ~Dirty(a.ms[m])
    PROVE  ClearCooldown(a, n) = a
<1>1. /\ a.unavailable = FALSE /\ a.retryAt = Never /\ a.quota = NoQuota
      /\ \A m \in Models : /\ a.ms[m] \in ModelState
                           /\ ~a.ms[m].unavailable /\ ~a.ms[m].quota.exceeded
    BY DEF Dirty, Auth, QuotaTidy
<1>2. [m \in Models |-> Wiped(a.ms[m])] = a.ms
    BY DEF Wiped, Auth
<1>3. [Wiped(a) EXCEPT !.ms = [m \in Models |-> Wiped(a.ms[m])]] = a
    BY <1>2 DEF Wiped, Auth
<1>4. [m \in Models |-> Expired(a.ms[m], n)] = a.ms
    BY <1>1 DEF Expired, Auth
<1>5. ~(Known(a) # {} /\ \A m \in Known(a) : Cooling(a.ms[m], n))
    BY <1>1 DEF Known, Cooling
<1>6. AggregateQuota(a.ms) = NoQuota
    BY <1>1 DEF AggregateQuota
<1>7. Aggregate(a, n) = a
    <2>1. Aggregate(a, n) = [a EXCEPT !.ms = a.ms, !.unavailable = FALSE,
                                      !.retryAt = Never, !.quota = NoQuota]
        BY <1>4, <1>5, <1>6, Zenon DEF Aggregate
    <2>. QED BY <1>1, <2>1 DEF Auth
<1>. QED BY <1>3, <1>7 DEF ClearCooldown

\* Every step keeps quota records tidy.
LEMMA QuotaTidyStep ==
    ASSUME CopiesTimely, QuotaTidy(auth), [DeliveryNext]_deliveryVars
    PROVE  QuotaTidy(auth')
<1>1. /\ now \in Nat /\ auth \in Auth /\ TimelyAuth(auth, now)
      /\ cooling \in BOOLEAN
      /\ AbsentState \in ModelState /\ CleanState \in ModelState
      /\ Timely(AbsentState, now) /\ Timely(CleanState, now)
    BY EmptyRecords, WaitAssumption
    DEF CopiesTimely, TimelyState, ConductorTypeOK, Timely, WaitAssumption
<1>2. ASSUME NEW a, TimelyAuth(a, now), auth' = Settled(Aggregate(a, now))
      PROVE  QuotaTidy(auth')
    BY <1>1, <1>2, AggregateTimely, AggregateQuotaTidy, SettledQuotaTidy
    DEF TimelyAuth
<1>3. ASSUME NEW m \in Models, RecordSuccess(m) PROVE QuotaTidy(auth')
    <2>. DEFINE a == [auth EXCEPT !.ms[m] = CleanState]
    <2>1. TimelyAuth(a, now) /\ auth' = Settled(Aggregate(a, now))
        BY <1>1, <1>3, ReplaceModelTimely DEF RecordSuccess
    <2>. HIDE DEF a
    <2>. QED BY <1>2, <2>1
<1>4. ASSUME NEW m \in Models, NEW k \in Kinds, NEW h \in HintsFor(k),
             RecordFailure(m, k, h)
      PROVE  QuotaTidy(auth')
    <2>. DEFINE s == FailedModel(auth.ms[m], k, h, cooling, now)
                a == [auth EXCEPT !.failed = TRUE, !.ms[m] = s]
    <2>1. auth' = Aggregate(a, now)
        BY <1>4 DEF RecordFailure
    <2>2. s \in ModelState
        <3>1. h \in Hints \cup {NoHint} /\ auth.ms[m] \in ModelState
              /\ Timely(auth.ms[m], now)
            BY <1>1 DEF HintsFor, TimelyAuth, Auth
        <3>. QED BY <1>1, <3>1, FailedModelTimely
    <2>. HIDE DEF s
    <2>3. a \in Auth
        BY <1>1, <2>2 DEF Auth
    <2>. HIDE DEF a
    <2>. QED BY <2>1, <2>3, AggregateQuotaTidy
<1>5. ASSUME ResetQuota PROVE QuotaTidy(auth')
    <2>. DEFINE f == [m \in Models |-> IF auth.ms[m].known THEN CleanState
                                                         ELSE AbsentState]
                r == [auth EXCEPT !.ms = f]
                a == ClearCooldown(r, now)
    <2>1. TimelyAuth(r, now) /\ QuotaTidy(r)
        <3>1. TimelyAuth(r, now)
            BY <1>1, ReplaceModelsTimely
        <3>2. r.quota = auth.quota
            BY <1>1 DEF Auth
        <3>. QED BY <3>1, <3>2 DEF QuotaTidy
    <2>2. auth' \in {a, Settled(a)}
        BY <1>5 DEF ResetQuota
    <2>. HIDE DEF f, r
    <2>3. TimelyAuth(a, now) /\ QuotaTidy(a)
        BY <1>1, <2>1, ClearCooldownTimely, ClearCooldownQuotaTidy
    <2>. HIDE DEF a
    <2>. QED BY <2>2, <2>3, SettledQuotaTidy DEF TimelyAuth
<1>6. ASSUME ClearDisabledCooldownStates PROVE QuotaTidy(auth')
    <2>1. auth' = auth \/ auth' = ClearCooldown(auth, now)
        BY <1>6, Zenon DEF ClearDisabledCooldownStates
    <2>. QED BY <1>1, <2>1, ClearCooldownQuotaTidy
<1>7. ASSUME NEW b \in BOOLEAN, SetDisabled(b) PROVE QuotaTidy(auth')
    <2>. DEFINE a == [auth EXCEPT !.disabled = b, !.failed = FALSE]
    <2>1. TimelyAuth(a, now) /\ a.quota = auth.quota
        BY <1>1 DEF TimelyAuth, Auth, Timely
    <2>2. auth' = a \/ auth' = ClearCooldown(a, now)
        BY <1>7 DEF SetDisabled
    <2>. HIDE DEF a
    <2>3. QuotaTidy(a)
        BY <2>1 DEF QuotaTidy
    <2>. QED BY <1>1, <2>1, <2>2, <2>3, ClearCooldownQuotaTidy
<1>8. ASSUME NEW S \in SUBSET Models, Reconcile(S) PROVE QuotaTidy(auth')
    <2>. DEFINE f == [m \in Models |-> IF m \in Known(auth) \cap S
                                      THEN CleanState ELSE AbsentState]
    <2>1. /\ TimelyAuth([auth EXCEPT !.ms = f], now)
          /\ auth' = Settled(Aggregate([auth EXCEPT !.ms = f], now))
        BY <1>1, <1>8, ReplaceModelsTimely DEF Reconcile
    <2>. HIDE DEF f
    <2>. QED BY <1>2, <2>1
<1>9. ASSUME auth' = auth PROVE QuotaTidy(auth')
    BY <1>9
<1>10. ASSUME NEW c, Begin(c) PROVE QuotaTidy(auth')
    <2>1. \A k \in setting.kinds : k \in Kinds
        BY DeliveryAssumption DEF CopiesTimely, DeliveryAssumption
    <2>2. CASE MarkResult(c)
        <3>1. \A k, h : h \in HintsFor(k) \cap (setting.hints \cup {NoHint})
                            => h \in HintsFor(k)
            OBVIOUS
        <3>2. \/ \E m \in Models : RecordSuccess(m)
              \/ \E m \in Models, k \in Kinds : \E h \in HintsFor(k) :
                    RecordFailure(m, k, h)
            BY <2>1, <2>2, <3>1, Zenon DEF MarkResult
        <3>. QED BY <1>3, <1>4, <3>2
    <2>3. CASE Reset(c)
        BY <1>5, <2>3 DEF Reset
    <2>4. CASE \E b \in BOOLEAN : Store(c, b)
        BY <1>9, <2>4 DEF Store, StoreConfig
    <2>5. CASE \E b \in BOOLEAN : Update(c, b)
        BY <1>7, <2>5, Zenon DEF Update
    <2>6. CASE ClearDisabled(c)
        BY <1>6, <2>6, Zenon DEF ClearDisabled
    <2>7. CASE Rebind(c)
        BY <1>9, <2>7 DEF Rebind, conductorVars
    <2>. QED BY <1>10, <2>2, <2>3, <2>4, <2>5, <2>6, <2>7, Zenon DEF Begin
<1>11. ASSUME NEW c, Deliver(c) PROVE QuotaTidy(auth')
    <2>1. CASE Reconcile(Models)
        BY <1>8, <2>1
    <2>2. CASE ~Reconcile(Models)
        <3>1. UNCHANGED conductorVars
            BY <1>11, <2>2, Zenon DEF Deliver, DeliverSchedule, DeliverMark,
               DeliverReconcile, DeliverRefresh
        <3>. QED BY <1>9, <3>1 DEF conductorVars
    <2>. QED BY <2>1, <2>2
<1>12. CASE Tick
    BY <1>9, <1>12 DEF Tick
<1>13. CASE Request
    <2>1. UNCHANGED conductorVars
        BY <1>13, Zenon DEF Request, Ask, FirstPick, SnapshotAuths, Rebuild,
           SecondPick, Answer, Pick
    <2>. QED BY <1>9, <2>1 DEF conductorVars
<1>14. CASE UNCHANGED deliveryVars
    BY <1>9, <1>14 DEF deliveryVars, conductorVars
<1>. QED BY <1>10, <1>11, <1>12, <1>13, <1>14, Zenon DEF DeliveryNext

\* The entry stays true while time passes and nothing else happens.
LEMMA SyncedKept ==
    ASSUME Synced, UNCHANGED <<auth, entry>>, now \in Nat, now' \in Nat, now <= now'
    PROVE  Synced'
<1>1. entry.present => Record(entry.ref)' = auth'
    BY DEF Synced, Record
<1>2. ASSUME NEW m \in Models, entry.present
      PROVE  \E t \in Nat : /\ t <= now'
                            /\ entry'.next[m] = IF Blocked(auth', m, t)
                                  THEN ReportedRetry(auth'.ms[m], t) ELSE Never
    <2>1. PICK t \in Nat : /\ t <= now
                           /\ entry.next[m] = IF Blocked(auth, m, t)
                                  THEN ReportedRetry(auth.ms[m], t) ELSE Never
        BY <1>2 DEF Synced
    <2>2. t <= now'
        BY <2>1
    <2>. QED BY <2>1, <2>2
<1>3. entry'.present <=> ~auth'.disabled
    BY DEF Synced
<1>. QED BY <1>1, <1>2, <1>3 DEF Synced

\* An upsert of the record as it is.
LEMMA UpsertSyncs ==
    ASSUME now \in Nat, NEW ref, Record(ref) = auth, entry' = Upsert(ref),
           auth' = auth, now' = now, auth \in Auth
    PROVE  Synced'
<1>1. CASE auth.disabled
    <2>1. entry' = NoEntry
        BY <1>1 DEF Upsert
    <2>. QED BY <1>1, <2>1 DEF Synced, NoEntry
<1>2. CASE ~auth.disabled
    <2>. DEFINE f == [m \in Models |-> NextRetryAt(auth, m)]
    <2>1. entry' = [present |-> TRUE, ref |-> ref, next |-> f]
        BY <1>2 DEF Upsert
    <2>2. entry'.present = TRUE /\ entry'.ref = ref /\ entry'.next = f
        BY <2>1
    <2>3. Record(entry.ref)' = auth'
        BY <2>2 DEF Record
    <2>4. \A m \in Models : entry'.next[m] =
              IF Blocked(auth, m, now) THEN ReportedRetry(auth.ms[m], now) ELSE Never
        BY <2>2 DEF NextRetryAt
    <2>. HIDE DEF f
    <2>5. \A m \in Models : \E t \in Nat :
              /\ t <= now'
              /\ entry'.next[m] = IF Blocked(auth', m, t)
                    THEN ReportedRetry(auth'.ms[m], t) ELSE Never
        BY <2>4
    <2>. QED BY <1>2, <2>2, <2>3, <2>5 DEF Synced
<1>. QED BY <1>1, <1>2

\* A call that begins leaves the entry to settle.
LEMMA ScheduleOfBegin ==
    ASSUME CopiesTimely, QuotaTidy(auth), NEW c \in Callers, Lone(c), Begin(c),
           ScheduleSettles(c)
    PROVE  ScheduleSettles(c)'
<1>1. Due(c) = {} /\ Synced
    <2>1. Idle(c)
        BY Zenon DEF Begin, MarkResult, Reset, Store, Update, ClearDisabled, Rebind,
           Call
    <2>. QED BY <2>1, IdleDue DEF ScheduleSettles
<1>2. ASSUME Reschedules(c) PROVE ScheduleSettles(c)'
    <2>1. ReconcileAfter \notin Due(c)'
        BY <1>2, WholeOps DEF Reschedules, MarkOps
    <2>. QED BY <1>2, <2>1 DEF Reschedules, ScheduleSettles
<1>3. ASSUME Due(c)' = {}, UNCHANGED <<auth, entry, now>> PROVE ScheduleSettles(c)'
    <2>1. Synced'
        <3>1. now \in Nat /\ now' \in Nat /\ now <= now'
            BY <1>3 DEF CopiesTimely, TimelyState, ConductorTypeOK
        <3>. QED BY <1>1, <1>3, <3>1, SyncedKept
    <2>. QED BY <1>3, <2>1 DEF ScheduleSettles
<1>4. CASE MarkResult(c)
    <2>1. \A k \in setting.kinds : k \in Kinds
        BY DeliveryAssumption DEF CopiesTimely, DeliveryAssumption
    <2>2. \/ \E m \in Models : RecordSuccess(m) /\ Call(c, AfterSuccess(m))
          \/ \E m \in Models, k \in Kinds : \E h \in HintsFor(k) :
                RecordFailure(m, k, h) /\ Call(c, AfterFailure(m, k))
        <3>1. \A k, h : h \in HintsFor(k) \cap (setting.hints \cup {NoHint})
                            => h \in HintsFor(k)
            OBVIOUS
        <3>. QED BY <1>4, <2>1, <3>1, Zenon DEF MarkResult
    <2>3. Reschedules(c)
        BY <2>2, SuccessLeaves, FailureLeaves
    <2>. QED BY <1>2, <2>3
<1>5. CASE Reset(c)
    <2>1. Reschedules(c)
        BY <1>5, ResetLeaves DEF Reset, Lone
    <2>. QED BY <1>2, <2>1
<1>6. CASE ClearDisabled(c)
    <2>. DEFINE s == Schedule(Copy(auth'))
                changes == Dirty(auth) \/ \E m \in Models : Dirty(auth.ms[m])
                clears  == ~cooling \/ auth.disabled
    <2>1. /\ todo \in [Callers -> Seq(Deliveries(now))] /\ auth \in Auth
          /\ now' = now /\ UNCHANGED entry
        BY <1>6, ClearLeaves
        DEF CopiesTimely, TimelyState, ConductorTypeOK, ClearDisabled,
            ClearDisabledCooldownStates
    <2>2. CASE clears /\ changes
        <3>1. Call(c, <<s>>)
            BY <1>6, <2>2 DEF ClearDisabled
        <3>2. todo'[c] = <<s>>
            BY <2>1, <3>1 DEF Call
        <3>3. Due(c)' = {s} \cup {}
            BY <3>2, ToSetSmall DEF Due
        <3>4. {} \in SUBSET [op : MarkOps, model : Models]
            OBVIOUS
        <3>. QED BY <1>2, <3>3, <3>4, ReschedulesWith
    <2>3. CASE ~(clears /\ changes)
        <3>1. Call(c, <<>>)
            BY <1>6, <2>3 DEF ClearDisabled
        <3>2. todo'[c] = <<>>
            BY <2>1, <3>1 DEF Call
        <3>3. Due(c)' = {}
            BY <3>2, ToSetSmall DEF Due
        <3>4. auth' = auth
            <4>1. CASE ~clears
                BY <1>6, <4>1, Zenon DEF ClearDisabled, ClearDisabledCooldownStates
            <4>2. CASE ~changes
                <5>1. ClearCooldown(auth, now) = auth
                    BY <2>1, <4>2, NothingToClear
                <5>2. auth' = auth \/ auth' = ClearCooldown(auth, now)
                    BY <1>6, Zenon DEF ClearDisabled, ClearDisabledCooldownStates
                <5>. QED BY <5>1, <5>2
            <4>. QED BY <2>3, <4>1, <4>2
        <3>. QED BY <1>3, <2>1, <3>3, <3>4
    <2>. QED BY <2>2, <2>3
<1>7. ASSUME NEW b \in BOOLEAN, Update(c, b) PROVE ScheduleSettles(c)'
    <2>1. Due(c)' = {Schedule(Live)}
        BY <1>7, UpdateLeaves
    <2>2. Schedule(Live).op = "schedule" /\ Schedule(Live).ref = Live
        BY ScheduleOp
    <2>3. Record(Live)' = auth'
        BY DEF Record, Live
    <2>4. \A d \in Due(c)' : /\ d.op = "schedule" /\ Record(d.ref)' = auth'
        BY <2>1, <2>2, <2>3 DEF Live
    <2>. QED BY <1>2, <2>1, <2>4 DEF Reschedules
<1>8. CASE Rebind(c)
    <2>1. /\ todo'[c] = <<ReconcileAfter, RefreshEntry>>
          /\ Due(c)' = {ReconcileAfter, RefreshEntry}
        BY <1>8, RebindLeaves
    <2>. QED BY <2>1, WholeOps DEF ScheduleSettles
<1>9. ASSUME NEW b \in BOOLEAN, Store(c, b) PROVE ScheduleSettles(c)'
    <2>1. Due(c)' = {} /\ UNCHANGED <<auth, entry, now>>
        BY <1>9, StoreLeaves
    <2>. QED BY <1>3, <2>1
<1>. QED BY <1>4, <1>5, <1>6, <1>7, <1>8, <1>9 DEF Begin

\* What the refresh of the entry leaves to be delivered.
LEMMA RefreshLeaves ==
    ASSUME CopiesTimely, NEW c \in Callers, DeliverRefresh(c)
    PROVE  Due(c)' = {Schedule(Copy(auth))} \cup ToSet(Tail(todo[c]))
<1>. DEFINE s == Schedule(Copy(auth))
            S == Deliveries(now)
<1>1. /\ ~Idle(c)
      /\ todo' = [todo EXCEPT ![c] = <<s>> \o Tail(todo[c])]
    BY Zenon DEF DeliverRefresh
<1>2. /\ todo[c] \in Seq(S) /\ todo[c] # <<>>
      /\ \A u : todo' = [todo EXCEPT ![c] = u] => Due(c)' = ToSet(u)
    BY <1>1, DeliveryTakes
<1>3. s \in S
    <2>1. now \in Nat /\ auth \in TimelyRecords(now)
        BY DEF CopiesTimely, TimelyState, ConductorTypeOK, TimelyRecords
    <2>. QED BY <2>1, ScheduleTimely
<1>. HIDE DEF S, s
<1>4. Tail(todo[c]) \in Seq(S)
    BY <1>2
<1>5. <<s>> \in Seq(S)
    BY <1>3, ShortSeq, Zenon
<1>6. ToSet(<<s>> \o Tail(todo[c])) = ToSet(<<s>>) \cup ToSet(Tail(todo[c]))
    BY <1>4, <1>5, ToSetConcat
<1>7. ToSet(<<s>>) = {s}
    BY ToSetSmall, Zenon
<1>. QED BY <1>1, <1>2, <1>6, <1>7 DEF s

\* A delivery leaves the entry to settle.
LEMMA ScheduleOfDelivery ==
    ASSUME CopiesTimely, NEW c \in Callers, Deliver(c), ScheduleSettles(c)
    PROVE  ScheduleSettles(c)'
<1>. DEFINE h == Head(todo[c])
            T == ToSet(Tail(todo[c]))
            t == todo[c]
<1>1. ~Idle(c)
    BY Zenon DEF Deliver, DeliverSchedule, DeliverMark, DeliverReconcile,
       DeliverRefresh
<1>2. /\ h \in Due(c) /\ Due(c) = {h} \cup T
      /\ todo[c] \in Seq(Deliveries(now)) /\ h \in Deliveries(now)
      /\ \A u : todo' = [todo EXCEPT ![c] = u] => Due(c)' = ToSet(u)
      /\ now \in Nat /\ auth \in Auth
    BY <1>1, DeliveryTakes DEF Idle, CopiesTimely, TimelyState, ConductorTypeOK
<1>3. ReconcileAfter \in Due(c) => h = ReconcileAfter /\ T = {RefreshEntry}
    <2>. SUFFICES ASSUME ReconcileAfter \in Due(c)
                  PROVE  h = ReconcileAfter /\ T = {RefreshEntry}
        OBVIOUS
    <2>1. t = <<ReconcileAfter, RefreshEntry>>
        BY DEF ScheduleSettles
    <2>2. Head(t) = ReconcileAfter /\ Tail(t) = <<RefreshEntry>>
        BY <2>1
    <2>. QED BY <2>2, ToSetSmall, Zenon
<1>. HIDE DEF h, T, t
<1>4. h.op # "reconcile" => ReconcileAfter \notin T
    BY <1>2, <1>3, WholeOps
<1>5. CASE DeliverSchedule(c)
    <2>1. /\ h.op = "schedule" /\ auth' = auth /\ now' = now
          /\ entry' = Upsert(h.ref)
          /\ todo' = [todo EXCEPT ![c] = Tail(todo[c])]
        BY <1>5, Zenon DEF DeliverSchedule, conductorVars, h
    <2>2. Due(c)' = T
        BY <1>2, <2>1 DEF T
    <2>3. Synced'
        <3>1. Record(h.ref) = auth
            BY <1>2, <2>1 DEF ScheduleSettles
        <3>. QED BY <1>2, <2>1, <3>1, UpsertSyncs
    <2>4. \A d \in Due(c)' : d.op = "schedule" => Record(d.ref)' = auth'
        BY <1>2, <2>1, <2>2 DEF ScheduleSettles, Record
    <2>. QED BY <1>4, <2>1, <2>2, <2>3, <2>4 DEF ScheduleSettles
<1>6. CASE DeliverMark(c)
    <2>1. /\ h.op \in MarkOps /\ auth' = auth /\ now' = now /\ entry' = entry
          /\ todo' = [todo EXCEPT ![c] = Tail(todo[c])]
        BY <1>6, Zenon DEF DeliverMark, conductorVars, h, MarkOps
    <2>2. Due(c)' = T
        BY <1>2, <2>1 DEF T
    <2>3. Synced => Synced'
        BY <1>2, <2>1, SyncedKept
    <2>4. \A d \in Due(c)' : d.op = "schedule" => Record(d.ref)' = auth'
        BY <1>2, <2>1, <2>2 DEF ScheduleSettles, Record
    <2>5. h.op \notin {"schedule", "refresh", "reconcile"}
        BY <2>1 DEF MarkOps
    <2>6. Synced' \/ \E d \in Due(c)' : d.op \in {"schedule", "refresh"}
        BY <1>2, <2>2, <2>3, <2>5 DEF ScheduleSettles
    <2>. QED BY <1>4, <2>2, <2>4, <2>5, <2>6 DEF ScheduleSettles
<1>7. CASE DeliverReconcile(c)
    <2>1. h.op = "reconcile" /\ h \in [op : {"reconcile", "refresh"}]
        BY <1>2, <1>7 DEF DeliverReconcile, h, Deliveries, MarkOps
    <2>2. h = ReconcileAfter
        BY <2>1 DEF ReconcileAfter
    <2>3. todo[c] = <<ReconcileAfter, RefreshEntry>>
        BY <1>2, <2>2 DEF ScheduleSettles
    <2>4. Due(c)' \in {{Schedule(Copy(auth')), RefreshEntry}, {RefreshEntry}}
        BY <1>7, <2>3, ReconcileLeaves
    <2>. DEFINE s == Schedule(Copy(auth'))
    <2>5. s.op = "schedule" /\ s.ref.live = FALSE /\ s.ref.rec = auth'
        BY DEF Schedule, Copy
    <2>. HIDE DEF s
    <2>6. Due(c)' \subseteq {s, RefreshEntry} /\ RefreshEntry \in Due(c)'
        BY <2>4 DEF s
    <2>7. ASSUME NEW d \in Due(c)', d.op = "schedule" PROVE Record(d.ref)' = auth'
        <3>1. d.ref.live = FALSE /\ d.ref.rec = auth'
            BY <2>5, <2>6, <2>7, WholeOps
        <3>. QED BY <3>1 DEF Record
    <2>8. ReconcileAfter \notin Due(c)'
        BY <2>5, <2>6, WholeOps
    <2>. QED BY <2>6, <2>7, <2>8, WholeOps DEF ScheduleSettles
<1>8. CASE DeliverRefresh(c)
    <2>. DEFINE s == Schedule(Copy(auth))
    <2>1. h.op = "refresh" /\ auth' = auth
        BY <1>8 DEF DeliverRefresh, conductorVars, h
    <2>2. Due(c)' = {s} \cup T
        BY <1>8, RefreshLeaves DEF T
    <2>3. s.op = "schedule" /\ s.ref.live = FALSE /\ s.ref.rec = auth
        BY DEF Schedule, Copy
    <2>. HIDE DEF s
    <2>4. ASSUME NEW d \in Due(c)', d.op = "schedule" PROVE Record(d.ref)' = auth'
        <3>1. CASE d = s
            <4>1. d.ref.live = FALSE /\ d.ref.rec = auth'
                BY <2>1, <2>3, <3>1
            <4>. QED BY <4>1 DEF Record
        <3>2. CASE d \in T
            BY <1>2, <2>1, <2>4, <3>2 DEF ScheduleSettles, Record
        <3>. QED BY <2>2, <3>1, <3>2
    <2>5. ReconcileAfter \notin Due(c)'
        BY <1>4, <2>1, <2>2, <2>3, WholeOps
    <2>. QED BY <2>2, <2>3, <2>4, <2>5 DEF ScheduleSettles
<1>. QED BY <1>5, <1>6, <1>7, <1>8 DEF Deliver

\* The entry is true at first.
LEMMA SchedulerInit == DeliveryInit => SchedulerInv
<1>. SUFFICES ASSUME DeliveryInit PROVE SchedulerInv
    OBVIOUS
<1>1. now \in Nat /\ auth \in Auth /\ auth = FreshAuth
    BY TimelyInit DEF DeliveryInit, ConductorInit, TimelyState, ConductorTypeOK
<1>2. \A c \in Callers : Due(c) = {}
    BY IdleDue DEF DeliveryInit, Idle
<1>3. QuotaTidy(auth)
    BY <1>1, EmptyRecords DEF QuotaTidy
<1>4. Synced
    <2>1. ~auth.disabled
        BY <1>1 DEF FreshAuth
    <2>2. /\ entry.present = TRUE /\ entry.ref = Live
          /\ entry.next = [m \in Models |-> NextRetryAt(auth, m)]
        BY <2>1 DEF DeliveryInit, Upsert, Record, Live
    <2>3. \A m \in Models : entry.next[m] =
              IF Blocked(auth, m, now) THEN ReportedRetry(auth.ms[m], now) ELSE Never
        BY <2>2 DEF NextRetryAt
    <2>4. Record(entry.ref) = auth
        BY <2>2 DEF Record, Live
    <2>5. now <= now
        BY <1>1
    <2>. QED BY <1>1, <2>1, <2>2, <2>3, <2>4, <2>5, Zenon DEF Synced
<1>5. request.pc = "idle"
    BY DEF DeliveryInit, NoRequest
<1>. QED BY <1>2, <1>3, <1>4, <1>5 DEF SchedulerInv, ScheduleSettles

\* Every step leaves the entry of a lone caller to settle.
LEMMA SchedulerStep ==
    CopiesTimely /\ SchedulerInv /\ [DeliveryNext]_deliveryVars => SchedulerInv'
<1>. SUFFICES ASSUME CopiesTimely, SchedulerInv, [DeliveryNext]_deliveryVars
              PROVE  SchedulerInv'
    OBVIOUS
<1>1. /\ QuotaTidy(auth) /\ setting' = setting /\ now \in Nat /\ now' \in Nat
      /\ setting.callers \subseteq Callers /\ auth' \in Auth
      /\ request \in Requests(now)
    <2>1. TimelyState' /\ setting' = setting
        BY ManagerActs, TimelyStep DEF CopiesTimely
    <2>. QED BY <2>1, DeliveryAssumption
         DEF CopiesTimely, TimelyState, ConductorTypeOK, SchedulerInv,
             DeliveryAssumption
<1>2. QuotaTidy(auth)'
    BY <1>1, QuotaTidyStep
<1>3. ASSUME Watch PROVE setting'.requesting \/ request'.pc = "idle"
    BY <1>1, <1>3, WatchFacts DEF SchedulerInv
<1>4. ASSUME UNCHANGED <<auth, todo, entry>>, now <= now', NEW c \in Callers,
             ScheduleSettles(c)
      PROVE  ScheduleSettles(c)'
    <2>1. Synced => Synced'
        BY <1>1, <1>4, SyncedKept
    <2>2. \A d : Record(d.ref)' = Record(d.ref)
        BY <1>4 DEF Record
    <2>3. Due(c)' = Due(c)
        BY <1>4 DEF Due
    <2>. QED BY <1>4, <2>1, <2>2, <2>3 DEF ScheduleSettles
<1>5. ASSUME NEW c \in setting.callers, Begin(c) \/ Deliver(c), Watch
      PROVE  SchedulerInv'
    <2>1. ASSUME NEW e \in Callers, Lone(e)', ~setting'.requesting
          PROVE  ScheduleSettles(e)'
        <3>1. Lone(e) /\ c = e /\ ~setting.requesting
            BY <1>1, <2>1 DEF Lone
        <3>2. ScheduleSettles(e)
            BY <3>1 DEF SchedulerInv
        <3>. QED BY <1>1, <1>5, <3>1, <3>2, ScheduleOfBegin, ScheduleOfDelivery
    <2>. QED BY <1>2, <1>3, <1>5, <2>1 DEF SchedulerInv
<1>6. ASSUME Tick, UNCHANGED <<todo, entry, quotaMarks, suspended>>, Watch
      PROVE  SchedulerInv'
    <2>1. UNCHANGED <<auth, todo, entry>> /\ now <= now'
        BY <1>1, <1>6 DEF Tick
    <2>2. \A c \in Callers : Lone(c)' /\ ~setting'.requesting => ScheduleSettles(c)'
        BY <1>1, <1>4, <2>1 DEF SchedulerInv, Lone
    <2>. QED BY <1>2, <1>3, <1>6, <2>2 DEF SchedulerInv
<1>7. CASE Request
    <2>1. setting.requesting
        BY <1>7 DEF Request, Ask, FirstPick, SnapshotAuths, Rebuild, SecondPick,
           Answer, Pick, SchedulerInv
    <2>. QED BY <1>1, <1>2, <2>1 DEF SchedulerInv
<1>8. CASE UNCHANGED deliveryVars
    <2>1. UNCHANGED <<auth, todo, entry, request>> /\ now <= now'
        BY <1>1, <1>8 DEF deliveryVars, conductorVars
    <2>2. \A c \in Callers : Lone(c)' /\ ~setting'.requesting => ScheduleSettles(c)'
        BY <1>1, <1>4, <2>1 DEF SchedulerInv, Lone
    <2>. QED BY <1>1, <1>2, <2>1, <2>2 DEF SchedulerInv
<1>. QED BY <1>5, <1>6, <1>7, <1>8, Zenon DEF DeliveryNext

\* No request rebuilds the scheduler next to the calls of one caller.
LoneCallsUndisturbed ==
    \A s \in Settings : (\E c \in Callers : s.callers = {c}) => ~s.requesting

\* With one call at a time, none of which fails to write its file, and no
\* rebuild next to it, the scheduler holds between calls the Manager's record:
\* it offers no model that is blocked, and withholds one only until its quota
\* window closes.
THEOREM ScheduleIsTrue ==
    ASSUME LoneCallsSucceed, LoneCallsUndisturbed
    PROVE  DeliverySpec => []SchedulerAgrees
<1>1. CopiesTimely /\ SchedulerInv => SchedulerAgrees
    <2>. SUFFICES ASSUME CopiesTimely, SchedulerInv, OneAtATime, AllIdle
                  PROVE  /\ entry.present <=> ~auth.disabled
                         /\ entry.present =>
                              /\ Record(entry.ref) = auth
                              /\ \A m \in Models :
                                    /\ Offered(m) => ~ModelBlocked(m)
                                    /\ ~Offered(m) =>
                                          \/ ModelBlocked(m)
                                          \/ auth.ms[m].quota.recoverAt > now
        BY DEF SchedulerAgrees
    <2>1. Synced
        <3>1. PICK c \in Callers : setting.callers = {c}
            BY DEF OneAtATime
        <3>2. ~setting.failing /\ ~setting.requesting
            BY <3>1 DEF LoneCallsSucceed, LoneCallsUndisturbed, CopiesTimely
        <3>3. ScheduleSettles(c) /\ Due(c) = {}
            BY <3>1, <3>2, IdleDue DEF SchedulerInv, Lone, AllIdle
        <3>. QED BY <3>3 DEF ScheduleSettles
    <2>2. ASSUME entry.present, NEW m \in Models
          PROVE  /\ Offered(m) => ~ModelBlocked(m)
                 /\ ~Offered(m) => \/ ModelBlocked(m)
                                   \/ auth.ms[m].quota.recoverAt > now
        <3>. DEFINE s == auth.ms[m]
        <3>1. PICK t \in Nat : /\ t <= now
                               /\ entry.next[m] = IF Blocked(auth, m, t)
                                     THEN ReportedRetry(s, t) ELSE Never
            BY <2>1, <2>2 DEF Synced
        <3>2. /\ ~auth.disabled /\ Record(entry.ref) = auth /\ now \in Nat
              /\ s \in ModelState /\ entry \in Entries(now)
            BY <2>1, <2>2
            DEF Synced, CopiesTimely, TimelyState, ConductorTypeOK, Auth
        <3>3. /\ Blocked(auth, m, t) <=> Cooling(s, t)
              /\ Blocked(auth, m, now) <=> Cooling(s, now)
              /\ NextRetryAt(auth, m) =
                    IF Blocked(auth, m, now) THEN ReportedRetry(s, now) ELSE Never
            BY <3>2 DEF Blocked, NextRetryAt
        <3>4. /\ s.retryAt \in Nat /\ s.quota.recoverAt \in Nat
              /\ s.unavailable \in BOOLEAN
            BY <3>2 DEF ModelState, Quota
        <3>5. Offered(m) <=>
                \/ entry.next[m] = Never
                \/ entry.next[m] <= now /\ NextRetryAt(auth, m) = Never
            <4>1. CASE entry.next[m] # Never /\ entry.next[m] <= now
                <5>. DEFINE r == NextRetryAt(auth, m)
                <5>1. Promote(entry, m) = [entry EXCEPT !.next[m] = r]
                    BY <2>2, <3>2, <4>1 DEF Promote
                <5>. HIDE DEF r
                <5>2. /\ Promote(entry, m).present
                      /\ Promote(entry, m).next[m] = r
                    BY <2>2, <3>2, <5>1 DEF Entries
                <5>. QED BY <4>1, <5>2 DEF Offered, Selectable, r
            <4>2. CASE ~(entry.next[m] # Never /\ entry.next[m] <= now)
                <5>1. Promote(entry, m) = entry
                    BY <4>2 DEF Promote
                <5>. QED BY <2>2, <3>2, <4>2, <5>1 DEF Offered, Selectable, Never
            <4>. QED BY <4>1, <4>2
        <3>6. ModelBlocked(m) <=> Cooling(s, now)
            BY DEF ModelBlocked
        <3>. HIDE DEF s
        <3>7. ASSUME Offered(m) PROVE ~Cooling(s, now)
            BY <3>1, <3>2, <3>3, <3>4, <3>5, <3>7 DEF Cooling, ReportedRetry, Never
        <3>8. ASSUME ~Offered(m), ~Cooling(s, now) PROVE s.quota.recoverAt > now
            BY <3>1, <3>2, <3>3, <3>4, <3>5, <3>8 DEF Cooling, ReportedRetry, Never
        <3>. QED BY <3>6, <3>7, <3>8 DEF s
    <2>. QED BY <2>1, <2>2 DEF Synced
<1>. QED BY <1>1, CopiesTimelyInit, CopiesTimelyStep, SchedulerInit, SchedulerStep,
         PTL DEF DeliverySpec

=============================================================================
