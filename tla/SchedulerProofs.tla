-------------------------- MODULE SchedulerProofs --------------------------
(***************************************************************************)
(* Proofs about Scheduler for every finite set of credentials, providers   *)
(* and priorities: its indexes are true, it implements CredentialPool, and *)
(* both its rotations are even.                                            *)
(***************************************************************************)
EXTENDS Scheduler, WellFoundedInduction, FiniteSetTheorems, TLAPS

-----------------------------------------------------------------------------

\* Every non-empty set of natural numbers has a least element.
LEMMA NatMinimum ==
    ASSUME NEW T \in SUBSET Nat, T # {}
    PROVE  \E t \in T : \A u \in T : t <= u
<1>. DEFINE Less == {ss \in Nat \X Nat : ss[1] < ss[2]}
<1>1. OpToRel(<, Nat) = Less
    BY Zenon DEF OpToRel
<1>2. IsWellFoundedOn(Less, Nat)
    BY <1>1, NatLessThanWellFounded, Zenon
<1>3. PICK x \in T : \A y \in T : ~(<<y, x>> \in Less)
    <2>. HIDE DEF Less
    <2>1. T \subseteq Nat
        OBVIOUS
    <2>2. \E x \in T : \A y \in T : ~(<<y, x>> \in Less)
        BY <1>2, <2>1, WFMin, Zenon
    <2>. QED BY <2>2
<1>4. \A y \in T : x <= y
    <2>. SUFFICES ASSUME NEW y \in T, ~(x <= y) PROVE FALSE
        OBVIOUS
    <2>1. x \in Nat /\ y \in Nat /\ y < x
        OBVIOUS
    <2>2. <<y, x>> \in Less
        BY <2>1
    <2>. QED BY <1>3, <2>2
<1>. QED BY <1>4

-----------------------------------------------------------------------------
(* The inductive invariant, one shard at a time.                           *)

Serves(a, p) == ~a.absent /\ a.provider = p /\ a.serves

\* Entry e was made of record a at some instant up to t.
Sound(e, a, t) ==
    \/ e = [state |-> "ready", next |-> Never] /\ a.retryAt <= t
    \/ /\ e.state = IF a.exceeded THEN "cooldown" ELSE "blocked"
       /\ e.next # Never
       /\ e.next = a.recoverAt \/ (e.next = a.retryAt /\ a.recoverAt <= t)

\* It says what it would say if it were made at t.
Current(e, a, t) ==
    /\ Sound(e, a, t)
    /\ e.state # "ready" => e.next > t

Bounded(sh) ==
    \A q \in Priorities, v \in Views :
        sh.cursor[q][v] <= Cardinality(sh.ready[q][v])

Indexed(sh, recs) ==
    /\ sh.ready = ReadyViews(sh.entries, recs)
    /\ sh.waiting = WaitingList(sh.entries)

Holds(sh, p, recs, t) ==
    \A i \in Ids : IF Serves(recs[i], p) THEN Sound(sh.entries[i], recs[i], t)
                                         ELSE sh.entries[i] = NoEntry

\* Shard sh of provider p is true to the records at t.
Truthful(sh, p, recs, t) ==
    /\ sh \in Shard /\ Bounded(sh) /\ Indexed(sh, recs)
    /\ sh.stage = "none" =>
          \A i \in Ids : recs[i].absent \/ recs[i].provider # p
    /\ sh.stage # "built" => \A i \in Ids : sh.entries[i] = NoEntry
    /\ sh.stage = "built" => Holds(sh, p, recs, t)

\* A request has just looked it up.
Fresh(sh, p, recs, t) ==
    /\ sh \in Shard /\ Bounded(sh) /\ Indexed(sh, recs)
    /\ Truthful(sh, p, recs, t)
    /\ \A i \in Ids : IF Serves(recs[i], p)
                      THEN Current(sh.entries[i], recs[i], t)
                      ELSE sh.entries[i] = NoEntry

LookedUp(shs, from) == \A p \in from : Fresh(shs[p], p, auths, now)

EntryAt(shs, p, i) == shs[p].entries[i]

ViewAt(shs, p, q, v) == shs[p].ready[q][v]

Instants == /\ now \in 1..MaxTime
            /\ auths \in [Ids -> Pool!Record]

ShardsTrue ==
    /\ Instants
    /\ shards \in [Providers -> Shard]
    /\ \A p \in Providers : Truthful(shards[p], p, auths, now)
    /\ mixedCursor \in 0..Cardinality(Ids)

-----------------------------------------------------------------------------
(* Finite sets of numbers.                                                 *)

\* What is chosen as the least element is one.
LEMMA LeastId ==
    ASSUME NEW S \in SUBSET Ids, S # {}
    PROVE  Min(S) \in S
<1>1. S \subseteq Nat
    BY SchedulerAssumption DEF SchedulerAssumption
<1>2. \E i \in S : \A j \in S : i <= j
    BY <1>1, NatMinimum
<1>. QED BY <1>2 DEF Min

\* A set of credentials is finite, and a smaller one has fewer members.
LEMMA IdSets ==
    ASSUME NEW S \in SUBSET Ids
    PROVE  /\ IsFiniteSet(S) /\ Cardinality(S) \in Nat
           /\ Cardinality(S) <= Cardinality(Ids)
           /\ S # {} => Cardinality(S) > 0
           /\ \A T \in SUBSET S : /\ Cardinality(T) <= Cardinality(S)
                                  /\ T # S => Cardinality(T) < Cardinality(S)
<1>1. IsFiniteSet(Ids)
    BY SchedulerAssumption DEF SchedulerAssumption
<1>2. IsFiniteSet(S) /\ Cardinality(S) <= Cardinality(Ids)
    BY <1>1, FS_Subset
<1>3. Cardinality(S) \in Nat
    BY <1>2, FS_CardinalityType
<1>4. S # {} => Cardinality(S) > 0
    BY <1>2, <1>3, FS_EmptySet
<1>5. ASSUME NEW T \in SUBSET S
      PROVE  /\ Cardinality(T) <= Cardinality(S)
             /\ T # S => Cardinality(T) < Cardinality(S)
    <2>1. /\ IsFiniteSet(T) /\ Cardinality(T) <= Cardinality(S)
          /\ Cardinality(S) = Cardinality(T) => S = T
        BY <1>2, FS_Subset
    <2>2. Cardinality(T) \in Nat
        BY <2>1, FS_CardinalityType
    <2>. QED BY <2>1, <2>2, <1>3
<1>. QED BY <1>2, <1>3, <1>4, <1>5

\* What is chosen as the best priority is one, and none is better: one with
\* fewest better ones exists.
LEMMA BestPriority ==
    ASSUME NEW Q \in SUBSET Priorities, Q # {}
    PROVE  Max(Q) \in Q /\ \A q \in Q : q <= Max(Q)
<1>. DEFINE Above(q) == {r \in Q : r > q}
<1>1. Q \subseteq Int /\ IsFiniteSet(Priorities)
    BY SchedulerAssumption DEF SchedulerAssumption
<1>2. IsFiniteSet(Q)
    BY <1>1, FS_Subset
<1>3. \A q \in Q : IsFiniteSet(Above(q)) /\ Cardinality(Above(q)) \in Nat
    <2>. TAKE q \in Q
    <2>1. IsFiniteSet(Above(q))
        BY <1>2, FS_Subset
    <2>. QED BY <2>1, FS_CardinalityType
<1>4. \A q, r \in Q : r > q =>
          Above(r) \in SUBSET Above(q) /\ r \in Above(q) /\ r \notin Above(r)
    <2>. SUFFICES ASSUME NEW q \in Q, NEW r \in Q, r > q
                  PROVE  Above(r) \in SUBSET Above(q) /\ r \in Above(q) /\ r \notin Above(r)
        OBVIOUS
    <2>1. \A s \in Q : s \in Int
        BY <1>1
    <2>2. \A s \in Q : s > r => s > q
        BY <2>1
    <2>3. ~(r > r)
        BY <2>1
    <2>. QED BY <2>2, <2>3
<1>. HIDE DEF Above
<1>5. PICK q \in Q : \A r \in Q : Cardinality(Above(q)) <= Cardinality(Above(r))
    <2>. DEFINE T == {Cardinality(Above(q)) : q \in Q}
    <2>1. T \in SUBSET Nat /\ T # {}
        BY <1>3
    <2>. HIDE DEF T
    <2>2. PICK t \in T : \A u \in T : t <= u
        BY <2>1, NatMinimum
    <2>. QED BY <2>2 DEF T
<1>6. \A r \in Q : q >= r
    <2>. SUFFICES ASSUME NEW r \in Q, ~(q >= r) PROVE FALSE
        OBVIOUS
    <2>1. r > q
        BY <1>1
    <2>2. Above(r) \in SUBSET Above(q) /\ Above(q) # Above(r)
        BY <2>1, <1>4
    <2>3. /\ Cardinality(Above(r)) <= Cardinality(Above(q))
          /\ Cardinality(Above(q)) # Cardinality(Above(r))
        BY <1>3, <2>2, FS_Subset
    <2>. QED BY <2>3, <1>5, <1>3
<1>7. \E m \in Q : \A r \in Q : m >= r
    BY <1>6
<1>8. Max(Q) \in Q /\ \A r \in Q : Max(Q) >= r
    BY <1>7 DEF Max
<1>. QED BY <1>8, <1>1
-----------------------------------------------------------------------------
(* What the operations on one shard return.                                *)

LEMMA EvaluateIsCurrent ==
    ASSUME NEW a \in Pool!Record, NEW t \in Nat \ {0}
    PROVE  Evaluate(a, t) \in Entry /\ Current(Evaluate(a, t), a, t)
BY DEF Evaluate, Entry, Current, Sound, Never, Pool!Record, Pool!Never,
       Pool!ReportedRetry

\* An entry is never the one of a credential that does not serve the model.
LEMMA SoundIsPresent ==
    ASSUME NEW e, NEW a, NEW t, Sound(e, a, t)
    PROVE  /\ e # NoEntry
           /\ e.state \in {"ready", "cooldown", "blocked"}
           /\ e.state = "ready" => a.retryAt <= t
BY DEF Sound, NoEntry

\* What was sound stays sound.
LEMMA SoundAges ==
    ASSUME NEW e, NEW a \in Pool!Record, NEW t \in Nat, NEW u \in Nat, t <= u,
           Sound(e, a, t)
    PROVE  Sound(e, a, u)
BY DEF Sound, Pool!Record

LEMMA ViewsAreSets ==
    ASSUME NEW entries, NEW recs
    PROVE  /\ ReadyViews(entries, recs) \in [Priorities -> [Views -> SUBSET Ids]]
           /\ WaitingList(entries) \in SUBSET Ids
BY DEF ReadyViews, WaitingList

LEMMA NormalizeFits ==
    ASSUME NEW c \in Nat, NEW n \in Nat
    PROVE  Normalize(c, n) \in Nat /\ Normalize(c, n) <= n
<1>1. CASE n = 0
    BY <1>1 DEF Normalize
<1>2. CASE n # 0
    <2>1. c % n \in 0..(n - 1)
        BY <1>2
    <2>. QED BY <1>2, <2>1 DEF Normalize
<1>. QED BY <1>1, <1>2

\* A rebuild keeps the entries and makes the indexes from them.
LEMMA RebuildIndexesMakes ==
    ASSUME NEW sh \in Shard, NEW recs
    PROVE  LET r == RebuildIndexes(sh, recs)
           IN  /\ r \in Shard /\ Bounded(r) /\ Indexed(r, recs)
               /\ r.stage = sh.stage /\ r.entries = sh.entries
<1>. DEFINE ready == ReadyViews(sh.entries, recs)
            waiting == WaitingList(sh.entries)
            cursor == [q \in Priorities |-> [v \in Views |->
                           Normalize(sh.cursor[q][v], Cardinality(ready[q][v]))]]
            r == [sh EXCEPT !.ready = ready, !.waiting = waiting,
                            !.cursor = cursor]
<1>1. ready \in [Priorities -> [Views -> SUBSET Ids]] /\ waiting \in SUBSET Ids
    BY ViewsAreSets
<1>2. \A q \in Priorities, v \in Views :
          /\ Normalize(sh.cursor[q][v], Cardinality(ready[q][v])) \in Nat
          /\ Normalize(sh.cursor[q][v], Cardinality(ready[q][v]))
                <= Cardinality(ready[q][v])
    <2>. HIDE DEF ready
    <2>. TAKE q \in Priorities, v \in Views
    <2>1. sh.cursor[q][v] \in Nat
        BY DEF Shard
    <2>2. Cardinality(ready[q][v]) \in Nat
        BY <1>1, IdSets
    <2>. QED BY <2>1, <2>2, NormalizeFits
<1>. HIDE DEF ready, waiting
<1>3. cursor \in [Priorities -> [Views -> Nat]]
    BY <1>2
<1>4. \A q \in Priorities, v \in Views :
          cursor[q][v] <= Cardinality(ready[q][v])
    BY <1>2
<1>. HIDE DEF cursor
<1>5. /\ r.ready = ready /\ r.waiting = waiting /\ r.cursor = cursor
      /\ r.stage = sh.stage /\ r.entries = sh.entries
      /\ r \in Shard
    BY <1>1, <1>3 DEF Shard
<1>6. Bounded(r)
    BY <1>4, <1>5 DEF Bounded
<1>7. Indexed(r, recs)
    BY <1>5 DEF Indexed, ready, waiting
<1>8. RebuildIndexes(sh, recs) = r
    BY DEF RebuildIndexes, ready, waiting, cursor
<1>. QED BY <1>5, <1>6, <1>7, <1>8

\* A shard with other entries is a shard.
LEMMA WithEntry ==
    ASSUME NEW sh \in Shard, NEW i \in Ids, NEW e \in Entry
    PROVE  LET s == [sh EXCEPT !.entries[i] = e]
           IN  /\ s \in Shard /\ s.stage = sh.stage
               /\ s.entries = [sh.entries EXCEPT ![i] = e]
               /\ s.ready = sh.ready /\ s.waiting = sh.waiting
               /\ s.cursor = sh.cursor
BY DEF Shard

LEMMA NoEntryTyped == NoEntry \in Entry
BY DEF NoEntry, Entry, Never

\* The entry of a delivered record: the indexes are rebuilt, or need not be.
LEMMA UpsertEntryTrue ==
    ASSUME NEW p \in Providers, NEW sh, NEW i \in Ids, NEW new, Instants,
           Truthful(sh, p, auths, now), sh.stage = "built",
           new \in [Ids -> Pool!Record], \A j \in Ids : j # i => new[j] = auths[j],
           Serves(new[i], p)
    PROVE  Truthful(UpsertEntry(sh, i, auths, new), p, new, now)
<1>. DEFINE e == Evaluate(new[i], now)
            s == [sh EXCEPT !.entries[i] = e]
<1>1. now \in Nat \ {0} /\ sh \in Shard
    BY DEF Instants, Truthful
<1>2. e \in Entry /\ Sound(e, new[i], now)
    BY <1>1, EvaluateIsCurrent DEF Current
<1>. HIDE DEF e
<1>3. /\ s \in Shard /\ s.stage = "built"
      /\ s.entries = [sh.entries EXCEPT ![i] = e]
      /\ s.ready = sh.ready /\ s.waiting = sh.waiting /\ s.cursor = sh.cursor
    BY <1>1, <1>2, WithEntry
<1>. HIDE DEF s
<1>4. sh.entries \in [Ids -> Entry]
    BY <1>1 DEF Shard
<1>5. \A j \in Ids : s.entries[j] = IF j = i THEN e ELSE sh.entries[j]
    BY <1>3, <1>4
<1>6. Holds(s, p, new, now)
    <2>1. Holds(sh, p, auths, now)
        BY DEF Truthful
    <2>. QED BY <2>1, <1>2, <1>5 DEF Holds
<1>7. ASSUME e = sh.entries[i], auths[i].priority = new[i].priority,
             auths[i].websocket = new[i].websocket
      PROVE  Bounded(s) /\ Indexed(s, new)
    <2>1. s.entries = sh.entries
        BY <1>3, <1>4, <1>7
    <2>2. Bounded(s)
        BY <1>3 DEF Bounded, Truthful
    <2>3. \A j \in Ids : /\ new[j].priority = auths[j].priority
                         /\ new[j].websocket = auths[j].websocket
        BY <1>7
    <2>4. ReadyViews(s.entries, new) = ReadyViews(sh.entries, auths)
        BY <2>1, <2>3 DEF ReadyViews
    <2>5. Indexed(sh, auths)
        BY DEF Truthful
    <2>. QED BY <2>1, <2>2, <2>4, <2>5, <1>3 DEF Indexed
<1>8. LET r == RebuildIndexes(s, new)
      IN  /\ r \in Shard /\ Bounded(r) /\ Indexed(r, new)
          /\ r.stage = "built" /\ Holds(r, p, new, now)
    <2>. DEFINE r == RebuildIndexes(s, new)
    <2>1. /\ r \in Shard /\ Bounded(r) /\ Indexed(r, new)
          /\ r.stage = s.stage /\ r.entries = s.entries
        BY <1>3, RebuildIndexesMakes
    <2>. HIDE DEF r
    <2>2. Holds(r, p, new, now)
        BY <2>1, <1>6 DEF Holds
    <2>. QED BY <2>1, <2>2, <1>3 DEF r
<1>9. \/ /\ UpsertEntry(sh, i, auths, new) = s
         /\ e = sh.entries[i] /\ auths[i].priority = new[i].priority
         /\ auths[i].websocket = new[i].websocket
      \/ UpsertEntry(sh, i, auths, new) = RebuildIndexes(s, new)
    BY DEF UpsertEntry, e, s
<1>. QED BY <1>3, <1>6, <1>7, <1>8, <1>9 DEF Truthful

\* The entry of a credential that leaves, or that never had one.
LEMMA RemoveEntryTrue ==
    ASSUME NEW p \in Providers, NEW sh, NEW i \in Ids, NEW new, Instants,
           Truthful(sh, p, auths, now),
           new \in [Ids -> Pool!Record], \A j \in Ids : j # i => new[j] = auths[j],
           ~Serves(new[i], p),
           sh.stage = "none" => new[i].absent \/ new[i].provider # p
    PROVE  Truthful(RemoveEntry(sh, i, new), p, new, now)
<1>. DEFINE s == [sh EXCEPT !.entries[i] = NoEntry]
            r == RebuildIndexes(s, new)
<1>1. sh \in Shard /\ sh.entries \in [Ids -> Entry]
    BY DEF Truthful, Shard
<1>2. /\ s \in Shard /\ s.stage = sh.stage
      /\ s.entries = [sh.entries EXCEPT ![i] = NoEntry]
    BY <1>1, NoEntryTyped, WithEntry
<1>. HIDE DEF s
<1>3. /\ r \in Shard /\ Bounded(r) /\ Indexed(r, new)
      /\ r.stage = sh.stage
      /\ \A j \in Ids : r.entries[j] = IF j = i THEN NoEntry ELSE sh.entries[j]
    BY <1>1, <1>2, RebuildIndexesMakes
<1>. HIDE DEF r
<1>4. Truthful(r, p, new, now)
    BY <1>3 DEF Truthful, Holds
<1>5. ASSUME sh.entries[i] = NoEntry
      PROVE  Truthful(sh, p, new, now)
    <2>1. \A j \in Ids : sh.entries[j].state \in {"ready", "cooldown", "blocked"}
                => new[j] = auths[j]
        BY <1>5 DEF NoEntry
    <2>2. ReadyViews(sh.entries, new) = ReadyViews(sh.entries, auths)
        BY <2>1 DEF ReadyViews
    <2>3. Indexed(sh, new)
        BY <2>2 DEF Indexed, Truthful
    <2>. QED BY <1>5, <2>3 DEF Truthful, Holds
<1>. QED BY <1>4, <1>5 DEF RemoveEntry, r, s

\* A shard is true to the records a moment later, and to records that differ
\* only where it has no entry.
LEMMA TrueAges ==
    ASSUME NEW p \in Providers, NEW sh, NEW recs \in [Ids -> Pool!Record],
           NEW t \in Nat, Truthful(sh, p, recs, t)
    PROVE  Truthful(sh, p, recs, t + 1)
<1>1. \A i \in Ids : Sound(sh.entries[i], recs[i], t)
                        => Sound(sh.entries[i], recs[i], t + 1)
    <2>. TAKE i \in Ids
    <2>1. recs[i] \in Pool!Record /\ t + 1 \in Nat /\ t <= t + 1
        OBVIOUS
    <2>. QED BY <2>1, SoundAges
<1>. QED BY <1>1 DEF Truthful, Holds

\* promoteExpiredLocked: afterwards no entry waits for an instant that has come.
LEMMA PromoteIsFresh ==
    ASSUME NEW p \in Providers, NEW sh, Instants, Truthful(sh, p, auths, now),
           sh.stage = "built"
    PROVE  Fresh(Promote(sh), p, auths, now)
<1>. DEFINE due == {i \in sh.waiting : /\ sh.entries[i].next # Never
                                       /\ sh.entries[i].next <= now}
            entries == [i \in Ids |-> IF i \in due THEN Evaluate(auths[i], now)
                                                   ELSE sh.entries[i]]
            s == [sh EXCEPT !.entries = entries]
            r == RebuildIndexes(s, auths)
<1>1. /\ sh \in Shard /\ sh.entries \in [Ids -> Entry] /\ now \in Nat \ {0}
      /\ Holds(sh, p, auths, now) /\ Indexed(sh, auths)
    BY DEF Truthful, Shard, Instants
<1>2. \A i \in Ids : i \in due <=> /\ sh.entries[i].state \in {"cooldown", "blocked"}
                                   /\ sh.entries[i].next # Never
                                   /\ sh.entries[i].next <= now
    BY <1>1 DEF Indexed, WaitingList
<1>3. \A i \in Ids : Evaluate(auths[i], now) \in Entry
                     /\ Current(Evaluate(auths[i], now), auths[i], now)
    BY <1>1, EvaluateIsCurrent DEF Instants
<1>4. \A i \in Ids : i \in due => Serves(auths[i], p)
    BY <1>1, <1>2 DEF Holds, NoEntry
<1>5. \A i \in Ids : i \notin due /\ Serves(auths[i], p)
                        => Current(sh.entries[i], auths[i], now)
    <2>. SUFFICES ASSUME NEW i \in Ids, i \notin due, Serves(auths[i], p),
                         sh.entries[i].state # "ready"
                  PROVE  sh.entries[i].next > now
        BY <1>1 DEF Current, Holds
    <2>1. Sound(sh.entries[i], auths[i], now)
        BY <1>1 DEF Holds
    <2>2. sh.entries[i].state \in {"cooldown", "blocked"} /\ sh.entries[i].next # Never
        BY <2>1 DEF Sound
    <2>3. sh.entries[i].next \in Nat
        BY <1>1 DEF Entry
    <2>. QED BY <2>2, <2>3, <1>1, <1>2
<1>. HIDE DEF due
<1>6. entries \in [Ids -> Entry]
    BY <1>1, <1>3
<1>7. \A i \in Ids : IF Serves(auths[i], p) THEN Current(entries[i], auths[i], now)
                                            ELSE entries[i] = NoEntry
    BY <1>1, <1>3, <1>4, <1>5 DEF Holds
<1>8. CASE due = {}
    <2>1. \A i \in Ids : entries[i] = sh.entries[i]
        BY <1>8
    <2>2. Promote(sh) = sh
        BY <1>8 DEF Promote, due
    <2>. QED BY <1>7, <2>1, <2>2 DEF Fresh, Truthful
<1>9. CASE due # {}
    <2>. HIDE DEF entries
    <2>1. s \in Shard /\ s.stage = "built" /\ s.entries = entries
        BY <1>1, <1>6 DEF Shard
    <2>. HIDE DEF s
    <2>2. /\ r \in Shard /\ Bounded(r) /\ Indexed(r, auths)
          /\ r.stage = "built" /\ r.entries = entries
        BY <2>1, RebuildIndexesMakes
    <2>. HIDE DEF r
    <2>3. Holds(r, p, auths, now)
        BY <2>2, <1>7 DEF Holds, Current
    <2>4. Fresh(r, p, auths, now)
        BY <2>2, <2>3, <1>7 DEF Fresh, Truthful
    <2>5. Promote(sh) = r
        BY <1>9 DEF Promote, due, entries, s, r
    <2>. QED BY <2>4, <2>5
<1>. QED BY <1>8, <1>9

\* ensureModelLocked: what a request looks up is fresh.
LEMMA EnsureModelIsFresh ==
    ASSUME NEW p \in Providers, Instants, Truthful(shards[p], p, auths, now)
    PROVE  Fresh(EnsureModel(p), p, auths, now)
<1>. DEFINE sh == shards[p]
            entries == [i \in Ids |-> IF Serves(auths[i], p)
                                      THEN Evaluate(auths[i], now) ELSE NoEntry]
            s == [sh EXCEPT !.stage = "built", !.entries = entries]
            r == RebuildIndexes(s, auths)
<1>1. /\ sh \in Shard /\ sh.stage \in {"none", "lazy", "built"}
      /\ now \in Nat \ {0}
    BY DEF Truthful, Shard, Instants
<1>2. CASE sh.stage = "none"
    <2>1. EnsureModel(p) = sh
        BY <1>2 DEF EnsureModel
    <2>. QED BY <1>2, <2>1 DEF Fresh, Truthful, Serves
<1>3. CASE sh.stage = "lazy"
    <2>1. \A i \in Ids : Evaluate(auths[i], now) \in Entry
                         /\ Current(Evaluate(auths[i], now), auths[i], now)
        BY <1>1, EvaluateIsCurrent DEF Instants
    <2>2. entries \in [Ids -> Entry]
        BY <2>1, NoEntryTyped
    <2>3. \A i \in Ids : IF Serves(auths[i], p)
                         THEN Current(entries[i], auths[i], now)
                         ELSE entries[i] = NoEntry
        BY <2>1
    <2>4. entries = [i \in Ids |->
              IF ~auths[i].absent /\ auths[i].provider = p /\ auths[i].serves
              THEN Evaluate(auths[i], now) ELSE NoEntry]
        BY DEF Serves
    <2>. HIDE DEF entries
    <2>5. s \in Shard /\ s.stage = "built" /\ s.entries = entries
        BY <1>1, <2>2 DEF Shard
    <2>6. EnsureModel(p) = r
        BY <1>3, <2>4 DEF EnsureModel
    <2>. HIDE DEF s
    <2>7. /\ r \in Shard /\ Bounded(r) /\ Indexed(r, auths)
          /\ r.stage = "built" /\ r.entries = entries
        BY <2>5, RebuildIndexesMakes
    <2>. HIDE DEF r
    <2>8. Holds(r, p, auths, now)
        BY <2>7, <2>3 DEF Holds, Current
    <2>. QED BY <2>3, <2>6, <2>7, <2>8 DEF Fresh, Truthful
<1>4. CASE sh.stage = "built"
    <2>1. EnsureModel(p) = Promote(sh)
        BY <1>4 DEF EnsureModel
    <2>. QED BY <1>4, <2>1, PromoteIsFresh
<1>. QED BY <1>1, <1>2, <1>3, <1>4

-----------------------------------------------------------------------------
(* What a request is answered with.                                        *)

\* The members of the views of a shard that is fresh.
LEMMA FreshViews ==
    ASSUME NEW p \in Providers, NEW sh, Instants, Fresh(sh, p, auths, now),
           NEW i \in Ids, NEW q \in Priorities, NEW v \in Views
    PROVE  i \in sh.ready[q][v] <=> /\ sh.entries[i].state = "ready"
                                    /\ auths[i].priority = q
                                    /\ v = "ws" => auths[i].websocket
BY DEF LookedUp, Fresh, Indexed, ReadyViews

\* Nothing holds such a credential back: it is ready.
LEMMA OpenIsReady ==
    ASSUME NEW a \in Pool!Record, NEW e \in Entry, NEW t \in Nat \ {0},
           Current(e, a, t), a.retryAt <= t, a.recoverAt <= t
    PROVE  e.state = "ready"
BY DEF Current, Sound, Pool!Record, Entry

\* A waiting entry reports what the record says.
LEMMA WaitingReports ==
    ASSUME NEW a \in Pool!Record, NEW e \in Entry, NEW t \in Nat \ {0},
           Current(e, a, t), e.state # "ready"
    PROVE  /\ e.state = "cooldown" <=> a.exceeded
           /\ e.next = Pool!ReportedRetry(a, t)
           /\ ~(a.retryAt <= t /\ a.recoverAt <= t)
BY DEF Current, Sound, Pool!Record, Entry, Pool!ReportedRetry

\* The candidates are the credentials with an entry.
LEMMA CandidatesHaveEntries ==
    ASSUME NEW from \in SUBSET Providers, NEW excluded, NEW shs, Instants,
           LookedUp(shs, from)
    PROVE  /\ \A i \in Pool!Candidates(from, excluded) :
                 i \in Ids \ excluded /\ \E p \in from : EntryAt(shs, p, i) # NoEntry
           /\ \A p \in from, i \in Ids \ excluded :
                 EntryAt(shs, p, i) # NoEntry => i \in Pool!Candidates(from, excluded)
<1>1. \A p \in from, i \in Ids : EntryAt(shs, p, i) # NoEntry <=> Serves(auths[i], p)
    BY SoundIsPresent DEF LookedUp, Fresh, Current, EntryAt
<1>. QED BY <1>1 DEF Pool!Candidates, Serves

\* What such an entry says of its credential.
LEMMA EntryTells ==
    ASSUME NEW from \in SUBSET Providers, NEW shs, Instants, LookedUp(shs, from),
           NEW p \in from, NEW i \in Ids, EntryAt(shs, p, i) # NoEntry
    PROVE  /\ EntryAt(shs, p, i) \in Entry /\ auths[i] \in Pool!Record
           /\ now \in Nat \ {0}
           /\ Current(EntryAt(shs, p, i), auths[i], now)
           /\ \A q \in Priorities, v \in Views :
                 (EntryAt(shs, p, i).state = "ready" /\ auths[i].priority = q
                     /\ (v = "ws" => auths[i].websocket)) => i \in ViewAt(shs, p, q, v)
<1>1. Fresh(shs[p], p, auths, now)
    BY DEF LookedUp
<1>2. shs[p].entries \in [Ids -> Entry]
    BY <1>1 DEF Fresh, Shard
<1>3. \A q \in Priorities, v \in Views :
          i \in shs[p].ready[q][v] <=> /\ shs[p].entries[i].state = "ready"
                                       /\ auths[i].priority = q
                                       /\ v = "ws" => auths[i].websocket
    BY <1>1, FreshViews
<1>4. Current(shs[p].entries[i], auths[i], now)
    BY <1>1 DEF Fresh, EntryAt
<1>5. EntryAt(shs, p, i) = shs[p].entries[i]
    BY DEF EntryAt
<1>6. \A q \in Priorities, v \in Views : ViewAt(shs, p, q, v) = shs[p].ready[q][v]
    BY DEF ViewAt
<1>. QED BY <1>2, <1>3, <1>4, <1>5, <1>6 DEF Instants

\* A priority whose view has someone to pick.
LEMMA ReadyPriority ==
    ASSUME NEW shs, NEW p, NEW q \in Priorities, NEW v, NEW excluded,
           NEW i \in ViewAt(shs, p, q, v) \ excluded
    PROVE  q \in ReadyPriorities(shs[p], v, excluded)
BY DEF ReadyPriorities, ViewAt

\* A member of the best view that the request may use is served rightly.
LEMMA PickServes ==
    ASSUME NEW from \in SUBSET Providers, NEW excluded \in SUBSET Ids,
           NEW websocket \in BOOLEAN, NEW shs, Instants,
           LookedUp(shs, from),
           NEW v \in Views, NEW best \in Priorities, NEW p \in from,
           v = "ws" => websocket,
           websocket /\ v = "all" =>
               \A o \in from : ReadyPriorities(shs[o], "ws", excluded) = {},
           \A o \in from : \A q \in ReadyPriorities(shs[o], v, excluded) : q <= best,
           NEW i \in shs[p].ready[best][v] \ excluded,
           answer' = Granted(i)
    PROVE  Pool!Serve(Pool!Candidates(from, excluded), websocket)
<1>1. i \in Ids /\ now \in Nat \ {0}
    BY DEF LookedUp, Fresh, Shard, Instants
<1>2. /\ shs[p].entries[i].state = "ready" /\ auths[i].priority = best
      /\ v = "ws" => auths[i].websocket
    BY <1>1, FreshViews DEF LookedUp
<1>3. EntryAt(shs, p, i) # NoEntry
    BY <1>2 DEF NoEntry, EntryAt
<1>4. i \in Pool!Candidates(from, excluded)
    BY <1>1, <1>3, CandidatesHaveEntries
<1>5. Sound(EntryAt(shs, p, i), auths[i], now)
    BY <1>1, <1>3, EntryTells DEF Current
<1>6. ~Pool!Waiting(auths[i])
    <2>1. auths[i].retryAt <= now
        BY <1>2, <1>5, SoundIsPresent DEF EntryAt
    <2>2. auths[i].retryAt \in Nat
        BY <1>1 DEF Instants, Pool!Record
    <2>. QED BY <1>1, <2>1, <2>2 DEF Pool!Waiting
<1>7. ASSUME NEW j \in Pool!Open(Pool!Candidates(from, excluded))
      PROVE  ~Pool!Outranks(j, i, websocket)
    <2>1. /\ j \in Ids \ excluded /\ auths[j] \in Pool!Record
          /\ j \in Pool!Candidates(from, excluded)
          /\ ~Pool!Waiting(auths[j]) /\ auths[j].recoverAt <= now
        BY <1>7 DEF Pool!Open, Pool!Candidates, Instants
    <2>2. PICK o \in from : EntryAt(shs, o, j) # NoEntry
        BY <2>1, CandidatesHaveEntries
    <2>3. Current(EntryAt(shs, o, j), auths[j], now) /\ EntryAt(shs, o, j) \in Entry
        BY <2>1, <2>2, EntryTells
    <2>4. EntryAt(shs, o, j).state = "ready"
        <3>1. auths[j].retryAt <= now
            BY <2>1, <1>1 DEF Pool!Waiting, Pool!Record
        <3>. QED BY <2>1, <2>3, <3>1, <1>1, OpenIsReady
    <2>5. auths[j].priority \in Priorities
        BY <2>1 DEF Pool!Record
    <2>6. ASSUME NEW w \in Views, w = "ws" => auths[j].websocket
          PROVE  auths[j].priority \in ReadyPriorities(shs[o], w, excluded)
        <3>1. j \in ViewAt(shs, o, auths[j].priority, w)
            BY <2>1, <2>2, <2>4, <2>5, <2>6, EntryTells
        <3>. QED BY <2>1, <2>5, <3>1, ReadyPriority
    <2>7. auths[j].websocket \in BOOLEAN /\ auths[i].websocket \in BOOLEAN
        BY <1>1, <2>1 DEF Instants, Pool!Record
    <2>8. ASSUME websocket, auths[j].websocket # auths[i].websocket
          PROVE  ~auths[j].websocket
        <3>1. CASE v = "ws"
            BY <3>1, <1>2, <2>7, <2>8
        <3>2. CASE v = "all"
            BY <3>2, <2>6, <2>8 DEF Views
        <3>. QED BY <3>1, <3>2 DEF Views
    <2>9. ASSUME ~websocket \/ auths[j].websocket = auths[i].websocket
          PROVE  ~(auths[j].priority > auths[i].priority)
        <3>1. v = "ws" => auths[j].websocket
            BY <1>2, <2>9
        <3>2. auths[j].priority <= best
            BY <2>6, <3>1
        <3>3. auths[j].priority \in Int /\ best \in Int
            BY <2>5, SchedulerAssumption DEF SchedulerAssumption
        <3>. QED BY <3>2, <3>3, <1>2
    <2>. QED BY <2>7, <2>8, <2>9 DEF Pool!Outranks
<1>8. answer' = [kind |-> "auth", id |-> i, at |-> Pool!Never]
    BY DEF Granted, Pool!Never, Never
<1>. QED BY <1>4, <1>6, <1>7, <1>8 DEF Pool!Serve

\* A request that finds nothing is refused rightly.
LEMMA RefusalIsRight ==
    ASSUME NEW from \in SUBSET Providers, NEW excluded \in SUBSET Ids,
           NEW shs, Instants,
           LookedUp(shs, from),
           \A p \in from : ReadyPriorities(shs[p], "all", excluded) = {},
           answer' = Refusal([p \in from |-> shs[p]], excluded)
    PROVE  Pool!Refuse(Pool!Candidates(from, excluded))
<1>. DEFINE C == Pool!Candidates(from, excluded)
            entry(x) == [p \in from |-> shs[p]][x[1]].entries[x[2]]
            E == {x \in from \X (Ids \ excluded) : entry(x) # NoEntry}
<1>1. now \in Nat \ {0}
    BY DEF Instants
<1>2. \A p \in from, i \in Ids \ excluded : entry(<<p, i>>) = EntryAt(shs, p, i)
    BY DEF EntryAt
<1>3. ASSUME NEW p \in from, NEW i \in Ids \ excluded, EntryAt(shs, p, i) # NoEntry
      PROVE  /\ i \in C /\ auths[i] \in Pool!Record
             /\ EntryAt(shs, p, i).state = "cooldown" <=> auths[i].exceeded
             /\ EntryAt(shs, p, i).next = Pool!ReportedRetry(auths[i], now)
             /\ ~(auths[i].retryAt <= now /\ auths[i].recoverAt <= now)
    <2>1. i \in C
        BY <1>3, CandidatesHaveEntries
    <2>2. /\ EntryAt(shs, p, i) \in Entry /\ auths[i] \in Pool!Record
          /\ Current(EntryAt(shs, p, i), auths[i], now)
        BY <1>3, EntryTells
    <2>3. auths[i].priority \in Priorities
        BY <2>2 DEF Pool!Record
    <2>4. EntryAt(shs, p, i).state # "ready"
        <3>. SUFFICES ASSUME EntryAt(shs, p, i).state = "ready" PROVE FALSE
            OBVIOUS
        <3>1. i \in ViewAt(shs, p, auths[i].priority, "all")
            BY <1>3, <2>3, EntryTells DEF Views
        <3>2. ReadyPriorities(shs[p], "all", excluded) = {}
            OBVIOUS
        <3>. QED BY <2>3, <3>1, <3>2, ReadyPriority
    <2>. QED BY <2>1, <2>2, <2>4, <1>1, WaitingReports
<1>4. \A i \in C : i \in Ids \ excluded /\ \E p \in from : EntryAt(shs, p, i) # NoEntry
    BY CandidatesHaveEntries
<1>5. Pool!Open(C) = {}
    <2>. SUFFICES ASSUME NEW i \in C, ~Pool!Waiting(auths[i]), auths[i].recoverAt <= now
                  PROVE  FALSE
        BY DEF Pool!Open
    <2>1. PICK p \in from : EntryAt(shs, p, i) # NoEntry
        BY <1>4
    <2>2. auths[i] \in Pool!Record /\ ~(auths[i].retryAt <= now /\ auths[i].recoverAt <= now)
        BY <1>3, <1>4, <2>1
    <2>. QED BY <2>2, <1>1 DEF Pool!Waiting, Pool!Record
<1>. HIDE DEF C, entry
<1>6. \A x \in E : /\ x[2] \in C
                   /\ entry(x).state = "cooldown" <=> auths[x[2]].exceeded
                   /\ entry(x).next = Pool!ReportedRetry(auths[x[2]], now)
    <2>. TAKE x \in E
    <2>1. /\ x = <<x[1], x[2]>> /\ x[1] \in from /\ x[2] \in Ids \ excluded
          /\ entry(x) # NoEntry
        OBVIOUS
    <2>2. entry(x) = EntryAt(shs, x[1], x[2])
        BY <1>2, <2>1
    <2>. QED BY <1>3, <2>1, <2>2
<1>7. \A i \in C : \E x \in E : x[2] = i
    <2>. TAKE i \in C
    <2>1. PICK p \in from : EntryAt(shs, p, i) # NoEntry
        BY <1>4
    <2>2. <<p, i>> \in E
        BY <1>2, <1>4, <2>1
    <2>. QED BY <2>2
<1>. HIDE DEF E
<1>8. E = {} <=> C = {}
    BY <1>6, <1>7
<1>9. (\A x \in E : entry(x).state = "cooldown") <=> (\A i \in C : auths[i].exceeded)
    BY <1>6, <1>7
<1>10. {entry(x).next : x \in E} = {Pool!ReportedRetry(auths[i], now) : i \in C}
    BY <1>6, <1>7
<1>11. Refusal([p \in from |-> shs[p]], excluded) =
         CASE E = {} -> [Pool!NoAnswer EXCEPT !.kind = "not_found"]
           [] E # {} /\ (\A x \in E : entry(x).state = "cooldown") ->
                [kind |-> "cooldown", id |-> 0,
                 at |-> Min({entry(x).next : x \in E})]
           [] OTHER -> [Pool!NoAnswer EXCEPT !.kind = "unavailable"]
    BY DEF Refusal, E, entry
<1>12. answer' =
         CASE C = {} -> [Pool!NoAnswer EXCEPT !.kind = "not_found"]
           [] C # {} /\ (\A i \in C : auths[i].exceeded) ->
                [kind |-> "cooldown", id |-> 0,
                 at |-> Min({Pool!ReportedRetry(auths[i], now) : i \in C})]
           [] OTHER -> [Pool!NoAnswer EXCEPT !.kind = "unavailable"]
    BY <1>8, <1>9, <1>10, <1>11
<1>13. Pool!Refuse(C)
    BY <1>5, <1>12, Zenon DEF Pool!Refuse, Pool!Min, Min
<1>. QED BY <1>13 DEF C

-----------------------------------------------------------------------------
(* The steps.                                                              *)

\* A pick returns a member of the view that the request may use, and leaves
\* the cursor within the view.
LEMMA PickAtFits ==
    ASSUME NEW sh \in Shard, Bounded(sh), NEW q \in Priorities, NEW v \in Views,
           NEW st, NEW excluded, sh.ready[q][v] \ excluded # {}
    PROVE  LET pick == PickAt(sh, q, v, st, excluded)
           IN  /\ pick.id \in sh.ready[q][v] \ excluded
               /\ pick.cursor \in 0..Cardinality(sh.ready[q][v])
<1>. DEFINE view == sh.ready[q][v]
            eligible == view \ excluded
            cursor == sh.cursor[q][v]
            start == Normalize(cursor, Cardinality(view))
            ahead == {i \in eligible : Place(view, i) >= start}
            i == Min(IF ahead # {} THEN ahead ELSE eligible)
            first == Min(eligible)
<1>1. view \in SUBSET Ids /\ eligible \in SUBSET Ids /\ eligible # {}
      /\ cursor \in Nat /\ cursor <= Cardinality(view)
    BY DEF Shard, Bounded
<1>2. PickAt(sh, q, v, st, excluded) =
          IF st = "fill_first" THEN [id |-> first, cursor |-> cursor]
                               ELSE [id |-> i, cursor |-> Place(view, i) + 1]
    BY Zenon DEF PickAt, PickRoundRobin
<1>. HIDE DEF view, cursor
<1>3. first \in eligible
    BY <1>1, LeastId
<1>4. i \in eligible
    <2>1. ahead \in SUBSET Ids
        BY <1>1
    <2>. DEFINE S == IF ahead # {} THEN ahead ELSE eligible
    <2>2. S \in SUBSET Ids /\ S # {} /\ S \subseteq eligible
        BY <1>1, <2>1
    <2>. HIDE DEF S
    <2>3. Min(S) \in S
        BY <2>2, LeastId
    <2>. QED BY <2>2, <2>3 DEF S
<1>. HIDE DEF i, first
<1>5. Place(view, i) + 1 \in 0..Cardinality(view)
    <2>. DEFINE below == {j \in view : j < i}
    <2>1. i \in view /\ i \in Nat
        BY <1>1, <1>4, SchedulerAssumption DEF SchedulerAssumption
    <2>2. below \in SUBSET view /\ below # view
        BY <2>1
    <2>3. Cardinality(below) < Cardinality(view)
        BY <1>1, <2>2, IdSets
    <2>4. Cardinality(below) \in Nat /\ Cardinality(view) \in Nat
        BY <1>1, <2>2, IdSets
    <2>5. Place(view, i) = Cardinality(below)
        BY DEF Place
    <2>. QED BY <2>3, <2>4, <2>5
<1>6. Cardinality(view) \in Nat
    BY <1>1, IdSets
<1>. QED BY <1>1, <1>2, <1>3, <1>4, <1>5, <1>6 DEF view

\* A shard whose cursor moved is as true as before.
LEMMA CursorMoves ==
    ASSUME NEW p \in Providers, NEW sh, NEW recs, NEW t, Truthful(sh, p, recs, t),
           NEW q \in Priorities, NEW v \in Views,
           NEW c \in 0..Cardinality(sh.ready[q][v])
    PROVE  Truthful([sh EXCEPT !.cursor[q][v] = c], p, recs, t)
<1>. DEFINE cursor == [sh.cursor EXCEPT ![q][v] = c]
            s == [sh EXCEPT !.cursor = cursor]
<1>1. sh \in Shard /\ sh.cursor \in [Priorities -> [Views -> Nat]]
    BY DEF Truthful, Shard
<1>2. c \in Nat
    <2>1. sh.ready[q][v] \in SUBSET Ids
        BY <1>1 DEF Shard
    <2>2. Cardinality(sh.ready[q][v]) \in Nat
        BY <2>1, IdSets
    <2>. QED BY <2>2
<1>3. cursor \in [Priorities -> [Views -> Nat]]
    BY <1>1, <1>2
<1>4. \A r \in Priorities, w \in Views :
          cursor[r][w] = IF r = q /\ w = v THEN c ELSE sh.cursor[r][w]
    BY <1>1
<1>5. [sh EXCEPT !.cursor[q][v] = c] = s
    BY <1>1
<1>. HIDE DEF cursor
<1>6. /\ s \in Shard /\ s.stage = sh.stage /\ s.entries = sh.entries
      /\ s.ready = sh.ready /\ s.waiting = sh.waiting /\ s.cursor = cursor
    BY <1>1, <1>3 DEF Shard
<1>. HIDE DEF s
<1>7. c <= Cardinality(sh.ready[q][v])
    <2>1. sh.ready[q][v] \in SUBSET Ids
        BY <1>1 DEF Shard
    <2>2. Cardinality(sh.ready[q][v]) \in Nat
        BY <2>1, IdSets
    <2>. QED BY <2>2
<1>8. Bounded(s)
    <2>1. Bounded(sh)
        BY DEF Truthful
    <2>. QED BY <2>1, <1>4, <1>6, <1>7 DEF Bounded
<1>9. Truthful(s, p, recs, t)
    BY <1>6, <1>8 DEF Truthful, Indexed, Holds
<1>. QED BY <1>5, <1>9

\* Shards that a request looked up, and the cursor it moved.
LEMMA GrantMoves ==
    ASSUME Instants, NEW shs \in [Providers -> Shard],
           \A o \in Providers : Truthful(shs[o], o, auths, now),
           NEW p \in Providers, NEW q \in Priorities, NEW v \in Views,
           NEW st, NEW excluded, shs[p].ready[q][v] \ excluded # {},
           Grant(shs, p, q, v, st, excluded)
    PROVE  /\ shards' \in [Providers -> Shard]
           /\ \A o \in Providers : Truthful(shards'[o], o, auths, now)
           /\ \E i \in shs[p].ready[q][v] \ excluded : answer' = Granted(i)
<1>. DEFINE pick == PickAt(shs[p], q, v, st, excluded)
            sh == [shs[p] EXCEPT !.cursor[q][v] = pick.cursor]
<1>1. /\ shards' = [shs EXCEPT ![p].cursor[q][v] = pick.cursor]
      /\ answer' = Granted(pick.id)
    BY DEF Grant
<1>2. shs[p] \in Shard /\ Truthful(shs[p], p, auths, now) /\ Bounded(shs[p])
    BY DEF Truthful
<1>3. /\ pick.id \in shs[p].ready[q][v] \ excluded
      /\ pick.cursor \in 0..Cardinality(shs[p].ready[q][v])
    BY <1>2, PickAtFits
<1>4. Truthful(sh, p, auths, now)
    <2>. HIDE DEF pick
    <2>. QED BY <1>2, <1>3, CursorMoves
<1>5. shards' = [shs EXCEPT ![p] = sh]
    BY <1>1
<1>6. sh \in Shard
    BY <1>4 DEF Truthful
<1>. HIDE DEF sh, pick
<1>7. \A o \in Providers : shards'[o] = IF o = p THEN sh ELSE shs[o]
    BY <1>5
<1>. QED BY <1>1, <1>3, <1>4, <1>5, <1>6, <1>7

\* What the lookups of a request leave.
LEMMA LookupsAreTrue ==
    ASSUME ShardsTrue, NEW from \in SUBSET Providers
    PROVE  LET shs == [o \in Providers |-> IF o \in from THEN EnsureModel(o)
                                                         ELSE shards[o]]
           IN  /\ shs \in [Providers -> Shard]
               /\ \A o \in Providers : Truthful(shs[o], o, auths, now)
               /\ LookedUp(shs, from)
<1>1. \A o \in Providers : /\ Fresh(EnsureModel(o), o, auths, now)
                           /\ shards[o] \in Shard /\ Truthful(shards[o], o, auths, now)
    BY EnsureModelIsFresh DEF ShardsTrue
<1>2. \A o \in Providers : /\ EnsureModel(o) \in Shard
                           /\ Truthful(EnsureModel(o), o, auths, now)
    BY <1>1 DEF Fresh
<1>. QED BY <1>1, <1>2 DEF LookedUp

\* A request for one provider.
LEMMA SingleStep ==
    ASSUME ShardsTrue, NEW p \in Providers, NEW excluded \in SUBSET Ids,
           NEW websocket \in BOOLEAN, PickSingle(p, excluded, websocket)
    PROVE  ShardsTrue' /\ Pool!Request({p}, excluded, websocket)
<1>. DEFINE shs == [o \in Providers |-> IF o \in {p} THEN EnsureModel(o)
                                                     ELSE shards[o]]
            v == PreferredView(shs[p], websocket, excluded)
            qs == ReadyPriorities(shs[p], v, excluded)
            C == Pool!Candidates({p}, excluded)
<1>1. /\ shs \in [Providers -> Shard]
      /\ \A o \in Providers : Truthful(shs[o], o, auths, now)
      /\ LookedUp(shs, {p})
    BY LookupsAreTrue
<1>2. [shards EXCEPT ![p] = EnsureModel(p)] = shs
    BY DEF ShardsTrue
<1>3. /\ IF qs = {} THEN Deny(shs, {p}, excluded)
                    ELSE Grant(shs, p, Max(qs), v, strategy, excluded)
      /\ now' = now /\ auths' = auths /\ mixedCursor' = mixedCursor
    BY <1>2, Zenon DEF PickSingle
<1>4. Instants
    BY DEF ShardsTrue
<1>. HIDE DEF shs
<1>5. /\ v \in Views
      /\ v = "ws" => websocket
      /\ websocket /\ v = "all" => ReadyPriorities(shs[p], "ws", excluded) = {}
      /\ v = "ws" => qs # {}
    BY DEF PreferredView, Views
<1>6. qs \in SUBSET Priorities
    BY DEF ReadyPriorities
<1>7. ASSUME qs # {}
      PROVE  /\ shards' \in [Providers -> Shard]
             /\ \A o \in Providers : Truthful(shards'[o], o, auths, now)
             /\ Pool!Serve(C, websocket)
    <2>. DEFINE best == Max(qs)
    <2>1. best \in qs /\ \A q \in qs : q <= best
        BY <1>6, <1>7, BestPriority
    <2>2. best \in Priorities /\ shs[p].ready[best][v] \ excluded # {}
        BY <2>1 DEF ReadyPriorities
    <2>3. Grant(shs, p, best, v, strategy, excluded)
        BY <1>3, <1>7
    <2>4. \A o \in {p} : \A q \in ReadyPriorities(shs[o], v, excluded) : q <= best
        BY <2>1
    <2>5. websocket /\ v = "all" =>
              \A o \in {p} : ReadyPriorities(shs[o], "ws", excluded) = {}
        BY <1>5
    <2>. HIDE DEF best, v, qs
    <2>6. /\ shards' \in [Providers -> Shard]
          /\ \A o \in Providers : Truthful(shards'[o], o, auths, now)
          /\ \E i \in shs[p].ready[best][v] \ excluded : answer' = Granted(i)
        BY <1>1, <1>4, <1>5, <2>2, <2>3, GrantMoves
    <2>7. PICK i \in shs[p].ready[best][v] \ excluded : answer' = Granted(i)
        BY <2>6
    <2>8. {p} \in SUBSET Providers /\ p \in {p}
        OBVIOUS
    <2>9. Pool!Serve(Pool!Candidates({p}, excluded), websocket)
        BY <1>1, <1>4, <1>5, <2>2, <2>4, <2>5, <2>7, <2>8, PickServes
    <2>. QED BY <2>6, <2>9
<1>8. ASSUME qs = {}
      PROVE  shards' = shs /\ Pool!Refuse(C)
    <2>1. Deny(shs, {p}, excluded)
        BY <1>3, <1>8
    <2>2. \A o \in {p} : ReadyPriorities(shs[o], "all", excluded) = {}
        BY <1>5, <1>8 DEF Views
    <2>3. /\ shards' = shs
          /\ answer' = Refusal([o \in {p} |-> shs[o]], excluded)
        BY <2>1 DEF Deny
    <2>4. {p} \in SUBSET Providers
        OBVIOUS
    <2>5. Pool!Refuse(Pool!Candidates({p}, excluded))
        BY <1>1, <1>4, <2>2, <2>3, <2>4, RefusalIsRight
    <2>. QED BY <2>3, <2>5
<1>9. /\ shards' \in [Providers -> Shard]
      /\ \A o \in Providers : Truthful(shards'[o], o, auths, now)
    BY <1>1, <1>7, <1>8
<1>10. ShardsTrue'
    BY <1>3, <1>9 DEF ShardsTrue, Instants
<1>11. Pool!Request({p}, excluded, websocket)
    BY <1>3, <1>7, <1>8 DEF Pool!Request
<1>. QED BY <1>10, <1>11

\* The views of two providers have nobody in common.
LEMMA ViewsAreDisjoint ==
    ASSUME Instants, NEW from \in SUBSET Providers, NEW shs, LookedUp(shs, from),
           NEW q \in Priorities, NEW v \in Views, NEW o \in from, NEW p \in from,
           NEW i \in ViewAt(shs, o, q, v), i \in ViewAt(shs, p, q, v)
    PROVE  o = p
<1>1. ASSUME NEW r \in from, i \in ViewAt(shs, r, q, v)
      PROVE  Serves(auths[i], r)
    <2>. DEFINE sh == shs[r]
    <2>1. Fresh(sh, r, auths, now)
        BY DEF LookedUp
    <2>2. i \in sh.ready[q][v]
        BY <1>1 DEF ViewAt
    <2>. HIDE DEF sh
    <2>3. i \in Ids
        BY <2>1, <2>2 DEF Fresh, Shard
    <2>4. r \in Providers
        OBVIOUS
    <2>5. sh.entries[i].state = "ready"
        BY <2>1, <2>2, <2>3, <2>4, FreshViews
    <2>. QED BY <2>1, <2>3, <2>5 DEF Fresh, NoEntry
<1>. QED BY <1>1 DEF Serves

\* A request for several providers is refused or served from one of their
\* views of the best priority.
LEMMA MixedGrants ==
    ASSUME NEW excluded \in SUBSET Ids, PickMixed(excluded)
    PROVE  LET from == {Order[k] : k \in DOMAIN Order}
               shs == [p \in Providers |-> IF p \in from THEN EnsureModel(p)
                                                         ELSE shards[p]]
           IN  \/ Deny(shs, from, excluded)
               \/ \E p \in Providers, q \in Priorities :
                     /\ shs[p].ready[q]["all"] \ excluded # {}
                     /\ Grant(shs, p, q, "all", strategy, excluded)
<1>. DEFINE from == {Order[k] : k \in DOMAIN Order}
            shs == [p \in Providers |-> IF p \in from THEN EnsureModel(p)
                                                      ELSE shards[p]]
            qs == UNION {ReadyPriorities(shs[p], "all", excluded) : p \in from}
            best == Max(qs)
            view(k) == shs[Order[k]].ready[best]["all"]
            weight(k) == Cardinality(view(k))
            before(k) == Cardinality(UNION {view(j) : j \in 1..(k - 1)})
            able == {k \in DOMAIN Order : view(k) \ excluded # {}}
            slot == mixedCursor % before(Len(Order) + 1)
            start == CHOOSE k \in DOMAIN Order :
                         before(k) <= slot /\ slot < before(k) + weight(k)
            ahead == {k \in able : k >= start}
            k == IF strategy = "fill_first" THEN Min(able)
                 ELSE Min(IF ahead # {} THEN ahead ELSE able)
<1>1. /\ qs = {} => Deny(shs, from, excluded)
      /\ qs # {} => Grant(shs, Order[k], best, "all", strategy, excluded)
    BY Zenon DEF PickMixed
<1>2. /\ DOMAIN Order = 1..Len(Order) /\ Len(Order) \in Nat
      /\ \A j \in DOMAIN Order : Order[j] \in Providers
    BY SchedulerAssumption DEF SchedulerAssumption
<1>. HIDE DEF shs
<1>3. qs \in SUBSET Priorities
    BY DEF ReadyPriorities
<1>4. \A q \in qs : \E o \in from : q \in ReadyPriorities(shs[o], "all", excluded)
    OBVIOUS
<1>. HIDE DEF qs
<1>5. ASSUME qs # {}
      PROVE  /\ Order[k] \in Providers /\ best \in Priorities
             /\ shs[Order[k]].ready[best]["all"] \ excluded # {}
    <2>1. best \in qs
        BY <1>3, <1>5, BestPriority
    <2>. HIDE DEF best
    <2>2. able # {} /\ able \subseteq DOMAIN Order
        <3>1. PICK o \in from : best \in ReadyPriorities(shs[o], "all", excluded)
            BY <2>1, <1>4
        <3>2. PICK j \in DOMAIN Order : o = Order[j]
            OBVIOUS
        <3>3. view(j) \ excluded # {}
            BY <3>1, <3>2 DEF ReadyPriorities
        <3>. QED BY <3>3
    <2>. HIDE DEF view, ahead
    <2>3. k \in able
        <3>. DEFINE S == IF strategy = "fill_first" THEN able
                         ELSE IF ahead # {} THEN ahead ELSE able
        <3>1. ahead \subseteq able
            BY DEF ahead
        <3>2. S \in SUBSET Nat /\ S # {} /\ S \subseteq able /\ k = Min(S)
            BY <1>2, <2>2, <3>1
        <3>. HIDE DEF S, k, able
        <3>3. \E i \in S : \A j \in S : i <= j
            BY <3>2, NatMinimum
        <3>4. Min(S) \in S
            BY <3>3 DEF Min
        <3>. QED BY <3>2, <3>4
    <2>4. k \in DOMAIN Order /\ view(k) \ excluded # {}
        BY <2>3
    <2>. HIDE DEF k, able
    <2>. QED BY <1>2, <1>3, <2>1, <2>4 DEF view
<1>. HIDE DEF k, best
<1>6. CASE qs = {}
    BY <1>1, <1>6 DEF shs
<1>7. CASE qs # {}
    <2>1. \E p \in Providers, q \in Priorities :
              /\ shs[p].ready[q]["all"] \ excluded # {}
              /\ Grant(shs, p, q, "all", strategy, excluded)
        BY <1>1, <1>5, <1>7
    <2>. QED BY <2>1 DEF shs
<1>. QED BY <1>6, <1>7

\* A request for several providers.
LEMMA MixedStep ==
    ASSUME ShardsTrue, NEW excluded \in SUBSET Ids, PickMixed(excluded)
    PROVE  /\ ShardsTrue'
           /\ \E from \in SUBSET Providers : Pool!Request(from, excluded, FALSE)
<1>. DEFINE from == {Order[k] : k \in DOMAIN Order}
            shs == [p \in Providers |-> IF p \in from THEN EnsureModel(p)
                                                      ELSE shards[p]]
            qs == UNION {ReadyPriorities(shs[p], "all", excluded) : p \in from}
            best == Max(qs)
            view(k) == shs[Order[k]].ready[best]["all"]
            weight(k) == Cardinality(view(k))
            before(k) == Cardinality(UNION {view(j) : j \in 1..(k - 1)})
            able == {k \in DOMAIN Order : view(k) \ excluded # {}}
            slot == mixedCursor % before(Len(Order) + 1)
            start == CHOOSE k \in DOMAIN Order :
                         before(k) <= slot /\ slot < before(k) + weight(k)
            ahead == {k \in able : k >= start}
            k == IF strategy = "fill_first" THEN Min(able)
                 ELSE Min(IF ahead # {} THEN ahead ELSE able)
            C == Pool!Candidates(from, excluded)
<1>1. /\ qs = {} => Deny(shs, from, excluded) /\ mixedCursor' = mixedCursor
      /\ qs # {} =>
            /\ Grant(shs, Order[k], best, "all", strategy, excluded)
            /\ mixedCursor' = IF strategy = "fill_first" THEN mixedCursor
                              ELSE (IF k = start THEN slot ELSE before(k)) + 1
      /\ now' = now /\ auths' = auths
    BY Zenon DEF PickMixed
<1>2. /\ DOMAIN Order = 1..Len(Order) /\ Len(Order) \in Nat
      /\ \A j \in DOMAIN Order : Order[j] \in Providers
      /\ \A j, m \in DOMAIN Order : Order[j] = Order[m] => j = m
    BY SchedulerAssumption DEF SchedulerAssumption
<1>3. from \in SUBSET Providers
    BY <1>2
<1>4. /\ shs \in [Providers -> Shard]
      /\ \A o \in Providers : Truthful(shs[o], o, auths, now)
      /\ LookedUp(shs, from)
    BY <1>3, LookupsAreTrue
<1>5. Instants /\ mixedCursor \in 0..Cardinality(Ids) /\ Cardinality(Ids) \in Nat
    BY IdSets DEF ShardsTrue
<1>. HIDE DEF shs
<1>6. qs \in SUBSET Priorities
    BY DEF ReadyPriorities
<1>7. \A o \in from : \A q \in ReadyPriorities(shs[o], "all", excluded) : q \in qs
    OBVIOUS
<1>8. \A q \in qs : \E o \in from : q \in ReadyPriorities(shs[o], "all", excluded)
    OBVIOUS
<1>. HIDE DEF qs
<1>9. ASSUME qs # {}
      PROVE  /\ shards' \in [Providers -> Shard]
             /\ \A o \in Providers : Truthful(shards'[o], o, auths, now)
             /\ Pool!Serve(C, FALSE)
             /\ mixedCursor' \in 0..Cardinality(Ids)
    <2>1. best \in qs /\ \A q \in qs : q <= best
        BY <1>6, <1>9, BestPriority
    <2>. HIDE DEF best
    <2>2. best \in Priorities
        BY <1>6, <2>1
    <2>3. \A j \in DOMAIN Order : /\ Order[j] \in from
                                  /\ view(j) = ViewAt(shs, Order[j], best, "all")
        BY DEF ViewAt
    <2>4. \A j \in DOMAIN Order : view(j) \in SUBSET Ids
        BY <1>2, <1>4, <2>2 DEF Shard, Views
    <2>5. able # {} /\ able \subseteq DOMAIN Order
        <3>1. PICK o \in from : best \in ReadyPriorities(shs[o], "all", excluded)
            BY <2>1, <1>8
        <3>2. PICK j \in DOMAIN Order : o = Order[j]
            OBVIOUS
        <3>3. view(j) \ excluded # {}
            BY <3>1, <3>2 DEF ReadyPriorities
        <3>. QED BY <3>3
    <2>6. \A j, m \in DOMAIN Order : \A i : i \in view(j) /\ i \in view(m) => j = m
        <3>. SUFFICES ASSUME NEW j \in DOMAIN Order, NEW m \in DOMAIN Order, NEW i,
                             i \in view(j), i \in view(m)
                      PROVE  j = m
            OBVIOUS
        <3>1. /\ Order[j] \in from /\ Order[m] \in from /\ "all" \in Views
              /\ i \in ViewAt(shs, Order[j], best, "all")
              /\ i \in ViewAt(shs, Order[m], best, "all")
            BY <2>3 DEF Views
        <3>. HIDE DEF from, view
        <3>2. Order[j] = Order[m]
            BY <1>3, <1>4, <1>5, <2>2, <3>1, ViewsAreDisjoint
        <3>. QED BY <1>2, <3>2
    <2>. HIDE DEF view, ahead
    <2>7. k \in able
        <3>. DEFINE S == IF strategy = "fill_first" THEN able
                         ELSE IF ahead # {} THEN ahead ELSE able
        <3>1. ahead \subseteq able
            BY DEF ahead
        <3>2. S \in SUBSET Nat /\ S # {} /\ S \subseteq able /\ k = Min(S)
            BY <1>2, <2>5, <3>1
        <3>. HIDE DEF S, k, able
        <3>3. \E i \in S : \A j \in S : i <= j
            BY <3>2, NatMinimum
        <3>4. Min(S) \in S
            BY <3>3 DEF Min
        <3>. QED BY <3>2, <3>4
    <2>8. k \in DOMAIN Order /\ view(k) \ excluded # {}
        BY <2>7
    <2>9. Order[k] \in Providers /\ Order[k] \in from
        BY <1>2, <2>3, <2>8
    <2>. HIDE DEF k, start, slot, able
    <2>10. shs[Order[k]].ready[best]["all"] \ excluded # {}
        BY <2>8 DEF view
    <2>11. /\ Grant(shs, Order[k], best, "all", strategy, excluded)
           /\ mixedCursor' = IF strategy = "fill_first" THEN mixedCursor
                             ELSE (IF k = start THEN slot ELSE before(k)) + 1
        BY <1>1, <1>9
    <2>12. /\ shards' \in [Providers -> Shard]
           /\ \A o \in Providers : Truthful(shards'[o], o, auths, now)
           /\ \E i \in shs[Order[k]].ready[best]["all"] \ excluded :
                  answer' = Granted(i)
        BY <1>4, <1>5, <2>2, <2>9, <2>10, <2>11, GrantMoves DEF Views
    <2>13. PICK i \in shs[Order[k]].ready[best]["all"] \ excluded :
               answer' = Granted(i)
        BY <2>12
    <2>14. \A o \in from : \A q \in ReadyPriorities(shs[o], "all", excluded) :
               q <= best
        BY <1>7, <2>1
    <2>15. Pool!Serve(Pool!Candidates(from, excluded), FALSE)
        <3>. HIDE DEF from
        <3>1. "all" \in Views /\ FALSE \in BOOLEAN
            BY DEF Views
        <3>2. ~(FALSE /\ "all" = "all") /\ ~("all" = "ws")
            OBVIOUS
        <3>. QED BY <1>3, <1>4, <1>5, <2>2, <2>9, <2>13, <2>14, <3>1, <3>2, PickServes
    <2>. DEFINE upTo(n) == UNION {view(j) : j \in 1..(n - 1)}
    <2>16. \A n \in 1..(Len(Order) + 1) :
               upTo(n) \in SUBSET Ids /\ before(n) = Cardinality(upTo(n))
        BY <1>2, <2>4
    <2>17. before(k) \in Nat /\ before(k) < Cardinality(Ids)
        <3>1. k \in 1..(Len(Order) + 1)
            BY <1>2, <2>8
        <3>2. PICK m : m \in view(k)
            BY <2>8
        <3>3. \A j \in 1..(k - 1) : j \in DOMAIN Order /\ j # k
            BY <1>2, <2>8
        <3>4. m \in Ids /\ m \notin upTo(k)
            BY <2>4, <2>6, <2>8, <3>2, <3>3
        <3>5. upTo(k) \in SUBSET Ids /\ before(k) = Cardinality(upTo(k))
            BY <2>16, <3>1
        <3>. HIDE DEF upTo, before
        <3>. QED BY <3>4, <3>5, IdSets
    <2>18. slot \in Nat /\ slot < Cardinality(Ids)
        <3>. DEFINE n == Len(Order) + 1
        <3>1. n \in 1..(Len(Order) + 1) /\ k \in 1..(n - 1)
            BY <1>2, <2>8
        <3>2. PICK m : m \in view(k)
            BY <2>8
        <3>. HIDE DEF n
        <3>3. m \in upTo(n)
            BY <3>1, <3>2
        <3>4. upTo(n) \in SUBSET Ids /\ before(n) = Cardinality(upTo(n))
            BY <2>16, <3>1
        <3>. HIDE DEF upTo, before
        <3>5. /\ before(n) \in Nat /\ before(n) > 0
              /\ before(n) <= Cardinality(Ids)
            BY <3>3, <3>4, IdSets
        <3>6. slot = mixedCursor % before(n) /\ mixedCursor \in Int
            BY <1>5 DEF slot, n
        <3>7. slot \in 0..(before(n) - 1)
            BY <3>5, <3>6
        <3>. QED BY <3>5, <3>7, <1>5
    <2>. HIDE DEF before
    <2>19. mixedCursor' \in 0..Cardinality(Ids)
        BY <1>5, <2>11, <2>17, <2>18
    <2>. QED BY <2>12, <2>15, <2>19
<1>10. ASSUME qs = {}
       PROVE  shards' = shs /\ Pool!Refuse(C) /\ mixedCursor' = mixedCursor
    <2>1. Deny(shs, from, excluded) /\ mixedCursor' = mixedCursor
        BY <1>1, <1>10
    <2>2. \A o \in from : ReadyPriorities(shs[o], "all", excluded) = {}
        BY <1>7, <1>10
    <2>. HIDE DEF from
    <2>3. /\ shards' = shs
          /\ answer' = Refusal([o \in from |-> shs[o]], excluded)
        BY <2>1 DEF Deny
    <2>4. Pool!Refuse(Pool!Candidates(from, excluded))
        BY <1>3, <1>4, <1>5, <2>2, <2>3, RefusalIsRight
    <2>. QED BY <2>1, <2>3, <2>4
<1>. HIDE DEF C
<1>11. /\ shards' \in [Providers -> Shard]
       /\ \A o \in Providers : Truthful(shards'[o], o, auths, now)
       /\ mixedCursor' \in 0..Cardinality(Ids)
    BY <1>4, <1>5, <1>9, <1>10
<1>12. ShardsTrue'
    BY <1>1, <1>5, <1>11 DEF ShardsTrue, Instants
<1>13. Pool!Request(from, excluded, FALSE)
    BY <1>1, <1>9, <1>10 DEF Pool!Request, C
<1>. QED BY <1>3, <1>12, <1>13

\* A delivered record is one.
LEMMA DatedIsRecord ==
    ASSUME Instants, NEW d \in Deliverable
    PROVE  /\ Dated(d) \in Pool!Record /\ ~Dated(d).absent
           /\ Dated(d).provider = d.provider /\ Dated(d).serves = d.serves
           /\ d.provider \in Providers /\ d.serves \in BOOLEAN
<1>1. d \in [provider : Providers, priority : Priorities, websocket : BOOLEAN,
             serves : BOOLEAN, wait : Nat, window : Nat]
    BY SchedulerAssumption DEF SchedulerAssumption
<1>2. now \in Nat
    BY DEF Instants
<1>3. /\ (IF d.wait > 0 THEN now + d.wait ELSE Never) \in Nat
      /\ (IF d.window > 0 THEN now + d.window ELSE Never) \in Nat
      /\ (d.window > 0) \in BOOLEAN
    BY <1>1, <1>2 DEF Never
<1>. QED BY <1>1, <1>3 DEF Dated, Pool!Record

\* The shard of a provider that a delivery does not concern.
LEMMA Unconcerned ==
    ASSUME NEW p \in Providers, NEW sh, NEW i \in Ids, NEW new, Instants,
           Truthful(sh, p, auths, now), new \in [Ids -> Pool!Record],
           \A j \in Ids : j # i => new[j] = auths[j],
           auths[i].absent \/ auths[i].provider # p,
           new[i].absent \/ new[i].provider # p
    PROVE  Truthful(sh, p, new, now)
<1>1. sh.entries[i] = NoEntry
    BY DEF Truthful, Holds, Serves, Shard
<1>2. \A j \in Ids : sh.entries[j].state = "ready" => new[j] = auths[j]
    BY <1>1 DEF NoEntry
<1>3. ReadyViews(sh.entries, new) = ReadyViews(sh.entries, auths)
    BY <1>2 DEF ReadyViews
<1>4. Indexed(sh, new)
    BY <1>3 DEF Truthful, Indexed
<1>5. sh.stage = "built" => Holds(sh, p, new, now)
    BY <1>1 DEF Truthful, Holds, Serves
<1>. QED BY <1>4, <1>5 DEF Truthful

LEMMA UpsertStep ==
    ASSUME ShardsTrue, NEW i \in Ids, NEW d \in Deliverable, UpsertAuth(i, d)
    PROVE  ShardsTrue' /\ Pool!Deliver(i)
<1>. DEFINE new == [auths EXCEPT ![i] = Dated(d)]
            shard(p) ==
                LET sh == shards[p]
                IN  CASE p = d.provider /\ sh.stage = "none" ->
                           [sh EXCEPT !.stage = "lazy"]
                      [] p = d.provider /\ sh.stage = "built" ->
                           IF d.serves THEN UpsertEntry(sh, i, auths, new)
                                       ELSE RemoveEntry(sh, i, new)
                      [] Leaves(i, p, d) -> RemoveEntry(sh, i, new)
                      [] OTHER -> sh
<1>1. /\ auths' = new /\ shards' = [p \in Providers |-> shard(p)]
      /\ answer' = Pool!NoAnswer /\ now' = now /\ mixedCursor' = mixedCursor
    BY Zenon DEF UpsertAuth
<1>2. Instants /\ auths \in [Ids -> Pool!Record]
    BY DEF ShardsTrue, Instants
<1>3. /\ Dated(d) \in Pool!Record /\ ~Dated(d).absent
      /\ Dated(d).provider = d.provider /\ Dated(d).serves = d.serves
      /\ d.provider \in Providers /\ d.serves \in BOOLEAN
    BY <1>2, DatedIsRecord
<1>4. /\ new \in [Ids -> Pool!Record] /\ new[i] = Dated(d)
      /\ \A j \in Ids : j # i => new[j] = auths[j]
    BY <1>2, <1>3
<1>. HIDE DEF new
<1>5. ASSUME NEW p \in Providers
      PROVE  Truthful(shard(p), p, new, now)
    <2>. DEFINE sh == shards[p]
    <2>1. Truthful(sh, p, auths, now) /\ sh \in Shard
          /\ sh.stage \in {"none", "lazy", "built"}
        BY DEF ShardsTrue, Truthful, Shard
    <2>2. CASE p = d.provider /\ sh.stage = "none"
        <3>1. shard(p) = [sh EXCEPT !.stage = "lazy"]
            <4>1. sh.stage # "built" /\ ~Leaves(i, p, d)
                BY <2>2 DEF Leaves
            <4>. QED BY <2>2, <4>1, Zenon
        <3>. DEFINE s == [sh EXCEPT !.stage = "lazy"]
        <3>2. /\ s \in Shard /\ s.stage = "lazy" /\ s.entries = sh.entries
              /\ s.ready = sh.ready /\ s.waiting = sh.waiting
              /\ s.cursor = sh.cursor
            BY <2>1 DEF Shard
        <3>. HIDE DEF s, sh
        <3>3. \A j \in Ids : sh.entries[j] = NoEntry
            BY <2>1, <2>2 DEF Truthful
        <3>4. ReadyViews(sh.entries, new) = ReadyViews(sh.entries, auths)
            BY <3>3 DEF ReadyViews, NoEntry
        <3>5. Indexed(s, new) /\ Bounded(s)
            BY <2>1, <3>2, <3>4 DEF Truthful, Indexed, Bounded
        <3>6. Truthful(s, p, new, now)
            BY <3>2, <3>3, <3>5 DEF Truthful
        <3>. QED BY <3>1, <3>6 DEF s, sh
    <2>3. CASE p = d.provider /\ sh.stage = "built" /\ d.serves
        <3>1. shard(p) = UpsertEntry(sh, i, auths, new)
            <4>1. sh.stage # "none" /\ ~Leaves(i, p, d)
                BY <2>3 DEF Leaves
            <4>. QED BY <2>3, <4>1, Zenon
        <3>2. Serves(new[i], p)
            BY <1>3, <1>4, <2>3 DEF Serves
        <3>. QED BY <1>2, <1>4, <2>1, <2>3, <3>1, <3>2, UpsertEntryTrue
    <2>4. CASE p = d.provider /\ sh.stage = "built" /\ ~d.serves
        <3>1. shard(p) = RemoveEntry(sh, i, new)
            BY <2>4
        <3>2. ~Serves(new[i], p)
            BY <1>3, <1>4, <2>4 DEF Serves
        <3>. QED BY <1>2, <1>4, <2>1, <2>4, <3>1, <3>2, RemoveEntryTrue
    <2>5. CASE Leaves(i, p, d)
        <3>1. p # d.provider
            BY <2>5 DEF Leaves
        <3>2. shard(p) = RemoveEntry(sh, i, new)
            BY <2>5, <3>1
        <3>3. ~Serves(new[i], p) /\ new[i].provider # p
            BY <1>3, <1>4, <3>1 DEF Serves
        <3>. QED BY <1>2, <1>4, <2>1, <3>2, <3>3, RemoveEntryTrue
    <2>6. CASE p = d.provider /\ sh.stage = "lazy"
        <3>1. shard(p) = sh
            BY <2>6 DEF Leaves
        <3>. HIDE DEF sh
        <3>2. \A j \in Ids : sh.entries[j] = NoEntry
            BY <2>1, <2>6 DEF Truthful
        <3>3. ReadyViews(sh.entries, new) = ReadyViews(sh.entries, auths)
            BY <3>2 DEF ReadyViews, NoEntry
        <3>4. Truthful(sh, p, new, now)
            BY <2>1, <2>6, <3>2, <3>3 DEF Truthful, Indexed
        <3>. QED BY <3>1, <3>4 DEF sh
    <2>7. CASE p # d.provider /\ ~Leaves(i, p, d)
        <3>1. shard(p) = sh
            BY <2>7
        <3>2. auths[i].absent \/ auths[i].provider # p
            BY <2>7 DEF Leaves
        <3>3. new[i].provider # p
            BY <1>3, <1>4, <2>7
        <3>. QED BY <1>2, <1>4, <2>1, <3>1, <3>2, <3>3, Unconcerned
    <2>. QED BY <1>3, <2>1, <2>2, <2>3, <2>4, <2>5, <2>6, <2>7
<1>. HIDE DEF shard
<1>6. ShardsTrue'
    <2>1. \A p \in Providers : shard(p) \in Shard
        BY <1>5 DEF Truthful
    <2>2. /\ shards' \in [Providers -> Shard]
          /\ \A p \in Providers : Truthful(shards'[p], p, new, now)
        BY <1>1, <1>5, <2>1
    <2>. QED BY <1>1, <1>2, <1>4, <2>2 DEF ShardsTrue, Instants
<1>7. Pool!Deliver(i)
    <2>1. auths' = [auths EXCEPT ![i] = Dated(d)]
        BY <1>1 DEF new
    <2>2. auths'[i] = Dated(d)
        BY <1>1, <1>4
    <2>. QED BY <1>1, <1>3, <2>1, <2>2 DEF Pool!Deliver
<1>. QED BY <1>6, <1>7

LEMMA RemoveStep ==
    ASSUME ShardsTrue, NEW i \in Ids, RemoveAuth(i)
    PROVE  ShardsTrue' /\ Pool!Deliver(i)
<1>. DEFINE gone == [auths EXCEPT ![i].absent = TRUE]
            o == auths[i].provider
            sh == RemoveEntry(shards[o], i, gone)
<1>1. /\ auths' = gone /\ shards' = [shards EXCEPT ![o] = sh]
      /\ answer' = Pool!NoAnswer /\ now' = now /\ mixedCursor' = mixedCursor
      /\ ~auths[i].absent
    BY DEF RemoveAuth
<1>2. /\ Instants /\ auths \in [Ids -> Pool!Record] /\ o \in Providers
      /\ shards \in [Providers -> Shard]
      /\ \A p \in Providers : Truthful(shards[p], p, auths, now)
    BY DEF ShardsTrue, Instants, Pool!Record
<1>3. /\ gone \in [Ids -> Pool!Record] /\ gone[i].absent
      /\ \A j \in Ids : j # i => gone[j] = auths[j]
    BY <1>2 DEF Pool!Record
<1>4. gone = [auths EXCEPT ![i] = gone[i]]
    BY <1>2
<1>. HIDE DEF gone
<1>5. Truthful(sh, o, gone, now)
    <2>1. ~Serves(gone[i], o)
        BY <1>3 DEF Serves
    <2>. QED BY <1>2, <1>3, <2>1, RemoveEntryTrue
<1>6. \A p \in Providers : p # o => Truthful(shards[p], p, gone, now)
    BY <1>2, <1>3, Unconcerned
<1>. HIDE DEF sh, o
<1>7. ShardsTrue'
    <2>1. sh \in Shard
        BY <1>5 DEF Truthful
    <2>2. shards' \in [Providers -> Shard]
        BY <1>1, <1>2, <2>1
    <2>3. \A p \in Providers : Truthful(shards'[p], p, gone, now)
        BY <1>1, <1>2, <1>5, <1>6
    <2>. QED BY <1>1, <1>2, <1>3, <2>2, <2>3 DEF ShardsTrue, Instants
<1>8. Pool!Deliver(i)
    BY <1>1, <1>3, <1>4 DEF Pool!Deliver
<1>. QED BY <1>7, <1>8

\* A shard that has not been built is true to all records.
LEMMA NoShardTrue ==
    ASSUME NEW p \in Providers, NEW recs, NEW t, NEW stage \in {"none", "lazy"},
           stage = "none" => \A i \in Ids : recs[i].absent \/ recs[i].provider # p
    PROVE  Truthful([NoShard EXCEPT !.stage = stage], p, recs, t)
<1>. DEFINE entries == [i \in Ids |-> NoEntry]
            ready == [q \in Priorities |-> EmptyViews]
            cursor == [q \in Priorities |-> [v \in Views |-> 0]]
            s == [NoShard EXCEPT !.stage = stage]
<1>1. /\ entries \in [Ids -> Entry]
      /\ ready \in [Priorities -> [Views -> SUBSET Ids]]
      /\ cursor \in [Priorities -> [Views -> Nat]]
    BY NoEntryTyped DEF EmptyViews
<1>2. ready = ReadyViews(entries, recs) /\ {} = WaitingList(entries)
    BY DEF ReadyViews, WaitingList, EmptyViews, NoEntry
<1>3. \A q \in Priorities, v \in Views : cursor[q][v] <= Cardinality(ready[q][v])
    <2>1. Cardinality({}) = 0
        BY FS_EmptySet
    <2>. QED BY <2>1 DEF EmptyViews
<1>4. \A i \in Ids : entries[i] = NoEntry
    OBVIOUS
<1>5. NoShard = [stage |-> "none", entries |-> entries, ready |-> ready,
                 waiting |-> {}, cursor |-> cursor]
    BY DEF NoShard
<1>. HIDE DEF entries, ready, cursor
<1>6. /\ s \in Shard /\ s.stage = stage /\ s.entries = entries
      /\ s.ready = ready /\ s.waiting = {} /\ s.cursor = cursor
    BY <1>1, <1>5 DEF Shard
<1>. HIDE DEF s
<1>7. Truthful(s, p, recs, t)
    BY <1>2, <1>3, <1>4, <1>6 DEF Truthful, Bounded, Indexed
<1>. QED BY <1>7 DEF s

LEMMA RebuildStep ==
    ASSUME ShardsTrue, Rebuild
    PROVE  ShardsTrue' /\ UNCHANGED Pool!poolVars
<1>. DEFINE stage(p) ==
                IF \E i \in Ids : ~auths[i].absent /\ auths[i].provider = p
                THEN "lazy" ELSE "none"
            shard(p) == [NoShard EXCEPT !.stage = stage(p)]
<1>1. /\ shards' = [p \in Providers |-> shard(p)]
      /\ mixedCursor' = 0 /\ now' = now /\ auths' = auths /\ answer' = answer
    BY Zenon DEF Rebuild
<1>2. \A p \in Providers : Truthful(shard(p), p, auths, now)
    <2>. TAKE p \in Providers
    <2>1. /\ stage(p) \in {"none", "lazy"}
          /\ stage(p) = "none" =>
                \A i \in Ids : auths[i].absent \/ auths[i].provider # p
        OBVIOUS
    <2>. HIDE DEF stage
    <2>. QED BY <2>1, NoShardTrue
<1>. HIDE DEF shard
<1>3. \A p \in Providers : shard(p) \in Shard
    BY <1>2 DEF Truthful
<1>4. Cardinality(Ids) \in Nat
    BY IdSets
<1>. QED BY <1>1, <1>2, <1>3, <1>4 DEF ShardsTrue, Instants, Pool!poolVars

LEMMA PassStep ==
    ASSUME ShardsTrue, Pass
    PROVE  ShardsTrue' /\ Pool!Pass
<1>1. /\ now' = now + 1 /\ now < MaxTime /\ auths' = auths /\ shards' = shards
      /\ mixedCursor' = mixedCursor /\ answer' = Pool!NoAnswer
    BY DEF Pass
<1>2. now \in Nat /\ auths \in [Ids -> Pool!Record] /\ now + 1 \in 1..MaxTime
    BY <1>1, SchedulerAssumption DEF ShardsTrue, Instants, SchedulerAssumption
<1>3. \A p \in Providers : Truthful(shards[p], p, auths, now + 1)
    BY <1>2, TrueAges DEF ShardsTrue
<1>. QED BY <1>1, <1>2, <1>3 DEF ShardsTrue, Instants, Pool!Pass

LEMMA SchedulerStarts == SchedulerInit => ShardsTrue /\ Pool!PoolInit
<1>. SUFFICES ASSUME SchedulerInit PROVE ShardsTrue /\ Pool!PoolInit
    OBVIOUS
<1>. DEFINE d0 == CHOOSE d \in Deliverable : TRUE
            r0 == [Dated(d0) EXCEPT !.absent = TRUE]
<1>1. /\ now = 1 /\ auths = [i \in Ids |-> r0] /\ answer = Pool!NoAnswer
      /\ shards = [p \in Providers |-> NoShard] /\ mixedCursor = 0
    BY DEF SchedulerInit
<1>2. d0 \in Deliverable /\ 1 \in 1..MaxTime
    BY SchedulerAssumption DEF SchedulerAssumption
<1>3. r0 \in Pool!Record /\ r0.absent
    <2>1. d0 \in [provider : Providers, priority : Priorities, websocket : BOOLEAN,
                  serves : BOOLEAN, wait : Nat, window : Nat]
        BY <1>2, SchedulerAssumption DEF SchedulerAssumption
    <2>. HIDE DEF d0
    <2>2. /\ (IF d0.wait > 0 THEN 1 + d0.wait ELSE Never) \in Nat
          /\ (IF d0.window > 0 THEN 1 + d0.window ELSE Never) \in Nat
          /\ (d0.window > 0) \in BOOLEAN
        BY <2>1 DEF Never
    <2>. QED BY <1>1, <2>1, <2>2 DEF Dated, Pool!Record
<1>. HIDE DEF r0
<1>4. auths \in [Ids -> Pool!Record] /\ \A i \in Ids : auths[i].absent
    BY <1>1, <1>3
<1>5. \A p \in Providers : Truthful(NoShard, p, auths, now)
    <2>. TAKE p \in Providers
    <2>1. Truthful([NoShard EXCEPT !.stage = "none"], p, auths, now)
        BY <1>4, NoShardTrue
    <2>2. [NoShard EXCEPT !.stage = "none"] = NoShard
        <3>. DEFINE entries == [i \in Ids |-> NoEntry]
                    ready == [q \in Priorities |-> EmptyViews]
                    cursor == [q \in Priorities |-> [v \in Views |-> 0]]
        <3>1. NoShard = [stage |-> "none", entries |-> entries, ready |-> ready,
                         waiting |-> {}, cursor |-> cursor]
            BY DEF NoShard
        <3>. HIDE DEF entries, ready, cursor
        <3>. QED BY <3>1
    <2>. QED BY <2>1, <2>2
<1>6. \A p \in Providers : NoShard \in Shard
    BY <1>5 DEF Truthful
<1>7. Cardinality(Ids) \in Nat
    BY IdSets
<1>8. ShardsTrue
    BY <1>1, <1>2, <1>4, <1>5, <1>6, <1>7 DEF ShardsTrue, Instants
<1>9. Pool!PoolInit
    BY <1>1, <1>3 DEF Pool!PoolInit
<1>. QED BY <1>8, <1>9

\* Every step keeps the shards true, and is one of the pool or none.
LEMMA SchedulerStep ==
    ASSUME ShardsTrue, [SchedulerNext]_schedulerVars
    PROVE  ShardsTrue' /\ [Pool!PoolNext]_(Pool!poolVars)
<1>1. ASSUME NEW i \in Ids, NEW d \in Deliverable, UpsertAuth(i, d)
      PROVE  ShardsTrue' /\ Pool!PoolNext
    BY <1>1, UpsertStep DEF Pool!PoolNext
<1>2. ASSUME NEW i \in Ids, RemoveAuth(i)
      PROVE  ShardsTrue' /\ Pool!PoolNext
    BY <1>2, RemoveStep DEF Pool!PoolNext
<1>3. ASSUME Rebuild
      PROVE  ShardsTrue' /\ UNCHANGED Pool!poolVars
    BY <1>3, RebuildStep
<1>4. ASSUME NEW st \in Strategies, SetSelector(st)
      PROVE  ShardsTrue' /\ UNCHANGED Pool!poolVars
    <2>1. /\ now' = now /\ auths' = auths /\ answer' = answer
          /\ shards' = shards /\ mixedCursor' = 0
        BY <1>4 DEF SetSelector
    <2>2. 0 \in 0..Cardinality(Ids)
        BY IdSets
    <2>. QED BY <2>1, <2>2 DEF ShardsTrue, Instants, Pool!poolVars
<1>5. ASSUME NEW p \in Providers, NEW excluded \in SUBSET Ids, NEW ws \in BOOLEAN,
             PickSingle(p, excluded, ws)
      PROVE  ShardsTrue' /\ Pool!PoolNext
    <2>1. ShardsTrue' /\ Pool!Request({p}, excluded, ws)
        BY <1>5, SingleStep
    <2>2. {p} \in SUBSET Providers
        OBVIOUS
    <2>. QED BY <2>1, <2>2 DEF Pool!PoolNext
<1>6. ASSUME NEW excluded \in SUBSET Ids, PickMixed(excluded)
      PROVE  ShardsTrue' /\ Pool!PoolNext
    <2>1. PICK from \in SUBSET Providers : Pool!Request(from, excluded, FALSE)
        BY <1>6, MixedStep
    <2>2. ShardsTrue'
        BY <1>6, MixedStep
    <2>. QED BY <2>1, <2>2 DEF Pool!PoolNext
<1>7. ASSUME Pass
      PROVE  ShardsTrue' /\ Pool!PoolNext
    BY <1>7, PassStep DEF Pool!PoolNext
<1>8. ASSUME UNCHANGED schedulerVars
      PROVE  ShardsTrue' /\ UNCHANGED Pool!poolVars
    <2>1. /\ now' = now /\ auths' = auths /\ answer' = answer
          /\ shards' = shards /\ mixedCursor' = mixedCursor
        BY <1>8 DEF schedulerVars
    <2>. QED BY <2>1 DEF ShardsTrue, Instants, Pool!poolVars
<1>. QED BY <1>1, <1>2, <1>3, <1>4, <1>5, <1>6, <1>7, <1>8 DEF SchedulerNext

\* A view and the waiting list can be trusted at all times, for any number of
\* credentials and priorities and however deliveries, requests and rebuilds
\* follow one another.
THEOREM IndexesAreTrue == SchedulerSpec => []IndexesAgree
<1>1. ASSUME ShardsTrue PROVE IndexesAgree
    <2>1. SchedulerTypeOK
        BY <1>1 DEF ShardsTrue, Instants, Truthful, Bounded, SchedulerTypeOK
    <2>2. ASSUME NEW p \in Providers, shards[p].stage = "built"
          PROVE  /\ [RebuildIndexes(shards[p], auths) EXCEPT
                        !.cursor = shards[p].cursor] = shards[p]
                 /\ {i \in Ids : shards[p].entries[i] # NoEntry} =
                       {i \in Ids : /\ ~auths[i].absent /\ auths[i].serves
                                    /\ auths[i].provider = p}
        <3>. DEFINE sh == shards[p]
                    r == RebuildIndexes(sh, auths)
        <3>1. Truthful(sh, p, auths, now) /\ sh \in Shard
            BY <1>1 DEF ShardsTrue
        <3>2. /\ r \in Shard /\ Indexed(r, auths)
              /\ r.stage = sh.stage /\ r.entries = sh.entries
            BY <3>1, RebuildIndexesMakes
        <3>3. Indexed(sh, auths) /\ Holds(sh, p, auths, now)
            BY <2>2, <3>1 DEF Truthful
        <3>. HIDE DEF sh, r
        <3>4. r.ready = sh.ready /\ r.waiting = sh.waiting
            BY <3>2, <3>3 DEF Indexed
        <3>5. [r EXCEPT !.cursor = sh.cursor] = sh
            BY <3>1, <3>2, <3>4 DEF Shard
        <3>6. \A i \in Ids : sh.entries[i] # NoEntry <=> Serves(auths[i], p)
            BY <3>3, SoundIsPresent DEF Holds
        <3>7. {i \in Ids : sh.entries[i] # NoEntry} =
                  {i \in Ids : /\ ~auths[i].absent /\ auths[i].serves
                               /\ auths[i].provider = p}
            BY <3>6 DEF Serves
        <3>. QED BY <3>5, <3>7 DEF sh, r
    <2>. QED BY <2>1, <2>2 DEF IndexesAgree
<1>2. SchedulerInit => ShardsTrue
    BY SchedulerStarts
<1>3. ShardsTrue /\ [SchedulerNext]_schedulerVars => ShardsTrue'
    BY SchedulerStep
<1>. QED BY <1>1, <1>2, <1>3, PTL DEF SchedulerSpec

\* Whatever the scheduler caches and rotates, every request is answered as the
\* records alone would have it answered.
THEOREM SchedulerIsAPool == SchedulerSpec => ImplementsPool
<1>1. SchedulerInit => ShardsTrue /\ Pool!PoolInit
    BY SchedulerStarts
<1>2. ShardsTrue /\ [SchedulerNext]_schedulerVars
          => ShardsTrue' /\ [Pool!PoolNext]_(Pool!poolVars)
    BY SchedulerStep
<1>. QED BY <1>1, <1>2, PTL DEF SchedulerSpec, ImplementsPool, Pool!PoolSpec

-----------------------------------------------------------------------------
(* The rotation, while no refusal of another request rebuilds the scheduler *)
(* (Rebuilding is FALSE).  The members of a view that had their turn are   *)
(* always the ones that a pick reaches last.                               *)

Start(view, cursor) == Normalize(cursor, Cardinality(view))

\* How many members a pick looks at before i.
Wait(view, cursor, i) ==
    IF Place(view, i) >= Start(view, cursor)
    THEN Place(view, i) - Start(view, cursor)
    ELSE Place(view, i) - Start(view, cursor) + Cardinality(view)

\* The members of M that had their turn are those that W puts last.
EvenBy(M, W, t) ==
    /\ t \in [M -> {0, 1}]
    /\ M # {} => \E i \in M : t[i] = 0
    /\ \A i, j \in M : t[j] = 0 /\ W[i] < W[j] => t[i] = 0

EvenRow(view, cursor, t) ==
    EvenBy(view, [i \in view |-> Wait(view, cursor, i)], t)

\* The turns as the next step sees them.
Row(t, view) == IF DOMAIN t = view THEN t ELSE NoTurns(view)

RowsEven ==
    \A p \in Providers, q \in Priorities, v \in Views :
        IF shards[p].stage = "built"
        THEN EvenRow(shards[p].ready[q][v], shards[p].cursor[q][v], turns[p][q][v])
        ELSE turns[p][q][v] = NoTurns({})

\* Places follow the order of the names.
LEMMA PlaceOrders ==
    ASSUME NEW view \in SUBSET Ids, NEW i \in view
    PROVE  /\ Place(view, i) \in 0..(Cardinality(view) - 1)
           /\ \A j \in view : i < j => Place(view, i) < Place(view, j)
<1>. DEFINE below(j) == {k \in view : k < j}
<1>1. \A j \in view : j \in Nat
    BY SchedulerAssumption DEF SchedulerAssumption
<1>2. \A j \in view : below(j) \in SUBSET view /\ below(j) # view
    BY <1>1
<1>3. \A j \in view : Place(view, j) = Cardinality(below(j))
    BY DEF Place
<1>4. ASSUME NEW j \in view, i < j
      PROVE  below(i) \in SUBSET below(j) /\ below(i) # below(j)
    <2>1. \A k \in view : k < i => k < j
        BY <1>1, <1>4
    <2>2. i \in below(j) /\ i \notin below(i)
        BY <1>1, <1>4
    <2>. QED BY <2>1, <2>2
<1>. HIDE DEF below
<1>5. /\ Cardinality(below(i)) \in Nat /\ Cardinality(view) \in Nat
      /\ Cardinality(below(i)) < Cardinality(view)
    <2>1. below(i) \in SUBSET Ids
        BY <1>2
    <2>. QED BY <1>2, <2>1, IdSets
<1>6. \A j \in view : i < j => Cardinality(below(i)) < Cardinality(below(j))
    <2>. TAKE j \in view
    <2>. HAVE i < j
    <2>1. below(j) \in SUBSET Ids
        BY <1>2
    <2>. QED BY <1>4, <2>1, IdSets
<1>. QED BY <1>3, <1>5, <1>6

\* A cursor points into its view, and rebuilding does not move it.
LEMMA StartFits ==
    ASSUME NEW view \in SUBSET Ids, view # {}, NEW cursor \in Nat
    PROVE  /\ Cardinality(view) \in Nat /\ Cardinality(view) > 0
           /\ Start(view, cursor) \in 0..(Cardinality(view) - 1)
           /\ Start(view, Normalize(cursor, Cardinality(view))) = Start(view, cursor)
           /\ \A c \in 0..(Cardinality(view) - 1) : Start(view, c) = c
           /\ Start(view, Cardinality(view)) = 0
<1>. DEFINE n == Cardinality(view)
<1>1. n \in Nat /\ n > 0
    BY IdSets
<1>2. \A c : Start(view, c) = c % n
    BY <1>1 DEF Start, Normalize
<1>3. \A c \in Nat : c % n \in 0..(n - 1) /\ (c % n) % n = c % n
    BY <1>1
<1>4. \A c \in 0..(n - 1) : c % n = c
    BY <1>1
<1>5. n % n = 0
    BY <1>1
<1>6. Normalize(cursor, n) = cursor % n
    BY <1>1 DEF Normalize
<1>. HIDE DEF n
<1>. QED BY <1>1, <1>2, <1>3, <1>4, <1>5, <1>6 DEF n

\* A new row begins anywhere.
LEMMA RowStarts ==
    ASSUME NEW view \in SUBSET Ids, NEW cursor
    PROVE  EvenRow(view, cursor, NoTurns(view))
BY DEF EvenRow, EvenBy, NoTurns

\* A rebuild that leaves the members leaves their order.
LEMMA RowOutlives ==
    ASSUME NEW view \in SUBSET Ids, NEW cursor \in Nat, NEW t,
           EvenRow(view, cursor, t)
    PROVE  EvenRow(view, Normalize(cursor, Cardinality(view)), t)
<1>1. CASE view = {}
    BY <1>1 DEF EvenRow, EvenBy
<1>2. CASE view # {}
    <2>1. Start(view, Normalize(cursor, Cardinality(view))) = Start(view, cursor)
        BY <1>2, StartFits
    <2>. QED BY <2>1 DEF EvenRow, EvenBy, Wait
<1>. QED BY <1>1, <1>2

\* A member comes before no more than all the others.
LEMMA WaitFits ==
    ASSUME NEW view \in SUBSET Ids, NEW cursor \in Nat, NEW i \in view
    PROVE  Wait(view, cursor, i) \in 0..(Cardinality(view) - 1)
<1>1. Cardinality(view) \in Nat /\ Start(view, cursor) \in 0..(Cardinality(view) - 1)
    BY StartFits
<1>2. Place(view, i) \in 0..(Cardinality(view) - 1)
    BY PlaceOrders
<1>. QED BY <1>1, <1>2 DEF Wait

\* Every place of a view is taken.
LEMMA PlacesAreTaken ==
    ASSUME NEW view \in SUBSET Ids, NEW s \in 0..(Cardinality(view) - 1)
    PROVE  \E j \in view : Place(view, j) = s
<1>. DEFINE n == Cardinality(view)
            f == [j \in view |-> Place(view, j) + 1]
<1>1. IsFiniteSet(view) /\ n \in Nat
    BY IdSets
<1>2. \A j \in view : /\ j \in Nat /\ Place(view, j) \in 0..(n - 1)
                      /\ \A k \in view : j < k => Place(view, j) < Place(view, k)
    BY PlaceOrders, SchedulerAssumption DEF SchedulerAssumption
<1>3. IsFiniteSet(1..n) /\ Cardinality(1..n) = n
    BY <1>1, FS_Interval
<1>4. f \in Injection(view, 1..n)
    <2>1. f \in [view -> 1..n]
        BY <1>1, <1>2
    <2>2. ASSUME NEW j \in view, NEW k \in view, j # k
          PROVE  f[j] # f[k]
        <3>1. j < k \/ k < j
            BY <1>2, <2>2
        <3>. QED BY <1>1, <1>2, <3>1
    <2>. HIDE DEF f, n
    <2>. QED BY <2>1, <2>2 DEF Injection, IsInjective
<1>. HIDE DEF f
<1>5. f \in Surjection(view, 1..n)
    BY <1>1, <1>3, <1>4, FS_Injection
<1>6. s + 1 \in 1..n
    BY <1>1
<1>7. PICK j \in view : f[j] = s + 1
    BY <1>5, <1>6 DEF Surjection
<1>8. Place(view, j) = s
    BY <1>1, <1>2, <1>7 DEF f
<1>. QED BY <1>8

\* A pick that excludes nobody takes the first in the order and makes it the
\* last; the others move up by one.
LEMMA PickRotates ==
    ASSUME NEW view \in SUBSET Ids, view # {}, NEW cursor \in Nat
    PROVE  LET pick == PickRoundRobin(view, cursor, view)
               n    == Cardinality(view)
           IN  /\ n \in Nat /\ n > 0
               /\ pick.id \in view /\ pick.cursor \in Nat
               /\ Wait(view, cursor, pick.id) = 0
               /\ Wait(view, pick.cursor, pick.id) = n - 1
               /\ \A j \in view \ {pick.id} :
                     /\ Wait(view, cursor, j) \in 1..(n - 1)
                     /\ Wait(view, pick.cursor, j) = Wait(view, cursor, j) - 1
<1>. DEFINE n == Cardinality(view)
            s == Start(view, cursor)
            ahead == {j \in view : Place(view, j) >= s}
            i == Min(IF ahead # {} THEN ahead ELSE view)
            c == Place(view, i) + 1
<1>1. PickRoundRobin(view, cursor, view) = [id |-> i, cursor |-> c]
    BY Zenon DEF PickRoundRobin, Start
<1>2. /\ n \in Nat /\ n > 0 /\ s \in 0..(n - 1)
      /\ \A d \in 0..(n - 1) : Start(view, d) = d
      /\ Start(view, n) = 0
    BY StartFits
<1>3. \A j \in view : /\ j \in Nat /\ Place(view, j) \in 0..(n - 1)
                      /\ \A k \in view : j < k => Place(view, j) < Place(view, k)
    BY PlaceOrders, SchedulerAssumption DEF SchedulerAssumption
<1>4. PICK first \in view : Place(view, first) = s
    BY <1>2, PlacesAreTaken
<1>5. i \in view /\ Place(view, i) = s
    <2>1. first \in ahead /\ ahead \in SUBSET Nat
        BY <1>2, <1>3, <1>4
    <2>2. \E m \in ahead : \A j \in ahead : m <= j
        BY <2>1, NatMinimum
    <2>3. i = Min(ahead)
        BY <2>1
    <2>. HIDE DEF i
    <2>4. i \in ahead /\ i <= first
        <3>. HIDE DEF ahead
        <3>. QED BY <2>1, <2>2, <2>3 DEF Min
    <2>5. Place(view, i) >= s /\ Place(view, i) <= Place(view, first)
        <3>1. i = first \/ i < first
            BY <1>3, <2>4
        <3>. QED BY <1>2, <1>3, <2>4, <3>1
    <2>. QED BY <1>2, <1>3, <1>4, <2>4, <2>5
<1>. HIDE DEF n, s, i, ahead
<1>6. Start(view, c) = IF s = n - 1 THEN 0 ELSE s + 1
    <2>1. CASE s = n - 1
        BY <1>2, <1>5, <2>1
    <2>2. CASE s # n - 1
        <3>1. c \in 0..(n - 1)
            BY <2>2, <1>2, <1>5
        <3>. QED BY <2>2, <3>1, <1>2, <1>5
    <2>. QED BY <2>1, <2>2
<1>7. \A j \in view : Wait(view, cursor, j) = IF Place(view, j) >= s
                                              THEN Place(view, j) - s
                                              ELSE Place(view, j) - s + n
    BY DEF Wait, s, n
<1>8. \A j \in view : Wait(view, c, j) = IF Place(view, j) >= Start(view, c)
                                         THEN Place(view, j) - Start(view, c)
                                         ELSE Place(view, j) - Start(view, c) + n
    BY DEF Wait, n
<1>9. Wait(view, cursor, i) = 0 /\ Wait(view, c, i) = n - 1 /\ c \in Nat
    BY <1>2, <1>5, <1>6, <1>7, <1>8
<1>10. ASSUME NEW j \in view \ {i}
       PROVE  /\ Wait(view, cursor, j) \in 1..(n - 1)
              /\ Wait(view, c, j) = Wait(view, cursor, j) - 1
    <2>1. Place(view, j) \in 0..(n - 1) /\ Place(view, j) # s
        <3>1. j < i \/ i < j
            BY <1>3, <1>5
        <3>. QED BY <1>3, <1>5, <3>1
    <2>. QED BY <1>2, <1>6, <1>7, <1>8, <2>1
<1>. QED BY <1>1, <1>2, <1>5, <1>9, <1>10 DEF n

\* The turns after the first of the order has had one and become the last.
LEMMA TurnBy ==
    ASSUME NEW M, NEW W \in [M -> Int], NEW X \in [M -> Int], NEW i \in M,
           \A j \in M \ {i} : W[i] < W[j] /\ X[j] < X[i],
           \A j, k \in M \ {i} : X[j] < X[k] => W[j] < W[k],
           NEW t, EvenBy(M, W, t)
    PROVE  EvenBy(M, X, Turn(t, i))
<1>. DEFINE u == [t EXCEPT ![i] = @ + 1]
            least == Min({u[j] : j \in DOMAIN u})
            w == [j \in DOMAIN u |-> u[j] - least]
<1>1. Turn(t, i) = w
    BY Zenon DEF Turn
<1>2. t \in [M -> {0, 1}]
    BY DEF EvenBy
<1>3. t[i] = 0
    <2>1. PICK j \in M : t[j] = 0
        BY DEF EvenBy
    <2>. QED BY <2>1 DEF EvenBy
<1>4. /\ u \in [M -> {0, 1}] /\ u[i] = 1
      /\ \A j \in M \ {i} : u[j] = t[j]
    BY <1>2, <1>3
<1>. HIDE DEF u
<1>5. DOMAIN u = M
    BY <1>4
<1>6. least \in {u[j] : j \in M} /\ \A j \in M : least <= u[j]
    <2>. DEFINE S == {u[j] : j \in DOMAIN u}
    <2>1. S \in SUBSET Nat /\ S # {}
        BY <1>4, <1>5
    <2>2. \E m \in S : \A k \in S : m <= k
        BY <2>1, NatMinimum
    <2>3. Min(S) \in S /\ \A k \in S : Min(S) <= k
        <3>. HIDE DEF S
        <3>. QED BY <2>2 DEF Min
    <2>. QED BY <1>5, <2>3
<1>. HIDE DEF least
<1>7. least \in {0, 1}
    BY <1>4, <1>6
<1>8. w = [j \in M |-> u[j] - least]
    BY <1>5
<1>. HIDE DEF w
<1>9. CASE least = 1
    <2>1. \A j \in M : u[j] = 1
        BY <1>4, <1>6, <1>9
    <2>2. \A j \in M : w[j] = 0
        BY <1>8, <1>9, <2>1
    <2>3. w \in [M -> {0, 1}]
        BY <1>8, <2>2
    <2>. QED BY <1>1, <2>2, <2>3 DEF EvenBy
<1>10. CASE least = 0
    <2>1. \A j \in M : w[j] = u[j]
        BY <1>4, <1>8, <1>10
    <2>2. w \in [M -> {0, 1}]
        BY <1>4, <1>8, <2>1
    <2>3. \E j \in M : w[j] = 0
        BY <1>6, <1>10, <2>1
    <2>4. ASSUME NEW j \in M, NEW k \in M, w[k] = 0, X[j] < X[k]
          PROVE  w[j] = 0
        <3>1. k # i
            BY <1>4, <2>1, <2>4
        <3>2. j # i
            <4>1. X[k] < X[i] /\ X[k] \in Int /\ X[i] \in Int
                BY <3>1
            <4>. QED BY <2>4, <4>1
        <3>3. W[j] < W[k]
            BY <2>4, <3>1, <3>2
        <3>4. t[k] = 0
            BY <1>4, <2>1, <2>4, <3>1
        <3>5. t[j] = 0
            BY <3>3, <3>4 DEF EvenBy
        <3>. QED BY <1>4, <2>1, <3>2, <3>5
    <2>. QED BY <1>1, <2>2, <2>3, <2>4 DEF EvenBy
<1>. QED BY <1>7, <1>9, <1>10

\* The turns after such a pick.
LEMMA TurnIsEven ==
    ASSUME NEW view \in SUBSET Ids, view # {}, NEW cursor \in Nat, NEW t,
           EvenRow(view, cursor, t)
    PROVE  LET pick == PickRoundRobin(view, cursor, view)
           IN  EvenRow(view, pick.cursor, Turn(t, pick.id))
<1>. DEFINE pick == PickRoundRobin(view, cursor, view)
            n == Cardinality(view)
            W == [i \in view |-> Wait(view, cursor, i)]
            X == [i \in view |-> Wait(view, pick.cursor, i)]
<1>1. /\ n \in Nat /\ n > 0 /\ pick.id \in view
      /\ W[pick.id] = 0 /\ X[pick.id] = n - 1
      /\ \A j \in view \ {pick.id} : W[j] \in 1..(n - 1) /\ X[j] = W[j] - 1
    BY PickRotates
<1>2. EvenBy(view, W, t)
    BY DEF EvenRow
<1>3. W = [i \in view |-> W[i]] /\ X = [i \in view |-> X[i]]
    OBVIOUS
<1>4. EvenBy(view, X, Turn(t, pick.id)) => EvenRow(view, pick.cursor, Turn(t, pick.id))
    BY Zenon DEF EvenRow
<1>. HIDE DEF pick, n, W, X
<1>5. W \in [view -> Int] /\ X \in [view -> Int]
    <2>1. \A j \in view : W[j] \in Int /\ X[j] \in Int
        BY <1>1
    <2>. QED BY <1>3, <2>1
<1>6. \A j \in view \ {pick.id} : W[pick.id] < W[j] /\ X[j] < X[pick.id]
    BY <1>1
<1>7. \A i, j \in view \ {pick.id} : X[i] < X[j] => W[i] < W[j]
    BY <1>1
<1>8. EvenBy(view, X, Turn(t, pick.id))
    BY <1>1, <1>2, <1>5, <1>6, <1>7, TurnBy
<1>. QED BY <1>4, <1>8 DEF pick

\* What becomes of a shard in a step: the cursor of a view whose members stay
\* points at the same member.
Carries(sh, new) ==
    /\ new \in Shard
    /\ sh.stage = "built" => new.stage = "built"
    /\ sh.stage = "built" => \A q \in Priorities, v \in Views :
           new.ready[q][v] = sh.ready[q][v] =>
              \/ new.cursor[q][v] = sh.cursor[q][v]
              \/ new.cursor[q][v] = Normalize(sh.cursor[q][v],
                                              Cardinality(new.ready[q][v]))

LEMMA RebuildCarries ==
    ASSUME NEW sh \in Shard, NEW s \in Shard, NEW recs,
           s.cursor = sh.cursor, sh.stage = "built" => s.stage = "built"
    PROVE  Carries(sh, RebuildIndexes(s, recs))
<1>. DEFINE r == RebuildIndexes(s, recs)
            ready == ReadyViews(s.entries, recs)
            waiting == WaitingList(s.entries)
            cursor == [q \in Priorities |-> [v \in Views |->
                           Normalize(s.cursor[q][v], Cardinality(ready[q][v]))]]
<1>1. r = [s EXCEPT !.ready = ready, !.waiting = waiting, !.cursor = cursor]
    BY DEF RebuildIndexes
<1>2. \A q \in Priorities, v \in Views :
          cursor[q][v] = Normalize(s.cursor[q][v], Cardinality(ready[q][v]))
    OBVIOUS
<1>3. r \in Shard /\ r.stage = s.stage
    BY RebuildIndexesMakes
<1>. HIDE DEF ready, waiting, cursor, r
<1>4. r.ready = ready /\ r.cursor = cursor
    BY <1>1 DEF Shard
<1>5. Carries(sh, r)
    BY <1>2, <1>3, <1>4 DEF Carries
<1>. QED BY <1>5 DEF r

LEMMA StaysCarries ==
    ASSUME NEW sh \in Shard
    PROVE  Carries(sh, sh)
BY DEF Carries

LEMMA RemoveCarries ==
    ASSUME NEW sh \in Shard, NEW i \in Ids, NEW recs
    PROVE  Carries(sh, RemoveEntry(sh, i, recs))
<1>1. /\ [sh EXCEPT !.entries[i] = NoEntry] \in Shard
      /\ [sh EXCEPT !.entries[i] = NoEntry].stage = sh.stage
      /\ [sh EXCEPT !.entries[i] = NoEntry].cursor = sh.cursor
    BY NoEntryTyped, WithEntry
<1>2. Carries(sh, RebuildIndexes([sh EXCEPT !.entries[i] = NoEntry], recs))
    BY <1>1, RebuildCarries
<1>. QED BY <1>2, StaysCarries DEF RemoveEntry

LEMMA UpsertCarries ==
    ASSUME NEW sh \in Shard, NEW i \in Ids, NEW old, NEW new, Instants,
           new[i] \in Pool!Record
    PROVE  Carries(sh, UpsertEntry(sh, i, old, new))
<1>. DEFINE e == Evaluate(new[i], now)
            s == [sh EXCEPT !.entries[i] = e]
<1>1. now \in Nat \ {0}
    BY DEF Instants
<1>2. e \in Entry
    BY <1>1, EvaluateIsCurrent
<1>. HIDE DEF e
<1>3. /\ s \in Shard /\ s.stage = sh.stage /\ s.ready = sh.ready
      /\ s.cursor = sh.cursor
    BY <1>2, WithEntry
<1>. HIDE DEF s
<1>4. Carries(sh, s)
    BY <1>3 DEF Carries
<1>5. Carries(sh, RebuildIndexes(s, new))
    BY <1>3, RebuildCarries
<1>6. UpsertEntry(sh, i, old, new) \in {s, RebuildIndexes(s, new)}
    BY DEF UpsertEntry, s, e
<1>. QED BY <1>4, <1>5, <1>6

LEMMA EnsureCarries ==
    ASSUME Instants, NEW p \in Providers, shards[p] \in Shard
    PROVE  Carries(shards[p], EnsureModel(p))
<1>. DEFINE sh == shards[p]
            due == {i \in sh.waiting : /\ sh.entries[i].next # Never
                                       /\ sh.entries[i].next <= now}
            promoted == [i \in Ids |-> IF i \in due THEN Evaluate(auths[i], now)
                                                    ELSE sh.entries[i]]
            filled == [i \in Ids |->
                IF ~auths[i].absent /\ auths[i].provider = p /\ auths[i].serves
                THEN Evaluate(auths[i], now) ELSE NoEntry]
            s1 == [sh EXCEPT !.entries = promoted]
            s2 == [sh EXCEPT !.stage = "built", !.entries = filled]
<1>1. \A i \in Ids : Evaluate(auths[i], now) \in Entry
    <2>1. now \in Nat \ {0}
        BY DEF Instants
    <2>. QED BY <2>1, EvaluateIsCurrent DEF Instants
<1>2. sh.entries \in [Ids -> Entry]
    BY DEF Shard
<1>3. promoted \in [Ids -> Entry] /\ filled \in [Ids -> Entry]
    BY <1>1, <1>2, NoEntryTyped
<1>4. Promote(sh) \in {sh, RebuildIndexes(s1, auths)}
    BY DEF Promote
<1>5. /\ sh.stage = "none" => EnsureModel(p) = sh
      /\ sh.stage = "lazy" => EnsureModel(p) = RebuildIndexes(s2, auths)
      /\ sh.stage = "built" => EnsureModel(p) = Promote(sh)
    BY DEF EnsureModel
<1>. HIDE DEF promoted, filled, due, sh
<1>6. sh \in Shard /\ sh.stage \in {"none", "lazy", "built"}
    BY DEF Shard, sh
<1>7. /\ s1 \in Shard /\ s1.stage = sh.stage /\ s1.cursor = sh.cursor
      /\ s2 \in Shard /\ s2.stage = "built" /\ s2.cursor = sh.cursor
    BY <1>3, <1>6 DEF Shard
<1>. HIDE DEF s1, s2
<1>8. /\ Carries(sh, sh) /\ Carries(sh, RebuildIndexes(s1, auths))
      /\ Carries(sh, RebuildIndexes(s2, auths))
    BY <1>6, <1>7, StaysCarries, RebuildCarries
<1>9. Carries(sh, EnsureModel(p))
    BY <1>4, <1>5, <1>6, <1>8
<1>. QED BY <1>9 DEF sh

\* A delivered record carries all cursors on ...
LEMMA UpsertAuthCarries ==
    ASSUME ShardsTrue, NEW i \in Ids, NEW d \in Deliverable, UpsertAuth(i, d)
    PROVE  \A p \in Providers : Carries(shards[p], shards'[p])
<1>1. /\ Instants /\ \A p \in Providers : shards[p] \in Shard
      /\ auths \in [Ids -> Pool!Record]
    BY DEF ShardsTrue, Instants
<1>. DEFINE new == [auths EXCEPT ![i] = Dated(d)]
            shard(p) ==
                LET sh == shards[p]
                IN  CASE p = d.provider /\ sh.stage = "none" ->
                           [sh EXCEPT !.stage = "lazy"]
                      [] p = d.provider /\ sh.stage = "built" ->
                           IF d.serves THEN UpsertEntry(sh, i, auths, new)
                                       ELSE RemoveEntry(sh, i, new)
                      [] Leaves(i, p, d) -> RemoveEntry(sh, i, new)
                      [] OTHER -> sh
<1>2. shards' = [p \in Providers |-> shard(p)]
    BY Zenon DEF UpsertAuth
<1>3. new[i] \in Pool!Record
    BY <1>1, DatedIsRecord
<1>4. ASSUME NEW p \in Providers
      PROVE  Carries(shards[p], shard(p))
    <2>1. /\ Carries(shards[p], UpsertEntry(shards[p], i, auths, new))
          /\ Carries(shards[p], RemoveEntry(shards[p], i, new))
          /\ Carries(shards[p], shards[p])
        BY <1>1, <1>3, UpsertCarries, RemoveCarries, StaysCarries
    <2>2. CASE p = d.provider /\ shards[p].stage = "none"
        <3>1. shards[p].stage # "built" /\ ~Leaves(i, p, d)
            BY <2>2 DEF Leaves
        <3>2. shard(p) = [shards[p] EXCEPT !.stage = "lazy"]
            BY <2>2, <3>1, Zenon
        <3>3. [shards[p] EXCEPT !.stage = "lazy"] \in Shard
            BY <1>1 DEF Shard
        <3>. HIDE DEF shard
        <3>. QED BY <3>1, <3>2, <3>3 DEF Carries
    <2>3. CASE ~(p = d.provider /\ shards[p].stage = "none")
        <3>1. shard(p) \in {UpsertEntry(shards[p], i, auths, new),
                            RemoveEntry(shards[p], i, new), shards[p]}
            BY <2>3 DEF Leaves
        <3>. HIDE DEF shard, new
        <3>. QED BY <2>1, <3>1
    <2>. QED BY <2>2, <2>3
<1>. HIDE DEF shard
<1>. QED BY <1>2, <1>4

\* ... and so does one that is taken away.
LEMMA RemoveAuthCarries ==
    ASSUME ShardsTrue, NEW i \in Ids, RemoveAuth(i)
    PROVE  \A p \in Providers : Carries(shards[p], shards'[p])
<1>. DEFINE o == auths[i].provider
            gone == [auths EXCEPT ![i].absent = TRUE]
<1>1. /\ shards \in [Providers -> Shard]
      /\ \A p \in Providers : Carries(shards[p], shards[p])
    BY StaysCarries DEF ShardsTrue
<1>2. shards' = [shards EXCEPT ![o] = RemoveEntry(shards[o], i, gone)]
    BY DEF RemoveAuth
<1>3. o \in Providers
    BY DEF ShardsTrue, Instants, Pool!Record
<1>4. Carries(shards[o], RemoveEntry(shards[o], i, gone))
    BY <1>1, <1>3, RemoveCarries
<1>. HIDE DEF o, gone
<1>. QED BY <1>1, <1>2, <1>3, <1>4

\* The rows that a step finds in the shards it made.
LEMMA CarriedRow ==
    ASSUME ShardsTrue, RowsEven, NEW p \in Providers, NEW new,
           Carries(shards[p], new), NEW q \in Priorities, NEW v \in Views
    PROVE  EvenRow(new.ready[q][v], new.cursor[q][v],
                   Row(turns[p][q][v], new.ready[q][v]))
<1>. DEFINE sh == shards[p]
            t == turns[p][q][v]
            view == new.ready[q][v]
            c == sh.cursor[q][v]
            d == new.cursor[q][v]
<1>1. /\ view \in SUBSET Ids /\ d \in Nat /\ c \in Nat
    BY DEF Carries, Shard, ShardsTrue
<1>2. CASE sh.stage = "built" /\ view = sh.ready[q][v]
    <2>1. EvenRow(view, c, t)
        BY <1>2 DEF RowsEven
    <2>2. d = c \/ d = Normalize(c, Cardinality(view))
        BY <1>2 DEF Carries
    <2>. HIDE DEF view, c, d, t
    <2>3. DOMAIN t = view
        BY <2>1 DEF EvenRow, EvenBy
    <2>4. EvenRow(view, d, t)
        BY <1>1, <2>1, <2>2, RowOutlives
    <2>5. EvenRow(view, d, Row(t, view))
        BY <2>3, <2>4 DEF Row
    <2>. QED BY <2>5 DEF view, d, t
<1>3. CASE sh.stage = "built" /\ view # sh.ready[q][v]
    <2>1. EvenRow(sh.ready[q][v], c, t)
        BY <1>3 DEF RowsEven
    <2>2. DOMAIN t # view
        BY <1>3, <2>1 DEF EvenRow, EvenBy
    <2>3. Row(t, view) = NoTurns(view)
        BY <2>2 DEF Row
    <2>. QED BY <1>1, <2>3, RowStarts
<1>4. CASE sh.stage # "built"
    <2>1. t = NoTurns({})
        BY <1>4 DEF RowsEven
    <2>2. Row(t, view) = NoTurns(view)
        BY <2>1 DEF Row, NoTurns
    <2>. QED BY <1>1, <2>2, RowStarts
<1>. QED BY <1>2, <1>3, <1>4

\* The turns after a step in which nobody of a view is served.
LEMMA NobodyServed ==
    ASSUME ShardsTrue, ShardsTrue', RowsEven, NotTaken,
           \A p \in Providers : Carries(shards[p], shards'[p])
    PROVE  RowsEven'
<1>1. ASSUME NEW p \in Providers, NEW q \in Priorities, NEW v \in Views
      PROVE  turns'[p][q][v] = IF shards'[p].stage # "built" THEN turns[p][q][v]
                               ELSE Row(turns[p][q][v], shards'[p].ready[q][v])
    BY Zenon DEF NotTaken, TurnsAfter, Row
<1>2. ASSUME NEW p \in Providers, NEW q \in Priorities, NEW v \in Views,
             shards'[p].stage = "built"
      PROVE  EvenRow(shards'[p].ready[q][v], shards'[p].cursor[q][v],
                     turns'[p][q][v])
    BY <1>1, <1>2, CarriedRow
<1>3. ASSUME NEW p \in Providers, NEW q \in Priorities, NEW v \in Views,
             shards'[p].stage # "built"
      PROVE  turns'[p][q][v] = NoTurns({})
    <2>1. shards[p].stage # "built"
        BY <1>3 DEF Carries
    <2>. QED BY <1>1, <1>3, <2>1 DEF RowsEven
<1>. QED BY <1>2, <1>3 DEF RowsEven

\* The turns after a request that was served.
LEMMA SomebodyServed ==
    ASSUME ShardsTrue, ShardsTrue', RowsEven, NEW shs \in [Providers -> Shard],
           \A o \in Providers : Carries(shards[o], shs[o]),
           NEW p \in Providers, NEW q \in Priorities, NEW v \in Views,
           NEW st, NEW excluded, shs[p].ready[q][v] \ excluded # {},
           Grant(shs, p, q, v, st, excluded)
    PROVE  RowsEven'
<1>. DEFINE pick == PickAt(shs[p], q, v, st, excluded)
            view == shs[p].ready[q][v]
            c == shs[p].cursor[q][v]
            u == Row(turns[p][q][v], view)
<1>1. /\ shards' = [shs EXCEPT ![p].cursor[q][v] = pick.cursor]
      /\ IF st = "fill_first" THEN NotTaken ELSE Taken(<<p, q, v>>, pick.id, excluded)
    BY DEF Grant
<1>2. \A o \in Providers : /\ shards'[o].stage = shs[o].stage
                           /\ shards'[o].ready = shs[o].ready
                           /\ \A r \in Priorities, w \in Views :
                                 shards'[o].cursor[r][w] =
                                    IF <<o, r, w>> = <<p, q, v>> THEN pick.cursor
                                    ELSE shs[o].cursor[r][w]
    <2>. HIDE DEF pick
    <2>. TAKE o \in Providers
    <2>1. CASE o # p
        <3>1. shards'[o] = shs[o]
            BY <1>1, <2>1
        <3>. QED BY <2>1, <3>1
    <2>2. CASE o = p
        <3>. DEFINE sh == shs[p]
        <3>1. shards'[o] = [sh EXCEPT !.cursor[q][v] = pick.cursor]
            BY <1>1, <2>2
        <3>2. sh \in Shard
            OBVIOUS
        <3>3. o = p /\ shs[o] = sh
            BY <2>2
        <3>. HIDE DEF sh
        <3>4. shards'[o].stage = sh.stage /\ shards'[o].ready = sh.ready
            BY <3>1, <3>2 DEF Shard
        <3>5. shards'[o].cursor = [sh.cursor EXCEPT ![q][v] = pick.cursor]
            BY <3>1, <3>2 DEF Shard
        <3>6. sh.cursor \in [Priorities -> [Views -> Nat]]
            BY <3>2 DEF Shard
        <3>7. \A r \in Priorities, w \in Views :
                  shards'[o].cursor[r][w] =
                      IF r = q /\ w = v THEN pick.cursor ELSE sh.cursor[r][w]
            BY <3>5, <3>6
        <3>. QED BY <3>3, <3>4, <3>7
    <2>. QED BY <2>1, <2>2
<1>3. CASE st = "fill_first"
    <2>1. pick.cursor = c
        BY <1>3 DEF PickAt
    <2>2. \A o \in Providers : Carries(shards[o], shards'[o])
        <3>1. \A o \in Providers : shards'[o] \in Shard
            BY DEF ShardsTrue
        <3>. HIDE DEF pick
        <3>. QED BY <1>2, <2>1, <3>1 DEF Carries
    <2>. QED BY <1>1, <1>3, <2>2, NobodyServed
<1>4. CASE st # "fill_first"
    <2>1. /\ pick = PickRoundRobin(view, c, view \ excluded)
          /\ Taken(<<p, q, v>>, pick.id, excluded)
        BY <1>1, <1>4 DEF PickAt
    <2>2. ASSUME NEW o \in Providers, NEW r \in Priorities, NEW w \in Views
          PROVE  turns'[o][r][w] =
                     LET t == Row(turns[o][r][w], shards'[o].ready[r][w])
                     IN  IF shards'[o].stage # "built" THEN turns[o][r][w]
                         ELSE CASE <<o, r, w>> # <<p, q, v>> -> t
                                [] /\ <<o, r, w>> = <<p, q, v>>
                                   /\ DOMAIN t \cap excluded # {} ->
                                      NoTurns(DOMAIN t)
                                [] OTHER -> Turn(t, pick.id)
        BY <2>1, Zenon DEF Taken, TurnsAfter, Row
    <2>3. ASSUME NEW o \in Providers, NEW r \in Priorities, NEW w \in Views,
                 shards'[o].stage # "built"
          PROVE  turns'[o][r][w] = NoTurns({})
        <3>1. shards[o].stage # "built"
            BY <1>2, <2>3 DEF Carries
        <3>2. turns'[o][r][w] = turns[o][r][w]
            BY <2>2, <2>3
        <3>. QED BY <3>1, <3>2 DEF RowsEven
    <2>4. ASSUME NEW o \in Providers, NEW r \in Priorities, NEW w \in Views,
                 shards'[o].stage = "built", <<o, r, w>> # <<p, q, v>>
          PROVE  EvenRow(shards'[o].ready[r][w], shards'[o].cursor[r][w],
                         turns'[o][r][w])
        <3>1. turns'[o][r][w] = Row(turns[o][r][w], shs[o].ready[r][w])
            BY <1>2, <2>2, <2>4
        <3>2. /\ shards'[o].ready[r][w] = shs[o].ready[r][w]
              /\ shards'[o].cursor[r][w] = shs[o].cursor[r][w]
            BY <1>2, <2>4
        <3>3. Carries(shards[o], shs[o])
            OBVIOUS
        <3>4. EvenRow(shs[o].ready[r][w], shs[o].cursor[r][w],
                      Row(turns[o][r][w], shs[o].ready[r][w]))
            BY <3>3, CarriedRow
        <3>. QED BY <3>1, <3>2, <3>4
    <2>5. ASSUME shards'[p].stage = "built"
          PROVE  EvenRow(shards'[p].ready[q][v], shards'[p].cursor[q][v],
                         turns'[p][q][v])
        <3>1. Carries(shards[p], shs[p])
            OBVIOUS
        <3>2. EvenRow(view, c, u)
            BY <3>1, CarriedRow
        <3>3. /\ shards'[p].ready[q][v] = view
              /\ shards'[p].cursor[q][v] = pick.cursor
            BY <1>2
        <3>4. view \in SUBSET Ids /\ view # {} /\ c \in Nat
            BY DEF Shard
        <3>5. turns'[p][q][v] = IF DOMAIN u \cap excluded # {} THEN NoTurns(DOMAIN u)
                                ELSE Turn(u, pick.id)
            BY <2>2, <2>5, <3>3
        <3>6. DOMAIN u = view
            BY <3>2 DEF EvenRow, EvenBy
        <3>. HIDE DEF u
        <3>7. CASE view \cap excluded # {}
            <4>1. turns'[p][q][v] = NoTurns(view)
                BY <3>5, <3>6, <3>7
            <4>. QED BY <3>3, <3>4, <4>1, RowStarts
        <3>8. CASE view \cap excluded = {}
            <4>1. view \ excluded = view
                BY <3>8
            <4>2. pick = PickRoundRobin(view, c, view)
                BY <2>1, <4>1
            <4>3. turns'[p][q][v] = Turn(u, pick.id)
                BY <3>5, <3>6, <3>8
            <4>. HIDE DEF pick, view, c
            <4>4. EvenRow(view, pick.cursor, Turn(u, pick.id))
                BY <3>2, <3>4, <4>2, TurnIsEven
            <4>. QED BY <3>3, <4>3, <4>4
        <3>. QED BY <3>7, <3>8
    <2>6. ASSUME NEW o \in Providers, NEW r \in Priorities, NEW w \in Views,
                 shards'[o].stage = "built"
          PROVE  EvenRow(shards'[o].ready[r][w], shards'[o].cursor[r][w],
                         turns'[o][r][w])
        BY <2>4, <2>5, <2>6
    <2>. QED BY <2>3, <2>6 DEF RowsEven
<1>. QED BY <1>3, <1>4

\* Every step keeps the rows even.
LEMMA RotationStep ==
    ASSUME ~Rebuilding, ShardsTrue, RowsEven, [SchedulerNext]_schedulerVars
    PROVE  RowsEven'
<1>1. ShardsTrue'
    BY SchedulerStep
<1>2. /\ Instants /\ shards \in [Providers -> Shard]
      /\ auths \in [Ids -> Pool!Record]
      /\ \A p \in Providers : shards[p] \in Shard /\ Carries(shards[p], shards[p])
    BY StaysCarries DEF ShardsTrue, Instants
<1>3. ASSUME shards' = shards, turns' = turns
      PROVE  RowsEven'
    BY <1>3 DEF RowsEven
<1>4. \A p \in Providers : /\ EnsureModel(p) \in Shard
                           /\ Carries(shards[p], EnsureModel(p))
    BY <1>2, EnsureCarries DEF Carries
<1>5. ASSUME NEW i \in Ids, NEW d \in Deliverable, UpsertAuth(i, d)
      PROVE  RowsEven'
    <2>1. NotTaken
        BY <1>5, Zenon DEF UpsertAuth
    <2>2. \A p \in Providers : Carries(shards[p], shards'[p])
        BY <1>5, UpsertAuthCarries
    <2>. QED BY <1>1, <2>1, <2>2, NobodyServed
<1>6. ASSUME NEW i \in Ids, RemoveAuth(i)
      PROVE  RowsEven'
    <2>1. NotTaken
        BY <1>6 DEF RemoveAuth
    <2>2. \A p \in Providers : Carries(shards[p], shards'[p])
        BY <1>6, RemoveAuthCarries
    <2>. QED BY <1>1, <2>1, <2>2, NobodyServed
<1>7. ASSUME NEW st \in Strategies, SetSelector(st)
      PROVE  RowsEven'
    BY <1>3, <1>7 DEF SetSelector
<1>8. ASSUME NEW p \in Providers, NEW excluded \in SUBSET Ids, NEW ws \in BOOLEAN,
             PickSingle(p, excluded, ws)
      PROVE  RowsEven'
    <2>. DEFINE shs == [shards EXCEPT ![p] = EnsureModel(p)]
                v == PreferredView(shs[p], ws, excluded)
                qs == ReadyPriorities(shs[p], v, excluded)
    <2>1. IF qs = {} THEN Deny(shs, {p}, excluded)
                     ELSE Grant(shs, p, Max(qs), v, strategy, excluded)
        BY <1>8, Zenon DEF PickSingle
    <2>2. /\ shs \in [Providers -> Shard]
          /\ \A o \in Providers : Carries(shards[o], shs[o])
        BY <1>2, <1>4
    <2>3. v \in Views
        BY DEF PreferredView, Views
    <2>. HIDE DEF shs, v
    <2>4. CASE qs = {}
        <3>1. shards' = shs /\ NotTaken
            BY <2>1, <2>4 DEF Deny
        <3>. QED BY <1>1, <2>2, <3>1, NobodyServed
    <2>5. CASE qs # {}
        <3>1. qs \in SUBSET Priorities
            BY DEF ReadyPriorities
        <3>2. Max(qs) \in qs
            BY <2>5, <3>1, BestPriority
        <3>3. Max(qs) \in Priorities /\ shs[p].ready[Max(qs)][v] \ excluded # {}
            BY <3>2 DEF ReadyPriorities
        <3>. HIDE DEF qs
        <3>4. Grant(shs, p, Max(qs), v, strategy, excluded)
            BY <2>1, <2>5
        <3>. QED BY <1>1, <2>2, <2>3, <3>3, <3>4, SomebodyServed
    <2>. QED BY <2>4, <2>5
<1>9. ASSUME NEW excluded \in SUBSET Ids, PickMixed(excluded)
      PROVE  RowsEven'
    <2>. DEFINE from == {Order[k] : k \in DOMAIN Order}
                shs == [p \in Providers |-> IF p \in from THEN EnsureModel(p)
                                                          ELSE shards[p]]
    <2>1. /\ shs \in [Providers -> Shard]
          /\ \A o \in Providers : Carries(shards[o], shs[o])
        BY <1>2, <1>4
    <2>2. \/ Deny(shs, from, excluded)
          \/ \E p \in Providers, q \in Priorities :
                 /\ shs[p].ready[q]["all"] \ excluded # {}
                 /\ Grant(shs, p, q, "all", strategy, excluded)
        BY <1>9, MixedGrants
    <2>. HIDE DEF shs, from
    <2>3. CASE Deny(shs, from, excluded)
        <3>1. shards' = shs /\ NotTaken
            BY <2>3 DEF Deny
        <3>. QED BY <1>1, <2>1, <3>1, NobodyServed
    <2>4. CASE \E p \in Providers, q \in Priorities :
                   /\ shs[p].ready[q]["all"] \ excluded # {}
                   /\ Grant(shs, p, q, "all", strategy, excluded)
        <3>1. PICK p \in Providers, q \in Priorities :
                  /\ shs[p].ready[q]["all"] \ excluded # {}
                  /\ Grant(shs, p, q, "all", strategy, excluded)
            BY <2>4
        <3>2. "all" \in Views
            BY DEF Views
        <3>. QED BY <1>1, <2>1, <3>1, <3>2, SomebodyServed
    <2>. QED BY <2>2, <2>3, <2>4
<1>10. ASSUME Pass
       PROVE  RowsEven'
    BY <1>3, <1>10 DEF Pass
<1>11. ASSUME UNCHANGED schedulerVars
       PROVE  RowsEven'
    BY <1>3, <1>11 DEF schedulerVars
<1>12. ~Rebuild
    BY DEF Rebuild
<1>. QED BY <1>5, <1>6, <1>7, <1>8, <1>9, <1>10, <1>11, <1>12 DEF SchedulerNext

\* Unless refusals of other requests rebuild the scheduler, the rotation over a
\* view is even: between the turns of one member every other has had one,
\* whatever is delivered, promoted or served elsewhere in between.
THEOREM RotationStaysEven ==
    ASSUME ~Rebuilding
    PROVE  SchedulerSpec => []RotationIsEven
<1>1. SchedulerInit => ShardsTrue /\ RowsEven
    <2>1. SchedulerInit => ShardsTrue
        BY SchedulerStarts
    <2>2. SchedulerInit => RowsEven
        <3>. SUFFICES ASSUME SchedulerInit PROVE RowsEven
            OBVIOUS
        <3>1. /\ \A p \in Providers : shards[p].stage # "built"
              /\ \A p \in Providers, q \in Priorities, v \in Views :
                     turns[p][q][v] = NoTurns({})
            BY DEF SchedulerInit, NoShard
        <3>. QED BY <3>1 DEF RowsEven
    <2>. QED BY <2>1, <2>2
<1>2. ShardsTrue /\ RowsEven /\ [SchedulerNext]_schedulerVars
          => ShardsTrue' /\ RowsEven'
    BY SchedulerStep, RotationStep
<1>3. RowsEven => RotationIsEven
    <2>. SUFFICES ASSUME RowsEven, NEW p \in Providers, NEW q \in Priorities,
                         NEW v \in Views
                  PROVE  LET t == turns[p][q][v]
                         IN  \A i, j \in DOMAIN t : t[i] <= t[j] + 1
        BY DEF RotationIsEven
    <2>1. CASE shards[p].stage = "built"
        <3>1. turns[p][q][v] \in [shards[p].ready[q][v] -> {0, 1}]
            BY <2>1 DEF RowsEven, EvenRow, EvenBy
        <3>. QED BY <3>1
    <2>2. CASE shards[p].stage # "built"
        <3>1. turns[p][q][v] = NoTurns({})
            BY <2>2 DEF RowsEven
        <3>. QED BY <3>1 DEF NoTurns
    <2>. QED BY <2>1, <2>2
<1>. QED BY <1>1, <1>2, <1>3, PTL DEF SchedulerSpec

-----------------------------------------------------------------------------
(* Mixed requests.  V[k] is the view of the k-th provider and C[k] its     *)
(* cursor; the mixed cursor m walks over the members of all of them.       *)

Crowd(V) == UNION {V[k] : k \in DOMAIN V}

\* Where the slots of the k-th provider begin.
Before(V, k) == Cardinality(UNION {V[j] : j \in 1..(k - 1)})

\* No two providers have a member in common.
Disjoint(V) == \A j, k \in DOMAIN V : V[j] \cap V[k] # {} => j = k

\* The views of L providers.
IsRow(V, L) == L \in Nat /\ V \in [1..L -> SUBSET Ids] /\ Disjoint(V)

\* Two sets without a common member have as many as both.
LEMMA TogetherCount ==
    ASSUME NEW S, NEW T, IsFiniteSet(S), IsFiniteSet(T), S \cap T = {}
    PROVE  Cardinality(S \cup T) = Cardinality(S) + Cardinality(T)
<1>1. Cardinality(S) \in Nat /\ Cardinality(T) \in Nat
    BY FS_CardinalityType
<1>2. Cardinality(S \cup T) = Cardinality(S) + Cardinality(T) - Cardinality(S \cap T)
    BY FS_Union
<1>3. Cardinality(S \cap T) = 0
    BY FS_EmptySet
<1>. QED BY <1>1, <1>2, <1>3

\* The slots of the providers follow one another and fill the row.
LEMMA SlotsFollow ==
    ASSUME NEW L, NEW V, IsRow(V, L)
    PROVE  /\ Cardinality(Crowd(V)) \in Nat
           /\ Before(V, 1) = 0 /\ Before(V, L + 1) = Cardinality(Crowd(V))
           /\ \A k \in 1..(L + 1) : Before(V, k) \in Nat
           /\ \A k \in 1..L :
                 /\ Cardinality(V[k]) \in Nat
                 /\ Before(V, k) + Cardinality(V[k]) = Before(V, k + 1)
           /\ \A j, k \in 1..(L + 1) : j <= k => Before(V, j) <= Before(V, k)
<1>. L \in Nat /\ V \in [1..L -> SUBSET Ids] /\ Disjoint(V)
    BY DEF IsRow
<1>. DEFINE U(k) == UNION {V[j] : j \in 1..(k - 1)}
<1>1. \A k \in 1..(L + 1) : /\ U(k) \in SUBSET Ids /\ IsFiniteSet(U(k))
                            /\ Before(V, k) = Cardinality(U(k))
                            /\ Cardinality(U(k)) \in Nat
    <2>. TAKE k \in 1..(L + 1)
    <2>1. U(k) \in SUBSET Ids
        OBVIOUS
    <2>. HIDE DEF U
    <2>2. IsFiniteSet(U(k)) /\ Cardinality(U(k)) \in Nat
        BY <2>1, IdSets
    <2>3. Before(V, k) = Cardinality(U(k))
        BY DEF Before, U
    <2>. QED BY <2>1, <2>2, <2>3
<1>2. U(1) = {} /\ U(L + 1) = Crowd(V)
    BY DEF Crowd
<1>3. ASSUME NEW k \in 1..L
      PROVE  /\ U(k + 1) = U(k) \cup V[k] /\ U(k) \cap V[k] = {}
             /\ V[k] \in SUBSET Ids /\ k \in 1..(L + 1) /\ k + 1 \in 1..(L + 1)
    <2>1. 1..k = 1..(k - 1) \cup {k} /\ k \notin 1..(k - 1) /\ (k + 1) - 1 = k
        OBVIOUS
    <2>2. U(k + 1) = U(k) \cup V[k]
        BY <2>1
    <2>3. U(k) \cap V[k] = {}
        <3>. SUFFICES ASSUME NEW x \in U(k), x \in V[k] PROVE FALSE
            OBVIOUS
        <3>1. PICK j \in 1..(k - 1) : x \in V[j]
            OBVIOUS
        <3>2. j \in DOMAIN V /\ k \in DOMAIN V /\ j # k
            OBVIOUS
        <3>. QED BY <3>1, <3>2 DEF Disjoint
    <2>. QED BY <2>2, <2>3
<1>4. \A j, k \in 1..(L + 1) : j <= k => U(j) \in SUBSET U(k)
    OBVIOUS
<1>. HIDE DEF U
<1>5. Before(V, 1) = 0 /\ Before(V, L + 1) = Cardinality(Crowd(V))
    <2>1. 1 \in 1..(L + 1) /\ L + 1 \in 1..(L + 1)
        OBVIOUS
    <2>. QED BY <1>1, <1>2, <2>1, FS_EmptySet
<1>6. ASSUME NEW k \in 1..L
      PROVE  /\ Cardinality(V[k]) \in Nat
             /\ Before(V, k) + Cardinality(V[k]) = Before(V, k + 1)
    <2>1. IsFiniteSet(V[k]) /\ Cardinality(V[k]) \in Nat
        BY <1>3, IdSets
    <2>2. IsFiniteSet(U(k)) /\ Cardinality(U(k)) \in Nat
        BY <1>1, <1>3
    <2>3. Cardinality(U(k) \cup V[k]) = Cardinality(U(k)) + Cardinality(V[k])
        BY <1>3, <2>1, <2>2, TogetherCount
    <2>4. U(k + 1) = U(k) \cup V[k]
        BY <1>3
    <2>5. Cardinality(U(k + 1)) = Cardinality(U(k)) + Cardinality(V[k])
        BY <2>3, <2>4, Zenon
    <2>6. Before(V, k) = Cardinality(U(k)) /\ Before(V, k + 1) = Cardinality(U(k + 1))
        BY <1>1, <1>3
    <2>. QED BY <2>1, <2>5, <2>6
<1>7. ASSUME NEW j \in 1..(L + 1), NEW k \in 1..(L + 1), j <= k
      PROVE  Before(V, j) <= Before(V, k)
    <2>1. Cardinality(U(j)) <= Cardinality(U(k))
        BY <1>1, <1>4, <1>7, IdSets
    <2>. QED BY <1>1, <2>1
<1>8. Cardinality(Crowd(V)) \in Nat
    <2>1. L + 1 \in 1..(L + 1)
        OBVIOUS
    <2>. QED BY <1>1, <1>5, <2>1
<1>9. \A k \in 1..(L + 1) : Before(V, k) \in Nat
    BY <1>1
<1>. QED BY <1>5, <1>6, <1>7, <1>8, <1>9

\* Slot s is one of the k-th provider's.
HasSlot(V, k, s) == Before(V, k) <= s /\ s < Before(V, k) + Cardinality(V[k])

\* Every slot is somebody's.
LEMMA SlotsAreOwned ==
    ASSUME NEW L, NEW V, IsRow(V, L),
           NEW s \in 0..(Cardinality(Crowd(V)) - 1)
    PROVE  \E k \in 1..L : HasSlot(V, k, s)
<1>. L \in Nat /\ V \in [1..L -> SUBSET Ids]
    BY DEF IsRow
<1>. DEFINE T == {k \in 1..(L + 1) : Before(V, k) > s}
<1>1. /\ Cardinality(Crowd(V)) \in Nat
      /\ Before(V, 1) = 0 /\ Before(V, L + 1) = Cardinality(Crowd(V))
      /\ \A k \in 1..(L + 1) : Before(V, k) \in Nat
      /\ \A k \in 1..L : Before(V, k) + Cardinality(V[k]) = Before(V, k + 1)
    BY SlotsFollow
<1>2. T \in SUBSET Nat /\ L + 1 \in T
    BY <1>1
<1>3. PICK h \in T : \A k \in T : h <= k
    BY <1>2, NatMinimum
<1>4. h # 1 /\ h \in 1..(L + 1) /\ Before(V, h) > s
    BY <1>1, <1>3
<1>5. h - 1 \in 1..L /\ h - 1 \notin T /\ (h - 1) + 1 = h
    BY <1>3, <1>4
<1>6. Before(V, h - 1) <= s
    BY <1>1, <1>5
<1>7. s < Before(V, h - 1) + Cardinality(V[h - 1])
    BY <1>1, <1>4, <1>5
<1>. QED BY <1>5, <1>6, <1>7 DEF HasSlot

\* The picks before that of a member: of n slots, s is next, the member's
\* provider has w from b on, and serves x others before it.
Distance(n, s, b, w, x) ==
    IF b <= s /\ s < b + w
    THEN IF x < b + w - s THEN x ELSE n - w + x
    ELSE IF s < b THEN b - s + x ELSE n - s + b + x

\* The slot after slot s.
NextSlot(n, s) == IF s = n - 1 THEN 0 ELSE s + 1

\* Whose turn it is goes to the end of the order.
LEMMA PickedIsLast ==
    ASSUME NEW n \in Nat, NEW s \in 0..(n - 1), NEW b \in Nat, NEW w \in Nat,
           b + w <= n, b <= s, s < b + w
    PROVE  /\ Distance(n, s, b, w, 0) = 0
           /\ Distance(n, NextSlot(n, s), b, w, w - 1) = n - 1
BY DEF Distance, NextSlot

\* The others of its provider come one pick sooner ...
LEMMA NearMoveUp ==
    ASSUME NEW n \in Nat, NEW s \in 0..(n - 1), NEW b \in Nat, NEW w \in Nat,
           b + w <= n, b <= s, s < b + w, NEW x \in 1..(w - 1)
    PROVE  /\ Distance(n, s, b, w, x) \in 1..(n - 1)
           /\ Distance(n, NextSlot(n, s), b, w, x - 1) = Distance(n, s, b, w, x) - 1
BY DEF Distance, NextSlot

\* ... and so do those of all other providers.
LEMMA FarMoveUp ==
    ASSUME NEW n \in Nat, NEW s \in 0..(n - 1), NEW b \in Nat, NEW w \in Nat,
           b + w <= n, ~(b <= s /\ s < b + w), NEW x \in 0..(w - 1)
    PROVE  /\ Distance(n, s, b, w, x) \in 1..(n - 1)
           /\ Distance(n, NextSlot(n, s), b, w, x) = Distance(n, s, b, w, x) - 1
BY DEF Distance, NextSlot

\* The provider of member i.
Home(V, i) == CHOOSE k \in DOMAIN V : i \in V[k]

\* How many picks come before the one that reaches member i, slot s being next.
Delay(V, C, s, i) ==
    LET k == Home(V, i)
    IN  Distance(Cardinality(Crowd(V)), s, Before(V, k), Cardinality(V[k]),
                 Wait(V[k], C[k], i))

\* The slot at which the mixed cursor stands.
Slot(V, m) == m % Cardinality(Crowd(V))

\* The members of V that had their turn are those of most delay.
MixedRow(V, C, m, t) ==
    EvenBy(Crowd(V), [i \in Crowd(V) |-> Delay(V, C, Slot(V, m), i)], t)

\* Of n slots, number s + 1 is the next after s.
LEMMA SlotsCycle ==
    ASSUME NEW n \in Nat, NEW s \in 0..(n - 1)
    PROVE  (s + 1) % n = NextSlot(n, s)
<1>1. n > 0
    OBVIOUS
<1>2. CASE s = n - 1
    <2>1. s + 1 = n /\ n % n = 0
        BY <1>1, <1>2
    <2>. QED BY <1>2, <2>1 DEF NextSlot
<1>3. CASE s # n - 1
    <2>1. s + 1 \in 0..(n - 1)
        BY <1>3
    <2>2. \A c \in 0..(n - 1) : c % n = c
        BY <1>1
    <2>. QED BY <1>3, <2>1, <2>2 DEF NextSlot
<1>. QED BY <1>2, <1>3

\* The slots of the h-th provider are among all, and slot s is one of them just
\* when it is the k-th that is asked about.
Apart(V, k, s, h) ==
    /\ Before(V, h) \in Nat /\ Cardinality(V[h]) \in Nat
    /\ Cardinality(Crowd(V)) \in Nat
    /\ Before(V, h) + Cardinality(V[h]) <= Cardinality(Crowd(V))
    /\ s < Cardinality(Crowd(V)) /\ V[k] # {}
    /\ h = k => Before(V, h) <= s /\ s < Before(V, h) + Cardinality(V[h])
    /\ h # k => ~(Before(V, h) <= s /\ s < Before(V, h) + Cardinality(V[h]))

\* Whose slot it is not, all its slots come before or after.
LEMMA SlotIsOwned ==
    ASSUME NEW L, NEW V, IsRow(V, L),
           NEW s \in Nat, NEW k \in 1..L, NEW h \in 1..L, HasSlot(V, k, s)
    PROVE  Apart(V, k, s, h)
<1>. L \in Nat /\ V \in [1..L -> SUBSET Ids]
    BY DEF IsRow
<1>1. /\ Cardinality(Crowd(V)) \in Nat
      /\ Before(V, L + 1) = Cardinality(Crowd(V))
      /\ \A j \in 1..(L + 1) : Before(V, j) \in Nat
      /\ \A j \in 1..L :
            /\ Cardinality(V[j]) \in Nat
            /\ Before(V, j) + Cardinality(V[j]) = Before(V, j + 1)
      /\ \A i, j \in 1..(L + 1) : i <= j => Before(V, i) <= Before(V, j)
    BY SlotsFollow
<1>2. \A j \in 1..L : /\ j \in 1..(L + 1) /\ j + 1 \in 1..(L + 1)
                      /\ Before(V, j + 1) <= Before(V, L + 1)
    BY <1>1
<1>3. Before(V, k) <= s /\ s < Before(V, k) + Cardinality(V[k])
    BY DEF HasSlot
<1>4. /\ Before(V, h) \in Nat /\ Cardinality(V[h]) \in Nat
      /\ Before(V, h) + Cardinality(V[h]) <= Cardinality(Crowd(V))
    BY <1>1, <1>2
<1>5. s < Cardinality(Crowd(V))
    BY <1>1, <1>2, <1>3
<1>6. V[k] # {}
    <2>1. Cardinality(V[k]) # 0
        BY <1>1, <1>2, <1>3
    <2>. QED BY <2>1, FS_EmptySet
<1>7. ASSUME h < k PROVE ~HasSlot(V, h, s)
    <2>1. Before(V, h + 1) <= Before(V, k)
        BY <1>1, <1>2, <1>7
    <2>2. Before(V, h) + Cardinality(V[h]) = Before(V, h + 1)
        BY <1>1
    <2>3. Before(V, h + 1) \in Nat /\ Before(V, k) \in Nat
        BY <1>1, <1>2
    <2>. QED BY <1>3, <2>1, <2>2, <2>3 DEF HasSlot
<1>8. ASSUME k < h PROVE ~HasSlot(V, h, s)
    <2>1. Before(V, k + 1) <= Before(V, h)
        BY <1>1, <1>2, <1>8
    <2>2. Before(V, k) + Cardinality(V[k]) = Before(V, k + 1)
        BY <1>1
    <2>3. Before(V, k + 1) \in Nat /\ Before(V, h) \in Nat
        BY <1>1, <1>2
    <2>. QED BY <1>3, <2>1, <2>2, <2>3 DEF HasSlot
<1>9. /\ h = k => Before(V, h) <= s /\ s < Before(V, h) + Cardinality(V[h])
      /\ h # k => ~(Before(V, h) <= s /\ s < Before(V, h) + Cardinality(V[h]))
    <2>1. h < k \/ k < h \/ h = k
        OBVIOUS
    <2>. QED BY <1>3, <1>7, <1>8, <2>1 DEF HasSlot
<1>. QED BY <1>1, <1>4, <1>5, <1>6, <1>9 DEF Apart

\* From slot s and cursors C to the next slot and cursors D, member p goes from
\* the first to the last in the order, and all others move up by one.
MovesUp(V, C, D, s, p) ==
    LET n == Cardinality(Crowd(V))
        r == NextSlot(n, s)
    IN  /\ n \in Nat /\ s < n /\ p \in Crowd(V)
        /\ Delay(V, C, s, p) = 0 /\ Delay(V, D, r, p) = n - 1
        /\ \A i \in Crowd(V) \ {p} : /\ Delay(V, C, s, i) \in 1..(n - 1)
                                      /\ Delay(V, D, r, i) = Delay(V, C, s, i) - 1

\* A mixed pick serves the member whose turn the slot is.
LEMMA MembersMoveUp ==
    ASSUME NEW L, NEW V, IsRow(V, L),
           NEW C \in [1..L -> Nat], NEW k \in 1..L, NEW s \in Nat, HasSlot(V, k, s)
    PROVE  LET pick == PickRoundRobin(V[k], C[k], V[k])
           IN  MovesUp(V, C, [C EXCEPT ![k] = pick.cursor], s, pick.id)
<1>1. ASSUME NEW h \in 1..L
      PROVE  /\ Before(V, h) \in Nat /\ Cardinality(V[h]) \in Nat
             /\ Cardinality(Crowd(V)) \in Nat
             /\ Before(V, h) + Cardinality(V[h]) <= Cardinality(Crowd(V))
             /\ s < Cardinality(Crowd(V)) /\ V[k] # {}
             /\ h = k => Before(V, h) <= s /\ s < Before(V, h) + Cardinality(V[h])
             /\ h # k => ~(Before(V, h) <= s /\ s < Before(V, h) + Cardinality(V[h]))
    <2>1. Apart(V, k, s, h)
        BY SlotIsOwned
    <2>. QED BY <2>1 DEF Apart
<1>. L \in Nat /\ V \in [1..L -> SUBSET Ids] /\ Disjoint(V)
    BY DEF IsRow
<1>. DEFINE n == Cardinality(Crowd(V))
            pick == PickRoundRobin(V[k], C[k], V[k])
            D == [C EXCEPT ![k] = pick.cursor]
            r == NextSlot(n, s)
<1>2. n \in Nat /\ s \in 0..(n - 1) /\ V[k] # {}
    BY <1>1
<1>3. /\ pick.id \in V[k] /\ pick.cursor \in Nat
      /\ Wait(V[k], C[k], pick.id) = 0
      /\ Wait(V[k], pick.cursor, pick.id) = Cardinality(V[k]) - 1
      /\ \A j \in V[k] \ {pick.id} :
            /\ Wait(V[k], C[k], j) # 0
            /\ Wait(V[k], pick.cursor, j) = Wait(V[k], C[k], j) - 1
    <2>. DEFINE view == V[k]
                cursor == C[k]
    <2>1. view \in SUBSET Ids /\ view # {} /\ cursor \in Nat
        BY <1>2
    <2>2. pick = PickRoundRobin(view, cursor, view)
        OBVIOUS
    <2>. HIDE DEF view, cursor, pick
    <2>3. /\ pick.id \in view /\ pick.cursor \in Nat
          /\ Wait(view, cursor, pick.id) = 0
          /\ Wait(view, pick.cursor, pick.id) = Cardinality(view) - 1
          /\ \A j \in view \ {pick.id} :
                /\ Wait(view, cursor, j) \in 1..(Cardinality(view) - 1)
                /\ Wait(view, pick.cursor, j) = Wait(view, cursor, j) - 1
        BY <2>1, <2>2, PickRotates
    <2>4. \A j \in view \ {pick.id} : Wait(view, cursor, j) # 0
        BY <2>1, <2>3, IdSets
    <2>. QED BY <2>3, <2>4 DEF view, cursor
<1>. HIDE DEF pick, n, r
<1>4. ASSUME NEW i \in Crowd(V)
      PROVE  /\ i = pick.id => Delay(V, C, s, i) = 0 /\ Delay(V, D, r, i) = n - 1
             /\ i # pick.id => /\ Delay(V, C, s, i) \in 1..(n - 1)
                               /\ Delay(V, D, r, i) = Delay(V, C, s, i) - 1
    <2>. DEFINE h == Home(V, i)
                b == Before(V, h)
                w == Cardinality(V[h])
                x == Wait(V[h], C[h], i)
                y == Wait(V[h], D[h], i)
    <2>1. h \in 1..L /\ i \in V[h]
        <3>1. \E j \in DOMAIN V : i \in V[j]
            BY DEF Crowd
        <3>. QED BY <3>1 DEF Home
    <2>2. /\ Delay(V, C, s, i) = Distance(n, s, b, w, x)
          /\ Delay(V, D, r, i) = Distance(n, r, b, w, y)
        BY Zenon DEF Delay, n
    <2>3. x \in 0..(w - 1)
        BY <2>1, WaitFits
    <2>4. /\ b \in Nat /\ w \in Nat /\ b + w <= n
          /\ h = k => b <= s /\ s < b + w
          /\ h # k => ~(b <= s /\ s < b + w)
        BY <1>1, <2>1 DEF n
    <2>5. CASE h = k /\ i = pick.id
        <3>1. x = 0 /\ y = w - 1
            BY <1>3, <2>5
        <3>. HIDE DEF h, b, w, x, y
        <3>2. Distance(n, s, b, w, 0) = 0 /\ Distance(n, r, b, w, w - 1) = n - 1
            BY <1>2, <2>4, <2>5, PickedIsLast DEF r
        <3>. QED BY <2>2, <2>5, <3>1, <3>2
    <2>6. CASE h = k /\ i # pick.id
        <3>1. x # 0 /\ y = x - 1
            BY <1>3, <2>1, <2>6
        <3>. HIDE DEF h, b, w, x, y
        <3>2. x \in 1..(w - 1)
            BY <2>3, <2>4, <3>1
        <3>3. /\ Distance(n, s, b, w, x) \in 1..(n - 1)
              /\ Distance(n, r, b, w, x - 1) = Distance(n, s, b, w, x) - 1
            BY <1>2, <2>4, <2>6, <3>2, NearMoveUp DEF r
        <3>. QED BY <2>2, <2>6, <3>1, <3>3
    <2>7. CASE h # k
        <3>1. y = x
            BY <2>1, <2>7
        <3>2. i # pick.id
            <4>. SUFFICES ASSUME i = pick.id PROVE FALSE
                OBVIOUS
            <4>1. i \in V[h] \cap V[k]
                BY <1>3, <2>1
            <4>2. h \in DOMAIN V /\ k \in DOMAIN V
                BY <2>1
            <4>. HIDE DEF h
            <4>. QED BY <2>7, <4>1, <4>2 DEF Disjoint
        <3>. HIDE DEF h, b, w, x, y
        <3>3. /\ Distance(n, s, b, w, x) \in 1..(n - 1)
              /\ Distance(n, r, b, w, x) = Distance(n, s, b, w, x) - 1
            BY <1>2, <2>3, <2>4, <2>7, FarMoveUp DEF r
        <3>. QED BY <2>2, <3>1, <3>2, <3>3
    <2>. QED BY <2>5, <2>6, <2>7
<1>5. pick.id \in Crowd(V)
    BY <1>3 DEF Crowd
<1>. HIDE DEF D
<1>6. /\ n \in Nat /\ s < n
      /\ Delay(V, C, s, pick.id) = 0 /\ Delay(V, D, r, pick.id) = n - 1
      /\ \A i \in Crowd(V) \ {pick.id} : /\ Delay(V, C, s, i) \in 1..(n - 1)
                                          /\ Delay(V, D, r, i) = Delay(V, C, s, i) - 1
    BY <1>2, <1>4, <1>5
<1>7. MovesUp(V, C, D, s, pick.id)
    BY <1>5, <1>6, Zenon DEF MovesUp, n, r
<1>. QED BY <1>7 DEF D, pick

\* So the row goes on.
LEMMA MixedTurn ==
    ASSUME NEW L, NEW V, IsRow(V, L),
           NEW C \in [1..L -> Nat], NEW m, NEW k \in 1..L, Slot(V, m) \in Nat,
           HasSlot(V, k, Slot(V, m)), NEW t, MixedRow(V, C, m, t)
    PROVE  LET pick == PickRoundRobin(V[k], C[k], V[k])
           IN  MixedRow(V, [C EXCEPT ![k] = pick.cursor], Slot(V, m) + 1,
                        Turn(t, pick.id))
<1>. DEFINE n == Cardinality(Crowd(V))
            pick == PickRoundRobin(V[k], C[k], V[k])
            D == [C EXCEPT ![k] = pick.cursor]
            s == Slot(V, m)
            r == NextSlot(n, s)
            W == [i \in Crowd(V) |-> Delay(V, C, s, i)]
            X == [i \in Crowd(V) |-> Delay(V, D, r, i)]
<1>1. /\ n \in Nat /\ s < n /\ pick.id \in Crowd(V)
      /\ Delay(V, C, s, pick.id) = 0 /\ Delay(V, D, r, pick.id) = n - 1
      /\ \A i \in Crowd(V) \ {pick.id} :
            /\ Delay(V, C, s, i) \in 1..(n - 1)
            /\ Delay(V, D, r, i) = Delay(V, C, s, i) - 1
    <2>1. MovesUp(V, C, D, s, pick.id)
        BY MembersMoveUp
    <2>. HIDE DEF pick, D, s
    <2>. QED BY <2>1, Zenon DEF MovesUp
<1>2. Slot(V, s + 1) = r
    <2>1. n \in Nat /\ s \in 0..(n - 1)
        BY <1>1
    <2>. HIDE DEF s
    <2>. QED BY <2>1, SlotsCycle DEF Slot
<1>3. EvenBy(Crowd(V), W, t)
    BY DEF MixedRow
<1>4. EvenBy(Crowd(V), X, Turn(t, pick.id)) =>
          MixedRow(V, D, s + 1, Turn(t, pick.id))
    BY <1>2, Zenon DEF MixedRow
<1>. HIDE DEF n, pick, D, s, r
<1>5. /\ W[pick.id] = 0 /\ X[pick.id] = n - 1
      /\ \A j \in Crowd(V) \ {pick.id} : W[j] \in 1..(n - 1) /\ X[j] = W[j] - 1
      /\ DOMAIN W = Crowd(V) /\ DOMAIN X = Crowd(V)
    BY <1>1
<1>6. W = [i \in Crowd(V) |-> W[i]] /\ X = [i \in Crowd(V) |-> X[i]]
    OBVIOUS
<1>. HIDE DEF W, X
<1>7. W \in [Crowd(V) -> Int] /\ X \in [Crowd(V) -> Int]
    <2>1. \A j \in Crowd(V) : W[j] \in Int /\ X[j] \in Int
        BY <1>1, <1>5
    <2>. QED BY <1>6, <2>1
<1>8. \A j \in Crowd(V) \ {pick.id} : W[pick.id] < W[j] /\ X[j] < X[pick.id]
    BY <1>1, <1>5
<1>9. \A i, j \in Crowd(V) \ {pick.id} : X[i] < X[j] => W[i] < W[j]
    BY <1>1, <1>5
<1>10. EvenBy(Crowd(V), X, Turn(t, pick.id))
    BY <1>1, <1>3, <1>7, <1>8, <1>9, TurnBy
<1>. QED BY <1>4, <1>10 DEF D, pick, s

\* A row goes on with cursors that a rebuild took over.
LEMMA RowGoesWith ==
    ASSUME NEW L \in Nat, NEW V \in [1..L -> SUBSET Ids],
           NEW C \in [1..L -> Nat], NEW D,
           \A k \in 1..L : V[k] # {} =>
               D[k] = C[k] \/ D[k] = Normalize(C[k], Cardinality(V[k])),
           NEW m, NEW t, MixedRow(V, C, m, t)
    PROVE  MixedRow(V, D, m, t)
<1>1. ASSUME NEW i \in Crowd(V)
      PROVE  Delay(V, D, Slot(V, m), i) = Delay(V, C, Slot(V, m), i)
    <2>. DEFINE k == Home(V, i)
    <2>1. k \in 1..L /\ i \in V[k]
        <3>1. \E j \in DOMAIN V : i \in V[j]
            BY DEF Crowd
        <3>. QED BY <3>1 DEF Home
    <2>. HIDE DEF k
    <2>2. Start(V[k], D[k]) = Start(V[k], C[k])
        <3>. DEFINE view == V[k]
                    c == C[k]
        <3>1. view \in SUBSET Ids /\ view # {} /\ c \in Nat
            BY <2>1
        <3>2. D[k] = c \/ D[k] = Normalize(c, Cardinality(view))
            BY <2>1
        <3>. HIDE DEF view, c
        <3>3. Start(view, Normalize(c, Cardinality(view))) = Start(view, c)
            BY <3>1, StartFits
        <3>4. Start(view, D[k]) = Start(view, c)
            BY <3>2, <3>3
        <3>. QED BY <3>4 DEF view, c
    <2>3. Wait(V[k], D[k], i) = Wait(V[k], C[k], i)
        BY <2>2 DEF Wait
    <2>. QED BY <2>3 DEF Delay, k
<1>2. [i \in Crowd(V) |-> Delay(V, D, Slot(V, m), i)]
          = [i \in Crowd(V) |-> Delay(V, C, Slot(V, m), i)]
    BY <1>1
<1>. QED BY <1>2, Zenon DEF MixedRow

\* The first row of members starts anywhere.
LEMMA MixedStarts ==
    ASSUME NEW V, NEW C, NEW m
    PROVE  MixedRow(V, C, m, NoTurns(Crowd(V)))
BY DEF MixedRow, EvenBy, NoTurns

-----------------------------------------------------------------------------
(* The row in the scheduler.                                               *)

\* The views and the cursors of the providers that a mixed request asks.
ViewsOf(shs, q) == [k \in 1..Len(Order) |-> shs[Order[k]].ready[q]["all"]]

CursorsOf(shs, q) == [k \in 1..Len(Order) |-> shs[Order[k]].cursor[q]["all"]]

\* The members that had their turn in the row are those its picks reach last.
MixedInv ==
    \/ mixedTurns = NoTurns({})
    \/ \E q \in Priorities :
          /\ Crowd(ViewsOf(shards, q)) # {}
          /\ MixedRow(ViewsOf(shards, q), CursorsOf(shards, q), mixedCursor,
                      mixedTurns)

\* The providers of a mixed request, each once.
LEMMA OrderFacts ==
    /\ Len(Order) \in Nat /\ DOMAIN Order = 1..Len(Order)
    /\ \A k \in 1..Len(Order) : Order[k] \in Providers
    /\ \A j, k \in 1..Len(Order) : Order[j] = Order[k] => j = k
BY SchedulerAssumption DEF SchedulerAssumption

\* Their views and cursors, by the place of the provider.
LEMMA RowsOfShards ==
    ASSUME NEW shs \in [Providers -> Shard], NEW q \in Priorities
    PROVE  /\ ViewsOf(shs, q) \in [1..Len(Order) -> SUBSET Ids]
           /\ CursorsOf(shs, q) \in [1..Len(Order) -> Nat]
           /\ \A k \in 1..Len(Order) :
                 /\ ViewsOf(shs, q)[k] = shs[Order[k]].ready[q]["all"]
                 /\ CursorsOf(shs, q)[k] = shs[Order[k]].cursor[q]["all"]
<1>1. "all" \in Views
    BY DEF Views
<1>2. ASSUME NEW k \in 1..Len(Order)
      PROVE  /\ shs[Order[k]].ready[q]["all"] \in SUBSET Ids
             /\ shs[Order[k]].cursor[q]["all"] \in Nat
    <2>1. shs[Order[k]] \in Shard
        BY OrderFacts
    <2>. QED BY <1>1, <2>1 DEF Shard
<1>. QED BY <1>2 DEF ViewsOf, CursorsOf

\* Shards that carry the cursors on continue a row over the same views.
LEMMA RowCarries ==
    ASSUME ShardsTrue, NEW shs \in [Providers -> Shard],
           \A p \in Providers : Carries(shards[p], shs[p]),
           \A p \in Providers : shs[p].ready = shards[p].ready,
           NEW q \in Priorities, NEW m, NEW t,
           MixedRow(ViewsOf(shards, q), CursorsOf(shards, q), m, t)
    PROVE  /\ ViewsOf(shs, q) = ViewsOf(shards, q)
           /\ MixedRow(ViewsOf(shs, q), CursorsOf(shs, q), m, t)
<1>. DEFINE L == Len(Order)
            V == ViewsOf(shards, q)
            C == CursorsOf(shards, q)
            D == CursorsOf(shs, q)
<1>1. /\ V \in [1..L -> SUBSET Ids] /\ C \in [1..L -> Nat]
      /\ \A k \in 1..L : /\ V[k] = shards[Order[k]].ready[q]["all"]
                         /\ C[k] = shards[Order[k]].cursor[q]["all"]
                         /\ D[k] = shs[Order[k]].cursor[q]["all"]
    BY RowsOfShards DEF ShardsTrue
<1>2. ViewsOf(shs, q) = V
    BY OrderFacts DEF ViewsOf
<1>3. ASSUME NEW k \in 1..L, V[k] # {}
      PROVE  D[k] = C[k] \/ D[k] = Normalize(C[k], Cardinality(V[k]))
    <2>. DEFINE p == Order[k]
    <2>1. p \in Providers /\ "all" \in Views
        BY OrderFacts DEF Views
    <2>2. shards[p].stage = "built"
        <3>. SUFFICES ASSUME shards[p].stage # "built" PROVE FALSE
            OBVIOUS
        <3>1. Truthful(shards[p], p, auths, now)
            BY <2>1 DEF ShardsTrue
        <3>2. /\ shards[p].ready = ReadyViews(shards[p].entries, auths)
              /\ \A i \in Ids : shards[p].entries[i] = NoEntry
            BY <3>1 DEF Truthful, Indexed
        <3>3. shards[p].ready[q]["all"] = {}
            BY <2>1, <3>2 DEF ReadyViews, NoEntry
        <3>. QED BY <1>1, <1>3, <3>3
    <2>3. /\ shs[p].ready = shards[p].ready /\ Carries(shards[p], shs[p])
        BY <2>1
    <2>4. \/ shs[p].cursor[q]["all"] = shards[p].cursor[q]["all"]
          \/ shs[p].cursor[q]["all"] = Normalize(shards[p].cursor[q]["all"],
                                           Cardinality(shs[p].ready[q]["all"]))
        BY <2>1, <2>2, <2>3, Zenon DEF Carries
    <2>. QED BY <1>1, <2>3, <2>4
<1>4. L \in Nat
    BY OrderFacts
<1>. HIDE DEF V, C, D, L
<1>5. MixedRow(V, D, m, t)
    <2>1. MixedRow(V, C, m, t)
        BY DEF V, C
    <2>. QED BY <1>1, <1>3, <1>4, <2>1, RowGoesWith
<1>. QED BY <1>2, <1>5 DEF V, D

\* Members at one priority are at no other.
LEMMA CrowdTellsPriority ==
    ASSUME ShardsTrue, NEW q \in Priorities, NEW r \in Priorities,
           Crowd(ViewsOf(shards, q)) = Crowd(ViewsOf(shards, r)),
           Crowd(ViewsOf(shards, q)) # {}
    PROVE  q = r
<1>1. ASSUME NEW x \in Priorities, NEW i \in Crowd(ViewsOf(shards, x))
      PROVE  auths[i].priority = x
    <2>1. PICK k \in 1..Len(Order) : i \in shards[Order[k]].ready[x]["all"]
        BY DEF Crowd, ViewsOf
    <2>. DEFINE p == Order[k]
    <2>2. p \in Providers /\ "all" \in Views
        BY OrderFacts DEF Views
    <2>3. shards[p].ready = ReadyViews(shards[p].entries, auths)
        BY <2>2 DEF ShardsTrue, Truthful, Indexed
    <2>. QED BY <2>1, <2>2, <2>3 DEF ReadyViews
<1>2. PICK i : i \in Crowd(ViewsOf(shards, q))
    OBVIOUS
<1>. QED BY <1>1, <1>2

\* The views of a mixed request are those of a row.
LEMMA ViewsMakeRow ==
    ASSUME Instants, NEW shs \in [Providers -> Shard], NEW from \in SUBSET Providers,
           LookedUp(shs, from), \A k \in 1..Len(Order) : Order[k] \in from,
           NEW q \in Priorities
    PROVE  IsRow(ViewsOf(shs, q), Len(Order))
<1>. DEFINE V == ViewsOf(shs, q)
            L == Len(Order)
<1>1. /\ V \in [1..L -> SUBSET Ids] /\ L \in Nat
      /\ \A k \in 1..L : V[k] = ViewAt(shs, Order[k], q, "all")
    BY RowsOfShards, OrderFacts DEF ViewAt
<1>2. "all" \in Views
    BY DEF Views
<1>. HIDE DEF V
<1>3. ASSUME NEW j \in 1..L, NEW k \in 1..L, V[j] \cap V[k] # {}
      PROVE  j = k
    <2>1. PICK i : i \in V[j] /\ i \in V[k]
        BY <1>3
    <2>2. i \in ViewAt(shs, Order[j], q, "all") /\ i \in ViewAt(shs, Order[k], q, "all")
        BY <1>1, <2>1
    <2>3. Order[j] \in from /\ Order[k] \in from
        OBVIOUS
    <2>4. Order[j] = Order[k]
        BY <1>2, <2>2, <2>3, ViewsAreDisjoint
    <2>. QED BY <2>4, OrderFacts
<1>4. Disjoint(V)
    BY <1>1, <1>3 DEF Disjoint
<1>. QED BY <1>1, <1>4 DEF IsRow, V

\* The turns of a row as a mixed request finds them.
RowOf(V) == IF SameViews /\ DOMAIN mixedTurns = Crowd(V) THEN mixedTurns
                                                       ELSE NoTurns(Crowd(V))

\* A mixed request that is served and continues or begins a row.
Rotates(shs, q, k) ==
    LET V    == ViewsOf(shs, q)
        C    == CursorsOf(shs, q)
        pick == PickRoundRobin(V[k], C[k], V[k])
    IN  /\ Crowd(V) # {} /\ Slot(V, mixedCursor) \in Nat
        /\ HasSlot(V, k, Slot(V, mixedCursor))
        /\ shards' = [shs EXCEPT ![Order[k]].cursor[q]["all"] = pick.cursor]
        /\ mixedCursor' = Slot(V, mixedCursor) + 1
        /\ mixedTurns' = Turn(RowOf(V), pick.id)

\* A mixed request denies, ends the row, or takes its next member.
LEMMA MixedRotates ==
    ASSUME ShardsTrue, NEW excluded \in SUBSET Ids, PickMixed(excluded)
    PROVE  LET from == {Order[k] : k \in DOMAIN Order}
               shs == [p \in Providers |-> IF p \in from THEN EnsureModel(p)
                                                         ELSE shards[p]]
           IN  \/ shards' = shs /\ mixedCursor' = mixedCursor /\ RowGoesOn
               \/ mixedTurns' = NoTurns({})
               \/ \E q \in Priorities, k \in 1..Len(Order) : Rotates(shs, q, k)
<1>. DEFINE from == {Order[k] : k \in DOMAIN Order}
            shs == [p \in Providers |-> IF p \in from THEN EnsureModel(p)
                                                      ELSE shards[p]]
            qs == UNION {ReadyPriorities(shs[p], "all", excluded) : p \in from}
            best == Max(qs)
            view(k) == shs[Order[k]].ready[best]["all"]
            weight(k) == Cardinality(view(k))
            before(k) == Cardinality(UNION {view(j) : j \in 1..(k - 1)})
            able == {k \in DOMAIN Order : view(k) \ excluded # {}}
            slot == mixedCursor % before(Len(Order) + 1)
            start == CHOOSE k \in DOMAIN Order :
                         before(k) <= slot /\ slot < before(k) + weight(k)
            ahead == {k \in able : k >= start}
            k == IF strategy = "fill_first" THEN Min(able)
                 ELSE Min(IF ahead # {} THEN ahead ELSE able)
            members == UNION {view(j) : j \in DOMAIN Order}
            row == IF SameViews /\ DOMAIN mixedTurns = members THEN mixedTurns
                                                               ELSE NoTurns(members)
<1>1. /\ qs = {} => Deny(shs, from, excluded) /\ RowGoesOn /\ mixedCursor' = mixedCursor
      /\ qs # {} =>
            /\ Grant(shs, Order[k], best, "all", strategy, excluded)
            /\ mixedCursor' = IF strategy = "fill_first" THEN mixedCursor
                              ELSE (IF k = start THEN slot ELSE before(k)) + 1
            /\ mixedTurns' = IF strategy = "fill_first" \/ members \cap excluded # {}
                             THEN NoTurns({}) ELSE Turn(row, answer'.id)
    BY Zenon DEF PickMixed
<1>2. /\ DOMAIN Order = 1..Len(Order) /\ Len(Order) \in Nat
      /\ from \in SUBSET Providers /\ \A j \in 1..Len(Order) : Order[j] \in from
    BY OrderFacts
<1>3. shs \in [Providers -> Shard] /\ LookedUp(shs, from)
    BY <1>2, LookupsAreTrue
<1>. HIDE DEF shs, from
<1>4. CASE qs = {}
    <2>1. shards' = shs
        BY <1>1, <1>4 DEF Deny
    <2>. QED BY <1>1, <1>4, <2>1 DEF shs, from
<1>5. CASE qs # {} /\ (strategy = "fill_first" \/ members \cap excluded # {})
    BY <1>1, <1>5
<1>6. CASE qs # {} /\ strategy # "fill_first" /\ members \cap excluded = {}
    <2>. DEFINE V == ViewsOf(shs, best)
                C == CursorsOf(shs, best)
                L == Len(Order)
    <2>1. best \in Priorities /\ best \in qs
        <3>1. qs \in SUBSET Priorities
            BY DEF ReadyPriorities
        <3>. HIDE DEF qs
        <3>2. best \in qs
            BY <1>6, <3>1, BestPriority
        <3>. QED BY <3>1, <3>2
    <2>2. \E j \in 1..L : view(j) # {}
        <3>1. PICK p \in from : best \in ReadyPriorities(shs[p], "all", excluded)
            BY <2>1
        <3>2. PICK j \in 1..L : p = Order[j]
            BY <1>2 DEF from
        <3>. QED BY <3>1, <3>2 DEF ReadyPriorities
    <2>. HIDE DEF best
    <2>3. IsRow(V, L)
        BY <1>2, <1>3, <2>1, ViewsMakeRow DEF ShardsTrue
    <2>4. /\ V \in [1..L -> SUBSET Ids] /\ C \in [1..L -> Nat]
          /\ \A j \in 1..L : /\ V[j] = view(j)
                             /\ C[j] = shs[Order[j]].cursor[best]["all"]
        BY <1>3, <2>1, RowsOfShards
    <2>5. \A j \in 1..L : V[j] = view(j)
        BY <2>4
    <2>6. /\ members = Crowd(V)
          /\ \A j \in 1..(L + 1) : before(j) = Before(V, j)
        <3>1. members = Crowd(V)
            <4>1. DOMAIN V = 1..L
                BY <2>4
            <4>. HIDE DEF V, view
            <4>. QED BY <1>2, <2>5, <4>1 DEF Crowd
        <3>2. ASSUME NEW j \in 1..(L + 1)
              PROVE  UNION {view(i) : i \in 1..(j - 1)} = UNION {V[i] : i \in 1..(j - 1)}
            <4>1. \A i \in 1..(j - 1) : view(i) = V[i]
                BY <1>2, <2>5
            <4>. HIDE DEF V, view
            <4>. QED BY <4>1
        <3>. QED BY <3>1, <3>2 DEF Before
    <2>. HIDE DEF V, C, view, before, members
    <2>7. /\ Crowd(V) # {} /\ Cardinality(Crowd(V)) \in Nat
          /\ Cardinality(Crowd(V)) > 0 /\ Before(V, L + 1) = Cardinality(Crowd(V))
          /\ L + 1 \in 1..(L + 1)
        <3>1. Crowd(V) # {}
            BY <2>2, <2>4, <2>5 DEF Crowd
        <3>2. /\ Cardinality(Crowd(V)) \in Nat
              /\ Before(V, L + 1) = Cardinality(Crowd(V))
            BY <2>3, SlotsFollow
        <3>3. Crowd(V) \in SUBSET Ids
            BY <2>4 DEF Crowd
        <3>. QED BY <1>2, <3>1, <3>2, <3>3, IdSets
    <2>8. slot = Slot(V, mixedCursor)
        BY <2>6, <2>7 DEF Slot
    <2>9. slot \in 0..(Cardinality(Crowd(V)) - 1)
        <3>. DEFINE n == Cardinality(Crowd(V))
        <3>1. mixedCursor \in Nat
            <4>1. Cardinality(Ids) \in Nat
                BY IdSets
            <4>. QED BY <4>1 DEF ShardsTrue
        <3>2. slot = mixedCursor % n /\ n \in Nat /\ n > 0
            BY <2>7, <2>8 DEF Slot
        <3>. HIDE DEF slot, n
        <3>3. mixedCursor % n \in 0..(n - 1)
            BY <3>1, <3>2
        <3>. QED BY <3>2, <3>3 DEF n
    <2>. HIDE DEF slot
    <2>10. start \in 1..L /\ HasSlot(V, start, slot)
        <3>1. \A j \in 1..L : HasSlot(V, j, slot) <=>
                                  before(j) <= slot /\ slot < before(j) + weight(j)
            <4>1. \A j \in 1..L : j \in 1..(L + 1)
                BY <1>2
            <4>. QED BY <2>5, <2>6, <4>1 DEF HasSlot
        <3>2. PICK j \in 1..L : HasSlot(V, j, slot)
            BY <2>3, <2>9, SlotsAreOwned
        <3>. HIDE DEF weight
        <3>3. \E i \in DOMAIN Order : before(i) <= slot /\ slot < before(i) + weight(i)
            BY <1>2, <3>1, <3>2
        <3>4. start \in DOMAIN Order /\ before(start) <= slot
                  /\ slot < before(start) + weight(start)
            BY <3>3
        <3>. HIDE DEF start
        <3>. QED BY <1>2, <3>1, <3>4
    <2>. HIDE DEF start
    <2>11. k = start
        <3>1. V[start] # {}
            <4>1. slot \in Nat
                BY <2>7, <2>9
            <4>2. Apart(V, start, slot, start)
                BY <2>3, <2>10, <4>1, SlotIsOwned
            <4>. QED BY <4>2 DEF Apart
        <3>2. V[start] \subseteq members
            BY <2>4, <2>6, <2>10 DEF Crowd
        <3>3. start \in able
            BY <1>2, <1>6, <2>5, <2>10, <3>1, <3>2
        <3>4. start \in ahead /\ ahead \subseteq Nat /\ \A j \in ahead : start <= j
            BY <1>2, <2>10, <3>3
        <3>5. k = Min(ahead)
            BY <1>6, <3>4
        <3>. HIDE DEF k, ahead
        <3>6. Min(ahead) \in ahead /\ \A j \in ahead : Min(ahead) <= j
            BY <3>4 DEF Min
        <3>7. /\ Min(ahead) \in Nat /\ start \in Nat
              /\ start <= Min(ahead) /\ Min(ahead) <= start
            BY <3>4, <3>6
        <3>. QED BY <3>5, <3>7
    <2>12. V[start] \ excluded = V[start]
        <3>1. V[start] \subseteq members
            BY <2>4, <2>6, <2>10 DEF Crowd
        <3>. QED BY <1>6, <3>1
    <2>. DEFINE pick == PickRoundRobin(V[start], C[start], V[start])
    <2>13. /\ shards' = [shs EXCEPT ![Order[start]].cursor[best]["all"] = pick.cursor]
           /\ answer'.id = pick.id
        <3>. DEFINE p == Order[start]
                    chosen == PickAt(shs[p], best, "all", strategy, excluded)
        <3>1. /\ shards' = [shs EXCEPT ![p].cursor[best]["all"] = chosen.cursor]
              /\ answer' = Granted(chosen.id)
            BY <1>1, <1>6, <2>11 DEF Grant
        <3>2. chosen = PickRoundRobin(shs[p].ready[best]["all"],
                                      shs[p].cursor[best]["all"],
                                      shs[p].ready[best]["all"] \ excluded)
            BY <1>6 DEF PickAt
        <3>3. /\ shs[p].ready[best]["all"] = V[start]
              /\ shs[p].cursor[best]["all"] = C[start]
            BY <2>4, <2>10 DEF view
        <3>4. chosen = pick
            BY <2>12, <3>2, <3>3
        <3>. HIDE DEF chosen, pick
        <3>. QED BY <3>1, <3>4 DEF Granted
    <2>. HIDE DEF pick
    <2>14. mixedTurns' = Turn(RowOf(V), pick.id)
        <3>1. row = RowOf(V)
            BY <2>6 DEF RowOf
        <3>2. mixedTurns' = Turn(row, answer'.id)
            BY <1>1, <1>6
        <3>. QED BY <2>13, <3>1, <3>2
    <2>15. mixedCursor' = slot + 1
        BY <1>1, <1>6, <2>11
    <2>16. Rotates(shs, best, start)
        <3>1. slot \in Nat
            BY <2>7, <2>9
        <3>. QED BY <2>7, <2>8, <2>10, <2>13, <2>14, <2>15, <3>1
                 DEF Rotates, V, C, pick
    <2>. QED BY <2>1, <2>10, <2>16 DEF shs, from
<1>. QED BY <1>4, <1>5, <1>6

\* The row after a mixed request that was served.
LEMMA RotatesStep ==
    ASSUME ShardsTrue, MixedInv, NEW shs \in [Providers -> Shard],
           NEW from \in SUBSET Providers, LookedUp(shs, from),
           \A j \in 1..Len(Order) : Order[j] \in from,
           \A p \in Providers : Carries(shards[p], shs[p]),
           NEW q \in Priorities, NEW k \in 1..Len(Order), Rotates(shs, q, k)
    PROVE  MixedInv'
<1>. DEFINE L == Len(Order)
            V == ViewsOf(shs, q)
            C == CursorsOf(shs, q)
            pick == PickRoundRobin(V[k], C[k], V[k])
            D == [C EXCEPT ![k] = pick.cursor]
<1>1. /\ Crowd(V) # {} /\ Slot(V, mixedCursor) \in Nat
      /\ HasSlot(V, k, Slot(V, mixedCursor))
      /\ shards' = [shs EXCEPT ![Order[k]].cursor[q]["all"] = pick.cursor]
      /\ mixedCursor' = Slot(V, mixedCursor) + 1
      /\ mixedTurns' = Turn(RowOf(V), pick.id)
    BY Zenon DEF Rotates
<1>2. IsRow(V, L)
    BY ViewsMakeRow DEF ShardsTrue
<1>3. /\ V \in [1..L -> SUBSET Ids] /\ C \in [1..L -> Nat]
      /\ \A j \in 1..L : V[j] = shs[Order[j]].ready[q]["all"]
                         /\ C[j] = shs[Order[j]].cursor[q]["all"]
    BY RowsOfShards
<1>. HIDE DEF pick
<1>4. /\ \A p \in Providers : shards'[p].ready = shs[p].ready
      /\ \A j \in 1..L : shards'[Order[j]].cursor[q]["all"] = D[j]
    <2>. DEFINE p == Order[k]
    <2>1. p \in Providers /\ "all" \in Views
        BY OrderFacts DEF Views
    <2>2. /\ shs[p] \in Shard
          /\ shards' = [shs EXCEPT ![p] = [shs[p] EXCEPT !.cursor[q]["all"] = pick.cursor]]
        BY <1>1, <2>1
    <2>. DEFINE sh == [shs[p] EXCEPT !.cursor[q]["all"] = pick.cursor]
    <2>3. /\ sh.ready = shs[p].ready /\ sh.cursor[q]["all"] = pick.cursor
        BY <2>1, <2>2 DEF Shard
    <2>4. \A o \in Providers : shards'[o] = IF o = p THEN sh ELSE shs[o]
        BY <2>1, <2>2
    <2>. HIDE DEF sh
    <2>5. \A o \in Providers : shards'[o].ready = shs[o].ready
        BY <2>3, <2>4
    <2>6. ASSUME NEW j \in 1..L
          PROVE  shards'[Order[j]].cursor[q]["all"] = D[j]
        <3>1. Order[j] \in Providers /\ (Order[j] = p <=> j = k)
            BY OrderFacts
        <3>2. D[j] = IF j = k THEN pick.cursor ELSE C[j]
            BY <1>3
        <3>. QED BY <1>3, <2>3, <2>4, <3>1, <3>2
    <2>. QED BY <2>5, <2>6
<1>5. ViewsOf(shards', q) = V /\ CursorsOf(shards', q) = D
    <2>1. ViewsOf(shards', q) = V
        BY <1>4, OrderFacts DEF ViewsOf
    <2>2. D = [j \in 1..L |-> D[j]]
        BY <1>3
    <2>. HIDE DEF D
    <2>3. CursorsOf(shards', q) = D
        BY <1>4, <2>2 DEF CursorsOf
    <2>. QED BY <2>1, <2>3
<1>6. MixedRow(V, C, mixedCursor, RowOf(V))
    <2>1. CASE SameViews /\ DOMAIN mixedTurns = Crowd(V)
        <3>1. RowOf(V) = mixedTurns
            BY <2>1 DEF RowOf
        <3>2. mixedTurns # NoTurns({})
            BY <1>1, <2>1 DEF NoTurns
        <3>3. PICK r \in Priorities :
                  /\ Crowd(ViewsOf(shards, r)) # {}
                  /\ MixedRow(ViewsOf(shards, r), CursorsOf(shards, r), mixedCursor,
                              mixedTurns)
            BY <3>2 DEF MixedInv
        <3>4. DOMAIN mixedTurns = Crowd(ViewsOf(shards, r))
            BY <3>3 DEF MixedRow, EvenBy
        <3>5. \A p \in Providers : shs[p].ready = shards[p].ready
            BY <1>4, <2>1 DEF SameViews
        <3>6. ViewsOf(shards, q) = V
            BY <3>5, OrderFacts DEF ViewsOf
        <3>7. r = q
            BY <2>1, <3>3, <3>4, <3>6, CrowdTellsPriority
        <3>8. MixedRow(V, C, mixedCursor, mixedTurns)
            <4>1. MixedRow(ViewsOf(shards, q), CursorsOf(shards, q), mixedCursor,
                           mixedTurns)
                BY <3>3, <3>7
            <4>. QED BY <3>5, <4>1, RowCarries
        <3>. QED BY <3>1, <3>8
    <2>2. CASE ~(SameViews /\ DOMAIN mixedTurns = Crowd(V))
        <3>1. RowOf(V) = NoTurns(Crowd(V))
            BY <2>2 DEF RowOf
        <3>. QED BY <3>1, MixedStarts
    <2>. QED BY <2>1, <2>2
<1>7. MixedRow(V, D, Slot(V, mixedCursor) + 1, Turn(RowOf(V), pick.id))
    <2>. HIDE DEF V, C
    <2>. QED BY <1>1, <1>2, <1>3, <1>6, MixedTurn DEF pick
<1>8. /\ Crowd(ViewsOf(shards', q)) # {}
      /\ MixedRow(ViewsOf(shards', q), CursorsOf(shards', q), mixedCursor', mixedTurns')
    <2>. HIDE DEF V, C, D
    <2>. QED BY <1>1, <1>5, <1>7
<1>. QED BY <1>8 DEF MixedInv

\* A row survives a step that serves nobody, unless a view changes.
LEMMA RowStays ==
    ASSUME ShardsTrue, ShardsTrue', MixedInv, RowGoesOn, mixedCursor' = mixedCursor,
           \A p \in Providers : Carries(shards[p], shards'[p])
    PROVE  MixedInv'
<1>1. CASE mixedTurns' = NoTurns({})
    BY <1>1 DEF MixedInv
<1>2. CASE mixedTurns' # NoTurns({})
    <2>1. SameViews /\ mixedTurns' = mixedTurns
        BY <1>2 DEF RowGoesOn
    <2>2. PICK q \in Priorities :
              /\ Crowd(ViewsOf(shards, q)) # {}
              /\ MixedRow(ViewsOf(shards, q), CursorsOf(shards, q), mixedCursor,
                          mixedTurns)
        BY <1>2, <2>1 DEF MixedInv
    <2>3. shards' \in [Providers -> Shard]
        BY DEF ShardsTrue
    <2>4. /\ ViewsOf(shards', q) = ViewsOf(shards, q)
          /\ MixedRow(ViewsOf(shards', q), CursorsOf(shards', q), mixedCursor, mixedTurns)
        BY <2>1, <2>2, <2>3, RowCarries DEF SameViews
    <2>. QED BY <2>1, <2>2, <2>4 DEF MixedInv
<1>. QED BY <1>1, <1>2

\* Every step keeps the row in order.
LEMMA MixedInvStep ==
    ASSUME ShardsTrue, MixedInv, [SchedulerNext]_schedulerVars
    PROVE  MixedInv'
<1>1. ShardsTrue'
    BY SchedulerStep
<1>2. ASSUME shards' = shards, mixedCursor' = mixedCursor, mixedTurns' = mixedTurns
      PROVE  MixedInv'
    BY <1>2 DEF MixedInv
<1>3. ASSUME mixedTurns' = NoTurns({})
      PROVE  MixedInv'
    BY <1>3 DEF MixedInv
<1>4. ASSUME NEW i \in Ids, NEW d \in Deliverable, UpsertAuth(i, d)
      PROVE  MixedInv'
    <2>1. RowGoesOn /\ mixedCursor' = mixedCursor
        BY <1>4, Zenon DEF UpsertAuth
    <2>2. \A p \in Providers : Carries(shards[p], shards'[p])
        BY <1>4, UpsertAuthCarries
    <2>. QED BY <1>1, <2>1, <2>2, RowStays
<1>5. ASSUME NEW i \in Ids, RemoveAuth(i)
      PROVE  MixedInv'
    <2>1. RowGoesOn /\ mixedCursor' = mixedCursor
        BY <1>5, Zenon DEF RemoveAuth
    <2>2. \A p \in Providers : Carries(shards[p], shards'[p])
        BY <1>5, RemoveAuthCarries
    <2>. QED BY <1>1, <2>1, <2>2, RowStays
<1>6. ASSUME NEW p \in Providers, NEW excluded \in SUBSET Ids, NEW ws \in BOOLEAN,
             PickSingle(p, excluded, ws)
      PROVE  MixedInv'
    <2>1. mixedTurns' = NoTurns({})
        BY <1>6, Zenon DEF PickSingle
    <2>. QED BY <1>3, <2>1
<1>7. ASSUME NEW excluded \in SUBSET Ids, PickMixed(excluded)
      PROVE  MixedInv'
    <2>. DEFINE from == {Order[k] : k \in DOMAIN Order}
                shs == [p \in Providers |-> IF p \in from THEN EnsureModel(p)
                                                          ELSE shards[p]]
    <2>1. /\ from \in SUBSET Providers /\ \A j \in 1..Len(Order) : Order[j] \in from
        BY OrderFacts
    <2>2. shs \in [Providers -> Shard] /\ LookedUp(shs, from)
        BY <2>1, LookupsAreTrue
    <2>3. \A p \in Providers : Carries(shards[p], shs[p])
        BY EnsureCarries, StaysCarries DEF ShardsTrue
    <2>4. \/ shards' = shs /\ mixedCursor' = mixedCursor /\ RowGoesOn
          \/ mixedTurns' = NoTurns({})
          \/ \E q \in Priorities, k \in 1..Len(Order) : Rotates(shs, q, k)
        BY <1>7, MixedRotates
    <2>. HIDE DEF shs, from
    <2>5. CASE shards' = shs /\ mixedCursor' = mixedCursor /\ RowGoesOn
        BY <1>1, <2>3, <2>5, RowStays
    <2>6. CASE \E q \in Priorities, k \in 1..Len(Order) : Rotates(shs, q, k)
        BY <2>1, <2>2, <2>3, <2>6, RotatesStep
    <2>. QED BY <1>3, <2>4, <2>5, <2>6
<1>8. CASE Rebuild
    BY <1>3, <1>8 DEF Rebuild
<1>9. ASSUME NEW st \in Strategies, SetSelector(st)
      PROVE  MixedInv'
    BY <1>3, <1>9 DEF SetSelector
<1>10. CASE Pass \/ UNCHANGED schedulerVars
    BY <1>2, <1>10 DEF Pass, schedulerVars
<1>. QED BY <1>4, <1>5, <1>6, <1>7, <1>8, <1>9, <1>10, Zenon DEF SchedulerNext

\* The rotation over several providers is even: between the turns of one ready
\* credential of the best priority every other has had one, whichever provider
\* it is at, however many each provider has and whatever the cursors of the
\* single providers were when the row began.
THEOREM MixedStaysEven == SchedulerSpec => []MixedIsEven
<1>1. SchedulerInit => ShardsTrue /\ MixedInv
    <2>1. SchedulerInit => ShardsTrue
        BY SchedulerStarts
    <2>. QED BY <2>1 DEF SchedulerInit, MixedInv
<1>2. ShardsTrue /\ MixedInv /\ [SchedulerNext]_schedulerVars => ShardsTrue' /\ MixedInv'
    BY SchedulerStep, MixedInvStep
<1>3. MixedInv => MixedIsEven
    <2>. SUFFICES ASSUME MixedInv, NEW i \in DOMAIN mixedTurns,
                         NEW j \in DOMAIN mixedTurns
                  PROVE  mixedTurns[i] <= mixedTurns[j] + 1
        BY DEF MixedIsEven
    <2>1. mixedTurns # NoTurns({})
        BY DEF NoTurns
    <2>2. \E M : mixedTurns \in [M -> {0, 1}]
        BY <2>1 DEF MixedInv, MixedRow, EvenBy
    <2>. QED BY <2>2
<1>. QED BY <1>1, <1>2, <1>3, PTL DEF SchedulerSpec

=============================================================================
