------------------------------ MODULE Scheduler -----------------------------
(***************************************************************************)
(* sdk/cliproxy/auth/scheduler.go for the requests of one model: the shard *)
(* of that model at each provider, with its entries, the ready views and   *)
(* the waiting list that are rebuilt only when an entry changes, the       *)
(* cursors of the rotation, and the selection over one provider or several.*)
(* Every operation holds s.mu, so each is one action.  The records come    *)
(* from the Manager (Delivery.tla says in which order).                    *)
(***************************************************************************)
EXTENDS Integers, FiniteSets, FiniteSetsExt, Sequences

CONSTANTS
    Ids, Providers, Priorities,
    Order,        \* the providers of a mixed request, in its order
    Deliverable,  \* the records that occur, with waits instead of instants
    Strategies,   \* the built-in strategies that are configured in turn
    Rebuilding,   \* whether refusals of other requests rebuild the scheduler
    MaxTime       \* bound: the clock stops here

ASSUME SchedulerAssumption ==
    /\ Ids \subseteq Nat \ {0} /\ IsFiniteSet(Ids)
    /\ Priorities \subseteq Int /\ IsFiniteSet(Priorities)
    \* normalizeProviderKeys drops what is named twice.
    /\ Order \in Seq(Providers)
    /\ \A j, k \in DOMAIN Order : Order[j] = Order[k] => j = k
    /\ Deliverable # {}
    /\ Deliverable \subseteq
          [provider : Providers, priority : Priorities, websocket : BOOLEAN,
           serves : BOOLEAN, wait : Nat, window : Nat]
    /\ Strategies \subseteq {"round_robin", "fill_first"}
    /\ Rebuilding \in BOOLEAN
    /\ MaxTime \in Nat \ {0}

VARIABLES
    now, auths, answer,  \* as in CredentialPool; auths is also p.auths
    shards,              \* the model's shard at each provider
    mixedCursor,         \* s.mixedCursors for Order and the model
    strategy,            \* s.strategy
    turns,               \* history: turns the members of each view took since
                         \* they were last others
    mixedTurns           \* history: turns in a row of mixed requests

schedulerVars == <<now, auths, answer, shards, mixedCursor, strategy, turns,
                   mixedTurns>>

Pool == INSTANCE CredentialPool

Never == 0

Views == {"all", "ws"}

EmptyViews == [v \in Views |-> {}]

NoEntry == [state |-> "absent", next |-> Never]

\* stage "none": the provider has no state; "lazy": it has, without a shard.
NoShard ==
    [stage |-> "none", entries |-> [i \in Ids |-> NoEntry],
     ready |-> [q \in Priorities |-> EmptyViews], waiting |-> {},
     cursor |-> [q \in Priorities |-> [v \in Views |-> 0]]]

Entry == [state : {"absent", "ready", "cooldown", "blocked"}, next : Nat]

Shard ==
    [stage : {"none", "lazy", "built"}, entries : [Ids -> Entry],
     ready : [Priorities -> [Views -> SUBSET Ids]], waiting : SUBSET Ids,
     cursor : [Priorities -> [Views -> Nat]]]

SchedulerTypeOK ==
    /\ now \in 1..MaxTime
    /\ auths \in [Ids -> Pool!Record]
    /\ shards \in [Providers -> Shard]
    /\ \A p \in Providers, q \in Priorities, v \in Views :
           shards[p].cursor[q][v] <= Cardinality(shards[p].ready[q][v])
    /\ mixedCursor \in 0..Cardinality(Ids)

-----------------------------------------------------------------------------
(* The indexes of a shard.                                                 *)

\* isAuthBlockedForModel, as an entry keeps it.
Evaluate(a, t) ==
    IF a.retryAt <= t THEN [state |-> "ready", next |-> Never]
    ELSE [state |-> IF a.exceeded THEN "cooldown" ELSE "blocked",
          next |-> Pool!ReportedRetry(a, t)]

\* normalizeCursor
Normalize(cursor, size) == IF size = 0 THEN 0 ELSE cursor % size

\* The ready views and the waiting list of entries made of recs.
ReadyViews(entries, recs) ==
    [q \in Priorities |-> [v \in Views |->
        {i \in Ids : /\ entries[i].state = "ready"
                     /\ recs[i].priority = q
                     /\ v = "ws" => recs[i].websocket}]]

WaitingList(entries) ==
    {i \in Ids : entries[i].state \in {"cooldown", "blocked"}}

\* Mutant: the cursors are not carried over.
RebuildFromStart(sh, recs) ==
    [sh EXCEPT
           !.ready = ReadyViews(sh.entries, recs),
           !.waiting = WaitingList(sh.entries),
           !.cursor = [q \in Priorities |-> [v \in Views |-> 0]]]

\* rebuildIndexesLocked: the cursors of a priority outlive the rebuild while
\* it has ready entries before and after.
RebuildIndexes(sh, recs) ==
    LET ready == ReadyViews(sh.entries, recs)
    IN  [sh EXCEPT
           !.ready = ready,
           !.waiting = WaitingList(sh.entries),
           !.cursor = [q \in Priorities |-> [v \in Views |->
               Normalize(sh.cursor[q][v], Cardinality(ready[q][v]))]]]

\* Mutant: only a change of the state rebuilds the indexes.
UpsertOnState(sh, i, old, new) ==
    LET e == Evaluate(new[i], now)
        s == [sh EXCEPT !.entries[i] = e]
    IN  IF e = sh.entries[i] THEN s ELSE RebuildIndexes(s, new)

\* upsertEntryLocked: the indexes stay when nothing they depend on changed.
UpsertEntry(sh, i, old, new) ==
    LET e == Evaluate(new[i], now)
        s == [sh EXCEPT !.entries[i] = e]
    IN  IF /\ e = sh.entries[i]
           /\ old[i].priority = new[i].priority
           /\ old[i].websocket = new[i].websocket
        THEN s ELSE RebuildIndexes(s, new)

\* removeEntryLocked
RemoveEntry(sh, i, recs) ==
    IF sh.entries[i] = NoEntry THEN sh
    ELSE RebuildIndexes([sh EXCEPT !.entries[i] = NoEntry], recs)

\* Mutant: a waiting entry is never looked at again.
NeverPromote(sh) == sh

\* promoteExpiredLocked
Promote(sh) ==
    LET due == {i \in sh.waiting : /\ sh.entries[i].next # Never
                                   /\ sh.entries[i].next <= now}
    IN  IF due = {} THEN sh
        ELSE RebuildIndexes([sh EXCEPT !.entries = [i \in Ids |->
                 IF i \in due THEN Evaluate(auths[i], now) ELSE @[i]]], auths)

\* ensureModelLocked: the shard is built at the first request for the model.
EnsureModel(p) ==
    LET sh == shards[p]
        built == [sh EXCEPT !.stage = "built", !.entries = [i \in Ids |->
            IF ~auths[i].absent /\ auths[i].provider = p /\ auths[i].serves
            THEN Evaluate(auths[i], now) ELSE NoEntry]]
    IN  CASE sh.stage = "none" -> sh
          [] sh.stage = "lazy" -> RebuildIndexes(built, auths)
          [] OTHER -> Promote(sh)

-----------------------------------------------------------------------------
(* The rotation.                                                           *)

\* An entry's place in the ID order of a view.
Place(view, i) == Cardinality({j \in view : j < i})

\* Mutant: the cursor stays on the entry that was picked.
StickyPick(view, cursor, eligible) ==
    LET start == Normalize(cursor, Cardinality(view))
        ahead == {i \in eligible : Place(view, i) >= start}
        i     == Min(IF ahead # {} THEN ahead ELSE eligible)
    IN  [id |-> i, cursor |-> Place(view, i)]

\* pickRoundRobin: the first eligible entry from the cursor on, cyclically.
PickRoundRobin(view, cursor, eligible) ==
    LET start == Normalize(cursor, Cardinality(view))
        ahead == {i \in eligible : Place(view, i) >= start}
        i     == Min(IF ahead # {} THEN ahead ELSE eligible)
    IN  [id |-> i, cursor |-> Place(view, i) + 1]

\* highestReadyPriorityLocked: the priorities with an eligible entry, first
\* those with one that supports websockets if that is preferred.
ReadyPriorities(sh, v, excluded) ==
    {q \in Priorities : sh.ready[q][v] \ excluded # {}}

PreferredView(sh, websocket, excluded) ==
    IF websocket /\ ReadyPriorities(sh, "ws", excluded) # {} THEN "ws" ELSE "all"

\* pickReadyAtPriorityLocked
PickAt(sh, q, v, st, excluded) ==
    LET view == sh.ready[q][v]
    IN  IF st = "fill_first"
        THEN [id |-> Min(view \ excluded), cursor |-> sh.cursor[q][v]]
        ELSE PickRoundRobin(view, sh.cursor[q][v], view \ excluded)

\* availabilitySummaryLocked and the error made of it, over several shards.
Refusal(shs, excluded) ==
    LET entry(x) == shs[x[1]].entries[x[2]]
        entries == {x \in (DOMAIN shs) \X (Ids \ excluded) : entry(x) # NoEntry}
    IN  CASE entries = {} -> [Pool!NoAnswer EXCEPT !.kind = "not_found"]
          [] entries # {} /\ (\A x \in entries : entry(x).state = "cooldown") ->
               [kind |-> "cooldown", id |-> 0,
                at |-> Min({entry(x).next : x \in entries})]
          [] OTHER -> [Pool!NoAnswer EXCEPT !.kind = "unavailable"]

Granted(i) == [kind |-> "auth", id |-> i, at |-> Never]

-----------------------------------------------------------------------------
(* History.  A view's turns start over when its members change or when a   *)
(* request excludes some of them.                                          *)

NoTurns(view) == [i \in view |-> 0]

\* One more turn for i, less the turns that all members have had.
Turn(t, i) ==
    LET u == [t EXCEPT ![i] = @ + 1]
        least == Min({u[j] : j \in DOMAIN u})
    IN  [j \in DOMAIN u |-> u[j] - least]

\* The turns after a step in which pick(p, q, v, t) is what becomes of t.
TurnsAfter(pick(_, _, _, _)) ==
    turns' = [p \in Providers |-> [q \in Priorities |-> [v \in Views |->
        LET view == shards'[p].ready[q][v]
            t    == turns[p][q][v]
        IN  IF shards'[p].stage # "built" THEN t
            ELSE pick(p, q, v, IF DOMAIN t = view THEN t ELSE NoTurns(view))]]]

NotTaken == TurnsAfter(LAMBDA p, q, v, t : t)

\* The row of mixed requests ends when a view changes.
SameViews == \A p \in Providers : shards'[p].ready = shards[p].ready

RowGoesOn == mixedTurns' = IF SameViews THEN mixedTurns ELSE NoTurns({})

Taken(source, i, excluded) ==
    TurnsAfter(LAMBDA p, q, v, t :
        CASE <<p, q, v>> # source          -> t
          [] <<p, q, v>> = source /\ DOMAIN t \cap excluded # {} ->
                NoTurns(DOMAIN t)
          [] OTHER                         -> Turn(t, i))

-----------------------------------------------------------------------------
(* Deliveries and configuration.                                           *)

\* A record that is delivered now.
Dated(d) ==
    [absent |-> FALSE, provider |-> d.provider, priority |-> d.priority,
     websocket |-> d.websocket, serves |-> d.serves,
     exceeded |-> d.window > 0,
     retryAt |-> IF d.wait > 0 THEN now + d.wait ELSE Never,
     recoverAt |-> IF d.window > 0 THEN now + d.window ELSE Never]

\* The provider that a credential leaves.
Leaves(i, p, d) ==
    ~auths[i].absent /\ p = auths[i].provider /\ p # d.provider

\* upsertAuth: an entry moves with its provider.
UpsertAuth(i, d) ==
    LET new == [auths EXCEPT ![i] = Dated(d)]
        shard(p) ==
            LET sh == shards[p]
            IN  CASE p = d.provider /\ sh.stage = "none" ->
                       [sh EXCEPT !.stage = "lazy"]
                  [] p = d.provider /\ sh.stage = "built" ->
                       IF d.serves THEN UpsertEntry(sh, i, auths, new)
                                   ELSE RemoveEntry(sh, i, new)
                  [] Leaves(i, p, d) -> RemoveEntry(sh, i, new)
                  [] OTHER -> sh
    IN  /\ auths' = new
        /\ shards' = [p \in Providers |-> shard(p)]
        /\ answer' = Pool!NoAnswer
        /\ NotTaken
        /\ RowGoesOn
        /\ UNCHANGED <<now, mixedCursor, strategy>>

\* removeAuth, and upsertAuth with a disabled record.
RemoveAuth(i) ==
    LET gone == [auths EXCEPT ![i].absent = TRUE]
    IN  /\ ~auths[i].absent
        /\ auths' = gone
        /\ shards' = [shards EXCEPT ![auths[i].provider] =
                         RemoveEntry(@, i, gone)]
        /\ answer' = Pool!NoAnswer
        /\ NotTaken
        /\ RowGoesOn
        /\ UNCHANGED <<now, mixedCursor, strategy>>

\* rebuild: every shard is forgotten, with its cursors.  pickNext does it
\* for any request that finds no credential, whatever its model and provider.
Rebuild ==
    /\ Rebuilding
    /\ shards' = [p \in Providers |-> [NoShard EXCEPT !.stage =
           IF \E i \in Ids : ~auths[i].absent /\ auths[i].provider = p
           THEN "lazy" ELSE "none"]]
    /\ mixedCursor' = 0
    /\ NotTaken
    /\ mixedTurns' = NoTurns({})
    /\ UNCHANGED <<now, auths, answer, strategy>>

\* setSelector: the shards keep their cursors.
SetSelector(st) ==
    /\ st # strategy
    /\ strategy' = st
    /\ mixedCursor' = 0
    /\ mixedTurns' = NoTurns({})
    /\ UNCHANGED <<now, auths, answer, shards, turns>>

Pass ==
    /\ now < MaxTime
    /\ now' = now + 1
    /\ answer' = Pool!NoAnswer
    /\ UNCHANGED <<auths, shards, mixedCursor, strategy, turns, mixedTurns>>

-----------------------------------------------------------------------------
(* Requests.                                                               *)

\* What a pick leaves behind: the cursor, the answer and the history.
Grant(shs, p, q, v, st, excluded) ==
    LET pick == PickAt(shs[p], q, v, st, excluded)
    IN  /\ shards' = [shs EXCEPT ![p].cursor[q][v] = pick.cursor]
        /\ answer' = Granted(pick.id)
        /\ IF st = "fill_first" THEN NotTaken
                                ELSE Taken(<<p, q, v>>, pick.id, excluded)

Deny(shs, from, excluded) ==
    /\ shards' = shs
    /\ answer' = Refusal([p \in from |-> shs[p]], excluded)
    /\ NotTaken

\* pickSingle; excluded are the credentials that were tried and, for a
\* request pinned to one credential, all others.
PickSingle(p, excluded, websocket) ==
    LET shs == [shards EXCEPT ![p] = EnsureModel(p)]
        v   == PreferredView(shs[p], websocket, excluded)
        qs  == ReadyPriorities(shs[p], v, excluded)
    IN  /\ IF qs = {} THEN Deny(shs, {p}, excluded)
                      ELSE Grant(shs, p, Max(qs), v, strategy, excluded)
        /\ mixedTurns' = NoTurns({})
        /\ UNCHANGED <<now, auths, mixedCursor, strategy>>

\* pickMixed over the providers of Order.  Under round-robin the cursor walks
\* over as many slots per provider as it has ready credentials of the best
\* priority; a provider whose credentials were all tried is passed over.
PickMixed(excluded) ==
    LET from == {Order[k] : k \in DOMAIN Order}
        shs  == [p \in Providers |-> IF p \in from THEN EnsureModel(p)
                                                   ELSE shards[p]]
        qs   == UNION {ReadyPriorities(shs[p], "all", excluded) : p \in from}
        best == Max(qs)
        view(k)   == shs[Order[k]].ready[best]["all"]
        weight(k) == Cardinality(view(k))
        \* The views of two providers have nobody in common.
        before(k) == Cardinality(UNION {view(j) : j \in 1..(k - 1)})
        able  == {k \in DOMAIN Order : view(k) \ excluded # {}}
        slot  == mixedCursor % before(Len(Order) + 1)
        start == CHOOSE k \in DOMAIN Order :
                     before(k) <= slot /\ slot < before(k) + weight(k)
        ahead == {k \in able : k >= start}
        k     == IF strategy = "fill_first" THEN Min(able)
                 ELSE Min(IF ahead # {} THEN ahead ELSE able)
        members == UNION {view(j) : j \in DOMAIN Order}
        row  == IF SameViews /\ DOMAIN mixedTurns = members THEN mixedTurns
                                                           ELSE NoTurns(members)
    IN  /\ IF qs = {} THEN /\ Deny(shs, from, excluded)
                           /\ RowGoesOn
                           /\ UNCHANGED mixedCursor
           ELSE /\ Grant(shs, Order[k], best, "all", strategy, excluded)
                /\ mixedCursor' = IF strategy = "fill_first" THEN mixedCursor
                                  ELSE (IF k = start THEN slot ELSE before(k)) + 1
                /\ mixedTurns' =
                     IF strategy = "fill_first" \/ members \cap excluded # {}
                     THEN NoTurns({}) ELSE Turn(row, answer'.id)
        /\ UNCHANGED <<now, auths, strategy>>

-----------------------------------------------------------------------------

SchedulerInit ==
    /\ now = 1
    /\ auths = [i \in Ids |->
          [Dated(CHOOSE d \in Deliverable : TRUE) EXCEPT !.absent = TRUE]]
    /\ answer = Pool!NoAnswer
    /\ shards = [p \in Providers |-> NoShard]
    /\ mixedCursor = 0
    /\ strategy \in Strategies
    /\ turns = [p \in Providers |-> [q \in Priorities |->
                   [v \in Views |-> NoTurns({})]]]
    /\ mixedTurns = NoTurns({})

SchedulerNext ==
    \/ \E i \in Ids, d \in Deliverable : UpsertAuth(i, d)
    \/ \E i \in Ids : RemoveAuth(i)
    \/ Rebuild
    \/ \E st \in Strategies : SetSelector(st)
    \/ \E p \in Providers, excluded \in SUBSET Ids, ws \in BOOLEAN :
           PickSingle(p, excluded, ws)
    \/ Len(Order) > 1 /\ \E excluded \in SUBSET Ids : PickMixed(excluded)
    \/ Pass

SchedulerSpec == SchedulerInit /\ [][SchedulerNext]_schedulerVars

-----------------------------------------------------------------------------
(* Properties                                                              *)

\* The scheduler implements the pool: whatever is cached and whenever it was
\* last rebuilt, a request is served by a credential of the best rank or
\* refused for the reason and until the instant that the records give.
ImplementsPool == Pool!PoolSpec

\* The indexes are those of the entries at all times, although they are
\* rebuilt only by the calls that find a change, and the entries are those
\* of the credentials that serve the model.
IndexesAgree ==
    /\ SchedulerTypeOK
    /\ \A p \in Providers :
           LET sh == shards[p]
           IN  sh.stage = "built" =>
                 /\ [RebuildIndexes(sh, auths) EXCEPT !.cursor = sh.cursor] = sh
                 /\ {i \in Ids : sh.entries[i] # NoEntry} =
                       {i \in Ids : /\ ~auths[i].absent /\ auths[i].serves
                                    /\ auths[i].provider = p}

\* While the members of a view stay the same and requests exclude none of
\* them, no member is served twice more than another, whatever happens to
\* other views, to waiting credentials and to the other strategy meanwhile
\* (README.md: "Multiple accounts with round-robin load balancing").
RotationIsEven ==
    \A p \in Providers, q \in Priorities, v \in Views :
        LET t == turns[p][q][v]
        IN  \A i, j \in DOMAIN t : t[i] <= t[j] + 1

\* A row of mixed requests is spread evenly over all ready credentials of the
\* best priority, however many of them each provider has.
MixedIsEven ==
    \A i, j \in DOMAIN mixedTurns : mixedTurns[i] <= mixedTurns[j] + 1

=============================================================================
