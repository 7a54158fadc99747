----------------------------- MODULE UsageQueue -----------------------------
(***************************************************************************)
(* The way of a usage record: published to usage.Manager, dispatched by    *)
(* its only worker to the queue plugin, and from there either broadcast to *)
(* the subscribers of redisqueue or kept for those who pop (LPOP, the      *)
(* management API, the forwarder to the home server).  Records of the data *)
(* plane enter the queue through the bridge.                               *)
(*                                                                         *)
(* q.mu and m.mu are released between the steps below; a step is what one  *)
(* goroutine does while it holds a lock, or one read of an atomic flag.    *)
(***************************************************************************)
EXTENDS Integers, FiniteSets, FiniteSetsExt, Sequences, Functions

CONSTANTS
    MaxRecords,  \* bound: records that are published
    Publishers,  \* goroutines that call PublishRecord
    Bridged,     \* the records that come from the data plane
    Subscribers, \* connections that may subscribe, each once
    Buffer,      \* usageSubscriberBuffer
    Retention,   \* retentionSeconds
    CompactAt,   \* the 1024 of maybeCompactLocked
    Batch,       \* how many records one pop asks for
    MaxSwitches, \* bound: how often something is switched off
    MaxHanded,   \* bound: pushes fail until so many records were popped
    MaxTime      \* bound: the clock stops here

ASSUME UsageAssumption ==
    /\ {MaxRecords, Buffer, CompactAt, Batch, MaxTime} \subseteq Nat \ {0}
    /\ {Retention, MaxSwitches, MaxHanded} \subseteq Nat
    /\ Bridged \subseteq 1..MaxRecords

VARIABLES
    now,
    homeMode,    \* cfg.Home.Enabled: a forwarder, and neither subscriptions
                 \* nor a management API
    published,   \* how many records were published so far
    pending,     \* usage.Manager.queue
    closed,      \* usage.Manager.closed
    dispatcher,  \* usage.Manager.run
    calls,       \* [Publishers -> ...]: PublishRecord, between its steps
    stopper,     \* StopDefault, between its steps
    enabled,     \* redisqueue.enabled
    statsOn,     \* usageStatisticsEnabled
    toggler,     \* SetEnabled(false), between its steps
    closing,     \* clear: the channels it still has to close
    q,           \* queue.items and queue.head
    members,     \* the keys of queue.subscribers
    chans,       \* [Subscribers -> "none" | "open" | "closed"]
    leaving,     \* unsubscribe calls that have yet to close their channel
    box,         \* [Subscribers -> Seq]: what a channel holds
    jobs,        \* [Enqueuers -> ...]: Enqueue, between its steps
    popper,      \* a client's PopOldest, between its steps
    batch,       \* the records the forwarder popped and has not pushed
    forwarder,   \* startHomeUsageForwarder, between its steps
    handed,      \* history: everything PopOldest returned
    sent,        \* history: records that reached the channel of a subscriber
    popped,      \* history: records a client popped
    home,        \* history: records the home server has
    doubtful,    \* history: records pushed with an error although they arrived
    switchedOff, \* history: how often the queue or the statistics were
                 \* switched off
    evictedAll   \* history: a record found every subscriber's channel full

managerVars == <<published, pending, closed, dispatcher, calls, stopper>>
switchVars  == <<homeMode, enabled, statsOn, toggler, switchedOff>>
streamVars  == <<members, chans, leaving, closing, box>>
homeVars    == <<batch, forwarder, home, doubtful>>
vars == <<now, managerVars, switchVars, q, streamVars, jobs, popper, homeVars,
          handed, sent, popped, evictedAll>>

Records   == 1..MaxRecords
Enqueuers == {"dispatcher", "bridge", "forwarder"}
Idle      == [at |-> "idle", rec |-> 0]
Refresh   == 0   \* the control payloads, support_refresh and refresh
NoItems   == [items |-> <<>>, head |-> 0]

UsageInit ==
    /\ now = 1 /\ published = 0 /\ pending = <<>> /\ closed = FALSE
    /\ dispatcher = "unstarted" /\ stopper = "running"
    /\ calls = [p \in Publishers |-> "idle"]
    /\ homeMode \in BOOLEAN
    /\ enabled = TRUE /\ statsOn = TRUE /\ toggler = "idle" /\ closing = {}
    /\ q = NoItems /\ members = {} /\ leaving = {}
    /\ chans = [s \in Subscribers |-> "none"]
    /\ box = [s \in Subscribers |-> <<>>]
    /\ jobs = [e \in Enqueuers |-> Idle]
    /\ popper = "idle" /\ batch = <<>> /\ forwarder = "idle"
    /\ handed = <<>> /\ sent = {} /\ popped = {} /\ home = {} /\ doubtful = {}
    /\ switchedOff = 0 /\ evictedAll = FALSE

-----------------------------------------------------------------------------
(* usage.Manager                                                           *)

\* Publish, under m.mu.  The first call starts the worker.
Publish(p) ==
    /\ calls[p] = "idle" /\ published + 1 \in Records \ Bridged
    /\ published' = published + 1
    /\ dispatcher' = IF dispatcher = "unstarted" THEN "looping" ELSE dispatcher
    /\ IF closed THEN UNCHANGED <<pending, calls>>
       ELSE /\ pending' = Append(pending, published + 1)
            /\ calls' = [calls EXCEPT ![p] = "appended"]
    /\ UNCHANGED <<now, closed, stopper, switchVars, q, streamVars, jobs,
                   popper, homeVars, handed, sent, popped, evictedAll>>

Woken == IF dispatcher = "waiting" THEN "looping" ELSE dispatcher

\* Mutant: the publisher does not signal.
NoSignal(p) ==
    /\ calls[p] = "appended"
    /\ calls' = [calls EXCEPT ![p] = "idle"]
    /\ UNCHANGED <<now, published, pending, closed, dispatcher, stopper,
                   switchVars, q, streamVars, jobs, popper, homeVars, handed,
                   sent, popped, evictedAll>>

\* ... and m.cond.Signal() after it.
SignalWorker(p) ==
    /\ calls[p] = "appended"
    /\ calls' = [calls EXCEPT ![p] = "idle"]
    /\ dispatcher' = Woken
    /\ UNCHANGED <<now, published, pending, closed, stopper, switchVars, q,
                   streamVars, jobs, popper, homeVars, handed, sent, popped,
                   evictedAll>>

\* Stop: closed under m.mu, m.cond.Broadcast() after it.
Stop ==
    /\ stopper = "running"
    /\ stopper' = "closed" /\ closed' = TRUE
    /\ UNCHANGED <<now, published, pending, dispatcher, calls, switchVars, q,
                   streamVars, jobs, popper, homeVars, handed, sent, popped,
                   evictedAll>>

WakeWorker ==
    /\ stopper = "closed"
    /\ stopper' = "stopped" /\ dispatcher' = Woken
    /\ UNCHANGED <<now, published, pending, closed, calls, switchVars, q,
                   streamVars, jobs, popper, homeVars, handed, sent, popped,
                   evictedAll>>

\* Mutant: a closed manager does not drain its queue.
TakeUnlessClosed ==
    /\ dispatcher = "looping" /\ jobs["dispatcher"] = Idle
    /\ IF pending # <<>> /\ ~closed
       THEN /\ pending' = Tail(pending)
            /\ jobs' = [jobs EXCEPT !["dispatcher"] =
                           [at |-> "handling", rec |-> Head(pending)]]
            /\ UNCHANGED dispatcher
       ELSE /\ dispatcher' = IF closed THEN "returned" ELSE "waiting"
            /\ UNCHANGED <<pending, jobs>>
    /\ UNCHANGED <<now, published, closed, calls, stopper, switchVars, q,
                   streamVars, popper, homeVars, handed, sent, popped,
                   evictedAll>>

\* run: one turn of its loop.  cond.Wait parks the worker and releases m.mu
\* in one step.
TakeRecord ==
    /\ dispatcher = "looping" /\ jobs["dispatcher"] = Idle
    /\ IF pending # <<>>
       THEN /\ pending' = Tail(pending)
            /\ jobs' = [jobs EXCEPT !["dispatcher"] =
                           [at |-> "handling", rec |-> Head(pending)]]
            /\ UNCHANGED dispatcher
       ELSE /\ dispatcher' = IF closed THEN "returned" ELSE "waiting"
            /\ UNCHANGED <<pending, jobs>>
    /\ UNCHANGED <<now, published, closed, calls, stopper, switchVars, q,
                   streamVars, popper, homeVars, handed, sent, popped,
                   evictedAll>>

\* usageQueuePlugin.HandleUsage, up to the first test in Enqueue.
HandleUsage ==
    /\ jobs["dispatcher"].at = "handling"
    /\ jobs' = [jobs EXCEPT !["dispatcher"] =
                   IF enabled /\ statsOn THEN [@ EXCEPT !.at = "admitted"]
                                         ELSE Idle]
    /\ UNCHANGED <<now, managerVars, switchVars, q, streamVars, popper,
                   homeVars, handed, sent, popped, evictedAll>>

\* A record of the data plane: subscribeDataPlaneUsageQueue.
BridgeRecord ==
    /\ published + 1 \in Bridged /\ jobs["bridge"] = Idle
    /\ published' = published + 1
    /\ jobs' = IF enabled
               THEN [jobs EXCEPT !["bridge"] = [at |-> "admitted",
                                   rec |-> published + 1]]
               ELSE jobs
    /\ UNCHANGED <<now, pending, closed, dispatcher, calls, stopper,
                   switchVars, q, streamVars, popper, homeVars, handed, sent,
                   popped, evictedAll>>

-----------------------------------------------------------------------------
(* redisqueue: Enqueue and PopOldest                                       *)

Full(s) == Len(box[s]) >= Buffer

\* publishToSubscribers: a subscriber that does not keep up is dropped.
Broadcast(payload) ==
    LET slow == {s \in members : Full(s)}
    IN  /\ box' = [s \in Subscribers |-> IF s \in members \ slow
                                         THEN Append(box[s], payload)
                                         ELSE box[s]]
        /\ members' = members \ slow
        /\ chans' = [s \in Subscribers |-> IF s \in slow THEN "closed"
                                                         ELSE chans[s]]
        /\ UNCHANGED <<leaving, closing>>

\* Mutant: a record that was broadcast is stored all the same.
OfferAndStore(e) ==
    /\ jobs[e].at = "admitted"
    /\ jobs' = [jobs EXCEPT ![e].at = "unclaimed"]
    /\ IF members = {}
       THEN UNCHANGED <<streamVars, sent, evictedAll>>
       ELSE /\ Broadcast(jobs[e].rec)
            /\ IF \A s \in members : Full(s)
               THEN evictedAll' = TRUE /\ UNCHANGED sent
               ELSE sent' = sent \cup {jobs[e].rec} /\ UNCHANGED evictedAll
    /\ UNCHANGED <<now, managerVars, switchVars, q, popper, homeVars, handed,
                   popped>>

\* Enqueue offers the record to the subscribers first ...
Offer(e) ==
    /\ jobs[e].at = "admitted"
    /\ IF members = {}
       THEN /\ jobs' = [jobs EXCEPT ![e].at = "unclaimed"]
            /\ UNCHANGED <<streamVars, sent, evictedAll>>
       ELSE /\ jobs' = [jobs EXCEPT ![e] = Idle]
            /\ Broadcast(jobs[e].rec)
            /\ IF \A s \in members : Full(s)
               THEN evictedAll' = TRUE /\ UNCHANGED sent
               ELSE sent' = sent \cup {jobs[e].rec} /\ UNCHANGED evictedAll
    /\ UNCHANGED <<now, managerVars, switchVars, q, popper, homeVars, handed,
                   popped>>

\* pruneLocked: stops at the first item that has not expired.
Pruned(x) ==
    LET kept == {i \in x.head + 1..Len(x.items) :
                    x.items[i].at >= now - Retention}
    IN  IF x.head >= Len(x.items) THEN NoItems
        ELSE [x EXCEPT !.head = IF kept = {} THEN Len(x.items)
                                             ELSE Min(kept) - 1]

\* Mutant: the compaction copies from the head's successor.
CompactTooFar(x) ==
    IF x.head = 0 THEN x
    ELSE IF x.head >= Len(x.items) THEN NoItems
    ELSE IF x.head < CompactAt /\ x.head * 2 < Len(x.items) THEN x
    ELSE [items |-> SubSeq(x.items, x.head + 2, Len(x.items)), head |-> 0]

\* maybeCompactLocked
Compact(x) ==
    IF x.head = 0 THEN x
    ELSE IF x.head >= Len(x.items) THEN NoItems
    ELSE IF x.head < CompactAt /\ x.head * 2 < Len(x.items) THEN x
    ELSE [items |-> SubSeq(x.items, x.head + 1, Len(x.items)), head |-> 0]

\* ... and stores it when there are none.  The clock does not move between
\* time.Now() and q.mu.
Store(e) ==
    /\ jobs[e].at = "unclaimed"
    /\ q' = Compact([Pruned(q) EXCEPT
                !.items = Append(@, [rec |-> jobs[e].rec, at |-> now])])
    /\ jobs' = [jobs EXCEPT ![e] = Idle]
    /\ UNCHANGED <<now, managerVars, switchVars, streamVars, popper, homeVars,
                   handed, sent, popped, evictedAll>>

RecordsOf(items) == [i \in DOMAIN items |-> items[i].rec]

\* popOldest(count): what it returns and what it leaves.
PopResult(count) ==
    LET p == Pruned(q)
        k == Min({count, Len(p.items) - p.head})
    IN  IF p.head >= Len(p.items) THEN [out |-> <<>>, rest |-> NoItems]
        ELSE [out  |-> RecordsOf(SubSeq(p.items, p.head + 1, p.head + k)),
              rest |-> Compact([p EXCEPT !.head = @ + k])]

\* A client pops: PopOldest tests the flag first.
BeginPop ==
    /\ ~homeMode /\ popper = "idle" /\ enabled
    /\ popper' = "popping"
    /\ UNCHANGED <<now, managerVars, switchVars, q, streamVars, jobs,
                   homeVars, handed, sent, popped, evictedAll>>

Pop ==
    /\ popper = "popping"
    /\ \E count \in 1..Batch :
          LET res == PopResult(count)
          IN  /\ q' = res.rest
              /\ handed' = handed \o res.out
              /\ popped' = popped \cup Range(res.out)
    /\ popper' = "idle"
    /\ UNCHANGED <<now, managerVars, switchVars, streamVars, jobs, homeVars,
                   sent, evictedAll>>

-----------------------------------------------------------------------------
(* Subscriptions                                                           *)

\* subscribe: the first payload announces that refreshes will be sent.
Subscribe(s) ==
    /\ ~homeMode /\ chans[s] = "none"
    /\ chans' = [chans EXCEPT ![s] = "open"]
    /\ box' = [box EXCEPT ![s] = <<Refresh>>]
    /\ members' = members \cup {s}
    /\ UNCHANGED <<now, managerVars, switchVars, q, leaving, closing, jobs,
                   popper, homeVars, handed, sent, popped, evictedAll>>

\* streamRedisSubscription takes the next message.
Receive(s) ==
    /\ box[s] # <<>>
    /\ box' = [box EXCEPT ![s] = Tail(@)]
    /\ UNCHANGED <<now, managerVars, switchVars, q, members, chans, leaving,
                   closing, jobs, popper, homeVars, handed, sent, popped,
                   evictedAll>>

\* Mutant: unsubscribe closes whether or not it found the channel.
LeaveAnyway(s) ==
    /\ chans[s] = "open" /\ s \notin leaving
    /\ members' = members \ {s}
    /\ leaving' = leaving \cup {s}
    /\ UNCHANGED <<now, managerVars, switchVars, q, chans, closing, box, jobs,
                   popper, homeVars, handed, sent, popped, evictedAll>>

\* unsubscribe: who removes the channel from the map closes it.
Leave(s) ==
    /\ s \in members
    /\ members' = members \ {s}
    /\ leaving' = leaving \cup {s}
    /\ UNCHANGED <<now, managerVars, switchVars, q, chans, closing, box, jobs,
                   popper, homeVars, handed, sent, popped, evictedAll>>

CloseLeft(s) ==
    /\ s \in leaving
    /\ leaving' = leaving \ {s}
    /\ chans' = [chans EXCEPT ![s] = "closed"]
    /\ UNCHANGED <<now, managerVars, switchVars, q, members, closing, box,
                   jobs, popper, homeVars, handed, sent, popped, evictedAll>>

\* NotifyUsageRefresh: the watcher saw credentials change.
NotifyUsageRefresh ==
    /\ members # {}
    /\ Broadcast(Refresh)
    /\ UNCHANGED <<now, managerVars, switchVars, q, jobs, popper, homeVars,
                   handed, sent, popped, evictedAll>>

-----------------------------------------------------------------------------
(* Switching off and on                                                    *)

SwitchOff ==
    /\ ~homeMode /\ toggler = "idle" /\ enabled /\ switchedOff < MaxSwitches
    /\ enabled' = FALSE /\ toggler' = "clearing"
    /\ switchedOff' = switchedOff + 1
    /\ UNCHANGED <<now, managerVars, homeMode, statsOn, q, streamVars, jobs, popper,
                   homeVars, handed, sent, popped, evictedAll>>

\* clear: forget everything under q.mu, close the channels after it.
Clear ==
    /\ toggler = "clearing"
    /\ toggler' = "closing"
    /\ q' = NoItems
    /\ closing' = members /\ members' = {}
    /\ UNCHANGED <<now, managerVars, homeMode, enabled, statsOn, switchedOff, chans,
                   leaving, box, jobs, popper, homeVars, handed, sent, popped,
                   evictedAll>>

CloseCleared(s) ==
    /\ s \in closing
    /\ closing' = closing \ {s}
    /\ chans' = [chans EXCEPT ![s] = "closed"]
    /\ UNCHANGED <<now, managerVars, switchVars, q, members, leaving, box,
                   jobs, popper, homeVars, handed, sent, popped, evictedAll>>

SwitchOn ==
    /\ ~enabled
    /\ toggler \in {"idle", "closing"} /\ closing = {}
    /\ enabled' = TRUE /\ toggler' = "idle"
    /\ UNCHANGED <<now, managerVars, homeMode, statsOn, switchedOff, q, streamVars,
                   jobs, popper, homeVars, handed, sent, popped, evictedAll>>

SetUsageStatisticsEnabled(b) ==
    /\ ~homeMode /\ b # statsOn
    /\ b \/ switchedOff < MaxSwitches
    /\ statsOn' = b
    /\ switchedOff' = IF b THEN switchedOff ELSE switchedOff + 1
    /\ UNCHANGED <<now, managerVars, homeMode, enabled, toggler, q, streamVars, jobs,
                   popper, homeVars, handed, sent, popped, evictedAll>>

-----------------------------------------------------------------------------
(* The forwarder to the home server                                        *)

ForwarderPops ==
    /\ homeMode /\ forwarder = "idle" /\ batch = <<>> /\ enabled
    /\ forwarder' = "popping"
    /\ UNCHANGED <<now, managerVars, switchVars, q, streamVars, jobs, popper,
                   batch, home, doubtful, handed, sent, popped, evictedAll>>

ForwarderTakes ==
    /\ forwarder = "popping"
    /\ LET res == PopResult(Batch)
       IN  /\ q' = res.rest
           /\ handed' = handed \o res.out
           /\ batch' = res.out
           /\ forwarder' = IF res.out = <<>> THEN "idle" ELSE "pushing"
    /\ UNCHANGED <<now, managerVars, switchVars, streamVars, jobs, popper,
                   home, doubtful, sent, popped, evictedAll>>

\* LPushUsage succeeds ...
PushUsage ==
    /\ forwarder = "pushing"
    /\ home' = home \cup {Head(batch)}
    /\ batch' = Tail(batch)
    /\ forwarder' = IF Len(batch) = 1 THEN "idle" ELSE forwarder
    /\ UNCHANGED <<now, managerVars, switchVars, q, streamVars, jobs, popper,
                   doubtful, handed, sent, popped, evictedAll>>

\* Mutant: the record whose push failed is left out.
PushFailsPastIt(arrived) ==
    /\ forwarder = "pushing" /\ Len(handed) < MaxHanded
    /\ forwarder' = "requeueing" /\ batch' = Tail(batch)
    /\ IF arrived
       THEN home' = home \cup {Head(batch)} /\ doubtful' = doubtful \cup {Head(batch)}
       ELSE UNCHANGED <<home, doubtful>>
    /\ UNCHANGED <<now, managerVars, switchVars, q, streamVars, jobs, popper,
                   handed, sent, popped, evictedAll>>

\* ... or fails, the record having arrived or not: it and the rest of the
\* batch are enqueued again.
PushFails(arrived) ==
    /\ forwarder = "pushing" /\ Len(handed) < MaxHanded
    /\ forwarder' = "requeueing"
    /\ IF arrived
       THEN home' = home \cup {Head(batch)} /\ doubtful' = doubtful \cup {Head(batch)}
       ELSE UNCHANGED <<home, doubtful>>
    /\ UNCHANGED <<now, managerVars, switchVars, q, streamVars, jobs, popper,
                   batch, handed, sent, popped, evictedAll>>

\* Enqueue for the next record of the batch, up to the test of the flag.
Requeue ==
    /\ forwarder = "requeueing" /\ jobs["forwarder"] = Idle
    /\ IF batch = <<>> THEN forwarder' = "idle" /\ UNCHANGED <<batch, jobs>>
       ELSE /\ batch' = Tail(batch)
            /\ jobs' = IF enabled
                       THEN [jobs EXCEPT !["forwarder"] = [at |-> "admitted",
                                           rec |-> Head(batch)]]
                       ELSE jobs
            /\ UNCHANGED forwarder
    /\ UNCHANGED <<now, managerVars, switchVars, q, streamVars, popper, home,
                   doubtful, handed, sent, popped, evictedAll>>

Tick ==
    /\ now < MaxTime
    /\ now' = now + 1
    /\ UNCHANGED <<managerVars, switchVars, q, streamVars, jobs, popper,
                   homeVars, handed, sent, popped, evictedAll>>

-----------------------------------------------------------------------------

Worker == TakeRecord \/ HandleUsage \/ Offer("dispatcher") \/ Store("dispatcher")

Bridge == BridgeRecord \/ Offer("bridge") \/ Store("bridge")

Forwarder ==
    \/ ForwarderPops \/ ForwarderTakes \/ PushUsage \/ Requeue
    \/ \E arrived \in BOOLEAN : PushFails(arrived)
    \/ Offer("forwarder") \/ Store("forwarder")

Streams ==
    \/ NotifyUsageRefresh
    \/ \E s \in Subscribers :
          Subscribe(s) \/ Receive(s) \/ Leave(s) \/ CloseLeft(s) \/ CloseCleared(s)

Switches ==
    \/ SwitchOff \/ Clear \/ SwitchOn
    \/ \E b \in BOOLEAN : SetUsageStatisticsEnabled(b)

UsageNext ==
    \/ \E p \in Publishers : Publish(p) \/ SignalWorker(p)
    \/ Stop \/ WakeWorker
    \/ Worker \/ Bridge \/ Forwarder \/ Streams \/ Switches
    \/ BeginPop \/ Pop \/ Tick

UsageSpec == UsageInit /\ [][UsageNext]_vars

\* The worker goes on running, and so does whoever is about to wake it;
\* nobody has to make a call.
Scheduling ==
    /\ WF_vars(Worker)
    /\ WF_vars(WakeWorker \/ \E p \in Publishers : SignalWorker(p))

FairUsageSpec == UsageSpec /\ Scheduling

-----------------------------------------------------------------------------
(* Properties                                                              *)

Stored == Range(RecordsOf(SubSeq(q.items, q.head + 1, Len(q.items))))
InHand == {jobs[e].rec : e \in {x \in Enqueuers : jobs[x] # Idle}}

UsageTypeOK ==
    /\ now \in 1..MaxTime /\ published \in 0..MaxRecords
    /\ pending \in Seq(Records) /\ batch \in Seq(Records)
    /\ handed \in Seq(Records)
    /\ dispatcher \in {"unstarted", "looping", "waiting", "returned"}
    /\ jobs \in [Enqueuers -> [at : {"idle", "handling", "admitted", "unclaimed"},
                               rec : 0..MaxRecords]]
    /\ q.head \in 0..Len(q.items)
    /\ q.items \in Seq([rec : Records, at : 1..MaxTime])
    /\ members \subseteq Subscribers
    /\ \A s \in Subscribers : box[s] \in Seq(Records \cup {Refresh})

\* A record is consumed by the subscribers or by a pop, never by both, and
\* by one pop only, whoever enqueues, subscribes and pops at the same time
\* -- except the records whose push to the home server failed after they had
\* arrived.
OneConsumer ==
    /\ UsageTypeOK
    /\ \A r \in Records \ doubtful :
           Cardinality({c \in {"pending", "job", "stored", "batch", "sent",
                               "popped", "home"} :
               \/ c = "pending" /\ r \in Range(pending)
               \/ c = "job"     /\ r \in InHand
               \/ c = "stored"  /\ r \in Stored
               \/ c = "batch"   /\ r \in Range(batch)
               \/ c = "sent"    /\ r \in sent
               \/ c = "popped"  /\ r \in popped
               \/ c = "home"    /\ r \in home}) <= 1

\* No record is lost while the queue stays enabled, nothing has had the time
\* to expire and not every subscriber was too slow for it: neither by a push
\* that fails, nor by a subscription that comes or goes while it is enqueued,
\* nor by the compaction of the buffer.
NothingVanishes ==
    switchedOff = 0 /\ ~evictedAll /\ ~closed /\ now - 1 <= Retention =>
        1..published \subseteq Range(pending) \cup InHand \cup Stored
                               \cup Range(batch) \cup sent \cup popped \cup home

\* Every open channel is in exactly one pair of hands: the map's, those of an
\* unsubscribe or those of clear.  So nothing is sent on a closed channel and
\* no channel is closed twice; both would panic.
ChannelsHaveOneOwner ==
    /\ members \cap leaving = {} /\ members \cap closing = {}
    /\ leaving \cap closing = {}
    /\ members \cup leaving \cup closing = {s \in Subscribers : chans[s] = "open"}

\* Those who pop see a first-in first-out queue, whatever is pruned,
\* compacted and cleared underneath.
Fifo == INSTANCE RecordFifo
            WITH fifo <- RecordsOf(SubSeq(q.items, q.head + 1, Len(q.items)))
ImplementsFifo == Fifo!FifoSpec

\* The worker never sleeps on records to dispatch, and after Stop it
\* dispatches what is left and returns.
RecordsAreDispatched == pending # <<>> ~> pending = <<>>
StopDrains ==
    closed ~> dispatcher \in {"unstarted", "returned"} /\ pending = <<>>

=============================================================================
