# A TLA+ model of OXCLIProxyAPI

OXCLIProxyAPI is a proxy in Go that serves the APIs of OpenAI, Gemini, Claude
and others from a pool of upstream credentials, with an embedded data plane in
Rust for `/v1/responses`. Which credential serves a request, when a credential
that failed is used again, which models are offered, when a token is renewed,
what survives a restart and which snapshot the data plane works with is decided
by a few pieces of concurrent state. This project models that state, checks it
with TLC and proves part of it with TLAPS.

## 1. The system

| Component | State | Operations | Correct when | Module |
|---|---|---|---|---|
| **Manager** (`sdk/cliproxy/auth/conductor.go`, `selector.go`, `types.go`) | per credential: disabled flag, `ModelStates`, availability and quota aggregated over them | `MarkResult`, `ResetQuota`, `ReconcileRegistryModelStates`, `SetConfig`, `Update` under `m.mu` | waits do not add up, the ladder climbs once per window, the aggregate is that of the models | Cooldown, Conductor |
| **Deliveries** (tails of those operations, `pickNext`) | copies on their way to scheduler and registry | each takes the lock of its receiver | the receivers end up with what the Manager holds; stale copies do no lasting harm | Delivery |
| **Scheduler** (`scheduler.go`) | shards per provider and model: entries, ready views, waiting list, cursors | `upsertAuth`, `removeAuth`, `rebuild`, `setSelector`, `pickSingle`, `pickMixed` under `s.mu` | a request gets a credential of the best rank or a true reason; rotation is even | CredentialPool, Scheduler |
| **Model registry** (`internal/registry/model_registry.go`) | registrations, counters, quota and suspension marks, cached lists | `RegisterClient`, `UnregisterClient`, marks, `GetAvailableModels`, `GetModelCount` under `r.mutex` | counters are the registrations, marks belong to clients, the cache is fresh | ModelRegistry |
| **Execution and retry loop** (`Execute`, `executeMixedOnce`, `wrapStreamResult`) | tried set, attempts, wait, settings read at the start | pick, call, mark, wait, next round | no request fails beside a credential that would serve it; bounded calls and waits; an end | Execution |
| **Credential refresh** (`auto_refresh_loop.go`, `refreshAuth`) | heap, dirty set, wake-up channel, timer, workers' copies | look, queue, refresh, write back | a due token is renewed; nothing newer is overwritten | Refresh |
| **Cooldown store** (`cooldown_state.go`, `RestoreCooldownStates`) | one file per credential | snapshot, save, load, restore | the files follow the memory, the memory the truth, over crashes | CooldownStore |
| **Usage manager and queue** (`usage/manager.go`, `redisqueue/queue.go`, `plugin.go`, forwarder) | pending records, buffer with head index, subscribers, switches | publish, dispatch, enqueue, subscribe, pop, prune, compact, clear, push | every record is consumed once, in order, and dispatched before the end | RecordFifo, UsageQueue |
| **Embedded supervisor** (`dataplane/embedded/supervisor.go`, `service.go`) | child process, supervisor held, address routed to | start, stop, exit, reconcile, shutdown | every child has an owner; routing follows the configuration | DataPlane |
| **Snapshot export, notification, Rust runtime** (`notifier/`, `runtime.rs`) | versions on both sides | build, compare, post, fetch, apply, poll | the data plane ends up with the snapshot in force | DataPlane |
| Session affinity (`session_cache.go`, `SessionAffinitySelector`) | session to credential with TTL | get, set, invalidate, clean up | a session stays until its credential fails | - |
| Rust routing (`router-core`, `auth_state.rs`, `responses/`) | overlay of local cooldowns | select, fail, succeed | as the scheduler, over a snapshot | - |
| Watcher, HTTP API, home, relay, executors, translators, logins, stores, plugins, TUI | | glue, input/output, conversion | only where they write state above | - |

How they interact. A request asks the scheduler (`pickNext`), executes upstream
without any lock, and reports the outcome with `MarkResult`. `MarkResult`
changes the credential under `m.mu`, takes a copy, unlocks, and only then
delivers the copy to the scheduler and up to four marks to the registry, each
under the receiver's own lock, and a snapshot of all cooldowns to the files. The
operator's and the watcher's operations do the same. Nothing orders the
deliveries of two calls. The refresh loop reads the same records, calls the
provider without a lock and writes its copy back. The outcome is published as a
usage record too, which travels through two queues to whoever pops or
subscribes. The configuration is one object that the service, the server and the
management handler share; a reload replaces it, a management save edits it in
place, and both make the service reconcile the Rust child, which fetches what the
Go process exports.

What is hard: results, copies, marks, saves, notifications and fetched snapshots
overtake one another; records are read, used for a call and written back;
deadlines elapse without any code running; views, cursors, buffers and cached
lists are rebuilt only when a condition says so; a wake-up can fall between a
test and a sleep; files, pushes, notifications and child processes fail half
way. `PROJECT.json` lists each hazard at its line with the properties that guard
it.

## 2. The modules

```
X --> Y: module X extends module Y

MCConductor --> Conductor --> Cooldown
                    ^             ^
MCDelivery  --> Delivery          |
                    ^             |
              ConductorProofs     |
                                  |
MCExecution --> Execution --------+
                    ^
              ExecutionProofs

MCModelRegistry --> ModelRegistry <-- RegistryProofs
MCScheduler     --> Scheduler     <-- SchedulerProofs     Scheduler implements CredentialPool
MCUsageQueue    --> UsageQueue    <-- UsageQueueProofs    UsageQueue implements RecordFifo
MCRefresh       --> Refresh       <-- RefreshProofs
MCDataPlane     --> DataPlane     <-- DataPlaneProofs
MCCooldownStore --> CooldownStore <-- CooldownStoreProofs
```

**Cooldown** holds one operator per pure function of `conductor.go` and
`selector.go`: the ladder (`NextQuotaCooldown`, `QuotaCooldownAfterFailure`,
`NextCloudflareCooldown`), the failure branches of `MarkResult` (`FailedModel`)
and of `applyAuthFailureState` (`FailedAuth`), `Aggregate`
(`updateAggregatedAvailability`), `ClearCooldown`, `Blocked`. A failure is one of
the kinds that the code's classification distinguishes; messages and status texts
are left out. Go's zero time is `Never`.

**Conductor** makes actions of them, each a whole critical section of `m.mu`
for one credential: results with and without a model, `ResetQuota`, `Reconcile`,
`SetConfig` in its two steps (store, then clear), `SetDisabled` (the management
handler's `Update`), and the clock. Results are not guarded by the
credential's state: an execution may have started at any earlier time. Three history
variables remember the end of the last window the ladder opened, whether the
credential's own fields were last written by the aggregation, and the models that were
reported as unsupported since their last success or reset.

**Delivery** adds what the calls deliver after the unlock. `todo[c]` is what call
`c` still has to deliver. The scheduler keeps a *reference*: after `Register` and
`Update` it is the Manager's own record (`Live`), later changed in place, otherwise a
copy. `Rebind` is `completeModelRegistrationForAuth`, which clears the registry's
marks and then reconciles and refreshes. A `Request` is `pickNext`: pick, copy the
Manager, rebuild, pick again, each under its own lock.

**CredentialPool** says what a scheduler promises and nothing about how: a request
is served by a credential that does not wait and that no open credential outranks, or
it is refused when none is open, with the reason and the instant that the records
give. **Scheduler** is `scheduler.go` for one model, index by index, and has
`Pool!PoolSpec` as a property under the identity mapping of the shared variables.
`Rebuild` is an action of its own because `pickNext` performs it for refusals of any
model. `turns` and `mixedTurns` are histories from which nothing else is computed.

**ModelRegistry** is `model_registry.go`. A client's model list is the number of times
each model is listed, since the code counts repetitions; `Reregister` is the
difference arithmetic of `RegisterClient`. A reader of `GetAvailableModels` takes three
steps, since it reads the clock before the read lock and builds under the write lock.

**Execution** is one request on its way through `Execute`, `ExecuteCount` or
`ExecuteStream`. `Pick`, `Refused`, `Answered`, `StreamOpens` and the rest of `Call`
are `executeMixedOnce` and `executeStreamMixedOnce` with `wrapStreamResult`;
`RetryWait`, `WaitForCooldown` and `GiveUp` are `shouldRetryAfterError` and
`waitForCooldown`. It uses the results of Cooldown. The provider's part is
`healthy`: which credentials' providers serve everything is fixed from the start and
unknown to the program. Other requests report results at any time, and the operator
switches, resets and reconfigures. Time is relative: the clock stands at
`Present` and a tick moves deadlines towards it, so no bound on time is
needed and waiting for ever is a behaviour the liveness property sees.

**Refresh** is the automatic refresh of one credential. The loop's steps are those of
`authAutoRefreshLoop.loop` between two accesses to shared state (select, due, look
at the record under `m.mu`, mark, queue, look again), the workers' those of
`refreshAuth` around the call of the provider (`TakeJob`, `Respond`, `WriteBack`,
`Persist`). The others who write the record are results (`MarkResult`),
`PatchAuthFileStatus` with the copy it read (`ReadToPatch`, `WritePatch`,
`PersistPatch`) and the service applying a changed auth file (`ReadFile`, `Prepare`,
`ApplyFile`). Every save of the auth file (`Save`) may fail; the code drops the error and
goes on. The histories `rewound` and `released` say that a copy that was out of
date was written, and that a hold-off was taken away before its end: by a refresh that
ended, or by the service, while another refresh was waiting or under way; `unsaved`
says that the last save failed.

**UsageQueue** follows a record from `Publish` through the dispatcher
(`usage.Manager.run`, with the condition variable as a flag and a sleeping worker) and
`Enqueue`, whose test of `Enabled`, offer to the subscribers and storing are three
steps, to subscribers, poppers and the forwarder to the home server. `q.items` and
`q.head` are the slice and its head index; `Compact` folds it. **RecordFifo** is what
the poppers are promised, and `q` implements it under `fifo <-` the items behind the
head.

**CooldownStore** writes and reads files one by one. A call changes a cooldown and
takes the snapshot under `m.mu`; `Save` then takes the store's mutex, writes a file
per credential that cools, lists the directory and removes the rest. Each
reload makes another store, with a mutex of its own. `Crash` may come at any
step, and `truth` is a history: what results, switches and registrations really made.
`Reconcile` is `ReconcileRegistryModelStates`, which resets a credential in memory when
its models are registered and saves no cooldown. A start takes the order of
`Service.Run`: restore (`service.go:1830`), then the watcher's first callback, which
brings a new store and restores again (`Reload` with the configuration in force), then
the registration of every credential; `first` holds what of this is still to come, and
results may come in between.

**DataPlane** has three parts that share the configuration. The service: `SaveConfig`,
`EditFile`, `Reload`, `Reconcile` (with one disjunct for each way through
`reconcileEmbeddedDataPlane`), `FirstCallback` (the watcher, once started, calls back with
the configuration in force), `Launch` and the end of `Start`, `Shutdown`, and the
child's process (`Load`, `Bind`, `Crash`, `Exit`, `Reap`, `Forget`). The notifier: `Build`,
`Compare`, `Accept`, `PostFails`, `AnswerLost`, `Answered`. The child's
refreshes: `PollTick`, and for each `StartRefresh`, `Fetch` with `Changed`, `Store`,
`Report`, the last two being the two locks of `apply_snapshot`. A snapshot is what its
version is computed from: configuration, routed address and credentials.

The MC modules hold the definitions that instances need, and symmetry sets. Symmetry
is used only in runs without liveness.

## 3. The runs

| Run | Question | Bounds |
|---|---|---|
| `conductor` | Do deadlines stay bounded, is the aggregate true at every instant, does the ladder climb once per window and fall only to its foot, and does no cooldown outlive its abolition, except that of a model reported as unsupported? | two models, five kinds of failures that are each treated in a way of their own, a hint longer than the ladder's base, a ladder of two steps, clock to 3: two windows in a row with failures inside |
| `delivery` | One call at a time: do scheduler and registry end up with the Manager's state? Overtaking deliveries: is a request ever refused only because of a stale copy, and do stale blocks end? | two callers, all operations alone; two concurrent callers with one kind of failure, a persist that may fail, and a request |
| `registry` | Are the counters the registrations, is a served list fresh, does every mark belong to a client? | two clients, two models listed up to twice, two providers or none, marks of one client, clock to 2: a list built with a clock read before a mark, and read after it |
| `registry_count` | *violated*: `GetModelCount` is the number of available clients | two clients, one model |
| `scheduler_pool` | Does the scheduler implement the pool, and do its indexes stay true? | two credentials that take any of five records at two providers and two priorities, every exclusion, both strategies, rebuilds, clock to 3 |
| `scheduler_rotation` | Is the rotation even over a view, and over providers? | three credentials at two providers, one of which may wait |
| `usage` | Is each record consumed once and none lost without a named reason, is no channel closed twice, is the buffer a FIFO, does the dispatcher neither sleep on records nor leave any? | three records, one of them bridged; one publisher next to the bridge, a subscriber with a channel of one, pops of two, compaction at two, one switching off |
| `refresh` | Does the credential stay in the loop's care, do refreshes keep their distance, does the newest token survive, is a due credential refreshed? | one worker, two tokens, one change by the operator or the watcher, results at any time, any save failing, pending 2 : ineffective 1 as in the code (60 s : 30 s), failure 3, clock to 3 |
| `execution` | Does a request fail only without a healthy credential, are its calls bounded from wait to wait and its waits by the limit, does it never wake up in vain, does it end? | two credentials, one with a number of retries of its own and one that may be reliable; quota with and without a hint and transient failures; two settings (no cap and one retry; a cap of one and a longer wait) |
| `dataplane` | Has every child an owner, is routing as configured, does the child report and end up with what is in force? | four configurations (two that ask for different children, an external plane, one that no child can be started with), three starts, two edits, one fault, a notification next to the poll |
| `dataplane_bridge` | *violated*: the usage bridge follows the routing | two configurations that ask for different children, two starts of a child, one edit: a start with its first callback, and the reload of an edited file |
| `cooldown_store` | Do the files follow the memory and the memory the truth, and do all saves end? | two credentials, two concurrent callers, two stores, two changes (a result, a switch, or a registration besides those of a start), one reload or crash besides the reload that follows a start, one file fault; cooldowns of one tick: a record that is older than another shows as elapsed beside it |

Every property of a passing run has a mutant in `PROJECT.json`: a plausible slip in the
code that the property catches. `scheduler_pool` leaves the two histories out of the
state (`VIEW WithoutHistory`); no guard and no other variable depends on them.

Bounds. The bounded clocks stop by a guard of `Tick` or `Pass`; waits are small
multiples of one unit and keep the order of the source (ladder base < floor < fixed
waits). What decides is which deadlines are ahead of which, and the bounds let every
order occur. Bounds on changes, faults and crashes let each kind happen once
at any place among two concurrent calls, which is what each hazard above takes. In
`dataplane` a second notification goroutine makes millions of states out of
1,385,082; one next to the poll already makes two overlapping refreshes, and
the effects of two notifications are described below. `refresh` has
one worker; a second adds only overlapping refreshes, which `RefreshesAreSpaced` is
stated for and which a worker's job in the queue next to a running call shows already.
Its three safety properties are proved for any number of workers.

Deadlock is checked by every run except those of DataPlane, where the service really
stops (`Shutdown`), and none occurs.

### Fairness

- `usage`: weak fairness of the dispatcher, and of the goroutine that is
  to signal it (a Go runtime schedules every runnable goroutine; `Broadcast` and
  `Signal` wake who waits). Nothing is assumed of publishers, poppers or subscribers.
- `refresh`: weak fairness of the loop, of each worker and of the clock until its bound.
  The provider's answer is a worker's step: calls of providers have timeouts or
  end with the context.
- `execution`: weak fairness of the request's goroutine, which includes that a call
  comes back, and of time. Nothing is assumed of other requests or the operator, who
  may block credentials for ever; the request must end all the same.
- `dataplane`: weak fairness of the poll timer and of each task's refresh; every fetch
  has a timeout in the client. Reloads, notifications and starts need not happen.
- `cooldown_store`: weak fairness of each call's save and of the restore. `SavesEnd` is
  `[]<>AllIdle`: the calls return again and again, so none waits for a mutex for ever.

The clock of Conductor, Delivery, Scheduler and ModelRegistry needs none: "every block
ends" is a safety property there, since no deadline is ever further ahead than
`LongestWait`.

### Where the code and its text disagree

Two disagreements have a run:

1. `registry_count`: a client over quota is subtracted twice in `GetModelCount`, so
   `auto` passes over a model that another client can serve.
2. `dataplane_bridge`: at a hot reload of a changed file the usage bridge is reconciled
   (`service.go:1353`) before the child's address is put into the new configuration
   (`service.go:1382`), and nothing reconciles it afterwards: the bridge is stopped, and until
   a restart the usage records of a child that goes on serving are not fetched. A start
   itself is repaired: `NewServer` has no address yet either, but the watcher's first
   callback (`service.go:1948`, `1953`, `events.go:44`) reconciles the bridge with the
   configuration in which it is.

The rest was met while modelling; the properties name each as an excuse where they
have to, and the text says what a reader of the code should know.

*Manager, deliveries, registry*
- `config.example.yaml:126` says that `disable-cooling` "prevents blackout windows after
  failure states"; `model_not_supported` blocks the model for 12 hours all the same. The run
  `conductor` includes that kind, and `NoBlackoutWithoutCooling` says what is left of the
  promise: nothing else blocks.
- With two concurrent calls `SchedulerAgrees` and `RegistryAgrees` fail: the older copy
  or mark arrives last. One caller next to a request suffices for the former, through the
  rebuild's older copy. A result recorded before a credential was disabled and
  delivered after it schedules it again.
- Every refused request rebuilds the scheduler and thereby starts the rotation of all
  models anew, which `README.md:77` of the repository calls round-robin. Run
  `scheduler_rotation` therefore has no rebuilds.
- `ModelState.Unavailable` does not mirror "blocked" (`types.go:185`): it stays set when
  the deadline has passed or was never set. Inside an open quota window a failure of
  another kind takes the model back into rotation although `NextRecoverAt` is ahead
  (`types.go:173`).
- A client over quota and suspended for another reason is also subtracted twice in
  `GetAvailableModels`. `CleanupExpiredQuotas` has no caller in the program.

*Execution*
- A block is announced by its quota window, not by its retry time: with the window the
  shorter of the two the request wakes up in vain and burns a retry; `WaitCoversBlock`
  leaves these credentials out.
- A credential that comes back between a refused pick and the decision to wait is not
  tried: the request fails although it would be served.
- `config.example.yaml:119` and `config.go:97` call `max-retry-credentials` the "maximum
  number of different credentials to try for one failed request". The code does not keep
  that: `attempted` is made anew in every round, so with a cap of one and one retry a
  request can try two credentials. `CallsAreBounded` states the cap from one wait to the
  next, which is what holds, and shows nothing of the documents' promise.
- A request's own fault that arrives as a status 500 blocks the credential.
- `config.example.yaml:116` lists statuses that are retried: a 403 blocks for half an
  hour, beyond any usual limit, and a 429 is retried although it is not listed.

*Refresh*
- A result that clears a 401 asks nobody to look again: the credential, which the 401
  took out of the heap, is not refreshed again until somebody updates it.
- `refreshAuth`, `PatchAuthFileStatus` and the service write back whole copies that may
  be out of date, and save them in any order: a rotated token can be lost.
- Errors of saving a credential are dropped (`conductor.go:2181`, `3759`, `5763`): the
  new token is then in memory only, the file holds one the provider has revoked, and
  a restart before the next save loads it. `NewestTokenIsKept` claims the file only after
  a save that succeeded. A write that breaks off after the file was truncated leaves one
  that cannot be read; the model's failed saves leave the old contents.
- A refresh that takes longer than a minute is started a second time, next to the
  first or behind it in the queue. Whichever ends first clears the mark of the other, be it
  refused or successful: the record's `NextRefreshAfter` is one field, and a success
  sets it to half a minute or to nothing whatever it was. A third refresh may then
  follow within the minute the second's mark had asked for; `released` excuses
  `RefreshesAreSpaced` there. Applying a disabled credential's file clears the hold-off as
  well. Disabled credentials are refreshed too.

*Usage*
- A subscription between offer and storing sees the record neither way, until
  somebody pops; `SetEnabled` between test and storing leaves a record in a cleared queue; the last
  subscriber that is too slow takes a record with it; a push that failed after it had
  arrived delivers twice.

*Cooldown store*
- A save that comes out of order leaves older records until the next one, and a restart
  restores them. Each reload has a new mutex for the same directory, so two saves can
  interleave file by file. A reload reads the files and then writes them over the
  memory: a success in between is undone.
- `save-cooldown-status` promises to persist the cooldowns (`config.example.yaml:129`). A
  start restores them, and seconds later the watcher's first pass registers every
  credential's models: `ReconcileRegistryModelStates` (`conductor.go:391-460`) resets them
  in memory and saves nothing. What a start restores so lasts until its credential is
  registered, the files keep it, and the next reload or restart brings it back. A
  changed auth file and a refresh of the catalogue do the same at any time.
  `FilesAreCurrent` therefore says nothing after a start until a save has ended, and
  `MemoryIsTrue` counts the registration as one of the changes that make the truth.
- One file that cannot be read or parsed ends the whole restore. Switching the store off
  and on restores what was there before. Enabling a credential whose cooldown came
  while it was disabled does not save it. After a restart the records of credentials
  not yet registered are dropped and their files removed. Temporary files left by a
  crash stay.

*Data plane*
- `docs/operations/rust-data-plane-fallback.md:97-99` says that Go notices when the child
  stops accepting connections and serves natively. There is no such code: a dead child
  stays routed to, the proxy answers 502, and it is not restarted while its
  bootstrap configuration stays. Line 66 of the same file says a degraded data plane answers 503; it serves
  the old snapshot.
- After unannounced changes the notifier's memory is behind: an announced return to
  what it remembers is suppressed until the next poll. Overlapping notifications set
  the memory back, or announce a version twice. Every start and every reload changes the
  version without an announcement.
- Two overlapping refreshes: the one fetched first may be applied last, until the next
  poll; and the version shown may be that of the other, until the next refresh that
  finds a change.
- `Shutdown` does not take the lock of the reconciliation: in the middle of a start it
  leaves an orphan that holds the port. `Stop` does not wait for the process to be gone:
  the next child may fail to bind, and the data plane is off until the next reconciliation.
- A reload to a configuration that no child can be started with leaves the old child
  running, without requests. Until the reload that follows an edit in place, requests go
  to a child that was started with another configuration.

*Reload of the configuration* (`internal/watcher/config_reload.go`)
- The file is read again after the reload and that hash is remembered: what was written
  in between counts as loaded. Overlapping reloads can install the older content last.
  An edit in place between the loading and the installing of a configuration is lost,
  and the next save writes the file without it. As handler and service share the object,
  a change of the routing strategy through the management API compares equal and does not switch the
  selector.

## 4. What is proved

TLAPS proves the theorems below for all values of the constants that satisfy the
assumptions the modules state (`LadderAssumption`, `WaitAssumption`,
`ConductorAssumption`, `DeliveryAssumption`, `RegistryAssumption`,
`SchedulerAssumption`, `UsageAssumption`, `RefreshAssumption`, `ExecutionAssumption`,
`DataPlaneAssumption`, `CooldownStoreAssumption`). Three have a hypothesis more, named in the last column; each is
a choice of the instance that some instance makes, and without it the property is false.

| Theorem | Module | Property | Hypothesis |
|---|---|---|---|
| `ConductorTypeCorrect` | ConductorProofs | `ConductorTypeOK` | |
| `EveryBlockEnds` | ConductorProofs | `BlocksEndInTime` | |
| `OneWindowAtATime` | ConductorProofs | `WindowsDoNotOverlap` | |
| `LadderLeftAtFoot` | ConductorProofs | `LadderFallsToGround` | |
| `AggregateIsTrue` | ConductorProofs | `AggregateAgrees` | |
| `OnlyRefusedModelsWait` | ConductorProofs | `NoBlackoutWithoutCooling` | |
| `ManagerIsConductor` | ConductorProofs | Delivery implements Conductor | |
| `StaleEntriesRecover` | ConductorProofs | `StaleBlocksEnd` | |
| `RefusalsAreExcused` | ConductorProofs | `RefusalIsExcused` | |
| `MarksAreJustified` | ConductorProofs | `RegistryAgrees` | `LoneCallsSucceed` |
| `ScheduleIsTrue` | ConductorProofs | `SchedulerAgrees` | `LoneCallsSucceed`, `LoneCallsUndisturbed` |
| `CacheStaysFresh` | RegistryProofs | `CacheIsFresh` | |
| `MarksStayWithClients` | RegistryProofs | `MarksBelongToClients` | |
| `CountersAreTrue` | RegistryProofs | `CountsAreRegistrations` | |
| `IndexesAreTrue` | SchedulerProofs | `IndexesAgree` | |
| `SchedulerIsAPool` | SchedulerProofs | `ImplementsPool` | |
| `RotationStaysEven` | SchedulerProofs | `RotationIsEven` | `~Rebuilding` |
| `MixedStaysEven` | SchedulerProofs | `MixedIsEven` | |
| `ChannelsAreOwned` | UsageQueueProofs | `ChannelsHaveOneOwner` | |
| `NothingIsLost` | UsageQueueProofs | `NothingVanishes` | |
| `RecordsHaveOneConsumer` | UsageQueueProofs | `OneConsumer` | |
| `QueueIsFifo` | UsageQueueProofs | `ImplementsFifo` | |
| `NoRecordIsSleptOn` | UsageQueueProofs | `NoWakeUpIsLost` (of that module) | |
| `CareIsTaken` | RefreshProofs | `NobodyIsForgotten` | |
| `RefreshesKeepDistance` | RefreshProofs | `RefreshesAreSpaced` | |
| `NewestTokenSurvives` | RefreshProofs | `NewestTokenIsKept` | |
| `ExecutionTypeCorrect` | ExecutionProofs | `TypeOK` of Execution | |
| `HealthyAlwaysServes` | ExecutionProofs | `HealthyServes` | |
| `WaitsAreLimited` | ExecutionProofs | `WaitsWithinLimit` | |
| `NoVainAwakening` | ExecutionProofs | `WaitCoversBlock` | |
| `RequestsAreAffordable` | ExecutionProofs | `CallsAreBounded` | |
| `DataPlaneTypeCorrect` | DataPlaneProofs | `TypeOK` of DataPlane | |
| `EveryChildIsOwned` | DataPlaneProofs | `ChildHasOwner` | |
| `RoutingIsConfigured` | DataPlaneProofs | `RoutedAsConfigured` | |
| `ReadyzIsTrue` | DataPlaneProofs | `ReportedIsApplied` | |
| `AnnouncementsArrive` | DataPlaneProofs | `AnnouncedIsApplied` | |
| `TypeCorrect` | CooldownStoreProofs | `TypeOK` of CooldownStore | |
| `FilesStayCurrent` | CooldownStoreProofs | `FilesAreCurrent` | |
| `MemoryStaysTrue` | CooldownStoreProofs | `MemoryIsTrue` | |
| `NobodyWaitsInVain` | CooldownStoreProofs | `NoCallIsStuck` (of that module) | |

One fact about numbers the provers do not know: a non-empty set of naturals has a least
element. It is the lemma `NatMinimum` of the modules that need it; the earliest deadline
of a credential, the expiry of a cached list and what `Min` chooses rest on it.

ConductorProofs opens with lemmas about the operators of Cooldown, each of which maps
records within reach to records within reach: what a failure, a success, a reset and
the aggregation do to types and deadlines. ExecutionProofs has the few of them it needs.

**ConductorProofs, deadlines.** Neither typing nor the bound on deadlines is inductive
alone: the ladder's level stays in range because the record is typed, and the
aggregated deadline is typed because it is one of the models' deadlines. The
inductive invariant is `TimelyState`, that is `ConductorTypeOK` and `TimelyAuth(auth,
now)` (no deadline beyond `now + LongestWait`); the step `TimelyStep` has one part
per action.

*The ladder.* Every step moves every model in one of three ways (`Moves`): its
quota is kept, or it is grounded, or it climbs. Both ladder properties follow; the
one about windows needs in addition `WindowRemembered`, that a window in the
history is the one the record shows, for a failure compares the clock with the record.

*The aggregate.* That credential and models agree *now* is not inductive, because
the clock may go on without code running. `Mirrors` says it for every later instant
and is preserved by time for nothing; establishing it takes the fact that the
aggregated deadline is the earliest one. It also needs `Tidy`: a model
without an entry is empty, and a backoff level is kept only together with the
quota that raised it, which is why aggregating over exceeded quotas alone loses no
level. For disabled cooldowns the invariant is `OnlyRefused`: no deadline is ahead except
of models reported as unsupported, and the credential's own only if all its models are,
a stronger statement than "nothing else is blocked", since an unclassified failure
of the credential raises the flag and keeps whatever deadline there is. There is no
hypothesis on the kinds of failures.

*Delivery.* `ManagerIsConductor` shows that every step of Delivery is one of
Conductor or a stutter, so the invariants above hold of the Manager's record whatever is
delivered around it. `StaleEntriesRecover` needs them for the copies as well:
`CopiesTimely` says that what callers still carry, the scheduler holds and a request
has copied lies within the longest wait. `ExcuseInv` follows a request from
its first pick to its refusal and remembers that the credential was blocked, or the
scheduler changed, at or after its start. With one caller the two agreement
properties are true between calls only; `MarksSettle` and `ScheduleSettles` say for every
point inside a call what the marks and the entry will be once the rest of `todo` is
delivered. They need `Tidy` again, since registry marks are computed from the quotas.
The hypotheses are not conveniences: a reset whose write to the file fails returns
before it delivers, and leaves marks behind (`LoneCallsSucceed`); a request's rebuild
delivers the copy it took earlier (`LoneCallsUndisturbed`).

**RegistryProofs.** Each operation on a registration only takes marks away
(`FewerMarks`), and one that changes how often a client lists a model leaves the client
unmarked there (`ReregisterFacts`, `RemoveFacts`). For the cache, `CacheInv` remembers
that a list was built for some instant `t` that has come; `SameQuotas` shows that until
the first window open at `t` closes, the clients over quota are the same. The counters
are sums over the clients; instead of an induction over them, a sum is stated as the
number of single registrations (`Regs`: a client and the number of the repetition), a
finite set whose cardinality changes by what one client brings or takes (`Divided`).
`CountInv` says so of the model's count and of each provider's (`Tallied`), and
`Reregister`, with its differences, restores it.

**SchedulerProofs.** `ShardsTrue` speaks of one shard at a time: `Truthful` says that
entries, views, waiting list and cursors fit one another and that every entry was made
of the present record at some earlier instant (`Sound`); `Fresh` says that a request that
has just looked it up finds what the record says now. `Sound` is what lets the clock pass
without rebuilding: an entry that was ready stays so, one that waits is promoted
by the next request (`PromoteIsFresh`). From `Fresh` follow who is picked
(`PickServes`, `MixedGrants`) and why nobody is (`RefusalIsRight`), hence the steps of
CredentialPool. For the rotation, `RowsEven` says that the members of a view that had
their turn are the ones a pick reaches last (`EvenRow`); a pick takes the first in
this order and makes it the last (`PickRotates`), and a rebuild that leaves the members
leaves the order (`Carries`). The hypothesis `~Rebuilding` is needed, because a
refusal's rebuild restarts all cursors. For mixed requests `MixedInv` orders the ready
members of all providers by the number of picks that come before theirs: `Delay`
reckons it from the mixed cursor's slot, the slots of each provider and the
provider's own cursor. A pick serves the member at 0, who becomes the last, and brings
all others one nearer (`MembersMoveUp`), so the members that had their turn are the
last ones here too; `EvenBy` and `TurnBy` are shared by both rotations. A row needs no hypothesis
about rebuilds, which end it, and cannot be continued at another priority, since no
credential is at two (`CrowdTellsPriority`).

**UsageQueueProofs.** `Good` says that what exists has been published, that it is in each
place once, and that it is in one place at a time: the dispatcher, an `Enqueue`, the
queue, the forwarder's batch, the home server or a popper. On it rest `LosesNothing`
(no step takes a record out of all places and consumers at once, as long as nothing was
switched off, expired or was dropped by every subscriber: `Undisturbed`) and the one
consumer.
`StreamsTrue` says who may close which channel. For the refinement, the abstract
queue is `Seen(q)`, the records behind the head; compaction and growth leave it.
`NoRecordIsSleptOn` is the safe part of the dispatcher's liveness: `WakeInv` adds to it
that the worker returns only once nothing more is accepted. It holds because the worker
parks under `m.mu`, although publishers and `Stop` signal after they released it.

**RefreshProofs.** `TypeInv` adds to the types that the instants a job or a worker carries have
come, and which answer a worker has at which step. `CareInv` is the property without its guard: even a refused credential is in the loop's heap, due list,
queue or worker, until the loop itself drops it. For the distance, `HeldOff` says that
the record's `NextRefreshAfter` lies beyond the marks of all outstanding refreshes, as
long as no copy that was out of date has been written (`PatchFresh`) and no mark was
taken away; `Spaced` follows at the next mark. For the tokens, `Rotation` says that a token
the provider has just issued is with one worker and nowhere else; `CopiesFresh` that a
copy that is not out of date has the record's token; `NewestInv` that the
newest token is in the record or on its way, and then in the file or in a pending
copy that is up to date, unless the last save has failed.

**ExecutionProofs.** `TypeInv` adds to the types that the records are sound (deadlines
from the present on) and that a call has a credential, and carries the others.
`HealthyInv` says what makes `HealthyServes` inductive: a healthy credential is
switched on and has no retry deadline, not even after a request's own fault; none has
been tried and refused in this round; so that without a cap no round with
one reaches its end. `WaitInv`
bounds the wait by what the request read, jitter included, and says that the deadlines
of the awaited credentials lie within it; a tick shortens both by the same. For
`CallsAreBounded`, `CostInv` counts the calls of the present round by the credentials
tried in it and those of earlier rounds by the bound itself, and keeps the
number of rounds within the highest budget.

**DataPlaneProofs.** `OwnerInv` says that a living child is known to the supervisor held
or to the one being started, and that in each stage of a reconciliation at most one of
the two exists; the property alone does not survive a start that times out.
`RouteInv` says that what is routed to fits the configuration in each stage of a
reconciliation; `ReconcileRoutes` goes through its ways. `ReportInv` says that until
two refreshes overlap there, a refresh between its two locks brings the applied
version, and that without one the version shown is applied already; it needs that a
notification that has not been posted has no refresh, and that no refresh outlives its
child. `TypeInv` adds that a posted notification carries
a version that was built, which is what a child can be told. `CalmInv` says that from a settled state on, as
long as no fault, overlap or unannounced change comes between, the child serves and is
routed to, and what is in force is either applied, with nothing but the poll under way,
or the matter of exactly one notification whose refresh brings it (`Attended`).

**CooldownStoreProofs.** Each action is first turned into what it does to the call that
makes it (`Moved`: its step, its store, its records, what it has to do), and the parts
of the invariant `IInv` are proved from that. `FilesAreCurrent` speaks of no calls being under
way; to get there, `SaveInv` follows a save: what it has dealt with, the files have as
its records say, unless it met the save of another store (`CrossInv`), for two stores
have two mutexes and one directory. `NewInv` says that the newest snapshot shows the
memory as long as no call is about to take a newer one; with it the end of that save
establishes `ExactInv`. For `MemoryIsTrue`, `TruthInv` says where the truth is while the
process is not up: in the files. It is carried over a start by `LoadInv` (what has been
read is in the files, since nobody writes them then) and by `BootInv` (the Loader is alone,
and saves just what it has restored), so that a crash at any point of a start
leaves files from which the next one starts again. A registration is a change like any
other to these parts (`Changed`): it is noted in the truth, and ends `exact`. `StoreInv` ties the configuration to the
store there is.

The attempt to prove this showed two gaps of the model, both outside the bounds of its
run. A restart with the saving switched off leaves the files of the earlier process alone
while the memory is empty, and the next reload that switches it on compared the two as if
they had been saved: `Start` now ends `exact` there. And the agreement of memory and
truth had left disabled credentials out: after a result that came late for one and a
restart, which loses it, the restore counted the memory as good again, and enabling
the credential showed that it was not. `Agrees` now speaks of all credentials.

Out of the prover's reach and left to TLC is liveness: `RequestsEnd`, `DueIsRefreshed`,
`RecordsAreDispatched`, `StopDrains`, `SnapshotConverges`, `SavesEnd`. What each needs to be
safe is proved: a bound on the calls (`RequestsAreAffordable`), a credential that
somebody has in hand (`CareIsTaken`), a worker that is woken (`NoRecordIsSleptOn`), an announced
change that is applied or under way (`AnnouncementsArrive`), and, for whoever waits for
a store's mutex, a holder that waits for nobody (`NobodyWaitsInVain`).

## 5. What is only model-checked

Only liveness rests on TLC, and thus on the bounds of section 3; every other property
of a run that passes is the property of a theorem. `TypeOK` of Execution and of DataPlane
are proved and not in a run; the type invariants of UsageQueue, Refresh and CooldownStore
are conjuncts of an invariant of their runs.

## 6. What is not modelled

- **Session affinity.** Its cache decides which of several equal credentials is taken,
  and nothing else of the system reads it. Reading it has shown that `Get` may delete, under
  the write lock, a binding that was renewed after the read lock (`session_cache.go:51`).
- **Rust routing and overlay.** The plan of a request ignores the overlay, so that the
  round robin falls to the first free retry; a model would repeat Scheduler over it.
- **Watcher and reload.** DataPlane reloads in one step. What `config_reload.go` can lose
  is the operator's file content, described above; no other state depends on the hashes.
- **Within modelled parts.** The data race on the record that `Update` shares with the
  scheduler (torn reads of a Go map); the key fallback of model states from a requested to a base
  model (a model here is a key); registry metadata and hooks; pinned mixed requests except
  as a request that excludes all others at the pinned credential's provider; custom and
  plugin selectors, which bypass the scheduler; aliases and pools of upstream models; the
  removal and the loading of credentials; refresh evaluators and intervals; file
  formats; the error channel of redisqueue, which has the same code; children at
  different addresses.
- **Home, relay, executors, translators, logins, stores, plugins, command line, TUI,
  logging.** Input/output, conversion and third-party code around the state above; the
  models have what they write into it. They are by far the greater part of the source, and
  hold no concurrent state that decides anything here.

Worth doing next: two notifications at a time in DataPlane, two credentials in Refresh
(the heap's order), and the Rust overlay as a second implementation of CredentialPool.
