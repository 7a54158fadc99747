------------------------------ MODULE Delivery ------------------------------
(***************************************************************************)
(* What the operations of Conductor deliver after they release m.mu: a     *)
(* copy of the credential to the scheduler, and the marks that the model   *)
(* registry keeps for it.  Each delivery takes a lock of its own, so those *)
(* of concurrent calls interleave and may overtake one another.  A request *)
(* picks the credential through the scheduler, and rebuilds the scheduler  *)
(* from the Manager when it finds nothing (pickNext).                      *)
(*                                                                         *)
(* One credential, all of whose models are registered.                     *)
(***************************************************************************)
EXTENDS Conductor, SequencesExt

CONSTANTS
    Callers,   \* concurrent calls of the Manager's operations
    Settings   \* what goes on, one of which holds for a whole behaviour: the
               \* calls there are, the failures and hints that occur, whether
               \* the operator switches the credential (switching), the service
               \* registers its models again (rebinding), requests pick it
               \* (requesting) and its file may fail to be written (failing)

ASSUME DeliveryAssumption ==
    /\ IsFiniteSet(Models)
    /\ \A s \in Settings :
          /\ s.callers \subseteq Callers /\ s.kinds \subseteq Kinds
          /\ s.hints \subseteq Hints
          /\ {s.switching, s.rebinding, s.requesting, s.failing} \subseteq BOOLEAN

VARIABLES
    setting,    \* the one that holds
    todo,       \* [Callers -> Seq(delivery)]: what a call has yet to deliver
    entry,      \* the scheduler's entry for the credential
    quotaMarks, \* models with the client in QuotaExceededClients
    suspended,  \* models with the client in SuspendedClients
    request     \* one request picking a credential

deliveryVars == <<conductorVars, setting, todo, entry, quotaMarks, suspended, request>>

-----------------------------------------------------------------------------
(* The scheduler's view.  It keeps a reference to a record: a copy, or,    *)
(* after Register and Update, the Manager's own record, which later calls  *)
(* change in place until an Update replaces it by another.                 *)

Live == [live |-> TRUE, rec |-> FreshAuth]
Copy(a) == [live |-> FALSE, rec |-> a]
Record(ref) == IF ref.live THEN auth ELSE ref.rec

\* The Manager's record is about to be replaced.
Orphan(ref) == IF ref.live THEN Copy(auth) ELSE ref

NoEntry == [present |-> FALSE, ref |-> Copy(FreshAuth),
            next |-> [m \in Models |-> Never]]

\* scheduledAuth.nextRetryAt: Never for an entry in the ready view.
NextRetryAt(a, m) ==
    IF Blocked(a, m, now) THEN ReportedRetry(a.ms[m], now) ELSE Never

\* upsertAuth: a disabled credential is removed.
Upsert(ref) ==
    LET a == Record(ref)
    IN  IF a.disabled THEN NoEntry
        ELSE [present |-> TRUE, ref |-> ref,
              next |-> [m \in Models |-> NextRetryAt(a, m)]]

\* promoteExpiredLocked: entries whose time has come are looked at again.
Promote(e, m) ==
    IF e.present /\ e.next[m] # Never /\ e.next[m] <= now
    THEN [e EXCEPT !.next[m] = NextRetryAt(Record(e.ref), m)]
    ELSE e

Selectable(e, m) == e.present /\ e.next[m] = Never

-----------------------------------------------------------------------------
(* Deliveries.                                                             *)

Schedule(ref)    == [op |-> "schedule", ref |-> ref]
ClearQuota(m)    == [op |-> "clear_quota", model |-> m]
MarkQuota(m)     == [op |-> "mark_quota", model |-> m]
Resume(m)        == [op |-> "resume", model |-> m]
Suspend(m)       == [op |-> "suspend", model |-> m]
ReconcileAfter   == [op |-> "reconcile"]
RefreshEntry     == [op |-> "refresh"]

\* Failures that suspend the model in the registry.
Suspends(kind) ==
    \/ kind = "model_not_supported"
    \/ /\ cooling
       /\ kind \in {"quota", "invalid_grant", "unauthorized",
                    "payment_required", "not_found"}

AfterFailure(m, kind) ==
    <<Schedule(Copy(auth'))>>
        \o (IF kind = "quota" /\ cooling THEN <<MarkQuota(m)>> ELSE <<>>)
        \o (IF Suspends(kind) THEN <<Suspend(m)>> ELSE <<>>)

\* Mutant: a success leaves the model suspended in the registry.
SuccessClearsQuotaOnly(m) == <<Schedule(Copy(auth')), ClearQuota(m)>>

AfterSuccess(m) == <<Schedule(Copy(auth')), ClearQuota(m), Resume(m)>>

\* ResetQuota clears the registry first, in the order in which Go iterates
\* over them, for the models that have a state or, when none has, for all
\* that are registered.
ResetOrders == SetToSeqs(IF Known(auth) = {} THEN Models ELSE Known(auth))

RegistryReset(models) ==
    [i \in 1..2 * Len(models) |->
        IF i % 2 = 1 THEN ClearQuota(models[(i + 1) \div 2])
                     ELSE Resume(models[i \div 2])]

\* Mutant: the scheduler does not learn of the reset.
ResetRegistryOnly(models) == RegistryReset(models)

AfterReset(models) == RegistryReset(models) \o <<Schedule(Copy(auth'))>>

Idle(c) == todo[c] = <<>>

\* The call holds m.mu, applies A and goes on with ds.
Call(c, ds) ==
    /\ Idle(c)
    /\ todo' = [todo EXCEPT ![c] = ds]
    /\ UNCHANGED <<entry, quotaMarks, suspended>>

MarkResult(c) ==
    \/ \E m \in Models : RecordSuccess(m) /\ Call(c, AfterSuccess(m))
    \/ \E m \in Models, k \in setting.kinds :
           \E h \in HintsFor(k) \cap (setting.hints \cup {NoHint}) :
           RecordFailure(m, k, h) /\ Call(c, AfterFailure(m, k))

\* When persisting fails the reset stays and nothing is delivered.
Reset(c) ==
    /\ ResetQuota
    /\ \/ \E models \in ResetOrders : Call(c, AfterReset(models))
       \/ setting.failing /\ Call(c, <<>>)

\* Only a credential that had something to clear is delivered.
ClearDisabled(c) ==
    LET clears  == ~cooling \/ auth.disabled
        changes == Dirty(auth) \/ \E m \in Models : Dirty(auth.ms[m])
    IN  /\ ClearDisabledCooldownStates
        /\ Call(c, IF clears /\ changes THEN <<Schedule(Copy(auth'))>> ELSE <<>>)

Store(c, b) == StoreConfig(b) /\ Call(c, <<>>)

\* Update puts a new record in place of the Manager's and schedules it.
Update(c, b) ==
    /\ setting.switching
    /\ SetDisabled(b)
    /\ Idle(c)
    /\ todo' = [d \in Callers |->
           IF d = c THEN <<Schedule(Live)>>
           ELSE [i \in DOMAIN todo[d] |->
                    IF todo[d][i].op = "schedule"
                    THEN Schedule(Orphan(todo[d][i].ref)) ELSE todo[d][i]]]
    /\ entry' = [entry EXCEPT !.ref = Orphan(@)]
    /\ UNCHANGED <<quotaMarks, suspended>>

\* completeModelRegistrationForAuth: registering the models again clears the
\* registry's marks, then the states are reconciled and the entry refreshed.
Rebind(c) ==
    /\ setting.rebinding
    /\ ~auth.disabled
    /\ Idle(c)
    /\ quotaMarks' = {}
    /\ suspended' = {}
    /\ todo' = [todo EXCEPT ![c] = <<ReconcileAfter, RefreshEntry>>]
    /\ UNCHANGED <<conductorVars, entry>>

Begin(c) ==
    \/ MarkResult(c)
    \/ Reset(c)
    \/ \E b \in BOOLEAN : Store(c, b)
    \/ \E b \in BOOLEAN : Update(c, b)
    \/ ClearDisabled(c)
    \/ Rebind(c)

\* One delivery that takes the scheduler's lock ...
DeliverSchedule(c) ==
    /\ ~Idle(c) /\ Head(todo[c]).op = "schedule"
    /\ entry' = Upsert(Head(todo[c]).ref)
    /\ todo' = [todo EXCEPT ![c] = Tail(@)]
    /\ UNCHANGED <<conductorVars, quotaMarks, suspended>>

\* ... the registry's ...
DeliverMark(c) ==
    LET d == Head(todo[c])
    IN  /\ ~Idle(c) /\ d.op \in {"clear_quota", "mark_quota", "resume", "suspend"}
        /\ quotaMarks' = CASE d.op = "mark_quota"  -> quotaMarks \cup {d.model}
                           [] d.op = "clear_quota" -> quotaMarks \ {d.model}
                           [] OTHER                -> quotaMarks
        /\ suspended' = CASE d.op = "suspend" -> suspended \cup {d.model}
                          [] d.op = "resume"  -> suspended \ {d.model}
                          [] OTHER            -> suspended
        /\ todo' = [todo EXCEPT ![c] = Tail(@)]
        /\ UNCHANGED <<conductorVars, entry>>

\* ... and the Manager's: ReconcileRegistryModelStates, RefreshSchedulerEntry.
DeliverReconcile(c) ==
    /\ ~Idle(c) /\ Head(todo[c]).op = "reconcile"
    /\ \/ /\ Reconcile(Models)
          /\ todo' = [todo EXCEPT ![c] = <<Schedule(Copy(auth'))>> \o Tail(@)]
       \/ /\ \A m \in Known(auth) : auth.ms[m] = CleanState
          /\ todo' = [todo EXCEPT ![c] = Tail(@)]
          /\ UNCHANGED conductorVars
    /\ UNCHANGED <<entry, quotaMarks, suspended>>

DeliverRefresh(c) ==
    /\ ~Idle(c) /\ Head(todo[c]).op = "refresh"
    /\ todo' = [todo EXCEPT ![c] = <<Schedule(Copy(auth))>> \o Tail(@)]
    /\ UNCHANGED <<conductorVars, entry, quotaMarks, suspended>>

Deliver(c) ==
    \/ DeliverSchedule(c)
    \/ DeliverMark(c)
    \/ DeliverReconcile(c)
    \/ DeliverRefresh(c)

-----------------------------------------------------------------------------
(* A request (pickNext).  excused records, from its start to its end, that *)
(* the Manager's record was blocked at some instant, or that some call     *)
(* delivered a record to the scheduler.                                    *)

NoRequest(m) == [pc |-> "idle", model |-> m, snapshot |-> FreshAuth,
                 excused |-> FALSE]

Ask(m) ==
    /\ setting.requesting
    /\ request.pc = "idle"
    /\ request' = [NoRequest(m) EXCEPT !.pc = "asked",
                                       !.excused = Blocked(auth, m, now)]
    /\ UNCHANGED <<conductorVars, todo, entry, quotaMarks, suspended>>

\* pickSingle, before and after the scheduler was rebuilt.
Pick(from, failed) ==
    LET e == Promote(entry, request.model)
    IN  /\ request.pc = from
        /\ entry' = e
        /\ request' = [request EXCEPT !.pc =
               IF Selectable(e, request.model) THEN "served" ELSE failed]
        /\ UNCHANGED <<conductorVars, todo, quotaMarks, suspended>>

\* Mutant: the first refusal is final.
FirstPickFinal == Pick("asked", "refused")

FirstPick == Pick("asked", "empty")

\* syncScheduler copies the records under m.mu ...
SnapshotAuths ==
    /\ request.pc = "empty"
    /\ request' = [request EXCEPT !.pc = "copied", !.snapshot = auth]
    /\ UNCHANGED <<conductorVars, todo, entry, quotaMarks, suspended>>

\* ... and rebuilds the scheduler under its own lock.
Rebuild ==
    /\ request.pc = "copied"
    /\ entry' = Upsert(Copy(request.snapshot))
    /\ request' = [request EXCEPT !.pc = "rebuilt"]
    /\ UNCHANGED <<conductorVars, todo, quotaMarks, suspended>>

SecondPick == Pick("rebuilt", "refused")

Answer ==
    /\ request.pc \in {"served", "refused"}
    /\ request' = NoRequest(request.model)
    /\ UNCHANGED <<conductorVars, todo, entry, quotaMarks, suspended>>

Request ==
    \/ \E m \in Models : Ask(m)
    \/ FirstPick
    \/ SnapshotAuths
    \/ Rebuild
    \/ SecondPick
    \/ Answer

-----------------------------------------------------------------------------

DeliveryInit ==
    /\ ConductorInit
    /\ setting \in Settings
    /\ todo = [c \in Callers |-> <<>>]
    /\ entry = Upsert(Live)
    /\ quotaMarks = {}
    /\ suspended = {}
    /\ request \in {NoRequest(m) : m \in Models}

\* What a running request sees of the others' steps.
Watch ==
    request' = [request EXCEPT !.excused =
        request.pc # "idle" /\
            (@ \/ Blocked(auth', request.model, now') \/ entry' # entry)]

DeliveryNext ==
    /\ \/ \E c \in setting.callers : (Begin(c) \/ Deliver(c)) /\ Watch
       \/ Tick /\ UNCHANGED <<todo, entry, quotaMarks, suspended>> /\ Watch
       \/ Request
    /\ UNCHANGED setting

DeliverySpec == DeliveryInit /\ [][DeliveryNext]_deliveryVars

-----------------------------------------------------------------------------
(* Properties                                                              *)

AllIdle == \A c \in Callers : Idle(c)

OneAtATime == \E c \in Callers : setting.callers = {c}

Offered(m) == Selectable(Promote(entry, m), m)

\* A request is refused only for a reason of its own time: whatever copy an
\* earlier call left in the scheduler, it is replaced before the refusal.
RefusalIsExcused == request.pc = "refused" => request.excused

\* A stale entry does not block for longer than the Manager itself would.
StaleBlocksEnd ==
    \A m \in Models : entry.next[m] <= now + LongestWait

\* With one call at a time, between calls the scheduler holds the Manager's
\* record.  It offers no model that is blocked, and withholds one only until
\* its quota window closes.
SchedulerAgrees ==
    OneAtATime /\ AllIdle =>
        /\ entry.present <=> ~auth.disabled
        /\ entry.present =>
              /\ Record(entry.ref) = auth
              /\ \A m \in Models :
                    /\ Offered(m) => ~ModelBlocked(m)
                    /\ ~Offered(m) => \/ ModelBlocked(m)
                                      \/ auth.ms[m].quota.recoverAt > now

\* With one call at a time, between calls the registry hides no model whose
\* last result was a success or that was reset since.
RegistryAgrees ==
    OneAtATime /\ AllIdle => \A m \in quotaMarks \cup suspended : auth.ms[m].failed

=============================================================================
