---------------------------- MODULE CooldownStore ----------------------------
(***************************************************************************)
(* The cooldowns that survive the process (cooldown_state.go and its       *)
(* callers in conductor.go): whoever changes one writes, outside the       *)
(* Manager's lock, one file per credential that cools and removes the      *)
(* others; a start, and every reload of the configuration, reads them all  *)
(* back.  Each reload brings a store with a mutex of its own for the same  *)
(* directory.  The process may crash at any step.                          *)
(*                                                                         *)
(* A credential has one model, so that its two records are one here, and   *)
(* a cooldown is what is left of its time: None, or a number that ticks    *)
(* down to zero.  What results do to it in detail is Cooldown's.  A        *)
(* credential is disabled or enabled in one step, from what the Manager    *)
(* holds.  Whenever its models are registered anew (after a start, a       *)
(* change of its file, a refresh of the catalogue), its cooldowns are      *)
(* reset in memory, and nothing saves that.  Removing credentials,         *)
(* switching cooldowns off as such, and credentials that register after    *)
(* the start are left out.                                                 *)
(***************************************************************************)
EXTENDS Naturals, FiniteSets

CONSTANTS
    Creds,       \* credentials
    Callers,     \* calls of the Manager's operations at a time
    Loader,      \* the service: its start and its reloads
    None,        \* "no cooldown", "no file"
    Waits,       \* lengths of cooldowns
    Stores,      \* store objects in use at a time
    NoStore,     \* save-cooldown-status is off
    MaxChanges,  \* bound: results, switches and registrations
    MaxEvents,   \* bound: reloads of a changed configuration, and crashes
    MaxFaults    \* bound: files that cannot be read, written or removed

Calls == Callers \cup {Loader}
Rests == {None} \cup UNION {0..w : w \in Waits}

ASSUME CooldownStoreAssumption ==
    /\ Waits \subseteq Nat \ {0}
    /\ Loader \notin Callers \cup Creds /\ NoStore \notin Stores /\ Stores # {}
    /\ None \notin Nat /\ None \notin [Creds -> Rests]
    /\ {MaxChanges, MaxEvents, MaxFaults} \subseteq Nat

VARIABLES
    phase,    \* of the process: "boot", "up" or "down"
    off,      \* credentials that are disabled; their own files hold this
    cool,     \* [Creds -> Rests]: the Manager's memory
    files,    \* [Creds -> Rests]: the .cds files
    saving,   \* the configuration's save-cooldown-status
    store,    \* the Manager's store
    call,     \* [Calls -> ...]: persistCooldownStates, RestoreCooldownStates
    first,    \* what the watcher's first pass after a start still has to do:
              \* its callback (Loader), and to register these credentials
    left,     \* what is left of the bounds
    truth,    \* history: the cooldowns that results, switches and
              \* registrations have made
    newest,   \* history: the records of the latest snapshot; None once there
              \* is a change that nothing saves
    crossed,  \* history: calls whose save met one of another store
    exact,    \* history: the last save to end was the newest, and every
              \* change since has been saved
    doubt,    \* history: what the Loader reads may be out of date
    trusted   \* history: nothing was lost or read that was out of date

vars == <<phase, off, cool, files, saving, store, call, first, left, truth,
          newest, crossed, exact, doubt, trusted>>
history == <<truth, newest, crossed, exact, doubt, trusted>>

-----------------------------------------------------------------------------
(* Records                                                                 *)

Nothing == [c \in Creds |-> None]
Live(r) == IF r = None THEN 0 ELSE r

\* cooldownStateRecordsForAuthLocked: what has elapsed and what belongs to a
\* disabled credential is not recorded.
Recorded(c) == IF c \in off \/ Live(cool[c]) = 0 THEN None ELSE cool[c]
Records == [c \in Creds |-> Recorded(c)]
Group(recs) == {c \in Creds : recs[c] # None}

\* more: a restore is to follow.
Idle == [pc |-> "idle", store |-> NoStore, recs |-> Nothing, todo |-> {},
         more |-> FALSE]
IsIdle(k) == call[k] = Idle
AllIdle == \A k \in Calls : IsIdle(k)
InSave(k) == call[k].pc \in {"write", "list", "remove"}

Go(k, pc, recs, todo) ==
    call' = [call EXCEPT ![k] = [@ EXCEPT !.pc = pc, !.recs = recs, !.todo = todo]]
Return(k) == call' = [call EXCEPT ![k] = Idle]
To(k, pc) == Go(k, pc, call[k].recs, call[k].todo)

Spend(what) == left[what] > 0 /\ left' = [left EXCEPT ![what] = @ - 1]

\* A reload goes on; at a start the Loader's return ends it.
End(k) ==
    IF call[k].more
    THEN call' = [call EXCEPT ![k] = [Idle EXCEPT !.pc = "begin"]] /\ phase' = phase
    ELSE Return(k) /\ phase' = IF phase = "boot" THEN "up" ELSE phase

-----------------------------------------------------------------------------
(* Changes                                                                 *)

\* The change is made under m.mu, and whether a save follows decided there.
Put(c, r, saves) ==
    /\ phase = "up"
    /\ cool' = [cool EXCEPT ![c] = r]
    /\ truth' = [truth EXCEPT ![c] = r]
    /\ IF saves \/ Recorded(c)' = Recorded(c) THEN UNCHANGED <<newest, exact>>
       ELSE newest' = None /\ exact' = FALSE
    /\ UNCHANGED <<phase, files, saving, store, crossed, trusted>>

Change(k, c, r, saves) ==
    /\ IsIdle(k)
    /\ Spend("changes")
    /\ Put(c, r, saves)
    /\ IF saves THEN To(k, "snapshot") ELSE UNCHANGED call
    /\ first' = first

\* MarkResult saves when it has changed a record: a failure always does.
Fail(k, c, w) ==
    /\ off' = off
    /\ Change(k, c, w, store # NoStore /\ c \notin off)

\* A success, and ResetQuota.
Recover(k, c) ==
    /\ off' = off
    /\ Change(k, c, None, store # NoStore /\ Recorded(c) # None)

\* Update clears the cooldowns of a credential that it disables.
Disable(k, c) ==
    /\ c \notin off
    /\ off' = off \cup {c}
    /\ Change(k, c, None, cool[c] # None)

\* Late results may have given it a new one, which nothing saves.
Enable(c) ==
    /\ phase = "up" /\ c \in off
    /\ Spend("changes")
    /\ off' = off \ {c}
    /\ IF Live(cool[c]) = 0 THEN UNCHANGED <<newest, exact>>
       ELSE newest' = None /\ exact' = FALSE
    /\ UNCHANGED <<phase, cool, files, saving, store, call, first, truth,
                   crossed, trusted>>

\* ReconcileRegistryModelStates, when the credential's models have been
\* registered: the watcher's first pass does so for every file after its
\* callback, later ones when a file or the catalogue changes.  It saves the
\* token, not the cooldowns.
Reconcile(c) ==
    /\ \/ /\ c \in first /\ Loader \notin first
          /\ first' = first \ {c} /\ left' = left
       \/ /\ cool[c] # None
          /\ Spend("changes") /\ first' = first
    /\ UNCHANGED <<off, call>>
    /\ Put(c, None, FALSE)

Changes ==
    /\ \/ \E k \in Callers, c \in Creds :
            \/ \E w \in Waits : Fail(k, c, w)
            \/ Recover(k, c)
            \/ Disable(k, c)
       \/ \E c \in Creds : Enable(c) \/ Reconcile(c)
    /\ doubt' = (doubt \/ call[Loader].pc = "load")

-----------------------------------------------------------------------------
(* persistCooldownStates and Save                                          *)

\* cooldownStateSnapshot
Snapshot(k) ==
    /\ call[k].pc = "snapshot"
    /\ IF store = NoStore THEN End(k) /\ newest' = None /\ exact' = FALSE
       ELSE /\ call' = [call EXCEPT ![k] = [@ EXCEPT !.pc = "lock",
                                              !.store = store, !.recs = Records]]
            /\ newest' = Records
            /\ UNCHANGED <<phase, exact>>
    /\ UNCHANGED <<off, cool, files, saving, store, first, left, truth,
                   crossed, doubt, trusted>>

\* Mutant: a save waits for all other calls.
OthersReturned(k) == \A j \in Calls \ {k} : IsIdle(j)

\* The mutex of the store.
Free(k) == ~\E j \in Calls : InSave(j) /\ call[j].store = call[k].store

Acquire(k) ==
    /\ call[k].pc = "lock" /\ Free(k)
    /\ LET group == Group(call[k].recs)
       IN  Go(k, IF group = {} THEN "list" ELSE "write", call[k].recs, group)
    /\ crossed' = IF \E j \in Calls : InSave(j)
                  THEN crossed \cup {k} \cup {j \in Calls : InSave(j)}
                  ELSE crossed \ {k}
    /\ UNCHANGED <<phase, off, cool, files, saving, store, first, left, truth,
                   newest, exact, doubt, trusted>>

\* Mutant: only the first group is written.
WriteOne(k) ==
    /\ call[k].pc = "write"
    /\ \E c \in call[k].todo :
        /\ files' = [files EXCEPT ![c] = call[k].recs[c]]
        /\ Go(k, "list", call[k].recs, {})
    /\ UNCHANGED <<phase, off, cool, saving, store, first, left, history>>

\* writeCooldownStateGroup replaces a file by a rename.
Write(k) ==
    /\ call[k].pc = "write"
    /\ \E c \in call[k].todo :
        /\ files' = [files EXCEPT ![c] = call[k].recs[c]]
        /\ LET rest == call[k].todo \ {c}
           IN  Go(k, IF rest = {} THEN "list" ELSE "write", call[k].recs, rest)
    /\ UNCHANGED <<phase, off, cool, saving, store, first, left, history>>

\* Mutant: what a save does not name stays.
KeepOthers(recs) == {}

\* removeStaleStateFiles: the files there are when the walk begins.
Stale(recs) == {c \in Creds : files[c] # None} \ Group(recs)

\* What is still to be removed; the last one ends the save.
Removing(k, rest) ==
    /\ IF rest = {} THEN End(k) ELSE Go(k, "remove", call[k].recs, rest) /\ phase' = phase
    /\ exact' = IF rest = {} THEN k \notin crossed /\ call[k].recs = newest ELSE exact

List(k) ==
    /\ call[k].pc = "list"
    /\ Removing(k, Stale(call[k].recs))
    /\ UNCHANGED <<off, cool, files, saving, store, first, left, truth, newest,
                   crossed, doubt, trusted>>

Remove(k) ==
    /\ call[k].pc = "remove"
    /\ \E c \in call[k].todo :
        /\ files' = [files EXCEPT ![c] = None]
        /\ Removing(k, call[k].todo \ {c})
    /\ UNCHANGED <<off, cool, saving, store, first, left, truth, newest,
                   crossed, doubt, trusted>>

\* The first error ends the save.
SaveFails(k) ==
    /\ call[k].pc \in {"write", "remove"}
    /\ Spend("faults")
    /\ End(k)
    /\ exact' = FALSE
    /\ UNCHANGED <<off, cool, files, saving, store, first, truth, newest,
                   crossed, doubt, trusted>>

Save(k) ==
    \/ Snapshot(k) \/ Acquire(k)
    \/ Write(k) \/ List(k) \/ Remove(k) \/ SaveFails(k)

-----------------------------------------------------------------------------
(* RestoreCooldownStates                                                   *)

\* Load walks the directory without the mutex.
BeginLoad ==
    /\ call[Loader].pc = "begin"
    /\ Go(Loader, "load", Nothing, {c \in Creds : files[c] # None})
    /\ doubt' = (phase = "up" /\ ~(exact /\ \A k \in Callers : IsIdle(k)))
    /\ UNCHANGED <<phase, off, cool, files, saving, store, first, left, truth,
                   newest, crossed, exact, trusted>>

Read ==
    LET l == call[Loader] IN
    /\ l.pc = "load"
    /\ \E c \in l.todo :
           Go(Loader, "load", [l.recs EXCEPT ![c] = files[c]], l.todo \ {c})
    /\ UNCHANGED <<phase, off, cool, files, saving, store, first, left,
                   history>>

\* A file that cannot be read: nothing at all is restored.
ReadFails ==
    /\ call[Loader].pc = "load" /\ call[Loader].todo # {}
    /\ Spend("faults")
    /\ End(Loader)
    /\ trusted' = (trusted /\ phase = "up") /\ exact' = (exact /\ phase = "up")
    /\ UNCHANGED <<off, cool, files, saving, store, first, truth, newest,
                   crossed, doubt>>

\* restoreCooldownRecordLocked
Restored(c, r) == IF Live(r) = 0 \/ c \in off THEN cool[c] ELSE r

Agrees == \A c \in Creds : Live(cool[c]) = Live(truth[c])

\* Without a record the restore ends here; otherwise it saves what there is.
Apply ==
    LET l == call[Loader] IN
    /\ l.pc = "load" /\ l.todo = {}
    /\ cool' = [c \in Creds |-> Restored(c, l.recs[c])]
    /\ IF Group(l.recs) = {} THEN End(Loader)
       ELSE Go(Loader, "snapshot", Nothing, {}) /\ UNCHANGED phase
    /\ UNCHANGED <<off, files, saving, store, first, left, truth, newest,
                   crossed, exact, doubt>>
    /\ trusted' = ((trusted /\ ~doubt) \/ Agrees')

-----------------------------------------------------------------------------
(* The process                                                             *)

Unused == Stores \ ({store} \cup {call[k].store : k \in Calls})

\* configureCooldownStateStore: the store of a reload is a new one.  The
\* watcher's first callback reloads the configuration that is in force.
Reload(b) ==
    /\ phase = "up" /\ IsIdle(Loader) /\ Unused # {}
    /\ \/ Spend("events") /\ first' = first
       \/ /\ Loader \in first /\ b = saving
          /\ first' = first \ {Loader} /\ left' = left
    /\ saving' = b
    /\ store' = IF b THEN CHOOSE s \in Unused : TRUE ELSE NoStore
    /\ To(Loader, "clear")
    /\ UNCHANGED <<phase, off, cool, files, history>>

Without(f) == [c \in Creds |-> IF c \in off THEN None ELSE f[c]]

\* SetConfig clears what late results have given to disabled credentials.
Clear ==
    /\ call[Loader].pc = "clear"
    /\ cool' = Without(cool) /\ truth' = Without(truth)
    /\ IF cool' # cool
       THEN call' = [call EXCEPT ![Loader].pc = "snapshot", ![Loader].more = saving]
       ELSE IF saving THEN To(Loader, "begin") ELSE Return(Loader)
    /\ UNCHANGED <<phase, off, files, saving, store, first, left, newest,
                   crossed, exact, doubt, trusted>>

\* What is saved, and no more, survives.
Crash ==
    /\ phase # "down"
    /\ Spend("events")
    /\ phase' = "down"
    /\ cool' = Nothing /\ store' = NoStore
    /\ call' = [k \in Calls |-> Idle]
    /\ trusted' = (trusted /\ (phase = "up" =>
           store # NoStore /\ exact /\ AllIdle /\
           \A c \in off : Live(cool[c]) = 0))
    /\ first' = {} /\ crossed' = {} /\ doubt' = FALSE
    /\ UNCHANGED <<off, files, saving, truth, newest, exact>>

\* Run restores before it serves anything, if it is to: the files it leaves alone
\* are not what a process without a memory has saved.
Start ==
    /\ phase = "down"
    /\ phase' = IF saving THEN "boot" ELSE "up"
    /\ store' = IF saving THEN CHOOSE s \in Stores : TRUE ELSE NoStore
    /\ IF saving THEN To(Loader, "begin") ELSE UNCHANGED call
    /\ first' = Creds \cup {Loader}
    /\ exact' = (exact /\ saving)
    /\ UNCHANGED <<off, cool, files, saving, left, truth, newest, crossed,
                   doubt, trusted>>

Age(f) == [c \in Creds |-> IF Live(f[c]) = 0 THEN f[c] ELSE f[c] - 1]

Tick ==
    /\ cool' = Age(cool) /\ files' = Age(files) /\ truth' = Age(truth)
    /\ call' = [k \in Calls |-> [call[k] EXCEPT !.recs = Age(@)]]
    /\ newest' = IF newest = None THEN None ELSE Age(newest)
    /\ UNCHANGED <<phase, off, saving, store, first, left, crossed, exact,
                   doubt, trusted>>

-----------------------------------------------------------------------------
(* Specification                                                           *)

Init ==
    /\ phase = "up" /\ off = {}
    /\ cool = Nothing /\ files = Nothing
    /\ saving \in BOOLEAN
    /\ store = IF saving THEN CHOOSE s \in Stores : TRUE ELSE NoStore
    /\ call = [k \in Calls |-> Idle] /\ first = {}
    /\ left = [changes |-> MaxChanges, events |-> MaxEvents,
               faults |-> MaxFaults]
    /\ truth = Nothing /\ newest = Nothing /\ crossed = {}
    /\ exact = TRUE /\ doubt = FALSE /\ trusted = TRUE

Restore == Clear \/ BeginLoad \/ Read \/ ReadFails \/ Apply

Next ==
    \/ Changes
    \/ \E k \in Calls : Save(k)
    \/ Restore
    \/ \E b \in BOOLEAN : Reload(b)
    \/ Crash \/ Start
    \/ Tick

Spec == Init /\ [][Next]_vars

\* Reading, writing and waiting for a mutex come to an end.
FairSpec ==
    /\ Spec
    /\ \A k \in Calls : WF_vars(Save(k))
    /\ WF_vars(Restore)

-----------------------------------------------------------------------------
(* Properties                                                              *)

\* Types; at most one call is in the Save of a store, only the Loader reads,
\* and nothing runs in a process that is down.
TypeOK ==
    /\ phase \in {"boot", "up", "down"} /\ off \subseteq Creds
    /\ {cool, files, truth} \subseteq [Creds -> Rests]
    /\ newest \in [Creds -> Rests] \cup {None}
    /\ {saving, exact, doubt, trusted} \subseteq BOOLEAN
    /\ store \in Stores \cup {NoStore} /\ crossed \subseteq Calls
    /\ first \subseteq Creds \cup {Loader}
    /\ \A k \in Calls :
        /\ call[k].pc \in {"idle", "snapshot", "lock", "write", "list", "remove"}
                            \cup (IF k = Loader THEN {"clear", "begin", "load"} ELSE {})
        /\ call[k].store \in Stores \cup {NoStore}
        /\ call[k].recs \in [Creds -> Rests] /\ call[k].todo \subseteq Creds
        /\ call[k].more => k = Loader
    /\ \A j, k \in Calls :
        InSave(j) /\ InSave(k) /\ j # k => call[j].store # call[k].store
    /\ phase = "down" => AllIdle

\* Between calls the files hold the cooldowns in memory and no others, however
\* many calls changed them at a time and whatever saves failed or were cut off
\* before, as long as the last save to end was that of the newest snapshot and
\* met none of another store (persistCooldownStates, Save).  Excepted is what
\* nothing saves until a later save ends: a registration resets cooldowns so
\* (ReconcileRegistryModelStates), and after each start every credential is
\* registered; so do late results of a disabled credential, once it is enabled.
FilesAreCurrent ==
    /\ TypeOK
    /\ phase = "up" /\ AllIdle /\ exact /\ store # NoStore =>
           \A c \in Creds : Live(files[c]) = Live(Recorded(c))

\* The cooldowns in memory are those that results, switches and registrations
\* have made, over reloads, crashes at any point of a start and restarts: none
\* is lost, comes back or lasts longer (RestoreCooldownStates).  It does not say
\* that a cooldown of before a start goes on after it: the registration of its
\* credential wipes it.  Excepted are a file that a start cannot read, a crash
\* before everything was saved, and a reload that restores while something
\* changes or from files that were out of date, as they are after a registration.
MemoryIsTrue == phase = "up" /\ trusted => Agrees

\* Calls do not wait for each other for ever: all of them have returned again
\* and again, as long as there are finitely many (the stores' mutexes; a failed
\* write or a crash gives them back).
SavesEnd == []<>AllIdle

=============================================================================
