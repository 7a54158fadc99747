------------------------------ MODULE DataPlane ------------------------------
(***************************************************************************)
(* The Rust data plane as the Go process runs and feeds it: the service    *)
(* reconciles one child process with the configuration (service.go and     *)
(* supervisor.go), requests are routed to it while the configuration in    *)
(* force carries its address, and the child keeps a copy of the runtime    *)
(* snapshot, which it fetches at its start, on a poll and when it is       *)
(* notified (notifier.go, runtime.rs).                                     *)
(*                                                                         *)
(* The service, the server and the management handler share one            *)
(* configuration: a management save edits it in place and a reload         *)
(* replaces it.  A reload reads the file and installs it in one step, and  *)
(* none overtakes the watcher's callback at the start; how the watcher     *)
(* comes to reload, and PutConfigYAML, are left out.  All children use one *)
(* bind address.  An external data plane is a target of routing only.      *)
(* Usage statistics and the management key are on, and whether the child   *)
(* calls itself ready or degraded is left out: nothing here depends on it, *)
(* /readyz answers 200 either way.                                         *)
(***************************************************************************)
EXTENDS Naturals, FiniteSets, FiniteSetsExt

CONSTANTS
    Configs,    \* contents of the configuration file
    Mode,       \* [Configs -> {"embedded", "external", "disabled"}]
    Boot,       \* [Configs -> ...]: the bootstrap part, which a child is started with
    Unfit,      \* those no child can be started with: TLS, no fixed port
    Notes,      \* goroutines of notifySnapshotIfChanged at a time
    Poll,       \* the child's poll loop
    MaxStarts,  \* bound: children launched
    MaxEdits,   \* bound: changes of the configuration and the credentials
    MaxFaults   \* bound: launches, fetches and answers that fail, and children
                \* that die by themselves

ASSUME DataPlaneAssumption ==
    /\ DOMAIN Mode = Configs /\ DOMAIN Boot = Configs
    /\ \A c \in Configs : Mode[c] \in {"embedded", "external", "disabled"}
    /\ Unfit \subseteq Configs /\ Poll \notin Notes
    /\ {MaxStarts, MaxEdits, MaxFaults} \subseteq Nat

Children == 1..MaxStarts
Tasks    == Notes \cup {Poll}

VARIABLES
    file,     \* the configuration file
    pending,  \* whether it was written since it was last loaded
    cfg,      \* the configuration in force
    url,      \* whether it carries the child's address (RuntimeResponsesBaseURL)
    auths,    \* the exported credentials: one of two states
    phase,    \* of the service: "starting", "up", "down", or "abandoned" when
              \* it went down in the middle of a reconciliation
    held,     \* the service's supervisor, by the child it started, and the
              \* bootstrap configuration remembered with it
    rec,      \* reconcileEmbeddedDataPlane; "watch" when the watcher is started
    bridge,   \* where the usage bridge reads from
    known,    \* children whose supervisor still knows the process
    child,    \* [Children -> ...]: the processes
    last,     \* the notifier's lastVersion
    note,     \* [Notes -> ...]: NotifyIfChanged
    task,     \* [Tasks -> ...]: refresh_once in the child that runs
    applied,  \* the child's snapshot
    reported, \* the version in its metadata, which /readyz shows
    left,     \* what is left of the bounds
    calm,     \* history: every change was announced and the announcement was
              \* carried through before anything else happened
    torn      \* history: two refreshes have mixed up snapshot and metadata

goVars    == <<file, pending, cfg, url, auths>>
hostVars  == <<phase, held, rec, bridge, known>>
childVars == <<task, applied, reported>>
history   == <<calm, torn>>
vars == <<goVars, hostVars, child, last, note, childVars, left, history>>

-----------------------------------------------------------------------------
(* The snapshot and where requests go                                      *)

\* EffectiveResponsesBaseURL: the runtime address comes first.
Target(c, u) ==
    IF u THEN "child" ELSE IF Mode[c] = "external" THEN "external" ELSE "none"

\* BuildRuntimeSnapshot, by what its version is computed from: the address
\* routed to is a part of it.
Snapshot(c, u, a) == [cfg |-> c, url |-> u, auths |-> a]
Content == Snapshot(cfg, url, auths)
Versions == [cfg : Configs, url : BOOLEAN, auths : BOOLEAN]
NoVersion == [cfg |-> "none", url |-> FALSE, auths |-> FALSE]

\* What decides about a request: all but the address.
Same(v, w) == v.cfg = w.cfg /\ v.auths = w.auths

Running(p) == child[p] \in {"loaded", "serving"}
Serving == \E p \in Children : child[p] = "serving"
Active  == \E p \in Children : Running(p)

IdleNote == [pc |-> "idle", version |-> NoVersion]
IdleTask == [pc |-> "idle", version |-> NoVersion]
NoTasks  == [t \in Tasks |-> IdleTask]

\* The process ends and its memory with it.
Vanish == task' = NoTasks /\ applied' = NoVersion /\ reported' = NoVersion

Spend(what) == left[what] > 0 /\ left' = [left EXCEPT ![what] = @ - 1]

-----------------------------------------------------------------------------
(* Changes                                                                 *)

\* notifySnapshotIfChangedLocked: the goroutine takes a copy of the
\* configuration along and reads the credentials later.
Announce(c) ==
    \E n \in Notes :
        /\ note[n] = IdleNote /\ task[n] = IdleTask
        /\ note' = [note EXCEPT ![n] = [pc |-> "build",
                                        version |-> Snapshot(c, url, FALSE)]]

\* A management edit, in place, and persistLocked.
SaveConfig(c) ==
    /\ phase = "up" /\ c # cfg
    /\ Spend("edits")
    /\ cfg' = c /\ file' = c /\ pending' = TRUE
    /\ Announce(c)
    /\ UNCHANGED <<url, auths, hostVars, child, last, childVars>>

\* Somebody else writes the file.
EditFile(c) ==
    /\ phase = "up" /\ c # file
    /\ Spend("edits")
    /\ file' = c /\ pending' = TRUE
    /\ UNCHANGED <<cfg, url, auths, hostVars, child, last, note, childVars>>

\* The handlers of auth_files.go notify when the Manager has the change.
ChangeAuths ==
    /\ phase = "up"
    /\ Spend("edits")
    /\ auths' = ~auths
    /\ Announce(cfg)
    /\ UNCHANGED <<file, pending, cfg, url, hostVars, child, last, childVars>>

\* A result or a refresh changes what is exported: nobody is notified.
AuthsChange ==
    /\ phase = "up"
    /\ Spend("edits")
    /\ auths' = ~auths
    /\ UNCHANGED <<file, pending, cfg, url, hostVars, child, last, note,
                   childVars>>

Change ==
    \/ \E c \in Configs : SaveConfig(c) \/ EditFile(c)
    \/ ChangeAuths
    \/ AuthsChange

-----------------------------------------------------------------------------
(* The service and its supervisor                                          *)

NoChild == [proc |-> 0, boot |-> NoVersion]
Idle    == [pc |-> "idle", proc |-> 0, boot |-> NoVersion]

\* The service's first reconciliation decides whether it starts at all; if it
\* does, Run starts the watcher next.
Finish(ok) ==
    /\ rec' = IF phase = "starting" /\ ok THEN [Idle EXCEPT !.pc = "watch"] ELSE Idle
    /\ phase' = IF phase # "starting" THEN phase ELSE IF ok THEN "up" ELSE "down"

\* The watcher's start calls back at once, with the configuration Run gave it:
\* UpdateClients with the one in force, its address included.
FirstCallback ==
    /\ rec.pc = "watch"
    /\ bridge' = Target(cfg, url)
    /\ rec' = [Idle EXCEPT !.pc = "reconcile"]
    /\ UNCHANGED <<goVars, phase, held, known, child, last, note, childVars, left>>

\* UpdateClients: a configuration that was just read has no address yet, and
\* the bridge is reconciled with that.
Reload ==
    /\ phase = "up" /\ pending /\ rec.pc = "idle"
    /\ pending' = FALSE
    /\ cfg' = file /\ url' = FALSE
    /\ bridge' = Target(file, FALSE)
    /\ rec' = [Idle EXCEPT !.pc = "reconcile"]
    /\ UNCHANGED <<file, auths, phase, held, known, child, last, note,
                   childVars, left>>

Kill(p) ==
    IF child[p] \in {"dead", "reaped"} THEN UNCHANGED <<child, childVars>>
    ELSE /\ child' = [child EXCEPT ![p] = "killed"]
         /\ IF Running(p) THEN Vanish ELSE UNCHANGED childVars

\* Supervisor.Stop
Stop(p) ==
    IF p \in known THEN known' = known \ {p} /\ Kill(p)
    ELSE UNCHANGED <<known, child, childVars>>

\* Kill returns an error once Wait has returned.
StopFails(p) == p \in known /\ child[p] = "reaped"

WantsChild == Mode[cfg] = "embedded"

Disable ==
    /\ ~WantsChild
    /\ url' = FALSE
    /\ IF held.proc = 0 THEN UNCHANGED <<held, known, child, childVars>>
       ELSE /\ Stop(held.proc)
            /\ held' = IF StopFails(held.proc) THEN held ELSE NoChild
    /\ Finish(held.proc = 0 \/ ~StopFails(held.proc))

\* embeddedSupervisorConfig fails: a child that runs goes on without requests.
Refuse ==
    /\ WantsChild /\ cfg \in Unfit
    /\ url' = FALSE
    /\ Finish(FALSE)
    /\ UNCHANGED <<held, known, child, childVars>>

\* Mutant: a child with another bootstrap configuration is kept.
KeepAny ==
    /\ WantsChild /\ cfg \notin Unfit /\ held.proc # 0
    /\ url' = TRUE
    /\ Finish(TRUE)
    /\ UNCHANGED <<held, known, child, childVars>>

\* sameEmbeddedBootstrapConfig: whether the child still lives is not asked.
Keep ==
    /\ WantsChild /\ cfg \notin Unfit
    /\ held.proc # 0 /\ held.boot = Boot[cfg]
    /\ url' = TRUE
    /\ Finish(TRUE)
    /\ UNCHANGED <<held, known, child, childVars>>

Replace ==
    /\ WantsChild /\ cfg \notin Unfit /\ ~(held.proc # 0 /\ held.boot = Boot[cfg])
    /\ IF held.proc = 0 THEN UNCHANGED <<held, known, child, childVars>>
       ELSE /\ Stop(held.proc)
            /\ held' = IF StopFails(held.proc) THEN held ELSE NoChild
    /\ IF held.proc # 0 /\ StopFails(held.proc) THEN Finish(FALSE)
       ELSE /\ rec' = [pc |-> "launch", proc |-> 0, boot |-> Boot[cfg]]
            /\ UNCHANGED phase
    /\ UNCHANGED url

Reconcile ==
    /\ rec.pc = "reconcile"
    /\ Disable \/ Refuse \/ Keep \/ Replace
    /\ UNCHANGED <<file, pending, cfg, auths, bridge, last, note, left>>

\* Supervisor.Start up to the launch: the artifact, the logs, the process.
Launch ==
    /\ rec.pc = "launch"
    /\ \E p \in Children :
        /\ child[p] = "none" /\ \A q \in 1..(p - 1) : child[q] # "none"
        /\ child' = [child EXCEPT ![p] = "loading"]
        /\ known' = known \cup {p}
        /\ rec' = [pc |-> "wait", proc |-> p, boot |-> rec.boot]
    /\ UNCHANGED <<goVars, phase, held, bridge, last, note, childVars, left>>

LaunchFails ==
    /\ rec.pc = "launch"
    /\ Spend("faults")
    /\ url' = FALSE
    /\ Finish(FALSE)
    /\ UNCHANGED <<file, pending, cfg, auths, held, bridge, known, child, last,
                   note, childVars>>

\* HTTPReadinessChecker asks the address, not the process.
BecomesReady ==
    /\ rec.pc = "wait" /\ Serving
    /\ held' = [proc |-> rec.proc, boot |-> rec.boot]
    /\ url' = TRUE
    /\ Finish(TRUE)
    /\ UNCHANGED <<file, pending, cfg, auths, bridge, known, child, last, note,
                   childVars, left>>

\* Mutant: a child that was not ready in time goes on running.
StartTimesOutRunning ==
    /\ rec.pc = "wait"
    /\ url' = FALSE
    /\ Finish(FALSE)
    /\ UNCHANGED <<file, pending, cfg, auths, held, bridge, known, child, last,
                   note, childVars, left>>

\* StartupTimeout
StartTimesOut ==
    /\ rec.pc = "wait"
    /\ Stop(rec.proc)
    /\ url' = FALSE
    /\ Finish(FALSE)
    /\ UNCHANGED <<file, pending, cfg, auths, held, bridge, last, note, left>>

\* Service.Shutdown takes no lock of the reconciliation.
Shutdown ==
    /\ phase = "up"
    /\ phase' = IF rec.pc = "idle" THEN "down" ELSE "abandoned"
    /\ IF held.proc = 0 THEN UNCHANGED <<known, child, childVars>>
       ELSE Stop(held.proc)
    /\ held' = NoChild
    /\ bridge' = "none"
    /\ UNCHANGED <<goVars, rec, last, note, left>>

\* waitForExit: Wait returns, and then the supervisor takes its lock.
Reap(p) ==
    /\ child[p] = "dead" /\ p \in known
    /\ child' = [child EXCEPT ![p] = "reaped"]
    /\ UNCHANGED <<goVars, hostVars, last, note, childVars, left>>

Forget(p) ==
    /\ child[p] = "reaped" /\ p \in known
    /\ known' = known \ {p}
    /\ UNCHANGED <<goVars, phase, held, rec, bridge, child, last, note,
                   childVars, left>>

Service ==
    \/ FirstCallback \/ Reload \/ Reconcile
    \/ Launch \/ LaunchFails \/ BecomesReady \/ StartTimesOut
    \/ Shutdown
    \/ \E p \in Children : Reap(p) \/ Forget(p)

-----------------------------------------------------------------------------
(* The notifier                                                            *)

SetNote(n, pc, v) == note' = [note EXCEPT ![n] = [pc |-> pc, version |-> v]]
EndNote(n) == note' = [note EXCEPT ![n] = IdleNote]

\* Without an address to send to there is nobody to tell.
Build(n) ==
    LET v == note[n].version IN
    /\ note[n].pc = "build"
    /\ IF Target(v.cfg, v.url) = "none" THEN EndNote(n)
       ELSE SetNote(n, "compare", Snapshot(v.cfg, v.url, auths))
    /\ UNCHANGED <<goVars, hostVars, child, last, childVars, left>>

Compare(n) ==
    LET v == note[n].version IN
    /\ note[n].pc = "compare"
    /\ IF last = v THEN EndNote(n) ELSE SetNote(n, "post", v)
    /\ UNCHANGED <<goVars, hostVars, child, last, childVars, left>>

\* Mutant: the notification is accepted and nothing is started.
AcceptOnly(n) ==
    /\ note[n].pc = "post" /\ note[n].version.url /\ Serving
    /\ SetNote(n, "answered", note[n].version)
    /\ UNCHANGED <<goVars, hostVars, child, last, childVars, left>>

\* post_snapshot_notify: it starts a refresh and answers.
Accept(n) ==
    /\ note[n].pc = "post" /\ note[n].version.url /\ Serving
    /\ SetNote(n, "answered", note[n].version)
    /\ task' = [task EXCEPT ![n].pc = "start"]
    /\ UNCHANGED <<goVars, hostVars, child, last, applied, reported, left>>

\* The external data plane takes the notification, which is all we see.
AcceptOutside(n) ==
    /\ note[n].pc = "post" /\ ~note[n].version.url
    /\ SetNote(n, "answered", note[n].version)
    /\ UNCHANGED <<goVars, hostVars, child, last, childVars, left>>

\* Nobody listens.
PostFails(n) ==
    /\ note[n].pc = "post" /\ note[n].version.url /\ ~Serving
    /\ EndNote(n)
    /\ UNCHANGED <<goVars, hostVars, child, last, childVars, left>>

\* The answer does not arrive.
AnswerLost(n) ==
    /\ note[n].pc = "answered"
    /\ Spend("faults")
    /\ EndNote(n)
    /\ UNCHANGED <<goVars, hostVars, child, last, childVars>>

Answered(n) ==
    /\ note[n].pc = "answered"
    /\ last' = note[n].version
    /\ EndNote(n)
    /\ UNCHANGED <<goVars, hostVars, child, childVars, left>>

Notify(n) ==
    \/ Build(n) \/ Compare(n)
    \/ Accept(n) \/ AcceptOutside(n) \/ PostFails(n)
    \/ AnswerLost(n) \/ Answered(n)

-----------------------------------------------------------------------------
(* The child                                                               *)

\* The management server answers until the service goes down.
Fetchable == phase \in {"starting", "up"}

SetTask(t, pc, v) == task' = [task EXCEPT ![t] = [pc |-> pc, version |-> v]]

\* initial_load; the poll loop starts with it.
Load(p) ==
    /\ child[p] = "loading" /\ Fetchable
    /\ child' = [child EXCEPT ![p] = "loaded"]
    /\ applied' = Content /\ reported' = Content
    /\ UNCHANGED <<goVars, hostVars, last, note, task, left>>

\* Without a snapshot the process gives up.
LoadFails(p) ==
    /\ child[p] = "loading"
    /\ IF Fetchable THEN Spend("faults") ELSE UNCHANGED left
    /\ child' = [child EXCEPT ![p] = "dead"]
    /\ UNCHANGED <<goVars, hostVars, last, note, childVars>>

\* The address is taken as long as a killed child has not ended.
Bind(p) ==
    /\ child[p] = "loaded"
    /\ LET free == \A q \in Children : child[q] # "killed" IN
        /\ child' = [child EXCEPT ![p] = IF free THEN "serving" ELSE "dead"]
        /\ IF free THEN UNCHANGED childVars ELSE Vanish
    /\ UNCHANGED <<goVars, hostVars, last, note, left>>

Crash(p) ==
    /\ child[p] \in {"loading", "loaded", "serving"}
    /\ Spend("faults")
    /\ child' = [child EXCEPT ![p] = "dead"]
    /\ IF Running(p) THEN Vanish ELSE UNCHANGED childVars
    /\ UNCHANGED <<goVars, hostVars, last, note>>

Exit(p) ==
    /\ child[p] = "killed"
    /\ child' = [child EXCEPT ![p] = "dead"]
    /\ UNCHANGED <<goVars, hostVars, last, note, childVars, left>>

Process(p) == Load(p) \/ LoadFails(p) \/ Bind(p) \/ Exit(p)

\* refresh_once remembers the version it has before it asks.
PollTick ==
    /\ Active /\ task[Poll] = IdleTask
    /\ SetTask(Poll, "fetch", applied)
    /\ UNCHANGED <<goVars, hostVars, child, last, note, applied, reported, left>>

StartRefresh(t) ==
    /\ task[t].pc = "start"
    /\ SetTask(t, "fetch", applied)
    /\ UNCHANGED <<goVars, hostVars, child, last, note, applied, reported, left>>

\* Mutant: the fetched version is compared with what /readyz shows.
ChangedFromReported(seen, v) == reported # v

\* snapshot_changed
Changed(seen, v) == seen # v

Fetch(t) ==
    /\ task[t].pc = "fetch" /\ Fetchable
    /\ IF Changed(task[t].version, Content) THEN SetTask(t, "apply", Content)
       ELSE task' = [task EXCEPT ![t] = IdleTask]
    /\ UNCHANGED <<goVars, hostVars, child, last, note, applied, reported, left>>

\* The child goes on with the snapshot it has.
FetchFails(t) ==
    /\ task[t].pc = "fetch"
    /\ IF Fetchable THEN Spend("faults") ELSE UNCHANGED left
    /\ task' = [task EXCEPT ![t] = IdleTask]
    /\ UNCHANGED <<goVars, hostVars, child, last, note, applied, reported>>

\* Mutant: the metadata is left as it was.
StoreOnly(t) ==
    /\ task[t].pc = "apply"
    /\ applied' = task[t].version
    /\ task' = [task EXCEPT ![t] = IdleTask]
    /\ UNCHANGED <<goVars, hostVars, child, last, note, reported, left>>

\* apply_snapshot stores the snapshot and then, under a lock of its own, the
\* version of it.
Store(t) ==
    /\ task[t].pc = "apply"
    /\ applied' = task[t].version
    /\ SetTask(t, "report", task[t].version)
    /\ UNCHANGED <<goVars, hostVars, child, last, note, reported, left>>

Report(t) ==
    /\ task[t].pc = "report"
    /\ reported' = task[t].version
    /\ task' = [task EXCEPT ![t] = IdleTask]
    /\ UNCHANGED <<goVars, hostVars, child, last, note, applied, left>>

Refresh(t) ==
    StartRefresh(t) \/ Fetch(t) \/ FetchFails(t) \/ Store(t) \/ Report(t)

-----------------------------------------------------------------------------
(* History and specification                                               *)

Rounds == {n \in Notes : note[n] # IdleNote} \cup {t \in Tasks : task[t] # IdleTask}

\* The child serves what is in force and the notifier will not take a change
\* for known: what it remembers is this version or one without the address.
Settled ==
    /\ Serving /\ url /\ Rounds = {} /\ Same(applied, Content)
    /\ (last = Content) \/ ~last.url

\* A note that is not delivered or not answered, and a fetch that fails.
Lost ==
    \/ \E n \in Notes :
        /\ \/ note[n].pc \in {"build", "post"}
           \/ note[n].pc = "answered" /\ left' # left
        /\ note'[n] = IdleNote
    \/ \E t \in Tasks : task[t].pc = "fetch" /\ task'[t] = IdleTask /\ left' # left

Lapse ==
    \/ Content' # Content /\ note' = note
    \/ Cardinality(Rounds') > 1
    \/ Lost
    \/ ~(Serving' /\ url' /\ phase' = "up")

History ==
    /\ calm' = ((calm \/ Settled') /\ ~Lapse)
    /\ torn' = \/ \E t, u \in Tasks : /\ t # u /\ task[t].pc = "apply"
                                      /\ task'[t].pc = "report"
                                      /\ task[u].pc = "report"
               \/ torn /\ ~(applied' = reported' /\ Rounds' = {})

Init ==
    /\ \E c \in Configs :
        /\ file = c /\ cfg = c
        /\ bridge = Target(c, FALSE)
        /\ last = Snapshot(c, FALSE, FALSE)
    /\ pending = FALSE /\ url = FALSE /\ auths = FALSE
    /\ phase = "starting"
    /\ held = NoChild /\ rec = [Idle EXCEPT !.pc = "reconcile"]
    /\ known = {} /\ child = [p \in Children |-> "none"]
    /\ note = [n \in Notes |-> IdleNote] /\ task = NoTasks
    /\ applied = NoVersion /\ reported = NoVersion
    /\ left = [edits |-> MaxEdits, faults |-> MaxFaults]
    /\ calm = FALSE /\ torn = FALSE

Next ==
    /\ \/ Change
       \/ Service
       \/ \E n \in Notes : Notify(n)
       \/ \E p \in Children : Process(p) \/ Crash(p)
       \/ PollTick
       \/ \E t \in Tasks : Refresh(t)
    /\ History

Spec == Init /\ [][Next]_vars

\* A refresh goes on once it runs, and the poll's interval keeps ticking.
Fairness ==
    /\ WF_vars(PollTick /\ History)
    /\ \A t \in Tasks : WF_vars(Refresh(t) /\ History)

FairSpec == Spec /\ Fairness

-----------------------------------------------------------------------------
(* Properties                                                              *)

ProcessStates ==
    {"none", "loading", "loaded", "serving", "killed", "dead", "reaped"}
NoteStages == {"idle", "build", "compare", "post", "answered"}
TaskStages == {"idle", "start", "fetch", "apply", "report"}
Copies     == Versions \cup {NoVersion}

\* Every part of the state has the form the code gives it.
TypeOK ==
    /\ file \in Configs /\ cfg \in Configs
    /\ pending \in BOOLEAN /\ url \in BOOLEAN /\ auths \in BOOLEAN
    /\ phase \in {"starting", "up", "down", "abandoned"}
    /\ held.proc \in Children \cup {0}
    /\ rec.pc \in {"idle", "watch", "reconcile", "launch", "wait"}
    /\ rec.proc \in Children \cup {0}
    /\ bridge \in {"none", "external", "child"}
    /\ known \subseteq Children
    /\ child \in [Children -> ProcessStates]
    /\ last \in Versions
    /\ note \in [Notes -> [pc : NoteStages, version : Copies]]
    /\ task \in [Tasks -> [pc : TaskStages, version : Copies]]
    /\ applied \in Copies /\ reported \in Copies
    /\ left \in [edits : Nat, faults : Nat]
    /\ calm \in BOOLEAN /\ torn \in BOOLEAN

\* Every process that has not been killed belongs to the supervisor the service
\* holds or to the one it is just starting, which still knows it, however
\* starts fail or time out and configurations change meanwhile; and once the
\* service is down, unless it went down during a reconciliation, none is left
\* (reconcileEmbeddedDataPlane, Supervisor.Start and Stop).
ChildHasOwner ==
    \A p \in Children :
        child[p] \in {"loading", "loaded", "serving"} =>
            p \in known /\ p \in {held.proc, rec.proc} /\ phase # "down"

\* Requests are sent to the child's address only when the service holds a child
\* that was started with the bootstrap configuration now in force; in the
\* meantime between an edit and the reload that follows it they may be
\* (RuntimeResponsesBaseURL).
RoutedAsConfigured ==
    phase = "up" /\ rec.pc = "idle" /\ ~pending /\ url =>
        /\ WantsChild /\ cfg \notin Unfit
        /\ held.proc # 0 /\ held.boot = Boot[cfg]

\* A change that is announced while nothing else goes on, the service does not
\* go down either, is what the child works with when the announcement has been
\* dealt with: not taken for known by the notifier, not lost between the
\* notification and the fetch, and not taken for unchanged by the child
\* (NotifyIfChanged, post_snapshot_notify, refresh_once).
AnnouncedIsApplied == calm /\ Rounds = {} => Same(applied, Content)

\* The version /readyz shows is the one the child works with, unless two
\* refreshes have stored their results at the same time (apply_snapshot).
ReportedIsApplied == Active /\ Rounds = {} /\ ~torn => reported = applied

\* However notifications are lost or suppressed, a refresh by notification and
\* one by poll overlap, and changes go unannounced, in the end a child that
\* serves has the configuration and the credentials in force
\* (spawn_refresh_loop).
SnapshotConverges == <>[](Serving /\ phase = "up" => Same(applied, Content))

\* While requests are routed to a data plane its usage records are bridged into
\* the queue of the Go process (UpdateClients, reconcileDataPlaneUsageBridge).
BridgeFollowsRouting ==
    phase = "up" /\ rec.pc = "idle" /\ ~pending => bridge = Target(cfg, url)

=============================================================================
