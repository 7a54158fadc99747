--------------------------- MODULE DataPlaneProofs --------------------------
(***************************************************************************)
(* Proofs about DataPlane for every set of configurations and any number   *)
(* of children, changes, faults and notifications at a time.               *)
(***************************************************************************)
EXTENDS DataPlane, FiniteSetTheorems, TLAPS

-----------------------------------------------------------------------------
(* ChildHasOwner                                                           *)

Live(p) == child[p] \in {"loading", "loaded", "serving"}

\* The supervisor that reconciliation starts is not yet the one that is held.
OwnerInv ==
    /\ child \in [Children -> ProcessStates]
    /\ held.proc \in Children \cup {0}
    /\ rec.pc \in {"idle", "watch", "reconcile", "launch", "wait"}
    /\ rec.pc = "wait" => rec.proc \in Children
    /\ rec.pc # "wait" => rec.proc = 0
    /\ rec.pc \in {"launch", "wait"} => held.proc = 0
    /\ phase = "starting" => held.proc = 0
    /\ phase = "down" => rec.pc = "idle"
    /\ ChildHasOwner

LEMMA ZeroIsNoChild == 0 \notin Children
BY DataPlaneAssumption DEF DataPlaneAssumption, Children

\* Stop ends the child it is for, and no other.
LEMMA StopEndsOne ==
    ASSUME child \in [Children -> ProcessStates], NEW p \in Children,
           Live(p) => p \in known, Stop(p)
    PROVE  /\ child' \in [Children -> ProcessStates]
           /\ \A q \in Children : Live(q)' => Live(q) /\ q # p
           /\ \A q \in known : q # p => q \in known'
<1>1. CASE p \notin known
    BY <1>1 DEF Stop, Live
<1>2. CASE p \in known /\ child[p] \in {"dead", "reaped"}
    BY <1>2 DEF Stop, Kill, Live
<1>3. CASE p \in known /\ child[p] \notin {"dead", "reaped"}
    <2>1. known' = known \ {p} /\ child' = [child EXCEPT ![p] = "killed"]
        BY <1>3 DEF Stop, Kill
    <2>2. "killed" \in ProcessStates
        BY DEF ProcessStates
    <2>3. child' \in [Children -> ProcessStates]
        BY <2>1, <2>2
    <2>4. \A q \in Children : Live(q)' => Live(q) /\ q # p
        BY <2>1 DEF Live
    <2>. QED BY <2>1, <2>3, <2>4
<1>. QED BY <1>1, <1>2, <1>3

\* A held supervisor is stopped, if there is one, and then nothing lives that
\* a reconciliation has not started.
LEMMA StopHeld ==
    ASSUME OwnerInv,
           IF held.proc = 0 THEN UNCHANGED <<known, child, childVars>>
                            ELSE Stop(held.proc)
    PROVE  /\ child' \in [Children -> ProcessStates]
           /\ \A q \in Children :
                 Live(q)' => Live(q) /\ q \in known' /\ q = rec.proc
<1>1. CASE held.proc = 0
    BY <1>1, ZeroIsNoChild DEF OwnerInv, ChildHasOwner, Live
<1>2. CASE held.proc # 0
    <2>1. held.proc \in Children /\ Stop(held.proc)
        BY <1>2 DEF OwnerInv
    <2>2. Live(held.proc) => held.proc \in known
        BY <2>1 DEF OwnerInv, ChildHasOwner, Live
    <2>. QED BY <2>1, <2>2, StopEndsOne DEF OwnerInv, ChildHasOwner, Live
<1>. QED BY <1>1, <1>2

\* Nothing lives while the service starts and has not launched a child, nor
\* while it holds none.
LEMMA NothingLives ==
    ASSUME OwnerInv, held.proc = 0, rec.pc # "wait", NEW q \in Children
    PROVE  ~Live(q)
BY ZeroIsNoChild DEF OwnerInv, ChildHasOwner, Live

\* The end of a reconciliation.
LEMMA FinishOwned ==
    ASSUME OwnerInv, NEW ok \in BOOLEAN, Finish(ok), rec.pc # "idle",
           child' \in [Children -> ProcessStates],
           held'.proc \in Children \cup {0},
           phase = "starting" /\ ~ok => held'.proc = 0,
           \A q \in Children : Live(q)' => q \in known' /\ q = held'.proc
    PROVE  OwnerInv'
<1>1. rec'.pc \in {"idle", "watch"} /\ rec'.proc = 0
    BY DEF Finish, Idle
<1>5. phase' = "down" => rec'.pc = "idle"
    BY DEF Finish, Idle, OwnerInv
<1>2. phase # "down" /\ phase' # "starting"
    BY DEF OwnerInv, Finish
<1>3. phase' = "down" => phase = "starting" /\ ~ok
    BY <1>2 DEF Finish
<1>4. ChildHasOwner'
    BY <1>3, ZeroIsNoChild DEF ChildHasOwner, Live
<1>. QED BY <1>1, <1>2, <1>4, <1>5 DEF OwnerInv

LEMMA ReconcileOwned ==
    ASSUME OwnerInv, Reconcile
    PROVE  OwnerInv'
<1>1. rec.pc = "reconcile" /\ rec.proc = 0 /\ held.proc \in Children \cup {0}
    BY DEF OwnerInv, Reconcile
<1>2. CASE Disable
    <2>1. IF held.proc = 0 THEN UNCHANGED <<known, child, childVars>>
                           ELSE Stop(held.proc)
        BY <1>2 DEF Disable
    <2>2. /\ child' \in [Children -> ProcessStates]
          /\ \A q \in Children : ~Live(q)'
        BY <1>1, <2>1, StopHeld, ZeroIsNoChild
    <2>3. held' = held \/ held' = NoChild
        BY <1>2 DEF Disable
    <2>4. held'.proc \in Children \cup {0}
        BY <1>1, <2>3 DEF NoChild
    <2>5. phase = "starting" => held'.proc = 0
        BY <2>3 DEF OwnerInv, NoChild
    <2>6. PICK ok \in BOOLEAN : Finish(ok)
        BY <1>2 DEF Disable
    <2>. QED BY <1>1, <2>2, <2>4, <2>5, <2>6, FinishOwned
<1>3. CASE Refuse \/ Keep
    <2>1. UNCHANGED <<held, known, child>>
        BY <1>3 DEF Refuse, Keep
    <2>2. PICK ok \in BOOLEAN : Finish(ok)
        BY <1>3 DEF Refuse, Keep
    <2>3. \A q \in Children : Live(q)' => q \in known' /\ q = held'.proc
        BY <1>1, <2>1, ZeroIsNoChild DEF OwnerInv, ChildHasOwner, Live
    <2>4. child' \in [Children -> ProcessStates] /\ held'.proc \in Children \cup {0}
          /\ (phase = "starting" => held'.proc = 0)
        BY <2>1 DEF OwnerInv
    <2>. QED BY <1>1, <2>2, <2>3, <2>4, FinishOwned
<1>4. CASE Replace
    <2>1. IF held.proc = 0 THEN UNCHANGED <<known, child, childVars>>
                           ELSE Stop(held.proc)
        BY <1>4 DEF Replace
    <2>2. /\ child' \in [Children -> ProcessStates]
          /\ \A q \in Children : ~Live(q)'
        BY <1>1, <2>1, StopHeld, ZeroIsNoChild
    <2>3. CASE held.proc # 0 /\ StopFails(held.proc)
        <3>1. Finish(FALSE) /\ held' = held
            BY <1>4, <2>3 DEF Replace
        <3>2. phase # "starting"
            BY <2>3 DEF OwnerInv
        <3>. QED BY <1>1, <2>2, <3>1, <3>2, FinishOwned
    <2>4. CASE ~(held.proc # 0 /\ StopFails(held.proc))
        <3>1. /\ rec' = [pc |-> "launch", proc |-> 0, boot |-> Boot[cfg]]
              /\ phase' = phase
            BY <1>4, <2>4 DEF Replace
        <3>2. held'.proc = 0
            <4>1. CASE held.proc = 0
                BY <1>4, <4>1 DEF Replace
            <4>2. CASE held.proc # 0
                <5>1. held' = NoChild
                    BY <1>4, <2>4, <4>2 DEF Replace
                <5>. QED BY <5>1 DEF NoChild
            <4>. QED BY <4>1, <4>2
        <3>3. rec'.pc = "launch" /\ rec'.proc = 0 /\ phase' # "down"
            BY <1>1, <3>1 DEF OwnerInv
        <3>4. ChildHasOwner'
            BY <2>2 DEF ChildHasOwner, Live
        <3>. QED BY <2>2, <3>2, <3>3, <3>4 DEF OwnerInv
    <2>. QED BY <2>3, <2>4
<1>. QED BY <1>2, <1>3, <1>4 DEF Reconcile

LEMMA StartOwned ==
    ASSUME OwnerInv, Launch \/ LaunchFails \/ BecomesReady \/ StartTimesOut
    PROVE  OwnerInv'
<1>1. CASE Launch
    <2>1. PICK p \in Children :
              /\ child[p] = "none"
              /\ child' = [child EXCEPT ![p] = "loading"]
              /\ known' = known \cup {p}
              /\ rec' = [pc |-> "wait", proc |-> p, boot |-> rec.boot]
        BY <1>1 DEF Launch
    <2>2. rec.pc = "launch" /\ UNCHANGED <<held, phase>>
        BY <1>1 DEF Launch
    <2>3. held.proc = 0 /\ phase # "down"
        BY <2>2 DEF OwnerInv
    <2>4. \A q \in Children : ~Live(q)
        BY <2>2, <2>3, NothingLives
    <2>5. child' \in [Children -> ProcessStates]
        BY <2>1 DEF OwnerInv, ProcessStates
    <2>6. ChildHasOwner'
        <3>. SUFFICES ASSUME NEW q \in Children, Live(q)'
                      PROVE  q \in known' /\ q = rec'.proc /\ phase' # "down"
            BY DEF ChildHasOwner, Live
        <3>1. q = p
            BY <2>1, <2>4 DEF OwnerInv, Live
        <3>. QED BY <2>1, <2>2, <2>3, <3>1
    <2>7. rec'.pc = "wait" /\ rec'.proc \in Children
        BY <2>1
    <2>. QED BY <2>2, <2>3, <2>5, <2>6, <2>7 DEF OwnerInv
<1>2. CASE LaunchFails
    <2>1. rec.pc = "launch" /\ Finish(FALSE) /\ UNCHANGED <<held, known, child>>
        BY <1>2 DEF LaunchFails
    <2>2. held.proc = 0
        BY <2>1 DEF OwnerInv
    <2>3. \A q \in Children : ~Live(q)'
        BY <2>1, <2>2, NothingLives DEF Live
    <2>. QED BY <2>1, <2>2, <2>3, FinishOwned DEF OwnerInv
<1>3. CASE BecomesReady
    <2>1. /\ rec.pc = "wait" /\ Finish(TRUE) /\ UNCHANGED <<known, child>>
          /\ held'.proc = rec.proc
        BY <1>3 DEF BecomesReady
    <2>2. \A q \in Children : Live(q)' => q \in known' /\ q = held'.proc
        BY <2>1, ZeroIsNoChild DEF OwnerInv, ChildHasOwner, Live
    <2>. QED BY <2>1, <2>2, FinishOwned DEF OwnerInv
<1>4. CASE StartTimesOut
    <2>1. /\ rec.pc = "wait" /\ Finish(FALSE) /\ Stop(rec.proc)
          /\ held' = held
        BY <1>4 DEF StartTimesOut
    <2>2. rec.proc \in Children /\ held.proc = 0
        BY <2>1 DEF OwnerInv
    <2>3. /\ child' \in [Children -> ProcessStates]
          /\ \A q \in Children : Live(q)' => Live(q) /\ q # rec.proc
        BY <2>1, <2>2, StopEndsOne DEF OwnerInv, ChildHasOwner, Live
    <2>4. \A q \in Children : ~Live(q)'
        BY <2>2, <2>3, ZeroIsNoChild DEF OwnerInv, ChildHasOwner, Live
    <2>. QED BY <2>1, <2>2, <2>3, <2>4, FinishOwned
<1>. QED BY <1>1, <1>2, <1>3, <1>4

LEMMA ShutdownOwned ==
    ASSUME OwnerInv, Shutdown
    PROVE  OwnerInv'
<1>1. /\ phase' = IF rec.pc = "idle" THEN "down" ELSE "abandoned"
      /\ held'.proc = 0 /\ rec' = rec
    BY DEF Shutdown, NoChild
<1>2. /\ child' \in [Children -> ProcessStates]
      /\ \A q \in Children : Live(q)' => q \in known' /\ q = rec.proc
    BY StopHeld DEF Shutdown
<1>3. rec.pc = "idle" => rec.proc = 0
    BY DEF OwnerInv
<1>4. ChildHasOwner'
    BY <1>1, <1>2, <1>3, ZeroIsNoChild DEF ChildHasOwner, Live
<1>. QED BY <1>1, <1>2, <1>4 DEF OwnerInv

\* The processes end of themselves; nothing else starts one.
LEMMA ElsewhereOwned ==
    ASSUME OwnerInv,
           \/ Change \/ FirstCallback \/ Reload \/ PollTick
           \/ \E n \in Notes : Notify(n)
           \/ \E t \in Tasks : Refresh(t)
           \/ \E p \in Children : Process(p) \/ Crash(p) \/ Reap(p) \/ Forget(p)
    PROVE  OwnerInv'
<1>1. CASE \/ Change \/ PollTick
           \/ \E n \in Notes : Notify(n)
           \/ \E t \in Tasks : Refresh(t)
    <2>1. UNCHANGED <<phase, held, rec, known, child>>
        BY <1>1 DEF Change, SaveConfig, EditFile, ChangeAuths, AuthsChange,
               PollTick, Notify, Build, Compare, Accept, AcceptOutside,
               PostFails, AnswerLost, Answered, Refresh, StartRefresh, Fetch,
               FetchFails, Store, Report, hostVars
    <2>. QED BY <2>1 DEF OwnerInv, ChildHasOwner
<1>2. CASE FirstCallback \/ Reload
    <2>1. /\ rec'.pc = "reconcile" /\ rec'.proc = 0 /\ phase # "down"
          /\ rec.pc \in {"watch", "idle"} /\ UNCHANGED <<phase, held, known, child>>
        BY <1>2 DEF FirstCallback, Reload, Idle, OwnerInv
    <2>2. ChildHasOwner'
        BY <2>1 DEF OwnerInv, ChildHasOwner
    <2>. QED BY <2>1, <2>2 DEF OwnerInv
<1>3. CASE \E p \in Children : Process(p) \/ Crash(p) \/ Reap(p)
    <2>1. PICK p \in Children : Process(p) \/ Crash(p) \/ Reap(p)
        BY <1>3
    <2>2. PICK s \in ProcessStates : /\ child' = [child EXCEPT ![p] = s]
                                     /\ s \in {"loaded", "serving"} => Live(p)
                                     /\ s # "loading"
        BY <2>1 DEF Process, Load, LoadFails, Bind, Exit, Crash, Reap,
                    ProcessStates, Live
    <2>3. UNCHANGED <<phase, held, rec, known>>
        BY <2>1 DEF Process, Load, LoadFails, Bind, Exit, Crash, Reap, hostVars
    <2>4. child' \in [Children -> ProcessStates]
        BY <2>2 DEF OwnerInv
    <2>5. \A q \in Children : Live(q)' => Live(q)
        BY <2>2 DEF OwnerInv, Live
    <2>6. ChildHasOwner'
        BY <2>3, <2>5 DEF OwnerInv, ChildHasOwner, Live
    <2>. QED BY <2>3, <2>4, <2>6 DEF OwnerInv
<1>4. CASE \E p \in Children : Forget(p)
    <2>1. PICK p \in Children : Forget(p)
        BY <1>4
    <2>2. /\ child[p] = "reaped" /\ known' = known \ {p}
          /\ UNCHANGED <<phase, held, rec, child>>
        BY <2>1 DEF Forget
    <2>3. ChildHasOwner'
        BY <2>2 DEF OwnerInv, ChildHasOwner
    <2>. QED BY <2>2, <2>3 DEF OwnerInv
<1>. QED BY <1>1, <1>2, <1>3, <1>4

LEMMA OwnerInvStep == OwnerInv /\ [Next]_vars => OwnerInv'
<1>. SUFFICES ASSUME OwnerInv, [Next]_vars PROVE OwnerInv'
    OBVIOUS
<1>1. CASE Next
    BY <1>1, ReconcileOwned, StartOwned, ShutdownOwned, ElsewhereOwned
    DEF Next, Service
<1>2. CASE UNCHANGED vars
    BY <1>2 DEF vars, hostVars, OwnerInv, ChildHasOwner
<1>. QED BY <1>1, <1>2

LEMMA OwnerInvariant == Spec => []OwnerInv
<1>1. Init => OwnerInv
    BY DEF Init, OwnerInv, ChildHasOwner, NoChild, Idle, ProcessStates
<1>2. OwnerInv /\ [Next]_vars => OwnerInv'
    BY OwnerInvStep
<1>. QED BY <1>1, <1>2, PTL DEF Spec

\* No child is left without a supervisor that knows it, however starts fail
\* or time out; and none is left when the service is down, unless it went
\* down in the middle of a reconciliation.
THEOREM EveryChildIsOwned == Spec => []ChildHasOwner
<1>1. OwnerInv => ChildHasOwner
    BY DEF OwnerInv
<1>. QED BY <1>1, OwnerInvariant, PTL

-----------------------------------------------------------------------------
(* RoutedAsConfigured                                                      *)

Fits(boot) == WantsChild /\ cfg \notin Unfit /\ boot = Boot[cfg]

\* Unless the configuration has been edited since it was loaded, the child
\* that is being started, and the one that is routed to, are those it asks
\* for; and nothing is routed before the service is up.
RouteInv ==
    /\ phase = "starting" => ~url
    /\ rec.pc \in {"launch", "wait"} /\ ~pending => Fits(rec.boot)
    /\ rec.pc \in {"idle", "watch", "reconcile"} /\ phase = "up" /\ ~pending /\ url =>
          Fits(held.boot) /\ held.proc # 0

\* Without an address there is nothing to show but the end.
LEMMA UnroutedEnd ==
    ASSUME NEW ok \in BOOLEAN, Finish(ok), ~url'
    PROVE  RouteInv'
BY DEF Finish, Idle, RouteInv

LEMMA ReconcileRoutes ==
    ASSUME RouteInv, Reconcile
    PROVE  RouteInv'
<1>1. UNCHANGED <<cfg, pending>> /\ rec.pc = "reconcile"
    BY DEF Reconcile
<1>2. ASSUME Disable \/ Refuse PROVE RouteInv'
    <2>1. ~url'
        BY <1>2 DEF Disable, Refuse
    <2>2. \E ok \in BOOLEAN : Finish(ok)
        BY <1>2 DEF Disable, Refuse
    <2>. QED BY <2>1, <2>2, UnroutedEnd
<1>3. CASE Keep
    <2>1. Fits(held.boot) /\ held.proc # 0 /\ held' = held
        BY <1>3 DEF Keep, Fits
    <2>2. rec'.pc \in {"idle", "watch"} /\ phase' # "starting"
        BY <1>3 DEF Keep, Finish, Idle
    <2>. QED BY <1>1, <2>1, <2>2 DEF RouteInv, Fits, WantsChild
<1>4. CASE Replace
    <2>1. WantsChild /\ cfg \notin Unfit /\ url' = url
        BY <1>4 DEF Replace
    <2>2. CASE held.proc # 0 /\ StopFails(held.proc)
        <3>1. Finish(FALSE) /\ held' = held
            BY <1>4, <2>2 DEF Replace
        <3>2. rec'.pc = "idle" /\ phase' # "starting" /\ (phase' = "up" => phase = "up")
            BY <3>1 DEF Finish, Idle
        <3>3. phase = "up" /\ ~pending => ~url
            BY <1>1, <1>4 DEF RouteInv, Fits, Replace
        <3>. QED BY <1>1, <2>1, <3>1, <3>2, <3>3 DEF RouteInv
    <2>3. CASE ~(held.proc # 0 /\ StopFails(held.proc))
        <3>1. rec' = [pc |-> "launch", proc |-> 0, boot |-> Boot[cfg]]
            BY <1>4, <2>3 DEF Replace
        <3>2. rec'.pc = "launch" /\ rec'.boot = Boot[cfg]
            BY <3>1
        <3>3. phase' = phase
            BY <1>4, <2>3 DEF Replace
        <3>. QED BY <1>1, <2>1, <3>2, <3>3 DEF RouteInv, Fits, WantsChild
    <2>. QED BY <2>2, <2>3
<1>. QED BY <1>2, <1>3, <1>4 DEF Reconcile

LEMMA StartRoutes ==
    ASSUME RouteInv, OwnerInv,
           Launch \/ LaunchFails \/ BecomesReady \/ StartTimesOut
    PROVE  RouteInv'
<1>1. CASE Launch
    <2>1. rec.pc = "launch" /\ UNCHANGED <<goVars, phase, held>>
        BY <1>1 DEF Launch
    <2>2. \E p \in Children :
              rec' = [pc |-> "wait", proc |-> p, boot |-> rec.boot]
        BY <1>1 DEF Launch
    <2>3. rec'.pc = "wait" /\ rec'.boot = rec.boot
        BY <2>2
    <2>. QED BY <2>1, <2>3 DEF goVars, RouteInv, Fits, WantsChild
<1>2. CASE LaunchFails \/ StartTimesOut
    BY <1>2, UnroutedEnd DEF LaunchFails, StartTimesOut
<1>3. CASE BecomesReady
    <2>1. /\ rec.pc = "wait" /\ rec'.pc \in {"idle", "watch"} /\ phase' # "starting"
          /\ UNCHANGED <<cfg, pending>>
          /\ held'.proc = rec.proc /\ held'.boot = rec.boot
        BY <1>3 DEF BecomesReady, Finish, Idle
    <2>2. rec.proc # 0
        BY <2>1, ZeroIsNoChild DEF OwnerInv
    <2>. QED BY <2>1, <2>2 DEF RouteInv, Fits, WantsChild
<1>. QED BY <1>1, <1>2, <1>3

LEMMA ElsewhereRoutes ==
    ASSUME RouteInv, Next, ~Reconcile,
           ~(Launch \/ LaunchFails \/ BecomesReady \/ StartTimesOut)
    PROVE  RouteInv'
<1>1. CASE \/ AuthsChange \/ ChangeAuths \/ PollTick
           \/ \E n \in Notes : Notify(n)
           \/ \E t \in Tasks : Refresh(t)
           \/ \E p \in Children : Process(p) \/ Crash(p) \/ Reap(p) \/ Forget(p)
    <2>1. UNCHANGED <<phase, held, rec, cfg, pending, url>>
        BY <1>1 DEF AuthsChange, ChangeAuths, PollTick, Notify, Build, Compare,
               Accept, AcceptOutside, PostFails, AnswerLost, Answered, Refresh,
               StartRefresh, Fetch, FetchFails, Store, Report, Process, Load,
               LoadFails, Bind, Exit, Crash, Reap, Forget, hostVars, goVars
    <2>. QED BY <2>1 DEF RouteInv, Fits, WantsChild
<1>2. CASE \E c \in Configs : SaveConfig(c) \/ EditFile(c)
    <2>1. pending' /\ UNCHANGED <<url, rec, phase>>
        BY <1>2 DEF SaveConfig, EditFile, hostVars
    <2>. QED BY <2>1 DEF RouteInv
<1>3. CASE Reload
    <2>1. rec'.pc = "reconcile" /\ ~url'
        BY <1>3 DEF Reload, Idle
    <2>. QED BY <2>1 DEF RouteInv
<1>5. CASE FirstCallback
    <2>1. /\ rec.pc = "watch" /\ rec'.pc = "reconcile"
          /\ UNCHANGED <<cfg, pending, url, phase, held>>
        BY <1>5 DEF FirstCallback, goVars, Idle
    <2>. QED BY <2>1 DEF RouteInv, Fits, WantsChild
<1>4. CASE Shutdown
    <2>1. phase' \notin {"up", "starting"} /\ UNCHANGED <<goVars, rec>>
        BY <1>4 DEF Shutdown
    <2>. QED BY <2>1 DEF RouteInv, goVars, Fits, WantsChild
<1>. QED BY <1>1, <1>2, <1>3, <1>4, <1>5 DEF Next, Service, Change

LEMMA RouteInvStep == OwnerInv /\ RouteInv /\ [Next]_vars => RouteInv'
<1>. SUFFICES ASSUME OwnerInv, RouteInv, [Next]_vars PROVE RouteInv'
    OBVIOUS
<1>1. CASE Next
    BY <1>1, ReconcileRoutes, StartRoutes, ElsewhereRoutes
<1>2. CASE UNCHANGED vars
    BY <1>2 DEF vars, hostVars, goVars, RouteInv, Fits, WantsChild
<1>. QED BY <1>1, <1>2

LEMMA RouteInvariant == Spec => []RouteInv
<1>1. Init => RouteInv
    BY DEF Init, RouteInv, Idle, NoChild
<1>. QED BY <1>1, RouteInvStep, OwnerInvariant, PTL DEF Spec

\* Once a configuration is loaded and reconciled, requests go to the child's
\* address only if it asks for the child that is held.
THEOREM RoutingIsConfigured == Spec => []RoutedAsConfigured
<1>1. RouteInv => RoutedAsConfigured
    BY DEF RouteInv, RoutedAsConfigured, Fits
<1>. QED BY <1>1, RouteInvariant, PTL

-----------------------------------------------------------------------------
(* Type correctness                                                        *)

TypeInv ==
    /\ TypeOK
    /\ \A n \in Notes : note[n].pc # "idle" => note[n].version \in Versions

GoTyped ==
    /\ file \in Configs /\ cfg \in Configs
    /\ pending \in BOOLEAN /\ url \in BOOLEAN /\ auths \in BOOLEAN
    /\ bridge \in {"none", "external", "child"}
    /\ known \subseteq Children
    /\ phase \in {"starting", "up", "down", "abandoned"}

NoteTyped ==
    /\ note \in [Notes -> [pc : NoteStages, version : Copies]]
    /\ last \in Versions
    /\ \A n \in Notes : note[n].pc # "idle" => note[n].version \in Versions

TaskTyped ==
    /\ task \in [Tasks -> [pc : TaskStages, version : Copies]]
    /\ applied \in Copies /\ reported \in Copies

\* Versions of a typed configuration.
LEMMA SnapshotTyped ==
    /\ \A c \in Configs, u \in BOOLEAN, a \in BOOLEAN :
          Snapshot(c, u, a) \in Versions
    /\ \A v \in Versions : v.cfg \in Configs /\ v.url \in BOOLEAN
    /\ NoVersion \in Copies
BY DEF Snapshot, Versions, Copies

LEMMA TargetTyped == \A c, u : Target(c, u) \in {"none", "external", "child"}
BY DEF Target

\* What the Go process keeps.
LEMMA GoTypedStep ==
    ASSUME GoTyped, Next
    PROVE  GoTyped'
<1>. USE TargetTyped
<1>1. CASE Change
    <2>1. /\ file' \in Configs /\ cfg' \in Configs /\ url' = url
          /\ UNCHANGED hostVars
        BY <1>1 DEF GoTyped, Change, SaveConfig, EditFile, ChangeAuths,
                    AuthsChange
    <2>2. pending' \in {TRUE, pending} /\ auths' \in {auths, ~auths}
        BY <1>1 DEF Change, SaveConfig, EditFile, ChangeAuths, AuthsChange
    <2>3. pending' \in BOOLEAN /\ auths' \in BOOLEAN
        BY <2>2, Zenon DEF GoTyped
    <2>. QED BY <2>1, <2>3 DEF GoTyped, hostVars
<1>2. CASE Reconcile
    <2>1. url' \in {url, FALSE, TRUE}
        BY <1>2 DEF Reconcile, Disable, Refuse, Keep, Replace
    <2>2. known' \subseteq known
        BY <1>2 DEF Reconcile, Disable, Refuse, Keep, Replace, Stop
    <2>3. phase' \in {phase, "up", "down"}
        BY <1>2 DEF Reconcile, Disable, Refuse, Keep, Replace, Finish
    <2>4. UNCHANGED <<file, pending, cfg, auths, bridge>>
        BY <1>2 DEF Reconcile
    <2>. QED BY <2>1, <2>2, <2>3, <2>4 DEF GoTyped
<1>3. CASE Launch \/ LaunchFails \/ BecomesReady \/ StartTimesOut
    <2>1. url' \in {url, FALSE, TRUE}
        BY <1>3 DEF Launch, LaunchFails, BecomesReady, StartTimesOut, goVars
    <2>2. known' \subseteq known \cup Children
        BY <1>3 DEF Launch, LaunchFails, BecomesReady, StartTimesOut, Stop
    <2>3. phase' \in {phase, "up", "down"}
        BY <1>3 DEF Launch, LaunchFails, BecomesReady, StartTimesOut, Finish
    <2>4. UNCHANGED <<file, pending, cfg, auths, bridge>>
        BY <1>3 DEF Launch, LaunchFails, BecomesReady, StartTimesOut, goVars
    <2>. QED BY <2>1, <2>2, <2>3, <2>4 DEF GoTyped
<1>4. CASE FirstCallback \/ Reload
    BY <1>4 DEF FirstCallback, Reload, GoTyped, goVars, Target
<1>5. CASE Shutdown
    <2>1. UNCHANGED goVars /\ bridge' = "none" /\ known' \subseteq known
          /\ phase' \in {"down", "abandoned"}
        BY <1>5 DEF Shutdown, Stop
    <2>. QED BY <2>1 DEF GoTyped, goVars
<1>6. CASE \/ PollTick
           \/ \E n \in Notes : Notify(n)
           \/ \E t \in Tasks : Refresh(t)
           \/ \E p \in Children : Process(p) \/ Crash(p) \/ Reap(p) \/ Forget(p)
    <2>1. /\ UNCHANGED <<goVars, bridge, phase>>
          /\ known' \subseteq known
        BY <1>6 DEF PollTick, Notify, Build, Compare, Accept, AcceptOutside,
               PostFails, AnswerLost, Answered, Refresh, StartRefresh, Fetch,
               FetchFails, Store, Report, Process, Load, LoadFails, Bind, Exit,
               Crash, Reap, Forget, hostVars
    <2>. QED BY <2>1 DEF GoTyped, goVars
<1>. QED BY <1>1, <1>2, <1>3, <1>4, <1>5, <1>6 DEF Next, Service

\* The notifications.
LEMMA NoteTypedStep ==
    ASSUME GoTyped, NoteTyped, Next
    PROVE  NoteTyped'
<1>1. ASSUME NEW n \in Notes, NEW s \in NoteStages, NEW v \in Versions,
             note' = [note EXCEPT ![n] = [pc |-> s, version |-> v]],
             last' \in Versions
      PROVE  NoteTyped'
    <2>. DEFINE r == [pc |-> s, version |-> v]
    <2>1. r \in [pc : NoteStages, version : Copies] /\ r.version \in Versions
        BY DEF Copies
    <2>2. note' = [note EXCEPT ![n] = r]
        BY <1>1
    <2>. HIDE DEF r
    <2>. QED BY <1>1, <2>1, <2>2 DEF NoteTyped
<1>2. ASSUME NEW n \in Notes, EndNote(n), last' \in Versions
      PROVE  NoteTyped'
    <2>1. /\ IdleNote \in [pc : NoteStages, version : Copies]
          /\ IdleNote.pc = "idle"
        BY DEF IdleNote, NoteStages, Copies
    <2>. QED BY <1>2, <2>1 DEF NoteTyped, EndNote
<1>3. CASE UNCHANGED <<note, last>>
    BY <1>3 DEF NoteTyped
<1>4. CASE Change
    <2>1. last' = last
        BY <1>4 DEF Change, SaveConfig, EditFile, ChangeAuths, AuthsChange
    <2>2. \/ note' = note
          \/ \E c \in Configs : Announce(c)
        BY <1>4 DEF Change, SaveConfig, EditFile, ChangeAuths, AuthsChange,
                    GoTyped
    <2>3. ASSUME NEW c \in Configs, Announce(c) PROVE NoteTyped'
        <3>1. Snapshot(c, url, FALSE) \in Versions
            BY SnapshotTyped DEF GoTyped
        <3>2. "build" \in NoteStages /\ last' \in Versions
            BY <2>1 DEF NoteStages, NoteTyped
        <3>3. PICK n \in Notes : note' = [note EXCEPT
                  ![n] = [pc |-> "build", version |-> Snapshot(c, url, FALSE)]]
            BY <2>3 DEF Announce
        <3>. QED BY <1>1, <3>1, <3>2, <3>3
    <2>. QED BY <1>3, <2>1, <2>2, <2>3
<1>5. ASSUME NEW n \in Notes, Notify(n) PROVE NoteTyped'
    <2>. DEFINE v == note[n].version
    <2>1. note[n].pc # "idle" /\ v \in Versions
        BY <1>5 DEF Notify, Build, Compare, Accept, AcceptOutside, PostFails,
                    AnswerLost, Answered, NoteTyped
    <2>2. last' \in Versions
        BY <1>5, <2>1 DEF Notify, Build, Compare, Accept, AcceptOutside,
                    PostFails, AnswerLost, Answered, NoteTyped
    <2>3. Snapshot(v.cfg, v.url, auths) \in Versions
        BY <2>1, SnapshotTyped DEF GoTyped
    <2>4. \/ EndNote(n)
          \/ \E s \in {"post", "answered"} : SetNote(n, s, v)
          \/ SetNote(n, "compare", Snapshot(v.cfg, v.url, auths))
        BY <1>5 DEF Notify, Build, Compare, Accept, AcceptOutside, PostFails,
                    AnswerLost, Answered
    <2>5. {"post", "answered", "compare"} \subseteq NoteStages
        BY DEF NoteStages
    <2>. HIDE DEF v
    <2>. QED BY <1>1, <1>2, <2>1, <2>2, <2>3, <2>4, <2>5 DEF SetNote
<1>6. CASE ~Change /\ ~\E n \in Notes : Notify(n)
    <2>1. UNCHANGED <<note, last>>
        BY <1>6 DEF Next, Service, FirstCallback, Reload, Reconcile, Launch, LaunchFails,
               BecomesReady, StartTimesOut, Shutdown, Reap, Forget, Process,
               Load, LoadFails, Bind, Exit, Crash, PollTick, Refresh,
               StartRefresh, Fetch, FetchFails, Store, Report
    <2>. QED BY <1>3, <2>1
<1>. QED BY <1>4, <1>5, <1>6

\* What a step does to the memory of the child that runs.
LEMMA MemorySteps ==
    ASSUME child \in [Children -> ProcessStates], Next
    PROVE  \/ /\ UNCHANGED childVars
              /\ \A q \in Children : Running(q) => Running(q)'
           \/ Vanish
           \/ \E p \in Children : Load(p)
           \/ /\ child' = child
              /\ \/ PollTick
                 \/ \E n \in Notes : Accept(n)
                 \/ \E t \in Tasks : Refresh(t)
<1>. DEFINE Kept == /\ UNCHANGED childVars
                    /\ \A q \in Children : Running(q) => Running(q)'
<1>1. ASSUME UNCHANGED <<child, childVars>> PROVE Kept
    BY <1>1 DEF Running
<1>2. ASSUME NEW p, NEW s, child' = [child EXCEPT ![p] = s],
             ~Running(p) \/ s = "serving", UNCHANGED childVars
      PROVE  Kept
    BY <1>2 DEF Running
<1>3. ASSUME NEW p, Stop(p) PROVE Kept \/ Vanish
    <2>1. \/ UNCHANGED <<child, childVars>>
          \/ Vanish
          \/ /\ child' = [child EXCEPT ![p] = "killed"]
             /\ ~Running(p) /\ UNCHANGED childVars
        BY <1>3 DEF Stop, Kill
    <2>. QED BY <1>1, <1>2, <2>1
<1>4. CASE Change \/ FirstCallback \/ Reload \/ \E p \in Children : Forget(p)
    BY <1>1, <1>4 DEF Change, SaveConfig, EditFile, ChangeAuths, AuthsChange,
           FirstCallback, Reload, Forget
<1>5. CASE Reconcile \/ Shutdown \/ StartTimesOut
    BY <1>1, <1>3, <1>5
    DEF Reconcile, Disable, Refuse, Keep, Replace, Shutdown, StartTimesOut
<1>6. CASE LaunchFails \/ BecomesReady \/ \E n \in Notes : Notify(n) /\ ~Accept(n)
    BY <1>1, <1>6 DEF LaunchFails, BecomesReady, Notify, Build, Compare,
           AcceptOutside, PostFails, AnswerLost, Answered
<1>7. CASE Launch
    <2>1. UNCHANGED childVars
        BY <1>7 DEF Launch
    <2>2. \E p \in Children : /\ child[p] = "none"
                             /\ child' = [child EXCEPT ![p] = "loading"]
        BY <1>7 DEF Launch
    <2>. QED BY <1>2, <2>1, <2>2 DEF Running
<1>8. ASSUME NEW p \in Children,
             Reap(p) \/ LoadFails(p) \/ Bind(p) \/ Exit(p) \/ Crash(p)
      PROVE  Kept \/ Vanish
    <2>1. \/ Vanish
          \/ /\ UNCHANGED childVars
             /\ \/ child' = [child EXCEPT ![p] = "serving"]
                \/ /\ ~Running(p)
                   /\ \/ child' = [child EXCEPT ![p] = "dead"]
                      \/ child' = [child EXCEPT ![p] = "reaped"]
        BY <1>8 DEF Reap, LoadFails, Bind, Exit, Crash, Running
    <2>2. CASE Vanish
        BY <2>2
    <2>3. CASE ~Vanish
        <3>. HIDE DEF Kept
        <3>. QED BY <1>2, <2>1, <2>3
    <2>. QED BY <2>2, <2>3
<1>9. CASE PollTick \/ \E n \in Notes : Accept(n)
    BY <1>9 DEF PollTick, Accept
<1>10. CASE \E t \in Tasks : Refresh(t)
    BY <1>10 DEF Refresh, StartRefresh, Fetch, FetchFails, Store, Report
<1>. QED BY <1>4, <1>5, <1>6, <1>7, <1>8, <1>9, <1>10
         DEF Next, Service, Process

LEMMA TaskTypedStep ==
    ASSUME GoTyped, TaskTyped, child \in [Children -> ProcessStates], Next
    PROVE  TaskTyped'
<1>1. Content \in Copies /\ NoVersion \in Copies
    BY SnapshotTyped DEF Content, GoTyped, Copies
<1>2. ASSUME NEW t \in Tasks, NEW s \in TaskStages, NEW v \in Copies,
             SetTask(t, s, v), applied' \in Copies, reported' \in Copies
      PROVE  TaskTyped'
    <2>. DEFINE r == [pc |-> s, version |-> v]
    <2>1. r \in [pc : TaskStages, version : Copies]
        OBVIOUS
    <2>2. task' = [task EXCEPT ![t] = r]
        BY <1>2 DEF SetTask
    <2>. HIDE DEF r
    <2>. QED BY <1>2, <2>1, <2>2 DEF TaskTyped
<1>3. /\ "idle" \in TaskStages /\ "start" \in TaskStages
      /\ "fetch" \in TaskStages /\ "apply" \in TaskStages
      /\ "report" \in TaskStages
    BY DEF TaskStages
<1>4. IdleTask \in [pc : TaskStages, version : Copies]
    BY <1>1, <1>3 DEF IdleTask
<1>5. CASE UNCHANGED childVars
    BY <1>5 DEF childVars, TaskTyped
<1>6. CASE Vanish
    BY <1>1, <1>4, <1>6 DEF Vanish, NoTasks, TaskTyped
<1>7. CASE \E p \in Children : Load(p)
    BY <1>1, <1>7 DEF Load, TaskTyped
<1>8. CASE PollTick
    <2>1. /\ Poll \in Tasks /\ SetTask(Poll, "fetch", applied)
          /\ UNCHANGED <<applied, reported>>
        BY <1>8 DEF PollTick, Tasks
    <2>. QED BY <1>2, <1>3, <2>1 DEF TaskTyped
<1>9. ASSUME NEW n \in Notes, Accept(n) PROVE TaskTyped'
    <2>1. /\ n \in Tasks /\ task' = [task EXCEPT ![n].pc = "start"]
          /\ UNCHANGED <<applied, reported>>
        BY <1>9 DEF Accept, Tasks
    <2>. QED BY <1>3, <2>1 DEF TaskTyped
<1>10. ASSUME NEW t \in Tasks, Refresh(t) PROVE TaskTyped'
    <2>1. task[t].version \in Copies /\ applied \in Copies /\ reported \in Copies
        BY DEF TaskTyped
    <2>2. applied' \in Copies /\ reported' \in Copies
        BY <1>10, <2>1 DEF Refresh, StartRefresh, Fetch, FetchFails, Store,
                           Report
    <2>3. \/ task' = [task EXCEPT ![t] = IdleTask]
          \/ SetTask(t, "fetch", applied)
          \/ SetTask(t, "apply", Content)
          \/ SetTask(t, "report", task[t].version)
        BY <1>10 DEF Refresh, StartRefresh, Fetch, FetchFails, Store, Report
    <2>4. CASE task' = [task EXCEPT ![t] = IdleTask]
        BY <1>4, <2>2, <2>4 DEF TaskTyped
    <2>. QED BY <1>1, <1>2, <1>3, <2>1, <2>2, <2>3, <2>4
<1>. QED BY <1>5, <1>6, <1>7, <1>8, <1>9, <1>10, MemorySteps

\* The bounds and the histories.
LEMMA RestTypedStep ==
    ASSUME left \in [edits : Nat, faults : Nat], torn \in BOOLEAN,
           calm \in BOOLEAN, Next
    PROVE  /\ left' \in [edits : Nat, faults : Nat]
           /\ calm' \in BOOLEAN /\ torn' \in BOOLEAN
<1>1. calm' \in BOOLEAN /\ torn' \in BOOLEAN
    BY Zenon DEF Next, History
<1>2. ASSUME Spend("edits") \/ Spend("faults")
      PROVE  left' \in [edits : Nat, faults : Nat]
    BY <1>2 DEF Spend
<1>3. \/ left' = left \/ Spend("edits") \/ Spend("faults")
    BY DEF Next, Change, SaveConfig, EditFile, ChangeAuths, AuthsChange,
           Service, FirstCallback, Reload, Reconcile, Launch, LaunchFails, BecomesReady,
           StartTimesOut, Shutdown, Reap, Forget, Notify, Build, Compare,
           Accept, AcceptOutside, PostFails, AnswerLost, Answered, Process,
           Load, LoadFails, Bind, Exit, Crash, PollTick, Refresh,
           StartRefresh, Fetch, FetchFails, Store, Report
<1>. QED BY <1>1, <1>2, <1>3

LEMMA TypeInvIsParts ==
    TypeInv <=> /\ GoTyped /\ NoteTyped /\ TaskTyped
                /\ held.proc \in Children \cup {0}
                /\ rec.pc \in {"idle", "watch", "reconcile", "launch", "wait"}
                /\ rec.proc \in Children \cup {0}
                /\ child \in [Children -> ProcessStates]
                /\ left \in [edits : Nat, faults : Nat]
                /\ calm \in BOOLEAN /\ torn \in BOOLEAN
BY Zenon DEF TypeInv, TypeOK, GoTyped, NoteTyped, TaskTyped

LEMMA TypeInvStep == OwnerInv /\ TypeInv /\ [Next]_vars => TypeInv'
<1>. SUFFICES ASSUME OwnerInv, TypeInv, [Next]_vars PROVE TypeInv'
    OBVIOUS
<1>1. CASE Next
    <2>1. /\ GoTyped /\ NoteTyped /\ TaskTyped
          /\ child \in [Children -> ProcessStates]
          /\ left \in [edits : Nat, faults : Nat]
          /\ calm \in BOOLEAN /\ torn \in BOOLEAN
        BY TypeInvIsParts
    <2>2. GoTyped' /\ NoteTyped' /\ TaskTyped'
        BY <1>1, <2>1, GoTypedStep, NoteTypedStep, TaskTypedStep
    <2>3. /\ left' \in [edits : Nat, faults : Nat]
          /\ calm' \in BOOLEAN /\ torn' \in BOOLEAN
        BY <1>1, <2>1, RestTypedStep
    <2>4. OwnerInv'
        BY OwnerInvStep
    <2>5. /\ held'.proc \in Children \cup {0}
          /\ rec'.pc \in {"idle", "watch", "reconcile", "launch", "wait"}
          /\ rec'.proc \in Children \cup {0}
          /\ child' \in [Children -> ProcessStates]
        BY <2>4 DEF OwnerInv
    <2>. QED BY Zenon, <2>2, <2>3, <2>5
             DEF TypeInv, TypeOK, GoTyped, NoteTyped, TaskTyped
<1>2. CASE UNCHANGED vars
    <2>1. /\ file' = file /\ pending' = pending /\ cfg' = cfg /\ url' = url
          /\ auths' = auths /\ phase' = phase /\ held' = held /\ rec' = rec
          /\ bridge' = bridge /\ known' = known /\ child' = child
          /\ last' = last /\ note' = note /\ task' = task
          /\ applied' = applied /\ reported' = reported /\ left' = left
          /\ calm' = calm /\ torn' = torn
        BY <1>2 DEF vars, goVars, hostVars, childVars, history
    <2>2. /\ GoTyped' /\ NoteTyped' /\ TaskTyped'
          /\ child' \in [Children -> ProcessStates]
          /\ left' \in [edits : Nat, faults : Nat]
          /\ calm' \in BOOLEAN /\ torn' \in BOOLEAN
        BY TypeInvIsParts, <2>1 DEF GoTyped, NoteTyped, TaskTyped
    <2>3. /\ held'.proc \in Children \cup {0}
          /\ rec'.pc \in {"idle", "watch", "reconcile", "launch", "wait"}
          /\ rec'.proc \in Children \cup {0}
        BY TypeInvIsParts, <2>1
    <2>. QED BY Zenon, <2>2, <2>3
             DEF TypeInv, TypeOK, GoTyped, NoteTyped, TaskTyped
<1>. QED BY <1>1, <1>2

LEMMA TypeInvInit == Init => TypeInv
<1>. SUFFICES ASSUME Init PROVE TypeInv
    OBVIOUS
<1>1. GoTyped
    BY TargetTyped DEF Init, GoTyped
<1>2. NoteTyped
    <2>1. last \in Versions
        BY SnapshotTyped DEF Init
    <2>2. /\ IdleNote \in [pc : NoteStages, version : Copies]
          /\ IdleNote.pc = "idle"
        BY SnapshotTyped DEF IdleNote, NoteStages
    <2>. QED BY <2>1, <2>2 DEF Init, NoteTyped
<1>3. TaskTyped
    <2>1. IdleTask \in [pc : TaskStages, version : Copies]
        BY SnapshotTyped DEF IdleTask, TaskStages
    <2>. QED BY <2>1, SnapshotTyped DEF Init, NoTasks, TaskTyped
<1>4. /\ held.proc \in Children \cup {0}
      /\ rec.pc \in {"idle", "watch", "reconcile", "launch", "wait"}
      /\ rec.proc \in Children \cup {0}
      /\ child \in [Children -> ProcessStates]
    BY DEF Init, NoChild, Idle, ProcessStates
<1>5. left \in [edits : Nat, faults : Nat]
    BY DataPlaneAssumption DEF DataPlaneAssumption, Init
<1>6. calm \in BOOLEAN /\ torn \in BOOLEAN
    BY Zenon DEF Init
<1>. QED BY <1>1, <1>2, <1>3, <1>4, <1>5, <1>6, TypeInvIsParts

LEMMA TypeInvariant == Spec => []TypeInv
<1>. QED BY TypeInvInit, TypeInvStep, OwnerInvariant, PTL DEF Spec

\* Type correctness: every part of the state has the form the code gives it;
\* in particular a notification that is posted carries a version that was
\* built from a configuration.
THEOREM DataPlaneTypeCorrect == Spec => []TypeOK
<1>1. TypeInv => TypeOK
    BY DEF TypeInv
<1>. QED BY <1>1, TypeInvariant, PTL

-----------------------------------------------------------------------------
(* ReportedIsApplied                                                       *)

\* A refresh by notification begins when the notification is answered; and
\* until two refreshes get in each other's way, at most one of them has
\* stored and not yet reported, and it will report what is applied.
NoteFirst ==
    \A n \in Notes :
        note[n].pc \in {"build", "compare", "post"} => task[n].pc = "idle"

ReportInv ==
    /\ NoteFirst
    /\ ~Active => task = NoTasks
    /\ ~torn =>
        /\ \A t \in Tasks : task[t].pc = "report" => task[t].version = applied
        /\ (\A t \in Tasks : task[t].pc # "report") => reported = applied

\* At most one child is running: it is held, or being started.
LEMMA OneLives ==
    ASSUME OwnerInv, NEW p \in Children, NEW q \in Children, Live(p), Live(q)
    PROVE  p = q
BY ZeroIsNoChild DEF OwnerInv, ChildHasOwner, Live

LEMMA NoTasksAreIdle ==
    \A t \in Tasks : NoTasks[t].pc = "idle"
BY DEF NoTasks, IdleTask

LEMMA NoteFirstStep ==
    ASSUME TypeInv, NoteFirst, Next
    PROVE  NoteFirst'
<1>0. /\ task \in [Tasks -> [pc : TaskStages, version : Copies]]
      /\ note \in [Notes -> [pc : NoteStages, version : Copies]]
      /\ child \in [Children -> ProcessStates]
      /\ Notes \subseteq Tasks /\ Poll \notin Notes
    BY TypeInvIsParts, DataPlaneAssumption
    DEF TaskTyped, NoteTyped, DataPlaneAssumption, Tasks
<1>1. CASE Change
    <2>1. task' = task
        BY <1>1 DEF Change, SaveConfig, EditFile, ChangeAuths, AuthsChange,
                    childVars
    <2>2. note' = note \/ \E c : Announce(c)
        BY <1>1 DEF Change, SaveConfig, EditFile, ChangeAuths, AuthsChange
    <2>3. \/ note' = note
          \/ \E n \in Notes : \E c :
                /\ task[n] = IdleTask
                /\ note' = [note EXCEPT ![n] = [pc |-> "build", version |-> c]]
        BY <2>2 DEF Announce
    <2>. QED BY <1>0, <2>1, <2>3 DEF NoteFirst, IdleTask
<1>2. ASSUME NEW n \in Notes, Notify(n) PROVE NoteFirst'
    <2>1. \A m \in Notes \ {n} : note'[m] = note[m] /\ task'[m] = task[m]
        BY <1>0, <1>2 DEF Notify, Build, Compare, Accept, AcceptOutside,
               PostFails, AnswerLost, Answered, SetNote, EndNote, childVars
    <2>2. \/ note'[n].pc \in {"idle", "answered"}
          \/ note[n].pc \in {"build", "compare"} /\ task' = task
        BY <1>0, <1>2 DEF Notify, Build, Compare, Accept, AcceptOutside,
               PostFails, AnswerLost, Answered, SetNote, EndNote, IdleNote,
               childVars
    <2>3. note'[n].pc \in {"build", "compare", "post"} => task'[n].pc = "idle"
        BY <2>2 DEF NoteFirst
    <2>. QED BY <2>1, <2>3 DEF NoteFirst
<1>3. CASE ~Change /\ ~\E n \in Notes : Notify(n)
    <2>1. note' = note
        BY <1>3 DEF Next, Service, FirstCallback, Reload, Reconcile, Launch, LaunchFails,
               BecomesReady, StartTimesOut, Shutdown, Reap, Forget, Process,
               Load, LoadFails, Bind, Exit, Crash, PollTick, Refresh,
               StartRefresh, Fetch, FetchFails, Store, Report
    <2>2. ASSUME NEW n \in Notes
          PROVE  task[n].pc = "idle" => task'[n].pc = "idle"
        <3>1. CASE UNCHANGED childVars \/ \E p \in Children : Load(p)
            BY <3>1 DEF childVars, Load
        <3>2. CASE Vanish
            BY <1>0, <3>2, NoTasksAreIdle DEF Vanish
        <3>3. CASE PollTick
            BY <1>0, <3>3 DEF PollTick, SetTask
        <3>4. ASSUME NEW t \in Tasks, Refresh(t)
              PROVE  task[n].pc = "idle" => task'[n].pc = "idle"
            <4>1. task[t].pc # "idle"
                BY <3>4 DEF Refresh, StartRefresh, Fetch, FetchFails, Store,
                            Report
            <4>2. n # t => task'[n] = task[n]
                BY <1>0, <3>4 DEF Refresh, StartRefresh, Fetch, FetchFails,
                                  Store, Report, SetTask
            <4>. QED BY <4>1, <4>2
        <3>5. ~\E m \in Notes : Accept(m)
            BY <1>3 DEF Notify
        <3>. QED BY <1>0, <3>1, <3>2, <3>3, <3>4, <3>5, MemorySteps
    <2>. QED BY <2>1, <2>2 DEF NoteFirst
<1>. QED BY <1>1, <1>2, <1>3

LEMMA ReportInvStep == OwnerInv /\ TypeInv /\ ReportInv /\ [Next]_vars => ReportInv'
<1>. SUFFICES ASSUME OwnerInv, TypeInv, ReportInv, [Next]_vars PROVE ReportInv'
    OBVIOUS
<1>. DEFINE Faithful ==
         /\ \A t \in Tasks : task[t].pc = "report" => task[t].version = applied
         /\ (\A t \in Tasks : task[t].pc # "report") => reported = applied
<1>0. /\ task \in [Tasks -> [pc : TaskStages, version : Copies]]
      /\ child \in [Children -> ProcessStates]
    BY TypeInvIsParts DEF TaskTyped
<1>1. CASE UNCHANGED vars
    BY <1>1 DEF vars, childVars, history, ReportInv, NoteFirst, Active, Running
<1>2. CASE Next
    <2>0. NoteFirst'
        BY <1>2, NoteFirstStep DEF ReportInv
    \* Where torn is lowered everything agrees; the refresh that raises it
    \* need not be looked at.
    <2>1. ASSUME torn, ~torn' PROVE Faithful'
        <3>1. applied' = reported' /\ Rounds' = {}
            BY <1>2, <2>1 DEF Next, History
        <3>2. \A t \in Tasks : task'[t] = IdleTask
            BY <3>1 DEF Rounds
        <3>3. \A t \in Tasks : task'[t].pc = "idle"
            BY <3>2 DEF IdleTask
        <3>. QED BY <3>1, <3>3
    <2>2. ASSUME UNCHANGED childVars, \A q \in Children : Running(q) => Running(q)'
          PROVE  ReportInv'
        <3>1. Active => Active'
            BY <2>2 DEF Active
        <3>2. UNCHANGED <<task, applied, reported>>
            BY <2>2 DEF childVars
        <3>. QED BY <2>0, <2>1, <3>1, <3>2 DEF ReportInv
    <2>3. CASE Vanish
        <3>1. task' = NoTasks /\ applied' = reported'
            BY <2>3 DEF Vanish
        <3>. QED BY <2>0, <3>1, NoTasksAreIdle DEF ReportInv
    <2>4. ASSUME NEW p \in Children, Load(p) PROVE ReportInv'
        <3>1. child[p] = "loading" /\ task' = task /\ applied' = reported'
              /\ child' = [child EXCEPT ![p] = "loaded"]
            BY <2>4 DEF Load
        <3>2. ~Active
            <4>. SUFFICES ASSUME NEW q \in Children, Running(q) PROVE FALSE
                BY DEF Active
            <4>1. Live(p) /\ Live(q)
                BY <3>1 DEF Live, Running
            <4>2. p = q
                BY <4>1, OneLives
            <4>. QED BY <3>1, <4>2 DEF Running
        <3>3. task' = NoTasks
            BY <3>1, <3>2 DEF ReportInv
        <3>. QED BY <2>0, <3>1, <3>3, NoTasksAreIdle DEF ReportInv
    <2>5. ASSUME child' = child,
                 \/ PollTick
                 \/ \E n \in Notes : Accept(n)
                 \/ \E t \in Tasks : Refresh(t)
          PROVE  ReportInv'
        <3>1. Active /\ Active'
            <4>1. CASE PollTick
                BY <2>5, <4>1 DEF PollTick, Active, Running
            <4>2. CASE \E n \in Notes : Accept(n)
                BY <2>5, <4>2 DEF Accept, Serving, Active, Running
            <4>3. ASSUME NEW t \in Tasks, Refresh(t) PROVE Active
                <5>1. task[t].pc # "idle"
                    BY <4>3 DEF Refresh, StartRefresh, Fetch, FetchFails, Store,
                                Report
                <5>. QED BY <5>1, NoTasksAreIdle DEF ReportInv
            <4>4. Active => Active'
                BY <2>5 DEF Active, Running
            <4>. QED BY <2>5, <4>1, <4>2, <4>3, <4>4
        <3>2. ASSUME ~torn, ~torn' PROVE Faithful'
            <4>0. Faithful
                BY <3>2 DEF ReportInv
            <4>1. CASE PollTick
                <5>1. /\ Poll \in Tasks /\ UNCHANGED <<applied, reported>>
                      /\ task' = [task EXCEPT ![Poll] =
                                      [pc |-> "fetch", version |-> applied]]
                      /\ task[Poll] = IdleTask
                    BY <4>1 DEF PollTick, SetTask, Tasks
                <5>2. task[Poll].pc # "report"
                    BY <5>1 DEF IdleTask
                <5>3. \A t \in Tasks : \/ task'[t] = task[t]
                                       \/ /\ task[t].pc # "report"
                                          /\ task'[t].pc # "report"
                    BY <1>0, <5>1, <5>2
                <5>. QED BY <4>0, <5>1, <5>3
            <4>2. ASSUME NEW n \in Notes, Accept(n) PROVE Faithful'
                <5>1. n \in Tasks /\ UNCHANGED <<applied, reported>>
                      /\ task' = [task EXCEPT ![n].pc = "start"]
                    BY <4>2 DEF Accept, Tasks
                <5>2. task[n].pc # "report"
                    <6>1. note[n].pc = "post"
                        BY <4>2 DEF Accept
                    <6>. QED BY <6>1 DEF ReportInv, NoteFirst
                <5>3. \A t \in Tasks : \/ task'[t] = task[t]
                                       \/ /\ task[t].pc # "report"
                                          /\ task'[t].pc # "report"
                    BY <1>0, <5>1, <5>2
                <5>. QED BY <4>0, <5>1, <5>3
            <4>3. ASSUME NEW t \in Tasks, Refresh(t) PROVE Faithful'
                <5>1. CASE StartRefresh(t) \/ Fetch(t) \/ FetchFails(t)
                    <6>1. /\ task[t].pc # "report" /\ task'[t].pc # "report"
                          /\ \A u \in Tasks \ {t} : task'[u] = task[u]
                          /\ UNCHANGED <<applied, reported>>
                        BY <1>0, <5>1 DEF StartRefresh, Fetch, FetchFails,
                               SetTask, IdleTask
                    <6>. QED BY <4>0, <6>1
                <5>2. CASE Store(t)
                    <6>1. /\ task[t].pc = "apply"
                          /\ task'[t].pc = "report"
                          /\ task'[t].version = applied'
                          /\ \A u \in Tasks \ {t} : task'[u] = task[u]
                        BY <1>0, <5>2 DEF Store, SetTask
                    <6>2. \A u \in Tasks \ {t} : task[u].pc # "report"
                        BY <1>2, <3>2, <6>1 DEF Next, History
                    <6>. QED BY <6>1, <6>2
                <5>3. CASE Report(t)
                    <6>1. /\ task[t].pc = "report"
                          /\ reported' = task[t].version /\ applied' = applied
                          /\ task'[t].pc = "idle"
                          /\ \A u \in Tasks \ {t} : task'[u] = task[u]
                        BY <1>0, <5>3 DEF Report, IdleTask
                    <6>2. reported' = applied'
                        BY <4>0, <6>1
                    <6>. QED BY <4>0, <6>1, <6>2
                <5>. QED BY <4>3, <5>1, <5>2, <5>3 DEF Refresh
            <4>. QED BY <2>5, <4>1, <4>2, <4>3
        <3>. QED BY <2>0, <2>1, <3>1, <3>2 DEF ReportInv
    <2>. QED BY <1>0, <1>2, <2>2, <2>3, <2>4, <2>5, MemorySteps
<1>. QED BY <1>1, <1>2

\* The version /readyz shows is the applied one, until two refreshes have
\* stored their results at the same time.
THEOREM ReadyzIsTrue == Spec => []ReportedIsApplied
<1>1. Init => ReportInv
    <2>. SUFFICES ASSUME Init PROVE ReportInv
        OBVIOUS
    <2>1. task = NoTasks /\ reported = applied
        BY DEF Init
    <2>2. \A n \in Notes : task[n].pc = "idle"
        BY <2>1, NoTasksAreIdle DEF Tasks
    <2>. QED BY <2>1, <2>2, NoTasksAreIdle DEF ReportInv, NoteFirst
<1>2. OwnerInv /\ TypeInv /\ ReportInv /\ [Next]_vars => ReportInv'
    BY ReportInvStep
<1>3. ReportInv => ReportedIsApplied
    <2>. SUFFICES ASSUME ReportInv, Rounds = {}, ~torn PROVE reported = applied
        BY DEF ReportedIsApplied
    <2>1. \A t \in Tasks : task[t].pc # "report"
        BY DEF Rounds, IdleTask
    <2>. QED BY <2>1 DEF ReportInv
<1>. QED BY <1>1, <1>2, <1>3, OwnerInvariant, TypeInvariant, PTL DEF Spec

-----------------------------------------------------------------------------
(* AnnouncedIsApplied                                                      *)

\* Nothing but the rounds in X is under way.
Alone(X) ==
    /\ \A n \in Notes \ X : note[n] = IdleNote
    /\ \A t \in Tasks \ X : task[t] = IdleTask

\* Refresh t has brought, or will bring, what is in force.
Brings(t) ==
    /\ task[t].pc = "idle"   => Same(applied, Content)
    /\ task[t].pc = "fetch"  => task[t].version = applied
    /\ task[t].pc = "apply"  => task[t].version = Content
    /\ task[t].pc = "report" => applied = Content

\* The child has what is in force, and a poll leaves it so.
Polled ==
    /\ Alone({Poll}) /\ Brings(Poll)
    /\ last = Content \/ ~last.url
    /\ task[Poll].pc # "start"
    /\ task[Poll].pc = "fetch" => Same(applied, Content)

\* The last change is what notification n is about: the notifier does not
\* know it, and once the child does, its refresh brings it.
Carried(n) ==
    /\ Alone({n}) /\ phase = "up"
    /\ note[n].pc = "build" => note[n].version.cfg = cfg /\ note[n].version.url
    /\ note[n].pc \in {"build", "compare"} => last # Content
    /\ note[n].pc \in {"build", "compare", "post"} => task[n] = IdleTask
    /\ note[n].pc \in {"compare", "post", "answered"} => note[n].version = Content
    /\ note[n].pc \in {"answered", "idle"} => Brings(n)
    /\ note[n].pc = "idle" => last = Content

Attended == Polled \/ \E n \in Notes : Carried(n)

CalmInv == calm => Serving /\ url /\ phase = "up" /\ Attended

\* A step that leaves all this alone.
LEMMA CalmFrame ==
    ASSUME Attended, UNCHANGED <<note, task, applied, cfg, url, auths, last, phase>>
    PROVE  Attended'
<1>1. Content' = Content
    BY DEF Content, Snapshot
<1>2. ASSUME Polled PROVE Polled'
    BY <1>1, <1>2 DEF Polled, Alone, Brings, Same
<1>3. ASSUME NEW n \in Notes, Carried(n) PROVE Carried(n)'
    BY <1>1, <1>3 DEF Carried, Alone, Brings, Same
<1>. QED BY <1>2, <1>3 DEF Attended

\* While the child serves nothing else of it lives.
LEMMA CalmLives ==
    ASSUME OwnerInv, Serving, NEW p \in Children, Live(p)
    PROVE  child[p] = "serving"
<1>1. PICK q \in Children : child[q] = "serving"
    BY DEF Serving
<1>. QED BY <1>1, OneLives DEF Live

\* Then only edits and announcements, polls and refreshes can be of interest:
\* whatever else happens lets go of the child or of its address, or changes
\* what is exported without an announcement.
LEMMA CalmQuiet ==
    ASSUME OwnerInv, OwnerInv', Serving, url, url', Serving',
           phase = "up", phase' = "up",
           Content' = Content \/ note' # note,
           \/ \E c \in Configs : EditFile(c)
           \/ AuthsChange
           \/ Service
           \/ \E p \in Children : Process(p) \/ Crash(p)
    PROVE  UNCHANGED <<note, task, applied, cfg, url, auths, last, phase>>
<1>2. CASE \E c \in Configs : EditFile(c)
    BY <1>2 DEF EditFile, hostVars, childVars
<1>3. CASE AuthsChange
    <2>1. note' = note /\ Content' # Content
        BY <1>3 DEF AuthsChange, Content, Snapshot
    <2>. QED BY <2>1
<1>4. CASE Service
    <2>1. CASE FirstCallback \/ Reload
        BY <2>1 DEF FirstCallback, Reload, goVars, childVars
    <2>2. CASE Launch \/ LaunchFails \/ BecomesReady \/ StartTimesOut
        BY <2>2 DEF Launch, LaunchFails, BecomesReady, StartTimesOut, goVars,
               childVars
    <2>3. CASE Shutdown
        BY <2>3 DEF Shutdown
    <2>5. CASE Reconcile
        <3>1. rec.pc = "reconcile" /\ rec.proc = 0
            BY <2>5 DEF Reconcile, OwnerInv
        <3>2. held.proc \in Children /\ child[held.proc] = "serving"
            BY <3>1, ZeroIsNoChild DEF OwnerInv, ChildHasOwner, Serving
        <3>3. ~Replace
            <4>1. SUFFICES ASSUME Replace, Stop(held.proc) PROVE FALSE
                BY <3>2, ZeroIsNoChild DEF Replace
            <4>2. \A q \in Children : Live(q)' => q = rec.proc
                BY <3>2, <4>1, StopHeld, ZeroIsNoChild
            <4>. QED BY <3>1, <4>2, ZeroIsNoChild DEF Serving, Live
        <3>4. ~Disable /\ ~Refuse
            BY DEF Disable, Refuse
        <3>. QED BY <2>5, <3>3, <3>4 DEF Reconcile, Keep, childVars
    <2>4. CASE \E p \in Children : Reap(p) \/ Forget(p)
        BY <2>4 DEF Reap, Forget, goVars, hostVars, childVars
    <2>. QED BY <1>4, <2>1, <2>2, <2>3, <2>4, <2>5 DEF Service
<1>5. ASSUME NEW p \in Children, Process(p) \/ Crash(p)
      PROVE  UNCHANGED <<note, task, applied, cfg, url, auths, last, phase>>
    <2>1. CASE Load(p)
        <3>1. child[p] = "loading"
            BY <2>1 DEF Load
        <3>. QED BY <3>1, CalmLives DEF Live
    <2>2. CASE Bind(p)
        <3>1. child[p] = "loaded"
            BY <2>2 DEF Bind
        <3>. QED BY <3>1, CalmLives DEF Live
    <2>3. CASE LoadFails(p) \/ Exit(p)
        BY <2>3 DEF LoadFails, Exit, goVars, hostVars, childVars
    <2>4. CASE Crash(p)
        <3>1. Live(p) /\ child' = [child EXCEPT ![p] = "dead"]
            BY <2>4 DEF Crash, Live
        <3>2. \A q \in Children : child'[q] = "serving" => child[q] = "serving" /\ q # p
            BY <3>1 DEF OwnerInv
        <3>. QED BY <3>1, <3>2, OneLives DEF Live, Serving
    <2>. QED BY <1>5, <2>1, <2>2, <2>3, <2>4 DEF Process
<1>. QED BY <1>2, <1>3, <1>4, <1>5

\* When nothing is under way the child has what is in force, and the notifier
\* will not take a change for known.
LEMMA AtRest ==
    ASSUME Attended, Rounds = {}
    PROVE  Alone({}) /\ Same(applied, Content) /\ (last = Content \/ ~last.url)
<1>1. Alone({})
    BY DEF Rounds, Alone
<1>2. IdleTask.pc = "idle" /\ IdleNote.pc = "idle"
    BY DEF IdleTask, IdleNote
<1>3. CASE Polled
    <2>1. task[Poll].pc = "idle"
        BY <1>1, <1>2 DEF Alone, Tasks
    <2>. QED BY <1>1, <1>3, <2>1 DEF Polled, Brings
<1>4. ASSUME NEW n \in Notes, Carried(n)
      PROVE  Same(applied, Content) /\ last = Content
    <2>1. task[n].pc = "idle" /\ note[n].pc = "idle"
        BY <1>1, <1>2 DEF Alone, Tasks
    <2>. QED BY <1>4, <2>1 DEF Carried, Brings
<1>. QED BY <1>1, <1>3, <1>4 DEF Attended

\* A change begins a round of its own.
LEMMA CalmAnnounce ==
    ASSUME TypeInv, Alone({}), last = Content \/ ~last.url, url, phase = "up",
           NEW c, Announce(c), Content' # Content, cfg' = c,
           UNCHANGED <<url, last, task, phase>>
    PROVE  Attended'
<1>0. note \in [Notes -> [pc : NoteStages, version : Copies]] /\ Notes \subseteq Tasks
    BY TypeInvIsParts DEF NoteTyped, Tasks
<1>1. PICK n \in Notes : note' = [note EXCEPT
                  ![n] = [pc |-> "build", version |-> Snapshot(c, url, FALSE)]]
    BY DEF Announce
<1>2. note'[n].pc = "build" /\ note'[n].version = Snapshot(c, url, FALSE)
    BY <1>0, <1>1
<1>3. note'[n].version.cfg = cfg' /\ note'[n].version.url
    BY <1>2 DEF Snapshot
<1>4. Content'.url
    BY DEF Content, Snapshot
<1>5. last' # Content'
    BY <1>4
<1>6. Alone({n})'
    BY <1>0, <1>1 DEF Alone
<1>7. task'[n] = IdleTask
    BY <1>0 DEF Alone
<1>8. Carried(n)'
    BY <1>2, <1>3, <1>5, <1>6, <1>7 DEF Carried
<1>. QED BY <1>8 DEF Attended

\* What a spent fault shows.
LEMMA SpentShows ==
    ASSUME TypeInv, Spend("faults")
    PROVE  left' # left
<1>1. left \in [edits : Nat, faults : Nat]
    BY TypeInvIsParts
<1>2. left'.faults = left.faults - 1
    BY <1>1 DEF Spend
<1>. QED BY <1>1, <1>2

\* The notifier neither takes the change for known nor gives it up.
LEMMA CalmNotify ==
    ASSUME TypeInv, url, Serving, NEW n \in Notes, Carried(n), Notify(n), ~Lost
    PROVE  Attended'
<1>. DEFINE v == note[n].version
<1>0. /\ note \in [Notes -> [pc : NoteStages, version : Copies]]
      /\ task \in [Tasks -> [pc : TaskStages, version : Copies]]
      /\ n \in Tasks
    BY TypeInvIsParts DEF NoteTyped, TaskTyped, Tasks
<1>1. UNCHANGED <<goVars, phase, applied>>
    BY DEF Notify, Build, Compare, Accept, AcceptOutside, PostFails,
           AnswerLost, Answered, hostVars, childVars
<1>2. Content' = Content /\ Content.url /\ cfg' = cfg /\ Content = Snapshot(cfg, url, auths)
    BY <1>1 DEF goVars, Content, Snapshot
<1>3. \A m \in Notes \ {n} : note'[m] = note[m]
    BY <1>0 DEF Notify, Build, Compare, Accept, AcceptOutside,
           PostFails, AnswerLost, Answered, SetNote, EndNote, childVars
<1>4. \A t \in Tasks \ {n} : task'[t] = task[t]
    BY <1>0 DEF Notify, Build, Compare, Accept, AcceptOutside,
           PostFails, AnswerLost, Answered, childVars
<1>5. Alone({n})' /\ phase' = "up"
    BY <1>1, <1>3, <1>4 DEF Alone, Carried
<1>6. IdleNote.pc = "idle"
    BY DEF IdleNote
<1>7. CASE Build(n)
    <2>1. note[n].pc = "build" /\ v.cfg = cfg /\ v.url /\ last # Content /\ task[n] = IdleTask
        BY <1>7 DEF Build, Carried
    <2>2. Target(v.cfg, v.url) = "child"
        BY <2>1 DEF Target
    <2>3. Snapshot(v.cfg, v.url, auths) = Content
        BY <1>2, <2>1 DEF Snapshot
    <2>4. note' = [note EXCEPT ![n] = [pc |-> "compare", version |-> Content]]
        BY <1>7, <2>2, <2>3 DEF Build, SetNote
    <2>5. note'[n].pc = "compare" /\ note'[n].version = Content
        BY <1>0, <2>4
    <2>6. UNCHANGED <<last, task>>
        BY <1>7 DEF Build, childVars
    <2>7. Carried(n)'
        BY <1>2, <1>5, <2>1, <2>5, <2>6 DEF Carried
    <2>. QED BY <2>7 DEF Attended
<1>8. CASE Compare(n)
    <2>1. note[n].pc = "compare" /\ v = Content /\ last # Content /\ task[n] = IdleTask
        BY <1>8 DEF Compare, Carried
    <2>2. note' = [note EXCEPT ![n] = [pc |-> "post", version |-> Content]]
        BY <1>8, <2>1 DEF Compare, SetNote
    <2>3. note'[n].pc = "post" /\ note'[n].version = Content
        BY <1>0, <2>2
    <2>4. UNCHANGED <<last, task>>
        BY <1>8 DEF Compare, childVars
    <2>5. Carried(n)'
        BY <1>2, <1>5, <2>1, <2>3, <2>4 DEF Carried
    <2>. QED BY <2>5 DEF Attended
<1>9. CASE Accept(n)
    <2>1. note[n].pc = "post" /\ v = Content
        BY <1>9 DEF Accept, Carried
    <2>2. note' = [note EXCEPT ![n] = [pc |-> "answered", version |-> Content]]
        BY <1>9, <2>1 DEF Accept, SetNote
    <2>3. note'[n].pc = "answered" /\ note'[n].version = Content
        BY <1>0, <2>2
    <2>4. task' = [task EXCEPT ![n].pc = "start"]
        BY <1>9 DEF Accept
    <2>5. task'[n].pc = "start"
        BY <1>0, <2>4
    <2>6. Brings(n)'
        BY <2>5 DEF Brings
    <2>7. Carried(n)'
        BY <1>2, <1>5, <2>3, <2>6 DEF Carried
    <2>. QED BY <2>7 DEF Attended
<1>10. CASE AcceptOutside(n) \/ PostFails(n)
    <2>1. note[n].pc = "post" /\ v = Content
        BY <1>10 DEF AcceptOutside, PostFails, Carried
    <2>. QED BY <1>2, <1>10, <2>1 DEF AcceptOutside, PostFails
<1>11. CASE AnswerLost(n)
    <2>1. note[n].pc = "answered" /\ EndNote(n) /\ left' # left
        BY <1>11, SpentShows DEF AnswerLost
    <2>2. note'[n] = IdleNote
        BY <1>0, <2>1 DEF EndNote
    <2>. QED BY <2>1, <2>2 DEF Lost
<1>12. CASE Answered(n)
    <2>1. note[n].pc = "answered" /\ v = Content /\ Brings(n) /\ last' = v
        BY <1>12 DEF Answered, Carried
    <2>2. note'[n].pc = "idle" /\ task' = task
        BY <1>0, <1>6, <1>12 DEF Answered, EndNote, childVars
    <2>3. Brings(n)'
        BY <1>1, <1>2, <2>1, <2>2 DEF Brings, Same
    <2>4. Carried(n)'
        BY <1>2, <1>5, <2>1, <2>2, <2>3 DEF Carried
    <2>. QED BY <2>4 DEF Attended
<1>. QED BY <1>7, <1>8, <1>9, <1>10, <1>11, <1>12 DEF Notify

\* A refresh that is under way goes on to bring what is in force.
LEMMA CalmRefresh ==
    ASSUME TypeInv, NEW t \in Tasks, Brings(t), Refresh(t), ~Lost,
           Fetchable \/ Same(applied, Content)
    PROVE  Brings(t)' /\ task'[t].pc # "start"
<1>0. task \in [Tasks -> [pc : TaskStages, version : Copies]]
    BY TypeInvIsParts DEF TaskTyped
<1>1. Content' = Content
    BY DEF Refresh, StartRefresh, Fetch, FetchFails, Store, Report, goVars,
           Content, Snapshot
<1>2. ASSUME NEW s, NEW v, SetTask(t, s, v)
      PROVE  task'[t].pc = s /\ task'[t].version = v
    BY <1>0, <1>2 DEF SetTask
<1>3. ASSUME task' = [task EXCEPT ![t] = IdleTask]
      PROVE  task'[t].pc = "idle" /\ task'[t] = IdleTask
    BY <1>0, <1>3 DEF IdleTask
<1>4. CASE StartRefresh(t)
    <2>1. task'[t].pc = "fetch" /\ task'[t].version = applied
        BY <1>2, <1>4 DEF StartRefresh
    <2>. QED BY <1>4, <2>1 DEF StartRefresh, Brings
<1>5. CASE Fetch(t) /\ task[t].version # Content
    <2>1. task'[t].pc = "apply" /\ task'[t].version = Content
        BY <1>2, <1>5 DEF Fetch, Changed
    <2>. QED BY <1>1, <2>1 DEF Brings
<1>6. CASE Fetch(t) /\ task[t].version = Content
    <2>1. task'[t].pc = "idle" /\ applied' = applied
        BY <1>3, <1>6 DEF Fetch, Changed
    <2>2. applied = Content
        BY <1>6 DEF Fetch, Brings
    <2>. QED BY <1>1, <2>1, <2>2 DEF Brings, Same
<1>7. CASE FetchFails(t)
    <2>1. task'[t].pc = "idle" /\ task'[t] = IdleTask /\ applied' = applied /\ task[t].pc = "fetch"
        BY <1>3, <1>7 DEF FetchFails
    <2>2. ~Fetchable
        BY <1>7, <2>1, SpentShows DEF FetchFails, Lost
    <2>. QED BY <1>1, <2>1, <2>2 DEF Brings, Same
<1>8. CASE Store(t)
    <2>1. task'[t].pc = "report" /\ applied' = Content
        BY <1>2, <1>8 DEF Store, Brings
    <2>. QED BY <1>1, <2>1 DEF Brings
<1>9. CASE Report(t)
    <2>1. task'[t].pc = "idle" /\ applied' = Content
        BY <1>3, <1>9 DEF Report, Brings
    <2>. QED BY <1>1, <2>1 DEF Brings, Same
<1>. QED BY <1>4, <1>5, <1>6, <1>7, <1>8, <1>9 DEF Refresh

\* Whichever refresh it is, of the poll or of the notification.
LEMMA CalmRefreshes ==
    ASSUME TypeInv, Attended, NEW t \in Tasks, Refresh(t), ~Lost
    PROVE  Attended'
<1>0. task \in [Tasks -> [pc : TaskStages, version : Copies]]
    BY TypeInvIsParts DEF TaskTyped
<1>1. /\ Content' = Content /\ UNCHANGED <<note, last, phase, cfg>>
      /\ \A u \in Tasks \ {t} : task'[u] = task[u]
    BY <1>0 DEF Refresh, StartRefresh, Fetch, FetchFails, Store, Report, goVars,
           hostVars, Content, Snapshot, SetTask
<1>2. task[t].pc # "idle"
    BY DEF Refresh, StartRefresh, Fetch, FetchFails, Store, Report
<1>3. task[t] # IdleTask
    BY <1>2 DEF IdleTask
<1>4. ASSUME Polled PROVE Polled'
    <2>1. t = Poll
        BY <1>3, <1>4 DEF Polled, Alone
    <2>2. Brings(t) /\ task[t].pc # "start"
        BY <1>4, <2>1 DEF Polled
    <2>3. task[t].pc = "fetch" => Same(applied, Content)
        BY <1>4, <2>1 DEF Polled
    <2>4. CASE task[t].pc = "fetch"
        <3>1. Brings(t)' /\ task'[t].pc # "start"
            BY <2>2, <2>3, <2>4, CalmRefresh
        <3>2. applied' = applied
            BY <2>4 DEF Refresh, StartRefresh, Fetch, FetchFails, Store, Report
        <3>3. Same(applied', Content')
            BY <1>1, <2>3, <2>4, <3>2
        <3>. QED BY <1>1, <1>4, <2>1, <3>1, <3>3 DEF Polled, Alone
    <2>5. CASE task[t].pc \in {"apply", "report"}
        <3>1. Store(t) \/ Report(t)
            BY <2>5 DEF Refresh, StartRefresh, Fetch, FetchFails
        <3>2. CASE Store(t)
            <4>1. task'[t].pc = "report" /\ applied' = Content
                BY <1>0, <2>2, <3>2 DEF Store, SetTask, Brings
            <4>. QED BY <1>1, <1>4, <2>1, <4>1 DEF Polled, Alone, Brings
        <3>3. CASE Report(t)
            <4>1. task'[t].pc = "idle" /\ applied' = Content
                BY <1>0, <2>2, <3>3 DEF Report, IdleTask, Brings
            <4>. QED BY <1>1, <1>4, <2>1, <4>1 DEF Polled, Alone, Brings, Same
        <3>. QED BY <3>1, <3>2, <3>3
    <2>. QED BY <2>2, <2>4, <2>5 DEF Refresh, StartRefresh, Fetch, FetchFails, Store, Report
<1>5. ASSUME NEW n \in Notes, Carried(n) PROVE Carried(n)'
    <2>1. t = n
        BY <1>3, <1>5 DEF Carried, Alone
    <2>2. note[n].pc \notin {"build", "compare", "post"}
        BY <1>3, <1>5, <2>1 DEF Carried
    <2>3. note[n].pc \in {"answered", "idle"}
        BY <2>2, TypeInvIsParts DEF NoteTyped, NoteStages
    <2>4. Brings(t) /\ Fetchable
        BY <1>5, <2>1, <2>3 DEF Carried, Fetchable
    <2>5. Brings(n)'
        BY <2>1, <2>4, CalmRefresh
    <2>. QED BY <1>1, <1>5, <2>1, <2>2, <2>5 DEF Carried, Alone
<1>. QED BY <1>4, <1>5 DEF Attended

\* A poll finds the child with what is in force.
LEMMA CalmPoll ==
    ASSUME TypeInv, Attended, Rounds = {}, PollTick
    PROVE  Attended'
<1>0. task \in [Tasks -> [pc : TaskStages, version : Copies]] /\ Poll \in Tasks
    BY TypeInvIsParts DEF TaskTyped, Tasks
<1>1. Content' = Content /\ UNCHANGED <<note, last, applied>>
    BY DEF PollTick, goVars, Content, Snapshot
<1>2. task' = [task EXCEPT ![Poll] = [pc |-> "fetch", version |-> applied]]
    BY DEF PollTick, SetTask
<1>3. task'[Poll].pc = "fetch" /\ task'[Poll].version = applied
    BY <1>0, <1>2
<1>4. Alone({Poll})'
    BY <1>0, <1>1, <1>2, AtRest DEF Alone
<1>5. Polled'
    BY <1>1, <1>3, <1>4, AtRest DEF Polled, Brings, Same
<1>. QED BY <1>5 DEF Attended

LEMMA TwoAreTwo ==
    ASSUME NEW x, NEW y, x # y
    PROVE  Cardinality({x, y}) = 2
<1>1. IsFiniteSet({x}) /\ Cardinality({x}) = 1
    BY FS_Singleton
<1>2. {x, y} = {x} \cup {y} /\ y \notin {x}
    OBVIOUS
<1>. QED BY <1>1, <1>2, FS_AddElement

\* A second round, while one is under way, is such a lapse.
LEMMA CalmOverlaps ==
    ASSUME TypeInv, Attended, NEW x \in Rounds,
           PollTick \/ (task' = task /\ \E c \in Configs : Announce(c))
    PROVE  Cardinality(Rounds') > 1
<1>0. /\ task \in [Tasks -> [pc : TaskStages, version : Copies]]
      /\ note \in [Notes -> [pc : NoteStages, version : Copies]]
      /\ Notes \subseteq Tasks /\ Poll \in Tasks /\ Poll \notin Notes
    BY TypeInvIsParts, DataPlaneAssumption
    DEF TaskTyped, NoteTyped, Tasks, DataPlaneAssumption
<1>1. Rounds = {x}
    BY <1>0 DEF Attended, Polled, Carried, Alone, Rounds
<1>2. ASSUME NEW y, y # x, Rounds' = {x, y} PROVE Cardinality(Rounds') > 1
    <2>1. Cardinality({x, y}) = 2
        BY <1>2, TwoAreTwo, Zenon
    <2>2. Cardinality(Rounds') = 2
        BY <1>2, <2>1, Zenon
    <2>. QED BY <2>2
<1>3. CASE PollTick
    <2>1. /\ note' = note /\ task[Poll] = IdleTask
          /\ task' = [task EXCEPT ![Poll] = [pc |-> "fetch", version |-> applied]]
        BY <1>3 DEF PollTick, SetTask
    <2>2. Poll # x
        BY <1>0, <2>1 DEF Rounds
    <2>3. task'[Poll].pc = "fetch"
        BY <1>0, <2>1
    <2>4. task'[Poll] # IdleTask
        BY <2>3 DEF IdleTask
    <2>5. \A t \in Tasks \ {Poll} : task'[t] = task[t]
        BY <1>0, <2>1
    <2>6. Rounds' = Rounds \cup {Poll}
        BY <1>0, <2>1, <2>4, <2>5 DEF Rounds
    <2>. QED BY <1>1, <1>2, <2>2, <2>6
<1>4. ASSUME task' = task, NEW c \in Configs, Announce(c)
      PROVE  Cardinality(Rounds') > 1
    <2>. DEFINE r == [pc |-> "build", version |-> Snapshot(c, url, FALSE)]
    <2>1. PICK n \in Notes : /\ note[n] = IdleNote /\ task[n] = IdleTask
                             /\ note' = [note EXCEPT ![n] = r]
        BY <1>4 DEF Announce
    <2>2. n # x
        BY <1>0, <2>1 DEF Rounds
    <2>3. r # IdleNote
        BY DEF IdleNote
    <2>. HIDE DEF r
    <2>4. Rounds' = Rounds \cup {n}
        BY <1>0, <1>4, <2>1, <2>3 DEF Rounds
    <2>. QED BY <1>1, <1>2, <2>2, <2>4
<1>. QED BY <1>3, <1>4

LEMMA CalmInvStep ==
    ASSUME OwnerInv, OwnerInv', TypeInv, CalmInv, [Next]_vars
    PROVE  CalmInv'
<1>. SUFFICES ASSUME calm' PROVE Serving' /\ url' /\ phase' = "up" /\ Attended'
    BY DEF CalmInv, Attended
<1>1. CASE UNCHANGED vars
    <2>1. Serving /\ url /\ phase = "up" /\ Attended
        BY <1>1 DEF vars, history, CalmInv, Attended
    <2>2. UNCHANGED <<note, task, applied, cfg, url, auths, last, phase, child>>
        BY <1>1 DEF vars, goVars, hostVars, childVars
    <2>. QED BY <2>1, <2>2, CalmFrame DEF Serving
<1>2. CASE Next
    <2>1. (calm \/ Settled') /\ ~Lapse
        BY <1>2 DEF Next, History
    <2>2. Serving' /\ url' /\ phase' = "up"
        BY <2>1 DEF Lapse
    <2>3. CASE Settled'
        <3>1. Rounds' = {} /\ Same(applied', Content') /\ (last' = Content' \/ ~last'.url)
            BY <2>3 DEF Settled
        <3>2. \A t \in Tasks : task'[t] = IdleTask
            BY <3>1 DEF Rounds
        <3>3. \A n \in Notes : note'[n] = IdleNote
            BY <3>1 DEF Rounds
        <3>4. task'[Poll].pc = "idle"
            BY <3>2 DEF Tasks, IdleTask
        <3>5. Polled'
            BY <3>1, <3>2, <3>3, <3>4 DEF Polled, Alone, Brings
        <3>. QED BY <2>2, <3>5 DEF Attended
    <2>4. CASE ~Settled'
        <3>1. Serving /\ url /\ phase = "up" /\ Attended
            BY <2>1, <2>4 DEF CalmInv, Attended
        <3>2. /\ Content' = Content \/ note' # note
              /\ ~(Cardinality(Rounds') > 1) /\ ~Lost
            BY <2>1 DEF Lapse
        <3>3. CASE \/ \E c \in Configs : EditFile(c)
                   \/ AuthsChange
                   \/ Service
                   \/ \E p \in Children : Process(p) \/ Crash(p)
            BY <2>2, <3>1, <3>2, <3>3, CalmQuiet, CalmFrame
        <3>4. CASE ChangeAuths \/ \E c \in Configs : SaveConfig(c)
            <4>1. PICK c \in Configs : /\ Announce(c) /\ cfg' = c
                                       /\ Content' # Content
                BY <3>4, TypeInvIsParts DEF ChangeAuths, SaveConfig, Content,
                         Snapshot, GoTyped
            <4>2. UNCHANGED <<url, last, task, phase>> /\ phase = "up"
                BY <3>4 DEF ChangeAuths, SaveConfig, hostVars, childVars
            <4>3. Rounds = {}
                BY <3>1, <3>2, <4>1, <4>2, CalmOverlaps
            <4>. QED BY <2>2, <3>1, <4>1, <4>2, <4>3, AtRest, CalmAnnounce
        <3>5. CASE PollTick
            <4>1. Rounds = {}
                BY <3>1, <3>2, <3>5, CalmOverlaps
            <4>. QED BY <2>2, <3>1, <3>5, <4>1, CalmPoll
        <3>6. ASSUME NEW n \in Notes, Notify(n) PROVE Attended'
            <4>1. note[n].pc # "idle"
                BY <3>6 DEF Notify, Build, Compare, Accept, AcceptOutside,
                            PostFails, AnswerLost, Answered
            <4>2. note[n] # IdleNote
                BY <4>1 DEF IdleNote
            <4>3. Poll # n
                BY DataPlaneAssumption DEF DataPlaneAssumption
            <4>4. Carried(n)
                BY <3>1, <4>2, <4>3 DEF Attended, Polled, Carried, Alone
            <4>. QED BY <3>1, <3>2, <3>6, <4>4, CalmNotify
        <3>7. ASSUME NEW t \in Tasks, Refresh(t) PROVE Attended'
            BY <3>1, <3>2, <3>7, CalmRefreshes
        <3>. QED BY <1>2, <2>2, <3>3, <3>4, <3>5, <3>6, <3>7 DEF Next, Change
    <2>. QED BY <2>3, <2>4
<1>. QED BY <1>1, <1>2

\* A change that is announced while nothing else goes on is what the child
\* works with once its announcement has been dealt with, for any number of
\* configurations, children, faults and notifications.
THEOREM AnnouncementsArrive == Spec => []AnnouncedIsApplied
<1>1. Init => CalmInv
    BY DEF Init, CalmInv
<1>2. OwnerInv /\ OwnerInv' /\ TypeInv /\ CalmInv /\ [Next]_vars => CalmInv'
    BY CalmInvStep
<1>3. CalmInv => AnnouncedIsApplied
    BY AtRest DEF CalmInv, Attended, AnnouncedIsApplied
<1>. QED BY <1>1, <1>2, <1>3, OwnerInvariant, TypeInvariant, PTL DEF Spec

=============================================================================
