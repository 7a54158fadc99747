------------------------------- MODULE Refresh -------------------------------
(***************************************************************************)
(* The automatic refresh of one credential: the loop with its heap, dirty  *)
(* set and timer, the workers that call the provider, and everybody else   *)
(* who writes the credential meanwhile: results of requests, the operator, *)
(* and the service, which applies the auth file when the watcher saw it    *)
(* change.  m.mu guards the record, l.mu the heap; a step is what one      *)
(* goroutine does under one of them, or between two of them.               *)
(*                                                                         *)
(* The credential is an OAuth one with an executor, it is not removed, and *)
(* its refresh time follows from the token's expiry.                       *)
(***************************************************************************)
EXTENDS Integers, Sequences, FiniteSets, FiniteSetsExt

CONSTANTS
    Workers,           \* goroutines of the pool
    Lifetime,          \* from a token's issue to its refresh time
    PendingBackoff,    \* refreshPendingBackoff
    FailureBackoff,    \* refreshFailureBackoff
    IneffectiveBackoff,\* refreshIneffectiveBackoff
    AuthErrors,        \* whether results of requests may be 401
    MaxTokens,         \* bound: tokens the provider issues
    MaxChanges,        \* bound: what the operator and the watcher start
    MaxTime            \* bound: the clock stops here

ASSUME RefreshAssumption ==
    /\ {Lifetime, PendingBackoff, FailureBackoff, IneffectiveBackoff,
        MaxTokens, MaxTime} \subseteq Nat \ {0}
    /\ MaxChanges \in Nat /\ AuthErrors \in BOOLEAN
    /\ Workers \cap {"operator", "service"} = {}

VARIABLES
    now,
    auth,     \* the Manager's record
    disk,     \* the token in the auth file
    issued,   \* the provider: the last token, which revokes the one before
    heap,     \* the refresh time of the credential in the loop's heap
    dirty,    \* whether it is in the dirty set
    wake,     \* whether wakeCh is full
    timer,    \* when the armed timer fires
    loop,     \* the loop's goroutine
    jobs,     \* the jobs channel: the instants at which they were marked
    work,     \* [Workers -> ...]: refreshAuth
    patch,    \* PatchAuthFileStatus
    watch,    \* the watcher and the service behind it
    changes,  \* how often the operator or the watcher started
    stale,    \* history: writers whose copy is older than the record
    rewound,  \* history: such a copy has been written
    released, \* history: a refresh that ended, or the service, took a mark
              \* away while another refresh was waiting or under way
    unsaved,  \* history: the last save of the credential failed
    dropped   \* history: the loop dropped the credential since it was last
              \* asked to look at it

loopVars    == <<heap, dirty, wake, timer, loop, jobs>>
fileVars    == <<disk, unsaved>>
historyVars == <<stale, rewound, released, dropped>>
vars == <<now, auth, fileVars, issued, loopVars, work, patch, watch, changes,
          historyVars>>

Never == 0
Later(t, u) == IF t > u THEN t ELSE u

FirstToken == [id |-> 1, due |-> 1]
NoCopy     == [token |-> FirstToken, unauthorized |-> FALSE, holdOff |-> Never]

-----------------------------------------------------------------------------
(* When to look at the credential again, and whether to refresh it          *)

\* Mutant: a credential that is held off is taken out of the heap.
CheckUnlessHeld(a, t) ==
    IF a.unauthorized \/ a.holdOff > t THEN Never ELSE Later(a.token.due, t)

\* nextRefreshCheckAt: Never when it is not to be scheduled.  holdOff is
\* NextRefreshAfter.
CheckAt(a, t) ==
    IF a.unauthorized THEN Never
    ELSE IF a.holdOff > t THEN a.holdOff
    ELSE Later(a.token.due, t)

ShouldRefresh(a, t) == ~a.unauthorized /\ a.holdOff <= t /\ a.token.due <= t

\* Mutant: the loop is not woken up.
QueueQuietly ==
    /\ dirty' = TRUE
    /\ dropped' = FALSE
    /\ UNCHANGED <<heap, timer, wake>>

\* queueReschedule: the channel holds one signal.
Queue ==
    /\ dirty' = TRUE /\ wake' = TRUE
    /\ dropped' = FALSE
    /\ UNCHANGED <<heap, timer>>

-----------------------------------------------------------------------------
(* The loop                                                                *)

Selecting == [at |-> "select", now |-> 0]

\* resetTimer: it counts from the instant at which the loop woke up.
Arm(next) == IF next = Never THEN Never ELSE now + Later(next - loop.now, 0)

Wake ==
    /\ loop.at = "select" /\ wake
    /\ wake' = FALSE
    /\ loop' = [at |-> "drain", now |-> now]
    /\ UNCHANGED <<now, auth, fileVars, issued, heap, dirty, timer, jobs, work,
                   patch, watch, changes, dropped>>

\* popDue
Fire ==
    /\ loop.at = "select" /\ timer \notin {Never} /\ timer <= now
    /\ timer' = Never
    /\ loop' = [at |-> IF heap \in 1..now THEN "due" ELSE "drain", now |-> now]
    /\ heap' = IF heap \in 1..now THEN Never ELSE heap
    /\ UNCHANGED <<now, auth, fileVars, issued, dirty, wake, jobs, work, patch,
                   watch, changes, dropped>>

\* upsert or remove: nobody else touches the heap, so that what the loop saw
\* of the record decides at once.  History: a refused credential is out of the
\* heap from then on until somebody asks for it.
Settle ==
    /\ heap' = CheckAt(auth, loop.now)
    /\ dropped' = (dropped \/ auth.unauthorized)

\* handleDueAuth, up to its decision.
ExamineDue ==
    /\ loop.at = "due"
    /\ IF ShouldRefresh(auth, loop.now)
       THEN /\ loop' = [loop EXCEPT !.at = "mark"]
            /\ UNCHANGED <<heap, dropped>>
       ELSE /\ loop' = [loop EXCEPT !.at = "drain"]
            /\ Settle
    /\ UNCHANGED <<now, auth, fileVars, issued, dirty, wake, timer, jobs,
                   work, patch, watch, changes>>

\* Mutant: a refresh that starts does not keep the next one off.
MarkOnly ==
    /\ loop.at = "mark"
    /\ jobs' = Append(jobs, loop.now)
    /\ loop' = [loop EXCEPT !.at = "drain"]
    /\ Queue
    /\ UNCHANGED <<now, auth, fileVars, issued, work, patch, watch, changes>>

\* markRefreshPending, and the job: the channel is far larger than the jobs
\* one credential can have.
MarkPending ==
    /\ loop.at = "mark"
    /\ IF auth.holdOff > loop.now
       THEN /\ loop' = [loop EXCEPT !.at = "look again"]
            /\ UNCHANGED <<auth, heap, dirty, wake, timer, jobs, dropped>>
       ELSE /\ auth' = [auth EXCEPT !.holdOff = loop.now + PendingBackoff]
            /\ jobs' = Append(jobs, loop.now)
            /\ loop' = [loop EXCEPT !.at = "drain"]
            /\ Queue
    /\ UNCHANGED <<now, fileVars, issued, work, patch, watch, changes>>

LookAgain ==
    /\ loop.at = "look again"
    /\ loop' = [loop EXCEPT !.at = "drain"]
    /\ Settle
    /\ UNCHANGED <<now, auth, fileVars, issued, dirty, wake, timer, jobs,
                   work, patch, watch, changes>>

\* applyDirty takes the set, resetTimer follows ...
Drain ==
    /\ loop.at = "drain"
    /\ dirty' = FALSE
    /\ IF dirty
       THEN /\ loop' = [loop EXCEPT !.at = "look"]
            /\ UNCHANGED timer
       ELSE /\ loop' = Selecting
            /\ timer' = Arm(heap)
    /\ UNCHANGED <<now, auth, fileVars, issued, heap, wake, jobs, work, patch,
                   watch, changes, dropped>>

\* ... after a look at the record.
LookAtDirty ==
    /\ loop.at = "look"
    /\ Settle
    /\ loop' = Selecting
    /\ timer' = Arm(heap')
    /\ UNCHANGED <<now, auth, fileVars, issued, dirty, wake, jobs, work, patch,
                   watch, changes>>

-----------------------------------------------------------------------------
(* The token store                                                         *)

\* persist: the store writes the file or fails, and every caller drops the
\* error.  A failure leaves the token of the file as it was, so that it makes
\* a difference only when another one was to be written.
Save(token) ==
    \/ disk' = token /\ unsaved' = FALSE
    \/ disk # token  /\ disk' = disk /\ unsaved' = TRUE

-----------------------------------------------------------------------------
(* refreshAuth                                                             *)

Resting == [at |-> "idle", marked |-> 0, rec |-> NoCopy, answer |-> "none"]
Refreshing(w) == work[w].at # "idle"

TakeJob(w) ==
    /\ ~Refreshing(w) /\ jobs # <<>>
    /\ jobs' = Tail(jobs)
    /\ work' = [work EXCEPT ![w] = [at |-> "calling", marked |-> Head(jobs),
                                    rec |-> auth, answer |-> "none"]]
    /\ UNCHANGED <<now, auth, fileVars, issued, heap, dirty, wake, timer, loop,
                   patch, watch, changes, dropped>>

\* The worker's copy with the answer: not every refresh brings a token.
WithAnswer(rec, answer) ==
    IF answer = "granted"
    THEN [rec EXCEPT !.token = [id |-> issued + 1, due |-> now + Lifetime]]
    ELSE rec

\* The provider answers.  A refresh token is good for one use; a success may
\* bring a token that is due at once.
Answer(w, answer) ==
    /\ work[w].at = "calling"
    /\ work' = [work EXCEPT ![w] =
                   [at |-> "answered", marked |-> work[w].marked,
                    rec |-> WithAnswer(work[w].rec, answer), answer |-> answer]]
    /\ issued' = IF answer = "granted" THEN issued + 1 ELSE issued
    /\ UNCHANGED <<now, auth, fileVars, loopVars, patch, watch, changes, dropped>>

Refusals == {"unauthorized", "failed", "canceled"}

Respond(w) ==
    \/ /\ work[w].rec.token.id = issued /\ issued < MaxTokens
       /\ Answer(w, "granted")
    \/ /\ work[w].rec.token.id = issued
       /\ Answer(w, "ineffective")
    \/ \E answer \in Refusals : Answer(w, answer)

\* What a successful refresh writes back: the record it read, with the answer.
Refreshed(rec) ==
    LET clean == [rec EXCEPT !.unauthorized = FALSE, !.holdOff = Never]
    IN  IF ShouldRefresh(clean, now)
        THEN [clean EXCEPT !.holdOff = now + IneffectiveBackoff] ELSE clean

\* A failure is noted in the record as it is by then, a cancellation is not.
Failed(answer) ==
    CASE answer = "unauthorized" ->
             [auth EXCEPT !.unauthorized = TRUE, !.holdOff = Never]
      [] answer = "failed" ->
             [auth EXCEPT !.unauthorized = FALSE, !.holdOff = now + FailureBackoff]
      [] answer = "canceled" -> auth

\* Update and queueRefreshReschedule; a failure is over then.
WriteBack(w) ==
    LET success == work[w].answer \in {"granted", "ineffective"}
    IN  /\ work[w].at = "answered"
        /\ auth' = IF success THEN Refreshed(work[w].rec)
                              ELSE Failed(work[w].answer)
        /\ work' = [work EXCEPT ![w] =
                       IF success
                       THEN [at |-> "persist", marked |-> work[w].marked,
                             rec |-> auth', answer |-> work[w].answer]
                       ELSE Resting]
        /\ Queue
        /\ UNCHANGED <<now, fileVars, issued, loop, jobs, patch, watch, changes>>

\* Mutant: the refreshed record is not saved.
KeepInMemory(w) ==
    /\ work[w].at = "persist"
    /\ work' = [work EXCEPT ![w] = Resting]
    /\ Queue
    /\ UNCHANGED <<now, auth, fileVars, issued, loop, jobs, patch, watch, changes>>

\* Update goes on without m.mu, and the worker asks for another look.
Persist(w) ==
    /\ work[w].at = "persist"
    /\ Save(work[w].rec.token)
    /\ work' = [work EXCEPT ![w] = Resting]
    /\ Queue
    /\ UNCHANGED <<now, auth, issued, loop, jobs, patch, watch, changes>>

-----------------------------------------------------------------------------
(* The other writers                                                       *)

\* MarkResult sets or clears LastError, and persists under m.mu.
MarkResult(unauthorized) ==
    /\ unauthorized => AuthErrors
    /\ auth' = [auth EXCEPT !.unauthorized = unauthorized]
    /\ Save(auth.token)
    /\ UNCHANGED <<now, issued, loopVars, work, patch, watch, changes,
                   dropped>>

NoPatch == [at |-> "idle", rec |-> NoCopy]

\* PatchAuthFileStatus reads the record, changes its copy ...
ReadToPatch ==
    /\ patch.at = "idle" /\ changes < MaxChanges
    /\ patch' = [at |-> "read", rec |-> auth]
    /\ changes' = changes + 1
    /\ UNCHANGED <<now, auth, fileVars, issued, loopVars, work, watch, dropped>>

\* ... and writes it with Update.
WritePatch ==
    /\ patch.at = "read"
    /\ auth' = patch.rec
    /\ patch' = [patch EXCEPT !.at = "written"]
    /\ Queue
    /\ UNCHANGED <<now, fileVars, issued, loop, jobs, work, watch, changes>>

PersistPatch ==
    /\ patch.at = "written"
    /\ Save(patch.rec.token)
    /\ patch' = NoPatch
    /\ UNCHANGED <<now, auth, issued, loopVars, work, watch, changes, dropped>>

\* The watcher reads the file when its content is not the last it has seen ...
ReadFile ==
    /\ watch.at = "idle" /\ changes < MaxChanges /\ watch.seen # disk
    /\ watch' = [at |-> "read", seen |-> disk, rec |-> NoCopy]
    /\ changes' = changes + 1
    /\ UNCHANGED <<now, auth, fileVars, issued, loopVars, work, patch, dropped>>

\* ... and the service makes a record of it, with the refresh times of the
\* existing one unless either is disabled ...
Prepare ==
    /\ watch.at = "read"
    /\ \E holdOff \in {auth.holdOff, Never} :
          watch' = [at |-> "prepared", seen |-> watch.seen,
                    rec |-> [token |-> watch.seen, unauthorized |-> FALSE,
                             holdOff |-> holdOff]]
    /\ UNCHANGED <<now, auth, fileVars, issued, loopVars, work, patch, changes,
                   dropped>>

\* ... and updates the Manager, which does not persist it again.
ApplyFile ==
    /\ watch.at = "prepared"
    /\ auth' = watch.rec
    /\ watch' = [at |-> "idle", seen |-> watch.seen, rec |-> NoCopy]
    /\ Queue
    /\ UNCHANGED <<now, fileVars, issued, loop, jobs, work, patch, changes>>

Tick ==
    /\ now < MaxTime
    /\ now' = now + 1
    /\ UNCHANGED <<auth, fileVars, issued, loopVars, work, patch, watch, changes,
                   dropped>>

-----------------------------------------------------------------------------

\* StartAutoRefresh: the heap is built, then the loop arms its timer.
RefreshInit ==
    /\ now = 1 /\ issued = 1
    /\ auth = NoCopy /\ disk = FirstToken
    /\ heap = FirstToken.due /\ timer = FirstToken.due
    /\ dirty = FALSE /\ wake = FALSE
    /\ loop = Selecting /\ jobs = <<>>
    /\ work = [w \in Workers |-> Resting]
    /\ patch = NoPatch /\ changes = 0
    /\ watch = [at |-> "idle", seen |-> FirstToken, rec |-> NoCopy]
    /\ stale = {}
    /\ unsaved = FALSE
    /\ rewound = FALSE /\ released = FALSE /\ dropped = FALSE

Loop ==
    \/ Wake \/ Fire \/ ExamineDue \/ MarkPending \/ LookAgain
    \/ Drain \/ LookAtDirty

Worker(w) ==
    TakeJob(w) \/ Respond(w) \/ WriteBack(w) \/ Persist(w)

Operator == ReadToPatch \/ WritePatch \/ PersistPatch

Watcher == ReadFile \/ Prepare \/ ApplyFile

\* Who has a copy that is still to be written, to the record or to the file.
Copies ==
    {<<w, "record">> : w \in {x \in Workers : work[x].at \in {"calling", "answered"}}}
        \cup {<<w, "file">> : w \in {x \in Workers : work[x].at = "persist"}}
        \cup {<<x, "record">> : x \in {y \in {"operator"} : patch.at = "read"}}
        \cup {<<x, "file">> : x \in {y \in {"operator"} : patch.at = "written"}}
        \cup {<<x, "record">> : x \in {y \in {"service"} : watch.at \in {"read", "prepared"}}}

\* A failed refresh writes no copy.
Discards(c) == c[1] \in Workers /\ work[c[1]].answer \in Refusals

Substance(a) == <<a.token, a.holdOff>>

\* The watcher may read the file before the record is saved.
BornStale(c) == c[1] = "service" /\ disk # auth.token

\* Refreshes that were started and are not over.
Outstanding ==
    jobs # <<>> \/ \E w \in Workers : work[w].at \in {"calling", "answered"}

Outdates(c) == IF c[2] = "file" THEN auth'.token # auth.token
                                ELSE Substance(auth') # Substance(auth)

Observe ==
    /\ stale' = {c \in Copies' : IF c \in Copies THEN c \in stale \/ Outdates(c)
                                                ELSE BornStale(c)}
    /\ rewound' = (rewound \/ \E c \in stale \ Copies' : ~Discards(c))
    /\ released' = (released \/
           /\ \E c \in Copies \ Copies' : c[1] # "operator"
           /\ Outstanding' /\ auth'.holdOff < auth.holdOff)

RefreshNext ==
    /\ \/ Loop \/ Operator \/ Watcher \/ Tick
       \/ \E w \in Workers : Worker(w)
       \/ \E b \in BOOLEAN : MarkResult(b)
    /\ Observe

RefreshSpec == RefreshInit /\ [][RefreshNext]_vars

\* The loop and the workers run, the provider answers, time passes.
Running ==
    /\ WF_vars(Loop /\ Observe)
    /\ \A w \in Workers : WF_vars(Worker(w) /\ Observe)
    /\ WF_vars(Tick /\ Observe)

FairRefreshSpec == RefreshSpec /\ Running

-----------------------------------------------------------------------------
(* Properties                                                              *)

Records == [token : [id : 1..MaxTokens, due : 1..MaxTime + Lifetime],
            unauthorized : BOOLEAN,
            holdOff : 0..MaxTime + Max({PendingBackoff, FailureBackoff,
                                        IneffectiveBackoff})]

RefreshTypeOK ==
    /\ now \in 1..MaxTime /\ issued \in 1..MaxTokens
    /\ auth \in Records /\ patch.rec \in Records /\ watch.rec \in Records
    /\ {dirty, wake, unsaved, rewound, released, dropped} \subseteq BOOLEAN
    /\ heap \in Nat /\ timer \in Nat
    /\ jobs \in Seq(1..MaxTime)
    /\ \A w \in Workers : work[w].rec \in Records

\* Somebody will look at the credential, at the latest at its time.
InCare ==
    \/ heap # Never /\ (loop.at = "select" => wake \/ timer # Never)
    \/ dirty /\ (wake \/ loop.at # "select")
    \/ loop.at \in {"due", "mark", "look again", "look"}
    \/ jobs # <<>>
    \/ \E w \in Workers : Refreshing(w)

\* However the credential's writers, the workers and the loop interleave, a
\* credential that can be refreshed is in the loop's care.  The one way out
\* is a result that clears a 401: nobody asks the loop to look again.
NobodyIsForgotten ==
    RefreshTypeOK /\ (~auth.unauthorized /\ ~dropped => InCare)

\* Two refreshes of the credential, with the provider or waiting for a worker,
\* were started at least refreshPendingBackoff apart, unless a copy that was
\* out of date was written, or the end of one refresh took away the mark of
\* another, as it does when the jobs had to wait for a worker.
Underway == [w \in {x \in Workers : work[x].at \in {"calling", "answered"}}
                |-> work[w].marked]
RefreshesAreSpaced ==
    ~rewound /\ ~released =>
        /\ \A v, w \in DOMAIN Underway :
              v # w => \/ Underway[v] >= Underway[w] + PendingBackoff
                       \/ Underway[w] >= Underway[v] + PendingBackoff
        /\ \A w \in DOMAIN Underway, i \in DOMAIN jobs :
              jobs[i] >= Underway[w] + PendingBackoff
        /\ \A i, j \in DOMAIN jobs : i < j => jobs[j] >= jobs[i] + PendingBackoff

\* Once all writers are through, the newest token is in the record, although
\* a rotated token can neither be fetched nor used again, unless an outdated
\* copy was written; and it is in the file, unless the last save failed as
\* well: Update and MarkResult drop the error of a save (conductor.go:2181,
\* 3759), and the file keeps a revoked token until the next one succeeds.
Quiet ==
    /\ \A w \in Workers : ~Refreshing(w)
    /\ patch.at = "idle" /\ watch.at = "idle"
NewestTokenIsKept ==
    Quiet /\ ~rewound => /\ auth.token.id = issued
                         /\ unsaved \/ disk = auth.token

\* A credential that is due is refreshed, or held off, or turns out to be
\* refused.
DueIsRefreshed ==
    ShouldRefresh(auth, now) /\ ~dropped ~>
        \/ ~ShouldRefresh(auth, now)
        \/ \E w \in Workers : Refreshing(w)
        \/ timer > MaxTime

=============================================================================
