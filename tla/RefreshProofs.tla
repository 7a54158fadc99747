---------------------------- MODULE RefreshProofs ---------------------------
(***************************************************************************)
(* Proofs about Refresh for any number of workers, every lifetime of a     *)
(* token and every length of the backoffs: the credential stays in the     *)
(* loop's care, refreshes keep their distance, and the newest token is     *)
(* kept.                                                                   *)
(***************************************************************************)
EXTENDS Refresh, TLAPS

USE DEF fileVars

-----------------------------------------------------------------------------
(* Type correctness.                                                       *)

Tokens == [id : 1..MaxTokens, due : 1..MaxTime + Lifetime]

HoldOffs == 0..MaxTime + Max({PendingBackoff, FailureBackoff, IneffectiveBackoff})

Answers == {"none", "granted", "ineffective"} \cup Refusals

\* What a worker holds by the instant n.
Calls(n) ==
    {c \in [at : {"idle", "calling", "answered", "persist"}, marked : 0..n,
            rec : Records, answer : Answers] :
        /\ c.at = "calling" => c.answer = "none"
        /\ c.at = "answered" => c.answer # "none"
        /\ c.at = "persist" => c.answer \in {"granted", "ineffective"}}

LoopAts == {"select", "drain", "due", "mark", "look again", "look"}

TypeInv ==
    /\ now \in 1..MaxTime /\ issued \in 1..MaxTokens
    /\ auth \in Records /\ disk \in Tokens
    /\ dirty \in BOOLEAN /\ wake \in BOOLEAN
    /\ heap \in Nat /\ timer \in Nat
    /\ loop \in [at : LoopAts, now : 0..MaxTime] /\ loop.now <= now
    /\ loop.at # "select" => loop.now # 0
    /\ jobs \in Seq(1..now)
    /\ work \in [Workers -> Calls(now)]
    /\ patch \in [at : {"idle", "read", "written"}, rec : Records]
    /\ watch \in [at : {"idle", "read", "prepared"}, seen : Tokens, rec : Records]

HistoryTyped ==
    /\ rewound \in BOOLEAN /\ released \in BOOLEAN /\ dropped \in BOOLEAN
    /\ unsaved \in BOOLEAN

\* The longest of the three backoffs.
LEMMA LongestBackoff ==
    LET L == Max({PendingBackoff, FailureBackoff, IneffectiveBackoff})
    IN  L \in Nat /\ PendingBackoff <= L /\ FailureBackoff <= L
            /\ IneffectiveBackoff <= L
<1>. DEFINE S == {PendingBackoff, FailureBackoff, IneffectiveBackoff}
<1>1. S \subseteq Nat
    BY RefreshAssumption DEF RefreshAssumption
<1>2. \E x \in S : \A y \in S : x >= y
    BY RefreshAssumption DEF RefreshAssumption
<1>3. Max(S) \in S /\ \A y \in S : Max(S) >= y
    BY <1>2 DEF Max
<1>. QED BY <1>1, <1>3

\* What a record consists of.
LEMMA RecordParts ==
    /\ Records = [token : Tokens, unauthorized : BOOLEAN, holdOff : HoldOffs]
    /\ HoldOffs \subseteq Nat /\ Never \in HoldOffs
    /\ \A t \in 0..MaxTime : /\ t + PendingBackoff \in HoldOffs
                             /\ t + FailureBackoff \in HoldOffs
                             /\ t + IneffectiveBackoff \in HoldOffs
    /\ \A k \in Tokens : k.due \in Nat /\ k.id \in Nat
    /\ FirstToken \in Tokens /\ NoCopy \in Records
<1>. DEFINE L == Max({PendingBackoff, FailureBackoff, IneffectiveBackoff})
<1>1. L \in Nat /\ PendingBackoff <= L /\ FailureBackoff <= L
          /\ IneffectiveBackoff <= L
    BY LongestBackoff
<1>2. /\ PendingBackoff \in Nat /\ FailureBackoff \in Nat
      /\ IneffectiveBackoff \in Nat /\ MaxTime \in Nat \ {0}
      /\ MaxTokens \in Nat \ {0} /\ Lifetime \in Nat
    BY RefreshAssumption DEF RefreshAssumption
<1>3. HoldOffs = 0..MaxTime + L
    BY DEF HoldOffs
<1>4. Records = [token : Tokens, unauthorized : BOOLEAN, holdOff : HoldOffs]
    BY DEF Records, Tokens, HoldOffs
<1>. HIDE DEF L
<1>5. FirstToken \in Tokens
    BY <1>2 DEF FirstToken, Tokens
<1>6. Never \in HoldOffs /\ HoldOffs \subseteq Nat
    BY <1>1, <1>2, <1>3 DEF Never
<1>7. NoCopy \in Records
    BY <1>4, <1>5, <1>6 DEF NoCopy
<1>8. \A k \in Tokens : k.due \in Nat /\ k.id \in Nat
    BY <1>2 DEF Tokens
<1>9. \A t \in 0..MaxTime : /\ t + PendingBackoff \in HoldOffs
                            /\ t + FailureBackoff \in HoldOffs
                            /\ t + IneffectiveBackoff \in HoldOffs
    BY <1>1, <1>2, <1>3
<1>. QED BY <1>4, <1>5, <1>6, <1>7, <1>8, <1>9

\* A credential that is not refused is to be looked at at some time.
LEMMA CheckAtFacts ==
    ASSUME NEW a \in Records, NEW t \in Nat \ {0}
    PROVE  /\ CheckAt(a, t) \in Nat
           /\ ~a.unauthorized => CheckAt(a, t) # Never
<1>1. a.token.due \in Nat /\ a.holdOff \in Nat
    BY RecordParts
<1>. QED BY <1>1 DEF CheckAt, Later, Never

\* A sequence over a set is one over every larger set.
LEMMA SeqLarger ==
    ASSUME NEW S, NEW T, S \subseteq T, NEW s \in Seq(S)
    PROVE  s \in Seq(T)
OBVIOUS

\* The clock and the instant at which the loop woke up.
LEMMA ClockFacts ==
    ASSUME TypeInv
    PROVE  /\ now \in Nat \ {0} /\ loop.now \in Nat /\ loop.now <= now
           /\ loop.at # "select" => loop.now \in Nat \ {0}
           /\ loop.now \in 0..MaxTime /\ (loop.now # 0 => loop.now \in 1..now)
<1>1. MaxTime \in Nat
    BY RefreshAssumption DEF RefreshAssumption
<1>2. /\ now \in 1..MaxTime /\ loop \in [at : LoopAts, now : 0..MaxTime]
      /\ loop.now <= now /\ (loop.at # "select" => loop.now # 0)
    BY DEF TypeInv
<1>3. loop.now \in 0..MaxTime
    BY <1>2
<1>. QED BY <1>1, <1>2, <1>3

\* An armed timer fires at some instant.
LEMMA ArmFacts ==
    ASSUME TypeInv, NEW t \in Nat
    PROVE  Arm(t) \in Nat /\ (t # Never => Arm(t) # Never)
<1>1. now \in Nat \ {0} /\ loop.now \in Nat
    BY ClockFacts
<1>. QED BY <1>1 DEF Arm, Later, Never

\* What a successful refresh and what a failed one write back.
LEMMA WrittenBack ==
    ASSUME now \in 1..MaxTime, NEW r \in Records, NEW x \in Refusals, auth \in Records
    PROVE  /\ Refreshed(r) \in Records /\ Refreshed(r).token = r.token
           /\ Failed(x) \in Records /\ Failed(x).token = auth.token
<1>. DEFINE clean == [r EXCEPT !.unauthorized = FALSE, !.holdOff = Never]
<1>1. clean \in Records /\ clean.token = r.token
    BY RecordParts
<1>2. Refreshed(r) = IF ShouldRefresh(clean, now)
                     THEN [clean EXCEPT !.holdOff = now + IneffectiveBackoff]
                     ELSE clean
    BY DEF Refreshed
<1>. HIDE DEF clean
<1>3. now + IneffectiveBackoff \in HoldOffs /\ now + FailureBackoff \in HoldOffs
    BY RecordParts
<1>4. Refreshed(r) \in Records /\ Refreshed(r).token = r.token
    BY <1>1, <1>2, <1>3, RecordParts
<1>5. Failed(x) \in Records /\ Failed(x).token = auth.token
    BY <1>3, RecordParts DEF Failed, Refusals
<1>. QED BY <1>4, <1>5

\* A worker at rest.
LEMMA RestingTyped == ASSUME now \in 1..MaxTime PROVE Resting \in Calls(now)
<1>1. MaxTime \in Nat
    BY RefreshAssumption DEF RefreshAssumption
<1>. QED BY <1>1, RecordParts DEF Resting, Calls, Answers

\* Nothing is under way at first.
LEMMA TypeInit == RefreshInit => TypeInv /\ HistoryTyped
<1>. SUFFICES ASSUME RefreshInit PROVE TypeInv /\ HistoryTyped
    OBVIOUS
<1>1. /\ MaxTime \in Nat \ {0} /\ MaxTokens \in Nat \ {0}
    BY RefreshAssumption DEF RefreshAssumption
<1>2. /\ now \in 1..MaxTime /\ issued \in 1..MaxTokens
      /\ heap \in Nat /\ timer \in Nat
    BY <1>1 DEF RefreshInit, FirstToken
<1>3. /\ auth \in Records /\ disk \in Tokens /\ dirty \in BOOLEAN /\ wake \in BOOLEAN
      /\ patch \in [at : {"idle", "read", "written"}, rec : Records]
      /\ watch \in [at : {"idle", "read", "prepared"}, seen : Tokens, rec : Records]
    BY RecordParts DEF RefreshInit, NoPatch
<1>4. /\ loop \in [at : LoopAts, now : 0..MaxTime] /\ loop.now <= now
      /\ loop.at # "select" => loop.now # 0
    BY <1>1, <1>2 DEF RefreshInit, Selecting, LoopAts
<1>5. jobs \in Seq(1..now)
    BY DEF RefreshInit
<1>6. Resting \in Calls(now)
    BY <1>2, RestingTyped
<1>7. work \in [Workers -> Calls(now)]
    BY <1>6 DEF RefreshInit
<1>. QED BY <1>2, <1>3, <1>4, <1>5, <1>7, Zenon DEF TypeInv, HistoryTyped, RefreshInit

\* The loop's steps keep the state well-typed.
LEMMA LoopTyped == ASSUME TypeInv, Loop PROVE TypeInv'
<1>1. /\ now \in 1..MaxTime /\ now \in Nat \ {0} /\ auth \in Records
      /\ heap \in Nat /\ timer \in Nat
      /\ loop \in [at : LoopAts, now : 0..MaxTime] /\ loop.now <= now
      /\ loop.at # "select" => loop.now # 0
      /\ jobs \in Seq(1..now) /\ now \in 0..MaxTime
    BY ClockFacts DEF TypeInv
<1>2. /\ now' = now /\ UNCHANGED <<disk, issued, work, patch, watch>>
    BY DEF Loop, Wake, Fire, ExamineDue, MarkPending, LookAgain, Drain, LookAtDirty
<1>3. dirty' \in BOOLEAN /\ wake' \in BOOLEAN
    BY DEF Loop, Wake, Fire, ExamineDue, MarkPending, LookAgain, Drain, LookAtDirty,
           Queue, TypeInv
<1>4. Settle => heap' \in Nat
    <2>. SUFFICES ASSUME Settle, loop.at # "select" \/ loop.at = "select" PROVE heap' \in Nat
        OBVIOUS
    <2>1. loop.now \in Nat
        BY ClockFacts
    <2>2. auth.token.due \in Nat /\ auth.holdOff \in Nat
        BY <1>1, RecordParts
    <2>. QED BY <2>1, <2>2 DEF Settle, CheckAt, Later, Never
<1>5. heap' \in Nat
    <2>1. Settle \/ heap' = heap \/ heap' = Never
        BY Zenon DEF Loop, Wake, Fire, ExamineDue, MarkPending, LookAgain, Drain,
           LookAtDirty, Queue
    <2>. QED BY <1>1, <1>4, <2>1 DEF Never
<1>6. timer' \in Nat
    <2>1. CASE Drain
        <3>1. timer' = timer \/ timer' = Arm(heap)
            BY <2>1 DEF Drain
        <3>. QED BY <1>1, <3>1, ArmFacts
    <2>2. CASE LookAtDirty
        BY <1>5, <2>2, ArmFacts DEF LookAtDirty
    <2>3. CASE Wake \/ Fire \/ ExamineDue \/ MarkPending \/ LookAgain
        <3>1. timer' = timer \/ timer' = Never
            BY <2>3, Zenon DEF Wake, Fire, ExamineDue, MarkPending, LookAgain, Queue,
               Settle
        <3>. QED BY <1>1, <3>1 DEF Never
    <2>. QED BY <2>1, <2>2, <2>3 DEF Loop
<1>7. /\ loop' \in [at : LoopAts, now : 0..MaxTime] /\ loop'.now <= now
      /\ loop'.at # "select" => loop'.now # 0
    <2>1. PICK a \in LoopAts, n \in {0, now, loop.now} :
              /\ loop' = [at |-> a, now |-> n]
              /\ \/ a = "select" /\ n = 0
                 \/ n = now
                 \/ n = loop.now /\ loop.at # "select"
        <3>1. CASE Wake
            BY <3>1 DEF Wake, LoopAts
        <3>2. CASE Fire
            <4>1. PICK a \in {"due", "drain"} : loop' = [at |-> a, now |-> now]
                BY <3>2, Zenon DEF Fire
            <4>. QED BY <4>1 DEF LoopAts
        <3>3. CASE ExamineDue \/ MarkPending \/ LookAgain
            <4>1. PICK a \in {"mark", "drain", "look again"} :
                      loop' = [loop EXCEPT !.at = a] /\ loop.at # "select"
                BY <3>3 DEF ExamineDue, MarkPending, LookAgain
            <4>2. loop' = [at |-> a, now |-> loop.now]
                BY <1>1, <4>1
            <4>. QED BY <4>1, <4>2 DEF LoopAts
        <3>4. CASE Drain \/ LookAtDirty
            <4>1. CASE loop' = Selecting
                BY <4>1 DEF Selecting, LoopAts
            <4>2. CASE loop' # Selecting
                <5>1. loop' = [loop EXCEPT !.at = "look"] /\ loop.at # "select"
                    BY <3>4, <4>2 DEF Drain, LookAtDirty
                <5>2. loop' = [at |-> "look", now |-> loop.now]
                    BY <1>1, <5>1
                <5>. QED BY <5>1, <5>2 DEF LoopAts
            <4>. QED BY <4>1, <4>2
        <3>. QED BY <3>1, <3>2, <3>3, <3>4, Zenon DEF Loop
    <2>2. loop'.at = a /\ loop'.now = n
        BY <2>1
    <2>3. n \in 0..MaxTime /\ n <= now /\ (a # "select" => n # 0)
        <3>1. /\ loop.now \in 0..MaxTime /\ loop.now <= now /\ 0 \in 0..MaxTime
              /\ now \in 0..MaxTime /\ now # 0 /\ 0 <= now /\ now <= now
              /\ loop.at # "select" => loop.now # 0
            <4>1. MaxTime \in Nat
                BY RefreshAssumption DEF RefreshAssumption
            <4>2. loop.now \in 0..MaxTime
                BY <1>1
            <4>. QED BY <1>1, <4>1, <4>2
        <3>. QED BY <2>1, <3>1, Zenon
    <2>4. loop' \in [at : LoopAts, now : 0..MaxTime]
        BY <2>1, <2>3
    <2>. QED BY <2>2, <2>3, <2>4
<1>8. auth' \in Records /\ jobs' \in Seq(1..now)
    <2>1. CASE MarkPending
        <3>1. loop.now \in 1..now /\ loop.now \in 0..MaxTime
            BY <1>1, <2>1, ClockFacts DEF MarkPending
        <3>2. loop.now + PendingBackoff \in HoldOffs
            BY <3>1, RecordParts
        <3>3. [auth EXCEPT !.holdOff = loop.now + PendingBackoff] \in Records
            BY <1>1, <3>2, RecordParts
        <3>4. Append(jobs, loop.now) \in Seq(1..now)
            BY <1>1, <3>1
        <3>. QED BY <1>1, <2>1, <3>3, <3>4 DEF MarkPending
    <2>2. CASE ~MarkPending
        BY <1>1, <2>2 DEF Loop, Wake, Fire, ExamineDue, LookAgain, Drain, LookAtDirty
    <2>. QED BY <2>1, <2>2
<1>. QED BY <1>1, <1>2, <1>3, <1>5, <1>6, <1>7, <1>8 DEF TypeInv

\* What a worker's steps do to what it holds.
LEMMA WorkerParts ==
    ASSUME TypeInv, NEW w \in Workers
    PROVE  /\ work[w] \in Calls(now)
           /\ work[w].at \in {"idle", "calling", "answered", "persist"}
           /\ work[w].marked \in 0..now /\ work[w].rec \in Records
           /\ work[w].answer \in Answers
           /\ work[w].at = "answered" => work[w].answer # "none"
           /\ work[w].at = "persist" => work[w].answer \in {"granted", "ineffective"}
           /\ work[w].at = "calling" => work[w].answer = "none"
<1>1. work[w] \in Calls(now)
    BY DEF TypeInv
<1>2. \A c \in Calls(now) :
          /\ c.at \in {"idle", "calling", "answered", "persist"}
          /\ c.marked \in 0..now /\ c.rec \in Records /\ c.answer \in Answers
          /\ c.at = "answered" => c.answer # "none"
          /\ c.at = "persist" => c.answer \in {"granted", "ineffective"}
          /\ c.at = "calling" => c.answer = "none"
    BY DEF Calls
<1>. QED BY <1>1, <1>2, Zenon

\* A new content for one worker.
LEMMA WorkerChanges ==
    ASSUME TypeInv, NEW w \in Workers, NEW c, work' = [work EXCEPT ![w] = c]
    PROVE  /\ work'[w] = c
           /\ \A v \in Workers : v # w => work'[v] = work[v]
           /\ c \in Calls(now) => work' \in [Workers -> Calls(now)]
BY DEF TypeInv

\* Taking a job.
LEMMA TakeJobDoes ==
    ASSUME TypeInv, NEW w \in Workers, TakeJob(w)
    PROVE  /\ jobs # <<>> /\ Head(jobs) \in 1..now /\ jobs' = Tail(jobs)
           /\ work[w].at = "idle"
           /\ \E c \in Calls(now) :
                 /\ work' = [work EXCEPT ![w] = c]
                 /\ c.at = "calling" /\ c.marked = Head(jobs) /\ c.rec = auth
           /\ UNCHANGED <<now, auth, disk, issued, heap, dirty, wake, timer, loop,
                          patch, watch, changes, dropped>>
<1>. DEFINE c == [at |-> "calling", marked |-> Head(jobs), rec |-> auth,
                  answer |-> "none"]
<1>1. /\ jobs # <<>> /\ jobs' = Tail(jobs) /\ work[w].at = "idle"
      /\ UNCHANGED <<now, auth, disk, issued, heap, dirty, wake, timer, loop,
                     patch, watch, changes, dropped>>
    BY DEF TakeJob, Refreshing
<1>2. work' = [work EXCEPT ![w] = c]
    BY Zenon DEF TakeJob
<1>3. jobs \in Seq(1..now) /\ auth \in Records
    BY DEF TypeInv
<1>4. Head(jobs) \in 1..now
    <2>. DEFINE S == 1..now
    <2>1. jobs \in Seq(S)
        BY <1>3
    <2>. HIDE DEF S
    <2>2. Head(jobs) \in S
        BY <1>1, <2>1
    <2>. QED BY <2>2 DEF S
<1>5. Head(jobs) \in 0..now
    BY <1>4, ClockFacts
<1>6. c \in Calls(now)
    BY <1>3, <1>5 DEF Calls, Answers
<1>7. c.at = "calling" /\ c.marked = Head(jobs) /\ c.rec = auth
    OBVIOUS
<1>. HIDE DEF c
<1>. QED BY <1>1, <1>2, <1>4, <1>6, <1>7, Zenon

\* The provider's answer.
LEMMA RespondDoes ==
    ASSUME TypeInv, NEW w \in Workers, Respond(w)
    PROVE  /\ work[w].at = "calling"
           /\ \E c \in Calls(now) :
                 /\ work' = [work EXCEPT ![w] = c]
                 /\ c.at = "answered" /\ c.marked = work[w].marked
                 /\ c.rec.holdOff = work[w].rec.holdOff
                 /\ \/ /\ c.answer = "granted"
                       /\ work[w].rec.token.id = issued /\ issued' = issued + 1
                       /\ issued < MaxTokens
                       /\ c.rec.token.id = issued + 1
                    \/ /\ c.answer # "granted" /\ issued' = issued
                       /\ c.rec.token = work[w].rec.token
           /\ UNCHANGED <<now, auth, disk, loopVars, patch, watch, changes, dropped>>
<1>. DEFINE c(x) == [at |-> "answered", marked |-> work[w].marked,
                     rec |-> WithAnswer(work[w].rec, x), answer |-> x]
<1>1. PICK x \in Answers \ {"none"} :
          /\ Answer(w, x)
          /\ x = "granted" => work[w].rec.token.id = issued /\ issued < MaxTokens
    BY DEF Respond, Answers, Refusals
<1>2. /\ work[w].at = "calling"
      /\ issued' = IF x = "granted" THEN issued + 1 ELSE issued
      /\ UNCHANGED <<now, auth, disk, loopVars, patch, watch, changes, dropped>>
    BY <1>1 DEF Answer
<1>3. /\ work[w] \in Calls(now) /\ work[w].marked \in 0..now
      /\ work[w].rec \in Records /\ now \in 1..MaxTime /\ issued \in 1..MaxTokens
    BY WorkerParts DEF TypeInv
<1>4. work' = [work EXCEPT ![w] = c(x)]
    BY <1>1, Zenon DEF Answer
<1>5. /\ WithAnswer(work[w].rec, x) \in Records
      /\ WithAnswer(work[w].rec, x).holdOff = work[w].rec.holdOff
      /\ x = "granted" => WithAnswer(work[w].rec, x).token.id = issued + 1
      /\ x # "granted" => WithAnswer(work[w].rec, x).token = work[w].rec.token
    <2>1. CASE x = "granted"
        <3>. DEFINE k == [id |-> issued + 1, due |-> now + Lifetime]
        <3>1. k \in Tokens /\ k.id = issued + 1
            BY <1>1, <1>3, <2>1, RefreshAssumption DEF RefreshAssumption, Tokens
        <3>2. WithAnswer(work[w].rec, x) = [work[w].rec EXCEPT !.token = k]
            BY <2>1 DEF WithAnswer
        <3>. HIDE DEF k
        <3>3. /\ [work[w].rec EXCEPT !.token = k] \in Records
              /\ [work[w].rec EXCEPT !.token = k].token = k
              /\ [work[w].rec EXCEPT !.token = k].holdOff = work[w].rec.holdOff
            BY <1>3, <3>1, RecordParts
        <3>. QED BY <2>1, <3>1, <3>2, <3>3
    <2>2. CASE x # "granted"
        BY <1>3, <2>2 DEF WithAnswer
    <2>. QED BY <2>1, <2>2
<1>6. c(x) \in Calls(now)
    BY <1>1, <1>3, <1>5 DEF Calls
<1>7. /\ c(x).at = "answered" /\ c(x).marked = work[w].marked /\ c(x).answer = x
      /\ c(x).rec = WithAnswer(work[w].rec, x)
    OBVIOUS
<1>. HIDE DEF c
<1>. QED BY <1>1, <1>2, <1>4, <1>5, <1>6, <1>7
\* The end of a provider's call: a success is still to be saved.
LEMMA WriteBackDoes ==
    ASSUME TypeInv, NEW w \in Workers, WriteBack(w)
    PROVE  /\ work[w].at = "answered"
           /\ \/ /\ work[w].answer \in {"granted", "ineffective"}
                 /\ auth' \in Records /\ auth'.token = work[w].rec.token
                 /\ \E c \in Calls(now) :
                       /\ work' = [work EXCEPT ![w] = c]
                       /\ c.at = "persist" /\ c.rec = auth'
              \/ /\ work[w].answer \in Refusals
                 /\ auth' = Failed(work[w].answer)
                 /\ auth' \in Records /\ auth'.token = auth.token
                 /\ Resting \in Calls(now) /\ work' = [work EXCEPT ![w] = Resting]
           /\ Queue
           /\ UNCHANGED <<now, disk, issued, loop, jobs, patch, watch, changes>>
<1>1. /\ work[w].at = "answered" /\ Queue
      /\ UNCHANGED <<now, disk, issued, loop, jobs, patch, watch, changes>>
    BY DEF WriteBack
<1>2. /\ now \in 1..MaxTime /\ auth \in Records /\ work[w].rec \in Records
      /\ work[w].marked \in 0..now /\ work[w].answer \in Answers \ {"none"}
    BY <1>1, WorkerParts DEF TypeInv
<1>3. CASE work[w].answer \in {"granted", "ineffective"}
    <2>. DEFINE c == [at |-> "persist", marked |-> work[w].marked, rec |-> auth',
                      answer |-> work[w].answer]
    <2>1. auth' = Refreshed(work[w].rec) /\ work' = [work EXCEPT ![w] = c]
        BY <1>3, Zenon DEF WriteBack
    <2>2. auth' \in Records /\ auth'.token = work[w].rec.token
        BY <1>2, <2>1, WrittenBack DEF Refusals
    <2>3. c \in Calls(now) /\ c.at = "persist" /\ c.rec = auth'
        BY <1>2, <1>3, <2>2 DEF Calls
    <2>. HIDE DEF c
    <2>. QED BY <1>1, <1>3, <2>1, <2>2, <2>3
<1>4. CASE work[w].answer \in Refusals
    <2>1. auth' = Failed(work[w].answer) /\ work' = [work EXCEPT ![w] = Resting]
        <3>1. work[w].answer \notin {"granted", "ineffective"}
            BY <1>4 DEF Refusals
        <3>. QED BY <3>1, Zenon DEF WriteBack
    <2>2. auth' \in Records /\ auth'.token = auth.token
        BY <1>2, <1>4, <2>1, WrittenBack
    <2>3. Resting \in Calls(now)
        BY <1>2, RestingTyped
    <2>. QED BY <1>1, <1>4, <2>1, <2>2, <2>3
<1>. QED BY <1>2, <1>3, <1>4 DEF Answers, Refusals

\* The record is saved.
LEMMA PersistDoes ==
    ASSUME TypeInv, NEW w \in Workers, Persist(w)
    PROVE  /\ work[w].at = "persist" /\ Save(work[w].rec.token)
           /\ disk' \in {disk, work[w].rec.token} /\ disk' \in Tokens
           /\ disk' = work[w].rec.token \/ unsaved'
           /\ Resting \in Calls(now) /\ work' = [work EXCEPT ![w] = Resting]
           /\ Queue
           /\ UNCHANGED <<now, auth, issued, loop, jobs, patch, watch, changes>>
<1>1. /\ work[w].at = "persist" /\ Save(work[w].rec.token)
      /\ work' = [work EXCEPT ![w] = Resting] /\ Queue
      /\ UNCHANGED <<now, auth, issued, loop, jobs, patch, watch, changes>>
    BY Zenon DEF Persist
<1>2. work[w].rec.token \in Tokens /\ disk \in Tokens
    BY WorkerParts, RecordParts DEF TypeInv
<1>3. Resting \in Calls(now)
    BY RestingTyped DEF TypeInv
<1>4. \/ disk' = work[w].rec.token
      \/ disk' = disk /\ unsaved'
    BY <1>1, Zenon DEF Save
<1>5. /\ disk' \in {disk, work[w].rec.token} /\ disk' \in Tokens
      /\ disk' = work[w].rec.token \/ unsaved'
    BY <1>2, <1>4, Zenon
<1>. QED BY <1>1, <1>3, <1>5, Zenon

\* The workers' steps keep the state well-typed.
LEMMA WorkerTyped ==
    ASSUME TypeInv, NEW w \in Workers, Worker(w)
    PROVE  TypeInv'
<1>1. /\ now \in 1..MaxTime /\ issued \in 1..MaxTokens /\ jobs \in Seq(1..now)
      /\ auth \in Records /\ disk \in Tokens /\ heap \in Nat /\ timer \in Nat
      /\ dirty \in BOOLEAN /\ wake \in BOOLEAN
      /\ loop \in [at : LoopAts, now : 0..MaxTime] /\ loop.now <= now
      /\ loop.at # "select" => loop.now # 0
      /\ patch \in [at : {"idle", "read", "written"}, rec : Records]
      /\ watch \in [at : {"idle", "read", "prepared"}, seen : Tokens, rec : Records]
    BY DEF TypeInv
<1>2. CASE TakeJob(w)
    <2>1. PICK c \in Calls(now) : work' = [work EXCEPT ![w] = c]
        BY <1>2, TakeJobDoes
    <2>2. work' \in [Workers -> Calls(now)]
        BY <2>1, WorkerChanges
    <2>3. jobs' \in Seq(1..now)
        <3>. DEFINE S == 1..now
        <3>1. jobs \in Seq(S) /\ jobs # <<>> /\ jobs' = Tail(jobs)
            BY <1>1, <1>2, TakeJobDoes
        <3>. HIDE DEF S
        <3>2. jobs' \in Seq(S)
            BY <3>1
        <3>. QED BY <3>2 DEF S
    <2>4. UNCHANGED <<now, auth, disk, issued, heap, dirty, wake, timer, loop,
                      patch, watch>>
        BY <1>2, TakeJobDoes
    <2>. QED BY <1>1, <2>2, <2>3, <2>4 DEF TypeInv
<1>3. CASE Respond(w)
    <2>1. PICK c \in Calls(now) :
              /\ work' = [work EXCEPT ![w] = c]
              /\ \/ issued' = issued
                 \/ issued' = issued + 1 /\ issued < MaxTokens
        BY <1>3, RespondDoes
    <2>2. work' \in [Workers -> Calls(now)]
        BY <2>1, WorkerChanges
    <2>3. issued' \in 1..MaxTokens
        BY <1>1, <2>1, RefreshAssumption DEF RefreshAssumption
    <2>4. UNCHANGED <<now, auth, disk, loopVars, patch, watch>>
        BY <1>3, RespondDoes
    <2>. QED BY <1>1, <2>2, <2>3, <2>4 DEF TypeInv, loopVars
<1>4. CASE WriteBack(w)
    <2>1. PICK c \in Calls(now) : work' = [work EXCEPT ![w] = c]
        BY <1>4, WriteBackDoes
    <2>2. work' \in [Workers -> Calls(now)]
        BY <2>1, WorkerChanges
    <2>3. /\ auth' \in Records
          /\ UNCHANGED <<now, disk, issued, loop, jobs, patch, watch>>
          /\ dirty' \in BOOLEAN /\ wake' \in BOOLEAN /\ heap' = heap /\ timer' = timer
        BY <1>4, WriteBackDoes DEF Queue
    <2>. QED BY <1>1, <2>2, <2>3 DEF TypeInv
<1>5. CASE Persist(w)
    <2>1. Resting \in Calls(now) /\ work' = [work EXCEPT ![w] = Resting]
        BY <1>5, PersistDoes
    <2>2. work' \in [Workers -> Calls(now)]
        BY <2>1, WorkerChanges
    <2>3. /\ disk' \in Tokens
          /\ UNCHANGED <<now, auth, issued, loop, jobs, patch, watch>>
          /\ dirty' \in BOOLEAN /\ wake' \in BOOLEAN /\ heap' = heap /\ timer' = timer
        BY <1>5, PersistDoes DEF Queue
    <2>. QED BY <1>1, <2>2, <2>3 DEF TypeInv
<1>. QED BY <1>2, <1>3, <1>4, <1>5 DEF Worker
\* The operator's and the watcher's steps, results and time keep the state
\* well-typed.
LEMMA OthersTyped ==
    ASSUME TypeInv,
           Operator \/ Watcher \/ Tick \/ \E b \in BOOLEAN : MarkResult(b)
    PROVE  TypeInv'
<1>1. /\ now \in 1..MaxTime /\ issued \in 1..MaxTokens /\ jobs \in Seq(1..now)
      /\ auth \in Records /\ disk \in Tokens /\ heap \in Nat /\ timer \in Nat
      /\ dirty \in BOOLEAN /\ wake \in BOOLEAN
      /\ loop \in [at : LoopAts, now : 0..MaxTime] /\ loop.now <= now
      /\ loop.at # "select" => loop.now # 0
      /\ work \in [Workers -> Calls(now)]
      /\ patch \in [at : {"idle", "read", "written"}, rec : Records]
      /\ watch \in [at : {"idle", "read", "prepared"}, seen : Tokens, rec : Records]
    BY DEF TypeInv
<1>2. CASE Operator
    <2>1. /\ auth' \in Records /\ disk' \in Tokens
          /\ patch' \in [at : {"idle", "read", "written"}, rec : Records]
        <3>1. CASE ReadToPatch
            BY <1>1, <3>1 DEF ReadToPatch
        <3>2. CASE WritePatch
            <4>1. auth' = patch.rec /\ patch' = [patch EXCEPT !.at = "written"]
                      /\ disk' = disk
                BY <3>2 DEF WritePatch
            <4>. QED BY <1>1, <4>1
        <3>3. CASE PersistPatch
            BY <1>1, <3>3, RecordParts DEF PersistPatch, NoPatch, Save
        <3>. QED BY <1>2, <3>1, <3>2, <3>3 DEF Operator
    <2>2. /\ UNCHANGED <<now, issued, heap, timer, loop, jobs, work, watch>>
          /\ dirty' \in BOOLEAN /\ wake' \in BOOLEAN
        BY <1>1, <1>2
        DEF Operator, ReadToPatch, WritePatch, PersistPatch, Queue, loopVars
    <2>. QED BY <1>1, <2>1, <2>2 DEF TypeInv
<1>3. CASE Watcher
    <2>1. /\ auth' \in Records
          /\ watch' \in [at : {"idle", "read", "prepared"}, seen : Tokens,
                         rec : Records]
        <3>1. CASE ReadFile
            BY <1>1, <3>1, RecordParts DEF ReadFile
        <3>2. CASE Prepare
            <4>1. PICK h \in {auth.holdOff, Never} :
                      watch' = [at |-> "prepared", seen |-> watch.seen,
                                rec |-> [token |-> watch.seen, unauthorized |-> FALSE,
                                         holdOff |-> h]]
                BY <3>2 DEF Prepare
            <4>2. h \in HoldOffs /\ watch.seen \in Tokens
                BY <1>1, RecordParts
            <4>3. [token |-> watch.seen, unauthorized |-> FALSE, holdOff |-> h]
                      \in Records
                BY <4>2, RecordParts
            <4>. QED BY <1>1, <3>2, <4>1, <4>2, <4>3 DEF Prepare
        <3>3. CASE ApplyFile
            BY <1>1, <3>3, RecordParts DEF ApplyFile
        <3>. QED BY <1>3, <3>1, <3>2, <3>3 DEF Watcher
    <2>2. /\ UNCHANGED <<now, issued, disk, heap, timer, loop, jobs, work, patch>>
          /\ dirty' \in BOOLEAN /\ wake' \in BOOLEAN
        BY <1>1, <1>3 DEF Watcher, ReadFile, Prepare, ApplyFile, Queue, loopVars
    <2>. QED BY <1>1, <2>1, <2>2 DEF TypeInv
<1>4. CASE Tick
    <2>1. /\ now' \in 1..MaxTime /\ now' = now + 1
          /\ UNCHANGED <<auth, disk, issued, loopVars, work, patch, watch>>
        BY <1>1, <1>4, RefreshAssumption DEF Tick, RefreshAssumption
    <2>2. 1..now \subseteq 1..now' /\ 0..now \subseteq 0..now' /\ loop.now <= now'
        <3>1. now \in Nat /\ loop.now \in Nat
            BY ClockFacts
        <3>. QED BY <1>1, <2>1, <3>1
    <2>3. jobs' \in Seq(1..now')
        <3>1. jobs \in Seq(1..now')
            BY <1>1, <2>2, SeqLarger
        <3>. QED BY <2>1, <3>1 DEF loopVars
    <2>4. Calls(now) \subseteq Calls(now')
        BY <2>2 DEF Calls
    <2>5. work' \in [Workers -> Calls(now')]
        BY <1>1, <2>1, <2>4
    <2>. QED BY <1>1, <2>1, <2>2, <2>3, <2>5 DEF TypeInv, loopVars
<1>5. ASSUME NEW b \in BOOLEAN, MarkResult(b) PROVE TypeInv'
    <2>1. /\ auth' = [auth EXCEPT !.unauthorized = b]
          /\ disk' \in {disk, auth.token}
          /\ UNCHANGED <<now, issued, loopVars, work, patch, watch>>
        BY <1>5 DEF MarkResult, Save
    <2>2. auth' \in Records /\ disk' \in Tokens
        BY <1>1, <2>1, RecordParts
    <2>. QED BY <1>1, <2>1, <2>2 DEF TypeInv, loopVars
<1>. QED BY <1>2, <1>3, <1>4, <1>5

\* Every step keeps the state well-typed.
LEMMA TypeStep ==
    TypeInv /\ HistoryTyped /\ [RefreshNext]_vars => TypeInv' /\ HistoryTyped'
<1>. SUFFICES ASSUME TypeInv, HistoryTyped, [RefreshNext]_vars
              PROVE  TypeInv' /\ HistoryTyped'
    OBVIOUS
<1>1. CASE RefreshNext
    <2>1. TypeInv'
        BY <1>1, LoopTyped, WorkerTyped, OthersTyped, Zenon DEF RefreshNext
    <2>2. rewound' \in BOOLEAN /\ released' \in BOOLEAN
        BY <1>1 DEF RefreshNext, Observe
    <2>3. dropped' \in BOOLEAN
        <3>1. dropped' = dropped \/ dropped' = FALSE \/ Settle
            BY <1>1, Zenon DEF RefreshNext, Loop, Wake, Fire, ExamineDue, MarkPending,
               LookAgain, Drain, LookAtDirty, Worker, TakeJob, Respond, Answer, WriteBack,
               Persist, MarkResult, Operator, ReadToPatch, WritePatch, PersistPatch,
               Watcher, ReadFile, Prepare, ApplyFile, Tick, Queue
        <3>2. auth.unauthorized \in BOOLEAN
            BY RecordParts DEF TypeInv
        <3>. QED BY <3>1, <3>2, Zenon DEF HistoryTyped, Settle
    <2>4. unsaved' \in BOOLEAN
        <3>1. UNCHANGED unsaved \/ \E token : Save(token)
            BY <1>1, Zenon DEF RefreshNext, Loop, Wake, Fire, ExamineDue, MarkPending,
               LookAgain, Drain, LookAtDirty, Worker, TakeJob, Respond, Answer, WriteBack,
               Persist, MarkResult, Operator, ReadToPatch, WritePatch, PersistPatch,
               Watcher, ReadFile, Prepare, ApplyFile, Tick
        <3>. QED BY <3>1, Zenon DEF HistoryTyped, Save
    <2>. QED BY <2>1, <2>2, <2>3, <2>4 DEF HistoryTyped
<1>2. CASE UNCHANGED vars
    BY <1>2, Zenon DEF vars, loopVars, historyVars, TypeInv, HistoryTyped
<1>. QED BY <1>1, <1>2

\* The type invariant of the runs.
LEMMA Typed == TypeInv /\ HistoryTyped => RefreshTypeOK
<1>. SUFFICES ASSUME TypeInv, HistoryTyped PROVE RefreshTypeOK
    OBVIOUS
<1>1. jobs \in Seq(1..MaxTime)
    <2>1. MaxTime \in Nat
        BY RefreshAssumption DEF RefreshAssumption
    <2>2. now \in 1..MaxTime /\ jobs \in Seq(1..now)
        BY DEF TypeInv
    <2>3. 1..now \subseteq 1..MaxTime
        BY <2>1, <2>2
    <2>. QED BY <2>2, <2>3, SeqLarger
<1>2. \A w \in Workers : work[w].rec \in Records
    BY WorkerParts
<1>. QED BY <1>1, <1>2 DEF RefreshTypeOK, TypeInv, HistoryTyped
-----------------------------------------------------------------------------
(* The care of the loop.  Unlike NobodyIsForgotten the invariant does not  *)
(* ask whether the credential is refused: a refused one is in the loop's   *)
(* care as well, until the loop looks at it and drops it.                  *)

CareInv == ~dropped => InCare

\* What the loop saw of the record decides about its place in the heap.
LEMMA SettleCares ==
    ASSUME TypeInv, loop.at # "select", Settle, ~dropped'
    PROVE  heap' # Never
<1>1. auth \in Records /\ loop.now \in Nat \ {0}
    BY ClockFacts DEF TypeInv
<1>2. ~auth.unauthorized /\ heap' = CheckAt(auth, loop.now)
    BY DEF Settle
<1>. QED BY <1>1, <1>2, CheckAtFacts

\* Whoever asks the loop to look leaves the credential in its care.
LEMMA QueueCares == ASSUME Queue PROVE InCare'
BY DEF Queue, InCare

\* No step loses the credential.
LEMMA CareStep ==
    TypeInv /\ CareInv /\ [RefreshNext]_vars => CareInv'
<1>. SUFFICES ASSUME TypeInv, CareInv, [RefreshNext]_vars, ~dropped'
              PROVE  InCare'
    BY DEF CareInv
<1>1. heap \in Nat /\ timer \in Nat /\ jobs \in Seq(1..now) /\ auth \in Records
    BY DEF TypeInv
<1>2. CASE Wake
    <2>1. /\ loop.at = "select" /\ loop'.at = "drain"
          /\ UNCHANGED <<heap, dirty, jobs, work, dropped>>
        BY <1>2 DEF Wake
    <2>. QED BY <2>1 DEF CareInv, InCare, Refreshing
<1>3. CASE Fire
    <2>1. /\ loop.at = "select" /\ loop'.at \in {"due", "drain"}
          /\ heap' = heap \/ loop'.at = "due"
          /\ UNCHANGED <<dirty, jobs, work, dropped>>
        BY <1>3 DEF Fire
    <2>. QED BY <2>1 DEF CareInv, InCare, Refreshing
<1>4. CASE ExamineDue
    <2>1. loop \in [at : LoopAts, now : 0..MaxTime]
        BY DEF TypeInv
    <2>2. \/ loop' = [loop EXCEPT !.at = "mark"]
          \/ Settle /\ loop' = [loop EXCEPT !.at = "drain"] /\ loop.at = "due"
        BY <1>4, Zenon DEF ExamineDue
    <2>3. loop'.at = "mark" \/ (Settle /\ loop'.at = "drain" /\ loop.at = "due")
        BY <2>1, <2>2
    <2>. QED BY <2>3, SettleCares DEF InCare
<1>5. CASE MarkPending
    <2>1. loop'.at = "look again" \/ Queue
        BY <1>5 DEF MarkPending, TypeInv
    <2>. QED BY <2>1, QueueCares DEF InCare
<1>6. CASE LookAgain
    <2>1. Settle /\ loop.at = "look again" /\ loop'.at = "drain"
        BY <1>6 DEF LookAgain, TypeInv
    <2>. QED BY <2>1, SettleCares DEF InCare
<1>7. CASE Drain
    <2>1. CASE dirty
        BY <1>7, <2>1 DEF Drain, InCare, TypeInv
    <2>2. CASE ~dirty
        <3>1. /\ loop.at = "drain" /\ loop' = Selecting /\ timer' = Arm(heap)
              /\ UNCHANGED <<heap, jobs, work, dropped>>
            BY <1>7, <2>2 DEF Drain
        <3>2. heap # Never => timer' # Never
            BY <1>1, <3>1, ArmFacts
        <3>3. \/ heap # Never \/ jobs # <<>>
              \/ \E w \in Workers : Refreshing(w)
            BY <2>2, <3>1 DEF CareInv, InCare
        <3>. QED BY <3>1, <3>2, <3>3 DEF InCare, Refreshing
    <2>. QED BY <2>1, <2>2
<1>8. CASE LookAtDirty
    <2>1. Settle /\ loop.at = "look" /\ timer' = Arm(heap')
        BY <1>8 DEF LookAtDirty
    <2>2. heap' # Never /\ heap' \in Nat
        <3>1. auth \in Records /\ loop.now \in Nat \ {0}
            BY <2>1, ClockFacts DEF TypeInv
        <3>. QED BY <2>1, <3>1, SettleCares, CheckAtFacts DEF Settle
    <2>3. timer' # Never
        BY <2>1, <2>2, ArmFacts
    <2>. QED BY <2>2, <2>3 DEF InCare
<1>9. ASSUME NEW w \in Workers, Worker(w) PROVE InCare'
    <2>1. CASE TakeJob(w)
        <3>1. PICK c \in Calls(now) : work' = [work EXCEPT ![w] = c] /\ c.at = "calling"
            BY <2>1, TakeJobDoes
        <3>2. work'[w] = c
            BY <3>1, WorkerChanges
        <3>. QED BY <3>1, <3>2 DEF InCare, Refreshing
    <2>2. CASE Respond(w)
        <3>1. PICK c \in Calls(now) : work' = [work EXCEPT ![w] = c] /\ c.at = "answered"
            BY <2>2, RespondDoes
        <3>2. work'[w] = c
            BY <3>1, WorkerChanges
        <3>. QED BY <3>1, <3>2 DEF InCare, Refreshing
    <2>3. CASE WriteBack(w) \/ Persist(w)
        BY <2>3, QueueCares DEF WriteBack, Persist
    <2>. QED BY <1>9, <2>1, <2>2, <2>3 DEF Worker
<1>10. CASE WritePatch \/ ApplyFile
    BY <1>10, QueueCares DEF WritePatch, ApplyFile
<1>11. CASE \/ ReadToPatch \/ PersistPatch \/ ReadFile \/ Prepare \/ Tick
            \/ UNCHANGED vars \/ \E b \in BOOLEAN : MarkResult(b)
    <2>1. UNCHANGED <<loopVars, work, dropped>>
        BY <1>11, Zenon DEF ReadToPatch, PersistPatch, ReadFile, Prepare, Tick, vars,
           historyVars, MarkResult
    <2>. QED BY <2>1 DEF loopVars, CareInv, InCare, Refreshing
<1>. QED BY <1>2, <1>3, <1>4, <1>5, <1>6, <1>7, <1>8, <1>9, <1>10, <1>11, Zenon
         DEF RefreshNext, Loop, Operator, Watcher

\* A credential that can be refreshed is in the loop's care, however its
\* writers, the workers and the loop interleave, unless the loop dropped it
\* while it was refused and nobody asked for it since.
THEOREM CareIsTaken == RefreshSpec => []NobodyIsForgotten
<1>1. RefreshInit => CareInv
    BY DEF RefreshInit, CareInv, InCare, FirstToken, Never
<1>2. TypeInv /\ HistoryTyped /\ CareInv => NobodyIsForgotten
    BY Typed DEF CareInv, NobodyIsForgotten
<1>. QED BY <1>1, <1>2, TypeInit, TypeStep, CareStep, PTL DEF RefreshSpec
-----------------------------------------------------------------------------
(* The distance of the refreshes.  As long as no mark has been taken away, *)
(* the record is held off until every refresh that is outstanding was      *)
(* marked refreshPendingBackoff ago, so that a new mark keeps its distance *)
(* from all of them.                                                       *)

Called(w) == work[w].at \in {"calling", "answered"}

\* The instants at which the outstanding refreshes were marked.
Marks == {work[w].marked : w \in {x \in Workers : Called(x)}}
             \cup {jobs[i] : i \in DOMAIN jobs}

Apart(t, u) == t + PendingBackoff <= u

HeldOff == \A t \in Marks : Apart(t, auth.holdOff)

Spaced ==
    /\ \A v, w \in Workers : Called(v) /\ Called(w) /\ v # w =>
          Apart(work[v].marked, work[w].marked) \/ Apart(work[w].marked, work[v].marked)
    /\ \A w \in Workers : Called(w) =>
          \A i \in DOMAIN jobs : Apart(work[w].marked, jobs[i])
    /\ \A i, j \in DOMAIN jobs : i < j => Apart(jobs[i], jobs[j])

\* What the operator is about to write is what it read, unless that is known
\* to be out of date.
PatchFresh ==
    patch.at = "read" /\ <<"operator", "record">> \notin stale
        => Substance(patch.rec) = Substance(auth)

SpacedInv ==
    /\ PatchFresh
    /\ ~rewound /\ ~released => HeldOff /\ Spaced

\* Marks lie in the past.
LEMMA MarksArePast == ASSUME TypeInv PROVE \A t \in Marks : t \in Nat /\ t <= now
<1>1. now \in Nat /\ jobs \in Seq(1..now)
    BY ClockFacts DEF TypeInv
<1>2. ASSUME NEW i \in DOMAIN jobs PROVE jobs[i] \in Nat /\ jobs[i] <= now
    <2>. DEFINE S == 1..now
    <2>1. jobs \in Seq(S)
        BY <1>1
    <2>. HIDE DEF S
    <2>2. jobs[i] \in S
        BY <2>1
    <2>. QED BY <1>1, <2>2 DEF S
<1>3. ASSUME NEW w \in Workers PROVE work[w].marked \in Nat /\ work[w].marked <= now
    <2>1. work[w].marked \in 0..now
        BY WorkerParts
    <2>. QED BY <1>1, <2>1
<1>. QED BY <1>2, <1>3, Zenon DEF Marks

\* Who has a copy that is still to be written.
LEMMA CopiesAre ==
    /\ \A w \in Workers : /\ <<w, "record">> \in Copies <=> Called(w)
                          /\ <<w, "file">> \in Copies <=> work[w].at = "persist"
    /\ <<"operator", "record">> \in Copies <=> patch.at = "read"
    /\ <<"operator", "file">> \in Copies <=> patch.at = "written"
    /\ <<"service", "record">> \in Copies <=> watch.at \in {"read", "prepared"}
<1>1. \A w \in Workers : w \notin {"operator", "service"}
    BY RefreshAssumption DEF RefreshAssumption
<1>. QED BY <1>1 DEF Copies, Called

\* The same after a step.
LEMMA CopiesAreNext ==
    (/\ \A w \in Workers : /\ <<w, "record">> \in Copies <=> Called(w)
                           /\ <<w, "file">> \in Copies <=> work[w].at = "persist"
     /\ <<"operator", "record">> \in Copies <=> patch.at = "read"
     /\ <<"operator", "file">> \in Copies <=> patch.at = "written"
     /\ <<"service", "record">> \in Copies <=> watch.at \in {"read", "prepared"})'
BY CopiesAre, PTL
\* What the history says of a step.
LEMMA Observed ==
    ASSUME Observe, ~rewound', ~released'
    PROVE  /\ ~rewound /\ ~released
           /\ \A c \in stale : c \in Copies' \/ Discards(c)
           /\ \A c \in Copies \ Copies' :
                 c[1] # "operator" /\ Outstanding' => ~(auth'.holdOff < auth.holdOff)
<1>. DEFINE low == auth'.holdOff < auth.holdOff
<1>1. /\ rewound' = (rewound \/ \E c \in stale \ Copies' : ~Discards(c))
      /\ released' = (released \/
             /\ \E c \in Copies \ Copies' : c[1] # "operator"
             /\ Outstanding' /\ low)
    BY DEF Observe
<1>. HIDE DEF low
<1>2. ~rewound /\ ~released
    BY <1>1, Zenon
<1>3. \A c \in stale : c \in Copies' \/ Discards(c)
    BY <1>1, Zenon
<1>4. \A c \in Copies \ Copies' : c[1] # "operator" /\ Outstanding' => ~low
    BY <1>1, Zenon
<1>. QED BY <1>2, <1>3, <1>4 DEF low

\* A copy that is not out of date was not before, and the step does not make
\* it so.
LEMMA NotStale ==
    ASSUME Observe, NEW c \in Copies', c \notin stale'
    PROVE  /\ c \in Copies => c \notin stale /\ ~Outdates(c)
           /\ c \notin Copies => ~BornStale(c)
<1>1. c \in stale' <=> IF c \in Copies THEN c \in stale \/ Outdates(c) ELSE BornStale(c)
    BY Zenon DEF Observe
<1>. QED BY <1>1, Zenon

\* Where no refresh is added and none is marked anew, the distances remain.
LEMMA FewerMarks ==
    ASSUME UNCHANGED jobs,
           \A w \in Workers : Called(w)' => Called(w) /\ work'[w].marked = work[w].marked
    PROVE  Marks' \subseteq Marks /\ (Spaced => Spaced')
<1>1. Marks' \subseteq Marks
    BY DEF Marks
<1>2. Spaced => Spaced'
    BY DEF Spaced
<1>. QED BY <1>1, <1>2

\* Without an outstanding refresh there is no mark.
LEMMA NoMarks == TypeInv /\ ~Outstanding => Marks = {}
<1>. SUFFICES ASSUME TypeInv, ~Outstanding PROVE Marks = {}
    OBVIOUS
<1>1. jobs = <<>>
    BY DEF Outstanding
<1>2. DOMAIN jobs = {}
    BY <1>1
<1>3. \A w \in Workers : ~Called(w)
    BY DEF Outstanding, Called
<1>. QED BY <1>2, <1>3 DEF Marks

\* The same after a step.
LEMMA NoMarksNext == (TypeInv /\ ~Outstanding => Marks = {})'
BY NoMarks, PTL

\* A new mark.
LEMMA MarkSpaced ==
    ASSUME TypeInv, HeldOff, Spaced, MarkPending, jobs' # jobs
    PROVE  HeldOff' /\ Spaced'
<1>. DEFINE n == loop.now
<1>1. /\ jobs' = Append(jobs, n) /\ auth' = [auth EXCEPT !.holdOff = n + PendingBackoff]
      /\ work' = work /\ ~(auth.holdOff > n)
    BY DEF MarkPending
<1>2. /\ auth \in Records /\ n \in Nat /\ auth.holdOff \in Nat /\ PendingBackoff \in Nat
      /\ jobs \in Seq(1..now)
    BY ClockFacts, RecordParts, RefreshAssumption DEF TypeInv, RefreshAssumption
<1>3. auth'.holdOff = n + PendingBackoff
    BY <1>1, <1>2, RecordParts
<1>4. \A t \in Marks : t \in Nat /\ Apart(t, n)
    BY <1>1, <1>2, MarksArePast DEF HeldOff, Apart
<1>. HIDE DEF n
<1>5. /\ DOMAIN jobs' = 1..Len(jobs) + 1 /\ DOMAIN jobs = 1..Len(jobs) /\ Len(jobs) \in Nat
      /\ \A i \in DOMAIN jobs : jobs'[i] = jobs[i]
      /\ jobs'[Len(jobs) + 1] = n
    BY <1>1, <1>2
<1>6. \A w \in Workers : Called(w)' <=> Called(w)
    BY <1>1 DEF Called
<1>7. Marks' = Marks \cup {n}
    <2>1. {jobs'[i] : i \in DOMAIN jobs'} = {jobs[i] : i \in DOMAIN jobs} \cup {n}
        BY <1>5
    <2>2. {work[w].marked : w \in {x \in Workers : Called(x)}}'
              = {work[w].marked : w \in {x \in Workers : Called(x)}}
        BY <1>1, <1>6
    <2>. QED BY <2>1, <2>2 DEF Marks
<1>8. HeldOff'
    <2>. SUFFICES ASSUME NEW t \in Marks' PROVE t + PendingBackoff <= n + PendingBackoff
        BY <1>3 DEF HeldOff, Apart
    <2>1. t = n \/ (t \in Nat /\ t + PendingBackoff <= n)
        BY <1>4, <1>7 DEF Apart
    <2>. QED BY <1>2, <2>1
<1>9. ASSUME NEW w \in Workers, Called(w)', NEW i \in DOMAIN jobs'
      PROVE  Apart(work'[w].marked, jobs'[i])
    <2>1. Called(w) /\ work'[w].marked = work[w].marked
        BY <1>1, <1>6, <1>9
    <2>2. CASE i \in DOMAIN jobs
        BY <1>5, <2>1, <2>2 DEF Spaced
    <2>3. CASE i = Len(jobs) + 1
        <3>1. work[w].marked \in Marks
            BY <2>1 DEF Marks
        <3>. QED BY <1>4, <1>5, <2>1, <2>3, <3>1
    <2>. QED BY <1>5, <2>2, <2>3
<1>10. ASSUME NEW i \in DOMAIN jobs', NEW j \in DOMAIN jobs', i < j
       PROVE  Apart(jobs'[i], jobs'[j])
    <2>1. i \in DOMAIN jobs
        BY <1>5, <1>10
    <2>2. CASE j \in DOMAIN jobs
        BY <1>5, <1>10, <2>1, <2>2 DEF Spaced
    <2>3. CASE j = Len(jobs) + 1
        <3>1. jobs[i] \in Marks
            BY <2>1 DEF Marks
        <3>. QED BY <1>4, <1>5, <2>1, <2>3, <3>1
    <2>. QED BY <1>5, <2>2, <2>3
<1>11. Spaced'
    <2>1. \A v, w \in Workers : Called(v)' /\ Called(w)' /\ v # w =>
             Apart(work'[v].marked, work'[w].marked) \/ Apart(work'[w].marked, work'[v].marked)
        BY <1>1, <1>6 DEF Spaced
    <2>. QED BY <1>9, <1>10, <2>1 DEF Spaced
<1>. QED BY <1>8, <1>11

\* A job that is taken keeps its mark and its distance.
LEMMA TakeSpaced ==
    ASSUME TypeInv, HeldOff, Spaced, NEW w \in Workers, TakeJob(w)
    PROVE  HeldOff' /\ Spaced'
<1>1. PICK c \in Calls(now) :
          /\ work' = [work EXCEPT ![w] = c]
          /\ c.at = "calling" /\ c.marked = Head(jobs) /\ c.rec = auth
    BY TakeJobDoes
<1>2. /\ jobs # <<>> /\ jobs' = Tail(jobs) /\ work[w].at = "idle" /\ auth' = auth
    BY TakeJobDoes
<1>3. /\ work'[w] = c /\ \A v \in Workers : v # w => work'[v] = work[v]
    BY <1>1, WorkerChanges
<1>4. /\ jobs[1] = Head(jobs) /\ Len(jobs) \in Nat /\ DOMAIN jobs = 1..Len(jobs)
      /\ DOMAIN jobs' = 1..Len(jobs) - 1 /\ 1 \in DOMAIN jobs
      /\ \A i \in DOMAIN jobs' : i + 1 \in DOMAIN jobs /\ jobs'[i] = jobs[i + 1]
    <2>1. jobs \in Seq(1..now)
        BY DEF TypeInv
    <2>. QED BY <1>2, <2>1
<1>5. /\ Called(w)' /\ work'[w].marked = jobs[1] /\ ~Called(w)
      /\ \A v \in Workers : v # w => (Called(v)' <=> Called(v))
      /\ \A v \in Workers : v # w => work'[v].marked = work[v].marked
    BY <1>1, <1>2, <1>3, <1>4 DEF Called
<1>6. Marks' \subseteq Marks
    <2>1. ASSUME NEW i \in DOMAIN jobs' PROVE jobs'[i] \in Marks
        BY <1>4, <2>1 DEF Marks
    <2>2. ASSUME NEW v \in Workers, Called(v)' PROVE work'[v].marked \in Marks
        BY <1>4, <1>5, <2>2 DEF Marks
    <2>. QED BY <2>1, <2>2 DEF Marks
<1>7. ASSUME NEW v \in Workers, Called(v)', v # w
      PROVE  Apart(work'[v].marked, jobs[1]) /\ work'[v].marked = work[v].marked /\ Called(v)
    BY <1>4, <1>5, <1>7 DEF Spaced
<1>8. ASSUME NEW i \in DOMAIN jobs'
      PROVE  /\ Apart(jobs[1], jobs'[i])
             /\ \A v \in Workers : Called(v) => Apart(work[v].marked, jobs'[i])
    <2>1. i + 1 \in DOMAIN jobs /\ jobs'[i] = jobs[i + 1] /\ 1 < i + 1
        BY <1>4
    <2>. QED BY <1>4, <2>1 DEF Spaced
<1>9. ASSUME NEW i \in DOMAIN jobs', NEW j \in DOMAIN jobs', i < j
      PROVE  Apart(jobs'[i], jobs'[j])
    <2>1. /\ i + 1 \in DOMAIN jobs /\ j + 1 \in DOMAIN jobs /\ i + 1 < j + 1
          /\ jobs'[i] = jobs[i + 1] /\ jobs'[j] = jobs[j + 1]
        BY <1>4, <1>9
    <2>. QED BY <2>1 DEF Spaced
<1>10. \A v, x \in Workers : Called(v)' /\ Called(x)' /\ v # x =>
          Apart(work'[v].marked, work'[x].marked) \/ Apart(work'[x].marked, work'[v].marked)
    <2>. SUFFICES ASSUME NEW v \in Workers, NEW x \in Workers, Called(v)', Called(x)', v # x
                  PROVE  \/ Apart(work'[v].marked, work'[x].marked)
                         \/ Apart(work'[x].marked, work'[v].marked)
        OBVIOUS
    <2>1. CASE v = w \/ x = w
        BY <1>5, <1>7, <2>1
    <2>2. CASE v # w /\ x # w
        BY <1>7, <2>2 DEF Spaced
    <2>. QED BY <2>1, <2>2
<1>11. \A v \in Workers : Called(v)' =>
          \A i \in DOMAIN jobs' : Apart(work'[v].marked, jobs'[i])
    BY <1>5, <1>7, <1>8
<1>12. Spaced'
    BY <1>9, <1>10, <1>11 DEF Spaced
<1>. QED BY <1>2, <1>6, <1>12 DEF HeldOff
\* The operator's copy is known to be out of date when it is.
LEMMA PatchFreshStep ==
    TypeInv /\ PatchFresh /\ [RefreshNext]_vars => PatchFresh'
<1>. SUFFICES ASSUME TypeInv, PatchFresh, [RefreshNext]_vars, patch'.at = "read",
                     <<"operator", "record">> \notin stale'
              PROVE  Substance(patch'.rec) = Substance(auth')
    BY DEF PatchFresh, Substance
<1>1. CASE UNCHANGED vars
    BY <1>1 DEF vars, historyVars, PatchFresh, Substance
<1>2. CASE RefreshNext
    <2>. DEFINE c == <<"operator", "record">>
    <2>1. Observe
        BY <1>2 DEF RefreshNext
    <2>2. c \in Copies'
        BY CopiesAreNext
    <2>3. CASE patch' = patch
        <3>1. c \in Copies
            BY <2>3, CopiesAre
        <3>2. c \notin stale /\ ~Outdates(c)
            BY <2>1, <2>2, <3>1, NotStale
        <3>3. Substance(auth') = Substance(auth)
            BY <3>2 DEF Outdates, Substance
        <3>. QED BY <2>3, <3>2, <3>3 DEF PatchFresh
    <2>4. CASE patch' # patch
        <3>1. ReadToPatch \/ WritePatch \/ PersistPatch
            <4>1. UNCHANGED patch \/ Operator
                BY <1>2, Zenon DEF RefreshNext, Loop, Wake, Fire, ExamineDue, MarkPending,
                   LookAgain, Drain, LookAtDirty, Worker, TakeJob, Respond, Answer,
                   WriteBack, Persist, MarkResult, Watcher, ReadFile, Prepare, ApplyFile,
                   Tick
            <4>. QED BY <2>4, <4>1 DEF Operator
        <3>2. ReadToPatch
            BY <3>1 DEF WritePatch, PersistPatch, NoPatch, TypeInv
        <3>. QED BY <3>2 DEF ReadToPatch
    <2>. QED BY <2>3, <2>4
<1>. QED BY <1>1, <1>2

\* The distances survive every step that takes no mark away.
LEMMA SpacedStep ==
    TypeInv /\ TypeInv' /\ SpacedInv /\ [RefreshNext]_vars => SpacedInv'
<1>. SUFFICES ASSUME TypeInv, TypeInv', SpacedInv, [RefreshNext]_vars,
                     ~rewound', ~released'
              PROVE  HeldOff' /\ Spaced'
    BY PatchFreshStep DEF SpacedInv
<1>1. CASE UNCHANGED vars
    <2>1. HeldOff /\ Spaced
        BY <1>1 DEF SpacedInv, vars, historyVars
    <2>2. UNCHANGED <<jobs, work, auth>>
        BY <1>1 DEF vars, loopVars
    <2>3. Marks' \subseteq Marks /\ Spaced'
        BY <2>1, <2>2, FewerMarks DEF Called
    <2>. QED BY <2>1, <2>2, <2>3 DEF HeldOff
<1>2. CASE RefreshNext
    <2>. DEFINE lower == auth'.holdOff < auth.holdOff
    <2>1. Observe
        BY <1>2 DEF RefreshNext
    <2>2. HeldOff /\ Spaced
        BY <2>1, Observed DEF SpacedInv
    <2>3. auth.holdOff \in Nat /\ auth'.holdOff \in Nat
        BY RecordParts DEF TypeInv
    <2>4. \A t \in Marks : t \in Nat
        BY MarksArePast
    <2>5. ASSUME UNCHANGED jobs,
                 \A w \in Workers : Called(w)' => Called(w) /\ work'[w].marked = work[w].marked,
                 ~lower \/ ~Outstanding'
          PROVE  HeldOff' /\ Spaced'
        <3>1. Marks' \subseteq Marks /\ Spaced'
            BY <2>2, <2>5, FewerMarks
        <3>2. CASE ~lower
            BY <2>2, <2>3, <2>4, <3>1, <3>2, RefreshAssumption
            DEF HeldOff, Apart, RefreshAssumption
        <3>3. CASE ~Outstanding'
            BY <3>1, <3>3, NoMarksNext DEF HeldOff
        <3>. QED BY <2>5, <3>1, <3>2, <3>3
    <2>6. CASE MarkPending
        <3>1. CASE jobs' # jobs
            BY <2>2, <2>6, <3>1, MarkSpaced
        <3>2. CASE jobs' = jobs
            <4>1. jobs \in Seq(1..now)
                BY DEF TypeInv
            <4>2. Append(jobs, loop.now) # jobs
                BY <4>1
            <4>3. work' = work /\ auth' = auth
                BY <2>6, <3>2, <4>2 DEF MarkPending
            <4>. QED BY <2>3, <2>5, <3>2, <4>3 DEF Called
        <3>. QED BY <3>1, <3>2
    <2>7. CASE Loop /\ ~MarkPending
        <3>1. UNCHANGED <<jobs, work, auth>>
            BY <2>7, Zenon DEF Loop, Wake, Fire, ExamineDue, LookAgain, Drain, LookAtDirty
        <3>. QED BY <2>3, <2>5, <3>1 DEF Called
    <2>8. ASSUME NEW w \in Workers, TakeJob(w) PROVE HeldOff' /\ Spaced'
        BY <2>2, <2>8, TakeSpaced
    <2>9. ASSUME NEW w \in Workers, Respond(w) PROVE HeldOff' /\ Spaced'
        <3>1. PICK c \in Calls(now) :
                  /\ work' = [work EXCEPT ![w] = c]
                  /\ c.at = "answered" /\ c.marked = work[w].marked
            BY <2>9, RespondDoes
        <3>2. work[w].at = "calling" /\ UNCHANGED <<auth, loopVars>>
            BY <2>9, RespondDoes
        <3>3. work'[w] = c /\ \A v \in Workers : v # w => work'[v] = work[v]
            BY <3>1, WorkerChanges
        <3>4. \A v \in Workers : Called(v)' => Called(v) /\ work'[v].marked = work[v].marked
            BY <3>1, <3>2, <3>3 DEF Called
        <3>. QED BY <2>3, <2>5, <3>2, <3>4 DEF loopVars
    <2>10. ASSUME NEW w \in Workers, WriteBack(w) \/ Persist(w) PROVE HeldOff' /\ Spaced'
        <3>1. PICK c \in Calls(now) :
                  /\ work' = [work EXCEPT ![w] = c] /\ c.at \in {"persist", "idle"}
            <4>1. Resting.at = "idle"
                BY DEF Resting
            <4>2. CASE WriteBack(w)
                BY <4>1, <4>2, WriteBackDoes
            <4>3. CASE Persist(w)
                BY <4>1, <4>3, PersistDoes
            <4>. QED BY <2>10, <4>2, <4>3
        <3>2. work'[w] = c /\ \A v \in Workers : v # w => work'[v] = work[v]
            BY <3>1, WorkerChanges
        <3>3. /\ ~Called(w)'
              /\ \A v \in Workers : Called(v)' => Called(v) /\ work'[v].marked = work[v].marked
            BY <3>1, <3>2 DEF Called
        <3>4. ~lower \/ ~Outstanding'
            <4>1. CASE Persist(w)
                BY <2>3, <4>1 DEF Persist
            <4>2. CASE WriteBack(w)
                <5>1. <<w, "record">> \in Copies \ Copies'
                    BY <3>3, <4>2, CopiesAre, CopiesAreNext DEF WriteBack, Called
                <5>2. <<w, "record">>[1] # "operator"
                    BY RefreshAssumption DEF RefreshAssumption
                <5>. QED BY <2>1, <5>1, <5>2, Observed
            <4>. QED BY <2>10, <4>1, <4>2
        <3>5. UNCHANGED jobs
            BY <2>10 DEF WriteBack, Persist
        <3>. QED BY <2>5, <3>3, <3>4, <3>5
    <2>11. CASE WritePatch
        <3>1. UNCHANGED <<jobs, work>> /\ auth' = patch.rec /\ patch.at = "read"
            BY <2>11 DEF WritePatch
        <3>2. <<"operator", "record">> \in Copies \ Copies'
            <4>1. patch'.at = "written"
                BY <2>11 DEF WritePatch, TypeInv
            <4>. QED BY <3>1, <4>1, CopiesAre, CopiesAreNext
        <3>3. ~Discards(<<"operator", "record">>)
            BY RefreshAssumption DEF RefreshAssumption, Discards
        <3>4. <<"operator", "record">> \notin stale
            BY <2>1, <3>2, <3>3, Observed
        <3>5. auth'.holdOff = auth.holdOff
            BY <3>1, <3>4 DEF SpacedInv, PatchFresh, Substance
        <3>. QED BY <2>3, <2>5, <3>1, <3>5 DEF Called
    <2>12. CASE ApplyFile
        <3>1. UNCHANGED <<jobs, work>> /\ watch.at = "prepared" /\ watch'.at = "idle"
            BY <2>12 DEF ApplyFile
        <3>2. <<"service", "record">> \in Copies \ Copies'
            BY <3>1, CopiesAre, CopiesAreNext
        <3>3. ~lower \/ ~Outstanding'
            BY <2>1, <3>2, Observed
        <3>. QED BY <2>5, <3>1, <3>3 DEF Called
    <2>13. CASE \/ ReadToPatch \/ PersistPatch \/ ReadFile \/ Prepare \/ Tick
                \/ \E b \in BOOLEAN : MarkResult(b)
        <3>1. UNCHANGED <<loopVars, work>>
            BY <2>13, Zenon DEF ReadToPatch, PersistPatch, ReadFile, Prepare, Tick,
               MarkResult
        <3>2. auth' = auth \/ \E b \in BOOLEAN : auth' = [auth EXCEPT !.unauthorized = b]
            BY <2>13, Zenon DEF ReadToPatch, PersistPatch, ReadFile, Prepare, Tick,
               MarkResult
        <3>3. auth'.holdOff = auth.holdOff
            BY <3>2, RecordParts DEF TypeInv
        <3>. QED BY <2>3, <2>5, <3>1, <3>3 DEF loopVars, Called
    <2>. QED BY <1>2, <2>6, <2>7, <2>8, <2>9, <2>10, <2>11, <2>12, <2>13, Zenon
             DEF RefreshNext, Worker, Operator, Watcher
<1>. QED BY <1>1, <1>2

\* Two refreshes that are outstanding were started at least
\* refreshPendingBackoff apart, whatever the provider answers and whoever
\* writes the record meanwhile, until an outdated copy is written or the end
\* of a refresh, or the service, takes the mark of another away.
THEOREM RefreshesKeepDistance == RefreshSpec => []RefreshesAreSpaced
<1>1. RefreshInit => SpacedInv
    <2>. SUFFICES ASSUME RefreshInit PROVE SpacedInv
        OBVIOUS
    <2>1. DOMAIN jobs = {} /\ \A w \in Workers : ~Called(w)
        BY DEF RefreshInit, Resting, Called
    <2>2. patch.at = "idle"
        BY DEF RefreshInit, NoPatch
    <2>. QED BY <2>1, <2>2 DEF SpacedInv, PatchFresh, HeldOff, Spaced, Marks
<1>2. TypeInv /\ SpacedInv => RefreshesAreSpaced
    <2>. SUFFICES ASSUME TypeInv, Spaced PROVE
              /\ \A v, w \in DOMAIN Underway :
                    v # w => \/ Underway[v] >= Underway[w] + PendingBackoff
                             \/ Underway[w] >= Underway[v] + PendingBackoff
              /\ \A w \in DOMAIN Underway, i \in DOMAIN jobs :
                    jobs[i] >= Underway[w] + PendingBackoff
              /\ \A i, j \in DOMAIN jobs : i < j => jobs[j] >= jobs[i] + PendingBackoff
        BY Zenon DEF SpacedInv, RefreshesAreSpaced
    <2>1. /\ \A w \in DOMAIN Underway : w \in Workers /\ Called(w)
          /\ \A w \in DOMAIN Underway : Underway[w] = work[w].marked
        BY DEF Underway, Called
    <2>2. \A t, u : Apart(t, u) => u >= t + PendingBackoff
        BY DEF Apart
    <2>3. \A v, w \in DOMAIN Underway :
              v # w => \/ Underway[v] >= Underway[w] + PendingBackoff
                       \/ Underway[w] >= Underway[v] + PendingBackoff
        BY <2>1, <2>2 DEF Spaced
    <2>4. \A w \in DOMAIN Underway : \A i \in DOMAIN jobs :
              jobs[i] >= Underway[w] + PendingBackoff
        BY <2>1, <2>2 DEF Spaced
    <2>5. \A i, j \in DOMAIN jobs : i < j => jobs[j] >= jobs[i] + PendingBackoff
        BY <2>2 DEF Spaced
    <2>. QED BY <2>3, <2>4, <2>5
<1>. QED BY <1>1, <1>2, TypeInit, TypeStep, SpacedStep, PTL DEF RefreshSpec
-----------------------------------------------------------------------------
(* The newest token.  A token that the provider has just issued is with    *)
(* one worker and nowhere else; a copy that is not out of date has the     *)
(* token of the record; so, unless an outdated copy is written, the newest *)
(* token reaches the record and from there the file.                       *)

Granted(w) == work[w].at = "answered" /\ work[w].answer = "granted"

\* The tokens of the record, of the file and of all copies, of the workers W.
Places(W) ==
    {FirstToken, auth.token, disk, patch.rec.token, watch.seen, watch.rec.token}
        \cup {work[w].rec.token : w \in W}

Rotation ==
    /\ \A k \in Places(Workers) : k.id <= issued
    /\ \A v \in Workers : Granted(v) =>
          /\ work[v].rec.token.id = issued
          /\ \A k \in Places(Workers \ {v}) : k.id < issued

\* The tokens after a step are among those before it.
LEMMA PlacesWithin ==
    ASSUME NEW W, NEW P,
           FirstToken \in P, auth'.token \in P, disk' \in P, patch'.rec.token \in P,
           watch'.seen \in P, watch'.rec.token \in P,
           \A w \in W : work'[w].rec.token \in P
    PROVE  Places(W)' \subseteq P
BY DEF Places

\* A worker that gets no new token only passes one on.
LEMMA WorkerPlaces ==
    ASSUME TypeInv, NEW W \in SUBSET Workers, NEW w \in W, Worker(w), issued' = issued
    PROVE  Places(W)' \subseteq Places(W)
<1>. DEFINE P == Places(W)
<1>1. /\ FirstToken \in P /\ auth.token \in P /\ disk \in P /\ patch.rec.token \in P
      /\ watch.seen \in P /\ watch.rec.token \in P
      /\ \A v \in W : work[v].rec.token \in P
    BY DEF Places
<1>. HIDE DEF P
<1>2. w \in Workers /\ \A v \in W : v \in Workers
    OBVIOUS
<1>3. CASE TakeJob(w)
    <2>1. PICK c \in Calls(now) : work' = [work EXCEPT ![w] = c] /\ c.rec = auth
        BY <1>2, <1>3, TakeJobDoes
    <2>2. UNCHANGED <<auth, disk, patch, watch>>
        BY <1>2, <1>3, TakeJobDoes
    <2>3. \A v \in W : work'[v].rec.token \in P
        BY <1>1, <1>2, <2>1, WorkerChanges
    <2>. QED BY <1>1, <2>2, <2>3, PlacesWithin DEF P
<1>4. CASE Respond(w)
    <2>1. PICK c \in Calls(now) :
              work' = [work EXCEPT ![w] = c] /\ c.rec.token = work[w].rec.token
        <3>1. issued' # issued + 1
            BY DEF TypeInv
        <3>. QED BY <1>2, <1>4, <3>1, RespondDoes
    <2>2. UNCHANGED <<auth, disk, patch, watch>>
        BY <1>2, <1>4, RespondDoes
    <2>3. \A v \in W : work'[v].rec.token \in P
        BY <1>1, <1>2, <2>1, WorkerChanges
    <2>. QED BY <1>1, <2>2, <2>3, PlacesWithin DEF P
<1>5. CASE WriteBack(w)
    <2>1. UNCHANGED <<disk, patch, watch>>
        BY <1>2, <1>5, WriteBackDoes
    <2>2. PICK c \in Calls(now) :
              /\ work' = [work EXCEPT ![w] = c]
              /\ \/ auth'.token = work[w].rec.token /\ c.rec = auth'
                 \/ auth'.token = auth.token /\ c = Resting
        BY <1>2, <1>5, WriteBackDoes
    <2>3. auth'.token \in P /\ c.rec.token \in P
        BY <1>1, <2>2 DEF Resting, NoCopy
    <2>4. \A v \in W : work'[v].rec.token \in P
        BY <1>1, <1>2, <2>2, <2>3, WorkerChanges
    <2>. QED BY <1>1, <2>1, <2>3, <2>4, PlacesWithin DEF P
<1>6. CASE Persist(w)
    <2>1. /\ disk' \in {disk, work[w].rec.token} /\ UNCHANGED <<auth, patch, watch>>
          /\ work' = [work EXCEPT ![w] = Resting]
        BY <1>2, <1>6, PersistDoes
    <2>2. Resting.rec.token \in P
        BY <1>1 DEF Resting, NoCopy
    <2>3. \A v \in W : work'[v].rec.token \in P
        BY <1>1, <1>2, <2>1, <2>2, WorkerChanges
    <2>. QED BY <1>1, <2>1, <2>3, PlacesWithin DEF P
<1>. QED BY <1>3, <1>4, <1>5, <1>6 DEF Worker

\* Nor does anybody else bring a new token.
LEMMA OtherPlaces ==
    ASSUME TypeInv, NEW W \in SUBSET Workers,
           \/ Loop \/ Operator \/ Watcher \/ Tick
           \/ \E b \in BOOLEAN : MarkResult(b)
    PROVE  Places(W)' \subseteq Places(W) /\ UNCHANGED <<work, issued>>
<1>. DEFINE P == Places(W)
<1>1. /\ FirstToken \in P /\ auth.token \in P /\ disk \in P /\ patch.rec.token \in P
      /\ watch.seen \in P /\ watch.rec.token \in P
      /\ \A v \in W : work[v].rec.token \in P
    BY DEF Places
<1>. HIDE DEF P
<1>2. NoCopy.token \in P
    BY <1>1 DEF NoCopy
<1>3. UNCHANGED <<work, issued>>
    BY Zenon DEF Loop, Wake, Fire, ExamineDue, MarkPending, LookAgain, Drain,
       LookAtDirty, Operator, ReadToPatch, WritePatch, PersistPatch, Watcher, ReadFile,
       Prepare, ApplyFile, Tick, MarkResult
<1>4. auth \in Records /\ patch \in [at : {"idle", "read", "written"}, rec : Records]
    BY DEF TypeInv
<1>5. CASE Loop
    <2>1. UNCHANGED <<disk, patch, watch>>
        BY <1>5, Zenon DEF Loop, Wake, Fire, ExamineDue, MarkPending, LookAgain, Drain,
           LookAtDirty
    <2>2. auth' = auth \/ \E h \in {loop.now + PendingBackoff} :
                              auth' = [auth EXCEPT !.holdOff = h]
        BY <1>5 DEF Loop, Wake, Fire, ExamineDue, MarkPending, LookAgain, Drain,
           LookAtDirty
    <2>3. auth'.token = auth.token
        BY <1>4, <2>2, RecordParts
    <2>. QED BY <1>1, <1>3, <2>1, <2>3, PlacesWithin DEF P
<1>6. CASE Operator
    <2>1. auth'.token \in P /\ disk' \in P /\ patch'.rec.token \in P /\ watch' = watch
        <3>1. CASE ReadToPatch
            BY <1>1, <3>1 DEF ReadToPatch
        <3>2. CASE WritePatch
            <4>1. /\ auth' = patch.rec /\ patch' = [patch EXCEPT !.at = "written"]
                  /\ disk' = disk /\ watch' = watch
                BY <3>2 DEF WritePatch
            <4>2. patch'.rec = patch.rec
                BY <1>4, <4>1
            <4>. QED BY <1>1, <4>1, <4>2
        <3>3. CASE PersistPatch
            BY <1>1, <1>2, <3>3 DEF PersistPatch, NoPatch, Save
        <3>. QED BY <1>6, <3>1, <3>2, <3>3 DEF Operator
    <2>. QED BY <1>1, <1>3, <2>1, PlacesWithin DEF P
<1>7. CASE Watcher
    <2>1. /\ auth'.token \in P /\ watch'.seen \in P /\ watch'.rec.token \in P
          /\ UNCHANGED <<disk, patch>>
        <3>1. CASE ReadFile
            BY <1>1, <1>2, <3>1 DEF ReadFile
        <3>2. CASE Prepare
            BY <1>1, <3>2 DEF Prepare
        <3>3. CASE ApplyFile
            BY <1>1, <1>2, <3>3 DEF ApplyFile
        <3>. QED BY <1>7, <3>1, <3>2, <3>3 DEF Watcher
    <2>. QED BY <1>1, <1>3, <2>1, PlacesWithin DEF P
<1>8. CASE Tick
    <2>1. UNCHANGED <<auth, disk, patch, watch>>
        BY <1>8 DEF Tick
    <2>. QED BY <1>1, <1>3, <2>1, PlacesWithin DEF P
<1>9. ASSUME NEW b \in BOOLEAN, MarkResult(b)
      PROVE  Places(W)' \subseteq Places(W)
    <2>1. /\ auth' = [auth EXCEPT !.unauthorized = b]
          /\ disk' \in {disk, auth.token}
          /\ UNCHANGED <<patch, watch>>
        BY <1>9 DEF MarkResult, Save
    <2>2. auth'.token = auth.token
        BY <1>4, <2>1, RecordParts
    <2>. QED BY <1>1, <1>3, <2>1, <2>2, PlacesWithin DEF P
<1>. QED BY <1>3, <1>5, <1>6, <1>7, <1>8, <1>9 DEF P
\* Where no token is issued the rotation goes on.
LEMMA RotationKept ==
    ASSUME Rotation, issued' = issued, Places(Workers)' \subseteq Places(Workers),
           \A v \in Workers : Granted(v)' =>
              /\ Granted(v) /\ work'[v].rec = work[v].rec
              /\ Places(Workers \ {v})' \subseteq Places(Workers \ {v})
    PROVE  Rotation'
<1>1. \A k \in Places(Workers)' : k.id <= issued'
    BY DEF Rotation
<1>2. ASSUME NEW v \in Workers, Granted(v)'
      PROVE  /\ work'[v].rec.token.id = issued'
             /\ \A k \in Places(Workers \ {v})' : k.id < issued'
    BY <1>2 DEF Rotation
<1>. QED BY <1>1, <1>2 DEF Rotation

\* A new token is with the worker that got it and nowhere else.
LEMMA RotationStep ==
    TypeInv /\ Rotation /\ [RefreshNext]_vars => Rotation'
<1>. SUFFICES ASSUME TypeInv, Rotation, [RefreshNext]_vars PROVE Rotation'
    OBVIOUS
<1>1. CASE UNCHANGED vars
    <2>1. UNCHANGED <<issued, work, auth, disk, patch, watch>>
        BY <1>1 DEF vars
    <2>2. \A W : Places(W)' = Places(W)
        BY <2>1 DEF Places
    <2>. QED BY <2>1, <2>2, RotationKept DEF Granted
<1>2. CASE \/ Loop \/ Operator \/ Watcher \/ Tick
           \/ \E b \in BOOLEAN : MarkResult(b)
    <2>1. UNCHANGED <<work, issued>>
        BY <1>2, OtherPlaces
    <2>2. \A W \in SUBSET Workers : Places(W)' \subseteq Places(W)
        BY <1>2, OtherPlaces
    <2>. QED BY <2>1, <2>2, RotationKept DEF Granted
<1>3. ASSUME NEW w \in Workers, Worker(w), issued' = issued PROVE Rotation'
    <2>1. ~Granted(w)' /\ \A v \in Workers : v # w => work'[v] = work[v]
        <3>1. PICK c \in Calls(now) :
                  /\ work' = [work EXCEPT ![w] = c]
                  /\ ~(c.at = "answered" /\ c.answer = "granted")
            <4>1. CASE TakeJob(w)
                BY <4>1, TakeJobDoes
            <4>2. CASE Respond(w)
                <5>1. issued' # issued + 1
                    BY <1>3 DEF TypeInv
                <5>. QED BY <4>2, <5>1, RespondDoes
            <4>3. Resting.at = "idle"
                BY DEF Resting
            <4>4. CASE WriteBack(w)
                BY <4>3, <4>4, WriteBackDoes
            <4>5. CASE Persist(w)
                BY <4>3, <4>5, PersistDoes
            <4>. QED BY <1>3, <4>1, <4>2, <4>4, <4>5 DEF Worker
        <3>. QED BY <3>1, WorkerChanges DEF Granted
    <2>2. \A W \in SUBSET Workers : w \in W => Places(W)' \subseteq Places(W)
        BY <1>3, WorkerPlaces
    <2>3. ASSUME NEW v \in Workers, Granted(v)'
          PROVE  /\ Granted(v) /\ work'[v].rec = work[v].rec
                 /\ Places(Workers \ {v})' \subseteq Places(Workers \ {v})
        <3>1. v # w /\ work'[v] = work[v]
            BY <2>1, <2>3
        <3>2. w \in Workers \ {v} /\ Workers \ {v} \in SUBSET Workers
            BY <3>1
        <3>. QED BY <2>2, <2>3, <3>1, <3>2 DEF Granted
    <2>4. Places(Workers)' \subseteq Places(Workers)
        BY <2>2
    <2>. QED BY <1>3, <2>3, <2>4, RotationKept
<1>4. ASSUME NEW w \in Workers, Worker(w), issued' # issued PROVE Rotation'
    <2>1. Respond(w)
        BY <1>4, TakeJobDoes, WriteBackDoes, PersistDoes DEF Worker
    <2>2. PICK c \in Calls(now) :
              /\ work' = [work EXCEPT ![w] = c]
              /\ c.rec.token.id = issued + 1 /\ issued' = issued + 1
              /\ work[w].rec.token.id = issued
        BY <1>4, <2>1, RespondDoes
    <2>3. /\ work'[w] = c /\ \A v \in Workers : v # w => work'[v] = work[v]
          /\ UNCHANGED <<auth, disk, patch, watch>>
        BY <2>1, <2>2, RespondDoes, WorkerChanges
    <2>4. issued \in Nat
        BY RefreshAssumption DEF TypeInv, RefreshAssumption
    <2>5. Places(Workers \ {w})' = Places(Workers \ {w})
        BY <2>3 DEF Places
    <2>6. \A k \in Places(Workers \ {w})' : k.id <= issued
        <3>1. Places(Workers \ {w}) \subseteq Places(Workers)
            BY DEF Places
        <3>. QED BY <2>5, <3>1 DEF Rotation
    <2>7. \A k \in Places(Workers \ {w})' : k.id \in Nat
        <3>1. \A v \in Workers : work[v].rec.token \in Tokens
            BY WorkerParts, RecordParts
        <3>2. /\ auth.token \in Tokens /\ disk \in Tokens /\ patch.rec.token \in Tokens
              /\ watch.seen \in Tokens /\ watch.rec.token \in Tokens
              /\ FirstToken \in Tokens
            BY RecordParts DEF TypeInv
        <3>3. Places(Workers \ {w}) \subseteq Tokens
            BY <3>1, <3>2 DEF Places
        <3>. QED BY <2>5, <3>3, RecordParts
    <2>8. Places(Workers)' \subseteq Places(Workers \ {w})' \cup {c.rec.token}
        BY <2>3 DEF Places
    <2>9. ASSUME NEW k \in Places(Workers)' PROVE k.id <= issued'
        <3>1. k \in Places(Workers \ {w})' \/ k = c.rec.token
            BY <2>8
        <3>2. CASE k \in Places(Workers \ {w})'
            <4>1. k.id \in Nat /\ k.id <= issued
                BY <2>6, <2>7, <3>2
            <4>. QED BY <2>2, <2>4, <4>1
        <3>3. CASE k = c.rec.token
            BY <2>2, <2>4, <3>3
        <3>. QED BY <3>1, <3>2, <3>3
    <2>10. ASSUME NEW v \in Workers, v # w PROVE ~Granted(v)'
        <3>1. work[w].rec.token \in Places(Workers \ {v})
            BY <2>10 DEF Places
        <3>2. ~Granted(v)
            BY <2>2, <2>4, <3>1 DEF Rotation
        <3>. QED BY <2>3, <2>10, <3>2 DEF Granted
    <2>11. work'[w].rec.token.id = issued'
        BY <2>2, <2>3
    <2>12. ASSUME NEW k \in Places(Workers \ {w})' PROVE k.id < issued'
        <3>1. k.id \in Nat /\ k.id <= issued
            BY <2>6, <2>7
        <3>. QED BY <2>2, <2>4, <3>1
    <2>. QED BY <2>9, <2>10, <2>11, <2>12 DEF Rotation
<1>. QED BY <1>1, <1>2, <1>3, <1>4 DEF RefreshNext
\* A copy that is not known to be out of date has the token of the record; the
\* answer that brings a new one is the exception.
CallsFresh ==
    \A w \in Workers :
        /\ Called(w) /\ ~Granted(w) /\ <<w, "record">> \notin stale
              => work[w].rec.token = auth.token
        /\ work[w].at = "persist" /\ <<w, "file">> \notin stale
              => work[w].rec.token = auth.token

OperatorFresh ==
    /\ patch.at = "read" /\ <<"operator", "record">> \notin stale
          => patch.rec.token = auth.token
    /\ patch.at = "written" /\ <<"operator", "file">> \notin stale
          => patch.rec.token = auth.token

ServiceFresh ==
    /\ watch.at \in {"read", "prepared"} /\ <<"service", "record">> \notin stale
          => watch.seen = auth.token
    /\ watch.at = "prepared" => watch.rec.token = watch.seen

CopiesFresh == CallsFresh /\ OperatorFresh /\ ServiceFresh

\* A copy that was there and is not out of date after the step.
LEMMA StillFresh ==
    ASSUME Observe, NEW c \in Copies, c \in Copies', c \notin stale'
    PROVE  c \notin stale /\ auth'.token = auth.token
<1>1. c \notin stale /\ ~Outdates(c)
    BY NotStale
<1>. QED BY <1>1 DEF Outdates, Substance

\* A copy that is out of date is written only at the price of rewound.
LEMMA Unrewound ==
    ASSUME Observe, ~rewound'
    PROVE  ~rewound /\ \A c \in stale : c \in Copies' \/ Discards(c)
BY DEF Observe

\* Only the worker itself changes its copy.
LEMMA OwnCall ==
    ASSUME TypeInv, RefreshNext, NEW w \in Workers, work'[w] # work[w]
    PROVE  Worker(w)
<1>1. ASSUME NEW v \in Workers, Worker(v), v # w PROVE FALSE
    <2>1. \E c : work' = [work EXCEPT ![v] = c]
        BY <1>1, Zenon DEF Worker, TakeJob, Respond, Answer, WriteBack, Persist
    <2>. QED BY <1>1, <2>1, WorkerChanges
<1>2. ~(Loop \/ Operator \/ Watcher \/ Tick \/ \E b \in BOOLEAN : MarkResult(b))
    BY OtherPlaces
<1>. QED BY <1>1, <1>2, Zenon DEF RefreshNext

\* What a step does to the copy of a worker, of the operator, of the service.
LEMMA CallAfter ==
    ASSUME TypeInv, RefreshNext, NEW w \in Workers
    PROVE  \/ work'[w] = work[w]
           \/ /\ work[w].at = "idle" /\ work'[w].at = "calling"
              /\ work'[w].rec = auth /\ auth' = auth
           \/ /\ work[w].at = "calling" /\ work'[w].at = "answered"
              /\ Granted(w)' \/ work'[w].rec.token = work[w].rec.token
           \/ /\ work[w].at = "answered" /\ work'[w].at = "persist"
              /\ work'[w].rec = auth'
           \/ work'[w].at = "idle"
<1>1. CASE work'[w] = work[w]
    BY <1>1
<1>2. work'[w] # work[w] => Worker(w)
    BY OwnCall
<1>3. CASE TakeJob(w)
    <2>1. PICK c \in Calls(now) : work' = [work EXCEPT ![w] = c] /\ c.at = "calling"
                                  /\ c.rec = auth
        BY <1>3, TakeJobDoes
    <2>2. work[w].at = "idle" /\ auth' = auth
        BY <1>3, TakeJobDoes
    <2>. QED BY <2>1, <2>2, WorkerChanges
<1>4. CASE Respond(w)
    <2>1. PICK c \in Calls(now) :
              /\ work' = [work EXCEPT ![w] = c] /\ c.at = "answered"
              /\ c.answer = "granted" \/ c.rec.token = work[w].rec.token
        BY <1>4, RespondDoes
    <2>2. work[w].at = "calling"
        BY <1>4, RespondDoes
    <2>. QED BY <2>1, <2>2, WorkerChanges DEF Granted
<1>5. CASE WriteBack(w)
    <2>1. PICK c \in Calls(now) :
              /\ work' = [work EXCEPT ![w] = c]
              /\ (c.at = "persist" /\ c.rec = auth') \/ c.at = "idle"
        BY <1>5, WriteBackDoes DEF Resting
    <2>2. work[w].at = "answered"
        BY <1>5, WriteBackDoes
    <2>. QED BY <2>1, <2>2, WorkerChanges
<1>6. CASE Persist(w)
    <2>1. work' = [work EXCEPT ![w] = Resting]
        BY <1>6, PersistDoes
    <2>. QED BY <2>1, WorkerChanges DEF Resting
<1>. QED BY <1>1, <1>2, <1>3, <1>4, <1>5, <1>6, Zenon DEF Worker

LEMMA PatchAfter ==
    ASSUME TypeInv, RefreshNext
    PROVE  \/ patch' = patch
           \/ /\ patch.at = "idle" /\ patch'.at = "read"
              /\ patch'.rec = auth /\ auth' = auth
           \/ /\ WritePatch /\ patch.at = "read" /\ patch'.at = "written"
              /\ patch'.rec = patch.rec /\ auth' = patch.rec
           \/ /\ PersistPatch /\ patch.at = "written" /\ patch'.at = "idle"
              /\ auth' = auth
<1>1. CASE ReadToPatch
    BY <1>1 DEF ReadToPatch
<1>2. CASE WritePatch
    BY <1>2 DEF WritePatch, TypeInv
<1>3. CASE PersistPatch
    BY <1>3 DEF PersistPatch, NoPatch
<1>4. ASSUME NEW w \in Workers, Worker(w) PROVE patch' = patch
    BY <1>4, Zenon DEF Worker, TakeJob, Respond, Answer, WriteBack, Persist
<1>5. CASE Loop \/ Watcher \/ Tick \/ \E b \in BOOLEAN : MarkResult(b)
    BY <1>5, Zenon DEF Loop, Wake, Fire, ExamineDue, MarkPending, LookAgain, Drain,
       LookAtDirty, Watcher, ReadFile, Prepare, ApplyFile, Tick, MarkResult
<1>. QED BY <1>1, <1>2, <1>3, <1>4, <1>5, Zenon DEF RefreshNext, Operator

LEMMA WatchAfter ==
    ASSUME TypeInv, RefreshNext
    PROVE  \/ watch' = watch
           \/ /\ watch.at = "idle" /\ watch'.at = "read"
              /\ watch'.seen = disk /\ auth' = auth
           \/ /\ watch.at = "read" /\ watch'.at = "prepared"
              /\ watch'.seen = watch.seen /\ watch'.rec.token = watch.seen
           \/ /\ ApplyFile /\ watch.at = "prepared" /\ watch'.at = "idle"
              /\ auth' = watch.rec
<1>1. CASE ReadFile
    BY <1>1 DEF ReadFile
<1>2. CASE Prepare
    BY <1>2 DEF Prepare
<1>3. CASE ApplyFile
    BY <1>3 DEF ApplyFile
<1>4. ASSUME NEW w \in Workers, Worker(w) PROVE watch' = watch
    BY <1>4, Zenon DEF Worker, TakeJob, Respond, Answer, WriteBack, Persist
<1>5. CASE Loop \/ Operator \/ Tick \/ \E b \in BOOLEAN : MarkResult(b)
    BY <1>5, Zenon DEF Loop, Wake, Fire, ExamineDue, MarkPending, LookAgain, Drain,
       LookAtDirty, Operator, ReadToPatch, WritePatch, PersistPatch, Tick, MarkResult
<1>. QED BY <1>1, <1>2, <1>3, <1>4, <1>5, Zenon DEF RefreshNext, Watcher
LEMMA CopiesFreshStep ==
    TypeInv /\ CopiesFresh /\ [RefreshNext]_vars => CopiesFresh'
<1>. SUFFICES ASSUME TypeInv, CopiesFresh, [RefreshNext]_vars PROVE CopiesFresh'
    OBVIOUS
<1>1. CASE UNCHANGED vars
    BY <1>1 DEF vars, historyVars, CopiesFresh, CallsFresh, OperatorFresh,
       ServiceFresh, Called, Granted
<1>2. CASE RefreshNext
    <2>1. Observe
        BY <1>2 DEF RefreshNext
    <2>2. ASSUME NEW w \in Workers, Called(w)', ~Granted(w)',
                 <<w, "record">> \notin stale'
          PROVE  work'[w].rec.token = auth'.token
        <3>1. <<w, "record">> \in Copies'
            BY <2>2, CopiesAreNext
        <3>2. CASE Called(w) /\ ~Granted(w) /\ work'[w].rec.token = work[w].rec.token
            <4>1. <<w, "record">> \in Copies
                BY <3>2, CopiesAre
            <4>2. <<w, "record">> \notin stale /\ auth'.token = auth.token
                BY <2>1, <2>2, <3>1, <4>1, StillFresh
            <4>. QED BY <3>2, <4>2 DEF CopiesFresh, CallsFresh
        <3>3. CASE work'[w].rec = auth /\ auth' = auth
            BY <3>3
        <3>4. CASE work'[w] = work[w]
            BY <2>2, <3>2, <3>4 DEF Called, Granted
        <3>5. CASE work[w].at = "calling" /\ work'[w].rec.token = work[w].rec.token
            BY <3>2, <3>5 DEF Called, Granted
        <3>6. work'[w].at \notin {"persist", "idle"}
            BY <2>2 DEF Called
        <3>. QED BY <1>2, <2>2, <3>3, <3>4, <3>5, <3>6, CallAfter
    <2>3. ASSUME NEW w \in Workers, work'[w].at = "persist", <<w, "file">> \notin stale'
          PROVE  work'[w].rec.token = auth'.token
        <3>1. <<w, "file">> \in Copies'
            BY <2>3, CopiesAreNext
        <3>2. CASE work'[w] = work[w]
            <4>1. <<w, "file">> \in Copies
                BY <2>3, <3>2, CopiesAre
            <4>2. <<w, "file">> \notin stale /\ auth'.token = auth.token
                BY <2>1, <2>3, <3>1, <4>1, StillFresh
            <4>. QED BY <2>3, <3>2, <4>2 DEF CopiesFresh, CallsFresh
        <3>. QED BY <1>2, <2>3, <3>2, CallAfter
    <2>4. ASSUME patch'.at = "read", <<"operator", "record">> \notin stale'
          PROVE  patch'.rec.token = auth'.token
        <3>1. <<"operator", "record">> \in Copies'
            BY <2>4, CopiesAreNext
        <3>2. CASE patch' = patch
            <4>1. <<"operator", "record">> \in Copies
                BY <2>4, <3>2, CopiesAre
            <4>2. <<"operator", "record">> \notin stale /\ auth'.token = auth.token
                BY <2>1, <2>4, <3>1, <4>1, StillFresh
            <4>. QED BY <2>4, <3>2, <4>2 DEF CopiesFresh, OperatorFresh
        <3>. QED BY <1>2, <2>4, <3>2, PatchAfter
    <2>5. ASSUME patch'.at = "written", <<"operator", "file">> \notin stale'
          PROVE  patch'.rec.token = auth'.token
        <3>1. <<"operator", "file">> \in Copies'
            BY <2>5, CopiesAreNext
        <3>2. CASE patch' = patch
            <4>1. <<"operator", "file">> \in Copies
                BY <2>5, <3>2, CopiesAre
            <4>2. <<"operator", "file">> \notin stale /\ auth'.token = auth.token
                BY <2>1, <2>5, <3>1, <4>1, StillFresh
            <4>. QED BY <2>5, <3>2, <4>2 DEF CopiesFresh, OperatorFresh
        <3>. QED BY <1>2, <2>5, <3>2, PatchAfter
    <2>6. ASSUME watch'.at \in {"read", "prepared"}, <<"service", "record">> \notin stale'
          PROVE  watch'.seen = auth'.token
        <3>1. <<"service", "record">> \in Copies'
            BY <2>6, CopiesAreNext
        <3>2. CASE watch.at \in {"read", "prepared"} /\ watch'.seen = watch.seen
            <4>1. <<"service", "record">> \in Copies
                BY <3>2, CopiesAre
            <4>2. <<"service", "record">> \notin stale /\ auth'.token = auth.token
                BY <2>1, <2>6, <3>1, <4>1, StillFresh
            <4>. QED BY <3>2, <4>2 DEF CopiesFresh, ServiceFresh
        <3>3. CASE watch.at = "idle" /\ watch'.seen = disk /\ auth' = auth
            <4>1. <<"service", "record">> \notin Copies
                BY <3>3, CopiesAre
            <4>2. ~BornStale(<<"service", "record">>)
                BY <2>1, <2>6, <3>1, <4>1, NotStale
            <4>. QED BY <3>3, <4>2 DEF BornStale
        <3>. QED BY <1>2, <2>6, <3>2, <3>3, WatchAfter
    <2>7. watch'.at = "prepared" => watch'.rec.token = watch'.seen
        BY <1>2, WatchAfter DEF CopiesFresh, ServiceFresh
    <2>. QED BY <2>2, <2>3, <2>4, <2>5, <2>6, <2>7
             DEF CopiesFresh, CallsFresh, OperatorFresh, ServiceFresh
<1>. QED BY <1>1, <1>2

\* The newest token is with the worker that got it or in the record, and from
\* there it is in the file, or a copy that is up to date is on its way there,
\* or the last save failed.
FilePending ==
    \/ \E w \in Workers : work[w].at = "persist" /\ <<w, "file">> \notin stale
    \/ patch.at = "written" /\ <<"operator", "file">> \notin stale

NewestInv ==
    /\ auth.token.id = issued \/ \E w \in Workers : Granted(w)
    /\ disk = auth.token \/ FilePending \/ unsaved

\* The record gets another token only from the worker that holds the newest.
LEMMA TokenKept ==
    ASSUME TypeInv, CopiesFresh, RefreshNext, ~rewound'
    PROVE  \/ auth'.token = auth.token
           \/ \E w \in Workers : /\ Granted(w) /\ work'[w].at = "persist"
                                 /\ auth'.token = work[w].rec.token
<1>1. Observe
    BY DEF RefreshNext
<1>2. ASSUME NEW w \in Workers, WriteBack(w), auth'.token # auth.token, ~Granted(w)
      PROVE  FALSE
    <2>1. /\ work[w].at = "answered" /\ work[w].answer = "ineffective"
          /\ auth'.token = work[w].rec.token
          /\ \E c \in Calls(now) : work' = [work EXCEPT ![w] = c] /\ c.at = "persist"
        BY <1>2, WriteBackDoes DEF Granted
    <2>2. work'[w].at = "persist"
        BY <2>1, WorkerChanges
    <2>3. <<w, "record">> \notin Copies'
        BY <2>2, CopiesAreNext DEF Called
    <2>4. ~Discards(<<w, "record">>)
        BY <2>1 DEF Discards, Refusals
    <2>5. <<w, "record">> \notin stale
        BY <1>1, <2>3, <2>4, Unrewound
    <2>. QED BY <1>2, <2>1, <2>5 DEF CopiesFresh, CallsFresh, Called
<1>3. ASSUME NEW w \in Workers, WriteBack(w), auth'.token # auth.token
      PROVE  Granted(w) /\ work'[w].at = "persist" /\ auth'.token = work[w].rec.token
    <2>1. Granted(w)
        BY <1>2, <1>3
    <2>2. /\ auth'.token = work[w].rec.token
          /\ \E c \in Calls(now) : work' = [work EXCEPT ![w] = c] /\ c.at = "persist"
        BY <1>3, WriteBackDoes
    <2>. QED BY <2>1, <2>2, WorkerChanges
<1>4. ASSUME WritePatch PROVE auth'.token = auth.token
    <2>1. patch.at = "read" /\ patch'.at = "written" /\ auth' = patch.rec
        BY <1>4 DEF WritePatch, TypeInv
    <2>2. <<"operator", "record">> \notin Copies'
        BY <2>1, CopiesAreNext
    <2>3. ~Discards(<<"operator", "record">>)
        BY RefreshAssumption DEF RefreshAssumption, Discards
    <2>4. <<"operator", "record">> \notin stale
        BY <1>1, <2>2, <2>3, Unrewound
    <2>. QED BY <2>1, <2>4 DEF CopiesFresh, OperatorFresh
<1>5. ASSUME ApplyFile PROVE auth'.token = auth.token
    <2>1. watch.at = "prepared" /\ watch'.at = "idle" /\ auth' = watch.rec
        BY <1>5 DEF ApplyFile
    <2>2. <<"service", "record">> \notin Copies'
        BY <2>1, CopiesAreNext
    <2>3. ~Discards(<<"service", "record">>)
        BY RefreshAssumption DEF RefreshAssumption, Discards
    <2>4. <<"service", "record">> \notin stale
        BY <1>1, <2>2, <2>3, Unrewound
    <2>. QED BY <2>1, <2>4 DEF CopiesFresh, ServiceFresh
<1>6. ASSUME \/ MarkPending \/ \E b \in BOOLEAN : MarkResult(b)
      PROVE  auth'.token = auth.token
    <2>1. auth \in Records
        BY DEF TypeInv
    <2>. QED BY <1>6, <2>1, RecordParts DEF MarkPending, MarkResult
<1>7. ASSUME NEW w \in Workers, TakeJob(w) \/ Respond(w) \/ Persist(w)
      PROVE  auth'.token = auth.token
    BY <1>7, Zenon DEF TakeJob, Respond, Answer, Persist
<1>8. ASSUME \/ Wake \/ Fire \/ ExamineDue \/ LookAgain \/ Drain \/ LookAtDirty
             \/ ReadToPatch \/ PersistPatch \/ ReadFile \/ Prepare \/ Tick
      PROVE  auth'.token = auth.token
    BY <1>8, Zenon DEF Wake, Fire, ExamineDue, LookAgain, Drain, LookAtDirty,
       ReadToPatch, PersistPatch, ReadFile, Prepare, Tick
<1>. QED BY <1>3, <1>4, <1>5, <1>6, <1>7, <1>8, Zenon
         DEF RefreshNext, Loop, Operator, Watcher, Worker
\* What a step does to the file, unless it fails to save it.
LEMMA DiskAfter ==
    ASSUME TypeInv, RefreshNext
    PROVE  \/ UNCHANGED fileVars
           \/ unsaved'
           \/ disk' = auth.token /\ auth'.token = auth.token
           \/ \E w \in Workers : Persist(w)
           \/ PersistPatch
<1>1. ASSUME NEW b \in BOOLEAN, MarkResult(b)
      PROVE  (disk' = auth.token \/ unsaved') /\ auth'.token = auth.token
    BY <1>1, RecordParts DEF MarkResult, TypeInv, Save
<1>2. ASSUME NEW w \in Workers, TakeJob(w) \/ Respond(w) \/ WriteBack(w)
      PROVE  UNCHANGED fileVars
    BY <1>2, Zenon DEF TakeJob, Respond, Answer, WriteBack
<1>3. ASSUME Loop \/ ReadToPatch \/ WritePatch \/ Watcher \/ Tick
      PROVE  UNCHANGED fileVars
    BY <1>3, Zenon DEF Loop, Wake, Fire, ExamineDue, MarkPending, LookAgain, Drain,
       LookAtDirty, ReadToPatch, WritePatch, Watcher, ReadFile, Prepare, ApplyFile, Tick
<1>. QED BY <1>1, <1>2, <1>3, Zenon DEF RefreshNext, Operator, Worker

LEMMA NewestStep ==
    ASSUME TypeInv, Rotation, CopiesFresh, NewestInv, RefreshNext, ~rewound'
    PROVE  NewestInv'
<1>1. Observe
    BY DEF RefreshNext
<1>2. CASE auth'.token = auth.token
    <2>1. auth'.token.id = issued' \/ \E w \in Workers : Granted(w)'
        <3>1. CASE auth.token.id = issued
            <4>1. issued' = issued \/ \E w \in Workers : Granted(w)'
                <5>1. ASSUME NEW w \in Workers, Respond(w), issued' # issued
                      PROVE  Granted(w)'
                    BY <5>1, RespondDoes, WorkerChanges DEF Granted
                <5>2. ASSUME NEW w \in Workers, TakeJob(w) \/ WriteBack(w) \/ Persist(w)
                      PROVE  issued' = issued
                    BY <5>2, Zenon DEF TakeJob, WriteBack, Persist
                <5>. QED BY <5>1, <5>2, OtherPlaces, Zenon DEF RefreshNext, Worker
            <4>. QED BY <1>2, <3>1, <4>1
        <3>2. ASSUME NEW w \in Workers, Granted(w)
              PROVE  Granted(w)' \/ auth'.token.id = issued'
            <4>1. CASE work'[w] = work[w]
                BY <3>2, <4>1 DEF Granted
            <4>2. CASE WriteBack(w)
                <5>1. auth'.token = work[w].rec.token /\ issued' = issued
                    BY <3>2, <4>2, WriteBackDoes DEF Granted, Refusals
                <5>. QED BY <3>2, <5>1 DEF Rotation
            <4>3. ~TakeJob(w) /\ ~Respond(w) /\ ~Persist(w)
                BY <3>2, TakeJobDoes, RespondDoes, PersistDoes DEF Granted
            <4>. QED BY <4>1, <4>2, <4>3, OwnCall DEF Worker
        <3>. QED BY <3>1, <3>2 DEF NewestInv
    <2>2. disk' = auth'.token \/ FilePending' \/ unsaved'
        <3>1. ASSUME NEW w \in Workers, work[w].at = "persist",
                     <<w, "file">> \notin stale
              PROVE  disk' = auth'.token \/ FilePending' \/ unsaved'
            <4>1. CASE <<w, "file">> \in Copies'
                <5>1. work'[w].at = "persist"
                    BY <4>1, CopiesAreNext
                <5>2. <<w, "file">> \in Copies /\ ~Outdates(<<w, "file">>)
                    BY <1>2, <3>1, CopiesAre DEF Outdates
                <5>3. <<w, "file">> \notin stale'
                    BY <1>1, <3>1, <5>2 DEF Observe
                <5>. QED BY <5>1, <5>3 DEF FilePending
            <4>2. CASE <<w, "file">> \notin Copies'
                <5>1. work'[w].at # "persist"
                    BY <4>2, CopiesAreNext
                <5>2. Persist(w)
                    <6>1. ~TakeJob(w) /\ ~Respond(w) /\ ~WriteBack(w)
                        BY <3>1, TakeJobDoes, RespondDoes, WriteBackDoes
                    <6>. QED BY <3>1, <5>1, <6>1, OwnCall DEF Worker
                <5>3. disk' = work[w].rec.token \/ unsaved'
                    BY <5>2, PersistDoes
                <5>. QED BY <1>2, <3>1, <5>3 DEF CopiesFresh, CallsFresh
            <4>. QED BY <4>1, <4>2
        <3>2. ASSUME patch.at = "written", <<"operator", "file">> \notin stale
              PROVE  disk' = auth'.token \/ FilePending' \/ PersistPatch
            <4>1. CASE patch' = patch
                <5>1. <<"operator", "file">> \in Copies'
                    BY <3>2, <4>1, CopiesAreNext
                <5>2. <<"operator", "file">> \in Copies /\ ~Outdates(<<"operator", "file">>)
                    BY <1>2, <3>2, CopiesAre DEF Outdates
                <5>3. <<"operator", "file">> \notin stale'
                    BY <1>1, <3>2, <5>1, <5>2 DEF Observe
                <5>. QED BY <3>2, <4>1, <5>3 DEF FilePending
            <4>. QED BY <3>2, <4>1, PatchAfter
        <3>3. ASSUME PersistPatch PROVE disk' = auth'.token \/ unsaved'
            <4>1. /\ patch.at = "written" /\ patch'.at = "idle"
                  /\ disk' = patch.rec.token \/ unsaved'
                BY <3>3 DEF PersistPatch, NoPatch, Save
            <4>2. <<"operator", "file">> \notin Copies'
                BY <4>1, CopiesAreNext
            <4>3. ~Discards(<<"operator", "file">>)
                BY RefreshAssumption DEF RefreshAssumption, Discards
            <4>4. <<"operator", "file">> \notin stale
                BY <1>1, <4>2, <4>3, Unrewound
            <4>. QED BY <1>2, <4>1, <4>4 DEF CopiesFresh, OperatorFresh
        <3>4. ASSUME NEW w \in Workers, Persist(w)
              PROVE  disk' = auth'.token \/ unsaved'
            <4>1. /\ work[w].at = "persist" /\ work'[w].at = "idle"
                  /\ disk' = work[w].rec.token \/ unsaved'
                BY <3>4, PersistDoes, WorkerChanges DEF Resting
            <4>2. <<w, "file">> \notin Copies'
                BY <4>1, CopiesAreNext
            <4>3. ~Discards(<<w, "file">>)
                BY <4>1, WorkerParts DEF Discards, Refusals
            <4>4. <<w, "file">> \notin stale
                BY <1>1, <4>2, <4>3, Unrewound
            <4>. QED BY <1>2, <4>1, <4>4 DEF CopiesFresh, CallsFresh
        <3>5. CASE UNCHANGED fileVars /\ ~PersistPatch
            BY <1>2, <3>1, <3>2, <3>5 DEF NewestInv, FilePending
        <3>. QED BY <1>2, <3>3, <3>4, <3>5, DiskAfter
    <2>. QED BY <2>1, <2>2 DEF NewestInv
<1>3. ASSUME NEW w \in Workers, Granted(w), work'[w].at = "persist",
             auth'.token = work[w].rec.token
      PROVE  NewestInv'
    <2>1. WriteBack(w) /\ issued' = issued
        <3>1. work'[w] # work[w]
            BY <1>3 DEF Granted
        <3>2. ~TakeJob(w) /\ ~Respond(w) /\ ~Persist(w)
            BY <1>3, TakeJobDoes, RespondDoes, PersistDoes DEF Granted
        <3>3. WriteBack(w)
            BY <3>1, <3>2, OwnCall DEF Worker
        <3>. QED BY <3>3, WriteBackDoes
    <2>2. auth'.token.id = issued'
        BY <1>3, <2>1 DEF Rotation
    <2>3. <<w, "file">> \notin Copies /\ <<w, "file">> \in Copies'
        BY <1>3, CopiesAre, CopiesAreNext DEF Granted
    <2>4. ~BornStale(<<w, "file">>)
        BY RefreshAssumption DEF RefreshAssumption, BornStale
    <2>5. <<w, "file">> \notin stale'
        BY <1>1, <2>3, <2>4 DEF Observe
    <2>. QED BY <1>3, <2>2, <2>5 DEF NewestInv, FilePending
<1>. QED BY <1>2, <1>3, TokenKept

\* A rotated token is the only one the provider still takes.  However the
\* workers, the operator, the requests and the service interleave and whatever
\* saves fail, once they are through the newest token is in the record, unless
\* a copy that was out of date was written, and it is in the file as well,
\* unless the last save failed.
THEOREM NewestTokenSurvives == RefreshSpec => []NewestTokenIsKept
<1>. DEFINE NInv == Rotation /\ CopiesFresh /\ (~rewound => NewestInv)
<1>1. RefreshInit => NInv
    <2>. SUFFICES ASSUME RefreshInit PROVE NInv
        OBVIOUS
    <2>1. /\ auth = NoCopy /\ disk = FirstToken /\ issued = 1 /\ patch = NoPatch
          /\ watch = [at |-> "idle", seen |-> FirstToken, rec |-> NoCopy]
          /\ \A w \in Workers : work[w] = Resting
        BY DEF RefreshInit
    <2>2. \A w \in Workers : /\ work[w].rec.token = FirstToken
                             /\ work[w].at = "idle"
        BY <2>1 DEF Resting, NoCopy
    <2>3. Places(Workers) = {FirstToken} /\ FirstToken.id = 1
        BY <2>1, <2>2 DEF Places, NoPatch, NoCopy, FirstToken
    <2>4. Rotation
        BY <2>1, <2>2, <2>3 DEF Rotation, Granted
    <2>5. CopiesFresh
        BY <2>1, <2>2 DEF CopiesFresh, CallsFresh, OperatorFresh, ServiceFresh,
           Called, NoPatch
    <2>6. NewestInv
        BY <2>1 DEF NewestInv, NoCopy, FirstToken
    <2>. QED BY <2>4, <2>5, <2>6
<1>2. TypeInv /\ NInv /\ [RefreshNext]_vars => NInv'
    <2>. SUFFICES ASSUME TypeInv, NInv, [RefreshNext]_vars PROVE NInv'
        OBVIOUS
    <2>1. Rotation' /\ CopiesFresh'
        BY RotationStep, CopiesFreshStep
    <2>2. CASE RefreshNext
        <3>1. rewound => rewound'
            BY <2>2 DEF RefreshNext, Observe
        <3>. QED BY <2>1, <2>2, <3>1, NewestStep
    <2>3. CASE UNCHANGED vars
        BY <2>1, <2>3 DEF vars, historyVars, NewestInv, FilePending, Granted
    <2>. QED BY <2>2, <2>3
<1>3. NInv => NewestTokenIsKept
    BY DEF NInv, NewestInv, NewestTokenIsKept, Quiet, Refreshing, FilePending, Granted
<1>. QED BY <1>1, <1>2, <1>3, TypeInit, TypeStep, PTL DEF RefreshSpec

=============================================================================
