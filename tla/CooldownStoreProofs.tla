------------------------ MODULE CooldownStoreProofs ------------------------
(***************************************************************************)
(* Proofs about CooldownStore, for any number of credentials, calls and    *)
(* stores and any lengths of cooldowns: between calls the files hold what  *)
(* is in memory, and the memory what results, switches and registrations   *)
(* have made.                                                              *)
(*                                                                         *)
(* Each action is first turned into what it does to the call that makes it *)
(* (Moved); the parts of the invariant are then proved from that, without  *)
(* the actions' updates of records in records.                             *)
(***************************************************************************)
EXTENDS CooldownStore, TLAPS

-----------------------------------------------------------------------------
(* The invariant                                                           *)

Memory == [Creds -> Rests]

Pcs == {"idle", "snapshot", "lock", "write", "list", "remove", "clear",
        "begin", "load"}
CallRecord == [pc : Pcs, store : Stores \cup {NoStore}, recs : Memory,
               todo : SUBSET Creds, more : BOOLEAN]

\* A call that has its records, or is about to take them.
Active(k) == call[k].pc \in {"lock", "write", "list", "remove"}
Pending == \E k \in Calls : call[k].pc = "snapshot"
Busy(k) == call[k].pc = "snapshot" \/ Active(k)
Quiet == \A k \in Calls : ~Busy(k)
CallersIdle == \A k \in Callers : IsIdle(k)

\* f has what is left in m of the credentials outside o, and nothing else.
Shows(f, o, m) ==
    \A c \in Creds : Live(f[c]) = IF c \in o THEN 0 ELSE Live(m[c])

\* Only the Loader reads files; a call that has returned is idle in every field.
CallInv ==
    /\ call \in [Calls -> CallRecord]
    /\ \A k \in Callers : call[k].pc \notin {"clear", "begin", "load"} /\ ~call[k].more
    /\ \A k \in Calls : call[k].pc = "idle" => call[k] = Idle

\* Types.
TypeInv ==
    /\ phase \in {"boot", "up", "down"} /\ off \subseteq Creds
    /\ cool \in Memory /\ files \in Memory /\ truth \in Memory
    /\ newest \in Memory \cup {None}
    /\ saving \in BOOLEAN /\ exact \in BOOLEAN
    /\ doubt \in BOOLEAN /\ trusted \in BOOLEAN
    /\ store \in Stores \cup {NoStore} /\ crossed \subseteq Calls
    /\ CallInv

\* One call at a time is in the Save of a store.
MutexInv ==
    \A j, k \in Calls :
        InSave(j) /\ InSave(k) /\ j # k => call[j].store # call[k].store

\* A process that is down has no calls and no memory.
DownInv == phase = "down" => AllIdle /\ cool = Nothing

\* The Manager has a store when the configuration says so.  A restart reads the
\* files whenever the memory was good when the process went down.
StoreInv ==
    /\ phase # "down" => (saving <=> store # NoStore)
    /\ phase = "boot" \/ (phase = "down" /\ trusted) => saving
    /\ \A k \in Calls : call[k].more => phase = "up" /\ Busy(k)

\* How far a save is, and that the files have what it is done with unless
\* another store's save was under way too.
SaveOf(k) ==
    /\ call[k].pc = "write" =>
           call[k].todo # {} /\ call[k].todo \subseteq Group(call[k].recs)
    /\ call[k].pc = "list" => call[k].todo = {}
    /\ call[k].pc = "remove" =>
           call[k].todo # {} /\ call[k].todo \cap Group(call[k].recs) = {}
    /\ InSave(k) /\ k \notin crossed =>
           \A c \in Creds \ call[k].todo :
               call[k].recs[c] # None \/ call[k].pc = "remove" =>
                   files[c] = call[k].recs[c]

CrossInv ==
    \A j, k \in Calls : InSave(j) /\ InSave(k) /\ j # k => j \in crossed

Saves == \A k \in Calls : SaveOf(k)
SaveInv == Saves /\ CrossInv

\* The newest snapshot shows the memory, unless a call is about to take a newer one
\* or something has changed that nothing saves.
NewInv ==
    (\E k \in Calls : Active(k)) /\ ~Pending /\ newest # None =>
        Shows(newest, off, cool)

\* So do the files once the save of the newest snapshot has ended.
ExactInv == phase = "up" /\ exact /\ Quiet => Shows(files, off, cool)

\* During a start the Loader is alone, and saves what it has restored.
BootInv ==
    phase = "boot" =>
        /\ CallersIdle
        /\ Busy(Loader) \/ (call[Loader].pc \in {"begin", "load"} /\ cool = Nothing)
        /\ Active(Loader) => Shows(call[Loader].recs, off, cool)

\* What the Loader has read is in the files, which show what is in memory.
LoadInv ==
    call[Loader].pc = "load" /\ (phase = "boot" \/ ~doubt) =>
        /\ CallersIdle
        /\ \A c \in Creds \ call[Loader].todo : call[Loader].recs[c] = files[c]
        /\ phase = "up" => Shows(files, off, cool)

\* What has been made is in memory, or in the files as long as it is not.
TruthInv ==
    trusted =>
        /\ phase = "up" \/ (phase = "boot" /\ Busy(Loader)) => Agrees
        /\ phase # "up" => Shows(truth, off, files)

IInv == /\ TypeInv /\ MutexInv /\ DownInv /\ StoreInv /\ SaveInv
        /\ NewInv /\ ExactInv /\ BootInv /\ LoadInv /\ TruthInv

-----------------------------------------------------------------------------
(* Cooldowns                                                               *)

\* A cooldown is None or a number, and lasts a number of ticks.
LEMMA RestsAre ==
    ASSUME NEW r \in Rests
    PROVE  (r = None \/ r \in Nat) /\ Live(r) \in Nat
  BY CooldownStoreAssumption DEF Rests, Live

\* No time is left in an empty memory.
LEMMA NothingTyped ==
    Nothing \in Memory /\ \A c \in Creds : Nothing[c] = None /\ Live(Nothing[c]) = 0
  BY DEF Nothing, Memory, Rests, Live

\* One tick less.
LEMMA RestAges ==
    ASSUME NEW r \in Rests, Live(r) # 0
    PROVE  r - 1 \in Rests
<1>1. PICK w \in Waits : r \in 0..w
  BY DEF Rests, Live
<1>2. w \in Nat
  BY CooldownStoreAssumption
<1>3. r - 1 \in 0..w
  BY <1>1, <1>2, RestsAre DEF Live
<1> QED
  BY <1>3 DEF Rests

\* What a tick does to a memory: what is none stays none, and the rest of the time
\* is one less.
LEMMA AgeIs ==
    ASSUME NEW f \in Memory
    PROVE  /\ Age(f) \in Memory
           /\ \A c \in Creds :
                /\ (Age(f)[c] = None) <=> (f[c] = None)
                /\ Live(Age(f)[c]) = IF Live(f[c]) = 0 THEN 0 ELSE Live(f[c]) - 1
<1>1. ASSUME NEW c \in Creds
      PROVE  /\ f[c] \in Rests
             /\ (IF Live(f[c]) = 0 THEN f[c] ELSE f[c] - 1) \in Rests
  BY RestAges DEF Memory
<1>2. Age(f) \in Memory
  BY <1>1 DEF Age, Memory
<1>3. ASSUME NEW c \in Creds
      PROVE  /\ (Age(f)[c] = None) <=> (f[c] = None)
             /\ Live(Age(f)[c]) = IF Live(f[c]) = 0 THEN 0 ELSE Live(f[c]) - 1
  <2>1. Age(f)[c] = IF Live(f[c]) = 0 THEN f[c] ELSE f[c] - 1
    BY DEF Age
  <2>2. (f[c] = None \/ f[c] \in Nat) /\ Live(f[c]) \in Nat
    BY <1>1, RestsAre
  <2> QED
    BY <2>1, <2>2, CooldownStoreAssumption DEF Live
<1> QED
  BY <1>2, <1>3

\* A tick leaves an empty memory and an idle call as they are.
LEMMA NothingAges == Age(Nothing) = Nothing
  BY DEF Age, Nothing, Live

\* A tick keeps what shows a memory and what agrees with it.
LEMMA ShowsAges ==
    ASSUME NEW f \in Memory, NEW m \in Memory, NEW o, Shows(f, o, m)
    PROVE  Shows(Age(f), o, Age(m))
  BY AgeIs DEF Shows

\* Files that differ from the records nowhere show what the records show.
LEMMA ShowsSame ==
    ASSUME NEW f, NEW g, NEW o, NEW m, Shows(f, o, m),
           \A c \in Creds : g[c] = f[c]
    PROVE  Shows(g, o, m)
  BY DEF Shows

\* A snapshot shows the memory.
LEMMA RecordsShow ==
    ASSUME TypeInv
    PROVE  Records \in Memory /\ Shows(Records, off, cool)
<1>1. cool \in Memory
  BY DEF TypeInv
<1>2. ASSUME NEW c \in Creds
      PROVE  /\ Recorded(c) \in Rests
             /\ Live(Recorded(c)) = IF c \in off THEN 0 ELSE Live(cool[c])
  <2>1. cool[c] \in Rests
    BY <1>1 DEF Memory
  <2> QED
    BY <2>1 DEF Recorded, Live, Rests
<1>3. Records \in Memory
  BY <1>2 DEF Records, Memory
<1>4. \A c \in Creds : Records[c] = Recorded(c)
  BY DEF Records
<1> QED
  BY <1>2, <1>3, <1>4 DEF Shows

-----------------------------------------------------------------------------
(* What an action does to the call that makes it                           *)

\* Call k goes to the step pc, with these fields; the others stay where they are.
Moved(k, pc, st, recs, todo, more) ==
    /\ call' \in [Calls -> CallRecord]
    /\ pc = "idle" => call'[k] = Idle
    /\ call'[k].pc = pc /\ call'[k].store = st /\ call'[k].recs = recs
    /\ call'[k].todo = todo /\ call'[k].more = more
    /\ \A j \in Calls : j # k => call'[j] = call[j]

\* Call k ends, at a start the start with it; a reload may go on to its restore.
Ended(k) ==
    /\ \/ Moved(k, "idle", NoStore, Nothing, {}, FALSE)
       \/ k = Loader /\ phase = "up" /\ Moved(k, "begin", NoStore, Nothing, {}, FALSE)
    /\ phase' = IF phase = "boot" THEN "up" ELSE phase

\* The fields of a call.
LEMMA CallTyped ==
    ASSUME TypeInv, NEW k \in Calls
    PROVE  /\ call[k] \in CallRecord
           /\ call[k].pc \in Pcs /\ call[k].store \in Stores \cup {NoStore}
           /\ call[k].recs \in Memory /\ call[k].todo \subseteq Creds
           /\ call[k].more \in BOOLEAN
           /\ (k \in Callers \/ k = Loader) /\ Loader \in Calls /\ Loader \notin Callers
  BY CooldownStoreAssumption DEF TypeInv, CallInv, CallRecord, Calls

\* A call is idle when its step is.
LEMMA IdleIs ==
    ASSUME TypeInv
    PROVE  /\ \A k \in Calls : IsIdle(k) <=> call[k].pc = "idle"
           /\ AllIdle <=> \A k \in Calls : call[k].pc = "idle"
           /\ Idle \in CallRecord
<1>1. Idle \in CallRecord
  BY NothingTyped DEF Idle, CallRecord, Pcs
<1>2. \A k \in Calls : IsIdle(k) <=> call[k].pc = "idle"
  BY DEF IsIdle, TypeInv, CallInv, Idle
<1> QED
  BY <1>1, <1>2 DEF AllIdle

\* Go moves the call.
LEMMA GoMoves ==
    ASSUME TypeInv, NEW k \in Calls, NEW pc \in Pcs \ {"idle"}, NEW recs \in Memory,
           NEW todo \in SUBSET Creds, Go(k, pc, recs, todo)
    PROVE  Moved(k, pc, call[k].store, recs, todo, call[k].more)
<1>1. /\ call \in [Calls -> CallRecord] /\ call[k] \in CallRecord
      /\ call[k].store \in Stores \cup {NoStore} /\ call[k].more \in BOOLEAN
  BY CallTyped DEF TypeInv, CallInv
<1> DEFINE r == [call[k] EXCEPT !.pc = pc, !.recs = recs, !.todo = todo]
<1>2. /\ r.pc = pc /\ r.store = call[k].store /\ r.recs = recs
      /\ r.todo = todo /\ r.more = call[k].more
      /\ r \in CallRecord
  BY <1>1 DEF CallRecord
<1>3. call' = [call EXCEPT ![k] = r]
  BY DEF Go
<1> HIDE DEF r
<1>4. call' \in [Calls -> CallRecord] /\ call'[k] = r
      /\ \A j \in Calls : j # k => call'[j] = call[j]
  BY <1>1, <1>2, <1>3
<1> QED
  BY <1>2, <1>4 DEF Moved

\* So does To.
LEMMA ToMoves ==
    ASSUME TypeInv, NEW k \in Calls, NEW pc \in Pcs \ {"idle"}, To(k, pc)
    PROVE  Moved(k, pc, call[k].store, call[k].recs, call[k].todo, call[k].more)
  BY CallTyped, GoMoves DEF To

\* A call that returns is idle.
LEMMA ReturnMoves ==
    ASSUME TypeInv, NEW k \in Calls, Return(k)
    PROVE  Moved(k, "idle", NoStore, Nothing, {}, FALSE)
<1>1. Idle \in CallRecord /\ call \in [Calls -> CallRecord]
  BY IdleIs DEF TypeInv, CallInv
<1>2. call' \in [Calls -> CallRecord] /\ call'[k] = Idle
      /\ \A j \in Calls : j # k => call'[j] = call[j]
  BY <1>1 DEF Return
<1>3. /\ Idle.pc = "idle" /\ Idle.store = NoStore /\ Idle.recs = Nothing
      /\ Idle.todo = {} /\ Idle.more = FALSE
  BY DEF Idle
<1> QED
  BY <1>2, <1>3 DEF Moved

\* The end of a save or of a restore.
LEMMA EndMoves ==
    ASSUME TypeInv, StoreInv, NEW k \in Calls, End(k)
    PROVE  Ended(k)
<1>1. CASE call[k].more
  <2>1. k = Loader /\ phase = "up"
    BY <1>1, CallTyped DEF TypeInv, CallInv, StoreInv
  <2> DEFINE r == [Idle EXCEPT !.pc = "begin"]
  <2>2. /\ r.pc = "begin" /\ r.store = NoStore /\ r.recs = Nothing
        /\ r.todo = {} /\ r.more = FALSE
        /\ r \in CallRecord
    BY NothingTyped DEF CallRecord, Idle, Pcs
  <2>3. call' = [call EXCEPT ![k] = r] /\ phase' = phase
    BY <1>1 DEF End
  <2> HIDE DEF r
  <2>4. call' \in [Calls -> CallRecord] /\ call'[k] = r
        /\ \A j \in Calls : j # k => call'[j] = call[j]
    BY <2>2, <2>3 DEF TypeInv, CallInv
  <2>5. Moved(k, "begin", NoStore, Nothing, {}, FALSE)
    BY <2>2, <2>4 DEF Moved
  <2> QED
    BY <2>1, <2>3, <2>5 DEF Ended
<1>2. CASE ~call[k].more
  BY <1>2, ReturnMoves DEF End, Ended
<1> QED
  BY <1>1, <1>2

\* Where a call moves, calls stay well formed.
LEMMA MovedTyped ==
    ASSUME TypeInv, NEW k \in Calls, NEW pc, NEW st, NEW recs, NEW todo, NEW more,
           Moved(k, pc, st, recs, todo, more),
           k = Loader \/ (pc \notin {"clear", "begin", "load"} /\ ~more)
    PROVE  CallInv'
<1>1. CallInv
  BY DEF TypeInv
<1>2. \A j \in Callers : j \in Calls /\ j # Loader
  BY CooldownStoreAssumption DEF Calls
<1>3. Idle' = Idle
  BY DEF Idle, Nothing
<1>4. \A j \in Calls : call'[j].pc = "idle" => call'[j] = Idle
  BY <1>1 DEF CallInv, Moved
<1>5. \A j \in Callers : call'[j].pc \notin {"clear", "begin", "load"} /\ ~call'[j].more
  BY <1>1, <1>2 DEF CallInv, Moved
<1> QED
  BY <1>3, <1>4, <1>5 DEF Moved, CallInv

\* And where one ends.
LEMMA EndedTyped ==
    ASSUME TypeInv, NEW k \in Calls, Ended(k)
    PROVE  CallInv' /\ phase' \in {"boot", "up", "down"}
<1>1. phase' \in {"boot", "up", "down"}
  BY DEF TypeInv, Ended
<1>2. CASE Moved(k, "idle", NoStore, Nothing, {}, FALSE)
  BY <1>1, <1>2, MovedTyped
<1>3. CASE k = Loader /\ Moved(k, "begin", NoStore, Nothing, {}, FALSE)
  BY <1>1, <1>3, MovedTyped
<1> QED
  BY <1>2, <1>3 DEF Ended

-----------------------------------------------------------------------------
(* What the actions do                                                     *)

\* A change of a cooldown, by which the memory stays true: either a call is about to
\* take a snapshot of it, or the history notes that nothing saves it, or no
\* record changes.
Changed ==
    /\ phase = "up" /\ off' \subseteq Creds
    /\ cool' \in Memory /\ truth' \in Memory
    /\ UNCHANGED <<phase, files, saving, store, crossed, trusted>>
    /\ doubt' = (doubt \/ call[Loader].pc = "load")
    /\ Agrees => Agrees'
    /\ \/ /\ UNCHANGED <<newest, exact>>
          /\ \E k \in Callers : /\ call[k].pc = "idle"
                                /\ Moved(k, "snapshot", NoStore, Nothing, {}, FALSE)
       \/ UNCHANGED call /\ newest' = None /\ exact' = FALSE
       \/ /\ UNCHANGED <<call, newest, exact>>
          /\ \A f \in Memory : Shows(f, off, cool) => Shows(f, off', cool')

\* What shows the memory shows it still when the credentials' records are the same.
LEMMA SameRecordsShow ==
    ASSUME TypeInv, cool' \in Memory, NEW c \in Creds, Recorded(c)' = Recorded(c),
           \A d \in Creds \ {c} : cool'[d] = cool[d] /\ (d \in off' <=> d \in off)
    PROVE  \A f \in Memory : Shows(f, off, cool) => Shows(f, off', cool')
<1>1. cool[c] \in Rests /\ cool'[c] \in Rests
  BY DEF TypeInv, Memory
<1>2. /\ Live(Recorded(c)) = IF c \in off THEN 0 ELSE Live(cool[c])
      /\ Live(Recorded(c)') = IF c \in off' THEN 0 ELSE Live(cool'[c])
  BY <1>1 DEF Recorded, Live
<1> QED
  BY <1>2 DEF Shows

\* What a change does to the memory, whoever makes it.
PutDown(saves) ==
    /\ phase = "up" /\ off' \subseteq Creds
    /\ cool' \in Memory /\ truth' \in Memory
    /\ UNCHANGED <<phase, files, saving, store, crossed, trusted>>
    /\ Agrees => Agrees'
    /\ \/ saves /\ UNCHANGED <<newest, exact>>
       \/ ~saves /\ newest' = None /\ exact' = FALSE
       \/ /\ ~saves /\ UNCHANGED <<newest, exact>>
          /\ \A f \in Memory : Shows(f, off, cool) => Shows(f, off', cool')

LEMMA PutDoes ==
    ASSUME TypeInv, NEW c \in Creds, NEW r \in Rests, NEW saves \in BOOLEAN,
           Put(c, r, saves), off' = off \/ off' = off \cup {c}
    PROVE  PutDown(saves)
<1>1. /\ phase = "up"
      /\ cool' = [cool EXCEPT ![c] = r] /\ truth' = [truth EXCEPT ![c] = r]
      /\ UNCHANGED <<phase, files, saving, store, crossed, trusted>>
      /\ IF saves \/ Recorded(c)' = Recorded(c) THEN UNCHANGED <<newest, exact>>
         ELSE newest' = None /\ exact' = FALSE
  BY DEF Put
<1>2. cool \in Memory /\ truth \in Memory /\ off \subseteq Creds
  BY DEF TypeInv
<1>3. cool' \in Memory /\ truth' \in Memory /\ off' \subseteq Creds
  BY <1>1, <1>2 DEF Memory
<1>4. /\ cool'[c] = truth'[c]
      /\ \A d \in Creds \ {c} : cool'[d] = cool[d] /\ truth'[d] = truth[d]
  BY <1>1, <1>2 DEF Memory
<1>5. Agrees => Agrees'
  BY <1>4 DEF Agrees
<1>6. CASE saves
  BY <1>1, <1>3, <1>5, <1>6 DEF PutDown
<1>7. CASE ~saves /\ Recorded(c)' = Recorded(c)
  <2>1. \A f \in Memory : Shows(f, off, cool) => Shows(f, off', cool')
    BY <1>3, <1>4, <1>7, SameRecordsShow
  <2> QED
    BY <1>1, <1>3, <1>5, <1>7, <2>1 DEF PutDown
<1>8. CASE ~saves /\ Recorded(c)' # Recorded(c)
  BY <1>1, <1>3, <1>5, <1>8 DEF PutDown
<1> QED
  BY <1>6, <1>7, <1>8

LEMMA ChangeDoes ==
    ASSUME TypeInv, NEW k \in Callers, NEW c \in Creds, NEW r \in Rests,
           NEW saves \in BOOLEAN, Change(k, c, r, saves),
           off' = off \/ off' = off \cup {c},
           doubt' = (doubt \/ call[Loader].pc = "load")
    PROVE  Changed
<1>1. IsIdle(k) /\ IF saves THEN To(k, "snapshot") ELSE UNCHANGED call
  BY DEF Change
<1>2. PutDown(saves)
  BY PutDoes DEF Change
<1>3. k \in Calls /\ call[k].pc = "idle" /\ call[k] = Idle
  BY <1>1 DEF IsIdle, Idle, Calls
<1>4. CASE saves
  <2>1. Moved(k, "snapshot", call[k].store, call[k].recs, call[k].todo, call[k].more)
    BY <1>1, <1>3, <1>4, ToMoves DEF Pcs
  <2>2. call[k].store = NoStore /\ call[k].recs = Nothing /\ call[k].todo = {}
        /\ call[k].more = FALSE
    BY <1>3 DEF Idle
  <2>3. Moved(k, "snapshot", NoStore, Nothing, {}, FALSE)
    BY <2>1, <2>2
  <2> QED
    BY <1>2, <1>3, <1>4, <2>3 DEF Changed, PutDown
<1>5. CASE ~saves
  BY <1>1, <1>2, <1>5 DEF Changed, PutDown
<1> QED
  BY <1>4, <1>5

\* A registration saves nothing.
LEMMA ReconcileDoes ==
    ASSUME TypeInv, NEW c \in Creds, Reconcile(c),
           doubt' = (doubt \/ call[Loader].pc = "load")
    PROVE  Changed
<1>1. UNCHANGED <<off, call>> /\ Put(c, None, FALSE)
  BY DEF Reconcile
<1>2. PutDown(FALSE)
  BY <1>1, PutDoes DEF Rests
<1> QED
  BY <1>1, <1>2 DEF Changed, PutDown

LEMMA EnableDoes ==
    ASSUME TypeInv, NEW c \in Creds, Enable(c),
           doubt' = (doubt \/ call[Loader].pc = "load")
    PROVE  Changed
<1>1. /\ phase = "up" /\ off' = off \ {c}
      /\ UNCHANGED <<phase, cool, files, saving, store, call, truth, crossed, trusted>>
      /\ IF Live(cool[c]) = 0 THEN UNCHANGED <<newest, exact>>
         ELSE newest' = None /\ exact' = FALSE
  BY DEF Enable
<1>2. cool' \in Memory /\ truth' \in Memory /\ off' \subseteq Creds
  BY <1>1 DEF TypeInv
<1>3. Agrees => Agrees'
  BY <1>1 DEF Agrees
<1>4. CASE Live(cool[c]) = 0
  <2>1. \A f \in Memory : Shows(f, off, cool) => Shows(f, off', cool')
    BY <1>1, <1>4 DEF Shows
  <2> QED
    BY <1>1, <1>2, <1>3, <1>4, <2>1 DEF Changed
<1>5. CASE Live(cool[c]) # 0
  BY <1>1, <1>2, <1>3, <1>5 DEF Changed
<1> QED
  BY <1>4, <1>5

LEMMA ChangesDo ==
    ASSUME TypeInv, Changes
    PROVE  Changed
<1>1. doubt' = (doubt \/ call[Loader].pc = "load")
  BY DEF Changes
<1>2. None \in Rests /\ Waits \subseteq Rests
  BY CooldownStoreAssumption DEF Rests
<1>3. ASSUME NEW k \in Callers, NEW c \in Creds, NEW w \in Waits, Fail(k, c, w)
      PROVE  Changed
  BY <1>1, <1>2, <1>3, ChangeDoes DEF Fail
<1>4. ASSUME NEW k \in Callers, NEW c \in Creds, Recover(k, c)
      PROVE  Changed
  BY <1>1, <1>2, <1>4, ChangeDoes DEF Recover
<1>5. ASSUME NEW k \in Callers, NEW c \in Creds, Disable(k, c)
      PROVE  Changed
  BY <1>1, <1>2, <1>5, ChangeDoes DEF Disable
<1>6. ASSUME NEW c \in Creds, Enable(c)
      PROVE  Changed
  BY <1>1, <1>6, EnableDoes
<1>7. ASSUME NEW c \in Creds, Reconcile(c)
      PROVE  Changed
  BY <1>1, <1>7, ReconcileDoes
<1> QED
  BY <1>3, <1>4, <1>5, <1>6, <1>7 DEF Changes

\* A snapshot: without a store the call ends, and nothing saves what is new.
Snapped(k) ==
    /\ call[k].pc = "snapshot"
    /\ UNCHANGED <<off, cool, files, saving, store, truth, crossed, doubt, trusted>>
    /\ \/ store = NoStore /\ Ended(k) /\ newest' = None /\ exact' = FALSE
       \/ /\ store # NoStore /\ newest' = Records /\ UNCHANGED <<phase, exact>>
          /\ Moved(k, "lock", store, Records, call[k].todo, call[k].more)

LEMMA SnapshotDoes ==
    ASSUME TypeInv, StoreInv, NEW k \in Calls, Snapshot(k)
    PROVE  Snapped(k)
<1>1. CASE store = NoStore
  BY <1>1, EndMoves DEF Snapshot, Snapped
<1>2. CASE store # NoStore
  <2>1. Records \in Memory /\ store \in Stores \cup {NoStore}
    BY RecordsShow DEF TypeInv
  <2>2. call[k] \in CallRecord /\ call[k].todo \subseteq Creds /\ call[k].more \in BOOLEAN
    BY CallTyped
  <2> DEFINE r == [call[k] EXCEPT !.pc = "lock", !.store = store, !.recs = Records]
  <2>3. /\ r.pc = "lock" /\ r.store = store /\ r.recs = Records
        /\ r.todo = call[k].todo /\ r.more = call[k].more
        /\ r \in CallRecord
    BY <2>1, <2>2 DEF CallRecord, Pcs
  <2>4. call' = [call EXCEPT ![k] = r]
    BY <1>2 DEF Snapshot
  <2> HIDE DEF r
  <2>5. call' \in [Calls -> CallRecord] /\ call'[k] = r
        /\ \A j \in Calls : j # k => call'[j] = call[j]
    BY <2>3, <2>4 DEF TypeInv, CallInv
  <2>6. Moved(k, "lock", store, Records, call[k].todo, call[k].more)
    BY <2>3, <2>5 DEF Moved
  <2> QED
    BY <1>2, <2>6 DEF Snapshot, Snapped
<1> QED
  BY <1>1, <1>2

\* The mutex is taken: a save that meets others has crossed them.
Acquired(k) ==
    /\ call[k].pc = "lock" /\ Free(k)
    /\ Moved(k, IF Group(call[k].recs) = {} THEN "list" ELSE "write", call[k].store,
             call[k].recs, Group(call[k].recs), call[k].more)
    /\ \/ /\ \E j \in Calls : InSave(j)
          /\ crossed' = crossed \cup {k} \cup {j \in Calls : InSave(j)}
       \/ (\A j \in Calls : ~InSave(j)) /\ crossed' = crossed \ {k}
    /\ UNCHANGED <<phase, off, cool, files, saving, store, truth, newest, exact,
                   doubt, trusted>>

LEMMA AcquireDoes ==
    ASSUME TypeInv, NEW k \in Calls, Acquire(k)
    PROVE  Acquired(k)
<1>1. Group(call[k].recs) \in SUBSET Creds /\ call[k].recs \in Memory
  BY CallTyped DEF Group
<1>2. (IF Group(call[k].recs) = {} THEN "list" ELSE "write") \in Pcs \ {"idle"}
  BY DEF Pcs
<1>3. Go(k, IF Group(call[k].recs) = {} THEN "list" ELSE "write", call[k].recs,
         Group(call[k].recs))
  BY DEF Acquire
<1>4. Moved(k, IF Group(call[k].recs) = {} THEN "list" ELSE "write", call[k].store,
            call[k].recs, Group(call[k].recs), call[k].more)
  BY <1>1, <1>2, <1>3, GoMoves
<1> QED
  BY <1>4 DEF Acquire, Acquired

\* One file gets its record.
Wrote(k, c) ==
    /\ call[k].pc = "write" /\ c \in call[k].todo
    /\ files' = [files EXCEPT ![c] = call[k].recs[c]]
    /\ Moved(k, IF call[k].todo \ {c} = {} THEN "list" ELSE "write", call[k].store,
             call[k].recs, call[k].todo \ {c}, call[k].more)
    /\ UNCHANGED <<phase, off, cool, saving, store, truth, newest, crossed, exact,
                   doubt, trusted>>

LEMMA WriteDoes ==
    ASSUME TypeInv, NEW k \in Calls, Write(k)
    PROVE  \E c \in Creds : Wrote(k, c)
<1>1. PICK c \in call[k].todo :
        /\ files' = [files EXCEPT ![c] = call[k].recs[c]]
        /\ Go(k, IF call[k].todo \ {c} = {} THEN "list" ELSE "write", call[k].recs,
              call[k].todo \ {c})
  BY DEF Write
<1>2. c \in Creds /\ call[k].todo \ {c} \in SUBSET Creds /\ call[k].recs \in Memory
  BY CallTyped
<1>3. (IF call[k].todo \ {c} = {} THEN "list" ELSE "write") \in Pcs \ {"idle"}
  BY DEF Pcs
<1>4. Moved(k, IF call[k].todo \ {c} = {} THEN "list" ELSE "write", call[k].store,
            call[k].recs, call[k].todo \ {c}, call[k].more)
  BY <1>1, <1>2, <1>3, GoMoves
<1>5. Wrote(k, c)
  BY <1>1, <1>4 DEF Write, Wrote, history
<1> QED
  BY <1>2, <1>5

\* What is still to be removed is rest; the save that has nothing to remove ends.
Left(k, rest) ==
    \/ /\ rest = {} /\ Ended(k)
       /\ exact' = (k \notin crossed /\ call[k].recs = newest)
    \/ /\ rest # {} /\ UNCHANGED <<phase, exact>>
       /\ Moved(k, "remove", call[k].store, call[k].recs, rest, call[k].more)

LEMMA RemovingDoes ==
    ASSUME TypeInv, StoreInv, NEW k \in Calls, NEW rest \in SUBSET Creds,
           Removing(k, rest)
    PROVE  Left(k, rest)
<1>1. CASE rest = {}
  BY <1>1, EndMoves DEF Removing, Left
<1>2. CASE rest # {}
  <2>1. Go(k, "remove", call[k].recs, rest) /\ UNCHANGED <<phase, exact>>
    BY <1>2 DEF Removing
  <2>2. Moved(k, "remove", call[k].store, call[k].recs, rest, call[k].more)
    BY <2>1, CallTyped, GoMoves DEF Pcs
  <2> QED
    BY <1>2, <2>1, <2>2 DEF Left
<1> QED
  BY <1>1, <1>2

\* The walk over the files.
Listed(k) ==
    /\ call[k].pc = "list" /\ Left(k, Stale(call[k].recs))
    /\ UNCHANGED <<off, cool, files, saving, store, truth, newest, crossed, doubt,
                   trusted>>

LEMMA ListDoes ==
    ASSUME TypeInv, StoreInv, NEW k \in Calls, List(k)
    PROVE  Listed(k)
  BY RemovingDoes DEF List, Listed, Stale

\* One file is removed.
Removed(k, c) ==
    /\ call[k].pc = "remove" /\ c \in call[k].todo
    /\ files' = [files EXCEPT ![c] = None]
    /\ Left(k, call[k].todo \ {c})
    /\ UNCHANGED <<off, cool, saving, store, truth, newest, crossed, doubt, trusted>>

LEMMA RemoveDoes ==
    ASSUME TypeInv, StoreInv, NEW k \in Calls, Remove(k)
    PROVE  \E c \in Creds : Removed(k, c)
<1>1. PICK c \in call[k].todo :
        files' = [files EXCEPT ![c] = None] /\ Removing(k, call[k].todo \ {c})
  BY DEF Remove
<1>2. c \in Creds /\ call[k].todo \ {c} \in SUBSET Creds
  BY CallTyped
<1>3. Removed(k, c)
  BY <1>1, <1>2, RemovingDoes DEF Remove, Removed
<1> QED
  BY <1>2, <1>3

\* A save that fails.
Failed(k) ==
    /\ call[k].pc \in {"write", "remove"} /\ Ended(k) /\ exact' = FALSE
    /\ UNCHANGED <<off, cool, files, saving, store, truth, newest, crossed, doubt,
                   trusted>>

LEMMA SaveFailsDoes ==
    ASSUME TypeInv, StoreInv, NEW k \in Calls, SaveFails(k)
    PROVE  Failed(k)
  BY EndMoves DEF SaveFails, Failed

\* What belongs to disabled credentials is cleared.
Cleared ==
    /\ call[Loader].pc = "clear"
    /\ cool' \in Memory /\ truth' \in Memory
    /\ \A c \in Creds : /\ Live(cool'[c]) = IF c \in off THEN 0 ELSE Live(cool[c])
                        /\ Live(truth'[c]) = IF c \in off THEN 0 ELSE Live(truth[c])
    /\ \/ Moved(Loader, "snapshot", call[Loader].store, call[Loader].recs,
                call[Loader].todo, saving)
       \/ saving /\ Moved(Loader, "begin", call[Loader].store, call[Loader].recs,
                          call[Loader].todo, call[Loader].more)
       \/ Moved(Loader, "idle", NoStore, Nothing, {}, FALSE)
    /\ UNCHANGED <<phase, off, files, saving, store, newest, crossed, exact,
                   doubt, trusted>>

LEMMA WithoutIs ==
    ASSUME NEW f \in Memory
    PROVE  /\ Without(f) \in Memory
           /\ \A c \in Creds : Live(Without(f)[c]) = IF c \in off THEN 0 ELSE Live(f[c])
  BY DEF Without, Memory, Rests, Live

LEMMA ClearDoes ==
    ASSUME TypeInv, Clear
    PROVE  Cleared
<1>1. Loader \in Calls /\ call[Loader].more \in BOOLEAN /\ saving \in BOOLEAN
  BY CallTyped DEF Calls, TypeInv
<1>2. /\ cool' \in Memory /\ truth' \in Memory
      /\ \A c \in Creds : /\ Live(cool'[c]) = IF c \in off THEN 0 ELSE Live(cool[c])
                          /\ Live(truth'[c]) = IF c \in off THEN 0 ELSE Live(truth[c])
  <2>1. cool \in Memory /\ truth \in Memory /\ cool' = Without(cool)
        /\ truth' = Without(truth)
    BY DEF TypeInv, Clear
  <2> QED
    BY <2>1, WithoutIs
<1>3. CASE cool' # cool
  <2>1. call[Loader] \in CallRecord
    BY <1>1, CallTyped
  <2> DEFINE r == [call[Loader] EXCEPT !.pc = "snapshot", !.more = saving]
  <2>2. /\ r.pc = "snapshot" /\ r.store = call[Loader].store
        /\ r.recs = call[Loader].recs /\ r.todo = call[Loader].todo /\ r.more = saving
        /\ r \in CallRecord
    BY <1>1, <2>1 DEF CallRecord, Pcs
  <2>3. call' = [call EXCEPT ![Loader].pc = "snapshot", ![Loader].more = saving]
    BY <1>3 DEF Clear
  <2>4. call' = [call EXCEPT ![Loader] = r]
    BY <1>1, <2>3 DEF TypeInv, CallInv
  <2> HIDE DEF r
  <2>5. call' \in [Calls -> CallRecord] /\ call'[Loader] = r
        /\ \A j \in Calls : j # Loader => call'[j] = call[j]
    BY <1>1, <2>2, <2>4 DEF TypeInv, CallInv
  <2>6. Moved(Loader, "snapshot", call[Loader].store, call[Loader].recs,
              call[Loader].todo, saving)
    BY <2>2, <2>5 DEF Moved
  <2> QED
    BY <1>2, <2>6 DEF Clear, Cleared
<1>4. CASE cool' = cool /\ saving
  <2>1. Moved(Loader, "begin", call[Loader].store, call[Loader].recs,
              call[Loader].todo, call[Loader].more)
    BY <1>1, <1>4, ToMoves DEF Clear, Pcs
  <2> QED
    BY <1>2, <1>4, <2>1 DEF Clear, Cleared
<1>5. CASE cool' = cool /\ ~saving
  BY <1>1, <1>2, <1>5, ReturnMoves DEF Clear, Cleared
<1> QED
  BY <1>3, <1>4, <1>5

\* The files there are when the walk of a restore begins.
Begun ==
    /\ call[Loader].pc = "begin"
    /\ Moved(Loader, "load", call[Loader].store, Nothing,
             {c \in Creds : files[c] # None}, call[Loader].more)
    /\ doubt' = (phase = "up" /\ ~(exact /\ CallersIdle))
    /\ UNCHANGED <<phase, off, cool, files, saving, store, truth, newest, crossed,
                   exact, trusted>>

LEMMA BeginLoadDoes ==
    ASSUME TypeInv, BeginLoad
    PROVE  Begun
<1>1. {c \in Creds : files[c] # None} \in SUBSET Creds /\ Loader \in Calls
  BY DEF Calls
<1>2. Moved(Loader, "load", call[Loader].store, Nothing,
            {c \in Creds : files[c] # None}, call[Loader].more)
  BY <1>1, NothingTyped, GoMoves DEF BeginLoad, Pcs
<1> QED
  BY <1>2 DEF BeginLoad, Begun, CallersIdle

\* One file is read.
HasRead(c) ==
    /\ call[Loader].pc = "load" /\ c \in call[Loader].todo
    /\ \E recs \in Memory :
         /\ Moved(Loader, "load", call[Loader].store, recs, call[Loader].todo \ {c},
                  call[Loader].more)
         /\ recs[c] = files[c]
         /\ \A d \in Creds \ {c} : recs[d] = call[Loader].recs[d]
    /\ UNCHANGED <<phase, off, cool, files, saving, store, truth, newest, crossed,
                   exact, doubt, trusted>>

LEMMA ReadDoes ==
    ASSUME TypeInv, Read
    PROVE  \E c \in Creds : HasRead(c)
<1>1. PICK c \in call[Loader].todo :
        Go(Loader, "load", [call[Loader].recs EXCEPT ![c] = files[c]],
           call[Loader].todo \ {c})
  BY DEF Read
<1>2. Loader \in Calls /\ call[Loader].todo \subseteq Creds /\ call[Loader].recs \in Memory
  BY CallTyped DEF Calls
<1> DEFINE recs == [call[Loader].recs EXCEPT ![c] = files[c]]
<1>3. c \in Creds /\ files[c] \in Rests
  BY <1>2 DEF TypeInv, Memory
<1>4. recs \in Memory /\ recs[c] = files[c]
      /\ \A d \in Creds \ {c} : recs[d] = call[Loader].recs[d]
  BY <1>2, <1>3 DEF Memory
<1> HIDE DEF recs
<1>5. Moved(Loader, "load", call[Loader].store, recs, call[Loader].todo \ {c},
            call[Loader].more)
  <2>1. Go(Loader, "load", recs, call[Loader].todo \ {c})
    BY <1>1 DEF recs
  <2> QED
    BY <1>2, <1>4, <2>1, GoMoves DEF Pcs
<1>6. HasRead(c)
  BY <1>4, <1>5 DEF Read, HasRead, history
<1> QED
  BY <1>3, <1>6

\* A file that cannot be read ends the restore.
ReadFailed ==
    /\ call[Loader].pc = "load" /\ Ended(Loader)
    /\ trusted' = (trusted /\ phase = "up") /\ exact' = (exact /\ phase = "up")
    /\ UNCHANGED <<off, cool, files, saving, store, truth, newest, crossed, doubt>>

LEMMA ReadFailsDoes ==
    ASSUME TypeInv, StoreInv, ReadFails
    PROVE  ReadFailed
  BY EndMoves DEF ReadFails, ReadFailed, Calls

\* What was read becomes memory where time is left.
Applied ==
    /\ call[Loader].pc = "load" /\ call[Loader].todo = {}
    /\ cool' \in Memory
    /\ \A c \in Creds :
         Live(cool'[c]) = IF Live(call[Loader].recs[c]) = 0 \/ c \in off
                          THEN Live(cool[c]) ELSE Live(call[Loader].recs[c])
    /\ \/ /\ \A c \in Creds : call[Loader].recs[c] = None
          /\ cool' = cool /\ Ended(Loader)
       \/ /\ UNCHANGED phase
          /\ Moved(Loader, "snapshot", call[Loader].store, Nothing, {}, call[Loader].more)
    /\ trusted' = ((trusted /\ ~doubt) \/ Agrees')
    /\ UNCHANGED <<off, files, saving, store, truth, newest, crossed, exact, doubt>>

LEMMA ApplyDoes ==
    ASSUME TypeInv, StoreInv, Apply
    PROVE  Applied
<1>1. Loader \in Calls /\ call[Loader].recs \in Memory /\ cool \in Memory
  BY CallTyped DEF Calls, TypeInv
<1>2. cool' = [c \in Creds |-> Restored(c, call[Loader].recs[c])]
  BY DEF Apply
<1>3. ASSUME NEW c \in Creds
      PROVE  /\ cool'[c] \in Rests
             /\ Live(cool'[c]) = IF Live(call[Loader].recs[c]) = 0 \/ c \in off
                                 THEN Live(cool[c]) ELSE Live(call[Loader].recs[c])
             /\ call[Loader].recs[c] = None => cool'[c] = cool[c]
  <2>1. cool'[c] = Restored(c, call[Loader].recs[c])
    BY <1>2
  <2>2. call[Loader].recs[c] \in Rests /\ cool[c] \in Rests
    BY <1>1 DEF Memory
  <2> QED
    BY <2>1, <2>2 DEF Restored, Live
<1>4. cool' \in Memory
  BY <1>2, <1>3 DEF Memory
<1>5. CASE Group(call[Loader].recs) = {}
  <2>1. \A c \in Creds : call[Loader].recs[c] = None
    BY <1>5 DEF Group
  <2>2. cool' = cool
    BY <1>1, <1>3, <1>4, <2>1 DEF Memory
  <2>3. Ended(Loader)
    BY <1>1, <1>5, EndMoves DEF Apply
  <2> QED
    BY <1>3, <1>4, <2>1, <2>2, <2>3 DEF Apply, Applied
<1>6. CASE Group(call[Loader].recs) # {}
  <2>1. Go(Loader, "snapshot", Nothing, {}) /\ UNCHANGED phase
    BY <1>6 DEF Apply
  <2>2. Moved(Loader, "snapshot", call[Loader].store, Nothing, {}, call[Loader].more)
    BY <1>1, <2>1, NothingTyped, GoMoves DEF Pcs
  <2> QED
    BY <1>3, <1>4, <2>1, <2>2 DEF Apply, Applied
<1> QED
  BY <1>5, <1>6

\* A reload brings a store or takes it.
Reloaded ==
    /\ phase = "up" /\ call[Loader].pc = "idle"
    /\ saving' \in BOOLEAN /\ store' \in Stores \cup {NoStore}
    /\ saving' <=> store' # NoStore
    /\ Moved(Loader, "clear", NoStore, Nothing, {}, FALSE)
    /\ UNCHANGED <<phase, off, cool, files, truth, newest, crossed, exact, doubt,
                   trusted>>

LEMMA ReloadDoes ==
    ASSUME TypeInv, NEW b \in BOOLEAN, Reload(b)
    PROVE  Reloaded
<1>1. call[Loader] = Idle /\ Loader \in Calls /\ call[Loader].pc = "idle"
  BY DEF Reload, IsIdle, Calls, Idle
<1>2. Moved(Loader, "clear", call[Loader].store, call[Loader].recs, call[Loader].todo,
            call[Loader].more)
  BY <1>1, ToMoves DEF Reload, Pcs
<1>3. call[Loader].store = NoStore /\ call[Loader].recs = Nothing
      /\ call[Loader].todo = {} /\ call[Loader].more = FALSE
  BY <1>1 DEF Idle
<1>4. Moved(Loader, "clear", NoStore, Nothing, {}, FALSE)
  BY <1>2, <1>3
<1>5. /\ saving' \in BOOLEAN /\ store' \in Stores \cup {NoStore}
      /\ saving' <=> store' # NoStore
  <2>1. Unused # {} /\ Unused \subseteq Stores
    BY DEF Reload, Unused
  <2>2. (CHOOSE s \in Unused : TRUE) \in Stores
    BY <2>1
  <2> QED
    BY <2>2, CooldownStoreAssumption DEF Reload
<1>6. /\ phase = "up"
      /\ UNCHANGED <<phase, off, cool, files, truth, newest, crossed, exact, doubt,
                     trusted>>
  BY DEF Reload, history
<1> QED
  BY <1>1, <1>4, <1>5, <1>6 DEF Reloaded

\* A start restores if it is to.
Started ==
    /\ phase = "down"
    /\ \/ /\ saving /\ phase' = "boot" /\ store' \in Stores /\ exact' = exact
          /\ Moved(Loader, "begin", call[Loader].store, call[Loader].recs,
                   call[Loader].todo, call[Loader].more)
       \/ /\ ~saving /\ phase' = "up" /\ store' = NoStore /\ exact' = FALSE
          /\ UNCHANGED call
    /\ UNCHANGED <<off, cool, files, saving, truth, newest, crossed, doubt, trusted>>

LEMMA StartDoes ==
    ASSUME TypeInv, Start
    PROVE  Started
<1>1. (CHOOSE s \in Stores : TRUE) \in Stores /\ Loader \in Calls
  BY CooldownStoreAssumption DEF Calls
<1>2. CASE saving
  <2>1. Moved(Loader, "begin", call[Loader].store, call[Loader].recs,
              call[Loader].todo, call[Loader].more)
    BY <1>1, <1>2, ToMoves DEF Start, Pcs
  <2>2. exact' = exact
    BY <1>2 DEF Start, TypeInv
  <2> QED
    BY <1>1, <1>2, <2>1, <2>2 DEF Start, Started
<1>3. CASE ~saving
  BY <1>3 DEF Start, Started
<1> QED
  BY <1>2, <1>3

\* A tick: every call stays where it is, with records one tick older.
Ticked ==
    /\ cool' = Age(cool) /\ files' = Age(files) /\ truth' = Age(truth)
    /\ newest' = IF newest = None THEN None ELSE Age(newest)
    /\ call' \in [Calls -> CallRecord]
    /\ \A k \in Calls :
         /\ call'[k].pc = call[k].pc /\ call'[k].store = call[k].store
         /\ call'[k].recs = Age(call[k].recs)
         /\ call'[k].todo = call[k].todo /\ call'[k].more = call[k].more
         /\ call[k] = Idle => call'[k] = Idle
    /\ UNCHANGED <<phase, off, saving, store, crossed, exact, doubt, trusted>>

LEMMA TickDoes ==
    ASSUME TypeInv, Tick
    PROVE  Ticked
<1> DEFINE r(k) == [call[k] EXCEPT !.recs = Age(@)]
<1>1. ASSUME NEW k \in Calls
      PROVE  /\ r(k).pc = call[k].pc /\ r(k).store = call[k].store
             /\ r(k).recs = Age(call[k].recs)
             /\ r(k).todo = call[k].todo /\ r(k).more = call[k].more
             /\ r(k) \in CallRecord
             /\ call[k] = Idle => r(k) = Idle
  <2>1. call[k] \in CallRecord /\ call[k].recs \in Memory
    BY CallTyped
  <2>2. Age(call[k].recs) \in Memory
    BY <2>1, AgeIs
  <2>3. /\ r(k).pc = call[k].pc /\ r(k).store = call[k].store
        /\ r(k).recs = Age(call[k].recs)
        /\ r(k).todo = call[k].todo /\ r(k).more = call[k].more
        /\ r(k) \in CallRecord
    BY <2>1, <2>2 DEF CallRecord
  <2>4. ASSUME call[k] = Idle
        PROVE  r(k) = Idle
    <3>1. Age(Idle.recs) = Idle.recs
      BY NothingAges DEF Idle
    <3>2. r(k) = [Idle EXCEPT !.recs = Idle.recs]
      BY <2>4, <3>1
    <3> QED
      BY <3>2 DEF Idle
  <2> QED
    BY <2>3, <2>4
<1>2. call' = [k \in Calls |-> r(k)]
  BY DEF Tick
<1> HIDE DEF r
<1>3. call' \in [Calls -> CallRecord] /\ \A k \in Calls : call'[k] = r(k)
  BY <1>1, <1>2
<1> QED
  BY <1>1, <1>3 DEF Tick, Ticked

\* What is saved, and no more, survives a crash.
Crashed ==
    /\ phase # "down" /\ phase' = "down"
    /\ cool' = Nothing /\ store' = NoStore /\ crossed' = {} /\ doubt' = FALSE
    /\ call' \in [Calls -> CallRecord]
    /\ \A k \in Calls : call'[k] = Idle /\ call'[k].pc = "idle" /\ ~call'[k].more
    /\ trusted' = (trusted /\ (phase = "up" =>
           store # NoStore /\ exact /\ AllIdle /\ \A c \in off : Live(cool[c]) = 0))
    /\ UNCHANGED <<off, files, saving, truth, newest, exact>>

LEMMA CrashDoes ==
    ASSUME TypeInv, Crash
    PROVE  Crashed
<1>1. Idle \in CallRecord /\ Idle.pc = "idle" /\ ~Idle.more
  BY IdleIs DEF Idle
<1>2. call' = [k \in Calls |-> Idle]
  BY DEF Crash
<1>3. /\ call' \in [Calls -> CallRecord]
      /\ \A k \in Calls : call'[k] = Idle /\ call'[k].pc = "idle" /\ ~call'[k].more
  BY <1>1, <1>2
<1> QED
  BY <1>3 DEF Crash, Crashed

\* One step of a call's save, and one of the Loader's restore.
SaveStep(k) ==
    \/ Snapped(k) \/ Acquired(k) \/ Listed(k) \/ Failed(k)
    \/ \E c \in Creds : Wrote(k, c) \/ Removed(k, c)

RestoreStep == Cleared \/ Begun \/ (\E c \in Creds : HasRead(c)) \/ ReadFailed \/ Applied

Stepped ==
    \/ Changed
    \/ \E k \in Calls : SaveStep(k)
    \/ RestoreStep
    \/ Reloaded \/ Crashed \/ Started \/ Ticked
    \/ UNCHANGED vars

LEMMA StepDoes ==
    ASSUME TypeInv, StoreInv, [Next]_vars
    PROVE  Stepped
<1>1. ASSUME NEW k \in Calls, Save(k)
      PROVE  SaveStep(k)
  BY <1>1, SnapshotDoes, AcquireDoes, WriteDoes, ListDoes, RemoveDoes, SaveFailsDoes
     DEF Save, SaveStep
<1>2. ASSUME Restore
      PROVE  RestoreStep
  BY <1>2, ClearDoes, BeginLoadDoes, ReadDoes, ReadFailsDoes, ApplyDoes
     DEF Restore, RestoreStep
<1> QED
  BY <1>1, <1>2, ChangesDo, ReloadDoes, CrashDoes, StartDoes, TickDoes DEF Next, Stepped

-----------------------------------------------------------------------------
(* Types                                                                   *)

\* A record or a memory that ages keeps its type.
LEMMA TypesKept ==
    ASSUME TypeInv, Stepped
    PROVE  TypeInv'
<1> Loader \in Calls /\ Loader \notin Callers
  BY CooldownStoreAssumption DEF Calls
<1>1. CASE Changed
  <2>1. CASE \E k \in Callers : Moved(k, "snapshot", NoStore, Nothing, {}, FALSE)
    BY <1>1, <2>1, MovedTyped DEF Changed, TypeInv, Calls
  <2>2. CASE UNCHANGED call
    <3>1. CallInv'
      BY <2>2 DEF TypeInv, CallInv, Idle, Nothing
    <3> QED
      BY <1>1, <3>1 DEF Changed, TypeInv
  <2> QED
    BY <1>1, <2>1, <2>2 DEF Changed
<1>2. ASSUME NEW k \in Calls, SaveStep(k)
      PROVE  TypeInv'
  <2>1. k = Loader \/ ~call[k].more
    BY CallTyped DEF TypeInv, CallInv
  <2>2. CASE Snapped(k)
    <3>1. Records \in Memory
      BY RecordsShow
    <3>2. CallInv' /\ phase' \in {"boot", "up", "down"}
      BY <2>1, <2>2, MovedTyped, EndedTyped DEF Snapped, TypeInv
    <3> QED
      BY <2>2, <3>1, <3>2 DEF Snapped, TypeInv
  <2>3. CASE Acquired(k)
    <3>1. CallInv'
      BY <2>1, <2>3, MovedTyped DEF Acquired
    <3> QED
      BY <2>3, <3>1 DEF Acquired, TypeInv
  <2>4. ASSUME NEW c \in Creds, Wrote(k, c)
        PROVE  TypeInv'
    <3>1. CallInv'
      BY <2>1, <2>4, MovedTyped DEF Wrote
    <3>2. call[k].recs \in Memory
      BY CallTyped
    <3>3. files' \in Memory
      BY <2>4, <3>2 DEF Wrote, TypeInv, Memory
    <3> QED
      BY <2>4, <3>1, <3>3 DEF Wrote, TypeInv
  <2>5. ASSUME NEW rest, Left(k, rest)
        PROVE  CallInv' /\ phase' \in {"boot", "up", "down"} /\ exact' \in BOOLEAN
    <3>1. CASE rest = {} /\ Ended(k) /\ exact' = (k \notin crossed /\ call[k].recs = newest)
      <4>1. exact' \in BOOLEAN
        BY <3>1
      <4> QED
        BY <3>1, <4>1, EndedTyped
    <3>2. CASE /\ UNCHANGED <<phase, exact>>
               /\ Moved(k, "remove", call[k].store, call[k].recs, rest, call[k].more)
      BY <2>1, <3>2, MovedTyped DEF TypeInv
    <3> QED
      BY <2>5, <3>1, <3>2 DEF Left
  <2>6. CASE Listed(k)
    <3>1. CallInv' /\ phase' \in {"boot", "up", "down"} /\ exact' \in BOOLEAN
      BY <2>5, <2>6 DEF Listed
    <3> QED
      BY <2>6, <3>1 DEF Listed, TypeInv
  <2>7. ASSUME NEW c \in Creds, Removed(k, c)
        PROVE  TypeInv'
    <3>1. CallInv' /\ phase' \in {"boot", "up", "down"} /\ exact' \in BOOLEAN
      BY <2>5, <2>7 DEF Removed
    <3>2. files' \in Memory
      BY <2>7 DEF Removed, TypeInv, Memory, Rests
    <3> QED
      BY <2>7, <3>1, <3>2 DEF Removed, TypeInv
  <2>8. CASE Failed(k)
    <3>1. CallInv' /\ phase' \in {"boot", "up", "down"}
      BY <2>8, EndedTyped DEF Failed
    <3> QED
      BY <2>8, <3>1 DEF Failed, TypeInv
  <2> QED
    BY <1>2, <2>2, <2>3, <2>4, <2>6, <2>7, <2>8 DEF SaveStep
<1>3. CASE RestoreStep
  <2>1. CASE Cleared
    <3>1. CallInv'
      BY <2>1, MovedTyped DEF Cleared
    <3> QED
      BY <2>1, <3>1 DEF Cleared, TypeInv
  <2>2. CASE Begun
    <3>1. CallInv'
      BY <2>2, MovedTyped DEF Begun
    <3> QED
      BY <2>2, <3>1 DEF Begun, TypeInv
  <2>3. ASSUME NEW c \in Creds, HasRead(c)
        PROVE  TypeInv'
    <3>1. CallInv'
      BY <2>3, MovedTyped DEF HasRead
    <3> QED
      BY <2>3, <3>1 DEF HasRead, TypeInv
  <2>4. CASE ReadFailed
    <3>1. CallInv' /\ phase' \in {"boot", "up", "down"}
      BY <2>4, EndedTyped DEF ReadFailed
    <3> QED
      BY <2>4, <3>1 DEF ReadFailed, TypeInv
  <2>5. CASE Applied
    <3>1. CallInv' /\ phase' \in {"boot", "up", "down"}
      BY <2>5, MovedTyped, EndedTyped DEF Applied, TypeInv
    <3>2. trusted' \in BOOLEAN
      BY <2>5 DEF Applied, Agrees
    <3> QED
      BY <2>5, <3>1, <3>2 DEF Applied, TypeInv
  <2> QED
    BY <1>3, <2>1, <2>2, <2>3, <2>4, <2>5 DEF RestoreStep
<1>4. CASE Reloaded
  <2>1. CallInv'
    BY <1>4, MovedTyped DEF Reloaded
  <2> QED
    BY <1>4, <2>1 DEF Reloaded, TypeInv
<1>5. CASE Crashed
  <2>1. CallInv'
    <3>1. Idle' = Idle /\ \A k \in Callers : k \in Calls
      BY DEF Idle, Nothing, Calls
    <3> QED
      BY <1>5, <3>1 DEF Crashed, CallInv
  <2>2. trusted' \in BOOLEAN
    BY <1>5 DEF Crashed
  <2> QED
    BY <1>5, <2>1, <2>2, NothingTyped DEF Crashed, TypeInv
<1>6. CASE Started
  <2>1. CallInv'
    <3>1. CASE UNCHANGED call
      BY <3>1 DEF TypeInv, CallInv, Idle, Nothing
    <3> QED
      BY <1>6, <3>1, MovedTyped DEF Started
  <2> QED
    BY <1>6, <2>1 DEF Started, TypeInv
<1>7. CASE Ticked
  <2>1. CallInv'
    <3>1. Idle' = Idle /\ \A k \in Callers : k \in Calls
      BY DEF Idle, Nothing, Calls
    <3> QED
      BY <1>7, <3>1 DEF Ticked, TypeInv, CallInv
  <2>2. cool' \in Memory /\ files' \in Memory /\ truth' \in Memory
        /\ newest' \in Memory \cup {None}
    BY <1>7, AgeIs DEF Ticked, TypeInv
  <2> QED
    BY <1>7, <2>1, <2>2 DEF Ticked, TypeInv
<1>8. CASE UNCHANGED vars
  BY <1>8 DEF vars, TypeInv, CallInv, Idle, Nothing
<1> QED
  BY <1>1, <1>2, <1>3, <1>4, <1>5, <1>6, <1>7, <1>8 DEF Stepped

-----------------------------------------------------------------------------
(* Calls, phases and stores                                                *)

\* A call that ends has no save and no records, and ends a start.
Over(k) ==
    /\ call'[k].pc \in {"idle", "begin"} /\ call'[k].recs = Nothing
    /\ call'[k].todo = {} /\ ~call'[k].more
    /\ call'[k].pc = "begin" => k = Loader /\ phase = "up"
    /\ \A j \in Calls : j # k => call'[j] = call[j]
    /\ phase' = IF phase = "boot" THEN "up" ELSE phase

LEMMA EndedOver ==
    ASSUME NEW k \in Calls, Ended(k)
    PROVE  Over(k)
  BY DEF Ended, Moved, Over

\* Only a call that acquires the mutex of a store enters its Save.
Stays ==
    \A j \in Calls : InSave(j)' => InSave(j) /\ call'[j].store = call[j].store

LEMMA OthersStay ==
    ASSUME TypeInv, Stepped
    PROVE  Stays \/ \E k \in Calls : Acquired(k)
<1> Loader \in Calls /\ \A k \in Callers : k \in Calls
  BY DEF Calls
<1>1. CASE Changed
  BY <1>1 DEF Changed, Moved, Stays, InSave
<1>2. ASSUME NEW k \in Calls, SaveStep(k)
      PROVE  Stays \/ Acquired(k)
  <2>1. ASSUME Ended(k)
        PROVE  Stays
    BY <2>1, EndedOver DEF Over, Stays, InSave
  <2>2. CASE Snapped(k)
    BY <2>1, <2>2 DEF Snapped, Moved, Stays, InSave
  <2>3. ASSUME NEW c \in Creds, Wrote(k, c)
        PROVE  Stays
    BY <2>3 DEF Wrote, Moved, Stays, InSave
  <2>4. CASE Listed(k)
    BY <2>1, <2>4 DEF Listed, Left, Moved, Stays, InSave
  <2>5. ASSUME NEW c \in Creds, Removed(k, c)
        PROVE  Stays
    BY <2>1, <2>5 DEF Removed, Left, Moved, Stays, InSave
  <2>6. CASE Failed(k)
    BY <2>1, <2>6 DEF Failed
  <2> QED
    BY <1>2, <2>2, <2>3, <2>4, <2>5, <2>6 DEF SaveStep
<1>3. CASE RestoreStep
  <2>1. ASSUME Ended(Loader)
        PROVE  Stays
    BY <2>1, EndedOver DEF Over, Stays, InSave
  <2>2. ASSUME NEW pc, NEW st, NEW recs, NEW todo, NEW more,
               Moved(Loader, pc, st, recs, todo, more),
               pc \notin {"write", "list", "remove"}
        PROVE  Stays
    BY <2>2 DEF Moved, Stays, InSave
  <2> QED
    <3>1. CASE Cleared
      BY <3>1 DEF Cleared, Moved, Stays, InSave
    <3>2. CASE Begun
      BY <2>2, <3>2 DEF Begun
    <3>3. ASSUME NEW c \in Creds, HasRead(c)
          PROVE  Stays
      BY <2>2, <3>3 DEF HasRead
    <3>4. CASE ReadFailed
      BY <2>1, <3>4 DEF ReadFailed
    <3>5. CASE Applied
      BY <2>1, <2>2, <3>5 DEF Applied
    <3> QED
      BY <1>3, <3>1, <3>2, <3>3, <3>4, <3>5 DEF RestoreStep
<1>4. CASE Reloaded
  BY <1>4 DEF Reloaded, Moved, Stays, InSave
<1>5. CASE Crashed
  BY <1>5 DEF Crashed, Stays, InSave
<1>6. CASE Started
  BY <1>6 DEF Started, Moved, Stays, InSave
<1>7. CASE Ticked
  BY <1>7 DEF Ticked, Stays, InSave
<1>8. CASE UNCHANGED vars
  BY <1>8 DEF vars, Stays, InSave
<1> QED
  BY <1>1, <1>2, <1>3, <1>4, <1>5, <1>6, <1>7, <1>8 DEF Stepped

\* A store's mutex has one holder.
LEMMA MutexKept ==
    ASSUME TypeInv, MutexInv, Stepped
    PROVE  MutexInv'
<1>1. CASE Stays
  BY <1>1 DEF MutexInv, Stays
<1>2. ASSUME NEW k \in Calls, Acquired(k)
      PROVE  MutexInv'
  <2>1. \A j \in Calls : InSave(j) => call[j].store # call[k].store
    BY <1>2 DEF Acquired, Free
  <2>2. call'[k].store = call[k].store /\ \A j \in Calls : j # k => call'[j] = call[j]
    BY <1>2 DEF Acquired, Moved
  <2> QED
    BY <2>1, <2>2 DEF MutexInv, InSave
<1> QED
  BY <1>1, <1>2, OthersStay

\* Whatever does something is in a process that runs, and a process that starts has
\* no memory.
LEMMA DownKept ==
    ASSUME TypeInv, DownInv, Stepped
    PROVE  DownInv'
<1> Loader \in Calls /\ \A k \in Callers : k \in Calls
  BY DEF Calls
<1> SUFFICES ASSUME phase' = "down"
             PROVE  AllIdle' /\ cool' = Nothing
  BY DEF DownInv, Nothing
<1>1. CASE Crashed
  BY <1>1 DEF Crashed, AllIdle, IsIdle, Idle, Nothing
<1>2. CASE phase = "down"
  <2>1. (\A k \in Calls : call[k] = Idle /\ call[k].pc = "idle") /\ cool = Nothing
    <3>1. Idle.pc = "idle"
      BY DEF Idle
    <3> QED
      BY <1>2, <3>1 DEF DownInv, AllIdle, IsIdle
  <2>2. CASE UNCHANGED vars
    BY <2>1, <2>2 DEF vars, AllIdle, IsIdle, Idle, Nothing
  <2>3. CASE Ticked
    <3>1. cool' = Nothing
      BY <2>1, <2>3, NothingAges DEF Ticked
    <3> QED
      BY <2>1, <2>3, <3>1 DEF Ticked, AllIdle, IsIdle, Idle, Nothing
  <2>4. ~Changed /\ ~Reloaded /\ ~Started
    BY <1>2 DEF Changed, Reloaded, Started
  <2>5. ~RestoreStep
    BY <2>1 DEF RestoreStep, Cleared, Begun, HasRead, ReadFailed, Applied
  <2>6. \A k \in Calls : ~SaveStep(k)
    BY <2>1 DEF SaveStep, Snapped, Acquired, Listed, Failed, Wrote, Removed
  <2> QED
    BY <1>1, <2>2, <2>3, <2>4, <2>5, <2>6 DEF Stepped
<1>3. CASE phase # "down" /\ ~Crashed
  <2>1. ASSUME NEW k \in Calls, Ended(k)
        PROVE  FALSE
    BY <1>3, <2>1 DEF Ended
  <2>2. ~Changed /\ ~Reloaded /\ ~Started /\ ~Ticked /\ ~UNCHANGED vars
    BY <1>3 DEF Changed, Reloaded, Started, Ticked, vars
  <2>3. ~RestoreStep
    BY <1>3, <2>1 DEF RestoreStep, Cleared, Begun, HasRead, ReadFailed, Applied
  <2>4. \A k \in Calls : ~SaveStep(k)
    BY <1>3, <2>1 DEF SaveStep, Snapped, Acquired, Listed, Failed, Wrote, Removed, Left
  <2> QED
    BY <1>3, <2>2, <2>3, <2>4 DEF Stepped
<1> QED
  BY <1>1, <1>2, <1>3

\* A call that goes on is in a process that runs, and outside the start a Loader
\* that clears.
LEMMA CallsRun ==
    ASSUME TypeInv, DownInv, BootInv
    PROVE  /\ \A k \in Calls : call[k].pc # "idle" => phase # "down"
           /\ call[Loader].pc = "clear" => phase = "up"
           /\ phase = "boot" => \A k \in Calls : call[k].pc # "idle" => k = Loader
<1>1. Idle.pc = "idle"
  BY DEF Idle
<1>2. \A k \in Calls : call[k].pc # "idle" => phase # "down"
  BY <1>1 DEF DownInv, AllIdle, IsIdle
<1>3. phase = "boot" => \A k \in Calls : call[k].pc # "idle" => k = Loader
  BY <1>1 DEF BootInv, CallersIdle, IsIdle, Calls
<1>4. call[Loader].pc = "clear" => phase = "up"
  BY <1>2 DEF BootInv, Busy, Active, TypeInv, Calls
<1> QED
  BY <1>2, <1>3, <1>4

\* The Manager's store follows the configuration.
LEMMA StoreKept ==
    ASSUME TypeInv, DownInv, BootInv, StoreInv, Stepped
    PROVE  StoreInv'
<1> Loader \in Calls /\ \A k \in Callers : k \in Calls
  BY DEF Calls
<1> USE CallsRun
<1>1. CASE Changed
  BY <1>1 DEF Changed, StoreInv, Moved, Busy, Active
<1>2. ASSUME NEW k \in Calls, Over(k), call[k].pc # "idle", UNCHANGED <<saving, store>>
      PROVE  StoreInv'
  BY <1>2 DEF Over, StoreInv, Busy, Active, TypeInv
<1>3. ASSUME NEW k \in Calls, NEW pc, NEW st, NEW recs, NEW todo, call[k].pc # "idle",
             Moved(k, pc, st, recs, todo, call[k].more),
             pc \in {"snapshot", "lock", "write", "list", "remove"} \/ ~call[k].more,
             UNCHANGED <<phase, saving, store>>
      PROVE  StoreInv'
  BY <1>3 DEF Moved, StoreInv, Busy, Active, TypeInv
<1>4. ASSUME NEW k \in Calls, SaveStep(k)
      PROVE  StoreInv'
  <2>1. CASE Snapped(k)
    BY <1>2, <1>3, <2>1, EndedOver DEF Snapped
  <2>2. CASE Acquired(k)
    BY <1>3, <2>2 DEF Acquired
  <2>3. ASSUME NEW c \in Creds, Wrote(k, c)
        PROVE  StoreInv'
    BY <1>3, <2>3 DEF Wrote
  <2>4. ASSUME NEW rest, Left(k, rest), call[k].pc # "idle", UNCHANGED <<saving, store>>
        PROVE  StoreInv'
    BY <1>2, <1>3, <2>4, EndedOver DEF Left
  <2>5. CASE Listed(k)
    BY <2>4, <2>5 DEF Listed
  <2>6. ASSUME NEW c \in Creds, Removed(k, c)
        PROVE  StoreInv'
    BY <2>4, <2>6 DEF Removed
  <2>7. CASE Failed(k)
    BY <1>2, <2>7, EndedOver DEF Failed
  <2> QED
    BY <1>4, <2>1, <2>2, <2>3, <2>5, <2>6, <2>7 DEF SaveStep
<1>5. CASE RestoreStep
  <2>1. call[Loader].pc \in {"clear", "begin", "load"} => ~call[Loader].more
    BY DEF StoreInv, Busy, Active
  <2>2. CASE Cleared
    BY <2>1, <2>2 DEF Cleared, Moved, StoreInv, Busy, Active
  <2>3. CASE Begun
    BY <1>3, <2>1, <2>3 DEF Begun
  <2>4. ASSUME NEW c \in Creds, HasRead(c)
        PROVE  StoreInv'
    BY <1>3, <2>1, <2>4 DEF HasRead
  <2>5. CASE ReadFailed
    BY <1>2, <2>5, EndedOver DEF ReadFailed
  <2>6. CASE Applied
    BY <1>2, <1>3, <2>1, <2>6, EndedOver DEF Applied
  <2> QED
    BY <1>5, <2>2, <2>3, <2>4, <2>5, <2>6 DEF RestoreStep
<1>6. CASE Reloaded
  BY <1>6 DEF Reloaded, Moved, StoreInv, Busy, Active
<1>7. CASE Crashed
  BY <1>7 DEF Crashed, StoreInv, TypeInv
<1>8. CASE Started
  BY <1>8, CooldownStoreAssumption DEF Started, Moved, StoreInv, Busy, Active, DownInv,
     AllIdle, IsIdle, Idle
<1>9. CASE Ticked
  BY <1>9 DEF Ticked, StoreInv, Busy, Active
<1>10. CASE UNCHANGED vars
  BY <1>10 DEF vars, StoreInv, Busy, Active
<1> QED
  BY <1>1, <1>4, <1>5, <1>6, <1>7, <1>8, <1>9, <1>10 DEF Stepped

-----------------------------------------------------------------------------
(* Saves                                                                   *)

\* A call that stays as it is keeps what its save has done, as long as the files stay
\* or it has crossed another save.
LEMMA SaveOfKept ==
    ASSUME NEW j \in Calls, SaveOf(j), call'[j] = call[j],
           InSave(j) => (files' = files /\ (j \in crossed => j \in crossed'))
                        \/ j \in crossed'
    PROVE  SaveOf(j)'
  BY DEF SaveOf, InSave, Group

\* A call outside Save has no save to go wrong.
LEMMA NoSave ==
    ASSUME NEW j \in Calls, ~InSave(j)'
    PROVE  SaveOf(j)'
  BY DEF SaveOf, InSave

\* A write, the walk over the files and a removal take a save on.
LEMMA WroteSave ==
    ASSUME TypeInv, NEW k \in Calls, SaveOf(k), NEW c \in Creds, Wrote(k, c)
    PROVE  SaveOf(k)'
<1>1. /\ call[k].pc = "write" /\ c \in call[k].todo /\ crossed' = crossed
      /\ call[k].todo \subseteq Group(call[k].recs)
      /\ call'[k].recs = call[k].recs /\ call'[k].todo = call[k].todo \ {c}
      /\ call'[k].pc = IF call[k].todo \ {c} = {} THEN "list" ELSE "write"
  BY DEF Wrote, Moved, SaveOf
<1>2. files'[c] = call[k].recs[c] /\ \A d \in Creds \ {c} : files'[d] = files[d]
  BY DEF Wrote, TypeInv, Memory
<1>3. k \notin crossed => \A d \in Creds \ call[k].todo :
                             call[k].recs[d] # None => files[d] = call[k].recs[d]
  BY <1>1 DEF SaveOf, InSave
<1> QED
  BY <1>1, <1>2, <1>3 DEF SaveOf, InSave, Group

LEMMA LeftSave ==
    ASSUME NEW k \in Calls, NEW rest \in SUBSET Creds, Left(k, rest),
           rest \cap Group(call[k].recs) = {}, crossed' = crossed,
           k \notin crossed => \A d \in Creds \ rest : files'[d] = call[k].recs[d]
    PROVE  SaveOf(k)'
<1>1. CASE rest = {}
  <2>1. ~InSave(k)'
    BY <1>1, EndedOver DEF Left, Over, InSave
  <2> QED
    BY <2>1, NoSave
<1>2. CASE rest # {}
  <2>1. call'[k].pc = "remove" /\ call'[k].recs = call[k].recs /\ call'[k].todo = rest
    BY <1>2 DEF Left, Moved
  <2> QED
    BY <1>2, <2>1 DEF SaveOf, InSave, Group
<1> QED
  BY <1>1, <1>2

\* When the walk begins, what it does not name as stale is as the records have it.
LEMMA ListedFiles ==
    ASSUME TypeInv, NEW k \in Calls, SaveOf(k), Listed(k), k \notin crossed
    PROVE  \A d \in Creds \ Stale(call[k].recs) : files'[d] = call[k].recs[d]
<1>1. call[k].todo = {} /\ files' = files
  BY DEF Listed, SaveOf
<1>2. \A d \in Creds : call[k].recs[d] # None => files[d] = call[k].recs[d]
  BY <1>1 DEF Listed, SaveOf, InSave
<1> QED
  BY <1>1, <1>2 DEF Stale, Group

\* A removal takes away what the records do not have.
LEMMA RemovedFiles ==
    ASSUME TypeInv, NEW k \in Calls, SaveOf(k), NEW c \in Creds, Removed(k, c)
    PROVE  /\ (call[k].todo \ {c}) \cap Group(call[k].recs) = {}
           /\ call[k].recs[c] = None
           /\ k \notin crossed =>
                \A d \in Creds \ (call[k].todo \ {c}) : files'[d] = call[k].recs[d]
<1>1. call[k].pc = "remove" /\ c \in call[k].todo
      /\ call[k].todo \cap Group(call[k].recs) = {}
  BY DEF Removed, SaveOf
<1>2. call[k].recs[c] = None
  BY <1>1 DEF Group
<1>3. files'[c] = None /\ \A d \in Creds \ {c} : files'[d] = files[d]
  BY DEF Removed, TypeInv, Memory
<1>4. k \notin crossed => \A d \in Creds \ call[k].todo : files[d] = call[k].recs[d]
  BY <1>1 DEF SaveOf, InSave
<1> QED
  BY <1>1, <1>2, <1>3, <1>4

\* Saves that meet have crossed.
LEMMA CrossKept ==
    ASSUME TypeInv, CrossInv, Stepped
    PROVE  CrossInv'
<1>1. ASSUME NEW k \in Calls, Acquired(k)
      PROVE  CrossInv'
  <2>1. /\ call'[k].recs = call[k].recs
        /\ \A j \in Calls : j # k => call'[j] = call[j]
    BY <1>1 DEF Acquired, Moved
  <2>2. \A j \in Calls : InSave(j)' => j = k \/ InSave(j)
    BY <2>1 DEF InSave
  <2>3. CASE \A j \in Calls : ~InSave(j)
    BY <2>2, <2>3 DEF CrossInv
  <2>4. CASE crossed' = crossed \cup {k} \cup {j \in Calls : InSave(j)}
    BY <2>2, <2>4 DEF CrossInv
  <2> QED
    BY <1>1, <2>3, <2>4 DEF Acquired
<1>2. CASE Stays /\ \A k \in Calls : ~Acquired(k)
  <2>1. CASE Crashed
    BY <2>1 DEF Crashed, CrossInv, InSave
  <2>2. CASE ~Crashed
    <3>1. crossed' = crossed
      BY <1>2, <2>2 DEF Stepped, Changed, SaveStep, Snapped, Listed, Failed, Wrote,
         Removed, RestoreStep, Cleared, Begun, HasRead, ReadFailed, Applied, Reloaded,
         Started, Ticked, vars
    <3> QED
      BY <1>2, <3>1 DEF CrossInv, Stays
  <2> QED
    BY <2>1, <2>2
<1> QED
  BY <1>1, <1>2, OthersStay

\* Whatever steps, each save has done what it is done with.
LEMMA SaveKept ==
    ASSUME TypeInv, SaveInv, Stepped
    PROVE  SaveInv'
<1> Loader \in Calls /\ \A k \in Callers : k \in Calls
  BY DEF Calls
<1>1. Saves /\ CrossInv
  BY DEF SaveInv
<1>2. CrossInv'
  BY <1>1, CrossKept
<1>3. ASSUME NEW k \in Calls, call'[k].pc \notin {"write", "list", "remove"},
             \A j \in Calls : j # k => call'[j] = call[j],
             UNCHANGED <<files, crossed>>
      PROVE  Saves'
  <2>1. SaveOf(k)'
    BY <1>3 DEF SaveOf, InSave
  <2> QED
    BY <1>1, <1>3, <2>1, SaveOfKept DEF Saves
<1>4. ASSUME call' = call, UNCHANGED <<files, crossed>>
       PROVE  Saves'
  BY <1>1, <1>4, SaveOfKept DEF Saves
<1>5. ASSUME Changed
      PROVE  Saves'
  <2>1. UNCHANGED <<files, crossed>>
    BY <1>5 DEF Changed
  <2>2. ASSUME NEW k \in Calls, Moved(k, "snapshot", NoStore, Nothing, {}, FALSE)
        PROVE  Saves'
    BY <1>3, <2>1, <2>2 DEF Moved
  <2>3. CASE UNCHANGED call
    BY <1>4, <2>1, <2>3
  <2> QED
    BY <1>5, <2>2, <2>3 DEF Changed, Calls
<1>6. ASSUME NEW k \in Calls, SaveStep(k)
      PROVE  Saves'
  <2>1. ASSUME Ended(k), UNCHANGED <<files, crossed>>
        PROVE  Saves'
    BY <1>3, <2>1, EndedOver DEF Over
  <2>2. CASE Snapped(k)
    BY <1>3, <2>1, <2>2 DEF Snapped, Moved
  <2>3. CASE Acquired(k)
    <3>1. /\ \A j \in Calls : j # k => call'[j] = call[j]
          /\ call'[k].recs = call[k].recs /\ call'[k].todo = Group(call[k].recs)
          /\ call'[k].pc = IF Group(call[k].recs) = {} THEN "list" ELSE "write"
          /\ files' = files
      BY <2>3 DEF Acquired, Moved
    <3>2. SaveOf(k)'
      BY <3>1 DEF SaveOf, InSave, Group
    <3>3. \A j \in Calls : j # k => (j \in crossed => j \in crossed')
      BY <2>3 DEF Acquired
    <3> QED
      BY <1>1, <3>1, <3>2, <3>3, SaveOfKept DEF Saves
  <2>4. ASSUME NEW c \in Creds, Wrote(k, c)
        PROVE  Saves'
    <3>1. InSave(k) /\ crossed' = crossed /\ \A j \in Calls : j # k => call'[j] = call[j]
      BY <2>4 DEF Wrote, InSave, Moved
    <3>2. \A j \in Calls : j # k /\ InSave(j) => j \in crossed'
      BY <1>1, <3>1 DEF CrossInv
    <3> QED
      BY <1>1, <2>4, <3>1, <3>2, SaveOfKept, WroteSave DEF Saves
  <2>5. ASSUME NEW rest, Left(k, rest)
        PROVE  \A j \in Calls : j # k => call'[j] = call[j]
    BY <2>5, EndedOver DEF Left, Over, Moved
  <2>6. CASE Listed(k)
    <3>1. SaveOf(k)'
      <4>1. Stale(call[k].recs) \cap Group(call[k].recs) = {}
            /\ Stale(call[k].recs) \in SUBSET Creds
        BY DEF Stale
      <4> QED
        BY <1>1, <2>6, <4>1, ListedFiles, LeftSave DEF Listed, Saves
    <3>2. UNCHANGED <<files, crossed>> /\ \A j \in Calls : j # k => call'[j] = call[j]
      BY <2>5, <2>6 DEF Listed
    <3> QED
      BY <1>1, <3>1, <3>2, SaveOfKept DEF Saves
  <2>7. ASSUME NEW c \in Creds, Removed(k, c)
        PROVE  Saves'
    <3>1. SaveOf(k)'
      <4>1. call[k].todo \ {c} \in SUBSET Creds
        BY CallTyped
      <4> QED
        BY <1>1, <2>7, <4>1, RemovedFiles, LeftSave DEF Removed, Saves
    <3>2. InSave(k) /\ crossed' = crossed /\ \A j \in Calls : j # k => call'[j] = call[j]
      BY <2>5, <2>7 DEF Removed, InSave
    <3>3. \A j \in Calls : j # k /\ InSave(j) => j \in crossed'
      BY <1>1, <3>2 DEF CrossInv
    <3> QED
      BY <1>1, <3>1, <3>2, <3>3, SaveOfKept DEF Saves
  <2>8. CASE Failed(k)
    BY <2>1, <2>8 DEF Failed
  <2> QED
    BY <1>6, <2>2, <2>3, <2>4, <2>6, <2>7, <2>8 DEF SaveStep
<1>7. ASSUME RestoreStep
      PROVE  Saves'
  <2>1. ASSUME Ended(Loader), UNCHANGED <<files, crossed>>
        PROVE  Saves'
    BY <1>3, <2>1, EndedOver DEF Over
  <2>2. CASE Cleared
    BY <1>3, <2>2 DEF Cleared, Moved
  <2>3. CASE Begun
    BY <1>3, <2>3 DEF Begun, Moved
  <2>4. ASSUME NEW c \in Creds, HasRead(c)
        PROVE  Saves'
    BY <1>3, <2>4 DEF HasRead, Moved
  <2>5. CASE ReadFailed
    BY <2>1, <2>5 DEF ReadFailed
  <2>6. CASE Applied
    BY <1>3, <2>1, <2>6 DEF Applied, Moved
  <2> QED
    BY <1>7, <2>2, <2>3, <2>4, <2>5, <2>6 DEF RestoreStep
<1>8. CASE Reloaded
  BY <1>2, <1>3, <1>8 DEF Reloaded, Moved, SaveInv
<1>9. CASE Crashed
  BY <1>2, <1>9, NoSave DEF Crashed, InSave, SaveInv, Saves
<1>10. ASSUME Started
      PROVE  Saves'
  BY <1>3, <1>10, <1>4 DEF Started, Moved
<1>11. CASE Ticked
  <2>1. ASSUME NEW j \in Calls
        PROVE  SaveOf(j)'
    <3>1. call[j].recs \in Memory /\ files \in Memory /\ call[j].todo \subseteq Creds
      BY CallTyped DEF TypeInv
    <3>2. /\ call'[j].pc = call[j].pc /\ call'[j].todo = call[j].todo
          /\ call'[j].recs = Age(call[j].recs) /\ files' = Age(files)
          /\ crossed' = crossed
      BY <1>11 DEF Ticked
    <3>3. \A c \in Creds : (Age(call[j].recs)[c] = None) <=> (call[j].recs[c] = None)
      BY <3>1, AgeIs
    <3>4. \A c \in Creds : files[c] = call[j].recs[c] =>
                              Age(files)[c] = Age(call[j].recs)[c]
      BY DEF Age
    <3>5. Group(Age(call[j].recs)) = Group(call[j].recs)
      BY <3>3 DEF Group
    <3> QED
      BY <1>1, <3>1, <3>2, <3>3, <3>4, <3>5 DEF SaveOf, InSave, Saves
  <2> QED
    BY <1>2, <2>1 DEF SaveInv, Saves
<1>12. CASE UNCHANGED vars
  BY <1>2, <1>12, <1>4 DEF vars, SaveInv
<1>13. ASSUME NEW k \in Calls, SaveStep(k)
       PROVE  SaveInv'
  BY <1>2, <1>6, <1>13 DEF SaveInv
<1> QED
  <2>1. Changed \/ RestoreStep \/ Started => SaveInv'
    BY <1>2, <1>5, <1>7, <1>10 DEF SaveInv
  <2> QED
    BY <1>8, <1>9, <1>11, <1>12, <1>13, <2>1 DEF Stepped

-----------------------------------------------------------------------------
(* Snapshots and files                                                     *)

\* The newest snapshot stays the newest while no call is about to take another.
LEMMA NewSame ==
    ASSUME NewInv, UNCHANGED <<off, newest>>,
           \A j \in Calls : call'[j].pc \in {"lock", "write", "list", "remove"} =>
               call[j].pc \in {"lock", "write", "list", "remove"},
           \A j \in Calls : call[j].pc = "snapshot" => call'[j].pc = "snapshot",
           Shows(newest, off, cool) => Shows(newest, off, cool')
    PROVE  NewInv'
<1> SUFFICES ASSUME (\E k \in Calls : Active(k))', ~Pending', newest # None
             PROVE  Shows(newest, off, cool')
  BY DEF NewInv
<1>1. ~Pending /\ \E k \in Calls : Active(k)
  BY DEF Pending, Active
<1> QED
  BY <1>1 DEF NewInv

\* A snapshot shows the memory as long as nothing changes it.
LEMMA NewKept ==
    ASSUME TypeInv, DownInv, NewInv, Stepped
    PROVE  NewInv'
<1> Loader \in Calls /\ \A k \in Callers : k \in Calls
  BY DEF Calls
<1>1. CASE Changed
  <2>1. ASSUME NEW k \in Calls, Moved(k, "snapshot", NoStore, Nothing, {}, FALSE)
        PROVE  NewInv'
    BY <2>1 DEF Moved, NewInv, Pending
  <2>2. CASE newest' = None
    BY <2>2 DEF NewInv
  <2>3. CASE /\ UNCHANGED <<call, newest, exact>>
             /\ \A f \in Memory : Shows(f, off, cool) => Shows(f, off', cool')
    <3>1. newest \in Memory \/ newest = None
      BY DEF TypeInv
    <3> QED
      BY <2>3, <3>1 DEF NewInv, Pending, Active
  <2> QED
    BY <1>1, <2>1, <2>2, <2>3 DEF Changed
<1>2. ASSUME NEW k \in Calls, SaveStep(k)
      PROVE  NewInv'
  <2>1. ASSUME Ended(k), UNCHANGED <<off, cool, newest>>, call[k].pc # "snapshot"
        PROVE  NewInv'
    BY <2>1, EndedOver, NewSame DEF Over
  <2>2. ASSUME NEW pc, NEW st, NEW recs, NEW todo, NEW more,
               Moved(k, pc, st, recs, todo, more), UNCHANGED <<off, cool, newest>>,
               call[k].pc \in {"lock", "write", "list", "remove"}
        PROVE  NewInv'
    BY <2>2, NewSame DEF Moved
  <2>3. CASE Snapped(k)
    <3>1. CASE newest' = None
      BY <3>1 DEF NewInv
    <3>2. CASE newest' = Records
      <4>1. Shows(newest', off', cool')
        BY <2>3, <3>2, RecordsShow DEF Snapped
      <4> QED
        BY <4>1 DEF NewInv
    <3> QED
      BY <2>3, <3>1, <3>2 DEF Snapped
  <2>4. CASE Acquired(k)
    BY <2>2, <2>4 DEF Acquired
  <2>5. ASSUME NEW c \in Creds, Wrote(k, c)
        PROVE  NewInv'
    BY <2>2, <2>5 DEF Wrote
  <2>6. ASSUME NEW rest, Left(k, rest), UNCHANGED <<off, cool, newest>>,
               call[k].pc \in {"list", "remove"}
        PROVE  NewInv'
    BY <2>1, <2>2, <2>6 DEF Left
  <2>7. CASE Listed(k)
    BY <2>6, <2>7 DEF Listed
  <2>8. ASSUME NEW c \in Creds, Removed(k, c)
        PROVE  NewInv'
    BY <2>6, <2>8 DEF Removed
  <2>9. CASE Failed(k)
    BY <2>1, <2>9 DEF Failed
  <2> QED
    BY <1>2, <2>3, <2>4, <2>5, <2>7, <2>8, <2>9 DEF SaveStep
<1>3. CASE RestoreStep
  <2>1. CASE Cleared
    <3>1. Shows(newest, off, cool) => Shows(newest, off, cool')
      BY <2>1 DEF Cleared, Shows
    <3> QED
      BY <2>1, <3>1, NewSame DEF Cleared, Moved
  <2>2. CASE Begun
    BY <2>2, NewSame DEF Begun, Moved
  <2>3. ASSUME NEW c \in Creds, HasRead(c)
        PROVE  NewInv'
    BY <2>3, NewSame DEF HasRead, Moved
  <2>4. CASE ReadFailed
    BY <2>4, EndedOver, NewSame DEF ReadFailed, Over
  <2>5. CASE Applied
    <3>1. CASE cool' = cool /\ Ended(Loader)
      BY <2>5, <3>1, EndedOver, NewSame DEF Applied, Over
    <3>2. CASE Moved(Loader, "snapshot", call[Loader].store, Nothing, {},
                     call[Loader].more)
      BY <3>2 DEF Moved, NewInv, Pending
    <3> QED
      BY <2>5, <3>1, <3>2 DEF Applied
  <2> QED
    BY <1>3, <2>1, <2>2, <2>3, <2>4, <2>5 DEF RestoreStep
<1>4. CASE Reloaded
  BY <1>4, NewSame DEF Reloaded, Moved
<1>5. CASE Crashed
  BY <1>5 DEF Crashed, NewInv, Active
<1>6. CASE Started
  <2>1. call[Loader].pc = "idle"
    BY <1>6 DEF Started, DownInv, AllIdle, IsIdle, Idle
  <2> QED
    BY <1>6, <2>1, NewSame DEF Started, Moved
<1>7. CASE Ticked
  <2> SUFFICES ASSUME (\E k \in Calls : Active(k))', ~Pending', newest' # None
               PROVE  Shows(newest', off', cool')
    BY DEF NewInv
  <2>1. ~Pending /\ (\E k \in Calls : Active(k)) /\ newest # None
    BY <1>7 DEF Ticked, Pending, Active
  <2>2. Shows(newest, off, cool) /\ newest \in Memory /\ cool \in Memory
    BY <2>1 DEF NewInv, TypeInv
  <2> QED
    BY <1>7, <2>1, <2>2, ShowsAges DEF Ticked
<1>8. CASE UNCHANGED vars
  BY <1>8, NewSame DEF vars
<1> QED
  BY <1>1, <1>2, <1>3, <1>4, <1>5, <1>6, <1>7, <1>8 DEF Stepped

\* The end of the newest snapshot's save leaves files that show the memory, unless
\* another call is about to take a snapshot.
LEMMA SavedShows ==
    ASSUME TypeInv, NewInv, NEW k \in Calls, Ended(k), Active(k), Quiet',
           call[k].recs = newest, UNCHANGED <<off, cool>>,
           \A d \in Creds : files'[d] = call[k].recs[d]
    PROVE  Shows(files', off', cool')
<1>1. call[k].recs \in Memory
  BY CallTyped
<1>2. newest # None
  BY <1>1, CooldownStoreAssumption DEF Memory
<1>3. ~Pending
  BY EndedOver DEF Over, Quiet, Busy, Pending, Active
<1>4. Shows(newest, off, cool)
  BY <1>2, <1>3 DEF NewInv
<1> QED
  BY <1>4, ShowsSame

\* What the files show they show as long as no call had one to save.
LEMMA ExactSame ==
    ASSUME ExactInv, exact' => exact, phase' = "up" => phase = "up",
           UNCHANGED <<off, files>>,
           \A j \in Calls : call[j].pc \in {"snapshot", "lock", "write", "list", "remove"}
               => call'[j].pc \in {"snapshot", "lock", "write", "list", "remove"},
           Shows(files, off, cool) => Shows(files, off, cool')
    PROVE  ExactInv'
<1> SUFFICES ASSUME phase' = "up", exact', Quiet'
             PROVE  Shows(files, off, cool')
  BY DEF ExactInv
<1>1. Quiet
  BY DEF Quiet, Busy, Active
<1> QED
  BY <1>1 DEF ExactInv

\* After the save of the newest snapshot the files show the memory.
LEMMA ExactKept ==
    ASSUME TypeInv, SaveInv, NewInv, BootInv, LoadInv, ExactInv, Stepped
    PROVE  ExactInv'
<1> Loader \in Calls /\ \A k \in Callers : k \in Calls
  BY DEF Calls
<1>1. ASSUME NEW k \in Calls,
             call'[k].pc \in {"snapshot", "lock", "write", "list", "remove"}
      PROVE  ExactInv'
  BY <1>1 DEF ExactInv, Quiet, Busy, Active
<1>2. CASE Changed
  <2>1. ASSUME NEW k \in Calls, Moved(k, "snapshot", NoStore, Nothing, {}, FALSE)
        PROVE  ExactInv'
    BY <1>1, <2>1 DEF Moved
  <2>2. CASE exact' = FALSE
    BY <2>2 DEF ExactInv
  <2>3. CASE /\ UNCHANGED <<call, newest, exact>>
             /\ \A f \in Memory : Shows(f, off, cool) => Shows(f, off', cool')
    <3>1. files \in Memory /\ files' = files /\ phase' = phase
      BY <1>2 DEF Changed, TypeInv
    <3> QED
      BY <2>3, <3>1 DEF ExactInv, Quiet, Busy, Active
  <2> QED
    BY <1>2, <2>1, <2>2, <2>3 DEF Changed
<1>3. ASSUME NEW k \in Calls, SaveStep(k)
      PROVE  ExactInv'
  <2>1. CASE Snapped(k)
    <3>1. CASE exact' = FALSE
      BY <3>1 DEF ExactInv
    <3>2. CASE Moved(k, "lock", store, Records, call[k].todo, call[k].more)
      BY <1>1, <3>2 DEF Moved
    <3> QED
      BY <2>1, <3>1, <3>2 DEF Snapped
  <2>2. CASE Acquired(k)
    BY <1>1, <2>2 DEF Acquired, Moved
  <2>3. ASSUME NEW c \in Creds, Wrote(k, c)
        PROVE  ExactInv'
    BY <1>1, <2>3 DEF Wrote, Moved
  <2>4. ASSUME NEW rest, Left(k, rest), Active(k), UNCHANGED <<off, cool>>,
               rest = {} /\ k \notin crossed =>
                   \A d \in Creds : files'[d] = call[k].recs[d]
        PROVE  ExactInv'
    <3>1. CASE rest # {}
      BY <1>1, <2>4, <3>1 DEF Left, Moved
    <3>2. CASE rest = {}
      <4> SUFFICES ASSUME exact', Quiet'
                   PROVE  Shows(files', off', cool')
        BY DEF ExactInv
      <4>1. Ended(k) /\ k \notin crossed /\ call[k].recs = newest
        BY <2>4, <3>2 DEF Left
      <4> QED
        BY <2>4, <3>2, <4>1, SavedShows
    <3> QED
      BY <3>1, <3>2
  <2>5. SaveOf(k)
    BY DEF SaveInv, Saves
  <2>6. CASE Listed(k)
    <3>1. Active(k) /\ UNCHANGED <<off, cool>> /\ Left(k, Stale(call[k].recs))
      BY <2>6 DEF Listed, Active
    <3> QED
      BY <2>4, <2>5, <2>6, <3>1, ListedFiles
  <2>7. ASSUME NEW c \in Creds, Removed(k, c)
        PROVE  ExactInv'
    <3>1. Active(k) /\ UNCHANGED <<off, cool>> /\ Left(k, call[k].todo \ {c})
      BY <2>7 DEF Removed, Active
    <3> QED
      BY <2>4, <2>5, <2>7, <3>1, RemovedFiles
  <2>8. CASE Failed(k)
    BY <2>8 DEF Failed, ExactInv
  <2> QED
    BY <1>3, <2>1, <2>2, <2>3, <2>6, <2>7, <2>8 DEF SaveStep
<1>4. CASE RestoreStep
  <2>1. CASE Cleared
    <3>1. Shows(files, off, cool) => Shows(files, off, cool')
      BY <2>1 DEF Cleared, Shows
    <3> QED
      BY <2>1, <3>1, ExactSame DEF Cleared, Moved
  <2>2. CASE Begun
    BY <2>2, ExactSame DEF Begun, Moved
  <2>3. ASSUME NEW c \in Creds, HasRead(c)
        PROVE  ExactInv'
    BY <2>3, ExactSame DEF HasRead, Moved
  <2>4. CASE ReadFailed
    <3>1. CASE phase = "up"
      BY <2>4, <3>1, EndedOver, ExactSame DEF ReadFailed, Over
    <3>2. CASE phase # "up"
      BY <2>4, <3>2 DEF ReadFailed, ExactInv
    <3> QED
      BY <3>1, <3>2
  <2>5. CASE Applied
    <3>1. CASE Moved(Loader, "snapshot", call[Loader].store, Nothing, {},
                     call[Loader].more)
      BY <1>1, <3>1 DEF Moved
    <3>2. CASE /\ \A c \in Creds : call[Loader].recs[c] = None
               /\ cool' = cool /\ Ended(Loader)
      <4>1. CASE phase # "boot"
        <5>1. phase' = "up" => phase = "up"
          BY <3>2, <4>1, EndedOver DEF Over
        <5> QED
          BY <2>5, <3>2, <5>1, EndedOver, ExactSame DEF Applied, Over
      <4>2. CASE phase = "boot"
        <5>1. cool = Nothing /\ call[Loader].pc = "load"
          BY <2>5, <4>2 DEF BootInv, Applied, Busy, Active
        <5>2. \A c \in Creds : files[c] = None
          BY <2>5, <3>2, <4>2, <5>1 DEF LoadInv, Applied
        <5>3. Shows(files, off, Nothing)
          BY <5>2, NothingTyped DEF Shows, Live
        <5> QED
          BY <2>5, <3>2, <5>1, <5>3 DEF Applied, ExactInv
      <4> QED
        BY <4>1, <4>2
    <3> QED
      BY <2>5, <3>1, <3>2 DEF Applied
  <2> QED
    BY <1>4, <2>1, <2>2, <2>3, <2>4, <2>5 DEF RestoreStep
<1>5. CASE Reloaded
  BY <1>5, ExactSame DEF Reloaded, Moved
<1>6. CASE Crashed
  BY <1>6 DEF Crashed, ExactInv
<1>7. CASE Started
  BY <1>7 DEF Started, ExactInv
<1>8. CASE Ticked
  <2> SUFFICES ASSUME phase' = "up", exact', Quiet'
               PROVE  Shows(files', off', cool')
    BY DEF ExactInv
  <2>1. phase = "up" /\ exact /\ Quiet
    BY <1>8 DEF Ticked, Quiet, Busy, Active
  <2>2. Shows(files, off, cool) /\ files \in Memory /\ cool \in Memory
    BY <2>1 DEF ExactInv, TypeInv
  <2> QED
    BY <1>8, <2>2, ShowsAges DEF Ticked
<1>9. CASE UNCHANGED vars
  BY <1>9, ExactSame DEF vars
<1> QED
  BY <1>2, <1>3, <1>4, <1>5, <1>6, <1>7, <1>8, <1>9 DEF Stepped

-----------------------------------------------------------------------------
(* Starts and restores                                                     *)

\* The Loader is alone until it ends the start, with records of what it restored.
LEMMA BootKept ==
    ASSUME TypeInv, DownInv, StoreInv, BootInv, Stepped
    PROVE  BootInv'
<1> Loader \in Calls /\ \A k \in Callers : k \in Calls /\ k # Loader
  BY CooldownStoreAssumption DEF Calls
<1> SUFFICES ASSUME phase' = "boot"
             PROVE  BootInv'
  BY DEF BootInv
<1>1. ASSUME NEW k \in Calls, Ended(k)
      PROVE  FALSE
  BY <1>1, EndedOver DEF Over
<1>2. Idle' = Idle
  BY DEF Idle, Nothing
<1>3. ASSUME phase = "boot", CallersIdle', NEW pc \in {"lock", "write", "list", "remove"},
             NEW st, NEW recs, NEW todo, NEW more,
             Moved(Loader, pc, st, recs, todo, more), UNCHANGED <<off, cool>>,
             Shows(recs, off, cool)
      PROVE  BootInv'
  BY <1>3 DEF BootInv, Moved, Busy, Active
<1>4. ASSUME phase = "boot", NEW pc, NEW st, NEW recs, NEW todo, NEW more,
             Moved(Loader, pc, st, recs, todo, more)
      PROVE  CallersIdle'
  BY <1>2, <1>4 DEF BootInv, Moved, CallersIdle, IsIdle
<1>5. ASSUME NEW k \in Calls, SaveStep(k)
      PROVE  BootInv'
  <2>1. phase = "boot" /\ k = Loader
    <3>1. call[k].pc # "idle"
      BY <1>5 DEF SaveStep, Snapped, Acquired, Listed, Failed, Wrote, Removed
    <3>2. phase = "boot"
      BY <1>1, <1>5 DEF SaveStep, Snapped, Acquired, Listed, Failed, Wrote, Removed, Left
    <3> QED
      BY <3>1, <3>2, CallsRun
  <2>2. Active(Loader) => Shows(call[Loader].recs, off, cool)
    BY <2>1 DEF BootInv
  <2>3. CASE Snapped(Loader)
    <3>1. Moved(Loader, "lock", store, Records, call[Loader].todo, call[Loader].more)
          /\ UNCHANGED <<off, cool>>
      BY <1>1, <2>3 DEF Snapped
    <3>2. Shows(Records, off, cool)
      BY RecordsShow
    <3> QED
      BY <1>3, <1>4, <2>1, <3>1, <3>2
  <2>4. CASE Acquired(Loader)
    <3>1. Active(Loader) /\ UNCHANGED <<off, cool>>
          /\ (IF Group(call[Loader].recs) = {} THEN "list" ELSE "write")
               \in {"lock", "write", "list", "remove"}
      BY <2>4 DEF Acquired, Active
    <3> QED
      BY <1>3, <1>4, <2>1, <2>2, <2>4, <3>1 DEF Acquired
  <2>5. ASSUME NEW c \in Creds, Wrote(Loader, c)
        PROVE  BootInv'
    <3>1. Active(Loader) /\ UNCHANGED <<off, cool>>
          /\ (IF call[Loader].todo \ {c} = {} THEN "list" ELSE "write")
               \in {"lock", "write", "list", "remove"}
      BY <2>5 DEF Wrote, Active
    <3> QED
      BY <1>3, <1>4, <2>1, <2>2, <2>5, <3>1 DEF Wrote
  <2>6. ASSUME NEW rest, Left(Loader, rest), Active(Loader), UNCHANGED <<off, cool>>
        PROVE  BootInv'
    <3>1. Moved(Loader, "remove", call[Loader].store, call[Loader].recs, rest,
                call[Loader].more)
      BY <1>1, <2>6 DEF Left
    <3> QED
      BY <1>3, <1>4, <2>1, <2>2, <2>6, <3>1
  <2>7. CASE Listed(Loader)
    BY <2>6, <2>7 DEF Listed, Active
  <2>8. ASSUME NEW c \in Creds, Removed(Loader, c)
        PROVE  BootInv'
    BY <2>6, <2>8 DEF Removed, Active
  <2>9. ~Failed(Loader)
    BY <1>1 DEF Failed
  <2> QED
    BY <1>5, <2>1, <2>3, <2>4, <2>5, <2>7, <2>8, <2>9 DEF SaveStep
<1>6. CASE RestoreStep
  <2>1. ~Cleared /\ ~ReadFailed
    BY <1>1, CallsRun DEF Cleared, ReadFailed
  <2>2. CASE Begun
    BY <1>4, <2>2 DEF Begun, Moved, BootInv, Busy, Active
  <2>3. ASSUME NEW c \in Creds, HasRead(c)
        PROVE  BootInv'
    BY <1>4, <2>3 DEF HasRead, Moved, BootInv, Busy, Active
  <2>4. CASE Applied
    <3>1. Moved(Loader, "snapshot", call[Loader].store, Nothing, {}, call[Loader].more)
          /\ phase = "boot"
      BY <1>1, <2>4 DEF Applied
    <3> QED
      BY <1>4, <3>1 DEF Moved, BootInv, Busy, Active
  <2> QED
    BY <1>6, <2>1, <2>2, <2>3, <2>4 DEF RestoreStep
<1>7. CASE Started
  <2>1. AllIdle /\ cool = Nothing /\ cool' = cool
    BY <1>7 DEF Started, DownInv
  <2>2. Moved(Loader, "begin", call[Loader].store, call[Loader].recs,
              call[Loader].todo, call[Loader].more)
    BY <1>7 DEF Started
  <2>3. CallersIdle'
    BY <1>2, <2>1, <2>2 DEF Moved, AllIdle, CallersIdle, IsIdle
  <2>4. Nothing' = Nothing
    BY DEF Nothing
  <2> QED
    BY <2>1, <2>2, <2>3, <2>4 DEF Moved, BootInv, Busy, Active
<1>8. CASE Ticked
  <2>1. phase = "boot" /\ cool \in Memory /\ call[Loader].recs \in Memory
    BY <1>8, CallTyped DEF Ticked, TypeInv
  <2>2. /\ cool' = Age(cool) /\ off' = off
        /\ call'[Loader].pc = call[Loader].pc
        /\ call'[Loader].recs = Age(call[Loader].recs)
    BY <1>8 DEF Ticked
  <2>3. CallersIdle'
    BY <1>2, <1>8, <2>1 DEF Ticked, BootInv, CallersIdle, IsIdle
  <2>4. (Busy(Loader) \/ (call[Loader].pc \in {"begin", "load"} /\ cool = Nothing))'
    <3>1. Nothing' = Nothing
      BY DEF Nothing
    <3> QED
      BY <2>1, <2>2, <3>1, NothingAges DEF BootInv, Busy, Active
  <2>5. (Active(Loader) => Shows(call[Loader].recs, off, cool))'
    BY <2>1, <2>2, ShowsAges DEF BootInv, Active
  <2> QED
    BY <2>3, <2>4, <2>5 DEF BootInv
<1>9. CASE UNCHANGED vars
  BY <1>9 DEF vars, BootInv, Busy, Active, CallersIdle, IsIdle, Idle, Nothing
<1>10. ~Changed /\ ~Reloaded /\ ~Crashed
  BY DEF Changed, Reloaded, Crashed
<1> QED
  BY <1>5, <1>6, <1>7, <1>8, <1>9, <1>10 DEF Stepped

\* A Loader that does not read has nothing that could be out of date.
LEMMA NoLoad ==
    ASSUME call'[Loader].pc # "load"
    PROVE  LoadInv'
  BY DEF LoadInv

\* What the Loader reads is what the files hold, and unless the history doubts it
\* nothing runs beside it.
LEMMA LoadKept ==
    ASSUME TypeInv, DownInv, StoreInv, ExactInv, BootInv, LoadInv, Stepped
    PROVE  LoadInv'
<1> Loader \in Calls /\ \A k \in Callers : k \in Calls /\ k # Loader
  BY CooldownStoreAssumption DEF Calls
<1>1. Idle' = Idle
  BY DEF Idle, Nothing
<1>2. ASSUME Over(Loader)
      PROVE  LoadInv'
  BY <1>2 DEF Over, LoadInv
<1>3. ASSUME NEW pc, NEW st, NEW recs, NEW todo, NEW more,
             Moved(Loader, pc, st, recs, todo, more), pc # "load"
      PROVE  LoadInv'
  BY <1>3 DEF Moved, LoadInv
<1>4. CASE Changed
  <2>1. CASE call[Loader].pc = "load"
    BY <1>4, <2>1 DEF Changed, LoadInv
  <2>2. CASE call[Loader].pc # "load"
    BY <1>4, <2>2 DEF Changed, Moved, LoadInv
  <2> QED
    BY <2>1, <2>2
<1>5. ASSUME NEW k \in Calls, SaveStep(k)
      PROVE  LoadInv'
  <2>1. call[k].pc \in {"snapshot", "lock", "write", "list", "remove"}
    BY <1>5 DEF SaveStep, Snapped, Acquired, Listed, Failed, Wrote, Removed
  <2>2. CASE k = Loader
    <3>1. call'[Loader].pc # "load"
      BY <1>5, <2>2, EndedOver DEF SaveStep, Snapped, Acquired, Listed, Failed, Wrote,
         Removed, Left, Over, Moved
    <3> QED
      BY <3>1, NoLoad
  <2>3. CASE k # Loader
    <3>1. /\ call'[Loader] = call[Loader] /\ doubt' = doubt
          /\ phase' = "boot" => phase = "boot"
      BY <1>5, <2>3, EndedOver DEF SaveStep, Snapped, Acquired, Listed, Failed, Wrote,
         Removed, Left, Over, Moved
    <3>2. ~CallersIdle
      BY <2>1, <2>3 DEF CallersIdle, IsIdle, Idle, Calls
    <3> QED
      BY <3>1, <3>2 DEF LoadInv
  <2> QED
    BY <2>2, <2>3
<1>6. CASE RestoreStep
  <2>1. CASE Cleared
    BY <2>1, NoLoad DEF Cleared, Moved
  <2>2. CASE Begun
    <3>1. /\ call'[Loader].recs = Nothing
          /\ call'[Loader].todo = {c \in Creds : files[c] # None}
          /\ \A j \in Callers : call'[j] = call[j]
          /\ UNCHANGED <<phase, off, cool, files>>
      BY <2>2 DEF Begun, Moved
    <3> SUFFICES ASSUME phase = "boot" \/ ~doubt'
                 PROVE  /\ CallersIdle
                        /\ phase = "up" => Shows(files, off, cool)
      <4>1. \A c \in Creds \ call'[Loader].todo : call'[Loader].recs[c] = files[c]
        BY <3>1, NothingTyped
      <4>2. CallersIdle => CallersIdle'
        BY <1>1, <3>1 DEF CallersIdle, IsIdle
      <4> QED
        BY <3>1, <4>1, <4>2 DEF LoadInv
    <3>2. call[Loader].pc = "begin" /\ doubt' = (phase = "up" /\ ~(exact /\ CallersIdle))
      BY <2>2 DEF Begun
    <3>3. phase # "down"
      BY <3>2, CallsRun
    <3>4. CASE phase = "boot"
      BY <3>4 DEF BootInv
    <3>5. CASE phase = "up" /\ exact /\ CallersIdle
      <4>1. Quiet
        BY <3>2, <3>5 DEF Quiet, Busy, Active, CallersIdle, IsIdle, Idle, Calls
      <4> QED
        BY <3>5, <4>1 DEF ExactInv
    <3> QED
      BY <3>2, <3>3, <3>4, <3>5 DEF TypeInv
  <2>3. ASSUME NEW c \in Creds, HasRead(c)
        PROVE  LoadInv'
    <3>1. PICK recs \in Memory :
            /\ Moved(Loader, "load", call[Loader].store, recs, call[Loader].todo \ {c},
                     call[Loader].more)
            /\ recs[c] = files[c]
            /\ \A d \in Creds \ {c} : recs[d] = call[Loader].recs[d]
      BY <2>3 DEF HasRead
    <3>2. /\ call'[Loader].recs = recs /\ call'[Loader].todo = call[Loader].todo \ {c}
          /\ \A j \in Callers : call'[j] = call[j]
          /\ call[Loader].pc = "load" /\ UNCHANGED <<phase, off, cool, files, doubt>>
      BY <2>3, <3>1 DEF HasRead, Moved
    <3>3. CallersIdle => CallersIdle'
      BY <1>1, <3>2 DEF CallersIdle, IsIdle
    <3> QED
      BY <3>1, <3>2, <3>3 DEF LoadInv
  <2>4. CASE ReadFailed
    BY <1>2, <2>4, EndedOver DEF ReadFailed
  <2>5. CASE Applied
    BY <1>2, <1>3, <2>5, EndedOver DEF Applied
  <2> QED
    BY <1>6, <2>1, <2>2, <2>3, <2>4, <2>5 DEF RestoreStep
<1>7. CASE Reloaded
  BY <1>3, <1>7 DEF Reloaded
<1>8. CASE Crashed
  BY <1>8 DEF Crashed, LoadInv
<1>9. CASE Started
  <2>1. call[Loader].pc = "idle"
    BY <1>9 DEF Started, DownInv, AllIdle, IsIdle, Idle
  <2> QED
    BY <1>9, <2>1, NoLoad DEF Started, Moved
<1>10. CASE Ticked
  <2> SUFFICES ASSUME call'[Loader].pc = "load", phase' = "boot" \/ ~doubt'
               PROVE  /\ CallersIdle'
                      /\ \A c \in Creds \ call'[Loader].todo :
                             call'[Loader].recs[c] = files'[c]
                      /\ phase' = "up" => Shows(files', off', cool')
    BY DEF LoadInv
  <2>1. /\ call'[Loader].recs = Age(call[Loader].recs)
        /\ call'[Loader].todo = call[Loader].todo
        /\ files' = Age(files) /\ cool' = Age(cool) /\ UNCHANGED <<phase, off>>
    BY <1>10 DEF Ticked
  <2>2. /\ CallersIdle
        /\ \A c \in Creds \ call[Loader].todo : call[Loader].recs[c] = files[c]
        /\ phase = "up" => Shows(files, off, cool)
    BY <1>10 DEF Ticked, LoadInv
  <2>3. CallersIdle'
    BY <1>1, <1>10, <2>2 DEF Ticked, CallersIdle, IsIdle
  <2>4. \A c \in Creds : call[Loader].recs[c] = files[c] =>
                            Age(call[Loader].recs)[c] = Age(files)[c]
    BY DEF Age
  <2>5. files \in Memory /\ cool \in Memory
    BY DEF TypeInv
  <2> QED
    BY <2>1, <2>2, <2>3, <2>4, <2>5, ShowsAges
<1>11. CASE UNCHANGED vars
  BY <1>11 DEF vars, LoadInv, CallersIdle, IsIdle, Idle, Nothing
<1> QED
  BY <1>4, <1>5, <1>6, <1>7, <1>8, <1>9, <1>10, <1>11 DEF Stepped

-----------------------------------------------------------------------------
(* What has been made                                                      *)

\* The Loader's restore makes the memory what the files hold.
LEMMA AppliedAgrees ==
    ASSUME TypeInv, DownInv, BootInv, LoadInv, Applied
    PROVE  /\ phase = "boot" =>
                \A c \in Creds : Live(cool'[c]) = IF c \in off THEN 0 ELSE Live(files[c])
           /\ phase = "up" /\ ~doubt => \A c \in Creds : Live(cool'[c]) = Live(cool[c])
<1>1. call[Loader].pc = "load" /\ call[Loader].todo = {}
  BY DEF Applied
<1>2. \A c \in Creds :
        Live(cool'[c]) = IF Live(call[Loader].recs[c]) = 0 \/ c \in off
                         THEN Live(cool[c]) ELSE Live(call[Loader].recs[c])
  BY DEF Applied
<1>3. ASSUME phase = "boot"
      PROVE  \A c \in Creds : Live(cool'[c]) = IF c \in off THEN 0 ELSE Live(files[c])
  <2>1. cool = Nothing
    BY <1>1, <1>3 DEF BootInv, Busy, Active
  <2>2. \A c \in Creds : call[Loader].recs[c] = files[c]
    BY <1>1, <1>3 DEF LoadInv
  <2>3. \A c \in Creds : Live(cool[c]) = 0
    BY <2>1, NothingTyped
  <2> QED
    BY <1>2, <2>2, <2>3
<1>4. ASSUME phase = "up", ~doubt
      PROVE  \A c \in Creds : Live(cool'[c]) = Live(cool[c])
  <2>1. \A c \in Creds : call[Loader].recs[c] = files[c]
    BY <1>1, <1>4 DEF LoadInv
  <2>2. Shows(files, off, cool)
    BY <1>1, <1>4 DEF LoadInv
  <2> QED
    BY <1>2, <2>1, <2>2 DEF Shows
<1> QED
  BY <1>3, <1>4

\* The memory, and in a process that is down or starts the files, hold what has been
\* made.
LEMMA TruthKept ==
    ASSUME TypeInv, DownInv, StoreInv, SaveInv, ExactInv, BootInv, LoadInv, TruthInv,
           Stepped
    PROVE  TruthInv'
<1> Loader \in Calls /\ \A k \in Callers : k \in Calls /\ k # Loader
  BY CooldownStoreAssumption DEF Calls
<1>1. CASE Changed
  BY <1>1 DEF Changed, TruthInv
<1>2. ASSUME NEW k \in Calls, SaveStep(k)
      PROVE  TruthInv'
  <2>1. /\ Busy(k) /\ phase # "down" /\ UNCHANGED <<off, cool, truth, trusted>>
        /\ phase = "boot" => k = Loader
    <3>1. Busy(k)
      BY <1>2 DEF SaveStep, Snapped, Acquired, Listed, Failed, Wrote, Removed, Busy, Active
    <3>2. UNCHANGED <<off, cool, truth, trusted>>
      BY <1>2 DEF SaveStep, Snapped, Acquired, Listed, Failed, Wrote, Removed
    <3> QED
      BY <3>1, <3>2, CallsRun DEF Busy, Active
  <2>2. trusted => Agrees
    BY <2>1 DEF TruthInv, TypeInv
  <2>3. trusted' => Agrees'
    BY <2>1, <2>2 DEF Agrees
  <2>4. CASE phase' = "up"
    BY <2>3, <2>4 DEF TruthInv
  <2>5. CASE phase' # "up"
    <3>1. phase = "boot" /\ k = Loader /\ ~Ended(k)
      BY <1>2, <2>1, <2>5, EndedOver DEF Over, SaveStep, Snapped, Acquired, Listed, Failed,
         Wrote, Removed, Left, TypeInv
    <3>2. trusted => Shows(truth, off, files)
      BY <3>1 DEF TruthInv
    <3>3. Active(Loader) => Shows(call[Loader].recs, off, cool)
      BY <3>1 DEF BootInv
    <3>4. ASSUME NEW c \in Creds, NEW r, Active(Loader), files' = [files EXCEPT ![c] = r],
                 r = call[Loader].recs[c], trusted
          PROVE  Shows(truth, off, files')
      <4>1. files'[c] = r /\ \A d \in Creds \ {c} : files'[d] = files[d]
        BY <3>4 DEF TypeInv, Memory
      <4>2. Live(r) = IF c \in off THEN 0 ELSE Live(truth[c])
        BY <2>2, <3>3, <3>4 DEF Shows, Agrees
      <4> QED
        BY <3>2, <3>4, <4>1, <4>2 DEF Shows
    <3>5. CASE files' = files
      BY <2>1, <2>3, <3>2, <3>5 DEF TruthInv
    <3>6. ASSUME NEW c \in Creds, Wrote(Loader, c)
          PROVE  TruthInv'
      <4>1. Active(Loader) /\ files' = [files EXCEPT ![c] = call[Loader].recs[c]]
        BY <3>6 DEF Wrote, Active
      <4>2. trusted => Shows(truth, off, files')
        BY <3>4, <4>1
      <4> QED
        BY <2>1, <2>3, <4>2 DEF TruthInv
    <3>7. ASSUME NEW c \in Creds, Removed(Loader, c)
          PROVE  TruthInv'
      <4>1. call[Loader].recs[c] = None
        BY <3>7, RemovedFiles DEF SaveInv, Saves
      <4>2. Active(Loader) /\ files' = [files EXCEPT ![c] = None]
        BY <3>7 DEF Removed, Active
      <4>3. trusted => Shows(truth, off, files')
        BY <3>4, <4>1, <4>2
      <4> QED
        BY <2>1, <2>3, <4>3 DEF TruthInv
    <3>8. Snapped(k) \/ Acquired(k) \/ Listed(k) \/ Failed(k) => files' = files
      BY DEF Snapped, Acquired, Listed, Failed
    <3> QED
      BY <1>2, <3>1, <3>5, <3>6, <3>7, <3>8 DEF SaveStep
  <2> QED
    BY <2>4, <2>5
<1>3. CASE RestoreStep
  <2>1. CASE Cleared
    <3>1. phase = "up" /\ UNCHANGED <<phase, trusted>>
      BY <2>1, CallsRun DEF Cleared
    <3>2. Agrees => Agrees'
      BY <2>1 DEF Cleared, Agrees
    <3> QED
      BY <3>1, <3>2 DEF TruthInv
  <2>2. CASE Begun
    BY <2>2 DEF Begun, Moved, TruthInv, Busy, Active, Agrees
  <2>3. ASSUME NEW c \in Creds, HasRead(c)
        PROVE  TruthInv'
    BY <2>3 DEF HasRead, Moved, TruthInv, Busy, Active, Agrees
  <2>4. CASE ReadFailed
    <3>1. trusted' => trusted /\ phase = "up" /\ phase' = "up"
      BY <2>4, EndedOver DEF ReadFailed, Over
    <3>2. Agrees => Agrees'
      BY <2>4 DEF ReadFailed, Agrees
    <3> QED
      BY <3>1, <3>2 DEF TruthInv
  <2>5. CASE Applied
    <3>1. /\ phase # "down" /\ UNCHANGED <<off, files, truth>>
          /\ trusted' = ((trusted /\ ~doubt) \/ Agrees')
          /\ phase' = "down" => phase = "down"
          /\ phase' = "boot" => phase = "boot"
      BY <2>5, CallsRun, EndedOver DEF Applied, Over
    <3>2. trusted' => Agrees'
      <4>1. ASSUME trusted, ~doubt
            PROVE  Agrees'
        <5>1. CASE phase = "up"
          <6>1. Agrees
            BY <4>1, <5>1 DEF TruthInv
          <6> QED
            BY <2>5, <3>1, <4>1, <5>1, <6>1, AppliedAgrees DEF Agrees
        <5>2. CASE phase = "boot"
          <6>1. Shows(truth, off, files)
            BY <4>1, <5>2 DEF TruthInv
          <6> QED
            BY <2>5, <3>1, <5>2, <6>1, AppliedAgrees DEF Agrees, Shows
        <5> QED
          BY <3>1, <5>1, <5>2 DEF TypeInv
      <4> QED
        BY <3>1, <4>1
    <3>3. phase' # "up" /\ trusted' => Shows(truth, off, files)
      <4> SUFFICES ASSUME phase' # "up", trusted'
                   PROVE  Shows(truth, off, files)
        OBVIOUS
      <4>1. phase = "boot"
        <5>1. phase' \in {"boot", "up", "down"}
          BY TypesKept DEF TypeInv
        <5> QED
          BY <3>1, <5>1
      <4> QED
        BY <2>5, <3>1, <3>2, <4>1, AppliedAgrees DEF Agrees, Shows
    <3> QED
      BY <3>1, <3>2, <3>3 DEF TruthInv
  <2> QED
    BY <1>3, <2>1, <2>2, <2>3, <2>4, <2>5 DEF RestoreStep
<1>4. CASE Reloaded
  BY <1>4 DEF Reloaded, TruthInv, Agrees
<1>5. CASE Crashed
  <2> SUFFICES ASSUME trusted'
               PROVE  Shows(truth, off, files)
    BY <1>5 DEF Crashed, TruthInv
  <2>1. trusted /\ (phase = "up" =>
            store # NoStore /\ exact /\ AllIdle /\ \A c \in off : Live(cool[c]) = 0)
    BY <1>5 DEF Crashed
  <2>2. CASE phase = "up"
    <3>1. Quiet
      BY <2>1, <2>2 DEF AllIdle, IsIdle, Idle, Quiet, Busy, Active
    <3>2. Shows(files, off, cool) /\ Agrees
      BY <2>1, <2>2, <3>1 DEF ExactInv, TruthInv
    <3> QED
      BY <2>1, <2>2, <3>2 DEF Shows, Agrees
  <2>3. CASE phase # "up"
    BY <2>1, <2>3 DEF TruthInv
  <2> QED
    BY <2>2, <2>3
<1>6. CASE Started
  <2>1. call[Loader].pc = "idle" /\ (trusted => saving)
    BY <1>6 DEF Started, DownInv, AllIdle, IsIdle, Idle, StoreInv
  <2> QED
    BY <1>6, <2>1 DEF Started, Moved, TruthInv, Busy, Active
<1>7. CASE Ticked
  <2>1. /\ cool \in Memory /\ truth \in Memory /\ files \in Memory
        /\ cool' = Age(cool) /\ truth' = Age(truth) /\ files' = Age(files)
        /\ UNCHANGED <<phase, off, trusted>> /\ call'[Loader].pc = call[Loader].pc
    BY <1>7 DEF Ticked, TypeInv
  <2>2. Agrees => Agrees'
    BY <2>1, AgeIs DEF Agrees
  <2>3. Shows(truth, off, files) => Shows(truth', off', files')
    BY <2>1, ShowsAges
  <2>4. Busy(Loader)' => Busy(Loader)
    BY <2>1 DEF Busy, Active
  <2> QED
    BY <2>1, <2>2, <2>3, <2>4 DEF TruthInv
<1>8. CASE UNCHANGED vars
  BY <1>8 DEF vars, TruthInv, Agrees, Busy, Active
<1> QED
  BY <1>1, <1>2, <1>3, <1>4, <1>5, <1>6, <1>7, <1>8 DEF Stepped

-----------------------------------------------------------------------------
(* The theorems                                                            *)

\* A first process has no cooldowns, no files and no calls.
LEMMA InvariantInit == Init => IInv
<1> SUFFICES ASSUME Init
             PROVE  IInv
  OBVIOUS
<1>1. Idle \in CallRecord /\ Idle.pc = "idle" /\ Idle.more = FALSE
  BY NothingTyped DEF Idle, CallRecord, Pcs
<1>2. /\ phase = "up" /\ off = {} /\ cool = Nothing /\ files = Nothing
      /\ saving \in BOOLEAN /\ truth = Nothing /\ newest = Nothing /\ crossed = {}
      /\ exact = TRUE /\ doubt = FALSE /\ trusted = TRUE
      /\ store = IF saving THEN CHOOSE s \in Stores : TRUE ELSE NoStore
      /\ call = [k \in Calls |-> Idle]
  BY DEF Init
<1>3. /\ \A k \in Calls : call[k] = Idle /\ call[k].pc = "idle" /\ call[k].more = FALSE
      /\ call \in [Calls -> CallRecord] /\ Loader \in Calls
      /\ \A k \in Callers : k \in Calls
  BY <1>1, <1>2 DEF Calls
<1>4. store \in Stores \cup {NoStore} /\ (saving <=> store # NoStore)
  <2>1. (CHOOSE s \in Stores : TRUE) \in Stores
    BY CooldownStoreAssumption
  <2> QED
    BY <1>2, <2>1, CooldownStoreAssumption
<1>5. Shows(Nothing, {}, Nothing)
  BY DEF Shows
<1>6. TypeInv
  <2>1. CallInv
    BY <1>3 DEF CallInv
  <2> QED
    BY <1>2, <1>4, <2>1, NothingTyped DEF TypeInv
<1>7. MutexInv /\ DownInv /\ SaveInv /\ NewInv /\ LoadInv
  BY <1>2, <1>3 DEF MutexInv, InSave, DownInv, SaveInv, Saves, SaveOf, CrossInv, NewInv,
     Active, LoadInv
<1>8. StoreInv /\ BootInv
  BY <1>2, <1>3, <1>4 DEF StoreInv, BootInv
<1>9. ExactInv /\ TruthInv
  BY <1>2, <1>5 DEF ExactInv, TruthInv, Agrees
<1> QED
  BY <1>6, <1>7, <1>8, <1>9 DEF IInv

\* The invariant is inductive.
LEMMA InvariantStep == IInv /\ [Next]_vars => IInv'
<1> SUFFICES ASSUME IInv, [Next]_vars
             PROVE  IInv'
  OBVIOUS
<1>1. /\ TypeInv /\ MutexInv /\ DownInv /\ StoreInv /\ SaveInv
      /\ NewInv /\ ExactInv /\ BootInv /\ LoadInv /\ TruthInv
  BY DEF IInv
<1>2. Stepped
  BY <1>1, StepDoes
<1>3. TypeInv' /\ MutexInv' /\ DownInv' /\ StoreInv' /\ SaveInv'
  BY <1>1, <1>2, TypesKept, MutexKept, DownKept, StoreKept, SaveKept
<1>4. NewInv' /\ ExactInv' /\ BootInv' /\ LoadInv' /\ TruthInv'
  BY <1>1, <1>2, NewKept, ExactKept, BootKept, LoadKept, TruthKept
<1> QED
  BY <1>3, <1>4 DEF IInv

\* The invariant holds in every state of every behaviour.
THEOREM Invariance == Spec => []IInv
  BY InvariantInit, InvariantStep, PTL DEF Spec

\* What the first pass after a start still has to do.
FirstInv == first \subseteq Creds \cup {Loader}

LEMMA FirstTyped == Spec => []FirstInv
<1>1. Init => FirstInv
  BY DEF Init, FirstInv
<1>2. ASSUME FirstInv, [Next]_vars
      PROVE  FirstInv'
  <2>1. CASE Changes
    BY <1>2, <2>1
       DEF Changes, Fail, Recover, Disable, Change, Enable, Reconcile, FirstInv
  <2>2. ASSUME NEW k \in Calls, Save(k)
        PROVE  FirstInv'
    BY <1>2, <2>2
       DEF Save, Snapshot, Acquire, Write, List, Remove, SaveFails, FirstInv
  <2>3. CASE Restore
    BY <1>2, <2>3 DEF Restore, Clear, BeginLoad, Read, ReadFails, Apply, FirstInv
  <2>4. CASE (\E b \in BOOLEAN : Reload(b)) \/ Crash \/ Start \/ Tick
    BY <1>2, <2>4 DEF Reload, Crash, Start, Tick, FirstInv
  <2>5. CASE UNCHANGED vars
    BY <1>2, <2>5 DEF vars, FirstInv
  <2> QED
    BY <1>2, <2>1, <2>2, <2>3, <2>4, <2>5 DEF Next
<1> QED
  BY <1>1, <1>2, PTL DEF Spec

LEMMA InvariantTypes ==
    ASSUME IInv, FirstInv
    PROVE  TypeOK
<1>1. TypeInv /\ MutexInv /\ DownInv
  BY DEF IInv
<1>2. \A k \in Calls :
        /\ call[k].pc \in {"idle", "snapshot", "lock", "write", "list", "remove"}
                            \cup (IF k = Loader THEN {"clear", "begin", "load"} ELSE {})
        /\ call[k].store \in Stores \cup {NoStore}
        /\ call[k].recs \in [Creds -> Rests] /\ call[k].todo \subseteq Creds
        /\ call[k].more => k = Loader
  BY <1>1, CallTyped DEF TypeInv, CallInv, Pcs, Memory
<1>3. /\ phase \in {"boot", "up", "down"} /\ off \subseteq Creds
      /\ {cool, files, truth} \subseteq [Creds -> Rests]
      /\ newest \in [Creds -> Rests] \cup {None}
      /\ {saving, exact, doubt, trusted} \subseteq BOOLEAN
      /\ store \in Stores \cup {NoStore} /\ crossed \subseteq Calls
  BY <1>1 DEF TypeInv, Memory
<1> QED
  BY <1>1, <1>2, <1>3 DEF TypeOK, MutexInv, DownInv, FirstInv

\* Every value has its type, a store's mutex one holder, only the Loader reads
\* files, and a process that is down runs nothing (TypeOK).
THEOREM TypeCorrect == Spec => []TypeOK
  BY Invariance, FirstTyped, InvariantTypes, PTL

\* With any number of credentials, calls and stores, of changes, reloads, crashes
\* and faults: whenever no call is under way, the last save to end was that of
\* the newest snapshot and met none of another store, and nothing has changed
\* since that nothing saves (a registration resets cooldowns so), each file holds
\* exactly what is left of its credential's cooldown in memory, and none is left
\* over (persistCooldownStates, Save, removeStaleStateFiles).
THEOREM FilesStayCurrent == Spec => []FilesAreCurrent
<1>1. IInv /\ FirstInv => FilesAreCurrent
  <2> SUFFICES ASSUME IInv, FirstInv, phase = "up", AllIdle, exact
               PROVE  \A c \in Creds : Live(files[c]) = Live(Recorded(c))
    BY InvariantTypes DEF FilesAreCurrent
  <2>1. TypeInv /\ ExactInv
    BY DEF IInv
  <2>2. Quiet
    BY DEF AllIdle, IsIdle, Idle, Quiet, Busy, Active
  <2>3. Shows(files, off, cool)
    BY <2>1, <2>2 DEF ExactInv
  <2>4. Shows(Records, off, cool) /\ \A c \in Creds : Records[c] = Recorded(c)
    BY <2>1, RecordsShow DEF Records
  <2> QED
    BY <2>3, <2>4 DEF Shows
<1> QED
  BY <1>1, Invariance, FirstTyped, PTL

\* And over any number of reloads, crashes at any point and restarts: unless one of
\* them lost what was not saved, could not read a file, or restored files that were
\* out of date or changing, what a running process has in memory is exactly the
\* cooldowns that results, switches and registrations have made, the last of which
\* reset what a start has restored (RestoreCooldownStates,
\* restoreCooldownRecordLocked, ReconcileRegistryModelStates).
THEOREM MemoryStaysTrue == Spec => []MemoryIsTrue
<1>1. IInv => MemoryIsTrue
  BY DEF IInv, TruthInv, MemoryIsTrue
<1> QED
  BY <1>1, Invariance, PTL

\* Nothing that another call has keeps this one from its next step.
CanGoOn(k) ==
    \/ call[k].pc \in {"snapshot", "list", "clear", "begin", "load"}
    \/ call[k].pc \in {"write", "remove"} /\ call[k].todo # {}
    \/ call[k].pc = "lock" /\ Free(k)

\* A call under way goes on, or waits for a call that has its store's mutex and
\* itself waits for nobody.
NoCallIsStuck ==
    \A k \in Calls :
        \/ IsIdle(k) \/ CanGoOn(k)
        \/ /\ call[k].pc = "lock"
           /\ \E j \in Calls :
                  InSave(j) /\ call[j].store = call[k].store /\ CanGoOn(j)

\* Calls never wait for one another in a circle, nor for a mutex that nobody is
\* going to give back, whatever saves fail and however many stores there are
\* (persistCooldownStates, Save).
THEOREM NobodyWaitsInVain == Spec => []NoCallIsStuck
<1>1. ASSUME IInv, NEW k \in Calls, call[k].pc # "idle", call[k].pc # "lock"
      PROVE  CanGoOn(k)
  <2>1. call[k].pc \in Pcs
    BY <1>1, CallTyped DEF IInv
  <2>2. SaveOf(k)
    BY <1>1 DEF IInv, SaveInv, Saves
  <2> QED
    BY <1>1, <2>1, <2>2 DEF Pcs, CanGoOn, SaveOf
<1>2. ASSUME IInv
      PROVE  NoCallIsStuck
  <2> SUFFICES ASSUME NEW k \in Calls, ~IsIdle(k), ~CanGoOn(k)
               PROVE  /\ call[k].pc = "lock"
                      /\ \E j \in Calls : InSave(j) /\ call[j].store = call[k].store
                                              /\ CanGoOn(j)
    BY DEF NoCallIsStuck
  <2>1. call[k].pc # "idle"
    BY <1>2, IdleIs DEF IInv
  <2>2. call[k].pc = "lock" /\ ~Free(k)
    BY <1>1, <1>2, <2>1 DEF CanGoOn
  <2>3. PICK j \in Calls : InSave(j) /\ call[j].store = call[k].store
    BY <2>2 DEF Free
  <2>4. CanGoOn(j)
    BY <1>1, <1>2, <2>3 DEF InSave
  <2> QED
    BY <2>2, <2>3, <2>4
<1> QED
  BY <1>2, Invariance, PTL

=============================================================================
