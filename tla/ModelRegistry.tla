---------------------------- MODULE ModelRegistry ---------------------------
(***************************************************************************)
(* internal/registry/model_registry.go: which clients (credentials) serve  *)
(* which models, how many registrations a model has in total and per       *)
(* provider, which clients are over quota or suspended for a model, and    *)
(* the cached list of available models.  Every operation runs under        *)
(* r.mutex; only GetAvailableModels reads the clock before taking it and   *)
(* takes it twice.                                                         *)
(*                                                                         *)
(* Metadata (ModelInfo) is abstracted to the set of providers for which a  *)
(* registration holds some.  One handler type stands for all: the cache    *)
(* entries of different handler types are filled and dropped alike.        *)
(***************************************************************************)
EXTENDS Integers, FiniteSets, FiniteSetsExt

CONSTANTS
    Clients,
    Models,
    Providers,
    NoProvider,    \* the empty provider string
    MaxCopies,     \* bound: how often one client lists the same model
    Window,        \* modelQuotaExceededWindow
    Marked,        \* the clients whose requests produce results
    StrayResults,  \* whether results arrive for a model a client dropped
    MaxTime        \* bound: the clock stops here

ASSUME RegistryAssumption ==
    /\ NoProvider \notin Providers
    /\ MaxCopies \in Nat \ {0}
    /\ Window \in Nat \ {0}
    /\ Marked \subseteq Clients
    /\ StrayResults \in BOOLEAN
    /\ MaxTime \in Nat \ {0}

VARIABLES
    clock,          \* time.Now()
    models,         \* r.models
    clientModels,   \* r.clientModels, as how often each model is listed
    clientProvider, \* r.clientProviders
    cache,          \* r.availableModelsCache for one handler type
    reader          \* one call of GetAvailableModels

registryVars == <<clock, models, clientModels, clientProvider, cache, reader>>

Never == 0

Reasons == {"quota", "other"}

Registration ==
    [count : Nat, providers : [Providers -> Nat], infoBy : SUBSET Providers,
     quotaAt : [Clients -> Nat], suspended : [Clients -> Reasons \cup {"no"}]]

\* A model that has no entry in r.models.
Unregistered ==
    [count |-> 0, providers |-> [p \in Providers |-> 0], infoBy |-> {},
     quotaAt |-> [c \in Clients |-> Never],
     suspended |-> [c \in Clients |-> "no"]]

NoModels == [m \in Models |-> 0]

NoCache == [present |-> FALSE, listed |-> {}, expiresAt |-> Never]

NoReader == [pc |-> "idle", at |-> Never]

RegistryTypeOK ==
    /\ clock \in 1..MaxTime
    /\ models \in [Models -> Registration]
    /\ clientModels \in [Clients -> [Models -> 0..MaxCopies]]
    /\ clientProvider \in [Clients -> Providers \cup {NoProvider}]
    /\ cache \in [present : BOOLEAN, listed : SUBSET Models, expiresAt : Nat]
    /\ reader \in [pc : {"idle", "reading", "building"}, at : Nat]

Registered(c) == clientModels[c] # NoModels

Least(a, b) == IF a < b THEN a ELSE b

-----------------------------------------------------------------------------
(* One registration.                                                       *)

\* The marks of a client that is removed or registers again.
Unmark(r, c) == [r EXCEPT !.quotaAt[c] = Never, !.suspended[c] = "no"]

\* n registrations of a provider are taken away from its counter, and with
\* the last of them the provider's metadata.
Uncount(r, p, n) ==
    IF p = NoProvider \/ n = 0 THEN r
    ELSE [r EXCEPT !.providers[p] = IF @ <= n THEN 0 ELSE @ - n,
                   !.infoBy = IF r.providers[p] <= n THEN @ \ {p} ELSE @]

\* addModelRegistration, n times.
Add(r, p, n) ==
    IF n = 0 THEN r
    ELSE IF p = NoProvider THEN [r EXCEPT !.count = @ + n]
    ELSE [r EXCEPT !.count = @ + n, !.providers[p] = @ + n,
                   !.infoBy = @ \cup {p}]

\* Mutant: the marks of the client that leaves stay.
RemoveKeepsMarks(r, c, p, n) ==
    IF n = 0 THEN r
    ELSE IF r.count <= n THEN Unregistered
    ELSE [Uncount(r, p, n) EXCEPT !.count = @ - n]

\* removeModelRegistration, n times; the last client takes the entry along.
Remove(r, c, p, n) ==
    IF n = 0 THEN r
    ELSE IF r.count <= n THEN Unregistered
    ELSE [Uncount(Unmark(r, c), p, n) EXCEPT !.count = @ - n]

\* Mutant: a provider change is counted for the models that stay, without
\* taking them away from the old provider.
KeepOldProvider(r, c, old, new, p, q) ==
    LET s == Add(Remove(r, c, p, old - Least(old, new)), q, new - Least(old, new))
        u == IF new > 0 THEN Unmark(s, c) ELSE s
    IN  IF new > 0 /\ q # NoProvider
        THEN [u EXCEPT !.infoBy = @ \cup {q},
                       !.providers[q] = @ + IF p # q THEN Least(old, new) ELSE 0]
        ELSE u

\* A registered client lists the model new times instead of old times, and
\* provider q instead of p: the registrations that stay move from p to q,
\* the surplus is removed from p, what is missing is added for q.
Reregister(r, c, old, new, p, q) ==
    LET kept    == Least(old, new)
        moved   == IF p # q THEN Uncount(r, p, kept) ELSE r
        resized == Add(Remove(moved, c, p, old - kept), q, new - kept)
        fresh   == IF new > 0 THEN Unmark(resized, c) ELSE resized
    IN  IF new > 0 /\ q # NoProvider
        THEN [fresh EXCEPT !.infoBy = @ \cup {q},
                           !.providers[q] = @ + IF p # q THEN kept ELSE 0]
        ELSE fresh

-----------------------------------------------------------------------------
(* What is available at time t.                                            *)

OverQuota(r, t) ==
    {c \in Clients : r.quotaAt[c] # Never /\ t < r.quotaAt[c] + Window}

SuspendedFor(r, reasons) == {c \in Clients : r.suspended[c] \in reasons}

\* The model is listed while some client is left, or when only quotas are in
\* the way.
Listed(r, t) ==
    LET over  == Cardinality(OverQuota(r, t))
        other == Cardinality(SuspendedFor(r, {"other"}))
    IN  \/ r.count - over - other > 0
        \/ /\ r.count > 0
           /\ over > 0 \/ SuspendedFor(r, {"quota"}) # {}
           /\ other = 0

AvailableModels(t) == {m \in Models : Listed(models[m], t)}

\* The instants at which the quota windows that are open close.
WindowEnds(t) ==
    UNION {{models[m].quotaAt[c] + Window : c \in OverQuota(models[m], t)} :
               m \in Models}

\* Mutant: the list expires with the last of the quota windows.
LastRecovery(t) == IF WindowEnds(t) = {} THEN Never ELSE Max(WindowEnds(t))

\* The instant the first of them closes.
FirstRecovery(t) == IF WindowEnds(t) = {} THEN Never ELSE Min(WindowEnds(t))

\* GetModelCount
ModelCount(m) ==
    LET n == models[m].count - Cardinality(OverQuota(models[m], clock))
                             - Cardinality(SuspendedFor(models[m], Reasons))
    IN  IF n < 0 THEN 0 ELSE n

-----------------------------------------------------------------------------
(* Registration.                                                           *)

RegistryInit ==
    /\ clock = 1
    /\ models = [m \in Models |-> Unregistered]
    /\ clientModels = [c \in Clients |-> NoModels]
    /\ clientProvider = [c \in Clients |-> NoProvider]
    /\ cache = NoCache
    /\ reader = NoReader

\* RegisterClient for a client with models; a new client is only added.
RegisterClient(c, p, counts) ==
    /\ counts # NoModels
    /\ models' = [m \in Models |->
           IF Registered(c)
           THEN Reregister(models[m], c, clientModels[c][m], counts[m],
                           clientProvider[c], p)
           ELSE Add(models[m], p, counts[m])]
    /\ clientModels' = [clientModels EXCEPT ![c] = counts]
    /\ clientProvider' = [clientProvider EXCEPT ![c] = p]
    /\ cache' = NoCache
    /\ UNCHANGED <<clock, reader>>

\* UnregisterClient, and RegisterClient without models.
UnregisterClient(c) ==
    /\ models' = [m \in Models |->
           Remove(models[m], c, clientProvider[c], clientModels[c][m])]
    /\ clientModels' = [clientModels EXCEPT ![c] = NoModels]
    /\ clientProvider' = [clientProvider EXCEPT ![c] = NoProvider]
    /\ cache' = NoCache
    /\ UNCHANGED <<clock, reader>>

-----------------------------------------------------------------------------
(* Marks.  The callers name any client and model; an entry for the model   *)
(* is all that is required.                                                *)

Marks(c, m) ==
    /\ c \in Marked
    /\ StrayResults \/ clientModels[c][m] > 0
    /\ UNCHANGED <<clock, clientModels, clientProvider, reader>>

SetModelQuotaExceeded(c, m) ==
    /\ Marks(c, m)
    /\ models[m].count > 0
    /\ models' = [models EXCEPT ![m].quotaAt[c] = clock]
    /\ cache' = NoCache

ClearModelQuotaExceeded(c, m) ==
    /\ Marks(c, m)
    /\ models[m].count > 0
    /\ models' = [models EXCEPT ![m].quotaAt[c] = Never]
    /\ cache' = NoCache

\* The first reason stays.
SuspendClientModel(c, m, reason) ==
    /\ Marks(c, m)
    /\ models[m].count > 0
    /\ models[m].suspended[c] = "no"
    /\ models' = [models EXCEPT ![m].suspended[c] = reason]
    /\ cache' = NoCache

ResumeClientModel(c, m) ==
    /\ Marks(c, m)
    /\ models[m].suspended[c] # "no"
    /\ models' = [models EXCEPT ![m].suspended[c] = "no"]
    /\ cache' = NoCache

CleanupExpiredQuotas ==
    LET old(m) == {c \in Clients : models[m].quotaAt[c] # Never}
                     \ OverQuota(models[m], clock)
    IN  /\ \E m \in Models : old(m) # {}
        /\ models' = [m \in Models |-> [models[m] EXCEPT
               !.quotaAt = [c \in Clients |-> IF c \in old(m) THEN Never
                                                              ELSE @[c]]]]
        /\ cache' = NoCache
        /\ UNCHANGED <<clock, clientModels, clientProvider, reader>>

-----------------------------------------------------------------------------
(* GetAvailableModels.                                                     *)

Valid(t) == cache.present /\ (cache.expiresAt = Never \/ t < cache.expiresAt)

StartReading ==
    /\ reader.pc = "idle"
    /\ reader' = [pc |-> "reading", at |-> clock]
    /\ UNCHANGED <<clock, models, clientModels, clientProvider, cache>>

\* Under the read lock: the cached list is answered, or there is none.
LookUp ==
    /\ reader.pc = "reading"
    /\ reader' = IF Valid(reader.at) THEN NoReader
                                     ELSE [reader EXCEPT !.pc = "building"]
    /\ UNCHANGED <<clock, models, clientModels, clientProvider, cache>>

\* Under the write lock, with the instant read at the start.
Build ==
    /\ reader.pc = "building"
    /\ cache' = IF Valid(reader.at) THEN cache
                ELSE [present   |-> TRUE,
                      listed    |-> AvailableModels(reader.at),
                      expiresAt |-> FirstRecovery(reader.at)]
    /\ reader' = NoReader
    /\ UNCHANGED <<clock, models, clientModels, clientProvider>>

Pass ==
    /\ clock < MaxTime
    /\ clock' = clock + 1
    /\ UNCHANGED <<models, clientModels, clientProvider, cache, reader>>

-----------------------------------------------------------------------------

Registering ==
    \E c \in Clients :
        \/ \E p \in Providers \cup {NoProvider},
              counts \in [Models -> 0..MaxCopies] : RegisterClient(c, p, counts)
        \/ UnregisterClient(c)

Marking ==
    \/ \E c \in Clients, m \in Models :
           \/ SetModelQuotaExceeded(c, m)
           \/ ClearModelQuotaExceeded(c, m)
           \/ \E reason \in Reasons : SuspendClientModel(c, m, reason)
           \/ ResumeClientModel(c, m)
    \/ CleanupExpiredQuotas

Reading == StartReading \/ LookUp \/ Build

RegistryNext == Registering \/ Marking \/ Reading \/ Pass

RegistrySpec == RegistryInit /\ [][RegistryNext]_registryVars

-----------------------------------------------------------------------------
(* Properties                                                              *)

\* The registrations of a model by the clients in S: one for each time that
\* a client lists it.
Registrations(m, S) == {r \in S \X (1..MaxCopies) : r[2] <= clientModels[r[1]][m]}

Serving(p) == {c \in Clients : clientProvider[c] = p}

\* However clients register again with other models, repetitions and
\* providers, the counters of a model are the registrations that exist, in
\* total and per provider, and metadata is kept for exactly the providers
\* that serve it (RegisterClient, add/removeModelRegistration).
CountsAreRegistrations ==
    /\ RegistryTypeOK
    /\ \A m \in Models :
           /\ models[m].count = Cardinality(Registrations(m, Clients))
           /\ \A p \in Providers :
                  models[m].providers[p] = Cardinality(Registrations(m, Serving(p)))
           /\ models[m].infoBy =
                  {p \in Providers : Registrations(m, Serving(p)) # {}}

\* A cached list that has not expired is the list that would be built now,
\* also when it was built with a clock that was read earlier, and while
\* quota windows close without any call (GetAvailableModels).
CacheIsFresh == Valid(clock) => cache.listed = AvailableModels(clock)

\* When no result arrives late, every mark on a model belongs to a client
\* that serves it, whichever way clients came and went: the counts that
\* GetModelCount subtracts are of clients it counted.
MarksBelongToClients ==
    ~StrayResults =>
        \A m \in Models, c \in Clients :
            models[m].quotaAt[c] # Never \/ models[m].suspended[c] # "no"
                => clientModels[c][m] > 0

-----------------------------------------------------------------------------
(* What the documentation says and the code does not do.                   *)

AvailableClients(m) ==
    {c \in Clients : /\ clientModels[c][m] > 0
                     /\ c \notin OverQuota(models[m], clock)
                     /\ models[m].suspended[c] = "no"}

\* GetModelCount: "returns the number of available clients for a specific
\* model".
CountIsAvailableClients ==
    \A m \in Models : ModelCount(m) = Cardinality(AvailableClients(m))

=============================================================================
