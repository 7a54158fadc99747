---------------------------- MODULE RegistryProofs --------------------------
(***************************************************************************)
(* Proofs about ModelRegistry for every set of clients, models and         *)
(* providers, every number of repetitions and every length of the window.  *)
(***************************************************************************)
EXTENDS ModelRegistry, WellFoundedInduction, FiniteSetTheorems, FunctionTheorems, TLAPS

-----------------------------------------------------------------------------

\* Every non-empty set of natural numbers has a least element.
LEMMA NatMinimum ==
    ASSUME NEW T \in SUBSET Nat, T # {}
    PROVE  \E t \in T : \A u \in T : t <= u
<1>. DEFINE Less == {ss \in Nat \X Nat : ss[1] < ss[2]}
<1>1. OpToRel(<, Nat) = Less
    BY Zenon DEF OpToRel
<1>2. IsWellFoundedOn(Less, Nat)
    BY <1>1, NatLessThanWellFounded, Zenon
<1>3. PICK x \in T : \A y \in T : ~(<<y, x>> \in Less)
    <2>. HIDE DEF Less
    <2>1. T \subseteq Nat
        OBVIOUS
    <2>2. \E x \in T : \A y \in T : ~(<<y, x>> \in Less)
        BY <1>2, <2>1, WFMin, Zenon
    <2>. QED BY <2>2
<1>4. \A y \in T : x <= y
    <2>. SUFFICES ASSUME NEW y \in T, ~(x <= y) PROVE FALSE
        OBVIOUS
    <2>1. x \in Nat /\ y \in Nat /\ y < x
        OBVIOUS
    <2>2. <<y, x>> \in Less
        BY <2>1
    <2>. QED BY <1>3, <2>2
<1>. QED BY <1>4

-----------------------------------------------------------------------------
(* What the operations on one registration do to its marks.                *)

\* Client c is over quota or suspended in r.
Bears(r, c) == r.quotaAt[c] # Never \/ r.suspended[c] # "no"

\* An operation on a registration only takes marks away.
FewerMarks(r, s) ==
    s \in Registration /\ \A c \in Clients : Bears(s, c) => Bears(r, c)

\* The entry of a model that has none is a registration without marks.
LEMMA UnregisteredFacts ==
    /\ Unregistered \in Registration
    /\ \A c \in Clients : ~Bears(Unregistered, c)
<1>1. Unregistered \in Registration
    BY DEF Unregistered, Registration, Never
<1>2. \A c \in Clients : ~Bears(Unregistered, c)
    BY DEF Unregistered, Bears, Never
<1>. QED BY <1>1, <1>2

\* Unmarking a client takes its marks away and no other's.
LEMMA UnmarkFacts ==
    ASSUME NEW r \in Registration, NEW c \in Clients
    PROVE  FewerMarks(r, Unmark(r, c)) /\ ~Bears(Unmark(r, c), c)
BY DEF FewerMarks, Registration, Unmark, Bears, Never

\* Taking registrations away from a provider touches no mark.
LEMMA UncountFacts ==
    ASSUME NEW r \in Registration, NEW p \in Providers \cup {NoProvider},
           NEW n \in Nat
    PROVE  FewerMarks(r, Uncount(r, p, n))
<1>1. CASE p = NoProvider \/ n = 0
    BY <1>1 DEF Uncount, FewerMarks
<1>2. CASE ~(p = NoProvider \/ n = 0)
    <2>. DEFINE k == IF r.providers[p] <= n THEN 0 ELSE r.providers[p] - n
    <2>. DEFINE i == IF r.providers[p] <= n THEN r.infoBy \ {p} ELSE r.infoBy
    <2>1. p \in Providers /\ r.providers[p] \in Nat
        BY <1>2 DEF Registration
    <2>2. k \in Nat /\ i \in SUBSET Providers
        BY <2>1 DEF Registration
    <2>. DEFINE ps == [r.providers EXCEPT ![p] = k]
    <2>3. Uncount(r, p, n) = [r EXCEPT !.providers = ps, !.infoBy = i]
        BY <1>2, <2>1 DEF Uncount, Registration
    <2>. HIDE DEF k, i
    <2>4. ps \in [Providers -> Nat]
        BY <2>1, <2>2 DEF Registration
    <2>. HIDE DEF ps
    <2>. QED BY <2>2, <2>3, <2>4 DEF FewerMarks, Registration, Bears
<1>. QED BY <1>1, <1>2

\* Adding registrations touches no mark.
LEMMA AddFacts ==
    ASSUME NEW r \in Registration, NEW p \in Providers \cup {NoProvider},
           NEW n \in Nat
    PROVE  FewerMarks(r, Add(r, p, n))
<1>1. r.count + n \in Nat
    BY DEF Registration
<1>2. CASE n = 0 \/ p = NoProvider
    BY <1>1, <1>2 DEF Add, FewerMarks, Registration, Bears
<1>3. CASE ~(n = 0 \/ p = NoProvider)
    <2>1. p \in Providers /\ r.providers[p] + n \in Nat
        BY <1>3 DEF Registration
    <2>. DEFINE ps == [r.providers EXCEPT ![p] = @ + n]
                i  == r.infoBy \cup {p}
                k  == r.count + n
    <2>2. Add(r, p, n) = [r EXCEPT !.count = k, !.providers = ps, !.infoBy = i]
        BY <1>3, <2>1 DEF Add, Registration
    <2>3. ps \in [Providers -> Nat] /\ i \in SUBSET Providers /\ k \in Nat
        BY <1>1, <2>1 DEF Registration
    <2>. HIDE DEF ps, i, k
    <2>. QED BY <2>2, <2>3 DEF FewerMarks, Registration, Bears
<1>. QED BY <1>2, <1>3

\* Removing a client's registrations takes its marks along.
LEMMA RemoveFacts ==
    ASSUME NEW r \in Registration, NEW c \in Clients,
           NEW p \in Providers \cup {NoProvider}, NEW n \in Nat
    PROVE  /\ FewerMarks(r, Remove(r, c, p, n))
           /\ n > 0 => ~Bears(Remove(r, c, p, n), c)
<1>1. CASE n = 0
    BY <1>1 DEF Remove, FewerMarks
<1>2. CASE n > 0 /\ r.count <= n
    BY <1>2, UnregisteredFacts DEF Remove, FewerMarks
<1>3. CASE n > 0 /\ ~(r.count <= n)
    <2>. DEFINE s == Unmark(r, c)
                t == Uncount(s, p, n)
    <2>1. s \in Registration /\ FewerMarks(r, s) /\ ~Bears(s, c)
        BY UnmarkFacts DEF FewerMarks
    <2>. HIDE DEF s
    <2>2. t \in Registration /\ FewerMarks(s, t)
        BY <2>1, UncountFacts DEF FewerMarks
    <2>3. s.count = r.count /\ t.count = s.count
        BY <1>3 DEF s, Unmark, Uncount, Registration
    <2>4. Remove(r, c, p, n) = [t EXCEPT !.count = r.count - n]
        BY <1>3, <2>2, <2>3 DEF Remove, s, Registration
    <2>. HIDE DEF t
    <2>5. r.count - n \in Nat
        BY <1>3 DEF Registration
    <2>6. FewerMarks(t, Remove(r, c, p, n))
        BY <2>2, <2>4, <2>5 DEF FewerMarks, Registration, Bears
    <2>. QED BY <2>1, <2>2, <2>6 DEF FewerMarks
<1>. QED BY <1>1, <1>2, <1>3

\* Registering again leaves the client's marks on no model, unless the client
\* served it neither before nor after.
LEMMA ReregisterFacts ==
    ASSUME NEW r \in Registration, NEW c \in Clients,
           NEW old \in Nat, NEW new \in Nat,
           NEW p \in Providers \cup {NoProvider},
           NEW q \in Providers \cup {NoProvider}
    PROVE  LET s == Reregister(r, c, old, new, p, q)
           IN  /\ FewerMarks(r, s)
               /\ old > 0 \/ new > 0 => ~Bears(s, c)
<1>. DEFINE kept    == Least(old, new)
            moved   == IF p # q THEN Uncount(r, p, kept) ELSE r
            smaller == Remove(moved, c, p, old - kept)
            resized == Add(smaller, q, new - kept)
            fresh   == IF new > 0 THEN Unmark(resized, c) ELSE resized
            final   == Reregister(r, c, old, new, p, q)
<1>1. /\ kept \in Nat /\ old - kept \in Nat /\ new - kept \in Nat
      /\ new = 0 => kept = 0
    BY DEF Least
<1>. HIDE DEF kept
<1>2. moved \in Registration /\ FewerMarks(r, moved)
    BY <1>1, UncountFacts DEF FewerMarks
<1>. HIDE DEF moved
<1>3. /\ smaller \in Registration /\ FewerMarks(moved, smaller)
      /\ old - kept > 0 => ~Bears(smaller, c)
    BY <1>1, <1>2, RemoveFacts DEF FewerMarks
<1>. HIDE DEF smaller
<1>4. resized \in Registration /\ FewerMarks(smaller, resized)
    BY <1>1, <1>3, AddFacts DEF FewerMarks
<1>. HIDE DEF resized
<1>5. /\ fresh \in Registration /\ FewerMarks(resized, fresh)
      /\ new > 0 => ~Bears(fresh, c)
    BY <1>4, UnmarkFacts DEF FewerMarks
<1>. HIDE DEF fresh
<1>6. final = IF new > 0 /\ q # NoProvider
              THEN [fresh EXCEPT !.infoBy = @ \cup {q},
                                 !.providers[q] = @ + IF p # q THEN kept ELSE 0]
              ELSE fresh
    BY DEF Reregister, fresh, resized, smaller, moved, kept
<1>. HIDE DEF final
<1>7. FewerMarks(fresh, final)
    <2>1. CASE new > 0 /\ q # NoProvider
        <3>. DEFINE k == fresh.providers[q] + IF p # q THEN kept ELSE 0
        <3>1. q \in Providers /\ k \in Nat
            BY <1>1, <1>5, <2>1 DEF Registration
        <3>2. final = [fresh EXCEPT !.infoBy = fresh.infoBy \cup {q},
                                    !.providers[q] = k]
            BY <1>5, <1>6, <2>1, <3>1 DEF Registration
        <3>. HIDE DEF k
        <3>. QED BY <1>5, <3>1, <3>2 DEF FewerMarks, Registration, Bears
    <2>2. CASE ~(new > 0 /\ q # NoProvider)
        BY <1>5, <1>6, <2>2 DEF FewerMarks
    <2>. QED BY <2>1, <2>2
<1>8. FewerMarks(r, final)
    BY <1>2, <1>3, <1>4, <1>5, <1>7 DEF FewerMarks
<1>9. ASSUME old > 0 \/ new > 0 PROVE ~Bears(final, c)
    <2>1. CASE new > 0
        BY <1>5, <1>7, <2>1 DEF FewerMarks
    <2>2. CASE new = 0
        BY <1>1, <1>3, <1>4, <1>5, <1>7, <1>9, <2>2 DEF FewerMarks
    <2>. QED BY <2>1, <2>2
<1>. QED BY <1>8, <1>9 DEF final

-----------------------------------------------------------------------------
(* Marks belong to clients.                                                *)

CacheRecord == [present : BOOLEAN, listed : SUBSET Models, expiresAt : Nat]

\* The types without the bounds of the model-checked instances.
RegistryTypes ==
    /\ clock \in Nat \ {0}
    /\ models \in [Models -> Registration]
    /\ clientModels \in [Clients -> [Models -> Nat]]
    /\ clientProvider \in [Clients -> Providers \cup {NoProvider}]

MarksInv == RegistryTypes /\ MarksBelongToClients

\* At the start there is no mark.
LEMMA MarksInit == RegistryInit => MarksInv
<1>. SUFFICES ASSUME RegistryInit PROVE MarksInv
    OBVIOUS
<1>1. RegistryTypes
    BY UnregisteredFacts DEF RegistryInit, RegistryTypes, NoModels
<1>2. MarksBelongToClients
    BY DEF RegistryInit, MarksBelongToClients, Unregistered, Never
<1>. QED BY <1>1, <1>2 DEF MarksInv

\* When no operation on a model adds a mark, and one that changes a client's
\* list of models leaves it unmarked unless it still lists the model, the
\* marks stay with their clients.
LEMMA MarksStay ==
    ASSUME MarksInv, clock' \in Nat \ {0},
           clientModels' \in [Clients -> [Models -> Nat]],
           clientProvider' \in [Clients -> Providers \cup {NoProvider}],
           models' \in [Models -> Registration],
           \A m \in Models, d \in Clients :
              /\ Bears(models'[m], d) => Bears(models[m], d)
              /\ Bears(models'[m], d) /\ clientModels[d][m] > 0
                    => clientModels'[d][m] > 0
    PROVE  MarksInv'
BY DEF MarksInv, RegistryTypes, MarksBelongToClients, Bears

\* Registering, for the first time or again.
LEMMA MarksRegister ==
    ASSUME MarksInv, NEW c \in Clients,
           NEW p \in Providers \cup {NoProvider},
           NEW counts \in [Models -> Nat], RegisterClient(c, p, counts)
    PROVE  MarksInv'
<1>1. RegistryTypes
    BY DEF MarksInv
<1>2. /\ clock' = clock
      /\ clientModels' = [clientModels EXCEPT ![c] = counts]
      /\ clientProvider' = [clientProvider EXCEPT ![c] = p]
    BY DEF RegisterClient
<1>3. /\ clock' \in Nat \ {0}
      /\ clientModels' \in [Clients -> [Models -> Nat]]
      /\ clientProvider' \in [Clients -> Providers \cup {NoProvider}]
    BY <1>1, <1>2 DEF RegistryTypes
<1>4. ASSUME NEW m \in Models
      PROVE  /\ FewerMarks(models[m], models'[m])
             /\ clientModels[c][m] > 0 /\ counts[m] = 0 => ~Bears(models'[m], c)
    <2>1. /\ models[m] \in Registration /\ clientModels[c][m] \in Nat
          /\ clientProvider[c] \in Providers \cup {NoProvider}
          /\ counts[m] \in Nat
        BY <1>1 DEF RegistryTypes
    <2>2. CASE Registered(c)
        <3>1. models'[m] = Reregister(models[m], c, clientModels[c][m],
                                      counts[m], clientProvider[c], p)
            BY <2>2 DEF RegisterClient
        <3>. QED BY <2>1, <3>1, ReregisterFacts
    <2>3. CASE ~Registered(c)
        <3>1. models'[m] = Add(models[m], p, counts[m])
            BY <2>3 DEF RegisterClient
        <3>2. clientModels[c][m] = 0
            BY <2>3 DEF Registered, NoModels
        <3>. QED BY <2>1, <3>1, <3>2, AddFacts
    <2>. QED BY <2>2, <2>3
<1>5. models' \in [Models -> Registration]
    <2>1. models' = [m \in Models |-> models'[m]]
        BY DEF RegisterClient
    <2>. QED BY <1>4, <2>1 DEF FewerMarks
<1>6. ASSUME NEW m \in Models, NEW d \in Clients, Bears(models'[m], d)
      PROVE  /\ Bears(models[m], d)
             /\ clientModels[d][m] > 0 => clientModels'[d][m] > 0
    <2>1. Bears(models[m], d)
        BY <1>4, <1>6 DEF FewerMarks
    <2>2. CASE d = c
        BY <1>1, <1>2, <1>4, <1>6, <2>1, <2>2 DEF RegistryTypes
    <2>3. CASE d # c
        BY <1>1, <1>2, <2>1, <2>3 DEF RegistryTypes
    <2>. QED BY <2>2, <2>3
<1>. QED BY <1>3, <1>5, <1>6, MarksStay

\* Leaving.
LEMMA MarksUnregister ==
    ASSUME MarksInv, NEW c \in Clients, UnregisterClient(c)
    PROVE  MarksInv'
<1>1. RegistryTypes
    BY DEF MarksInv
<1>2. /\ clock' = clock
      /\ clientModels' = [clientModels EXCEPT ![c] = NoModels]
      /\ clientProvider' = [clientProvider EXCEPT ![c] = NoProvider]
    BY DEF UnregisterClient
<1>3. /\ clock' \in Nat \ {0}
      /\ clientModels' \in [Clients -> [Models -> Nat]]
      /\ clientProvider' \in [Clients -> Providers \cup {NoProvider}]
    BY <1>1, <1>2 DEF RegistryTypes, NoModels
<1>4. ASSUME NEW m \in Models
      PROVE  /\ FewerMarks(models[m], models'[m])
             /\ clientModels[c][m] > 0 => ~Bears(models'[m], c)
    <2>1. /\ models[m] \in Registration /\ clientModels[c][m] \in Nat
          /\ clientProvider[c] \in Providers \cup {NoProvider}
        BY <1>1 DEF RegistryTypes
    <2>2. models'[m] = Remove(models[m], c, clientProvider[c],
                              clientModels[c][m])
        BY DEF UnregisterClient
    <2>. QED BY <2>1, <2>2, RemoveFacts
<1>5. models' \in [Models -> Registration]
    <2>1. models' = [m \in Models |-> models'[m]]
        BY DEF UnregisterClient
    <2>. QED BY <1>4, <2>1 DEF FewerMarks
<1>6. ASSUME NEW m \in Models, NEW d \in Clients, Bears(models'[m], d)
      PROVE  /\ Bears(models[m], d)
             /\ clientModels[d][m] > 0 => clientModels'[d][m] > 0
    <2>1. Bears(models[m], d)
        BY <1>4, <1>6 DEF FewerMarks
    <2>2. CASE d = c
        BY <1>4, <1>6, <2>1, <2>2
    <2>3. CASE d # c
        BY <1>1, <1>2, <2>1, <2>3 DEF RegistryTypes
    <2>. QED BY <2>2, <2>3
<1>. QED BY <1>3, <1>5, <1>6, MarksStay

\* A mark is set for a client that serves the model, or results may be late.
LEMMA MarksMark ==
    ASSUME MarksInv, NEW c \in Clients, NEW m \in Models,
           \/ SetModelQuotaExceeded(c, m)
           \/ ClearModelQuotaExceeded(c, m)
           \/ \E reason \in Reasons : SuspendClientModel(c, m, reason)
           \/ ResumeClientModel(c, m)
    PROVE  MarksInv'
<1>1. RegistryTypes /\ MarksBelongToClients
    BY DEF MarksInv
<1>2. /\ UNCHANGED <<clock, clientModels, clientProvider>>
      /\ StrayResults \/ clientModels[c][m] > 0
    BY DEF SetModelQuotaExceeded, ClearModelQuotaExceeded, SuspendClientModel,
           ResumeClientModel, Marks
<1>3. PICK s \in Registration :
         /\ models' = [models EXCEPT ![m] = s]
         /\ \A d \in Clients \ {c} : Bears(s, d) => Bears(models[m], d)
    <2>1. models[m] \in Registration
        BY <1>1 DEF RegistryTypes
    <2>2. ASSUME NEW n \in Nat, models' = [models EXCEPT ![m].quotaAt[c] = n]
          PROVE  \E s \in Registration :
                     /\ models' = [models EXCEPT ![m] = s]
                     /\ \A d \in Clients \ {c} : Bears(s, d) => Bears(models[m], d)
        <3>. DEFINE s == [models[m] EXCEPT !.quotaAt[c] = n]
        <3>1. s \in Registration
            BY <2>1 DEF Registration
        <3>2. \A d \in Clients \ {c} : Bears(s, d) => Bears(models[m], d)
            BY <2>1 DEF Registration, Bears
        <3>3. models' = [models EXCEPT ![m] = s]
            BY <1>1, <2>2 DEF RegistryTypes
        <3>. QED BY <3>1, <3>2, <3>3
    <2>3. ASSUME NEW x \in Reasons \cup {"no"},
                 models' = [models EXCEPT ![m].suspended[c] = x]
          PROVE  \E s \in Registration :
                     /\ models' = [models EXCEPT ![m] = s]
                     /\ \A d \in Clients \ {c} : Bears(s, d) => Bears(models[m], d)
        <3>. DEFINE s == [models[m] EXCEPT !.suspended[c] = x]
        <3>1. s \in Registration
            BY <2>1 DEF Registration
        <3>2. \A d \in Clients \ {c} : Bears(s, d) => Bears(models[m], d)
            BY <2>1 DEF Registration, Bears
        <3>3. models' = [models EXCEPT ![m] = s]
            BY <1>1, <2>3 DEF RegistryTypes
        <3>. QED BY <3>1, <3>2, <3>3
    <2>4. CASE SetModelQuotaExceeded(c, m)
        BY <1>1, <2>2, <2>4 DEF SetModelQuotaExceeded, RegistryTypes
    <2>5. CASE ClearModelQuotaExceeded(c, m)
        BY <2>2, <2>5 DEF ClearModelQuotaExceeded, Never
    <2>6. CASE \E reason \in Reasons : SuspendClientModel(c, m, reason)
        BY <2>3, <2>6 DEF SuspendClientModel
    <2>7. CASE ResumeClientModel(c, m)
        BY <2>3, <2>7 DEF ResumeClientModel
    <2>. QED BY <2>4, <2>5, <2>6, <2>7
<1>4. RegistryTypes'
    BY <1>1, <1>2, <1>3 DEF RegistryTypes
<1>5. MarksBelongToClients'
    <2>. SUFFICES ASSUME ~StrayResults, NEW l \in Models, NEW d \in Clients,
                         Bears(models'[l], d)
                  PROVE  clientModels'[d][l] > 0
        BY DEF MarksBelongToClients, Bears
    <2>1. CASE l = m /\ d = c
        BY <1>2, <2>1
    <2>2. CASE ~(l = m /\ d = c)
        <3>1. Bears(models[l], d)
            BY <1>1, <1>3, <2>2 DEF RegistryTypes
        <3>. QED BY <1>1, <1>2, <3>1 DEF MarksBelongToClients, Bears
    <2>. QED BY <2>1, <2>2
<1>. QED BY <1>4, <1>5 DEF MarksInv

\* Dropping the marks of windows that have ended.
LEMMA MarksCleanup ==
    ASSUME MarksInv, CleanupExpiredQuotas
    PROVE  MarksInv'
<1>. DEFINE old(m) == {c \in Clients : models[m].quotaAt[c] # Never}
                         \ OverQuota(models[m], clock)
            kept(m) == [c \in Clients |-> IF c \in old(m) THEN Never
                                          ELSE models[m].quotaAt[c]]
<1>1. RegistryTypes
    BY DEF MarksInv
<1>2. /\ UNCHANGED <<clock, clientModels, clientProvider>>
      /\ models' = [m \in Models |-> [models[m] EXCEPT !.quotaAt = kept(m)]]
    BY <1>1 DEF CleanupExpiredQuotas, RegistryTypes
<1>3. ASSUME NEW m \in Models PROVE FewerMarks(models[m], models'[m])
    <2>1. /\ models[m] \in Registration
          /\ kept(m) \in [Clients -> Nat]
          /\ \A c \in Clients : kept(m)[c] # Never => models[m].quotaAt[c] # Never
        BY <1>1 DEF RegistryTypes, Registration, Never
    <2>2. models'[m] = [models[m] EXCEPT !.quotaAt = kept(m)]
        BY <1>2
    <2>. HIDE DEF kept
    <2>. QED BY <2>1, <2>2 DEF FewerMarks, Registration, Bears
<1>4. models' \in [Models -> Registration]
    BY <1>2, <1>3 DEF FewerMarks
<1>. QED BY <1>1, <1>2, <1>3, <1>4, MarksStay DEF RegistryTypes, FewerMarks

\* Every operation keeps the marks with their clients.
LEMMA MarksStep == MarksInv /\ [RegistryNext]_registryVars => MarksInv'
<1>. SUFFICES ASSUME MarksInv, [RegistryNext]_registryVars PROVE MarksInv'
    OBVIOUS
<1>1. CASE Registering
    <2>1. \A c \in Clients, p \in Providers \cup {NoProvider},
             counts \in [Models -> 0..MaxCopies] :
             RegisterClient(c, p, counts) => MarksInv'
        <3>1. \A f \in [Models -> 0..MaxCopies] : f \in [Models -> Nat]
            BY RegistryAssumption DEF RegistryAssumption
        <3>. QED BY <3>1, MarksRegister
    <2>. QED BY <1>1, <2>1, MarksUnregister DEF Registering
<1>2. CASE Marking
    BY <1>2, MarksMark, MarksCleanup DEF Marking
<1>3. CASE Reading
    BY <1>3 DEF Reading, StartReading, LookUp, Build, MarksInv, RegistryTypes,
                MarksBelongToClients
<1>4. CASE Pass
    BY <1>4 DEF Pass, MarksInv, RegistryTypes, MarksBelongToClients
<1>5. CASE UNCHANGED registryVars
    BY <1>5 DEF registryVars, MarksInv, RegistryTypes, MarksBelongToClients
<1>. QED BY <1>1, <1>2, <1>3, <1>4, <1>5 DEF RegistryNext

\* Whichever way clients come, register again and go, a mark on a model
\* belongs to a client that serves it, as long as no result arrives late.
THEOREM MarksStayWithClients == RegistrySpec => []MarksBelongToClients
<1>1. MarksInv => MarksBelongToClients
    BY DEF MarksInv
<1>. QED BY <1>1, MarksInit, MarksStep, PTL DEF RegistrySpec

-----------------------------------------------------------------------------
(* The cached list.                                                        *)

\* A cached list was built for an instant that has come, and a call that is
\* under way has read its clock.
CacheInv ==
    /\ RegistryTypes
    /\ reader.pc # "idle" => reader.at \in 1..clock
    /\ cache.present =>
          \E t \in 1..clock : /\ cache.listed = AvailableModels(t)
                              /\ cache.expiresAt = FirstRecovery(t)

\* Until the first window closes no client comes back.
LEMMA SameQuotas ==
    ASSUME RegistryTypes, NEW t \in Nat \ {0}, NEW u \in Nat, t <= u,
           FirstRecovery(t) = Never \/ u < FirstRecovery(t),
           NEW m \in Models
    PROVE  OverQuota(models[m], u) = OverQuota(models[m], t)
<1>1. /\ Window \in Nat \ {0}
      /\ \A l \in Models, c \in Clients : models[l].quotaAt[c] \in Nat
    BY RegistryAssumption DEF RegistryAssumption, RegistryTypes, Registration
<1>2. WindowEnds(t) \in SUBSET Nat
    BY <1>1 DEF WindowEnds, OverQuota
<1>3. \A e \in WindowEnds(t) : t < e
    BY <1>1 DEF WindowEnds, OverQuota
<1>4. \A e \in WindowEnds(t) : u < e
    <2>1. CASE WindowEnds(t) = {}
        BY <2>1
    <2>2. CASE WindowEnds(t) # {}
        <3>1. FirstRecovery(t) = Min(WindowEnds(t))
            BY <2>2 DEF FirstRecovery
        <3>2. \E e \in WindowEnds(t) : \A f \in WindowEnds(t) : e <= f
            BY <1>2, <2>2, NatMinimum
        <3>3. /\ Min(WindowEnds(t)) \in WindowEnds(t)
              /\ \A f \in WindowEnds(t) : Min(WindowEnds(t)) <= f
            BY <3>2 DEF Min
        <3>4. u < FirstRecovery(t)
            BY <1>2, <1>3, <3>1, <3>3 DEF Never
        <3>. QED BY <1>2, <3>1, <3>3, <3>4
    <2>. QED BY <2>1, <2>2
<1>5. \A c \in OverQuota(models[m], t) :
          models[m].quotaAt[c] + Window \in WindowEnds(t)
    BY DEF WindowEnds
<1>6. ASSUME NEW c \in Clients
      PROVE  c \in OverQuota(models[m], u) <=> c \in OverQuota(models[m], t)
    BY <1>1, <1>4, <1>5 DEF OverQuota
<1>. QED BY <1>6 DEF OverQuota

\* A list built for an instant is the list of any later one before it expires.
LEMMA SameList ==
    ASSUME RegistryTypes, NEW t \in Nat \ {0}, NEW u \in Nat, t <= u,
           FirstRecovery(t) = Never \/ u < FirstRecovery(t)
    PROVE  AvailableModels(u) = AvailableModels(t)
<1>1. \A m \in Models : OverQuota(models[m], u) = OverQuota(models[m], t)
    BY SameQuotas
<1>2. \A m \in Models : Listed(models[m], u) = Listed(models[m], t)
    BY <1>1 DEF Listed
<1>. QED BY <1>2 DEF AvailableModels

\* Whoever changes a registration drops the list; filling it uses the clock
\* that the call read.
LEMMA CacheStep ==
    MarksInv /\ MarksInv' /\ CacheInv /\ [RegistryNext]_registryVars => CacheInv'
<1>. SUFFICES ASSUME MarksInv', CacheInv, [RegistryNext]_registryVars
              PROVE  CacheInv'
    OBVIOUS
<1>1. RegistryTypes /\ RegistryTypes' /\ clock \in Nat \ {0}
    BY DEF MarksInv, CacheInv, RegistryTypes
<1>2. CASE cache' = NoCache /\ UNCHANGED <<clock, reader>>
    BY <1>1, <1>2 DEF CacheInv, NoCache
<1>3. CASE Registering
    BY <1>2, <1>3 DEF Registering, RegisterClient, UnregisterClient
<1>4. CASE Marking
    BY <1>2, <1>4 DEF Marking, SetModelQuotaExceeded, ClearModelQuotaExceeded,
       SuspendClientModel, ResumeClientModel, CleanupExpiredQuotas, Marks
<1>5. ASSUME UNCHANGED models
      PROVE  \A t \in Nat : /\ AvailableModels(t)' = AvailableModels(t)
                            /\ FirstRecovery(t)' = FirstRecovery(t)
    BY <1>5 DEF AvailableModels, FirstRecovery, WindowEnds
<1>6. CASE StartReading
    BY <1>1, <1>5, <1>6 DEF StartReading, CacheInv
<1>7. CASE LookUp
    BY <1>1, <1>5, <1>7 DEF LookUp, CacheInv, NoReader
<1>8. CASE Build
    BY <1>1, <1>5, <1>8 DEF Build, CacheInv, NoReader
<1>9. CASE Pass
    BY <1>1, <1>5, <1>9 DEF Pass, CacheInv
<1>10. CASE UNCHANGED registryVars
    BY <1>1, <1>5, <1>10 DEF registryVars, CacheInv
<1>. QED BY <1>3, <1>4, <1>6, <1>7, <1>8, <1>9, <1>10 DEF RegistryNext, Reading

\* A list that is answered from the cache is the list that would be built,
\* however long ago it was built and with however old a clock.
THEOREM CacheStaysFresh == RegistrySpec => []CacheIsFresh
<1>1. RegistryInit => CacheInv
    BY MarksInit DEF MarksInv, RegistryInit, CacheInv, NoCache, NoReader
<1>2. CacheInv => CacheIsFresh
    <2>. SUFFICES ASSUME CacheInv, Valid(clock)
                  PROVE  cache.listed = AvailableModels(clock)
        BY DEF CacheIsFresh
    <2>1. PICK t \in 1..clock : /\ cache.listed = AvailableModels(t)
                                /\ cache.expiresAt = FirstRecovery(t)
        BY DEF CacheInv, Valid
    <2>2. RegistryTypes /\ clock \in Nat \ {0}
        BY DEF CacheInv, RegistryTypes
    <2>3. FirstRecovery(t) = Never \/ clock < FirstRecovery(t)
        BY <2>1 DEF Valid
    <2>. QED BY <2>1, <2>2, <2>3, SameList
<1>. QED BY <1>1, <1>2, MarksInit, MarksStep, CacheStep, PTL DEF RegistrySpec

-----------------------------------------------------------------------------
(* Counters.                                                               *)

\* r counts k registrations, by provider those of f.
Counts(r, k, f) ==
    /\ r.count = k /\ r.providers = f
    /\ r.infoBy = {x \in Providers : f[x] > 0}

\* Those of other clients, by provider, and n registrations of provider p.
With(b, p, n) == [x \in Providers |-> b[x] + IF x = p THEN n ELSE 0]

LEMMA WithTyped ==
    ASSUME NEW b \in [Providers -> Nat], NEW p, NEW n \in Nat
    PROVE  With(b, p, n) \in [Providers -> Nat]
BY DEF With

LEMMA WithNone ==
    ASSUME NEW b \in [Providers -> Nat], NEW p, NEW q
    PROVE  With(b, p, 0) = With(b, q, 0)
BY DEF With

\* What the operations on one registration do to its counters.
LEMMA UnmarkCounts ==
    ASSUME NEW r \in Registration, NEW c \in Clients, NEW k, NEW f, Counts(r, k, f)
    PROVE  Unmark(r, c) \in Registration /\ Counts(Unmark(r, c), k, f)
<1>1. Unmark(r, c) \in Registration
    BY UnmarkFacts DEF FewerMarks
<1>2. /\ Unmark(r, c).count = r.count /\ Unmark(r, c).providers = r.providers
      /\ Unmark(r, c).infoBy = r.infoBy
    BY DEF Unmark, Registration
<1>. QED BY <1>1, <1>2 DEF Counts

LEMMA UncountCounts ==
    ASSUME NEW r \in Registration, NEW p \in Providers \cup {NoProvider},
           NEW b \in [Providers -> Nat], NEW k \in Nat, NEW j \in Nat,
           NEW n \in 0..j, Counts(r, k, With(b, p, j))
    PROVE  /\ Uncount(r, p, n) \in Registration
           /\ Counts(Uncount(r, p, n), k, With(b, p, j - n))
<1>1. Uncount(r, p, n) \in Registration
    BY UncountFacts DEF FewerMarks
<1>2. CASE p = NoProvider
    <2>1. With(b, p, j) = With(b, p, j - n)
        BY <1>2, RegistryAssumption DEF With, RegistryAssumption
    <2>. QED BY <1>1, <1>2, <2>1 DEF Uncount
<1>3. CASE n = 0
    BY <1>1, <1>3 DEF Uncount
<1>4. CASE p \in Providers /\ n # 0
    <2>. DEFINE f == With(b, p, j)
                g == With(b, p, j - n)
    <2>1. f[p] = b[p] + j /\ g[p] = b[p] + (j - n) /\ b[p] \in Nat
        BY <1>4 DEF With
    <2>2. /\ \A x \in Providers \ {p} : f[x] = g[x]
          /\ f \in [Providers -> Nat] /\ g \in [Providers -> Nat]
        BY DEF With
    <2>. DEFINE v == IF f[p] <= n THEN 0 ELSE f[p] - n
                i == IF f[p] <= n THEN r.infoBy \ {p} ELSE r.infoBy
    <2>3. v = g[p]
        BY <2>1
    <2>. HIDE DEF f, g
    <2>4. r.providers = f /\ r.count = k /\ r.infoBy = {x \in Providers : f[x] > 0}
        BY DEF Counts, f
    <2>5. p # NoProvider
        BY <1>4, RegistryAssumption DEF RegistryAssumption
    <2>6. Uncount(r, p, n) = [r EXCEPT !.providers = [f EXCEPT ![p] = v], !.infoBy = i]
        BY <1>4, <2>4, <2>5 DEF Uncount, Registration
    <2>7. [f EXCEPT ![p] = v] = g
        BY <1>4, <2>2, <2>3
    <2>8. i = {x \in Providers : g[x] > 0}
        <3>1. f[p] <= n <=> g[p] = 0
            BY <2>1
        <3>2. f[p] > 0
            BY <1>4, <2>1
        <3>. QED BY <1>4, <2>2, <2>4, <3>1, <3>2
    <2>. HIDE DEF v, i
    <2>. QED BY <1>1, <2>4, <2>6, <2>7, <2>8 DEF Counts, Registration, g
<1>. QED BY <1>2, <1>3, <1>4

LEMMA AddCounts ==
    ASSUME NEW r \in Registration, NEW p \in Providers \cup {NoProvider},
           NEW b \in [Providers -> Nat], NEW k \in Nat, NEW j \in Nat,
           NEW n \in Nat, Counts(r, k, With(b, p, j))
    PROVE  /\ Add(r, p, n) \in Registration
           /\ Counts(Add(r, p, n), k + n, With(b, p, j + n))
<1>1. Add(r, p, n) \in Registration
    BY AddFacts DEF FewerMarks
<1>2. CASE n = 0
    BY <1>1, <1>2 DEF Add
<1>3. CASE n # 0 /\ p = NoProvider
    <2>1. With(b, p, j) = With(b, p, j + n)
        BY <1>3, RegistryAssumption DEF With, RegistryAssumption
    <2>2. Add(r, p, n) = [r EXCEPT !.count = r.count + n]
        BY <1>3 DEF Add, Registration
    <2>. QED BY <1>1, <2>1, <2>2 DEF Counts, Registration
<1>4. CASE n # 0 /\ p \in Providers
    <2>. DEFINE f == With(b, p, j)
                g == With(b, p, j + n)
    <2>1. f[p] = b[p] + j /\ g[p] = b[p] + (j + n) /\ b[p] \in Nat
        BY <1>4 DEF With
    <2>2. /\ \A x \in Providers \ {p} : f[x] = g[x]
          /\ f \in [Providers -> Nat] /\ g \in [Providers -> Nat]
        BY DEF With
    <2>. HIDE DEF f, g
    <2>3. r.providers = f /\ r.count = k /\ r.infoBy = {x \in Providers : f[x] > 0}
        BY DEF Counts, f
    <2>4. p # NoProvider
        BY <1>4, RegistryAssumption DEF RegistryAssumption
    <2>5. [f EXCEPT ![p] = f[p] + n] = g
        BY <1>4, <2>1, <2>2
    <2>. DEFINE i == r.infoBy \cup {p}
                h == r.count + n
    <2>6. Add(r, p, n) = [r EXCEPT !.count = h, !.providers = g, !.infoBy = i]
        BY <1>4, <2>3, <2>4, <2>5 DEF Add, Registration
    <2>7. i = {x \in Providers : g[x] > 0}
        <3>1. g[p] > 0
            BY <1>4, <2>1
        <3>. QED BY <1>4, <2>2, <2>3, <3>1
    <2>8. h = k + n
        BY <2>3
    <2>. HIDE DEF i, h
    <2>. QED BY <1>1, <2>6, <2>7, <2>8 DEF Counts, Registration, g
<1>. QED BY <1>2, <1>3, <1>4

\* Only when no registration is left at all is the entry dropped.
LEMMA RemoveCounts ==
    ASSUME NEW r \in Registration, NEW c \in Clients,
           NEW p \in Providers \cup {NoProvider},
           NEW b \in [Providers -> Nat], NEW k \in Nat, NEW j \in Nat,
           NEW n \in 0..j, n <= k, Counts(r, k, With(b, p, j)),
           k = n => j = n /\ \A x \in Providers : b[x] = 0
    PROVE  /\ Remove(r, c, p, n) \in Registration
           /\ Counts(Remove(r, c, p, n), k - n, With(b, p, j - n))
<1>1. Remove(r, c, p, n) \in Registration
    BY RemoveFacts DEF FewerMarks
<1>2. r.count = k
    BY DEF Counts
<1>3. CASE n = 0
    BY <1>1, <1>3 DEF Remove
<1>4. CASE n # 0 /\ k <= n
    <2>1. k = n /\ j = n
        BY <1>4
    <2>2. Remove(r, c, p, n) = Unregistered
        BY <1>2, <1>4 DEF Remove
    <2>3. With(b, p, j - n) = [x \in Providers |-> 0]
        BY <2>1 DEF With
    <2>4. {x \in Providers : [y \in Providers |-> 0][x] > 0} = {}
        OBVIOUS
    <2>. QED BY <1>1, <2>1, <2>2, <2>3, <2>4 DEF Counts, Unregistered
<1>5. CASE n # 0 /\ ~(k <= n)
    <2>. DEFINE s == Unmark(r, c)
                t == Uncount(s, p, n)
    <2>1. s \in Registration /\ Counts(s, k, With(b, p, j))
        BY UnmarkCounts
    <2>. HIDE DEF s
    <2>2. t \in Registration /\ Counts(t, k, With(b, p, j - n))
        BY <2>1, UncountCounts
    <2>3. t.count = r.count
        BY <1>2, <2>2 DEF Counts
    <2>4. Remove(r, c, p, n) = [t EXCEPT !.count = r.count - n]
        BY <1>2, <1>5, <2>2, <2>3 DEF Remove, s, Registration
    <2>. HIDE DEF t
    <2>. QED BY <1>1, <1>2, <2>2, <2>4 DEF Counts, Registration
<1>. QED BY <1>3, <1>4, <1>5

\* Registering again moves the counters to the new list and provider.
LEMMA ReregisterCounts ==
    ASSUME NEW r \in Registration, NEW c \in Clients,
           NEW old \in Nat, NEW new \in Nat,
           NEW p \in Providers \cup {NoProvider},
           NEW q \in Providers \cup {NoProvider},
           NEW b \in [Providers -> Nat], NEW a \in Nat,
           \A x \in Providers : b[x] <= a,
           Counts(r, a + old, With(b, p, old))
    PROVE  /\ Reregister(r, c, old, new, p, q) \in Registration
           /\ Counts(Reregister(r, c, old, new, p, q), a + new, With(b, q, new))
<1>. DEFINE kept    == Least(old, new)
            rest    == IF p # q THEN old - kept ELSE old
            stay    == IF p # q THEN 0 ELSE kept
            moved   == IF p # q THEN Uncount(r, p, kept) ELSE r
            smaller == Remove(moved, c, p, old - kept)
            resized == Add(smaller, q, new - kept)
            fresh   == IF new > 0 THEN Unmark(resized, c) ELSE resized
            final   == Reregister(r, c, old, new, p, q)
<1>1. /\ kept \in Nat /\ old - kept \in Nat /\ new - kept \in Nat
      /\ kept \in 0..old
      /\ new = 0 => kept = 0
      /\ rest \in Nat /\ old - kept \in 0..rest /\ rest - (old - kept) = stay
      /\ stay \in Nat
    BY DEF Least
<1>. HIDE DEF kept
<1>2. moved \in Registration /\ Counts(moved, a + old, With(b, p, rest))
    <2>1. CASE p # q
        <3>1. moved = Uncount(r, p, kept) /\ rest = old - kept /\ a + old \in Nat
            BY <2>1
        <3>. HIDE DEF moved, rest
        <3>. QED BY <1>1, <3>1, UncountCounts
    <2>2. CASE p = q
        <3>1. moved = r /\ rest = old
            BY <2>2
        <3>. HIDE DEF moved, rest
        <3>. QED BY <3>1
    <2>. QED BY <2>1, <2>2
<1>3. ASSUME a + old = old - kept
      PROVE  rest = old - kept /\ \A x \in Providers : b[x] = 0
    <2>1. a = 0 /\ kept = 0
        BY <1>1, <1>3
    <2>. QED BY <2>1
<1>. HIDE DEF moved, rest
<1>4. smaller \in Registration
      /\ Counts(smaller, a + old - (old - kept), With(b, p, rest - (old - kept)))
    <2>1. a + old \in Nat /\ old - kept <= a + old
        BY <1>1
    <2>. QED BY <1>1, <1>2, <1>3, <2>1, RemoveCounts
<1>5. a + old - (old - kept) = a + kept
    BY <1>1
<1>6. smaller \in Registration /\ Counts(smaller, a + kept, With(b, q, stay))
    <2>1. With(b, p, rest - (old - kept)) = With(b, q, stay)
        BY <1>1, WithNone DEF stay
    <2>. QED BY <1>4, <1>5, <2>1
<1>. HIDE DEF smaller, stay
<1>7. resized \in Registration
      /\ Counts(resized, a + kept + (new - kept), With(b, q, stay + (new - kept)))
    <2>1. a + kept \in Nat
        BY <1>1
    <2>2. resized = Add(smaller, q, new - kept)
        OBVIOUS
    <2>. HIDE DEF resized
    <2>. QED BY <1>1, <1>6, <2>1, <2>2, AddCounts
<1>8. a + kept + (new - kept) = a + new
    BY <1>1
<1>. DEFINE f == With(b, q, stay + (new - kept))
            g == With(b, q, new)
<1>9. resized \in Registration /\ Counts(resized, a + new, f)
    BY <1>7, <1>8
<1>. HIDE DEF resized
<1>10. fresh \in Registration /\ Counts(fresh, a + new, f)
    BY <1>9, UnmarkCounts
<1>. HIDE DEF fresh
<1>11. final = IF new > 0 /\ q # NoProvider
              THEN [fresh EXCEPT !.infoBy = @ \cup {q},
                                 !.providers[q] = @ + IF p # q THEN kept ELSE 0]
              ELSE fresh
    BY DEF Reregister, fresh, resized, smaller, moved, kept
<1>12. final \in Registration
    BY ReregisterFacts DEF FewerMarks
<1>. HIDE DEF final
<1>13. CASE new > 0 /\ q # NoProvider
    <2>. DEFINE k == IF p # q THEN kept ELSE 0
    <2>1. q \in Providers
        BY <1>13
    <2>2. f[q] + k = g[q] /\ g[q] > 0
        <3>1. f[q] = b[q] + (stay + (new - kept)) /\ g[q] = b[q] + new /\ b[q] \in Nat
            BY <2>1 DEF With
        <3>. QED BY <1>1, <1>13, <3>1 DEF stay
    <2>3. \A x \in Providers \ {q} : f[x] = g[x]
        BY DEF With
    <2>4. f \in [Providers -> Nat] /\ g \in [Providers -> Nat]
        BY <1>1, WithTyped
    <2>. HIDE DEF f, g, k
    <2>5. fresh.providers = f /\ fresh.infoBy = {x \in Providers : f[x] > 0}
          /\ fresh.count = a + new
        BY <1>10 DEF Counts
    <2>6. final = [fresh EXCEPT !.infoBy = fresh.infoBy \cup {q},
                                !.providers = [f EXCEPT ![q] = f[q] + k]]
        BY <1>10, <1>11, <1>13, <2>5 DEF k, Registration
    <2>7. [f EXCEPT ![q] = f[q] + k] = g
        BY <2>1, <2>2, <2>3, <2>4
    <2>8. fresh.infoBy \cup {q} = {x \in Providers : g[x] > 0}
        BY <2>1, <2>2, <2>3, <2>5
    <2>9. final.count = a + new /\ final.providers = g
          /\ final.infoBy = {x \in Providers : g[x] > 0}
        BY <1>10, <2>5, <2>6, <2>7, <2>8 DEF Registration
    <2>10. Counts(final, a + new, g)
        BY <2>9 DEF Counts
    <2>. QED BY <1>12, <2>10 DEF final, g
<1>14. CASE ~(new > 0 /\ q # NoProvider)
    <2>1. f = g
        <3>1. CASE new = 0
            <4>1. stay + (new - kept) = new
                BY <1>1, <3>1 DEF stay
            <4>. QED BY <4>1
        <3>2. CASE q = NoProvider
            BY <3>2, RegistryAssumption DEF With, RegistryAssumption
        <3>. QED BY <1>14, <3>1, <3>2
    <2>. HIDE DEF f, g
    <2>2. Counts(final, a + new, g)
        BY <1>10, <1>11, <1>14, <2>1
    <2>. QED BY <1>12, <2>2 DEF final, g
<1>. QED BY <1>13, <1>14

-----------------------------------------------------------------------------
(* CountsAreRegistrations                                                  *)

Lists == [Clients -> [Models -> 0..MaxCopies]]

\* Registrations, for any lists of models; and the clients of a provider.
Regs(L, m, S) == {r \in S \X (1..MaxCopies) : r[2] <= L[r[1]][m]}
Of(P, x) == {d \in Clients : P[d] = x}

\* What clients other than c have registered, in total and by provider.
Others(L, m, c) == Cardinality(Regs(L, m, Clients \ {c}))
OthersOf(L, P, m, c) ==
    [x \in Providers |-> Cardinality(Regs(L, m, Of(P, x) \ {c}))]

\* A client counts as often as it lists the model.
LEMMA RegsSplit ==
    ASSUME NEW L \in Lists, NEW m \in Models, NEW S \in SUBSET Clients,
           NEW c \in S, IsFiniteSet(Regs(L, m, S \ {c}))
    PROVE  /\ IsFiniteSet(Regs(L, m, S))
           /\ Cardinality(Regs(L, m, S))
                 = Cardinality(Regs(L, m, S \ {c})) + L[c][m]
<1>. DEFINE n == L[c][m]
            T == {<<c, i>> : i \in 1..n}
            f == [i \in 1..n |-> <<c, i>>]
<1>1. n \in 0..MaxCopies /\ n \in Nat /\ MaxCopies \in Nat
    BY RegistryAssumption DEF Lists, RegistryAssumption
<1>2. IsFiniteSet(T) /\ Cardinality(T) = n
    <2>1. IsFiniteSet(1..n) /\ Cardinality(1..n) = n
        <3>. HIDE DEF n
        <3>1. IsFiniteSet(1..n) /\ Cardinality(1..n) = IF 1 > n THEN 0 ELSE n - 1 + 1
            BY <1>1, FS_Interval
        <3>. QED BY <1>1, <3>1
    <2>2. f \in Bijection(1..n, T)
        <3>1. f \in [1..n -> T]
            OBVIOUS
        <3>2. \A i, j \in 1..n : f[i] = f[j] => i = j
            OBVIOUS
        <3>3. \A t \in T : \E i \in 1..n : f[i] = t
            OBVIOUS
        <3>. HIDE DEF f, T
        <3>. QED BY <3>1, <3>2, <3>3, Fun_IsBij
    <2>3. ExistsBijection(1..n, T)
        BY <2>2 DEF ExistsBijection
    <2>. HIDE DEF T
    <2>. QED BY <2>1, <2>3, FS_Bijection
<1>3. Regs(L, m, S) = Regs(L, m, S \ {c}) \cup T
    <2>1. ASSUME NEW r \in Regs(L, m, S) PROVE r \in Regs(L, m, S \ {c}) \cup T
        <3>1. PICK d \in S : \E i \in 1..MaxCopies : r = <<d, i>>
            BY DEF Regs
        <3>2. PICK i \in 1..MaxCopies : r = <<d, i>>
            BY <3>1
        <3>3. i <= L[d][m]
            BY <3>2 DEF Regs
        <3>4. CASE d = c
            <4>1. i \in 1..n
                BY <1>1, <3>3, <3>4
            <4>. QED BY <3>2, <3>4, <4>1
        <3>5. CASE d # c
            BY <3>2, <3>3, <3>5 DEF Regs
        <3>. QED BY <3>4, <3>5
    <2>2. Regs(L, m, S \ {c}) \subseteq Regs(L, m, S)
        BY DEF Regs
    <2>3. ASSUME NEW i \in 1..n PROVE <<c, i>> \in Regs(L, m, S)
        <3>1. i \in 1..MaxCopies /\ i <= L[c][m]
            BY <1>1
        <3>. QED BY <3>1 DEF Regs
    <2>. QED BY <2>1, <2>2, <2>3
<1>4. Regs(L, m, S \ {c}) \cap T = {}
    BY DEF Regs
<1>. HIDE DEF n, T
<1>5. Cardinality(Regs(L, m, S \ {c})) \in Nat
    BY FS_CardinalityType
<1>6. Cardinality({}) = 0
    BY FS_EmptySet
<1>7. IsFiniteSet(Regs(L, m, S \ {c}) \cup T)
      /\ Cardinality(Regs(L, m, S \ {c}) \cup T)
           = Cardinality(Regs(L, m, S \ {c})) + n - 0
    BY <1>2, <1>4, <1>6, FS_Union
<1>. QED BY <1>1, <1>3, <1>5, <1>7 DEF n

LEMMA RegsSame ==
    ASSUME NEW L \in Lists, NEW K \in Lists, NEW m \in Models,
           NEW S \in SUBSET Clients, \A d \in S : L[d] = K[d]
    PROVE  Regs(L, m, S) = Regs(K, m, S)
BY DEF Regs

\* The registrations are those of one client and those of the others.
Divided(L, P, m, c) ==
    /\ IsFiniteSet(Regs(L, m, Clients))
    /\ Others(L, m, c) \in Nat
    /\ OthersOf(L, P, m, c) \in [Providers -> Nat]
    /\ \A x \in Providers : OthersOf(L, P, m, c)[x] <= Others(L, m, c)
    /\ Cardinality(Regs(L, m, Clients)) = Others(L, m, c) + L[c][m]
    /\ [x \in Providers |-> Cardinality(Regs(L, m, Of(P, x)))]
           = With(OthersOf(L, P, m, c), P[c], L[c][m])

LEMMA Tally ==
    ASSUME NEW L \in Lists, NEW P \in [Clients -> Providers \cup {NoProvider}],
           NEW m \in Models, NEW c \in Clients,
           IsFiniteSet(Regs(L, m, Clients \ {c}))
    PROVE  Divided(L, P, m, c)
<1>1. /\ IsFiniteSet(Regs(L, m, Clients))
      /\ Cardinality(Regs(L, m, Clients)) = Others(L, m, c) + L[c][m]
    BY RegsSplit DEF Others
<1>2. Others(L, m, c) \in Nat
    BY FS_CardinalityType DEF Others
<1>3. ASSUME NEW x \in Providers
      PROVE  /\ IsFiniteSet(Regs(L, m, Of(P, x) \ {c}))
             /\ Cardinality(Regs(L, m, Of(P, x) \ {c})) \in Nat
             /\ Cardinality(Regs(L, m, Of(P, x) \ {c})) <= Others(L, m, c)
    <2>1. Regs(L, m, Of(P, x) \ {c}) \in SUBSET Regs(L, m, Clients \ {c})
        BY DEF Regs, Of
    <2>. QED BY <2>1, FS_Subset, FS_CardinalityType DEF Others
<1>4. ASSUME NEW x \in Providers
      PROVE  Cardinality(Regs(L, m, Of(P, x)))
                 = OthersOf(L, P, m, c)[x] + IF x = P[c] THEN L[c][m] ELSE 0
    <2>1. CASE x = P[c]
        <3>1. c \in Of(P, x) /\ Of(P, x) \in SUBSET Clients
            BY <2>1 DEF Of
        <3>2. Cardinality(Regs(L, m, Of(P, x)))
                  = Cardinality(Regs(L, m, Of(P, x) \ {c})) + L[c][m]
            BY <1>3, <3>1, RegsSplit
        <3>. QED BY <2>1, <3>2 DEF OthersOf
    <2>2. CASE x # P[c]
        <3>1. Of(P, x) \ {c} = Of(P, x)
            BY <2>2 DEF Of
        <3>2. OthersOf(L, P, m, c)[x] = Cardinality(Regs(L, m, Of(P, x)))
            BY <3>1 DEF OthersOf
        <3>3. OthersOf(L, P, m, c)[x] \in Nat
            BY <1>3 DEF OthersOf
        <3>. QED BY <2>2, <3>2, <3>3
    <2>. QED BY <2>1, <2>2
<1>5. /\ OthersOf(L, P, m, c) \in [Providers -> Nat]
      /\ \A x \in Providers : OthersOf(L, P, m, c)[x] <= Others(L, m, c)
    BY <1>3 DEF OthersOf
<1>6. [x \in Providers |-> Cardinality(Regs(L, m, Of(P, x)))]
          = With(OthersOf(L, P, m, c), P[c], L[c][m])
    BY <1>4 DEF With
<1>. QED BY <1>1, <1>2, <1>5, <1>6 DEF Divided

\* r counts the registrations of model m.
Tallied(r, L, P, m) ==
    /\ IsFiniteSet(Regs(L, m, Clients))
    /\ Counts(r, Cardinality(Regs(L, m, Clients)),
              [x \in Providers |-> Cardinality(Regs(L, m, Of(P, x)))])

CountInv ==
    /\ RegistryTypeOK
    /\ \A m \in Models : Tallied(models[m], clientModels, clientProvider, m)

\* When one client changes its list and its provider, only what it has
\* registered moves.
LEMMA TallyMoves ==
    ASSUME NEW L \in Lists, NEW P \in [Clients -> Providers \cup {NoProvider}],
           NEW m \in Models, NEW c \in Clients,
           NEW counts \in [Models -> 0..MaxCopies],
           NEW q \in Providers \cup {NoProvider}, NEW r, NEW s,
           Tallied(r, L, P, m),
           Counts(r, Others(L, m, c) + L[c][m],
                  With(OthersOf(L, P, m, c), P[c], L[c][m]))
             => Counts(s, Others(L, m, c) + counts[m],
                       With(OthersOf(L, P, m, c), q, counts[m]))
    PROVE  Tallied(s, [L EXCEPT ![c] = counts], [P EXCEPT ![c] = q], m)
<1>. DEFINE K == [L EXCEPT ![c] = counts]
            Q == [P EXCEPT ![c] = q]
<1>1. /\ K \in Lists /\ Q \in [Clients -> Providers \cup {NoProvider}]
      /\ K[c] = counts /\ Q[c] = q
      /\ \A d \in Clients \ {c} : K[d] = L[d]
    BY DEF Lists
<1>2. \A x \in Providers : Of(Q, x) \ {c} = Of(P, x) \ {c}
    BY DEF Of
<1>. HIDE DEF K, Q
<1>3. Regs(K, m, Clients \ {c}) = Regs(L, m, Clients \ {c})
    BY <1>1, RegsSame
<1>4. ASSUME NEW x \in Providers
      PROVE  Regs(K, m, Of(Q, x) \ {c}) = Regs(L, m, Of(P, x) \ {c})
    <2>1. Regs(K, m, Of(P, x) \ {c}) = Regs(L, m, Of(P, x) \ {c})
        <3>1. /\ Of(P, x) \ {c} \in SUBSET Clients
              /\ \A d \in Of(P, x) \ {c} : K[d] = L[d]
            BY <1>1 DEF Of
        <3>. QED BY <1>1, <3>1, RegsSame
    <2>. QED BY <1>2, <2>1
<1>5. Others(K, m, c) = Others(L, m, c)
    BY <1>3 DEF Others
<1>6. OthersOf(K, Q, m, c) = OthersOf(L, P, m, c)
    BY <1>4 DEF OthersOf
<1>7. IsFiniteSet(Regs(L, m, Clients \ {c}))
    <2>1. Regs(L, m, Clients \ {c}) \in SUBSET Regs(L, m, Clients)
        BY DEF Regs
    <2>. QED BY <2>1, FS_Subset DEF Tallied
<1>8. Counts(r, Others(L, m, c) + L[c][m],
             With(OthersOf(L, P, m, c), P[c], L[c][m]))
    <2>1. Divided(L, P, m, c)
        BY <1>7, Tally
    <2>. QED BY <2>1 DEF Divided, Tallied
<1>9. Counts(s, Others(K, m, c) + K[c][m], With(OthersOf(K, Q, m, c), Q[c], K[c][m]))
    BY <1>1, <1>5, <1>6, <1>8
<1>10. IsFiniteSet(Regs(K, m, Clients \ {c}))
    BY <1>3, <1>7
<1>11. /\ IsFiniteSet(Regs(K, m, Clients))
       /\ Cardinality(Regs(K, m, Clients)) = Others(K, m, c) + K[c][m]
       /\ [x \in Providers |-> Cardinality(Regs(K, m, Of(Q, x)))]
              = With(OthersOf(K, Q, m, c), Q[c], K[c][m])
    <2>1. Divided(K, Q, m, c)
        BY <1>1, <1>10, Tally
    <2>. QED BY <2>1 DEF Divided
<1>12. Tallied(s, K, Q, m)
    BY <1>9, <1>11 DEF Tallied
<1>. QED BY <1>12 DEF K, Q

LEMMA OthersTyped ==
    ASSUME NEW L \in Lists, NEW P \in [Clients -> Providers \cup {NoProvider}],
           NEW m \in Models, NEW c \in Clients, NEW r, Tallied(r, L, P, m)
    PROVE  /\ Others(L, m, c) \in Nat
           /\ OthersOf(L, P, m, c) \in [Providers -> Nat]
           /\ \A x \in Providers : OthersOf(L, P, m, c)[x] <= Others(L, m, c)
<1>1. Regs(L, m, Clients \ {c}) \in SUBSET Regs(L, m, Clients)
    BY DEF Regs
<1>2. IsFiniteSet(Regs(L, m, Clients \ {c}))
    BY <1>1, FS_Subset DEF Tallied
<1>3. Divided(L, P, m, c)
    BY <1>2, Tally
<1>. QED BY <1>3 DEF Divided

\* The registry with its registrations exchanged; the list is dropped.
LEMMA CountsMove ==
    ASSUME CountInv, NEW c \in Clients,
           NEW counts \in [Models -> 0..MaxCopies],
           NEW q \in Providers \cup {NoProvider},
           clientModels' = [clientModels EXCEPT ![c] = counts],
           clientProvider' = [clientProvider EXCEPT ![c] = q],
           DOMAIN models' = Models, models' = [m \in Models |-> models'[m]],
           cache' = NoCache, UNCHANGED <<clock, reader>>,
           \A m \in Models :
              /\ models'[m] \in Registration
              /\ Tallied(models'[m], [clientModels EXCEPT ![c] = counts],
                         [clientProvider EXCEPT ![c] = q], m)
    PROVE  CountInv'
<1>1. RegistryTypeOK'
    <2>1. models' \in [Models -> Registration]
        OBVIOUS
    <2>2. /\ clientModels' \in [Clients -> [Models -> 0..MaxCopies]]
          /\ clientProvider' \in [Clients -> Providers \cup {NoProvider}]
        BY DEF CountInv, RegistryTypeOK
    <2>3. cache' \in [present : BOOLEAN, listed : SUBSET Models, expiresAt : Nat]
        BY DEF NoCache, Never
    <2>. QED BY <2>1, <2>2, <2>3 DEF CountInv, RegistryTypeOK
<1>. QED BY <1>1 DEF CountInv

\* Registering, for the first time or again.
LEMMA CountsRegister ==
    ASSUME CountInv, NEW c \in Clients, NEW q \in Providers \cup {NoProvider},
           NEW counts \in [Models -> 0..MaxCopies], RegisterClient(c, q, counts)
    PROVE  CountInv'
<1>. DEFINE L == clientModels
            P == clientProvider
<1>1. L \in Lists /\ P \in [Clients -> Providers \cup {NoProvider}]
    BY DEF CountInv, RegistryTypeOK, Lists
<1>2. ASSUME NEW m \in Models
      PROVE  /\ models'[m] \in Registration
             /\ Tallied(models'[m], [L EXCEPT ![c] = counts], [P EXCEPT ![c] = q], m)
    <2>. DEFINE a == Others(L, m, c)
                b == OthersOf(L, P, m, c)
    <2>1. /\ models[m] \in Registration /\ Tallied(models[m], L, P, m)
          /\ L[c][m] \in Nat /\ counts[m] \in Nat
          /\ P[c] \in Providers \cup {NoProvider}
        BY <1>1, RegistryAssumption
        DEF CountInv, RegistryTypeOK, Lists, RegistryAssumption
    <2>2. /\ a \in Nat /\ b \in [Providers -> Nat] /\ a + 0 \in Nat
          /\ \A x \in Providers : b[x] <= a
        BY <1>1, <2>1, OthersTyped
    <2>. DEFINE Before == Counts(models[m], a + L[c][m], With(b, P[c], L[c][m]))
                After  == Counts(models'[m], a + counts[m], With(b, q, counts[m]))
    <2>3. models'[m] \in Registration /\ (Before => After)
        <3>1. CASE Registered(c)
            <4>. DEFINE old == L[c][m]
                        new == counts[m]
                        p   == P[c]
                        s   == models[m]
            <4>1. models'[m] = Reregister(s, c, old, new, p, q)
                BY <3>1 DEF RegisterClient
            <4>2. /\ s \in Registration /\ old \in Nat /\ new \in Nat
                  /\ p \in Providers \cup {NoProvider}
                BY <2>1
            <4>. HIDE DEF a, b, L, P, old, new, p, s
            <4>3. ASSUME Counts(s, a + old, With(b, p, old))
                  PROVE  Counts(Reregister(s, c, old, new, p, q), a + new,
                                With(b, q, new))
                BY <2>2, <4>2, <4>3, ReregisterCounts
            <4>4. Reregister(s, c, old, new, p, q) \in Registration
                BY <4>2, ReregisterFacts DEF FewerMarks
            <4>. QED BY <4>1, <4>3, <4>4 DEF old, new, p, s
        <3>2. CASE ~Registered(c)
            <4>1. models'[m] = Add(models[m], q, counts[m])
                BY <3>2 DEF RegisterClient
            <4>2. L[c][m] = 0
                BY <3>2 DEF Registered, NoModels
            <4>3. models'[m] \in Registration
                BY <2>1, <4>1, AddFacts DEF FewerMarks
            <4>. HIDE DEF a, b, L, P
            <4>4. ASSUME Before PROVE After
                <5>1. Counts(models[m], a + 0, With(b, q, 0))
                    BY <2>2, <4>2, <4>4, WithNone
                <5>2. Counts(models'[m], a + 0 + counts[m], With(b, q, 0 + counts[m]))
                    BY <2>1, <2>2, <4>1, <5>1, AddCounts, ZenonT(40)
                <5>3. a + 0 + counts[m] = a + counts[m] /\ 0 + counts[m] = counts[m]
                    BY <2>1, <2>2
                <5>. QED BY <5>2, <5>3
            <4>. QED BY <4>3, <4>4
        <3>. QED BY <3>1, <3>2
    <2>. HIDE DEF L, P
    <2>4. Tallied(models'[m], [L EXCEPT ![c] = counts], [P EXCEPT ![c] = q], m)
        BY <1>1, <2>1, <2>3, TallyMoves
    <2>. QED BY <2>3, <2>4
<1>. QED BY <1>2, CountsMove DEF RegisterClient

\* Leaving.
LEMMA CountsUnregister ==
    ASSUME CountInv, NEW c \in Clients, UnregisterClient(c)
    PROVE  CountInv'
<1>. DEFINE L == clientModels
            P == clientProvider
<1>1. L \in Lists /\ P \in [Clients -> Providers \cup {NoProvider}]
    BY DEF CountInv, RegistryTypeOK, Lists
<1>2. NoModels \in [Models -> 0..MaxCopies] /\ \A m \in Models : NoModels[m] = 0
    BY RegistryAssumption DEF NoModels, RegistryAssumption
<1>3. ASSUME NEW m \in Models
      PROVE  /\ models'[m] \in Registration
             /\ Tallied(models'[m], [L EXCEPT ![c] = NoModels],
                        [P EXCEPT ![c] = NoProvider], m)
    <2>. DEFINE a == Others(L, m, c)
                b == OthersOf(L, P, m, c)
                n == L[c][m]
    <2>1. /\ models[m] \in Registration /\ Tallied(models[m], L, P, m)
          /\ n \in Nat /\ P[c] \in Providers \cup {NoProvider}
        BY <1>1, RegistryAssumption
        DEF CountInv, RegistryTypeOK, Lists, RegistryAssumption
    <2>2. /\ a \in Nat /\ b \in [Providers -> Nat]
          /\ \A x \in Providers : b[x] <= a
        BY <1>1, <2>1, OthersTyped
    <2>3. models'[m] = Remove(models[m], c, P[c], n)
        BY DEF UnregisterClient
    <2>4. models'[m] \in Registration
        BY <2>1, <2>3, RemoveFacts DEF FewerMarks
    <2>5. ASSUME Counts(models[m], a + n, With(b, P[c], n))
          PROVE  Counts(models'[m], a + NoModels[m], With(b, NoProvider, NoModels[m]))
        <3>. DEFINE p == P[c]
                    s == models[m]
        <3>0. /\ s \in Registration /\ p \in Providers \cup {NoProvider}
              /\ Counts(s, a + n, With(b, p, n)) /\ models'[m] = Remove(s, c, p, n)
            BY <2>1, <2>3, <2>5
        <3>. HIDE DEF a, b, n, p, s, L, P
        <3>1. /\ a + n \in Nat /\ n \in 0..n /\ n <= a + n
              /\ a + n - n = a + 0 /\ n - n = 0
            BY <2>1, <2>2
        <3>2. a + n = n => n = n /\ \A x \in Providers : b[x] = 0
            BY <2>1, <2>2
        <3>. DEFINE k == a + n
        <3>3. Counts(Remove(s, c, p, n), k - n, With(b, p, n - n))
            <4>1. /\ k \in Nat /\ n <= k /\ Counts(s, k, With(b, p, n))
                  /\ k = n => \A x \in Providers : b[x] = 0
                BY <3>0, <3>1, <3>2
            <4>. HIDE DEF k
            <4>. QED BY <2>1, <2>2, <3>0, <3>1, <4>1, RemoveCounts
        <3>4. With(b, p, 0) = With(b, NoProvider, 0)
            BY <2>2, WithNone
        <3>5. NoModels[m] = 0
            BY <1>2
        <3>6. k - n = a + NoModels[m] /\ n - n = NoModels[m]
            BY <2>1, <2>2, <3>5
        <3>7. With(b, p, n - n) = With(b, NoProvider, NoModels[m])
            BY <3>1, <3>4, <3>5
        <3>. QED BY <3>0, <3>3, <3>6, <3>7, Zenon
    <2>. HIDE DEF L, P
    <2>6. Tallied(models'[m], [L EXCEPT ![c] = NoModels],
                  [P EXCEPT ![c] = NoProvider], m)
        BY <1>1, <1>2, <2>1, <2>5, TallyMoves
    <2>. QED BY <2>4, <2>6
<1>. QED BY <1>2, <1>3, CountsMove DEF UnregisterClient

\* An operation that leaves the registrations alone, and the counters.
LEMMA CountsKept ==
    ASSUME CountInv, UNCHANGED <<clientModels, clientProvider>>,
           clock' \in 1..MaxTime, models' \in [Models -> Registration],
           cache' \in CacheRecord,
           reader' \in [pc : {"idle", "reading", "building"}, at : Nat],
           \A m \in Models : /\ models'[m].count = models[m].count
                             /\ models'[m].providers = models[m].providers
                             /\ models'[m].infoBy = models[m].infoBy
    PROVE  CountInv'
<1>1. RegistryTypeOK'
    BY DEF CountInv, RegistryTypeOK, CacheRecord
<1>2. ASSUME NEW m \in Models
      PROVE  Tallied(models'[m], clientModels', clientProvider', m)
    <2>1. Tallied(models[m], clientModels, clientProvider, m)
        BY DEF CountInv
    <2>. QED BY <2>1 DEF Tallied, Counts
<1>. QED BY <1>1, <1>2 DEF CountInv

LEMMA NoCacheTyped == NoCache \in CacheRecord
BY DEF NoCache, CacheRecord, Never

\* Marks are no registrations.
LEMMA CountsMark ==
    ASSUME CountInv, MarksInv', NEW c \in Clients, NEW m \in Models,
           \/ SetModelQuotaExceeded(c, m)
           \/ ClearModelQuotaExceeded(c, m)
           \/ \E reason \in Reasons : SuspendClientModel(c, m, reason)
           \/ ResumeClientModel(c, m)
    PROVE  CountInv'
<1>1. /\ UNCHANGED <<clock, clientModels, clientProvider, reader>>
      /\ cache' = NoCache
    BY DEF SetModelQuotaExceeded, ClearModelQuotaExceeded, SuspendClientModel,
           ResumeClientModel, Marks
<1>2. /\ models \in [Models -> Registration] /\ models' \in [Models -> Registration]
      /\ clock \in 1..MaxTime
      /\ reader \in [pc : {"idle", "reading", "building"}, at : Nat]
    BY DEF CountInv, RegistryTypeOK, MarksInv, RegistryTypes
<1>3. \A l \in Models : /\ models'[l].count = models[l].count
                        /\ models'[l].providers = models[l].providers
                        /\ models'[l].infoBy = models[l].infoBy
    <2>1. ASSUME NEW x, models' = [models EXCEPT ![m].quotaAt = x]
                        \/ models' = [models EXCEPT ![m].suspended = x]
          PROVE  \A l \in Models : /\ models'[l].count = models[l].count
                                   /\ models'[l].providers = models[l].providers
                                   /\ models'[l].infoBy = models[l].infoBy
        BY <1>2, <2>1 DEF Registration
    <2>2. CASE SetModelQuotaExceeded(c, m)
        <3>1. models' = [models EXCEPT ![m].quotaAt = [@ EXCEPT ![c] = clock]]
            BY <2>2 DEF SetModelQuotaExceeded
        <3>. QED BY <2>1, <3>1
    <2>3. CASE ClearModelQuotaExceeded(c, m)
        <3>1. models' = [models EXCEPT ![m].quotaAt = [@ EXCEPT ![c] = Never]]
            BY <2>3 DEF ClearModelQuotaExceeded
        <3>. QED BY <2>1, <3>1
    <2>4. ASSUME NEW reason \in Reasons, SuspendClientModel(c, m, reason)
          PROVE  \A l \in Models : /\ models'[l].count = models[l].count
                                   /\ models'[l].providers = models[l].providers
                                   /\ models'[l].infoBy = models[l].infoBy
        <3>1. models' = [models EXCEPT ![m].suspended = [@ EXCEPT ![c] = reason]]
            BY <2>4 DEF SuspendClientModel
        <3>. QED BY <2>1, <3>1
    <2>5. CASE ResumeClientModel(c, m)
        <3>1. models' = [models EXCEPT ![m].suspended = [@ EXCEPT ![c] = "no"]]
            BY <2>5 DEF ResumeClientModel
        <3>. QED BY <2>1, <3>1
    <2>. QED BY <2>2, <2>3, <2>4, <2>5
<1>. QED BY <1>1, <1>2, <1>3, NoCacheTyped, CountsKept

LEMMA CountsCleanup ==
    ASSUME CountInv, MarksInv', CleanupExpiredQuotas
    PROVE  CountInv'
<1>1. /\ UNCHANGED <<clock, clientModels, clientProvider, reader>>
      /\ cache' = NoCache
    BY DEF CleanupExpiredQuotas
<1>2. /\ models \in [Models -> Registration] /\ models' \in [Models -> Registration]
      /\ clock \in 1..MaxTime
      /\ reader \in [pc : {"idle", "reading", "building"}, at : Nat]
    BY DEF CountInv, RegistryTypeOK, MarksInv, RegistryTypes
<1>3. ASSUME NEW m \in Models
      PROVE  /\ models'[m].count = models[m].count
             /\ models'[m].providers = models[m].providers
             /\ models'[m].infoBy = models[m].infoBy
    <2>1. PICK x : models'[m] = [models[m] EXCEPT !.quotaAt = x]
        BY DEF CleanupExpiredQuotas
    <2>. QED BY <1>2, <2>1 DEF Registration
<1>. QED BY <1>1, <1>2, <1>3, NoCacheTyped, CountsKept

\* A list that is built has the form of one.
LEMMA CountsRead ==
    ASSUME CountInv, Reading
    PROVE  CountInv'
<1>1. /\ UNCHANGED <<clock, models, clientModels, clientProvider>>
      /\ clock \in 1..MaxTime /\ clock \in Nat /\ models \in [Models -> Registration]
      /\ cache \in CacheRecord
      /\ reader \in [pc : {"idle", "reading", "building"}, at : Nat]
    BY RegistryAssumption DEF Reading, StartReading, LookUp, Build, CountInv,
           RegistryTypeOK, CacheRecord, RegistryAssumption
<1>2. reader' \in [pc : {"idle", "reading", "building"}, at : Nat]
    BY <1>1 DEF Reading, StartReading, LookUp, Build, NoReader, Never
<1>3. FirstRecovery(reader.at) \in Nat
    <2>1. WindowEnds(reader.at) \in SUBSET Nat
        BY <1>1, RegistryAssumption
        DEF WindowEnds, OverQuota, Registration, RegistryAssumption
    <2>2. CASE WindowEnds(reader.at) = {}
        BY <2>2 DEF FirstRecovery, Never
    <2>3. CASE WindowEnds(reader.at) # {}
        <3>1. \E e \in WindowEnds(reader.at) : \A f \in WindowEnds(reader.at) : e <= f
            BY <2>1, <2>3, NatMinimum
        <3>2. Min(WindowEnds(reader.at)) \in WindowEnds(reader.at)
            BY <3>1 DEF Min
        <3>. QED BY <2>1, <2>3, <3>2 DEF FirstRecovery
    <2>. QED BY <2>2, <2>3
<1>4. AvailableModels(reader.at) \in SUBSET Models
    BY DEF AvailableModels
<1>5. cache' \in CacheRecord
    <2>1. cache' = cache
          \/ cache' = [present |-> TRUE, listed |-> AvailableModels(reader.at),
                       expiresAt |-> FirstRecovery(reader.at)]
        BY DEF Reading, StartReading, LookUp, Build
    <2>2. ASSUME NEW l \in SUBSET Models, NEW e \in Nat
          PROVE  [present |-> TRUE, listed |-> l, expiresAt |-> e] \in CacheRecord
        BY DEF CacheRecord
    <2>. QED BY <1>1, <1>3, <1>4, <2>1, <2>2, Zenon
<1>. QED BY <1>1, <1>2, <1>5, CountsKept

LEMMA CountsStep ==
    MarksInv' /\ CountInv /\ [RegistryNext]_registryVars => CountInv'
<1>. SUFFICES ASSUME MarksInv', CountInv, [RegistryNext]_registryVars
              PROVE  CountInv'
    OBVIOUS
<1>1. CASE Registering
    BY <1>1, CountsRegister, CountsUnregister DEF Registering
<1>2. CASE Marking
    BY <1>2, CountsMark, CountsCleanup DEF Marking
<1>3. CASE Reading
    BY <1>3, CountsRead
<1>4. CASE Pass \/ UNCHANGED registryVars
    <2>1. clock' \in 1..MaxTime
        BY <1>4, RegistryAssumption
        DEF Pass, registryVars, CountInv, RegistryTypeOK, RegistryAssumption
    <2>2. UNCHANGED <<models, clientModels, clientProvider, cache, reader>>
        BY <1>4 DEF Pass, registryVars
    <2>. QED BY <2>1, <2>2, CountsKept DEF CountInv, RegistryTypeOK, CacheRecord
<1>. QED BY <1>1, <1>2, <1>3, <1>4 DEF RegistryNext

LEMMA CountsInit == RegistryInit => CountInv
<1>. SUFFICES ASSUME RegistryInit PROVE CountInv
    OBVIOUS
<1>1. RegistryTypeOK
    BY UnregisteredFacts, RegistryAssumption
    DEF RegistryInit, RegistryTypeOK, RegistryAssumption, NoModels, NoCache,
        NoReader, Never
<1>2. \A m \in Models : \A S \in SUBSET Clients : Regs(clientModels, m, S) = {}
    BY DEF RegistryInit, NoModels, Regs
<1>3. ASSUME NEW m \in Models
      PROVE  Tallied(models[m], clientModels, clientProvider, m)
    <2>1. \A x : Of(clientProvider, x) \in SUBSET Clients
        BY DEF Of
    <2>2. \A x : Regs(clientModels, m, Of(clientProvider, x)) = {}
        BY <1>2, <2>1
    <2>3. Regs(clientModels, m, Clients) = {}
        BY <1>2
    <2>4. [x \in Providers |-> Cardinality(Regs(clientModels, m, Of(clientProvider, x)))]
              = [x \in Providers |-> 0]
        BY <2>2, FS_EmptySet
    <2>5. models[m] = Unregistered
        BY DEF RegistryInit
    <2>6. Counts(Unregistered, 0, [x \in Providers |-> 0])
        BY DEF Counts, Unregistered
    <2>. QED BY <2>3, <2>4, <2>5, <2>6, FS_EmptySet DEF Tallied
<1>. QED BY <1>1, <1>3 DEF CountInv

\* However clients register again with other models, repetitions and
\* providers, the counters of a model are the registrations that exist.
THEOREM CountersAreTrue == RegistrySpec => []CountsAreRegistrations
<1>1. ASSUME CountInv PROVE CountsAreRegistrations
    <2>1. ASSUME NEW m \in Models
          PROVE  /\ models[m].count = Cardinality(Registrations(m, Clients))
                 /\ \A p \in Providers : models[m].providers[p]
                        = Cardinality(Registrations(m, Serving(p)))
                 /\ models[m].infoBy
                        = {p \in Providers : Registrations(m, Serving(p)) # {}}
        <3>1. Tallied(models[m], clientModels, clientProvider, m)
            BY <1>1 DEF CountInv
        <3>2. \A S : Registrations(m, S) = Regs(clientModels, m, S)
            BY DEF Registrations, Regs
        <3>3. \A p : Serving(p) = Of(clientProvider, p)
            BY DEF Serving, Of
        <3>4. ASSUME NEW p \in Providers
              PROVE  Cardinality(Registrations(m, Serving(p))) > 0
                         <=> Registrations(m, Serving(p)) # {}
            <4>1. Registrations(m, Serving(p)) \in SUBSET Regs(clientModels, m, Clients)
                BY DEF Registrations, Regs, Serving
            <4>2. IsFiniteSet(Registrations(m, Serving(p)))
                BY <3>1, <4>1, FS_Subset DEF Tallied
            <4>. QED BY <4>2, FS_EmptySet, FS_CardinalityType
        <3>5. models[m].count = Cardinality(Registrations(m, Clients))
            BY <3>1, <3>2 DEF Tallied, Counts
        <3>6. models[m].providers
                  = [p \in Providers |-> Cardinality(Registrations(m, Serving(p)))]
            BY <3>1, <3>2, <3>3 DEF Tallied, Counts
        <3>7. models[m].infoBy
                  = {p \in Providers : Cardinality(Registrations(m, Serving(p))) > 0}
            BY <3>1, <3>2, <3>3 DEF Tallied, Counts
        <3>. QED BY <3>4, <3>5, <3>6, <3>7
    <2>. QED BY <1>1, <2>1 DEF CountInv, CountsAreRegistrations
<1>. QED BY <1>1, MarksInit, MarksStep, CountsInit, CountsStep, PTL DEF RegistrySpec

=============================================================================
