-------------------------- MODULE UsageQueueProofs --------------------------
(***************************************************************************)
(* Proofs about UsageQueue for any number of records, publishers and       *)
(* subscribers, any clock, and any size of batches and buffers: channels   *)
(* have one owner, records have one consumer and are not lost, the worker  *)
(* does not sleep on them, and what pops see is RecordFifo.                *)
(*                                                                         *)
(* The inductive invariant says where records are (Good: every record is   *)
(* held once, in one place) and who owns the channels (StreamsTrue).  The  *)
(* buffer is reasoned about through Seen, the records that a pop can see.  *)
(***************************************************************************)
EXTENDS UsageQueue, WellFoundedInduction, FiniteSetTheorems, SequenceTheorems, TLAPS

\* Every non-empty set of natural numbers has a least element.
LEMMA NatMinimum ==
    ASSUME NEW T \in SUBSET Nat, T # {}
    PROVE  \E t \in T : \A u \in T : t <= u
<1>. DEFINE Less == {ss \in Nat \X Nat : ss[1] < ss[2]}
<1>1. OpToRel(<, Nat) = Less
    BY Zenon DEF OpToRel
<1>2. IsWellFoundedOn(Less, Nat)
    BY <1>1, NatLessThanWellFounded, Zenon
<1>3. PICK x \in T : \A y \in T : ~(<<y, x>> \in Less)
    <2>. HIDE DEF Less
    <2>1. T \subseteq Nat
        OBVIOUS
    <2>2. \E x \in T : \A y \in T : ~(<<y, x>> \in Less)
        BY <1>2, <2>1, WFMin, Zenon
    <2>. QED BY <2>2
<1>4. \A y \in T : x <= y
    <2>. SUFFICES ASSUME NEW y \in T, ~(x <= y) PROVE FALSE
        OBVIOUS
    <2>1. x \in Nat /\ y \in Nat /\ y < x
        OBVIOUS
    <2>2. <<y, x>> \in Less
        BY <2>1
    <2>. QED BY <1>3, <2>2
<1>. QED BY <1>4

-----------------------------------------------------------------------------

Item == [rec : Records, at : 1..MaxTime]

\* What a buffer is: no more is cut off its front than it holds.
IsQueue(x) == x \in [items : Seq(Item), head : Nat] /\ x.head <= Len(x.items)

\* What those who pop see of it, and the record of one of its items.
Seen(x) == RecordsOf(SubSeq(x.items, x.head + 1, Len(x.items)))

-----------------------------------------------------------------------------
(* The inductive invariant *)

\* Every call of Enqueue has a record.
Job == [at : {"idle", "handling", "admitted", "unclaimed"}, rec : 0..MaxRecords]

JobsTrue(js) ==
    /\ js \in [Enqueuers -> Job]
    /\ \A e \in Enqueuers : js[e] # Idle => js[e].at # "idle" /\ js[e].rec \in Records

\* The forwarder has records in its hands when it pushes, and none while it
\* pops.
ForwarderTrue ==
    /\ forwarder = "pushing" => batch # <<>>
    /\ forwarder = "popping" => batch = <<>>

\* What holds records holds records, in the shapes the code gives it.
RecordsTrue ==
    /\ now \in 1..MaxTime /\ published \in 0..MaxRecords
    /\ pending \in Seq(Records) /\ batch \in Seq(Records) /\ handed \in Seq(Records)
    /\ dispatcher \in {"unstarted", "looping", "waiting", "returned"}
    /\ IsQueue(q) /\ JobsTrue(jobs) /\ ForwarderTrue

\* Nobody but the one who switched the queue off clears it, and whoever
\* closes channels then is still at it.
TogglerTrue ==
    /\ closing # {} => toggler = "closing"
    /\ toggler # "idle" \/ ~enabled \/ ~statsOn => switchedOff > 0

StreamsTrue ==
    /\ members \subseteq Subscribers /\ leaving \subseteq Subscribers
    /\ closing \subseteq Subscribers /\ switchedOff \in Nat
    /\ box \in [Subscribers -> Seq(Records \cup {Refresh})]
    /\ chans \in [Subscribers -> {"none", "open", "closed"}]
    /\ TogglerTrue /\ ChannelsHaveOneOwner

\* Nothing is held twice in one place ...
Distinct(s) == \A i, j \in DOMAIN s : s[i] = s[j] => i = j

JobsDiffer(js) ==
    \A e, f \in Enqueuers :
        js[e] # Idle /\ js[f] # Idle /\ js[e].rec = js[f].rec => e = f

OnceEach ==
    Distinct(pending) /\ Distinct(Seen(q)) /\ Distinct(batch) /\ JobsDiffer(jobs)

\* ... nor in two of them, ...
Apart(P, J, S, B, T, O) ==
    /\ P \cap (J \cup S \cup B \cup T \cup O) = {}
    /\ J \cap (S \cup B \cup T \cup O) = {}
    /\ S \cap (B \cup T \cup O) = {}
    /\ B \cap (T \cup O) = {}
    /\ T \cap O = {}

Around(P, J, S, B, T, O) == P \cup J \cup S \cup B \cup T \cup O

Held(js) == {js[e].rec : e \in {x \in Enqueuers : js[x] # Idle}}

\* ... unless the home server has it and it is not known.
Placed(P, J, S, B, T, O) ==
    /\ Apart(P, J, S, B, T, O)
    /\ Around(P, J, S, B, T, O) \cap home \subseteq doubtful
    /\ Around(P, J, S, B, T, O) \cup home \subseteq 1..published

OnePlace == Placed(Range(pending), Held(jobs), Range(Seen(q)), Range(batch), sent, popped)

-----------------------------------------------------------------------------
(* Sequences *)

\* What is left of a sequence without its first n elements.
LEMMA DropIs ==
    ASSUME NEW S, NEW s \in Seq(S), NEW n \in 0..Len(s)
    PROVE  /\ SubSeq(s, n + 1, Len(s)) \in Seq(S)
           /\ Len(SubSeq(s, n + 1, Len(s))) = Len(s) - n
           /\ \A i \in 1..(Len(s) - n) : SubSeq(s, n + 1, Len(s))[i] = s[n + i]
<1>1. \A i \in (n + 1)..Len(s) : s[i] \in S
    OBVIOUS
<1>2. n + 1 \in Int /\ Len(s) \in Int
    OBVIOUS
<1>. QED BY <1>1, <1>2, SubSeqProperties

\* The records of a buffer that can be seen are those of its items.
LEMMA SeenIs ==
    ASSUME NEW x, IsQueue(x)
    PROVE  /\ Seen(x) \in Seq(Records)
           /\ Len(Seen(x)) = Len(x.items) - x.head
           /\ \A i \in 1..(Len(x.items) - x.head) :
                  Seen(x)[i] = x.items[x.head + i].rec
<1>. DEFINE cut == SubSeq(x.items, x.head + 1, Len(x.items))
<1>1. x.items \in Seq(Item) /\ x.head \in 0..Len(x.items)
    BY DEF IsQueue
<1>2. /\ cut \in Seq(Item)
      /\ Len(cut) = Len(x.items) - x.head
      /\ \A i \in 1..(Len(x.items) - x.head) : cut[i] = x.items[x.head + i]
    BY <1>1, DropIs
<1>3. Seen(x) = [i \in DOMAIN cut |-> cut[i].rec]
    BY DEF Seen, RecordsOf
<1>. HIDE DEF cut
<1>4. Seen(x) = [i \in 1..Len(cut) |-> cut[i].rec]
    BY <1>2, <1>3
<1>5. ASSUME NEW i \in 1..Len(cut) PROVE cut[i].rec \in Records
    <2>1. cut[i] \in Item
        BY <1>2
    <2>. QED BY <2>1 DEF Item
<1>6. Seen(x) \in Seq(Records) /\ Len(Seen(x)) = Len(cut)
    BY <1>2, <1>4, <1>5
<1>7. \A i \in 1..Len(cut) : Seen(x)[i] = cut[i].rec
    BY <1>4
<1>. QED BY <1>1, <1>2, <1>6, <1>7

\* Cutting n more items off the front hides n records.
LEMMA SeenAfterDrop ==
    ASSUME NEW x, IsQueue(x), NEW n \in Nat, x.head + n <= Len(x.items),
           NEW y, IsQueue(y), y.items = x.items, y.head = x.head + n
    PROVE  /\ n \in 0..Len(Seen(x))
           /\ Seen(y) = SubSeq(Seen(x), n + 1, Len(Seen(x)))
<1>1. x.items \in Seq(Item) /\ x.head \in 0..Len(x.items)
    BY DEF IsQueue
<1>2. /\ Seen(x) \in Seq(Records)
      /\ Len(Seen(x)) = Len(x.items) - x.head
      /\ \A i \in 1..(Len(x.items) - x.head) :
             Seen(x)[i] = x.items[x.head + i].rec
    BY SeenIs
<1>3. /\ Seen(y) \in Seq(Records)
      /\ Len(Seen(y)) = Len(x.items) - (x.head + n)
      /\ \A i \in 1..(Len(x.items) - (x.head + n)) :
             Seen(y)[i] = x.items[x.head + n + i].rec
    BY SeenIs
<1>4. n \in 0..Len(Seen(x))
    BY <1>1, <1>2
<1>. DEFINE w == SubSeq(Seen(x), n + 1, Len(Seen(x)))
<1>5. /\ w \in Seq(Records)
      /\ Len(w) = Len(Seen(x)) - n
      /\ \A i \in 1..(Len(Seen(x)) - n) : w[i] = Seen(x)[n + i]
    BY <1>2, <1>4, DropIs
<1>. HIDE DEF w
<1>6. Len(Seen(y)) = Len(w)
    BY <1>1, <1>2, <1>3, <1>5
<1>7. ASSUME NEW i \in 1..Len(Seen(y)) PROVE Seen(y)[i] = w[i]
    <2>1. i \in 1..(Len(x.items) - (x.head + n)) /\ n + i \in 1..(Len(x.items) - x.head)
        BY <1>1, <1>3
    <2>2. Seen(y)[i] = x.items[x.head + n + i].rec
        BY <1>3, <2>1
    <2>3. Seen(x)[n + i] = x.items[x.head + (n + i)].rec
        BY <1>2, <2>1
    <2>4. x.head + n + i = x.head + (n + i)
        BY <1>1
    <2>5. w[i] = Seen(x)[n + i]
        BY <1>3, <1>5, <1>6, <1>7
    <2>. QED BY <2>2, <2>3, <2>4, <2>5
<1>8. Seen(y) = w
    BY <1>3, <1>5, <1>6, <1>7, SeqEqual
<1>. QED BY <1>4, <1>8 DEF w

LEMMA NothingSeen == IsQueue(NoItems) /\ Seen(NoItems) = <<>>
<1>1. IsQueue(NoItems)
    BY DEF IsQueue, NoItems
<1>2. Seen(NoItems) \in Seq(Records) /\ Len(Seen(NoItems)) = 0
    BY <1>1, SeenIs DEF NoItems
<1>. QED BY <1>1, <1>2, EmptySeq

\* The compaction of the buffer shows nobody anything new.
LEMMA CompactSeesTheSame ==
    ASSUME NEW x, IsQueue(x)
    PROVE  IsQueue(Compact(x)) /\ Seen(Compact(x)) = Seen(x)
<1>1. x.items \in Seq(Item) /\ x.head \in 0..Len(x.items)
    BY DEF IsQueue
<1>. DEFINE cut == SubSeq(x.items, x.head + 1, Len(x.items))
            y == [items |-> cut, head |-> 0]
<1>2. /\ cut \in Seq(Item)
      /\ Len(cut) = Len(x.items) - x.head
    BY <1>1, DropIs
<1>3. \/ Compact(x) = x
      \/ x.head >= Len(x.items) /\ Compact(x) = NoItems
      \/ Compact(x) = y
    BY Zenon DEF Compact
<1>4. CASE Compact(x) = x
    BY <1>4
<1>5. CASE x.head >= Len(x.items) /\ Compact(x) = NoItems
    <2>1. Seen(x) \in Seq(Records) /\ Len(Seen(x)) = 0
        BY <1>1, <1>5, SeenIs
    <2>2. Seen(x) = <<>>
        BY <2>1, EmptySeq
    <2>. QED BY <1>5, <2>2, NothingSeen
<1>6. CASE Compact(x) = y
    <2>. HIDE DEF cut
    <2>1. IsQueue(y)
        BY <1>2 DEF IsQueue
    <2>2. y.items = cut /\ y.head = 0
        OBVIOUS
    <2>. HIDE DEF y
    <2>3. Seen(y) = RecordsOf(SubSeq(cut, 1, Len(cut)))
        BY <2>2 DEF Seen
    <2>4. SubSeq(cut, 1, Len(cut)) = cut
        BY <1>2, SubSeqFull
    <2>5. Seen(x) = RecordsOf(cut)
        BY DEF Seen, cut
    <2>. QED BY <1>6, <2>1, <2>3, <2>4, <2>5
<1>. QED BY <1>3, <1>4, <1>5, <1>6

\* An item at the back is a record at the back.
LEMMA SeenAfterAppend ==
    ASSUME NEW x, IsQueue(x), NEW it \in Item,
           NEW y, y = [x EXCEPT !.items = Append(@, it)]
    PROVE  IsQueue(y) /\ Seen(y) = Append(Seen(x), it.rec)
<1>1. /\ x \in [items : Seq(Item), head : Nat]
      /\ x.items \in Seq(Item) /\ x.head \in 0..Len(x.items)
    BY DEF IsQueue
<1>. DEFINE longer == Append(x.items, it)
<1>2. /\ longer \in Seq(Item) /\ Len(longer) = Len(x.items) + 1
      /\ \A i \in 1..Len(x.items) : longer[i] = x.items[i]
      /\ longer[Len(x.items) + 1] = it
    BY <1>1, AppendProperties
<1>3. y = [x EXCEPT !.items = longer]
    OBVIOUS
<1>. HIDE DEF longer
<1>4. /\ y \in [items : Seq(Item), head : Nat]
      /\ y.items = longer /\ y.head = x.head
    BY <1>1, <1>2, <1>3
<1>5. IsQueue(y)
    BY <1>1, <1>2, <1>4 DEF IsQueue
<1>6. /\ Seen(x) \in Seq(Records)
      /\ Len(Seen(x)) = Len(x.items) - x.head
      /\ \A i \in 1..(Len(x.items) - x.head) :
             Seen(x)[i] = x.items[x.head + i].rec
    BY SeenIs
<1>7. /\ Seen(y) \in Seq(Records)
      /\ Len(Seen(y)) = Len(longer) - x.head
      /\ \A i \in 1..(Len(longer) - x.head) : Seen(y)[i] = longer[x.head + i].rec
    <2>1. /\ Seen(y) \in Seq(Records)
          /\ Len(Seen(y)) = Len(y.items) - y.head
          /\ \A i \in 1..(Len(y.items) - y.head) :
                 Seen(y)[i] = y.items[y.head + i].rec
        BY <1>5, SeenIs
    <2>. QED BY <1>4, <2>1
<1>. DEFINE w == Append(Seen(x), it.rec)
<1>8. it.rec \in Records
    BY DEF Item
<1>9. /\ w \in Seq(Records) /\ Len(w) = Len(Seen(x)) + 1
      /\ \A i \in 1..Len(Seen(x)) : w[i] = Seen(x)[i]
      /\ w[Len(Seen(x)) + 1] = it.rec
    BY <1>6, <1>8, AppendProperties
<1>. HIDE DEF w
<1>10. Len(Seen(y)) = Len(w)
    BY <1>1, <1>2, <1>6, <1>7, <1>9
<1>11. ASSUME NEW i \in 1..Len(Seen(y)) PROVE Seen(y)[i] = w[i]
    <2>1. Seen(y)[i] = longer[x.head + i].rec
        BY <1>7
    <2>2. CASE i <= Len(Seen(x))
        <3>1. i \in 1..(Len(x.items) - x.head) /\ x.head + i \in 1..Len(x.items)
              /\ i \in 1..Len(Seen(x))
            BY <1>1, <1>6, <2>2
        <3>2. longer[x.head + i] = x.items[x.head + i]
            BY <1>2, <3>1
        <3>3. Seen(x)[i] = x.items[x.head + i].rec
            BY <1>6, <3>1
        <3>4. w[i] = Seen(x)[i]
            BY <1>9, <3>1
        <3>. QED BY <2>1, <3>2, <3>3, <3>4
    <2>3. CASE ~(i <= Len(Seen(x)))
        <3>1. i = Len(Seen(x)) + 1 /\ x.head + i = Len(x.items) + 1
            BY <1>1, <1>6, <1>9, <1>10, <2>3
        <3>. QED BY <1>2, <1>9, <2>1, <3>1
    <2>. QED BY <2>2, <2>3
<1>12. Seen(y) = w
    BY <1>7, <1>9, <1>10, <1>11, SeqEqual
<1>. QED BY <1>5, <1>12 DEF w

\* Min is a member of every non-empty set of numbers, and its least.
LEMMA MinIs ==
    ASSUME NEW T \in SUBSET Nat, T # {}
    PROVE  Min(T) \in T /\ \A t \in T : Min(T) <= t
<1>1. \E t \in T : \A u \in T : t <= u
    BY NatMinimum
<1>. QED BY <1>1, Zenon DEF Min

\* Only what has expired is pruned, from the front.
LEMMA PruneDrops ==
    ASSUME NEW x, IsQueue(x), now \in 1..MaxTime, MaxTime \in Nat, Retention \in Nat
    PROVE  /\ IsQueue(Pruned(x))
           /\ \E n \in 0..Len(Seen(x)) :
                 /\ Seen(Pruned(x)) = SubSeq(Seen(x), n + 1, Len(Seen(x)))
                 /\ now - 1 <= Retention => n = 0
<1>1. /\ x \in [items : Seq(Item), head : Nat]
      /\ x.items \in Seq(Item) /\ x.head \in 0..Len(x.items)
    BY DEF IsQueue
<1>2. Seen(x) \in Seq(Records) /\ Len(Seen(x)) = Len(x.items) - x.head
    BY SeenIs
<1>3. CASE x.head >= Len(x.items)
    <2>1. Pruned(x) = NoItems
        BY <1>3, Zenon DEF Pruned
    <2>2. Seen(x) = <<>>
        BY <1>1, <1>2, <1>3, EmptySeq
    <2>3. SubSeq(Seen(x), 0 + 1, Len(Seen(x))) = <<>>
        BY <1>2, <2>2, EmptySeq, SubSeqFull
    <2>4. 0 \in 0..Len(Seen(x))
        BY <1>2
    <2>. QED BY <2>1, <2>3, <2>4, NothingSeen
<1>4. CASE ~(x.head >= Len(x.items))
    <2>. DEFINE kept == {i \in x.head + 1..Len(x.items) :
                            x.items[i].at >= now - Retention}
                to == IF kept = {} THEN Len(x.items) ELSE Min(kept) - 1
    <2>1. Pruned(x) = [x EXCEPT !.head = to]
        BY <1>4, Zenon DEF Pruned
    <2>2. to \in x.head..Len(x.items) /\ (now - 1 <= Retention => to = x.head)
        <3>1. CASE kept = {}
            <4>1. to = Len(x.items)
                BY <3>1
            <4>2. ASSUME now - 1 <= Retention PROVE FALSE
                <5>1. x.head + 1 \in 1..Len(x.items)
                    BY <1>1, <1>4
                <5>2. x.items[x.head + 1] \in Item
                    BY <1>1, <5>1
                <5>3. x.items[x.head + 1].at \in 1..MaxTime
                    BY <5>2 DEF Item
                <5>4. x.items[x.head + 1].at >= now - Retention
                    BY <4>2, <5>3
                <5>. QED BY <3>1, <5>1, <5>4, <1>1
            <4>. HIDE DEF to, kept
            <4>. QED BY <1>1, <4>1, <4>2
        <3>2. CASE kept # {}
            <4>1. kept \in SUBSET Nat
                BY <1>1
            <4>2. Min(kept) \in kept /\ \A i \in kept : Min(kept) <= i
                <5>. HIDE DEF kept
                <5>. QED BY <3>2, <4>1, MinIs
            <4>3. to = Min(kept) - 1
                BY <3>2
            <4>. DEFINE m == Min(kept)
            <4>4. m \in x.head + 1..Len(x.items)
                BY <4>2
            <4>5. ASSUME now - 1 <= Retention PROVE m = x.head + 1
                <5>1. x.head + 1 \in 1..Len(x.items)
                    BY <1>1, <1>4
                <5>2. x.items[x.head + 1] \in Item
                    BY <1>1, <5>1
                <5>3. x.items[x.head + 1].at \in 1..MaxTime
                    BY <5>2 DEF Item
                <5>4. x.items[x.head + 1].at >= now - Retention
                    BY <4>5, <5>3
                <5>5. x.head + 1 \in kept
                    BY <1>1, <5>1, <5>4
                <5>6. m <= x.head + 1
                    BY <4>2, <5>5
                <5>. HIDE DEF m
                <5>. QED BY <1>1, <4>4, <5>6
            <4>6. to = m - 1
                BY <4>3
            <4>. HIDE DEF to, m
            <4>. QED BY <1>1, <4>4, <4>5, <4>6
        <3>. QED BY <3>1, <3>2
    <2>. HIDE DEF to
    <2>. DEFINE y == [x EXCEPT !.head = to]
                n == to - x.head
    <2>3. y \in [items : Seq(Item), head : Nat] /\ y.items = x.items /\ y.head = to
        BY <1>1, <2>2
    <2>4. n \in Nat /\ x.head + n = to /\ x.head + n <= Len(x.items)
        BY <1>1, <2>2
    <2>. HIDE DEF y, n
    <2>5. IsQueue(y)
        BY <1>1, <2>2, <2>3 DEF IsQueue
    <2>6. n \in 0..Len(Seen(x)) /\ Seen(y) = SubSeq(Seen(x), n + 1, Len(Seen(x)))
        BY <2>3, <2>4, <2>5, SeenAfterDrop
    <2>7. now - 1 <= Retention => n = 0
        BY <1>1, <2>2 DEF n
    <2>8. Pruned(x) = y
        BY <2>1 DEF y
    <2>. QED BY <2>5, <2>6, <2>7, <2>8
<1>. QED BY <1>3, <1>4

\* From s, out is handed out and t left, what precedes out being dropped
\* unless everything is fresh.
Hands(s, out, t, fresh) ==
    \E n \in 0..Len(s) : \E k \in 0..Len(s) - n :
        /\ out = SubSeq(s, n + 1, n + k)
        /\ t = SubSeq(s, n + k + 1, Len(s))
        /\ fresh => n = 0

\* A pop hands out what is next in line, after what has expired.
LEMMA PopHands ==
    ASSUME IsQueue(q), now \in 1..MaxTime, MaxTime \in Nat, Retention \in Nat,
           NEW count \in Nat
    PROVE  LET res == PopResult(count)
           IN  /\ IsQueue(res.rest)
               /\ Hands(Seen(q), res.out, Seen(res.rest), now - 1 <= Retention)
<1>. DEFINE p == Pruned(q)
            k == Min({count, Len(p.items) - p.head})
            cut == SubSeq(p.items, p.head + 1, p.head + k)
            y == [p EXCEPT !.head = @ + k]
<1>1. IsQueue(p)
    BY PruneDrops
<1>2. PICK n \in 0..Len(Seen(q)) :
          /\ Seen(p) = SubSeq(Seen(q), n + 1, Len(Seen(q)))
          /\ now - 1 <= Retention => n = 0
    BY PruneDrops
<1>3. PopResult(count) =
          IF p.head >= Len(p.items) THEN [out |-> <<>>, rest |-> NoItems]
          ELSE [out  |-> RecordsOf(cut), rest |-> Compact(y)]
    BY DEF PopResult
<1>. HIDE DEF p
<1>4. /\ p \in [items : Seq(Item), head : Nat]
      /\ p.items \in Seq(Item) /\ p.head \in 0..Len(p.items)
    BY <1>1 DEF IsQueue
<1>5. /\ Seen(q) \in Seq(Records)
      /\ Len(Seen(q)) \in Nat
    BY SeenIs
<1>6. /\ Seen(p) \in Seq(Records)
      /\ Len(Seen(p)) = Len(p.items) - p.head
      /\ \A i \in 1..(Len(p.items) - p.head) : Seen(p)[i] = p.items[p.head + i].rec
    BY <1>1, SeenIs
<1>7. /\ Len(Seen(p)) = Len(Seen(q)) - n
      /\ \A i \in 1..(Len(Seen(q)) - n) : Seen(p)[i] = Seen(q)[n + i]
    BY <1>2, <1>5, DropIs
<1>8. CASE p.head >= Len(p.items)
    <2>1. PopResult(count) = [out |-> <<>>, rest |-> NoItems]
        BY <1>3, <1>8
    <2>2. Len(Seen(q)) = n
        BY <1>4, <1>5, <1>6, <1>7, <1>8
    <2>3. SubSeq(Seen(q), n + 1, n + 0) = <<>>
        BY <1>5, SubSeqEmpty
    <2>4. SubSeq(Seen(q), n + 0 + 1, Len(Seen(q))) = <<>>
        BY <1>5, <2>2, SubSeqEmpty
    <2>5. 0 \in 0..Len(Seen(q)) - n
        BY <1>5, <2>2
    <2>6. Hands(Seen(q), <<>>, <<>>, now - 1 <= Retention)
        BY <1>2, <2>3, <2>4, <2>5, Zenon DEF Hands
    <2>. QED BY <2>1, <2>6, NothingSeen
<1>9. CASE ~(p.head >= Len(p.items))
    <2>1. k \in 0..(Len(p.items) - p.head)
        <3>1. {count, Len(p.items) - p.head} \in SUBSET Nat
            BY <1>4
        <3>2. /\ k \in {count, Len(p.items) - p.head}
              /\ \A t \in {count, Len(p.items) - p.head} : k <= t
            BY <3>1, MinIs
        <3>. HIDE DEF k
        <3>. QED BY <1>4, <3>2
    <2>. HIDE DEF k
    <2>2. /\ y \in [items : Seq(Item), head : Nat]
          /\ y.items = p.items /\ y.head = p.head + k
        BY <1>4, <2>1
    <2>3. k \in Nat /\ p.head + k <= Len(p.items)
        BY <1>4, <2>1
    <2>. HIDE DEF y
    <2>4. IsQueue(y)
        BY <1>4, <2>2, <2>3 DEF IsQueue
    <2>5. Seen(y) = SubSeq(Seen(p), k + 1, Len(Seen(p)))
        BY <1>1, <2>2, <2>3, <2>4, SeenAfterDrop
    <2>6. IsQueue(Compact(y)) /\ Seen(Compact(y)) = Seen(y)
        BY <2>4, CompactSeesTheSame
    <2>7. k \in 0..Len(Seen(q)) - n
        BY <1>5, <1>6, <1>7, <2>1
    <2>8. SubSeq(Seen(p), k + 1, Len(Seen(p))) = SubSeq(Seen(q), n + k + 1, Len(Seen(q)))
        <3>. DEFINE s1 == SubSeq(Seen(p), k + 1, Len(Seen(p)))
                    s2 == SubSeq(Seen(q), (n + k) + 1, Len(Seen(q)))
        <3>1. k \in 0..Len(Seen(p)) /\ n + k \in 0..Len(Seen(q))
            BY <1>4, <1>5, <1>6, <1>7, <2>1
        <3>2. /\ s1 \in Seq(Records) /\ Len(s1) = Len(Seen(p)) - k
              /\ \A i \in 1..(Len(Seen(p)) - k) : s1[i] = Seen(p)[k + i]
            BY <1>6, <3>1, DropIs
        <3>3. /\ s2 \in Seq(Records) /\ Len(s2) = Len(Seen(q)) - (n + k)
              /\ \A i \in 1..(Len(Seen(q)) - (n + k)) : s2[i] = Seen(q)[n + k + i]
            BY <1>5, <3>1, DropIs
        <3>. HIDE DEF s1, s2
        <3>4. ASSUME NEW i \in 1..Len(s1) PROVE s1[i] = s2[i]
            <4>1. /\ i \in 1..(Len(Seen(p)) - k) /\ i \in 1..(Len(Seen(q)) - (n + k))
                  /\ k + i \in 1..(Len(Seen(q)) - n)
                BY <1>4, <1>5, <1>6, <1>7, <2>1, <3>2
            <4>2. n + (k + i) = n + k + i
                BY <1>5, <2>3
            <4>3. Seen(p)[k + i] = Seen(q)[n + (k + i)]
                BY <1>7, <4>1
            <4>. QED BY <3>2, <3>3, <4>1, <4>2, <4>3
        <3>5. Len(s1) = Len(s2)
            BY <1>4, <1>5, <1>6, <1>7, <2>1, <3>2, <3>3
        <3>6. s1 = s2
            BY <3>2, <3>3, <3>4, <3>5, SeqEqual
        <3>. QED BY <3>6 DEF s1, s2
    <2>9. RecordsOf(cut) = SubSeq(Seen(q), n + 1, n + k)
        <3>. DEFINE s2 == SubSeq(Seen(q), n + 1, n + k)
        <3>1. \A i \in (p.head + 1)..(p.head + k) : p.items[i] \in Item
            BY <1>4, <2>3
        <3>2. /\ cut \in Seq(Item) /\ Len(cut) = k
              /\ \A i \in 1..k : cut[i] = p.items[p.head + i]
            <4>1. p.head + 1 \in Int /\ p.head + k \in Int
                BY <1>4, <2>3
            <4>2. /\ cut \in Seq(Item)
                  /\ Len(cut) = IF p.head + 1 <= p.head + k
                                THEN (p.head + k) - (p.head + 1) + 1 ELSE 0
                  /\ \A i \in 1..((p.head + k) - (p.head + 1) + 1) :
                         cut[i] = p.items[(p.head + 1) + i - 1]
                BY <3>1, <4>1, SubSeqProperties
            <4>. HIDE DEF cut
            <4>3. Len(cut) = k
                BY <1>4, <2>3, <4>2
            <4>4. ASSUME NEW i \in 1..k PROVE cut[i] = p.items[p.head + i]
                <5>1. /\ i \in 1..((p.head + k) - (p.head + 1) + 1)
                      /\ (p.head + 1) + i - 1 = p.head + i
                    BY <1>4, <2>3
                <5>. QED BY <4>2, <5>1
            <4>. QED BY <4>2, <4>3, <4>4
        <3>. HIDE DEF cut
        <3>3. RecordsOf(cut) = [i \in 1..k |-> cut[i].rec]
            BY <3>2 DEF RecordsOf
        <3>4. ASSUME NEW i \in 1..k
              PROVE  cut[i].rec = Seen(q)[n + i] /\ cut[i].rec \in Records
            <4>1. i \in 1..(Len(p.items) - p.head) /\ i \in 1..(Len(Seen(q)) - n)
                BY <1>4, <1>5, <1>6, <1>7, <2>1
            <4>2. cut[i].rec = Seen(p)[i]
                BY <1>6, <3>2, <4>1
            <4>3. Seen(p)[i] \in Records
                BY <1>6, <4>1
            <4>. QED BY <1>7, <4>1, <4>2, <4>3
        <3>5. \A i \in (n + 1)..(n + k) : Seen(q)[i] \in Records
            BY <1>5, <2>7
        <3>6. /\ s2 \in Seq(Records) /\ Len(s2) = k
              /\ \A i \in 1..k : s2[i] = Seen(q)[n + i]
            <4>1. n + 1 \in Int /\ n + k \in Int
                BY <2>3
            <4>2. /\ s2 \in Seq(Records)
                  /\ Len(s2) = IF n + 1 <= n + k THEN (n + k) - (n + 1) + 1 ELSE 0
                  /\ \A i \in 1..((n + k) - (n + 1) + 1) :
                         s2[i] = Seen(q)[(n + 1) + i - 1]
                BY <3>5, <4>1, SubSeqProperties
            <4>. HIDE DEF s2
            <4>3. Len(s2) = k
                BY <2>3, <4>2
            <4>4. ASSUME NEW i \in 1..k PROVE s2[i] = Seen(q)[n + i]
                <5>1. /\ i \in 1..((n + k) - (n + 1) + 1)
                      /\ (n + 1) + i - 1 = n + i
                    BY <2>3
                <5>. QED BY <4>2, <5>1
            <4>. QED BY <4>2, <4>3, <4>4
        <3>. DEFINE s1 == [i \in 1..k |-> cut[i].rec]
        <3>. HIDE DEF s2
        <3>7. s1 \in Seq(Records) /\ Len(s1) = k /\ \A i \in 1..k : s1[i] = cut[i].rec
            BY <2>3, <3>4
        <3>. HIDE DEF s1
        <3>8. s1 = s2
            BY <3>4, <3>6, <3>7, SeqEqual
        <3>. QED BY <3>3, <3>8 DEF s1, s2
    <2>10. PopResult(count) = [out |-> RecordsOf(cut), rest |-> Compact(y)]
        BY <1>3, <1>9
    <2>. HIDE DEF cut
    <2>11. Hands(Seen(q), RecordsOf(cut), Seen(Compact(y)), now - 1 <= Retention)
        BY <1>2, <2>5, <2>6, <2>7, <2>8, <2>9, Zenon DEF Hands
    <2>12. /\ PopResult(count).out = RecordsOf(cut)
           /\ PopResult(count).rest = Compact(y)
        BY <2>10
    <2>. QED BY <2>6, <2>11, <2>12, Zenon
<1>. QED BY <1>8, <1>9

\* The elements of a sequence.
LEMMA RangeIs ==
    ASSUME NEW S, NEW s \in Seq(S)
    PROVE  /\ \A r \in Range(s) : \E i \in 1..Len(s) : s[i] = r
           /\ \A i \in 1..Len(s) : s[i] \in Range(s)
           /\ Range(s) \subseteq S
<1>1. DOMAIN s = 1..Len(s)
    OBVIOUS
<1>2. Range(s) = {s[i] : i \in 1..Len(s)}
    BY <1>1 DEF Range
<1>3. \A i \in 1..Len(s) : s[i] \in S
    OBVIOUS
<1>. QED BY <1>2, <1>3

\* At the back of the line.
LEMMA AppendPlaces ==
    ASSUME NEW s \in Seq(Records), NEW r \in Records, Distinct(s), r \notin Range(s)
    PROVE  /\ Append(s, r) \in Seq(Records)
           /\ Range(Append(s, r)) = Range(s) \cup {r}
           /\ Distinct(Append(s, r))
<1>. DEFINE w == Append(s, r)
<1>1. /\ w \in Seq(Records) /\ Len(w) = Len(s) + 1 /\ Len(s) \in Nat
      /\ \A i \in 1..Len(s) : w[i] = s[i]
      /\ w[Len(s) + 1] = r
    BY AppendProperties
<1>. HIDE DEF w
<1>2. /\ \A x \in Range(s) : \E i \in 1..Len(s) : s[i] = x
      /\ \A i \in 1..Len(s) : s[i] \in Range(s)
    BY RangeIs
<1>3. /\ \A x \in Range(w) : \E i \in 1..Len(w) : w[i] = x
      /\ \A i \in 1..Len(w) : w[i] \in Range(w)
    BY <1>1, RangeIs
<1>4. Range(w) \subseteq Range(s) \cup {r}
    <2>. SUFFICES ASSUME NEW x \in Range(w), x # r PROVE x \in Range(s)
        OBVIOUS
    <2>1. PICK i \in 1..Len(w) : w[i] = x
        BY <1>3
    <2>2. i \in 1..Len(s)
        BY <1>1, <2>1
    <2>. QED BY <1>1, <1>2, <2>1, <2>2
<1>5. Range(s) \cup {r} \subseteq Range(w)
    <2>1. r \in Range(w)
        <3>1. Len(s) + 1 \in 1..Len(w)
            BY <1>1
        <3>. QED BY <1>1, <1>3, <3>1
    <2>2. ASSUME NEW x \in Range(s) PROVE x \in Range(w)
        <3>1. PICK i \in 1..Len(s) : s[i] = x
            BY <1>2
        <3>2. i \in 1..Len(w)
            BY <1>1
        <3>. QED BY <1>1, <1>3, <3>1, <3>2
    <2>. QED BY <2>1, <2>2
<1>6. Distinct(w)
    <2>. SUFFICES ASSUME NEW i \in 1..Len(w), NEW j \in 1..Len(w), w[i] = w[j]
                  PROVE  i = j
        BY <1>1 DEF Distinct
    <2>1. CASE i \in 1..Len(s) /\ j \in 1..Len(s)
        <3>1. s[i] = s[j]
            BY <1>1, <2>1
        <3>. QED BY <2>1, <3>1 DEF Distinct
    <2>2. CASE i \in 1..Len(s) /\ j = Len(s) + 1
        <3>1. s[i] = r
            BY <1>1, <2>2
        <3>. QED BY <1>2, <2>2, <3>1
    <2>3. CASE i = Len(s) + 1 /\ j \in 1..Len(s)
        <3>1. s[j] = r
            BY <1>1, <2>3
        <3>. QED BY <1>2, <2>3, <3>1
    <2>4. CASE i = Len(s) + 1 /\ j = Len(s) + 1
        BY <2>4
    <2>. QED BY <1>1, <2>1, <2>2, <2>3, <2>4
<1>. QED BY <1>1, <1>4, <1>5, <1>6 DEF w

\* One stretch of a line, from the (a+1)-th to the b-th.
LEMMA StretchIs ==
    ASSUME NEW s \in Seq(Records), NEW a \in Nat, NEW b \in Nat, a <= b, b <= Len(s)
    PROVE  /\ SubSeq(s, a + 1, b) \in Seq(Records)
           /\ Len(SubSeq(s, a + 1, b)) = b - a
           /\ \A i \in 1..(b - a) : SubSeq(s, a + 1, b)[i] = s[a + i]
<1>. DEFINE w == SubSeq(s, a + 1, b)
<1>1. a + 1 \in Int /\ b \in Int
    OBVIOUS
<1>2. \A i \in (a + 1)..b : s[i] \in Records
    OBVIOUS
<1>3. /\ w \in Seq(Records)
      /\ Len(w) = IF a + 1 <= b THEN b - (a + 1) + 1 ELSE 0
      /\ \A i \in 1..(b - (a + 1) + 1) : w[i] = s[(a + 1) + i - 1]
    BY <1>1, <1>2, SubSeqProperties
<1>. HIDE DEF w
<1>4. Len(w) = b - a
    BY <1>3
<1>5. ASSUME NEW i \in 1..(b - a) PROVE w[i] = s[a + i]
    <2>1. i \in 1..(b - (a + 1) + 1) /\ (a + 1) + i - 1 = a + i
        OBVIOUS
    <2>. QED BY <1>3, <2>1
<1>6. w \in Seq(Records) /\ Len(w) = b - a /\ \A i \in 1..(b - a) : w[i] = s[a + i]
    BY <1>3, <1>4, <1>5
<1>. QED BY <1>6 DEF w

IsStretch(w, s, a, b) ==
    /\ w \in Seq(Records) /\ Len(w) = b - a
    /\ \A i \in 1..(b - a) : w[i] = s[a + i]

LEMMA StretchPlaces ==
    ASSUME NEW s \in Seq(Records), NEW a \in Nat, NEW b \in Nat, a <= b, b <= Len(s),
           Distinct(s), NEW w, IsStretch(w, s, a, b)
    PROVE  /\ w \in Seq(Records) /\ Distinct(w) /\ Range(w) \subseteq Range(s)
           /\ \A r \in Range(w) : \E i \in (a + 1)..b : s[i] = r
           /\ \A i \in (a + 1)..b : s[i] \in Range(w)
<1>1. /\ w \in Seq(Records) /\ Len(w) = b - a
      /\ \A i \in 1..(b - a) : w[i] = s[a + i]
    BY DEF IsStretch
<1>2. \A i \in 1..Len(s) : s[i] \in Range(s)
    BY RangeIs
<1>3. /\ \A r \in Range(w) : \E i \in 1..Len(w) : w[i] = r
      /\ \A i \in 1..Len(w) : w[i] \in Range(w)
    BY <1>1, RangeIs
<1>4. ASSUME NEW r \in Range(w) PROVE \E i \in (a + 1)..b : s[i] = r
    <2>1. PICK i \in 1..Len(w) : w[i] = r
        BY <1>3
    <2>2. a + i \in (a + 1)..b /\ s[a + i] = r
        BY <1>1, <2>1
    <2>. QED BY <2>2
<1>5. ASSUME NEW i \in (a + 1)..b PROVE s[i] \in Range(w)
    <2>1. i - a \in 1..(b - a) /\ a + (i - a) = i
        OBVIOUS
    <2>2. w[i - a] = s[i] /\ w[i - a] \in Range(w)
        BY <1>1, <1>3, <2>1
    <2>. QED BY <2>2
<1>6. Range(w) \subseteq Range(s)
    <2>. SUFFICES ASSUME NEW r \in Range(w) PROVE r \in Range(s)
        OBVIOUS
    <2>1. PICK i \in (a + 1)..b : s[i] = r
        BY <1>4
    <2>2. i \in 1..Len(s)
        OBVIOUS
    <2>. QED BY <1>2, <2>1, <2>2
<1>7. Distinct(w)
    <2>. SUFFICES ASSUME NEW i \in 1..Len(w), NEW j \in 1..Len(w), w[i] = w[j]
                  PROVE  i = j
        BY <1>1 DEF Distinct
    <2>1. a + i \in 1..Len(s) /\ a + j \in 1..Len(s) /\ s[a + i] = s[a + j]
        BY <1>1
    <2>2. a + i = a + j
        BY <2>1 DEF Distinct
    <2>. QED BY <1>1, <2>2
<1>. QED BY <1>1, <1>4, <1>5, <1>6, <1>7

\* What is handed out has left the line, nothing is handed out twice, and what
\* was fresh is in one or in the other.
LEMMA HandsPlaces ==
    ASSUME NEW s \in Seq(Records), Distinct(s), NEW out, NEW t, NEW fresh,
           Hands(s, out, t, fresh)
    PROVE  /\ out \in Seq(Records) /\ t \in Seq(Records)
           /\ Distinct(out) /\ Distinct(t)
           /\ Range(out) \cup Range(t) \subseteq Range(s)
           /\ Range(out) \cap Range(t) = {}
           /\ fresh => Range(s) \subseteq Range(out) \cup Range(t)
<1>0. PICK n \in 0..Len(s) :
          \E k \in 0..Len(s) - n :
              /\ out = SubSeq(s, n + 1, n + k)
              /\ t = SubSeq(s, (n + k) + 1, Len(s))
              /\ fresh => n = 0
    BY DEF Hands
<1>1. PICK k \in 0..Len(s) - n :
          /\ out = SubSeq(s, n + 1, n + k)
          /\ t = SubSeq(s, (n + k) + 1, Len(s))
          /\ fresh => n = 0
    BY <1>0
<1>. DEFINE m == n + k
<1>2. /\ n \in Nat /\ m \in Nat /\ Len(s) \in Nat
      /\ n <= m /\ m <= Len(s) /\ Len(s) <= Len(s)
      /\ out = SubSeq(s, n + 1, m) /\ t = SubSeq(s, m + 1, Len(s))
    BY <1>1
<1>. HIDE DEF m
<1>10. IsStretch(out, s, n, m)
    BY <1>2, StretchIs DEF IsStretch
<1>11. IsStretch(t, s, m, Len(s))
    BY <1>2, StretchIs DEF IsStretch
<1>3. /\ out \in Seq(Records) /\ Distinct(out) /\ Range(out) \subseteq Range(s)
      /\ \A r \in Range(out) : \E i \in (n + 1)..m : s[i] = r
      /\ \A i \in (n + 1)..m : s[i] \in Range(out)
    BY <1>2, <1>10, StretchPlaces
<1>4. /\ t \in Seq(Records) /\ Distinct(t) /\ Range(t) \subseteq Range(s)
      /\ \A r \in Range(t) : \E i \in (m + 1)..Len(s) : s[i] = r
      /\ \A i \in (m + 1)..Len(s) : s[i] \in Range(t)
    <2>1. m \in Nat /\ Len(s) \in Nat /\ m <= Len(s) /\ Len(s) <= Len(s)
        BY <1>2
    <2>. QED BY <2>1, <1>11, StretchPlaces, Zenon
<1>5. ASSUME NEW r \in Range(out), r \in Range(t) PROVE FALSE
    <2>1. PICK i \in (n + 1)..m : s[i] = r
        BY <1>3
    <2>2. PICK j \in (m + 1)..Len(s) : s[j] = r
        BY <1>4, <1>5
    <2>3. i \in 1..Len(s) /\ j \in 1..Len(s) /\ i # j
        BY <1>2
    <2>. QED BY <2>1, <2>2, <2>3 DEF Distinct
<1>6. ASSUME fresh, NEW r \in Range(s) PROVE r \in Range(out) \cup Range(t)
    <2>1. PICK i \in 1..Len(s) : s[i] = r
        BY RangeIs
    <2>2. i \in (n + 1)..m \/ i \in (m + 1)..Len(s)
        BY <1>1, <1>2, <1>6
    <2>. QED BY <1>3, <1>4, <2>1, <2>2
<1>. QED BY <1>3, <1>4, <1>5, <1>6

\* The first of a line leaves it.
LEMMA TailPlaces ==
    ASSUME NEW s \in Seq(Records), Distinct(s), s # <<>>
    PROVE  /\ Tail(s) \in Seq(Records) /\ Head(s) \in Records
           /\ Head(s) \in Range(s)
           /\ Distinct(Tail(s))
           /\ Range(Tail(s)) = Range(s) \ {Head(s)}
<1>1. Len(s) \in Nat \ {0}
    BY EmptySeq
<1>2. Tail(s) = SubSeq(s, 1 + 1, Len(s))
    BY TailIsSubSeq
<1>3. Head(s) = s[1]
    OBVIOUS
<1>4. /\ Tail(s) \in Seq(Records) /\ Distinct(Tail(s)) /\ Range(Tail(s)) \subseteq Range(s)
      /\ \A r \in Range(Tail(s)) : \E i \in (1 + 1)..Len(s) : s[i] = r
      /\ \A i \in (1 + 1)..Len(s) : s[i] \in Range(Tail(s))
    <2>1. 1 \in Nat /\ Len(s) \in Nat /\ 1 <= Len(s) /\ Len(s) <= Len(s)
        BY <1>1
    <2>2. IsStretch(Tail(s), s, 1, Len(s))
        BY <1>2, <2>1, StretchIs DEF IsStretch
    <2>. QED BY <2>1, <2>2, StretchPlaces, Zenon
<1>5. /\ \A r \in Range(s) : \E i \in 1..Len(s) : s[i] = r
      /\ \A i \in 1..Len(s) : s[i] \in Range(s)
      /\ Range(s) \subseteq Records
    BY RangeIs
<1>6. 1 \in 1..Len(s)
    BY <1>1
<1>7. Head(s) \in Range(s) /\ Head(s) \in Records
    BY <1>3, <1>5, <1>6
<1>8. Head(s) \notin Range(Tail(s))
    <2>. SUFFICES ASSUME Head(s) \in Range(Tail(s)) PROVE FALSE
        OBVIOUS
    <2>1. PICK i \in (1 + 1)..Len(s) : s[i] = s[1]
        BY <1>3, <1>4
    <2>2. i \in 1..Len(s) /\ i # 1
        OBVIOUS
    <2>. QED BY <1>6, <2>1, <2>2 DEF Distinct
<1>9. ASSUME NEW r \in Range(s), r # Head(s) PROVE r \in Range(Tail(s))
    <2>1. PICK i \in 1..Len(s) : s[i] = r
        BY <1>5
    <2>2. i \in (1 + 1)..Len(s)
        BY <1>3, <1>9, <2>1
    <2>. QED BY <1>4, <2>1, <2>2
<1>. QED BY <1>4, <1>7, <1>8, <1>9

-----------------------------------------------------------------------------
(* What is being enqueued *)

LEMMA HeldIs ==
    ASSUME NEW js, NEW r
    PROVE  /\ r \in Held(js) => \E e \in Enqueuers : js[e] # Idle /\ js[e].rec = r
           /\ (\E e \in Enqueuers : js[e] # Idle /\ js[e].rec = r) => r \in Held(js)
BY DEF Held

\* A call of Enqueue starts, ...
LEMMA JobTaken ==
    ASSUME NEW js, JobsTrue(js), NEW e \in Enqueuers, js[e] = Idle,
           NEW j \in Job, j.at # "idle", j.rec \in Records,
           NEW ks, ks = [js EXCEPT ![e] = j]
    PROVE  /\ JobsTrue(ks)
           /\ Held(ks) = Held(js) \cup {j.rec}
           /\ JobsDiffer(js) /\ j.rec \notin Held(js) => JobsDiffer(ks)
<1>1. js \in [Enqueuers -> Job]
    BY DEF JobsTrue
<1>2. ks \in [Enqueuers -> Job] /\ ks[e] = j /\ \A f \in Enqueuers \ {e} : ks[f] = js[f]
    BY <1>1
<1>3. j # Idle
    BY DEF Idle
<1>4. JobsTrue(ks)
    BY <1>2 DEF JobsTrue
<1>5. Held(ks) \subseteq Held(js) \cup {j.rec}
    <2>. SUFFICES ASSUME NEW r \in Held(ks), r # j.rec PROVE r \in Held(js)
        OBVIOUS
    <2>1. PICK f \in Enqueuers : ks[f] # Idle /\ ks[f].rec = r
        BY HeldIs, Zenon
    <2>2. f \in Enqueuers \ {e}
        BY <1>2, <2>1
    <2>3. js[f] # Idle /\ js[f].rec = r
        BY <1>2, <2>1, <2>2, Zenon
    <2>. QED BY <2>3, HeldIs
<1>6. Held(js) \cup {j.rec} \subseteq Held(ks)
    <2>1. j.rec \in Held(ks)
        BY <1>2, <1>3, HeldIs
    <2>2. ASSUME NEW r \in Held(js) PROVE r \in Held(ks)
        <3>1. PICK f \in Enqueuers : js[f] # Idle /\ js[f].rec = r
            BY HeldIs, Zenon
        <3>2. f \in Enqueuers \ {e}
            BY <3>1
        <3>3. ks[f] # Idle /\ ks[f].rec = r
            BY <1>2, <3>1, <3>2, Zenon
        <3>. QED BY <3>3, HeldIs
    <2>. QED BY <2>1, <2>2
<1>7. ASSUME JobsDiffer(js), j.rec \notin Held(js) PROVE JobsDiffer(ks)
    <2>. SUFFICES ASSUME NEW f \in Enqueuers, NEW g \in Enqueuers,
                         ks[f] # Idle, ks[g] # Idle, ks[f].rec = ks[g].rec
                  PROVE  f = g
        BY DEF JobsDiffer
    <2>1. CASE f # e /\ g # e
        <3>1. ks[f] = js[f] /\ ks[g] = js[g]
            BY <1>2, <2>1
        <3>. QED BY <1>7, <3>1, Zenon DEF JobsDiffer
    <2>2. CASE f = e /\ g # e
        <3>1. js[g] # Idle /\ js[g].rec = j.rec
            BY <1>2, <2>2, Zenon
        <3>. QED BY <1>7, <3>1, HeldIs
    <2>3. CASE f # e /\ g = e
        <3>1. js[f] # Idle /\ js[f].rec = j.rec
            BY <1>2, <2>3, Zenon
        <3>. QED BY <1>7, <3>1, HeldIs
    <2>. QED BY <2>1, <2>2, <2>3
<1>. QED BY <1>4, <1>5, <1>6, <1>7

\* ... goes on, ...
LEMMA JobMoves ==
    ASSUME NEW js, JobsTrue(js), NEW e \in Enqueuers, js[e] # Idle,
           NEW j \in Job, j.at # "idle", j.rec = js[e].rec,
           NEW ks, ks = [js EXCEPT ![e] = j]
    PROVE  /\ JobsTrue(ks)
           /\ Held(ks) = Held(js)
           /\ JobsDiffer(js) => JobsDiffer(ks)
<1>1. js \in [Enqueuers -> Job] /\ js[e].rec \in Records
    BY DEF JobsTrue
<1>2. j.rec = js[e].rec
    OBVIOUS
<1>3. j # Idle /\ j.at # "idle"
    BY DEF Idle
<1>5. ks \in [Enqueuers -> Job] /\ ks[e] = j /\ \A f \in Enqueuers \ {e} : ks[f] = js[f]
    BY <1>1
<1>6. \A f \in Enqueuers : (ks[f] = Idle <=> js[f] = Idle) /\ (ks[f].rec = js[f].rec)
    <2>. TAKE f \in Enqueuers
    <2>1. CASE f = e
        BY <1>2, <1>3, <1>5, <2>1, Zenon
    <2>2. CASE f # e
        BY <1>5, <2>2
    <2>. QED BY <2>1, <2>2
<1>7. JobsTrue(ks)
    <2>1. ASSUME NEW f \in Enqueuers, ks[f] # Idle
          PROVE  ks[f].at # "idle" /\ ks[f].rec \in Records
        <3>1. CASE f = e
            BY <1>1, <1>2, <1>3, <1>5, <3>1, Zenon
        <3>2. CASE f # e
            <4>1. ks[f] = js[f]
                BY <1>5, <3>2
            <4>. QED BY <2>1, <4>1, Zenon DEF JobsTrue
        <3>. QED BY <3>1, <3>2
    <2>. QED BY <1>5, <2>1, Zenon DEF JobsTrue
<1>8. Held(ks) \subseteq Held(js)
    <2>. SUFFICES ASSUME NEW r \in Held(ks) PROVE r \in Held(js)
        OBVIOUS
    <2>1. PICK f \in Enqueuers : ks[f] # Idle /\ ks[f].rec = r
        BY Zenon DEF Held
    <2>2. js[f] # Idle /\ js[f].rec = r
        BY <1>6, <2>1, Zenon
    <2>. QED BY <2>2, HeldIs
<1>9. Held(js) \subseteq Held(ks)
    <2>. SUFFICES ASSUME NEW r \in Held(js) PROVE r \in Held(ks)
        OBVIOUS
    <2>1. PICK f \in Enqueuers : js[f] # Idle /\ js[f].rec = r
        BY HeldIs, Zenon
    <2>2. ks[f] # Idle /\ ks[f].rec = r
        BY <1>6, <2>1, Zenon
    <2>. QED BY <2>2, HeldIs
<1>10. ASSUME JobsDiffer(js) PROVE JobsDiffer(ks)
    <2>. SUFFICES ASSUME NEW f \in Enqueuers, NEW g \in Enqueuers,
                         ks[f] # Idle, ks[g] # Idle, ks[f].rec = ks[g].rec
                  PROVE  f = g
        BY DEF JobsDiffer
    <2>1. js[f] # Idle /\ js[g] # Idle /\ js[f].rec = js[g].rec
        BY <1>6, Zenon
    <2>. QED BY <1>10, <2>1, Zenon DEF JobsDiffer
<1>. QED BY <1>7, <1>8, <1>9, <1>10

\* ... and ends.
LEMMA JobDone ==
    ASSUME NEW js, JobsTrue(js), NEW e \in Enqueuers, js[e] # Idle,
           NEW ks, ks = [js EXCEPT ![e] = Idle]
    PROVE  /\ JobsTrue(ks)
           /\ Held(ks) \subseteq Held(js)
           /\ Held(js) \subseteq Held(ks) \cup {js[e].rec}
           /\ JobsDiffer(js) => JobsDiffer(ks) /\ js[e].rec \notin Held(ks)
<1>1. js \in [Enqueuers -> Job]
    BY DEF JobsTrue
<1>2. Idle \in Job
    <2>1. 0 \in 0..MaxRecords
        BY UsageAssumption
    <2>. QED BY <2>1 DEF Idle, Job
<1>3. ks \in [Enqueuers -> Job] /\ ks[e] = Idle /\ \A f \in Enqueuers \ {e} : ks[f] = js[f]
    BY <1>1, <1>2
<1>4. ASSUME NEW f \in Enqueuers, ks[f] # Idle
      PROVE  f # e /\ ks[f] = js[f] /\ js[f] # Idle
    BY <1>3, <1>4
<1>5. JobsTrue(ks)
    BY <1>3, <1>4, Zenon DEF JobsTrue
<1>6. ASSUME NEW r \in Held(ks)
      PROVE  r \in Held(js) /\ (JobsDiffer(js) => r # js[e].rec)
    <2>1. PICK f \in Enqueuers : ks[f] # Idle /\ ks[f].rec = r
        BY HeldIs, Zenon
    <2>2. f # e /\ js[f] # Idle /\ js[f].rec = r
        BY <1>4, <2>1, Zenon
    <2>3. r \in Held(js)
        BY <2>2, HeldIs
    <2>4. ASSUME JobsDiffer(js) PROVE r # js[e].rec
        BY <2>2, <2>4, Zenon DEF JobsDiffer
    <2>. QED BY <2>3, <2>4
<1>7. ASSUME NEW r \in Held(js), r # js[e].rec PROVE r \in Held(ks)
    <2>1. PICK f \in Enqueuers : js[f] # Idle /\ js[f].rec = r
        BY HeldIs, Zenon
    <2>2. ks[f] # Idle /\ ks[f].rec = r
        <3>1. f \in Enqueuers \ {e}
            BY <1>7, <2>1
        <3>. QED BY <1>3, <2>1, <3>1, Zenon
    <2>. QED BY <2>2, HeldIs
<1>8. ASSUME JobsDiffer(js) PROVE JobsDiffer(ks)
    <2>. SUFFICES ASSUME NEW f \in Enqueuers, NEW g \in Enqueuers,
                         ks[f] # Idle, ks[g] # Idle, ks[f].rec = ks[g].rec
                  PROVE  f = g
        BY DEF JobsDiffer
    <2>1. js[f] # Idle /\ js[g] # Idle /\ js[f].rec = js[g].rec
        BY <1>4, Zenon
    <2>. QED BY <1>8, <2>1, Zenon DEF JobsDiffer
<1>. QED BY <1>5, <1>6, <1>7, <1>8

-----------------------------------------------------------------------------
(* Records, action by action *)

Good == RecordsTrue /\ OnceEach /\ OnePlace

Somewhere ==
    Around(Range(pending), Held(jobs), Range(Seen(q)), Range(batch), sent, popped)
        \cup home

Undisturbed ==
    switchedOff = 0 /\ ~evictedAll /\ ~closed /\ now - 1 <= Retention

\* A step that disturbs nothing loses nothing, and loses nothing it publishes.
LosesNothing ==
    Undisturbed' => Somewhere \cup ((1..published') \ (1..published)) \subseteq Somewhere'

\* Everything known of the records is about what holds them.
recordVars == <<now, published, pending, dispatcher, q, jobs, batch, forwarder,
                handed, sent, popped, home, doubtful>>

LEMMA QuietKeeps ==
    ASSUME Good, UNCHANGED recordVars
    PROVE  Good' /\ LosesNothing
<1>1. /\ now' = now /\ published' = published /\ pending' = pending
      /\ dispatcher' = dispatcher /\ q' = q /\ jobs' = jobs /\ batch' = batch
      /\ forwarder' = forwarder /\ handed' = handed /\ sent' = sent
      /\ popped' = popped /\ home' = home /\ doubtful' = doubtful
    BY DEF recordVars
<1>2. RecordsTrue'
    BY <1>1 DEF Good, RecordsTrue, ForwarderTrue
<1>3. OnceEach'
    BY <1>1 DEF Good, OnceEach
<1>4. OnePlace'
    BY <1>1 DEF Good, OnePlace, Placed
<1>5. LosesNothing
    BY <1>1 DEF LosesNothing, Somewhere
<1>. QED BY <1>2, <1>3, <1>4, <1>5 DEF Good

LEMMA PublishKeeps ==
    ASSUME Good, NEW p \in Publishers, Publish(p)
    PROVE  Good' /\ LosesNothing
<1>. DEFINE r == published + 1
<1>1. /\ now' = now /\ q' = q /\ jobs' = jobs /\ batch' = batch
      /\ forwarder' = forwarder /\ handed' = handed /\ sent' = sent
      /\ popped' = popped /\ home' = home /\ doubtful' = doubtful
      /\ closed' = closed
    BY DEF Publish, homeVars
<1>2. /\ r \in Records /\ published' = r
      /\ dispatcher' = IF dispatcher = "unstarted" THEN "looping" ELSE dispatcher
      /\ closed => pending' = pending
      /\ ~closed => pending' = Append(pending, r)
    BY DEF Publish
<1>3. /\ pending \in Seq(Records) /\ Distinct(pending) /\ published \in Nat
      /\ published \in 0..MaxRecords /\ MaxRecords \in Nat
    BY UsageAssumption DEF Good, RecordsTrue, OnceEach
<1>4. /\ Range(pending) \subseteq 1..published
      /\ Around(Range(pending), Held(jobs), Range(Seen(q)), Range(batch), sent, popped)
             \cup home \subseteq 1..published
    BY DEF Good, OnePlace, Placed, Around
<1>5. r \notin 1..published /\ 1..published \subseteq 1..r /\ r \in 1..r
      /\ (1..r) \ (1..published) \subseteq {r} /\ r \in 0..MaxRecords
    BY <1>2, <1>3 DEF Records
<1>. HIDE DEF r
<1>6. /\ pending' \in Seq(Records) /\ Distinct(pending)'
      /\ Range(pending') \subseteq Range(pending) \cup {r}
      /\ Range(pending) \subseteq Range(pending')
      /\ ~closed => r \in Range(pending')
    <2>1. CASE closed
        BY <1>2, <1>3, <2>1
    <2>2. CASE ~closed
        <3>1. /\ Append(pending, r) \in Seq(Records)
              /\ Range(Append(pending, r)) = Range(pending) \cup {r}
              /\ Distinct(Append(pending, r))
            BY <1>2, <1>3, <1>4, <1>5, AppendPlaces
        <3>. QED BY <1>2, <2>2, <3>1
    <2>. QED BY <2>1, <2>2
<1>7. RecordsTrue'
    BY <1>1, <1>2, <1>5, <1>6 DEF Good, RecordsTrue, ForwarderTrue
<1>8. OnceEach'
    BY <1>1, <1>6 DEF Good, OnceEach
<1>9. OnePlace'
    <2>. DEFINE P == Range(pending)
                J == Held(jobs)
                S == Range(Seen(q))
                B == Range(batch)
    <2>1. Placed(P, J, S, B, sent, popped)
        BY DEF Good, OnePlace
    <2>2. P' \subseteq P \cup {r} /\ r \notin Around(P, J, S, B, sent, popped) \cup home
          /\ J' = J /\ S' = S /\ B' = B
        BY <1>1, <1>4, <1>5, <1>6
    <2>. HIDE DEF P, J, S, B
    <2>3. Placed(P, J, S, B, sent, popped)'
        BY <1>1, <1>2, <1>5, <2>1, <2>2 DEF Placed, Apart, Around
    <2>. QED BY <2>3 DEF OnePlace, P, J, S, B
<1>10. LosesNothing
    <2>. SUFFICES ASSUME ~closed'
                  PROVE  Somewhere \cup ((1..published') \ (1..published)) \subseteq Somewhere'
        BY DEF LosesNothing, Undisturbed
    <2>. QED BY <1>1, <1>2, <1>5, <1>6 DEF Somewhere, Around
<1>. QED BY <1>7, <1>8, <1>9, <1>10 DEF Good

\* The worker wakes up, or a flag is set.
LEMMA WakeKeeps ==
    ASSUME Good, \/ \E p \in Publishers : SignalWorker(p)
                 \/ WakeWorker
    PROVE  Good' /\ LosesNothing
<1>1. /\ now' = now /\ published' = published /\ pending' = pending
      /\ q' = q /\ jobs' = jobs /\ batch' = batch
      /\ forwarder' = forwarder /\ handed' = handed /\ sent' = sent
      /\ popped' = popped /\ home' = home /\ doubtful' = doubtful
      /\ dispatcher' = Woken
    BY DEF SignalWorker, WakeWorker, homeVars
<1>2. RecordsTrue'
    BY <1>1 DEF Good, RecordsTrue, ForwarderTrue, Woken
<1>3. OnceEach'
    BY <1>1 DEF Good, OnceEach
<1>4. OnePlace'
    BY <1>1 DEF Good, OnePlace, Placed
<1>5. LosesNothing
    BY <1>1 DEF LosesNothing, Somewhere
<1>. QED BY <1>2, <1>3, <1>4, <1>5 DEF Good

LEMMA TickKeeps ==
    ASSUME Good, Tick
    PROVE  Good' /\ LosesNothing
<1>1. /\ published' = published /\ pending' = pending
      /\ dispatcher' = dispatcher /\ q' = q /\ jobs' = jobs /\ batch' = batch
      /\ forwarder' = forwarder /\ handed' = handed /\ sent' = sent
      /\ popped' = popped /\ home' = home /\ doubtful' = doubtful
    BY DEF Tick, homeVars, managerVars
<1>2. now' \in 1..MaxTime
    BY UsageAssumption DEF Good, RecordsTrue, Tick
<1>3. RecordsTrue'
    BY <1>1, <1>2 DEF Good, RecordsTrue, ForwarderTrue
<1>4. OnceEach'
    BY <1>1 DEF Good, OnceEach
<1>5. OnePlace'
    BY <1>1 DEF Good, OnePlace, Placed
<1>6. LosesNothing
    BY <1>1 DEF LosesNothing, Somewhere
<1>. QED BY <1>3, <1>4, <1>5, <1>6 DEF Good

LEMMA TakeKeeps ==
    ASSUME Good, TakeRecord
    PROVE  Good' /\ LosesNothing
<1>1. /\ now' = now /\ published' = published /\ q' = q /\ batch' = batch
      /\ forwarder' = forwarder /\ handed' = handed /\ sent' = sent
      /\ popped' = popped /\ home' = home /\ doubtful' = doubtful
    BY DEF TakeRecord, homeVars
<1>2. /\ pending \in Seq(Records) /\ Distinct(pending)
      /\ JobsTrue(jobs) /\ JobsDiffer(jobs)
    BY DEF Good, RecordsTrue, OnceEach
<1>3. CASE pending = <<>>
    <2>1. pending' = pending /\ jobs' = jobs
          /\ dispatcher' \in {"returned", "waiting"}
        BY <1>3 DEF TakeRecord
    <2>2. RecordsTrue'
        BY <1>1, <2>1 DEF Good, RecordsTrue, ForwarderTrue
    <2>3. OnceEach'
        BY <1>1, <2>1 DEF Good, OnceEach
    <2>4. OnePlace'
        BY <1>1, <2>1 DEF Good, OnePlace, Placed
    <2>5. LosesNothing
        BY <1>1, <2>1 DEF LosesNothing, Somewhere
    <2>. QED BY <2>2, <2>3, <2>4, <2>5 DEF Good
<1>4. CASE pending # <<>>
    <2>. DEFINE r == Head(pending)
                j == [at |-> "handling", rec |-> r]
                P == Range(pending)
                J == Held(jobs)
                S == Range(Seen(q))
                B == Range(batch)
    <2>1. /\ pending' = Tail(pending) /\ dispatcher' = dispatcher
          /\ jobs' = [jobs EXCEPT !["dispatcher"] = j]
          /\ jobs["dispatcher"] = Idle
        BY <1>4 DEF TakeRecord
    <2>2. /\ Tail(pending) \in Seq(Records) /\ r \in Records /\ r \in P
          /\ Distinct(Tail(pending)) /\ Range(Tail(pending)) = P \ {r}
        BY <1>2, <1>4, TailPlaces
    <2>3. j \in Job /\ j.at # "idle" /\ j.rec = r
        <3>. HIDE DEF r
        <3>. QED BY <2>2, UsageAssumption DEF Job, Records
    <2>4. Placed(P, J, S, B, sent, popped)
        BY DEF Good, OnePlace
    <2>5. r \notin J
        BY <2>2, <2>4 DEF Placed, Apart
    <2>6. "dispatcher" \in Enqueuers
        BY DEF Enqueuers
    <2>. HIDE DEF r, j
    <2>7. JobsTrue(jobs') /\ Held(jobs') = J \cup {r} /\ JobsDiffer(jobs')
        BY <1>2, <2>1, <2>2, <2>3, <2>5, <2>6, JobTaken
    <2>8. P' = P \ {r} /\ J' = J \cup {r} /\ S' = S /\ B' = B
        BY <1>1, <2>1, <2>2, <2>7
    <2>9. RecordsTrue'
        BY <1>1, <2>1, <2>2, <2>7 DEF Good, RecordsTrue, ForwarderTrue
    <2>10. OnceEach'
        BY <1>1, <2>1, <2>2, <2>7 DEF Good, OnceEach
    <2>. HIDE DEF P, J, S, B
    <2>11. Placed(P, J, S, B, sent, popped)'
        BY <1>1, <2>2, <2>4, <2>8 DEF Placed, Apart, Around
    <2>12. Around(P, J, S, B, sent, popped) \cup home
               \subseteq (Around(P, J, S, B, sent, popped) \cup home)'
        BY <1>1, <2>2, <2>8 DEF Around
    <2>13. OnePlace'
        BY <2>11 DEF OnePlace, P, J, S, B
    <2>14. LosesNothing
        BY <1>1, <2>12 DEF LosesNothing, Somewhere, P, J, S, B
    <2>. QED BY <2>9, <2>10, <2>13, <2>14 DEF Good
<1>. QED BY <1>3, <1>4

LEMMA HandleKeeps ==
    ASSUME Good, StreamsTrue, HandleUsage
    PROVE  Good' /\ LosesNothing
<1>1. /\ now' = now /\ published' = published /\ pending' = pending
      /\ dispatcher' = dispatcher /\ q' = q /\ batch' = batch
      /\ forwarder' = forwarder /\ handed' = handed /\ sent' = sent
      /\ popped' = popped /\ home' = home /\ doubtful' = doubtful
      /\ switchedOff' = switchedOff
    BY DEF HandleUsage, homeVars, managerVars, switchVars
<1>. DEFINE d == "dispatcher"
            J == Held(jobs)
<1>2. d \in Enqueuers /\ jobs[d].at = "handling"
      /\ JobsTrue(jobs) /\ JobsDiffer(jobs)
    BY DEF Good, RecordsTrue, OnceEach, HandleUsage, Enqueuers
<1>3. jobs[d] # Idle
    BY <1>2 DEF Idle
<1>4. jobs \in [Enqueuers -> Job]
    BY <1>2 DEF JobsTrue
<1>5. /\ JobsTrue(jobs') /\ JobsDiffer(jobs') /\ J' \subseteq J
      /\ enabled /\ statsOn => J' = J
    <2>1. CASE enabled /\ statsOn
        <3>. DEFINE j == [jobs[d] EXCEPT !.at = "admitted"]
        <3>1. jobs' = [jobs EXCEPT ![d] = j]
            BY <1>4, <2>1 DEF HandleUsage
        <3>2. j \in Job /\ j.at # "idle" /\ j.rec = jobs[d].rec
            BY <1>2, <1>4 DEF Job
        <3>3. /\ JobsTrue(jobs') /\ Held(jobs') = Held(jobs)
              /\ JobsDiffer(jobs) => JobsDiffer(jobs')
            <4>. HIDE DEF d, j
            <4>. QED BY <1>2, <1>3, <3>1, <3>2, JobMoves, ZenonT(40)
        <3>. QED BY <1>2, <3>3
    <2>2. CASE ~(enabled /\ statsOn)
        <3>1. jobs' = [jobs EXCEPT ![d] = Idle]
            BY <1>4, <2>2 DEF HandleUsage
        <3>2. JobsTrue(jobs') /\ Held(jobs') \subseteq Held(jobs) /\ JobsDiffer(jobs')
            BY <1>2, <1>3, <3>1, JobDone
        <3>. QED BY <2>2, <3>2
    <2>. QED BY <2>1, <2>2
<1>6. RecordsTrue'
    BY <1>1, <1>5 DEF Good, RecordsTrue, ForwarderTrue
<1>7. OnceEach'
    BY <1>1, <1>5 DEF Good, OnceEach
<1>8. OnePlace'
    BY <1>1, <1>5 DEF Good, OnePlace, Placed, Apart, Around
<1>9. LosesNothing
    <2>. SUFFICES ASSUME switchedOff = 0
                  PROVE  Somewhere \cup ((1..published') \ (1..published)) \subseteq Somewhere'
        BY <1>1 DEF LosesNothing, Undisturbed
    <2>1. enabled /\ statsOn
        BY DEF StreamsTrue, TogglerTrue
    <2>. QED BY <1>1, <1>5, <2>1 DEF Somewhere, Around
<1>. QED BY <1>6, <1>7, <1>8, <1>9 DEF Good

LEMMA BridgeKeeps ==
    ASSUME Good, StreamsTrue, BridgeRecord
    PROVE  Good' /\ LosesNothing
<1>. DEFINE r == published + 1
            j == [at |-> "admitted", rec |-> r]
            J == Held(jobs)
            before == Around(Range(pending), J, Range(Seen(q)), Range(batch), sent, popped)
<1>1. /\ now' = now /\ pending' = pending /\ dispatcher' = dispatcher /\ q' = q
      /\ batch' = batch /\ forwarder' = forwarder /\ handed' = handed
      /\ sent' = sent /\ popped' = popped /\ home' = home /\ doubtful' = doubtful
      /\ switchedOff' = switchedOff
    BY DEF BridgeRecord, homeVars, switchVars
<1>2. /\ r \in Records /\ published' = r /\ jobs["bridge"] = Idle
      /\ enabled => jobs' = [jobs EXCEPT !["bridge"] = j]
      /\ ~enabled => jobs' = jobs
    BY UsageAssumption DEF BridgeRecord, Records
<1>3. /\ JobsTrue(jobs) /\ JobsDiffer(jobs)
      /\ published \in 0..MaxRecords /\ MaxRecords \in Nat
    BY UsageAssumption DEF Good, RecordsTrue, OnceEach
<1>4. before \cup home \subseteq 1..published
    BY DEF Good, OnePlace, Placed
<1>5. r \notin 1..published /\ 1..published \subseteq 1..r /\ r \in 1..r
      /\ (1..r) \ (1..published) \subseteq {r} /\ r \in 0..MaxRecords
    BY <1>2, <1>3 DEF Records
<1>6. r \notin before \cup home /\ r \notin J
    BY <1>4, <1>5 DEF Around
<1>7. j \in Job /\ j.at # "idle" /\ j.rec = r
    <2>. HIDE DEF r
    <2>. QED BY <1>5 DEF Job
<1>8. "bridge" \in Enqueuers
    BY DEF Enqueuers
<1>. HIDE DEF r, j
<1>9. /\ JobsTrue(jobs') /\ JobsDiffer(jobs')
      /\ J \subseteq J' /\ J' \subseteq J \cup {r}
      /\ enabled => r \in J'
    <2>1. CASE enabled
        <3>1. JobsTrue(jobs') /\ Held(jobs') = J \cup {r} /\ JobsDiffer(jobs')
            BY <1>2, <1>3, <1>6, <1>7, <1>8, <2>1, JobTaken
        <3>. QED BY <3>1
    <2>2. CASE ~enabled
        BY <1>2, <1>3, <2>2
    <2>. QED BY <2>1, <2>2
<1>10. RecordsTrue'
    BY <1>1, <1>2, <1>5, <1>9 DEF Good, RecordsTrue, ForwarderTrue
<1>11. OnceEach'
    BY <1>1, <1>9 DEF Good, OnceEach
<1>12. OnePlace'
    <2>. DEFINE P == Range(pending)
                S == Range(Seen(q))
                B == Range(batch)
    <2>1. Placed(P, J, S, B, sent, popped)
        BY DEF Good, OnePlace
    <2>2. /\ J' \subseteq J \cup {r} /\ r \notin Around(P, J, S, B, sent, popped) \cup home
          /\ P' = P /\ S' = S /\ B' = B
        BY <1>1, <1>6, <1>9
    <2>. HIDE DEF P, J, S, B
    <2>3. Placed(P, J, S, B, sent, popped)'
        BY <1>1, <1>2, <1>5, <2>1, <2>2 DEF Placed, Apart, Around
    <2>. QED BY <2>3 DEF OnePlace, P, J, S, B
<1>13. LosesNothing
    <2>. SUFFICES ASSUME switchedOff = 0
                  PROVE  Somewhere \cup ((1..published') \ (1..published)) \subseteq Somewhere'
        BY <1>1 DEF LosesNothing, Undisturbed
    <2>1. enabled
        BY DEF StreamsTrue, TogglerTrue
    <2>. QED BY <1>1, <1>2, <1>5, <1>9, <2>1 DEF Somewhere, Around
<1>. QED BY <1>10, <1>11, <1>12, <1>13 DEF Good

LEMMA OfferKeeps ==
    ASSUME Good, NEW e \in Enqueuers, Offer(e)
    PROVE  Good' /\ LosesNothing
<1>. DEFINE r == jobs[e].rec
            P == Range(pending)
            J == Held(jobs)
            S == Range(Seen(q))
            B == Range(batch)
<1>1. /\ now' = now /\ published' = published /\ pending' = pending
      /\ dispatcher' = dispatcher /\ q' = q /\ batch' = batch
      /\ forwarder' = forwarder /\ handed' = handed
      /\ popped' = popped /\ home' = home /\ doubtful' = doubtful
    BY DEF Offer, homeVars, managerVars
<1>2. /\ jobs[e].at = "admitted" /\ JobsTrue(jobs) /\ JobsDiffer(jobs)
      /\ jobs \in [Enqueuers -> Job]
    BY DEF Good, RecordsTrue, OnceEach, Offer, JobsTrue
<1>3. jobs[e] # Idle
    BY <1>2 DEF Idle
<1>4. Placed(P, J, S, B, sent, popped)
    BY DEF Good, OnePlace
<1>5. r \in J /\ r \in Records
    BY <1>2, <1>3, HeldIs DEF JobsTrue
<1>6. /\ JobsTrue(jobs') /\ JobsDiffer(jobs')
      /\ \/ J' = J /\ sent' = sent
         \/ /\ J' \subseteq J /\ J \subseteq J' \cup {r} /\ r \notin J'
            /\ sent' = sent \cup {r} \/ (sent' = sent /\ evictedAll')
    <2>1. CASE members = {}
        <3>. DEFINE j == [jobs[e] EXCEPT !.at = "unclaimed"]
        <3>1. jobs' = [jobs EXCEPT ![e] = j] /\ sent' = sent
            BY <1>2, <2>1 DEF Offer
        <3>2. j \in Job /\ j.at # "idle" /\ j.rec = jobs[e].rec
            BY <1>2 DEF Job
        <3>3. /\ JobsTrue(jobs') /\ Held(jobs') = Held(jobs)
              /\ JobsDiffer(jobs) => JobsDiffer(jobs')
            <4>. HIDE DEF j
            <4>. QED BY <1>2, <1>3, <3>1, <3>2, JobMoves
        <3>. QED BY <1>2, <3>1, <3>3
    <2>2. CASE members # {}
        <3>1. /\ jobs' = [jobs EXCEPT ![e] = Idle]
              /\ sent' = sent \cup {r} \/ (sent' = sent /\ evictedAll')
            BY <2>2 DEF Offer
        <3>2. /\ JobsTrue(jobs') /\ Held(jobs') \subseteq J /\ JobsDiffer(jobs')
              /\ J \subseteq Held(jobs') \cup {r} /\ r \notin Held(jobs')
            BY <1>2, <1>3, <3>1, JobDone
        <3>. QED BY <3>1, <3>2
    <2>. QED BY <2>1, <2>2
<1>7. RecordsTrue'
    BY <1>1, <1>6 DEF Good, RecordsTrue, ForwarderTrue
<1>8. OnceEach'
    BY <1>1, <1>6 DEF Good, OnceEach
<1>9. P' = P /\ S' = S /\ B' = B
    BY <1>1
<1>. HIDE DEF r, P, J, S, B
<1>10. Placed(P, J, S, B, sent, popped)'
    <2>1. CASE J' = J /\ sent' = sent
        BY <1>1, <1>4, <1>9, <2>1 DEF Placed
    <2>2. CASE /\ J' \subseteq J /\ r \notin J'
               /\ sent' = sent \cup {r} \/ sent' = sent
        BY <1>1, <1>4, <1>5, <1>9, <2>2 DEF Placed, Apart, Around
    <2>. QED BY <1>6, <2>1, <2>2
<1>11. OnePlace'
    BY <1>10 DEF OnePlace, P, J, S, B
<1>12. ASSUME ~evictedAll'
       PROVE  Around(P, J, S, B, sent, popped) \cup home
                  \subseteq (Around(P, J, S, B, sent, popped) \cup home)'
    BY <1>1, <1>6, <1>9, <1>12 DEF Around
<1>13. LosesNothing
    BY <1>1, <1>12 DEF LosesNothing, Undisturbed, Somewhere, P, J, S, B
<1>. QED BY <1>7, <1>8, <1>11, <1>13 DEF Good

\* A record is stored behind what has not expired.
LEMMA StoreSees ==
    ASSUME IsQueue(q), now \in 1..MaxTime, NEW r \in Records, NEW it,
           it = [rec |-> r, at |-> now],
           NEW y, y = Compact([Pruned(q) EXCEPT !.items = Append(@, it)])
    PROVE  /\ IsQueue(y)
           /\ \E n \in 0..Len(Seen(q)) :
                 /\ Seen(y) = Append(SubSeq(Seen(q), n + 1, Len(Seen(q))), r)
                 /\ now - 1 <= Retention => n = 0
<1>1. MaxTime \in Nat /\ Retention \in Nat
    BY UsageAssumption
<1>2. PICK n \in 0..Len(Seen(q)) :
          /\ Seen(Pruned(q)) = SubSeq(Seen(q), n + 1, Len(Seen(q)))
          /\ now - 1 <= Retention => n = 0
    BY <1>1, PruneDrops
<1>3. IsQueue(Pruned(q))
    BY <1>1, PruneDrops
<1>4. it \in Item /\ it.rec = r
    BY DEF Item
<1>. DEFINE x == [Pruned(q) EXCEPT !.items = Append(@, it)]
<1>5. IsQueue(x) /\ Seen(x) = Append(Seen(Pruned(q)), it.rec)
    BY <1>3, <1>4, SeenAfterAppend
<1>6. y = Compact(x)
    OBVIOUS
<1>. HIDE DEF x
<1>7. IsQueue(y) /\ Seen(y) = Seen(x)
    BY <1>5, <1>6, CompactSeesTheSame
<1>. QED BY <1>2, <1>4, <1>5, <1>7

LEMMA StoreKeeps ==
    ASSUME Good, NEW e \in Enqueuers, Store(e)
    PROVE  Good' /\ LosesNothing
<1>. DEFINE r == jobs[e].rec
            P == Range(pending)
            J == Held(jobs)
            S == Range(Seen(q))
            B == Range(batch)
            it == [rec |-> r, at |-> now]
<1>1. /\ now' = now /\ published' = published /\ pending' = pending
      /\ dispatcher' = dispatcher /\ batch' = batch
      /\ forwarder' = forwarder /\ handed' = handed /\ sent' = sent
      /\ popped' = popped /\ home' = home /\ doubtful' = doubtful
    BY DEF Store, homeVars, managerVars
<1>2. /\ jobs[e].at = "unclaimed" /\ JobsTrue(jobs) /\ JobsDiffer(jobs)
      /\ jobs' = [jobs EXCEPT ![e] = Idle]
      /\ q' = Compact([Pruned(q) EXCEPT !.items = Append(@, it)])
    BY DEF Good, RecordsTrue, OnceEach, Store
<1>3. jobs[e] # Idle
    BY <1>2 DEF Idle
<1>4. Placed(P, J, S, B, sent, popped)
    BY DEF Good, OnePlace
<1>5. r \in J /\ r \in Records
    BY <1>2, <1>3, HeldIs DEF JobsTrue
<1>6. /\ JobsTrue(jobs') /\ JobsDiffer(jobs') /\ J' \subseteq J
      /\ J \subseteq J' \cup {r} /\ r \notin J'
    BY <1>2, <1>3, JobDone
<1>7. /\ IsQueue(q) /\ now \in 1..MaxTime /\ Distinct(Seen(q))
    BY DEF Good, RecordsTrue, OnceEach
<1>8. Seen(q) \in Seq(Records)
    BY <1>7, SeenIs
<1>9. /\ IsQueue(q')
      /\ \E n \in 0..Len(Seen(q)) :
             /\ Seen(q') = Append(SubSeq(Seen(q), n + 1, Len(Seen(q))), r)
             /\ now - 1 <= Retention => n = 0
    <2>1. it = [rec |-> r, at |-> now]
        OBVIOUS
    <2>. HIDE DEF it, r
    <2>. QED BY <1>2, <1>5, <1>7, <2>1, StoreSees
<1>. HIDE DEF it
<1>10. PICK n \in 0..Len(Seen(q)) :
           /\ Seen(q') = Append(SubSeq(Seen(q), n + 1, Len(Seen(q))), r)
           /\ now - 1 <= Retention => n = 0
    BY <1>9
<1>. DEFINE t == SubSeq(Seen(q), n + 1, Len(Seen(q)))
<1>11. /\ t \in Seq(Records) /\ Distinct(t) /\ Range(t) \subseteq S
       /\ n = 0 => t = Seen(q)
    <2>1. /\ n \in Nat /\ Len(Seen(q)) \in Nat /\ n <= Len(Seen(q))
          /\ Len(Seen(q)) <= Len(Seen(q))
        BY <1>8
    <2>2. IsStretch(t, Seen(q), n, Len(Seen(q)))
        BY <1>8, <2>1, StretchIs DEF IsStretch
    <2>3. /\ t \in Seq(Records) /\ Distinct(t) /\ Range(t) \subseteq Range(Seen(q))
        <3>. HIDE DEF t
        <3>. QED BY <1>7, <1>8, <2>1, <2>2, StretchPlaces, Zenon
    <2>4. n = 0 => t = Seen(q)
        BY <1>8, SubSeqFull
    <2>. QED BY <2>3, <2>4
<1>12. Seen(q') = Append(t, r)
    BY <1>10
<1>. HIDE DEF t
<1>13. r \notin S
    BY <1>4, <1>5 DEF Placed, Apart
<1>14. /\ Range(Append(t, r)) = Range(t) \cup {r} /\ Distinct(Append(t, r))
    <2>. HIDE DEF r, S
    <2>. QED BY <1>5, <1>11, <1>13, AppendPlaces
<1>15. /\ Distinct(Seen(q')) /\ Range(Seen(q')) = Range(t) \cup {r}
    BY <1>12, <1>14
<1>16. RecordsTrue'
    BY <1>1, <1>6, <1>9 DEF Good, RecordsTrue, ForwarderTrue
<1>17. OnceEach'
    BY <1>1, <1>6, <1>15 DEF Good, OnceEach
<1>18. /\ P' = P /\ S' \subseteq S \cup {r} /\ B' = B
       /\ now - 1 <= Retention => S' = S \cup {r}
    BY <1>1, <1>10, <1>11, <1>15
<1>. HIDE DEF r, P, J, S, B
<1>19. Placed(P, J, S, B, sent, popped)'
    BY <1>1, <1>4, <1>5, <1>6, <1>18 DEF Placed, Apart, Around
<1>20. OnePlace'
    BY <1>19 DEF OnePlace, P, J, S, B
<1>21. ASSUME now - 1 <= Retention
       PROVE  Around(P, J, S, B, sent, popped) \cup home
                  \subseteq (Around(P, J, S, B, sent, popped) \cup home)'
    BY <1>1, <1>6, <1>18, <1>21 DEF Around
<1>22. LosesNothing
    BY <1>1, <1>21 DEF LosesNothing, Undisturbed, Somewhere, P, J, S, B
<1>. QED BY <1>16, <1>17, <1>20, <1>22 DEF Good

\* What a pop takes out of the buffer, and what it leaves.
LEMMA PopTakes ==
    ASSUME Good, NEW count \in Nat, NEW out, NEW rest,
           out = PopResult(count).out, rest = PopResult(count).rest
    PROVE  /\ IsQueue(rest) /\ out \in Seq(Records)
           /\ Distinct(out) /\ Distinct(Seen(rest))
           /\ Range(out) \cup Range(Seen(rest)) \subseteq Range(Seen(q))
           /\ Range(out) \cap Range(Seen(rest)) = {}
           /\ now - 1 <= Retention =>
                  Range(Seen(q)) \subseteq Range(out) \cup Range(Seen(rest))
           /\ handed \o out \in Seq(Records)
<1>1. /\ IsQueue(q) /\ now \in 1..MaxTime /\ Distinct(Seen(q)) /\ handed \in Seq(Records)
      /\ MaxTime \in Nat /\ Retention \in Nat
    BY UsageAssumption DEF Good, RecordsTrue, OnceEach
<1>. DEFINE fresh == now - 1 <= Retention
<1>2. IsQueue(rest) /\ Hands(Seen(q), out, Seen(rest), fresh)
    BY <1>1, PopHands
<1>3. Seen(q) \in Seq(Records)
    BY <1>1, SeenIs
<1>. HIDE DEF fresh
<1>4. /\ out \in Seq(Records) /\ Seen(rest) \in Seq(Records)
      /\ Distinct(out) /\ Distinct(Seen(rest))
      /\ Range(out) \cup Range(Seen(rest)) \subseteq Range(Seen(q))
      /\ Range(out) \cap Range(Seen(rest)) = {}
      /\ fresh => Range(Seen(q)) \subseteq Range(out) \cup Range(Seen(rest))
    BY <1>1, <1>2, <1>3, HandsPlaces
<1>5. handed \o out \in Seq(Records)
    BY <1>1, <1>4, ConcatProperties
<1>. QED BY <1>2, <1>4, <1>5 DEF fresh

LEMMA PopKeeps ==
    ASSUME Good, Pop
    PROVE  Good' /\ LosesNothing
<1>. DEFINE P == Range(pending)
            J == Held(jobs)
            S == Range(Seen(q))
            B == Range(batch)
<1>1. /\ now' = now /\ published' = published /\ pending' = pending
      /\ dispatcher' = dispatcher /\ batch' = batch /\ jobs' = jobs
      /\ forwarder' = forwarder /\ sent' = sent
      /\ home' = home /\ doubtful' = doubtful
    BY DEF Pop, homeVars, managerVars
<1>2. PICK count \in 1..Batch :
          /\ q' = PopResult(count).rest
          /\ handed' = handed \o PopResult(count).out
          /\ popped' = popped \cup Range(PopResult(count).out)
    BY DEF Pop
<1>. DEFINE out == PopResult(count).out
            rest == PopResult(count).rest
<1>3. /\ IsQueue(rest) /\ out \in Seq(Records)
      /\ Distinct(out) /\ Distinct(Seen(rest))
      /\ Range(out) \cup Range(Seen(rest)) \subseteq S
      /\ Range(out) \cap Range(Seen(rest)) = {}
      /\ now - 1 <= Retention => S \subseteq Range(out) \cup Range(Seen(rest))
      /\ handed \o out \in Seq(Records)
    <2>1. count \in Nat
        BY UsageAssumption
    <2>. QED BY <2>1, PopTakes
<1>4. q' = rest /\ handed' = handed \o out /\ popped' = popped \cup Range(out)
    BY <1>2
<1>. HIDE DEF out, rest
<1>5. RecordsTrue'
    BY <1>1, <1>3, <1>4 DEF Good, RecordsTrue, ForwarderTrue
<1>6. OnceEach'
    BY <1>1, <1>3, <1>4 DEF Good, OnceEach
<1>7. Placed(P, J, S, B, sent, popped)
    BY DEF Good, OnePlace
<1>. DEFINE X == Range(out)
<1>8. /\ P' = P /\ J' = J /\ B' = B /\ X \subseteq S /\ S' \subseteq S /\ X \cap S' = {}
      /\ popped' = popped \cup X
      /\ now - 1 <= Retention => S \subseteq X \cup S'
    BY <1>1, <1>3, <1>4
<1>. HIDE DEF P, J, S, B, X
<1>9. Placed(P, J, S, B, sent, popped)'
    BY <1>1, <1>7, <1>8 DEF Placed, Apart, Around
<1>10. OnePlace'
    BY <1>9 DEF OnePlace, P, J, S, B
<1>11. ASSUME now - 1 <= Retention
       PROVE  Around(P, J, S, B, sent, popped) \cup home
                  \subseteq (Around(P, J, S, B, sent, popped) \cup home)'
    BY <1>1, <1>8, <1>11 DEF Around
<1>12. LosesNothing
    BY <1>1, <1>11 DEF LosesNothing, Undisturbed, Somewhere, P, J, S, B
<1>. QED BY <1>5, <1>6, <1>10, <1>12 DEF Good

LEMMA ClearKeeps ==
    ASSUME Good, StreamsTrue, Clear
    PROVE  Good' /\ LosesNothing
<1>1. /\ now' = now /\ published' = published /\ pending' = pending
      /\ dispatcher' = dispatcher /\ batch' = batch /\ jobs' = jobs
      /\ forwarder' = forwarder /\ handed' = handed /\ sent' = sent
      /\ popped' = popped /\ home' = home /\ doubtful' = doubtful
      /\ switchedOff' = switchedOff /\ q' = NoItems
    BY DEF Clear, homeVars, managerVars
<1>2. switchedOff > 0 /\ switchedOff # 0
    BY DEF Clear, StreamsTrue, TogglerTrue
<1>3. Distinct(Seen(NoItems)) /\ Range(Seen(NoItems)) = {}
    <2>1. Seen(NoItems) = <<>> /\ DOMAIN <<>> = {}
        BY NothingSeen
    <2>. QED BY <2>1 DEF Distinct, Range
<1>4. RecordsTrue'
    BY <1>1, NothingSeen DEF Good, RecordsTrue, ForwarderTrue
<1>5. OnceEach'
    BY <1>1, <1>3 DEF Good, OnceEach
<1>6. OnePlace'
    BY <1>1, <1>3 DEF Good, OnePlace, Placed, Apart, Around
<1>7. LosesNothing
    BY <1>1, <1>2 DEF LosesNothing, Undisturbed
<1>. QED BY <1>4, <1>5, <1>6, <1>7 DEF Good

\* The forwarder pops ...
LEMMA ForwarderPopsKeeps ==
    ASSUME Good, ForwarderPops
    PROVE  Good' /\ LosesNothing
<1>1. /\ now' = now /\ published' = published /\ pending' = pending
      /\ dispatcher' = dispatcher /\ batch' = batch /\ jobs' = jobs
      /\ q' = q /\ handed' = handed /\ sent' = sent
      /\ popped' = popped /\ home' = home /\ doubtful' = doubtful
      /\ forwarder' = "popping" /\ batch = <<>>
    BY DEF ForwarderPops, managerVars
<1>2. RecordsTrue'
    BY <1>1 DEF Good, RecordsTrue, ForwarderTrue
<1>3. OnceEach'
    BY <1>1 DEF Good, OnceEach
<1>4. OnePlace'
    BY <1>1 DEF Good, OnePlace, Placed
<1>5. LosesNothing
    BY <1>1 DEF LosesNothing, Somewhere
<1>. QED BY <1>2, <1>3, <1>4, <1>5 DEF Good

LEMMA ForwarderTakesKeeps ==
    ASSUME Good, ForwarderTakes
    PROVE  Good' /\ LosesNothing
<1>. DEFINE P == Range(pending)
            J == Held(jobs)
            S == Range(Seen(q))
            B == Range(batch)
            out == PopResult(Batch).out
            rest == PopResult(Batch).rest
<1>1. /\ now' = now /\ published' = published /\ pending' = pending
      /\ dispatcher' = dispatcher /\ jobs' = jobs /\ sent' = sent
      /\ popped' = popped /\ home' = home /\ doubtful' = doubtful
    BY DEF ForwarderTakes, managerVars
<1>2. /\ q' = rest /\ handed' = handed \o out /\ batch' = out
      /\ forwarder' = IF out = <<>> THEN "idle" ELSE "pushing"
      /\ forwarder = "popping"
    BY DEF ForwarderTakes
<1>3. /\ IsQueue(rest) /\ out \in Seq(Records)
      /\ Distinct(out) /\ Distinct(Seen(rest))
      /\ Range(out) \cup Range(Seen(rest)) \subseteq S
      /\ Range(out) \cap Range(Seen(rest)) = {}
      /\ now - 1 <= Retention => S \subseteq Range(out) \cup Range(Seen(rest))
      /\ handed \o out \in Seq(Records)
    <2>1. Batch \in Nat
        BY UsageAssumption
    <2>. QED BY <2>1, PopTakes
<1>. HIDE DEF out, rest
<1>4. B = {}
    <2>1. batch = <<>> /\ DOMAIN <<>> = {}
        BY <1>2 DEF Good, RecordsTrue, ForwarderTrue
    <2>. QED BY <2>1 DEF Range
<1>5. RecordsTrue'
    BY <1>1, <1>2, <1>3 DEF Good, RecordsTrue, ForwarderTrue
<1>6. OnceEach'
    BY <1>1, <1>2, <1>3 DEF Good, OnceEach
<1>7. Placed(P, J, S, B, sent, popped)
    BY DEF Good, OnePlace
<1>8. /\ P' = P /\ J' = J /\ B' \subseteq S /\ S' \subseteq S /\ B' \cap S' = {}
      /\ now - 1 <= Retention => S \subseteq B' \cup S'
    BY <1>1, <1>2, <1>3
<1>. HIDE DEF P, J, S, B
<1>9. Placed(P, J, S, B, sent, popped)'
    BY <1>1, <1>4, <1>7, <1>8 DEF Placed, Apart, Around
<1>10. OnePlace'
    BY <1>9 DEF OnePlace, P, J, S, B
<1>11. ASSUME now - 1 <= Retention
       PROVE  Around(P, J, S, B, sent, popped) \cup home
                  \subseteq (Around(P, J, S, B, sent, popped) \cup home)'
    BY <1>1, <1>4, <1>8, <1>11 DEF Around
<1>12. LosesNothing
    BY <1>1, <1>11 DEF LosesNothing, Undisturbed, Somewhere, P, J, S, B
<1>. QED BY <1>5, <1>6, <1>10, <1>12 DEF Good

\* ... pushes, ...
LEMMA PushKeeps ==
    ASSUME Good, PushUsage
    PROVE  Good' /\ LosesNothing
<1>. DEFINE r == Head(batch)
            P == Range(pending)
            J == Held(jobs)
            S == Range(Seen(q))
            B == Range(batch)
<1>1. /\ now' = now /\ published' = published /\ pending' = pending
      /\ dispatcher' = dispatcher /\ jobs' = jobs /\ q' = q
      /\ handed' = handed /\ sent' = sent
      /\ popped' = popped /\ doubtful' = doubtful
    BY DEF PushUsage, managerVars
<1>2. /\ home' = home \cup {r} /\ batch' = Tail(batch)
      /\ forwarder = "pushing"
      /\ forwarder' = IF Len(batch) = 1 THEN "idle" ELSE forwarder
    BY DEF PushUsage
<1>3. batch \in Seq(Records) /\ Distinct(batch) /\ batch # <<>>
    BY <1>2 DEF Good, RecordsTrue, ForwarderTrue, OnceEach
<1>4. /\ Tail(batch) \in Seq(Records) /\ r \in B
      /\ Distinct(Tail(batch)) /\ Range(Tail(batch)) = B \ {r}
    BY <1>3, TailPlaces
<1>5. Len(batch) # 1 => Tail(batch) # <<>>
    <2>1. Len(batch) \in Nat \ {0} /\ Len(Tail(batch)) = Len(batch) - 1
        BY <1>3, EmptySeq, HeadTailProperties
    <2>2. Len(batch) # 1 => Len(Tail(batch)) # 0
        BY <2>1
    <2>3. Len(<<>>) = 0
        BY EmptySeq
    <2>. QED BY <2>2, <2>3, Zenon
<1>6. RecordsTrue'
    BY <1>1, <1>2, <1>4, <1>5 DEF Good, RecordsTrue, ForwarderTrue
<1>7. OnceEach'
    BY <1>1, <1>2, <1>4 DEF Good, OnceEach
<1>8. Placed(P, J, S, B, sent, popped)
    BY DEF Good, OnePlace
<1>9. P' = P /\ J' = J /\ S' = S /\ B' = B \ {r} /\ r \in B
    BY <1>1, <1>2, <1>4
<1>. HIDE DEF r, P, J, S, B
<1>10. Placed(P, J, S, B, sent, popped)'
    BY <1>1, <1>2, <1>8, <1>9 DEF Placed, Apart, Around
<1>11. OnePlace'
    BY <1>10 DEF OnePlace, P, J, S, B
<1>12. Around(P, J, S, B, sent, popped) \cup home
           \subseteq (Around(P, J, S, B, sent, popped) \cup home)'
    BY <1>1, <1>2, <1>9 DEF Around
<1>13. LosesNothing
    BY <1>1, <1>12 DEF LosesNothing, Somewhere, P, J, S, B
<1>. QED BY <1>6, <1>7, <1>11, <1>13 DEF Good

\* ... fails to, ...
LEMMA PushFailsKeeps ==
    ASSUME Good, NEW arrived \in BOOLEAN, PushFails(arrived)
    PROVE  Good' /\ LosesNothing
<1>. DEFINE r == Head(batch)
            P == Range(pending)
            J == Held(jobs)
            S == Range(Seen(q))
            B == Range(batch)
<1>1. /\ now' = now /\ published' = published /\ pending' = pending
      /\ dispatcher' = dispatcher /\ jobs' = jobs /\ q' = q
      /\ handed' = handed /\ sent' = sent /\ popped' = popped /\ batch' = batch
    BY DEF PushFails, managerVars
<1>2. /\ forwarder = "pushing" /\ forwarder' = "requeueing"
      /\ \/ home' = home \cup {r} /\ doubtful' = doubtful \cup {r}
         \/ home' = home /\ doubtful' = doubtful
    BY DEF PushFails
<1>3. batch \in Seq(Records) /\ Distinct(batch) /\ batch # <<>>
    BY <1>2 DEF Good, RecordsTrue, ForwarderTrue, OnceEach
<1>4. r \in B
    BY <1>3, TailPlaces
<1>5. RecordsTrue'
    BY <1>1, <1>2 DEF Good, RecordsTrue, ForwarderTrue
<1>6. OnceEach'
    BY <1>1 DEF Good, OnceEach
<1>7. Placed(P, J, S, B, sent, popped)
    BY DEF Good, OnePlace
<1>8. P' = P /\ J' = J /\ S' = S /\ B' = B
    BY <1>1
<1>. HIDE DEF r, P, J, S, B
<1>9. Placed(P, J, S, B, sent, popped)'
    BY <1>1, <1>2, <1>4, <1>7, <1>8 DEF Placed, Apart, Around
<1>10. OnePlace'
    BY <1>9 DEF OnePlace, P, J, S, B
<1>11. Around(P, J, S, B, sent, popped) \cup home
           \subseteq (Around(P, J, S, B, sent, popped) \cup home)'
    BY <1>1, <1>2, <1>8 DEF Around
<1>12. LosesNothing
    BY <1>1, <1>11 DEF LosesNothing, Somewhere, P, J, S, B
<1>. QED BY <1>5, <1>6, <1>10, <1>12 DEF Good

\* ... and puts back what it could not push.
LEMMA RequeueKeeps ==
    ASSUME Good, StreamsTrue, Requeue
    PROVE  Good' /\ LosesNothing
<1>. DEFINE r == Head(batch)
            j == [at |-> "admitted", rec |-> r]
            P == Range(pending)
            J == Held(jobs)
            S == Range(Seen(q))
            B == Range(batch)
<1>1. /\ now' = now /\ published' = published /\ pending' = pending
      /\ dispatcher' = dispatcher /\ q' = q
      /\ handed' = handed /\ sent' = sent /\ popped' = popped
      /\ home' = home /\ doubtful' = doubtful /\ switchedOff' = switchedOff
    BY DEF Requeue, managerVars, switchVars
<1>2. forwarder = "requeueing" /\ jobs["forwarder"] = Idle
    BY DEF Requeue
<1>3. CASE batch = <<>>
    <2>1. batch' = batch /\ jobs' = jobs /\ forwarder' = "idle"
        BY <1>3 DEF Requeue
    <2>2. RecordsTrue'
        BY <1>1, <2>1 DEF Good, RecordsTrue, ForwarderTrue
    <2>3. OnceEach'
        BY <1>1, <2>1 DEF Good, OnceEach
    <2>4. OnePlace'
        BY <1>1, <2>1 DEF Good, OnePlace, Placed
    <2>5. LosesNothing
        BY <1>1, <2>1 DEF LosesNothing, Somewhere
    <2>. QED BY <2>2, <2>3, <2>4, <2>5 DEF Good
<1>4. CASE batch # <<>>
    <2>1. /\ batch' = Tail(batch) /\ forwarder' = forwarder
          /\ enabled => jobs' = [jobs EXCEPT !["forwarder"] = j]
          /\ ~enabled => jobs' = jobs
        BY <1>4 DEF Requeue
    <2>2. /\ batch \in Seq(Records) /\ Distinct(batch)
          /\ JobsTrue(jobs) /\ JobsDiffer(jobs)
        BY DEF Good, RecordsTrue, OnceEach
    <2>3. /\ Tail(batch) \in Seq(Records) /\ r \in Records /\ r \in B
          /\ Distinct(Tail(batch)) /\ Range(Tail(batch)) = B \ {r}
        BY <1>4, <2>2, TailPlaces
    <2>4. Placed(P, J, S, B, sent, popped)
        BY DEF Good, OnePlace
    <2>5. r \notin J
        BY <2>3, <2>4 DEF Placed, Apart
    <2>6. j \in Job /\ j.at # "idle" /\ j.rec = r
        <3>. HIDE DEF r
        <3>. QED BY <2>3, UsageAssumption DEF Job, Records
    <2>7. "forwarder" \in Enqueuers
        BY DEF Enqueuers
    <2>. HIDE DEF r, j
    <2>8. /\ JobsTrue(jobs') /\ JobsDiffer(jobs')
          /\ J \subseteq J' /\ J' \subseteq J \cup {r}
          /\ enabled => r \in J'
        <3>1. CASE enabled
            <4>1. JobsTrue(jobs') /\ Held(jobs') = J \cup {r} /\ JobsDiffer(jobs')
                BY <1>2, <2>1, <2>2, <2>3, <2>5, <2>6, <2>7, <3>1, JobTaken
            <4>. QED BY <4>1
        <3>2. CASE ~enabled
            BY <2>1, <2>2, <3>2
        <3>. QED BY <3>1, <3>2
    <2>9. RecordsTrue'
        BY <1>1, <1>2, <2>1, <2>3, <2>8 DEF Good, RecordsTrue, ForwarderTrue
    <2>10. OnceEach'
        BY <1>1, <2>1, <2>3, <2>8 DEF Good, OnceEach
    <2>11. P' = P /\ S' = S /\ B' = B \ {r} /\ r \in B
        BY <1>1, <2>1, <2>3
    <2>. HIDE DEF P, J, S, B
    <2>12. Placed(P, J, S, B, sent, popped)'
        BY <1>1, <2>4, <2>8, <2>11 DEF Placed, Apart, Around
    <2>13. OnePlace'
        BY <2>12 DEF OnePlace, P, J, S, B
    <2>14. ASSUME enabled
           PROVE  Around(P, J, S, B, sent, popped) \cup home
                      \subseteq (Around(P, J, S, B, sent, popped) \cup home)'
        BY <1>1, <2>8, <2>11, <2>14 DEF Around
    <2>15. LosesNothing
        <3>. SUFFICES ASSUME switchedOff = 0
                      PROVE  Somewhere \cup ((1..published') \ (1..published))
                                 \subseteq Somewhere'
            BY <1>1 DEF LosesNothing, Undisturbed
        <3>1. enabled
            BY DEF StreamsTrue, TogglerTrue
        <3>. QED BY <1>1, <2>14, <3>1 DEF Somewhere, P, J, S, B
    <2>. QED BY <2>9, <2>10, <2>13, <2>15 DEF Good
<1>. QED BY <1>3, <1>4

-----------------------------------------------------------------------------
(* Channels, action by action *)

\* The same, one channel at a time.
OneOwner(ms, ls, cs, ch) ==
    /\ ms \subseteq Subscribers /\ ls \subseteq Subscribers /\ cs \subseteq Subscribers
    /\ ms \cap ls = {} /\ ms \cap cs = {} /\ ls \cap cs = {}
    /\ \A s \in Subscribers : ch[s] = "open" => s \in ms \cup ls \cup cs
    /\ \A s \in ms \cup ls \cup cs : ch[s] = "open"

Channels == [Subscribers -> {"none", "open", "closed"}]

LEMMA OwnersAreOne ==
    ASSUME StreamsTrue
    PROVE  OneOwner(members, leaving, closing, chans) /\ chans \in Channels
<1>1. /\ members \subseteq Subscribers /\ leaving \subseteq Subscribers
      /\ closing \subseteq Subscribers /\ ChannelsHaveOneOwner /\ chans \in Channels
    BY DEF StreamsTrue, Channels
<1>2. /\ \A s \in Subscribers : chans[s] = "open" => s \in members \cup leaving \cup closing
      /\ \A s \in members \cup leaving \cup closing : chans[s] = "open"
    BY <1>1 DEF ChannelsHaveOneOwner
<1>. QED BY <1>1, <1>2 DEF OneOwner, ChannelsHaveOneOwner

LEMMA OneOwnerEach ==
    ASSUME OneOwner(members', leaving', closing', chans')
    PROVE  ChannelsHaveOneOwner'
<1>1. members' \cup leaving' \cup closing' = {s \in Subscribers : chans'[s] = "open"}
    BY DEF OneOwner
<1>. QED BY <1>1 DEF OneOwner, ChannelsHaveOneOwner

Boxes == [Subscribers -> Seq(Records \cup {Refresh})]

\* What a broadcast does to those who do not keep up.
LEMMA BroadcastKeeps ==
    ASSUME StreamsTrue, NEW r \in Records \cup {Refresh}, Broadcast(r)
    PROVE  /\ OneOwner(members', leaving', closing', chans')
           /\ chans' \in Channels /\ box' \in Boxes
<1>. DEFINE slow == {s \in members : Full(s)}
<1>1. /\ members' = members \ slow /\ leaving' = leaving /\ closing' = closing
      /\ chans' = [s \in Subscribers |-> IF s \in slow THEN "closed" ELSE chans[s]]
      /\ box' = [s \in Subscribers |-> IF s \in members \ slow
                                       THEN Append(box[s], r) ELSE box[s]]
    BY DEF Broadcast
<1>2. slow \subseteq members
    OBVIOUS
<1>. HIDE DEF slow
<1>3. OneOwner(members, leaving, closing, chans) /\ chans \in Channels
    BY OwnersAreOne
<1>4. chans' \in Channels
    BY <1>1, <1>3 DEF Channels
<1>5. box' \in Boxes
    <2>1. box \in Boxes
        BY DEF StreamsTrue, Boxes
    <2>2. ASSUME NEW s \in Subscribers
          PROVE  /\ box[s] \in Seq(Records \cup {Refresh})
                 /\ Append(box[s], r) \in Seq(Records \cup {Refresh})
        <3>1. box[s] \in Seq(Records \cup {Refresh})
            BY <2>1 DEF Boxes
        <3>. QED BY <3>1, AppendProperties
    <2>. QED BY <1>1, <2>2 DEF Boxes
<1>6. \A s \in Subscribers : /\ s \in slow => chans'[s] = "closed"
                             /\ s \notin slow => chans'[s] = chans[s]
    BY <1>1
<1>7. OneOwner(members', leaving', closing', chans')
    <2>1. ASSUME NEW s \in Subscribers, chans'[s] = "open"
          PROVE  s \in members' \cup leaving' \cup closing'
        <3>1. s \notin slow /\ chans[s] = "open"
            BY <1>6, <2>1
        <3>. QED BY <1>1, <1>3, <3>1 DEF OneOwner
    <2>2. ASSUME NEW s \in members' \cup leaving' \cup closing'
          PROVE  chans'[s] = "open"
        <3>1. s \in members \cup leaving \cup closing /\ s \notin slow
            BY <1>1, <1>2, <1>3 DEF OneOwner
        <3>2. s \in Subscribers /\ chans[s] = "open"
            BY <1>3, <3>1 DEF OneOwner
        <3>. QED BY <1>6, <3>1, <3>2
    <2>. QED BY <1>1, <1>3, <2>1, <2>2 DEF OneOwner
<1>. QED BY <1>4, <1>5, <1>7

\* A channel is opened for the one who subscribes, ...
LEMMA Opens ==
    ASSUME NEW ms, NEW ls, NEW cs, NEW ch \in Channels, OneOwner(ms, ls, cs, ch),
           NEW s \in Subscribers, s \notin ms \cup ls \cup cs,
           NEW dh, dh = [ch EXCEPT ![s] = "open"]
    PROVE  OneOwner(ms \cup {s}, ls, cs, dh) /\ dh \in Channels
<1>1. dh \in Channels /\ dh[s] = "open" /\ \A x \in Subscribers \ {s} : dh[x] = ch[x]
    BY DEF Channels
<1>2. ASSUME NEW x \in Subscribers, dh[x] = "open" PROVE x \in ms \cup {s} \cup ls \cup cs
    <2>1. x # s => ch[x] = "open"
        BY <1>1, <1>2
    <2>. QED BY <2>1 DEF OneOwner
<1>3. ASSUME NEW x \in ms \cup {s} \cup ls \cup cs PROVE dh[x] = "open"
    <2>1. x # s => x \in Subscribers /\ ch[x] = "open"
        BY DEF OneOwner
    <2>. QED BY <1>1, <2>1
<1>. QED BY <1>1, <1>2, <1>3 DEF OneOwner

\* ... and closed by the one who has it.
LEMMA Closes ==
    ASSUME NEW ms, NEW ls, NEW cs, NEW ch \in Channels, OneOwner(ms, ls, cs, ch),
           NEW s \in Subscribers, s \notin ms,
           NEW dh, dh = [ch EXCEPT ![s] = "closed"]
    PROVE  /\ OneOwner(ms, ls \ {s}, cs \ {s}, dh)
           /\ dh \in Channels
<1>1. dh \in Channels /\ dh[s] = "closed" /\ \A x \in Subscribers \ {s} : dh[x] = ch[x]
    BY DEF Channels
<1>2. ASSUME NEW x \in Subscribers, dh[x] = "open"
      PROVE  x \in ms \cup (ls \ {s}) \cup (cs \ {s})
    <2>1. x # s /\ ch[x] = "open"
        BY <1>1, <1>2
    <2>. QED BY <2>1 DEF OneOwner
<1>3. ASSUME NEW x \in ms \cup (ls \ {s}) \cup (cs \ {s}) PROVE dh[x] = "open"
    <2>1. x # s /\ x \in Subscribers /\ ch[x] = "open"
        BY DEF OneOwner
    <2>. QED BY <1>1, <2>1
<1>. QED BY <1>1, <1>2, <1>3 DEF OneOwner

\* The variables the channels are about, and who changes them.
channelVars == <<members, chans, leaving, closing, box, enabled, statsOn, toggler,
                 switchedOff>>

LEMMA OfferStreams ==
    ASSUME Good, StreamsTrue, NEW e \in Enqueuers, Offer(e)
    PROVE  StreamsTrue'
<1>1. /\ enabled' = enabled /\ statsOn' = statsOn /\ toggler' = toggler
      /\ switchedOff' = switchedOff /\ closing' = closing
    BY DEF Offer, switchVars, streamVars, Broadcast
<1>2. TogglerTrue'
    BY <1>1 DEF StreamsTrue, TogglerTrue
<1>3. CASE members = {}
    <2>1. /\ members' = members /\ chans' = chans /\ leaving' = leaving /\ box' = box
        BY <1>3 DEF Offer, streamVars
    <2>2. ChannelsHaveOneOwner'
        BY <1>1, <2>1 DEF StreamsTrue, ChannelsHaveOneOwner
    <2>. QED BY <1>1, <1>2, <2>1, <2>2 DEF StreamsTrue
<1>4. CASE members # {}
    <2>1. Broadcast(jobs[e].rec) /\ jobs[e].at = "admitted"
        BY <1>4 DEF Offer
    <2>2. jobs[e].rec \in Records
        <3>1. jobs[e] # Idle
            BY <2>1 DEF Idle
        <3>. QED BY <3>1 DEF Good, RecordsTrue, JobsTrue
    <2>3. /\ OneOwner(members', leaving', closing', chans')
          /\ chans' \in Channels /\ box' \in Boxes
        BY <2>1, <2>2, BroadcastKeeps
    <2>4. ChannelsHaveOneOwner'
        BY <2>3, OneOwnerEach
    <2>. QED BY <1>1, <1>2, <2>3, <2>4 DEF StreamsTrue, OneOwner, Channels, Boxes
<1>. QED BY <1>3, <1>4

LEMMA StreamsStreams ==
    ASSUME StreamsTrue, Streams
    PROVE  StreamsTrue'
<1>1. /\ enabled' = enabled /\ statsOn' = statsOn /\ toggler' = toggler
      /\ switchedOff' = switchedOff
    BY DEF Streams, NotifyUsageRefresh, Subscribe, Receive, Leave, CloseLeft,
           CloseCleared, switchVars
<1>2. /\ OneOwner(members, leaving, closing, chans) /\ chans \in Channels
      /\ box \in Boxes /\ TogglerTrue /\ switchedOff \in Nat
    BY OwnersAreOne DEF StreamsTrue, Boxes
<1>3. SUFFICES /\ OneOwner(members', leaving', closing', chans')
               /\ chans' \in Channels /\ box' \in Boxes
               /\ closing' \subseteq closing
    <2>1. TogglerTrue'
        BY <1>1, <1>2, <1>3 DEF TogglerTrue
    <2>2. ChannelsHaveOneOwner'
        BY <1>3, OneOwnerEach
    <2>. QED BY <1>1, <1>2, <1>3, <2>1, <2>2 DEF StreamsTrue, OneOwner, Channels, Boxes
<1>4. CASE NotifyUsageRefresh
    <2>1. Broadcast(Refresh) /\ Refresh \in Records \cup {Refresh}
        BY <1>4 DEF NotifyUsageRefresh
    <2>2. closing' = closing
        BY <2>1 DEF Broadcast
    <2>. QED BY <2>1, <2>2, BroadcastKeeps
<1>5. ASSUME NEW s \in Subscribers, Subscribe(s)
      PROVE  /\ OneOwner(members', leaving', closing', chans')
             /\ chans' \in Channels /\ box' \in Boxes
             /\ closing' \subseteq closing
    <2>1. /\ chans[s] = "none" /\ chans' = [chans EXCEPT ![s] = "open"]
          /\ box' = [box EXCEPT ![s] = <<Refresh>>]
          /\ members' = members \cup {s} /\ leaving' = leaving /\ closing' = closing
        BY <1>5 DEF Subscribe
    <2>2. s \notin members \cup leaving \cup closing
        BY <1>2, <2>1 DEF OneOwner
    <2>3. OneOwner(members \cup {s}, leaving, closing, chans') /\ chans' \in Channels
        BY <1>2, <2>1, <2>2, Opens
    <2>4. OneOwner(members', leaving', closing', chans') /\ chans' \in Channels
        BY <2>1, <2>3, Zenon
    <2>5. box' \in Boxes
        <3>1. <<Refresh>> \in Seq(Records \cup {Refresh})
            OBVIOUS
        <3>. QED BY <1>2, <2>1, <3>1 DEF Boxes
    <2>. QED BY <2>1, <2>4, <2>5
<1>6. ASSUME NEW s \in Subscribers, Receive(s)
      PROVE  /\ OneOwner(members', leaving', closing', chans')
             /\ chans' \in Channels /\ box' \in Boxes
             /\ closing' \subseteq closing
    <2>1. /\ box[s] # <<>> /\ box' = [box EXCEPT ![s] = Tail(@)]
          /\ chans' = chans /\ members' = members /\ leaving' = leaving
          /\ closing' = closing
        BY <1>6 DEF Receive
    <2>2. Tail(box[s]) \in Seq(Records \cup {Refresh})
        <3>1. box[s] \in Seq(Records \cup {Refresh})
            BY <1>2 DEF Boxes
        <3>. QED BY <2>1, <3>1, HeadTailProperties
    <2>3. box' \in Boxes
        BY <1>2, <2>1, <2>2 DEF Boxes
    <2>. QED BY <1>2, <2>1, <2>3
<1>7. ASSUME NEW s \in Subscribers, Leave(s)
      PROVE  /\ OneOwner(members', leaving', closing', chans')
             /\ chans' \in Channels /\ box' \in Boxes
             /\ closing' \subseteq closing
    <2>1. /\ s \in members /\ members' = members \ {s} /\ leaving' = leaving \cup {s}
          /\ chans' = chans /\ closing' = closing /\ box' = box
        BY <1>7 DEF Leave
    <2>2. OneOwner(members', leaving', closing', chans')
        BY <1>2, <2>1 DEF OneOwner
    <2>. QED BY <1>2, <2>1, <2>2
<1>8. ASSUME NEW s \in Subscribers, CloseLeft(s)
      PROVE  /\ OneOwner(members', leaving', closing', chans')
             /\ chans' \in Channels /\ box' \in Boxes
             /\ closing' \subseteq closing
    <2>1. /\ s \in leaving /\ leaving' = leaving \ {s}
          /\ chans' = [chans EXCEPT ![s] = "closed"]
          /\ members' = members /\ closing' = closing /\ box' = box
        BY <1>8 DEF CloseLeft
    <2>2. s \notin members /\ closing \ {s} = closing
        BY <1>2, <2>1 DEF OneOwner
    <2>3. /\ OneOwner(members, leaving \ {s}, closing \ {s}, chans')
          /\ chans' \in Channels
        BY <1>2, <2>1, <2>2, Closes
    <2>4. OneOwner(members', leaving', closing', chans') /\ chans' \in Channels
        BY <2>1, <2>2, <2>3, Zenon
    <2>. QED BY <1>2, <2>1, <2>4
<1>9. ASSUME NEW s \in Subscribers, CloseCleared(s)
      PROVE  /\ OneOwner(members', leaving', closing', chans')
             /\ chans' \in Channels /\ box' \in Boxes
             /\ closing' \subseteq closing
    <2>1. /\ s \in closing /\ closing' = closing \ {s}
          /\ chans' = [chans EXCEPT ![s] = "closed"]
          /\ members' = members /\ leaving' = leaving /\ box' = box
        BY <1>9 DEF CloseCleared
    <2>2. s \notin members /\ leaving \ {s} = leaving
        BY <1>2, <2>1 DEF OneOwner
    <2>3. /\ OneOwner(members, leaving \ {s}, closing \ {s}, chans')
          /\ chans' \in Channels
        BY <1>2, <2>1, <2>2, Closes
    <2>4. OneOwner(members', leaving', closing', chans') /\ chans' \in Channels
        BY <2>1, <2>2, <2>3, Zenon
    <2>. QED BY <1>2, <2>1, <2>4
<1>. QED BY <1>4, <1>5, <1>6, <1>7, <1>8, <1>9 DEF Streams

LEMMA SwitchesStreams ==
    ASSUME StreamsTrue, Switches
    PROVE  StreamsTrue'
<1>1. OneOwner(members, leaving, closing, chans)
    BY OwnersAreOne
<1>2. CASE Clear
    <2>1. /\ toggler = "clearing" /\ toggler' = "closing"
          /\ closing' = members /\ members' = {} /\ chans' = chans
          /\ leaving' = leaving /\ box' = box /\ enabled' = enabled
          /\ statsOn' = statsOn /\ switchedOff' = switchedOff
        BY <1>2 DEF Clear
    <2>2. closing = {}
        BY <2>1 DEF StreamsTrue, TogglerTrue
    <2>3. TogglerTrue'
        BY <2>1 DEF StreamsTrue, TogglerTrue
    <2>4. OneOwner(members', leaving', closing', chans')
        BY <1>1, <2>1, <2>2 DEF OneOwner
    <2>5. ChannelsHaveOneOwner'
        BY <2>4, OneOwnerEach
    <2>. QED BY <2>1, <2>3, <2>5 DEF StreamsTrue
<1>3. CASE SwitchOff \/ SwitchOn \/ \E b \in BOOLEAN : SetUsageStatisticsEnabled(b)
    <2>1. /\ closing' = closing /\ members' = members /\ chans' = chans
          /\ leaving' = leaving /\ box' = box
        BY <1>3 DEF SwitchOff, SwitchOn, SetUsageStatisticsEnabled, streamVars
    <2>2. TogglerTrue' /\ switchedOff' \in Nat
        <3>1. CASE SwitchOff
            BY <2>1, <3>1 DEF SwitchOff, StreamsTrue, TogglerTrue
        <3>2. CASE SwitchOn
            BY <2>1, <3>2 DEF SwitchOn, StreamsTrue, TogglerTrue
        <3>3. ASSUME NEW b \in BOOLEAN, SetUsageStatisticsEnabled(b)
              PROVE  TogglerTrue' /\ switchedOff' \in Nat
            <4>1. /\ toggler' = toggler /\ enabled' = enabled /\ statsOn' = b
                  /\ b => switchedOff' = switchedOff
                  /\ ~b => switchedOff' = switchedOff + 1
                BY <3>3 DEF SetUsageStatisticsEnabled
            <4>. QED BY <2>1, <4>1 DEF StreamsTrue, TogglerTrue
        <3>. QED BY <1>3, <3>1, <3>2, <3>3
    <2>3. ChannelsHaveOneOwner'
        BY <2>1 DEF StreamsTrue, ChannelsHaveOneOwner
    <2>. QED BY <2>1, <2>2, <2>3 DEF StreamsTrue
<1>. QED BY <1>2, <1>3 DEF Switches

-----------------------------------------------------------------------------
(* The steps together *)

\* What a step is, named by what it may change.
LEMMA StepsAre ==
    ASSUME [UsageNext]_vars
    PROVE  \/ \E p \in Publishers : Publish(p) \/ SignalWorker(p)
           \/ WakeWorker \/ TakeRecord \/ HandleUsage \/ BridgeRecord
           \/ \E e \in Enqueuers : Offer(e) \/ Store(e)
           \/ Pop \/ Tick
           \/ ForwarderPops \/ ForwarderTakes \/ PushUsage \/ Requeue
           \/ \E arrived \in BOOLEAN : PushFails(arrived)
           \/ Streams \/ Switches
           \/ Stop \/ BeginPop \/ UNCHANGED vars
<1>1. /\ "dispatcher" \in Enqueuers /\ "bridge" \in Enqueuers /\ "forwarder" \in Enqueuers
    BY DEF Enqueuers
<1>. QED BY <1>1, Zenon DEF UsageNext, Worker, Bridge, Forwarder

\* Records stay where they are, or go where they should.
LEMMA RecordsStep ==
    ASSUME Good, StreamsTrue, [UsageNext]_vars
    PROVE  Good' /\ LosesNothing
<1>1. ASSUME NEW p \in Publishers, Publish(p) \/ SignalWorker(p)
      PROVE  Good' /\ LosesNothing
    BY <1>1, PublishKeeps, WakeKeeps
<1>2. ASSUME NEW e \in Enqueuers, Offer(e) \/ Store(e)
      PROVE  Good' /\ LosesNothing
    BY <1>2, OfferKeeps, StoreKeeps
<1>3. CASE Streams
    <2>1. UNCHANGED recordVars
        BY <1>3 DEF Streams, NotifyUsageRefresh, Subscribe, Receive, Leave, CloseLeft,
                    CloseCleared, recordVars, managerVars, homeVars
    <2>. QED BY <2>1, QuietKeeps
<1>4. CASE Switches
    <2>1. CASE Clear
        BY <2>1, ClearKeeps
    <2>2. CASE SwitchOff \/ SwitchOn \/ \E b \in BOOLEAN : SetUsageStatisticsEnabled(b)
        <3>1. UNCHANGED recordVars
            BY <2>2 DEF SwitchOff, SwitchOn, SetUsageStatisticsEnabled,
                        recordVars, managerVars, homeVars
        <3>. QED BY <3>1, QuietKeeps
    <2>. QED BY <1>4, <2>1, <2>2 DEF Switches
<1>5. CASE Stop \/ BeginPop \/ UNCHANGED vars
    <2>1. UNCHANGED recordVars
        BY <1>5 DEF Stop, BeginPop, vars, recordVars, managerVars, homeVars
    <2>. QED BY <2>1, QuietKeeps
<1>6. CASE WakeWorker \/ TakeRecord \/ HandleUsage \/ BridgeRecord \/ Pop \/ Tick
    BY <1>6, WakeKeeps, TakeKeeps, HandleKeeps, BridgeKeeps, PopKeeps, TickKeeps
<1>7. CASE ForwarderPops \/ ForwarderTakes \/ PushUsage \/ Requeue
    BY <1>7, ForwarderPopsKeeps, ForwarderTakesKeeps, PushKeeps, RequeueKeeps
<1>8. ASSUME NEW arrived \in BOOLEAN, PushFails(arrived)
      PROVE  Good' /\ LosesNothing
    BY <1>8, PushFailsKeeps
<1>. QED BY <1>1, <1>2, <1>3, <1>4, <1>5, <1>6, <1>7, <1>8, StepsAre, Zenon

\* Channels are opened and closed by whoever may.
LEMMA StreamsStep ==
    ASSUME Good, StreamsTrue, [UsageNext]_vars
    PROVE  StreamsTrue'
<1>1. SUFFICES ASSUME UNCHANGED channelVars
               PROVE  StreamsTrue'
    <2>1. CASE \E e \in Enqueuers : Offer(e)
        BY <2>1, OfferStreams
    <2>2. CASE Streams
        BY <2>2, StreamsStreams
    <2>3. CASE Switches
        BY <2>3, SwitchesStreams
    <2>4. CASE \/ \E p \in Publishers : Publish(p) \/ SignalWorker(p)
               \/ WakeWorker \/ TakeRecord \/ HandleUsage \/ BridgeRecord
               \/ \E e \in Enqueuers : Store(e)
        <3>1. UNCHANGED channelVars
            BY <2>4 DEF Publish, SignalWorker, WakeWorker, TakeRecord, HandleUsage,
                        BridgeRecord, Store, channelVars, streamVars, switchVars
        <3>. QED BY <1>1, <3>1
    <2>5. CASE \/ Pop \/ Tick \/ ForwarderPops \/ ForwarderTakes \/ PushUsage \/ Requeue
               \/ \E arrived \in BOOLEAN : PushFails(arrived)
        <3>1. UNCHANGED channelVars
            BY <2>5 DEF Pop, Tick, ForwarderPops, ForwarderTakes, PushUsage, Requeue,
                        PushFails, channelVars, streamVars, switchVars
        <3>. QED BY <1>1, <3>1
    <2>6. CASE Stop \/ BeginPop \/ UNCHANGED vars
        <3>1. UNCHANGED channelVars
            BY <2>6 DEF Stop, BeginPop, vars, channelVars, streamVars, switchVars
        <3>. QED BY <1>1, <3>1
    <2>. QED BY <2>1, <2>2, <2>3, <2>4, <2>5, <2>6, StepsAre, Zenon
<1>2. /\ members' = members /\ chans' = chans /\ leaving' = leaving
      /\ closing' = closing /\ box' = box /\ enabled' = enabled /\ statsOn' = statsOn
      /\ toggler' = toggler /\ switchedOff' = switchedOff
    BY <1>1 DEF channelVars
<1>. QED BY <1>2 DEF StreamsTrue, TogglerTrue, ChannelsHaveOneOwner

\* What disturbed the queue once has disturbed it for good.
LEMMA DisturbedStays ==
    ASSUME Good, StreamsTrue, [UsageNext]_vars, Undisturbed'
    PROVE  Undisturbed
<1>1. SUFFICES /\ switchedOff' = switchedOff \/ switchedOff' = switchedOff + 1
               /\ now' = now \/ now' = now + 1
               /\ closed => closed'
               /\ evictedAll => evictedAll'
    <2>1. switchedOff \in Nat /\ now \in Nat /\ Retention \in Nat
        BY UsageAssumption DEF Good, RecordsTrue, StreamsTrue
    <2>2. switchedOff = 0
        BY <1>1, <2>1 DEF Undisturbed
    <2>3. now - 1 <= Retention
        BY <1>1, <2>1 DEF Undisturbed
    <2>4. ~closed /\ ~evictedAll
        BY <1>1, Zenon DEF Undisturbed
    <2>. QED BY <2>2, <2>3, <2>4 DEF Undisturbed
<1>2. CASE \/ \E p \in Publishers : Publish(p) \/ SignalWorker(p)
           \/ WakeWorker \/ TakeRecord \/ HandleUsage \/ BridgeRecord
           \/ \E e \in Enqueuers : Store(e)
    <2>1. ASSUME NEW p \in Publishers, Publish(p) \/ SignalWorker(p)
          PROVE  /\ switchedOff' = switchedOff /\ now' = now
                 /\ closed' = closed /\ evictedAll' = evictedAll
        BY <2>1, Zenon DEF Publish, SignalWorker, switchVars
    <2>2. CASE WakeWorker \/ TakeRecord \/ BridgeRecord
        BY <2>2 DEF WakeWorker, TakeRecord, BridgeRecord, switchVars
    <2>3. CASE HandleUsage
        BY <2>3, Zenon DEF HandleUsage, managerVars, switchVars
    <2>4. ASSUME NEW e \in Enqueuers, Store(e)
          PROVE  /\ switchedOff' = switchedOff /\ now' = now
                 /\ closed' = closed /\ evictedAll' = evictedAll
        BY <2>4, Zenon DEF Store, managerVars, switchVars
    <2>. QED BY <1>2, <2>1, <2>2, <2>3, <2>4
<1>3. CASE \/ Pop \/ ForwarderPops \/ ForwarderTakes \/ PushUsage \/ Requeue
           \/ \E arrived \in BOOLEAN : PushFails(arrived)
    BY <1>3 DEF Pop, ForwarderPops, ForwarderTakes, PushUsage, Requeue, PushFails,
                managerVars, switchVars
<1>4. CASE Tick \/ Stop \/ BeginPop \/ UNCHANGED vars
    BY <1>4 DEF Tick, Stop, BeginPop, vars, managerVars, switchVars
<1>5. CASE Streams
    BY <1>5 DEF Streams, NotifyUsageRefresh, Subscribe, Receive, Leave, CloseLeft,
                CloseCleared, managerVars, switchVars
<1>6. CASE Switches
    BY <1>6 DEF Switches, Clear, SwitchOff, SwitchOn, SetUsageStatisticsEnabled,
                managerVars
<1>7. ASSUME NEW e \in Enqueuers, Offer(e)
      PROVE  /\ switchedOff' = switchedOff \/ switchedOff' = switchedOff + 1
             /\ now' = now \/ now' = now + 1
             /\ closed => closed'
             /\ evictedAll => evictedAll'
    BY <1>7, Zenon DEF Offer, managerVars, switchVars
<1>. QED BY <1>2, <1>3, <1>4, <1>5, <1>6, <1>7, StepsAre, Zenon

LEMMA UsageStarts ==
    ASSUME UsageInit
    PROVE  Good /\ StreamsTrue /\ NothingVanishes
<1>1. MaxRecords \in Nat /\ MaxTime \in Nat \ {0}
    BY UsageAssumption
<1>2. /\ now = 1 /\ published = 0 /\ pending = <<>> /\ batch = <<>> /\ handed = <<>>
      /\ dispatcher = "unstarted" /\ q = NoItems /\ forwarder = "idle"
      /\ sent = {} /\ popped = {} /\ home = {} /\ doubtful = {}
      /\ jobs = [e \in Enqueuers |-> Idle]
    BY DEF UsageInit
<1>3. JobsTrue(jobs) /\ Held(jobs) = {} /\ JobsDiffer(jobs)
    <2>1. Idle \in Job
        <3>1. 0 \in 0..MaxRecords
            BY <1>1
        <3>. QED BY <3>1 DEF Idle, Job
    <2>2. \A e \in Enqueuers : jobs[e] = Idle
        BY <1>2
    <2>3. jobs \in [Enqueuers -> Job]
        BY <1>2, <2>1
    <2>. QED BY <2>2, <2>3, Zenon DEF JobsTrue, Held, JobsDiffer
<1>4. Distinct(<<>>) /\ Range(<<>>) = {} /\ <<>> \in Seq(Records)
    BY DEF Distinct, Range
<1>5. IsQueue(q) /\ Seen(q) = <<>>
    BY <1>2, NothingSeen
<1>6. RecordsTrue
    BY <1>1, <1>2, <1>3, <1>4, <1>5 DEF RecordsTrue, ForwarderTrue
<1>7. OnceEach
    BY <1>2, <1>3, <1>4, <1>5 DEF OnceEach
<1>8. OnePlace
    BY <1>2, <1>3, <1>4, <1>5 DEF OnePlace, Placed, Apart, Around
<1>9. StreamsTrue
    <2>1. /\ members = {} /\ leaving = {} /\ closing = {} /\ switchedOff = 0
          /\ toggler = "idle" /\ enabled /\ statsOn
          /\ chans = [s \in Subscribers |-> "none"]
          /\ box = [s \in Subscribers |-> <<>>]
        BY DEF UsageInit
    <2>2. ChannelsHaveOneOwner
        BY <2>1 DEF ChannelsHaveOneOwner
    <2>3. box \in [Subscribers -> Seq(Records \cup {Refresh})]
        BY <2>1
    <2>. QED BY <2>1, <2>2, <2>3 DEF StreamsTrue, TogglerTrue
<1>10. NothingVanishes
    BY <1>2 DEF NothingVanishes
<1>. QED BY <1>6, <1>7, <1>8, <1>9, <1>10 DEF Good

LEMMA WhereRecordsAre ==
    /\ InHand = Held(jobs)
    /\ Stored = Range(Seen(q))
    /\ NothingVanishes <=> (Undisturbed => 1..published \subseteq Somewhere)
<1>1. InHand = Held(jobs) /\ Stored = Range(Seen(q))
    BY DEF InHand, Held, Stored, Seen
<1>2. Range(pending) \cup InHand \cup Stored \cup Range(batch) \cup sent \cup popped \cup home
          = Somewhere
    BY <1>1 DEF Somewhere, Around
<1>. QED BY <1>1, <1>2 DEF NothingVanishes, Undisturbed

LEMMA VanishStep ==
    ASSUME Good, StreamsTrue, NothingVanishes, [UsageNext]_vars
    PROVE  NothingVanishes'
<1>1. SUFFICES ASSUME Undisturbed' PROVE 1..published' \subseteq Somewhere'
    <2>1. InHand' = Held(jobs') /\ Stored' = Range(Seen(q'))
        BY DEF InHand, Held, Stored, Seen
    <2>2. (Range(pending) \cup InHand \cup Stored \cup Range(batch)
               \cup sent \cup popped \cup home)' = Somewhere'
        BY <2>1 DEF Somewhere, Around
    <2>. QED BY <1>1, <2>2 DEF NothingVanishes, Undisturbed
<1>2. LosesNothing
    BY RecordsStep
<1>3. Undisturbed
    BY <1>1, DisturbedStays
<1>4. 1..published \subseteq Somewhere
    BY <1>3, WhereRecordsAre
<1>. QED BY <1>1, <1>2, <1>4 DEF LosesNothing

LEMMA UsageInvariant ==
    UsageSpec => [](Good /\ StreamsTrue /\ NothingVanishes)
<1>1. UsageInit => Good /\ StreamsTrue /\ NothingVanishes
    BY UsageStarts
<1>2. Good /\ StreamsTrue /\ NothingVanishes /\ [UsageNext]_vars
          => Good' /\ StreamsTrue' /\ NothingVanishes'
    BY RecordsStep, StreamsStep, VanishStep
<1>. QED BY <1>1, <1>2, PTL DEF UsageSpec

\* Whoever subscribes, leaves, is too slow or is cleared away at the same time,
\* every open channel has exactly one owner, who will close it.
THEOREM ChannelsAreOwned == UsageSpec => []ChannelsHaveOneOwner
<1>1. StreamsTrue => ChannelsHaveOneOwner
    BY DEF StreamsTrue
<1>. QED BY <1>1, UsageInvariant, PTL

\* As long as nothing was switched off, too slow or too old, every record that
\* was published is waiting, on its way or consumed, after failed pushes too.
THEOREM NothingIsLost == UsageSpec => []NothingVanishes
BY UsageInvariant, PTL

\* The consumers of a record.
Consumers(r) ==
    {c \in {"pending", "job", "stored", "batch", "sent", "popped", "home"} :
         \/ c = "pending" /\ r \in Range(pending)
         \/ c = "job"     /\ r \in InHand
         \/ c = "stored"  /\ r \in Stored
         \/ c = "batch"   /\ r \in Range(batch)
         \/ c = "sent"    /\ r \in sent
         \/ c = "popped"  /\ r \in popped
         \/ c = "home"    /\ r \in home}

LEMMA OneOfThem ==
    ASSUME Good, StreamsTrue
    PROVE  OneConsumer
<1>1. UsageTypeOK
    <2>1. /\ RecordsTrue /\ q \in [items : Seq(Item), head : Nat]
          /\ q.head <= Len(q.items) /\ JobsTrue(jobs)
        BY DEF Good, RecordsTrue, IsQueue
    <2>2. q.head \in 0..Len(q.items) /\ q.items \in Seq([rec : Records, at : 1..MaxTime])
        BY <2>1 DEF Item
    <2>3. jobs \in [Enqueuers -> [at : {"idle", "handling", "admitted", "unclaimed"},
                                  rec : 0..MaxRecords]]
        BY <2>1 DEF JobsTrue, Job
    <2>4. members \subseteq Subscribers
          /\ \A s \in Subscribers : box[s] \in Seq(Records \cup {Refresh})
        BY DEF StreamsTrue
    <2>. QED BY <2>1, <2>2, <2>3, <2>4 DEF UsageTypeOK, RecordsTrue
<1>2. ASSUME NEW r \in Records \ doubtful PROVE Cardinality(Consumers(r)) <= 1
    <2>1. Placed(Range(pending), InHand, Stored, Range(batch), sent, popped)
        BY WhereRecordsAre DEF Good, OnePlace
    <2>2. ASSUME NEW c \in Consumers(r), NEW d \in Consumers(r) PROVE c = d
        BY <2>1 DEF Consumers, Placed, Apart, Around
    <2>3. CASE Consumers(r) = {}
        BY <2>3, FS_EmptySet
    <2>4. CASE Consumers(r) # {}
        <3>1. PICK c : c \in Consumers(r)
            BY <2>4
        <3>2. Consumers(r) = {c}
            BY <2>2, <3>1
        <3>3. Cardinality({c}) = 1
            BY FS_Singleton, Zenon
        <3>4. Cardinality(Consumers(r)) = 1
            BY <3>2, <3>3, Zenon
        <3>. QED BY <3>4
    <2>. QED BY <2>3, <2>4
<1>. QED BY <1>1, <1>2 DEF OneConsumer, Consumers

\* A record has one consumer, whoever enqueues, subscribes and pops at the
\* same time, unless its push failed after it had arrived.
THEOREM RecordsHaveOneConsumer == UsageSpec => []OneConsumer
<1>1. Good /\ StreamsTrue => OneConsumer
    BY OneOfThem
<1>. QED BY <1>1, UsageInvariant, PTL

-----------------------------------------------------------------------------
(* The queue as those who pop see it *)

\* A record that is stored is put behind what is kept.
LEMMA StorePuts ==
    ASSUME Good, NEW e \in Enqueuers, Store(e)
    PROVE  \E r \in Records : Fifo!Put(r)
<1>. DEFINE r == jobs[e].rec
            it == [rec |-> r, at |-> now]
<1>1. /\ jobs[e].at = "unclaimed" /\ JobsTrue(jobs) /\ handed' = handed
      /\ q' = Compact([Pruned(q) EXCEPT !.items = Append(@, it)])
      /\ IsQueue(q) /\ now \in 1..MaxTime
    BY DEF Good, RecordsTrue, Store
<1>2. jobs[e] # Idle
    BY <1>1 DEF Idle
<1>3. r \in Records
    BY <1>1, <1>2 DEF JobsTrue
<1>4. it = [rec |-> r, at |-> now]
    OBVIOUS
<1>. HIDE DEF it, r
<1>5. \E n \in 0..Len(Seen(q)) :
          Seen(q') = Append(SubSeq(Seen(q), n + 1, Len(Seen(q))), r)
    BY <1>1, <1>3, <1>4, StoreSees
<1>. QED BY <1>1, <1>3, <1>5 DEF Fifo!Put, Fifo!Without, Seen

\* What is popped is handed out.
LEMMA PopHandsOut ==
    ASSUME Good, NEW count \in Nat,
           q' = PopResult(count).rest, handed' = handed \o PopResult(count).out
    PROVE  Fifo!HandOut
<1>. DEFINE out == PopResult(count).out
            rest == PopResult(count).rest
<1>1. /\ IsQueue(q) /\ now \in 1..MaxTime
      /\ MaxTime \in Nat /\ Retention \in Nat
    BY UsageAssumption DEF Good, RecordsTrue
<1>. DEFINE fresh == now - 1 <= Retention
<1>2. Hands(Seen(q), out, Seen(rest), fresh)
    BY <1>1, PopHands
<1>. HIDE DEF out, rest, fresh
<1>3. PICK n \in 0..Len(Seen(q)) :
          \E k \in 0..Len(Seen(q)) - n :
              /\ out = SubSeq(Seen(q), n + 1, n + k)
              /\ Seen(rest) = SubSeq(Seen(q), n + k + 1, Len(Seen(q)))
    BY <1>2 DEF Hands
<1>4. q' = rest /\ handed' = handed \o out
    BY DEF rest, out
<1>5. \E k \in 0..Len(Seen(q)) - n :
          /\ Seen(q') = SubSeq(Seen(q), n + k + 1, Len(Seen(q)))
          /\ handed' = handed \o SubSeq(Seen(q), n + 1, n + k)
    BY <1>3, <1>4
<1>. QED BY <1>5 DEF Fifo!HandOut, Fifo!Without, Seen

\* What is cleared away is dropped from the front.
LEMMA ClearDrops ==
    ASSUME Good, Clear
    PROVE  Fifo!HandOut
<1>1. q' = NoItems /\ handed' = handed /\ IsQueue(q) /\ handed \in Seq(Records)
    BY DEF Good, RecordsTrue, Clear
<1>2. Seen(q) \in Seq(Records) /\ Len(Seen(q)) \in Nat
    BY <1>1, SeenIs
<1>. DEFINE n == Len(Seen(q))
<1>3. n \in 0..n /\ 0 \in 0..n - n
    BY <1>2
<1>4. Seen(q') = SubSeq(Seen(q), n + 0 + 1, n)
    <2>1. SubSeq(Seen(q), n + 0 + 1, n) = <<>>
        BY <1>2, SubSeqEmpty
    <2>. QED BY <1>1, <2>1, NothingSeen
<1>5. handed' = handed \o SubSeq(Seen(q), n + 1, n + 0)
    <2>1. SubSeq(Seen(q), n + 1, n + 0) = <<>>
        BY <1>2, SubSeqEmpty
    <2>2. handed \o <<>> = handed
        BY <1>1, ConcatEmptySeq
    <2>. QED BY <1>1, <2>1, <2>2
<1>6. \E m \in 0..Len(Seen(q)) : \E k \in 0..Len(Seen(q)) - m :
          /\ Seen(q') = SubSeq(Seen(q), m + k + 1, Len(Seen(q)))
          /\ handed' = handed \o SubSeq(Seen(q), m + 1, m + k)
    BY <1>3, <1>4, <1>5, Zenon
<1>. QED BY <1>6 DEF Fifo!HandOut, Fifo!Without, Seen

LEMMA FifoStep ==
    ASSUME Good, [UsageNext]_vars
    PROVE  [Fifo!FifoNext]_Fifo!fifoVars
<1>1. SUFFICES ASSUME UNCHANGED <<q, handed>>
               PROVE  UNCHANGED Fifo!fifoVars
    <2>1. CASE \E e \in Enqueuers : Store(e)
        BY <2>1, StorePuts DEF Fifo!FifoNext
    <2>2. CASE Pop
        <3>1. PICK count \in 1..Batch :
                  q' = PopResult(count).rest /\ handed' = handed \o PopResult(count).out
            BY <2>2 DEF Pop
        <3>2. count \in Nat
            BY UsageAssumption
        <3>. QED BY <3>1, <3>2, PopHandsOut DEF Fifo!FifoNext
    <2>3. CASE ForwarderTakes
        <3>1. q' = PopResult(Batch).rest /\ handed' = handed \o PopResult(Batch).out
            BY <2>3 DEF ForwarderTakes
        <3>2. Batch \in Nat
            BY UsageAssumption
        <3>. QED BY <3>1, <3>2, PopHandsOut DEF Fifo!FifoNext
    <2>4. CASE Switches
        <3>1. CASE Clear
            BY <3>1, ClearDrops DEF Fifo!FifoNext
        <3>2. CASE SwitchOff \/ SwitchOn \/ \E b \in BOOLEAN : SetUsageStatisticsEnabled(b)
            <4>1. UNCHANGED <<q, handed>>
                BY <3>2 DEF SwitchOff, SwitchOn, SetUsageStatisticsEnabled
            <4>. QED BY <1>1, <4>1
        <3>. QED BY <2>4, <3>1, <3>2 DEF Switches
    <2>5. CASE Streams
        <3>1. UNCHANGED <<q, handed>>
            BY <2>5 DEF Streams, NotifyUsageRefresh, Subscribe, Receive, Leave, CloseLeft,
                        CloseCleared
        <3>. QED BY <1>1, <3>1
    <2>6. CASE \/ \E p \in Publishers : Publish(p) \/ SignalWorker(p)
               \/ WakeWorker \/ TakeRecord \/ HandleUsage \/ BridgeRecord
               \/ \E e \in Enqueuers : Offer(e)
        <3>1. UNCHANGED <<q, handed>>
            BY <2>6 DEF Publish, SignalWorker, WakeWorker, TakeRecord, HandleUsage,
                        BridgeRecord, Offer
        <3>. QED BY <1>1, <3>1
    <2>7. CASE \/ Tick \/ ForwarderPops \/ PushUsage \/ Requeue
               \/ \E arrived \in BOOLEAN : PushFails(arrived)
               \/ Stop \/ BeginPop \/ UNCHANGED vars
        <3>1. UNCHANGED <<q, handed>>
            BY <2>7 DEF Tick, ForwarderPops, PushUsage, Requeue, PushFails, Stop,
                        BeginPop, vars
        <3>. QED BY <1>1, <3>1
    <2>. QED BY <2>1, <2>2, <2>3, <2>4, <2>5, <2>6, <2>7, StepsAre, Zenon
<1>. QED BY <1>1 DEF Fifo!fifoVars

\* The queue of redisqueue is a first-in first-out queue of records, whatever
\* is pruned, compacted and cleared underneath.
THEOREM QueueIsFifo == UsageSpec => ImplementsFifo
<1>1. UsageInit => Fifo!FifoInit
    <2>. SUFFICES ASSUME UsageInit PROVE Seen(q) = <<>> /\ handed = <<>>
        BY DEF Fifo!FifoInit, Seen
    <2>. QED BY NothingSeen DEF UsageInit
<1>2. Good /\ [UsageNext]_vars => [Fifo!FifoNext]_Fifo!fifoVars
    BY FifoStep
<1>. QED BY <1>1, <1>2, UsageInvariant, PTL DEF UsageSpec, ImplementsFifo, Fifo!FifoSpec

-----------------------------------------------------------------------------
(* The worker's sleep *)

\* Somebody is about to signal the worker.
Signalling == (\E p \in Publishers : calls[p] = "appended") \/ stopper = "closed"

\* The worker runs or sleeps while there are records to dispatch, and it does
\* not sleep on them, nor past the end, unless somebody is about to wake it.
NoWakeUpIsLost ==
    /\ pending # <<>> => dispatcher \in {"looping", "waiting"}
    /\ dispatcher = "waiting" /\ (pending # <<>> \/ closed) => Signalling

\* The worker returns only when nothing more is accepted.
WakeInv ==
    /\ calls \in [Publishers -> {"idle", "appended"}]
    /\ dispatcher \in {"unstarted", "looping", "waiting", "returned"}
    /\ dispatcher = "returned" => closed
    /\ NoWakeUpIsLost

workerVars == <<pending, closed, dispatcher, calls, stopper>>

LEMMA WorkerSteps ==
    ASSUME [UsageNext]_vars
    PROVE  \/ \E p \in Publishers : Publish(p) \/ SignalWorker(p)
           \/ Stop \/ WakeWorker \/ TakeRecord
           \/ UNCHANGED workerVars
<1>1. CASE HandleUsage \/ BridgeRecord \/ \E e \in Enqueuers : Offer(e) \/ Store(e)
    BY <1>1 DEF HandleUsage, BridgeRecord, Offer, Store, managerVars, workerVars
<1>2. CASE Streams \/ Switches
    BY <1>2 DEF Streams, NotifyUsageRefresh, Subscribe, Receive, Leave, CloseLeft,
                CloseCleared, Switches, SwitchOff, Clear, SwitchOn,
                SetUsageStatisticsEnabled, managerVars, workerVars
<1>3. CASE \/ ForwarderPops \/ ForwarderTakes \/ PushUsage \/ Requeue
           \/ \E arrived \in BOOLEAN : PushFails(arrived)
           \/ BeginPop \/ Pop \/ Tick \/ UNCHANGED vars
    BY <1>3 DEF ForwarderPops, ForwarderTakes, PushUsage, Requeue, PushFails,
                BeginPop, Pop, Tick, vars, managerVars, workerVars
<1>. QED BY <1>1, <1>2, <1>3, StepsAre, Zenon

LEMMA WakeStarts == UsageInit => WakeInv
BY DEF UsageInit, WakeInv, NoWakeUpIsLost

LEMMA WakeStep ==
    ASSUME WakeInv, [UsageNext]_vars
    PROVE  WakeInv'
\* A record comes with a publisher who has yet to signal.
<1>1. ASSUME NEW p \in Publishers, Publish(p) PROVE WakeInv'
    <2>1. /\ stopper' = stopper /\ closed' = closed
          /\ dispatcher' = IF dispatcher = "unstarted" THEN "looping" ELSE dispatcher
        BY <1>1 DEF Publish
    <2>2. CASE closed
        <3>1. pending' = pending /\ calls' = calls
            BY <1>1, <2>2 DEF Publish
        <3>. QED BY <2>1, <3>1 DEF WakeInv, NoWakeUpIsLost, Signalling
    <2>3. CASE ~closed
        <3>1. calls' = [calls EXCEPT ![p] = "appended"]
            BY <1>1, <2>3 DEF Publish
        <3>2. calls' \in [Publishers -> {"idle", "appended"}] /\ calls'[p] = "appended"
            BY <3>1 DEF WakeInv
        <3>3. Signalling'
            BY <3>2 DEF Signalling
        <3>4. dispatcher' \in {"looping", "waiting"}
            BY <2>1, <2>3 DEF WakeInv
        <3>. QED BY <3>2, <3>3, <3>4 DEF WakeInv, NoWakeUpIsLost
    <2>. QED BY <2>2, <2>3
\* Who signals finds the worker awake afterwards.
<1>2. ASSUME NEW p \in Publishers, SignalWorker(p) PROVE WakeInv'
    <2>1. /\ pending' = pending /\ closed' = closed
          /\ dispatcher' = Woken /\ calls' = [calls EXCEPT ![p] = "idle"]
        BY <1>2 DEF SignalWorker
    <2>2. calls' \in [Publishers -> {"idle", "appended"}]
        BY <2>1 DEF WakeInv
    <2>. QED BY <2>1, <2>2 DEF WakeInv, NoWakeUpIsLost, Woken
<1>3. CASE WakeWorker
    BY <1>3 DEF WakeWorker, Woken, WakeInv, NoWakeUpIsLost
\* Who closes the manager has yet to signal.
<1>4. CASE Stop
    BY <1>4 DEF Stop, WakeInv, NoWakeUpIsLost, Signalling
\* The worker goes to sleep under the lock: it has seen the last record.
<1>5. CASE TakeRecord
    BY <1>5 DEF TakeRecord, WakeInv, NoWakeUpIsLost
<1>6. CASE UNCHANGED workerVars
    BY <1>6 DEF workerVars, WakeInv, NoWakeUpIsLost, Signalling
<1>. QED BY <1>1, <1>2, <1>3, <1>4, <1>5, <1>6, WorkerSteps

\* However publishers, the worker and Stop interleave between m.mu and m.cond, no
\* signal comes too early to wake the worker: it never sleeps on a record or on a
\* closed manager unless a signal is still to come (Publish, Stop, run).
THEOREM NoRecordIsSleptOn == UsageSpec => []NoWakeUpIsLost
<1>1. WakeInv /\ [UsageNext]_vars => WakeInv'
    BY WakeStep
<1>2. WakeInv => NoWakeUpIsLost
    BY DEF WakeInv
<1>. QED BY WakeStarts, <1>1, <1>2, PTL DEF UsageSpec

=============================================================================
