----------------------------- MODULE FeedProofs -----------------------------
(***************************************************************************)
(* Proofs about NodeFeed for any list of targets, any of them silent, and  *)
(* any timers that keep its assumptions; about LlmScrape for any number of *)
(* ports: the types, and how old what it shows can be.  And about MCFeed,  *)
(* where both run.                                                         *)
(***************************************************************************)
EXTENDS MCFeed, SequenceTheorems, FiniteSetTheorems, WellFoundedInduction, TLAPS

(* A non-empty set of natural numbers has a least element.                 *)
LEMMA LeastElement ==
    ASSUME NEW T \in SUBSET Nat, T # {}
    PROVE  \E m \in T: \A u \in T: m <= u
<1> DEFINE Less == OpToRel(<, Nat)
<1>1. PICK m \in T: \A u \in T: <<u, m>> \notin Less
  <2>1. IsWellFoundedOn(Less, Nat)
    BY NatLessThanWellFounded
  <2> HIDE DEF Less
  <2>2. QED
    BY <2>1, WFMin
<1>2. ASSUME NEW u \in T, u < m PROVE <<u, m>> \in Less
    BY <1>2 DEF OpToRel
<1>3. \A u \in T: ~(u < m)
    BY <1>1, <1>2
<1> QED
    BY <1>3

(* The constants, as numbers.                                              *)
LEMMA Timers ==
    /\ Targets \in Nat \ {0} /\ Interval \in Nat \ {0} /\ CacheTtl \in Nat \ {0}
    /\ OfflineAfter \in Nat \ {0} /\ ReadTimeout \in Nat \ {0} /\ HistoryLen \in Nat \ {0}
    /\ PushWait \in Nat \ {0}
    /\ Horizon \in Nat /\ Horizon > OfflineAfter
    /\ CacheTtl <= Interval
    BY FeedAssumption, TimersAssumption

-----------------------------------------------------------------------------
(* Of a set of targets, those that come after the n-th.                    *)
Beyond(S, n) == {k \in S: k > n}

LEMMA BeyondFacts ==
    ASSUME NEW S \in SUBSET Slots, NEW n \in 0..Targets
    PROVE  /\ IsFiniteSet(Beyond(S, n)) /\ Cardinality(Beyond(S, n)) \in Nat
           /\ (n + 1 \in S => /\ Cardinality(Beyond(S, n)) = Cardinality(Beyond(S, n + 1)) + 1
                              /\ Cardinality(Beyond(S, n + 1)) \in Nat)
           /\ (n + 1 \notin S => Beyond(S, n) = Beyond(S, n + 1))
<1>1. IsFiniteSet(Slots)
    BY Timers, FS_Interval DEF Slots
<1>2. \A m \in Nat: IsFiniteSet(Beyond(S, m)) /\ Cardinality(Beyond(S, m)) \in Nat
    BY <1>1, FS_Subset, FS_CardinalityType DEF Beyond
<1>3. n \in Nat /\ n + 1 \in Nat
    OBVIOUS
<1>6. \A k \in S: k \in Nat /\ (k > n <=> k > n + 1 \/ k = n + 1)
    BY Timers DEF Slots
<1>4. ASSUME n + 1 \in S
      PROVE  Cardinality(Beyond(S, n)) = Cardinality(Beyond(S, n + 1)) + 1
  <2>1. Beyond(S, n) = Beyond(S, n + 1) \cup {n + 1} /\ n + 1 \notin Beyond(S, n + 1)
    BY <1>3, <1>4, <1>6 DEF Beyond
  <2> QED
    BY <1>2, <1>3, <2>1, FS_AddElement
<1>5. ASSUME n + 1 \notin S PROVE Beyond(S, n) = Beyond(S, n + 1)
    BY <1>3, <1>5, <1>6 DEF Beyond
<1> QED
    BY <1>2, <1>3, <1>4, <1>5

(* What the targets after the n-th can cost a fetch, in ticks.             *)
Cost(n) == PushWait * Cardinality(Beyond(Steady, n))
           + ReadTimeout * Cardinality(Beyond(Slots \ Steady, n))

LEMMA CostFacts ==
    /\ LongestFetch \in Nat /\ Cost(0) = LongestFetch
    /\ \A n \in 0..Targets:
          /\ Cost(n) \in Nat
          /\ (n + 1 \in Slots => Cost(n + 1) \in Nat /\ Cost(n) = Cost(n + 1) + Patience(n + 1))
<1>1. \A a, b, c \in Nat: a * b \in Nat /\ (b = c + 1 => a * b = a * c + a)
    OBVIOUS
<1>2. PushWait \in Nat /\ ReadTimeout \in Nat /\ 0 \in 0..Targets /\ Steady \in SUBSET Slots
    BY Timers, FeedAssumption
<1>3. Slots \ Steady \in SUBSET Slots
    OBVIOUS
<1>4. ASSUME NEW n \in 0..Targets PROVE Cost(n) \in Nat
  <2>1. Cardinality(Beyond(Steady, n)) \in Nat /\ Cardinality(Beyond(Slots \ Steady, n)) \in Nat
    BY <1>2, <1>3, BeyondFacts
  <2>2. PushWait * Cardinality(Beyond(Steady, n)) \in Nat
        /\ ReadTimeout * Cardinality(Beyond(Slots \ Steady, n)) \in Nat
    BY <1>1, <1>2, <2>1
  <2> QED
    BY <2>2 DEF Cost
<1>5. Cost(0) = LongestFetch
  <2>1. \A k \in Slots: k > 0
    BY Timers DEF Slots
  <2>2. Beyond(Steady, 0) = Steady /\ Beyond(Slots \ Steady, 0) = Slots \ Steady
    BY <1>2, <2>1 DEF Beyond
  <2> QED
    BY <2>2 DEF Cost, LongestFetch
<1>6. ASSUME NEW n \in 0..Targets, n + 1 \in Slots
      PROVE  Cost(n) = Cost(n + 1) + Patience(n + 1)
  <2> DEFINE p == Cardinality(Beyond(Steady, n))   q == Cardinality(Beyond(Steady, n + 1))
             u == Cardinality(Beyond(Slots \ Steady, n))
             v == Cardinality(Beyond(Slots \ Steady, n + 1))
  <2>1. n + 1 \in 0..Targets
    BY <1>6, Timers DEF Slots
  <2>2. p \in Nat /\ q \in Nat /\ u \in Nat /\ v \in Nat
    BY <1>2, <1>3, <2>1, BeyondFacts
  <2>3. Cost(n) = PushWait * p + ReadTimeout * u /\ Cost(n + 1) = PushWait * q + ReadTimeout * v
    BY DEF Cost
  <2>4. CASE n + 1 \in Steady
    <3>1. p = q + 1 /\ u = v
      BY <1>2, <1>3, <2>4, BeyondFacts
    <3> HIDE DEF p, q, u, v
    <3>2. PushWait * p = PushWait * q + PushWait /\ PushWait * q \in Nat /\ ReadTimeout * v \in Nat
      BY <1>1, <1>2, <2>2, <3>1
    <3> QED
      BY <1>2, <2>3, <2>4, <3>1, <3>2 DEF Patience
  <2>5. CASE n + 1 \notin Steady
    <3>1. p = q /\ u = v + 1
      BY <1>2, <1>3, <1>6, <2>5, BeyondFacts
    <3> HIDE DEF p, q, u, v
    <3>2. ReadTimeout * u = ReadTimeout * v + ReadTimeout /\ PushWait * q \in Nat /\ ReadTimeout * v \in Nat
      BY <1>1, <1>2, <2>2, <3>1
    <3> QED
      BY <1>2, <2>3, <2>5, <3>1, <3>2 DEF Patience
  <2> QED
    BY <2>4, <2>5
<1>7. \A n \in 0..Targets: n + 1 \in Slots => n + 1 \in 0..Targets
    BY Timers DEF Slots
<1> QED
    BY <1>2, <1>4, <1>5, <1>6, <1>7

-----------------------------------------------------------------------------
Histories == {h \in Seq(Slots): Len(h) <= HistoryLen}

LEMMA PushedTyped ==
    ASSUME NEW h \in Histories, NEW k \in Slots
    PROVE  Pushed(h, k) \in Histories
<1>1. h \in Seq(Slots) /\ Len(h) \in Nat /\ Len(h) <= HistoryLen
    BY DEF Histories
<1>2. CASE Len(h) >= HistoryLen
  <2>1. h # <<>>
    BY <1>1, <1>2, Timers
  <2>2. Tail(h) \in Seq(Slots) /\ Len(Tail(h)) = Len(h) - 1
    BY <1>1, <2>1, HeadTailProperties
  <2> QED
    BY <1>1, <1>2, <2>2, AppendProperties DEF Pushed, Histories
<1>3. CASE ~(Len(h) >= HistoryLen)
    BY <1>1, <1>3, Timers, AppendProperties DEF Pushed, Histories
<1> QED
    BY <1>2, <1>3

(* The function by which Extended is defined exists, and its values are    *)
(* histories.                                                              *)
LEMMA ExtendedTyped ==
    ASSUME NEW h \in Histories, NEW docs \in Seq(Entry), NEW same, Len(docs) <= Targets
    PROVE  Extended(h, docs, same) \in Histories
<1> DEFINE n == Len(docs)
           Adds(k) == k \in Taken(docs, same) \cap HasEngine /\ docs[k].ok
           Next1(f, k) == IF k = 0 THEN h ELSE IF Adds(k) THEN Pushed(f[k - 1], k) ELSE f[k - 1]
           Upto(f, m) == f = [k \in 0..m |-> Next1(f, k)]
<1>1. n \in Nat
    OBVIOUS
<1> HIDE DEF Adds
<1>2. \A m \in Nat: \E f: Upto(f, m)
  <2> SUFFICES ASSUME {m \in Nat: ~\E f: Upto(f, m)} # {} PROVE FALSE
    OBVIOUS
  <2>1. PICK m \in {i \in Nat: ~\E f: Upto(f, i)}: \A i \in {i \in Nat: ~\E f: Upto(f, i)}: m <= i
    <3> DEFINE T == {i \in Nat: ~\E f: Upto(f, i)}
    <3>1. T \in SUBSET Nat /\ T # {}
      OBVIOUS
    <3> HIDE DEF T
    <3>2. \E i \in T: \A j \in T: i <= j
      BY <3>1, LeastElement
    <3> QED
      BY <3>2 DEF T
  <2>2. CASE m = 0
    <3>1. Upto([k \in 0..0 |-> h], 0)
      OBVIOUS
    <3> QED
      BY <2>1, <2>2, <3>1
  <2>3. CASE m # 0
    <3>1. m - 1 \in Nat /\ m \in Nat
      BY <2>1, <2>3
    <3>2. PICK f: Upto(f, m - 1)
      <4> HIDE DEF Upto
      <4>1. ~(m <= m - 1)
        BY <3>1
      <4> QED
        BY <2>1, <3>1, <4>1
    <3> DEFINE g == [k \in 0..m |-> IF k < m THEN f[k] ELSE Next1(f, m)]
    <3>3. \A k \in 0..m: g[k] = Next1(g, k)
      <4> SUFFICES ASSUME NEW k \in 0..m PROVE g[k] = Next1(g, k)
        OBVIOUS
      <4>1. CASE k < m
        <5>1. k \in 0..m - 1 /\ g[k] = f[k]
          BY <3>1, <4>1
        <5>2. f[k] = Next1(f, k)
          BY <3>2, <5>1
        <5>3. k # 0 => k - 1 \in 0..m /\ k - 1 < m /\ g[k - 1] = f[k - 1]
          BY <3>1, <5>1
        <5> QED
          BY <5>1, <5>2, <5>3
      <4>2. CASE k = m
        <5>1. g[k] = Next1(f, m) /\ k # 0 /\ g[k - 1] = f[k - 1]
          BY <2>3, <3>1, <4>2
        <5> QED
          BY <4>2, <5>1
      <4> QED
        BY <4>1, <4>2, <3>1
    <3>4. Upto(g, m)
      BY <3>3
    <3> QED
      BY <2>1, <3>4
  <2> QED
    BY <2>2, <2>3
<1> DEFINE upto == CHOOSE f: Upto(f, n)
<1>3. Upto(upto, n)
    BY <1>1, <1>2
<1>4. Extended(h, docs, same) = upto[n]
    BY DEF Extended, Adds
<1> HIDE DEF upto
<1>5. \A k \in 1..n: Adds(k) => k \in Slots
    BY <1>1, Timers DEF Slots
<1>6. \A k \in 0..n: upto[k] \in Histories
  <2> SUFFICES ASSUME {k \in 0..n: upto[k] \notin Histories} # {} PROVE FALSE
    OBVIOUS
  <2> DEFINE T == {k \in 0..n: upto[k] \notin Histories}
  <2>1. T \in SUBSET Nat /\ T # {}
    OBVIOUS
  <2>2. PICK k \in T: \A i \in T: k <= i
    <3> HIDE DEF T
    <3> QED
      BY <2>1, LeastElement
  <2>3. k \in 0..n /\ upto[k] \notin Histories /\ upto[k] = Next1(upto, k)
    BY <1>3, <2>2
  <2>4. k # 0
    BY <2>3
  <2>5. k - 1 \in 0..n /\ upto[k - 1] \in Histories /\ k \in 1..n
    BY <1>1, <2>2, <2>3, <2>4
  <2> QED
    BY <1>5, <2>3, <2>4, <2>5, PushedTyped
<1> QED
    BY <1>1, <1>4, <1>6

-----------------------------------------------------------------------------
(* What lies behind TypeOK: nothing is in hand while the thread sleeps,    *)
(* the cache holds every target's document or none, and the lock is held   *)
(* by one instance.                                                        *)
FeedTyped ==
    /\ shared \in BOOLEAN
    /\ pc \in {"sleep", "fetch"}
    /\ spent \in Nat /\ waiting \in Nat
    /\ got \in Seq(Entry) /\ Len(got) < Targets
    /\ cache \in [age: Ages, docs: Seq(Entry)] /\ Len(cache.docs) \in {0, Targets}
    /\ known \in [Slots -> BOOLEAN]
    /\ other \in 0..LongestFetch + 1 /\ theirs \in 0..LongestFetch
    /\ slot \in [Slots -> Slot]
    /\ history \in Histories
    /\ (pc = "sleep" => got = <<>> /\ waiting = 0)
    /\ (~shared \/ pc = "fetch" => other = 0)
    /\ (~shared => theirs = 0)

(* What the loop over the documents does to each slot.                     *)
LEMMA ApplyFacts ==
    ASSUME FeedTyped, NEW docs \in Seq(Entry), Len(docs) <= Targets,
           NEW same \in [Slots -> BOOLEAN], Apply(docs, same)
    PROVE  /\ slot' \in [Slots -> Slot] /\ known' \in [Slots -> BOOLEAN] /\ history' \in Histories
           /\ \A k \in Slots:
                 /\ known'[k] = (k \in DOMAIN docs /\ docs[k].ok /\ k \in Stamped)
                 /\ (k \notin DOMAIN docs => slot'[k] = slot[k])
                 /\ (k \in DOMAIN docs =>
                       IF docs[k].ok
                       THEN IF same[k] THEN slot'[k] = slot[k]
                            ELSE slot'[k].rx = 0 /\ slot'[k].age = docs[k].age
                       ELSE /\ slot'[k].rx = slot[k].rx /\ slot'[k].age = slot[k].age
                            /\ slot'[k].engine = FALSE)
<1>1. DOMAIN docs = 1..Len(docs) /\ Len(docs) \in Nat
    BY LenProperties
<1>2. DOMAIN docs \subseteq Slots
    BY <1>1, Timers DEF Slots
<1>3. \A k \in DOMAIN docs: docs[k] \in Entry
    BY <1>1, ElementOfSeq
<1>4. \A k \in Slots: slot[k] \in Slot
    BY DEF FeedTyped
<1>5. 0 \in Ages
    BY Timers DEF Ages
<1>6. \A k \in DOMAIN docs: After(k, docs[k], slot[k]) \in Slot
  <2>1. \A e \in Entry, t \in Slot, k \in Slots: After(k, e, t) \in Slot
    <3> SUFFICES ASSUME NEW e \in Entry, NEW t \in Slot, NEW k \in Slots
                 PROVE  After(k, e, t) \in Slot
      OBVIOUS
    <3>1. CASE e.ok
      <4>1. After(k, e, t) = [rx |-> 0, age |-> e.age, failed |-> t.failed, engine |-> k \in HasEngine]
        BY <3>1 DEF After
      <4>2. e.age \in Ages /\ t.failed \in BOOLEAN /\ (k \in HasEngine) \in BOOLEAN
        BY DEF Entry, Slot
      <4> QED
        BY <1>5, <4>1, <4>2 DEF Slot
    <3>2. CASE ~e.ok
      BY <3>2 DEF After, Slot
    <3> QED
      BY <3>1, <3>2
  <2> QED
    BY <1>2, <1>3, <1>4, <2>1
<1>7. \A k \in Slots: slot'[k] = IF k \in Taken(docs, same) THEN After(k, docs[k], slot[k]) ELSE slot[k]
    BY DEF Apply
<1>8. \A k \in Taken(docs, same): k \in DOMAIN docs
    BY DEF Taken
<1>9. slot' \in [Slots -> Slot]
    BY <1>4, <1>6, <1>7, <1>8 DEF Apply
<1>10. history' \in Histories
    BY ExtendedTyped DEF Apply, FeedTyped
<1>11. known' = [k \in Slots |-> k \in DOMAIN docs /\ docs[k].ok /\ k \in Stamped]
    BY DEF Apply
<1>12. \A k \in DOMAIN docs: docs[k].ok \in BOOLEAN
    BY <1>3 DEF Entry
<1>13. known' \in [Slots -> BOOLEAN]
    BY <1>11, <1>12
<1>14. ASSUME NEW k \in Slots, k \in DOMAIN docs
       PROVE  IF docs[k].ok
              THEN IF same[k] THEN slot'[k] = slot[k] ELSE slot'[k].rx = 0 /\ slot'[k].age = docs[k].age
              ELSE /\ slot'[k].rx = slot[k].rx /\ slot'[k].age = slot[k].age /\ slot'[k].engine = FALSE
  <2>1. slot[k] \in Slot
    BY <1>4
  <2>2. CASE docs[k].ok /\ same[k]
    BY <1>7, <2>2 DEF Taken
  <2>3. CASE docs[k].ok /\ ~same[k]
    <3>1. slot'[k] = [rx |-> 0, age |-> docs[k].age, failed |-> slot[k].failed, engine |-> k \in HasEngine]
      BY <1>7, <1>14, <2>3 DEF Taken, After
    <3> QED
      BY <2>3, <3>1
  <2>4. CASE ~docs[k].ok
    <3>1. slot'[k] = [slot[k] EXCEPT !.failed = TRUE, !.engine = FALSE]
      BY <1>7, <1>14, <2>4 DEF Taken, After
    <3> QED
      BY <2>1, <2>4, <3>1 DEF Slot
  <2> QED
    BY <2>2, <2>3, <2>4
<1> QED
    BY <1>7, <1>8, <1>9, <1>10, <1>11, <1>13, <1>14

(* The documents in hand once the fetch at hand is over.                   *)
Docs(ok) == Append(got, [ok |-> ok, age |-> 0])
AllNew == [k \in Slots |-> FALSE]

LEMMA DocsFacts ==
    ASSUME FeedTyped, NEW ok \in BOOLEAN
    PROVE  /\ Docs(ok) \in Seq(Entry) /\ Len(Docs(ok)) = Len(got) + 1 /\ Len(got) + 1 <= Targets
           /\ Len(got) \in 0..Targets /\ Asked \in Slots
           /\ DOMAIN Docs(ok) = 1..Len(got) + 1 /\ DOMAIN got = 1..Len(got)
           /\ \A k \in DOMAIN got: Docs(ok)[k] = got[k] /\ got[k] \in Entry
           /\ Docs(ok)[Asked] = [ok |-> ok, age |-> 0]
           /\ AllNew \in [Slots -> BOOLEAN]
<1>1. [ok |-> ok, age |-> 0] \in Entry
    BY Timers DEF Entry, Ages
<1>2. got \in Seq(Entry) /\ Len(got) \in Nat /\ Len(got) < Targets
    BY DEF FeedTyped
<1>3. /\ Docs(ok) \in Seq(Entry) /\ Len(Docs(ok)) = Len(got) + 1
      /\ \A k \in 1..Len(got): Docs(ok)[k] = got[k]
      /\ Docs(ok)[Len(got) + 1] = [ok |-> ok, age |-> 0]
    BY <1>1, <1>2, AppendProperties DEF Docs
<1>4. DOMAIN Docs(ok) = 1..Len(got) + 1 /\ DOMAIN got = 1..Len(got)
    BY <1>2, <1>3, LenProperties
<1>5. \A k \in 1..Len(got): got[k] \in Entry
    BY <1>2, ElementOfSeq
<1>6. Len(got) + 1 <= Targets /\ Len(got) \in 0..Targets /\ Len(got) + 1 \in 1..Targets
    BY <1>2, Timers
<1> QED
    BY <1>3, <1>4, <1>5, <1>6 DEF AllNew, Asked, Slots

(* The two outcomes of a fetch: another target is next, or it was the last *)
LEMMA FetchedFacts ==
    ASSUME FeedTyped, pc = "fetch", NEW ok \in BOOLEAN, Fetched(ok)
    PROVE  /\ waiting' = 0 /\ UNCHANGED <<shared, spent, other>>
           /\ \/ /\ Len(got) + 1 < Targets /\ got' = Docs(ok)
                 /\ UNCHANGED <<pc, cache, known, theirs, slot, history>>
              \/ /\ Len(got) + 1 = Targets /\ got' = <<>> /\ pc' = "sleep" /\ theirs' = 0
                 /\ cache' = IF shared THEN [age |-> 0, docs |-> Docs(ok)] ELSE cache
                 /\ Apply(Docs(ok), AllNew)
<1>1. Len(Docs(ok)) = Len(got) + 1 /\ Len(got) \in Nat /\ Len(got) + 1 <= Targets
  <2>1. Len(Docs(ok)) = Len(got) + 1 /\ Len(got) + 1 <= Targets
    BY DocsFacts
  <2> QED
    BY <2>1 DEF FeedTyped
<1>2. CASE Len(Docs(ok)) < Targets
    BY <1>1, <1>2 DEF Fetched, Docs
<1>3. CASE ~(Len(Docs(ok)) < Targets)
  <2>1. Len(got) + 1 = Targets
    BY <1>1, <1>3, Timers
  <2>2. /\ got' = <<>> /\ pc' = "sleep" /\ theirs' = 0
        /\ cache' = IF shared THEN [age |-> 0, docs |-> Docs(ok)] ELSE cache
        /\ Apply(Docs(ok), AllNew)
    BY <1>3 DEF Fetched, Docs, AllNew
  <2> QED
    BY <2>1, <2>2 DEF Fetched
<1> QED
    BY <1>2, <1>3

(* What a tick does to every age.                                          *)
LEMMA TickFacts ==
    ASSUME FeedTyped, Tick
    PROVE  /\ got' \in Seq(Entry) /\ Len(got') = Len(got) /\ DOMAIN got' = DOMAIN got
           /\ \A k \in DOMAIN got: got'[k].age = Older(got[k].age) /\ got'[k].ok = got[k].ok
           /\ cache' \in [age: Ages, docs: Seq(Entry)] /\ Len(cache'.docs) = Len(cache.docs)
           /\ cache'.age = Older(cache.age) /\ DOMAIN cache'.docs = DOMAIN cache.docs
           /\ \A k \in DOMAIN cache.docs: /\ cache'.docs[k].age = Older(cache.docs[k].age)
                                          /\ cache'.docs[k].ok = cache.docs[k].ok
           /\ slot' \in [Slots -> Slot]
           /\ \A k \in Slots: /\ slot'[k].rx = Older(slot[k].rx) /\ slot'[k].age = Older(slot[k].age)
                              /\ slot'[k].engine = slot[k].engine
<1>1. \A a \in Ages: Older(a) \in Ages
    BY Timers DEF Ages, Older
<1>2. \A e \in Entry: /\ [e EXCEPT !.age = Older(@)] \in Entry
                      /\ [e EXCEPT !.age = Older(@)].age = Older(e.age)
                      /\ [e EXCEPT !.age = Older(@)].ok = e.ok
    BY <1>1 DEF Entry
<1>3. ASSUME NEW docs \in Seq(Entry), NEW new, new \in [DOMAIN docs -> Entry]
      PROVE  new \in Seq(Entry) /\ Len(new) = Len(docs) /\ DOMAIN new = DOMAIN docs
  <2>1. DOMAIN docs = 1..Len(docs) /\ Len(docs) \in Nat
    BY LenProperties
  <2>2. new \in [1..Len(docs) -> Entry]
    BY <1>3, <2>1
  <2>3. new \in Seq(Entry)
    BY <2>1, <2>2, SeqDef
  <2> QED
    BY <1>3, <2>1, <2>3, LenProperties
<1>4. got \in Seq(Entry) /\ cache.docs \in Seq(Entry) /\ cache.age \in Ages
    BY DEF FeedTyped
<1>5. PICK gotten: gotten = [k \in DOMAIN got |-> [got[k] EXCEPT !.age = Older(@)]]
    OBVIOUS
<1>6. PICK docs: docs = [k \in DOMAIN cache.docs |-> [cache.docs[k] EXCEPT !.age = Older(@)]]
    OBVIOUS
<1>7. cache' = [age |-> Older(cache.age), docs |-> docs]
    BY <1>6 DEF Tick
<1>8. \A k \in Slots: slot[k] \in Slot /\ slot'[k] = [slot[k] EXCEPT !.rx = Older(@), !.age = Older(@)]
    BY DEF Tick, FeedTyped
<1>9. \A s \in Slot: /\ [s EXCEPT !.rx = Older(@), !.age = Older(@)] \in Slot
                     /\ [s EXCEPT !.rx = Older(@), !.age = Older(@)].rx = Older(s.rx)
                     /\ [s EXCEPT !.rx = Older(@), !.age = Older(@)].age = Older(s.age)
                     /\ [s EXCEPT !.rx = Older(@), !.age = Older(@)].engine = s.engine
    BY <1>1 DEF Slot
<1>10. slot' \in [Slots -> Slot]
    BY <1>8, <1>9 DEF Tick
<1>11. /\ got' = gotten /\ got' \in Seq(Entry) /\ Len(got') = Len(got) /\ DOMAIN got' = DOMAIN got
       /\ \A k \in DOMAIN got: got'[k].age = Older(got[k].age) /\ got'[k].ok = got[k].ok
  <2>1. DOMAIN gotten = DOMAIN got /\ gotten \in [DOMAIN got -> Entry]
        /\ \A k \in DOMAIN got: gotten[k] = [got[k] EXCEPT !.age = Older(@)]
    <3>1. \A k \in DOMAIN got: got[k] \in Entry
      BY <1>4, ElementOfSeq, LenProperties
    <3> QED
      BY <1>2, <1>5, <3>1
  <2>2. got' = gotten
    BY <1>5 DEF Tick
  <2>3. \A k \in DOMAIN got: got[k] \in Entry
    BY <1>4, ElementOfSeq, LenProperties
  <2>4. gotten \in Seq(Entry) /\ Len(gotten) = Len(got) /\ DOMAIN gotten = DOMAIN got
    BY <1>3, <1>4, <2>1
  <2>5. \A k \in DOMAIN got: gotten[k].age = Older(got[k].age) /\ gotten[k].ok = got[k].ok
    BY <1>2, <2>1, <2>3
  <2> QED
    BY <2>2, <2>4, <2>5
<1>12. /\ docs \in Seq(Entry) /\ Len(docs) = Len(cache.docs) /\ DOMAIN docs = DOMAIN cache.docs
       /\ \A k \in DOMAIN cache.docs: docs[k].age = Older(cache.docs[k].age) /\ docs[k].ok = cache.docs[k].ok
  <2>1. DOMAIN docs = DOMAIN cache.docs /\ docs \in [DOMAIN cache.docs -> Entry]
        /\ \A k \in DOMAIN cache.docs: docs[k] = [cache.docs[k] EXCEPT !.age = Older(@)]
    <3>1. \A k \in DOMAIN cache.docs: cache.docs[k] \in Entry
      BY <1>4, ElementOfSeq, LenProperties
    <3> QED
      BY <1>2, <1>6, <3>1
  <2>2. \A k \in DOMAIN cache.docs: cache.docs[k] \in Entry
    BY <1>4, ElementOfSeq, LenProperties
  <2>3. docs \in Seq(Entry) /\ Len(docs) = Len(cache.docs) /\ DOMAIN docs = DOMAIN cache.docs
    BY <1>3, <1>4, <2>1
  <2> QED
    BY <1>2, <2>1, <2>2, <2>3
<1>13. /\ cache' \in [age: Ages, docs: Seq(Entry)] /\ cache'.docs = docs /\ cache'.age = Older(cache.age)
    BY <1>1, <1>4, <1>7, <1>12
<1>14. \A k \in Slots: /\ slot'[k].rx = Older(slot[k].rx) /\ slot'[k].age = Older(slot[k].age)
                      /\ slot'[k].engine = slot[k].engine
    BY <1>8, <1>9
<1> QED
    BY <1>10, <1>11, <1>12, <1>13, <1>14

-----------------------------------------------------------------------------
LEMMA FeedTypedInit == Init => FeedTyped
<1> SUFFICES ASSUME Init PROVE FeedTyped
    OBVIOUS
<1>1. Horizon \in Ages /\ 0 \in Ages
    BY Timers DEF Ages
<1>2. /\ <<>> \in Seq(Entry) /\ <<>> \in Seq(Slots) /\ Len(<<>>) = 0
    OBVIOUS
<1>3. cache \in [age: Ages, docs: Seq(Entry)] /\ Len(cache.docs) \in {0, Targets}
  <2>1. [ok |-> TRUE, age |-> Horizon] \in Entry
    BY <1>1 DEF Entry
  <2>2. PICK old: old = [k \in Slots |-> [ok |-> TRUE, age |-> Horizon]]
    OBVIOUS
  <2>3. old \in [1..Targets -> Entry] /\ Targets \in Nat
    BY <2>1, <2>2, Timers DEF Slots
  <2>4. old \in Seq(Entry) /\ Len(old) = Targets
    <3>1. old \in Seq(Entry)
      BY <2>3, SeqDef
    <3> QED
      BY <2>3, <3>1, LenProperties
  <2>5. cache = [age |-> Horizon, docs |-> <<>>] \/ cache = [age |-> Horizon, docs |-> old]
    BY <2>2 DEF Init
  <2>6. CASE cache = [age |-> Horizon, docs |-> <<>>]
    BY <1>1, <1>2, <2>6
  <2>7. CASE cache = [age |-> Horizon, docs |-> old]
    BY <1>1, <2>4, <2>7
  <2> QED
    BY <2>5, <2>6, <2>7
<1>4. slot \in [Slots -> Slot]
    BY <1>1 DEF Init, Slot
<1>5. other \in 0..LongestFetch + 1 /\ theirs \in 0..LongestFetch
    BY CostFacts DEF Init
<1>6. got \in Seq(Entry) /\ Len(got) < Targets /\ history \in Histories
    BY <1>2, Timers DEF Init, Histories
<1>7. spent \in Nat /\ waiting \in Nat
    BY Timers DEF Init
<1>8. known \in [Slots -> BOOLEAN] /\ shared \in BOOLEAN
    BY DEF Init
<1> QED
    BY <1>3, <1>4, <1>5, <1>6, <1>7, <1>8 DEF Init, FeedTyped

(* A cycle that serves itself from the cache changes the slots only.       *)
LEMMA CacheServes ==
    ASSUME FeedTyped, UseCache \/ FallBack
    PROVE  /\ pc = "sleep" /\ shared /\ spent >= Interval /\ spent' = 0
           /\ Apply(cache.docs, known) /\ theirs' = 0
           /\ UNCHANGED <<shared, pc, got, waiting, cache, other>>
           /\ cache.docs \in Seq(Entry) /\ Len(cache.docs) <= Targets /\ known \in [Slots -> BOOLEAN]
           /\ (cache.age < CacheTtl \/ other > 0)
<1>1. cache.docs \in Seq(Entry) /\ Len(cache.docs) <= Targets /\ known \in [Slots -> BOOLEAN]
    BY Timers DEF FeedTyped
<1> QED
    BY <1>1 DEF UseCache, FallBack, Wakes, Fresh

(* A fetch that ends is one of the two outcomes below.                     *)
LEMMA FetchEnds ==
    ASSUME FeedTyped, Answer \/ Fail
    PROVE  pc = "fetch" /\ \E ok \in BOOLEAN: Fetched(ok) /\ (Asked \in Steady => ok)
    BY DEF Answer, Fail

LEMMA OtherEndsFacts ==
    ASSUME FeedTyped, OtherEnds
    PROVE  /\ other > 0 /\ other' = 0 /\ shared /\ pc = "sleep"
           /\ known' = [k \in Slots |-> FALSE]
           /\ theirs' \in 0..LongestFetch /\ theirs <= theirs' /\ other - 1 <= theirs'
           /\ cache' \in [age: Ages, docs: Seq(Entry)] /\ cache'.age = 0
           /\ Len(cache'.docs) = Targets /\ DOMAIN cache'.docs = Slots
           /\ \A k \in Slots: cache'.docs[k].age <= LongestFetch /\ (k \in Steady => cache'.docs[k].ok)
           /\ UNCHANGED <<shared, pc, spent, got, waiting, slot, history>>
<1>1. PICK up \in SUBSET Slots, age \in {0, other - 1}:
         /\ Steady \subseteq up
         /\ cache' = [age |-> 0, docs |-> [k \in Slots |-> [ok |-> k \in up, age |-> age]]]
    BY DEF OtherEnds
<1>2. other \in Nat /\ other > 0 /\ other <= LongestFetch + 1 /\ LongestFetch \in Nat
    BY CostFacts DEF OtherEnds, FeedTyped
<1>3. age \in Nat /\ age <= LongestFetch
    BY <1>2
<1>4. shared /\ pc = "sleep"
    BY <1>2 DEF FeedTyped
<1>5. age \in Ages /\ 0 \in Ages
    BY <1>2, <1>3, Timers, HorizonAssumption DEF Ages
<1> DEFINE docs == [k \in Slots |-> [ok |-> k \in up, age |-> age]]
<1>6. \A k \in Slots: docs[k] \in Entry /\ docs[k].age = age /\ docs[k].ok = (k \in up)
  <2>1. \A k \in Slots: (k \in up) \in BOOLEAN
    OBVIOUS
  <2> QED
    BY <1>5, <2>1 DEF Entry
<1>7. docs \in Seq(Entry) /\ Len(docs) = Targets /\ DOMAIN docs = Slots
  <2>1. docs \in [1..Targets -> Entry] /\ Targets \in Nat
    BY <1>6, Timers DEF Slots
  <2>2. docs \in Seq(Entry)
    BY <2>1, SeqDef
  <2> QED
    BY <2>1, <2>2, LenProperties
<1>8. cache' = [age |-> 0, docs |-> docs]
    BY <1>1
<1> HIDE DEF docs
<1>9. cache' \in [age: Ages, docs: Seq(Entry)] /\ cache'.age = 0 /\ cache'.docs = docs
    BY <1>5, <1>7, <1>8
<1>10. \A k \in Slots: cache'.docs[k].age <= LongestFetch /\ (k \in Steady => cache'.docs[k].ok)
    BY <1>1, <1>3, <1>6, <1>9
<1>11. theirs' \in 0..LongestFetch /\ theirs <= theirs' /\ other - 1 <= theirs'
  <2>1. theirs \in 0..LongestFetch /\ theirs' = IF other - 1 > theirs THEN other - 1 ELSE theirs
    BY DEF OtherEnds, FeedTyped
  <2> QED
    BY <1>2, <2>1
<1> QED
    BY <1>2, <1>4, <1>7, <1>9, <1>10, <1>11 DEF OtherEnds

LEMMA FeedTypedNext == FeedTyped /\ [Next]_vars => FeedTyped'
<1> SUFFICES ASSUME FeedTyped, [Next]_vars PROVE FeedTyped'
    OBVIOUS
<1>0. LongestFetch \in Nat
    BY CostFacts
<1>1. ASSUME UseCache \/ FallBack PROVE FeedTyped'
  <2>1. /\ Apply(cache.docs, known) /\ theirs' = 0 /\ UNCHANGED <<shared, pc, got, waiting, cache, other>>
        /\ cache.docs \in Seq(Entry) /\ Len(cache.docs) <= Targets /\ known \in [Slots -> BOOLEAN]
        /\ spent' = 0
    BY <1>1, CacheServes
  <2>3. theirs' \in 0..LongestFetch
    BY <1>0, <2>1
  <2>2. slot' \in [Slots -> Slot] /\ known' \in [Slots -> BOOLEAN] /\ history' \in Histories
    BY <2>1, ApplyFacts
  <2> QED
    BY <2>1, <2>2, <2>3 DEF FeedTyped
<1>2. ASSUME StartFetch PROVE FeedTyped'
    BY <1>2 DEF StartFetch, Wakes, FeedTyped
<1>3. ASSUME Answer \/ Fail PROVE FeedTyped'
  <2>1. PICK ok \in BOOLEAN: Fetched(ok)
    BY <1>3, FetchEnds
  <2>2. pc = "fetch"
    BY <1>3, FetchEnds
  <2>3. /\ Docs(ok) \in Seq(Entry) /\ Len(Docs(ok)) = Len(got) + 1 /\ AllNew \in [Slots -> BOOLEAN]
        /\ Len(got) + 1 <= Targets
    BY DocsFacts
  <2>4. waiting' = 0 /\ UNCHANGED <<shared, spent, other>>
    BY <2>1, <2>2, FetchedFacts
  <2>5. CASE /\ Len(got) + 1 < Targets /\ got' = Docs(ok)
             /\ UNCHANGED <<pc, cache, known, theirs, slot, history>>
    BY <2>2, <2>3, <2>4, <2>5 DEF FeedTyped
  <2>6. CASE /\ Len(got) + 1 = Targets /\ got' = <<>> /\ pc' = "sleep" /\ theirs' = 0
             /\ cache' = IF shared THEN [age |-> 0, docs |-> Docs(ok)] ELSE cache
             /\ Apply(Docs(ok), AllNew)
    <3>1. slot' \in [Slots -> Slot] /\ known' \in [Slots -> BOOLEAN] /\ history' \in Histories
      BY <2>3, <2>6, ApplyFacts
    <3>2. cache' \in [age: Ages, docs: Seq(Entry)] /\ Len(cache'.docs) \in {0, Targets}
      <4>1. 0 \in Ages
        BY Timers DEF Ages
      <4>2. CASE shared
        BY <2>3, <2>6, <4>1, <4>2
      <4>3. CASE ~shared
        BY <2>6, <4>3 DEF FeedTyped
      <4> QED
        BY <4>2, <4>3
    <3>3. got' \in Seq(Entry) /\ Len(got') < Targets
      BY <2>6, Timers
    <3>4. theirs' \in 0..LongestFetch
      BY <1>0, <2>6
    <3> QED
      BY <2>2, <2>4, <2>6, <3>1, <3>2, <3>3, <3>4 DEF FeedTyped
  <2> QED
    BY <2>1, <2>2, <2>5, <2>6, FetchedFacts
<1>4. ASSUME OtherStarts PROVE FeedTyped'
    BY <1>0, <1>4 DEF OtherStarts, FeedTyped
<1>5. ASSUME OtherEnds PROVE FeedTyped'
  <2>1. 0 \in 0..LongestFetch + 1
    BY <1>0
  <2>2. known' \in [Slots -> BOOLEAN]
    BY <1>5, OtherEndsFacts
  <2> QED
    BY <1>5, <2>1, <2>2, OtherEndsFacts DEF FeedTyped
<1>6. ASSUME Tick PROVE FeedTyped'
  <2>0. /\ spent' = spent + 1 /\ waiting' = (IF pc = "fetch" THEN waiting + 1 ELSE 0)
        /\ other <= LongestFetch /\ other' = (IF other > 0 THEN other + 1 ELSE 0)
    BY <1>6 DEF Tick
  <2>1. spent' \in Nat
    BY <2>0 DEF FeedTyped
  <2>2. waiting' \in Nat /\ (pc = "sleep" => waiting' = 0)
    BY <2>0 DEF FeedTyped
  <2>3. other' \in 0..LongestFetch + 1 /\ (other = 0 => other' = 0)
    <3>1. other \in Nat
      BY <1>0 DEF FeedTyped
    <3> QED
      BY <1>0, <2>0, <3>1
  <2>4. theirs' = theirs
    BY <1>6 DEF Tick
  <2>5. /\ got' \in Seq(Entry) /\ Len(got') = Len(got)
        /\ cache' \in [age: Ages, docs: Seq(Entry)] /\ Len(cache'.docs) = Len(cache.docs)
        /\ slot' \in [Slots -> Slot]
    BY <1>6, TickFacts
  <2>6. got = <<>> => got' = <<>>
    BY <2>5, EmptySeq DEF FeedTyped
  <2>7. UNCHANGED <<shared, pc, known, history>>
    BY <1>6 DEF Tick
  <2> QED
    BY <2>1, <2>2, <2>3, <2>4, <2>5, <2>6, <2>7 DEF FeedTyped
<1>7. ASSUME UNCHANGED vars PROVE FeedTyped'
    BY <1>7 DEF vars, FeedTyped
<1> QED
    BY <1>1, <1>2, <1>3, <1>4, <1>5, <1>6, <1>7 DEF Next, Cycle

-----------------------------------------------------------------------------
(* The clock of a cycle.  A fetch has lasted no longer than the waiting    *)
(* that the targets already asked can have cost, and a sleep no longer     *)
(* than REFRESH_INTERVAL.                                                  *)
CycleClock ==
    /\ waiting <= Patience(Asked)
    /\ (pc = "fetch" => spent + Cost(Len(got)) <= LongestFetch + waiting)
    /\ (pc = "sleep" => spent <= Interval \/ spent <= LongestFetch)

(* What the clock is made of, as numbers.                                  *)
LEMMA ClockNumbers ==
    ASSUME FeedTyped
    PROVE  /\ spent \in Nat /\ waiting \in Nat /\ other \in Nat /\ theirs \in Nat
           /\ other <= LongestFetch + 1
           /\ LongestFetch \in Nat /\ Interval \in Nat /\ Interval > 0
           /\ \A k \in Slots: Patience(k) \in Nat \ {0}
           /\ CacheTtl \in Nat /\ CacheTtl > 0
           /\ Len(got) \in 0..Targets /\ Cost(Len(got)) \in Nat
<1>1. Len(got) \in 0..Targets
    BY Timers DEF FeedTyped
<1>2. \A k \in Slots: Patience(k) \in Nat \ {0}
    BY Timers DEF Patience
<1> QED
    BY <1>1, <1>2, Timers, CostFacts DEF FeedTyped

LEMMA CycleClockInit == Init => CycleClock
    BY Timers DEF Init, CycleClock, Patience

(* When the last target has been asked, the fetch has been no longer than  *)
(* LongestFetch.                                                           *)
LEMMA FetchIsShort ==
    ASSUME FeedTyped, CycleClock, pc = "fetch"
    PROVE  /\ spent <= LongestFetch
           /\ spent + Cost(Len(got) + 1) <= LongestFetch
<1>1. Len(got) + 1 \in 0..Targets /\ Len(got) + 1 \in Slots /\ Len(got) \in 0..Targets
    BY Timers DEF FeedTyped, Slots
<1>2. Cost(Len(got)) \in Nat /\ Cost(Len(got) + 1) \in Nat
    BY <1>1, CostFacts
<1>3. spent + Cost(Len(got)) <= LongestFetch + waiting /\ waiting <= Patience(Len(got) + 1)
    BY DEF CycleClock, Asked
<1>4. Cost(Len(got)) = Cost(Len(got) + 1) + Patience(Len(got) + 1) /\ Patience(Len(got) + 1) \in Nat
    BY <1>1, CostFacts, ClockNumbers
<1> QED
    BY <1>2, <1>3, <1>4, ClockNumbers

LEMMA CycleClockNext == FeedTyped /\ CycleClock /\ [Next]_vars => CycleClock'
<1> SUFFICES ASSUME FeedTyped, CycleClock, [Next]_vars PROVE CycleClock'
    OBVIOUS
<1>1. ASSUME UseCache \/ FallBack PROVE CycleClock'
  <2>1. pc = "sleep" /\ spent' = 0 /\ UNCHANGED <<pc, got, waiting>>
    BY <1>1, CacheServes
  <2> QED
    BY <2>1, ClockNumbers DEF CycleClock, Asked, Patience
<1>2. ASSUME StartFetch PROVE CycleClock'
  <2>1. spent' = 0 /\ got' = <<>> /\ waiting' = 0 /\ pc' = "fetch" /\ Len(got') = 0
    BY <1>2 DEF StartFetch, Wakes, FeedTyped
  <2>2. Cost(Len(got')) = LongestFetch
    BY <2>1, CostFacts
  <2> QED
    BY <2>1, <2>2, ClockNumbers, Timers DEF CycleClock, Asked, Patience
<1>3. ASSUME Answer \/ Fail PROVE CycleClock'
  <2>1. PICK ok \in BOOLEAN: Fetched(ok)
    BY <1>3, FetchEnds
  <2>2. pc = "fetch"
    BY <1>3, FetchEnds
  <2>3. spent <= LongestFetch /\ spent + Cost(Len(got) + 1) <= LongestFetch
    BY <2>2, FetchIsShort
  <2>4. waiting' = 0 /\ spent' = spent /\ waiting' <= Patience(Asked)'
    BY <2>1, <2>2, FetchedFacts, Timers DEF Patience
  <2>5. CASE got' = Docs(ok) /\ pc' = pc
    <3>1. Len(got') = Len(got) + 1
      BY <2>5, DocsFacts
    <3> QED
      <4>1. Cost(Len(got))' = Cost(Len(got) + 1)
        BY <3>1 DEF Cost, Beyond
      <4>2. spent' + Cost(Len(got))' <= LongestFetch + waiting'
        <5>1. spent' + Cost(Len(got))' <= LongestFetch
          BY <2>3, <2>4, <4>1
        <5>2. waiting' = 0 /\ LongestFetch \in Nat
          BY <2>4, CostFacts
        <5> QED
          BY <5>1, <5>2
      <4> QED
        BY <2>2, <2>4, <2>5, <4>2 DEF CycleClock
  <2>6. CASE pc' = "sleep"
    BY <2>2, <2>3, <2>4, <2>6 DEF CycleClock
  <2> QED
    BY <2>1, <2>2, <2>5, <2>6, FetchedFacts
<1>4. ASSUME OtherStarts \/ OtherEnds \/ UNCHANGED vars PROVE CycleClock'
    BY <1>4 DEF OtherStarts, OtherEnds, vars, CycleClock, Asked, Patience
<1>5. ASSUME Tick PROVE CycleClock'
  <2>1. Len(got') = Len(got)
    BY <1>5, TickFacts
  <2>2. spent' = spent + 1 /\ pc' = pc
    BY <1>5 DEF Tick
  <2>5. Patience(Asked)' = Patience(Asked) /\ Asked \in Slots /\ Patience(Asked) \in Nat
    BY <2>1, ClockNumbers, Timers DEF Asked, Patience, FeedTyped, Slots
  <2>3. CASE pc = "sleep"
    <3>1. spent < Interval /\ waiting' = 0
      BY <1>5, <2>3 DEF Tick
    <3> QED
      BY <2>2, <2>3, <2>5, <3>1, ClockNumbers DEF CycleClock
  <2>4. CASE pc = "fetch"
    <3>1. waiting < Patience(Asked) /\ waiting' = waiting + 1
      BY <1>5, <2>4 DEF Tick
    <3> QED
      <4>1. Cost(Len(got))' = Cost(Len(got)) /\ waiting' <= Patience(Asked)'
        BY <2>1, <2>5, <3>1, ClockNumbers DEF Cost, Beyond
      <4>2. spent + Cost(Len(got)) <= LongestFetch + waiting
        BY <2>4 DEF CycleClock
      <4>3. spent' + Cost(Len(got)) <= LongestFetch + waiting'
        <5>1. Cost(Len(got)) \in Nat /\ LongestFetch \in Nat /\ spent \in Nat /\ waiting \in Nat
          BY ClockNumbers
        <5> DEFINE c == Cost(Len(got))
        <5> HIDE DEF c
        <5>2. c \in Nat /\ spent + c <= LongestFetch + waiting
          BY <4>2, <5>1 DEF c
        <5>3. spent' + c <= LongestFetch + waiting'
          BY <2>2, <3>1, <5>1, <5>2
        <5> QED
          BY <5>3 DEF c
      <4> QED
        BY <2>2, <2>4, <3>1, <4>1, <4>3 DEF CycleClock
  <2> QED
    BY <2>3, <2>4 DEF FeedTyped
<1> QED
    BY <1>1, <1>2, <1>3, <1>4, <1>5 DEF Next, Cycle

LEMMA Clocked == Spec => [](FeedTyped /\ CycleClock)
<1> QED
    BY FeedTypedInit, FeedTypedNext, CycleClockInit, CycleClockNext, PTL DEF Spec

(* Type correctness of Inner and of the timers of refresh_loop: histories  *)
(* are of SPARK_HISTORY_LEN at most, and no cycle waits longer than the    *)
(* agents together can make it wait.                                       *)
THEOREM FeedTypeCorrect == Spec => []TypeOK
<1>1. FeedTyped /\ CycleClock => TypeOK
  <2> SUFFICES ASSUME FeedTyped, CycleClock PROVE TypeOK
    OBVIOUS
  <2>1. spent \in 0..Interval + LongestFetch
    BY FetchIsShort, ClockNumbers DEF CycleClock, FeedTyped
  <2>2. waiting <= Patience(Asked)
    BY DEF CycleClock
  <2> QED
    BY <2>1, <2>2 DEF TypeOK, FeedTyped, Histories
<1> QED
    BY <1>1, Clocked, PTL

-----------------------------------------------------------------------------
(* How old a document is when a slot takes it, at most.  A stamped one is  *)
(* taken once, not long after it was written to the cache; one without a   *)
(* stamp as long as the lock is held.                                      *)
Oldest(k) == Interval + IF k \in Stamped THEN LongestFetch ELSE 2 * LongestFetch + CacheTtl - 1

(* A cached document of this session.  It was no older than a fetch when   *)
(* it was written.  While the thread sleeps, the cache is no older than    *)
(* its validity and the sleep so far, and, once the other instance has the *)
(* lock, than that and the time it holds it.  A stamped document that the  *)
(* slot has not taken was written in this sleep.                           *)
Young(k) ==
    /\ cache.docs[k].age <= cache.age + LongestFetch
    /\ (shared /\ pc = "sleep" =>
          /\ (other = 0 => cache.age <= spent + CacheTtl - 1 /\ cache.age <= Interval + CacheTtl - 1)
          /\ (other > 0 => cache.age <= Interval + CacheTtl + other - 2)
          /\ (k \in Stamped /\ cache.docs[k].ok /\ ~known[k] =>
                cache.age <= spent /\ cache.age <= Interval))

AgeInv ==
    /\ \A k \in DOMAIN got: got[k].age <= spent
    /\ \A k \in DOMAIN cache.docs: cache.docs[k].age # Horizon => Young(k)
    /\ \A k \in Slots: slot[k].age # Horizon => slot[k].age <= slot[k].rx + Oldest(k)

(* What ages are, as numbers.                                              *)
LEMMA AgeNumbers ==
    ASSUME FeedTyped
    PROVE  /\ cache.age \in Nat /\ cache.age <= Horizon
           /\ \A k \in DOMAIN cache.docs: /\ k \in Slots /\ cache.docs[k].ok \in BOOLEAN
                                          /\ cache.docs[k].age \in Nat /\ cache.docs[k].age <= Horizon
           /\ \A k \in DOMAIN got: /\ got[k].ok \in BOOLEAN
                                   /\ got[k].age \in Nat /\ got[k].age <= Horizon
           /\ \A k \in Slots: /\ slot[k].rx \in Nat /\ slot[k].rx <= Horizon
                              /\ slot[k].age \in Nat /\ slot[k].age <= Horizon
                              /\ slot[k].engine \in BOOLEAN
<1>1. \A a \in Ages: a \in Nat /\ a <= Horizon
    BY Timers DEF Ages
<1>2. cache.age \in Ages /\ cache.docs \in Seq(Entry) /\ Len(cache.docs) <= Targets
    BY Timers DEF FeedTyped
<1>3. DOMAIN cache.docs = 1..Len(cache.docs) /\ Len(cache.docs) \in Nat
    BY <1>2, LenProperties
<1>4. \A k \in DOMAIN cache.docs: k \in Slots /\ cache.docs[k] \in Entry
    BY <1>2, <1>3, ElementOfSeq, Timers DEF Slots
<1>5. \A k \in DOMAIN got: got[k] \in Entry
    BY ElementOfSeq, LenProperties DEF FeedTyped
<1>6. \A k \in Slots: slot[k] \in Slot
    BY DEF FeedTyped
<1>7. \A e \in Entry: e.ok \in BOOLEAN /\ e.age \in Nat /\ e.age <= Horizon
    BY <1>1 DEF Entry
<1>8. \A t \in Slot: /\ t.rx \in Nat /\ t.rx <= Horizon /\ t.age \in Nat /\ t.age <= Horizon
                     /\ t.engine \in BOOLEAN
    BY <1>1 DEF Slot
<1> QED
    BY <1>1, <1>2, <1>4, <1>5, <1>6, <1>7, <1>8

LEMMA OlderFacts ==
    ASSUME NEW a \in Nat, a <= Horizon
    PROVE  /\ Older(a) \in Nat /\ Older(a) <= a + 1 /\ a <= Older(a)
           /\ (Older(a) # Horizon => a # Horizon /\ Older(a) = a + 1)
           /\ \A b \in Nat, d \in Nat: Older(a) # Horizon /\ b <= Horizon /\ a <= b + d => Older(a) <= Older(b) + d
    BY Timers DEF Older

LEMMA AgeInvInit == Init => AgeInv
<1> SUFFICES ASSUME Init PROVE AgeInv
    OBVIOUS
<1>1. DOMAIN got = {}
    BY DEF Init
<1>2. \A k \in DOMAIN cache.docs: cache.docs[k].age = Horizon
  <2>1. CASE cache = [age |-> Horizon, docs |-> <<>>]
    BY <2>1
  <2>2. CASE cache = [age |-> Horizon, docs |-> [k \in Slots |-> [ok |-> TRUE, age |-> Horizon]]]
    BY <2>2
  <2> QED
    BY <2>1, <2>2 DEF Init
<1>3. \A k \in Slots: slot[k].age = Horizon
    BY DEF Init
<1> QED
    BY <1>1, <1>2, <1>3 DEF AgeInv

(* The documents of a fetch that has ended.                                *)
LEMMA FetchedAges ==
    ASSUME FeedTyped, CycleClock, AgeInv, pc = "fetch", NEW ok \in BOOLEAN
    PROVE  /\ \A k \in DOMAIN Docs(ok): /\ k \in Slots
                                        /\ Docs(ok)[k].age \in Nat /\ Docs(ok)[k].age <= LongestFetch
                                        /\ Docs(ok)[k].age <= spent
           /\ DOMAIN Docs(ok) = 1..Len(got) + 1
<1>1. spent <= LongestFetch /\ spent \in Nat /\ LongestFetch \in Nat
    BY FetchIsShort, ClockNumbers
<1>2. /\ Len(got) \in 0..Targets /\ Len(got) + 1 <= Targets
      /\ DOMAIN Docs(ok) = 1..Len(got) + 1 /\ DOMAIN got = 1..Len(got)
      /\ \A k \in DOMAIN got: Docs(ok)[k] = got[k]
      /\ Docs(ok)[Asked] = [ok |-> ok, age |-> 0]
    BY DocsFacts
<1>3. \A k \in DOMAIN got: got[k].age \in Nat /\ got[k].age <= spent
    BY AgeNumbers DEF AgeInv
<1>4. ASSUME NEW k \in DOMAIN Docs(ok)
      PROVE  k \in Slots /\ Docs(ok)[k].age \in Nat /\ Docs(ok)[k].age <= spent
  <2>1. k \in Slots /\ (k \in DOMAIN got \/ k = Len(got) + 1)
    BY <1>2, <1>4, Timers DEF Slots
  <2>2. CASE k \in DOMAIN got
    BY <1>2, <1>3, <2>1, <2>2
  <2>3. CASE k = Len(got) + 1
    BY <1>1, <1>2, <2>1, <2>3 DEF Asked
  <2> QED
    BY <2>1, <2>2, <2>3
<1>5. \A k \in DOMAIN Docs(ok): Docs(ok)[k].age <= LongestFetch
    BY <1>1, <1>4
<1> QED
    BY <1>2, <1>4, <1>5

(* A cycle takes documents that are old enough to be in the cache.         *)
LEMMA CacheAgesKept ==
    ASSUME FeedTyped, AgeInv, UseCache \/ FallBack
    PROVE  AgeInv'
<1>0. /\ pc = "sleep" /\ shared /\ spent' = 0
      /\ Apply(cache.docs, known)
      /\ theirs' = 0 /\ UNCHANGED <<shared, pc, got, waiting, cache, other>>
      /\ cache.docs \in Seq(Entry) /\ Len(cache.docs) <= Targets /\ known \in [Slots -> BOOLEAN]
      /\ (cache.age < CacheTtl \/ other > 0)
    BY CacheServes
<1>1. \A k \in Slots:
         /\ known'[k] = (k \in DOMAIN cache.docs /\ cache.docs[k].ok /\ k \in Stamped)
         /\ (k \notin DOMAIN cache.docs => slot'[k] = slot[k])
         /\ (k \in DOMAIN cache.docs =>
               IF cache.docs[k].ok
               THEN IF known[k] THEN slot'[k] = slot[k]
                    ELSE slot'[k].rx = 0 /\ slot'[k].age = cache.docs[k].age
               ELSE slot'[k].rx = slot[k].rx /\ slot'[k].age = slot[k].age)
    BY <1>0, ApplyFacts
<1>2. DOMAIN got = {}
    BY <1>0 DEF FeedTyped
<1>3. ASSUME NEW k \in DOMAIN cache.docs, cache.docs[k].age # Horizon PROVE Young(k)'
  <2>1. Young(k) /\ k \in Slots
    BY <1>3, AgeNumbers DEF AgeInv
  <2>2. cache.age \in Nat /\ other \in Nat /\ Interval \in Nat /\ CacheTtl \in Nat
    BY AgeNumbers, ClockNumbers
  <2>3. k \in Stamped /\ cache.docs[k].ok => known'[k]
    BY <1>1, <1>3, <2>1
  <2>4. other = 0 => cache.age <= 0 + CacheTtl - 1 /\ cache.age <= Interval + CacheTtl - 1
    BY <1>0, <2>2
  <2>5. /\ cache.docs[k].age <= cache.age + LongestFetch
        /\ (other > 0 => cache.age <= Interval + CacheTtl + other - 2)
    BY <1>0, <2>1 DEF Young
  <2> QED
    BY <1>0, <2>3, <2>4, <2>5 DEF Young
<1>4. ASSUME NEW k \in Slots, slot'[k].age # Horizon PROVE slot'[k].age <= slot'[k].rx + Oldest(k)
  <2>0. slot[k].age # Horizon => slot[k].age <= slot[k].rx + Oldest(k)
    BY DEF AgeInv
  <2>1. CASE k \in DOMAIN cache.docs /\ cache.docs[k].ok /\ ~known[k]
    <3>1. slot'[k].rx = 0 /\ slot'[k].age = cache.docs[k].age
      BY <1>1, <2>1
    <3>2. Young(k)
      BY <1>4, <2>1, <3>1 DEF AgeInv
    <3>3. /\ cache.docs[k].age <= cache.age + LongestFetch
          /\ (other = 0 => cache.age <= Interval + CacheTtl - 1)
          /\ (other > 0 => cache.age <= Interval + CacheTtl + other - 2)
          /\ (k \in Stamped => cache.age <= Interval)
      BY <1>0, <2>1, <3>2 DEF Young
    <3> DEFINE a == cache.docs[k].age   c == cache.age
    <3>4. /\ a \in Nat /\ c \in Nat /\ other \in Nat /\ other <= LongestFetch + 1
          /\ Interval \in Nat /\ CacheTtl \in Nat /\ LongestFetch \in Nat
      BY <2>1, AgeNumbers, ClockNumbers
    <3>5. /\ a <= c + LongestFetch
          /\ (other = 0 => c <= Interval + CacheTtl - 1)
          /\ (other > 0 => c <= Interval + CacheTtl + other - 2)
      BY <3>3
    <3>6. k \in Stamped => c <= Interval
      BY <3>3
    <3> HIDE DEF a, c
    <3>7. a <= Interval + 2 * LongestFetch + CacheTtl - 1
      BY <3>4, <3>5
    <3>8. k \in Stamped => a <= Interval + LongestFetch
      BY <3>4, <3>5, <3>6
    <3>9. a <= 0 + Oldest(k)
      BY <3>4, <3>7, <3>8 DEF Oldest
    <3> QED
      BY <3>1, <3>9 DEF a
  <2>2. CASE ~(k \in DOMAIN cache.docs /\ cache.docs[k].ok /\ ~known[k])
    <3>1. slot'[k].rx = slot[k].rx /\ slot'[k].age = slot[k].age
      BY <1>1, <2>2
    <3> QED
      BY <1>4, <2>0, <3>1
  <2> QED
    BY <2>1, <2>2
<1>5. \A k \in Slots: Oldest(k)' = Oldest(k)
    BY DEF Oldest, LongestFetch
<1> QED
    BY <1>0, <1>2, <1>3, <1>4, <1>5 DEF AgeInv

LEMMA FetchAgesKept ==
    ASSUME FeedTyped, CycleClock, AgeInv, Answer \/ Fail
    PROVE  AgeInv'
<1>1. PICK ok \in BOOLEAN: Fetched(ok)
    BY FetchEnds
<1>2. pc = "fetch"
    BY FetchEnds
<1>3. UNCHANGED <<shared, spent, other>>
    BY <1>1, <1>2, FetchedFacts
<1>4. /\ \A k \in DOMAIN Docs(ok): /\ k \in Slots
                                   /\ Docs(ok)[k].age \in Nat /\ Docs(ok)[k].age <= LongestFetch
                                   /\ Docs(ok)[k].age <= spent
      /\ DOMAIN Docs(ok) = 1..Len(got) + 1
    BY <1>2, FetchedAges
<1>5. \A k \in Slots: Oldest(k)' = Oldest(k) /\ Oldest(k) \in Nat /\ LongestFetch <= Oldest(k)
  <2>1. /\ Interval \in Nat /\ CacheTtl \in Nat /\ CacheTtl > 0 /\ LongestFetch \in Nat
    BY ClockNumbers
  <2> QED
    BY <2>1 DEF Oldest, LongestFetch
<1>6. CASE /\ got' = Docs(ok) /\ UNCHANGED <<pc, cache, known, slot, history>>
  <2>1. \A k \in DOMAIN got': got'[k].age <= spent'
    BY <1>3, <1>4, <1>6
  <2>2. \A k \in DOMAIN cache'.docs: cache'.docs[k].age # Horizon => Young(k)'
    BY <1>2, <1>6 DEF AgeInv, Young, LongestFetch
  <2>3. \A k \in Slots: slot'[k].age # Horizon => slot'[k].age <= slot'[k].rx + Oldest(k)'
    BY <1>5, <1>6 DEF AgeInv
  <2> QED
    BY <2>1, <2>2, <2>3 DEF AgeInv
<1>7. CASE /\ Len(got) + 1 = Targets /\ got' = <<>> /\ pc' = "sleep"
           /\ cache' = IF shared THEN [age |-> 0, docs |-> Docs(ok)] ELSE cache
           /\ Apply(Docs(ok), AllNew)
  <2>1. /\ Docs(ok) \in Seq(Entry) /\ Len(Docs(ok)) <= Targets /\ AllNew \in [Slots -> BOOLEAN]
    <3>1. Docs(ok) \in Seq(Entry) /\ Len(Docs(ok)) = Len(got) + 1 /\ AllNew \in [Slots -> BOOLEAN]
      BY DocsFacts
    <3> QED
      BY <1>7, <3>1, Timers
  <2>2. \A k \in Slots:
         /\ known'[k] = (k \in DOMAIN Docs(ok) /\ Docs(ok)[k].ok /\ k \in Stamped)
         /\ (k \notin DOMAIN Docs(ok) => slot'[k] = slot[k])
         /\ (k \in DOMAIN Docs(ok) =>
               IF Docs(ok)[k].ok
               THEN IF AllNew[k] THEN slot'[k] = slot[k]
                    ELSE slot'[k].rx = 0 /\ slot'[k].age = Docs(ok)[k].age
               ELSE slot'[k].rx = slot[k].rx /\ slot'[k].age = slot[k].age)
    BY <1>7, <2>1, ApplyFacts
  <2>3. \A k \in DOMAIN got': got'[k].age <= spent'
    BY <1>7
  <2>4. ASSUME NEW k \in DOMAIN cache'.docs, cache'.docs[k].age # Horizon PROVE Young(k)'
    <3>1. CASE shared
      <4>1. cache'.age = 0 /\ cache'.docs = Docs(ok)
        BY <1>7, <3>1
      <4>2. other' = 0
        BY <1>2, <1>3 DEF FeedTyped
      <4>3. k \in Slots /\ Docs(ok)[k].age \in Nat /\ Docs(ok)[k].age <= LongestFetch
        BY <1>4, <2>4, <4>1
      <4>4. /\ cache'.docs[k].age <= cache'.age + LongestFetch'
            /\ LongestFetch \in Nat
        BY <4>1, <4>3, CostFacts DEF LongestFetch
      <4>5. cache'.age <= spent' + CacheTtl - 1 /\ cache'.age <= Interval + CacheTtl - 1
            /\ cache'.age <= spent' /\ cache'.age <= Interval
        BY <1>3, <4>1, ClockNumbers
      <4> QED
        BY <4>2, <4>4, <4>5 DEF Young
    <3>2. CASE ~shared
      <4>1. cache' = cache /\ ~shared'
        BY <1>3, <1>7, <3>2
      <4> QED
        BY <2>4, <3>2, <4>1 DEF AgeInv, Young, LongestFetch
    <3> QED
      BY <3>1, <3>2
  <2>5. ASSUME NEW k \in Slots, slot'[k].age # Horizon
        PROVE  slot'[k].age <= slot'[k].rx + Oldest(k)'
    <3>1. CASE k \in DOMAIN Docs(ok) /\ Docs(ok)[k].ok
      <4>1. slot'[k].rx = 0 /\ slot'[k].age = Docs(ok)[k].age
        BY <2>2, <3>1 DEF AllNew
      <4> DEFINE a == Docs(ok)[k].age   o == Oldest(k)
      <4>2. a \in Nat /\ a <= LongestFetch /\ o \in Nat /\ LongestFetch <= o /\ LongestFetch \in Nat
        BY <1>4, <1>5, <3>1, CostFacts
      <4> HIDE DEF a, o
      <4>3. a <= 0 + o
        BY <4>2
      <4> QED
        BY <1>5, <4>1, <4>3 DEF a, o
    <3>2. CASE ~(k \in DOMAIN Docs(ok) /\ Docs(ok)[k].ok)
      <4>1. slot'[k].rx = slot[k].rx /\ slot'[k].age = slot[k].age
        BY <2>2, <3>2
      <4> QED
        BY <1>5, <2>5, <4>1 DEF AgeInv
    <3> QED
      BY <3>1, <3>2
  <2> QED
    BY <2>3, <2>4, <2>5 DEF AgeInv
<1> QED
    BY <1>1, <1>2, <1>6, <1>7, FetchedFacts

LEMMA TickAgesKept ==
    ASSUME FeedTyped, CycleClock, AgeInv, Tick
    PROVE  AgeInv'
<1>1. /\ DOMAIN got' = DOMAIN got
      /\ \A k \in DOMAIN got: got'[k].age = Older(got[k].age)
      /\ cache'.age = Older(cache.age) /\ DOMAIN cache'.docs = DOMAIN cache.docs
      /\ \A k \in DOMAIN cache.docs: /\ cache'.docs[k].age = Older(cache.docs[k].age)
                                     /\ cache'.docs[k].ok = cache.docs[k].ok
      /\ \A k \in Slots: slot'[k].rx = Older(slot[k].rx) /\ slot'[k].age = Older(slot[k].age)
    BY TickFacts
<1>2. /\ spent' = spent + 1 /\ shared' = shared /\ pc' = pc /\ known' = known
      /\ (pc = "sleep" => spent < Interval)
      /\ other' = IF other > 0 THEN other + 1 ELSE 0
    BY DEF Tick
<1>3. /\ spent \in Nat /\ other \in Nat /\ LongestFetch \in Nat /\ Interval \in Nat /\ CacheTtl \in Nat
      /\ CacheTtl > 0
    BY ClockNumbers
<1>4. ASSUME NEW k \in DOMAIN got' PROVE got'[k].age <= spent'
  <2> DEFINE a == got[k].age
  <2>1. a \in Nat /\ a <= Horizon /\ a <= spent /\ got'[k].age = Older(a)
    BY <1>1, <1>4, AgeNumbers DEF AgeInv
  <2> HIDE DEF a
  <2>2. Older(a) \in Nat /\ Older(a) <= a + 1
    BY <2>1, OlderFacts
  <2> QED
    BY <1>2, <1>3, <2>1, <2>2
<1>5. ASSUME NEW k \in DOMAIN cache'.docs, cache'.docs[k].age # Horizon PROVE Young(k)'
  <2> DEFINE a == cache.docs[k].age   c == cache.age
  <2>1. a \in Nat /\ a <= Horizon /\ c \in Nat /\ c <= Horizon
        /\ cache'.docs[k].age = Older(a) /\ cache'.age = Older(c) /\ cache'.docs[k].ok = cache.docs[k].ok
    BY <1>1, <1>5, AgeNumbers
  <2>2. Older(a) # Horizon /\ a # Horizon
    BY <1>5, <2>1, OlderFacts
  <2>3. Young(k)
    BY <1>1, <1>5, <2>2 DEF AgeInv
  <2>4. a <= c + LongestFetch
    BY <2>3 DEF Young
  <2>5. Older(a) <= Older(c) + LongestFetch
    <3> HIDE DEF a, c
    <3> QED
      BY <1>3, <2>1, <2>2, <2>4, OlderFacts
  <2>6. Older(c) \in Nat /\ Older(c) <= c + 1
    BY <2>1, OlderFacts
  <2>7. ASSUME shared, pc = "sleep"
        PROVE  /\ (other' = 0 => Older(c) <= spent' + CacheTtl - 1 /\ Older(c) <= Interval + CacheTtl - 1)
               /\ (other' > 0 => Older(c) <= Interval + CacheTtl + other' - 2)
               /\ (k \in Stamped /\ cache.docs[k].ok /\ ~known[k] =>
                     Older(c) <= spent' /\ Older(c) <= Interval)
    <3>1. /\ (other = 0 => c <= spent + CacheTtl - 1 /\ c <= Interval + CacheTtl - 1)
          /\ (other > 0 => c <= Interval + CacheTtl + other - 2)
      BY <2>3, <2>7 DEF Young
    <3>2. k \in Stamped /\ cache.docs[k].ok /\ ~known[k] => c <= spent /\ c <= Interval
      BY <2>3, <2>7 DEF Young
    <3>3. spent < Interval
      BY <1>2, <2>7
    <3> DEFINE d == Older(c)
    <3>4. d \in Nat /\ d <= c + 1 /\ c \in Nat
      BY <2>1, <2>6
    <3> HIDE DEF c, d
    <3>5. /\ (other' = 0 => d <= spent' + CacheTtl - 1 /\ d <= Interval + CacheTtl - 1)
          /\ (other' > 0 => d <= Interval + CacheTtl + other' - 2)
      BY <1>2, <1>3, <3>1, <3>3, <3>4
    <3>6. c <= spent => d <= spent' /\ d <= Interval
      BY <1>2, <1>3, <3>3, <3>4
    <3> QED
      BY <3>2, <3>5, <3>6 DEF d
  <2> QED
    BY <1>2, <2>1, <2>5, <2>7 DEF Young, LongestFetch
<1>6. ASSUME NEW k \in Slots, slot'[k].age # Horizon
      PROVE  slot'[k].age <= slot'[k].rx + Oldest(k)'
  <2> DEFINE a == slot[k].age   r == slot[k].rx   o == Oldest(k)
  <2>1. a \in Nat /\ a <= Horizon /\ r \in Nat /\ r <= Horizon
        /\ slot'[k].age = Older(a) /\ slot'[k].rx = Older(r)
    BY <1>1, AgeNumbers
  <2>2. Older(a) # Horizon /\ a # Horizon
    BY <1>6, <2>1, OlderFacts
  <2>3. a <= r + o
    BY <2>2 DEF AgeInv
  <2>4. o \in Nat /\ Oldest(k)' = o
    BY <1>3 DEF Oldest, LongestFetch
  <2> HIDE DEF a, r, o
  <2>5. Older(a) <= Older(r) + o
    BY <2>1, <2>2, <2>3, <2>4, OlderFacts
  <2> QED
    BY <2>1, <2>4, <2>5 DEF o
<1> QED
    BY <1>4, <1>5, <1>6 DEF AgeInv

LEMMA AgeInvNext == FeedTyped /\ CycleClock /\ AgeInv /\ [Next]_vars => AgeInv'
<1> SUFFICES ASSUME FeedTyped, CycleClock, AgeInv, [Next]_vars PROVE AgeInv'
    OBVIOUS
<1>1. ASSUME StartFetch PROVE AgeInv'
  <2>1. /\ got = <<>> /\ got' = got /\ pc' = "fetch"
        /\ UNCHANGED <<shared, cache, known, other, slot>>
    BY <1>1 DEF StartFetch, Wakes, FeedTyped
  <2>2. DOMAIN got' = {}
    BY <2>1
  <2>3. \A k \in DOMAIN cache'.docs: cache'.docs[k].age # Horizon => Young(k)'
    BY <2>1 DEF AgeInv, Young, LongestFetch
  <2>4. \A k \in Slots: slot'[k].age # Horizon => slot'[k].age <= slot'[k].rx + Oldest(k)'
    BY <2>1 DEF AgeInv, Oldest, LongestFetch
  <2> QED
    BY <2>2, <2>3, <2>4 DEF AgeInv
<1>2. ASSUME OtherStarts PROVE AgeInv'
  <2>1. /\ other = 0 /\ other' = 1
        /\ UNCHANGED <<shared, pc, spent, got, waiting, cache, known, theirs, slot, history>>
    BY <1>2 DEF OtherStarts
  <2>2. ASSUME NEW k \in DOMAIN cache'.docs, cache'.docs[k].age # Horizon PROVE Young(k)'
    <3>1. Young(k)
      BY <2>1, <2>2 DEF AgeInv
    <3>2. shared /\ pc = "sleep" => cache.age <= Interval + CacheTtl + 1 - 2
      BY <2>1, <3>1, AgeNumbers, ClockNumbers DEF Young
    <3> QED
      BY <2>1, <3>1, <3>2 DEF Young, LongestFetch
  <2> QED
    BY <2>1, <2>2 DEF AgeInv, Oldest, LongestFetch
<1>3. ASSUME OtherEnds PROVE AgeInv'
  <2>1. /\ other' = 0 /\ pc = "sleep" /\ cache'.age = 0 /\ DOMAIN cache'.docs = Slots
        /\ \A k \in Slots: cache'.docs[k].age <= LongestFetch
        /\ UNCHANGED <<shared, pc, spent, got, waiting, slot, history>>
    BY <1>3, OtherEndsFacts
  <2>2. ASSUME NEW k \in DOMAIN cache'.docs PROVE Young(k)'
    <3>1. cache'.docs[k].age <= cache'.age + LongestFetch'
      <4>1. cache' \in [age: Ages, docs: Seq(Entry)] /\ Len(cache'.docs) = Targets
        BY <1>3, OtherEndsFacts
      <4>2. cache'.docs[k] \in Entry
        BY <2>2, <4>1, ElementOfSeq, LenProperties
      <4>3. cache'.docs[k].age \in Nat
        BY <4>2, Timers DEF Entry, Ages
      <4> DEFINE a == cache'.docs[k].age
      <4>4. a \in Nat /\ a <= LongestFetch /\ LongestFetch \in Nat
        BY <2>1, <2>2, <4>3, CostFacts
      <4> HIDE DEF a
      <4>5. a <= 0 + LongestFetch
        BY <4>4
      <4> QED
        BY <2>1, <4>5 DEF a, LongestFetch
    <3>2. /\ 0 <= spent + CacheTtl - 1 /\ 0 <= Interval + CacheTtl - 1 /\ 0 <= spent /\ 0 <= Interval
      BY ClockNumbers
    <3> QED
      BY <2>1, <3>1, <3>2 DEF Young
  <2> QED
    BY <2>1, <2>2 DEF AgeInv, Oldest, LongestFetch
<1>4. ASSUME UNCHANGED vars PROVE AgeInv'
    BY <1>4 DEF vars, AgeInv, Young, Oldest, LongestFetch
<1> QED
    BY <1>1, <1>2, <1>3, <1>4, CacheAgesKept, FetchAgesKept, TickAgesKept DEF Next, Cycle

(* apply_value, snapshot and refresh_loop: what an online node shows is no *)
(* older than OFFLINE_AFTER_S and what the cache, the lock and the fetches *)
(* for the other targets can add to it.                                    *)
THEOREM OnlineStaysRecent == Spec => []OnlineIsRecent
<1>1. FeedTyped /\ AgeInv => OnlineIsRecent
  <2> SUFFICES ASSUME FeedTyped, AgeInv, NEW k \in Slots, Online(k), slot[k].age < Horizon
               PROVE  slot[k].age < OfflineAfter + Interval
                          + IF k \in Stamped THEN LongestFetch ELSE 2 * LongestFetch + CacheTtl - 1
    BY DEF OnlineIsRecent
  <2> DEFINE a == slot[k].age   r == slot[k].rx
  <2>1. a <= r + Oldest(k) /\ r < OfflineAfter
    BY AgeNumbers DEF AgeInv, Online
  <2>2. a \in Nat /\ r \in Nat
    BY AgeNumbers
  <2> HIDE DEF a, r
  <2>3. a < OfflineAfter + Interval + IF k \in Stamped THEN LongestFetch ELSE 2 * LongestFetch + CacheTtl - 1
    <3>1. /\ OfflineAfter \in Nat /\ Interval \in Nat /\ LongestFetch \in Nat /\ CacheTtl \in Nat
      BY Timers, CostFacts
    <3>2. CASE k \in Stamped
      BY <2>1, <2>2, <3>1, <3>2 DEF Oldest
    <3>3. CASE k \notin Stamped
      BY <2>1, <2>2, <3>1, <3>3 DEF Oldest
    <3> QED
      BY <3>2, <3>3
  <2> QED
    BY <2>3 DEF a
<1> QED
    BY <1>1, FeedTypedInit, FeedTypedNext, CycleClockInit, CycleClockNext, AgeInvInit, AgeInvNext, PTL
       DEF Spec

-----------------------------------------------------------------------------
(* What ought to be online: a slot with engine values, and one of an agent *)
(* that always answers and has been heard of.                              *)
Held(k) == slot[k].engine \/ (k \in Steady /\ Online(k))

(* How long ago such a slot was filled at most.  Without the shared cache, *)
(* that is since the last cycle.  With it, the document that the slot has  *)
(* taken is in the cache as long as that is valid or the lock is held, and *)
(* one more sleep and one more fetch may pass until a new one is taken.    *)
CachedFor == Interval + CacheTtl - 1
Lately(k) ==
    /\ (~shared /\ pc = "sleep" => slot[k].rx <= spent /\ slot[k].rx <= Interval)
    /\ (~shared /\ pc = "fetch" => slot[k].rx <= Interval + spent)
    /\ (shared /\ pc = "fetch" => slot[k].rx <= Interval + CachedFor + theirs + spent)
    /\ (shared /\ pc = "sleep" /\ ~known[k] => /\ slot[k].rx <= spent + CachedFor + theirs
                                              /\ slot[k].rx <= Interval + CachedFor + theirs)
    /\ (shared /\ pc = "sleep" /\ known[k] /\ other = 0 => /\ slot[k].rx <= spent + CacheTtl - 1
                                                           /\ slot[k].rx <= CachedFor)
    /\ (shared /\ pc = "sleep" /\ known[k] /\ other > 0 => slot[k].rx <= CachedFor + other - 1)

HeldInv ==
    /\ \A k \in Slots: known[k] => k \in Stamped
    /\ \A k \in DOMAIN got: k \in Steady => got[k].ok
    /\ \A k \in DOMAIN cache.docs: k \in Steady => cache.docs[k].ok
    /\ (shared /\ cache.docs = <<>> => \A k \in Slots: ~Held(k))
    /\ (shared /\ pc = "sleep" => \A k \in Slots: known[k] => slot[k].rx <= cache.age)
    /\ \A k \in Slots: Held(k) => Lately(k)

LEMMA HeldInvInit == Init => HeldInv
<1> SUFFICES ASSUME Init PROVE HeldInv
    OBVIOUS
<1>1. \A k \in Slots: ~Held(k) /\ ~known[k]
    BY Timers DEF Init, Held, Online
<1>2. \A k \in DOMAIN cache.docs: cache.docs[k].ok
  <2>1. CASE cache = [age |-> Horizon, docs |-> <<>>]
    BY <2>1
  <2>2. CASE cache = [age |-> Horizon, docs |-> [k \in Slots |-> [ok |-> TRUE, age |-> Horizon]]]
    BY <2>2
  <2> QED
    BY <2>1, <2>2 DEF Init
<1>3. DOMAIN got = {}
    BY DEF Init
<1> QED
    BY <1>1, <1>2, <1>3 DEF HeldInv

(* A slot that has just been filled.                                       *)
LEMMA JustFilled ==
    ASSUME NEW k \in Slots, FeedTyped', slot'[k].rx = 0
    PROVE  Lately(k)'
<1> DEFINE n == spent'   t == theirs'   o == other'
<1>1. /\ n \in Nat /\ t \in Nat /\ o \in Nat /\ Interval \in Nat /\ Interval > 0
      /\ CacheTtl \in Nat /\ CacheTtl > 0
  <2>1. LongestFetch' = LongestFetch /\ LongestFetch \in Nat
    BY CostFacts DEF LongestFetch
  <2> QED
    BY <2>1, Timers DEF FeedTyped
<1> HIDE DEF n, t, o
<1>2. /\ 0 <= n /\ 0 <= Interval /\ 0 <= Interval + n
      /\ 0 <= Interval + (Interval + CacheTtl - 1) + t + n
      /\ 0 <= n + (Interval + CacheTtl - 1) + t /\ 0 <= Interval + (Interval + CacheTtl - 1) + t
      /\ 0 <= n + CacheTtl - 1 /\ 0 <= Interval + CacheTtl - 1
      /\ (o > 0 => 0 <= (Interval + CacheTtl - 1) + o - 1)
    BY <1>1
<1> QED
    BY <1>2 DEF Lately, CachedFor, n, t, o

(* What each action does to a slot that ought to be online, and to one     *)
(* that ought not: Kept is the part of the invariant that is about k.      *)
Kept(k) ==
    /\ (Held(k) /\ (k \in Steady \/ slot'[k].engine) => Lately(k)')
    /\ (~Held(k) /\ Held(k)' => slot'[k].rx = 0)

LEMMA CacheKeepsHeld ==
    ASSUME FeedTyped, FeedTyped', CycleClock, HeldInv, UseCache \/ FallBack
    PROVE  /\ HeldInv'
           /\ \A k \in Slots: Kept(k)
<1>0. /\ pc = "sleep" /\ shared /\ spent' = 0 /\ spent >= Interval
      /\ Apply(cache.docs, known)
      /\ theirs' = 0 /\ UNCHANGED <<shared, pc, got, waiting, cache, other>>
      /\ cache.docs \in Seq(Entry) /\ Len(cache.docs) <= Targets /\ known \in [Slots -> BOOLEAN]
      /\ (cache.age < CacheTtl \/ other > 0)
    BY CacheServes
<1>1. \A k \in Slots:
         /\ known'[k] = (k \in DOMAIN cache.docs /\ cache.docs[k].ok /\ k \in Stamped)
         /\ (k \notin DOMAIN cache.docs => slot'[k] = slot[k])
         /\ (k \in DOMAIN cache.docs =>
               IF cache.docs[k].ok
               THEN IF known[k] THEN slot'[k] = slot[k]
                    ELSE slot'[k].rx = 0 /\ slot'[k].age = cache.docs[k].age
               ELSE slot'[k].rx = slot[k].rx /\ slot'[k].age = slot[k].age /\ slot'[k].engine = FALSE)
    BY <1>0, ApplyFacts
<1>2. DOMAIN cache.docs = 1..Len(cache.docs) /\ (cache.docs = <<>> \/ DOMAIN cache.docs = Slots)
  <2>1. DOMAIN cache.docs = 1..Len(cache.docs) /\ Len(cache.docs) \in {0, Targets}
    BY <1>0, LenProperties DEF FeedTyped
  <2> QED
    BY <1>0, <2>1, EmptySeq DEF Slots
<1>3. ASSUME NEW k \in Slots, Held(k), k \in Steady \/ slot'[k].engine PROVE Lately(k)'
  <2>1. k \in DOMAIN cache.docs
    BY <1>0, <1>2, <1>3 DEF HeldInv
  <2>2. cache.docs[k].ok
    BY <1>1, <1>3, <2>1 DEF HeldInv
  <2>3. CASE ~known[k]
    BY <1>1, <2>1, <2>2, <2>3, JustFilled
  <2>4. CASE known[k]
    <3>1. slot'[k] = slot[k]
      BY <1>1, <2>1, <2>2, <2>4
    <3>2. Lately(k) /\ slot[k].rx <= cache.age
      BY <1>0, <1>3, <2>4 DEF HeldInv
    <3> DEFINE r == slot[k].rx
    <3>3. /\ r \in Nat /\ cache.age \in Nat /\ r <= cache.age /\ other \in Nat
          /\ Interval \in Nat /\ Interval > 0 /\ CacheTtl \in Nat /\ CacheTtl > 0
      BY <3>2, AgeNumbers, ClockNumbers
    <3>4. other > 0 => r <= CachedFor + other - 1
      BY <1>0, <2>4, <3>2 DEF Lately
    <3> HIDE DEF r
    <3>5. other = 0 => r <= 0 + CacheTtl - 1 /\ r <= CachedFor
      BY <1>0, <3>3 DEF CachedFor
    <3>6. known'[k]
      BY <1>1, <1>3, <2>1, <2>2, <2>4 DEF HeldInv
    <3> QED
      BY <1>0, <3>1, <3>3, <3>4, <3>5, <3>6 DEF Lately, r
  <2> QED
    BY <2>3, <2>4
<1>4. ASSUME NEW k \in Slots, ~Held(k), Held(k)' PROVE slot'[k].rx = 0
  <2>1. ~(slot'[k] = slot[k])
    BY <1>4 DEF Held, Online
  <2>2. k \in DOMAIN cache.docs /\ ~(cache.docs[k].ok /\ known[k])
    BY <1>1, <2>1
  <2>3. CASE cache.docs[k].ok
    BY <1>1, <2>2, <2>3
  <2>4. CASE ~cache.docs[k].ok
    <3>1. slot'[k].rx = slot[k].rx /\ slot'[k].engine = FALSE
      BY <1>1, <2>2, <2>4
    <3> QED
      BY <1>4, <3>1 DEF Held, Online
  <2> QED
    BY <2>3, <2>4
<1>5. \A k \in Slots: Kept(k)
    BY <1>3, <1>4 DEF Kept
<1>6. \A k \in Slots: Held(k)' => Lately(k)'
  <2> SUFFICES ASSUME NEW k \in Slots, Held(k)' PROVE Lately(k)'
    OBVIOUS
  <2>1. k \in Steady \/ slot'[k].engine
    BY DEF Held
  <2> QED
    BY <1>3, <1>4, <2>1, JustFilled
<1>7. ASSUME NEW k \in Slots, known'[k] PROVE slot'[k].rx <= cache'.age
  <2>1. k \in DOMAIN cache.docs /\ cache.docs[k].ok
    BY <1>1, <1>7
  <2>2. CASE known[k]
    BY <1>0, <1>1, <2>1, <2>2 DEF HeldInv
  <2>3. CASE ~known[k]
    BY <1>0, <1>1, <2>1, <2>3, AgeNumbers
  <2> QED
    BY <2>2, <2>3
<1>8. shared' /\ cache'.docs = <<>> => \A k \in Slots: ~Held(k)'
  <2> SUFFICES ASSUME cache.docs = <<>>, NEW k \in Slots PROVE ~Held(k)'
    BY <1>0
  <2>1. slot'[k] = slot[k]
    BY <1>1
  <2> QED
    BY <1>0, <2>1 DEF HeldInv, Held, Online
<1>9. \A k \in Slots: known'[k] => k \in Stamped
    BY <1>1
<1> QED
    BY <1>0, <1>5, <1>6, <1>7, <1>8, <1>9 DEF HeldInv

LEMMA FetchKeepsHeld ==
    ASSUME FeedTyped, FeedTyped', HeldInv, Answer \/ Fail
    PROVE  /\ HeldInv'
           /\ \A k \in Slots: Kept(k)
<1>1. PICK ok \in BOOLEAN: Fetched(ok) /\ (Asked \in Steady => ok)
    BY FetchEnds
<1>2. pc = "fetch"
    BY FetchEnds
<1>3. UNCHANGED <<shared, spent, other>>
    BY <1>1, <1>2, FetchedFacts
<1>4. /\ Docs(ok) \in Seq(Entry) /\ Len(Docs(ok)) = Len(got) + 1 /\ Len(got) + 1 <= Targets
      /\ Len(got) \in 0..Targets
      /\ DOMAIN Docs(ok) = 1..Len(got) + 1 /\ DOMAIN got = 1..Len(got)
      /\ \A k \in DOMAIN got: Docs(ok)[k] = got[k]
      /\ Docs(ok)[Asked] = [ok |-> ok, age |-> 0]
      /\ AllNew \in [Slots -> BOOLEAN]
    BY DocsFacts
<1>5. \A k \in DOMAIN Docs(ok): k \in Steady => Docs(ok)[k].ok
  <2> SUFFICES ASSUME NEW k \in DOMAIN Docs(ok), k \in Steady PROVE Docs(ok)[k].ok
    OBVIOUS
  <2>1. k \in DOMAIN got \/ k = Asked
    BY <1>4 DEF Asked
  <2>2. CASE k \in DOMAIN got
    BY <1>4, <2>2 DEF HeldInv
  <2>3. CASE k = Asked
    <3>1. Docs(ok)[k] = [ok |-> ok, age |-> 0]
      BY <1>4, <2>3
    <3>2. ok = TRUE
      BY <1>1, <2>3
    <3>3. Docs(ok)[k] = [ok |-> TRUE, age |-> 0]
      BY <3>1, <3>2, Zenon
    <3> QED
      BY <3>3
  <2> QED
    BY <2>1, <2>2, <2>3
<1>6. CASE /\ got' = Docs(ok) /\ UNCHANGED <<pc, cache, known, theirs, slot, history>>
  <2>1. \A k \in Slots: (Lately(k)' <=> Lately(k)) /\ (Held(k)' <=> Held(k))
    BY <1>3, <1>6 DEF Lately, Held, Online
  <2>2. \A k \in Slots: Held(k) => Lately(k)
    BY DEF HeldInv
  <2>3. \A k \in Slots: Kept(k)
    BY <2>1, <2>2 DEF Kept
  <2> QED
    BY <1>2, <1>3, <1>5, <1>6, <2>1, <2>3 DEF HeldInv
<1>7. CASE /\ Len(got) + 1 = Targets /\ got' = <<>> /\ pc' = "sleep"
           /\ cache' = IF shared THEN [age |-> 0, docs |-> Docs(ok)] ELSE cache
           /\ Apply(Docs(ok), AllNew)
  <2>1. DOMAIN Docs(ok) = Slots /\ Docs(ok) # <<>>
    BY <1>4, <1>7, Timers DEF Slots
  <2>2. \A k \in Slots:
         /\ known'[k] = (Docs(ok)[k].ok /\ k \in Stamped)
         /\ IF Docs(ok)[k].ok THEN slot'[k].rx = 0 ELSE slot'[k].engine = FALSE
    <3>1. Len(Docs(ok)) <= Targets
      BY <1>4, <1>7, Timers
    <3>2. \A k \in Slots:
             /\ known'[k] = (k \in DOMAIN Docs(ok) /\ Docs(ok)[k].ok /\ k \in Stamped)
             /\ (k \in DOMAIN Docs(ok) =>
                   IF Docs(ok)[k].ok
                   THEN IF AllNew[k] THEN slot'[k] = slot[k] ELSE slot'[k].rx = 0
                   ELSE slot'[k].engine = FALSE)
      BY <1>4, <1>7, <3>1, ApplyFacts
    <3>3. \A k \in Slots: ~AllNew[k]
      BY DEF AllNew
    <3> QED
      BY <2>1, <3>2, <3>3
  <2>3. \A k \in Slots: k \in Steady \/ slot'[k].engine => slot'[k].rx = 0
    BY <1>5, <2>1, <2>2
  <2>4. \A k \in Slots: Held(k)' => slot'[k].rx = 0
    BY <2>3 DEF Held
  <2>5. \A k \in Slots: slot'[k].rx = 0 => Lately(k)'
    BY JustFilled
  <2>6. \A k \in Slots: Kept(k)
    BY <2>3, <2>4, <2>5 DEF Kept
  <2>7. \A k \in Slots: known'[k] => slot'[k].rx <= cache'.age \/ ~shared
    <3> SUFFICES ASSUME NEW k \in Slots, known'[k], shared PROVE slot'[k].rx <= cache'.age
      OBVIOUS
    <3>1. slot'[k].rx = 0 /\ cache'.age = 0
      BY <1>7, <2>2
    <3> QED
      BY <3>1
  <2>8. shared => cache'.docs = Docs(ok)
    BY <1>7
  <2>9. \A k \in DOMAIN cache'.docs: k \in Steady => cache'.docs[k].ok
    BY <1>5, <1>7, <2>8 DEF HeldInv
  <2>10. DOMAIN got' = {}
    BY <1>7
  <2>12. \A k \in Slots: known'[k] => k \in Stamped
    BY <2>2
  <2>11. HeldInv'
    BY <1>3, <2>1, <2>4, <2>12, <2>5, <2>7, <2>8, <2>9, <2>10 DEF HeldInv
  <2> QED
    BY <2>6, <2>11
<1> QED
    BY <1>1, <1>2, <1>6, <1>7, FetchedFacts

LEMMA OtherKeepsHeld ==
    ASSUME FeedTyped, CycleClock, HeldInv, StartFetch \/ OtherStarts \/ OtherEnds
    PROVE  /\ HeldInv'
           /\ \A k \in Slots: Kept(k)
<1>0. /\ spent \in Nat /\ other \in Nat /\ theirs \in Nat /\ Interval \in Nat /\ Interval > 0
      /\ CacheTtl \in Nat /\ CacheTtl > 0 /\ CachedFor \in Nat
  <2>1. /\ spent \in Nat /\ other \in Nat /\ theirs \in Nat /\ Interval \in Nat /\ Interval > 0
        /\ CacheTtl \in Nat /\ CacheTtl > 0
    BY ClockNumbers
  <2> QED
    BY <2>1 DEF CachedFor
<1>1. slot' = slot /\ shared' = shared /\ got' = got
    BY DEF StartFetch, OtherStarts, OtherEnds
<1>2. \A k \in Slots: Held(k)' <=> Held(k)
    BY <1>1 DEF Held, Online
<1>3. \A k \in Slots: /\ slot[k].rx \in Nat /\ cache.age \in Nat
                      /\ (known[k] /\ shared /\ pc = "sleep" => slot[k].rx <= cache.age)
    BY AgeNumbers DEF HeldInv
<1>4. \A k \in Slots: (Held(k) => Lately(k)) /\ known[k] \in BOOLEAN
    BY DEF HeldInv, FeedTyped
<1>5. ASSUME NEW k \in Slots, Lately(k) PROVE Lately(k)'
  <2> DEFINE r == slot[k].rx
  <2>0. r \in Nat
    BY <1>3
  <2>1. CASE StartFetch
    <3>1. /\ spent' = 0 /\ pc' = "fetch" /\ pc = "sleep" /\ (shared => other = 0) /\ theirs' = theirs
      BY <2>1 DEF StartFetch, Wakes
    <3>2. ~shared => r <= Interval + 0
      BY <1>0, <1>5, <2>0, <3>1 DEF Lately
    <3>3. ASSUME shared PROVE r <= Interval + CachedFor + theirs + 0
      <4>1. IF known[k] THEN r <= CachedFor ELSE r <= Interval + CachedFor + theirs
        BY <1>5, <3>1, <3>3 DEF Lately
      <4> HIDE DEF r
      <4> QED
        BY <1>0, <2>0, <4>1
    <3> QED
      BY <1>1, <3>1, <3>2, <3>3 DEF Lately, CachedFor
  <2>2. CASE OtherStarts
    <3>1. /\ other = 0 /\ other' = 1 /\ UNCHANGED <<pc, spent, known, theirs>>
      BY <2>2 DEF OtherStarts
    <3>2. ASSUME shared, pc = "sleep", known[k] PROVE r <= CachedFor + 1 - 1
      <4>1. r <= CachedFor
        BY <1>5, <3>1, <3>2 DEF Lately
      <4> HIDE DEF r
      <4> QED
        BY <1>0, <2>0, <4>1
    <3> QED
      BY <1>1, <1>5, <3>1, <3>2 DEF Lately, CachedFor
  <2>3. CASE OtherEnds
    <3>1. /\ other > 0 /\ other' = 0 /\ shared /\ pc = "sleep" /\ UNCHANGED <<pc, spent>> /\ ~known'[k]
          /\ theirs <= theirs' /\ other - 1 <= theirs' /\ theirs' \in Nat
    <4>1. theirs' \in 0..LongestFetch
      BY <2>3, OtherEndsFacts
    <4>2. theirs' \in Nat
      BY <4>1, CostFacts
    <4> QED
      BY <2>3, <4>2, OtherEndsFacts
    <3>2. r <= spent + CachedFor + theirs' /\ r <= Interval + CachedFor + theirs'
      <4>1. /\ (~known[k] => r <= spent + CachedFor + theirs /\ r <= Interval + CachedFor + theirs)
            /\ (known[k] => r <= CachedFor + other - 1)
        BY <1>5, <3>1 DEF Lately
      <4> DEFINE t == theirs'
      <4>2. t \in Nat /\ theirs <= t /\ other - 1 <= t
        BY <3>1
      <4> HIDE DEF r, t
      <4>3. ASSUME known[k] PROVE r <= spent + CachedFor + t /\ r <= Interval + CachedFor + t
        <5>1. r <= CachedFor + t
          BY <1>0, <2>0, <4>1, <4>2, <4>3
        <5> QED
          BY <1>0, <2>0, <4>2, <5>1
      <4>4. ASSUME ~known[k] PROVE r <= spent + CachedFor + t /\ r <= Interval + CachedFor + t
        BY <1>0, <2>0, <4>1, <4>2, <4>4
      <4>5. r <= spent + CachedFor + t /\ r <= Interval + CachedFor + t
        BY <4>3, <4>4
      <4> QED
        BY <4>5 DEF t
    <3> QED
      BY <1>1, <3>1, <3>2 DEF Lately, CachedFor
  <2> QED
    BY <2>1, <2>2, <2>3
<1>6. \A k \in Slots: Kept(k)
    BY <1>2, <1>4, <1>5 DEF Kept
<1>7. shared' /\ pc' = "sleep" => \A k \in Slots: known'[k] => slot'[k].rx <= cache'.age
  <2>1. CASE StartFetch
    BY <2>1 DEF StartFetch
  <2>2. CASE OtherStarts
    <3>1. UNCHANGED <<shared, pc, known, cache>>
      BY <2>2 DEF OtherStarts
    <3> QED
      BY <1>1, <1>3, <3>1
  <2>3. CASE OtherEnds
    BY <2>3, OtherEndsFacts
  <2> QED
    BY <2>1, <2>2, <2>3
<1>8. \A k \in DOMAIN cache'.docs: k \in Steady => cache'.docs[k].ok
  <2>1. CASE OtherEnds
    BY <2>1, OtherEndsFacts
  <2>2. CASE StartFetch \/ OtherStarts
    BY <2>2 DEF StartFetch, OtherStarts, HeldInv
  <2> QED
    BY <2>1, <2>2
<1>9. shared' /\ cache'.docs = <<>> => \A k \in Slots: ~Held(k)
  <2>1. CASE OtherEnds
    <3>1. cache'.docs # <<>>
      BY <2>1, OtherEndsFacts, Timers DEF Slots
    <3> QED
      BY <3>1
  <2>2. CASE StartFetch \/ OtherStarts
    BY <2>2 DEF StartFetch, OtherStarts, HeldInv
  <2> QED
    BY <2>1, <2>2
<1>11. \A k \in Slots: known'[k] => k \in Stamped
    BY DEF StartFetch, OtherStarts, OtherEnds, HeldInv
<1>10. HeldInv'
    BY <1>1, <1>2, <1>4, <1>5, <1>7, <1>8, <1>9, <1>11 DEF HeldInv
<1> QED
    BY <1>6, <1>10

LEMMA TickKeepsHeld ==
    ASSUME FeedTyped, HeldInv, Tick
    PROVE  /\ HeldInv'
           /\ \A k \in Slots: Kept(k)
<1>1. /\ DOMAIN got' = DOMAIN got /\ \A k \in DOMAIN got: got'[k].ok = got[k].ok
      /\ Len(cache'.docs) = Len(cache.docs) /\ cache' \in [age: Ages, docs: Seq(Entry)]
      /\ cache'.age = Older(cache.age) /\ DOMAIN cache'.docs = DOMAIN cache.docs
      /\ \A k \in DOMAIN cache.docs: cache'.docs[k].ok = cache.docs[k].ok
      /\ \A k \in Slots: slot'[k].rx = Older(slot[k].rx) /\ slot'[k].engine = slot[k].engine
    BY TickFacts
<1>2. /\ spent' = spent + 1 /\ UNCHANGED <<shared, pc, known, theirs>>
      /\ (pc = "sleep" => spent < Interval)
      /\ other' = (IF other > 0 THEN other + 1 ELSE 0)
    BY DEF Tick
<1>3. /\ spent \in Nat /\ other \in Nat /\ theirs \in Nat /\ Interval \in Nat /\ CacheTtl \in Nat
      /\ OfflineAfter \in Nat /\ CacheTtl > 0
    BY ClockNumbers, Timers
<1>15. CachedFor \in Nat /\ CachedFor = Interval + CacheTtl - 1
    BY <1>3 DEF CachedFor
<1>4. \A a, b \in Nat: a <= Horizon /\ b <= Horizon =>
         Older(a) \in Nat /\ Older(a) <= a + 1 /\ a <= Older(a) /\ (a <= b => Older(a) <= Older(b))
    BY Timers DEF Older
<1>5. \A k \in Slots: slot[k].rx \in Nat /\ slot[k].rx <= Horizon
    BY AgeNumbers
<1>6. cache.age \in Nat /\ cache.age <= Horizon
    BY AgeNumbers
<1>7. ASSUME NEW k \in Slots, Held(k)' PROVE Held(k)
  <2> DEFINE r == slot[k].rx
  <2>1. slot'[k].rx = Older(r) /\ slot'[k].engine = slot[k].engine
        /\ r \in Nat /\ r <= Older(r) /\ Older(r) \in Nat
    BY <1>1, <1>4, <1>5
  <2>2. Older(r) < OfflineAfter => r < OfflineAfter
    <3> HIDE DEF r
    <3> QED
      BY <1>3, <2>1
  <2> QED
    BY <1>7, <2>1, <2>2 DEF Held, Online
<1>8. ASSUME NEW k \in Slots, Lately(k) PROVE Lately(k)'
  <2> DEFINE r == slot[k].rx   q == slot'[k].rx
  <2>1. r \in Nat /\ q \in Nat /\ q <= r + 1
    BY <1>1, <1>4, <1>5
  <2>2. /\ (~shared /\ pc = "sleep" => r <= spent)
        /\ (~shared /\ pc = "fetch" => r <= Interval + spent)
        /\ (shared /\ pc = "fetch" => r <= Interval + CachedFor + theirs + spent)
        /\ (shared /\ pc = "sleep" /\ ~known[k] => r <= spent + CachedFor + theirs)
        /\ (shared /\ pc = "sleep" /\ known[k] /\ other = 0 => r <= spent + CacheTtl - 1)
        /\ (shared /\ pc = "sleep" /\ known[k] /\ other > 0 => r <= CachedFor + other - 1)
    BY <1>8 DEF Lately
  <2> HIDE DEF r, q
  <2>3. /\ (r <= spent /\ pc = "sleep" => q <= spent' /\ q <= Interval)
        /\ (r <= Interval + spent => q <= Interval + spent')
    BY <1>2, <1>3, <2>1
  <2>4. r <= Interval + CachedFor + theirs + spent => q <= Interval + CachedFor + theirs + spent'
    BY <1>2, <1>3, <1>15, <2>1
  <2>5. r <= spent + CachedFor + theirs /\ pc = "sleep" =>
            q <= spent' + CachedFor + theirs /\ q <= Interval + CachedFor + theirs
    BY <1>2, <1>3, <1>15, <2>1
  <2>6. r <= spent + CacheTtl - 1 /\ pc = "sleep" => q <= spent' + CacheTtl - 1 /\ q <= CachedFor
    BY <1>2, <1>3, <1>15, <2>1
  <2>7. other > 0 /\ r <= CachedFor + other - 1 => q <= CachedFor + other' - 1
    BY <1>2, <1>3, <1>15, <2>1
  <2>8. (other' = 0 <=> other = 0) /\ (other' > 0 <=> other > 0)
    BY <1>2, <1>3
  <2>9. shared' = shared /\ pc' = pc /\ known'[k] = known[k] /\ theirs' = theirs
    BY <1>2
  <2>10. /\ (~shared' /\ pc' = "sleep" => q <= spent' /\ q <= Interval)
         /\ (~shared' /\ pc' = "fetch" => q <= Interval + spent')
         /\ (shared' /\ pc' = "fetch" => q <= Interval + CachedFor + theirs' + spent')
    BY <2>2, <2>3, <2>4, <2>9
  <2>11. /\ (shared' /\ pc' = "sleep" /\ ~known'[k] => /\ q <= spent' + CachedFor + theirs'
                                                    /\ q <= Interval + CachedFor + theirs')
         /\ (shared' /\ pc' = "sleep" /\ known'[k] /\ other' = 0 => /\ q <= spent' + CacheTtl - 1
                                                                 /\ q <= CachedFor)
         /\ (shared' /\ pc' = "sleep" /\ known'[k] /\ other' > 0 => q <= CachedFor + other' - 1)
    BY <2>2, <2>5, <2>6, <2>7, <2>8, <2>9
  <2> QED
    BY <2>10, <2>11 DEF Lately, CachedFor, q
<1>9. \A k \in Slots: Kept(k)
    BY <1>7, <1>8 DEF Kept, HeldInv
<1>10. \A k \in Slots: Held(k)' => Lately(k)'
    BY <1>7, <1>8 DEF HeldInv
<1>11. shared' /\ pc' = "sleep" => \A k \in Slots: known'[k] => slot'[k].rx <= cache'.age
  <2> SUFFICES ASSUME shared, pc = "sleep", NEW k \in Slots, known[k]
               PROVE  slot'[k].rx <= cache'.age
    BY <1>2
  <2>1. slot[k].rx <= cache.age
    BY DEF HeldInv
  <2> QED
    BY <1>1, <1>4, <1>5, <1>6, <2>1
<1>12. shared' /\ cache'.docs = <<>> => \A k \in Slots: ~Held(k)'
  <2>1. cache'.docs = <<>> => cache.docs = <<>>
    BY <1>1, EmptySeq DEF FeedTyped
  <2> QED
    BY <1>2, <1>7, <2>1 DEF HeldInv
<1>13. \A k \in DOMAIN got': k \in Steady => got'[k].ok
    BY <1>1 DEF HeldInv
<1>14. \A k \in DOMAIN cache'.docs: k \in Steady => cache'.docs[k].ok
    BY <1>1 DEF HeldInv
<1>16. \A k \in Slots: known'[k] => k \in Stamped
    BY <1>2 DEF HeldInv
<1> QED
    BY <1>9, <1>10, <1>11, <1>12, <1>13, <1>14, <1>16 DEF HeldInv

LEMMA HeldInvNext ==
    ASSUME FeedTyped, FeedTyped', CycleClock, HeldInv, [Next]_vars
    PROVE  /\ HeldInv'
           /\ \A k \in Slots: Kept(k)
<1>1. CASE UNCHANGED vars
  <2>1. \A k \in Slots: (Held(k)' <=> Held(k)) /\ (Lately(k)' <=> Lately(k))
    BY <1>1 DEF vars, Held, Online, Lately
  <2> QED
    BY <1>1, <2>1 DEF vars, HeldInv, Kept
<1> QED
    BY <1>1, CacheKeepsHeld, FetchKeepsHeld, OtherKeepsHeld, TickKeepsHeld DEF Next, Cycle

(* A slot lately filled is one of an online node, if the waiting keeps     *)
(* within what the offline limit leaves for it.                            *)
LatelyMeansOnline == KeepsUp => \A k \in Slots: Lately(k) => Online(k)

LEMMA LatelyIsOnline == FeedTyped => LatelyMeansOnline
<1> SUFFICES ASSUME FeedTyped, KeepsUp, NEW k \in Slots, Lately(k)
             PROVE  Online(k)
    BY DEF LatelyMeansOnline
<1> DEFINE r == slot[k].rx
<1>1. /\ r \in Nat /\ spent \in Nat /\ other \in Nat /\ theirs \in Nat /\ Interval \in Nat
      /\ CacheTtl \in Nat /\ OfflineAfter \in Nat /\ CacheTtl > 0 /\ Interval > 0
    BY AgeNumbers, ClockNumbers, Timers
<1>2. pc \in {"sleep", "fetch"} /\ shared \in BOOLEAN /\ known[k] \in BOOLEAN
    BY DEF FeedTyped
<1>3. CASE ~shared
  <2>1. theirs + other + (IF pc = "fetch" THEN spent ELSE 0) + Interval < OfflineAfter
    BY <1>3 DEF KeepsUp, Waited
  <2>2. IF pc = "fetch" THEN r <= Interval + spent ELSE r <= Interval
    BY <1>2, <1>3 DEF Lately
  <2>3. r < OfflineAfter
    <3> HIDE DEF r
    <3> QED
      BY <1>1, <2>1, <2>2
  <2> QED
    BY <2>3 DEF Online
<1>4. CASE shared
  <2>1. theirs + other + (IF pc = "fetch" THEN spent ELSE 0) + (2 * Interval + CacheTtl - 1) < OfflineAfter
    BY <1>4 DEF KeepsUp, Waited
  <2>2. \/ pc = "fetch" /\ r <= Interval + CachedFor + theirs + spent
        \/ r <= Interval + CachedFor + theirs
        \/ r <= CachedFor
        \/ other > 0 /\ r <= CachedFor + other - 1
    <3>1. other = 0 \/ other > 0
      BY <1>1
    <3> QED
      BY <1>2, <1>4, <3>1 DEF Lately
  <2>3. r < OfflineAfter
    <3>1. CachedFor = Interval + CacheTtl - 1
      BY DEF CachedFor
    <3> HIDE DEF r
    <3>2. CASE pc = "fetch"
      <4>1. theirs + other + spent + (2 * Interval + CacheTtl - 1) < OfflineAfter
        BY <2>1, <3>2
      <4> QED
        BY <1>1, <2>2, <3>1, <4>1
    <3>3. CASE pc # "fetch"
      <4>1. theirs + other + 0 + (2 * Interval + CacheTtl - 1) < OfflineAfter
        BY <2>1, <3>3
      <4> QED
        BY <1>1, <2>2, <3>1, <3>3, <4>1
    <3> QED
      BY <3>2, <3>3
  <2> QED
    BY <2>3 DEF Online
<1> QED
    BY <1>2, <1>3, <1>4

FeedInv == FeedTyped /\ CycleClock /\ HeldInv

LEMMA FeedInvHolds == Spec => []FeedInv
<1>1. Init => FeedInv
    BY FeedTypedInit, CycleClockInit, HeldInvInit DEF FeedInv
<1>2. FeedInv /\ [Next]_vars => FeedInv'
    BY FeedTypedNext, CycleClockNext, HeldInvNext DEF FeedInv
<1> QED
    BY <1>1, <1>2, PTL DEF Spec

(* apply_value, mark_unreachable and warnings: as long as the waiting      *)
(* keeps within what OFFLINE_AFTER_S leaves for it, the engine values at   *)
(* hand are of a node that snapshot shows as online.                       *)
THEOREM EnginesAreOnline == Spec => []EngineIsOnline
<1>1. FeedInv => EngineIsOnline
  <2> SUFFICES ASSUME FeedInv, KeepsUp, NEW k \in Slots, slot[k].engine PROVE Online(k)
    BY DEF EngineIsOnline
  <2>1. Lately(k)
    BY DEF FeedInv, HeldInv, Held
  <2> QED
    BY <2>1, LatelyIsOnline DEF FeedInv, LatelyMeansOnline
<1> QED
    BY <1>1, FeedInvHolds, PTL

(* refresh_loop, fetch_document, the cache and snapshot together: a node   *)
(* whose agent answers does not turn offline for the sake of the others.   *)
THEOREM SteadyStaysOnline == Spec => AnsweringStaysOnline
<1> DEFINE Stays == \A k \in Steady: Online(k) /\ KeepsUp' => Online(k)'
<1>1. ASSUME FeedInv, FeedInv', [Next]_vars PROVE Stays
  <2> SUFFICES ASSUME NEW k \in Steady, Online(k), KeepsUp' PROVE Online(k)'
    OBVIOUS
  <2>1. k \in Slots
    BY FeedAssumption
  <2>2. Lately(k)'
    BY <1>1, <2>1, HeldInvNext DEF FeedInv, Kept, Held
  <2>3. FeedTyped' => LatelyMeansOnline'
    BY LatelyIsOnline, PTL
  <2> QED
    BY <1>1, <2>1, <2>2, <2>3 DEF FeedInv, LatelyMeansOnline
<1>2. FeedInv /\ FeedInv' /\ [Next]_vars => [Stays]_vars
    BY <1>1
<1> QED
    BY <1>2, FeedInvHolds, PTL DEF Spec, AnsweringStaysOnline

-----------------------------------------------------------------------------
(* LlmScrape: what scraper and discovery keep has its type, and what is    *)
(* shown is recent, or was asked for only recently.                        *)

(* What lies behind ScrapeTypeOK: a round of Discovery has found no more   *)
(* than it has looked at, a GET goes to a port, and without demand nothing *)
(* is counted.                                                             *)
ScrapeTyped ==
    /\ configured \in 0..Ports /\ program \in [PortNumbers -> Programs]
    /\ wanted \in BOOLEAN /\ watched \in StateAges
    /\ (~wanted => watched = 0)
    /\ pauses \in 0..MaxPauses /\ changes \in 0..MaxChanges
    /\ url \in 0..Ports
    /\ scraper \in [at: {"sleep", "get"}, left: Nat, port: 0..Ports]
    /\ scraper.left <= IF scraper.at = "sleep" THEN ScrapePause ELSE LongestGet
    /\ previous \in 0..Ports
    /\ state \in State
    /\ disc \in [at: {"scan", "store"}, next: 1..Ports + 1, found: Seq(Engine)]
    /\ Len(disc.found) < disc.next
    /\ engines \in Seq(Engine) /\ Len(engines) <= Ports

(* The collector's clock.  While it has previous values, their age and the *)
(* rest of its pause or GET are together no more than the pause, or the    *)
(* pause and a GET.  The same holds at any time of the age of the state or *)
(* of the time that somebody has watched.                                  *)
ScrapeLimit == IF scraper.at = "sleep" THEN ScrapePause ELSE Recent

ScrapeClock ==
    /\ (previous # 0 => state.age + scraper.left <= ScrapeLimit)
    /\ (state.age + scraper.left <= ScrapeLimit \/ watched + scraper.left <= ScrapeLimit)
    /\ (state.rate # "none" => state.span <= Recent)

LEMMA ScrapeTypedInit == ScrapeInit => ScrapeTyped
<1> SUFFICES ASSUME ScrapeInit PROVE ScrapeTyped
    OBVIOUS
<1>1. <<>> \in Seq(Engine) /\ Len(<<>>) = 0
    OBVIOUS
<1>2. disc \in [at: {"scan", "store"}, next: 1..Ports + 1, found: Seq(Engine)]
      /\ Len(disc.found) < disc.next
    BY <1>1, ScrapeAssumption DEF ScrapeInit
<1>3. state \in State
  <2>1. Unavailable \in State /\ Recent + 1 \in StateAges
    BY ScrapeAssumption DEF Unavailable, State, StateAges, Recent
  <2>2. state = [Unavailable EXCEPT !.age = Recent + 1]
    BY DEF ScrapeInit
  <2> QED
    BY <2>1, <2>2 DEF State
<1>4. 0 \in StateAges /\ 0 \in 0..MaxPauses /\ 0 \in 0..MaxChanges /\ 0 \in 0..Ports /\ 0 <= ScrapePause
    BY ScrapeAssumption DEF StateAges, Recent
<1>5. /\ scraper \in [at: {"sleep", "get"}, left: Nat, port: 0..Ports]
      /\ scraper.left <= IF scraper.at = "sleep" THEN ScrapePause ELSE LongestGet
    BY <1>4 DEF ScrapeInit
<1>6. Len(engines) <= Ports /\ engines \in Seq(Engine)
    BY <1>1, ScrapeAssumption DEF ScrapeInit
<1>7. url \in 0..Ports
    BY ScrapeAssumption DEF ScrapeInit
<1> QED
    BY <1>2, <1>3, <1>4, <1>5, <1>6, <1>7 DEF ScrapeInit, ScrapeTyped

(* Discovery finds engines: one more with each port, at most one per port. *)
LEMMA FoundIsTyped ==
    ASSUME ScrapeTyped, NEW p \in PortNumbers, NEW metrics \in BOOLEAN
    PROVE  /\ Found(p, metrics) \in Seq(Engine)
           /\ Len(Found(p, metrics)) = Len(disc.found) + 1
<1>1. [port |-> p, metrics |-> metrics] \in Engine
    BY DEF Engine
<1> QED
    BY <1>1, AppendProperties DEF ScrapeTyped, Found

LEMMA AllFoundIsTyped ==
    ASSUME ScrapeTyped, disc.next > Ports
    PROVE  AllFound \in Seq(Engine) /\ Len(AllFound) <= Ports
<1>1. Ports \in Nat \ {0} /\ configured \in 0..Ports
    BY ScrapeAssumption DEF ScrapeTyped
<1>2. disc.found \in Seq(Engine) /\ Len(disc.found) \in Nat
    BY DEF ScrapeTyped
<1>3. Len(disc.found) <= Ports
    BY <1>1, <1>2 DEF ScrapeTyped
<1>4. CASE disc.found = <<>> /\ configured # 0 /\ program[configured] # "off"
  <2>1. configured \in PortNumbers
    BY <1>1, <1>4 DEF PortNumbers
  <2>2. Found(configured, TRUE) \in Seq(Engine) /\ Len(Found(configured, TRUE)) = Len(disc.found) + 1
    BY <2>1, FoundIsTyped
  <2>3. Len(disc.found) = 0
    BY <1>4
  <2>4. AllFound = Found(configured, TRUE)
    BY <1>4 DEF AllFound
  <2>5. Len(AllFound) <= Ports
    <3> DEFINE n == Len(disc.found)   m == Len(AllFound)
    <3>1. m = n + 1 /\ n = 0
      BY <2>2, <2>3, <2>4
    <3> HIDE DEF n, m
    <3>2. m <= Ports
      BY <1>1, <3>1
    <3> QED
      BY <3>2 DEF m
  <2> QED
    BY <2>2, <2>4, <2>5
<1>5. CASE ~(disc.found = <<>> /\ configured # 0 /\ program[configured] # "off")
    BY <1>2, <1>3, <1>5 DEF AllFound
<1> QED
    BY <1>4, <1>5

LEMMA CollectKeepsTyped ==
    ASSUME ScrapeTyped, Collect \/ CollectorTick
    PROVE  ScrapeTyped'
<1> USE ScrapeAssumption
<1>1. ASSUME Park PROVE ScrapeTyped'
  <2>1. scraper' \in [at: {"sleep", "get"}, left: Nat, port: 0..Ports] /\ scraper'.at = "sleep"
        /\ scraper'.left = 1
    BY <1>1 DEF Park, Due, ScrapeTyped, ParkPause
  <2>2. scraper'.left <= IF scraper'.at = "sleep" THEN ScrapePause ELSE LongestGet
    BY <2>1
  <2>3. /\ UNCHANGED <<configured, program, wanted, pauses, changes, watched, url, state, disc, engines>>
        /\ previous' \in 0..Ports
    BY <1>1 DEF Park, world
  <2> QED
    BY <2>1, <2>2, <2>3 DEF ScrapeTyped
<1>2. ASSUME StartGet PROVE ScrapeTyped'
  <2>1. scraper' = [at |-> "get", left |-> LongestGet, port |-> url]
    BY <1>2 DEF StartGet
  <2>2. scraper' \in [at: {"sleep", "get"}, left: Nat, port: 0..Ports]
    BY <2>1 DEF ScrapeTyped
  <2> QED
    BY <1>2, <2>1, <2>2 DEF StartGet, world, ScrapeTyped
<1>3. ASSUME GetWell PROVE ScrapeTyped'
  <2>1. state.age \in StateAges /\ scraper.port \in 0..Ports
    BY DEF ScrapeTyped, State
  <2>2. 0 \in StateAges
    BY DEF StateAges, Recent
  <2>3. \A p \in 0..Ports: Derived(p) \in State
    BY <2>1, <2>2 DEF Derived, State
  <2>4. state' \in State
    BY <1>3, <2>1, <2>3 DEF GetWell
  <2> QED
    BY <1>3, <2>1, <2>4 DEF GetWell, world, ScrapeTyped
<1>4. ASSUME GetFails PROVE ScrapeTyped'
  <2>1. state' \in State
    BY <1>4 DEF GetFails, Unavailable, State, StateAges, Recent
  <2> QED
    BY <1>4, <2>1 DEF GetFails, world, ScrapeTyped
<1>6. ASSUME NoUrl PROVE ScrapeTyped'
  <2>1. state' \in State
    BY <1>6 DEF NoUrl, Unavailable, State, StateAges, Recent
  <2>2. scraper' \in [at: {"sleep", "get"}, left: Nat, port: 0..Ports] /\ scraper'.at = "sleep"
        /\ scraper'.left = 1
    BY <1>6 DEF NoUrl, Due, ScrapeTyped, ParkPause
  <2>3. scraper'.left <= IF scraper'.at = "sleep" THEN ScrapePause ELSE LongestGet
    BY <2>2
  <2> QED
    BY <1>6, <2>1, <2>2, <2>3 DEF NoUrl, world, ScrapeTyped
<1>5. ASSUME CollectorTick PROVE ScrapeTyped'
  <2>1. \A age \in StateAges: Aged(age) \in StateAges
    BY DEF StateAges, Aged, Recent
  <2>2. 0 \in StateAges
    BY DEF StateAges, Recent
  <2>3. state' \in State
    BY <1>5, <2>1 DEF CollectorTick, ScrapeTyped, State
  <2>4. watched' \in StateAges /\ (~wanted => watched' = 0)
    BY <1>5, <2>1, <2>2 DEF CollectorTick, ScrapeTyped
  <2>5. scraper' \in [at: {"sleep", "get"}, left: Nat, port: 0..Ports] /\ scraper'.at = scraper.at
        /\ scraper'.left <= scraper.left /\ scraper'.left \in Nat /\ scraper.left \in Nat
    <3>1. /\ scraper \in [at: {"sleep", "get"}, left: Nat, port: 0..Ports]
          /\ scraper' = [scraper EXCEPT !.left = scraper.left - 1]
      BY <1>5 DEF CollectorTick, ScrapeTyped
    <3>2. scraper.left \in Nat /\ scraper.left - 1 \in Nat
      BY <1>5, <3>1 DEF CollectorTick
    <3> QED
      BY <3>1, <3>2
  <2> QED
    <3>1. scraper'.left <= IF scraper'.at = "sleep" THEN ScrapePause ELSE LongestGet
      BY <2>5 DEF ScrapeTyped
    <3> QED
      BY <1>5, <2>3, <2>4, <2>5, <3>1 DEF CollectorTick, world, ScrapeTyped
<1> QED
    BY <1>1, <1>2, <1>3, <1>4, <1>6, <1>5 DEF Collect

LEMMA DiscoverKeepsTyped ==
    ASSUME ScrapeTyped, Discover
    PROVE  ScrapeTyped'
<1>0. Ports \in Nat \ {0}
    BY ScrapeAssumption
<1>1. ASSUME ScanPort PROVE ScrapeTyped'
  <2> DEFINE found == IF program[disc.next] \in {"vllm", "busy", "ollama"}
                      THEN Found(disc.next, program[disc.next] # "ollama") ELSE disc.found
  <2>1. disc.next \in PortNumbers /\ disc.found \in Seq(Engine) /\ Len(disc.found) \in Nat
    BY <1>1 DEF ScanPort, ScrapeTyped
  <2>2. found \in Seq(Engine) /\ Len(found) <= Len(disc.found) + 1
    <3>1. (program[disc.next] # "ollama") \in BOOLEAN
      OBVIOUS
    <3>2. /\ Found(disc.next, program[disc.next] # "ollama") \in Seq(Engine)
          /\ Len(Found(disc.next, program[disc.next] # "ollama")) = Len(disc.found) + 1
      BY <2>1, <3>1, FoundIsTyped
    <3> QED
      BY <2>1, <3>2
  <2>3. Len(found) \in Nat
    BY <2>2
  <2>4. disc' = [disc EXCEPT !.next = @ + 1, !.found = found]
    BY <1>1 DEF ScanPort
  <2> HIDE DEF found
  <2>5. disc' \in [at: {"scan", "store"}, next: 1..Ports + 1, found: Seq(Engine)]
        /\ disc'.found = found /\ disc'.next = disc.next + 1
    <3>1. disc.next + 1 \in 1..Ports + 1
      BY <1>0, <2>1 DEF PortNumbers
    <3> QED
      BY <2>2, <2>4, <3>1 DEF ScrapeTyped
  <2>6. Len(disc'.found) < disc'.next
    BY <1>0, <2>1, <2>2, <2>3, <2>5 DEF ScrapeTyped, PortNumbers
  <2> QED
    BY <1>1, <2>5, <2>6 DEF ScanPort, world, ScrapeTyped
<1>2. ASSUME ScanBusyPort PROVE ScrapeTyped'
  <2>1. disc.next \in PortNumbers /\ disc.found \in Seq(Engine) /\ Len(disc.found) \in Nat
    BY <1>2 DEF ScanBusyPort, ScrapeTyped
  <2>2. Found(disc.next, FALSE) \in Seq(Engine) /\ Len(Found(disc.next, FALSE)) = Len(disc.found) + 1
    BY <2>1, FoundIsTyped
  <2>3. PICK found \in {disc.found, Found(disc.next, FALSE)}:
             disc' = [disc EXCEPT !.next = @ + 1, !.found = found]
    BY <1>2 DEF ScanBusyPort
  <2>4. found \in Seq(Engine) /\ Len(found) <= Len(disc.found) + 1 /\ Len(found) \in Nat
    <3>1. CASE found = disc.found
      BY <2>1, <3>1
    <3>2. CASE found = Found(disc.next, FALSE)
      <4> DEFINE n == Len(disc.found)   m == Len(found)
      <4>1. m = n + 1 /\ n \in Nat
        BY <2>1, <2>2, <3>2
      <4> HIDE DEF n, m
      <4>2. m <= n + 1 /\ m \in Nat
        BY <4>1
      <4> QED
        BY <2>2, <3>2, <4>2 DEF n, m
    <3> QED
      BY <2>3, <3>1, <3>2
  <2>5. disc' \in [at: {"scan", "store"}, next: 1..Ports + 1, found: Seq(Engine)]
        /\ disc'.found = found /\ disc'.next = disc.next + 1
    <3>1. disc.next + 1 \in 1..Ports + 1
      BY <1>0, <2>1 DEF PortNumbers
    <3> QED
      BY <2>3, <2>4, <3>1 DEF ScrapeTyped
  <2>6. Len(disc'.found) < disc'.next
    BY <1>0, <2>1, <2>4, <2>5 DEF ScrapeTyped, PortNumbers
  <2> QED
    BY <1>2, <2>5, <2>6 DEF ScanBusyPort, world, ScrapeTyped
<1>3. ASSUME SetPrimary PROVE ScrapeTyped'
  <2>1. AllFound \in Seq(Engine) /\ Len(AllFound) <= Ports /\ Len(AllFound) \in Nat
    BY <1>3, AllFoundIsTyped DEF SetPrimary
  <2>2. \A k \in DOMAIN AllFound: AllFound[k].port \in PortNumbers
    <3>1. \A k \in 1..Len(AllFound): AllFound[k] \in Engine
      BY <2>1, ElementOfSeq
    <3>2. DOMAIN AllFound = 1..Len(AllFound)
      BY <2>1, LenProperties
    <3> QED
      BY <3>1, <3>2 DEF Engine
  <2>3. url' \in 0..Ports
    BY <1>0, <1>3, <2>2 DEF SetPrimary, WithMetrics, ScrapeTyped, PortNumbers
  <2>4. disc' \in [at: {"scan", "store"}, next: 1..Ports + 1, found: Seq(Engine)]
        /\ disc'.found = AllFound /\ disc'.next = disc.next
    BY <1>3, <2>1 DEF SetPrimary, ScrapeTyped
  <2>5. Len(disc'.found) < disc'.next
    BY <1>0, <1>3, <2>1, <2>4 DEF SetPrimary, ScrapeTyped
  <2> QED
    BY <1>3, <2>3, <2>4, <2>5 DEF SetPrimary, world, ScrapeTyped
<1>4. ASSUME Store PROVE ScrapeTyped'
  <2>1. <<>> \in Seq(Engine) /\ Len(<<>>) = 0
    OBVIOUS
  <2>2. disc' \in [at: {"scan", "store"}, next: 1..Ports + 1, found: Seq(Engine)]
        /\ Len(disc'.found) < disc'.next
    BY <1>0, <1>4, <2>1 DEF Store
  <2>3. engines' \in Seq(Engine) /\ Len(engines') <= Ports
    BY <1>0, <1>4 DEF Store, ScrapeTyped
  <2> QED
    BY <1>4, <2>2, <2>3 DEF Store, world, ScrapeTyped
<1> QED
    BY <1>1, <1>2, <1>3, <1>4 DEF Discover

LEMMA ScrapeTypedNext == ScrapeTyped /\ [ScrapeNext]_scrapeVars => ScrapeTyped'
<1> SUFFICES ASSUME ScrapeTyped, [ScrapeNext]_scrapeVars PROVE ScrapeTyped'
    OBVIOUS
<1>1. ASSUME ChangeDemand PROVE ScrapeTyped'
  <2>1. watched' \in StateAges /\ watched' = 0 /\ wanted' \in BOOLEAN
    BY <1>1, ScrapeAssumption DEF ChangeDemand, ScrapeTyped, StateAges, Recent
  <2>2. pauses' \in 0..MaxPauses
    BY <1>1, ScrapeAssumption DEF ChangeDemand, ScrapeTyped
  <2> QED
    BY <1>1, <2>1, <2>2 DEF ChangeDemand, ScrapeTyped
<1>2. ASSUME NEW p \in PortNumbers, ChangeProgram(p) PROVE ScrapeTyped'
  <2>1. changes' \in 0..MaxChanges
    BY <1>2, ScrapeAssumption DEF ChangeProgram, ScrapeTyped
  <2>2. program' \in [PortNumbers -> Programs]
    BY <1>2, ScrapeAssumption DEF ChangeProgram, ScrapeTyped
  <2> QED
    BY <1>2, <2>1, <2>2 DEF ChangeProgram, ScrapeTyped
<1>3. ASSUME UNCHANGED scrapeVars PROVE ScrapeTyped'
    BY <1>3 DEF scrapeVars, world, ScrapeTyped
<1> QED
    BY <1>1, <1>2, <1>3, CollectKeepsTyped, DiscoverKeepsTyped DEF ScrapeNext

(* Type correctness of LlmCollector, of Discovery and of what they share.  *)
THEOREM ScrapeTypeCorrect == ScrapeSpec => []ScrapeTypeOK
<1>1. ScrapeTyped => ScrapeTypeOK
    BY ScrapeAssumption DEF ScrapeTyped, ScrapeTypeOK, Recent, ParkPause
<1> QED
    BY <1>1, ScrapeTypedInit, ScrapeTypedNext, PTL DEF ScrapeSpec

-----------------------------------------------------------------------------
LEMMA ScrapeClockInit == ScrapeInit => ScrapeClock
    BY ScrapeAssumption DEF ScrapeInit, Unavailable, ScrapeClock, ScrapeLimit

(* What the clock is made of, as numbers.                                  *)
LEMMA ClockIsOfNumbers ==
    ASSUME ScrapeTyped
    PROVE  /\ state.age \in Nat /\ state.span \in Nat /\ watched \in Nat /\ scraper.left \in Nat
           /\ ScrapePause \in Nat \ {0} /\ LongestGet \in Nat /\ Recent = ScrapePause + LongestGet
           /\ scraper.at \in {"sleep", "get"}
<1>1. /\ state.age \in StateAges /\ state.span \in StateAges /\ watched \in StateAges
      /\ scraper.left \in Nat /\ scraper.at \in {"sleep", "get"}
    BY DEF ScrapeTyped, State
<1> QED
    BY <1>1, ScrapeAssumption DEF StateAges, Recent

LEMMA ScrapeClockNext == ScrapeTyped /\ ScrapeClock /\ [ScrapeNext]_scrapeVars => ScrapeClock'
<1> SUFFICES ASSUME ScrapeTyped, ScrapeClock, [ScrapeNext]_scrapeVars PROVE ScrapeClock'
    OBVIOUS
<1>0. /\ state.age \in Nat /\ state.span \in Nat /\ watched \in Nat /\ scraper.left \in Nat
      /\ ScrapePause \in Nat \ {0} /\ LongestGet \in Nat /\ Recent = ScrapePause + LongestGet
      /\ scraper.at \in {"sleep", "get"}
    BY ClockIsOfNumbers
<1>1. ASSUME ChangeDemand PROVE ScrapeClock'
    BY <1>0, <1>1 DEF ChangeDemand, ScrapeClock, ScrapeLimit, ScrapeTyped
<1>2. ASSUME NEW p \in PortNumbers, ChangeProgram(p) PROVE ScrapeClock'
    BY <1>2 DEF ChangeProgram, ScrapeClock, ScrapeLimit
<1>3. ASSUME Park PROVE ScrapeClock'
  <2>1. scraper' = [scraper EXCEPT !.left = 1] /\ scraper \in [at: {"sleep", "get"}, left: Nat, port: 0..Ports]
    BY <1>3 DEF Park, ParkPause, ScrapeTyped
  <2>2. scraper'.left = 1 /\ scraper'.at = "sleep" /\ watched' = 0
    BY <1>3, <2>1 DEF Park, Due, ScrapeTyped
  <2> QED
    BY <1>0, <1>3, <2>2 DEF Park, ScrapeClock, ScrapeLimit
<1>4. ASSUME StartGet PROVE ScrapeClock'
    BY <1>0, <1>4 DEF StartGet, Due, ScrapeClock, ScrapeLimit
<1>5. ASSUME GetWell PROVE ScrapeClock'
  <2>1. /\ state'.age = 0 /\ scraper'.left = ScrapePause /\ scraper'.at = "sleep"
        /\ state'.rate # "none" => previous # 0 /\ state'.span = state.age
    BY <1>5 DEF GetWell, Derived
  <2>2. previous # 0 => state.age <= Recent
    BY <1>0 DEF ScrapeClock, ScrapeLimit
  <2> QED
    BY <1>0, <2>1, <2>2 DEF ScrapeClock, ScrapeLimit
<1>6. ASSUME GetFails PROVE ScrapeClock'
    BY <1>0, <1>6 DEF GetFails, Unavailable, ScrapeClock, ScrapeLimit
<1>7. ASSUME CollectorTick PROVE ScrapeClock'
  <2>1. /\ scraper'.left = scraper.left - 1 /\ scraper'.at = scraper.at
        /\ state'.age = Aged(state.age) /\ state'.rate = state.rate /\ state'.span = state.span
    BY <1>7 DEF CollectorTick, ScrapeTyped, State
  <2>2. Aged(state.age) \in Nat /\ Aged(state.age) <= state.age + 1
    BY <1>0 DEF Aged
  <2>3. watched' \in Nat /\ watched' <= watched + 1
    BY <1>0, <1>7 DEF CollectorTick, Aged
  <2>4. scraper.left > 0 /\ previous' = previous
    BY <1>7 DEF CollectorTick
  <2> QED
    BY <1>0, <2>1, <2>2, <2>3, <2>4 DEF ScrapeClock, ScrapeLimit
<1>8. ASSUME NoUrl PROVE ScrapeClock'
  <2>1. scraper' = [scraper EXCEPT !.left = 1] /\ scraper \in [at: {"sleep", "get"}, left: Nat, port: 0..Ports]
    BY <1>8 DEF NoUrl, ParkPause, ScrapeTyped
  <2>2. scraper'.left = 1 /\ scraper'.at = "sleep"
    BY <1>8, <2>1 DEF NoUrl, Due
  <2>3. state'.age = 0 /\ state'.rate = "none"
    BY <1>8 DEF NoUrl, Unavailable
  <2> QED
    BY <1>0, <2>2, <2>3 DEF ScrapeClock, ScrapeLimit
<1>9. ASSUME ScanPort \/ ScanBusyPort \/ SetPrimary \/ Store \/ UNCHANGED scrapeVars
      PROVE  ScrapeClock'
    BY <1>9 DEF ScanPort, ScanBusyPort, SetPrimary, Store, scrapeVars, ScrapeClock, ScrapeLimit
<1> QED
    BY <1>1, <1>2, <1>3, <1>4, <1>5, <1>6, <1>7, <1>8, <1>9 DEF ScrapeNext, Collect, Discover

(* LlmCollector::start: a rate never averages over a pause, and whoever    *)
(* has watched for longer than a pause and a GET is shown a state that is  *)
(* no older, whether the values come from a GET, or a GET has failed.      *)
THEOREM StatesAreRecent == ScrapeSpec => []StateIsRecent
<1>1. ScrapeTyped /\ ScrapeClock => StateIsRecent
  <2> SUFFICES ASSUME ScrapeTyped, ScrapeClock PROVE StateIsRecent
    OBVIOUS
  <2> QED
    BY ClockIsOfNumbers DEF ScrapeClock, ScrapeLimit, StateIsRecent
<1> QED
    BY <1>1, ScrapeTypedInit, ScrapeTypedNext, ScrapeClockInit, ScrapeClockNext, PTL
       DEF ScrapeSpec

-----------------------------------------------------------------------------
(* A behaviour of MCFeed is one of both of its modules, so that what is    *)
(* proved of the scraper and of the view holds where both run.             *)
THEOREM FeedBehaves == MCSpec => Spec /\ ScrapeSpec
<1>1. MCInit => Init /\ ScrapeInit
    BY DEF MCInit
<1>2. [MCNext]_allVars => [Next]_vars /\ [ScrapeNext]_scrapeVars
    BY DEF MCNext, ScraperStep, FeedStep, allVars
<1> QED
    BY <1>1, <1>2, PTL DEF MCSpec, Spec, ScrapeSpec
=============================================================================
