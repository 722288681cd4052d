--------------------------- MODULE SamplersProofs ---------------------------
(***************************************************************************)
(* Proofs about the three samplers: GpuRounds for any number of cards,     *)
(* ProcScan for any processes and cores, LocalSensors for any counters.    *)
(***************************************************************************)
EXTENDS GpuRounds, ProcScan, LocalSensors, SequenceTheorems, FiniteSetTheorems,
        WellFoundedInduction, TLAPS

(* Every nonempty set of naturals has a least element.                     *)
LEMMA LeastElement ==
    ASSUME NEW T \in SUBSET Nat, T # {}
    PROVE  \E m \in T: \A u \in T: m <= u
<1> DEFINE Less == OpToRel(<, Nat)
<1>1. PICK m \in T: \A u \in T: <<u, m>> \notin Less
  <2>1. IsWellFoundedOn(Less, Nat)
    BY NatLessThanWellFounded
  <2> HIDE DEF Less
  <2>2. QED
    BY <2>1, WFMin
<1>2. ASSUME NEW u \in T, u < m PROVE <<u, m>> \in Less
  BY <1>2 DEF OpToRel
<1>3. \A u \in T: ~(u < m)
  BY <1>1, <1>2
<1>4. QED
  BY <1>3

-----------------------------------------------------------------------------
(* GpuRounds: the cards of a round come in order until a line is lost, and *)
(* no published card is busier than the published utilization.             *)

(* The maximum finish_round computes exists.                               *)
LEMMA PeakFacts ==
    ASSUME NEW before \in 0..MaxLoad, NEW cards \in Seq(GpuEntry)
    PROVE  /\ Peak(before, cards) \in 0..MaxLoad
           /\ before <= Peak(before, cards)
           /\ \A k \in DOMAIN cards: cards[k].util <= Peak(before, cards)
<1> DEFINE Values == {before} \union {cards[k].util : k \in DOMAIN cards}
           Bounds == {u \in 0..MaxLoad : \A v \in Values: v <= u}
<1>1. MaxLoad \in Nat
  BY CardsAssumption
<1>2. ASSUME NEW k \in DOMAIN cards PROVE cards[k].util \in 0..MaxLoad
  <2>1. cards[k] \in GpuEntry
    OBVIOUS
  <2>2. QED
    BY <2>1 DEF GpuEntry
<1>3. Values \subseteq 0..MaxLoad
  BY <1>2
<1>4. MaxLoad \in Bounds /\ Bounds \in SUBSET Nat
  BY <1>1, <1>3
<1>5. PICK m \in Bounds: \A u \in Bounds: m <= u
  BY <1>4, LeastElement
<1>6. m \in Values
  <2> SUFFICES ASSUME m \notin Values PROVE FALSE
    OBVIOUS
  <2>1. m \in 0..MaxLoad /\ \A v \in Values: v <= m /\ v # m
    BY <1>5
  <2>2. m # 0
    BY <1>1, <2>1
  <2>3. m - 1 \in Bounds
    <3>1. m - 1 \in 0..MaxLoad
      BY <1>1, <2>1, <2>2
    <3>2. ASSUME NEW v \in Values PROVE v <= m - 1
      <4>1. v \in 0..MaxLoad /\ v <= m /\ v # m
        BY <1>3, <2>1
      <4>2. QED
        BY <1>1, <2>1, <4>1
    <3>3. QED
      BY <3>1, <3>2
  <2>4. m <= m - 1
    BY <1>5, <2>3
  <2>5. QED
    BY <1>1, <2>1, <2>4
<1>7. \A v \in Values: m >= v
  BY <1>1, <1>3, <1>5
<1>8. /\ Peak(before, cards) \in Values
      /\ \A v \in Values: Peak(before, cards) >= v
  BY <1>6, <1>7 DEF Peak, Max
<1>9. QED
  BY <1>1, <1>3, <1>8

-----------------------------------------------------------------------------
(* What one line does to the round and to the published values.            *)
LEMMA PushFacts ==
    ASSUME TypeOK, NEW entry \in GpuEntry, PushRound(entry)
    PROVE  \/ /\ Len(round) + 1 = Cards
              /\ gpus' = Append(round, entry) /\ round' = <<>>
              /\ util' = Peak(util, Append(round, entry))
           \/ /\ Len(round) + 1 < Cards
              /\ round' = Append(round, entry) /\ UNCHANGED <<gpus, util>>
<1>1. Len(Append(round, entry)) = Len(round) + 1 /\ Len(round) \in Nat
  BY DEF TypeOK
<1>2. Cards \in Nat /\ Len(round) < Cards
  BY CardsAssumption DEF TypeOK
<1> DEFINE cards == Append(round, entry)
<1>3. \/ Len(cards) >= Cards /\ gpus' = cards /\ util' = Peak(util, cards) /\ round' = <<>>
      \/ Len(cards) < Cards /\ round' = cards /\ UNCHANGED <<gpus, util>>
  BY Zenon DEF PushRound, FinishRound
<1>4. QED
  BY <1>1, <1>2, <1>3

LEMMA TypedNext ==
    TypeOK /\ [Next]_vars => TypeOK'
<1> SUFFICES ASSUME TypeOK, [Next]_vars PROVE TypeOK'
  OBVIOUS
<1>1. Cards \in Nat \ {0} /\ MaxLoad \in Nat /\ MaxEnds \in Nat
  BY CardsAssumption
<1>2. Advance => next' \in 1..Cards
  BY <1>1 DEF TypeOK, Advance
<1>3. CASE DemandChanges
  BY <1>3 DEF TypeOK, DemandChanges
<1>4. CASE Spawn
  BY <1>1, <1>4 DEF TypeOK, Spawn
<1>5. CASE ReadLine
  <2>1. PICK u \in 0..MaxLoad: PushRound([card |-> next, util |-> u])
    BY <1>5 DEF ReadLine
  <2> DEFINE entry == [card |-> next, util |-> u]
  <2>2. entry \in GpuEntry
    BY DEF TypeOK, GpuEntry
  <2>3. Append(round, entry) \in Seq(GpuEntry)
        /\ Len(Append(round, entry)) = Len(round) + 1
    BY <2>2 DEF TypeOK
  <2> HIDE DEF entry
  <2>4. CASE /\ Len(round) + 1 = Cards
             /\ gpus' = Append(round, entry) /\ round' = <<>>
             /\ util' = Peak(util, Append(round, entry))
    <3>1. util' \in 0..MaxLoad
      BY <2>3, <2>4, PeakFacts DEF TypeOK
    <3>2. gpus' \in Seq(GpuEntry) /\ Len(gpus') = Cards
      BY <2>3, <2>4
    <3>3. round' \in Seq(GpuEntry) /\ Len(round') < Cards
      BY <1>1, <2>4
    <3>4. QED
      BY <1>2, <1>5, <3>1, <3>2, <3>3 DEF TypeOK, ReadLine
  <2>5. CASE /\ Len(round) + 1 < Cards
             /\ round' = Append(round, entry) /\ UNCHANGED <<gpus, util>>
    BY <1>2, <1>5, <2>3, <2>5 DEF TypeOK, ReadLine
  <2>6. QED
    BY <2>1, <2>2, <2>4, <2>5, PushFacts DEF entry
<1>6. CASE BadLine
  BY <1>2, <1>6 DEF TypeOK, BadLine
<1>7. CASE LeaveChild
  <2>1. cut' \in BOOLEAN
    BY <1>7, Zenon DEF LeaveChild
  <2>2. ends' \in 0..MaxEnds
    BY <1>1, <1>7 DEF TypeOK, LeaveChild
  <2>3. QED
    BY <1>7, <2>1, <2>2 DEF TypeOK, LeaveChild
<1>8. CASE UNCHANGED vars
  BY <1>8 DEF TypeOK, vars
<1>9. QED
  BY <1>3, <1>4, <1>5, <1>6, <1>7, <1>8 DEF Next

LEMMA InitTyped == Init => TypeOK
<1>1. <<>> \in Seq(GpuEntry) /\ Len(<<>>) = 0
  OBVIOUS
<1>2. Cards \in Nat \ {0} /\ MaxLoad \in Nat /\ MaxEnds \in Nat
  BY CardsAssumption
<1>3. Init => /\ demand \in BOOLEAN /\ reading \in BOOLEAN /\ cut \in BOOLEAN
              /\ round \in Seq(GpuEntry) /\ gpus \in Seq(GpuEntry)
              /\ Len(round) = 0 /\ Len(gpus) = 0
  BY <1>1, Zenon DEF Init
<1>4. Init => next \in 1..Cards /\ util \in 0..MaxLoad /\ ends \in 0..MaxEnds
  BY <1>2 DEF Init
<1>5. QED
  BY <1>2, <1>3, <1>4 DEF TypeOK

(* The reader keeps fewer cards than a round has and publishes whole       *)
(* rounds: push_round.                                                     *)
THEOREM RoundsTypeCorrect == Spec => []TypeOK
<1>1. Init => TypeOK
  BY InitTyped
<1>2. QED
  BY <1>1, TypedNext, PTL DEF Spec

-----------------------------------------------------------------------------
(* Until a round has been cut, it holds the cards from the first one on,   *)
(* and the child prints the one that follows.                              *)
Aligned ==
    ~cut => /\ \A k \in DOMAIN round: round[k].card = k
            /\ reading => next = Len(round) + 1
            /\ ~reading => round = <<>>

OrderInv == TypeOK /\ Aligned /\ OrderUntilCut

LEMMA OrderInvNext ==
    OrderInv /\ [Next]_vars => OrderInv'
<1> SUFFICES ASSUME OrderInv, [Next]_vars, ~cut'
             PROVE  Aligned' /\ DetectionOrder'
  BY TypedNext DEF OrderInv, Aligned, OrderUntilCut
<1>1. ~cut
  BY DEF Next, DemandChanges, Spawn, ReadLine, BadLine, LeaveChild, vars
<1>2. /\ TypeOK /\ DetectionOrder
      /\ \A k \in DOMAIN round: round[k].card = k
      /\ reading => next = Len(round) + 1
      /\ ~reading => round = <<>>
  BY <1>1 DEF OrderInv, Aligned, OrderUntilCut
<1>3. CASE ReadLine
  <2>1. PICK u \in 0..MaxLoad: PushRound([card |-> next, util |-> u])
    BY <1>3 DEF ReadLine
  <2> DEFINE entry == [card |-> next, util |-> u]
  <2>2. entry \in GpuEntry /\ entry.card = Len(round) + 1
    BY <1>2, <1>3 DEF TypeOK, GpuEntry, ReadLine
  <2> HIDE DEF entry
  <2>3. /\ Append(round, entry) \in Seq(GpuEntry)
        /\ Len(Append(round, entry)) = Len(round) + 1
        /\ \A k \in 1..Len(round): Append(round, entry)[k] = round[k]
        /\ Append(round, entry)[Len(round) + 1] = entry
    BY <1>2, <2>2 DEF TypeOK
  <2>4. \A k \in DOMAIN Append(round, entry): Append(round, entry)[k].card = k
    <3> SUFFICES ASSUME NEW k \in 1..(Len(round) + 1)
                 PROVE  Append(round, entry)[k].card = k
      BY <2>3
    <3>1. Len(round) \in Nat /\ DOMAIN round = 1..Len(round)
      BY <1>2 DEF TypeOK
    <3>2. QED
      BY <1>2, <2>2, <2>3, <3>1
  <2>5. reading' /\ reading /\ next' = IF next = Cards THEN 1 ELSE next + 1
    BY <1>3 DEF ReadLine, Advance
  <2>6. CASE /\ Len(round) + 1 = Cards
             /\ gpus' = Append(round, entry) /\ round' = <<>>
             /\ util' = Peak(util, Append(round, entry))
    <3>1. next' = 1
      BY <1>2, <2>5, <2>6
    <3>2. QED
      BY <2>4, <2>5, <2>6, <3>1 DEF Aligned, DetectionOrder
  <2>7. CASE /\ Len(round) + 1 < Cards
             /\ round' = Append(round, entry) /\ UNCHANGED <<gpus, util>>
    <3>1. next' = Len(round') + 1
      BY <1>2, <2>3, <2>5, <2>7, CardsAssumption DEF TypeOK
    <3>2. QED
      BY <1>2, <2>4, <2>5, <2>7, <3>1 DEF Aligned, DetectionOrder
  <2>8. QED
    BY <1>2, <2>1, <2>2, <2>6, <2>7, PushFacts DEF entry
<1>4. CASE Spawn
  BY <1>2, <1>4 DEF Spawn, Aligned, DetectionOrder
<1>5. CASE LeaveChild
  BY <1>2, <1>5 DEF LeaveChild, Aligned, DetectionOrder
<1>6. CASE BadLine
  BY <1>6 DEF BadLine
<1>7. CASE DemandChanges \/ UNCHANGED vars
  BY <1>2, <1>7 DEF DemandChanges, vars, Aligned, DetectionOrder
<1>8. QED
  BY <1>3, <1>4, <1>5, <1>6, <1>7 DEF Next

(* Counting alone keeps the cards in detection order as long as no child   *)
(* is left within a round and no line is lost: nvidia_loop, push_round.    *)
THEOREM CardsInOrder == Spec => []OrderUntilCut
<1>1. Init => OrderInv
  <2>1. DOMAIN <<>> = {}
    OBVIOUS
  <2>2. Init => Aligned /\ OrderUntilCut
    BY <2>1 DEF Init, Aligned, OrderUntilCut, DetectionOrder
  <2>3. QED
    BY <2>2, InitTyped DEF OrderInv
<1>2. OrderInv => OrderUntilCut
  BY DEF OrderInv
<1>3. QED
  BY <1>1, <1>2, OrderInvNext, PTL DEF Spec

(* The published utilization covers every published card: finish_round.    *)
THEOREM BusyCardsAreSeen == Spec => []BusyCardSeen
<1>1. Init => BusyCardSeen
  BY DEF Init, BusyCardSeen
<1>2. TypeOK /\ BusyCardSeen /\ [Next]_vars => BusyCardSeen'
  <2> SUFFICES ASSUME TypeOK, BusyCardSeen, [Next]_vars PROVE BusyCardSeen'
    OBVIOUS
  <2>1. CASE ReadLine
    <3>1. PICK u \in 0..MaxLoad: PushRound([card |-> next, util |-> u])
      BY <2>1 DEF ReadLine
    <3> DEFINE entry == [card |-> next, util |-> u]
    <3>2. entry \in GpuEntry
      BY DEF TypeOK, GpuEntry
    <3> HIDE DEF entry
    <3>3. Append(round, entry) \in Seq(GpuEntry) /\ util \in 0..MaxLoad
      BY <3>2 DEF TypeOK
    <3>4. QED
      BY <3>1, <3>2, <3>3, PushFacts, PeakFacts DEF BusyCardSeen, entry
  <2>2. CASE UNCHANGED <<gpus, util>>
    BY <2>2 DEF BusyCardSeen
  <2>3. QED
    BY <2>1, <2>2 DEF Next, DemandChanges, Spawn, BadLine, LeaveChild, vars
<1>3. QED
  BY <1>1, <1>2, RoundsTypeCorrect, PTL DEF Spec

-----------------------------------------------------------------------------
(* ProcScan: the sums of Together exist and grow with their parts, so the  *)
(* shares of a list, whose processes all ran within one span, fit the      *)
(* machine; and its clocks tell how old a list can be.                     *)

(* One pid of a set, the one that Together takes next; and one step of it. *)
Some(s) == CHOOSE p \in s: TRUE
More(f, sum, s) == IF s = {} THEN 0 ELSE f[Some(s)] + sum[s \ {Some(s)}]

(* A sum of counters over the sets of no more than n pids.                 *)
Small(n) == {s \in SUBSET Pids: Cardinality(s) <= n}
SumOf(f, n, sum) == sum = [s \in Small(n) |-> More(f, sum, s)]

LEMMA SetFacts ==
    ASSUME NEW s \in SUBSET Pids
    PROVE  /\ Cardinality(s) \in Nat /\ Cardinality(s) <= Cardinality(Pids) /\ Cardinality(Pids) \in Nat
           /\ (s # {} => /\ Some(s) \in s /\ Cardinality(s) > 0
                         /\ s \ {Some(s)} \in SUBSET Pids
                         /\ Cardinality(s \ {Some(s)}) = Cardinality(s) - 1)
<1>1. IsFiniteSet(Pids)
  BY ScanAssumption
<1>2. IsFiniteSet(s) /\ Cardinality(s) <= Cardinality(Pids) /\ Cardinality(Pids) \in Nat /\ Cardinality(s) \in Nat
  BY <1>1, FS_Subset, FS_CardinalityType
<1>3. ASSUME s # {}
      PROVE  /\ Some(s) \in s /\ Cardinality(s) > 0
             /\ Cardinality(s \ {Some(s)}) = Cardinality(s) - 1
  <2>1. Some(s) \in s
    BY <1>3 DEF Some
  <2>2. Cardinality(s \ {Some(s)}) = Cardinality(s) - 1
    BY <1>2, <2>1, FS_RemoveElement
  <2>3. Cardinality(s) # 0
    BY <1>2, <1>3, FS_EmptySet
  <2> QED
    BY <1>2, <2>1, <2>2, <2>3
<1> QED
  BY <1>2, <1>3

(* The function by which Together is defined exists.                       *)
LEMMA SumExists ==
    ASSUME NEW f, NEW n \in Nat
    PROVE  \E sum: SumOf(f, n, sum)
<1> SUFFICES ASSUME {m \in Nat: ~\E sum: SumOf(f, m, sum)} # {} PROVE FALSE
  OBVIOUS
<1> DEFINE T == {m \in Nat: ~\E sum: SumOf(f, m, sum)}
<1>1. PICK m \in T: \A i \in T: m <= i
  <2>1. T \in SUBSET Nat /\ T # {}
    OBVIOUS
  <2> HIDE DEF T
  <2> QED
    BY <2>1, LeastElement
<1>2. m \in Nat /\ ~\E sum: SumOf(f, m, sum)
  OBVIOUS
<1>3. CASE m = 0
  <2>1. \A s \in Small(0): s = {}
    <3> SUFFICES ASSUME NEW s \in Small(0), s # {} PROVE FALSE
      OBVIOUS
    <3>1. s \in SUBSET Pids /\ Cardinality(s) <= 0
      BY DEF Small
    <3>2. Cardinality(s) > 0 /\ Cardinality(s) \in Nat
      BY <3>1, SetFacts
    <3> QED
      BY <3>1, <3>2
  <2>2. SumOf(f, 0, [s \in Small(0) |-> 0])
    BY <2>1 DEF SumOf, More
  <2> QED
    BY <1>2, <1>3, <2>2
<1>4. CASE m # 0
  <2>1. m - 1 \in Nat /\ ~(m <= m - 1)
    BY <1>2, <1>4
  <2>2. PICK sum: SumOf(f, m - 1, sum)
    <3>1. m - 1 \notin T
      BY <1>1, <2>1
    <3> QED
      BY <2>1, <3>1
  <2> DEFINE longer == [s \in Small(m) |-> More(f, sum, s)]
  <2>3. ASSUME NEW s \in Small(m), s # {} PROVE s \ {Some(s)} \in Small(m - 1) \cap Small(m)
    <3>1. s \in SUBSET Pids /\ Cardinality(s) <= m
      BY DEF Small
    <3>2. /\ Cardinality(s) \in Nat /\ s \ {Some(s)} \in SUBSET Pids
          /\ Cardinality(s \ {Some(s)}) = Cardinality(s) - 1
      BY <2>3, <3>1, SetFacts
    <3>3. Cardinality(s \ {Some(s)}) <= m - 1 /\ Cardinality(s \ {Some(s)}) <= m
      BY <1>2, <3>1, <3>2
    <3> QED
      BY <3>2, <3>3 DEF Small
  <2>4. \A s \in Small(m - 1) \cap Small(m): longer[s] = sum[s]
    <3>1. \A s \in Small(m - 1): sum[s] = More(f, sum, s)
      BY <2>2 DEF SumOf
    <3> QED
      BY <3>1
  <2>5. \A s \in Small(m): More(f, sum, s) = More(f, longer, s)
    <3> SUFFICES ASSUME NEW s \in Small(m), s # {} PROVE More(f, sum, s) = More(f, longer, s)
      BY DEF More
    <3>1. longer[s \ {Some(s)}] = sum[s \ {Some(s)}]
      BY <2>3, <2>4
    <3> HIDE DEF longer
    <3> QED
      BY <3>1 DEF More
  <2>6. longer = [s \in Small(m) |-> More(f, longer, s)]
    <3>1. \A s \in Small(m): longer[s] = More(f, longer, s)
      BY <2>5
    <3> QED
      BY <3>1
  <2> HIDE DEF longer
  <2>7. SumOf(f, m, longer)
    BY <2>6 DEF SumOf
  <2> QED
    BY <1>2, <2>7
<1> QED
  BY <1>3, <1>4

Whole == Cardinality(Pids)

LEMMA TogetherFacts ==
    ASSUME NEW f
    PROVE  \E sum: SumOf(f, Whole, sum) /\ Together(f) = sum[Pids]
<1>1. Small(Whole) = SUBSET Pids /\ Whole \in Nat
  BY SetFacts DEF Small, Whole
<1> DEFINE sum == CHOOSE sum: SumOf(f, Whole, sum)
<1>2. SumOf(f, Whole, sum)
  BY <1>1, SumExists
<1>3. Together(f) = sum[Pids]
  <2>1. sum = CHOOSE iter: iter = [s \in SUBSET Pids |->
                                       IF s = {} THEN 0 ELSE f[CHOOSE x \in s: TRUE] + iter[s \ {CHOOSE x \in s: TRUE}]]
    BY <1>1 DEF SumOf, More, Some
  <2> QED
    BY <2>1 DEF Together, MapThenSumSet, MapThenFoldSet
<1> QED
  BY <1>2, <1>3

(* A property of sums that adding one pid keeps holds of all sums.         *)
LEMMA SumsAdd ==
    ASSUME NEW f \in [Pids -> Nat], NEW g \in [Pids -> Nat], NEW h \in [Pids -> Nat],
           \A p \in Pids: f[p] <= g[p] + h[p]
    PROVE  /\ Together(f) \in Nat /\ Together(g) \in Nat /\ Together(h) \in Nat
           /\ Together(f) <= Together(g) + Together(h)
<1>1. PICK sf: SumOf(f, Whole, sf) /\ Together(f) = sf[Pids]
  BY TogetherFacts
<1>2. PICK sg: SumOf(g, Whole, sg) /\ Together(g) = sg[Pids]
  BY TogetherFacts
<1>3. PICK sh: SumOf(h, Whole, sh) /\ Together(h) = sh[Pids]
  BY TogetherFacts
<1> DEFINE Adds(s) == sf[s] \in Nat /\ sg[s] \in Nat /\ sh[s] \in Nat /\ sf[s] <= sg[s] + sh[s]
           T == {Cardinality(s): s \in {s \in SUBSET Pids: ~Adds(s)}}
<1>4. \A s \in SUBSET Pids: sf[s] = More(f, sf, s) /\ sg[s] = More(g, sg, s) /\ sh[s] = More(h, sh, s)
  <2>1. Small(Whole) = SUBSET Pids
    BY SetFacts DEF Small, Whole
  <2> QED
    BY <1>1, <1>2, <1>3, <2>1 DEF SumOf
<1>5. \A s \in SUBSET Pids: Adds(s)
  <2> SUFFICES ASSUME T # {} PROVE FALSE
    OBVIOUS
  <2>1. T \in SUBSET Nat
    BY SetFacts
  <2>2. PICK m \in T: \A u \in T: m <= u
    <3> HIDE DEF T
    <3> QED
      BY <2>1, LeastElement
  <2>3. PICK s \in SUBSET Pids: ~Adds(s) /\ m = Cardinality(s)
    BY <2>2
  <2>4. CASE s = {}
    <3>1. sf[s] = 0 /\ sg[s] = 0 /\ sh[s] = 0
      BY <1>4, <2>4 DEF More
    <3> QED
      BY <2>3, <3>1
  <2>5. CASE s # {}
    <3> DEFINE p == Some(s)
               r == s \ {p}
    <3>1. p \in s /\ p \in Pids /\ r \in SUBSET Pids /\ Cardinality(r) = m - 1 /\ m \in Nat
      BY <2>3, <2>5, SetFacts
    <3>2. Adds(r)
      <4>1. Cardinality(r) \notin T
        <5>1. ~(m <= m - 1)
          BY <3>1
        <5> HIDE DEF T, r
        <5> QED
          BY <2>2, <3>1, <5>1
      <4> HIDE DEF Adds, r
      <4> QED
        BY <3>1, <4>1
    <3>3. sf[s] = f[p] + sf[r] /\ sg[s] = g[p] + sg[r] /\ sh[s] = h[p] + sh[r]
      BY <1>4, <2>5 DEF More
    <3>4. f[p] \in Nat /\ g[p] \in Nat /\ h[p] \in Nat /\ f[p] <= g[p] + h[p]
      BY <3>1
    <3> HIDE DEF p, r
    <3>5. Adds(s)
      <4> DEFINE a == f[p]  b == g[p]  c == h[p]  x == sf[r]  y == sg[r]  z == sh[r]
      <4>1. /\ a \in Nat /\ b \in Nat /\ c \in Nat /\ x \in Nat /\ y \in Nat /\ z \in Nat
            /\ a <= b + c /\ x <= y + z
            /\ sf[s] = a + x /\ sg[s] = b + y /\ sh[s] = c + z
        BY <3>2, <3>3, <3>4
      <4> HIDE DEF a, b, c, x, y, z
      <4> QED
        BY <4>1
    <3> QED
      BY <2>3, <3>5
  <2> QED
    BY <2>4, <2>5
<1>6. Adds(Pids)
  BY <1>5
<1> QED
  BY <1>1, <1>2, <1>3, <1>6

LEMMA SumsOfNothing == Together([p \in Pids |-> 0]) = 0
<1> DEFINE f == [p \in Pids |-> 0]
<1>1. f \in [Pids -> Nat]
  OBVIOUS
<1>2. PICK sum: SumOf(f, Whole, sum) /\ Together(f) = sum[Pids]
  BY TogetherFacts
<1>3. \A s \in SUBSET Pids: sum[s] = More(f, sum, s)
  <2>1. Small(Whole) = SUBSET Pids
    BY SetFacts DEF Small, Whole
  <2> HIDE DEF f
  <2> QED
    BY <1>2, <2>1 DEF SumOf
<1> DEFINE T == {Cardinality(s): s \in {s \in SUBSET Pids: sum[s] # 0}}
<1>4. \A s \in SUBSET Pids: sum[s] = 0
  <2> SUFFICES ASSUME T # {} PROVE FALSE
    OBVIOUS
  <2>1. T \in SUBSET Nat
    BY SetFacts
  <2>2. PICK m \in T: \A u \in T: m <= u
    <3> HIDE DEF T
    <3> QED
      BY <2>1, LeastElement
  <2>3. PICK s \in SUBSET Pids: sum[s] # 0 /\ m = Cardinality(s)
    BY <2>2
  <2>4. s # {}
    BY <1>3, <2>3 DEF More
  <2> DEFINE r == s \ {Some(s)}
  <2>5. Some(s) \in Pids /\ r \in SUBSET Pids /\ Cardinality(r) = m - 1 /\ m \in Nat
    BY <2>3, <2>4, SetFacts
  <2>6. sum[r] = 0
    <3>1. ~(m <= m - 1)
      BY <2>5
    <3>2. Cardinality(r) \notin T
      <4> HIDE DEF T, r
      <4> QED
        BY <2>2, <2>5, <3>1
    <3> HIDE DEF r
    <3> QED
      BY <2>5, <3>2
  <2>7. sum[s] = f[Some(s)] + sum[r]
    <3> HIDE DEF f
    <3> QED
      BY <1>3, <2>4 DEF More
  <2>8. f[Some(s)] = 0
    BY <2>5
  <2> QED
    BY <2>3, <2>6, <2>7, <2>8
<1> QED
  BY <1>2, <1>4

-----------------------------------------------------------------------------
Counter == [owner: Nat, jiffies: Nat]
Row == [listed: BOOLEAN, used: Nat, same: BOOLEAN]

ScanTyped ==
    /\ driver \in {"applet", "agent"} /\ active \in BOOLEAN
    /\ time \in Nat /\ total \in Nat /\ starts \in Nat /\ events \in Nat /\ left \in Nat /\ shown \in Nat
    /\ owner \in [Pids -> Nat] /\ used \in [Pids -> Nat] /\ prev \in [Pids -> Counter]
    /\ scan \in [on: BOOLEAN, at: Nat, todo: SUBSET Pids, rows: [Pids -> Row], seen: [Pids -> Counter]]
    /\ table \in [rows: [Pids -> Row], span: Nat, late: Nat, at: Nat, error: BOOLEAN]

(* The bounds of TypeOK, and which numbers processes can have.             *)
ScanBounded ==
    /\ time <= MaxTime[driver] /\ total <= time /\ scan.at <= time /\ table.at <= time /\ shown <= time
    /\ starts <= MaxStarts[driver] /\ events <= MaxEvents /\ left <= SamplePause
    /\ (scan.on => total <= scan.at)
    /\ \A p \in Pids: /\ owner[p] <= starts /\ prev[p].owner <= starts /\ scan.seen[p].owner <= starts
                      /\ used[p] <= Cores * time

LEMMA ScanNumbers ==
    /\ Cores \in Nat \ {0} /\ SamplePause \in Nat \ {0} /\ IdlePause \in Nat /\ IdlePause <= SamplePause
    /\ LongestScan \in Nat /\ MaxEvents \in Nat
    /\ \A d \in {"applet", "agent"}: MaxTime[d] \in Nat /\ MaxStarts[d] \in Nat
  BY ScanAssumption

(* What a process has used since the scan before is a number.              *)
LEMMA UsedSinceFacts ==
    ASSUME ScanTyped, NEW p \in Pids
    PROVE  /\ UsedSince(p) \in Nat
           /\ (prev[p].owner = 0 => UsedSince(p) = 0)
           /\ (prev[p].owner # 0 /\ used[p] >= prev[p].jiffies => UsedSince(p) = used[p] - prev[p].jiffies)
<1>1. used[p] \in Nat /\ prev[p] \in Counter
  BY DEF ScanTyped
<1>2. prev[p].owner \in Nat /\ prev[p].jiffies \in Nat
  BY <1>1 DEF Counter
<1> QED
  BY <1>1, <1>2 DEF UsedSince

(* What the reading of one process does to the scan.                       *)
LEMMA ReadFacts ==
    ASSUME ScanTyped, NEW p \in Pids, ReadProcess(p)
    PROVE  /\ scan.on /\ p \in scan.todo
           /\ scan' \in [on: BOOLEAN, at: Nat, todo: SUBSET Pids, rows: [Pids -> Row], seen: [Pids -> Counter]]
           /\ scan'.on = scan.on /\ scan'.at = scan.at /\ scan'.todo = scan.todo \ {p}
           /\ \A q \in Pids \ {p}: scan'.rows[q] = scan.rows[q] /\ scan'.seen[q] = scan.seen[q]
           /\ IF owner[p] = 0 THEN scan'.rows[p] = scan.rows[p] /\ scan'.seen[p] = scan.seen[p]
              ELSE /\ scan'.rows[p] = [listed |-> TRUE, used |-> UsedSince(p),
                                       same |-> prev[p].owner \in {0, owner[p]}]
                   /\ scan'.seen[p] = [owner |-> owner[p], jiffies |-> used[p]]
           /\ UNCHANGED <<machine, prev, total, table, left, page>>
<1>1. /\ scan.on /\ p \in scan.todo /\ UNCHANGED <<machine, prev, total, table, left, page>>
  BY DEF ReadProcess
<1> DEFINE row == [listed |-> TRUE, used |-> UsedSince(p), same |-> prev[p].owner \in {0, owner[p]}]
           counter == [owner |-> owner[p], jiffies |-> used[p]]
<1>2. row \in Row /\ counter \in Counter
  <2>1. (prev[p].owner \in {0, owner[p]}) \in BOOLEAN /\ UsedSince(p) \in Nat
    BY UsedSinceFacts
  <2>2. owner[p] \in Nat /\ used[p] \in Nat
    BY DEF ScanTyped
  <2> QED
    BY <2>1, <2>2 DEF Row, Counter
<1>3. CASE owner[p] = 0
  <2>1. scan' = [scan EXCEPT !.todo = @ \ {p}]
    BY <1>3 DEF ReadProcess
  <2> QED
    BY <1>1, <1>3, <2>1 DEF ScanTyped
<1>4. CASE owner[p] # 0
  <2>1. scan' = [scan EXCEPT !.todo = @ \ {p}, !.rows[p] = row, !.seen[p] = counter]
    BY <1>4 DEF ReadProcess
  <2> HIDE DEF row, counter
  <2>2. /\ scan' \in [on: BOOLEAN, at: Nat, todo: SUBSET Pids, rows: [Pids -> Row], seen: [Pids -> Counter]]
        /\ scan'.on = scan.on /\ scan'.at = scan.at /\ scan'.todo = scan.todo \ {p}
        /\ \A q \in Pids \ {p}: scan'.rows[q] = scan.rows[q] /\ scan'.seen[q] = scan.seen[q]
        /\ scan'.rows[p] = row /\ scan'.seen[p] = counter
    BY <1>2, <2>1 DEF ScanTyped
  <2> QED
    BY <1>1, <1>4, <2>2 DEF row, counter
<1> QED
  BY <1>3, <1>4

LEMMA NothingTyped ==
    /\ NoCounters \in [Pids -> Counter] /\ NoRows \in [Pids -> Row]
    /\ NoScan \in [on: BOOLEAN, at: Nat, todo: SUBSET Pids, rows: [Pids -> Row], seen: [Pids -> Counter]]
    /\ NoList \in [rows: [Pids -> Row], span: Nat, late: Nat, at: Nat, error: BOOLEAN]
    /\ \A p \in Pids: NoCounters[p].owner = 0 /\ NoRows[p] = NoRow
    /\ NoScan.on = FALSE /\ NoScan.at = 0 /\ NoScan.seen = NoCounters /\ NoScan.rows = NoRows
  BY DEF NoCounters, NoCounter, Counter, NoRows, NoRow, Row, NoScan, NoList

LEMMA BeginFacts ==
    ASSUME ScanTyped, BeginScan
    PROVE  /\ left = 0 /\ ~scan.on /\ (driver = "applet" => active)
           /\ scan' \in [on: BOOLEAN, at: Nat, todo: SUBSET Pids, rows: [Pids -> Row], seen: [Pids -> Counter]]
           /\ scan'.on = TRUE /\ scan'.at = time /\ scan'.todo = Pids
           /\ scan'.rows = NoRows /\ scan'.seen = NoCounters
           /\ UNCHANGED <<machine, prev, total, table, left, page>>
<1>1. scan' = [NoScan EXCEPT !.on = TRUE, !.at = time, !.todo = Pids]
  BY DEF BeginScan
<1>2. time \in Nat
  BY DEF ScanTyped
<1>3. scan' = [on |-> TRUE, at |-> time, todo |-> Pids, rows |-> NoRows, seen |-> NoCounters]
  BY <1>1 DEF NoScan
<1> QED
  BY <1>2, <1>3, NothingTyped DEF BeginScan, Wakes

LEMMA EndFacts ==
    ASSUME ScanTyped, ScanBounded, EndScan
    PROVE  /\ scan.on /\ scan.todo = {}
           /\ table' \in [rows: [Pids -> Row], span: Nat, late: Nat, at: Nat, error: BOOLEAN]
           /\ table'.rows \in {NoRows, scan.rows}
           /\ table'.span = Cores * (scan.at - total) /\ table'.late = Cores * (time - scan.at)
           /\ table'.at = time /\ table'.error = FALSE
           /\ prev' = scan.seen /\ total' = scan.at /\ scan' = NoScan
           /\ left' = (IF driver = "applet" THEN SamplePause ELSE 0)
           /\ UNCHANGED <<machine, page>>
<1>1. /\ scan.on /\ scan.todo = {}
      /\ prev' = scan.seen /\ total' = scan.at /\ scan' = NoScan
      /\ left' = (IF driver = "applet" THEN SamplePause ELSE 0)
      /\ UNCHANGED <<machine, page>>
  BY DEF EndScan, Rest
<1> PICK fall \in 0..MaxFall:
        table' = [rows |-> IF Cores * (scan.at - total) <= fall THEN NoRows ELSE scan.rows,
                  span |-> Cores * (scan.at - total), late |-> Cores * (time - scan.at),
                  at |-> time, error |-> FALSE]
  BY DEF EndScan
<1> DEFINE rows == IF Cores * (scan.at - total) <= fall THEN NoRows ELSE scan.rows
           span == Cores * (scan.at - total)
           late == Cores * (time - scan.at)
<1>2. rows \in [Pids -> Row]
  BY NothingTyped DEF ScanTyped
<1>3. span \in Nat /\ late \in Nat
  <2>1. \A a, b, c \in Nat: b <= c => a * (c - b) \in Nat
    OBVIOUS
  <2>2. scan.at \in Nat /\ total \in Nat /\ time \in Nat /\ total <= scan.at /\ scan.at <= time
    BY <1>1 DEF ScanTyped, ScanBounded
  <2> QED
    BY <2>1, <2>2, ScanNumbers
<1>4. table' = [rows |-> rows, span |-> span, late |-> late, at |-> time, error |-> FALSE]
  OBVIOUS
<1>6. rows \in {NoRows, scan.rows}
  OBVIOUS
<1> HIDE DEF rows, span, late
<1>5. /\ table' \in [rows: [Pids -> Row], span: Nat, late: Nat, at: Nat, error: BOOLEAN]
      /\ table'.rows = rows /\ table'.span = span /\ table'.late = late
      /\ table'.at = time /\ table'.error = FALSE
  BY <1>2, <1>3, <1>4 DEF ScanTyped
<1> QED
  BY <1>1, <1>5, <1>6 DEF span, late

LEMMA FailFacts ==
    ASSUME ScanTyped, FailScan
    PROVE  /\ scan.on /\ scan.todo = Pids /\ events < MaxEvents /\ events' = events + 1
           /\ table' \in [rows: [Pids -> Row], span: Nat, late: Nat, at: Nat, error: BOOLEAN]
           /\ table'.rows = NoRows /\ table'.span = 0 /\ table'.late = 0
           /\ table'.at = time /\ table'.error = TRUE
           /\ scan' = NoScan /\ shown' = 0
           /\ left' = (IF driver = "applet" THEN SamplePause ELSE 0)
           /\ UNCHANGED <<machine, prev, total, driver, active>>
<1>1. table' = [rows |-> NoRows, span |-> 0, late |-> 0, at |-> time, error |-> TRUE]
  BY DEF FailScan, NoList
<1>2. table' \in [rows: [Pids -> Row], span: Nat, late: Nat, at: Nat, error: BOOLEAN]
  BY <1>1, NothingTyped DEF ScanTyped
<1>3. /\ table'.rows = NoRows /\ table'.span = 0 /\ table'.late = 0
      /\ table'.at = time /\ table'.error = TRUE
  BY <1>1
<1>4. /\ scan.on /\ scan.todo = Pids /\ events < MaxEvents /\ events' = events + 1
      /\ scan' = NoScan /\ shown' = 0
      /\ left' = (IF driver = "applet" THEN SamplePause ELSE 0)
      /\ UNCHANGED <<machine, prev, total, driver, active>>
  BY DEF FailScan, Rest
<1> QED
  BY <1>2, <1>3, <1>4

LEMMA ScanTickFacts ==
    ASSUME ScanTyped, ScanTick
    PROVE  \E share \in [Pids -> Nat]:
              /\ \A p \in Pids: share[p] <= Cores /\ (owner[p] = 0 => share[p] = 0)
              /\ Together(share) <= Cores
              /\ used' \in [Pids -> Nat] /\ \A p \in Pids: used'[p] = used[p] + share[p]
              /\ time' = time + 1 /\ time < MaxTime[driver]
              /\ (driver = "applet" => (scan.on => time - scan.at < LongestScan) /\ (left > 0 \/ scan.on))
              /\ left' = (IF left > 0 THEN left - 1 ELSE 0)
              /\ shown' = (IF active THEN shown + 1 ELSE 0)
              /\ UNCHANGED <<owner, starts, prev, total, scan, table, driver, active, events>>
<1>1. PICK share \in [Pids -> 0..Cores]:
         /\ \A p \in Pids: owner[p] = 0 => share[p] = 0
         /\ Together(share) <= Cores
         /\ used' = [p \in Pids |-> used[p] + share[p]]
  BY DEF ScanTick
<1>2. Cores \in Nat
  BY ScanNumbers
<1>3. share \in [Pids -> Nat] /\ \A p \in Pids: share[p] \in Nat /\ share[p] <= Cores
  <2>1. \A p \in Pids: share[p] \in 0..Cores
    OBVIOUS
  <2> QED
    BY <1>2, <2>1
<1>4. \A p \in Pids: used[p] \in Nat
  BY DEF ScanTyped
<1>5. used' \in [Pids -> Nat] /\ \A p \in Pids: used'[p] = used[p] + share[p]
  BY <1>1, <1>3, <1>4
<1> QED
  BY <1>1, <1>3, <1>5 DEF ScanTick, InTime

-----------------------------------------------------------------------------
ScanOK == ScanTyped /\ ScanBounded

LEMMA ScanOKInit == ScanInit => ScanOK
<1> SUFFICES ASSUME ScanInit PROVE ScanOK
  OBVIOUS
<1>1. ScanTyped
  BY NothingTyped DEF ScanInit, ScanTyped
<1>2. MaxTime[driver] \in Nat /\ MaxStarts[driver] \in Nat
  BY <1>1, ScanNumbers DEF ScanTyped
<1>3. \A p \in Pids: /\ owner[p] <= starts /\ prev[p].owner <= starts /\ scan.seen[p].owner <= starts
                    /\ used[p] <= Cores * time
  <2> SUFFICES ASSUME NEW p \in Pids
               PROVE  /\ owner[p] <= starts /\ prev[p].owner <= starts /\ scan.seen[p].owner <= starts
                      /\ used[p] <= Cores * time
    OBVIOUS
  <2>1. owner[p] = 0 /\ used[p] = 0 /\ prev[p].owner = 0 /\ scan.seen[p].owner = 0 /\ starts = 0 /\ time = 0
    BY NothingTyped DEF ScanInit
  <2> QED
    BY <2>1, ScanNumbers
<1>4. scan.at = 0 /\ scan.on = FALSE /\ table.at = 0
  BY NothingTyped DEF ScanInit, NoList
<1> QED
  BY <1>1, <1>2, <1>3, <1>4, ScanNumbers DEF ScanInit, ScanOK, ScanBounded

LEMMA ScanOKNext == ScanOK /\ [ScanNext]_scanVars => ScanOK'
<1> SUFFICES ASSUME ScanTyped, ScanBounded, [ScanNext]_scanVars PROVE ScanOK'
  BY DEF ScanOK
<1> USE DEF machine, page
<1>0. /\ time \in Nat /\ total \in Nat /\ starts \in Nat /\ events \in Nat /\ left \in Nat /\ shown \in Nat
      /\ scan.at \in Nat /\ table.at \in Nat /\ MaxTime[driver] \in Nat /\ MaxStarts[driver] \in Nat
      /\ scan.on \in BOOLEAN
      /\ \A p \in Pids: /\ owner[p] \in Nat /\ used[p] \in Nat /\ prev[p].owner \in Nat
                        /\ scan.seen[p].owner \in Nat
  BY ScanNumbers DEF ScanTyped, Counter
<1>1. ASSUME NEW p \in Pids, StartProcess(p) PROVE ScanOK'
  <2>1. /\ starts < MaxStarts[driver] /\ starts' = starts + 1
        /\ owner' = [owner EXCEPT ![p] = starts'] /\ used' = [used EXCEPT ![p] = 0]
        /\ UNCHANGED <<time, prev, total, scan, table, left, page>>
    BY <1>1 DEF StartProcess
  <2>2. ScanTyped'
    BY <1>0, <2>1 DEF ScanTyped
  <2>3. \A q \in Pids: /\ owner'[q] <= starts' /\ prev[q].owner <= starts' /\ scan.seen[q].owner <= starts'
                      /\ used'[q] <= Cores * time
    <3> SUFFICES ASSUME NEW q \in Pids
                 PROVE  /\ owner'[q] <= starts' /\ prev[q].owner <= starts' /\ scan.seen[q].owner <= starts'
                        /\ used'[q] <= Cores * time
      OBVIOUS
    <3>1. /\ owner[q] <= starts /\ prev[q].owner <= starts /\ scan.seen[q].owner <= starts
          /\ used[q] <= Cores * time
      BY DEF ScanBounded
    <3>2. owner'[q] = (IF q = p THEN starts' ELSE owner[q]) /\ used'[q] = (IF q = p THEN 0 ELSE used[q])
      BY <2>1 DEF ScanTyped
    <3>3. 0 <= Cores * time
      <4>1. \A a, b \in Nat: 0 <= a * b
        OBVIOUS
      <4> QED
        BY <1>0, <4>1, ScanNumbers
    <3>4. \A a \in Nat: a <= starts => a <= starts'
      BY <1>0, <2>1
    <3>5. owner'[q] <= starts'
      BY <1>0, <2>1, <3>1, <3>2, <3>4
    <3>6. used'[q] <= Cores * time
      BY <3>1, <3>2, <3>3
    <3> QED
      BY <1>0, <3>1, <3>4, <3>5, <3>6
  <2> QED
    BY <1>0, <2>1, <2>2, <2>3 DEF ScanOK, ScanBounded
<1>2. ASSUME NEW p \in Pids, EndProcess(p) PROVE ScanOK'
  <2>1. /\ owner' = [owner EXCEPT ![p] = 0] /\ used' = [used EXCEPT ![p] = 0]
        /\ UNCHANGED <<time, starts, prev, total, scan, table, left, page>>
    BY <1>2 DEF EndProcess
  <2>2. ScanTyped'
    BY <1>0, <2>1 DEF ScanTyped
  <2>3. \A q \in Pids: owner'[q] <= starts /\ used'[q] <= Cores * time
    <3> SUFFICES ASSUME NEW q \in Pids PROVE owner'[q] <= starts /\ used'[q] <= Cores * time
      OBVIOUS
    <3>1. owner[q] <= starts /\ used[q] <= Cores * time
      BY DEF ScanBounded
    <3>2. owner'[q] = (IF q = p THEN 0 ELSE owner[q]) /\ used'[q] = (IF q = p THEN 0 ELSE used[q])
      BY <2>1 DEF ScanTyped
    <3>3. 0 <= Cores * time /\ 0 <= starts
      <4>1. \A a, b \in Nat: 0 <= a * b
        OBVIOUS
      <4> QED
        BY <1>0, <4>1, ScanNumbers
    <3> QED
      BY <3>1, <3>2, <3>3
  <2> QED
    BY <2>1, <2>2, <2>3 DEF ScanOK, ScanBounded
<1>3. ASSUME NEW p \in Pids, ReadProcess(p) PROVE ScanOK'
  <2>1. /\ scan' \in [on: BOOLEAN, at: Nat, todo: SUBSET Pids, rows: [Pids -> Row], seen: [Pids -> Counter]]
        /\ scan'.on = scan.on /\ scan'.at = scan.at
        /\ UNCHANGED <<machine, prev, total, table, left, page>>
    BY <1>3, ReadFacts
  <2>2. ScanTyped'
    BY <2>1 DEF ScanTyped
  <2>3. \A q \in Pids: scan'.seen[q].owner <= starts
    <3> SUFFICES ASSUME NEW q \in Pids PROVE scan'.seen[q].owner <= starts
      OBVIOUS
    <3>1. \/ scan'.seen[q] = scan.seen[q]
          \/ q = p /\ scan'.seen[q] = [owner |-> owner[p], jiffies |-> used[p]]
      BY <1>3, ReadFacts
    <3> QED
      BY <3>1 DEF ScanBounded
  <2> QED
    BY <2>1, <2>2, <2>3 DEF ScanOK, ScanBounded
<1>4. ASSUME ScanTick PROVE ScanOK'
  <2>1. PICK share \in [Pids -> Nat]:
              /\ \A p \in Pids: share[p] <= Cores
              /\ used' \in [Pids -> Nat] /\ \A p \in Pids: used'[p] = used[p] + share[p]
              /\ time' = time + 1 /\ time < MaxTime[driver]
              /\ left' = (IF left > 0 THEN left - 1 ELSE 0)
              /\ shown' = (IF active THEN shown + 1 ELSE 0)
              /\ UNCHANGED <<owner, starts, prev, total, scan, table, driver, active, events>>
    BY <1>4, ScanTickFacts
  <2>2. left' \in Nat /\ left' <= left /\ shown' \in Nat /\ shown' <= shown + 1 /\ time' \in Nat
    BY <1>0, <2>1
  <2>3. ScanTyped'
    BY <2>1, <2>2 DEF ScanTyped
  <2>4. \A q \in Pids: used'[q] <= Cores * time'
    <3> SUFFICES ASSUME NEW q \in Pids PROVE used'[q] <= Cores * time'
      OBVIOUS
    <3> DEFINE u == used[q]  s == share[q]
    <3>1. u \in Nat /\ s \in Nat /\ u <= Cores * time /\ s <= Cores /\ used'[q] = u + s
      BY <1>0, <2>1 DEF ScanBounded
    <3>2. \A a, b \in Nat: a * b \in Nat /\ a * (b + 1) = a * b + a
      OBVIOUS
    <3>3. Cores * time' = Cores * time + Cores /\ Cores * time \in Nat
      BY <1>0, <2>1, <3>2, ScanNumbers
    <3> HIDE DEF u, s
    <3> QED
      BY <3>1, <3>3, ScanNumbers
  <2>5. /\ time' <= MaxTime[driver] /\ total <= time' /\ scan.at <= time' /\ table.at <= time'
        /\ shown' <= time' /\ left' <= SamplePause
    <3>1. total <= time /\ scan.at <= time /\ table.at <= time /\ shown <= time /\ left <= SamplePause
      BY DEF ScanBounded
    <3> DEFINE a == scan.at  b == table.at  m == MaxTime[driver]
    <3>2. a \in Nat /\ b \in Nat /\ m \in Nat /\ a <= time /\ b <= time /\ time < m
      BY <1>0, <2>1, <3>1
    <3> HIDE DEF a, b, m
    <3>3. time' <= m /\ total <= time' /\ a <= time' /\ b <= time' /\ shown' <= time' /\ left' <= SamplePause
      BY <1>0, <2>1, <2>2, <3>1, <3>2, ScanNumbers
    <3> QED
      BY <3>3 DEF a, b, m
  <2> QED
    BY <2>1, <2>3, <2>4, <2>5 DEF ScanOK, ScanBounded
<1>5. ASSUME SetActive PROVE ScanOK'
  <2>1. /\ events < MaxEvents /\ events' = events + 1 /\ active' = ~active /\ shown' = 0
        /\ UNCHANGED <<machine, prev, total, scan, table, left, driver>>
    BY <1>5 DEF SetActive
  <2>2. ScanTyped'
    BY <1>0, <2>1 DEF ScanTyped
  <2> QED
    BY <1>0, <2>1, <2>2, ScanNumbers DEF ScanOK, ScanBounded
<1>6. ASSUME Doze PROVE ScanOK'
  <2>1. left' = IdlePause /\ UNCHANGED <<machine, prev, total, scan, table, page>>
    BY <1>6 DEF Doze
  <2>2. ScanTyped'
    BY <2>1, ScanNumbers DEF ScanTyped
  <2> QED
    BY <2>1, <2>2, ScanNumbers DEF ScanOK, ScanBounded
<1>7. ASSUME BeginScan PROVE ScanOK'
  <2>1. /\ scan' \in [on: BOOLEAN, at: Nat, todo: SUBSET Pids, rows: [Pids -> Row], seen: [Pids -> Counter]]
        /\ scan'.on = TRUE /\ scan'.at = time /\ scan'.seen = NoCounters
        /\ UNCHANGED <<machine, prev, total, table, left, page>>
    BY <1>7, BeginFacts
  <2>2. ScanTyped'
    BY <2>1 DEF ScanTyped
  <2>3. \A q \in Pids: scan'.seen[q].owner <= starts
    BY <1>0, <2>1, NothingTyped
  <2> QED
    BY <1>0, <2>1, <2>2, <2>3 DEF ScanOK, ScanBounded
<1>8. ASSUME EndScan \/ FailScan PROVE ScanOK'
  <2>1. /\ table' \in [rows: [Pids -> Row], span: Nat, late: Nat, at: Nat, error: BOOLEAN]
        /\ table'.at = time /\ scan' = NoScan
        /\ left' = (IF driver = "applet" THEN SamplePause ELSE 0)
        /\ UNCHANGED <<machine, driver, active>>
        /\ \/ UNCHANGED <<prev, total>> /\ shown' = 0 /\ events' = events + 1 /\ events < MaxEvents
           \/ prev' = scan.seen /\ total' = scan.at /\ UNCHANGED <<shown, events>>
    BY <1>8, EndFacts, FailFacts
  <2>2. ScanTyped'
    <3>1. left' \in Nat /\ events' \in Nat /\ shown' \in Nat /\ total' \in Nat
      BY <1>0, <2>1, ScanNumbers
    <3>2. prev' \in [Pids -> Counter]
      BY <2>1 DEF ScanTyped
    <3> QED
      BY <2>1, <3>1, <3>2, NothingTyped DEF ScanTyped
  <2>3. \A q \in Pids: prev'[q].owner <= starts /\ scan'.seen[q].owner <= starts
    <3>1. \A q \in Pids: scan'.seen[q].owner = 0
      BY <2>1, NothingTyped
    <3> QED
      BY <1>0, <2>1, <3>1 DEF ScanBounded
  <2>4. scan'.on = FALSE /\ scan'.at = 0 /\ left' <= SamplePause /\ shown' <= time /\ events' <= MaxEvents
        /\ total' <= time
    BY <1>0, <2>1, NothingTyped, ScanNumbers DEF ScanBounded
  <2> QED
    BY <1>0, <2>1, <2>2, <2>3, <2>4 DEF ScanOK, ScanBounded
<1>9. ASSUME UNCHANGED scanVars PROVE ScanOK'
  BY <1>9 DEF scanVars, ScanOK, ScanTyped, ScanBounded
<1> QED
  BY <1>1, <1>2, <1>3, <1>4, <1>5, <1>6, <1>7, <1>8, <1>9 DEF ScanNext

LEMMA ScanStaysOK == ScanSpec => []ScanOK
  BY ScanOKInit, ScanOKNext, PTL DEF ScanSpec

(* Type correctness of the sampler, its scan and its thread: a total is    *)
(* never of a later time, and the thread never sleeps beyond one pause.    *)
THEOREM ScanTypeCorrect == ScanSpec => []ScanTypeOK
<1>1. ScanOK => ScanTypeOK
  <2> SUFFICES ASSUME ScanTyped, ScanBounded PROVE ScanTypeOK
    BY DEF ScanOK
  <2>1. /\ time \in Nat /\ total \in Nat /\ starts \in Nat /\ events \in Nat /\ left \in Nat /\ shown \in Nat
        /\ scan.at \in Nat /\ MaxTime[driver] \in Nat /\ MaxStarts[driver] \in Nat
    BY ScanNumbers DEF ScanTyped
  <2>2. /\ time \in 0..MaxTime[driver] /\ total \in 0..time /\ scan.at \in 0..time
        /\ starts \in 0..MaxStarts[driver] /\ events \in 0..MaxEvents
        /\ left \in 0..SamplePause + IdlePause /\ shown \in 0..MaxTime[driver]
    BY <2>1, ScanNumbers DEF ScanBounded
  <2>3. \A p \in Pids: owner[p] \in 0..starts /\ used[p] \in 0..Cores * MaxTime[driver]
    <3> SUFFICES ASSUME NEW p \in Pids
                 PROVE  owner[p] \in 0..starts /\ used[p] \in 0..Cores * MaxTime[driver]
      OBVIOUS
    <3>1. owner[p] \in Nat /\ used[p] \in Nat /\ owner[p] <= starts /\ used[p] <= Cores * time
      BY DEF ScanTyped, ScanBounded
    <3>2. \A a, b, c \in Nat: b <= c => a * b <= a * c /\ a * b \in Nat /\ a * c \in Nat
      OBVIOUS
    <3> DEFINE m == Cores * MaxTime[driver]
               n == Cores * time
    <3>3. n <= m /\ n \in Nat /\ m \in Nat
      BY <2>1, <2>2, <3>2, ScanNumbers
    <3> HIDE DEF m, n
    <3>4. used[p] \in 0..m
      BY <3>1, <3>3 DEF n
    <3> QED
      BY <2>1, <3>1, <3>4 DEF m
  <2>4. \A p \in Pids: prev[p].owner \in 0..starts /\ prev[p].jiffies \in Nat
    BY <2>1 DEF ScanTyped, ScanBounded, Counter
  <2>5. \A p \in Pids: scan.rows[p].used \in Nat /\ table.rows[p].used \in Nat
    BY DEF ScanTyped, Row
  <2> QED
    BY <2>2, <2>3, <2>4, <2>5 DEF ScanTyped, ScanTypeOK
<1> QED
  BY <1>1, ScanStaysOK, PTL

-----------------------------------------------------------------------------
(* The clock of the applet's thread.  With the page visible: once a list   *)
(* or an error has come while it was, the next scan begins within one      *)
(* pause of it; until then, within one pause of the page's opening.  The   *)
(* first list after the opening, or after an error, may have any span; it  *)
(* came within one pause and one scan, or its successor will.              *)
Paced ==
    /\ (scan.on => left = 0 /\ time <= scan.at + LongestScan)
    /\ (~active => shown = 0)
    /\ (~table.error => table.at <= total + LongestScan)
    /\ (table.error => shown + table.at <= time)
    /\ (active /\ time <= table.at + shown =>
          IF scan.on THEN scan.at <= table.at + SamplePause ELSE time + left <= table.at + SamplePause)
    /\ (active /\ ~(time <= table.at + shown) =>
          IF scan.on THEN shown + scan.at <= SamplePause + time ELSE shown + left <= SamplePause)
    /\ (table.span > Cores * (SamplePause + LongestScan) =>
          shown + table.at <= time + SamplePause + LongestScan)

PaceInv == driver = "applet" => Paced

LEMMA ClocksAreNumbers ==
    ASSUME ScanOK
    PROVE  /\ time \in Nat /\ total \in Nat /\ left \in Nat /\ shown \in Nat
           /\ scan.on \in BOOLEAN /\ scan.at \in Nat /\ table.at \in Nat /\ table.span \in Nat
           /\ table.error \in BOOLEAN /\ active \in BOOLEAN
           /\ total <= time /\ scan.at <= time /\ table.at <= time /\ shown <= time /\ left <= SamplePause
           /\ (scan.on => total <= scan.at)
           /\ Cores * (SamplePause + LongestScan) \in Nat
<1>1. \A a, b \in Nat: a * b \in Nat
  OBVIOUS
<1>2. Cores * (SamplePause + LongestScan) \in Nat
  BY <1>1, ScanNumbers
<1> QED
  BY <1>2 DEF ScanOK, ScanTyped, ScanBounded

LEMMA PaceInvInit == ScanInit => PaceInv
<1> SUFFICES ASSUME ScanInit PROVE Paced
  BY DEF PaceInv
<1>1. ScanOK
  BY ScanOKInit
<1>2. scan.on = FALSE /\ table.error = FALSE /\ table.at = 0 /\ table.span = 0
  BY NothingTyped DEF ScanInit, NoList
<1> QED
  BY <1>1, <1>2, ClocksAreNumbers, ScanNumbers DEF ScanInit, Paced

LEMMA PaceInvNext == ScanOK /\ PaceInv /\ [ScanNext]_scanVars => PaceInv'
<1> SUFFICES ASSUME ScanOK, PaceInv, [ScanNext]_scanVars, driver' = "applet" PROVE Paced'
  BY DEF PaceInv
<1> USE DEF machine, page
<1>0. ScanTyped /\ ScanBounded
  BY DEF ScanOK
<1>1. driver = "applet"
  BY DEF ScanNext, StartProcess, EndProcess, ReadProcess, ScanTick, SetActive, Doze, BeginScan,
         EndScan, FailScan, scanVars
<1>2. Paced
  BY <1>1 DEF PaceInv
<1> DEFINE on == scan.on  at == scan.at  tat == table.at  span == table.span  err == table.error
           far == Cores * (SamplePause + LongestScan)
<1>3. /\ time \in Nat /\ total \in Nat /\ left \in Nat /\ shown \in Nat /\ on \in BOOLEAN
      /\ at \in Nat /\ tat \in Nat /\ span \in Nat /\ err \in BOOLEAN /\ active \in BOOLEAN
      /\ total <= time /\ at <= time /\ tat <= time /\ shown <= time /\ left <= SamplePause
      /\ (on => total <= at) /\ far \in Nat
      /\ SamplePause \in Nat /\ LongestScan \in Nat /\ IdlePause \in Nat /\ IdlePause <= SamplePause
  BY ClocksAreNumbers, ScanNumbers
<1>4. /\ (on => left = 0 /\ time <= at + LongestScan)
      /\ (~active => shown = 0)
      /\ (~err => tat <= total + LongestScan)
      /\ (err => shown + tat <= time)
      /\ (active /\ time <= tat + shown =>
            IF on THEN at <= tat + SamplePause ELSE time + left <= tat + SamplePause)
      /\ (active /\ ~(time <= tat + shown) =>
            IF on THEN shown + at <= SamplePause + time ELSE shown + left <= SamplePause)
      /\ (span > far => shown + tat <= time + SamplePause + LongestScan)
  BY <1>2 DEF Paced
<1>5. ASSUME NEW p \in Pids, StartProcess(p) \/ EndProcess(p) PROVE Paced'
  BY <1>2, <1>5 DEF StartProcess, EndProcess, Paced
<1>6. ASSUME NEW p \in Pids, ReadProcess(p) PROVE Paced'
  <2>1. scan'.on = scan.on /\ scan'.at = scan.at /\ UNCHANGED <<machine, total, table, left, page>>
    BY <1>0, <1>6, ReadFacts
  <2> QED
    BY <1>2, <2>1 DEF Paced
<1>7. ASSUME UNCHANGED scanVars PROVE Paced'
  BY <1>2, <1>7 DEF scanVars, Paced
<1>8. ASSUME ScanTick PROVE Paced'
  <2>1. /\ time' = time + 1
        /\ (on => time - at < LongestScan) /\ (left > 0 \/ on)
        /\ left' = (IF left > 0 THEN left - 1 ELSE 0)
        /\ shown' = (IF active THEN shown + 1 ELSE 0)
        /\ UNCHANGED <<total, scan, table, active>>
    BY <1>0, <1>1, <1>8, ScanTickFacts
  <2>2. /\ left' \in Nat /\ shown' \in Nat /\ time' \in Nat
        /\ (on => left' = 0) /\ (~on => left = left' + 1)
        /\ (active => shown' = shown + 1) /\ (~active => shown' = 0)
    BY <1>3, <1>4, <2>1
  <2>3. scan' = scan /\ table' = table /\ total' = total /\ active' = active
    BY <2>1
  <2> HIDE DEF on, at, tat, span, err, far
  <2>4. /\ (on => left' = 0 /\ time' <= at + LongestScan)
        /\ (~active => shown' = 0)
        /\ (~err => tat <= total + LongestScan)
    BY <1>3, <1>4, <2>1, <2>2
  <2>5. err => shown' + tat <= time'
    BY <1>3, <1>4, <2>1, <2>2
  <2>6. active /\ time' <= tat + shown' =>
            IF on THEN at <= tat + SamplePause ELSE time' + left' <= tat + SamplePause
    BY <1>3, <1>4, <2>1, <2>2
  <2>7. active /\ ~(time' <= tat + shown') =>
            IF on THEN shown' + at <= SamplePause + time' ELSE shown' + left' <= SamplePause
    BY <1>3, <1>4, <2>1, <2>2
  <2>8. span > far => shown' + tat <= time' + SamplePause + LongestScan
    BY <1>3, <1>4, <2>1, <2>2
  <2> QED
    BY <2>3, <2>4, <2>5, <2>6, <2>7, <2>8 DEF Paced, on, at, tat, span, err, far
<1>9. ASSUME SetActive PROVE Paced'
  <2>1. /\ active' = ~active /\ shown' = 0
        /\ UNCHANGED <<machine, total, scan, table, left>>
    BY <1>9 DEF SetActive
  <2> HIDE DEF on, at, tat, span, err, far
  <2>2. /\ (err => 0 + tat <= time)
        /\ (time <= tat + 0 => IF on THEN at <= tat + SamplePause ELSE time + left <= tat + SamplePause)
        /\ (IF on THEN 0 + at <= SamplePause + time ELSE 0 + left <= SamplePause)
        /\ 0 + tat <= time + SamplePause + LongestScan
    BY <1>3, <1>4
  <2> QED
    BY <1>4, <2>1, <2>2 DEF Paced, on, at, tat, span, err, far
<1>10. ASSUME Doze PROVE Paced'
  <2>1. /\ ~active /\ ~on /\ left' = IdlePause /\ UNCHANGED <<machine, total, scan, table, page>>
    BY <1>10 DEF Doze, Wakes
  <2> QED
    BY <1>4, <2>1 DEF Paced
<1>11. ASSUME BeginScan PROVE Paced'
  <2>1. /\ left = 0 /\ ~on /\ scan'.on = TRUE /\ scan'.at = time
        /\ UNCHANGED <<machine, total, table, left, page>>
    BY <1>0, <1>11, BeginFacts
  <2> HIDE DEF on, at, tat, span, err, far
  <2>2. /\ (active /\ time <= tat + shown => time <= tat + SamplePause)
        /\ (active /\ ~(time <= tat + shown) => shown + time <= SamplePause + time)
        /\ time <= time + LongestScan
    BY <1>3, <1>4, <2>1
  <2> QED
    BY <1>4, <2>1, <2>2 DEF Paced, on, at, tat, span, err, far
<1>12. ASSUME EndScan PROVE Paced'
  <2>1. /\ on /\ table'.span = Cores * (at - total)
        /\ table'.at = time /\ table'.error = FALSE
        /\ total' = at /\ scan' = NoScan /\ left' = SamplePause
        /\ UNCHANGED <<machine, page>>
    BY <1>0, <1>1, <1>12, EndFacts
  <2>2. scan'.on = FALSE
    BY <2>1, NothingTyped
  <2>3. table'.span > far => shown <= SamplePause + LongestScan
    <3>1. at - total <= SamplePause + LongestScan => table'.span <= far
      <4>1. \A a, b, c \in Nat: b <= c => a * b <= a * c
        OBVIOUS
      <4>2. at - total \in Nat
        <5> HIDE DEF at, on
        <5> QED
          BY <1>3, <2>1
      <4> HIDE DEF at
      <4> QED
        BY <1>3, <2>1, <4>1, <4>2, ScanNumbers
    <3>2. table'.span \in Nat
      BY <1>0, <1>12, EndFacts
    <3>3. at - total <= SamplePause + LongestScan \/ shown <= SamplePause + LongestScan
      <4> HIDE DEF on, at, tat, span, err, far
      <4>1. CASE ~active
        BY <1>3, <1>4, <4>1
      <4>2. CASE active /\ ~(time <= tat + shown)
        BY <1>3, <1>4, <2>1, <4>2
      <4>3. CASE active /\ time <= tat + shown /\ err
        BY <1>3, <1>4, <2>1, <4>3
      <4>4. CASE active /\ time <= tat + shown /\ ~err
        BY <1>3, <1>4, <2>1, <4>4
      <4> QED
        BY <4>1, <4>2, <4>3, <4>4
    <3> DEFINE wide == table'.span
    <3>4. wide \in Nat /\ (at - total <= SamplePause + LongestScan => wide <= far)
      BY <3>1, <3>2
    <3> HIDE DEF wide, far, at
    <3>5. wide > far => shown <= SamplePause + LongestScan
      BY <1>3, <3>3, <3>4
    <3> QED
      BY <3>5 DEF wide
  <2>4. /\ time <= at + LongestScan /\ (~active => shown = 0) /\ time + SamplePause <= time + SamplePause
        /\ time <= time + shown
        /\ (shown <= SamplePause + LongestScan => shown + time <= time + SamplePause + LongestScan)
    <3> HIDE DEF on, at, tat, span, err, far
    <3> QED
      BY <1>3, <1>4, <2>1
  <2> QED
    BY <2>1, <2>2, <2>3, <2>4 DEF Paced
<1>13. ASSUME FailScan PROVE Paced'
  <2>1. /\ table'.span = 0 /\ table'.at = time /\ table'.error = TRUE
        /\ scan' = NoScan /\ shown' = 0 /\ left' = SamplePause
        /\ UNCHANGED <<machine, total, active>>
    BY <1>0, <1>1, <1>13, FailFacts
  <2>2. scan'.on = FALSE
    BY <2>1, NothingTyped
  <2>3. time <= time + 0 /\ 0 + time <= time /\ ~(0 > far) /\ time + SamplePause <= time + SamplePause
    <3> HIDE DEF far
    <3> QED
      BY <1>3
  <2> QED
    BY <2>1, <2>2, <2>3 DEF Paced
<1> QED
  BY <1>5, <1>6, <1>7, <1>8, <1>9, <1>10, <1>11, <1>12, <1>13 DEF ScanNext

(* LocalProcesses and ProcSampler: a page that has been visible for two    *)
(* pauses and two scans shows a recent list, of a recent span.             *)
THEOREM ListsAreRecent == ScanSpec => []ListIsRecent
<1>1. ScanOK /\ PaceInv => ListIsRecent
  <2> SUFFICES ASSUME ScanOK, PaceInv, driver = "applet", Settled
               PROVE  /\ time - table.at <= SamplePause + LongestScan
                      /\ table.span <= Cores * (SamplePause + LongestScan)
    BY DEF ListIsRecent
  <2> DEFINE on == scan.on  at == scan.at  tat == table.at  span == table.span
             far == Cores * (SamplePause + LongestScan)
  <2>1. /\ time \in Nat /\ left \in Nat /\ shown \in Nat /\ on \in BOOLEAN
        /\ at \in Nat /\ tat \in Nat /\ span \in Nat /\ far \in Nat /\ tat <= time /\ active \in BOOLEAN
        /\ SamplePause \in Nat /\ LongestScan \in Nat
    BY ClocksAreNumbers, ScanNumbers
  <2>2. /\ (on => left = 0 /\ time <= at + LongestScan)
        /\ (~active => shown = 0)
        /\ (active /\ time <= tat + shown =>
              IF on THEN at <= tat + SamplePause ELSE time + left <= tat + SamplePause)
        /\ (active /\ ~(time <= tat + shown) =>
              IF on THEN shown + at <= SamplePause + time ELSE shown + left <= SamplePause)
        /\ (span > far => shown + tat <= time + SamplePause + LongestScan)
    BY DEF PaceInv, Paced
  <2>3. shown > 2 * (SamplePause + LongestScan)
    BY DEF Settled
  <2> HIDE DEF on, at, tat, span, far
  <2>4. active
    BY <2>1, <2>2, <2>3
  <2>5. time <= tat + shown
    BY <2>1, <2>2, <2>3, <2>4
  <2>6. time - tat <= SamplePause + LongestScan
    BY <2>1, <2>2, <2>4, <2>5
  <2>7. ~(span > far)
    BY <2>1, <2>2, <2>3, <2>6
  <2> QED
    BY <2>1, <2>6, <2>7 DEF tat, span, far
<1> QED
  BY <1>1, ScanStaysOK, PaceInvInit, PaceInvNext, PTL DEF ScanSpec

-----------------------------------------------------------------------------
LEMMA SumsGrow ==
    ASSUME NEW f \in [Pids -> Nat], NEW g \in [Pids -> Nat], \A p \in Pids: f[p] <= g[p]
    PROVE  Together(f) \in Nat /\ Together(g) \in Nat /\ Together(f) <= Together(g)
<1> DEFINE h == [p \in Pids |-> 0]
<1>1. h \in [Pids -> Nat] /\ \A p \in Pids: f[p] <= g[p] + h[p]
  OBVIOUS
<1>2. Together(h) = 0
  BY SumsOfNothing
<1> HIDE DEF h
<1>3. Together(f) \in Nat /\ Together(g) \in Nat /\ Together(f) <= Together(g) + Together(h)
  BY <1>1, SumsAdd
<1> QED
  BY <1>2, <1>3

(* What a process has used since a counter of it was read.                 *)
Since(counter, p) == IF counter.owner # 0 /\ counter.owner = owner[p] THEN used[p] - counter.jiffies ELSE 0
RowShare(rows, p) == IF rows[p].same THEN rows[p].used ELSE 0

(* The shares since the total of the scan before: of a process that the    *)
(* scan has read, its row; of another one, what it would get now.  And the *)
(* shares since the total of this scan.                                    *)
Spent == [p \in Pids |-> IF scan.on /\ p \notin scan.todo THEN RowShare(scan.rows, p) ELSE Since(prev[p], p)]
Anew == [p \in Pids |-> IF scan.on /\ p \notin scan.todo THEN Since(scan.seen[p], p) ELSE 0]

Monotone(counter, p) == counter.owner # 0 /\ counter.owner = owner[p] => counter.jiffies <= used[p]

ShareInv ==
    /\ \A p \in Pids: Monotone(prev[p], p) /\ Monotone(scan.seen[p], p)
    /\ \A p \in scan.todo: ~scan.rows[p].same
    /\ Together(Spent) <= Cores * (time - total)
    /\ (scan.on => Together(Anew) <= Cores * (time - scan.at))
    /\ SharesFit

LEMMA SharesTyped ==
    ASSUME ScanTyped, \A p \in Pids: Monotone(prev[p], p) /\ Monotone(scan.seen[p], p)
    PROVE  /\ Spent \in [Pids -> Nat] /\ Anew \in [Pids -> Nat]
           /\ \A p \in Pids: /\ Since(prev[p], p) \in Nat /\ Since(scan.seen[p], p) \in Nat
                             /\ RowShare(scan.rows, p) \in Nat /\ RowShare(table.rows, p) \in Nat
<1>1. ASSUME NEW p \in Pids
      PROVE  /\ Since(prev[p], p) \in Nat /\ Since(scan.seen[p], p) \in Nat
             /\ RowShare(scan.rows, p) \in Nat /\ RowShare(table.rows, p) \in Nat
  <2>1. \A c \in Counter: Monotone(c, p) => Since(c, p) \in Nat
    <3> SUFFICES ASSUME NEW c \in Counter, Monotone(c, p) PROVE Since(c, p) \in Nat
      OBVIOUS
    <3>1. used[p] \in Nat /\ c.jiffies \in Nat
      BY DEF ScanTyped, Counter
    <3> QED
      BY <3>1 DEF Since, Monotone
  <2>2. prev[p] \in Counter /\ scan.seen[p] \in Counter
    BY DEF ScanTyped
  <2>3. scan.rows[p].used \in Nat /\ table.rows[p].used \in Nat
    BY DEF ScanTyped, Row
  <2> QED
    BY <2>1, <2>2, <2>3 DEF RowShare
<1> QED
  BY <1>1 DEF Spent, Anew

LEMMA ShareInvInit == ScanInit => ShareInv
<1> SUFFICES ASSUME ScanInit PROVE ShareInv
  OBVIOUS
<1>1. /\ \A p \in Pids: prev[p].owner = 0 /\ scan.seen[p].owner = 0
      /\ scan.on = FALSE /\ scan.todo = {} /\ table.rows = NoRows /\ table.span = 0 /\ table.late = 0
      /\ time = 0 /\ total = 0
  BY NothingTyped DEF ScanInit, NoScan, NoList
<1>2. Spent = [p \in Pids |-> 0]
  BY <1>1 DEF Spent, Since
<1>3. [p \in Pids |-> IF table.rows[p].same THEN table.rows[p].used ELSE 0] = [p \in Pids |-> 0]
  BY <1>1 DEF NoRows, NoRow
<1>4. 0 <= Cores * (0 - 0)
  BY ScanNumbers
<1> QED
  BY <1>1, <1>2, <1>3, <1>4, SumsOfNothing DEF ShareInv, Monotone, SharesFit

(* Of the steps that let no time pass and publish nothing.                 *)
LEMMA SharesKept ==
    ASSUME ScanTyped, ScanTyped', ShareInv,
           \A p \in Pids: Monotone(prev[p], p)' /\ Monotone(scan.seen[p], p)',
           \A p \in scan'.todo: ~scan'.rows[p].same,
           \A p \in Pids: Spent'[p] <= Spent[p],
           scan'.on => scan.on /\ scan'.at = scan.at /\ \A p \in Pids: Anew'[p] <= Anew[p],
           UNCHANGED <<time, total, table>>
    PROVE  ShareInv'
<1>1. Spent \in [Pids -> Nat] /\ Anew \in [Pids -> Nat]
  BY SharesTyped DEF ShareInv
<1>2. Spent' \in [Pids -> Nat] /\ Anew' \in [Pids -> Nat]
  <2>1. (ScanTyped /\ (\A p \in Pids: Monotone(prev[p], p) /\ Monotone(scan.seen[p], p))
            => Spent \in [Pids -> Nat] /\ Anew \in [Pids -> Nat])'
    BY SharesTyped, PTL
  <2> QED
    BY <2>1
<1>3. /\ Together(Spent') <= Together(Spent) /\ Together(Spent) \in Nat /\ Together(Spent') \in Nat
      /\ (scan'.on => Together(Anew') <= Together(Anew) /\ Together(Anew) \in Nat /\ Together(Anew') \in Nat)
  BY <1>1, <1>2, SumsGrow
<1>4. Together(Spent)' = Together(Spent') /\ Together(Anew)' = Together(Anew')
  BY Zenon DEF Together, MapThenSumSet, MapThenFoldSet
<1>5. /\ Together(Spent)' <= Cores * (time' - total')
      /\ (scan'.on => Together(Anew)' <= Cores * (time' - scan'.at))
  <2>1. \A a, b, c \in Nat: a * (c - b) \in Int
    OBVIOUS
  <2>2. \A a, b \in Nat: \A c \in Int: a <= b /\ b <= c => a <= c
    OBVIOUS
  <2>3. time \in Nat /\ total \in Nat /\ scan.at \in Nat
    BY DEF ScanTyped
  <2>4. Cores * (time - total) \in Int /\ Cores * (time - scan.at) \in Int
    BY <2>1, <2>3, ScanNumbers
  <2>5. Together(Spent) <= Cores * (time - total)
    BY DEF ShareInv
  <2>6. scan'.on => Together(Anew) <= Cores * (time - scan.at)
    BY DEF ShareInv
  <2>7. Together(Spent)' <= Cores * (time - total)
    BY <1>3, <1>4, <2>2, <2>4, <2>5
  <2>8. scan'.on => Together(Anew)' <= Cores * (time - scan.at)
    BY <1>3, <1>4, <2>2, <2>4, <2>6
  <2> QED
    BY <2>7, <2>8
<1> QED
  BY <1>5 DEF ShareInv, SharesFit

(* The two sums, pid by pid.                                               *)
LEMMA SharesOfPids ==
    /\ \A p \in Pids: /\ Spent[p] = IF scan.on /\ p \notin scan.todo
                                     THEN RowShare(scan.rows, p) ELSE Since(prev[p], p)
                      /\ Anew[p] = IF scan.on /\ p \notin scan.todo THEN Since(scan.seen[p], p) ELSE 0
    /\ \A p \in Pids: /\ Spent'[p] = IF scan'.on /\ p \notin scan'.todo
                                      THEN RowShare(scan'.rows, p) ELSE Since(prev[p], p)'
                      /\ Anew'[p] = IF scan'.on /\ p \notin scan'.todo THEN Since(scan.seen[p], p)' ELSE 0
  BY DEF Spent, Anew, RowShare, Since

(* A process that begins or ends takes its counter along.                  *)
LEMMA OwnersKeepShares ==
    ASSUME ScanOK, ScanOK', ShareInv, NEW p \in Pids, StartProcess(p) \/ EndProcess(p)
    PROVE  ShareInv'
<1> USE DEF machine, page
<1>1. UNCHANGED <<time, prev, total, scan, table, left, driver, active, shown, events>>
  BY DEF StartProcess, EndProcess
<1>2. /\ ScanTyped /\ ScanTyped' /\ starts \in Nat
      /\ \A q \in Pids: /\ prev[q].owner \in Nat /\ scan.seen[q].owner \in Nat
                        /\ prev[q].owner <= starts /\ scan.seen[q].owner <= starts
                        /\ prev[q].jiffies \in Nat /\ scan.seen[q].jiffies \in Nat
  BY DEF ScanOK, ScanTyped, ScanBounded, Counter
<1>3. ASSUME NEW q \in Pids
      PROVE  \/ owner'[q] = owner[q] /\ used'[q] = used[q]
             \/ used'[q] = 0 /\ owner'[q] = 0
             \/ used'[q] = 0 /\ owner'[q] = starts + 1
  <2>1. owner \in [Pids -> Nat] /\ used \in [Pids -> Nat]
    BY <1>2 DEF ScanTyped
  <2>2. CASE StartProcess(p)
    <3>1. owner' = [owner EXCEPT ![p] = starts + 1] /\ used' = [used EXCEPT ![p] = 0]
      BY <2>2 DEF StartProcess
    <3> QED
      BY <2>1, <3>1
  <2>3. CASE EndProcess(p)
    <3>1. owner' = [owner EXCEPT ![p] = 0] /\ used' = [used EXCEPT ![p] = 0]
      BY <2>3 DEF EndProcess
    <3> QED
      BY <2>1, <3>1
  <2> QED
    BY <2>2, <2>3
<1>4. \A q \in Pids: \A c \in Counter: c.owner <= starts /\ Monotone(c, q) =>
         /\ (c.owner # 0 /\ c.owner = owner'[q] => c.jiffies <= used'[q] /\ owner'[q] = owner[q] /\ used'[q] = used[q])
  <2> SUFFICES ASSUME NEW q \in Pids, NEW c \in Counter, c.owner <= starts, Monotone(c, q),
                      c.owner # 0, c.owner = owner'[q]
               PROVE  c.jiffies <= used'[q] /\ owner'[q] = owner[q] /\ used'[q] = used[q]
    OBVIOUS
  <2>1. owner'[q] = owner[q] /\ used'[q] = used[q]
    <3>1. c.owner \in Nat
      BY DEF Counter
    <3>2. owner'[q] # starts + 1 /\ owner'[q] # 0
      BY <1>2, <3>1
    <3> QED
      BY <1>3, <3>2
  <2> QED
    BY <2>1 DEF Monotone
<1>5. \A q \in Pids: /\ prev[q] \in Counter /\ scan.seen[q] \in Counter
                    /\ Monotone(prev[q], q) /\ Monotone(scan.seen[q], q)
  BY <1>2 DEF ShareInv, ScanTyped
<1>6. \A q \in Pids: Monotone(prev[q], q)' /\ Monotone(scan.seen[q], q)'
  BY <1>1, <1>2, <1>4, <1>5 DEF Monotone
<1>7. \A q \in Pids: /\ Since(prev[q], q)' <= Since(prev[q], q)
                    /\ Since(scan.seen[q], q)' <= Since(scan.seen[q], q)
  <2> SUFFICES ASSUME NEW q \in Pids
               PROVE  /\ Since(prev[q], q)' <= Since(prev[q], q)
                      /\ Since(scan.seen[q], q)' <= Since(scan.seen[q], q)
    OBVIOUS
  <2>1. Since(prev[q], q) \in Nat /\ Since(scan.seen[q], q) \in Nat
    BY <1>2, SharesTyped DEF ShareInv
  <2>2. Since(prev[q], q)' = Since(prev[q], q) \/ Since(prev[q], q)' = 0
    BY <1>1, <1>2, <1>4, <1>5 DEF Since
  <2>3. Since(scan.seen[q], q)' = Since(scan.seen[q], q) \/ Since(scan.seen[q], q)' = 0
    BY <1>1, <1>2, <1>4, <1>5 DEF Since
  <2> QED
    BY <2>1, <2>2, <2>3
<1>8. \A q \in Pids: Spent'[q] <= Spent[q] /\ Anew'[q] <= Anew[q]
  <2>1. \A q \in Pids: RowShare(scan.rows, q) <= RowShare(scan.rows, q)
    BY <1>2, SharesTyped DEF ShareInv
  <2> QED
    BY <1>1, <1>7, <2>1, SharesOfPids
<1> QED
  BY <1>1, <1>2, <1>6, <1>8, SharesKept DEF ShareInv

LEMMA ReadKeepsShares ==
    ASSUME ScanOK, ScanOK', ShareInv, NEW p \in Pids, ReadProcess(p)
    PROVE  ShareInv'
<1> USE DEF machine, page
<1>1. /\ scan.on /\ p \in scan.todo
      /\ scan'.on = scan.on /\ scan'.at = scan.at /\ scan'.todo = scan.todo \ {p}
      /\ \A q \in Pids \ {p}: scan'.rows[q] = scan.rows[q] /\ scan'.seen[q] = scan.seen[q]
      /\ IF owner[p] = 0 THEN scan'.rows[p] = scan.rows[p] /\ scan'.seen[p] = scan.seen[p]
         ELSE /\ scan'.rows[p] = [listed |-> TRUE, used |-> UsedSince(p),
                                  same |-> prev[p].owner \in {0, owner[p]}]
              /\ scan'.seen[p] = [owner |-> owner[p], jiffies |-> used[p]]
      /\ UNCHANGED <<time, owner, used, starts, prev, total, table, left, driver, active, shown, events>>
  BY ReadFacts DEF ScanOK
<1>2. /\ ScanTyped /\ ScanTyped'
      /\ \A q \in Pids: prev[q].owner \in Nat /\ prev[q].jiffies \in Nat /\ used[q] \in Nat /\ owner[q] \in Nat
  BY DEF ScanOK, ScanTyped, Counter
<1>3. \A q \in Pids: Monotone(prev[q], q)' /\ Monotone(scan.seen[q], q)'
  <2> SUFFICES ASSUME NEW q \in Pids PROVE Monotone(prev[q], q)' /\ Monotone(scan.seen[q], q)'
    OBVIOUS
  <2>1. Monotone(prev[q], q) /\ Monotone(scan.seen[q], q)
    BY DEF ShareInv
  <2>2. \/ scan'.seen[q] = scan.seen[q]
        \/ q = p /\ scan'.seen[q] = [owner |-> owner[p], jiffies |-> used[p]]
    BY <1>1
  <2>3. Monotone(prev[q], q)'
    BY <1>1, <2>1 DEF Monotone
  <2>4. Monotone(scan.seen[q], q)'
    <3>1. CASE scan'.seen[q] = scan.seen[q]
      BY <1>1, <2>1, <3>1 DEF Monotone
    <3>2. CASE q = p /\ scan'.seen[q] = [owner |-> owner[p], jiffies |-> used[p]]
      <4>1. scan'.seen[q].jiffies = used[q] /\ used'[q] = used[q] /\ used[q] <= used[q]
        BY <1>1, <1>2, <3>2
      <4> QED
        BY <4>1 DEF Monotone
    <3> QED
      BY <2>2, <3>1, <3>2
  <2> QED
    BY <2>3, <2>4
<1>4. \A q \in scan'.todo: ~scan'.rows[q].same
  <2> SUFFICES ASSUME NEW q \in scan'.todo PROVE ~scan'.rows[q].same
    OBVIOUS
  <2>1. q \in scan.todo /\ q # p /\ q \in Pids
    BY <1>1, <1>2 DEF ScanTyped
  <2> QED
    BY <1>1, <2>1 DEF ShareInv
<1>5. \A q \in Pids: /\ Since(prev[q], q)' = Since(prev[q], q) /\ Since(prev[q], q) \in Nat
                    /\ RowShare(scan.rows, q) \in Nat /\ Since(scan.seen[q], q) \in Nat
  BY <1>1, <1>2, SharesTyped DEF ShareInv, Since
<1>6. ASSUME NEW q \in Pids \ {p} PROVE Spent'[q] <= Spent[q] /\ Anew'[q] <= Anew[q]
  <2>1. scan'.rows[q] = scan.rows[q] /\ scan'.seen[q] = scan.seen[q] /\ (q \in scan'.todo <=> q \in scan.todo)
    BY <1>1
  <2>2. RowShare(scan'.rows, q) = RowShare(scan.rows, q) /\ Since(scan.seen[q], q)' = Since(scan.seen[q], q)
    BY <1>1, <2>1 DEF RowShare, Since
  <2>3. Spent'[q] = Spent[q] /\ Anew'[q] = Anew[q]
    BY <1>1, <1>5, <2>1, <2>2, SharesOfPids
  <2>4. Spent[q] \in Nat /\ Anew[q] \in Nat
    BY <1>2, SharesTyped DEF ShareInv
  <2> QED
    BY <2>3, <2>4
<1>7. Spent'[p] <= Spent[p]
  <2>1. Spent[p] = Since(prev[p], p) /\ Spent'[p] = RowShare(scan'.rows, p)
    BY <1>1, SharesOfPids
  <2>2. CASE owner[p] = 0
    <3>1. RowShare(scan'.rows, p) = 0
      BY <1>1, <2>2 DEF RowShare, ShareInv
    <3> QED
      BY <1>5, <2>1, <3>1
  <2>3. CASE owner[p] # 0 /\ prev[p].owner = 0
    <3>1. RowShare(scan'.rows, p) = 0
      <4>1. UsedSince(p) = 0
        BY <1>2, <2>3, UsedSinceFacts
      <4> QED
        BY <1>1, <2>3, <4>1 DEF RowShare
    <3> QED
      BY <1>5, <2>1, <3>1
  <2>4. CASE owner[p] # 0 /\ prev[p].owner = owner[p]
    <3>1. prev[p].jiffies <= used[p] /\ UsedSince(p) = used[p] - prev[p].jiffies
      <4>1. prev[p].jiffies <= used[p]
        BY <2>4 DEF ShareInv, Monotone
      <4>2. used[p] >= prev[p].jiffies
        BY <1>2, <4>1
      <4> QED
        BY <1>2, <2>4, <4>1, <4>2, UsedSinceFacts
    <3>2. Since(prev[p], p) = UsedSince(p)
      BY <2>4, <3>1 DEF Since
    <3>3. RowShare(scan'.rows, p) = UsedSince(p)
      <4>1. scan'.rows[p] = [listed |-> TRUE, used |-> UsedSince(p), same |-> TRUE]
        <5>1. (prev[p].owner \in {0, owner[p]}) = TRUE
          BY <2>4
        <5> QED
          BY <1>1, <2>4, <5>1, Zenon
      <4> QED
        BY <4>1 DEF RowShare
    <3> QED
      BY <1>5, <2>1, <3>2, <3>3
  <2>5. CASE owner[p] # 0 /\ prev[p].owner # owner[p] /\ prev[p].owner # 0
    <3>1. RowShare(scan'.rows, p) = 0
      <4>1. scan'.rows[p] = [listed |-> TRUE, used |-> UsedSince(p), same |-> FALSE]
        <5>1. (prev[p].owner \in {0, owner[p]}) = FALSE
          BY <2>5
        <5> QED
          BY <1>1, <2>5, <5>1, Zenon
      <4> QED
        BY <4>1 DEF RowShare
    <3> QED
      BY <1>5, <2>1, <3>1
  <2> QED
    BY <2>2, <2>3, <2>4, <2>5
<1>8. Anew'[p] <= Anew[p]
  <2>1. Anew[p] = 0 /\ Anew'[p] = Since(scan.seen[p], p)'
    BY <1>1, SharesOfPids
  <2>2. CASE owner[p] = 0
    <3>1. Since(scan.seen[p], p)' = 0
      BY <1>1, <2>2 DEF Since
    <3> QED
      BY <2>1, <3>1
  <2>3. CASE owner[p] # 0
    <3>1. scan'.seen[p].jiffies = used[p] /\ used' = used
      BY <1>1, <2>3
    <3>2. Since(scan.seen[p], p)' = 0
      BY <1>2, <3>1 DEF Since
    <3> QED
      BY <2>1, <3>2
  <2> QED
    BY <2>2, <2>3
<1>9. \A q \in Pids: Spent'[q] <= Spent[q] /\ Anew'[q] <= Anew[q]
  BY <1>6, <1>7, <1>8
<1> QED
  BY <1>1, <1>2, <1>3, <1>4, <1>9, SharesKept

(* A tick: what the processes use of it is no more than the machine has.   *)
LEMMA TickKeepsShares ==
    ASSUME ScanOK, ScanOK', ShareInv, ScanTick
    PROVE  ShareInv'
<1>1. PICK share \in [Pids -> Nat]:
              /\ Together(share) <= Cores
              /\ \A p \in Pids: used'[p] = used[p] + share[p]
              /\ time' = time + 1
              /\ UNCHANGED <<owner, prev, total, scan, table>>
  BY ScanTickFacts DEF ScanOK
<1>2. ScanTyped /\ ScanTyped' /\ \A p \in Pids: used[p] \in Nat /\ share[p] \in Nat
  BY DEF ScanOK, ScanTyped
<1>3. \A p \in Pids: \A c \in Counter: Monotone(c, p) =>
         /\ (c.owner # 0 /\ c.owner = owner[p] => c.jiffies <= used'[p])
         /\ (c.owner # 0 /\ c.owner = owner[p] => used'[p] - c.jiffies = used[p] - c.jiffies + share[p])
  <2> SUFFICES ASSUME NEW p \in Pids, NEW c \in Counter, Monotone(c, p), c.owner # 0, c.owner = owner[p]
               PROVE  c.jiffies <= used'[p] /\ used'[p] - c.jiffies = used[p] - c.jiffies + share[p]
    OBVIOUS
  <2>1. c.jiffies \in Nat /\ c.jiffies <= used[p]
    BY DEF Counter, Monotone
  <2> QED
    BY <1>1, <1>2, <2>1
<1>4. \A p \in Pids: /\ prev[p] \in Counter /\ scan.seen[p] \in Counter
                    /\ Monotone(prev[p], p) /\ Monotone(scan.seen[p], p)
  BY <1>2 DEF ShareInv, ScanTyped
<1>5. \A p \in Pids: Monotone(prev[p], p)' /\ Monotone(scan.seen[p], p)'
  BY <1>1, <1>3, <1>4 DEF Monotone
<1>6. Spent \in [Pids -> Nat] /\ Anew \in [Pids -> Nat]
  BY <1>2, <1>4, SharesTyped
<1>7. Spent' \in [Pids -> Nat] /\ Anew' \in [Pids -> Nat]
  <2>1. (ScanTyped /\ (\A p \in Pids: Monotone(prev[p], p) /\ Monotone(scan.seen[p], p))
            => Spent \in [Pids -> Nat] /\ Anew \in [Pids -> Nat])'
    BY SharesTyped, PTL
  <2> QED
    BY <1>2, <1>5, <2>1
<1>8. ASSUME NEW p \in Pids
      PROVE  Spent'[p] <= Spent[p] + share[p] /\ Anew'[p] <= Anew[p] + share[p]
  <2>1. /\ Since(prev[p], p) \in Nat /\ Since(scan.seen[p], p) \in Nat /\ RowShare(scan.rows, p) \in Nat
    BY <1>2, <1>4, SharesTyped
  <2>2. Since(prev[p], p)' <= Since(prev[p], p) + share[p]
    <3>1. CASE prev[p].owner # 0 /\ prev[p].owner = owner[p]
      <4>1. Since(prev[p], p)' = Since(prev[p], p) + share[p]
        BY <1>1, <1>3, <1>4, <3>1 DEF Since
      <4> QED
        BY <1>2, <2>1, <4>1
    <3>2. CASE ~(prev[p].owner # 0 /\ prev[p].owner = owner[p])
      <4>1. Since(prev[p], p)' = 0
        BY <1>1, <3>2 DEF Since
      <4> QED
        BY <1>2, <2>1, <4>1
    <3> QED
      BY <3>1, <3>2
  <2>3. Since(scan.seen[p], p)' <= Since(scan.seen[p], p) + share[p]
    <3>1. CASE scan.seen[p].owner # 0 /\ scan.seen[p].owner = owner[p]
      <4>1. Since(scan.seen[p], p)' = Since(scan.seen[p], p) + share[p]
        BY <1>1, <1>3, <1>4, <3>1 DEF Since
      <4> QED
        BY <1>2, <2>1, <4>1
    <3>2. CASE ~(scan.seen[p].owner # 0 /\ scan.seen[p].owner = owner[p])
      <4>1. Since(scan.seen[p], p)' = 0
        BY <1>1, <3>2 DEF Since
      <4> QED
        BY <1>2, <2>1, <4>1
    <3> QED
      BY <3>1, <3>2
  <2>4. RowShare(scan.rows, p) <= RowShare(scan.rows, p) + share[p] /\ 0 <= 0 + share[p]
    BY <1>2, <2>1
  <2> QED
    BY <1>1, <2>2, <2>3, <2>4, SharesOfPids
<1>9. /\ Together(Spent') <= Together(Spent) + Together(share)
      /\ Together(Anew') <= Together(Anew) + Together(share)
      /\ Together(Spent') \in Nat /\ Together(Anew') \in Nat /\ Together(share) \in Nat
      /\ Together(Spent) \in Nat /\ Together(Anew) \in Nat
  BY <1>6, <1>7, <1>8, SumsAdd
<1>10. Together(Spent)' = Together(Spent') /\ Together(Anew)' = Together(Anew')
  BY Zenon DEF Together, MapThenSumSet, MapThenFoldSet
<1>11. \A a, b, c \in Nat: a * (c - b) \in Int /\ a * (c + 1 - b) = a * (c - b) + a
  OBVIOUS
<1>12. time \in Nat /\ total \in Nat /\ scan.at \in Nat /\ Cores \in Nat
  BY <1>2, ScanNumbers DEF ScanTyped
<1>13. Together(Spent)' <= Cores * (time' - total')
  <2> DEFINE w == Cores * (time - total)
             w1 == Cores * (time' - total)
             a == Together(Spent)   b == Together(Spent')   c == Together(share)
  <2>1. w \in Int /\ w1 = w + Cores
    BY <1>1, <1>11, <1>12
  <2>2. a \in Nat /\ b \in Nat /\ c \in Nat /\ b <= a + c /\ c <= Cores /\ a <= w
    BY <1>1, <1>9 DEF ShareInv
  <2>3. b <= w1
    <3> HIDE DEF w, w1, a, b, c
    <3> QED
      BY <1>12, <2>1, <2>2
  <2> QED
    BY <1>1, <1>10, <2>3
<1>14. scan'.on => Together(Anew)' <= Cores * (time' - scan'.at)
  <2> SUFFICES ASSUME scan.on PROVE Together(Anew)' <= Cores * (time' - scan.at)
    BY <1>1
  <2> DEFINE w == Cores * (time - scan.at)
             w1 == Cores * (time' - scan.at)
             a == Together(Anew)   b == Together(Anew')   c == Together(share)
  <2>1. w \in Int /\ w1 = w + Cores
    BY <1>1, <1>11, <1>12
  <2>2. a \in Nat /\ b \in Nat /\ c \in Nat /\ b <= a + c /\ c <= Cores /\ a <= w
    BY <1>1, <1>9 DEF ShareInv
  <2>3. b <= w1
    <3> HIDE DEF w, w1, a, b, c
    <3> QED
      BY <1>12, <2>1, <2>2
  <2> QED
    BY <1>10, <2>3
<1> QED
  BY <1>1, <1>5, <1>13, <1>14 DEF ShareInv, SharesFit

LEMMA TogetherPrimed == Together(Spent)' = Together(Spent') /\ Together(Anew)' = Together(Anew')
  BY Zenon DEF Together, MapThenSumSet, MapThenFoldSet

LEMMA SharesTypedNext ==
    ASSUME ScanTyped', \A p \in Pids: Monotone(prev[p], p)' /\ Monotone(scan.seen[p], p)'
    PROVE  Spent' \in [Pids -> Nat] /\ Anew' \in [Pids -> Nat]
<1>1. (ScanTyped /\ (\A p \in Pids: Monotone(prev[p], p) /\ Monotone(scan.seen[p], p))
          => Spent \in [Pids -> Nat] /\ Anew \in [Pids -> Nat])'
  BY SharesTyped, PTL
<1> QED
  BY <1>1

(* A scan that begins has read no process yet.                             *)
LEMMA BeginKeepsShares ==
    ASSUME ScanOK, ScanOK', ShareInv, BeginScan
    PROVE  ShareInv'
<1>1. /\ ~scan.on /\ scan'.on = TRUE /\ scan'.at = time /\ scan'.todo = Pids
      /\ scan'.rows = NoRows /\ scan'.seen = NoCounters
      /\ UNCHANGED <<time, owner, used, starts, prev, total, table>>
  BY BeginFacts DEF ScanOK, machine
<1>2. ScanTyped /\ ScanTyped'
  BY DEF ScanOK
<1>3. \A p \in Pids: Monotone(prev[p], p)' /\ Monotone(scan.seen[p], p)'
  BY <1>1, NothingTyped DEF ShareInv, Monotone
<1>4. \A p \in Pids: ~scan'.rows[p].same
  BY <1>1, NothingTyped DEF NoRow
<1>5. Spent \in [Pids -> Nat] /\ Spent' \in [Pids -> Nat] /\ Anew' \in [Pids -> Nat]
  BY <1>2, <1>3, SharesTyped, SharesTypedNext DEF ShareInv
<1>6. \A p \in Pids: Spent'[p] = Spent[p] /\ Anew'[p] = 0
  <2>1. \A p \in Pids: Since(prev[p], p)' = Since(prev[p], p)
    BY <1>1 DEF Since
  <2> QED
    BY <1>1, <2>1, SharesOfPids
<1>7. Spent' = Spent /\ Anew' = [p \in Pids |-> 0]
  BY <1>5, <1>6
<1>8. Together(Spent)' = Together(Spent) /\ Together(Anew)' = 0
  BY <1>7, TogetherPrimed, SumsOfNothing
<1>9. 0 <= Cores * (time - time)
  <2>1. time \in Nat
    BY <1>2 DEF ScanTyped
  <2> QED
    BY <2>1, ScanNumbers
<1> QED
  BY <1>1, <1>3, <1>4, <1>8, <1>9 DEF ShareInv, SharesFit

(* The rows of a list, as SharesFit adds them up.                          *)
Listed(rows) == [p \in Pids |-> IF rows[p].same THEN rows[p].used ELSE 0]

LEMMA ListedFacts ==
    /\ \A rows \in [Pids -> Row]: /\ Listed(rows) \in [Pids -> Nat]
                                 /\ \A p \in Pids: Listed(rows)[p] = RowShare(rows, p)
    /\ Together(Listed(NoRows)) = 0
    /\ (SharesFit <=> Together(Listed(table.rows)) <= table.span + table.late)
    /\ (SharesFit' <=> Together(Listed(table'.rows)) <= table'.span + table'.late)
<1>1. Listed(NoRows) = [p \in Pids |-> 0]
  BY DEF Listed, NoRows, NoRow
<1>2. \A rows \in [Pids -> Row]: /\ Listed(rows) \in [Pids -> Nat]
                               /\ \A p \in Pids: Listed(rows)[p] = RowShare(rows, p)
  BY DEF Listed, Row, RowShare
<1>3. SharesFit <=> Together(Listed(table.rows)) <= table.span + table.late
  BY DEF SharesFit, Listed
<1>4. SharesFit' <=> Together(Listed(table'.rows)) <= table'.span + table'.late
  BY Zenon DEF SharesFit, Listed, Together, MapThenSumSet, MapThenFoldSet
<1> QED
  BY <1>1, <1>2, <1>3, <1>4, SumsOfNothing

(* A scan that fails or ends: its list is no more than what was spent, and *)
(* what was spent since its own total is where the next one begins.        *)
LEMMA EndKeepsShares ==
    ASSUME ScanOK, ScanOK', ShareInv, EndScan \/ FailScan
    PROVE  ShareInv'
<1>1. /\ scan.on /\ scan' = NoScan /\ scan'.on = FALSE /\ scan'.todo = {} /\ scan'.seen = NoCounters
      /\ UNCHANGED <<time, owner, used, starts>>
      /\ \/ scan.todo = Pids /\ UNCHANGED <<prev, total>>
         \/ scan.todo = {} /\ prev' = scan.seen /\ total' = scan.at
  <2>1. NoScan.on = FALSE /\ NoScan.todo = {} /\ NoScan.seen = NoCounters
    BY DEF NoScan
  <2>2. CASE EndScan
    BY <2>1, <2>2, EndFacts DEF ScanOK, machine
  <2>3. CASE FailScan
    BY <2>1, <2>3, FailFacts DEF ScanOK, machine
  <2> QED
    BY <2>2, <2>3
<1>2. ScanTyped /\ ScanTyped' /\ time \in Nat /\ total \in Nat /\ scan.at \in Nat /\ Cores \in Nat
  BY ScanNumbers DEF ScanOK, ScanTyped
<1>3. \A p \in Pids: Monotone(prev[p], p)' /\ Monotone(scan.seen[p], p)'
  BY <1>1, NothingTyped DEF ShareInv, Monotone
<1>4. /\ Spent \in [Pids -> Nat] /\ Anew \in [Pids -> Nat]
      /\ Spent' \in [Pids -> Nat] /\ Anew' \in [Pids -> Nat]
  BY <1>2, <1>3, SharesTyped, SharesTypedNext DEF ShareInv
<1>5. Together(Spent)' <= Cores * (time' - total')
  <2>1. CASE scan.todo = Pids /\ UNCHANGED <<prev, total>>
    <3>1. \A p \in Pids: Spent'[p] = Spent[p]
      <4>1. \A p \in Pids: Since(prev[p], p)' = Since(prev[p], p)
        BY <1>1, <2>1 DEF Since
      <4> QED
        BY <1>1, <2>1, <4>1, SharesOfPids
    <3>2. Spent' = Spent
      BY <1>4, <3>1
    <3> QED
      BY <1>1, <2>1, <3>2, TogetherPrimed DEF ShareInv
  <2>2. CASE scan.todo = {} /\ prev' = scan.seen /\ total' = scan.at
    <3>1. \A p \in Pids: Spent'[p] = Anew[p]
      <4>1. \A p \in Pids: Since(prev[p], p)' = Since(scan.seen[p], p)
        BY <1>1, <2>2 DEF Since
      <4> QED
        BY <1>1, <2>2, <4>1, SharesOfPids
    <3>2. Spent' = Anew
      BY <1>4, <3>1
    <3> QED
      BY <1>1, <2>2, <3>2, TogetherPrimed DEF ShareInv
  <2> QED
    BY <1>1, <2>1, <2>2
<1>6. SharesFit'
  <2>1. CASE FailScan
    <3>1. table'.rows = NoRows /\ table'.span = 0 /\ table'.late = 0
      BY <2>1, FailFacts DEF ScanOK
    <3>2. 0 <= table'.span + table'.late
      BY <3>1
    <3> QED
      BY <3>1, <3>2, ListedFacts
  <2>2. CASE EndScan
    <3>1. /\ scan.todo = {} /\ table'.rows \in {NoRows, scan.rows}
          /\ table'.span = Cores * (scan.at - total) /\ table'.late = Cores * (time - scan.at)
      BY <2>2, EndFacts DEF ScanOK
    <3>2. table'.span + table'.late = Cores * (time - total) /\ Cores * (time - total) \in Int
      <4>1. \A a, b, c, d \in Nat: a * (c - b) + a * (d - c) = a * (d - b) /\ a * (d - b) \in Int
        OBVIOUS
      <4>2. table'.span = Cores * (scan.at - total) /\ table'.late = Cores * (time - scan.at)
        BY <3>1
      <4> QED
        BY <1>2, <4>1, <4>2
    <3>3. scan.rows \in [Pids -> Row]
      BY <1>2 DEF ScanTyped
    <3>4. Together(Listed(scan.rows)) <= Together(Spent) /\ Together(Listed(scan.rows)) \in Nat
          /\ Together(Spent) \in Nat
      <4>1. \A p \in Pids: Listed(scan.rows)[p] <= Spent[p]
        <5>1. \A p \in Pids: Listed(scan.rows)[p] = Spent[p]
          BY <1>1, <3>1, <3>3, ListedFacts, SharesOfPids
        <5> QED
          BY <1>4, <5>1
      <4>2. Listed(scan.rows) \in [Pids -> Nat]
        BY <3>3, ListedFacts
      <4> HIDE DEF Listed
      <4> QED
        BY <1>4, <4>1, <4>2, SumsGrow
    <3>5. \A a, b \in Nat: \A c \in Int: a <= b /\ b <= c => a <= c /\ 0 <= c
      OBVIOUS
    <3>6. Together(Spent) <= Cores * (time - total)
      BY DEF ShareInv
    <3>7. Together(Listed(scan.rows)) <= Cores * (time - total) /\ 0 <= Cores * (time - total)
      BY <3>2, <3>4, <3>5, <3>6
    <3>8. Together(Listed(table'.rows)) <= Cores * (time - total)
      BY <3>1, <3>7, ListedFacts
    <3> QED
      BY <3>2, <3>8, ListedFacts
  <2> QED
    BY <2>1, <2>2
<1> QED
  BY <1>1, <1>3, <1>5, <1>6 DEF ShareInv

LEMMA ShareInvNext == ScanOK /\ ScanOK' /\ ShareInv /\ [ScanNext]_scanVars => ShareInv'
<1> SUFFICES ASSUME ScanOK, ScanOK', ShareInv, [ScanNext]_scanVars PROVE ShareInv'
  OBVIOUS
<1>1. ASSUME SetActive \/ Doze \/ UNCHANGED scanVars PROVE ShareInv'
  <2>1. UNCHANGED <<time, owner, used, prev, total, scan, table>>
    BY <1>1 DEF SetActive, Doze, scanVars, machine
  <2>2. ScanTyped /\ ScanTyped'
    BY DEF ScanOK
  <2>3. \A p \in Pids: Monotone(prev[p], p)' /\ Monotone(scan.seen[p], p)'
    BY <2>1 DEF ShareInv, Monotone
  <2>4. Spent \in [Pids -> Nat] /\ Anew \in [Pids -> Nat]
    BY <2>2, SharesTyped DEF ShareInv
  <2>5. Spent' = Spent /\ Anew' = Anew
    BY <2>1 DEF Spent, Anew, RowShare, Since
  <2>6. \A p \in Pids: Spent[p] <= Spent[p] /\ Anew[p] <= Anew[p]
    BY <2>4
  <2>7. \A p \in scan.todo: ~scan.rows[p].same
    BY DEF ShareInv
  <2> QED
    BY <2>1, <2>2, <2>3, <2>5, <2>6, <2>7, SharesKept
<1> QED
  BY <1>1, OwnersKeepShares, ReadKeepsShares, TickKeepsShares, BeginKeepsShares, EndKeepsShares
     DEF ScanNext

(* ProcSampler::sample: for any number of processes and cores, and however *)
(* many processes come and go while a scan is under way, the shares of a   *)
(* list do not exceed the machine, apart from pids that were used again.   *)
THEOREM SharesOfListsFit == ScanSpec => []SharesFit
<1>1. ShareInv => SharesFit
  BY DEF ShareInv
<1> QED
  BY <1>1, ScanStaysOK, ShareInvInit, ShareInvNext, PTL DEF ScanSpec

-----------------------------------------------------------------------------
(* LocalSensors: whatever the counters of the machine do, the CPU load of  *)
(* the panel is a share, it is exact as long as iowait does not fall, and  *)
(* no energy is lost when the energy counter starts anew.                  *)

Counters == [busy: 0..MaxJiffies, idle: 0..MaxJiffies, iowait: 0..MaxJiffies]

(* SensorsTypeOK, with the shape of every record.                          *)
SensorsTyped ==
    /\ cpu \in Counters
    /\ energy \in 0..EnergyRange - 1
    /\ rapl \in {"absent", "unreadable", "readable"}
    /\ dips \in 0..MaxDips
    /\ since \in [busy: Nat, all: Nat, dips: Nat, energy: 0..EnergyRange - 1, wrapped: BOOLEAN]
    /\ lastCpu \in [known: BOOLEAN, total: Nat, idle: Nat]
    /\ lastUj \in [known: BOOLEAN, energy: 0..EnergyRange - 1]
    /\ range \in {0, EnergyRange}
    /\ watts \in [available: BOOLEAN, energy: Nat]
    /\ samples \in 0..HistoryMax

(* The busy jiffies at the last sample are total less idle; busy never     *)
(* falls, and all the rest that has passed is idle or has been taken back. *)
CpuInv ==
    /\ lastCpu.idle <= lastCpu.total
    /\ since.busy <= since.all
    /\ lastCpu.known =>
          /\ cpu.busy = lastCpu.total - lastCpu.idle + since.busy
          /\ Total + since.dips = lastCpu.total + since.all
    /\ ~lastCpu.known => lastCpu.total = 0 /\ lastCpu.idle = 0

(* The energy counter is as far from its last reading as the energy used.  *)
EnergyInv ==
    lastUj.known =>
        energy = IF since.wrapped THEN lastUj.energy + since.energy - EnergyRange
                                  ELSE lastUj.energy + since.energy

SensorsInv == SensorsTyped /\ CpuInv /\ EnergyInv /\ LoadIsShare

LEMMA InitInv == SensorsInit => SensorsInv
<1> SUFFICES ASSUME SensorsInit PROVE SensorsInv
  OBVIOUS
<1>1. SensorsTyped
  BY SensorsAssumption DEF SensorsInit, SensorsTyped, Counters, Unread
<1>2. CpuInv
  BY DEF SensorsInit, CpuInv, Unread
<1>3. EnergyInv /\ LoadIsShare
  BY DEF SensorsInit, EnergyInv, LoadIsShare
<1> QED BY <1>1, <1>2, <1>3 DEF SensorsInv

(* A jiffy of any kind.                                                    *)
LEMMA JiffyInv ==
  ASSUME SensorsInv, NEW kind \in {"busy", "idle", "iowait"}, Jiffy(kind)
  PROVE  SensorsInv'
<1>1. /\ cpu' = [cpu EXCEPT ![kind] = @ + 1] /\ cpu[kind] < MaxJiffies
      /\ since' = [since EXCEPT !.all = @ + 1, !.busy = IF kind = "busy" THEN @ + 1 ELSE @]
      /\ UNCHANGED <<energy, rapl, dips, lastCpu, lastUj, range, load, watts, samples>>
  BY DEF Jiffy
<1>2. /\ cpu.busy \in 0..MaxJiffies /\ cpu.idle \in 0..MaxJiffies /\ cpu.iowait \in 0..MaxJiffies
      /\ since.busy \in Nat /\ since.all \in Nat /\ since.dips \in Nat
      /\ lastCpu.total \in Nat /\ lastCpu.idle \in Nat
  BY DEF SensorsInv, SensorsTyped, Counters
<1>3. cpu' \in Counters
  BY <1>1, <1>2, SensorsAssumption DEF SensorsInv, SensorsTyped, Counters
<1>4. since' \in [busy: Nat, all: Nat, dips: Nat, energy: 0..EnergyRange - 1, wrapped: BOOLEAN]
  <2>1. since \in [busy: Nat, all: Nat, dips: Nat, energy: 0..EnergyRange - 1, wrapped: BOOLEAN]
    BY DEF SensorsInv, SensorsTyped
  <2>2. since.all + 1 \in Nat /\ since.busy + 1 \in Nat
    BY <1>2
  <2> QED BY <1>1, <2>1, <2>2, Zenon
<1>5. SensorsTyped'
  BY <1>1, <1>3, <1>4 DEF SensorsInv, SensorsTyped
<1>6. /\ cpu'.busy = IF kind = "busy" THEN cpu.busy + 1 ELSE cpu.busy
      /\ since'.busy = IF kind = "busy" THEN since.busy + 1 ELSE since.busy
      /\ since'.all = since.all + 1 /\ since'.dips = since.dips
      /\ since'.energy = since.energy /\ since'.wrapped = since.wrapped
  BY <1>1 DEF SensorsInv, SensorsTyped, Counters
<1>7. Total' = Total + 1
  <2>1. CASE kind = "busy"
    BY <1>1, <1>2, <2>1 DEF SensorsInv, SensorsTyped, Counters, Total
  <2>2. CASE kind = "idle"
    BY <1>1, <1>2, <2>2 DEF SensorsInv, SensorsTyped, Counters, Total
  <2>3. CASE kind = "iowait"
    BY <1>1, <1>2, <2>3 DEF SensorsInv, SensorsTyped, Counters, Total
  <2> QED BY <2>1, <2>2, <2>3
<1>8. Total \in Nat
  BY <1>2 DEF Total
<1>9. CpuInv'
  <2>1. since'.busy <= since'.all
    BY <1>2, <1>6 DEF SensorsInv, CpuInv
  <2>2. lastCpu.known => /\ cpu'.busy = lastCpu.total - lastCpu.idle + since'.busy
                         /\ Total' + since'.dips = lastCpu.total + since'.all
    BY <1>2, <1>6, <1>7, <1>8 DEF SensorsInv, CpuInv
  <2> QED BY <1>1, <2>1, <2>2 DEF SensorsInv, CpuInv
<1>10. EnergyInv' /\ LoadIsShare'
  BY <1>1, <1>6 DEF SensorsInv, EnergyInv, LoadIsShare
<1> QED BY <1>5, <1>9, <1>10 DEF SensorsInv

LEMMA DipInv == SensorsInv /\ Dip => SensorsInv'
<1> SUFFICES ASSUME SensorsInv, Dip PROVE SensorsInv'
  OBVIOUS
<1>1. /\ cpu.iowait > 0 /\ cpu' = [cpu EXCEPT !.iowait = @ - 1]
      /\ dips < MaxDips /\ dips' = dips + 1
      /\ since' = [since EXCEPT !.dips = @ + 1]
      /\ UNCHANGED <<energy, rapl, lastCpu, lastUj, range, load, watts, samples>>
  BY DEF Dip
<1>2. SensorsTyped'
  BY <1>1, SensorsAssumption DEF SensorsInv, SensorsTyped, Counters
<1>3. CpuInv'
  BY <1>1 DEF SensorsInv, SensorsTyped, Counters, CpuInv, Total
<1>4. EnergyInv' /\ LoadIsShare'
  BY <1>1 DEF SensorsInv, SensorsTyped, EnergyInv, LoadIsShare
<1> QED BY <1>2, <1>3, <1>4 DEF SensorsInv

(* One more than a value below a limit, modulo the limit.                  *)
LEMMA NextModulo ==
  ASSUME NEW n \in Nat \ {0}, NEW e \in 0..n - 1
  PROVE  (e + 1) % n = IF e + 1 = n THEN 0 ELSE e + 1
  OBVIOUS

LEMMA BurnInv == SensorsInv /\ Burn => SensorsInv'
<1> SUFFICES ASSUME SensorsInv, Burn PROVE SensorsInv'
  OBVIOUS
<1>1. energy' = IF energy + 1 = EnergyRange THEN 0 ELSE energy + 1
  BY NextModulo, SensorsAssumption DEF SensorsInv, SensorsTyped, Burn
<1>2. since' = [since EXCEPT !.energy = @ + 1, !.wrapped = @ \/ energy' = 0]
  BY DEF Burn
<1>3. since.energy < EnergyRange - 1
  BY DEF Burn
<1>4. UNCHANGED <<cpu, rapl, dips, lastCpu, lastUj, range, load, watts, samples>>
  BY DEF Burn
<1>5. SensorsTyped'
  <2>1. energy' \in 0..EnergyRange - 1 /\ since.energy + 1 \in 0..EnergyRange - 1
    BY <1>1, <1>3, SensorsAssumption DEF SensorsInv, SensorsTyped
  <2>2. since' \in [busy: Nat, all: Nat, dips: Nat, energy: 0..EnergyRange - 1, wrapped: BOOLEAN]
    BY <1>2, <2>1, Zenon DEF SensorsInv, SensorsTyped
  <2> QED BY <1>4, <2>1, <2>2 DEF SensorsInv, SensorsTyped
<1>6. CpuInv'
  BY <1>2, <1>4 DEF SensorsInv, SensorsTyped, CpuInv, Total
<1>7. EnergyInv'
  BY <1>1, <1>2, <1>3, <1>4, SensorsAssumption DEF SensorsInv, SensorsTyped, EnergyInv
<1> QED BY <1>4, <1>5, <1>6, <1>7 DEF SensorsInv, LoadIsShare

LEMMA MendInv == SensorsInv /\ Mend => SensorsInv'
<1> SUFFICES ASSUME SensorsInv, Mend PROVE SensorsInv'
  OBVIOUS
<1>1. /\ rapl' \in {"unreadable", "readable"}
      /\ UNCHANGED <<cpu, energy, dips, since, lastCpu, lastUj, range, load, watts, samples>>
  BY DEF Mend
<1>2. SensorsTyped' /\ CpuInv' /\ EnergyInv' /\ LoadIsShare'
  BY <1>1 DEF SensorsInv, SensorsTyped, CpuInv, EnergyInv, LoadIsShare, Total
<1> QED BY <1>2 DEF SensorsInv

LEMMA SpoilInv == SensorsInv /\ Spoil => SensorsInv'
<1> SUFFICES ASSUME SensorsInv, Spoil PROVE SensorsInv'
  OBVIOUS
<1>1. /\ rapl' = "unreadable"
      /\ UNCHANGED <<cpu, energy, dips, since, lastCpu, lastUj, range, load, watts, samples>>
  BY DEF Spoil
<1>2. SensorsTyped' /\ CpuInv' /\ EnergyInv' /\ LoadIsShare'
  BY <1>1 DEF SensorsInv, SensorsTyped, CpuInv, EnergyInv, LoadIsShare, Total
<1> QED BY <1>2 DEF SensorsInv

(* cpu_load: both differences, and what they are without a fall of iowait. *)
LEMMA CpuLoadIsShare ==
  ASSUME SensorsInv, CpuLoad
  PROVE  /\ LoadIsShare'
         /\ lastCpu.known /\ since.dips = 0
            => load' = [part |-> since.busy, whole |-> since.all]
<1>1. /\ cpu.busy \in Nat /\ cpu.idle \in Nat /\ cpu.iowait \in Nat
      /\ since.busy \in Nat /\ since.all \in Nat /\ since.dips \in Nat
      /\ lastCpu.total \in Nat /\ lastCpu.idle \in Nat
  BY DEF SensorsInv, SensorsTyped, Counters
<1>2. Total = cpu.busy + Idle /\ Idle \in Nat /\ Total \in Nat
  BY <1>1 DEF Total, Idle
<1>3. CASE ~lastCpu.known
  BY <1>3 DEF CpuLoad, LoadIsShare
<1>4. CASE lastCpu.known
  <2>1. /\ cpu.busy = lastCpu.total - lastCpu.idle + since.busy
        /\ Total + since.dips = lastCpu.total + since.all
        /\ lastCpu.idle <= lastCpu.total /\ since.busy <= since.all
    BY <1>4 DEF SensorsInv, CpuInv
  <2>2. /\ load'.part = Minus(Total, lastCpu.total) - Minus(Idle, lastCpu.idle)
        /\ load'.whole = Minus(Total, lastCpu.total)
    BY <1>4 DEF CpuLoad
  <2>3. LoadIsShare'
    BY <1>1, <1>2, <2>1, <2>2 DEF LoadIsShare, Minus
  <2>4. since.dips = 0 => /\ Minus(Total, lastCpu.total) = since.all
                          /\ since.all - Minus(Idle, lastCpu.idle) = since.busy
    BY <1>1, <1>2, <2>1 DEF Minus
  <2> QED BY <1>4, <2>3, <2>4 DEF CpuLoad
<1> QED BY <1>3, <1>4

(* cpu_watts: the energy between two readings.                             *)
LEMMA CpuWattsIsExact ==
  ASSUME SensorsInv, CpuWatts, lastUj.known, watts'.available, range # 0 \/ ~since.wrapped
  PROVE  watts'.energy = since.energy
  BY SensorsAssumption DEF CpuWatts, SensorsInv, SensorsTyped, EnergyInv, Uj, Minus

LEMMA LastReadInv == SensorsInv /\ ReadSensors => SensorsInv'
<1> SUFFICES ASSUME SensorsInv, ReadSensors PROVE SensorsInv'
  OBVIOUS
<1>1. UNCHANGED <<cpu, energy, rapl, dips, range>>
  BY DEF ReadSensors, machineVars
<1>2. \/ /\ CpuLoad /\ lastCpu' = [known |-> TRUE, total |-> Total, idle |-> Idle]
         /\ since'.busy = 0 /\ since'.all = 0 /\ since'.dips = 0
      \/ /\ CpuFails /\ lastCpu' = lastCpu
         /\ since'.busy = since.busy /\ since'.all = since.all /\ since'.dips = since.dips
  <2>1. CASE CpuLoad /\ since' = Uncounted(TRUE)
    BY <2>1 DEF CpuLoad, Uncounted
  <2>2. CASE CpuFails /\ since' = Uncounted(FALSE)
    <3>1. lastCpu' = lastCpu
      BY <2>2 DEF CpuFails
    <3>2. since'.busy = since.busy /\ since'.all = since.all /\ since'.dips = since.dips
      BY <2>2 DEF Uncounted
    <3> QED BY <2>2, <3>1, <3>2
  <2> QED BY <2>1, <2>2 DEF ReadSensors
<1>3. /\ since' \in [busy: Nat, all: Nat, dips: Nat, energy: 0..EnergyRange - 1, wrapped: BOOLEAN]
      /\ since'.energy = IF rapl = "readable" THEN 0 ELSE since.energy
      /\ since'.wrapped = IF rapl = "readable" THEN FALSE ELSE since.wrapped
  <2>1. since \in [busy: Nat, all: Nat, dips: Nat, energy: 0..EnergyRange - 1, wrapped: BOOLEAN]
        /\ 0 \in 0..EnergyRange - 1
    BY SensorsAssumption DEF SensorsInv, SensorsTyped
  <2>2. CASE since' = Uncounted(TRUE)
    BY <2>1, <2>2 DEF Uncounted
  <2>3. CASE since' = Uncounted(FALSE)
    BY <2>1, <2>3 DEF Uncounted
  <2> QED BY <2>2, <2>3 DEF ReadSensors
<1>4. /\ watts' \in [available: BOOLEAN, energy: Nat]
      /\ lastUj' = IF rapl = "readable" THEN [known |-> TRUE, energy |-> energy] ELSE lastUj
  <2>1. Uj \in Nat
    BY SensorsAssumption DEF Uj, Minus, SensorsInv, SensorsTyped
  <2>2. CASE rapl = "readable"
    <3>1. /\ watts' = [available |-> TRUE, energy |-> IF lastUj.known THEN Uj ELSE 0]
          /\ lastUj' = [known |-> TRUE, energy |-> energy]
      BY <2>2 DEF ReadSensors, CpuWatts
    <3>2. (IF lastUj.known THEN Uj ELSE 0) \in Nat
      BY <2>1
    <3>3. watts' \in [available: BOOLEAN, energy: Nat]
      BY <3>1, <3>2
    <3> QED BY <2>2, <3>1, <3>3, Zenon
  <2>3. CASE rapl # "readable"
    <3>1. watts' = [available |-> FALSE, energy |-> 0] /\ lastUj' = lastUj
      BY <2>3 DEF ReadSensors, CpuWatts
    <3>2. watts' \in [available: BOOLEAN, energy: Nat]
      BY <3>1
    <3> QED BY <2>3, <3>1, <3>2, Zenon
  <2> QED BY <2>2, <2>3, Zenon
<1>5. samples' \in 0..HistoryMax
  BY SensorsAssumption DEF ReadSensors, SensorsInv, SensorsTyped
<1>6. SensorsTyped'
  <2>1. Total \in Nat /\ Idle \in Nat
    BY DEF SensorsInv, SensorsTyped, Counters, Total, Idle
  <2>2. lastCpu' \in [known: BOOLEAN, total: Nat, idle: Nat]
    <3>1. CASE lastCpu' = lastCpu
      BY <3>1 DEF SensorsInv, SensorsTyped
    <3>2. CASE lastCpu' = [known |-> TRUE, total |-> Total, idle |-> Idle]
      BY <2>1, <3>2
    <3> QED BY <1>2, <3>1, <3>2
  <2>3. lastUj' \in [known: BOOLEAN, energy: 0..EnergyRange - 1]
    BY <1>4 DEF SensorsInv, SensorsTyped
  <2> QED BY <1>1, <1>3, <1>4, <1>5, <2>2, <2>3 DEF SensorsInv, SensorsTyped
<1>7. CpuInv'
  <2>0. cpu'.busy = cpu.busy /\ Total' = Total
    BY <1>1 DEF Total
  <2>1. CASE CpuLoad /\ lastCpu' = [known |-> TRUE, total |-> Total, idle |-> Idle]
             /\ since'.busy = 0 /\ since'.all = 0 /\ since'.dips = 0
    <3>1. lastCpu'.known = TRUE /\ lastCpu'.total = Total /\ lastCpu'.idle = Idle
      BY <2>1
    <3>2. /\ cpu.busy = Total - Idle + 0 /\ Idle <= Total /\ Total + 0 = Total + 0
          /\ 0 <= 0
      BY DEF SensorsInv, SensorsTyped, Counters, Total, Idle
    <3> QED BY <2>0, <2>1, <3>1, <3>2, Zenon DEF CpuInv
  <2>2. CASE CpuFails /\ lastCpu' = lastCpu
             /\ since'.busy = since.busy /\ since'.all = since.all /\ since'.dips = since.dips
    BY <2>0, <2>2 DEF SensorsInv, CpuInv
  <2> QED BY <1>2, <2>1, <2>2
<1>8. EnergyInv'
  <2>1. CASE rapl = "readable"
    BY <1>1, <1>3, <1>4, <2>1, SensorsAssumption DEF SensorsInv, SensorsTyped, EnergyInv
  <2>2. CASE rapl # "readable"
    BY <1>1, <1>3, <1>4, <2>2 DEF SensorsInv, EnergyInv
  <2> QED BY <2>1, <2>2
<1>9. LoadIsShare'
  <2>1. CASE CpuLoad
    BY <2>1, CpuLoadIsShare
  <2>2. CASE CpuFails
    BY <2>2 DEF CpuFails, LoadIsShare
  <2> QED BY <1>2, <2>1, <2>2
<1> QED BY <1>6, <1>7, <1>8, <1>9 DEF SensorsInv

LEMMA SensorsHold == SensorsSpec => []SensorsInv
<1>1. SensorsInv /\ [SensorsNext]_sensorVars => SensorsInv'
  <2> SUFFICES ASSUME SensorsInv, [SensorsNext]_sensorVars PROVE SensorsInv'
    OBVIOUS
  <2>1. CASE \E kind \in {"busy", "idle", "iowait"}: Jiffy(kind)
    BY <2>1, JiffyInv
  <2>2. CASE Dip
    BY <2>2, DipInv
  <2>3. CASE Burn
    BY <2>3, BurnInv
  <2>4. CASE Mend
    BY <2>4, MendInv
  <2>5. CASE ReadSensors
    BY <2>5, LastReadInv
  <2>6. CASE Spoil
    BY <2>6, SpoilInv
  <2>7. CASE UNCHANGED sensorVars
    BY <2>7
       DEF sensorVars, machineVars, SensorsInv, SensorsTyped, CpuInv, EnergyInv, LoadIsShare, Total
  <2> QED BY <2>1, <2>2, <2>3, <2>4, <2>5, <2>6, <2>7 DEF SensorsNext
<1> QED BY InitInv, <1>1, PTL DEF SensorsSpec

(* Monitor's values keep their types, for any range of the energy counter, *)
(* any length of the history and any number of jiffies.                    *)
THEOREM SensorsTypeCorrect == SensorsSpec => []SensorsTypeOK
<1>1. SensorsInv => SensorsTypeOK
  BY DEF SensorsInv, SensorsTyped, Counters, CpuInv, SensorsTypeOK
<1> QED BY SensorsHold, <1>1, PTL

(* cpu_load: a load is between 0 and 100 %; its unsigned subtraction does  *)
(* not go below zero although the kernel takes iowait back.                *)
THEOREM LoadsAreShares == SensorsSpec => []LoadIsShare
<1>1. SensorsInv => LoadIsShare
  BY DEF SensorsInv
<1> QED BY SensorsHold, <1>1, PTL

(* cpu_load: without a fall of iowait the load is the busy part of all     *)
(* jiffies since the counters were last read.                              *)
THEOREM LoadsAreExact == SensorsSpec => LoadIsExact
<1>1. SensorsInv /\ [SensorsNext]_sensorVars
      => [ReadSensors /\ CpuLoad /\ lastCpu.known /\ since.dips = 0
          => load' = [part |-> since.busy, whole |-> since.all]]_sensorVars
  BY CpuLoadIsShare DEF ReadSensors
<1> QED BY SensorsHold, <1>1, PTL DEF SensorsSpec, LoadIsExact

(* cpu_watts: all the energy since the last reading counts and no other,   *)
(* also when the counter has started anew, and when it could not be read   *)
(* for a while after a reading.                                            *)
THEOREM EnergyAddsUp == SensorsSpec => EnergyIsExact
<1>1. SensorsInv /\ [SensorsNext]_sensorVars
      => [ReadSensors /\ lastUj.known /\ watts'.available /\ (range # 0 \/ ~since.wrapped)
          => watts'.energy = since.energy]_sensorVars
  BY CpuWattsIsExact DEF ReadSensors
<1> QED BY SensorsHold, <1>1, PTL DEF SensorsSpec, EnergyIsExact
=============================================================================
