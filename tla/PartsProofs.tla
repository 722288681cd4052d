---------------------------- MODULE PartsProofs -----------------------------
(***************************************************************************)
(* Proofs about NodeList, for any spellings, files and numbers of applets: *)
(* the lists in memory name no node twice, and what one applet saves the   *)
(* others keep.  And about MCParts: each of its five modules behaves in it *)
(* as it does alone.                                                       *)
(***************************************************************************)
EXTENDS MCParts, AgentRequestsProofs, SamplersProofs

(* A list that names no node twice.                                        *)
Distinct(nodes) == \A j, k \in DOMAIN nodes: Canonical(nodes[j]) = Canonical(nodes[k]) => j = k

(* Every entry of kept is the first spelling of its node among the first k. *)
FirstSpelled(nodes, kept, k) ==
    \A j \in DOMAIN kept: \E i \in 1..k:
        kept[j] = nodes[i] /\ \A h \in 1..(i - 1): Canonical(nodes[h]) # Canonical(nodes[i])

(* What deduplicate_targets keeps of the first k nodes: each of them once, *)
(* as it was spelled first, and all as they are if each has a name and     *)
(* none is named twice.                                                    *)
Left(nodes, kept, k) ==
    /\ kept \in Seq(Spellings)
    /\ Distinct(kept)
    /\ {Canonical(kept[j]): j \in DOMAIN kept} = {Canonical(nodes[j]): j \in 1..k} \ {NoName}
    /\ Distinct(nodes) /\ NoName \notin Nodes(nodes) => kept = SubSeq(nodes, 1, k)
    /\ FirstSpelled(nodes, kept, k)

(* Appending to a list a node that it does not name.                       *)
LEMMA AppendedFacts ==
    ASSUME NEW nodes \in Seq(Spellings), NEW s \in Spellings
    PROVE  /\ Append(nodes, s) \in Seq(Spellings)
           /\ Nodes(Append(nodes, s)) = Nodes(nodes) \union {Canonical(s)}
           /\ Distinct(nodes) /\ ~contains_target(nodes, s) => Distinct(Append(nodes, s))
           /\ DOMAIN Append(nodes, s) = DOMAIN nodes \union {Len(nodes) + 1}
           /\ \A i \in DOMAIN nodes: Append(nodes, s)[i] = nodes[i]
           /\ Append(nodes, s)[Len(nodes) + 1] = s
<1> DEFINE more == Append(nodes, s)
           n == Len(nodes)
<1>1. /\ more \in Seq(Spellings) /\ n \in Nat /\ Len(more) = n + 1
      /\ DOMAIN more = 1..(n + 1) /\ DOMAIN nodes = 1..n
      /\ \A i \in 1..n: more[i] = nodes[i]
      /\ more[n + 1] = s
    BY AppendProperties, LenProperties
<1> HIDE DEF more, n
<1>2. Nodes(more) = Nodes(nodes) \union {Canonical(s)}
  <2>1. ASSUME NEW v \in Nodes(more) PROVE v \in Nodes(nodes) \union {Canonical(s)}
    <3>1. PICK i \in 1..(n + 1): v = Canonical(more[i])
        BY <1>1, <2>1 DEF Nodes
    <3>2. CASE i \in 1..n
        BY <1>1, <3>1, <3>2 DEF Nodes
    <3>3. CASE i = n + 1
        BY <1>1, <3>1, <3>3
    <3> QED
        BY <1>1, <3>2, <3>3
  <2>2. Nodes(nodes) \subseteq Nodes(more)
      <3>1. ASSUME NEW v \in Nodes(nodes) PROVE v \in Nodes(more)
        <4>1. PICK i \in 1..n: v = Canonical(nodes[i])
            BY <1>1, <3>1 DEF Nodes
        <4>2. i \in 1..(n + 1) /\ v = Canonical(more[i])
            BY <1>1, <4>1
        <4> QED
            BY <1>1, <4>2 DEF Nodes
      <3> QED
        BY <3>1
  <2>3. Canonical(s) \in Nodes(more)
    <3>1. n + 1 \in 1..(n + 1)
        BY <1>1
    <3> QED
        BY <3>1, <1>1 DEF Nodes
  <2> QED
      BY <2>1, <2>2, <2>3
<1>3. ASSUME Distinct(nodes), ~contains_target(nodes, s) PROVE Distinct(more)
  <2> SUFFICES ASSUME NEW j \in 1..(n + 1), NEW k \in 1..(n + 1), Canonical(more[j]) = Canonical(more[k])
               PROVE  j = k
      BY <1>1 DEF Distinct
  <2>1. \A i \in 1..n: Canonical(more[i]) # Canonical(s)
      BY <1>1, <1>3 DEF contains_target
  <2>2. CASE j \in 1..n /\ k \in 1..n
      BY <1>1, <1>3, <2>2 DEF Distinct
  <2>3. CASE j = n + 1 /\ k = n + 1
      BY <2>3
  <2>4. CASE j \in 1..n /\ k = n + 1
      BY <1>1, <2>1, <2>4
  <2>5. CASE j = n + 1 /\ k \in 1..n
      BY <1>1, <2>1, <2>5
  <2> QED
      BY <1>1, <2>2, <2>3, <2>4, <2>5
<1>4. 1..(n + 1) = 1..n \union {n + 1}
    BY <1>1
<1> QED
    BY <1>1, <1>2, <1>3, <1>4 DEF more, n

(***************************************************************************)
(* deduplicate_targets, for every list: each node of it once, under the    *)
(* spelling that comes first, and the list itself if each of its texts     *)
(* names one and none is named twice.                                      *)
(* The function that defines it exists, and is right at every index, since *)
(* there is no first at which it would not be.                             *)
(***************************************************************************)
THEOREM DeduplicationIsRight ==
    ASSUME NEW nodes \in Seq(Spellings)
    PROVE  /\ deduplicate_targets(nodes) \in Seq(Spellings)
           /\ Distinct(deduplicate_targets(nodes))
           /\ Nodes(deduplicate_targets(nodes)) = Nodes(nodes) \ {NoName}
           /\ FirstSpelled(nodes, deduplicate_targets(nodes), Len(nodes))
           /\ Distinct(nodes) /\ NoName \notin Nodes(nodes)
              => deduplicate_targets(nodes) = nodes
<1> DEFINE n == Len(nodes)
           Next1(f, k) == IF k = 0 THEN <<>>
                          ELSE IF Canonical(nodes[k]) = NoName \/ contains_target(f[k - 1], nodes[k])
                               THEN f[k - 1]
                               ELSE Append(f[k - 1], nodes[k])
           Upto(f, m) == f = [k \in 0..m |-> Next1(f, k)]
<1>1. n \in Nat /\ DOMAIN nodes = 1..n /\ \A k \in 1..n: nodes[k] \in Spellings
    BY LenProperties, ElementOfSeq
<1>2. \A m \in Nat: \E f: Upto(f, m)
  <2> SUFFICES ASSUME {m \in Nat: ~\E f: Upto(f, m)} # {} PROVE FALSE
    OBVIOUS
  <2>1. PICK m \in {i \in Nat: ~\E f: Upto(f, i)}: \A i \in {i \in Nat: ~\E f: Upto(f, i)}: m <= i
    <3> DEFINE T == {i \in Nat: ~\E f: Upto(f, i)}
    <3>1. T \in SUBSET Nat /\ T # {}
      OBVIOUS
    <3> HIDE DEF T
    <3>2. \E i \in T: \A j \in T: i <= j
      BY <3>1, LeastElement
    <3> QED
      BY <3>2 DEF T
  <2>2. CASE m = 0
    <3>1. Upto([k \in 0..0 |-> <<>>], 0)
      OBVIOUS
    <3> QED
      BY <2>1, <2>2, <3>1
  <2>3. CASE m # 0
    <3>1. m - 1 \in Nat /\ m \in Nat
      BY <2>1, <2>3
    <3>2. PICK f: Upto(f, m - 1)
      <4> HIDE DEF Upto
      <4>1. ~(m <= m - 1)
        BY <3>1
      <4> QED
        BY <2>1, <3>1, <4>1
    <3> DEFINE g == [k \in 0..m |-> IF k < m THEN f[k] ELSE Next1(f, m)]
    <3>3. \A k \in 0..m: g[k] = Next1(g, k)
      <4> SUFFICES ASSUME NEW k \in 0..m PROVE g[k] = Next1(g, k)
        OBVIOUS
      <4>1. CASE k < m
        <5>1. k \in 0..m - 1 /\ g[k] = f[k]
          BY <3>1, <4>1
        <5>2. f[k] = Next1(f, k)
          BY <3>2, <5>1
        <5>3. k # 0 => k - 1 \in 0..m /\ k - 1 < m /\ g[k - 1] = f[k - 1]
          BY <3>1, <5>1
        <5> QED
          BY <5>1, <5>2, <5>3
      <4>2. CASE k = m
        <5>1. g[k] = Next1(f, m) /\ k # 0 /\ g[k - 1] = f[k - 1]
          BY <2>3, <3>1, <4>2
        <5> QED
          BY <4>2, <5>1
      <4> QED
        BY <4>1, <4>2, <3>1
    <3>4. Upto(g, m)
      BY <3>3
    <3> QED
      BY <2>1, <3>4
  <2> QED
    BY <2>2, <2>3
<1> DEFINE kept == CHOOSE f: Upto(f, n)
<1>3. Upto(kept, n)
    BY <1>1, <1>2
<1>4. deduplicate_targets(nodes) = kept[n]
    BY DEF deduplicate_targets
<1> HIDE DEF kept
<1>5. \A k \in 0..n: Left(nodes, kept[k], k)
  <2> SUFFICES ASSUME {k \in 0..n: ~Left(nodes, kept[k], k)} # {} PROVE FALSE
    OBVIOUS
  <2> DEFINE T == {k \in 0..n: ~Left(nodes, kept[k], k)}
  <2>1. T \in SUBSET Nat /\ T # {}
    OBVIOUS
  <2>2. PICK k \in T: \A i \in T: k <= i
    <3> HIDE DEF T
    <3> QED
      BY <2>1, LeastElement
  <2>3. k \in 0..n /\ ~Left(nodes, kept[k], k) /\ kept[k] = Next1(kept, k)
    BY <1>3, <2>2
  <2>4. CASE k = 0
    <3>1. kept[k] = <<>>
      BY <2>3, <2>4
    <3>2. SubSeq(nodes, 1, 0) = <<>>
      BY <1>1, SubSeqProperties
    <3>3. <<>> \in Seq(Spellings) /\ DOMAIN <<>> = {} /\ 1..0 = {}
      BY EmptySeq
    <3>4. Left(nodes, <<>>, 0)
      BY <3>2, <3>3 DEF Left, Distinct, FirstSpelled
    <3> QED
      BY <2>3, <2>4, <3>1, <3>4
  <2>5. CASE k # 0
    <3>1. /\ k - 1 \in 0..n /\ k \in 1..n /\ k - 1 \notin T
          /\ nodes[k] \in Spellings /\ k \in Nat
      BY <1>1, <2>2, <2>3, <2>5
    <3>2. Left(nodes, kept[k - 1], k - 1)
      BY <3>1
    <3> DEFINE old == kept[k - 1]
               s == nodes[k]
    <3>3. kept[k] = IF Canonical(s) = NoName \/ contains_target(old, s) THEN old ELSE Append(old, s)
      BY <2>3, <2>5
    <3>4. /\ old \in Seq(Spellings) /\ Distinct(old) /\ s \in Spellings
          /\ Nodes(old) = {Canonical(nodes[j]): j \in 1..(k - 1)} \ {NoName}
          /\ Distinct(nodes) /\ NoName \notin Nodes(nodes) => old = SubSeq(nodes, 1, k - 1)
          /\ FirstSpelled(nodes, old, k - 1)
      BY <3>1, <3>2 DEF Left, Nodes
    <3> HIDE DEF old
    <3>5. {Canonical(nodes[j]): j \in 1..k} = {Canonical(nodes[j]): j \in 1..(k - 1)} \union {Canonical(s)}
      <4>1. 1..k = 1..(k - 1) \union {k}
        BY <3>1
      <4> QED
        BY <4>1
    <3>6. contains_target(old, s) <=> Canonical(s) \in Nodes(old)
      BY DEF contains_target, Nodes
    <3>7. Distinct(nodes) => Canonical(s) \notin Nodes(old)
      <4> SUFFICES ASSUME Distinct(nodes), Canonical(s) \in Nodes(old) PROVE FALSE
        OBVIOUS
      <4>1. PICK j \in 1..(k - 1): Canonical(nodes[k]) = Canonical(nodes[j])
        BY <3>4
      <4>2. j \in 1..n /\ j # k
        BY <1>1, <3>1
      <4> QED
        BY <1>1, <3>1, <4>1, <4>2 DEF Distinct
    <3>8. Distinct(nodes) /\ NoName \notin Nodes(nodes) => Append(old, s) = SubSeq(nodes, 1, k)
      <4> SUFFICES ASSUME Distinct(nodes), NoName \notin Nodes(nodes)
                   PROVE  Append(SubSeq(nodes, 1, k - 1), nodes[k]) = SubSeq(nodes, 1, k)
        BY <3>4
      <4> DEFINE a == SubSeq(nodes, 1, k - 1)
                 b == SubSeq(nodes, 1, k)
                 c == Append(a, nodes[k])
      <4>1. /\ a \in Seq(Spellings) /\ Len(a) = k - 1
            /\ \A i \in 1..(k - 1): a[i] = nodes[i]
        BY <1>1, <3>1, SubSeqProperties
      <4>2. /\ b \in Seq(Spellings) /\ Len(b) = k
            /\ \A i \in 1..k: b[i] = nodes[i]
        BY <1>1, <3>1, SubSeqProperties
      <4> HIDE DEF a, b
      <4>3. /\ c \in Seq(Spellings) /\ Len(c) = k
            /\ \A i \in 1..(k - 1): c[i] = a[i]
            /\ c[k] = nodes[k]
        BY <3>1, <4>1, AppendProperties
      <4>4. \A i \in 1..k: c[i] = b[i]
        BY <3>1, <4>1, <4>2, <4>3
      <4> HIDE DEF c
      <4>5. c = b
        BY <4>2, <4>3, <4>4, SeqEqual
      <4> QED
        BY <4>5 DEF a, b, c
    <3>9. FirstSpelled(nodes, old, k)
      <4>1. 1..(k - 1) \subseteq 1..k
        BY <3>1
      <4> QED
        BY <3>4, <4>1 DEF FirstSpelled
    <3>10. CASE Canonical(s) = NoName \/ contains_target(old, s)
      <4>1. kept[k] = old
        BY <3>3, <3>10
      <4>2. NoName \notin Nodes(nodes) => Canonical(s) # NoName
        BY <1>1, <3>1 DEF Nodes
      <4>3. Nodes(old) = {Canonical(nodes[j]): j \in 1..k} \ {NoName}
        BY <3>4, <3>5, <3>6, <3>10
      <4>4. Left(nodes, old, k)
        BY <3>4, <3>6, <3>7, <3>10, <3>9, <4>2, <4>3 DEF Left, Nodes
      <4> QED
        BY <2>3, <4>1, <4>4
    <3>11. CASE ~(Canonical(s) = NoName \/ contains_target(old, s))
      <4>1. kept[k] = Append(old, s)
        BY <3>3, <3>11
      <4>2. /\ Append(old, s) \in Seq(Spellings)
            /\ Nodes(Append(old, s)) = Nodes(old) \union {Canonical(s)}
            /\ Distinct(Append(old, s))
        BY <3>4, <3>11, AppendedFacts
      <4>3. FirstSpelled(nodes, Append(old, s), k)
        <5> DEFINE more == Append(old, s)
        <5>1. /\ DOMAIN more = DOMAIN old \union {Len(old) + 1}
              /\ \A i \in DOMAIN old: more[i] = old[i]
              /\ more[Len(old) + 1] = nodes[k]
          BY <3>4, AppendedFacts
        <5> HIDE DEF more
        <5>2. ASSUME NEW h \in 1..(k - 1) PROVE Canonical(nodes[h]) # Canonical(nodes[k])
          BY <3>4, <3>6, <3>11
        <5>3. k \in 1..k
          BY <3>1
        <5>4. FirstSpelled(nodes, more, k)
          BY <3>9, <5>1, <5>2, <5>3 DEF FirstSpelled
        <5> QED
          BY <5>4 DEF more
      <4>4. Left(nodes, Append(old, s), k)
        <5> DEFINE more == Append(old, s)
        <5> HIDE DEF more
        <5> QED
          BY <3>4, <3>5, <3>8, <3>11, <4>2, <4>3 DEF Left, Nodes, more
      <4> QED
        BY <2>3, <4>1, <4>4
    <3> QED
      BY <3>10, <3>11
  <2> QED
    BY <2>4, <2>5
<1>6. Left(nodes, kept[n], n)
    BY <1>1, <1>5
<1>7. SubSeq(nodes, 1, n) = nodes
    BY <1>1, SubSeqFull
<1> QED
    BY <1>1, <1>4, <1>6, <1>7 DEF Left, Nodes

(* Taking the k-th node out of a list.                                     *)
LEMMA RemovedFacts ==
    ASSUME NEW nodes \in Seq(Spellings), NEW k \in DOMAIN nodes
    PROVE  /\ RemoveAt(nodes, k) \in Seq(Spellings)
           /\ Distinct(nodes) => Distinct(RemoveAt(nodes, k))
           /\ Nodes(nodes) \subseteq Nodes(RemoveAt(nodes, k)) \union {Canonical(nodes[k])}
<1> DEFINE n == Len(nodes)
           a == SubSeq(nodes, 1, k - 1)
           b == SubSeq(nodes, k + 1, n)
           c == a \o b
<1>1. n \in Nat /\ DOMAIN nodes = 1..n /\ k \in 1..n
    BY LenProperties
<1>2. a \in Seq(Spellings) /\ Len(a) = k - 1 /\ \A i \in 1..(k - 1): a[i] = nodes[i]
    BY <1>1, SubSeqProperties
<1>3. b \in Seq(Spellings) /\ Len(b) = n - k /\ \A i \in 1..(n - k): b[i] = nodes[k + i]
  <2>1. k + 1 \in Int /\ n \in Int /\ \A i \in (k + 1)..n: nodes[i] \in Spellings
    BY <1>1, ElementOfSeq
  <2>2. /\ b \in Seq(Spellings)
        /\ Len(b) = IF k + 1 <= n THEN n - (k + 1) + 1 ELSE 0
        /\ \A i \in 1..(n - (k + 1) + 1): b[i] = nodes[(k + 1) + i - 1]
    BY <2>1, SubSeqProperties
  <2> HIDE DEF b
  <2>3. Len(b) = n - k
    BY <1>1, <2>2
  <2>4. ASSUME NEW i \in 1..(n - k) PROVE b[i] = nodes[k + i]
    <3>1. i \in 1..(n - (k + 1) + 1) /\ (k + 1) + i - 1 = k + i
      BY <1>1
    <3> QED
      BY <2>2, <3>1
  <2> QED
    BY <2>2, <2>3, <2>4
<1> HIDE DEF a, b
<1>4. c \in Seq(Spellings) /\ Len(c) = n - 1
  <2>1. c \in Seq(Spellings) /\ Len(c) = Len(a) + Len(b)
    BY <1>2, <1>3, ConcatProperties
  <2> QED
    BY <1>1, <1>2, <1>3, <2>1
<1>5. \A i \in 1..(n - 1): c[i] = nodes[IF i < k THEN i ELSE i + 1]
  <2> SUFFICES ASSUME NEW i \in 1..(n - 1) PROVE c[i] = nodes[IF i < k THEN i ELSE i + 1]
    OBVIOUS
  <2>1. CASE i < k
    <3>1. i \in 1..(k - 1) /\ i \in 1..(Len(a) + Len(b)) /\ i <= Len(a)
      BY <1>1, <1>2, <1>3, <2>1
    <3> QED
      BY <1>2, <1>3, <2>1, <3>1, ConcatProperties
  <2>2. CASE ~(i < k)
    <3>1. /\ i - (k - 1) \in 1..(n - k) /\ i \in 1..(Len(a) + Len(b)) /\ ~(i <= Len(a))
          /\ k + (i - (k - 1)) = i + 1 /\ i - Len(a) = i - (k - 1)
      BY <1>1, <1>2, <1>3, <2>2
    <3>2. c[i] = b[i - Len(a)]
      BY <1>2, <1>3, <3>1, ConcatProperties
    <3>3. b[i - (k - 1)] = nodes[k + (i - (k - 1))]
      BY <1>3, <3>1
    <3> QED
      BY <2>2, <3>1, <3>2, <3>3, Zenon
  <2> QED
    BY <2>1, <2>2
<1>6. RemoveAt(nodes, k) = c
    BY DEF RemoveAt, a, b
<1>7. DOMAIN c = 1..(n - 1)
    BY <1>4, LenProperties
<1> HIDE DEF c
<1>8. ASSUME Distinct(nodes) PROVE Distinct(c)
  <2> SUFFICES ASSUME NEW i \in 1..(n - 1), NEW j \in 1..(n - 1), Canonical(c[i]) = Canonical(c[j])
               PROVE  i = j
    BY <1>7 DEF Distinct
  <2> DEFINE p == IF i < k THEN i ELSE i + 1
             q == IF j < k THEN j ELSE j + 1
  <2>1. p \in 1..n /\ q \in 1..n
    BY <1>1
  <2>2. c[i] = nodes[p] /\ c[j] = nodes[q]
    BY <1>5
  <2>3. p = q
    <3> HIDE DEF p, q
    <3> QED
      BY <1>1, <1>8, <2>1, <2>2 DEF Distinct
  <2> QED
    BY <1>1, <2>3
<1>9. ASSUME NEW v \in Nodes(nodes) PROVE v \in Nodes(c) \union {Canonical(nodes[k])}
  <2>1. PICK j \in 1..n: v = Canonical(nodes[j])
    BY <1>1, <1>9 DEF Nodes
  <2>2. CASE j = k
    BY <2>1, <2>2
  <2>3. CASE j < k
    <3>1. j \in 1..(n - 1) /\ c[j] = nodes[j]
      BY <1>1, <1>5, <2>3
    <3> QED
      BY <1>7, <2>1, <3>1 DEF Nodes
  <2>4. CASE j > k
    <3>1. j - 1 \in 1..(n - 1) /\ ~(j - 1 < k) /\ (j - 1) + 1 = j
      BY <1>1, <2>4
    <3>2. c[j - 1] = nodes[j]
      BY <1>5, <3>1
    <3> QED
      BY <1>7, <2>1, <3>1, <3>2 DEF Nodes
  <2> QED
    BY <1>1, <2>2, <2>3, <2>4
<1> QED
    BY <1>4, <1>6, <1>8, <1>9

-----------------------------------------------------------------------------
Files == [state: {"absent", "broken", "whole"}, agents: Seq(Spellings)]

(* The types, with lists that name no node twice.                          *)
ListTyped ==
    /\ up \in [Applets -> BOOLEAN] /\ env \in [Applets -> BOOLEAN]
    /\ list \in [Applets -> Seq(Spellings)]
    /\ \A a \in Applets: Distinct(list[a])
    /\ file \in Files
    /\ removed \in [Applets -> SUBSET {Canonical(s): s \in Spellings}]
    /\ current \in [Applets -> BOOLEAN]
    /\ edits \in 0..MaxEdits

(* What the file holds and a current applet does not, its user has taken   *)
(* out.                                                                    *)
Agrees(a) ==
    current[a] => /\ file.state = "whole"
                  /\ Nodes(file.agents) \subseteq Nodes(list[a]) \union removed[a] \union {NoName}

ListInv == ListTyped /\ \A a \in Applets: Agrees(a)

LEMMA EmptyListFacts == <<>> \in Seq(Spellings) /\ Distinct(<<>>) /\ Nodes(<<>>) = {}
<1>1. <<>> \in Seq(Spellings) /\ DOMAIN <<>> = {}
    BY EmptySeq
<1> QED
    BY <1>1 DEF Distinct, Nodes

LEMMA LoadFacts ==
    ASSUME file \in Files, NEW withEnv \in BOOLEAN
    PROVE  /\ Load(withEnv) \in Seq(Spellings) /\ Distinct(Load(withEnv))
           /\ ~withEnv /\ file.state = "whole"
              => Nodes(file.agents) \subseteq Nodes(Load(withEnv)) \union {NoName}
           /\ /\ ~withEnv /\ file.state = "whole" /\ file.agents # <<>>
              /\ Distinct(file.agents) /\ NoName \notin Nodes(file.agents)
              => Load(withEnv) = file.agents
<1> DEFINE nodes == IF withEnv /\ EnvNodes # <<>> THEN EnvNodes
                    ELSE IF file.state = "whole" /\ file.agents # <<>> THEN file.agents
                    ELSE Defaults
<1>1. nodes \in Seq(Spellings)
  <2>1. file.agents \in Seq(Spellings)
    BY DEF Files
  <2> QED
    BY <2>1, ListAssumption
<1>2. ~withEnv /\ file.state = "whole" /\ file.agents # <<>> => nodes = file.agents
    OBVIOUS
<1>3. Load(withEnv) = deduplicate_targets(nodes)
    BY DEF Load
<1> HIDE DEF nodes
<1>4. /\ Load(withEnv) \in Seq(Spellings) /\ Distinct(Load(withEnv))
      /\ Nodes(Load(withEnv)) = Nodes(nodes) \ {NoName}
      /\ Distinct(nodes) /\ NoName \notin Nodes(nodes) => Load(withEnv) = nodes
    BY <1>1, <1>3, DeduplicationIsRight
<1>5. file.agents = <<>> => Nodes(file.agents) = {}
    BY EmptyListFacts
<1> QED
    BY <1>2, <1>4, <1>5

LEMMA EntryFacts ==
    ASSUME NEW s \in Spellings
    PROVE  Entry(s) \in Spellings /\ Canonical(Entry(s)) = Canonical(s)
<1>1. CASE Bare(s)
  <2>1. Entry(s) = [s EXCEPT !.port = DefaultPort]
    BY <1>1 DEF Entry
  <2>2. Entry(s) \in Spellings
    BY <1>1, <2>1, ListAssumption DEF Bare
  <2>3. s \in [host: STRING, scheme: Schemes, port: {NoPort, DefaultPort, WebPort}, slash: BOOLEAN]
    BY ListAssumption
  <2>4. Entry(s).host = s.host /\ Entry(s).port = DefaultPort
    BY <2>1, <2>3
  <2> QED
    BY <1>1, <2>2, <2>4 DEF Canonical, Bare
<1>2. CASE ~Bare(s)
    BY <1>2 DEF Entry
<1> QED
    BY <1>1, <1>2

LEMMA AddFacts ==
    ASSUME NEW nodes \in Seq(Spellings), Distinct(nodes), NEW s \in Spellings
    PROVE  /\ add_target(nodes, s) \in Seq(Spellings) /\ Distinct(add_target(nodes, s))
           /\ Nodes(nodes) \subseteq Nodes(add_target(nodes, s))
<1>1. CASE ~Adds(nodes, s)
    BY <1>1 DEF add_target
<1>2. CASE Adds(nodes, s)
  <2>1. ~contains_target(nodes, Entry(s))
    BY <1>2, EntryFacts DEF contains_target, Adds
  <2> QED
    BY <1>2, <2>1, EntryFacts, AppendedFacts DEF add_target
<1> QED
    BY <1>1, <1>2

LEMMA EditsAreNumbers == MaxEdits \in Nat
    BY ListAssumption

LEMMA ListInvInit == ListInit => ListInv
<1> SUFFICES ASSUME ListInit PROVE ListInv
    OBVIOUS
<1>1. file \in Files
  <2>1. \A nodes \in SavedLists: nodes \in Seq(Spellings)
    BY ListAssumption
  <2>2. CASE file = NoFile
    BY <2>2, EmptyListFacts DEF NoFile, Files
  <2>3. CASE file \in {[state |-> "whole", agents |-> nodes]: nodes \in SavedLists}
    BY <2>1, <2>3 DEF Files
  <2> QED
    BY <2>2, <2>3 DEF ListInit
<1>2. \A a \in Applets: Distinct(list[a])
    BY EmptyListFacts DEF ListInit
<1> QED
    BY <1>1, <1>2, EmptyListFacts, EditsAreNumbers DEF ListInit, ListInv, ListTyped, Agrees

(* Saving the list of an applet: the applet agrees with a file it has      *)
(* written whole, and nobody else claims to.                               *)
LEMMA SaveFacts ==
    ASSUME ListInv, NEW a \in Applets, NEW nodes \in Seq(Spellings), Save(a, nodes),
           Nodes(list[a]) \subseteq Nodes(nodes),
           list' = [list EXCEPT ![a] = nodes]
    PROVE  /\ file' \in Files /\ current' \in [Applets -> BOOLEAN]
           /\ removed' \in [Applets -> SUBSET {Canonical(s): s \in Spellings}]
           /\ \A b \in Applets: Agrees(b)'
<1>0. /\ file \in Files /\ current \in [Applets -> BOOLEAN]
      /\ removed \in [Applets -> SUBSET {Canonical(s): s \in Spellings}]
      /\ list \in [Applets -> Seq(Spellings)]
    BY DEF ListInv, ListTyped
<1>1. /\ list'[a] = nodes
      /\ \A b \in Applets \ {a}: list'[b] = list[b]
    BY <1>0
<1>2. CASE /\ file' = [state |-> "whole", agents |-> nodes]
           /\ current' = [b \in Applets |-> b = a]
           /\ removed' = [removed EXCEPT ![a] = {}]
    BY <1>0, <1>1, <1>2 DEF Files, Agrees
<1>3. CASE /\ file' = [state |-> "broken", agents |-> <<>>]
           /\ current' = [b \in Applets |-> FALSE]
           /\ UNCHANGED removed
    BY <1>0, <1>3, EmptyListFacts DEF Files, Agrees
<1>4. CASE UNCHANGED <<file, current, removed>>
  <2>1. \A b \in Applets: Agrees(b)
    BY DEF ListInv
  <2>2. \A b \in Applets: Nodes(list[b]) \subseteq Nodes(list'[b])
    BY <1>1
  <2> QED
    BY <1>0, <1>4, <2>1, <2>2 DEF Agrees
<1> QED
    BY <1>2, <1>3, <1>4 DEF Save

LEMMA StartKeepsList ==
    ASSUME ListInv, NEW a \in Applets, NEW withEnv \in BOOLEAN, Start(a, withEnv) PROVE ListInv'
<1>1. ListTyped /\ \A b \in Applets: Agrees(b)
    BY DEF ListInv
<1>2. file \in Files /\ file' = file
    BY <1>1 DEF ListTyped, Start
<1>3. /\ list'[a] = Load(withEnv) /\ removed'[a] = {}
      /\ current'[a] = (~withEnv /\ file.state = "whole")
      /\ \A b \in Applets \ {a}: list'[b] = list[b] /\ removed'[b] = removed[b] /\ current'[b] = current[b]
    BY <1>1 DEF ListTyped, Start
<1>4. ListTyped'
  <2>1. list' \in [Applets -> Seq(Spellings)] /\ \A b \in Applets: Distinct(list'[b])
    BY <1>1, <1>2, <1>3, LoadFacts DEF ListTyped, Start
  <2> QED
    BY <1>1, <2>1 DEF ListTyped, Start
<1>5. \A b \in Applets: Agrees(b)'
  <2>1. Agrees(a)'
    BY <1>2, <1>3, LoadFacts DEF Agrees
  <2>2. \A b \in Applets \ {a}: Agrees(b)'
    BY <1>1, <1>2, <1>3 DEF Agrees
  <2> QED
    BY <2>1, <2>2
<1> QED
    BY <1>4, <1>5 DEF ListInv

LEMMA AddKeepsList ==
    ASSUME ListInv, NEW a \in Applets, NEW s \in Spellings, AddNode(a, s) PROVE ListInv'
<1>1. ListTyped /\ \A b \in Applets: Agrees(b)
    BY DEF ListInv
<1> DEFINE nodes == add_target(list[a], s)
<1>2. /\ nodes \in Seq(Spellings) /\ Distinct(nodes) /\ Nodes(list[a]) \subseteq Nodes(nodes)
    BY <1>1, AddFacts DEF ListTyped
<1>3. list' = [list EXCEPT ![a] = nodes]
    BY DEF AddNode
<1>4. list'[a] = nodes /\ \A b \in Applets \ {a}: list'[b] = list[b]
    BY <1>1, <1>3 DEF ListTyped
<1>5. edits' \in 0..MaxEdits /\ UNCHANGED <<up, env>>
    BY <1>1, EditsAreNumbers DEF AddNode, ListTyped, session
<1>6. Save(a, nodes) \/ UNCHANGED <<file, current, removed>>
    BY <1>4 DEF AddNode
<1> HIDE DEF nodes
<1>7. list' \in [Applets -> Seq(Spellings)] /\ \A b \in Applets: Distinct(list'[b])
    BY <1>1, <1>2, <1>3, <1>4 DEF ListTyped
<1>8. /\ file' \in Files /\ current' \in [Applets -> BOOLEAN]
      /\ removed' \in [Applets -> SUBSET {Canonical(v): v \in Spellings}]
      /\ \A b \in Applets: Agrees(b)'
  <2>1. Save(a, nodes)
    BY <1>6 DEF Save
  <2> QED
    BY <1>2, <1>3, <2>1, SaveFacts
<1> QED
    BY <1>1, <1>5, <1>7, <1>8 DEF ListInv, ListTyped

LEMMA RemoveKeepsList ==
    ASSUME ListInv, NEW a \in Applets, NEW k, RemoveHost(a, k) PROVE ListInv'
<1>1. ListTyped /\ \A b \in Applets: Agrees(b)
    BY DEF ListInv
<1>2. k \in DOMAIN list[a] /\ list[a] \in Seq(Spellings) /\ Distinct(list[a])
    BY <1>1 DEF RemoveHost, ListTyped
<1>3. /\ RemoveAt(list[a], k) \in Seq(Spellings)
      /\ Distinct(RemoveAt(list[a], k))
      /\ Nodes(list[a]) \subseteq Nodes(RemoveAt(list[a], k)) \union {Canonical(list[a][k])}
    BY <1>2, RemovedFacts
<1>4. /\ list'[a] = RemoveAt(list[a], k)
      /\ removed'[a] = removed[a] \union {Canonical(list[a][k])}
      /\ \A b \in Applets \ {a}: list'[b] = list[b] /\ removed'[b] = removed[b]
      /\ UNCHANGED <<up, env, file, current>> /\ edits' = edits + 1 /\ edits < MaxEdits
      /\ list' = [list EXCEPT ![a] = RemoveAt(list[a], k)]
      /\ removed' = [removed EXCEPT ![a] = removed[a] \union {Canonical(list[a][k])}]
    BY <1>1 DEF RemoveHost, ListTyped, session
<1>5. Canonical(list[a][k]) \in {Canonical(s): s \in Spellings}
  <2>1. list[a][k] \in Spellings
    BY <1>2, ElementOfSeq
  <2> QED
    BY <2>1
<1>6. ListTyped'
  <2>1. list' \in [Applets -> Seq(Spellings)] /\ \A b \in Applets: Distinct(list'[b])
    BY <1>1, <1>3, <1>4 DEF ListTyped
  <2>2. removed' \in [Applets -> SUBSET {Canonical(s): s \in Spellings}]
    BY <1>1, <1>4, <1>5 DEF ListTyped
  <2>3. edits' \in 0..MaxEdits
    BY <1>1, <1>4, EditsAreNumbers DEF ListTyped
  <2> QED
    BY <1>1, <1>4, <2>1, <2>2, <2>3 DEF ListTyped
<1>7. \A b \in Applets: Agrees(b)'
  <2>1. Agrees(a)'
    BY <1>1, <1>3, <1>4 DEF Agrees
  <2>2. \A b \in Applets \ {a}: Agrees(b)'
    BY <1>1, <1>4 DEF Agrees
  <2> QED
    BY <2>1, <2>2
<1> QED
    BY <1>6, <1>7 DEF ListInv

LEMMA SettingsKeepList ==
    ASSUME ListInv, NEW a \in Applets, SaveSettings(a) PROVE ListInv'
<1>1. ListTyped
    BY DEF ListInv
<1>2. list' = [list EXCEPT ![a] = list[a]] /\ list' = list /\ list[a] \in Seq(Spellings)
    BY <1>1 DEF SaveSettings, ListTyped
<1>3. Save(a, list[a]) /\ UNCHANGED <<up, env, edits>>
    BY DEF SaveSettings, session
<1>4. /\ file' \in Files /\ current' \in [Applets -> BOOLEAN]
      /\ removed' \in [Applets -> SUBSET {Canonical(v): v \in Spellings}]
      /\ \A b \in Applets: Agrees(b)'
    BY <1>2, <1>3, SaveFacts
<1> QED
    BY <1>1, <1>2, <1>3, <1>4 DEF ListInv, ListTyped

LEMMA ExitKeepsList ==
    ASSUME ListInv, NEW a \in Applets, Exit(a) PROVE ListInv'
<1>1. ListTyped /\ \A b \in Applets: Agrees(b)
    BY DEF ListInv
<1>2. /\ list'[a] = <<>> /\ current'[a] = FALSE
      /\ \A b \in Applets \ {a}: list'[b] = list[b] /\ removed'[b] = removed[b] /\ current'[b] = current[b]
      /\ file' = file
    BY <1>1 DEF Exit, ListTyped
<1>3. ListTyped'
  <2>1. list' \in [Applets -> Seq(Spellings)] /\ \A b \in Applets: Distinct(list'[b])
    BY <1>1, <1>2, EmptyListFacts DEF ListTyped, Exit
  <2> QED
    BY <1>1, <2>1 DEF ListTyped, Exit
<1>4. \A b \in Applets: Agrees(b)'
    BY <1>1, <1>2 DEF Agrees
<1> QED
    BY <1>3, <1>4 DEF ListInv

LEMMA ListInvNext == ListInv /\ [ListNext]_listVars => ListInv'
<1> SUFFICES ASSUME ListInv, [ListNext]_listVars PROVE ListInv'
    OBVIOUS
<1>1. ASSUME NEW a \in Applets, NEW withEnv \in BOOLEAN, Start(a, withEnv) PROVE ListInv'
    BY <1>1, StartKeepsList
<1>2. ASSUME NEW a \in Applets, NEW s \in Spellings, AddNode(a, s) PROVE ListInv'
    BY <1>2, AddKeepsList
<1>3. ASSUME NEW a \in Applets, NEW k \in 1..Len(list[a]), RemoveHost(a, k) PROVE ListInv'
    BY <1>3, RemoveKeepsList
<1>4. ASSUME NEW a \in Applets, SaveSettings(a) PROVE ListInv'
    BY <1>4, SettingsKeepList
<1>5. ASSUME NEW a \in Applets, Exit(a) PROVE ListInv'
    BY <1>5, ExitKeepsList
<1>6. CASE UNCHANGED listVars
    BY <1>6 DEF listVars, ListInv, ListTyped, Agrees
<1> QED
    BY <1>1, <1>2, <1>3, <1>4, <1>5, <1>6 DEF ListNext

LEMMA ListInvAlways == ListSpec => []ListInv
    BY ListInvInit, ListInvNext, PTL DEF ListSpec

-----------------------------------------------------------------------------
(* A list that names no node twice has as many nodes as entries.           *)
LEMMA DistinctCount ==
    ASSUME NEW nodes \in Seq(Spellings), Distinct(nodes)
    PROVE  Cardinality(Nodes(nodes)) = Len(nodes)
<1> DEFINE n == Len(nodes)
           f == [k \in 1..n |-> Canonical(nodes[k])]
<1>1. n \in Nat /\ DOMAIN nodes = 1..n
    BY LenProperties
<1>2. f \in Bijection(1..n, Nodes(nodes))
  <2>1. \A j, k \in 1..n: f[j] = f[k] => j = k
    BY <1>1 DEF Distinct
  <2>2. f \in [1..n -> Nodes(nodes)]
    BY <1>1 DEF Nodes
  <2>3. \A v \in Nodes(nodes): \E k \in 1..n: f[k] = v
    BY <1>1 DEF Nodes
  <2> HIDE DEF f
  <2> QED
    BY <2>1, <2>2, <2>3 DEF Bijection, Injection, Surjection, IsInjective
<1>3. IsFiniteSet(1..n) /\ Cardinality(1..n) = n
    BY <1>1, FS_Interval
<1> HIDE DEF f
<1> QED
    BY <1>1, <1>2, <1>3, FS_Bijection DEF ExistsBijection

LEMMA ListInvTypes == ListInv => ListTypeOK
    BY DistinctCount DEF ListInv, ListTyped, ListTypeOK, Files

(* The lists in memory and in the file have their types, and a list in     *)
(* memory names no node twice, however it was saved and edited: load,      *)
(* deduplicate_targets, add_target, RemoveHost.                            *)
THEOREM ListTypeCorrect == ListSpec => []ListTypeOK
    BY ListInvAlways, ListInvTypes, PTL

(* Spellings that canonical_target and agent_url read alike have the same  *)
(* name when they have the same address.                                   *)
LEMMA PlainFacts ==
    ASSUME NEW s \in Spellings, NEW t \in Spellings, Plain(s), Plain(t), agent_url(s) = agent_url(t)
    PROVE  Canonical(s) = Canonical(t)
<1>1. \A v \in Spellings: Plain(v) =>
          agent_url(v) = <<v.host, IF v.port # NoPort THEN v.port ELSE DefaultPort>>
    BY DEF Plain, agent_url
<1>2. /\ s.host = t.host
      /\ (IF s.port # NoPort THEN s.port ELSE DefaultPort) = (IF t.port # NoPort THEN t.port ELSE DefaultPort)
    BY <1>1
<1> QED
    BY <1>2 DEF Canonical

(* Never two connections of an applet to one agent, with plain spellings.  *)
(* deduplicate_targets and add_target compare names and never addresses.   *)
THEOREM NoAgentIsTwice == ListSpec => []NoAgentTwice
<1>1. ListInv => NoAgentTwice
  <2> SUFFICES ASSUME ListInv, NEW a \in Applets, NEW j \in DOMAIN list[a], NEW k \in DOMAIN list[a],
                      Plain(list[a][j]), Plain(list[a][k]),
                      agent_url(list[a][j]) = agent_url(list[a][k])
               PROVE  j = k
    BY DEF NoAgentTwice
  <2>1. list[a] \in Seq(Spellings) /\ Distinct(list[a])
    BY DEF ListInv, ListTyped
  <2>2. list[a][j] \in Spellings /\ list[a][k] \in Spellings
    BY <2>1, ElementOfSeq
  <2>3. Canonical(list[a][j]) = Canonical(list[a][k])
    BY <2>2, PlainFacts
  <2> QED
    BY <2>1, <2>3 DEF Distinct
<1> QED
    BY <1>1, ListInvAlways, PTL

(* Where a step leaves both files whole, it keeps the nodes or saves the   *)
(* list of the one applet that is current afterwards.                      *)
LEMMA SaveKeepsNodes ==
    ASSUME ListInv, NEW a \in Applets, NEW b \in Applets, NEW nodes, Save(b, nodes),
           Nodes(list[b]) \subseteq Nodes(nodes),
           file'.state = "whole", current[a], current'[a]
    PROVE  Nodes(file.agents) \ Nodes(file'.agents) \subseteq removed[a] \union {NoName}
<1>1. CASE /\ file' = [state |-> "whole", agents |-> nodes]
           /\ current' = [c \in Applets |-> c = b]
  <2>1. a = b /\ file'.agents = nodes
    BY <1>1
  <2>2. Nodes(file.agents) \subseteq Nodes(list[a]) \union removed[a] \union {NoName}
    BY DEF ListInv, Agrees
  <2> QED
    BY <2>1, <2>2
<1>2. CASE file' = [state |-> "broken", agents |-> <<>>]
    BY <1>2
<1>3. CASE file' = file
    BY <1>3
<1> QED
    BY <1>1, <1>2, <1>3 DEF Save

(* A node of the file goes only by the will of the user whose applet saves *)
(* it, unless that applet holds an older list: save writes all that        *)
(* AddHost, RemoveHost and the environment have left in memory.            *)
THEOREM SavingKeepsNodes == ListSpec => NodesAreKept
<1> DEFINE Keeps == file.state = "whole" /\ file'.state = "whole" =>
               \A a \in Applets: current[a] /\ current'[a] =>
                   Nodes(file.agents) \ Nodes(file'.agents) \subseteq removed[a] \union {NoName}
<1>1. ASSUME ListInv, [ListNext]_listVars PROVE Keeps
  <2> SUFFICES ASSUME file'.state = "whole", NEW a \in Applets, current[a], current'[a]
               PROVE  Nodes(file.agents) \ Nodes(file'.agents) \subseteq removed[a] \union {NoName}
    OBVIOUS
  <2>1. CASE file' = file
    BY <2>1
  <2>2. ASSUME NEW b \in Applets, NEW s \in Spellings, AddNode(b, s)
        PROVE  Nodes(file.agents) \ Nodes(file'.agents) \subseteq removed[a] \union {NoName}
    <3>1. CASE ~Adds(list[b], s)
      BY <2>1, <2>2, <3>1 DEF AddNode
    <3>2. CASE Adds(list[b], s)
      <4>1. list[b] \in Seq(Spellings) /\ Distinct(list[b]) /\ list \in [Applets -> Seq(Spellings)]
        BY <1>1 DEF ListInv, ListTyped
      <4>2. Save(b, list'[b]) /\ list'[b] = add_target(list[b], s)
        BY <2>2, <3>2, <4>1 DEF AddNode
      <4>3. Nodes(list[b]) \subseteq Nodes(list'[b])
        BY <4>1, <4>2, AddFacts
      <4> QED
        BY <1>1, <4>2, <4>3, SaveKeepsNodes
    <3> QED
      BY <3>1, <3>2
  <2>3. ASSUME NEW b \in Applets, SaveSettings(b)
        PROVE  Nodes(file.agents) \ Nodes(file'.agents) \subseteq removed[a] \union {NoName}
    <3>1. Save(b, list[b])
      BY <2>3 DEF SaveSettings
    <3> QED
      BY <1>1, <3>1, SaveKeepsNodes
  <2>4. ASSUME NEW b \in Applets, NEW withEnv \in BOOLEAN, Start(b, withEnv) PROVE file' = file
    BY <2>4 DEF Start
  <2>5. ASSUME NEW b \in Applets, NEW k, RemoveHost(b, k) PROVE file' = file
    BY <2>5 DEF RemoveHost
  <2>6. ASSUME NEW b \in Applets, Exit(b) PROVE file' = file
    BY <2>6 DEF Exit
  <2>7. CASE UNCHANGED listVars
    BY <2>1, <2>7 DEF listVars
  <2> QED
    BY <1>1, <2>1, <2>2, <2>3, <2>4, <2>5, <2>6, <2>7 DEF ListNext
<1>2. ListInv /\ [ListNext]_listVars => [Keeps]_listVars
    BY <1>1
<1> QED
    BY <1>2, ListInvAlways, PTL DEF NodesAreKept, ListSpec

(* What one applet has saved another one loads as it was: no entry is      *)
(* dropped, respelled or moved by deduplicate_targets in load, as long as  *)
(* each has a name.                                                        *)
THEOREM SavedListsSurvive == ListSpec => SavedSurvives
<1> DEFINE Survives == \A a, b \in Applets:
               /\ file.state = "whole" /\ file.agents = list[a] /\ list[a] # <<>>
               /\ NoName \notin Nodes(list[a]) /\ Start(b, FALSE)
               => list'[b] = list[a]
<1>1. ASSUME ListInv PROVE Survives
  <2> SUFFICES ASSUME NEW a \in Applets, NEW b \in Applets,
                      file.state = "whole", file.agents = list[a], list[a] # <<>>,
                      NoName \notin Nodes(list[a]), Start(b, FALSE)
               PROVE  list'[b] = list[a]
    OBVIOUS
  <2>1. file \in Files /\ Distinct(list[a]) /\ list \in [Applets -> Seq(Spellings)]
    BY <1>1 DEF ListInv, ListTyped
  <2>2. list'[b] = Load(FALSE)
    BY <2>1 DEF Start
  <2> QED
    BY <2>1, <2>2, LoadFacts
<1>2. ListInv /\ [ListNext]_listVars => [Survives]_listVars
    BY <1>1
<1> QED
    BY <1>2, ListInvAlways, PTL DEF SavedSurvives, ListSpec

-----------------------------------------------------------------------------
(* A behaviour of MCParts is one of each of its modules, which rests while *)
(* another one is in focus.                                                *)
LEMMA PartsBehave == MCSpec => Spec /\ ScanSpec /\ SensorsSpec /\ ListSpec /\ AskSpec
<1>1. MCInit => Init /\ ScanInit /\ SensorsInit /\ ListInit /\ AskInit
    BY DEF MCInit
<1>2. [MCNext]_allVars =>
          /\ [Next]_vars /\ [ScanNext]_scanVars /\ [SensorsNext]_sensorVars
          /\ [ListNext]_listVars /\ [AskNext]_askVars
    BY DEF MCNext, allVars
<1> QED
    BY <1>1, <1>2, PTL DEF MCSpec, Spec, ScanSpec, SensorsSpec, ListSpec, AskSpec

(* The five modules keep their types, put together as well as alone.       *)
THEOREM PartsTypeCorrect == MCSpec => []PartsTypeOK
<1>1. TypeOK /\ ScanTypeOK /\ SensorsTypeOK /\ ListTypeOK /\ AskTypeOK => PartsTypeOK
    BY DEF PartsTypeOK
<1> QED
    BY <1>1, PartsBehave, RoundsTypeCorrect, ScanTypeCorrect, SensorsTypeCorrect,
       ListTypeCorrect, AskTypeCorrect, PTL
=============================================================================
