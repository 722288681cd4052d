------------------------- MODULE SparkRefreshProofs -------------------------
(***************************************************************************)
(* Theorems about SparkRefresh for any number of instances, nodes, target  *)
(* lists and documents, with crashes, slow cycles and torn cache files.    *)
(***************************************************************************)
EXTENDS SparkRefresh, SequenceTheorems, TLAPS

(* The program counters only a thread with shared_cache reaches.           *)
SharedOnly ==
    {"create", "stat", "remove", "recreate", "truncate", "write", "release"}

(* A running thread has a list; it fetches until it has an answer for each *)
(* target; one that does not run has neither.                              *)
ThreadInv ==
    \A i \in Instances:
        /\ pc[i] \in SharedOnly => i \in Shared
        /\ pc[i] = "off" => targets[i] = <<>> /\ ~stop[i]
        /\ pc[i] # "off" => targets[i] # <<>>
        /\ pc[i] = "fetch" => Len(docs[i]) < Len(targets[i])
        /\ pc[i] \in {"off", "read"} => docs[i] = <<>>

(* Until a lock file has become stale, whoever is fetching created the     *)
(* lock file that is there, and nobody is about to remove one.             *)
LockInv ==
    ~aged =>
        /\ ~stale
        /\ \A i \in Instances:
              /\ Fetching(i) => lock = i
              /\ pc[i] \notin {"remove", "recreate"}

(* Every document a thread holds or the cache stores is about the node     *)
(* that some target list has at its index.                                 *)
Placed(entries) ==
    \A k \in 1..Len(entries): \E list \in TargetLists:
        k \in 1..Len(list) /\ entries[k].node = list[k]

PlaceInv ==
    /\ \A i \in Instances: Placed(docs[i])
    /\ Placed(cache.docs)

(* No two lists name different nodes at one index.                         *)
ListsAgree ==
    \A l, m \in TargetLists: \A k \in 1..Len(l): k \in 1..Len(m) => l[k] = m[k]

-----------------------------------------------------------------------------
(* A function on 1..n is a sequence of length n.                           *)
LEMMA FunctionIsSeq ==
    ASSUME NEW S, NEW n \in Nat, NEW f \in [1..n -> S]
    PROVE  f \in Seq(S) /\ Len(f) = n /\ DOMAIN f = 1..n
<1>1. f \in Seq(S)
  BY SeqDef
<1>2. Len(f) \in Nat /\ DOMAIN f = 1..Len(f)
  BY <1>1, LenProperties
<1>3. QED
  BY <1>1, <1>2

(* The target lists of the configuration: not empty, over the nodes.       *)
LEMMA ListFacts ==
    ASSUME NEW list \in TargetLists
    PROVE  /\ list \in Seq(Nodes) /\ list # <<>>
           /\ Len(list) \in Nat \ {0}
           /\ \A k \in 1..Len(list): list[k] \in Nodes
<1>1. list \in Seq(Nodes) /\ list # <<>>
  BY RefreshAssumption
<1>2. Len(list) \in Nat \ {0}
  BY <1>1, EmptySeq
<1>3. QED
  BY <1>1, <1>2, ElementOfSeq

(* Every answer to a fetch is a result about the node asked, and no newer  *)
(* than what that node has produced.                                       *)
LEMMA AnswersFacts ==
    ASSUME TypeOK, NEW n \in Nodes, NEW answer \in Answers(n)
    PROVE  answer \in Entry /\ answer.node = n /\ answer.ts <= ver[n]
<1>1. ver[n] \in 1..MaxVer /\ MaxVer \in Nat
  BY RefreshAssumption DEF TypeOK
<1>2. \/ answer = Result("doc", n, 0)
      \/ answer = Result("doc", n, ver[n])
      \/ answer = Result("junk", n, 0)
      \/ answer = Result("error", n, 0)
  BY DEF Answers
<1>3. ASSUME NEW kind \in {"doc", "junk", "error"}, NEW ts \in 0..MaxVer
      PROVE  /\ Result(kind, n, ts) \in Entry
             /\ Result(kind, n, ts).node = n /\ Result(kind, n, ts).ts = ts
  BY DEF Result, Entry
<1>4. 0 \in 0..MaxVer /\ ver[n] \in 0..MaxVer /\ 0 <= ver[n] /\ ver[n] <= ver[n]
  BY <1>1
<1>5. CASE answer = Result("doc", n, ver[n])
  BY <1>3, <1>4, <1>5
<1>6. CASE answer # Result("doc", n, ver[n])
  BY <1>2, <1>3, <1>4, <1>6
<1>7. QED
  BY <1>5, <1>6

(* What a cycle reads from the cache is a well-formed list of results.     *)
LEMMA CachedDocsFacts ==
    ASSUME TypeOK
    PROVE  /\ CachedDocs \in Seq(Entry)
           /\ \A k \in 1..Len(CachedDocs):
                 /\ k \in 1..Len(cache.docs)
                 /\ CachedDocs[k].node = cache.docs[k].node
                 /\ CachedDocs[k].kind = cache.docs[k].kind
                 /\ CachedDocs[k].ts = cache.docs[k].ts
<1>1. cache.docs \in Seq(Entry) /\ Len(cache.docs) \in Nat
      /\ \A k \in 1..Len(cache.docs): cache.docs[k] \in Entry
  <2>1. cache.docs \in Seq(Entry)
    BY DEF TypeOK, Cache
  <2>2. QED
    BY <2>1, LenProperties, ElementOfSeq
<1>2. CASE cache.state = "whole"
  BY <1>1, <1>2 DEF CachedDocs
<1>3. CASE cache.state # "whole"
  BY <1>3, EmptySeq DEF CachedDocs
<1>4. QED
  BY <1>2, <1>3

-----------------------------------------------------------------------------
(* Type correctness and the facts about a thread's own program, which need *)
(* each other: Fetch stays within its list, Apply within its slots.        *)
Typed == TypeOK /\ ThreadInv

LEMMA TypedInit == Init => Typed
<1> SUFFICES ASSUME Init PROVE Typed
  OBVIOUS
<1>1. <<>> \in Seq(Entry) /\ <<>> \in Seq(Shown) /\ Len(<<>>) = 0
  BY EmptySeq
<1>2. EmptyCache \in Cache
  BY <1>1 DEF EmptyCache, Cache
<1>3. TypeOK
  <2>1. /\ pc \in [Instances -> PCs]
        /\ stop \in [Instances -> BOOLEAN]
        /\ targets \in [Instances -> TargetLists \union {<<>>}]
    BY DEF Init, PCs
  <2>2. /\ docs \in [Instances -> Seq(Entry)]
        /\ shown \in [Instances -> Seq(Shown)]
    BY <1>1 DEF Init
  <2>3. \A i \in Instances: Len(shown[i]) = Len(targets[i])
    BY DEF Init
  <2>4. ver \in [Nodes -> 1..MaxVer] /\ exits \in 0..MaxExits
    BY RefreshAssumption DEF Init
  <2>5. QED
    BY <1>2, <2>1, <2>2, <2>3, <2>4 DEF Init, TypeOK
<1>4. ThreadInv
  BY DEF Init, ThreadInv, SharedOnly
<1>5. QED
  BY <1>3, <1>4 DEF Typed

LEMMA TypedNext == Typed /\ [Next]_vars => Typed'
<1> SUFFICES ASSUME Typed, [Next]_vars PROVE Typed'
  OBVIOUS
<1> USE DEF Typed
<1>1. ASSUME NEW i \in Instances, Start(i) PROVE Typed'
  <2>1. PICK list \in TargetLists:
           /\ targets' = [targets EXCEPT ![i] = list]
           /\ shown' = [shown EXCEPT ![i] = [k \in 1..Len(list) |-> Nothing]]
    BY <1>1 DEF Start
  <2>2. list # <<>> /\ Len(list) \in Nat
    BY ListFacts
  <2>3. Nothing \in Shown
    BY RefreshAssumption DEF Nothing, Shown
  <2> DEFINE fresh == [k \in 1..Len(list) |-> Nothing]
  <2>4. fresh \in [1..Len(list) -> Shown]
    BY <2>3
  <2>5. fresh \in Seq(Shown) /\ Len(fresh) = Len(list)
    BY <2>2, <2>4, FunctionIsSeq
  <2> HIDE DEF fresh
  <2>6. shown' = [shown EXCEPT ![i] = fresh]
    BY <2>1 DEF fresh
  <2>7. TypeOK'
    BY <1>1, <2>1, <2>5, <2>6 DEF Start, files, TypeOK, PCs, Critical
  <2>8. ThreadInv'
    BY <1>1, <2>1, <2>2 DEF Start, files, TypeOK, ThreadInv, SharedOnly
  <2>9. QED
    BY <2>7, <2>8
<1>2. ASSUME NEW i \in Instances, Drop(i) PROVE Typed'
  <2>1. TypeOK'
    BY <1>2, RefreshAssumption DEF Drop, files, TypeOK
  <2>2. ThreadInv'
    BY <1>2 DEF Drop, files, TypeOK, ThreadInv
  <2>3. QED
    BY <2>1, <2>2
<1>3. ASSUME NEW i \in Instances, Ends(i), exits' \in 0..MaxExits PROVE Typed'
  <2>1. <<>> \in Seq(Entry) /\ <<>> \in Seq(Shown) /\ Len(<<>>) = 0
    BY EmptySeq
  <2>2. TypeOK'
    BY <1>3, <2>1 DEF Ends, files, TypeOK, PCs
  <2>3. ThreadInv'
    BY <1>3 DEF Ends, files, TypeOK, ThreadInv, SharedOnly
  <2>4. QED
    BY <2>2, <2>3
<1>4. ASSUME NEW i \in Instances, Crash(i) PROVE Typed'
  <2>1. exits \in 0..MaxExits /\ MaxExits \in Nat
    BY RefreshAssumption DEF TypeOK
  <2>2. Ends(i) /\ exits' \in 0..MaxExits
    BY <1>4, <2>1 DEF Crash
  <2>3. QED
    BY <1>3, <2>2
<1>5. ASSUME NEW i \in Instances, Exit(i) PROVE Typed'
  BY <1>3, <1>5 DEF Exit, TypeOK
<1>6. ASSUME NEW i \in Instances, ReadCache(i) PROVE Typed'
  <2>1. <<>> \in Seq(Entry) /\ Len(<<>>) = 0
    BY EmptySeq
  <2>2. TypeOK'
    <3>1. CachedDocs \in Seq(Entry)
      BY CachedDocsFacts
    <3>2. docs' = [docs EXCEPT ![i] = CachedDocs] \/ docs' = [docs EXCEPT ![i] = <<>>]
      BY <1>6 DEF ReadCache
    <3>3. docs' \in [Instances -> Seq(Entry)]
      BY <2>1, <3>1, <3>2 DEF TypeOK
    <3>4. pc' \in [Instances -> PCs]
      BY <1>6 DEF ReadCache, TypeOK, PCs, Critical
    <3>5. UNCHANGED <<stop, targets, shown, cache, lock, stale, aged, ver, exits>>
      BY <1>6 DEF ReadCache, files
    <3>6. QED
      BY <3>3, <3>4, <3>5 DEF TypeOK
  <2>3. targets[i] \in TargetLists
    BY <1>6 DEF ReadCache, TypeOK, ThreadInv
  <2>4. 0 < Len(targets[i])
    BY <2>3, ListFacts
  <2>5. ThreadInv'
    BY <1>6, <2>1, <2>4 DEF ReadCache, files, TypeOK, ThreadInv, SharedOnly
  <2>6. QED
    BY <2>2, <2>5
<1>7. ASSUME NEW i \in Instances, NEW refused \in {"stat", "apply"},
             TakeLock(i, refused), pc[i] \in {"create", "recreate"},
             UNCHANGED <<stop, targets, shown, cache, aged, ver, exits>>
      PROVE  Typed'
  <2>1. <<>> \in Seq(Entry) /\ Len(<<>>) = 0
    BY EmptySeq
  <2>2. TypeOK'
    <3>1. /\ docs' = [docs EXCEPT ![i] = <<>>] \/ docs' = docs
          /\ lock' \in {i, lock}
          /\ stale' \in {FALSE, stale}
      BY <1>7 DEF TakeLock
    <3>2. docs' \in [Instances -> Seq(Entry)]
      BY <2>1, <3>1 DEF TypeOK
    <3>3. lock' \in Instances \union {NoOne} /\ stale' \in BOOLEAN
      BY <3>1 DEF TypeOK
    <3>4. pc' \in [Instances -> PCs]
      BY <1>7 DEF TakeLock, TypeOK, PCs, Critical
    <3>5. QED
      BY <1>7, <3>2, <3>3, <3>4 DEF TypeOK
  <2>3. targets[i] \in TargetLists /\ i \in Shared
    BY <1>7 DEF TypeOK, ThreadInv, SharedOnly
  <2>4. 0 < Len(targets[i])
    BY <2>3, ListFacts
  <2>5. ThreadInv'
    BY <1>7, <2>1, <2>3, <2>4 DEF TakeLock, TypeOK, ThreadInv, SharedOnly
  <2>6. QED
    BY <2>2, <2>5
<1>8. ASSUME NEW i \in Instances, CreateLock(i) PROVE Typed'
  BY <1>7, <1>8 DEF CreateLock
<1>9. ASSUME NEW i \in Instances, StatLock(i) PROVE Typed'
  <2>1. TypeOK'
    BY <1>9 DEF StatLock, files, TypeOK, PCs
  <2>2. ThreadInv'
    BY <1>9 DEF StatLock, files, TypeOK, ThreadInv, SharedOnly
  <2>3. QED
    BY <2>1, <2>2
<1>10. ASSUME NEW i \in Instances, RemoveStaleLock(i) PROVE Typed'
  <2>1. TypeOK'
    BY <1>10 DEF RemoveStaleLock, TypeOK, PCs
  <2>2. ThreadInv'
    BY <1>10 DEF RemoveStaleLock, TypeOK, ThreadInv, SharedOnly
  <2>3. QED
    BY <2>1, <2>2
<1>11. ASSUME NEW i \in Instances, RecreateLock(i) PROVE Typed'
  BY <1>7, <1>11 DEF RecreateLock
<1>12. ASSUME NEW i \in Instances, Fetch(i) PROVE Typed'
  <2>1. PICK answer \in Answers(targets[i][Len(docs[i]) + 1]):
           docs' = [docs EXCEPT ![i] = Append(docs[i], answer)]
    BY <1>12 DEF Fetch
  <2>2. docs[i] \in Seq(Entry) /\ Len(docs[i]) \in Nat
    <3>1. docs[i] \in Seq(Entry)
      BY DEF TypeOK
    <3>2. QED
      BY <3>1, LenProperties
  <2>3. targets[i] \in TargetLists /\ Len(docs[i]) < Len(targets[i])
    BY <1>12 DEF Fetch, TypeOK, ThreadInv
  <2>4. targets[i][Len(docs[i]) + 1] \in Nodes /\ Len(targets[i]) \in Nat
    BY <2>2, <2>3, ListFacts
  <2>5. answer \in Entry
    BY <2>1, <2>4, AnswersFacts
  <2>6. Append(docs[i], answer) \in Seq(Entry)
        /\ Len(Append(docs[i], answer)) = Len(docs[i]) + 1
    BY <2>2, <2>5, AppendProperties
  <2>7. TypeOK'
    BY <1>12, <2>1, <2>6 DEF Fetch, files, TypeOK, PCs, Critical
  <2>8. ThreadInv'
    BY <1>12, <2>1, <2>2, <2>3, <2>4, <2>6 DEF Fetch, files, TypeOK, ThreadInv, SharedOnly
  <2>9. QED
    BY <2>7, <2>8
<1>13. ASSUME NEW i \in Instances, TruncateCache(i) PROVE Typed'
  <2>1. EmptyCache \in Cache
    BY EmptySeq DEF EmptyCache, Cache
  <2>2. TypeOK'
    BY <1>13, <2>1 DEF TruncateCache, TypeOK, PCs, Critical
  <2>3. ThreadInv'
    BY <1>13 DEF TruncateCache, TypeOK, ThreadInv, SharedOnly
  <2>4. QED
    BY <2>2, <2>3
<1>14. ASSUME NEW i \in Instances, WriteCache(i) PROVE Typed'
  <2>1. [EmptyCache EXCEPT !.state = "torn"] \in Cache
    BY EmptySeq DEF EmptyCache, Cache
  <2>2. [state |-> "whole", fresh |-> TRUE, docs |-> docs[i]] \in Cache
    BY DEF Cache, TypeOK
  <2>3. TypeOK'
    BY <1>14, <2>1, <2>2 DEF WriteCache, TypeOK, PCs, Critical
  <2>4. ThreadInv'
    BY <1>14 DEF WriteCache, TypeOK, ThreadInv, SharedOnly
  <2>5. QED
    BY <2>3, <2>4
<1>15. ASSUME NEW i \in Instances, ReleaseLock(i) PROVE Typed'
  <2>1. TypeOK'
    BY <1>15 DEF ReleaseLock, TypeOK, PCs, Critical
  <2>2. ThreadInv'
    BY <1>15 DEF ReleaseLock, TypeOK, ThreadInv, SharedOnly
  <2>3. QED
    BY <2>1, <2>2
<1>16. ASSUME NEW i \in Instances, Apply(i) PROVE Typed'
  <2> DEFINE after == [k \in DOMAIN shown[i] |-> AfterApply(i, k)]
  <2>1. shown[i] \in Seq(Shown) /\ docs[i] \in Seq(Entry)
    BY DEF TypeOK
  <2>2. DOMAIN shown[i] = 1..Len(shown[i]) /\ Len(shown[i]) \in Nat
    BY <2>1, LenProperties
  <2>3. DOMAIN docs[i] = 1..Len(docs[i])
    BY <2>1, LenProperties
  <2>4. ASSUME NEW k \in DOMAIN shown[i] PROVE AfterApply(i, k) \in Shown
    <3>1. shown[i][k] \in Shown
      BY <2>1, <2>2, ElementOfSeq
    <3>2. CASE k \in DOMAIN docs[i]
      <4>1. docs[i][k] \in Entry
        BY <2>1, <2>3, <3>2, ElementOfSeq
      <4>2. QED
        BY <3>1, <4>1 DEF AfterApply, Entry, Shown
    <3>3. CASE k \notin DOMAIN docs[i]
      BY <3>1, <3>3 DEF AfterApply
    <3>4. QED
      BY <3>2, <3>3
  <2>5. after \in [1..Len(shown[i]) -> Shown]
    BY <2>2, <2>4
  <2>6. after \in Seq(Shown) /\ Len(after) = Len(shown[i])
    BY <2>2, <2>5, FunctionIsSeq
  <2> HIDE DEF after
  <2>7. shown' = [shown EXCEPT ![i] = after]
    BY <1>16 DEF Apply, after
  <2>8. TypeOK'
    BY <1>16, <2>6, <2>7, EmptySeq DEF Apply, files, TypeOK, PCs
  <2>9. ThreadInv'
    BY <1>16 DEF Apply, files, TypeOK, ThreadInv, SharedOnly
  <2>10. QED
    BY <2>8, <2>9
<1>17. ASSUME NEW n \in Nodes, Publish(n) PROVE Typed'
  BY <1>17, RefreshAssumption DEF Publish, files, TypeOK, ThreadInv
<1>18. CASE AgeCache
  <2>1. cache' \in Cache
    BY <1>18 DEF AgeCache, CacheUsable, TypeOK, Cache
  <2>2. QED
    BY <1>18, <2>1 DEF AgeCache, TypeOK, ThreadInv
<1>19. CASE AgeLock
  BY <1>19 DEF AgeLock, TypeOK, ThreadInv
<1>20. CASE UNCHANGED vars
  BY <1>20 DEF vars, TypeOK, ThreadInv
<1>21. QED
  BY <1>1, <1>2, <1>4, <1>5, <1>6, <1>8, <1>9, <1>10, <1>11, <1>12, <1>13,
     <1>14, <1>15, <1>16, <1>17, <1>18, <1>19, <1>20 DEF Next, Step

(* Every variable keeps its type in every behaviour: in particular no      *)
(* thread fetches beyond its target list or applies beyond its slots.      *)
THEOREM TypeCorrect == Spec => []TypeOK
<1>1. Typed /\ [Next]_vars => Typed'
  BY TypedNext
<1>2. Typed => TypeOK
  BY DEF Typed
<1>3. QED
  BY TypedInit, <1>1, <1>2, PTL DEF Spec

-----------------------------------------------------------------------------
(* The lock.  The interesting steps are those that remove the file: only   *)
(* its creator releases it, because whoever is fetching is the creator,    *)
(* and a reclaim needs a lock that has been stale.                         *)
LEMMA LockInvNext == Typed /\ LockInv /\ [Next]_vars => LockInv'
<1> SUFFICES ASSUME Typed, LockInv, [Next]_vars, ~aged' PROVE LockInv'
  BY DEF LockInv
<1> USE DEF Typed
<1>1. ASSUME NEW i \in Instances, Start(i) \/ Drop(i) PROVE LockInv'
  BY <1>1 DEF Start, Drop, files, LockInv, Fetching, TypeOK, Critical
<1>2. ASSUME NEW i \in Instances, Ends(i) PROVE LockInv'
  BY <1>2 DEF Ends, files, LockInv, Fetching, TypeOK, Critical
<1>3. ASSUME NEW i \in Instances, Crash(i) \/ Exit(i) PROVE LockInv'
  BY <1>2, <1>3 DEF Crash, Exit
<1>4. ASSUME NEW i \in Instances, ReadCache(i) PROVE LockInv'
  BY <1>4 DEF ReadCache, files, LockInv, Fetching, TypeOK, Critical
<1>5. ASSUME NEW i \in Instances, NEW refused \in {"stat", "apply"},
             TakeLock(i, refused), aged' = aged
      PROVE  LockInv'
  <2>1. CASE lock = NoOne
    <3>1. \A j \in Instances: ~Fetching(j)
      BY <1>5, <2>1, RefreshAssumption DEF LockInv
    <3>2. lock' = i /\ stale' = FALSE /\ pc' = [pc EXCEPT ![i] = "fetch"]
      BY <1>5, <2>1 DEF TakeLock
    <3>3. QED
      BY <1>5, <3>1, <3>2 DEF LockInv, Fetching, TypeOK
  <2>2. CASE lock # NoOne
    BY <1>5, <2>2 DEF TakeLock, LockInv, Fetching, TypeOK, Critical
  <2>3. QED
    BY <2>1, <2>2
<1>6. ASSUME NEW i \in Instances, CreateLock(i) \/ RecreateLock(i) PROVE LockInv'
  BY <1>5, <1>6 DEF CreateLock, RecreateLock
<1>7. ASSUME NEW i \in Instances, StatLock(i) PROVE LockInv'
  BY <1>7 DEF StatLock, files, LockInv, Fetching, TypeOK, Critical
<1>8. ASSUME NEW i \in Instances, RemoveStaleLock(i) PROVE LockInv'
  BY <1>8 DEF RemoveStaleLock, LockInv
<1>9. ASSUME NEW i \in Instances, Fetch(i) PROVE LockInv'
  BY <1>9 DEF Fetch, files, LockInv, Fetching, TypeOK, Critical
<1>10. ASSUME NEW i \in Instances, TruncateCache(i) \/ WriteCache(i) PROVE LockInv'
  BY <1>10 DEF TruncateCache, WriteCache, LockInv, Fetching, TypeOK, Critical
<1>11. ASSUME NEW i \in Instances, ReleaseLock(i) PROVE LockInv'
  <2>1. Fetching(i)
    BY <1>11 DEF ReleaseLock, ThreadInv, SharedOnly, Fetching, Critical
  <2>2. \A j \in Instances: Fetching(j) => j = i
    BY <1>11, <2>1 DEF ReleaseLock, LockInv
  <2>3. QED
    BY <1>11, <2>2 DEF ReleaseLock, LockInv, Fetching, TypeOK, Critical
<1>12. ASSUME NEW i \in Instances, Apply(i) PROVE LockInv'
  BY <1>12 DEF Apply, files, LockInv, Fetching, TypeOK, Critical
<1>13. ASSUME NEW n \in Nodes, Publish(n) PROVE LockInv'
  BY <1>13 DEF Publish, files, LockInv, Fetching
<1>14. CASE AgeCache
  BY <1>14 DEF AgeCache, LockInv, Fetching
<1>15. CASE AgeLock
  BY <1>15 DEF AgeLock
<1>16. CASE UNCHANGED vars
  BY <1>16 DEF vars, LockInv, Fetching
<1>17. QED
  BY <1>1, <1>3, <1>4, <1>6, <1>7, <1>8, <1>9, <1>10, <1>11, <1>12, <1>13,
     <1>14, <1>15, <1>16 DEF Next, Step

(* Until some lock file has become stale, at most one sharing thread is    *)
(* between taking the lock and releasing it, and the file is its own.      *)
THEOREM MutualExclusion == Spec => []OneFetcherUntilStale
<1>1. Init => Typed /\ LockInv
  BY TypedInit DEF Init, LockInv, Fetching, Critical
<1>2. Typed /\ LockInv /\ [Next]_vars => (Typed /\ LockInv)'
  BY TypedNext, LockInvNext
<1>3. LockInv => OneFetcherUntilStale
  BY DEF LockInv, OneFetcherUntilStale
<1>4. QED
  BY <1>1, <1>2, <1>3, PTL DEF Spec

-----------------------------------------------------------------------------
(* Documents and slots.  A document moves from a fetch into the cache and  *)
(* from there into the cycles of other threads, always at its index; when  *)
(* the lists agree on that index, the slot names the document's node.      *)
LEMMA PlaceInvNext == Typed /\ PlaceInv /\ [Next]_vars => PlaceInv'
<1> SUFFICES ASSUME Typed, PlaceInv, [Next]_vars PROVE PlaceInv'
  OBVIOUS
<1> USE DEF Typed
<1>1. Len(<<>>) = 0 /\ Placed(<<>>)
  BY EmptySeq DEF Placed
<1>2. ASSUME NEW i \in Instances, NEW entries,
             docs' = [docs EXCEPT ![i] = entries], Placed(entries),
             cache' = cache
      PROVE  PlaceInv'
  BY <1>2 DEF PlaceInv, Placed, TypeOK
<1>3. ASSUME NEW i \in Instances, Start(i) \/ Drop(i) PROVE PlaceInv'
  <2>1. docs' = docs /\ cache' = cache
    BY <1>3 DEF Start, Drop, files
  <2>2. QED
    BY <2>1 DEF PlaceInv, Placed
<1>4. ASSUME NEW i \in Instances, Crash(i) \/ Exit(i) PROVE PlaceInv'
  BY <1>1, <1>2, <1>4 DEF Crash, Exit, Ends, files
<1>5. ASSUME NEW i \in Instances, ReadCache(i) PROVE PlaceInv'
  <2>1. Placed(CachedDocs)
    BY CachedDocsFacts DEF PlaceInv, Placed
  <2>2. cache' = cache
    BY <1>5 DEF ReadCache, files
  <2>3. QED
    BY <1>1, <1>2, <1>5, <2>1, <2>2 DEF ReadCache
<1>6. ASSUME NEW i \in Instances, CreateLock(i) \/ RecreateLock(i) PROVE PlaceInv'
  <2>1. cache' = cache /\ (docs' = docs \/ docs' = [docs EXCEPT ![i] = <<>>])
    BY <1>6 DEF CreateLock, RecreateLock, TakeLock
  <2>2. CASE docs' = docs
    BY <2>1, <2>2 DEF PlaceInv, Placed
  <2>3. CASE docs' = [docs EXCEPT ![i] = <<>>]
    BY <1>1, <1>2, <2>1, <2>3
  <2>4. QED
    BY <2>1, <2>2, <2>3
<1>7. ASSUME NEW i \in Instances, StatLock(i) \/ RemoveStaleLock(i) \/ ReleaseLock(i)
      PROVE  PlaceInv'
  BY <1>7 DEF StatLock, RemoveStaleLock, ReleaseLock, files, PlaceInv, Placed
<1>8. ASSUME NEW i \in Instances, Fetch(i) PROVE PlaceInv'
  <2> DEFINE next == Len(docs[i]) + 1
  <2>1. PICK answer \in Answers(targets[i][next]):
           docs' = [docs EXCEPT ![i] = Append(docs[i], answer)]
    BY <1>8 DEF Fetch
  <2>2. docs[i] \in Seq(Entry) /\ Len(docs[i]) \in Nat
    <3>1. docs[i] \in Seq(Entry)
      BY DEF TypeOK
    <3>2. QED
      BY <3>1, LenProperties
  <2>3. targets[i] \in TargetLists /\ Len(docs[i]) < Len(targets[i])
    BY <1>8 DEF Fetch, TypeOK, ThreadInv
  <2>4. next \in 1..Len(targets[i]) /\ targets[i][next] \in Nodes
    BY <2>2, <2>3, ListFacts
  <2>5. answer \in Entry /\ answer.node = targets[i][next]
    BY <2>1, <2>4, AnswersFacts
  <2> DEFINE after == Append(docs[i], answer)
  <2>6. /\ Len(after) = next /\ after[next] = answer
        /\ \A k \in 1..Len(docs[i]): after[k] = docs[i][k]
    BY <2>2, <2>5, AppendProperties
  <2> HIDE DEF after
  <2>7. ASSUME NEW k \in 1..Len(after)
        PROVE  \E list \in TargetLists: k \in 1..Len(list) /\ after[k].node = list[k]
    <3>1. CASE k = next
      BY <2>3, <2>4, <2>5, <2>6, <3>1
    <3>2. CASE k # next
      <4>1. k \in 1..Len(docs[i])
        BY <2>2, <2>6, <3>2
      <4>2. QED
        BY <2>6, <4>1 DEF PlaceInv, Placed
    <3>3. QED
      BY <3>1, <3>2
  <2>8. docs' = [docs EXCEPT ![i] = after] /\ cache' = cache
    BY <1>8, <2>1 DEF Fetch, files, after
  <2>9. QED
    BY <1>2, <2>7, <2>8 DEF Placed
<1>9. ASSUME NEW i \in Instances, TruncateCache(i) \/ WriteCache(i) PROVE PlaceInv'
  <2>1. docs' = docs /\ (cache'.docs = <<>> \/ cache'.docs = docs[i])
    BY <1>9 DEF TruncateCache, WriteCache, EmptyCache
  <2>2. QED
    BY <1>1, <2>1 DEF PlaceInv, Placed
<1>10. ASSUME NEW i \in Instances, Apply(i) PROVE PlaceInv'
  BY <1>1, <1>2, <1>10 DEF Apply, files
<1>11. ASSUME NEW n \in Nodes, Publish(n) PROVE PlaceInv'
  BY <1>11 DEF Publish, files, PlaceInv, Placed
<1>12. CASE AgeCache
  <2>1. cache'.docs = cache.docs /\ docs' = docs
    BY <1>12 DEF AgeCache, CacheUsable, TypeOK, Cache
  <2>2. QED
    BY <2>1 DEF PlaceInv, Placed
<1>13. CASE AgeLock
  BY <1>13 DEF AgeLock, PlaceInv, Placed
<1>14. CASE UNCHANGED vars
  BY <1>14 DEF vars, PlaceInv, Placed
<1>15. QED
  BY <1>3, <1>4, <1>5, <1>6, <1>7, <1>8, <1>9, <1>10, <1>11, <1>12, <1>13,
     <1>14 DEF Next, Step

LEMMA RightSlotNext ==
    ASSUME ListsAgree
    PROVE  Typed /\ PlaceInv /\ RightSlot /\ [Next]_vars => RightSlot'
<1> SUFFICES ASSUME Typed, PlaceInv, RightSlot, [Next]_vars PROVE RightSlot'
  OBVIOUS
<1> USE DEF Typed
<1>1. CASE UNCHANGED <<targets, shown>>
  BY <1>1 DEF RightSlot
<1>2. ASSUME NEW i \in Instances, Start(i) PROVE RightSlot'
  <2>1. PICK list \in TargetLists:
           /\ targets' = [targets EXCEPT ![i] = list]
           /\ shown' = [shown EXCEPT ![i] = [k \in 1..Len(list) |-> Nothing]]
    BY <1>2 DEF Start
  <2>2. QED
    BY <2>1 DEF RightSlot, Nothing, TypeOK
<1>3. ASSUME NEW i \in Instances, Ends(i) PROVE RightSlot'
  BY <1>3, EmptySeq DEF Ends, RightSlot, TypeOK
<1>4. ASSUME NEW i \in Instances, Apply(i) PROVE RightSlot'
  <2>1. shown' = [shown EXCEPT ![i] = [k \in DOMAIN shown[i] |-> AfterApply(i, k)]]
        /\ targets' = targets
    BY <1>4 DEF Apply
  <2>2. targets[i] \in TargetLists
    BY <1>4 DEF Apply, TypeOK, ThreadInv
  <2>3. docs[i] \in Seq(Entry) /\ shown[i] \in Seq(Shown) /\ Len(shown[i]) = Len(targets[i])
    BY DEF TypeOK
  <2>4. DOMAIN docs[i] = 1..Len(docs[i]) /\ DOMAIN shown[i] = 1..Len(targets[i])
    BY <2>3, LenProperties
  <2>5. ASSUME NEW k \in DOMAIN shown[i]
        PROVE  AfterApply(i, k).node \in {NoOne, targets[i][k]}
    <3>1. CASE k \in DOMAIN docs[i] /\ Applies(docs[i][k], shown[i][k])
      <4>1. PICK list \in TargetLists:
               k \in 1..Len(list) /\ docs[i][k].node = list[k]
        BY <2>4, <3>1 DEF PlaceInv, Placed
      <4>2. list[k] = targets[i][k]
        BY <2>2, <2>4, <4>1 DEF ListsAgree
      <4>3. QED
        BY <3>1, <4>1, <4>2 DEF AfterApply
    <3>2. CASE ~(k \in DOMAIN docs[i] /\ Applies(docs[i][k], shown[i][k]))
      BY <3>2 DEF AfterApply, RightSlot
    <3>3. QED
      BY <3>1, <3>2
  <2>6. QED
    BY <2>1, <2>5 DEF RightSlot, TypeOK
<1>5. QED
  BY <1>1, <1>2, <1>3, <1>4
  DEF Next, Step, Drop, Crash, Exit, ReadCache, CreateLock, StatLock,
      RemoveStaleLock, RecreateLock, Fetch, TruncateCache, WriteCache,
      ReleaseLock, Publish, AgeCache, AgeLock, vars

(* When no two target lists name different nodes at one index (nodes were  *)
(* only ever added at the end), every slot shows its own node, whatever    *)
(* crashes, whoever writes the cache, and although several threads with    *)
(* different lists share it.                                               *)
THEOREM SlotsAreRight == ListsAgree => (Spec => []RightSlot)
<1> SUFFICES ASSUME ListsAgree PROVE Spec => []RightSlot
  OBVIOUS
<1>1. Init => Typed /\ PlaceInv /\ RightSlot
  BY TypedInit, EmptySeq DEF Init, PlaceInv, Placed, RightSlot, EmptyCache
<1>2. Typed /\ PlaceInv /\ RightSlot /\ [Next]_vars => (Typed /\ PlaceInv /\ RightSlot)'
  BY TypedNext, PlaceInvNext, RightSlotNext
<1>3. QED
  BY <1>1, <1>2, PTL DEF Spec

-----------------------------------------------------------------------------
(* The order of documents.  No result is newer than what its node has      *)
(* produced, and a document without a stamp is about a node that sends     *)
(* none.                                                                   *)
Produced(e) ==
    /\ e.ts <= ver[e.node]
    /\ e.kind = "doc" /\ e.ts = 0 => e.node \in Unstamped

ProducedInv ==
    /\ \A i \in Instances: \A k \in 1..Len(docs[i]): Produced(docs[i][k])
    /\ \A k \in 1..Len(cache.docs): Produced(cache.docs[k])
    /\ \A i \in Instances: \A k \in 1..Len(shown[i]):
          IF shown[i][k].node = NoOne THEN shown[i][k].ts = 0
          ELSE shown[i][k].ts <= ver[shown[i][k].node]

Stamped(e) == e.kind = "doc" /\ e.ts # 0

(* A thread never holds a document older than the one its slot shows.      *)
HoldsNewer ==
    \A i \in Instances: \A k \in 1..Len(shown[i]):
        k \in 1..Len(docs[i]) /\ Stamped(docs[i][k]) =>
            shown[i][k].ts <= docs[i][k].ts

(* The cache is at least as new as what the sharing threads show, and as   *)
(* what those outside the lock are about to show.                          *)
CacheNewer ==
    \A i \in Shared: \A k \in 1..Len(cache.docs): Stamped(cache.docs[k]) =>
        /\ k \in 1..Len(shown[i]) => shown[i][k].ts <= cache.docs[k].ts
        /\ ~Fetching(i) /\ k \in 1..Len(docs[i]) /\ Stamped(docs[i][k]) =>
              docs[i][k].ts <= cache.docs[k].ts

(* What the owner of the lock has fetched is at least as new as anything   *)
(* the others show or hold and the cache stores.                           *)
FetchedNewest ==
    \A i \in Shared: Fetching(i) =>
        \A k \in 1..Len(docs[i]): Stamped(docs[i][k]) =>
            /\ k \in 1..Len(cache.docs) /\ Stamped(cache.docs[k]) =>
                  cache.docs[k].ts <= docs[i][k].ts
            /\ \A j \in Shared:
                  /\ k \in 1..Len(shown[j]) => shown[j][k].ts <= docs[i][k].ts
                  /\ j # i /\ k \in 1..Len(docs[j]) /\ Stamped(docs[j][k]) =>
                        docs[j][k].ts <= docs[i][k].ts

(* Until it releases the lock a writer finds in the cache what it wrote.   *)
WroteCache ==
    \A i \in Shared: pc[i] = "release" => cache.docs = docs[i] \/ cache.docs = <<>>

OrderInv == ~aged => HoldsNewer /\ CacheNewer /\ FetchedNewest /\ WroteCache

(* What the type invariant says about the elements of the sequences.       *)
LEMMA Shapes ==
    ASSUME Typed
    PROVE  /\ MaxVer \in Nat
           /\ \A i \in Instances:
                 /\ docs[i] \in Seq(Entry) /\ Len(docs[i]) \in Nat
                 /\ DOMAIN docs[i] = 1..Len(docs[i])
                 /\ \A k \in 1..Len(docs[i]): docs[i][k].node \in Nodes /\ docs[i][k].ts \in Nat
                 /\ shown[i] \in Seq(Shown) /\ Len(shown[i]) \in Nat
                 /\ DOMAIN shown[i] = 1..Len(shown[i])
                 /\ \A k \in 1..Len(shown[i]):
                       shown[i][k].node \in Nodes \union {NoOne} /\ shown[i][k].ts \in Nat
           /\ Len(cache.docs) \in Nat
           /\ \A k \in 1..Len(cache.docs):
                 cache.docs[k].node \in Nodes /\ cache.docs[k].ts \in Nat
           /\ \A n \in Nodes: ver[n] \in Nat /\ ver[n] >= 1
<1>1. MaxVer \in Nat /\ \A n \in Nodes: ver[n] \in Nat /\ ver[n] >= 1
  BY RefreshAssumption DEF Typed, TypeOK
<1>2. ASSUME NEW entries \in Seq(Entry)
      PROVE  /\ Len(entries) \in Nat /\ DOMAIN entries = 1..Len(entries)
             /\ \A k \in 1..Len(entries): entries[k].node \in Nodes /\ entries[k].ts \in Nat
  <2>1. \A k \in 1..Len(entries): entries[k] \in Entry
    BY ElementOfSeq
  <2>2. QED
    BY <1>1, <2>1, LenProperties DEF Entry
<1>3. ASSUME NEW slots \in Seq(Shown)
      PROVE  /\ Len(slots) \in Nat /\ DOMAIN slots = 1..Len(slots)
             /\ \A k \in 1..Len(slots):
                   slots[k].node \in Nodes \union {NoOne} /\ slots[k].ts \in Nat
  <2>1. \A k \in 1..Len(slots): slots[k] \in Shown
    BY ElementOfSeq
  <2>2. QED
    BY <1>1, <2>1, LenProperties DEF Shown
<1>4. cache.docs \in Seq(Entry)
  BY DEF Typed, TypeOK, Cache
<1>5. \A i \in Instances: docs[i] \in Seq(Entry) /\ shown[i] \in Seq(Shown)
  BY DEF Typed, TypeOK
<1>6. QED
  BY <1>1, <1>2, <1>3, <1>4, <1>5

(* One fetch, seen from outside: the answer lands behind what was there.   *)
LEMMA FetchFacts ==
    ASSUME Typed, NEW i \in Instances, Fetch(i)
    PROVE  \E answer \in Entry:
              LET next == Len(docs[i]) + 1 IN
              /\ answer \in Answers(targets[i][next])
              /\ answer.node = targets[i][next]
              /\ targets[i] \in TargetLists /\ next \in 1..Len(targets[i])
              /\ docs' = [docs EXCEPT ![i] = Append(docs[i], answer)]
              /\ Len(docs'[i]) = next /\ docs'[i][next] = answer
              /\ \A k \in 1..Len(docs[i]): docs'[i][k] = docs[i][k]
<1> DEFINE next == Len(docs[i]) + 1
<1>1. PICK answer \in Answers(targets[i][next]):
         docs' = [docs EXCEPT ![i] = Append(docs[i], answer)]
  BY DEF Fetch
<1>2. docs[i] \in Seq(Entry) /\ Len(docs[i]) \in Nat
  BY Shapes
<1>3. targets[i] \in TargetLists /\ Len(docs[i]) < Len(targets[i])
  BY DEF Fetch, Typed, TypeOK, ThreadInv
<1>4. next \in 1..Len(targets[i]) /\ targets[i][next] \in Nodes
  BY <1>2, <1>3, ListFacts
<1>5. answer \in Entry /\ answer.node = targets[i][next]
  BY <1>1, <1>4, AnswersFacts DEF Typed
<1> DEFINE after == Append(docs[i], answer)
<1>6. /\ Len(after) = next /\ after[next] = answer
      /\ \A k \in 1..Len(docs[i]): after[k] = docs[i][k]
  BY <1>2, <1>5, AppendProperties
<1>7. docs'[i] = after
  BY <1>1 DEF Typed, TypeOK
<1>8. QED
  BY <1>1, <1>3, <1>4, <1>5, <1>6, <1>7

(* The slots of a thread that starts are as many as its targets, empty.    *)
LEMMA StartFacts ==
    ASSUME Typed, NEW i \in Instances, Start(i)
    PROVE  /\ shown[i] = <<>>
           /\ \A j \in Instances: j # i => shown'[j] = shown[j]
           /\ \A k \in 1..Len(shown'[i]): shown'[i][k] = Nothing
<1>1. PICK list \in TargetLists:
         shown' = [shown EXCEPT ![i] = [k \in 1..Len(list) |-> Nothing]]
  BY DEF Start
<1>2. Len(list) \in Nat
  BY ListFacts
<1> DEFINE fresh == [k \in 1..Len(list) |-> Nothing]
<1>3. fresh \in [1..Len(list) -> {Nothing}]
  OBVIOUS
<1>4. Len(fresh) = Len(list)
  BY <1>2, <1>3, FunctionIsSeq
<1>5. shown'[i] = fresh /\ \A j \in Instances: j # i => shown'[j] = shown[j]
  BY <1>1 DEF Typed, TypeOK
<1>6. Len(shown[i]) = 0
  BY EmptySeq DEF Start, Typed, TypeOK, ThreadInv
<1>7. shown[i] = <<>>
  BY <1>6, Shapes, EmptySeq
<1>8. QED
  BY <1>4, <1>5, <1>7

LEMMA ProducedInvNext == Typed /\ ProducedInv /\ [Next]_vars => ProducedInv'
<1> SUFFICES ASSUME Typed, ProducedInv, [Next]_vars PROVE ProducedInv'
  OBVIOUS
<1> DEFINE AllProduced(entries) == \A k \in 1..Len(entries): Produced(entries[k])
           SlotOK(s) == IF s.node = NoOne THEN s.ts = 0 ELSE s.ts <= ver[s.node]
<1>1. AllProduced(<<>>) /\ Len(<<>>) = 0
  BY EmptySeq
<1>2. ASSUME ver' = ver,
             \A i \in Instances: AllProduced(docs'[i]),
             AllProduced(cache'.docs),
             \A i \in Instances: \A k \in 1..Len(shown'[i]): SlotOK(shown'[i][k])
      PROVE  ProducedInv'
  BY <1>2 DEF ProducedInv, Produced
<1>3. /\ \A i \in Instances: AllProduced(docs[i])
      /\ AllProduced(cache.docs)
      /\ \A i \in Instances: \A k \in 1..Len(shown[i]): SlotOK(shown[i][k])
  BY DEF ProducedInv
<1> HIDE DEF AllProduced
<1>4. ASSUME NEW i \in Instances, Start(i) PROVE ProducedInv'
  <2>1. SlotOK(Nothing)
    BY DEF Nothing
  <2>2. docs' = docs /\ cache' = cache /\ ver' = ver
    BY <1>4 DEF Start, files
  <2>3. \A j \in Instances: \A k \in 1..Len(shown'[j]): SlotOK(shown'[j][k])
    BY <1>3, <1>4, <2>1, StartFacts
  <2>4. QED
    BY <1>2, <1>3, <2>2, <2>3
<1>5. ASSUME NEW i \in Instances, Ends(i) PROVE ProducedInv'
  <2>1. \A j \in Instances: docs'[j] \in {docs[j], <<>>} /\ shown'[j] \in {shown[j], <<>>}
    BY <1>5 DEF Ends, Typed, TypeOK
  <2>2. cache' = cache /\ ver' = ver
    BY <1>5 DEF Ends, files
  <2>3. \A j \in Instances: AllProduced(docs'[j])
    BY <1>1, <1>3, <2>1
  <2>4. \A j \in Instances: \A k \in 1..Len(shown'[j]): SlotOK(shown'[j][k])
    BY <1>1, <1>3, <2>1
  <2>5. QED
    BY <1>2, <1>3, <2>2, <2>3, <2>4
<1>6. ASSUME NEW i \in Instances, NEW entries, AllProduced(entries),
             docs' = [docs EXCEPT ![i] = entries],
             cache' = cache, shown' = shown, ver' = ver
      PROVE  ProducedInv'
  <2>1. \A j \in Instances: docs'[j] \in {docs[j], entries}
    BY <1>6 DEF Typed, TypeOK
  <2>2. QED
    BY <1>2, <1>3, <1>6, <2>1
<1>7. ASSUME NEW i \in Instances, ReadCache(i) PROVE ProducedInv'
  <2>1. AllProduced(CachedDocs)
    BY <1>3, CachedDocsFacts DEF AllProduced, Produced, Typed
  <2>2. cache' = cache /\ shown' = shown /\ ver' = ver
    BY <1>7 DEF ReadCache, files
  <2>3. QED
    BY <1>1, <1>6, <1>7, <2>1, <2>2 DEF ReadCache
<1>8. ASSUME NEW i \in Instances, CreateLock(i) \/ RecreateLock(i) PROVE ProducedInv'
  <2>1. /\ cache' = cache /\ shown' = shown /\ ver' = ver
        /\ docs' = docs \/ docs' = [docs EXCEPT ![i] = <<>>]
    BY <1>8 DEF CreateLock, RecreateLock, TakeLock
  <2>2. QED
    BY <1>1, <1>2, <1>3, <1>6, <2>1
<1>9. ASSUME NEW i \in Instances, Fetch(i) PROVE ProducedInv'
  <2> DEFINE next == Len(docs[i]) + 1
             n == targets[i][next]
  <2>1. PICK answer \in Entry:
           /\ answer \in Answers(n) /\ answer.node = n
           /\ targets[i] \in TargetLists /\ next \in 1..Len(targets[i])
           /\ docs' = [docs EXCEPT ![i] = Append(docs[i], answer)]
           /\ Len(docs'[i]) = next /\ docs'[i][next] = answer
           /\ \A k \in 1..Len(docs[i]): docs'[i][k] = docs[i][k]
    BY <1>9, FetchFacts
  <2>2. n \in Nodes
    BY <2>1, ListFacts
  <2>3. answer.ts <= ver[n]
    BY <2>1, <2>2, AnswersFacts DEF Typed
  <2>4. answer.kind = "doc" /\ answer.ts = 0 => n \in Unstamped
    BY <2>1, <2>2, Shapes DEF Answers, Result
  <2>5. Produced(answer)
    BY <2>1, <2>3, <2>4 DEF Produced
  <2>6. ASSUME NEW k \in 1..next PROVE Produced(docs'[i][k])
    <3>1. CASE k = next
      BY <2>1, <2>5, <3>1
    <3>2. CASE k # next
      <4>1. k \in 1..Len(docs[i])
        BY <3>2, Shapes
      <4>2. QED
        BY <1>3, <2>1, <4>1 DEF AllProduced
    <3>3. QED
      BY <3>1, <3>2
  <2>7. docs'[i] = Append(docs[i], answer) /\ AllProduced(docs'[i])
    BY <2>1, <2>6 DEF AllProduced, Typed, TypeOK
  <2>8. cache' = cache /\ shown' = shown /\ ver' = ver
    BY <1>9 DEF Fetch, files
  <2>9. AllProduced(Append(docs[i], answer))
    BY <2>7
  <2>10. QED
    BY <1>6, <2>1, <2>8, <2>9
<1>10. ASSUME NEW i \in Instances, TruncateCache(i) \/ WriteCache(i) PROVE ProducedInv'
  <2>1. /\ docs' = docs /\ shown' = shown /\ ver' = ver
        /\ cache'.docs = <<>> \/ cache'.docs = docs[i]
    BY <1>10 DEF TruncateCache, WriteCache, EmptyCache
  <2>2. QED
    BY <1>1, <1>2, <1>3, <2>1
<1>11. ASSUME NEW i \in Instances, Apply(i) PROVE ProducedInv'
  <2>1. /\ cache' = cache /\ ver' = ver
        /\ docs' = [docs EXCEPT ![i] = <<>>]
        /\ shown' = [shown EXCEPT ![i] = [k \in DOMAIN shown[i] |-> AfterApply(i, k)]]
    BY <1>11 DEF Apply, files
  <2>2. ASSUME NEW k \in DOMAIN shown[i] PROVE SlotOK(AfterApply(i, k))
    <3>1. CASE k \in DOMAIN docs[i] /\ Applies(docs[i][k], shown[i][k])
      <4>1. k \in 1..Len(docs[i])
        BY <3>1, Shapes
      <4>2. docs[i][k].node # NoOne
        BY <4>1, Shapes, RefreshAssumption
      <4>3. docs[i][k].ts <= ver[docs[i][k].node]
        BY <1>3, <4>1 DEF AllProduced, Produced
      <4>4. QED
        BY <3>1, <4>2, <4>3 DEF AfterApply
    <3>2. CASE ~(k \in DOMAIN docs[i] /\ Applies(docs[i][k], shown[i][k]))
      BY <1>3, <3>2, Shapes DEF AfterApply
    <3>3. QED
      BY <3>1, <3>2
  <2> DEFINE after == [k \in DOMAIN shown[i] |-> AfterApply(i, k)]
  <2>3. Len(after) = Len(shown[i])
    <3>1. Len(shown[i]) \in Nat /\ DOMAIN shown[i] = 1..Len(shown[i])
      BY Shapes
    <3>2. after \in [1..Len(shown[i]) -> {AfterApply(i, k): k \in 1..Len(shown[i])}]
      BY <3>1
    <3>3. QED
      BY <3>1, <3>2, FunctionIsSeq
  <2>4. \A k \in 1..Len(after): SlotOK(after[k])
    BY <2>2, <2>3, Shapes
  <2> HIDE DEF after
  <2>5. \A j \in Instances: shown'[j] \in {shown[j], after} /\ docs'[j] \in {docs[j], <<>>}
    BY <2>1 DEF after, Typed, TypeOK
  <2>6. QED
    BY <1>1, <1>2, <1>3, <2>1, <2>4, <2>5
<1>12. ASSUME NEW n \in Nodes, Publish(n) PROVE ProducedInv'
  <2>1. docs' = docs /\ cache' = cache /\ shown' = shown
    BY <1>12 DEF Publish, files
  <2>2. \A m \in Nodes: ver[m] \in Nat /\ ver'[m] \in Nat /\ ver[m] <= ver'[m]
    BY <1>12 DEF Publish, Typed, TypeOK
  <2> DEFINE StillProduced(e) ==
                /\ e.ts <= ver'[e.node]
                /\ e.kind = "doc" /\ e.ts = 0 => e.node \in Unstamped
  <2>3. ASSUME NEW e, e.node \in Nodes, e.ts \in Nat, Produced(e) PROVE StillProduced(e)
    BY <2>2, <2>3 DEF Produced
  <2>4. \A i \in Instances: \A k \in 1..Len(docs[i]): StillProduced(docs[i][k])
    BY <1>3, <2>3, Shapes DEF AllProduced
  <2>5. \A k \in 1..Len(cache.docs): StillProduced(cache.docs[k])
    BY <1>3, <2>3, Shapes DEF AllProduced
  <2>6. \A i \in Instances: \A k \in 1..Len(shown'[i]):
           IF shown'[i][k].node = NoOne THEN shown'[i][k].ts = 0
           ELSE shown'[i][k].ts <= ver'[shown'[i][k].node]
    <3> SUFFICES ASSUME NEW i \in Instances, NEW k \in 1..Len(shown[i])
                 PROVE  IF shown[i][k].node = NoOne THEN shown[i][k].ts = 0
                        ELSE shown[i][k].ts <= ver'[shown[i][k].node]
      BY <2>1
    <3> DEFINE s == shown[i][k]
    <3>1. SlotOK(s)
      BY <1>3
    <3>2. s.node \in Nodes \union {NoOne} /\ s.ts \in Nat
      BY Shapes
    <3> HIDE DEF s
    <3>3. IF s.node = NoOne THEN s.ts = 0 ELSE s.ts <= ver'[s.node]
      BY <2>2, <3>1, <3>2
    <3>4. QED
      BY <3>3 DEF s
  <2>7. QED
    BY <2>1, <2>4, <2>5, <2>6 DEF ProducedInv, Produced
<1>13. CASE AgeCache
  <2>1. /\ docs' = docs /\ shown' = shown /\ ver' = ver
        /\ cache'.docs = cache.docs
    BY <1>13 DEF AgeCache, CacheUsable, Typed, TypeOK, Cache
  <2>2. QED
    BY <1>2, <1>3, <2>1
<1>14. ASSUME UNCHANGED <<docs, shown, cache, ver>> PROVE ProducedInv'
  BY <1>2, <1>3, <1>14
<1>15. QED
  BY <1>4, <1>5, <1>7, <1>8, <1>9, <1>10, <1>11, <1>12, <1>13, <1>14
  DEF Next, Step, Drop, Crash, Exit, StatLock, RemoveStaleLock, ReleaseLock,
      AgeLock, files, vars

(* Nobody but the owner of a lock that never was stale can disturb what it *)
(* relies on.  One step per action; the frame step serves those that move  *)
(* no document.                                                            *)
LEMMA OrderInvNext ==
    ASSUME ListsAgree
    PROVE  /\ Typed /\ LockInv /\ PlaceInv /\ RightSlot /\ ProducedInv /\ OrderInv
           /\ [Next]_vars
           => OrderInv'
<1> SUFFICES ASSUME Typed, LockInv, PlaceInv, RightSlot, ProducedInv, OrderInv,
                    [Next]_vars, ~aged'
             PROVE  (HoldsNewer /\ CacheNewer /\ FetchedNewest /\ WroteCache)'
  BY DEF OrderInv
<1> DEFINE Goal == HoldsNewer' /\ CacheNewer' /\ FetchedNewest' /\ WroteCache'
<1>1. ~aged
  BY DEF Next, Step, Start, Drop, Crash, Exit, Ends, ReadCache, CreateLock,
         StatLock, RemoveStaleLock, RecreateLock, Fetch, TruncateCache,
         WriteCache, ReleaseLock, Apply, Publish, AgeCache, AgeLock, files, vars
<1>2. /\ HoldsNewer /\ CacheNewer /\ FetchedNewest /\ WroteCache
      /\ \A j \in Instances: Fetching(j) => lock = j
      /\ \A j \in Instances: pc[j] \notin {"remove", "recreate"}
  BY <1>1 DEF OrderInv, LockInv
<1>3. Shared \subseteq Instances
  BY RefreshAssumption
<1>4. /\ \A i \in Instances:
            /\ Len(docs[i]) \in Nat /\ Len(shown[i]) \in Nat
            /\ \A k \in 1..Len(docs[i]): docs[i][k].ts \in Nat
            /\ \A k \in 1..Len(shown[i]): shown[i][k].ts \in Nat
      /\ Len(cache.docs) \in Nat
      /\ \A k \in 1..Len(cache.docs): cache.docs[k].ts \in Nat
  BY Shapes
<1>5. Len(<<>>) = 0
  BY EmptySeq
<1>6. ASSUME docs' = docs, shown' = shown, cache'.docs = cache.docs,
             \A j \in Instances: Fetching(j)' <=> Fetching(j),
             \A j \in Instances: pc'[j] = "release" => pc[j] = "release"
      PROVE  Goal
  <2>1. HoldsNewer'
    BY <1>2, <1>6 DEF HoldsNewer
  <2>2. CacheNewer'
    BY <1>2, <1>3, <1>6 DEF CacheNewer
  <2>3. FetchedNewest'
    BY <1>2, <1>3, <1>6 DEF FetchedNewest
  <2>4. WroteCache'
    BY <1>2, <1>3, <1>6 DEF WroteCache
  <2>5. QED
    BY <2>1, <2>2, <2>3, <2>4
<1>7. ASSUME NEW i \in Instances,
             docs'[i] = <<>>,
             \A j \in Instances: j # i => docs'[j] = docs[j] /\ pc'[j] = pc[j],
             pc'[i] # "release",
             \A j \in Instances:
                \/ shown'[j] = shown[j]
                \/ \A k \in 1..Len(shown'[j]): shown'[j][k].ts = 0,
             cache' = cache
      PROVE  Goal
  <2>1. \A j \in Instances: j # i => (Fetching(j)' <=> Fetching(j))
    BY <1>7 DEF Fetching
  <2>2. HoldsNewer'
    <3> SUFFICES ASSUME NEW j \in Instances, NEW k \in 1..Len(shown'[j]),
                        k \in 1..Len(docs'[j]), Stamped(docs'[j][k])
                 PROVE  shown'[j][k].ts <= docs'[j][k].ts
      BY DEF HoldsNewer, Stamped
    <3>1. j # i /\ docs'[j] = docs[j]
      BY <1>5, <1>7
    <3>2. CASE shown'[j] = shown[j]
      BY <1>2, <3>1, <3>2 DEF HoldsNewer
    <3>3. CASE \A l \in 1..Len(shown'[j]): shown'[j][l].ts = 0
      BY <1>4, <3>1, <3>3
    <3>4. QED
      BY <1>7, <3>2, <3>3
  <2>3. CacheNewer'
    <3> SUFFICES ASSUME NEW j \in Shared, NEW k \in 1..Len(cache.docs), Stamped(cache.docs[k])
                 PROVE  /\ k \in 1..Len(shown'[j]) => shown'[j][k].ts <= cache.docs[k].ts
                        /\ ~Fetching(j)' /\ k \in 1..Len(docs'[j]) /\ Stamped(docs'[j][k]) =>
                              docs'[j][k].ts <= cache.docs[k].ts
      BY <1>7 DEF CacheNewer, Stamped
    <3>1. ASSUME k \in 1..Len(shown'[j]) PROVE shown'[j][k].ts <= cache.docs[k].ts
      <4>1. CASE shown'[j] = shown[j]
        BY <1>2, <3>1, <4>1 DEF CacheNewer
      <4>2. CASE \A l \in 1..Len(shown'[j]): shown'[j][l].ts = 0
        <5>1. cache.docs[k].ts \in Nat
          BY <1>4
        <5>2. QED
          BY <3>1, <4>2, <5>1
      <4>3. QED
        BY <1>3, <1>7, <4>1, <4>2
    <3>2. CASE j = i
      BY <1>5, <1>7, <3>1, <3>2
    <3>3. CASE j # i
      BY <1>2, <1>3, <1>7, <2>1, <3>1, <3>3 DEF CacheNewer
    <3>4. QED
      BY <3>2, <3>3
  <2>4. FetchedNewest'
    <3> SUFFICES ASSUME NEW o \in Shared, Fetching(o), o # i, docs'[o] = docs[o],
                        NEW k \in 1..Len(docs[o]), Stamped(docs[o][k])
                 PROVE  /\ k \in 1..Len(cache.docs) /\ Stamped(cache.docs[k]) =>
                              cache.docs[k].ts <= docs[o][k].ts
                        /\ \A j \in Shared:
                              /\ k \in 1..Len(shown'[j]) => shown'[j][k].ts <= docs[o][k].ts
                              /\ j # o /\ k \in 1..Len(docs'[j]) /\ Stamped(docs'[j][k]) =>
                                    docs'[j][k].ts <= docs[o][k].ts
      BY <1>3, <1>5, <1>7, <2>1 DEF FetchedNewest, Stamped
    <3>1. k \in 1..Len(cache.docs) /\ Stamped(cache.docs[k]) => cache.docs[k].ts <= docs[o][k].ts
      BY <1>2 DEF FetchedNewest
    <3>2. ASSUME NEW j \in Shared, k \in 1..Len(shown'[j])
          PROVE  shown'[j][k].ts <= docs[o][k].ts
      <4>1. CASE shown'[j] = shown[j]
        BY <1>2, <3>2, <4>1 DEF FetchedNewest
      <4>2. CASE \A l \in 1..Len(shown'[j]): shown'[j][l].ts = 0
        <5>1. docs[o][k].ts \in Nat
          BY <1>3, <1>4
        <5>2. QED
          BY <3>2, <4>2, <5>1
      <4>3. QED
        BY <1>3, <1>7, <4>1, <4>2
    <3>3. ASSUME NEW j \in Shared, j # o, k \in 1..Len(docs'[j]), Stamped(docs'[j][k])
          PROVE  docs'[j][k].ts <= docs[o][k].ts
      <4>1. j # i /\ docs'[j] = docs[j]
        BY <1>3, <1>5, <1>7, <3>3
      <4>2. QED
        BY <1>2, <3>3, <4>1 DEF FetchedNewest
    <3>4. QED
      BY <3>1, <3>2, <3>3
  <2>5. WroteCache'
    BY <1>2, <1>3, <1>7 DEF WroteCache
  <2>6. QED
    BY <2>2, <2>3, <2>4, <2>5
<1> HIDE DEF Goal
<1>8. ASSUME NEW i \in Instances, Start(i) PROVE Goal
  <2>1. docs[i] = <<>> /\ docs' = docs /\ cache' = cache
    BY <1>8 DEF Start, Typed, ThreadInv, files
  <2>2. \A j \in Instances:
           \/ shown'[j] = shown[j]
           \/ \A k \in 1..Len(shown'[j]): shown'[j][k].ts = 0
    BY <1>8, StartFacts DEF Nothing
  <2>3. pc' = [pc EXCEPT ![i] = "read"]
    BY <1>8 DEF Start
  <2>4. pc'[i] # "release" /\ \A j \in Instances: j # i => pc'[j] = pc[j]
    BY <2>3 DEF Typed, TypeOK
  <2>5. QED
    BY <1>7, <2>1, <2>2, <2>4
<1>9. ASSUME NEW i \in Instances, Ends(i) PROVE Goal
  <2>1. /\ docs'[i] = <<>> /\ pc'[i] = "off" /\ cache' = cache
        /\ \A j \in Instances: j # i => docs'[j] = docs[j] /\ pc'[j] = pc[j]
        /\ \A j \in Instances: shown'[j] = shown[j] \/ shown'[j] = <<>>
    BY <1>9 DEF Ends, files, Typed, TypeOK
  <2>2. QED
    BY <1>5, <1>7, <2>1
<1>10. ASSUME NEW i \in Instances, CreateLock(i) PROVE Goal
  <2>1. shown' = shown /\ cache' = cache
    BY <1>10 DEF CreateLock
  <2>2. CASE lock = NoOne
    <3>1. /\ docs'[i] = <<>> /\ pc'[i] = "fetch"
          /\ \A j \in Instances: j # i => docs'[j] = docs[j] /\ pc'[j] = pc[j]
      BY <1>10, <2>2 DEF CreateLock, TakeLock, Typed, TypeOK
    <3>2. QED
      BY <1>7, <2>1, <3>1
  <2>3. CASE lock # NoOne
    <3>1. docs' = docs /\ pc' = [pc EXCEPT ![i] = "stat"] /\ pc[i] = "create"
      BY <1>10, <2>3 DEF CreateLock, TakeLock
    <3>2. \A j \in Instances: Fetching(j)' <=> Fetching(j)
      BY <3>1 DEF Fetching, Critical, Typed, TypeOK
    <3>3. \A j \in Instances: pc'[j] = "release" => pc[j] = "release"
      BY <3>1 DEF Typed, TypeOK
    <3>4. QED
      BY <1>6, <2>1, <3>1, <3>2, <3>3
  <2>4. QED
    BY <2>2, <2>3
<1>11. ASSUME NEW i \in Instances, RemoveStaleLock(i) \/ RecreateLock(i) PROVE Goal
  BY <1>2, <1>11 DEF RemoveStaleLock, RecreateLock
<1>12. ASSUME NEW i \in Instances, StatLock(i) PROVE Goal
  <2>1. /\ docs' = docs /\ shown' = shown /\ cache' = cache /\ pc[i] = "stat"
        /\ pc' = [pc EXCEPT ![i] = "remove"] \/ pc' = [pc EXCEPT ![i] = "apply"]
    BY <1>12 DEF StatLock, files
  <2>2. \A j \in Instances: Fetching(j)' <=> Fetching(j)
    BY <2>1 DEF Fetching, Critical, Typed, TypeOK
  <2>3. \A j \in Instances: pc'[j] = "release" => pc[j] = "release"
    BY <2>1 DEF Typed, TypeOK
  <2>4. QED
    BY <1>6, <2>1, <2>2, <2>3
<1>13. ASSUME NEW i \in Instances, ReadCache(i) PROVE Goal
  <2>1. /\ shown' = shown /\ cache' = cache
        /\ \A j \in Instances: j # i => docs'[j] = docs[j] /\ pc'[j] = pc[j]
    BY <1>13 DEF ReadCache, files, Typed, TypeOK
  <2>2. CASE i \notin Shared
    <3>1. docs'[i] = <<>> /\ pc'[i] = "fetch"
      BY <1>13, <2>2 DEF ReadCache, Typed, TypeOK
    <3>2. QED
      BY <1>7, <2>1, <3>1
  <2>3. CASE i \in Shared
    <3>1. docs'[i] = CachedDocs /\ pc'[i] \in {"apply", "create"} /\ pc[i] = "read"
      BY <1>13, <2>3 DEF ReadCache, Typed, TypeOK
    <3>2. \A k \in 1..Len(docs'[i]):
             /\ k \in 1..Len(cache.docs)
             /\ docs'[i][k].kind = cache.docs[k].kind
             /\ docs'[i][k].ts = cache.docs[k].ts
      BY <3>1, CachedDocsFacts DEF Typed
    <3>3. \A j \in Instances: Fetching(j)' <=> Fetching(j)
      BY <2>1, <3>1 DEF Fetching, Critical
    <3>4. ~Fetching(i)
      BY <3>1 DEF Fetching, Critical
    <3>5. HoldsNewer'
      <4> SUFFICES ASSUME NEW j \in Instances, NEW k \in 1..Len(shown[j]),
                          k \in 1..Len(docs'[j]), Stamped(docs'[j][k])
                   PROVE  shown[j][k].ts <= docs'[j][k].ts
        BY <2>1 DEF HoldsNewer, Stamped
      <4>1. CASE j = i
        <5>1. k \in 1..Len(cache.docs) /\ Stamped(cache.docs[k])
          BY <3>2, <4>1 DEF Stamped
        <5>2. shown[i][k].ts <= cache.docs[k].ts
          BY <1>2, <2>3, <4>1, <5>1 DEF CacheNewer
        <5>3. QED
          BY <3>2, <4>1, <5>2
      <4>2. CASE j # i
        BY <1>2, <2>1, <4>2 DEF HoldsNewer
      <4>3. QED
        BY <4>1, <4>2
    <3>6. CacheNewer'
      <4> SUFFICES ASSUME NEW j \in Shared, NEW k \in 1..Len(cache.docs), Stamped(cache.docs[k])
                   PROVE  /\ k \in 1..Len(shown[j]) => shown[j][k].ts <= cache.docs[k].ts
                          /\ ~Fetching(j) /\ k \in 1..Len(docs'[j]) /\ Stamped(docs'[j][k]) =>
                                docs'[j][k].ts <= cache.docs[k].ts
        BY <1>3, <2>1, <3>3 DEF CacheNewer, Stamped
      <4>1. CASE j # i
        BY <1>2, <1>3, <2>1, <4>1 DEF CacheNewer
      <4>2. CASE j = i
        <5>1. k \in 1..Len(docs'[i]) => docs'[i][k].ts <= cache.docs[k].ts
          BY <1>4, <3>2
        <5>2. QED
          BY <1>2, <4>2, <5>1 DEF CacheNewer
      <4>3. QED
        BY <4>1, <4>2
    <3>7. FetchedNewest'
      <4> SUFFICES ASSUME NEW o \in Shared, Fetching(o), o # i, docs'[o] = docs[o],
                          NEW k \in 1..Len(docs[o]), Stamped(docs[o][k])
                   PROVE  /\ k \in 1..Len(cache.docs) /\ Stamped(cache.docs[k]) =>
                                cache.docs[k].ts <= docs[o][k].ts
                          /\ \A j \in Shared:
                                /\ k \in 1..Len(shown[j]) => shown[j][k].ts <= docs[o][k].ts
                                /\ j # o /\ k \in 1..Len(docs'[j]) /\ Stamped(docs'[j][k]) =>
                                      docs'[j][k].ts <= docs[o][k].ts
        <5>1. \A o \in Shared: Fetching(o)' => Fetching(o) /\ o # i /\ docs'[o] = docs[o]
          BY <1>3, <2>1, <3>3, <3>4
        <5>2. QED
          BY <2>1, <5>1 DEF FetchedNewest, Stamped
      <4>1. k \in 1..Len(cache.docs) /\ Stamped(cache.docs[k]) => cache.docs[k].ts <= docs[o][k].ts
        BY <1>2 DEF FetchedNewest
      <4>2. \A j \in Shared: k \in 1..Len(shown[j]) => shown[j][k].ts <= docs[o][k].ts
        BY <1>2 DEF FetchedNewest
      <4>3. ASSUME NEW j \in Shared, j # o, k \in 1..Len(docs'[j]), Stamped(docs'[j][k])
            PROVE  docs'[j][k].ts <= docs[o][k].ts
        <5>1. CASE j = i
          <6>1. k \in 1..Len(cache.docs) /\ Stamped(cache.docs[k]) /\ docs'[j][k].ts = cache.docs[k].ts
            BY <3>2, <4>3, <5>1 DEF Stamped
          <6>2. QED
            BY <4>1, <6>1
        <5>2. CASE j # i
          BY <1>2, <1>3, <2>1, <4>3, <5>2 DEF FetchedNewest
        <5>3. QED
          BY <5>1, <5>2
      <4>4. QED
        BY <4>1, <4>2, <4>3
    <3>8. WroteCache'
      BY <1>2, <1>3, <2>1, <3>1 DEF WroteCache
    <3>9. QED
      BY <3>5, <3>6, <3>7, <3>8 DEF Goal
  <2>4. QED
    BY <2>2, <2>3
<1>14. ASSUME NEW i \in Instances, Fetch(i) PROVE Goal
  <2> DEFINE next == Len(docs[i]) + 1
             n == targets[i][next]
  <2>1. PICK answer \in Entry:
           /\ answer \in Answers(n) /\ answer.node = n
           /\ targets[i] \in TargetLists /\ next \in 1..Len(targets[i])
           /\ docs' = [docs EXCEPT ![i] = Append(docs[i], answer)]
           /\ Len(docs'[i]) = next /\ docs'[i][next] = answer
           /\ \A k \in 1..Len(docs[i]): docs'[i][k] = docs[i][k]
    BY <1>14, FetchFacts
  <2>2. n \in Nodes /\ ver[n] \in Nat
    BY <2>1, ListFacts, Shapes
  <2>3. Stamped(answer) => answer.ts = ver[n]
    BY <2>1 DEF Answers, Result, Stamped
  <2>4. /\ cache' = cache /\ shown' = shown /\ pc[i] = "fetch"
        /\ pc'[i] \in {"fetch", "truncate", "apply"}
        /\ pc'[i] = "apply" => i \notin Shared
        /\ \A j \in Instances: j # i => docs'[j] = docs[j] /\ pc'[j] = pc[j]
    BY <1>14 DEF Fetch, files, Typed, TypeOK
  <2>5. \A j \in Instances: Fetching(j)' <=> Fetching(j)
    BY <2>4 DEF Fetching, Critical
  <2>6. ASSUME NEW j \in Instances, next \in 1..Len(shown[j])
        PROVE  shown[j][next].ts <= ver[n]
    <3>1. shown[j][next].node \in {NoOne, targets[j][next]}
      BY <2>6, Shapes DEF RightSlot
    <3>2. targets[j] \in TargetLists /\ next \in 1..Len(targets[j])
      BY <2>6, <1>5 DEF Typed, TypeOK
    <3>3. targets[j][next] = n
      BY <2>1, <3>2 DEF ListsAgree
    <3>4. QED
      BY <2>2, <2>6, <3>1, <3>3 DEF ProducedInv
  <2>7. ASSUME NEW entries, Placed(entries), next \in 1..Len(entries),
               Produced(entries[next])
        PROVE  entries[next].ts <= ver[n]
    <3>1. PICK list \in TargetLists: next \in 1..Len(list) /\ entries[next].node = list[next]
      BY <2>7 DEF Placed
    <3>2. list[next] = n
      BY <2>1, <3>1 DEF ListsAgree
    <3>3. QED
      BY <2>7, <3>1, <3>2 DEF Produced
  <2>8. next \in 1..Len(cache.docs) => cache.docs[next].ts <= ver[n]
    BY <2>7 DEF PlaceInv, ProducedInv
  <2>9. \A j \in Instances: next \in 1..Len(docs[j]) => docs[j][next].ts <= ver[n]
    BY <2>7 DEF PlaceInv, ProducedInv
  <2>10. \A k \in 1..Len(docs'[i]): k = next \/ k \in 1..Len(docs[i])
    BY <1>4, <2>1
  <2>11. HoldsNewer'
    <3> SUFFICES ASSUME NEW j \in Instances, NEW k \in 1..Len(shown[j]),
                        k \in 1..Len(docs'[j]), Stamped(docs'[j][k])
                 PROVE  shown[j][k].ts <= docs'[j][k].ts
      BY <2>4 DEF HoldsNewer, Stamped
    <3>1. CASE j = i /\ k = next
      BY <2>1, <2>3, <2>6, <3>1
    <3>2. CASE ~(j = i /\ k = next)
      <4>1. k \in 1..Len(docs[j]) /\ docs'[j][k] = docs[j][k]
        BY <2>1, <2>4, <2>10, <3>2
      <4>2. QED
        BY <1>2, <4>1 DEF HoldsNewer
    <3>3. QED
      BY <3>1, <3>2
  <2>12. CacheNewer'
    <3>1. ASSUME NEW j \in Shared, ~Fetching(j) PROVE docs'[j] = docs[j]
      BY <1>3, <2>4, <3>1 DEF Fetching, Critical
    <3>2. QED
      BY <1>2, <1>3, <2>4, <2>5, <3>1 DEF CacheNewer, Stamped
  <2>13. FetchedNewest'
    <3> SUFFICES ASSUME NEW o \in Shared, Fetching(o),
                        NEW k \in 1..Len(docs'[o]), Stamped(docs'[o][k])
                 PROVE  /\ k \in 1..Len(cache.docs) /\ Stamped(cache.docs[k]) =>
                              cache.docs[k].ts <= docs'[o][k].ts
                        /\ \A j \in Shared:
                              /\ k \in 1..Len(shown[j]) => shown[j][k].ts <= docs'[o][k].ts
                              /\ j # o /\ k \in 1..Len(docs'[j]) /\ Stamped(docs'[j][k]) =>
                                    docs'[j][k].ts <= docs'[o][k].ts
      BY <1>3, <2>4, <2>5 DEF FetchedNewest, Stamped
    <3>1. \A j \in Shared: j # o => docs'[j] = docs[j]
      <4>1. CASE o = i
        BY <1>3, <2>4, <4>1
      <4>2. CASE o # i
        <5>1. i \notin Shared
          BY <1>2, <1>3, <2>4, <4>2 DEF Fetching, Critical
        <5>2. QED
          BY <1>3, <2>4, <5>1
      <4>3. QED
        BY <4>1, <4>2
    <3>2. CASE o = i /\ k = next
      BY <1>3, <2>1, <2>3, <2>6, <2>8, <2>9, <3>1, <3>2
    <3>3. CASE ~(o = i /\ k = next)
      <4>1. k \in 1..Len(docs[o]) /\ docs'[o][k] = docs[o][k]
        BY <1>3, <2>1, <2>4, <2>10, <3>3
      <4>2. QED
        BY <1>2, <3>1, <4>1 DEF FetchedNewest
    <3>4. QED
      BY <3>2, <3>3
  <2>14. WroteCache'
    BY <1>2, <1>3, <2>4 DEF WroteCache
  <2>15. QED
    BY <2>11, <2>12, <2>13, <2>14 DEF Goal
<1>15. ASSUME NEW i \in Instances, TruncateCache(i) PROVE Goal
  <2>1. /\ docs' = docs /\ shown' = shown /\ cache'.docs = <<>>
        /\ pc[i] = "truncate" /\ pc' = [pc EXCEPT ![i] = "write"]
    BY <1>15 DEF TruncateCache, EmptyCache
  <2>2. \A j \in Instances: Fetching(j)' <=> Fetching(j)
    BY <2>1 DEF Fetching, Critical, Typed, TypeOK
  <2>3. HoldsNewer' /\ CacheNewer'
    BY <1>2, <1>5, <2>1 DEF HoldsNewer, CacheNewer
  <2>4. FetchedNewest'
    BY <1>2, <1>3, <1>5, <2>1, <2>2 DEF FetchedNewest
  <2>5. WroteCache'
    BY <2>1 DEF WroteCache
  <2>6. QED
    BY <2>3, <2>4, <2>5 DEF Goal
<1>16. ASSUME NEW i \in Instances, WriteCache(i) PROVE Goal
  <2>1. /\ docs' = docs /\ shown' = shown
        /\ cache'.docs = docs[i] \/ cache'.docs = <<>>
        /\ pc[i] = "write" /\ pc' = [pc EXCEPT ![i] = "release"]
    BY <1>16 DEF WriteCache, EmptyCache
  <2>2. \A j \in Instances: Fetching(j)' <=> Fetching(j)
    BY <2>1 DEF Fetching, Critical, Typed, TypeOK
  <2>3. i \in Shared /\ Fetching(i)
    BY <2>1 DEF Fetching, Critical, Typed, ThreadInv, SharedOnly
  <2>4. \A j \in Instances: Fetching(j) => j = i
    BY <1>2, <2>3
  <2>5. HoldsNewer'
    BY <1>2, <2>1 DEF HoldsNewer
  <2>6. CacheNewer'
    <3> SUFFICES ASSUME NEW o \in Shared, NEW k \in 1..Len(cache'.docs),
                        Stamped(cache'.docs[k])
                 PROVE  /\ k \in 1..Len(shown[o]) => shown[o][k].ts <= cache'.docs[k].ts
                        /\ ~Fetching(o) /\ k \in 1..Len(docs[o]) /\ Stamped(docs[o][k]) =>
                              docs[o][k].ts <= cache'.docs[k].ts
      BY <1>3, <2>1, <2>2 DEF CacheNewer
    <3>1. cache'.docs = docs[i] /\ k \in 1..Len(docs[i]) /\ Stamped(docs[i][k])
      BY <1>5, <2>1
    <3>2. \A j \in Shared:
             /\ k \in 1..Len(shown[j]) => shown[j][k].ts <= docs[i][k].ts
             /\ j # i /\ k \in 1..Len(docs[j]) /\ Stamped(docs[j][k]) =>
                   docs[j][k].ts <= docs[i][k].ts
      BY <1>2, <2>3, <3>1 DEF FetchedNewest
    <3>3. QED
      BY <2>3, <3>1, <3>2
  <2>7. FetchedNewest'
    <3> SUFFICES ASSUME NEW o \in Shared, Fetching(o)', NEW k \in 1..Len(docs[o]),
                        Stamped(docs[o][k])
                 PROVE  /\ k \in 1..Len(cache'.docs) /\ Stamped(cache'.docs[k]) =>
                              cache'.docs[k].ts <= docs[o][k].ts
                        /\ \A j \in Shared:
                              /\ k \in 1..Len(shown[j]) => shown[j][k].ts <= docs[o][k].ts
                              /\ j # o /\ k \in 1..Len(docs[j]) /\ Stamped(docs[j][k]) =>
                                    docs[j][k].ts <= docs[o][k].ts
      BY <2>1 DEF FetchedNewest
    <3>1. o = i
      BY <1>3, <2>2, <2>4
    <3>2. docs[i][k].ts <= docs[i][k].ts
      BY <3>1, Shapes
    <3>3. \/ cache'.docs = docs[i]
          \/ k \notin 1..Len(cache'.docs)
      BY <1>5, <2>1
    <3>4. k \in 1..Len(cache'.docs) => cache'.docs[k].ts <= docs[o][k].ts
      BY <3>1, <3>2, <3>3
    <3>5. QED
      BY <1>2, <2>3, <3>1, <3>4 DEF FetchedNewest
  <2>8. WroteCache'
    <3>1. \A j \in Instances: j # i => (pc'[j] = pc[j] /\ pc[j] # "release") \/ j \notin Shared
      BY <2>1, <2>4 DEF Fetching, Critical, Typed, TypeOK
    <3>2. QED
      BY <1>3, <2>1, <3>1 DEF WroteCache
  <2>9. QED
    BY <2>5, <2>6, <2>7, <2>8 DEF Goal
<1>17. ASSUME NEW i \in Instances, ReleaseLock(i) PROVE Goal
  <2>1. /\ docs' = docs /\ shown' = shown /\ cache' = cache
        /\ pc[i] = "release" /\ pc' = [pc EXCEPT ![i] = "apply"]
    BY <1>17 DEF ReleaseLock
  <2>2. i \in Shared /\ Fetching(i)
    BY <2>1 DEF Fetching, Critical, Typed, ThreadInv, SharedOnly
  <2>3. \A j \in Instances: Fetching(j) => j = i
    BY <1>2, <2>2
  <2>4. \A j \in Instances: ~Fetching(j)'
    BY <2>1, <2>3 DEF Fetching, Critical, Typed, TypeOK
  <2>5. cache.docs = docs[i] \/ cache.docs = <<>>
    BY <1>2, <2>1, <2>2 DEF WroteCache
  <2>6. HoldsNewer'
    BY <1>2, <2>1 DEF HoldsNewer
  <2>7. CacheNewer'
    <3> SUFFICES ASSUME NEW j \in Shared, NEW k \in 1..Len(cache.docs), Stamped(cache.docs[k])
                 PROVE  /\ k \in 1..Len(shown[j]) => shown[j][k].ts <= cache.docs[k].ts
                        /\ k \in 1..Len(docs[j]) /\ Stamped(docs[j][k]) =>
                              docs[j][k].ts <= cache.docs[k].ts
      BY <1>3, <2>1, <2>4 DEF CacheNewer, Stamped
    <3>1. CASE j # i
      BY <1>2, <1>3, <2>3, <3>1 DEF CacheNewer
    <3>2. CASE j = i
      <4>1. cache.docs = docs[i]
        BY <1>5, <2>5
      <4>2. QED
        BY <1>2, <1>3, <1>4, <3>2, <4>1 DEF CacheNewer
    <3>3. QED
      BY <3>1, <3>2
  <2>8. FetchedNewest'
    BY <1>3, <2>4 DEF FetchedNewest
  <2>9. WroteCache'
    BY <1>2, <1>3, <2>1 DEF WroteCache, Typed, TypeOK
  <2>10. QED
    BY <2>6, <2>7, <2>8, <2>9 DEF Goal
<1>18. ASSUME NEW i \in Instances, Apply(i) PROVE Goal
  <2>1. /\ cache' = cache /\ pc[i] = "apply" /\ pc'[i] = "read" /\ docs'[i] = <<>>
        /\ \A j \in Instances: j # i => docs'[j] = docs[j] /\ pc'[j] = pc[j] /\ shown'[j] = shown[j]
        /\ shown'[i] = [k \in DOMAIN shown[i] |-> AfterApply(i, k)]
    BY <1>18 DEF Apply, files, Typed, TypeOK
  <2>2. ASSUME NEW k \in 1..Len(shown'[i])
        PROVE  /\ k \in 1..Len(shown[i])
               /\ \/ shown'[i][k].ts = shown[i][k].ts
                  \/ k \in 1..Len(docs[i]) /\ Stamped(docs[i][k]) /\ shown'[i][k].ts = docs[i][k].ts
                  \/ shown'[i][k].ts = 0
    <3>1. Len(shown[i]) \in Nat /\ DOMAIN shown[i] = 1..Len(shown[i])
      BY Shapes
    <3>2. shown'[i] \in [1..Len(shown[i]) -> {AfterApply(i, m): m \in 1..Len(shown[i])}]
      BY <2>1, <3>1
    <3>3. Len(shown'[i]) = Len(shown[i])
      BY <3>1, <3>2, FunctionIsSeq
    <3>4. shown'[i][k] = AfterApply(i, k)
      BY <2>1, <3>1, <3>3
    <3>5. DOMAIN docs[i] = 1..Len(docs[i])
      BY Shapes
    <3>6. QED
      BY <3>3, <3>4, <3>5 DEF AfterApply, Applies, Stamped
  <2>3. \A j \in Instances: Fetching(j)' <=> Fetching(j)
    BY <2>1 DEF Fetching, Critical
  <2>4. ~Fetching(i)
    BY <2>1 DEF Fetching, Critical
  <2>5. HoldsNewer'
    BY <1>2, <1>5, <2>1 DEF HoldsNewer
  <2>6. CacheNewer'
    <3> SUFFICES ASSUME NEW j \in Shared, NEW k \in 1..Len(cache.docs), Stamped(cache.docs[k])
                 PROVE  /\ k \in 1..Len(shown'[j]) => shown'[j][k].ts <= cache.docs[k].ts
                        /\ ~Fetching(j) /\ k \in 1..Len(docs'[j]) /\ Stamped(docs'[j][k]) =>
                              docs'[j][k].ts <= cache.docs[k].ts
      BY <1>3, <2>1, <2>3 DEF CacheNewer, Stamped
    <3>1. CASE j # i
      BY <1>2, <1>3, <2>1, <3>1 DEF CacheNewer
    <3>2. CASE j = i
      <4>1. k \notin 1..Len(docs'[i])
        BY <1>5, <2>1
      <4>2. /\ k \in 1..Len(shown[i]) => shown[i][k].ts <= cache.docs[k].ts
            /\ k \in 1..Len(docs[i]) /\ Stamped(docs[i][k]) => docs[i][k].ts <= cache.docs[k].ts
        BY <1>2, <2>4, <3>2 DEF CacheNewer
      <4>3. cache.docs[k].ts >= 0
        BY <1>4
      <4>4. k \in 1..Len(shown'[i]) => shown'[i][k].ts <= cache.docs[k].ts
        BY <2>2, <4>2, <4>3
      <4>5. QED
        BY <3>2, <4>1, <4>4
    <3>3. QED
      BY <3>1, <3>2
  <2>7. FetchedNewest'
    <3> SUFFICES ASSUME NEW o \in Shared, Fetching(o), o # i,
                        NEW k \in 1..Len(docs[o]), Stamped(docs[o][k])
                 PROVE  /\ k \in 1..Len(cache.docs) /\ Stamped(cache.docs[k]) =>
                              cache.docs[k].ts <= docs[o][k].ts
                        /\ \A j \in Shared:
                              /\ k \in 1..Len(shown'[j]) => shown'[j][k].ts <= docs[o][k].ts
                              /\ j # o /\ k \in 1..Len(docs'[j]) /\ Stamped(docs'[j][k]) =>
                                    docs'[j][k].ts <= docs[o][k].ts
      BY <1>3, <2>1, <2>3, <2>4 DEF FetchedNewest, Stamped
    <3>1. k \in 1..Len(cache.docs) /\ Stamped(cache.docs[k]) => cache.docs[k].ts <= docs[o][k].ts
      BY <1>2 DEF FetchedNewest
    <3>2. ASSUME NEW j \in Shared, j # i
          PROVE  /\ k \in 1..Len(shown'[j]) => shown'[j][k].ts <= docs[o][k].ts
                 /\ j # o /\ k \in 1..Len(docs'[j]) /\ Stamped(docs'[j][k]) =>
                       docs'[j][k].ts <= docs[o][k].ts
      BY <1>2, <1>3, <2>1, <3>2 DEF FetchedNewest
    <3>3. ASSUME i \in Shared
          PROVE  /\ k \in 1..Len(shown'[i]) => shown'[i][k].ts <= docs[o][k].ts
                 /\ k \notin 1..Len(docs'[i])
      <4>1. k \notin 1..Len(docs'[i])
        BY <1>5, <2>1
      <4>2. /\ k \in 1..Len(shown[i]) => shown[i][k].ts <= docs[o][k].ts
            /\ k \in 1..Len(docs[i]) /\ Stamped(docs[i][k]) => docs[i][k].ts <= docs[o][k].ts
        BY <1>2, <3>3 DEF FetchedNewest
      <4>3. docs[o][k].ts >= 0
        BY <1>3, <1>4
      <4>4. k \in 1..Len(shown'[i]) => shown'[i][k].ts <= docs[o][k].ts
        BY <2>2, <4>2, <4>3
      <4>5. QED
        BY <4>1, <4>4
    <3>4. QED
      BY <3>1, <3>2, <3>3
  <2>8. WroteCache'
    BY <1>2, <1>3, <2>1 DEF WroteCache
  <2>9. QED
    BY <2>5, <2>6, <2>7, <2>8 DEF Goal
<1>19. ASSUME docs' = docs, shown' = shown, pc' = pc, cache'.docs = cache.docs PROVE Goal
  BY <1>6, <1>19 DEF Fetching
<1>20. CASE AgeCache
  <2>1. docs' = docs /\ shown' = shown /\ pc' = pc
    BY <1>20 DEF AgeCache
  <2>2. cache'.docs = cache.docs
    BY <1>20 DEF AgeCache, CacheUsable, Typed, TypeOK, Cache
  <2>3. QED
    BY <1>19, <2>1, <2>2 DEF Goal
<1>21. ASSUME NEW i \in Instances, Drop(i) PROVE Goal
  BY <1>19, <1>21 DEF Drop, files
<1>22. ASSUME NEW n \in Nodes, Publish(n) PROVE Goal
  BY <1>19, <1>22 DEF Publish, files
<1>23. CASE AgeLock
  BY <1>19, <1>23 DEF AgeLock
<1>24. CASE UNCHANGED vars
  <2>1. docs' = docs /\ shown' = shown /\ pc' = pc /\ cache' = cache
    BY <1>24 DEF vars
  <2>2. QED
    BY <1>19, <2>1 DEF Goal
<1>25. ASSUME NEW i \in Instances, Crash(i) \/ Exit(i) PROVE Goal
  BY <1>9, <1>25 DEF Crash, Exit
<1>26. QED
  <2>1. ASSUME NEW i \in Instances, Step(i) PROVE Goal
    BY <2>1, <1>10, <1>11, <1>12, <1>13, <1>14, <1>15, <1>16, <1>17, <1>18, <1>25 DEF Step
  <2>2. CASE Next
    BY <2>1, <2>2, <1>8, <1>20, <1>21, <1>22, <1>23, <1>25 DEF Next, Goal
  <2>3. Goal
    BY <2>2, <1>24 DEF Goal
  <2>4. QED
    BY <2>3 DEF Goal

(* A slot is changed by Apply alone, and there by a document it held.      *)
LEMMA AppliesNewerStep ==
    Typed /\ ProducedInv /\ OrderInv /\ [Next]_vars => (~aged' => AppliesNewer)
<1> SUFFICES ASSUME Typed, ProducedInv, OrderInv, [Next]_vars, ~aged'
             PROVE  AppliesNewer
  OBVIOUS
<1>1. HoldsNewer
  BY DEF OrderInv, Next, Step, Start, Drop, Crash, Exit, Ends, ReadCache, CreateLock,
         StatLock, RemoveStaleLock, RecreateLock, Fetch, TruncateCache,
         WriteCache, ReleaseLock, Apply, Publish, AgeCache, AgeLock, files, vars
<1>2. ASSUME NEW i \in Instances, NEW k \in DOMAIN docs[i] \cap DOMAIN shown[i],
             Apply(i), Applies(docs[i][k], shown[i][k])
      PROVE  \/ docs[i][k].ts > shown[i][k].ts
             \/ docs[i][k].node \in Unstamped
  <2>1. k \in 1..Len(docs[i]) /\ k \in 1..Len(shown[i])
    BY <1>2, Shapes
  <2>2. docs[i][k].ts \in Nat /\ shown[i][k].ts \in Nat
    BY <2>1, Shapes
  <2>3. CASE docs[i][k].ts = 0
    BY <1>2, <2>1, <2>3 DEF Applies, ProducedInv, Produced
  <2>4. CASE docs[i][k].ts # 0
    <3>1. shown[i][k].ts <= docs[i][k].ts
      BY <1>1, <1>2, <2>1, <2>4 DEF HoldsNewer, Stamped, Applies
    <3>2. docs[i][k].ts # shown[i][k].ts
      BY <1>2, <2>4 DEF Applies
    <3>3. QED
      BY <2>2, <3>1, <3>2
  <2>5. QED
    BY <2>3, <2>4
<1>3. QED
  BY <1>2 DEF AppliesNewer

(* When the target lists agree and no lock file has become stale, a        *)
(* stamped document is applied only if it is newer than the one there:     *)
(* values never go back and no document enters the history twice, although *)
(* any number of threads share the cache and may crash at any point.       *)
THEOREM DocumentsInOrder == ListsAgree => (Spec => NewerUntilStale)
<1> SUFFICES ASSUME ListsAgree PROVE Spec => NewerUntilStale
  OBVIOUS
<1> DEFINE Inv == Typed /\ LockInv /\ PlaceInv /\ RightSlot /\ ProducedInv /\ OrderInv
<1>1. Init => Inv
  <2> SUFFICES ASSUME Init PROVE Inv
    OBVIOUS
  <2>1. Typed /\ LockInv
    BY TypedInit DEF Init, LockInv, Fetching, Critical
  <2>2. /\ \A i \in Instances: docs[i] = <<>> /\ shown[i] = <<>> /\ pc[i] = "off"
        /\ cache.docs = <<>> /\ Len(<<>>) = 0
    BY EmptySeq DEF Init, EmptyCache
  <2>3. PlaceInv /\ RightSlot /\ ProducedInv
    BY <2>2 DEF PlaceInv, Placed, RightSlot, ProducedInv
  <2>4. OrderInv
    BY <2>2, RefreshAssumption DEF OrderInv, HoldsNewer, CacheNewer, FetchedNewest, WroteCache
  <2>5. QED
    BY <2>1, <2>3, <2>4
<1>2. Inv /\ [Next]_vars => Inv'
  BY TypedNext, LockInvNext, PlaceInvNext, RightSlotNext, ProducedInvNext, OrderInvNext
<1>3. Inv /\ [Next]_vars => [~aged' => AppliesNewer]_vars
  BY AppliesNewerStep
<1>4. QED
  BY <1>1, <1>2, <1>3, PTL DEF Spec, NewerUntilStale

-----------------------------------------------------------------------------
(* SparkRefresh implements RefreshLease: each step of a refresh thread is  *)
(* one of the lease or leaves the lease alone.                             *)

Holders == {i \in Instances: Fetching(i)}

(* Until some lock file has become stale, a thread that is about to write  *)
(* finds the cache file as it left it.                                     *)
WriteInv == ~aged => \A i \in Instances: pc[i] = "write" => cache.state = "empty"

LeaseInv == Typed /\ LockInv /\ WriteInv

LeaseStep == [Lease!LeaseNext]_(Lease!leaseVars)

(* Only a holder of the lock is about to write, and there is one of them.  *)
LEMMA WriterIsHolder ==
    ASSUME LeaseInv, NEW i \in Instances, pc[i] \in {"truncate", "write", "release"}
    PROVE  i \in Shared /\ Fetching(i) /\ (~aged => lock = i)
BY DEF LeaseInv, Typed, ThreadInv, SharedOnly, LockInv, Fetching, Critical

LEMMA WriteInvNext == LeaseInv /\ [Next]_vars => WriteInv'
<1> SUFFICES ASSUME LeaseInv, [Next]_vars, ~aged' PROVE WriteInv'
  BY DEF WriteInv
<1>1. ASSUME UNCHANGED <<cache, aged>>,
             \A i \in Instances: pc'[i] = "write" => pc[i] = "write"
      PROVE  WriteInv'
  BY <1>1 DEF LeaseInv, WriteInv
<1>2. ASSUME NEW i \in Instances,
             Start(i) \/ Drop(i) \/ Crash(i) \/ Exit(i) \/ ReadCache(i) \/ CreateLock(i)
             \/ StatLock(i) \/ RemoveStaleLock(i) \/ RecreateLock(i) \/ Fetch(i)
             \/ ReleaseLock(i) \/ Apply(i)
      PROVE  WriteInv'
  <2>1. UNCHANGED <<cache, aged>>
    BY <1>2 DEF Start, Drop, Crash, Exit, Ends, ReadCache, CreateLock, StatLock,
                RemoveStaleLock, RecreateLock, Fetch, ReleaseLock, Apply, files
  <2>2. \A j \in Instances: pc'[j] = "write" => pc[j] = "write"
    BY <1>2 DEF Start, Drop, Crash, Exit, Ends, ReadCache, CreateLock, StatLock, TakeLock,
                RemoveStaleLock, RecreateLock, Fetch, ReleaseLock, Apply, LeaseInv, Typed, TypeOK
  <2>3. QED
    BY <1>1, <2>1, <2>2
<1>3. ASSUME NEW i \in Instances, TruncateCache(i) PROVE WriteInv'
  BY <1>3 DEF TruncateCache, EmptyCache, WriteInv
<1>4. ASSUME NEW i \in Instances, WriteCache(i) PROVE WriteInv'
  <2>1. pc' = [pc EXCEPT ![i] = "release"] /\ pc[i] = "write" /\ aged' = aged
    BY <1>4 DEF WriteCache
  <2>2. ASSUME NEW j \in Instances, pc'[j] = "write" PROVE FALSE
    <3>1. pc[j] = "write" /\ j # i
      BY <2>1, <2>2 DEF LeaseInv, Typed, TypeOK
    <3>2. lock = i /\ lock = j
      BY <2>1, <3>1, WriterIsHolder
    <3>3. QED
      BY <3>1, <3>2
  <2>3. QED
    BY <2>2 DEF WriteInv
<1>5. ASSUME NEW n \in Nodes, Publish(n) PROVE WriteInv'
  BY <1>1, <1>5 DEF Publish, files
<1>6. CASE AgeCache
  <2>1. cache'.state = cache.state /\ pc' = pc /\ aged' = aged
    BY <1>6 DEF AgeCache, LeaseInv, Typed, TypeOK, Cache
  <2>2. QED
    BY <2>1 DEF LeaseInv, WriteInv
<1>7. CASE AgeLock
  BY <1>7 DEF AgeLock
<1>8. CASE UNCHANGED vars
  BY <1>1, <1>8 DEF vars
<1>9. QED
  BY <1>2, <1>3, <1>4, <1>5, <1>6, <1>7, <1>8 DEF Next, Step

LEMMA LeaseInvNext == LeaseInv /\ [Next]_vars => LeaseInv'
BY TypedNext, LockInvNext, WriteInvNext DEF LeaseInv

LEMMA LeaseInvInit == Init => LeaseInv
<1> SUFFICES ASSUME Init PROVE LeaseInv
  OBVIOUS
<1>1. Typed
  BY TypedInit
<1>2. LockInv /\ WriteInv
  BY DEF Init, LockInv, WriteInv, Fetching, Critical
<1>3. QED
  BY <1>1, <1>2 DEF LeaseInv

-----------------------------------------------------------------------------
(* A step that changes neither who holds the lease, nor whether one has    *)
(* run out, nor the state of the file, is a stutter.                       *)
LEMMA Stutter ==
    ASSUME \A j \in Instances: Fetching(j)' <=> Fetching(j),
           aged' = aged, cache'.state = cache.state
    PROVE  LeaseStep
<1>1. Holders' = Holders
  BY DEF Holders
<1>2. QED
  BY <1>1 DEF LeaseStep, Lease!leaseVars, Holders

(* A thread that ends gives its lease back.                                *)
LEMMA EndsStep ==
    ASSUME LeaseInv, NEW i \in Instances, Ends(i)
    PROVE  LeaseStep
<1>1. pc' = [pc EXCEPT ![i] = "off"] /\ aged' = aged /\ cache' = cache
  BY DEF Ends, files
<1>2. ~Fetching(i)' /\ \A j \in Instances \ {i}: Fetching(j)' <=> Fetching(j)
  BY <1>1 DEF Fetching, Critical, LeaseInv, Typed, TypeOK
<1>3. CASE Fetching(i)
  <2>1. i \in Shared
    BY <1>3 DEF Fetching
  <2>2. i \in Holders /\ Holders' = Holders \ {i}
    BY <1>2, <1>3 DEF Holders
  <2>3. Lease!Release(i)
    BY <1>1, <2>2 DEF Lease!Release, Holders
  <2>4. QED
    BY <2>1, <2>3 DEF LeaseStep, Lease!LeaseNext
<1>4. CASE ~Fetching(i)
  BY <1>1, <1>2, <1>4, Stutter
<1>5. QED
  BY <1>3, <1>4

(* Who creates the lock file acquires the lease: nobody holds one while    *)
(* there is no lock file and none has become stale.                        *)
LEMMA TakeLockStep ==
    ASSUME LeaseInv, NEW i \in Instances, NEW refused \in {"stat", "apply"},
           pc[i] \in {"create", "recreate"}, TakeLock(i, refused), UNCHANGED <<cache, aged>>
    PROVE  LeaseStep
<1>1. i \in Shared /\ ~Fetching(i)
  BY DEF LeaseInv, Typed, ThreadInv, SharedOnly, Fetching, Critical
<1>2. CASE lock = NoOne
  <2>1. pc' = [pc EXCEPT ![i] = "fetch"]
    BY <1>2 DEF TakeLock
  <2>2. Fetching(i)' /\ \A j \in Instances \ {i}: Fetching(j)' <=> Fetching(j)
    BY <1>1, <2>1 DEF Fetching, Critical, LeaseInv, Typed, TypeOK
  <2>3. i \notin Holders /\ Holders' = Holders \union {i}
    BY <1>1, <2>2 DEF Holders
  <2>4. Holders = {} \/ aged
    BY <1>2, RefreshAssumption DEF LeaseInv, LockInv, Holders
  <2>5. Lease!Acquire(i)
    BY <2>3, <2>4 DEF Lease!Acquire, Holders
  <2>6. QED
    BY <1>1, <2>5 DEF LeaseStep, Lease!LeaseNext
<1>3. CASE lock # NoOne
  <2>1. pc' = [pc EXCEPT ![i] = refused]
    BY <1>3 DEF TakeLock
  <2>2. \A j \in Instances: Fetching(j)' <=> Fetching(j)
    BY <1>1, <2>1 DEF Fetching, Critical, LeaseInv, Typed, TypeOK
  <2>3. QED
    BY <2>2, Stutter
<1>4. QED
  BY <1>2, <1>3

(* The two steps of write_cache are steps of a holder.                     *)
LEMMA WriteStep ==
    ASSUME LeaseInv, NEW i \in Instances, TruncateCache(i) \/ WriteCache(i)
    PROVE  LeaseStep
<1>1. i \in Shared /\ Fetching(i) /\ i \in Holders
  BY WriterIsHolder DEF TruncateCache, WriteCache, Holders
<1>2. Holders' = Holders /\ aged' = aged
  <2>1. pc' \in {[pc EXCEPT ![i] = "write"], [pc EXCEPT ![i] = "release"]}
    BY DEF TruncateCache, WriteCache
  <2>2. \A j \in Instances: Fetching(j)' <=> Fetching(j)
    BY <1>1, <2>1 DEF Fetching, Critical, LeaseInv, Typed, TypeOK
  <2>3. QED
    BY <2>2 DEF Holders, TruncateCache, WriteCache
<1>3. CASE TruncateCache(i)
  <2>1. Lease!Truncate(i)
    BY <1>1, <1>2, <1>3 DEF Lease!Truncate, Holders, TruncateCache, EmptyCache
  <2>2. QED
    BY <1>1, <2>1 DEF LeaseStep, Lease!LeaseNext
<1>4. CASE WriteCache(i)
  <2>1. cache'.state = "whole" \/ (aged /\ cache'.state = "torn")
    BY <1>4 DEF WriteCache, EmptyCache, LeaseInv, WriteInv
  <2>2. Lease!Fill(i)
    BY <1>1, <1>2, <2>1 DEF Lease!Fill, Holders
  <2>3. QED
    BY <1>1, <2>2 DEF LeaseStep, Lease!LeaseNext
<1>5. QED
  BY <1>3, <1>4

(* Who removes its lock file gives its lease back.                         *)
LEMMA ReleaseStep ==
    ASSUME LeaseInv, NEW i \in Instances, ReleaseLock(i)
    PROVE  LeaseStep
<1>1. i \in Shared /\ i \in Holders
  BY WriterIsHolder DEF ReleaseLock, Holders
<1>2. pc' = [pc EXCEPT ![i] = "apply"] /\ aged' = aged /\ cache' = cache
  BY DEF ReleaseLock
<1>3. ~Fetching(i)' /\ \A j \in Instances \ {i}: Fetching(j)' <=> Fetching(j)
  BY <1>2 DEF Fetching, Critical, LeaseInv, Typed, TypeOK
<1>4. Holders' = Holders \ {i}
  BY <1>3 DEF Holders
<1>5. Lease!Release(i)
  BY <1>1, <1>2, <1>4 DEF Lease!Release, Holders
<1>6. QED
  BY <1>1, <1>5 DEF LeaseStep, Lease!LeaseNext

LEMMA LeaseSteps == LeaseInv /\ [Next]_vars => LeaseStep
<1> SUFFICES ASSUME LeaseInv, [Next]_vars PROVE LeaseStep
  OBVIOUS
<1>1. ASSUME NEW i \in Instances,
             Start(i) \/ Drop(i) \/ ReadCache(i) \/ StatLock(i) \/ RemoveStaleLock(i)
             \/ Fetch(i) \/ Apply(i)
      PROVE  LeaseStep
  <2>1. UNCHANGED <<cache, aged>>
    BY <1>1 DEF Start, Drop, ReadCache, StatLock, RemoveStaleLock, Fetch, Apply, files
  <2>2. \A j \in Instances: Fetching(j)' <=> Fetching(j)
    BY <1>1 DEF Start, Drop, ReadCache, StatLock, RemoveStaleLock, Fetch, Apply,
                Fetching, Critical, LeaseInv, Typed, TypeOK
  <2>3. QED
    BY <2>1, <2>2, Stutter
<1>2. ASSUME NEW i \in Instances, Crash(i) \/ Exit(i) PROVE LeaseStep
  BY <1>2, EndsStep DEF Crash, Exit
<1>3. ASSUME NEW i \in Instances, CreateLock(i) \/ RecreateLock(i) PROVE LeaseStep
  BY <1>3, TakeLockStep DEF CreateLock, RecreateLock
<1>4. ASSUME NEW i \in Instances, TruncateCache(i) \/ WriteCache(i) PROVE LeaseStep
  BY <1>4, WriteStep
<1>5. ASSUME NEW i \in Instances, ReleaseLock(i) PROVE LeaseStep
  BY <1>5, ReleaseStep
<1>6. ASSUME NEW n \in Nodes, Publish(n) PROVE LeaseStep
  BY <1>6, Stutter DEF Publish, files, Fetching
<1>7. CASE AgeCache
  <2>1. cache'.state = cache.state
    BY <1>7 DEF AgeCache, LeaseInv, Typed, TypeOK, Cache
  <2>2. QED
    BY <1>7, <2>1, Stutter DEF AgeCache, Fetching
<1>8. CASE AgeLock
  <2>1. Holders' = Holders
    BY <1>8 DEF AgeLock, Holders, Fetching
  <2>2. Lease!Expire
    BY <1>8, <2>1 DEF AgeLock, Lease!Expire, Holders
  <2>3. QED
    BY <2>2 DEF LeaseStep, Lease!LeaseNext
<1>9. CASE UNCHANGED vars
  BY <1>9, Stutter DEF vars, Fetching
<1>10. QED
  BY <1>1, <1>2, <1>3, <1>4, <1>5, <1>6, <1>7, <1>8, <1>9 DEF Next, Step

(* acquire_lock, release_lock and write_cache keep what the lease          *)
(* promises: one thread at a time refreshes and writes the cache file,     *)
(* until some lock file has become stale.                                  *)
THEOREM LeaseImplemented == Spec => LeaseIsKept
<1>1. Init => Lease!LeaseInit
  BY DEF Init, Lease!LeaseInit, Fetching, Critical, EmptyCache
<1>2. LeaseInv /\ [Next]_vars => [Lease!LeaseNext]_(Lease!leaseVars)
  BY LeaseSteps DEF LeaseStep
<1>3. QED
  BY LeaseInvInit, LeaseInvNext, <1>1, <1>2, PTL DEF Spec, LeaseIsKept, Lease!LeaseSpec
=============================================================================
