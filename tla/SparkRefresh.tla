---------------------------- MODULE SparkRefresh ----------------------------
(***************************************************************************)
(* The refresh threads of the applet (src/spark.rs, refresh_loop) and the  *)
(* two files they share: the cache spark-cache.json and the lock file      *)
(* spark-refresh.lock.  Every panel output runs the applet as a process of *)
(* its own, and a process that changes its settings starts a new monitor   *)
(* while the thread of the dropped one finishes its cycle, so the threads  *)
(* may work from different target lists.                                   *)
(*                                                                         *)
(* A document is reduced to the node it describes and its "ts" stamp.      *)
(* Durations are reduced to the tests the code makes of them: the cache is *)
(* fresh (younger than CACHE_TTL_S) or not, a lock is young or stale       *)
(* (older than LOCK_STALE_S).                                              *)
(***************************************************************************)
EXTENDS Naturals, Sequences

CONSTANTS
    Instances,    \* refresh threads, one per SparkMonitor
    Shared,       \* the instances whose configuration has shared_cache
    Nodes,        \* agents that can be configured
    TargetLists,  \* the target lists a monitor may be started with
    Unstamped,    \* nodes whose document has no "ts"
    Flaky,        \* nodes whose fetch may fail or return something else
    SlowFetch,    \* whether a cycle may take longer than LOCK_STALE_S
    MaxVer,       \* bound: documents one agent publishes
    MaxExits,     \* bound: crashes and dropped monitors of a behaviour
    NoOne         \* nobody, no node

ASSUME RefreshAssumption ==
    /\ Shared \subseteq Instances
    /\ TargetLists \subseteq Seq(Nodes) \ {<<>>}
    /\ Unstamped \subseteq Nodes
    /\ Flaky \subseteq Nodes
    /\ SlowFetch \in BOOLEAN
    /\ MaxVer \in Nat \ {0}
    /\ MaxExits \in Nat
    /\ NoOne \notin Instances
    /\ NoOne \notin Nodes

VARIABLES
    pc,       \* pc[i]: where thread i is, "off" when it does not run
    stop,     \* stop[i]: the monitor was dropped, the thread shall end
    targets,  \* targets[i]: the list thread i was started with
    docs,     \* docs[i]: what the current cycle has read or fetched
    shown,    \* shown[i][k]: the last document applied to slot k
    cache,    \* the cache file
    lock,     \* who created the lock file, NoOne when there is none
    stale,    \* the lock file is older than LOCK_STALE_S
    aged,     \* history: some lock file has become stale
    ver,      \* ver[n]: the stamp of the document agent n last produced
    exits     \* crashes and drops so far

vars == <<pc, stop, targets, docs, shown, cache, lock, stale, aged, ver, exits>>
files == <<cache, lock, stale, aged>>

(* One element of Vec<Result<String, String>>: a document, text that is    *)
(* not JSON, or an error.                                                  *)
Entry == [kind: {"doc", "junk", "error"}, node: Nodes, ts: 0..MaxVer]

(* What a slot of the view holds; NoOne before its first document.  ts is  *)
(* also last_ts of the loop.                                               *)
Shown == [node: Nodes \union {NoOne}, ts: 0..MaxVer]
Nothing == [node |-> NoOne, ts |-> 0]

(* "empty": absent or truncated, "torn": the bytes of two writers.         *)
(* read_cache returns None for both.                                       *)
Cache == [state: {"empty", "torn", "whole"}, fresh: BOOLEAN, docs: Seq(Entry)]
EmptyCache == [state |-> "empty", fresh |-> FALSE, docs |-> <<>>]

(* Where a thread of Shared instances owns the refresh.                    *)
Critical == {"fetch", "truncate", "write", "release"}
PCs == Critical \union {"off", "read", "create", "stat", "remove", "recreate", "apply"}

Fetching(i) == i \in Shared /\ pc[i] \in Critical

Init ==
    /\ pc = [i \in Instances |-> "off"]
    /\ stop = [i \in Instances |-> FALSE]
    /\ targets = [i \in Instances |-> <<>>]
    /\ docs = [i \in Instances |-> <<>>]
    /\ shown = [i \in Instances |-> <<>>]
    /\ cache = EmptyCache
    /\ lock = NoOne
    /\ stale = FALSE
    /\ aged = FALSE
    /\ ver = [n \in Nodes |-> 1]
    /\ exits = 0

-----------------------------------------------------------------------------
(* SparkMonitor::start with a list that is not empty.                      *)
Start(i) ==
    /\ pc[i] = "off"
    /\ \E list \in TargetLists:
          /\ targets' = [targets EXCEPT ![i] = list]
          /\ shown' = [shown EXCEPT ![i] = [k \in 1..Len(list) |-> Nothing]]
    /\ pc' = [pc EXCEPT ![i] = "read"]
    /\ UNCHANGED <<stop, docs, files, ver, exits>>

(* Drop for SparkMonitor: new settings, or a node the installer added.     *)
Drop(i) ==
    /\ pc[i] # "off" /\ ~stop[i]
    /\ exits < MaxExits
    /\ exits' = exits + 1
    /\ stop' = [stop EXCEPT ![i] = TRUE]
    /\ UNCHANGED <<pc, targets, docs, shown, files, ver>>

(* Thread i runs no more and its memory is gone; the files stay.           *)
Ends(i) ==
    /\ pc' = [pc EXCEPT ![i] = "off"]
    /\ stop' = [stop EXCEPT ![i] = FALSE]
    /\ targets' = [targets EXCEPT ![i] = <<>>]
    /\ docs' = [docs EXCEPT ![i] = <<>>]
    /\ shown' = [shown EXCEPT ![i] = <<>>]
    /\ UNCHANGED <<files, ver>>

(* The process dies between any two steps.                                 *)
Crash(i) ==
    /\ pc[i] # "off"
    /\ exits < MaxExits
    /\ exits' = exits + 1
    /\ Ends(i)

(* The head of the loop finds the stop flag set.                           *)
Exit(i) ==
    /\ pc[i] = "read" /\ stop[i]
    /\ Ends(i)
    /\ UNCHANGED exits

(* What read_cache hands to the loop, <<>> for None.                       *)
CachedDocs == IF cache.state = "whole" THEN cache.docs ELSE <<>>

(* Definitions whose name ends in Mutant are faulty variants of the one     *)
(* that follows: each property below fails when its variant is used.       *)
CacheUsableMutant == cache.state = "whole"

CacheUsable == cache.state = "whole" /\ cache.fresh

(* Reads the cache and decides: use it, try for the lock, or fetch without *)
(* one.  What was read stays the fallback of a thread that gets no lock.   *)
ReadCache(i) ==
    /\ pc[i] = "read" /\ ~stop[i]
    /\ \/ /\ i \in Shared
          /\ docs' = [docs EXCEPT ![i] = CachedDocs]
          /\ pc' = [pc EXCEPT ![i] = IF CacheUsable THEN "apply" ELSE "create"]
       \/ /\ i \notin Shared
          /\ docs' = [docs EXCEPT ![i] = <<>>]
          /\ pc' = [pc EXCEPT ![i] = "fetch"]
    /\ UNCHANGED <<stop, targets, shown, files, ver, exits>>

(* create_new succeeds exactly when there is no lock file.                 *)
TakeLock(i, refused) ==
    \/ /\ lock = NoOne
       /\ lock' = i
       /\ stale' = FALSE
       /\ docs' = [docs EXCEPT ![i] = <<>>]
       /\ pc' = [pc EXCEPT ![i] = "fetch"]
    \/ /\ lock # NoOne
       /\ pc' = [pc EXCEPT ![i] = refused]
       /\ UNCHANGED <<lock, stale, docs>>

CreateLock(i) ==
    /\ pc[i] = "create"
    /\ TakeLock(i, "stat")
    /\ UNCHANGED <<stop, targets, shown, cache, aged, ver, exits>>

(* metadata(path): a lock that is gone by now does not count as stale.     *)
StatLockMutant(i) ==
    /\ pc[i] = "stat"
    /\ pc' = [pc EXCEPT ![i] = IF lock # NoOne THEN "remove" ELSE "apply"]
    /\ UNCHANGED <<stop, targets, docs, shown, files, ver, exits>>

StatLockNeverMutant(i) ==
    /\ pc[i] = "stat"
    /\ pc' = [pc EXCEPT ![i] = "apply"]
    /\ UNCHANGED <<stop, targets, docs, shown, files, ver, exits>>

StatLock(i) ==
    /\ pc[i] = "stat"
    /\ pc' = [pc EXCEPT ![i] = IF lock # NoOne /\ stale THEN "remove" ELSE "apply"]
    /\ UNCHANGED <<stop, targets, docs, shown, files, ver, exits>>

(* remove_file takes whatever lock file is there now.                      *)
RemoveStaleLock(i) ==
    /\ pc[i] = "remove"
    /\ lock' = NoOne
    /\ stale' = FALSE
    /\ pc' = [pc EXCEPT ![i] = "recreate"]
    /\ UNCHANGED <<stop, targets, docs, shown, cache, aged, ver, exits>>

RecreateLock(i) ==
    /\ pc[i] = "recreate"
    /\ TakeLock(i, "apply")
    /\ UNCHANGED <<stop, targets, shown, cache, aged, ver, exits>>

(* What fetch_document may return for node n.                              *)
Result(kind, n, ts) == [kind |-> kind, node |-> n, ts |-> ts]
Answers(n) ==
    {Result("doc", n, IF n \in Unstamped THEN 0 ELSE ver[n])}
        \union IF n \in Flaky THEN {Result("junk", n, 0), Result("error", n, 0)} ELSE {}

(* One fetch_document of the sequence over the targets.                    *)
Fetch(i) ==
    /\ pc[i] = "fetch"
    /\ LET next == Len(docs[i]) + 1
           n == targets[i][next]
       IN /\ \E answer \in Answers(n):
                docs' = [docs EXCEPT ![i] = Append(docs[i], answer)]
          /\ pc' = [pc EXCEPT ![i] = IF next < Len(targets[i]) THEN "fetch"
                                     ELSE IF i \in Shared THEN "truncate"
                                     ELSE "apply"]
    /\ UNCHANGED <<stop, targets, shown, files, ver, exits>>

TruncateCacheMutant(i) ==
    /\ pc[i] = "truncate"
    /\ pc' = [pc EXCEPT ![i] = "write"]
    /\ UNCHANGED <<stop, targets, docs, shown, cache, lock, stale, aged, ver, exits>>

(* write_cache: fs::write opens with truncation, then writes.              *)
TruncateCache(i) ==
    /\ pc[i] = "truncate"
    /\ cache' = EmptyCache
    /\ pc' = [pc EXCEPT ![i] = "write"]
    /\ UNCHANGED <<stop, targets, docs, shown, lock, stale, aged, ver, exits>>

(* A second writer overwrites the first byte for byte; a longer text below *)
(* leaves its tail behind.                                                 *)
WriteCacheMutant(i) ==
    /\ pc[i] = "write"
    /\ cache' = [state |-> "whole", fresh |-> TRUE,
                 docs |-> SelectSeq(docs[i], LAMBDA e: e.kind = "doc")]
    /\ pc' = [pc EXCEPT ![i] = "release"]
    /\ UNCHANGED <<stop, targets, docs, shown, lock, stale, aged, ver, exits>>

WriteCache(i) ==
    /\ pc[i] = "write"
    /\ \/ cache' = [state |-> "whole", fresh |-> TRUE, docs |-> docs[i]]
       \/ /\ cache.state # "empty"
          /\ cache' = [EmptyCache EXCEPT !.state = "torn"]
    /\ pc' = [pc EXCEPT ![i] = "release"]
    /\ UNCHANGED <<stop, targets, docs, shown, lock, stale, aged, ver, exits>>

(* remove_file takes whatever lock file is there now.                      *)
ReleaseLock(i) ==
    /\ pc[i] = "release"
    /\ lock' = NoOne
    /\ stale' = FALSE
    /\ pc' = [pc EXCEPT ![i] = "apply"]
    /\ UNCHANGED <<stop, targets, docs, shown, cache, aged, ver, exits>>

(* Entry e changes slot s: it is a document and not the one applied last.  *)
(* An error marks the slot unreachable but leaves its values.              *)
AppliesMutant(e, s) == e.kind = "doc"

Applies(e, s) ==
    /\ e.kind = "doc"
    /\ ~(e.ts # 0 /\ e.ts = s.ts)

AfterApply(i, k) ==
    IF k \in DOMAIN docs[i] /\ Applies(docs[i][k], shown[i][k])
    THEN [node |-> docs[i][k].node, ts |-> docs[i][k].ts]
    ELSE shown[i][k]

(* The loop over the documents, by index.  Then the thread sleeps; the     *)
(* next step from "read" is the next cycle.                                *)
Apply(i) ==
    /\ pc[i] = "apply"
    /\ shown' = [shown EXCEPT ![i] = [k \in DOMAIN shown[i] |-> AfterApply(i, k)]]
    /\ docs' = [docs EXCEPT ![i] = <<>>]
    /\ pc' = [pc EXCEPT ![i] = "read"]
    /\ UNCHANGED <<stop, targets, files, ver, exits>>

-----------------------------------------------------------------------------
(* The agent produces its next document.                                   *)
Publish(n) ==
    /\ ver[n] < MaxVer
    /\ ver' = [ver EXCEPT ![n] = @ + 1]
    /\ UNCHANGED <<pc, stop, targets, docs, shown, files, exits>>

(* The cache passes CACHE_TTL_S.                                           *)
AgeCache ==
    /\ CacheUsable
    /\ cache' = [cache EXCEPT !.fresh = FALSE]
    /\ UNCHANGED <<pc, stop, targets, docs, shown, lock, stale, aged, ver, exits>>

(* The lock passes LOCK_STALE_S: its creator is gone or slow.              *)
AgeLock ==
    /\ lock # NoOne /\ ~stale
    /\ SlowFetch \/ ~Fetching(lock)
    /\ stale' = TRUE
    /\ aged' = TRUE
    /\ UNCHANGED <<pc, stop, targets, docs, shown, cache, lock, ver, exits>>

(* One step of thread i's own program.                                     *)
Step(i) ==
    \/ Exit(i) \/ ReadCache(i)
    \/ CreateLock(i) \/ StatLock(i) \/ RemoveStaleLock(i) \/ RecreateLock(i)
    \/ Fetch(i) \/ TruncateCache(i) \/ WriteCache(i) \/ ReleaseLock(i)
    \/ Apply(i)

Next ==
    \/ \E i \in Instances: Start(i) \/ Drop(i) \/ Crash(i) \/ Step(i)
    \/ \E n \in Nodes: Publish(n)
    \/ AgeCache
    \/ AgeLock

Spec == Init /\ [][Next]_vars

(* The scheduler runs every thread, an agent that accepts a connection     *)
(* answers or drops it, and time passes.  Nothing makes an agent publish,  *)
(* a user start or drop a monitor, or a process crash.                     *)
Fairness ==
    /\ \A i \in Instances: WF_vars(Step(i))
    /\ WF_vars(AgeCache)
    /\ WF_vars(AgeLock)

FairSpec == Spec /\ Fairness

-----------------------------------------------------------------------------
(* Type invariant of refresh_loop's state; every thread has a slot per     *)
(* target of the list it was started with.                                 *)
TypeOK ==
    /\ pc \in [Instances -> PCs]
    /\ stop \in [Instances -> BOOLEAN]
    /\ targets \in [Instances -> TargetLists \union {<<>>}]
    /\ docs \in [Instances -> Seq(Entry)]
    /\ shown \in [Instances -> Seq(Shown)]
    /\ \A i \in Instances: Len(shown[i]) = Len(targets[i])
    /\ cache \in Cache
    /\ lock \in Instances \union {NoOne}
    /\ stale \in BOOLEAN
    /\ aged \in BOOLEAN
    /\ ver \in [Nodes -> 1..MaxVer]
    /\ exits \in 0..MaxExits

(* As long as no lock file has ever passed LOCK_STALE_S, crashed owners    *)
(* included, at most one sharing thread is between taking and releasing    *)
(* the lock, and the lock file is its own: acquire_lock, release_lock.     *)
OneFetcherUntilStale ==
    ~aged => \A i, j \in Instances: Fetching(i) /\ Fetching(j) => i = j /\ lock = i

(* The lock file keeps what a lease promises, for the threads and for the  *)
(* cache file that write_cache replaces in two steps: until some lock has  *)
(* become stale, read_cache never meets the bytes of two writers.          *)
Lease == INSTANCE RefreshLease
             WITH Threads <- Shared,
                  holders <- {i \in Instances: Fetching(i)},
                  expired <- aged,
                  file <- cache.state

LeaseIsKept == Lease!LeaseSpec

(* A slot shows no node but the one its target names, although documents   *)
(* travel through the cache by index only: write_cache, read_cache, Apply. *)
RightSlot ==
    \A i \in Instances: \A k \in DOMAIN shown[i]:
        shown[i][k].node \in {NoOne, targets[i][k]}

AppliesNewer ==
    \A i \in Instances: Apply(i) =>
        \A k \in DOMAIN docs[i] \cap DOMAIN shown[i]:
            Applies(docs[i][k], shown[i][k]) =>
                \/ docs[i][k].ts > shown[i][k].ts
                \/ docs[i][k].node \in Unstamped

(* As long as no lock file has become stale, apply_value gets a stamped    *)
(* document only when it is newer than every one the slot got before, so   *)
(* none extends the history twice: the last_ts test of refresh_loop, which *)
(* compares for equality only.                                             *)
NewerUntilStale == [][~aged' => AppliesNewer]_vars

KeepsRunning(i) == <>[](pc[i] # "off" /\ ~stop[i])

(* Whatever threads crash, drop out or race, if some sharing thread keeps  *)
(* running then the cache becomes fresh again and again: acquire_lock      *)
(* reclaims an abandoned lock.                                             *)
RefreshGoesOn ==
    (\E i \in Shared: KeepsRunning(i)) => []<>CacheUsable

UpToDate(i) ==
    \A k \in DOMAIN shown[i]:
        shown[i][k].node = targets[i][k] /\ shown[i][k].ts = ver[targets[i][k]]
ReadsWholeCache(i) == []<><<ReadCache(i) /\ cache.state = "whole">>_vars

(* Every thread that keeps running ends up showing the newest document of  *)
(* each of its targets, so all instances get the same values: provided a   *)
(* sharing thread does not for ever read the cache in the instant between  *)
(* write_cache's truncation and its write.                                 *)
Converges ==
    \A i \in Instances:
        KeepsRunning(i) /\ (i \in Shared => ReadsWholeCache(i)) => <>[]UpToDate(i)

=============================================================================
