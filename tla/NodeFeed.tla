------------------------------ MODULE NodeFeed ------------------------------
(***************************************************************************)
(* What the view learns of the nodes, in time (src/spark.rs): the slots    *)
(* that apply_value and mark_unreachable fill, the age test of snapshot,   *)
(* and the timers of refresh_loop, fetch_document and the cache.           *)
(*                                                                         *)
(* One instance is modelled in full.  A second one with the same targets   *)
(* may share the cache; of it only its refreshes are modelled, and that    *)
(* the lock keeps the two apart (SparkRefresh, OneFetcherUntilStale).      *)
(*                                                                         *)
(* Time passes in ticks, and a duration is a number of ticks.  Ages stop   *)
(* at Horizon.  A document is reduced to its age; whether its "ts" stamp   *)
(* equals last_ts of its slot is the variable known.                       *)
(***************************************************************************)
EXTENDS Naturals, Sequences, FiniteSets

CONSTANTS
    Targets,       \* number of configured targets
    Steady,        \* targets whose agent always answers, at its next push
    Stamped,       \* targets whose documents have a "ts"
    HasEngine,     \* targets whose documents report an available engine
    Interval,      \* REFRESH_INTERVAL
    CacheTtl,      \* CACHE_TTL_S
    OfflineAfter,  \* OFFLINE_AFTER_S
    PushWait,      \* the agents' push interval: what a fetch of a steady one waits at most
    ReadTimeout,   \* READ_TIMEOUT: what a fetch of another one waits at most
    HistoryLen,    \* SPARK_HISTORY_LEN
    Horizon        \* bound: ages are counted up to here

Slots == 1..Targets

ASSUME FeedAssumption ==
    /\ Targets \in Nat \ {0}
    /\ Steady \subseteq Slots
    /\ Stamped \subseteq Slots
    /\ HasEngine \subseteq Slots
    /\ Interval \in Nat \ {0}
    /\ CacheTtl \in Nat \ {0}
    /\ OfflineAfter \in Nat \ {0}
    /\ PushWait \in Nat \ {0}
    /\ ReadTimeout \in Nat \ {0}
    /\ HistoryLen \in Nat \ {0}
    /\ Horizon \in Nat /\ Horizon > OfflineAfter

(* How the timers of src/spark.rs relate: 1.5 and 2 seconds.               *)
ASSUME TimersAssumption == CacheTtl <= Interval

VARIABLES
    shared,   \* shared_cache of the configuration
    pc,       \* "sleep", or "fetch" while the targets are asked in turn
    spent,    \* ticks since the cycle began
    got,      \* entries fetched in this cycle
    waiting,  \* ticks the current fetch has waited for its agent
    cache,    \* the cache file: its age and its entries, <<>> without a file
    known,    \* known[k]: the cached document k has the stamp last_ts[k]
    other,    \* ticks the other instance has held the lock, 0: it does not
    theirs,   \* history: the longest fetch of the other one since a cycle last applied documents
    slot,     \* what the view holds of each target
    history   \* gen_hist: which slot contributed each value

vars == <<shared, pc, spent, got, waiting, cache, known, other, theirs, slot, history>>

Ages == 0..Horizon
Older(a) == IF a < Horizon THEN a + 1 ELSE a
Entry == [ok: BOOLEAN, age: Ages]
Slot == [rx: Ages, age: Ages, failed: BOOLEAN, engine: BOOLEAN]

(* snapshot: rx is the time since last_rx, Horizon when there was none.    *)
Online(k) == slot[k].rx < OfflineAfter

Init ==
    /\ shared \in BOOLEAN
    /\ pc = "sleep"
    /\ spent = Interval
    /\ got = <<>>
    /\ waiting = 0
    /\ cache \in {[age |-> Horizon, docs |-> <<>>]}
                 \union {[age |-> Horizon, docs |-> [k \in Slots |-> [ok |-> TRUE, age |-> Horizon]]]}
    /\ known = [k \in Slots |-> FALSE]
    /\ other = 0
    /\ theirs = 0
    /\ slot = [k \in Slots |-> [rx |-> Horizon, age |-> Horizon, failed |-> FALSE, engine |-> FALSE]]
    /\ history = <<>>

-----------------------------------------------------------------------------
(* Definitions whose name ends in Mutant are faulty variants of the one     *)
(* that follows: each property below fails when its variant is used.       *)
AfterErrorMutant(k, e, s) ==
    IF e.ok THEN [rx |-> 0, age |-> e.age, failed |-> s.failed, engine |-> k \in HasEngine]
    ELSE [s EXCEPT !.rx = 0, !.failed = TRUE, !.engine = FALSE]

AfterEngineMutant(k, e, s) ==
    IF e.ok THEN [rx |-> 0, age |-> e.age, failed |-> s.failed, engine |-> k \in HasEngine]
    ELSE [s EXCEPT !.failed = TRUE]

(* apply_value and mark_unreachable.  The status text, here whether there  *)
(* is one, outlives the failure it tells of.                               *)
After(k, e, s) ==
    IF e.ok THEN [rx |-> 0, age |-> e.age, failed |-> s.failed, engine |-> k \in HasEngine]
    ELSE [s EXCEPT !.failed = TRUE, !.engine = FALSE]

(* The documents a cycle applies: not those whose stamp the slot has seen. *)
Taken(docs, same) == {k \in DOMAIN docs: ~docs[k].ok \/ ~same[k]}

(* push: the oldest value leaves a full history.                           *)
Pushed(h, k) == Append(IF Len(h) >= HistoryLen THEN Tail(h) ELSE h, k)

(* The values that the documents of a cycle add to a history, one by one.  *)
Extended(h, docs, same) ==
    LET upto[k \in 0..Len(docs)] ==
            IF k = 0 THEN h
            ELSE IF k \in Taken(docs, same) \cap HasEngine /\ docs[k].ok
                 THEN Pushed(upto[k - 1], k) ELSE upto[k - 1]
    IN upto[Len(docs)]

(* The loop over the documents of a cycle; same says which of them carry   *)
(* the stamp of the last one applied.                                      *)
Apply(docs, same) ==
    /\ slot' = [k \in Slots |-> IF k \in Taken(docs, same)
                                THEN After(k, docs[k], slot[k]) ELSE slot[k]]
    /\ history' = Extended(history, docs, same)
    /\ known' = [k \in Slots |-> k \in DOMAIN docs /\ docs[k].ok /\ k \in Stamped]

(* The loop sleeps what its last cycle has left of the interval.           *)
Fresh == cache.docs # <<>> /\ cache.age < CacheTtl
Wakes == pc = "sleep" /\ spent >= Interval

UseCache ==
    /\ Wakes /\ shared /\ Fresh
    /\ Apply(cache.docs, known)
    /\ spent' = 0 /\ theirs' = 0
    /\ UNCHANGED <<shared, pc, got, waiting, cache, other>>

(* The lock is held: the cached documents serve, however old they are.     *)
FallBack ==
    /\ Wakes /\ shared /\ ~Fresh /\ other > 0
    /\ Apply(cache.docs, known)
    /\ spent' = 0 /\ theirs' = 0
    /\ UNCHANGED <<shared, pc, got, waiting, cache, other>>

StartFetch ==
    /\ Wakes
    /\ shared => ~Fresh /\ other = 0
    /\ pc' = "fetch"
    /\ spent' = 0
    /\ UNCHANGED <<shared, got, waiting, cache, known, other, theirs, slot, history>>

-----------------------------------------------------------------------------
(* The outcome of the fetch at hand; after the last one the documents are  *)
(* written to the cache, the lock is released and they are applied.        *)
Fetched(ok) ==
    LET docs == Append(got, [ok |-> ok, age |-> 0])
    IN /\ waiting' = 0
       /\ IF Len(docs) < Targets
          THEN /\ got' = docs
               /\ UNCHANGED <<pc, cache, known, theirs, slot, history>>
          ELSE /\ got' = <<>>
               /\ pc' = "sleep"
               /\ theirs' = 0
               /\ cache' = IF shared THEN [age |-> 0, docs |-> docs] ELSE cache
               /\ Apply(docs, [k \in Slots |-> FALSE])
       /\ UNCHANGED <<shared, spent, other>>

(* The target being asked, and how long the fetch of it may wait: an agent *)
(* sends nothing to a new connection before its next push.                 *)
Asked == Len(got) + 1
Patience(k) == IF k \in Steady THEN PushWait ELSE ReadTimeout

Answer ==
    /\ pc = "fetch"
    /\ Fetched(TRUE)

FailMutant ==
    /\ pc = "fetch" /\ Asked \notin Steady
    /\ got' = <<>> /\ waiting' = 0 /\ pc' = "sleep"
    /\ UNCHANGED <<shared, spent, cache, known, other, theirs, slot, history>>

(* Refused or broken off, at the latest when the read timeout is over.     *)
Fail ==
    /\ pc = "fetch" /\ Asked \notin Steady
    /\ Fetched(FALSE)

-----------------------------------------------------------------------------
(* The other instance refreshes when it finds the cache too old and the    *)
(* lock free; its fetch waits for the agents as ours does.                 *)
OtherStarts ==
    /\ shared /\ ~Fresh /\ pc # "fetch" /\ other = 0
    /\ other' = 1
    /\ UNCHANGED <<shared, pc, spent, got, waiting, cache, known, theirs, slot, history>>

(* Any of its documents may be as old as it has held the lock.             *)
OtherEnds ==
    /\ other > 0
    /\ \E up \in SUBSET Slots, age \in {0, other - 1}:
          /\ Steady \subseteq up
          /\ cache' = [age |-> 0, docs |-> [k \in Slots |-> [ok |-> k \in up, age |-> age]]]
    /\ known' = [k \in Slots |-> FALSE]
    /\ other' = 0
    /\ theirs' = IF other - 1 > theirs THEN other - 1 ELSE theirs
    /\ UNCHANGED <<shared, pc, spent, got, waiting, slot, history>>

-----------------------------------------------------------------------------
(* A tick passes while our thread sleeps or waits for an agent, and the    *)
(* other one, if it refreshes, has an agent to wait for.                   *)
LongestFetch == PushWait * Cardinality(Steady) + ReadTimeout * Cardinality(Slots \ Steady)

ASSUME HorizonAssumption == LongestFetch <= Horizon

Tick ==
    /\ \/ pc = "sleep" /\ spent < Interval
       \/ pc = "fetch" /\ waiting < Patience(Asked)
    /\ other <= LongestFetch
    /\ spent' = spent + 1
    /\ waiting' = IF pc = "fetch" THEN waiting + 1 ELSE 0
    /\ got' = [k \in DOMAIN got |-> [got[k] EXCEPT !.age = Older(@)]]
    /\ cache' = [age |-> Older(cache.age),
                 docs |-> [k \in DOMAIN cache.docs |-> [cache.docs[k] EXCEPT !.age = Older(@)]]]
    /\ other' = IF other > 0 THEN other + 1 ELSE 0
    /\ slot' = [k \in Slots |-> [slot[k] EXCEPT !.rx = Older(@), !.age = Older(@)]]
    /\ UNCHANGED <<shared, pc, known, theirs, history>>

Cycle == UseCache \/ FallBack \/ StartFetch \/ Answer \/ Fail
Next == Cycle \/ OtherStarts \/ OtherEnds \/ Tick

Spec == Init /\ [][Next]_vars
FairSpec == Spec /\ WF_vars(Cycle) /\ WF_vars(Tick) /\ WF_vars(OtherEnds)

-----------------------------------------------------------------------------
(* Type invariant of Inner and of the timers of refresh_loop.              *)
TypeOK ==
    /\ shared \in BOOLEAN
    /\ pc \in {"sleep", "fetch"}
    /\ spent \in 0..Interval + LongestFetch
    /\ got \in Seq(Entry) /\ Len(got) < Targets
    /\ waiting <= Patience(Asked) /\ waiting \in Nat
    /\ cache \in [age: Ages, docs: Seq(Entry)]
    /\ known \in [Slots -> BOOLEAN]
    /\ other \in 0..LongestFetch + 1 /\ theirs \in 0..LongestFetch
    /\ slot \in [Slots -> Slot]
    /\ history \in Seq(Slots) /\ Len(history) <= HistoryLen

(* What the view has waited for the agents since it last applied anything: *)
(* its own fetch so far, the other instance's, and the longest that one    *)
(* has had; KeepsUp says that the offline limit leaves room for as much,   *)
(* beside the sleep of a cycle or, with the cache, two of them and the age *)
(* that a cached document may have.                                        *)
Waited == theirs + other + (IF pc = "fetch" THEN spent ELSE 0)
KeepsUp ==
    Waited + (IF shared THEN 2 * Interval + CacheTtl - 1 ELSE Interval) < OfflineAfter

(* A node that always answers does not turn offline in the view, although  *)
(* the targets are asked one after the other, each answers only at its     *)
(* next push, and last_rx is set only when all have been asked: not while  *)
(* the waiting since the last cycle keeps within what the offline limit    *)
(* leaves for it.                                                          *)
AnsweringStaysOnline == [][\A k \in Steady: Online(k) /\ KeepsUp' => Online(k)']_vars

(* A node shown as online was so not long ago: its document is no older    *)
(* than OFFLINE_AFTER_S, the longest fetch and a sleep together, or, for   *)
(* an agent without stamps, whose document is applied again and again      *)
(* while the lock is held, another fetch and CACHE_TTL_S more.  Excepted   *)
(* is what a cache file of an earlier session holds, whose age is Horizon: *)
(* the fallback of refresh_loop takes it whatever its age.                 *)
OnlineIsRecent ==
    \A k \in Slots: Online(k) /\ slot[k].age < Horizon =>
        slot[k].age < OfflineAfter + Interval
                      + IF k \in Stamped THEN LongestFetch ELSE 2 * LongestFetch + CacheTtl - 1

(* The engine values that warnings and engine_agent take without asking    *)
(* whether the node is online are of an online node, as long as the        *)
(* waiting keeps within the same limit: mark_unreachable clears them, and  *)
(* an answer renews last_rx before the limit is reached.                   *)
EngineIsOnline == KeepsUp => \A k \in Slots: slot[k].engine => Online(k)

Answered(k) ==
    \/ Answer /\ Asked = k
    \/ OtherEnds /\ cache'.docs[k].ok

(* A node that never answers again turns offline and stays so, whatever    *)
(* copies of its last document the cache hands around.                     *)
SilentGoesOffline == \A k \in Slots: <>[][~Answered(k)]_vars => <>[]~Online(k)

(* A node that always answers is online again and again, however many      *)
(* silent ones share the list with it.                                     *)
AnsweringComesOnline == \A k \in Steady: []<>Online(k)
=============================================================================
