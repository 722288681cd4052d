---------------------------- MODULE RefreshLease ----------------------------
(***************************************************************************)
(* What the lock file of src/spark.rs promises the threads that share the  *)
(* cache file, whatever steps it takes: a lease.  Until a lease has run    *)
(* out, one thread at a time refreshes, and the cache file is written by   *)
(* that thread alone, so a reader finds it empty or whole.  SparkRefresh   *)
(* implements it.                                                          *)
(***************************************************************************)
CONSTANT Threads

VARIABLES
    holders,  \* the threads that refresh
    expired,  \* some lease has run out
    file      \* the cache file: "empty", "whole", or "torn"

leaseVars == <<holders, expired, file>>

LeaseInit == holders = {} /\ expired = FALSE /\ file = "empty"

Acquire(i) ==
    /\ i \notin holders
    /\ holders = {} \/ expired
    /\ holders' = holders \union {i}
    /\ UNCHANGED <<expired, file>>

(* Released, or its thread has died.                                       *)
Release(i) ==
    /\ i \in holders
    /\ holders' = holders \ {i}
    /\ UNCHANGED <<expired, file>>

Truncate(i) ==
    /\ i \in holders
    /\ file' = "empty"
    /\ UNCHANGED <<holders, expired>>

Fill(i) ==
    /\ i \in holders
    /\ file' = "whole" \/ (expired /\ file' = "torn")
    /\ UNCHANGED <<holders, expired>>

Expire ==
    /\ expired' = TRUE
    /\ UNCHANGED <<holders, file>>

LeaseNext ==
    \/ \E i \in Threads: Acquire(i) \/ Release(i) \/ Truncate(i) \/ Fill(i)
    \/ Expire

LeaseSpec == LeaseInit /\ [][LeaseNext]_leaseVars
=============================================================================
