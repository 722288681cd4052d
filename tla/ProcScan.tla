------------------------------ MODULE ProcScan ------------------------------
(***************************************************************************)
(* CPU shares of processes: ProcSampler, which the applet                  *)
(* (src/procs.rs) and the agent (src/agent/rust/src/main.rs) have alike.   *)
(* A scan reads the total of the CPU counters, then process after process, *)
(* while the machine goes on; a share is what a process has used since the *)
(* scan before, in relation to the total of the same time.                 *)
(*                                                                         *)
(* The agent's sampler serves the requests of all clients under one lock,  *)
(* at any time.  The applet's is driven by the thread of LocalProcesses,   *)
(* as long as the process page is visible.                                 *)
(***************************************************************************)
EXTENDS Naturals, FiniteSetsExt

CONSTANTS
    Pids,
    Cores,        \* so many jiffies pass in a tick
    MaxFall,      \* iowait, and with it the total, falls by at most so many
                  \* jiffies from one scan to the next
    SamplePause,  \* SAMPLE_INTERVAL
    IdlePause,    \* the pause of the thread while the page is hidden
    LongestScan,  \* what a scan takes at most, where the time matters
    MaxTime,      \* bound: ticks of the applet, and of the agent
    MaxStarts,    \* bound: processes on its machine
    MaxEvents     \* bound: page switches, and scans that fail

ASSUME ScanAssumption ==
    /\ IsFiniteSet(Pids)
    /\ Cores \in Nat \ {0} /\ MaxFall \in Nat /\ SamplePause \in Nat \ {0} /\ IdlePause \in 1..SamplePause
    /\ LongestScan \in Nat
    /\ MaxTime \in [{"applet", "agent"} -> Nat] /\ MaxStarts \in [{"applet", "agent"} -> Nat]
    /\ MaxEvents \in Nat

VARIABLES
    time,     \* ticks; the total is Cores * time, less what iowait has fallen by
    owner,    \* owner[p]: which process has pid p, 0 for none
    used,     \* used[p]: utime + stime of that process
    starts,   \* processes so far
    prev,     \* previous: the counters by pid, with their owners
    total,    \* when previous_total was read
    scan,     \* the scan that is going on
    table,    \* the rows that were published last
    driver,   \* which of the two drives the sampler
    active,   \* the process page is visible
    shown,    \* ticks it has been, since a scan failed
    left,     \* ticks the thread still sleeps
    events

machine == <<time, owner, used, starts>>
page == <<driver, active, shown, events>>
scanVars == <<machine, prev, total, scan, table, left, page>>

(* Of a row: whether the process is listed, its share in jiffies, and      *)
(* whether its pid is still, or for the first time, of this process.       *)
NoCounter == [owner |-> 0, jiffies |-> 0]
NoCounters == [p \in Pids |-> NoCounter]
NoRow == [listed |-> FALSE, used |-> 0, same |-> FALSE]
NoRows == [p \in Pids |-> NoRow]
NoScan == [on |-> FALSE, at |-> 0, todo |-> {}, rows |-> NoRows, seen |-> NoCounters]
NoList == [rows |-> NoRows, span |-> 0, late |-> 0, at |-> 0, error |-> FALSE]

ScanInit ==
    /\ time = 0 /\ starts = 0
    /\ owner = [p \in Pids |-> 0] /\ used = [p \in Pids |-> 0]
    /\ prev = NoCounters /\ total = 0
    /\ scan = NoScan /\ table = NoList
    /\ driver \in {"applet", "agent"}
    /\ active = FALSE /\ shown = 0 /\ left = 0 /\ events = 0

-----------------------------------------------------------------------------
Together(f) == MapThenSumSet(LAMBDA p: f[p], Pids)

(* The machine: processes come and go, pids are used again, and in a tick  *)
(* the live ones use the cores or leave them idle.                         *)
StartProcess(p) ==
    /\ owner[p] = 0 /\ starts < MaxStarts[driver]
    /\ starts' = starts + 1
    /\ owner' = [owner EXCEPT ![p] = starts']
    /\ used' = [used EXCEPT ![p] = 0]
    /\ UNCHANGED <<time, prev, total, scan, table, left, page>>

EndProcess(p) ==
    /\ owner[p] # 0
    /\ owner' = [owner EXCEPT ![p] = 0]
    /\ used' = [used EXCEPT ![p] = 0]
    /\ UNCHANGED <<time, starts, prev, total, scan, table, left, page>>

InTime == scan.on => time - scan.at < LongestScan

ScanTick ==
    /\ time < MaxTime[driver]
    /\ driver = "applet" => InTime /\ (left > 0 \/ scan.on)
    /\ time' = time + 1
    /\ \E share \in [Pids -> 0..Cores]:
          /\ \A p \in Pids: owner[p] = 0 => share[p] = 0
          /\ Together(share) <= Cores
          /\ used' = [p \in Pids |-> used[p] + share[p]]
    /\ left' = IF left > 0 THEN left - 1 ELSE 0
    /\ shown' = IF active THEN shown + 1 ELSE 0
    /\ UNCHANGED <<owner, starts, prev, total, scan, table, driver, active, events>>

(* set_active: the page is opened or left.                                 *)
SetActive ==
    /\ driver = "applet" /\ events < MaxEvents
    /\ events' = events + 1
    /\ active' = ~active
    /\ shown' = 0
    /\ UNCHANGED <<machine, prev, total, scan, table, left, driver>>

-----------------------------------------------------------------------------
(* LocalProcesses: the thread, each time it wakes.                         *)
Wakes == left = 0 /\ ~scan.on

Doze ==
    /\ driver = "applet" /\ Wakes /\ ~active
    /\ left' = IdlePause
    /\ UNCHANGED <<machine, prev, total, scan, table, page>>

(* sample reads the total before it reads any process.                     *)
BeginScan ==
    /\ Wakes
    /\ driver = "applet" => active
    /\ scan' = [NoScan EXCEPT !.on = TRUE, !.at = time, !.todo = Pids]
    /\ UNCHANGED <<machine, prev, total, table, left, page>>

(* The counter of a pid that the scan before has seen, less what it was    *)
(* then; a pid that is used again may have less, which counts as none.     *)
UsedSince(p) ==
    IF prev[p].owner = 0 \/ used[p] < prev[p].jiffies THEN 0 ELSE used[p] - prev[p].jiffies

(* A process that has gone by now is left out.                             *)
ReadProcess(p) ==
    /\ scan.on /\ p \in scan.todo
    /\ scan' = IF owner[p] = 0 THEN [scan EXCEPT !.todo = @ \ {p}]
               ELSE [scan EXCEPT !.todo = @ \ {p},
                                 !.rows[p] = [listed |-> TRUE, used |-> UsedSince(p),
                                              same |-> prev[p].owner \in {0, owner[p]}],
                                 !.seen[p] = [owner |-> owner[p], jiffies |-> used[p]]]
    /\ UNCHANGED <<machine, prev, total, table, left, page>>

Rest == left' = IF driver = "applet" THEN SamplePause ELSE 0

(* Definitions whose name ends in Mutant are faulty variants of the one    *)
(* that follows: a property below fails when its variant is used.          *)
EndScanMutant ==
    /\ scan.on /\ scan.todo = {}
    /\ \E fall \in 0..MaxFall:
          table' = [rows |-> IF Cores * (scan.at - total) <= fall THEN NoRows ELSE scan.rows,
                    span |-> Cores * (scan.at - total), late |-> Cores * (time - scan.at),
                    at |-> time, error |-> FALSE]
    /\ prev' = scan.seen
    /\ scan' = NoScan
    /\ Rest
    /\ UNCHANGED <<machine, page, total>>

(* The counters and the total of the same scan become the previous ones.   *)
(* Where the total has not grown every share is 0.                         *)
EndScan ==
    /\ scan.on /\ scan.todo = {}
    /\ \E fall \in 0..MaxFall:
          table' = [rows |-> IF Cores * (scan.at - total) <= fall THEN NoRows ELSE scan.rows,
                    span |-> Cores * (scan.at - total), late |-> Cores * (time - scan.at),
                    at |-> time, error |-> FALSE]
    /\ prev' = scan.seen
    /\ total' = scan.at
    /\ scan' = NoScan
    /\ Rest
    /\ UNCHANGED <<machine, page>>

FailScanMutant ==
    /\ scan.on /\ scan.todo = Pids /\ events < MaxEvents
    /\ events' = events + 1
    /\ table' = [NoList EXCEPT !.at = time, !.error = TRUE]
    /\ total' = scan.at
    /\ scan' = NoScan
    /\ Rest
    /\ shown' = 0
    /\ UNCHANGED <<machine, prev, driver, active>>

(* /proc cannot be read: the error is published, nothing else changes.     *)
FailScan ==
    /\ scan.on /\ scan.todo = Pids /\ events < MaxEvents
    /\ events' = events + 1
    /\ table' = [NoList EXCEPT !.at = time, !.error = TRUE]
    /\ scan' = NoScan
    /\ Rest
    /\ shown' = 0
    /\ UNCHANGED <<machine, prev, total, driver, active>>

ScanNext ==
    \/ \E p \in Pids: StartProcess(p) \/ EndProcess(p) \/ ReadProcess(p)
    \/ ScanTick \/ SetActive \/ Doze \/ BeginScan \/ EndScan \/ FailScan

ScanSpec == ScanInit /\ [][ScanNext]_scanVars

-----------------------------------------------------------------------------
(* Type invariant of the sampler and its scan.                             *)
ScanTypeOK ==
    /\ time \in 0..MaxTime[driver] /\ total \in 0..time /\ scan.at \in 0..time
    /\ \A p \in Pids: owner[p] \in 0..starts /\ used[p] \in 0..Cores * MaxTime[driver]
    /\ starts \in 0..MaxStarts[driver] /\ events \in 0..MaxEvents
    /\ \A p \in Pids: prev[p].owner \in 0..starts /\ prev[p].jiffies \in Nat
    /\ scan.on \in BOOLEAN /\ scan.todo \subseteq Pids
    /\ \A p \in Pids: scan.rows[p].used \in Nat /\ table.rows[p].used \in Nat
    /\ driver \in {"applet", "agent"} /\ active \in BOOLEAN /\ table.error \in BOOLEAN
    /\ left \in 0..SamplePause + IdlePause /\ shown \in 0..MaxTime[driver]

(* ProcSampler::sample: all shares together are never more than the whole  *)
(* machine had to give, newcomers included, apart from what the processes  *)
(* use while the scan goes on and from pids that were used again.  (What   *)
(* the code divides by is less by what iowait has fallen by.)              *)
SharesFit ==
    Together([p \in Pids |-> IF table.rows[p].same THEN table.rows[p].used ELSE 0])
        <= table.span + table.late

(* LocalProcesses: when the page has been visible for a while its list is  *)
(* recent, and so is the time its shares are about: the time the page was  *)
(* hidden, or scans failed, counts in the first list after it only.        *)
Settled == shown > 2 * (SamplePause + LongestScan)

ListIsRecent ==
    driver = "applet" /\ Settled =>
        /\ time - table.at <= SamplePause + LongestScan
        /\ table.span <= Cores * (SamplePause + LongestScan)
=============================================================================
