# Megatron system monitor: a TLA+ development

The repository holds a panel applet for the COSMIC desktop (Rust, `src/`) that
shows the load of this machine and of a few GPU nodes, and the agent that runs
on those nodes (Rust, `agent/rust/`). The modules here model the parts whose
correctness depends on the order in which threads, processes and users act, or
on counters that fall, start anew or belong to somebody else by now. TLC checks
them on small instances, and TLAPS proves the central properties for every value
of the constants.

Paths below are relative to the repository. `main.rs` is the applet's; the
agent's is written `agent main.rs`.

## 1. The system

One process of the applet runs per panel output. Each has a UI thread
(`update`, one message at a time, a `Tick` per second), a refresh thread per
`SparkMonitor`, a local process scanner, and short threads for one node request,
one model load or one installation. The processes share two files in the
runtime directory, the cache and the refresh lock, the saved configuration, and
what an installation stages. Each node runs one agent with a push thread, one
thread per connection and collector threads, most of which sleep while nobody
watches.

| Component | State | Operations | Interacts with | Hard behaviour | What makes it correct |
|---|---|---|---|---|---|
| Shared refresh (`spark.rs` `refresh_loop`, `acquire_lock`, `read_cache`, `write_cache`) | cache file, lock file, per thread: documents, last stamps | read cache, take / reclaim / release lock, fetch, write, apply | agents, other applet processes through the files | processes race on files, crash, are slow, have different lists | one fetcher, documents only get newer, in the slot of their node, refreshing never stops |
| Node slots (`AgentState`, `apply_value`, `mark_unreachable`, `snapshot`) | values, `last_rx`, status, histories | apply, mark unreachable, snapshot | refresh thread, UI | a copy of an old document, agents that answer late or not at all | online means recent, and who answers is online |
| Popup and process page (`main.rs` `update`) | open pages, selected host, list, request, pending signal | the messages of the UI, `Tick` | requests, scanner, node list, installer | list and selection change under a pending request or signal | rows and signals belong to the selected host; a left page is idle |
| Node requests (`procs.rs` `ProcessTask`, `request`) and model loader (`spark.rs` `ModelLoader`, `load_model`) | running, result | list, kill, load | agent, engine | deadlines that are looked at between messages, late and missing answers | an answer tells what happened; a request ends |
| Local processes (`procs.rs` `LocalProcesses`, `ProcSampler`) | active flag, previous counters | scan while active | UI, `/proc` | the machine goes on during a scan; pids are used again | shares fit the machine, a visible list is recent |
| Node list and settings (`SparkConfig`) | targets, switches | load, save, add, remove, deduplicate | every other part of the applet | several processes save; several spellings of one node | no node twice, nothing lost |
| Installer (`install.rs`, `agent/install-agent.sh`) | status, log, files here and on the node | upload, install, probe, clean up | node list, UI | dialog closed and reopened while one runs, cancelling, faults, a script that ends early | failure has a cause, done means installed, what is left has one too |
| Local sensors (`sensors.rs`) | previous counters, history ring | sample | UI | counters that fall, start anew, or cannot be read | a load is a share, energy is counted once |
| Agent server (agent `main.rs` `serve`) | client list, `last_client_seen` | accept, register, push, reply, leave | clients, collectors | blocking writes under a lock, two writers per socket, a clock | everyone served, demand follows clients |
| Agent GPU reader (`nvidia_loop`, `push_round`, `finish_round`) | round, published cards | read line, publish, restart | demand | a stream without separators that is cut | cards in order, no busy card missed |
| Agent LLM scraper and discovery | endpoint, previous counters, engines | scrape, park, discover | demand, clients | endpoint changes between two scrapes, pauses without demand, busy engines | values are recent and of the engine that is found |
| Agent processes and signals | previous counters | sample, kill | connection threads | all clients share one sampler | as for local processes |
| Agent node values, sysfs GPUs, Python agent, scripts, drawing | | | | | not modelled, see 7 |

The hazards of this code, each at its line, are listed in `PROJECT.json` with
the properties that cover them.

## 2. Plan

Done, in this order:

1. `SparkRefresh` – the refresh threads and the two files.
2. `ProcessPage` – the popup, the node list under it and the installer in the
   background.
3. `GpuRounds` – the NVIDIA reader.
4. `AgentServer` – the WebSocket side of the agent.
5. `NodeFeed` – the slots in time.
6. `NodeInstall` – the jobs of the installer over shared files.
7. `NodeList` – the configuration file and the applets that share it.
8. `LlmScrape` – scraper and discovery under changing demand.
9. `ProcScan`, `LocalSensors` – what is computed from counters.
10. `AgentRequests` – the commands, the model loader and its page.
11. `RefreshLease` – what the lock promises; `SparkRefresh` implements it,
    checked and proved.
12. Proofs about `AgentServer`, `AgentRequests`, `LocalSensors`, `NodeInstall` and
    the page.
13. Proofs about `NodeFeed`, `ProcScan`, `NodeList` and `LlmScrape`.
14. `InstallDialog` – what the dialog may rely on; `NodeInstall` and `ProcessPage`
    both implement it, checked and proved.

Left: frames in parts for `AgentServer`; silent agents in `SparkRefresh` as
`NodeFeed` has them, so that the two can be shown to be one refinement of the
other.

## 3. Modules and how they correspond to the code

Every module is parameterised by constants whose assumptions are named in it
(`...Assumption`). A definition whose name ends in `Mutant` is a faulty variant
of its neighbour; with it in place of the original TLC finds a property violated.
It is no part of the specification.

### SparkRefresh and RefreshLease

A thread's `pc` names the next file operation of `refresh_loop`; every step is
one system call or one pass over memory, so every interleaving of the
processes at the files is a behaviour.

| Module | Code |
|---|---|
| `Start`, `Drop`, `Exit`, `Crash` | `SparkMonitor::start`, its `Drop`, the loop's stop test, the process's death |
| `ReadCache` | `read_cache` and the decision in the loop's `match` |
| `CreateLock`, `StatLock`, `RemoveStaleLock`, `RecreateLock` | the four calls of `acquire_lock` |
| `Fetch` | one `fetch_document`, in the order of the targets |
| `TruncateCache`, `WriteCache` | `fs::write` in `write_cache`; two overlapping writers may leave a torn file |
| `ReleaseLock` | `release_lock` |
| `Apply` | the loop over the documents by index, with the stamp test |
| `Publish`, `AgeCache`, `AgeLock` | the agents and the clock |

Abstractions: a document is its node and stamp; times are the comparisons the
code makes of them (`CACHE_TTL_S`, `LOCK_STALE_S`). `SlowFetch = FALSE` says a
living owner releases its lock within `LOCK_STALE_S`; `TRUE` drops that. `aged`
is a history variable: some lock file has become stale.

`RefreshLease` is the abstract specification: a set of holders, of which there
is one until a lease runs out, and a cache file that only holders write.
`LeaseIsKept` maps the sharing threads between taking and releasing the lock to
the holders, `aged` to `expired` and the state of the cache file to `file`.

### NodeFeed

The same loop with time: `Interval`, `CacheTtl`, `OfflineAfter`, `PushWait`,
`ReadTimeout` are ticks. No agent answers at once: it sends nothing to a new
connection before its next push, so a fetch of one that always answers
(`Steady`) takes up to `PushWait`, and one of another up to `ReadTimeout`
(`Patience`), each after the other. One instance is modelled in full (`UseCache`, `FallBack`,
`StartFetch`, `Answer`, `Fail`; `After` is `apply_value` and
`mark_unreachable`, `Online` the test of `snapshot`), and of a second one on the
same cache only its refreshes. That the lock keeps the two apart is what
`OneFetcherUntilStale` says. `theirs` is a history variable, the longest fetch
of the other instance since ours last applied anything. `KeepsUp` compares the
waiting so far with what the offline limit leaves for it: the slower the agents,
the sooner it is false, and a node that answers may flicker.

### ProcessPage

One action per message of `update` that touches this state, plus `Tick`
(`poll_installer`, then `poll_process_task`), the end of a request and the end
of an installation. Actions are guarded by the page that offers their button
(`View`). A process row is the machine it was read on. A node whose agent
reports this machine's hostname (`ThisHost`) counts as local once the monitor
knows its hostname (`known`), which a new monitor does not at first.
`CancelInstall` only makes the running installation fail, which `InstallEnds`
may do anyway; `NodeInstall` has it. `UpdateAgent` takes the text before the
first colon of the target as the host (`HostOf`): the node without its port, or
no node at all. An update takes a node out of `outdated` only if that host is
it, and may leave the node outdated if no version can be had of its agent
(`MuteAgents`), which the installer's last check lets pass. Filter and sort keys and the switches
change none of this state; the models page is in `AgentRequests`. `AgentUpdated`
is another applet's installation, or one that the dialog has let go of.

### NodeInstall

`run` and `install`, one action per remote command or local file operation of a
job, with every early return: the host and user tests, a staged copy that cannot
be written (and stays), both attempts of a transfer (`Send`, `SendAgain`; each
may leave a torn file on the node), an `rm -rf` that fails without being noticed.
The staged copies and the askpass helper are shared by all jobs, the directory on
a node by all jobs for that node. `RunScript` is `install-agent.sh` on the node,
reduced to what it leaves on the port: `Outcome` when it comes to its end or to
a missing or torn file, `Left` when a command of it fails (`set -e`) after it has
stopped the old agent, wherever that is. An agent on the port is the new one, an
old one that tells its version, or one of which none can be had (`mute`), which
the last check takes by its command line (`Passes`). `fault` and `met` are history
variables: what failed around the job that might have worked (a write here, a
command there, the final `rm`, the applet); the job was not alone all the time.

Simplified: the helper's two files are removed in one step, and their creation
either succeeds or stops after the secret (or before it); a `remove_file` that
fails and a thread that cannot be started are left out; a wrong password is a host
that is not reached; a script that a crash of the applet interrupts has either
run or not.

### InstallDialog

The contract between the two: `ProcessPage` knows an installation only by what
`InstallEnds` lets it do, `NodeInstall` knows the page only by `StartInstall`,
`LetGo` and `PollInstaller`. `InstallDialog` is what lies between: the one
installation the dialog shows begins when the last one's end is known, ends once,
in success only if the last check passes on its host, and is mirrored once; what
runs elsewhere changes one agent at a time. `JobsKeepDialog` maps the dialog's job
to it (`Shown`, its host while it runs, `dialog = 0 \/ seen`, the hosts that
pass), `PageKeepsDialog` the record `installer` and the nodes that are not
`outdated`, or of which no version can be had. So the page assumes of an installation no more than the jobs do.

### NodeList

`SparkConfig::load`, `save`, `add_target`, `deduplicate_targets`, with several
applets and one file. A spelling is a record of host, scheme, port and slash;
`Canonical` is `canonical_target`, `NoName` its empty result, and `agent_url` the
function of that name. A text without a name (a lone `/`) can be added, and
`deduplicate_targets` drops it at the next load.
`Save` may also break off after the file is truncated, or fail. `removed` and
`current` are history variables.

### AgentRequests

The thread of a request in the applet (`Connect`, `ReadMessage` with the
deadline after each message), the thread of its connection in the agent
(`Command`, `PostModel`, `PostTimesOut`), the engine (external), and the push
thread as the source of the messages in between. The process list and a signal
are one action, `process`: they go the same way. A command takes as long as it
likes, so every deadline can pass while it runs. The agent's reply is `ok` or
`no`; why not is in its text only, so a refusal and a POST without an answer are
the same reply here, as they are in the code. The models page
(`OpenModels`, `CloseModels`, `PollLoader`) shows the loader it holds.

### GpuRounds

`nvidia_loop` with `push_round` and `finish_round`. `next` is the card the
child prints next, which the reader does not know. `cut` is a history variable:
a line was lost or a child left within a round.

### AgentServer

`serve`. A socket takes `Room` frames and a write waits for room; the push
thread holds the list's lock from `PushLock` to `PushDone`. Time passes in
ticks (`Tick`) only while the push thread sleeps or is blocked by a client that
does not read (`Stalled`); a registration takes no time. What a command
computes is left out: `Reply` is the write.

### LlmScrape

`LlmCollector::start` (`Park`, `StartGet`, `GetWell`, `GetFails`) and
`Discovery` (`ScanPort`, `ScanBusyPort`, `SetPrimary`, `Store`), with or without
`--vllm-url`. A busy vLLM answers the GET of the collector, and each of the two
of a scan, in time or too late; the reason that `LlmState` gives for being
unavailable is left out. Demand is an input here. `LongestGet` is an assumption:
the code bounds each read of a GET (agent `main.rs` 255), not the whole, and
`connect` (254) not at all. A rate is the port or ports its two readings are of
(`own`, `mixed`) and the time between them.

### ProcScan and LocalSensors

`ProcSampler::sample` process by process against a machine that goes on, driven
by the thread of `LocalProcesses` (`driver = "applet"`) or by requests at any
time (`"agent"`); the sampler is the same code twice. The total falls when iowait
does (`MaxFall`). `LocalSensors` is `cpu_load`, `cpu_watts` and the history of
`tick`: a load is kept as the two differences it is the quotient of. Either
counter may be unreadable for a while, with a known reading before it or without
(`CpuFails`, `Spoil`, `Mend`). Two readings are less than one range of the energy
counter apart, and at different times (`cpu_watts` has a branch for
`seconds <= 0`).

### MC modules

`MCSparkRefresh` and `MCProcessPage` give small lists and, for safety runs, the
symmetry of instances that are alike; `MCNodeInstall` what the user types, and an
old agent on every node. `MCParts` and `MCFeed` check several
modules that share no variable in one run: `focus` chooses the module that moves
in a behaviour, so the state spaces add up.

## 4. Runs

| Run | Instance | Shows |
|---|---|---|
| `refresh_safety` | 2 sharing instances, lists `<<n1>>` and `<<n1, n2>>`, `n1` fails at times, `n2` has no stamp, slow fetches, 1 exit | until a lock is stale one thread fetches and documents only get newer; every document in its node's slot; the lease is implemented |
| `refresh_live` | 2 sharing instances and 1 not sharing, stale locks, 1 exit | refreshing goes on, everyone converges |
| `page` | a list of 3 nodes, one on this machine, one with an old agent of which no version can be had and whose target loses its port on an update, 1 edit, 1 installation | rows match the selected host; a left page is idle; until an installation a signal goes where it was asked for; the dialog's contract is kept |
| `agent_server` | 2 clients, one may stop reading, room for 1 frame | nobody listed twice; while nobody is stuck demand holds and everyone is served; the closed are forgotten, the unwatched parked |
| `feed` | nodes: 2, one that answers at its next push and one that may be silent, with and without a second instance; scraper: 2 ports, 1 program change, 1 pause, with and without a url | online means recent; who answers is and stays online, who does not goes offline; recent values of the engine that is found |
| `installer` | 2 jobs, 2 hosts with old agents, one of which cannot be stopped and takes a key, 1 fault | truth of reports, nothing left without a cause, cancelling in time, the dialog freed, its contract kept |
| `parts` | GPU reader: 3 cards, 2 restarts; scan: 2 pids; sensors: counters up to 2; list: 2 applets, 3 edits; requests: 2, 1 loss, a load that outlives the agent's POST and the applet's deadline | their safety properties |

Bounds are named constants: `MaxVer` documents per agent, `MaxExits` crashes and
drops together, `MaxEdits` changes to a node list, `MaxInstalls` and `Jobs`
installations, `MaxFaults`, `MaxLosses`, `MaxChanges`, `MaxPauses`, `MaxEvents`,
`MaxStarts`, `MaxFall` and `MaxTime` what their comments say. `Horizon` is where ages are
not told apart any more; it lies above every age a property speaks of.

Why these bounds are enough to meet the interesting cases: two processes
suffice for a race on the lock; one exit covers the abandoned lock, two
documents the older and the newer; two lists of which one extends the other
show whether an entry keeps its index; one edit and one installation remove a
node and append another at its index; three cards tell a shifted round from a
whole one; room for one frame makes every second write wait; two jobs cover a
job and its successor, overlapping or not; two ports an engine and one before
it; two requests a load of the page before and one of this page. The timers of
`feed` keep the order of the code's (a cache valid shorter than a sleep, a push
interval no longer than it, a read timeout longer than it, an offline limit longer
than one read timeout and a sleep, not than two): without the shared cache a cycle
that waits for one silent node keeps up; with it only one whose waiting is shorter
than a read timeout, as in the code.

The other runs each violate one property that a comment or the README of the
code states. What they show is a disagreement of the code and that text:

| Run | Property | What happens |
|---|---|---|
| `wrong_slot` | `RightSlot` | lists in different order share the cache by index |
| `wrong_host_signal` | `SignalGoesWhereAsked` | an installed node takes the selected index before the confirmation |
| `stuck_push` | `EveryClientServed` | one client that does not read stops all |
| `helper_removed` | `HelperRemoved` | the helper's program cannot be written, and the secret stays |
| `load_token` | `TokenIsSent` | a model is loaded without the configured token |

Properties that do not hold and are not runs. They mark where the checked ones
had to be conditional, and what an instance needs to show them:

* *Only one instance fetches, ever.* Not once a lock is stale: two threads both
  stat it, the first removes it and takes its own, the second removes that one
  (`spark.rs` 1024-1026). Hence `~aged` in `OneFetcherUntilStale`, and `expired`
  in `RefreshLease`.
* *Documents only get newer, ever.* Not once a lock is stale: a slow writer
  brings an older document back, and line 778 compares for equality only.
* *Nobody fetches while the cache is fresh.* The cache is not read again after
  the lock is won (line 749).
* *An instance with a longer list converges.* While an instance with a shorter
  list keeps the cache fresh, the longer list's last node is never fetched (line
  745): `Converges` with two lists.
* *A fetch or a request ends in time.* `connect` and the handshake run before
  any timeout is set (`spark.rs` 799), and `request` and `load_model` read
  without one: a connection that falls silent is waited for without end. Hence
  `Arrives` in `EndsInTime`.
* *A node that answers stays online.* The targets are asked one after the other,
  and nothing is applied before the last (`spark.rs` 753): when two nodes are
  silent, or one and the other instance has just waited for it as well, or the
  list is so long that the pushes add up, the node flickers. Hence `KeepsUp` in
  `AnsweringStaysOnline` and in `EngineIsOnline`.
* *Online means recent after a restart.* A cache file of an earlier session is
  applied as if it had just arrived when the lock is held (line 761). Hence the
  exception in `OnlineIsRecent`. The status text of a failure stays on a node
  that answers again (comment at line 352).
* *A closed popup is idle.* `TogglePopup` takes the popup out of the state first,
  so `PopupClosed` finds none (`main.rs` 680, 723). Hence `LeftPageIsIdle`
  speaks of a page that was left by its own ways.
* *Rows match after an installation, or with a node on this machine and an old
  agent.* A new monitor does not know the hostname of a node of this machine
  yet and takes it for another (`main.rs` 549, 1162): `RowsMatchHost` without
  its condition, or with `ThisHost \cap OldAgents # {}`.
* *The adopted node is the installed one.* The host field can be edited while an
  installation runs (`main.rs` 1065). Nor need an updated node stop being
  outdated: the update goes to the text before the first colon of its target
  (550-555), which is another machine, or none, if there is a scheme.
* *A node list survives.* An empty saved list comes back as the defaults
  (`spark.rs` 165), the save of another applet loses nodes (237), a list given
  by the environment is saved, a save that breaks off leaves the defaults, and a
  text without a name is dropped at the next load (180).
  Hence the conditions of `NodesAreKept` and `SavedSurvives`.
* *Two spellings, one node.* `ws://host` is port 80 on the wire and the agent's
  port to `canonical_target`, `host/` likewise, and `WS://host` has no address
  at all (`spark.rs` 1232). Hence `Plain` in `NoAgentTwice`.
* *A running installation ends with its dialog, or alone.* It runs on, shares
  its files with the next, and even a finished one cleans up after it has
  reported (`install.rs` 377). Hence `met` in the installer's properties.
* *An installation leaves nothing behind, whatever fails.* A staged copy that
  cannot be written stays (`install.rs` 325, 327), the result of the last `rm -rf`
  is not looked at (377), and the helper's secret stays as `helper_removed` shows.
  `NothingLeft` says that there is no other way.
* *Done means that this version runs.* An agent of unknown version passes the last
  check by its command line (`install.rs` 532). Hence `mute` in `DoneMeansInstalled`.
* *A failed installation leaves the agent that was there.* The script stops it
  before steps that may fail (`agent/install-agent.sh` 212-240).
* *A load fails soon on an agent that cannot load.* The Python agent does not
  answer the command, and the reply of older agents carries no `action`: the
  applet waits for the 600 s (`README.md` 132 speaks of an identical protocol).
* *A load that is answered with an error did not happen.* `http_post` gives up
  after 180 s, the answer is the one of a refusal (agent `main.rs` 1598), and the
  engine may still load. Hence `AnswerIsTrue` takes nothing from the `no` to a
  load, nor from `failed`.
* *The first list after opening the page shows 0.0 %* (`README.md` 115). Only the
  very first: the sampler keeps the counters of the last scan, so the list after
  a pause spans the pause. Hence `Settled` in `ListIsRecent`.
* *The published utilization is the round's.* `finish_round` (agent `main.rs` 383)
  takes the maximum with what it published before, so it never falls. This is
  read from the code; `FinishRound` has it, and the property would restate it.
* *Cards are always in detection order.* A cut round shifts every later one
  (agent `main.rs` 546). Hence `~cut` in `OrderUntilCut`.
* *Demand holds while a client is attached*, when a client has stopped reading
  (the push thread waits past `DEMAND_GRACE_MS`) or when `--push-interval`
  reaches `DEMAND_GRACE_MS`.
* *Frames arrive whole.* A reply and a document are written to one socket by two
  threads without a lock (agent `main.rs` 2197); `AgentServer` writes whole
  frames and does not show it.
* *A rate is of one engine.* Once after the endpoint has changed it lies between
  the counters of two (`mixed` in `LlmScrape`); any program on the metrics port
  passes for vLLM when nothing else is found. `on_primary` clears the reason of a
  state that stays unavailable (not modelled: the reason is left out).
* *A CPU share is never made up.* A pid that is used again is compared with its
  predecessor's counter (agent `main.rs` 1330 says otherwise). Hence `same` in
  `SharesFit`.

Each property of a passing run has a mutant with which TLC finds it violated.

## 5. Fairness

* `SparkRefresh`: every thread takes its next step (the scheduler), and time
  passes (`AgeCache`, `AgeLock`). No fairness for crashes, drops, starts or
  agents. Fairness of a thread's step includes `Fetch`, so it assumes that an
  agent which accepts a connection answers or drops it: the code has no timeout
  there. `Converges` assumes of a sharing thread that it does not find the cache
  truncated every time it looks; the code polls on independent timers, so
  nothing forces that but nothing excludes it either, and the assumption is
  stated in the property.
* `NodeFeed`: the loop goes on, time passes, the other instance's refresh ends.
  An agent outside `Steady` need never answer, and then costs `ReadTimeout`; one
  in it answers within `PushWait`, which is what `Steady` means. Left out is a
  `connect` that never ends (there is no timeout), and a fetch so long that the
  lock becomes stale, which `SparkRefresh` has.
* `AgentServer`: threads run and clients that are not `Stalled` read. Strong
  fairness for the steps that wait for the list's lock or for room in a socket
  (the push thread holds the lock only a part of each round, and the kernel wakes
  the writers of a socket in turn) and for the clock, which a client that
  connects again and again would otherwise stop.
* `NodeInstall`: every job takes its next step (ssh and scp come to an end), and
  the applet ticks. Nothing makes the user start, cancel or close.
* `LlmScrape`: both threads loop for ever and time passes, so a GET ends: within
  `LongestGet`, an assumption about the programs on the ports, which the timeout of
  each read alone does not give.
* The other modules are checked for safety only.

## 6. Proofs

TLAPS checks these for every value of the constants within the named assumptions
(`...Assumption` of each module). Most of those say no more than which set a
constant is in. Two say how numbers relate: `TimersAssumption` of `NodeFeed` (a
cache is valid no longer than a sleep), as `spark.rs` has them with 1.5 and 2
seconds, and `HorizonAssumption`, that ages are counted at least as far as the
longest fetch; the other bounds (`MaxEdits`, `MaxTime` and so on) may have any
value. Every proof
follows the same pattern: an invariant that is stronger than the property, that
holds initially and that every action keeps, with a lemma per action or per group
of actions that move the same part of the state. What a theorem assumes beyond
the module's assumptions stands in its statement. A module of proofs may hold
those of several components; a comment begins each part.

`SparkRefreshProofs`
: * `TypeCorrect`. `Typed` adds to `TypeOK` that a thread that does not run has
    no list, that only sharing threads are at the lock, and that a fetching
    thread has fewer documents than targets.
  * `MutualExclusion`: `LockInv` says that while no lock has become stale, nobody
    is about to remove a lock and every fetching thread is the lock file's
    creator; the property alone is not inductive, since a thread at
    `RemoveStaleLock` would break it.
  * `SlotsAreRight`, for lists that agree at common indices (`ListsAgree`):
    `PlaceInv` carries the fact through the documents a thread holds and the
    cache file.
  * `DocumentsInOrder`, for such lists: `ProducedInv` (no stamp is ahead of its
    agent) and `OrderInv`, four facts about who holds the newest document: no
    thread holds one older than it shows, the cache is at least as new as what
    sharing threads show or hold, the lock's owner holds the newest, and until it
    releases the cache is what it wrote.
  * `LeaseImplemented`: the refinement of `RefreshLease`. The initial states map to
    initial states, and under `LeaseInv` (of `LockInv` and of who has truncated the
    cache) every step of a refresh thread is a step of the lease or none.

`FeedProofs` (`NodeFeed`, `LlmScrape`, `MCFeed`)
: * `FeedTypeCorrect`. `FeedTyped` adds that nothing is in hand while the thread
    sleeps and that the cache holds each target's document or none; `CycleClock`
    that a fetch has lasted no longer than the agents asked so far can have cost,
    each its push or its read timeout, which bounds a cycle by `LongestFetch`.
  * `OnlineStaysRecent`. `AgeInv` relates the age of what a slot shows to the time
    since the slot was filled, by way of the cache: `Young` says how old the cache
    can be at each moment of a sleep, with and without the other instance's lock,
    and that a stamped document not yet taken was written in this sleep. One
    without a stamp is applied again and again while the lock is held, so it can be
    older by one more fetch and `CACHE_TTL_S`; a bound without that does not hold.
  * `EnginesAreOnline`, `SteadyStaysOnline`. `HeldInv` says how long ago a slot was
    filled that has engine values, or whose agent always answers (`Lately`): since
    the last cycle without the shared cache; with it, at most one more sleep and one more fetch, of ours or of the other instance, after the cache has become
    invalid. `KeepsUp` is what makes that less than the offline limit
    (`LatelyIsOnline`); the timers alone do not.
  * `ScrapeTypeCorrect`, `StatesAreRecent`. `ScrapeClock`: while the collector has
    previous values, their age and the rest of its pause or GET are together no more
    than a pause and a GET, and the same holds at any time of the state's age or of
    the time that somebody has watched.
  * `FeedBehaves`: a behaviour of `MCFeed` is one of both of its modules.

`ProcessPageProofs`
: * `TypeCorrect`; that no list names a node twice needs that `Append` of a new
    element and `RemoveAt` keep a sequence injective.
  * `LeftPageStaysIdle`; the property is inductive as it stands.
  * `RowsAreOfSelected` and `SignalsGoWhereAsked`, for
    `ThisHost \cap OldAgents = {}`. Neither property is inductive. `AnswerInv` says
    from which nodes an answer may still come (`MayCome`: the selected one, or any
    while the selected one is this machine, whose rows are never listed);
    `ClosedInv` that a closed page holds no rows and awaits none; `ConfirmInv` that
    the signal asked for would go to its row's machine. The assumption is needed:
    `UpdateAgent` closes the page and keeps `proc_remote`, which is harmless only
    because an outdated agent has never sent rows.
  * `PageImplementsDialog`: every action that touches `installer` or `outdated`
    (`InstallerMoves`) is a step of `InstallDialog`; `NoneInv` makes a tick without
    an installation a stutter.

`SamplersProofs` (`GpuRounds`, `ProcScan`, `LocalSensors`)
: * `RoundsTypeCorrect`; `CardsInOrder` from `Aligned` (until a cut, the round ends
    just before the card that comes next); `BusyCardsAreSeen` from the fact that the
    maximum of a finite set of numbers bounds it, which needs a least-element
    argument by well-foundedness.
  * `ScanTypeCorrect`; `ListsAreRecent`: `PaceInv` follows the clocks of the thread,
    so that after each list the next scan begins within a pause.
  * `SharesOfListsFit`: `ShareInv` adds up, over all processes, what each has used
    since the scan before (its row, once the scan has read it, else what it would
    get now) and since this scan; the first sum is no more than the machine can give
    in the time since the last total, the second no more than in the time since the
    scan began. Where the total has not grown, by a fall of iowait, there are no
    shares. The actions move the sums: a tick raises both by at most `Cores`, an
    end of a process lowers them. That a sum over `Pids` exists, is monotone and
    additive (`SumExists`, `SumsGrow`, `SumsAdd`) is proved from the definition of
    the fold, by the least set for which it fails.
  * `SensorsTypeCorrect`, `LoadsAreShares`, `LoadsAreExact`, `EnergyAddsUp`.
    `CpuInv`: since the last reading the busy counter has grown by the busy jiffies,
    and the total by all of them less what `iowait` has lost; so a load is a share in
    any case, by the saturating differences of the code, and without such a loss it
    is exact. `EnergyInv` relates the last reading to the energy used since, across a
    counter that starts anew and readings that fail in between.

`PartsProofs` (`NodeList`, `MCParts`)
: * `DeduplicationIsRight` says what `deduplicate_targets` returns for every list:
    each node of it once, as it is spelled first, no text without a name, and the list
    itself if it names none twice and has no such text. It is proved by the first index at which the recursive function that
    defines it would be wrong.
  * `ListTypeCorrect`, `NoAgentIsTwice` rest on it. So no list in memory names a
    node twice (`Distinct`), and on plain spellings an address has one name
    (`PlainFacts`).
  * `SavingKeepsNodes`: `Agrees(a)` says that what the file holds and a current
    applet does not, its user has taken out. `SavedListsSurvive`: a distinct list is
    left as it is by `load`, if each of its texts has a name.
  * `PartsTypeCorrect`: a behaviour of `MCParts` is one of each of its modules
    (`PartsBehave`), so every theorem about one of them holds of the run.

`AgentServerProofs`
: * `TypeCorrect`; `NobodyListedTwice`: `Lists` says that the list, the clients
    still to be written to and those already written to are disjoint and free of
    repetition, that the last two are empty outside a push and the first is empty
    within one, and that a thread that has ended or not registered is in none.
  * `DemandHolds`, for `Period < Grace`: `DemandInv` is an argument about a clock.
    It stands at its start while a connection is made and while a document is
    pushed, and while the push thread sleeps its age and the rest of the sleep
    together are no more than a period. It holds until the push thread waits for a
    client, which is the property's own condition.

`AgentRequestsProofs`
: `AskTypeCorrect`, `AnswersAreTrue`, `RequestsEndInTime`, `LoadsShownAreOfPage`.
  `Sound` relates a request, the agent's thread for it and the messages between
  them: before its reply the thread has done nothing, an `ok` comes after the effect,
  and a `no` to anything but a load from a thread that will do nothing any more. `Timely`: a message that is there is read before
  time passes, and without one the next document comes before the limit. `Page`:
  the loader and the load shown are of the node the page is open for.

`NodeInstallProofs`
: * `InstallTypeCorrect`, `FailuresHaveCause`, `DoneStaysInstalled`, `NothingIsLeft`,
    `CancelledNeverRuns`. `MeetInv`: jobs that run at the same time have met. So a
    job that has met nobody is alone, and `Good` says what it finds at each step: its
    helper, its directory, the files sent so far, whole. `TidyInv`: while no two jobs
    meet, whatever lies about is in use by the one that runs, or a failed write or
    `rm` explains it; it is passed on from one job to the next. `DoneMeansInstalled`
    needs that the script takes a new agent away only when a file is missing or torn
    or a command fails, which `Good` excludes for a job that is alone without a fault.
  * `JobsImplementDialog`: `Works` says what any step of any job can do to what the
    dialog shows: it leaves the status or ends a running job, a success only where
    the last check passes, and touches the agent of its own host only. `ShownInv` adds
    that the dialog's job was started and that what was seen is an end.

The type invariants of `SparkRefresh`, `ProcessPage`, `AgentServer`, `NodeFeed`,
`NodeInstall` and `LlmScrape` are proved and are in no run; TLC has no need to check
what holds for every instance. Every invariant and
every action property that a passing run checks is the statement of a theorem.
Only model-checked:

* liveness (`RefreshGoesOn`, `Converges`, `ServedUnlessStuck`, `UnwatchedIsParked`,
  `ClosedIsForgotten`, `SilentGoesOffline`, `AnsweringReturns`, `DialogIsFreed`,
  `EngineIsFound`): fairness and `ENABLED` are out of the prover's reach. The proofs
  of `NodeFeed` and `LlmScrape` bound from above how old things get; that they are
  replaced at all is the part that needs fairness;
* what the runs with `expect: violation` show, which is a behaviour and no theorem.

A recursive function (`deduplicate_targets`, `Extended` of `NodeFeed`) or a fold
(`Together` of `ProcScan`) is reasoned about without an induction theorem, which the
installed provers cannot instantiate: that its defining function exists, and what
its values are, follows from the least number for which it would not.

## 7. Not modelled, and why

* Drawing, text, colours, `graph.rs`: no state.
* AMD GPUs, memory and the node's sysfs GPUs: stateless reads. The node's own CPU
  load (`NodeCollector`): the quotient of two differences as in `LocalSensors`, in
  floating point.
* The values inside a document, apart from the GPU utilization and the engine: no
  property here tells them apart.
* The development switches (`SYSMON_START_INSTALL`, `SYSMON_PROC_KILL` and so on).
* `SYSMON_SPARK_AGENTS=off`, the switches that hide values, and the schemes `wss`
  and `https`.
* The Python agent: an older implementation of the same protocol. `AgentRequests`
  has that it leaves one command unanswered.
* Shell scripts, service units, `panel-applet.py`, `ws_probe.py`: sequential,
  around tools whose behaviour is not in this repository. Of `install-agent.sh`
  `NodeInstall` has what it leaves on the agent's port, at its end or when it stops
  early. `Left` is generous there: it allows every agent that could be on the port
  at some step of the script, whatever the step that fails.
