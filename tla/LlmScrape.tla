----------------------------- MODULE LlmScrape -----------------------------
(***************************************************************************)
(* The agent's view of the language models on its host                     *)
(* (src/agent/rust/src/main.rs): Discovery looks at the usual ports and    *)
(* names the endpoint to scrape, LlmCollector scrapes it while there is    *)
(* demand, and build_snapshot puts what both have left into a document.    *)
(*                                                                         *)
(* What demand is, AgentServer models; here it comes and goes.  The ports  *)
(* are numbered in the order of LLM_PORTS.  Time passes in ticks for the   *)
(* collector; a round of Discovery takes any time.                         *)
(***************************************************************************)
EXTENDS Naturals, Sequences

CONSTANTS
    Ports,         \* number of ports looked at
    Installed,     \* Installed[p]: the programs that may listen on port p
    ScrapePause,   \* --vllm-interval
    LongestGet,    \* what a GET takes at most
    MaxChanges,    \* bound: programs that start, stop, or are busy or idle again
    MaxPauses      \* bound: times the demand ends

PortNumbers == 1..Ports

(* A busy vLLM answers in time or too late, each time it is asked; the     *)
(* others answer in time.                                                  *)
Programs == {"off", "vllm", "busy", "ollama", "other"}

(* The pause between two looks at the demand, or for a url.                *)
ParkPause == 1

ASSUME ScrapeAssumption ==
    /\ Ports \in Nat \ {0} /\ Installed \in [PortNumbers -> SUBSET Programs]
    /\ ScrapePause \in Nat \ {0} /\ LongestGet \in Nat
    /\ MaxChanges \in Nat /\ MaxPauses \in Nat

VARIABLES
    configured,  \* the port that --vllm-url names, 0 when it is empty
    program,   \* program[p]: what listens on port p
    wanted,    \* under_demand
    watched,   \* ticks the demand has lasted
    pauses,    \* times it has ended
    changes,   \* how often a program has started, ended, ...
    url,       \* the port of the endpoint the collector scrapes next, or 0
    scraper,   \* the collector's thread: asleep, or in http_get on a port
    previous,  \* the port of its previous values, 0 for none
    state,     \* LlmState, and how long ago it was written
    disc,      \* Discovery's thread: its place and what it has found
    engines    \* what it has stored

world == <<configured, program, wanted, pauses, changes>>
scrapeVars == <<world, watched, url, scraper, previous, state, disc, engines>>

(* The oldest age that still counts; older ones are the same.              *)
Recent == ScrapePause + LongestGet
StateAges == 0..Recent + 1
Aged(age) == IF age <= Recent THEN age + 1 ELSE age

(* An engine of kind "vllm" has metrics, one of another kind has none.     *)
Engine == [port: PortNumbers, metrics: BOOLEAN]
State == [available: BOOLEAN,
          of: 0..Ports,     \* the port the values are from, 0 without values
          rate: {"none", "own", "mixed"},  \* of one program, or across two
          span: StateAges, age: StateAges]

(* A state without values; the reason given with it is left out.           *)
Unavailable == [available |-> FALSE, of |-> 0, rate |-> "none", span |-> 0, age |-> 0]

ScrapeInit ==
    /\ program \in [PortNumbers -> Programs] /\ \A p \in PortNumbers: program[p] \in Installed[p]
    /\ wanted = FALSE /\ watched = 0 /\ pauses = 0 /\ changes = 0
    /\ configured \in 0..Ports /\ url = configured
    /\ scraper = [at |-> "sleep", left |-> 0, port |-> 0]
    /\ previous = 0
    /\ state = [Unavailable EXCEPT !.age = Recent + 1]
    /\ disc = [at |-> "scan", next |-> 1, found |-> <<>>]
    /\ engines = <<>>

-----------------------------------------------------------------------------
(* Clients come, or the last one has been gone for the grace period.       *)
ChangeDemand ==
    /\ wanted => pauses < MaxPauses
    /\ wanted' = ~wanted
    /\ pauses' = IF wanted THEN pauses + 1 ELSE pauses
    /\ watched' = 0
    /\ UNCHANGED <<configured, program, changes, url, scraper, previous, state, disc, engines>>

(* A program starts on a port, ends, or gets busy or idle.                 *)
ChangeProgram(p) ==
    /\ changes < MaxChanges
    /\ changes' = changes + 1
    /\ \E new \in Installed[p] \ {program[p]}: program' = [program EXCEPT ![p] = new]
    /\ UNCHANGED <<configured, wanted, pauses, watched, url, scraper, previous, state, disc, engines>>

-----------------------------------------------------------------------------
Due == scraper.at = "sleep" /\ scraper.left = 0

(* Definitions whose name ends in Mutant are faulty variants of the one    *)
(* that follows: a property below fails when its variant is used.          *)
ParkMutant ==
    /\ Due /\ ~wanted
    /\ scraper' = [scraper EXCEPT !.left = ParkPause]
    /\ UNCHANGED <<world, watched, url, previous, state, disc, engines>>

(* Without demand the collector forgets its values and looks again later.  *)
Park ==
    /\ Due /\ ~wanted
    /\ previous' = 0
    /\ scraper' = [scraper EXCEPT !.left = ParkPause]
    /\ UNCHANGED <<world, watched, url, state, disc, engines>>

NoUrl ==
    /\ Due /\ wanted /\ url = 0
    /\ state' = Unavailable
    /\ scraper' = [scraper EXCEPT !.left = ParkPause]
    /\ UNCHANGED <<world, watched, url, previous, disc, engines>>

StartGet ==
    /\ Due /\ wanted /\ url # 0
    /\ scraper' = [at |-> "get", left |-> LongestGet, port |-> url]
    /\ UNCHANGED <<world, watched, url, previous, state, disc, engines>>

(* parse_vllm_metrics and derive_llm: whatever answers is available.  The  *)
(* values since the previous ones make a rate, whichever port they are of. *)
Derived(p) ==
    [available |-> TRUE, of |-> p,
     rate |-> IF previous = 0 THEN "none" ELSE IF previous = p THEN "own" ELSE "mixed",
     span |-> IF previous = 0 THEN 0 ELSE state.age, age |-> 0]

(* vLLM and a program of another kind answer GET /metrics; the other       *)
(* program may not know the path, and a busy vLLM may be late.             *)
Answers(p) == program[p] \in {"vllm", "busy", "other"}

GetWell ==
    /\ scraper.at = "get" /\ Answers(scraper.port)
    /\ state' = Derived(scraper.port)
    /\ previous' = scraper.port
    /\ scraper' = [at |-> "sleep", left |-> ScrapePause, port |-> 0]
    /\ UNCHANGED <<world, watched, url, disc, engines>>

(* The endpoint is gone or late: its values go with it.                    *)
GetFails ==
    /\ scraper.at = "get" /\ program[scraper.port] # "vllm"
    /\ state' = Unavailable
    /\ previous' = 0
    /\ scraper' = [at |-> "sleep", left |-> ScrapePause, port |-> 0]
    /\ UNCHANGED <<world, watched, url, disc, engines>>

Collect == Park \/ NoUrl \/ StartGet \/ GetWell \/ GetFails

(* The collector is never late: it wakes when its pause is over, and a GET *)
(* takes LongestGet at most.                                               *)
CollectorTick ==
    /\ scraper.left > 0
    /\ scraper' = [scraper EXCEPT !.left = @ - 1]
    /\ watched' = IF wanted THEN Aged(watched) ELSE 0
    /\ state' = [state EXCEPT !.age = Aged(@)]
    /\ UNCHANGED <<world, url, previous, disc, engines>>

-----------------------------------------------------------------------------
Found(p, metrics) == Append(disc.found, [port |-> p, metrics |-> metrics])

(* Discovery::start does not ask for demand.  scan_llm_ports looks at one  *)
(* port after the other.                                                   *)
ScanPort ==
    /\ disc.at = "scan" /\ disc.next \in PortNumbers
    /\ disc' = [disc EXCEPT !.next = @ + 1,
                            !.found = IF program[disc.next] \in {"vllm", "busy", "ollama"}
                                      THEN Found(disc.next, program[disc.next] # "ollama") ELSE @]
    /\ UNCHANGED <<world, watched, url, scraper, previous, state, engines>>

(* Too late with its models it is not found, too late with its metrics it  *)
(* is taken for some OpenAI server.                                        *)
ScanBusyPort ==
    /\ disc.at = "scan" /\ disc.next \in PortNumbers
    /\ program[disc.next] = "busy"
    /\ \E found \in {disc.found, Found(disc.next, FALSE)}:
           disc' = [disc EXCEPT !.next = @ + 1, !.found = found]
    /\ UNCHANGED <<world, watched, url, scraper, previous, state, engines>>

(* With nothing found, a program on the configured port passes for vLLM.   *)
AllFound ==
    IF disc.found = <<>> /\ configured # 0 /\ program[configured] # "off"
    THEN Found(configured, TRUE) ELSE disc.found

WithMetricsMutant(found) ==
    {k \in DOMAIN found: found[k].metrics /\ \A j \in k + 1..Len(found): ~found[j].metrics}

WithMetrics(found) ==
    {k \in DOMAIN found: found[k].metrics /\ \A j \in 1..k - 1: ~found[j].metrics}

(* on_primary: the first engine with metrics is the one to scrape.  (It    *)
(* clears the reason of the state too, which may well be unavailable.)     *)
SetPrimary ==
    /\ disc.at = "scan" /\ disc.next > Ports
    /\ \/ \E k \in WithMetrics(AllFound): url' = AllFound[k].port
       \/ WithMetrics(AllFound) = {} /\ UNCHANGED url
    /\ disc' = [disc EXCEPT !.at = "store", !.found = AllFound]
    /\ UNCHANGED <<world, watched, scraper, previous, state, engines>>

(* Then it sleeps until the next round.                                    *)
Store ==
    /\ disc.at = "store"
    /\ engines' = disc.found
    /\ disc' = [at |-> "scan", next |-> 1, found |-> <<>>]
    /\ UNCHANGED <<world, watched, url, scraper, previous, state>>

Discover == ScanPort \/ ScanBusyPort \/ SetPrimary \/ Store

ScrapeNext ==
    \/ ChangeDemand
    \/ \E p \in PortNumbers: ChangeProgram(p)
    \/ Collect \/ CollectorTick \/ Discover

ScrapeSpec == ScrapeInit /\ [][ScrapeNext]_scrapeVars

(* Both threads loop for ever, and time passes.                            *)
ScrapeFairSpec == ScrapeSpec /\ WF_scrapeVars(Collect) /\ WF_scrapeVars(CollectorTick) /\ WF_scrapeVars(Discover)

-----------------------------------------------------------------------------
(* build_snapshot: an engine is marked as the one whose values are shown   *)
(* when it is the first of the list and has metrics.                       *)
Primary == {engines[k].port: k \in {k \in DOMAIN engines: k = 1 /\ engines[k].metrics}}

(* Type invariant of the collector, of Discovery and of what they share.   *)
ScrapeTypeOK ==
    /\ configured \in 0..Ports /\ program \in [PortNumbers -> Programs]
    /\ wanted \in BOOLEAN /\ watched \in StateAges
    /\ pauses \in 0..MaxPauses /\ changes \in 0..MaxChanges
    /\ url \in 0..Ports
    /\ scraper \in [at: {"sleep", "get"}, left: 0..Recent + ParkPause, port: 0..Ports]
    /\ previous \in 0..Ports
    /\ state \in State
    /\ disc.at \in {"scan", "store"}
    /\ disc.next \in 1..Ports + 1
    /\ disc.found \in Seq(Engine) /\ engines \in Seq(Engine)
    /\ Len(disc.found) <= Ports /\ Len(engines) <= Ports

(* LlmCollector::start forgets its values when it parks and when a GET     *)
(* fails: a rate never averages over a pause, so the values it is made of  *)
(* lie one pause and one GET apart at most.  And when somebody has watched *)
(* for longer than that, what the documents say of the engine is no older, *)
(* whatever it was before the collector was parked.                        *)
StateIsRecent ==
    /\ state.rate # "none" => state.span <= Recent
    /\ watched > Recent => state.age <= Recent

(* Discovery, on_primary, LlmCollector and build_snapshot together: when   *)
(* the first port with a vLLM stays the same, somebody keeps watching and  *)
(* that vLLM is not busy any more, the documents come to show its values,  *)
(* and mark no other one as the engine that they are of.  What a busy time *)
(* has left (no engine, or one without metrics) goes.                      *)
First(p) == program[p] = "vllm" /\ \A q \in 1..p - 1: program[q] \notin {"vllm", "busy"}

EngineIsFound ==
    \A p \in PortNumbers:
        <>[](First(p) /\ wanted) => <>[](state.available /\ state.of = p /\ Primary \subseteq {p})
=============================================================================
