--------------------------- MODULE AgentRequests ---------------------------
(***************************************************************************)
(* What the applet asks of a node's agent over a connection of its own:    *)
(* the process list and a signal (src/procs.rs, request and ProcessTask),  *)
(* a model to load (src/spark.rs, load_model and ModelLoader), and the     *)
(* models page that shows how the load goes on (src/main.rs).  On the      *)
(* agent's side a thread per connection carries out the command            *)
(* (src/agent/rust/src/main.rs, handle_command) while the push thread      *)
(* sends documents over the same connection.                               *)
(*                                                                         *)
(* Time passes in ticks.  As long as a connection is not lost its messages *)
(* arrive at once.  A command takes as long as it likes.                   *)
(*                                                                         *)
(* The agent's reply says ok or not (ok: true, ok: false); why not is in   *)
(* its text only, so a refusal and a POST without an answer are the same   *)
(* reply, "no".                                                            *)
(***************************************************************************)
EXTENDS Naturals, Sequences

CONSTANTS
    AgentNodes,     \* the targets
    Protected,      \* nodes whose agent is started with --token
    PythonNodes,    \* nodes with the Python agent
    TokenSet,       \* the configuration has that token
    PushPause,      \* --push-interval
    ShortDeadline,  \* 8 s for the process list and a signal
    LoadDeadline,   \* 600 s for a model
    PostTimeout,    \* 180 s the agent waits for the engine
    MaxRequests,    \* bound
    MaxLosses       \* bound: connections that break or fall silent

ASSUME RequestAssumption ==
    /\ Protected \subseteq AgentNodes /\ PythonNodes \subseteq AgentNodes /\ TokenSet \in BOOLEAN
    /\ PushPause \in Nat \ {0} /\ PostTimeout \in Nat \ {0}
    /\ ShortDeadline \in Nat /\ LoadDeadline \in Nat
    /\ MaxRequests \in Nat /\ MaxLosses \in Nat

VARIABLES
    requests,    \* the requests so far
    threads,     \* threads[r]: the agent's thread for the connection of r
    stream,      \* stream[r]: messages on their way to the applet
    due,         \* ticks until the push thread sends
    models_open, \* the node whose models page is open, none: {}
    loader,      \* the request of its ModelLoader, 0 for none
    load_state,  \* the load the page shows, and how
    losses

agentVars == <<threads, stream, due>>
modelsPage == <<models_open, loader, load_state>>
askVars == <<requests, agentVars, modelsPage, losses>>

(* The process list and a signal go the same way.                          *)
Actions == {"process", "load_model"}
Request == [action: Actions, node: AgentNodes,
            at: {"connect", "wait", "done"}, age: Nat, silent: BOOLEAN,
            answer: {"none", "ok", "no", "denied", "failed"},
            effect: BOOLEAN]  \* sampled, signalled, or loaded by the engine
Shown == [of: 0..MaxRequests, as: {"none", "running", "ok", "no", "denied", "failed"}]

Deadline(r) == IF requests[r].action = "load_model" THEN LoadDeadline ELSE ShortDeadline

NoThread == [at |-> "none", age |-> 0, loading |-> FALSE]

AskInit ==
    /\ requests = <<>> /\ threads = <<>> /\ stream = <<>>
    /\ due = PushPause
    /\ models_open = {} /\ loader = 0
    /\ load_state = [of |-> 0, as |-> "none"]
    /\ losses = 0

-----------------------------------------------------------------------------
(* The pages of the popup.                                                 *)
Added(action, node) ==
    /\ Len(requests) < MaxRequests
    /\ requests' = Append(requests,
                       [action |-> action, node |-> node, at |-> "connect", age |-> 0,
                        silent |-> FALSE, answer |-> "none", effect |-> FALSE])
    /\ threads' = Append(threads, NoThread)
    /\ stream' = Append(stream, <<>>)

(* ProcessTask: each request in a thread of its own.                       *)
AskProcesses(node) ==
    /\ Added("process", node)
    /\ UNCHANGED <<due, modelsPage, losses>>

(* The button is there while another model loads, too.                     *)
LoadModel ==
    /\ \E node \in models_open: Added("load_model", node)
    /\ loader' = Len(requests')
    /\ UNCHANGED <<due, models_open, load_state, losses>>

(* Definitions whose name ends in Mutant are faulty variants of the one    *)
(* that follows: a property below fails when its variant is used.          *)
OpenModelsMutant(node) ==
    /\ models_open' = {node}
    /\ load_state' = [of |-> 0, as |-> "none"]
    /\ UNCHANGED <<requests, agentVars, loader, losses>>

(* The loader that is let go runs on.                                      *)
OpenModels(node) ==
    /\ models_open' = {node}
    /\ loader' = 0
    /\ load_state' = [of |-> 0, as |-> "none"]
    /\ UNCHANGED <<requests, agentVars, losses>>

CloseModels ==
    /\ models_open' = {}
    /\ loader' = 0
    /\ load_state' = [of |-> 0, as |-> "none"]
    /\ UNCHANGED <<requests, agentVars, losses>>

(* Message::Tick asks the loader.                                          *)
PollLoader ==
    /\ loader # 0
    /\ load_state' = [of |-> loader, as |-> IF requests[loader].at = "done"
                                            THEN requests[loader].answer ELSE "running"]
    /\ UNCHANGED <<requests, agentVars, models_open, loader, losses>>

-----------------------------------------------------------------------------
(* The thread of request r in the applet.                                  *)
Done(r, answer) == requests' = [requests EXCEPT ![r].at = "done", ![r].answer = answer]

(* LoadModel hands no token to the loader.                                 *)
TokenSent(r) == TokenSet /\ requests[r].action # "load_model"

(* websocket_handshake lets the connection in, and the request is sent; or *)
(* it answers 401.                                                         *)
Connect(r) ==
    /\ requests[r].at = "connect" /\ ~requests[r].silent
    /\ IF requests[r].node \in Protected /\ ~TokenSent(r)
       THEN Done(r, "denied") /\ UNCHANGED threads
       ELSE /\ requests' = [requests EXCEPT ![r].at = "wait"]
            /\ threads' = [threads EXCEPT ![r].at = "command"]
    /\ UNCHANGED <<stream, due, modelsPage, losses>>

ReadMessageMutant(r) ==
    /\ requests[r].at = "wait" /\ stream[r] # <<>>
    /\ stream' = [stream EXCEPT ![r] = Tail(@)]
    /\ IF Head(stream[r]) # "push" THEN Done(r, Head(stream[r])) ELSE UNCHANGED requests
    /\ UNCHANGED <<threads, due, modelsPage, losses>>

(* The loop of request and of load_model skips what is no reply, and looks *)
(* at the deadline after each message only.                                *)
ReadMessage(r) ==
    /\ requests[r].at = "wait" /\ stream[r] # <<>>
    /\ stream' = [stream EXCEPT ![r] = Tail(@)]
    /\ IF Head(stream[r]) # "push" THEN Done(r, Head(stream[r]))
       ELSE IF requests[r].age >= Deadline(r) THEN Done(r, "failed")
       ELSE UNCHANGED requests
    /\ UNCHANGED <<threads, due, modelsPage, losses>>

BreakMutant(r) ==
    /\ requests[r].at # "done" /\ losses < MaxLosses
    /\ losses' = losses + 1
    /\ Done(r, "no")
    /\ stream' = [stream EXCEPT ![r] = <<>>]
    /\ UNCHANGED <<threads, due, modelsPage>>

(* No connection, or it breaks: the agent may have got the command.        *)
Break(r) ==
    /\ requests[r].at # "done" /\ losses < MaxLosses
    /\ losses' = losses + 1
    /\ Done(r, "failed")
    /\ stream' = [stream EXCEPT ![r] = <<>>]
    /\ UNCHANGED <<threads, due, modelsPage>>

(* Nothing arrives any more, and nobody is told.                           *)
FallSilent(r) ==
    /\ requests[r].at # "done" /\ losses < MaxLosses
    /\ losses' = losses + 1
    /\ requests' = [requests EXCEPT ![r].silent = TRUE]
    /\ stream' = [stream EXCEPT ![r] = <<>>]
    /\ UNCHANGED <<threads, due, modelsPage>>

-----------------------------------------------------------------------------
(* The agent.                                                              *)
Arrives(r) == requests[r].at = "wait" /\ ~requests[r].silent

SendTo(r, message) == stream' = [stream EXCEPT ![r] = IF Arrives(r) THEN Append(@, message) ELSE @]

(* After the reply the thread waits for the end of the connection.         *)
Reply(r, message) ==
    /\ threads' = [threads EXCEPT ![r].at = "replied", ![r].age = 0]
    /\ SendTo(r, message)

(* sample, kill_process: carried out and answered, or not, sooner or later *)
(* (another connection may hold the sampler's lock).                       *)
Command(r) ==
    /\ threads[r].at = "command" /\ requests[r].action # "load_model"
    /\ \/ Reply(r, "ok") /\ requests' = [requests EXCEPT ![r].effect = TRUE]
       \/ Reply(r, "no") /\ UNCHANGED requests
    /\ UNCHANGED <<due, modelsPage, losses>>

(* A port that discovery has not found as Ollama's: no.  The Python        *)
(* agent does not know the command, and leaves it unanswered.              *)
PostModel(r) ==
    /\ threads[r].at = "command" /\ requests[r].action = "load_model"
    /\ \/ /\ requests[r].node \in PythonNodes
          /\ threads' = [threads EXCEPT ![r].at = "replied"]
          /\ UNCHANGED stream
       \/ /\ requests[r].node \notin PythonNodes
          /\ threads' = [threads EXCEPT ![r].at = "post", ![r].loading = TRUE]
          /\ UNCHANGED stream
       \/ requests[r].node \notin PythonNodes /\ Reply(r, "no")
    /\ UNCHANGED <<requests, due, modelsPage, losses>>

(* The engine has loaded the model, whether http_post still waits or not.  *)
EngineLoads(r) ==
    /\ threads[r].loading
    /\ requests' = [requests EXCEPT ![r].effect = TRUE]
    /\ threads' = [threads EXCEPT ![r].loading = FALSE,
                                  ![r].at = IF @ = "post" THEN "replied" ELSE @]
    /\ IF threads[r].at = "post" THEN SendTo(r, "ok") ELSE UNCHANGED stream
    /\ UNCHANGED <<due, modelsPage, losses>>

(* The engine answers with an error, or with no 200.                       *)
EngineRefuses(r) ==
    /\ threads[r].loading
    /\ threads' = [threads EXCEPT ![r].loading = FALSE,
                                  ![r].at = IF @ = "post" THEN "replied" ELSE @]
    /\ IF threads[r].at = "post" THEN SendTo(r, "no") ELSE UNCHANGED stream
    /\ UNCHANGED <<requests, due, modelsPage, losses>>

(* http_post gives up; the engine does not hear of it.                     *)
PostTimesOut(r) ==
    /\ threads[r].at = "post" /\ threads[r].age >= PostTimeout
    /\ Reply(r, "no")
    /\ UNCHANGED <<requests, due, modelsPage, losses>>

(* The push thread: a document for everybody who is connected.             *)
Push ==
    /\ due = 0
    /\ due' = PushPause
    /\ stream' = [r \in DOMAIN stream |-> IF Arrives(r) THEN Append(stream[r], "push") ELSE stream[r]]
    /\ UNCHANGED <<requests, threads, modelsPage, losses>>

(* A tick passes when everybody has done what is due: the messages that    *)
(* are there are read, a POST is begun, and given up in time.              *)
AskTick ==
    /\ due > 0
    /\ \A r \in DOMAIN requests:
          /\ stream[r] = <<>>
          /\ threads[r].at = "command" => requests[r].action # "load_model"
          /\ threads[r].at = "post" => threads[r].age < PostTimeout
    /\ due' = due - 1
    /\ requests' = [r \in DOMAIN requests |->
                       IF Arrives(r) THEN [requests[r] EXCEPT !.age = @ + 1] ELSE requests[r]]
    /\ threads' = [r \in DOMAIN threads |->
                      IF threads[r].at = "post" THEN [threads[r] EXCEPT !.age = @ + 1]
                      ELSE threads[r]]
    /\ UNCHANGED <<stream, modelsPage, losses>>

AskNext ==
    \/ \E node \in AgentNodes: AskProcesses(node) \/ OpenModels(node)
    \/ LoadModel \/ CloseModels \/ PollLoader
    \/ \E r \in DOMAIN requests:
          \/ Connect(r) \/ ReadMessage(r) \/ Break(r) \/ FallSilent(r)
          \/ Command(r) \/ PostModel(r) \/ EngineLoads(r) \/ EngineRefuses(r) \/ PostTimesOut(r)
    \/ Push \/ AskTick

AskSpec == AskInit /\ [][AskNext]_askVars

-----------------------------------------------------------------------------
(* Type invariant of the requests, the connections and the models page.    *)
AskTypeOK ==
    /\ requests \in Seq(Request) /\ Len(requests) <= MaxRequests
    /\ Len(threads) = Len(requests) /\ Len(stream) = Len(requests)
    /\ \A r \in DOMAIN requests:
          /\ threads[r].at \in {"none", "command", "post", "replied"}
          /\ threads[r].age \in 0..PostTimeout /\ threads[r].loading \in BOOLEAN
          /\ stream[r] \in Seq({"push", "ok", "no"})
    /\ due \in 0..PushPause
    /\ models_open \subseteq AgentNodes
    /\ loader \in 0..Len(requests) /\ losses \in 0..MaxLosses
    /\ load_state \in Shown /\ (load_state.of = 0 <=> load_state.as = "none")

(* request and load_model: an answer tells the truth of what has happened  *)
(* on the node, however connections break and whoever gives up first.  An  *)
(* "ok" means that it has; a "no" to a question or a signal that it has    *)
(* not, and will not; an agent that turns the applet away does nothing.    *)
(* What fails on the way may have happened or happen later, and so may a   *)
(* load that is answered "no": the engine is not told that the agent has   *)
(* given up.                                                               *)
AnswerIsTrue ==
    \A r \in DOMAIN requests:
        /\ requests[r].answer = "ok" => requests[r].effect
        /\ requests[r].answer = "no" /\ requests[r].action # "load_model" => ~requests[r].effect
        /\ requests[r].answer = "denied" => ~requests[r].effect

(* request and load_model look at their deadline between two messages      *)
(* only, while the command may go on on the node.  As long as documents    *)
(* are pushed they end a pause later at most; on a connection that has     *)
(* fallen silent they wait for ever.                                       *)
EndsInTime ==
    \A r \in DOMAIN requests: Arrives(r) => requests[r].age <= Deadline(r) + PushPause

(* OpenModels, CloseModels and PollLoader: what the models page shows of a *)
(* load is about the node the page is open for, though loads of the pages  *)
(* before run on.                                                          *)
ShownIsOfPage ==
    load_state.of # 0 => models_open = {requests[load_state.of].node}

(* README.md on tokens: the applet sends the token of its configuration to *)
(* an agent that requires it, so no such agent turns it away.              *)
TokenIsSent ==
    TokenSet => \A r \in DOMAIN requests: requests[r].answer # "denied"
=============================================================================
