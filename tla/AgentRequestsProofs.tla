------------------------ MODULE AgentRequestsProofs ------------------------
(***************************************************************************)
(* Proofs about AgentRequests, for any nodes, deadlines and pauses, and    *)
(* any number of requests, broken and silent connections: an answer tells  *)
(* what has happened, a request ends a pause after its deadline, and the   *)
(* models page shows loads of its own node only.                           *)
(***************************************************************************)
EXTENDS AgentRequests, SequenceTheorems, TLAPS

Thread == [at: {"none", "command", "post", "replied"}, age: 0..PostTimeout, loading: BOOLEAN]
Message == {"push", "ok", "no"}

Typed ==
    /\ requests \in Seq(Request) /\ Len(requests) <= MaxRequests
    /\ threads \in Seq(Thread) /\ Len(threads) = Len(requests)
    /\ stream \in Seq(Seq(Message)) /\ Len(stream) = Len(requests)
    /\ due \in 0..PushPause
    /\ losses \in 0..MaxLosses

Limit(q) == (IF q.action = "load_model" THEN LoadDeadline ELSE ShortDeadline) + PushPause

(* Of a request q, the agent's thread t for it and the messages m that are *)
(* on their way to it.  Before its reply the thread has done nothing; only *)
(* a load goes on behind one, so any other "no" is final.                  *)
Sound(q, t, m) ==
    /\ t.at # "replied" => ~q.effect /\ \A k \in 1..Len(m): m[k] = "push"
    /\ t.at \in {"none", "command"} => ~t.loading
    /\ q.action # "load_model" => t.at # "post" /\ ~t.loading
    /\ q.at = "connect" => t.at = "none" /\ q.age = 0
    /\ \A k \in 1..Len(m): /\ m[k] = "ok" => q.effect
                           /\ m[k] = "no" /\ q.action # "load_model" => ~q.effect
    /\ q.at = "done" => q.answer # "none"
    /\ q.answer = "ok" => q.effect
    /\ q.answer = "no" => t.at = "replied" /\ (q.action # "load_model" => ~q.effect)
    /\ q.answer = "denied" => t.at = "none" /\ q.at = "done"

(* A message that is there will be read before time passes; without one    *)
(* the next document comes within a pause, pause ticks from now.           *)
Timely(q, m, pause) ==
    q.at = "wait" /\ ~q.silent =>
        /\ q.age <= Limit(q)
        /\ m = <<>> => q.age + pause <= Limit(q)

Page ==
    /\ models_open \subseteq AgentNodes /\ \A a, b \in models_open: a = b
    /\ loader \in 0..Len(requests) /\ load_state \in Shown
    /\ load_state.of \in 0..Len(requests) /\ (load_state.of = 0 <=> load_state.as = "none")
    /\ loader # 0 => requests[loader].node \in models_open
    /\ load_state.of # 0 => requests[load_state.of].node \in models_open

Inv ==
    /\ Typed
    /\ \A r \in 1..Len(requests): /\ Sound(requests[r], threads[r], stream[r])
                                  /\ Timely(requests[r], stream[r], due)
    /\ Page

-----------------------------------------------------------------------------
LEMMA LenFacts ==
  ASSUME Typed
  PROVE  /\ Len(requests) \in Nat
         /\ DOMAIN requests = 1..Len(requests) /\ DOMAIN threads = 1..Len(requests)
         /\ DOMAIN stream = 1..Len(requests)
         /\ \A r \in 1..Len(requests): /\ requests[r] \in Request /\ threads[r] \in Thread
                                       /\ stream[r] \in Seq(Message)
  BY LenProperties, ElementOfSeq DEF Typed

(* A step that moves one request, its thread and its messages.             *)
LEMMA OneMoves ==
  ASSUME Inv, NEW r \in 1..Len(requests),
         NEW q \in Request, NEW t \in Thread, NEW m \in Seq(Message),
         requests' = [requests EXCEPT ![r] = q],
         threads' = [threads EXCEPT ![r] = t],
         stream' = [stream EXCEPT ![r] = m],
         due' = due, UNCHANGED modelsPage, losses' \in 0..MaxLosses,
         q.node = requests[r].node,
         Sound(q, t, m), Timely(q, m, due)
  PROVE  Inv'
<1>1. /\ requests' \in Seq(Request) /\ Len(requests') = Len(requests)
      /\ \A s \in 1..Len(requests): requests'[s] = IF s = r THEN q ELSE requests[s]
  BY ExceptSeq DEF Inv, Typed
<1>2. /\ threads' \in Seq(Thread) /\ Len(threads') = Len(requests)
      /\ \A s \in 1..Len(requests): threads'[s] = IF s = r THEN t ELSE threads[s]
  BY ExceptSeq DEF Inv, Typed
<1>3. /\ stream' \in Seq(Seq(Message)) /\ Len(stream') = Len(requests)
      /\ \A s \in 1..Len(requests): stream'[s] = IF s = r THEN m ELSE stream[s]
  BY ExceptSeq DEF Inv, Typed
<1>4. Typed'
  BY <1>1, <1>2, <1>3 DEF Inv, Typed
<1>5. ASSUME NEW s \in 1..Len(requests')
      PROVE  Sound(requests'[s], threads'[s], stream'[s]) /\ Timely(requests'[s], stream'[s], due')
  <2>1. CASE s = r
    BY <1>1, <1>2, <1>3, <2>1
  <2>2. CASE s # r
    <3>1. requests'[s] = requests[s] /\ threads'[s] = threads[s] /\ stream'[s] = stream[s]
      BY <1>1, <1>2, <1>3, <2>2
    <3> QED BY <1>1, <3>1 DEF Inv
  <2> QED BY <2>1, <2>2
<1>6. Page'
  <2>1. \A s \in 1..Len(requests): requests'[s].node = requests[s].node
    BY <1>1
  <2>2. UNCHANGED <<models_open, loader, load_state>>
    BY DEF modelsPage
  <2> QED BY <1>1, <2>1, <2>2, LenFacts DEF Inv, Page
<1> QED BY <1>4, <1>5, <1>6 DEF Inv

(* What is left as it is may be written as such a step, too.               *)
LEMMA Same ==
  ASSUME Typed, NEW r \in 1..Len(requests)
  PROVE  /\ requests = [requests EXCEPT ![r] = requests[r]]
         /\ threads = [threads EXCEPT ![r] = threads[r]]
         /\ stream = [stream EXCEPT ![r] = stream[r]]
<1>1. /\ requests \in [1..Len(requests) -> Request]
      /\ threads \in [1..Len(requests) -> Thread]
      /\ stream \in [1..Len(requests) -> Seq(Message)]
  BY LenProperties DEF Typed
<1> QED BY <1>1

(* One more message.                                                       *)
LEMMA AppendMessage ==
  ASSUME NEW m \in Seq(Message), NEW x \in Message
  PROVE  /\ Append(m, x) \in Seq(Message) /\ Append(m, x) # <<>>
         /\ \A k \in 1..Len(Append(m, x)):
               Append(m, x)[k] = x \/ \E j \in 1..Len(m): Append(m, x)[k] = m[j]
<1> DEFINE n == Len(m)
           a == Append(m, x)
<1>1. /\ n \in Nat /\ a \in Seq(Message) /\ a # <<>> /\ Len(a) = n + 1
      /\ \A k \in 1..n: a[k] = m[k]
      /\ a[n + 1] = x
  BY AppendProperties, LenProperties
<1> HIDE DEF n, a
<1>2. ASSUME NEW k \in 1..n + 1
      PROVE  a[k] = x \/ \E j \in 1..n: a[k] = m[j]
  <2>1. k \in 1..n \/ k = n + 1
    BY <1>1
  <2> QED BY <1>1, <2>1
<1> QED BY <1>1, <1>2 DEF n, a

Ended(r, answer) == [requests[r] EXCEPT !.at = "done", !.answer = answer]

LEMMA DoneIs ==
  ASSUME Typed, NEW r \in 1..Len(requests), NEW answer, Done(r, answer)
  PROVE  requests' = [requests EXCEPT ![r] = Ended(r, answer)]
<1>1. requests \in [1..Len(requests) -> Request] /\ r \in DOMAIN requests
  BY LenProperties DEF Typed
<1> QED BY <1>1 DEF Done, Ended, Request

LEMMA EndedIs ==
  ASSUME Typed, NEW r \in 1..Len(requests),
         NEW answer \in {"none", "ok", "no", "denied", "failed"}
  PROVE  /\ Ended(r, answer) \in Request
         /\ Ended(r, answer).at = "done" /\ Ended(r, answer).answer = answer
         /\ Ended(r, answer).effect = requests[r].effect
         /\ Ended(r, answer).node = requests[r].node
         /\ Ended(r, answer).action = requests[r].action
  BY LenFacts DEF Ended, Request

-----------------------------------------------------------------------------
LEMMA ConnectInv ==
  ASSUME Inv, NEW r \in 1..Len(requests), Connect(r)
  PROVE  Inv'
<1> DEFINE t == threads[r]
           m == stream[r]
<1>1. /\ requests[r] \in Request /\ t \in Thread /\ m \in Seq(Message)
      /\ Sound(requests[r], t, m) /\ requests[r].at = "connect" /\ t.at = "none"
      /\ requests[r].age = 0 /\ due \in 0..PushPause
      /\ losses' \in 0..MaxLosses /\ Typed
  BY LenFacts DEF Inv, Connect, Sound, Typed
<1>2. CASE requests[r].node \in Protected /\ ~TokenSent(r)
  <2> DEFINE q == Ended(r, "denied")
  <2>1. /\ requests' = [requests EXCEPT ![r] = q] /\ threads' = [threads EXCEPT ![r] = t]
        /\ stream' = [stream EXCEPT ![r] = m]
    BY <1>1, <1>2, DoneIs, Same DEF Connect
  <2>2. q \in Request /\ q.node = requests[r].node /\ q.at = "done" /\ q.answer = "denied"
        /\ q.effect = requests[r].effect /\ q.action = requests[r].action
    BY <1>1, EndedIs
  <2> HIDE DEF q
  <2>3. Sound(q, t, m) /\ Timely(q, m, due)
    BY <1>1, <2>2 DEF Sound, Timely
  <2> QED BY <1>1, <2>1, <2>2, <2>3, OneMoves DEF Connect
<1>3. CASE ~(requests[r].node \in Protected /\ ~TokenSent(r))
  <2> DEFINE q == [requests[r] EXCEPT !.at = "wait"]
             u == [t EXCEPT !.at = "command"]
  <2>1. /\ requests' = [requests EXCEPT ![r] = q] /\ threads' = [threads EXCEPT ![r] = u]
        /\ stream' = [stream EXCEPT ![r] = m]
    BY <1>1, <1>3, Same DEF Connect
  <2>2. /\ q \in Request /\ q.node = requests[r].node /\ q.at = "wait" /\ q.age = 0
        /\ q.answer = requests[r].answer /\ q.effect = requests[r].effect
        /\ q.action = requests[r].action
        /\ u \in Thread /\ u.at = "command" /\ u.loading = t.loading
    BY <1>1 DEF Request, Thread
  <2> HIDE DEF q, u
  <2>3. Sound(q, u, m)
    BY <1>1, <2>2 DEF Sound
  <2>4. 0 <= Limit(q) /\ 0 + due <= Limit(q)
    BY <1>1, RequestAssumption DEF Limit
  <2>5. Timely(q, m, due)
    BY <2>2, <2>4 DEF Timely
  <2> QED BY <1>1, <2>1, <2>2, <2>3, <2>5, OneMoves DEF Connect
<1> QED BY <1>2, <1>3

(* After a document the deadline is looked at, so one that goes on waiting *)
(* has not reached it.                                                     *)
LEMMA ReadInv ==
  ASSUME Inv, NEW r \in 1..Len(requests), ReadMessage(r)
  PROVE  Inv'
<1> DEFINE t == threads[r]
           old == stream[r]
           m == Tail(old)
           x == Head(old)
<1>1. /\ requests[r] \in Request /\ t \in Thread /\ old \in Seq(Message)
      /\ Sound(requests[r], t, old) /\ Timely(requests[r], old, due)
      /\ requests[r].at = "wait" /\ old # <<>> /\ due \in 0..PushPause
      /\ losses' \in 0..MaxLosses /\ Typed
      /\ stream' = [stream EXCEPT ![r] = m] /\ UNCHANGED <<threads, due, modelsPage, losses>>
  BY LenFacts DEF Inv, ReadMessage, Typed
<1>2. /\ m \in Seq(Message) /\ x \in Message /\ x = old[1] /\ 1 \in 1..Len(old)
      /\ \A k \in 1..Len(m): \E j \in 1..Len(old): m[k] = old[j]
  <2>1. /\ Len(old) \in Nat \ {0} /\ m \in Seq(Message) /\ Len(m) = Len(old) - 1
        /\ x \in Message /\ x = old[1]
        /\ \A k \in 1..Len(m): m[k] = old[k + 1]
    BY <1>1, EmptySeq, HeadTailProperties
  <2>2. \A k \in 1..Len(m): k + 1 \in 1..Len(old)
    BY <2>1
  <2> QED BY <2>1, <2>2
<1> HIDE DEF m, x
<1>3. threads' = [threads EXCEPT ![r] = t]
  BY <1>1, Same
<1>4. CASE requests' # requests
  <2>1. PICK answer \in {"ok", "no", "failed"}:
           Done(r, answer) /\ (answer = x \/ answer = "failed")
    BY <1>1, <1>2, <1>4 DEF ReadMessage, x, Message
  <2> DEFINE q == Ended(r, answer)
  <2>2. requests' = [requests EXCEPT ![r] = q]
    BY <1>1, <2>1, DoneIs
  <2>3. q \in Request /\ q.node = requests[r].node /\ q.at = "done" /\ q.answer = answer
        /\ q.effect = requests[r].effect /\ q.action = requests[r].action
    BY <1>1, EndedIs
  <2> HIDE DEF q
  <2>4. answer = "ok" => q.effect
    BY <1>1, <1>2, <2>1, <2>3 DEF Sound
  <2>5. answer = "no" => t.at = "replied" /\ (q.action # "load_model" => ~q.effect)
    BY <1>1, <1>2, <2>1, <2>3 DEF Sound
  <2>6. Sound(q, t, m)
    BY <1>1, <1>2, <2>1, <2>3, <2>4, <2>5 DEF Sound
  <2>7. Timely(q, m, due)
    BY <2>3 DEF Timely
  <2> QED BY <1>1, <1>2, <1>3, <2>2, <2>3, <2>6, <2>7, OneMoves
<1>5. CASE requests' = requests
  <2> DEFINE q == requests[r]
  <2>1. requests' = [requests EXCEPT ![r] = q]
    BY <1>1, <1>5, Same
  <2>2. q.age < Deadline(r)
    <3>1. ~(q.age >= Deadline(r))
      <4> SUFFICES ASSUME Done(r, "failed") \/ Done(r, x) PROVE FALSE
        BY <1>1 DEF ReadMessage, x
      <4>1. PICK answer: Done(r, answer)
        OBVIOUS
      <4>2. requests[r].at = "done"
        BY <1>1, <1>5, <4>1, LenFacts DEF Done
      <4> QED BY <1>1, <4>2
    <3> QED BY <1>1, <3>1, RequestAssumption DEF Deadline, Request
  <2>3. q.age + due <= Limit(q) /\ q.age <= Limit(q)
    BY <1>1, <2>2, RequestAssumption DEF Limit, Deadline, Request
  <2>4. Sound(q, t, m)
    BY <1>1, <1>2 DEF Sound
  <2>5. Timely(q, m, due)
    BY <2>3 DEF Timely
  <2> QED BY <1>1, <1>2, <1>3, <2>1, <2>4, <2>5, OneMoves
<1> QED BY <1>4, <1>5

LEMMA BreakInv ==
  ASSUME Inv, NEW r \in 1..Len(requests), Break(r)
  PROVE  Inv'
<1> DEFINE q == Ended(r, "failed")
           t == threads[r]
           m == <<>>
<1>1. /\ requests[r] \in Request /\ t \in Thread /\ m \in Seq(Message)
      /\ Sound(requests[r], t, stream[r]) /\ Typed
  BY LenFacts DEF Inv
<1>2. losses' \in 0..MaxLosses
  BY <1>1, RequestAssumption DEF Break, Typed
<1>3. /\ requests' = [requests EXCEPT ![r] = q] /\ threads' = [threads EXCEPT ![r] = t]
      /\ stream' = [stream EXCEPT ![r] = m]
  BY <1>1, DoneIs, Same DEF Break
<1>4. q \in Request /\ q.node = requests[r].node /\ q.at = "done" /\ q.answer = "failed"
      /\ q.effect = requests[r].effect /\ q.action = requests[r].action
  BY <1>1, EndedIs
<1> HIDE DEF q
<1>5. Sound(q, t, m) /\ Timely(q, m, due)
  BY <1>1, <1>4 DEF Sound, Timely
<1> QED BY <1>1, <1>2, <1>3, <1>4, <1>5, OneMoves DEF Break

LEMMA SilentInv ==
  ASSUME Inv, NEW r \in 1..Len(requests), FallSilent(r)
  PROVE  Inv'
<1> DEFINE q == [requests[r] EXCEPT !.silent = TRUE]
           t == threads[r]
           m == <<>>
<1>1. /\ requests[r] \in Request /\ t \in Thread /\ m \in Seq(Message)
      /\ Sound(requests[r], t, stream[r]) /\ Typed
  BY LenFacts DEF Inv
<1>2. losses' \in 0..MaxLosses
  BY <1>1, RequestAssumption DEF FallSilent, Typed
<1>3. /\ requests' = [requests EXCEPT ![r] = q] /\ threads' = [threads EXCEPT ![r] = t]
      /\ stream' = [stream EXCEPT ![r] = m]
  BY <1>1, Same DEF FallSilent
<1>4. /\ q \in Request /\ q.node = requests[r].node /\ q.at = requests[r].at /\ q.silent
      /\ q.answer = requests[r].answer /\ q.effect = requests[r].effect
      /\ q.age = requests[r].age /\ q.action = requests[r].action
  BY <1>1 DEF Request
<1> HIDE DEF q
<1>5. Sound(q, t, m) /\ Timely(q, m, due)
  BY <1>1, <1>4 DEF Sound, Timely
<1> QED BY <1>1, <1>2, <1>3, <1>4, <1>5, OneMoves DEF FallSilent

-----------------------------------------------------------------------------
(* The thread replies x: it has not before, so what is under way to the    *)
(* applet is documents only, and nothing has happened yet.                 *)
LEMMA Replies ==
  ASSUME Inv, NEW r \in 1..Len(requests), NEW q \in Request, NEW t \in Thread,
         NEW x \in Message,
         requests' = [requests EXCEPT ![r] = q], threads' = [threads EXCEPT ![r] = t],
         SendTo(r, x), UNCHANGED <<due, modelsPage, losses>>,
         threads[r].at \in {"command", "post"}, t.at = "replied",
         q.node = requests[r].node, q.action = requests[r].action,
         q.at = requests[r].at, q.silent = requests[r].silent,
         q.age = requests[r].age, q.answer = requests[r].answer,
         x = "ok" => q.effect, x = "no" /\ q.action # "load_model" => ~q.effect,
         q.action # "load_model" => ~t.loading
  PROVE  Inv'
<1> DEFINE old == stream[r]
           m == IF Arrives(r) THEN Append(old, x) ELSE old
<1>1. /\ old \in Seq(Message) /\ Sound(requests[r], threads[r], old)
      /\ Timely(requests[r], old, due) /\ Typed /\ due' = due
      /\ losses' \in 0..MaxLosses /\ UNCHANGED modelsPage
      /\ stream \in [1..Len(requests) -> Seq(Message)]
  BY LenFacts, LenProperties DEF Inv, Typed
<1>2. stream' = [stream EXCEPT ![r] = m]
  BY <1>1 DEF SendTo
<1>3. /\ m \in Seq(Message) /\ (Arrives(r) => m # <<>>)
      /\ \A k \in 1..Len(m): m[k] = x \/ \E j \in 1..Len(old): m[k] = old[j]
  BY <1>1, AppendMessage
<1> HIDE DEF m
<1>4. \A k \in 1..Len(m): m[k] = x \/ m[k] = "push"
  BY <1>1, <1>3 DEF Sound
<1>5. Sound(q, t, m)
  BY <1>1, <1>4 DEF Sound
<1>6. Timely(q, m, due)
  <2>1. Limit(q) = Limit(requests[r])
    BY DEF Limit
  <2> QED BY <1>1, <1>3, <2>1 DEF Timely, Arrives
<1> QED BY <1>1, <1>2, <1>3, <1>5, <1>6, OneMoves

LEMMA CommandInv ==
  ASSUME Inv, NEW r \in 1..Len(requests), Command(r)
  PROVE  Inv'
<1> DEFINE t == [threads[r] EXCEPT !.at = "replied", !.age = 0]
<1>1. /\ requests[r] \in Request /\ threads[r] \in Thread /\ threads[r].at = "command"
      /\ Sound(requests[r], threads[r], stream[r]) /\ Typed
      /\ UNCHANGED <<due, modelsPage, losses>>
  BY LenFacts DEF Inv, Command
<1>2. ~requests[r].effect /\ ~threads[r].loading
  BY <1>1 DEF Sound
<1>3. threads' = [threads EXCEPT ![r] = t]
  <2>1. threads \in [1..Len(requests) -> Thread]
    BY <1>1, LenProperties DEF Typed
  <2> QED BY <2>1 DEF Command, Reply, Thread
<1>4. t \in Thread /\ t.at = "replied" /\ ~t.loading
  <2>1. 0 \in 0..PostTimeout
    BY RequestAssumption
  <2> QED BY <1>1, <1>2, <2>1 DEF Thread
<1> HIDE DEF t
<1>5. CASE Reply(r, "ok") /\ requests' = [requests EXCEPT ![r].effect = TRUE]
  <2> DEFINE q == [requests[r] EXCEPT !.effect = TRUE]
  <2>1. requests' = [requests EXCEPT ![r] = q]
    BY <1>5
  <2>2. /\ q \in Request /\ q.node = requests[r].node /\ q.at = requests[r].at /\ q.effect
        /\ q.answer = requests[r].answer /\ q.silent = requests[r].silent
        /\ q.age = requests[r].age /\ q.action = requests[r].action
    BY <1>1 DEF Request
  <2>3. SendTo(r, "ok")
    BY <1>5 DEF Reply
  <2> HIDE DEF q
  <2> QED BY <1>1, <1>3, <1>4, <2>1, <2>2, <2>3, Replies DEF Message
<1>6. CASE Reply(r, "no") /\ UNCHANGED requests
  <2>1. requests' = [requests EXCEPT ![r] = requests[r]]
    BY <1>1, <1>6, Same
  <2>2. SendTo(r, "no")
    BY <1>6 DEF Reply
  <2> QED BY <1>1, <1>2, <1>3, <1>4, <2>1, <2>2, Replies DEF Message
<1> QED BY <1>5, <1>6 DEF Command

(* A step of the thread that sends nothing.                                *)
LEMMA ThreadMoves ==
  ASSUME Inv, NEW r \in 1..Len(requests), NEW q \in Request, NEW t \in Thread,
         requests' = [requests EXCEPT ![r] = q], threads' = [threads EXCEPT ![r] = t],
         UNCHANGED <<stream, due, modelsPage, losses>>,
         q.node = requests[r].node, q.action = requests[r].action,
         q.at = requests[r].at, q.silent = requests[r].silent,
         q.age = requests[r].age, Sound(q, t, stream[r])
  PROVE  Inv'
<1>1. /\ stream[r] \in Seq(Message) /\ Timely(requests[r], stream[r], due) /\ Typed
      /\ losses' \in 0..MaxLosses
  BY LenFacts DEF Inv, Typed
<1>2. stream' = [stream EXCEPT ![r] = stream[r]]
  BY <1>1, Same
<1>3. Timely(q, stream[r], due)
  <2>1. Limit(q) = Limit(requests[r])
    BY DEF Limit
  <2> QED BY <1>1, <2>1 DEF Timely
<1> QED BY <1>1, <1>2, <1>3, OneMoves

LEMMA PostModelInv ==
  ASSUME Inv, NEW r \in 1..Len(requests), PostModel(r)
  PROVE  Inv'
<1>1. /\ requests[r] \in Request /\ threads[r] \in Thread /\ threads[r].at = "command"
      /\ Sound(requests[r], threads[r], stream[r]) /\ Typed
      /\ UNCHANGED <<requests, due, modelsPage, losses>>
      /\ requests[r].action = "load_model"
      /\ threads \in [1..Len(requests) -> Thread]
  BY LenFacts, LenProperties DEF Inv, PostModel, Typed
<1>2. ~requests[r].effect /\ ~threads[r].loading
  BY <1>1 DEF Sound
<1>3. requests' = [requests EXCEPT ![r] = requests[r]]
  BY <1>1, Same
<1>4. CASE threads' = [threads EXCEPT ![r].at = "replied"] /\ UNCHANGED stream
  <2> DEFINE t == [threads[r] EXCEPT !.at = "replied"]
  <2>1. threads' = [threads EXCEPT ![r] = t]
    BY <1>4
  <2>2. t \in Thread /\ t.at = "replied" /\ ~t.loading
    BY <1>1, <1>2 DEF Thread
  <2> HIDE DEF t
  <2>3. Sound(requests[r], t, stream[r])
    BY <1>1, <1>2, <2>2 DEF Sound
  <2> QED BY <1>1, <1>3, <1>4, <2>1, <2>2, <2>3, ThreadMoves
<1>5. CASE threads' = [threads EXCEPT ![r].at = "post", ![r].loading = TRUE] /\ UNCHANGED stream
  <2> DEFINE t == [threads[r] EXCEPT !.at = "post", !.loading = TRUE]
  <2>1. threads' = [threads EXCEPT ![r] = t]
    BY <1>1, <1>5 DEF Thread
  <2>2. t \in Thread /\ t.at = "post"
    BY <1>1 DEF Thread
  <2> HIDE DEF t
  <2>3. Sound(requests[r], t, stream[r])
    BY <1>1, <1>2, <2>2 DEF Sound
  <2> QED BY <1>1, <1>3, <1>5, <2>1, <2>2, <2>3, ThreadMoves
<1>6. CASE Reply(r, "no")
  <2> DEFINE t == [threads[r] EXCEPT !.at = "replied", !.age = 0]
  <2>1. threads' = [threads EXCEPT ![r] = t]
    BY <1>1, <1>6 DEF Reply, Thread
  <2>2. t \in Thread /\ t.at = "replied" /\ ~t.loading
    <3>1. 0 \in 0..PostTimeout
      BY RequestAssumption
    <3> QED BY <1>1, <1>2, <3>1 DEF Thread
  <2>3. SendTo(r, "no")
    BY <1>6 DEF Reply
  <2> HIDE DEF t
  <2> QED BY <1>1, <1>2, <1>3, <2>1, <2>2, <2>3, Replies DEF Message
<1> QED BY <1>4, <1>5, <1>6 DEF PostModel

(* The engine's answer may have nobody to go to, because http_post has     *)
(* given up: a load that is answered "no" comes true.                      *)
LEMMA EngineInv ==
  ASSUME Inv, NEW r \in 1..Len(requests), EngineLoads(r) \/ EngineRefuses(r)
  PROVE  Inv'
<1> DEFINE t == [threads[r] EXCEPT !.loading = FALSE,
                                   !.at = IF @ = "post" THEN "replied" ELSE @]
           loaded == [requests[r] EXCEPT !.effect = TRUE]
<1>1. /\ requests[r] \in Request /\ threads[r] \in Thread /\ threads[r].loading
      /\ Sound(requests[r], threads[r], stream[r]) /\ Typed
      /\ UNCHANGED <<due, modelsPage, losses>>
      /\ threads \in [1..Len(requests) -> Thread]
  BY LenFacts, LenProperties DEF Inv, EngineLoads, EngineRefuses, Typed
<1>2. threads[r].at \in {"post", "replied"}
  BY <1>1 DEF Sound, Thread
<1>3. threads' = [threads EXCEPT ![r] = t]
  BY <1>1 DEF EngineLoads, EngineRefuses, Thread
<1>4. t \in Thread /\ t.at = "replied" /\ ~t.loading
  BY <1>1, <1>2 DEF Thread
<1>5. /\ loaded \in Request /\ loaded.node = requests[r].node /\ loaded.at = requests[r].at
      /\ loaded.effect /\ loaded.answer = requests[r].answer
      /\ loaded.silent = requests[r].silent /\ loaded.age = requests[r].age
      /\ loaded.action = requests[r].action
  BY <1>1 DEF Request
<1>6. EngineLoads(r) => requests' = [requests EXCEPT ![r] = loaded]
  BY DEF EngineLoads
<1>7. EngineRefuses(r) => requests' = [requests EXCEPT ![r] = requests[r]]
  BY <1>1, Same DEF EngineRefuses
<1>8. CASE threads[r].at = "post"
  <2>1. EngineLoads(r) => SendTo(r, "ok")
    BY <1>8 DEF EngineLoads
  <2>2. EngineRefuses(r) => SendTo(r, "no") /\ ~requests[r].effect
    BY <1>1, <1>8 DEF EngineRefuses, Sound
  <2> HIDE DEF t, loaded
  <2>3. CASE EngineLoads(r)
    BY <1>1, <1>3, <1>4, <1>5, <1>6, <1>8, <2>1, <2>3, Replies DEF Message
  <2>4. CASE EngineRefuses(r)
    BY <1>1, <1>3, <1>4, <1>7, <1>8, <2>2, <2>4, Replies DEF Message
  <2> QED BY <2>3, <2>4
<1>9. CASE threads[r].at = "replied"
  <2>1. UNCHANGED stream
    BY <1>9 DEF EngineLoads, EngineRefuses
  <2> HIDE DEF t, loaded
  <2>2. Sound(loaded, t, stream[r])
    BY <1>1, <1>4, <1>5, <1>9 DEF Sound
  <2>3. Sound(requests[r], t, stream[r])
    BY <1>1, <1>4, <1>9 DEF Sound
  <2>4. CASE EngineLoads(r)
    BY <1>1, <1>3, <1>4, <1>5, <1>6, <2>1, <2>2, <2>4, ThreadMoves
  <2>5. CASE EngineRefuses(r)
    BY <1>1, <1>3, <1>4, <1>7, <2>1, <2>3, <2>5, ThreadMoves
  <2> QED BY <2>4, <2>5
<1> QED BY <1>2, <1>8, <1>9

LEMMA TimeoutInv ==
  ASSUME Inv, NEW r \in 1..Len(requests), PostTimesOut(r)
  PROVE  Inv'
<1> DEFINE t == [threads[r] EXCEPT !.at = "replied", !.age = 0]
<1>1. /\ requests[r] \in Request /\ threads[r] \in Thread /\ threads[r].at = "post" /\ requests[r].action = "load_model"
      /\ UNCHANGED <<requests, due, modelsPage, losses>> /\ Typed
      /\ threads \in [1..Len(requests) -> Thread]
  BY LenFacts, LenProperties DEF Inv, PostTimesOut, Typed, Sound
<1>2. requests' = [requests EXCEPT ![r] = requests[r]]
  BY <1>1, Same
<1>3. threads' = [threads EXCEPT ![r] = t]
  BY <1>1 DEF PostTimesOut, Reply, Thread
<1>4. t \in Thread /\ t.at = "replied"
  <2>1. 0 \in 0..PostTimeout
    BY RequestAssumption
  <2> QED BY <1>1, <2>1 DEF Thread
<1>5. SendTo(r, "no")
  BY DEF PostTimesOut, Reply
<1> HIDE DEF t
<1> QED BY <1>1, <1>2, <1>3, <1>4, <1>5, Replies DEF Message

-----------------------------------------------------------------------------
(* Steps that concern every request.                                       *)
LEMMA FunctionIsSeq ==
  ASSUME NEW S, NEW n \in Nat, NEW f \in [1..n -> S]
  PROVE  f \in Seq(S) /\ Len(f) = n
<1>1. f \in Seq(S)
  BY SeqDef
<1>2. Len(f) \in Nat /\ DOMAIN f = 1..Len(f)
  BY <1>1, LenProperties
<1>3. 1..n = 1..Len(f)
  BY <1>2
<1> QED BY <1>1, <1>2, <1>3

LEMMA PushInv ==
  ASSUME Inv, Push
  PROVE  Inv'
<1> DEFINE n == Len(requests)
<1>1. /\ Typed /\ n \in Nat /\ DOMAIN stream = 1..n
      /\ \A r \in 1..n: /\ stream[r] \in Seq(Message)
                        /\ Sound(requests[r], threads[r], stream[r])
                        /\ Timely(requests[r], stream[r], due)
      /\ UNCHANGED <<requests, threads, modelsPage, losses>> /\ due' = PushPause
      /\ stream' = [r \in 1..n |-> IF Arrives(r) THEN Append(stream[r], "push") ELSE stream[r]]
  BY LenFacts DEF Inv, Push
<1>2. ASSUME NEW r \in 1..n
      PROVE  /\ stream'[r] \in Seq(Message)
             /\ Arrives(r) => stream'[r] # <<>>
             /\ \A k \in 1..Len(stream'[r]):
                   stream'[r][k] = "push" \/ \E j \in 1..Len(stream[r]): stream'[r][k] = stream[r][j]
  <2>1. CASE Arrives(r)
    <3>1. stream'[r] = Append(stream[r], "push")
      BY <1>1, <2>1
    <3> QED BY <1>1, <2>1, <3>1, AppendMessage DEF Message
  <2>2. CASE ~Arrives(r)
    <3>1. stream'[r] = stream[r]
      BY <1>1, <2>2
    <3> QED BY <1>1, <2>2, <3>1
  <2> QED BY <2>1, <2>2
<1>3. Typed'
  <2>1. stream' \in [1..n -> Seq(Message)]
    BY <1>1, <1>2
  <2>2. stream' \in Seq(Seq(Message)) /\ Len(stream') = n
    <3>1. n \in Nat
      BY <1>1
    <3> HIDE DEF n
    <3> QED BY <2>1, <3>1, FunctionIsSeq
  <2>3. PushPause \in 0..PushPause
    BY RequestAssumption
  <2> QED BY <1>1, <2>2, <2>3 DEF Typed
<1>4. ASSUME NEW r \in 1..n
      PROVE  Sound(requests'[r], threads'[r], stream'[r])
  <2> DEFINE q == requests[r]
             t == threads[r]
             old == stream[r]
             m == stream'[r]
  <2>1. /\ Sound(q, t, old) /\ requests'[r] = q /\ threads'[r] = t
        /\ \A k \in 1..Len(m): m[k] = "push" \/ \E j \in 1..Len(old): m[k] = old[j]
    BY <1>1, <1>2, <1>4
  <2> HIDE DEF q, t, old, m
  <2>2. Sound(q, t, m)
    BY <2>1 DEF Sound
  <2> QED BY <2>1, <2>2 DEF m
<1>5. ASSUME NEW r \in 1..n
      PROVE  Timely(requests'[r], stream'[r], due')
  BY <1>1, <1>2 DEF Timely, Arrives
<1>6. Page'
  BY <1>1 DEF Inv, Page, modelsPage
<1> QED BY <1>1, <1>3, <1>4, <1>5, <1>6 DEF Inv

(* Nothing is on its way when a tick passes.                               *)
LEMMA TickInv ==
  ASSUME Inv, AskTick
  PROVE  Inv'
<1> DEFINE n == Len(requests)
<1>1. /\ Typed /\ n \in Nat
      /\ DOMAIN requests = 1..n /\ DOMAIN threads = 1..n
      /\ \A r \in 1..n: /\ requests[r] \in Request /\ threads[r] \in Thread
                        /\ Sound(requests[r], threads[r], stream[r])
                        /\ Timely(requests[r], stream[r], due)
                        /\ stream[r] = <<>>
                        /\ threads[r].at = "post" => threads[r].age < PostTimeout
      /\ UNCHANGED <<stream, modelsPage, losses>>
      /\ due \in 1..PushPause /\ due' = due - 1
      /\ requests' = [r \in 1..n |->
                         IF Arrives(r) THEN [requests[r] EXCEPT !.age = @ + 1] ELSE requests[r]]
      /\ threads' = [r \in 1..n |->
                        IF threads[r].at = "post" THEN [threads[r] EXCEPT !.age = @ + 1]
                        ELSE threads[r]]
  BY LenFacts, RequestAssumption DEF Inv, AskTick, Typed
<1>2. ASSUME NEW r \in 1..n
      PROVE  /\ requests'[r] \in Request
             /\ requests'[r].node = requests[r].node /\ requests'[r].at = requests[r].at
             /\ requests'[r].action = requests[r].action
             /\ requests'[r].answer = requests[r].answer
             /\ requests'[r].effect = requests[r].effect
             /\ requests'[r].silent = requests[r].silent
             /\ requests'[r].age = IF Arrives(r) THEN requests[r].age + 1 ELSE requests[r].age
  <2>1. CASE Arrives(r)
    <3>1. requests'[r] = [requests[r] EXCEPT !.age = @ + 1]
      BY <1>1, <1>2, <2>1
    <3>2. requests[r] \in Request /\ requests[r].age + 1 \in Nat
      BY <1>1, <1>2 DEF Request
    <3> QED BY <2>1, <3>1, <3>2 DEF Request
  <2>2. CASE ~Arrives(r)
    <3>1. requests'[r] = requests[r] /\ requests[r] \in Request
      BY <1>1, <1>2, <2>2
    <3> QED BY <2>2, <3>1
  <2> QED BY <2>1, <2>2
<1>3. ASSUME NEW r \in 1..n
      PROVE  /\ threads'[r] \in Thread
             /\ threads'[r].at = threads[r].at /\ threads'[r].loading = threads[r].loading
  <2>1. CASE threads[r].at = "post"
    <3>1. threads'[r] = [threads[r] EXCEPT !.age = @ + 1]
      BY <1>1, <1>3, <2>1
    <3>2. threads[r] \in Thread /\ threads[r].age < PostTimeout
      BY <1>1, <1>3, <2>1
    <3>3. threads[r].age + 1 \in 0..PostTimeout
      BY <3>2, RequestAssumption DEF Thread
    <3> QED BY <3>1, <3>2, <3>3 DEF Thread
  <2>2. CASE threads[r].at # "post"
    BY <1>1, <1>3, <2>2
  <2> QED BY <2>1, <2>2
<1>4. Typed'
  <2>1. requests' \in [1..n -> Request] /\ threads' \in [1..n -> Thread]
    BY <1>1, <1>2, <1>3
  <2>2. /\ requests' \in Seq(Request) /\ Len(requests') = n
        /\ threads' \in Seq(Thread) /\ Len(threads') = n
    BY <1>1, <2>1, FunctionIsSeq
  <2>3. due' \in 0..PushPause
    BY <1>1, RequestAssumption
  <2> QED BY <1>1, <2>2, <2>3 DEF Typed
<1>5. Len(requests') = n
  <2>1. requests' \in [1..n -> Request]
    BY <1>1, <1>2
  <2> QED BY <1>1, <2>1, FunctionIsSeq
<1>6. ASSUME NEW r \in 1..n
      PROVE  Sound(requests'[r], threads'[r], stream'[r])
  BY <1>1, <1>2, <1>3 DEF Sound, Arrives
<1>7. ASSUME NEW r \in 1..n
      PROVE  Timely(requests'[r], stream'[r], due')
  <2>1. SUFFICES ASSUME Arrives(r)
                 PROVE  /\ requests'[r].age <= Limit(requests'[r])
                        /\ requests'[r].age + due' <= Limit(requests'[r])
    BY <1>2 DEF Timely, Arrives
  <2>2. Limit(requests'[r]) = Limit(requests[r])
    BY <1>2 DEF Limit
  <2>3. requests[r].age + due <= Limit(requests[r])
    BY <1>1, <2>1 DEF Timely, Arrives
  <2>4. Limit(requests[r]) \in Nat
    BY RequestAssumption DEF Limit
  <2>5. requests[r].age \in Nat /\ requests'[r].age = requests[r].age + 1
    BY <1>1, <1>2, <2>1 DEF Request
  <2>6. due \in Nat \ {0} /\ due' = due - 1
    BY <1>1, RequestAssumption
  <2> QED BY <2>2, <2>3, <2>4, <2>5, <2>6
<1>8. Page'
  <2>1. UNCHANGED <<models_open, loader, load_state>>
    BY <1>1 DEF modelsPage
  <2> QED BY <1>1, <1>2, <1>5, <2>1 DEF Inv, Page
<1> QED BY <1>4, <1>5, <1>6, <1>7, <1>8 DEF Inv

(* A new request stands behind the others, with nothing under way.         *)
LEMMA AddedInv ==
  ASSUME Inv, NEW action \in Actions, NEW node \in AgentNodes, Added(action, node),
         UNCHANGED <<due, losses>>
  PROVE  /\ Typed'
         /\ \A r \in 1..Len(requests'): /\ Sound(requests'[r], threads'[r], stream'[r])
                                        /\ Timely(requests'[r], stream'[r], due')
         /\ Len(requests) \in Nat /\ Len(requests') = Len(requests) + 1
         /\ \A r \in 1..Len(requests): requests'[r] = requests[r]
         /\ requests'[Len(requests')].node = node
<1> DEFINE n == Len(requests)
           new == [action |-> action, node |-> node, at |-> "connect", age |-> 0,
                   silent |-> FALSE, answer |-> "none", effect |-> FALSE]
<1>1. /\ Typed /\ n \in Nat /\ n < MaxRequests
      /\ \A r \in 1..n: /\ Sound(requests[r], threads[r], stream[r])
                        /\ Timely(requests[r], stream[r], due)
      /\ requests' = Append(requests, new) /\ threads' = Append(threads, NoThread)
      /\ stream' = Append(stream, <<>>) /\ UNCHANGED <<due, losses>>
  BY LenFacts DEF Inv, Added
<1>2. new \in Request /\ NoThread \in Thread /\ <<>> \in Seq(Message)
  <2>1. 0 \in 0..PostTimeout
    BY RequestAssumption
  <2> QED BY <2>1 DEF Request, NoThread, Thread
<1>3. Sound(new, NoThread, <<>>) /\ Timely(new, <<>>, due) /\ new.node = node
  BY DEF Sound, Timely, NoThread
<1> HIDE DEF new
<1>4. /\ requests' \in Seq(Request) /\ Len(requests') = n + 1
      /\ requests'[n + 1] = new /\ \A r \in 1..n: requests'[r] = requests[r]
  BY <1>1, <1>2, AppendProperties DEF Typed
<1>5. /\ threads' \in Seq(Thread) /\ Len(threads') = n + 1
      /\ threads'[n + 1] = NoThread /\ \A r \in 1..n: threads'[r] = threads[r]
  BY <1>1, <1>2, AppendProperties DEF Typed
<1>6. /\ stream' \in Seq(Seq(Message)) /\ Len(stream') = n + 1
      /\ stream'[n + 1] = <<>> /\ \A r \in 1..n: stream'[r] = stream[r]
  BY <1>1, <1>2, AppendProperties DEF Typed
<1>7. Typed'
  <2>1. n + 1 <= MaxRequests
    BY <1>1, RequestAssumption
  <2> QED BY <1>1, <1>4, <1>5, <1>6, <2>1 DEF Typed
<1>8. ASSUME NEW r \in 1..Len(requests')
      PROVE  Sound(requests'[r], threads'[r], stream'[r]) /\ Timely(requests'[r], stream'[r], due')
  <2>1. r \in 1..n \/ r = n + 1
    BY <1>1, <1>4, <1>8
  <2>2. CASE r \in 1..n
    BY <1>1, <1>4, <1>5, <1>6, <2>2
  <2>3. CASE r = n + 1
    BY <1>1, <1>3, <1>4, <1>5, <1>6, <2>3
  <2> QED BY <2>1, <2>2, <2>3
<1>9. new.node = node
  BY <1>3
<1> QED BY <1>1, <1>4, <1>7, <1>8, <1>9

LEMMA AskInv ==
  ASSUME Inv, NEW node \in AgentNodes, AskProcesses(node)
  PROVE  Inv'
<1>0. "process" \in Actions /\ Added("process", node) /\ UNCHANGED <<due, losses>>
  BY DEF Actions, AskProcesses
<1>1. /\ Typed'
      /\ \A r \in 1..Len(requests'): /\ Sound(requests'[r], threads'[r], stream'[r])
                                     /\ Timely(requests'[r], stream'[r], due')
      /\ Len(requests) \in Nat /\ Len(requests') = Len(requests) + 1
      /\ \A r \in 1..Len(requests): requests'[r] = requests[r]
  BY <1>0, AddedInv
<1>2. UNCHANGED <<models_open, loader, load_state>> /\ Page
  BY DEF AskProcesses, modelsPage, Inv
<1>3. Page'
  BY <1>1, <1>2 DEF Page
<1> QED BY <1>1, <1>3 DEF Inv

(* The page loads on its own node.                                         *)
LEMMA LoadInv ==
  ASSUME Inv, LoadModel
  PROVE  Inv'
<1>1. PICK node \in models_open: Added("load_model", node)
  BY DEF LoadModel
<1>2. node \in AgentNodes /\ "load_model" \in Actions
  BY DEF Inv, Page, Actions
<1>3. UNCHANGED <<due, losses, models_open, load_state>> /\ loader' = Len(requests')
  BY DEF LoadModel
<1>4. /\ Typed'
      /\ \A r \in 1..Len(requests'): /\ Sound(requests'[r], threads'[r], stream'[r])
                                     /\ Timely(requests'[r], stream'[r], due')
      /\ Len(requests) \in Nat /\ Len(requests') = Len(requests) + 1
      /\ \A r \in 1..Len(requests): requests'[r] = requests[r]
      /\ requests'[Len(requests')].node = node
  BY <1>1, <1>2, <1>3, AddedInv
<1>5. Page'
  BY <1>1, <1>3, <1>4 DEF Inv, Page
<1> QED BY <1>4, <1>5 DEF Inv

(* Opening and closing the page and polling move no request.               *)
LEMMA PageMoves ==
  ASSUME Inv, UNCHANGED <<requests, agentVars, losses>>, Page'
  PROVE  Inv'
<1>1. UNCHANGED <<requests, threads, stream, due, losses>>
  BY DEF agentVars
<1>2. Typed'
  BY <1>1 DEF Inv, Typed
<1> QED BY <1>1, <1>2 DEF Inv

LEMMA PagesInv ==
  ASSUME Inv, (\E node \in AgentNodes: OpenModels(node)) \/ CloseModels
  PROVE  Inv'
<1>1. /\ models_open' \subseteq AgentNodes /\ \A a, b \in models_open': a = b
      /\ loader' = 0 /\ load_state' = [of |-> 0, as |-> "none"]
      /\ UNCHANGED <<requests, agentVars, losses>>
  BY DEF OpenModels, CloseModels
<1>2. Len(requests) \in Nat
  BY LenFacts DEF Inv
<1>3. [of |-> 0, as |-> "none"] \in Shown
  BY RequestAssumption DEF Shown
<1>4. Page'
  BY <1>1, <1>2, <1>3 DEF Page
<1> QED BY <1>1, <1>4, PageMoves

LEMMA PollInv ==
  ASSUME Inv, PollLoader
  PROVE  Inv'
<1> DEFINE as == IF requests[loader].at = "done" THEN requests[loader].answer ELSE "running"
<1>1. /\ Typed /\ Page /\ loader \in 1..Len(requests) /\ Len(requests) \in Nat
      /\ requests[loader] \in Request /\ Sound(requests[loader], threads[loader], stream[loader])
  <2>1. loader \in 1..Len(requests)
    BY LenFacts DEF Inv, Page, PollLoader
  <2> QED BY <2>1, LenFacts DEF Inv
<1>2. as # "none" /\ as \in {"none", "running", "ok", "no", "denied", "failed"}
  BY <1>1 DEF Sound, Request
<1>3. /\ load_state' = [of |-> loader, as |-> as]
      /\ UNCHANGED <<requests, agentVars, models_open, loader, losses>>
  BY DEF PollLoader
<1> HIDE DEF as
<1>4. loader \in 0..MaxRequests /\ loader # 0
  BY <1>1, RequestAssumption DEF Typed
<1>5. load_state' \in Shown
  BY <1>2, <1>3, <1>4 DEF Shown
<1>6. Page'
  BY <1>1, <1>2, <1>3, <1>4, <1>5 DEF Page
<1> QED BY <1>3, <1>6, PageMoves

-----------------------------------------------------------------------------
LEMMA InvInit == AskInit => Inv
<1> SUFFICES ASSUME AskInit PROVE Inv
  OBVIOUS
<1>1. Len(requests) = 0 /\ requests \in Seq(Request) /\ threads \in Seq(Thread)
      /\ stream \in Seq(Seq(Message)) /\ Len(threads) = 0 /\ Len(stream) = 0
  BY EmptySeq DEF AskInit
<1>2. Typed
  BY <1>1, RequestAssumption DEF AskInit, Typed
<1>3. Page
  BY <1>1, RequestAssumption DEF AskInit, Page, Shown
<1> QED BY <1>1, <1>2, <1>3 DEF Inv

LEMMA InvNext == Inv /\ [AskNext]_askVars => Inv'
<1> SUFFICES ASSUME Inv, [AskNext]_askVars PROVE Inv'
  OBVIOUS
<1>1. ASSUME NEW node \in AgentNodes, AskProcesses(node)
      PROVE  Inv'
  BY <1>1, AskInv
<1>2. CASE (\E node \in AgentNodes: OpenModels(node)) \/ CloseModels
  BY <1>2, PagesInv
<1>3. CASE LoadModel
  BY <1>3, LoadInv
<1>4. CASE PollLoader
  BY <1>4, PollInv
<1>5. ASSUME NEW r \in 1..Len(requests),
             \/ Connect(r) \/ ReadMessage(r) \/ Break(r) \/ FallSilent(r)
             \/ Command(r) \/ PostModel(r) \/ EngineLoads(r) \/ EngineRefuses(r)
             \/ PostTimesOut(r)
      PROVE  Inv'
  BY <1>5, ConnectInv, ReadInv, BreakInv, SilentInv, CommandInv, PostModelInv, EngineInv,
     TimeoutInv
<1>6. CASE Push
  BY <1>6, PushInv
<1>7. CASE AskTick
  BY <1>7, TickInv
<1>8. CASE UNCHANGED askVars
  <2>1. UNCHANGED <<requests, agentVars, losses>> /\ UNCHANGED <<models_open, loader, load_state>>
    BY <1>8 DEF askVars, modelsPage
  <2>2. Page'
    BY <2>1 DEF Inv, Page
  <2> QED BY <2>1, <2>2, PageMoves
<1>9. DOMAIN requests = 1..Len(requests)
  BY LenFacts DEF Inv
<1> QED
  BY <1>1, <1>2, <1>3, <1>4, <1>5, <1>6, <1>7, <1>8, <1>9 DEF AskNext

LEMMA InvHolds == AskSpec => []Inv
  BY InvInit, InvNext, PTL DEF AskSpec

(* Of AgentRequests: everything keeps its type, and the page shows a load  *)
(* that is there.                                                          *)
THEOREM AskTypeCorrect == AskSpec => []AskTypeOK
<1>1. Inv => AskTypeOK
  BY LenFacts DEF Inv, Typed, Page, AskTypeOK, Thread, Message
<1> QED BY <1>1, InvHolds, PTL

(* request and load_model: an "ok" means that it has happened on the node, *)
(* a "no" to a question or a signal that it has not, and a 401 that        *)
(* nothing has; however connections break and fall silent, and whether the *)
(* agent still waits for the engine or not.                                *)
THEOREM AnswersAreTrue == AskSpec => []AnswerIsTrue
<1>1. Inv => AnswerIsTrue
  <2> SUFFICES ASSUME Inv, NEW r \in DOMAIN requests
               PROVE  /\ requests[r].answer = "ok" => requests[r].effect
                      /\ requests[r].answer = "denied" => ~requests[r].effect
                      /\ requests[r].answer = "no" /\ requests[r].action # "load_model"
                         => ~requests[r].effect
    BY DEF AnswerIsTrue
  <2>1. Sound(requests[r], threads[r], stream[r])
    BY LenFacts DEF Inv
  <2> QED BY <2>1 DEF Sound
<1> QED BY <1>1, InvHolds, PTL

(* request and load_model: a request whose connection is not silent ends a *)
(* push pause after its deadline, whatever the deadline and the pause are. *)
THEOREM RequestsEndInTime == AskSpec => []EndsInTime
<1>1. Inv => EndsInTime
  <2> SUFFICES ASSUME Inv, NEW r \in DOMAIN requests, Arrives(r)
               PROVE  requests[r].age <= Deadline(r) + PushPause
    BY DEF EndsInTime
  <2>1. Timely(requests[r], stream[r], due)
    BY LenFacts DEF Inv
  <2> QED BY <2>1 DEF Timely, Limit, Deadline, Arrives
<1> QED BY <1>1, InvHolds, PTL

(* OpenModels, CloseModels, PollLoader: the models page shows loads of the *)
(* node it is open for only.                                               *)
THEOREM LoadsShownAreOfPage == AskSpec => []ShownIsOfPage
<1>1. Inv => ShownIsOfPage
  BY DEF Inv, Page, ShownIsOfPage
<1> QED BY <1>1, InvHolds, PTL
=============================================================================
