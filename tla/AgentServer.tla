---------------------------- MODULE AgentServer ----------------------------
(***************************************************************************)
(* The WebSocket side of the Rust node agent (agent/rust/src/main.rs,      *)
(* serve): the push thread that writes one document per interval to every  *)
(* client in a shared list, one thread per connection that registers,      *)
(* answers commands and leaves, and last_client_seen, whose age parks the  *)
(* collectors.                                                             *)
(*                                                                         *)
(* A socket takes a number of frames; a write waits until the client has   *)
(* read enough.  Time is counted in ticks, and passes while the push       *)
(* thread sleeps or waits for a stalled client: every other step is short  *)
(* against an interval.                                                    *)
(***************************************************************************)
EXTENDS Naturals, SequencesExt

CONSTANTS
    Clients,
    Stalled,     \* clients that keep the connection and stop reading
    Room,        \* frames a socket takes before a write has to wait
    Period,      \* push_interval
    Grace        \* DEMAND_GRACE_MS

ASSUME ServerAssumption ==
    /\ Stalled \subseteq Clients
    /\ Room \in Nat \ {0}
    /\ Period \in Nat \ {0} /\ Grace \in Nat \ {0}

VARIABLES
    thread,      \* thread[c]: what the connection thread of c does
    peer,        \* peer[c]: the client's end
    asked,       \* asked[c]: a command of c is waiting to be read
    wire,        \* wire[c]: how many frames are written and not read yet
    clients,     \* the shared list
    push,        \* what the push thread does; it holds the lock in "write"
    todo,        \* clients drained from the list, not yet written to
    alive,       \* clients written to
    wake,        \* ticks the push thread has still to sleep
    age          \* ticks since last_client_seen, no further than Grace

vars == <<thread, peer, asked, wire, clients, push, todo, alive, wake, age>>
sockets == <<peer, asked, wire>>

Init ==
    /\ thread = [c \in Clients |-> "off"]
    /\ peer = [c \in Clients |-> "none"]
    /\ asked = [c \in Clients |-> FALSE]
    /\ wire = [c \in Clients |-> 0]
    /\ clients = <<>>
    /\ push = "check"
    /\ todo = <<>>
    /\ alive = <<>>
    /\ wake = 0
    /\ age = Grace

Unlocked == push # "write"
under_demand == age < Grace
Attached == Range(clients) \union Range(todo) \union Range(alive)

-----------------------------------------------------------------------------
(* Definitions whose name ends in Mutant are faulty variants of the one    *)
(* that follows: a property below fails when its variant is used.          *)
ConnectMutant(c) ==
    /\ thread[c] = "off"
    /\ thread' = [thread EXCEPT ![c] = "register"]
    /\ peer' = [peer EXCEPT ![c] = "open"]
    /\ UNCHANGED <<asked, wire, clients, push, todo, alive, wake, age>>

(* Accept and handshake; a client that fetches and closes counts as demand.*)
Connect(c) ==
    /\ thread[c] = "off"
    /\ thread' = [thread EXCEPT ![c] = "register"]
    /\ peer' = [peer EXCEPT ![c] = "open"]
    /\ age' = 0
    /\ UNCHANGED <<asked, wire, clients, push, todo, alive, wake>>

Register(c) ==
    /\ thread[c] = "register" /\ Unlocked
    /\ clients' = Append(clients, c)
    /\ thread' = [thread EXCEPT ![c] = "read"]
    /\ UNCHANGED <<sockets, push, todo, alive, wake, age>>

ReadFrameMutant(c) ==
    /\ thread[c] = "read" /\ asked[c]
    /\ asked' = [asked EXCEPT ![c] = FALSE]
    /\ thread' = [thread EXCEPT ![c] = "reply"]
    /\ UNCHANGED <<peer, wire, clients, push, todo, alive, wake, age>>

(* read_client_frame: a command, or None once the client has closed.       *)
ReadFrame(c) ==
    /\ thread[c] = "read"
    /\ \/ /\ asked[c]
          /\ asked' = [asked EXCEPT ![c] = FALSE]
          /\ thread' = [thread EXCEPT ![c] = "reply"]
       \/ /\ peer[c] = "closed" /\ ~asked[c]
          /\ thread' = [thread EXCEPT ![c] = "leave"]
          /\ UNCHANGED asked
    /\ UNCHANGED <<peer, wire, clients, push, todo, alive, wake, age>>

(* write_all on the open socket of c: it goes on when there is room.       *)
Write(c) ==
    /\ peer[c] = "open" /\ wire[c] < Room
    /\ wire' = [wire EXCEPT ![c] = @ + 1]

(* The socket of a client that has closed takes a frame or reports it.     *)
WriteLost(c) ==
    /\ peer[c] = "closed"
    /\ UNCHANGED wire

(* handle_command's reply or a pong; a failed write is ignored.            *)
Reply(c) ==
    /\ thread[c] = "reply"
    /\ Write(c) \/ WriteLost(c)
    /\ thread' = [thread EXCEPT ![c] = "read"]
    /\ UNCHANGED <<peer, asked, clients, push, todo, alive, wake, age>>

(* retain.  No connection is in the list twice (ListedOnce).               *)
Without(seq, c) ==
    IF c \in Range(seq) THEN RemoveAt(seq, CHOOSE k \in DOMAIN seq: seq[k] = c) ELSE seq

LeaveMutant(c) ==
    /\ thread[c] = "leave"
    /\ clients' = Without(clients, c)
    /\ thread' = [thread EXCEPT ![c] = "off"]
    /\ peer' = [peer EXCEPT ![c] = "none"]
    /\ wire' = [wire EXCEPT ![c] = 0]
    /\ UNCHANGED <<asked, push, todo, alive, wake, age>>

Leave(c) ==
    /\ thread[c] = "leave" /\ Unlocked
    /\ clients' = Without(clients, c)
    /\ thread' = [thread EXCEPT ![c] = "off"]
    /\ peer' = [peer EXCEPT ![c] = "none"]
    /\ wire' = [wire EXCEPT ![c] = 0]
    /\ UNCHANGED <<asked, push, todo, alive, wake, age>>

-----------------------------------------------------------------------------
PushCheckMutant ==
    /\ push = "check" /\ wake = 0
    /\ IF clients = <<>> THEN wake' = Period /\ UNCHANGED push
                         ELSE push' = "lock" /\ UNCHANGED wake
    /\ age' = 0
    /\ UNCHANGED <<thread, sockets, clients, todo, alive>>

(* Without a client the thread sleeps and looks again.                     *)
PushCheck ==
    /\ push = "check" /\ wake = 0
    /\ \/ /\ clients = <<>>
          /\ wake' = Period
          /\ UNCHANGED <<push, age>>
       \/ /\ clients # <<>>
          /\ push' = "lock"
          /\ age' = 0
          /\ UNCHANGED wake
    /\ UNCHANGED <<thread, sockets, clients, todo, alive>>

(* build_snapshot is done: the list is taken out and its lock kept.        *)
PushLock ==
    /\ push = "lock"
    /\ push' = "write"
    /\ todo' = clients
    /\ clients' = <<>>
    /\ UNCHANGED <<thread, sockets, alive, wake, age>>

(* A client whose socket reports an error is dropped from the list.        *)
PushWrite ==
    /\ push = "write" /\ todo # <<>>
    /\ todo' = Tail(todo)
    /\ \/ /\ Write(Head(todo)) \/ WriteLost(Head(todo))
          /\ alive' = Append(alive, Head(todo))
       \/ /\ WriteLost(Head(todo))
          /\ UNCHANGED alive
    /\ UNCHANGED <<thread, peer, asked, clients, push, wake, age>>

PushDoneMutant ==
    /\ push = "write" /\ todo = <<>>
    /\ push' = "check"
    /\ wake' = Period
    /\ alive' = <<>>
    /\ age' = IF alive # <<>> THEN 0 ELSE age
    /\ UNCHANGED <<thread, sockets, clients, todo>>

PushDone ==
    /\ push = "write" /\ todo = <<>>
    /\ push' = "check"
    /\ wake' = Period
    /\ clients' = alive
    /\ alive' = <<>>
    /\ age' = IF alive # <<>> THEN 0 ELSE age
    /\ UNCHANGED <<thread, sockets, todo>>

(* The push thread waits in write_all for a client that does not read.     *)
PushWaits ==
    /\ push = "write" /\ todo # <<>>
    /\ LET c == Head(todo)
       IN c \in Stalled /\ peer[c] = "open" /\ wire[c] = Room

Tick ==
    /\ \/ wake > 0 /\ \A c \in Clients: thread[c] # "register"
       \/ PushWaits
    /\ wake' = IF wake > 0 THEN wake - 1 ELSE 0
    /\ age' = IF under_demand THEN age + 1 ELSE age
    /\ UNCHANGED <<thread, sockets, clients, push, todo, alive>>

-----------------------------------------------------------------------------
(* The client's end: it sends commands or pings, reads and closes.         *)
Ask(c) ==
    /\ peer[c] = "open" /\ ~asked[c]
    /\ asked' = [asked EXCEPT ![c] = TRUE]
    /\ UNCHANGED <<thread, peer, wire, clients, push, todo, alive, wake, age>>

Receive(c) ==
    /\ c \notin Stalled
    /\ peer[c] = "open" /\ wire[c] > 0
    /\ wire' = [wire EXCEPT ![c] = @ - 1]
    /\ UNCHANGED <<thread, peer, asked, clients, push, todo, alive, wake, age>>

Close(c) ==
    /\ peer[c] = "open"
    /\ peer' = [peer EXCEPT ![c] = "closed"]
    /\ UNCHANGED <<thread, asked, wire, clients, push, todo, alive, wake, age>>

Thread(c) == Register(c) \/ ReadFrame(c) \/ Reply(c) \/ Leave(c)
Push == PushCheck \/ PushLock \/ PushWrite \/ PushDone

Next ==
    \/ \E c \in Clients: Connect(c) \/ Thread(c) \/ Ask(c) \/ Receive(c) \/ Close(c)
    \/ Push
    \/ Tick

Spec == Init /\ [][Next]_vars

(* The scheduler runs the threads, clients that do not stall read, time    *)
(* passes.  The list's lock and the sockets are strong: a thread that      *)
(* waits for one gets it, although another may have it again and again.    *)
Fairness ==
    /\ \A c \in Clients: SF_vars(Register(c)) /\ SF_vars(Leave(c)) /\ SF_vars(Reply(c))
    /\ \A c \in Clients: WF_vars(ReadFrame(c)) /\ WF_vars(Receive(c))
    /\ SF_vars(Push) /\ SF_vars(Tick)

FairSpec == Spec /\ Fairness

-----------------------------------------------------------------------------
(* Type invariant of serve's threads and of the sockets, which never hold  *)
(* more than they have room for.                                           *)
TypeOK ==
    /\ thread \in [Clients -> {"off", "register", "read", "reply", "leave"}]
    /\ peer \in [Clients -> {"none", "open", "closed"}]
    /\ asked \in [Clients -> BOOLEAN]
    /\ wire \in [Clients -> 0 .. Room]
    /\ clients \in Seq(Clients) /\ todo \in Seq(Clients) /\ alive \in Seq(Clients)
    /\ push \in {"check", "lock", "write"}
    /\ wake \in 0 .. Period
    /\ age \in 0 .. Grace

(* A connection whose thread has ended is in nobody's hands any more, and  *)
(* no connection is listed twice: the list is drained and put back under   *)
(* its lock, which Register and Leave take.                                *)
ListedOnce ==
    /\ \A c \in Clients: thread[c] \in {"off", "register"} => c \notin Attached
    /\ IsInjective(todo \o alive \o clients)

AttachedIsDemand == Attached # {} => under_demand

(* under_demand: demand holds whenever a client is attached, also between  *)
(* its connection and its first document, unless a client that does not    *)
(* read has ever made the push thread of serve wait.                       *)
DemandUnlessStuck == []~PushWaits => []AttachedIsDemand

Stays(c) == <>[](thread[c] \in {"read", "reply"} /\ peer[c] = "open")
Pushed(c) == c \notin Range(alive) /\ c \in Range(alive')

(* The push thread of serve writes one document after the other to every   *)
(* client that stays, whatever the other clients do.                       *)
EveryClientServed ==
    \A c \in Clients: Stays(c) => []<><<Pushed(c)>>_vars

(* A client that stops reading may hold the push thread; unless one holds  *)
(* it for ever, every other client is served, also after it has gone.      *)
ServedUnlessStuck == []<>~PushWaits => EveryClientServed

(* Once the last client is gone for good, under_demand parks the           *)
(* collectors.                                                             *)
UnwatchedIsParked ==
    <>[](\A c \in Clients: thread[c] = "off") => <>[]~under_demand

(* A client that has closed does not keep its connection thread or its     *)
(* place in the list of serve, unless the push thread is held for ever.    *)
ClosedIsForgotten ==
    []<>~PushWaits =>
        \A c \in Clients: peer[c] = "closed" ~> peer[c] # "closed" /\ c \notin Attached

=============================================================================
