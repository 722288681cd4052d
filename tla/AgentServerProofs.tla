------------------------- MODULE AgentServerProofs -------------------------
(***************************************************************************)
(* Proofs about AgentServer for any clients, of which any may stop         *)
(* reading, and any push interval: the shared list loses and doubles       *)
(* nobody, and demand holds as long as nobody is stuck.                    *)
(***************************************************************************)
EXTENDS AgentServer, SequenceTheorems, TLAPS

-----------------------------------------------------------------------------
(* Sequences without repetition, and what the list's operations do to one. *)

(* Positions in place of the library's IsInjective and Range.              *)
LEMMA OnceDef ==
  ASSUME NEW S, NEW s \in Seq(S)
  PROVE  /\ IsInjective(s) <=> \A a, b \in 1..Len(s): s[a] = s[b] => a = b
         /\ \A e: e \in Range(s) <=> \E k \in 1..Len(s): s[k] = e
         /\ Range(s) \subseteq S
<1>1. DOMAIN s = 1..Len(s) /\ \A k \in 1..Len(s): s[k] \in S
  BY LenProperties, ElementOfSeq
<1> QED BY <1>1 DEF IsInjective, Range

(* The push thread takes the first one.                                    *)
LEMMA TailOnce ==
  ASSUME NEW S, NEW s \in Seq(S), s # <<>>, IsInjective(s)
  PROVE  /\ Tail(s) \in Seq(S) /\ IsInjective(Tail(s))
         /\ Head(s) \in Range(s) /\ Head(s) \in S
         /\ Range(Tail(s)) = Range(s) \ {Head(s)}
<1> DEFINE n == Len(s)
           r == Tail(s)
           h == Head(s)
<1>1. n \in Nat \ {0} /\ r \in Seq(S) /\ Len(r) = n - 1 /\ h = s[1] /\ h \in S
      /\ \A k \in 1..Len(Tail(s)): r[k] = s[k + 1]
  BY EmptySeq, HeadTailProperties
<1>2. \A k \in 1..n - 1: r[k] = s[k + 1]
  BY <1>1
<1> HIDE DEF n, r, h
<1>3. /\ \A a, b \in 1..n: s[a] = s[b] => a = b
      /\ \A e: e \in Range(s) <=> \E k \in 1..n: s[k] = e
  BY OnceDef DEF n
<1>4. /\ IsInjective(r) <=> \A a, b \in 1..n - 1: r[a] = r[b] => a = b
      /\ \A e: e \in Range(r) <=> \E k \in 1..n - 1: r[k] = e
  <2>1. r \in Seq(S) /\ Len(r) = n - 1
    BY <1>1
  <2>2. /\ IsInjective(r) <=> \A a, b \in 1..Len(r): r[a] = r[b] => a = b
        /\ \A e: e \in Range(r) <=> \E k \in 1..Len(r): r[k] = e
    BY <2>1, OnceDef
  <2> QED BY <2>1, <2>2
<1>5. IsInjective(r)
  <2>1. \A a \in 1..n - 1: a + 1 \in 1..n
    BY <1>1
  <2> QED BY <1>1, <1>2, <1>3, <1>4, <2>1
<1>6. h \in Range(s)
  BY <1>1, <1>3
<1>7. ASSUME NEW e
      PROVE  e \in Range(r) <=> e \in Range(s) /\ e # h
  <2>1. ASSUME NEW k \in 1..n - 1, r[k] = e
        PROVE  e \in Range(s) /\ e # h
    <3>1. k + 1 \in 1..n /\ 1 \in 1..n /\ k + 1 # 1
      BY <1>1
    <3>2. s[k + 1] = e
      BY <1>2, <2>1
    <3> QED BY <1>1, <1>3, <3>1, <3>2
  <2>2. ASSUME NEW k \in 1..n, s[k] = e, e # h
        PROVE  \E a \in 1..n - 1: r[a] = e
    <3>1. k - 1 \in 1..n - 1 /\ (k - 1) + 1 = k
      BY <1>1, <2>2
    <3> QED BY <1>2, <2>2, <3>1
  <2> QED BY <1>3, <1>4, <2>1, <2>2
<1> QED BY <1>1, <1>5, <1>6, <1>7 DEF r, h

(* A connection registers, or has been written to.                         *)
LEMMA AppendOnce ==
  ASSUME NEW S, NEW s \in Seq(S), IsInjective(s), NEW e \in S, e \notin Range(s)
  PROVE  /\ Append(s, e) \in Seq(S) /\ IsInjective(Append(s, e))
         /\ Range(Append(s, e)) = Range(s) \union {e}
<1> DEFINE n == Len(s)
           r == Append(s, e)
<1>1. /\ n \in Nat /\ r \in Seq(S) /\ Len(r) = n + 1
      /\ \A k \in 1..n: r[k] = s[k]
      /\ r[n + 1] = e
  BY LenProperties, AppendProperties
<1> HIDE DEF n, r
<1>2. /\ \A a, b \in 1..n: s[a] = s[b] => a = b
      /\ \A x: x \in Range(s) <=> \E k \in 1..n: s[k] = x
  BY OnceDef DEF n
<1>3. /\ IsInjective(r) <=> \A a, b \in 1..n + 1: r[a] = r[b] => a = b
      /\ \A x: x \in Range(r) <=> \E k \in 1..n + 1: r[k] = x
  <2>1. r \in Seq(S) /\ Len(r) = n + 1
    BY <1>1
  <2>2. /\ IsInjective(r) <=> \A a, b \in 1..Len(r): r[a] = r[b] => a = b
        /\ \A x: x \in Range(r) <=> \E k \in 1..Len(r): r[k] = x
    BY <2>1, OnceDef
  <2> QED BY <2>1, <2>2
<1>4. IsInjective(r)
  <2>1. \A k \in 1..n: r[k] # e
    BY <1>1, <1>2
  <2>2. \A k \in 1..n + 1: k \in 1..n \/ k = n + 1
    BY <1>1
  <2> QED BY <1>1, <1>2, <1>3, <2>1, <2>2
<1>5. ASSUME NEW x
      PROVE  x \in Range(r) <=> x \in Range(s) \/ x = e
  <2>1. \A k \in 1..n + 1: k \in 1..n \/ k = n + 1
    BY <1>1
  <2>2. 1..n \subseteq 1..n + 1 /\ n + 1 \in 1..n + 1
    BY <1>1
  <2> QED BY <1>1, <1>2, <1>3, <2>1, <2>2
<1> QED BY <1>1, <1>4, <1>5 DEF r

(* A connection leaves.                                                    *)
LEMMA WithoutOnce ==
  ASSUME NEW S, NEW s \in Seq(S), IsInjective(s), NEW c
  PROVE  /\ Without(s, c) \in Seq(S) /\ IsInjective(Without(s, c))
         /\ Range(Without(s, c)) = Range(s) \ {c}
<1>1. CASE c \notin Range(s)
  BY <1>1 DEF Without
<1>2. CASE c \in Range(s)
  <2>1. PICK k \in 1..Len(s): s[k] = c /\ Without(s, c) = RemoveAt(s, k)
    <3>1. \E k \in DOMAIN s: s[k] = c
      BY <1>2 DEF Range
    <3> QED BY <1>2, <3>1, LenProperties DEF Without
  <2> DEFINE front == SubSeq(s, 1, k - 1)
             back == SubSeq(s, k + 1, Len(s))
             n == Len(s)
  <2>2. n \in Nat /\ \A a \in 1..n: s[a] \in S
    BY LenProperties, ElementOfSeq
  <2>3. front \in Seq(S) /\ Len(front) = k - 1 /\ \A a \in 1..k - 1: front[a] = s[a]
    BY <2>2, SubSeqProperties
  <2>4. back \in Seq(S) /\ Len(back) = n - k /\ \A a \in 1..n - k: back[a] = s[k + a]
    BY <2>2, SubSeqProperties
  <2> HIDE DEF front, back
  <2>5. /\ front \o back \in Seq(S) /\ Len(front \o back) = n - 1
        /\ \A a \in 1..n - 1: (front \o back)[a] = IF a < k THEN s[a] ELSE s[a + 1]
    <3>1. /\ front \o back \in Seq(S) /\ Len(front \o back) = Len(front) + Len(back)
          /\ \A a \in 1..Len(front) + Len(back):
                (front \o back)[a] = IF a <= Len(front) THEN front[a] ELSE back[a - Len(front)]
      BY <2>3, <2>4, ConcatProperties
    <3>2. k \in 1..n /\ Len(front) + Len(back) = n - 1
      BY <2>2, <2>3, <2>4
    <3>3. ASSUME NEW a \in 1..n - 1
          PROVE  (front \o back)[a] = IF a < k THEN s[a] ELSE s[a + 1]
      <4>1. CASE a < k
        <5>1. a <= Len(front) /\ a \in 1..k - 1
          BY <2>2, <2>3, <3>2, <4>1
        <5> QED BY <2>3, <3>1, <3>2, <4>1, <5>1
      <4>2. CASE ~(a < k)
        <5>1. ~(a <= Len(front)) /\ a - Len(front) \in 1..n - k /\ k + (a - Len(front)) = a + 1
          BY <2>2, <2>3, <3>2, <4>2
        <5> QED BY <2>4, <3>1, <3>2, <4>2, <5>1
      <4> QED BY <4>1, <4>2
    <3> QED BY <3>1, <3>2, <3>3
  <2>6. RemoveAt(s, k) = front \o back
    BY DEF RemoveAt, front, back
  <2> DEFINE r == Without(s, c)
  <2>7. /\ r \in Seq(S) /\ Len(r) = n - 1
        /\ \A a \in 1..n - 1: r[a] = IF a < k THEN s[a] ELSE s[a + 1]
    BY <2>1, <2>5, <2>6
  <2> HIDE DEF r
  <2>8. \A a, b \in 1..n: s[a] = s[b] => a = b
    BY OnceDef
  <2>9. IsInjective(r)
    <3>1. IsInjective(r) <=> \A a, b \in 1..n - 1: r[a] = r[b] => a = b
      BY <2>7, OnceDef
    <3>2. \A a \in 1..n - 1: a \in 1..n /\ a + 1 \in 1..n
      BY <2>2
    <3> QED BY <2>2, <2>7, <2>8, <3>1, <3>2
  <2>10. ASSUME NEW x
         PROVE  x \in Range(r) <=> x \in Range(s) /\ x # c
    <3>1. x \in Range(r) <=> \E a \in 1..n - 1: r[a] = x
      BY <2>7, OnceDef
    <3>2. x \in Range(s) <=> \E a \in 1..n: s[a] = x
      BY OnceDef
    <3>3. ASSUME NEW a \in 1..n - 1, r[a] = x
          PROVE  x \in Range(s) /\ x # c
      BY <2>1, <2>2, <2>7, <2>8, <3>2, <3>3
    <3>4. ASSUME NEW a \in 1..n, s[a] = x, x # c
          PROVE  \E b \in 1..n - 1: r[b] = x
      <4>1. CASE a < k
        BY <2>2, <2>7, <3>4, <4>1
      <4>2. CASE a > k
        <5>1. a - 1 \in 1..n - 1 /\ ~(a - 1 < k) /\ r[a - 1] = x
          BY <2>2, <2>7, <3>4, <4>2
        <5> QED BY <5>1
      <4> QED BY <2>1, <2>2, <3>4, <4>1, <4>2
    <3> QED BY <3>1, <3>2, <3>3, <3>4
  <2> QED BY <2>7, <2>9, <2>10 DEF r
<1> QED BY <1>1, <1>2

(* Three lists are one without repetition.                                 *)
LEMMA ConcatOnce ==
  ASSUME NEW S, NEW s \in Seq(S), NEW t \in Seq(S), IsInjective(s), IsInjective(t),
         Range(s) \intersect Range(t) = {}
  PROVE  s \o t \in Seq(S) /\ IsInjective(s \o t) /\ Range(s \o t) = Range(s) \union Range(t)
<1>1. /\ s \o t \in Seq(S) /\ Len(s \o t) = Len(s) + Len(t)
      /\ \A k \in 1..Len(s) + Len(t): (s \o t)[k] = IF k <= Len(s) THEN s[k] ELSE t[k - Len(s)]
      /\ Len(s) \in Nat /\ Len(t) \in Nat
  BY ConcatProperties, LenProperties
<1>2. \A a \in 1..Len(s), b \in 1..Len(t): s[a] # t[b]
  BY OnceDef
<1>3. /\ \A a, b \in 1..Len(s): s[a] = s[b] => a = b
      /\ \A a, b \in 1..Len(t): t[a] = t[b] => a = b
  BY OnceDef
<1>4. \A a, b \in 1..Len(s) + Len(t): (s \o t)[a] = (s \o t)[b] => a = b
  <2> SUFFICES ASSUME NEW a \in 1..Len(s) + Len(t), NEW b \in 1..Len(s) + Len(t),
                      (s \o t)[a] = (s \o t)[b]
               PROVE  a = b
    OBVIOUS
  <2>1. a > Len(s) => a - Len(s) \in 1..Len(t)
    BY <1>1
  <2>2. b > Len(s) => b - Len(s) \in 1..Len(t)
    BY <1>1
  <2> QED BY <1>1, <1>2, <1>3, <2>1, <2>2
<1>5. Range(s \o t) = Range(s) \union Range(t)
  BY RangeConcatenation
<1> QED BY <1>1, <1>4, <1>5, OnceDef

LEMMA EmptyOnce == Range(<<>>) = {} /\ IsInjective(<<>>)
<1>1. DOMAIN <<>> = {}
  OBVIOUS
<1> QED BY <1>1 DEF Range, IsInjective

-----------------------------------------------------------------------------
(* ListedOnce as the three lists carry it, and when which of them is empty:*)
(* the push thread has drained the list while it holds its lock, and put   *)
(* everything back when it lets go.                                        *)
Lists ==
    /\ IsInjective(clients) /\ IsInjective(todo) /\ IsInjective(alive)
    /\ Range(todo) \intersect Range(alive) = {}
    /\ push = "write" => clients = <<>>
    /\ push # "write" => todo = <<>> /\ alive = <<>>
    /\ \A c \in Clients: thread[c] \in {"off", "register"} => c \notin Attached

Inv == TypeOK /\ Lists

(* A step that leaves the lists alone and disconnects nobody.              *)
LEMMA ListsStay ==
  ASSUME Lists, UNCHANGED <<clients, push, todo, alive>>,
         \A c \in Clients: thread'[c] \in {"off", "register"} => thread[c] \in {"off", "register"}
  PROVE  Lists'
<1>1. Attached' = Attached
  BY DEF Attached
<1> QED BY <1>1 DEF Lists

LEMMA InvInit == Init => Inv
<1> SUFFICES ASSUME Init PROVE Inv
  OBVIOUS
<1>1. <<>> \in Seq(Clients)
  BY EmptySeq
<1>2. 0 \in 0 .. Room /\ 0 \in 0 .. Period /\ Grace \in 0 .. Grace
  BY ServerAssumption
<1>3. TypeOK
  BY <1>1, <1>2 DEF Init, TypeOK
<1>4. Attached = {}
  BY EmptyOnce DEF Init, Attached
<1>5. Lists
  BY <1>4, EmptyOnce DEF Init, Lists
<1> QED BY <1>3, <1>5 DEF Inv

LEMMA ConnectInv ==
  ASSUME Inv, NEW c \in Clients, Connect(c)
  PROVE  Inv'
<1>1. 0 \in 0 .. Grace
  BY ServerAssumption
<1>2. TypeOK'
  BY <1>1 DEF Inv, TypeOK, Connect
<1>3. Lists'
  BY ListsStay DEF Inv, TypeOK, Connect
<1> QED BY <1>2, <1>3 DEF Inv

(* The list is unlocked, so it holds all who are attached.                 *)
LEMMA RegisterInv ==
  ASSUME Inv, NEW c \in Clients, Register(c)
  PROVE  Inv'
<1>1. /\ thread' = [thread EXCEPT ![c] = "read"] /\ clients' = Append(clients, c)
      /\ UNCHANGED <<peer, asked, wire, push, todo, alive, wake, age>>
      /\ todo = <<>> /\ alive = <<>> /\ c \notin Range(clients) /\ push # "write"
  BY DEF Register, sockets, Unlocked, Inv, Lists, Attached
<1>2. /\ clients' \in Seq(Clients) /\ IsInjective(clients')
      /\ Range(clients') = Range(clients) \union {c}
  BY <1>1, AppendOnce DEF Inv, TypeOK, Lists
<1>3. TypeOK'
  BY <1>1, <1>2 DEF Inv, TypeOK
<1>4. Attached' = Range(clients) \union {c} /\ Attached = Range(clients)
  BY <1>1, <1>2, EmptyOnce DEF Attached
<1>5. \A d \in Clients: thread'[d] \in {"off", "register"} => d \notin Attached'
  BY <1>1, <1>4 DEF Inv, TypeOK, Lists
<1> QED BY <1>1, <1>2, <1>3, <1>5, EmptyOnce DEF Inv, Lists

LEMMA ReadInv ==
  ASSUME Inv, NEW c \in Clients, ReadFrame(c) \/ Reply(c)
  PROVE  Inv'
<1>1. TypeOK'
  <2>1. CASE ReadFrame(c)
    BY <2>1 DEF Inv, TypeOK, ReadFrame
  <2>2. CASE Reply(c)
    <3>1. /\ wire' = wire \/ (wire[c] < Room /\ wire' = [wire EXCEPT ![c] = @ + 1])
          /\ thread' = [thread EXCEPT ![c] = "read"]
          /\ UNCHANGED <<peer, asked, clients, push, todo, alive, wake, age>>
      BY <2>2 DEF Reply, Write, WriteLost
    <3>2. wire[c] < Room => wire[c] + 1 \in 0 .. Room
      BY ServerAssumption DEF Inv, TypeOK
    <3>3. wire' \in [Clients -> 0 .. Room]
      BY <3>1, <3>2 DEF Inv, TypeOK
    <3> QED BY <3>1, <3>3 DEF Inv, TypeOK
  <2> QED BY <2>1, <2>2
<1>2. UNCHANGED <<clients, push, todo, alive>>
  BY DEF ReadFrame, Reply
<1>3. \A d \in Clients: thread'[d] \in {"off", "register"} => thread[d] \in {"off", "register"}
  BY DEF ReadFrame, Reply, Inv, TypeOK
<1>4. Lists'
  BY <1>2, <1>3, ListsStay DEF Inv
<1> QED BY <1>1, <1>4 DEF Inv

LEMMA LeaveInv ==
  ASSUME Inv, NEW c \in Clients, Leave(c)
  PROVE  Inv'
<1>1. /\ thread' = [thread EXCEPT ![c] = "off"] /\ clients' = Without(clients, c)
      /\ peer' = [peer EXCEPT ![c] = "none"] /\ wire' = [wire EXCEPT ![c] = 0]
      /\ UNCHANGED <<asked, push, todo, alive, wake, age>>
      /\ todo = <<>> /\ alive = <<>> /\ push # "write"
  BY DEF Leave, Unlocked, Inv, Lists
<1>2. /\ clients' \in Seq(Clients) /\ IsInjective(clients')
      /\ Range(clients') = Range(clients) \ {c}
  BY <1>1, WithoutOnce DEF Inv, TypeOK, Lists
<1>3. TypeOK'
  <2>1. 0 \in 0 .. Room
    BY ServerAssumption
  <2> QED BY <1>1, <1>2, <2>1 DEF Inv, TypeOK
<1>4. Attached' = Attached \ {c}
  BY <1>1, <1>2, EmptyOnce DEF Attached
<1>5. \A d \in Clients: thread'[d] \in {"off", "register"} => d \notin Attached'
  BY <1>1, <1>4 DEF Inv, TypeOK, Lists
<1> QED BY <1>1, <1>2, <1>3, <1>5, EmptyOnce DEF Inv, Lists

-----------------------------------------------------------------------------
LEMMA PushCheckInv == Inv /\ PushCheck => Inv'
<1> SUFFICES ASSUME Inv, PushCheck PROVE Inv'
  OBVIOUS
<1>1. TypeOK'
  <2>1. 0 \in 0 .. Grace /\ Period \in 0 .. Period
    BY ServerAssumption
  <2> QED BY <2>1 DEF Inv, TypeOK, PushCheck, sockets
<1>2. Attached' = Attached /\ push # "write" /\ push' # "write"
  BY DEF PushCheck, Attached
<1>3. Lists'
  BY <1>2 DEF Inv, Lists, PushCheck
<1> QED BY <1>1, <1>3 DEF Inv

(* The lock is taken: whoever was listed is still to be written to.        *)
LEMMA PushLockInv == Inv /\ PushLock => Inv'
<1> SUFFICES ASSUME Inv, PushLock PROVE Inv'
  OBVIOUS
<1>1. /\ push' = "write" /\ todo' = clients /\ clients' = <<>> /\ alive' = <<>>
      /\ todo = <<>> /\ alive = <<>> /\ UNCHANGED <<thread, peer, asked, wire, wake, age>>
  BY DEF PushLock, sockets, Inv, Lists
<1>2. TypeOK'
  BY <1>1, EmptySeq DEF Inv, TypeOK
<1>3. Attached' = Attached
  BY <1>1, EmptyOnce DEF Attached
<1> QED BY <1>1, <1>2, <1>3, EmptyOnce DEF Inv, Lists

(* A client written to goes from one list to the other, or out of both.    *)
LEMMA PushWriteInv == Inv /\ PushWrite => Inv'
<1> SUFFICES ASSUME Inv, PushWrite PROVE Inv'
  OBVIOUS
<1> DEFINE h == Head(todo)
<1>1. /\ push = "write" /\ todo # <<>> /\ todo' = Tail(todo)
      /\ alive' = Append(alive, h) \/ alive' = alive
      /\ wire' = wire \/ (wire[h] < Room /\ wire' = [wire EXCEPT ![h] = @ + 1])
      /\ UNCHANGED <<thread, peer, asked, clients, push, wake, age>>
  BY DEF PushWrite, Write, WriteLost
<1>2. /\ todo' \in Seq(Clients) /\ IsInjective(todo')
      /\ h \in Range(todo) /\ h \in Clients
      /\ Range(todo') = Range(todo) \ {h}
  BY <1>1, TailOnce DEF Inv, TypeOK, Lists
<1>3. h \notin Range(alive)
  BY <1>2 DEF Inv, Lists
<1> HIDE DEF h
<1>4. /\ alive' \in Seq(Clients) /\ IsInjective(alive')
      /\ Range(alive') \subseteq Range(alive) \union {h}
  <2>1. alive \in Seq(Clients) /\ IsInjective(alive)
    BY DEF Inv, TypeOK, Lists
  <2>2. CASE alive' = Append(alive, h)
    BY <1>2, <1>3, <2>1, <2>2, AppendOnce
  <2>3. CASE alive' = alive
    BY <2>1, <2>3
  <2> QED BY <1>1, <2>2, <2>3
<1>5. TypeOK'
  <2>1. wire[h] < Room => wire[h] + 1 \in 0 .. Room
    BY <1>2, ServerAssumption DEF Inv, TypeOK
  <2>2. wire' \in [Clients -> 0 .. Room]
    BY <1>1, <1>2, <2>1 DEF Inv, TypeOK
  <2> QED BY <1>1, <1>2, <1>4, <2>2 DEF Inv, TypeOK
<1>6. Attached' \subseteq Attached /\ Range(todo') \intersect Range(alive') = {}
  BY <1>1, <1>2, <1>4 DEF Attached, Inv, Lists
<1> QED BY <1>1, <1>2, <1>4, <1>5, <1>6 DEF Inv, Lists

(* Those who are alive are the list again.                                 *)
LEMMA PushDoneInv == Inv /\ PushDone => Inv'
<1> SUFFICES ASSUME Inv, PushDone PROVE Inv'
  OBVIOUS
<1>1. /\ push' = "check" /\ todo' = <<>> /\ clients' = alive /\ alive' = <<>>
      /\ todo = <<>> /\ clients = <<>> /\ wake' = Period /\ age' \in {0, age}
      /\ UNCHANGED <<thread, peer, asked, wire>>
  BY DEF PushDone, sockets, Inv, Lists
<1>2. TypeOK'
  <2>1. 0 \in 0 .. Grace /\ Period \in 0 .. Period
    BY ServerAssumption
  <2> QED BY <1>1, <2>1, EmptySeq DEF Inv, TypeOK
<1>3. Attached' = Attached
  BY <1>1, EmptyOnce DEF Attached
<1> QED BY <1>1, <1>2, <1>3, EmptyOnce DEF Inv, Lists

LEMMA TickInv == Inv /\ Tick => Inv'
<1> SUFFICES ASSUME Inv, Tick PROVE Inv'
  OBVIOUS
<1>1. /\ wake' = IF wake > 0 THEN wake - 1 ELSE 0
      /\ age' = IF age < Grace THEN age + 1 ELSE age
      /\ UNCHANGED <<thread, peer, asked, wire, clients, push, todo, alive>>
  BY DEF Tick, sockets, under_demand
<1>2. wake' \in 0 .. Period /\ age' \in 0 .. Grace
  BY <1>1, ServerAssumption DEF Inv, TypeOK
<1>3. TypeOK'
  BY <1>1, <1>2 DEF Inv, TypeOK
<1>4. Lists'
  BY <1>1, ListsStay DEF Inv
<1> QED BY <1>3, <1>4 DEF Inv

LEMMA ClientInv ==
  ASSUME Inv, NEW c \in Clients, Ask(c) \/ Receive(c) \/ Close(c)
  PROVE  Inv'
<1>1. TypeOK'
  <2>1. CASE Ask(c)
    BY <2>1 DEF Inv, TypeOK, Ask
  <2>2. CASE Receive(c)
    <3>1. wire[c] - 1 \in 0 .. Room
      BY <2>2, ServerAssumption DEF Inv, TypeOK, Receive
    <3> QED BY <2>2, <3>1 DEF Inv, TypeOK, Receive
  <2>3. CASE Close(c)
    BY <2>3 DEF Inv, TypeOK, Close
  <2> QED BY <2>1, <2>2, <2>3
<1>2. UNCHANGED <<thread, clients, push, todo, alive>>
  BY DEF Ask, Receive, Close
<1>3. Lists'
  BY <1>2, ListsStay DEF Inv
<1> QED BY <1>1, <1>3 DEF Inv

LEMMA InvNext == Inv /\ [Next]_vars => Inv'
<1> SUFFICES ASSUME Inv, [Next]_vars PROVE Inv'
  OBVIOUS
<1>1. CASE \E c \in Clients: Connect(c)
  BY <1>1, ConnectInv
<1>2. CASE \E c \in Clients: Thread(c)
  BY <1>2, RegisterInv, ReadInv, LeaveInv DEF Thread
<1>3. CASE \E c \in Clients: Ask(c) \/ Receive(c) \/ Close(c)
  BY <1>3, ClientInv
<1>4. CASE Push
  BY <1>4, PushCheckInv, PushLockInv, PushWriteInv, PushDoneInv DEF Push
<1>5. CASE Tick
  BY <1>5, TickInv
<1>6. CASE UNCHANGED vars
  <2>1. TypeOK'
    BY <1>6 DEF vars, Inv, TypeOK
  <2>2. Lists'
    BY <1>6, ListsStay DEF vars, Inv
  <2> QED BY <2>1, <2>2 DEF Inv
<1> QED BY <1>1, <1>2, <1>3, <1>4, <1>5, <1>6 DEF Next

LEMMA InvHolds == Spec => []Inv
<1> QED BY InvInit, InvNext, PTL DEF Spec

(* The threads of serve keep their types, and no socket holds more frames  *)
(* than it has room for, however many clients there are.                   *)
THEOREM TypeCorrect == Spec => []TypeOK
<1>1. Inv => TypeOK
  BY DEF Inv
<1> QED BY InvHolds, <1>1, PTL

(* serve: no client is listed twice or kept after its thread has ended,    *)
(* while the list is drained, written to and put back by the push thread.  *)
THEOREM NobodyListedTwice == Spec => []ListedOnce
<1>1. ASSUME Inv PROVE ListedOnce
  <2>1. /\ todo \in Seq(Clients) /\ alive \in Seq(Clients) /\ clients \in Seq(Clients)
        /\ IsInjective(clients) /\ IsInjective(todo) /\ IsInjective(alive)
        /\ Range(todo) \intersect Range(alive) = {}
    BY <1>1 DEF Inv, TypeOK, Lists
  <2>2. (Range(todo) \union Range(alive)) \intersect Range(clients) = {}
    BY <1>1, EmptyOnce DEF Inv, Lists
  <2>3. /\ todo \o alive \in Seq(Clients) /\ IsInjective(todo \o alive)
        /\ Range(todo \o alive) = Range(todo) \union Range(alive)
    BY <2>1, ConcatOnce
  <2>4. IsInjective(todo \o alive \o clients)
    BY <2>1, <2>2, <2>3, ConcatOnce
  <2> QED BY <1>1, <2>4 DEF ListedOnce, Inv, Lists
<1> QED BY InvHolds, <1>1, PTL

-----------------------------------------------------------------------------
(* The clock of the demand while nobody makes the push thread wait: it     *)
(* stands at the start while a connection is being made and while a        *)
(* document is pushed, and runs no longer than the push thread sleeps.     *)
DemandInv ==
    /\ \A c \in Clients: thread[c] = "register" => age = 0
    /\ push # "check" => age = 0 /\ wake = 0
    /\ push = "check" /\ clients # <<>> => age + wake <= Period

LEMMA DemandNext ==
  ASSUME Inv, DemandInv, [Next]_vars, ~PushWaits
  PROVE  DemandInv'
<1>1. /\ age \in Nat /\ wake \in Nat /\ wake <= Period /\ Period \in Nat /\ Grace \in Nat
      /\ thread \in [Clients -> {"off", "register", "read", "reply", "leave"}]
  BY ServerAssumption DEF Inv, TypeOK
<1>2. CASE \E c \in Clients: Connect(c)
  BY <1>1, <1>2 DEF Connect, DemandInv
<1>3. CASE \E c \in Clients: Register(c)
  <2>1. PICK c \in Clients: Register(c)
    BY <1>3
  <2>2. age = 0 /\ age' = 0 /\ wake' = wake /\ push' = push
    BY <2>1 DEF Register, DemandInv
  <2> QED BY <1>1, <2>2 DEF DemandInv
<1>4. CASE \E c \in Clients: ReadFrame(c) \/ Reply(c)
  <2>1. UNCHANGED <<clients, push, wake, age>>
    BY <1>4 DEF ReadFrame, Reply
  <2>2. \A d \in Clients: thread'[d] = "register" => thread[d] = "register"
    BY <1>1, <1>4 DEF ReadFrame, Reply
  <2> QED BY <2>1, <2>2 DEF DemandInv
<1>5. CASE \E c \in Clients: Leave(c)
  <2>1. PICK c \in Clients: Leave(c)
    BY <1>5
  <2>2. UNCHANGED <<push, wake, age>> /\ (clients' # <<>> => clients # <<>>)
    <3>1. clients = <<>> => c \notin Range(clients)
      BY EmptyOnce
    <3> QED BY <2>1, <3>1 DEF Leave, Without
  <2>3. \A d \in Clients: thread'[d] = "register" => thread[d] = "register"
    BY <1>1, <2>1 DEF Leave
  <2> QED BY <2>2, <2>3 DEF DemandInv
<1>6. CASE \E c \in Clients: Ask(c) \/ Receive(c) \/ Close(c)
  <2>1. UNCHANGED <<thread, clients, push, wake, age>>
    BY <1>6 DEF Ask, Receive, Close
  <2> QED BY <2>1 DEF DemandInv
<1>7. CASE PushCheck
  BY <1>7 DEF PushCheck, DemandInv
<1>8. CASE PushLock
  BY <1>8 DEF PushLock, DemandInv
<1>9. CASE PushWrite
  BY <1>9 DEF PushWrite, DemandInv
<1>10. CASE PushDone
  <2>1. /\ thread' = thread /\ push' = "check" /\ clients' = alive /\ wake' = Period
        /\ age' = IF alive # <<>> THEN 0 ELSE age
    BY <1>10 DEF PushDone
  <2> QED BY <1>1, <2>1 DEF DemandInv
<1>11. CASE Tick
  <2>1. /\ wake > 0 /\ wake' = wake - 1 /\ age' \in {age, age + 1}
        /\ \A c \in Clients: thread[c] # "register"
        /\ UNCHANGED <<thread, clients, push>>
    BY <1>1, <1>11 DEF Tick, under_demand
  <2>2. push = "check" /\ \A c \in Clients: thread'[c] # "register"
    BY <2>1 DEF DemandInv
  <2>3. ASSUME clients # <<>> PROVE age' + wake' <= Period
    <3>1. age + wake <= Period
      BY <2>2, <2>3 DEF DemandInv
    <3>2. age' = age \/ age' = age + 1
      BY <2>1
    <3>3. age \in Nat /\ wake \in Nat /\ Period \in Nat /\ wake' = wake - 1
      BY <1>1, <2>1
    <3> QED BY <3>1, <3>2, <3>3
  <2> QED BY <2>1, <2>2, <2>3 DEF DemandInv
<1>12. CASE UNCHANGED vars
  BY <1>12 DEF vars, DemandInv
<1> QED BY <1>2, <1>3, <1>4, <1>5, <1>6, <1>7, <1>8, <1>9, <1>10, <1>11, <1>12
        DEF Next, Push, Thread

(* under_demand: with an interval shorter than DEMAND_GRACE_MS demand      *)
(* holds whenever a client is attached, for any number of clients that     *)
(* connect, ask and leave, unless one of them makes the push thread wait.  *)
THEOREM DemandHolds ==
  ASSUME Period < Grace
  PROVE  Spec => DemandUnlessStuck
<1>1. Init => DemandInv
  BY DEF Init, DemandInv
<1>2. Inv /\ DemandInv /\ [Next]_vars /\ ~PushWaits => DemandInv'
  BY DemandNext
<1>3. Inv /\ DemandInv => AttachedIsDemand
  <2> SUFFICES ASSUME Inv, DemandInv, Attached # {} PROVE age < Grace
    BY DEF AttachedIsDemand, under_demand
  <2>1. age \in Nat /\ wake \in Nat /\ Period \in Nat /\ Grace \in Nat /\ Grace > 0
    BY ServerAssumption DEF Inv, TypeOK
  <2>2. CASE push = "check"
    <3>1. clients # <<>>
      BY <2>2, EmptyOnce DEF Inv, Lists, Attached
    <3> QED BY <2>1, <2>2, <3>1 DEF DemandInv
  <2>3. CASE push # "check"
    BY <2>1, <2>3 DEF DemandInv
  <2> QED BY <2>2, <2>3
<1> QED BY InvHolds, <1>1, <1>2, <1>3, PTL DEF Spec, DemandUnlessStuck
=============================================================================
