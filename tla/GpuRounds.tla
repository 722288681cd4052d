----------------------------- MODULE GpuRounds -----------------------------
(***************************************************************************)
(* The NVIDIA reader of the Rust node agent (agent/rust/src/main.rs,       *)
(* nvidia_loop): one long-running nvidia-smi prints the cards back to back *)
(* with no separator, the reader cuts the stream into rounds by counting   *)
(* and publishes each round.  The reader runs only while a client wants    *)
(* values; nvidia-smi may end, and a line may not parse.                   *)
(***************************************************************************)
EXTENDS Naturals, Sequences, FiniteSetsExt

CONSTANTS
    Cards,      \* cards nvidia-smi announced at the start
    MaxLoad,    \* bound: the utilization values
    MaxEnds     \* bound: times the reader leaves its child

ASSUME CardsAssumption ==
    /\ Cards \in Nat \ {0}
    /\ MaxLoad \in Nat
    /\ MaxEnds \in Nat

VARIABLES
    demand,     \* a client is attached or left within the grace period
    reading,    \* a child is running and its output is read
    next,       \* the card the child prints next
    round,      \* cards of the round that is being read
    gpus,       \* cards of the last published round
    util,       \* published utilization of the node
    cut,        \* history: a line was lost or a child left within a round
    ends        \* children left so far

vars == <<demand, reading, next, round, gpus, util, cut, ends>>

GpuEntry == [card: 1..Cards, util: 0..MaxLoad]

Init ==
    /\ demand = FALSE
    /\ reading = FALSE
    /\ next = 1
    /\ round = <<>>
    /\ gpus = <<>>
    /\ util = 0
    /\ cut = FALSE
    /\ ends = 0

(* A client attaches, or the last one is gone for DEMAND_GRACE_MS.         *)
DemandChanges ==
    /\ demand' = ~demand
    /\ UNCHANGED <<reading, next, round, gpus, util, cut, ends>>

(* The head of the loop starts nvidia-smi.                                 *)
Spawn ==
    /\ ~reading /\ demand
    /\ reading' = TRUE
    /\ next' = 1
    /\ UNCHANGED <<demand, round, gpus, util, cut, ends>>

(* The largest of the value published before and those of the cards.       *)
Peak(before, cards) == Max({before} \union {cards[k].util : k \in DOMAIN cards})

(* Definitions whose name ends in Mutant are faulty variants of the one    *)
(* that follows: a property below fails when its variant is used.          *)
FinishRoundKeepsMutant(cards) ==
    /\ gpus' = cards
    /\ util' = Peak(util, cards)
    /\ round' = SubSeq(cards, 2, Len(cards))

(* finish_round starts from the utilization it published before.           *)
FinishRound(cards) ==
    /\ gpus' = cards
    /\ util' = Peak(util, cards)
    /\ round' = <<>>

PushRoundMutant(entry) ==
    LET cards == Append(round, entry)
    IN \/ Len(cards) > Cards /\ FinishRound(cards)
       \/ Len(cards) <= Cards /\ round' = cards /\ UNCHANGED <<gpus, util>>

(* push_round: a round is complete when it holds card_count cards.         *)
PushRound(entry) ==
    LET cards == Append(round, entry)
    IN \/ Len(cards) >= Cards /\ FinishRound(cards)
       \/ Len(cards) < Cards /\ round' = cards /\ UNCHANGED <<gpus, util>>

Advance == next' = IF next = Cards THEN 1 ELSE next + 1

ReadLine ==
    /\ reading /\ demand
    /\ \E load \in 0..MaxLoad: PushRound([card |-> next, util |-> load])
    /\ Advance
    /\ UNCHANGED <<demand, reading, cut, ends>>

(* parse_nvidia_line returns None: the line counts for nothing.            *)
BadLine ==
    /\ reading /\ demand
    /\ Advance
    /\ cut' = TRUE
    /\ UNCHANGED <<demand, reading, round, gpus, util, ends>>

(* The first line after the demand has gone, or the end of the output: the *)
(* child is killed.  What was read of its last round stays.                *)
LeaveChild ==
    /\ reading
    /\ ends < MaxEnds
    /\ ends' = ends + 1
    /\ reading' = FALSE
    /\ cut' = (cut \/ round # <<>>)
    /\ UNCHANGED <<demand, next, round, gpus, util>>

Next == DemandChanges \/ Spawn \/ ReadLine \/ BadLine \/ LeaveChild

Spec == Init /\ [][Next]_vars

-----------------------------------------------------------------------------
(* Type invariant of GpuState and nvidia_loop: a round that is being read  *)
(* is never a whole one, and every published round is.                     *)
TypeOK ==
    /\ demand \in BOOLEAN /\ reading \in BOOLEAN /\ cut \in BOOLEAN
    /\ next \in 1..Cards
    /\ round \in Seq(GpuEntry) /\ Len(round) < Cards
    /\ gpus \in Seq(GpuEntry) /\ Len(gpus) \in {0, Cards}
    /\ util \in 0..MaxLoad
    /\ ends \in 0..MaxEnds

(* GpuState.gpus has every card once and in detection order, though no     *)
(* line says where a round begins.                                         *)
DetectionOrder == \A k \in DOMAIN gpus: gpus[k].card = k

(* The published cards are in detection order as long as nvidia_loop left  *)
(* no child within a round and lost no line.                               *)
OrderUntilCut == ~cut => DetectionOrder

(* finish_round: the node is never reported less busy than one of its      *)
(* published cards.                                                        *)
BusyCardSeen == \A k \in DOMAIN gpus: gpus[k].util <= util
=============================================================================
