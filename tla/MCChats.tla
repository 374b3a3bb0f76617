------------------------------ MODULE MCChats ------------------------------
(***************************************************************************)
(* Chats for TLC: the cores are model values.                              *)
(***************************************************************************)
EXTENDS Chats, TLC

CONSTANTS p1, p2, p3

\* The configurations of the evaluation.
Baseline == [policy |-> "requester_wins", fwd |-> "no_fwd", prio |-> "no_prio"]
Naive == [policy |-> "requester_loses", fwd |-> "naive", prio |-> "no_prio"]
PowerTM ==
  [policy |-> "requester_wins_power", fwd |-> "no_fwd", prio |-> "no_prio"]
CHATS == [policy |-> "requester_loses", fwd |-> "WN_DM", prio |-> "numeric"]
PCHATS ==
  [policy |-> "requester_loses_power", fwd |-> "WN_DM", prio |-> "numeric"]

\* CHATS with the mechanism that has chains of two transactions only.
Pairs == [CHATS EXCEPT !.fwd = "W1_D1"]

RetryConfigs == {Baseline, PowerTM, PCHATS}
CycleConfigs == {CHATS, Naive}
ChainConfigs == {CHATS, Pairs}

\* Every core loads and stores every block.
AllAccesses == [c \in Configs |-> Proc \X Addr \X {"GETS", "GETX"}]

\* Each core stores a block of its own and loads the next core's: the
\* workloads that close a cycle of producers.
TwoCycle == {<<p1, 1, "GETX">>, <<p1, 2, "GETS">>,
             <<p2, 2, "GETX">>, <<p2, 1, "GETS">>}

\* The same; under CHATS p2 also stores p1's block, which p1 may then consume.
Cycle == [c \in Configs |-> IF c = Naive THEN TwoCycle
                            ELSE TwoCycle \cup {<<p2, 1, "GETX">>}]

\* A chain: p2 produces for p1, and p1 for p3.  p1 and p3 both read the block
\* p2 stores, so its store may be nacked by a producer and by its consumer.
Chain == [c \in Configs |->
           {<<p2, 2, "GETX">>, <<p1, 2, "GETS">>, <<p1, 1, "GETX">>,
            <<p3, 1, "GETS">>}
           \cup (IF c = Pairs THEN {} ELSE {<<p3, 2, "GETS">>})]

\* The cores are interchangeable: no definition orders them.
Symmetry == Permutations(Proc)
=============================================================================
