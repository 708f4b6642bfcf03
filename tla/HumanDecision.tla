---------------------------- MODULE HumanDecision ----------------------------
(***************************************************************************)
(* What interactions that ask a human promise the agent that asked: each   *)
(* is decided at most once, a decision is never changed, and the agent is  *)
(* told of it at most once, after it is taken.                             *)
(***************************************************************************)
EXTENDS Naturals

CONSTANTS Interactions, Decisions

VARIABLES
  status,   \* of each interaction: none, pending, or the decision
  settled   \* how often the effects of each decision have been carried out

Init ==
  /\ status = [i \in Interactions |-> "none"]
  /\ settled = [i \in Interactions |-> 0]

Ask(i) ==
  /\ status[i] = "none"
  /\ status' = [status EXCEPT ![i] = "pending"]
  /\ UNCHANGED settled

Decide(i) ==
  /\ status[i] = "pending"
  /\ \E decision \in Decisions : status' = [status EXCEPT ![i] = decision]
  /\ UNCHANGED settled

Settle(i) ==
  /\ status[i] \in Decisions /\ settled[i] = 0
  /\ settled' = [settled EXCEPT ![i] = 1]
  /\ UNCHANGED status

Next == \E i \in Interactions : Ask(i) \/ Decide(i) \/ Settle(i)

Spec == Init /\ [][Next]_<<status, settled>>
=============================================================================
