----------------------------- MODULE MCDecisions -----------------------------
(* Instances of Decisions for TLC.                                          *)
EXTENDS Decisions, TLC

(* Orders that need sizing and a person, small ones, sales at two prices,   *)
(* and one that the universe or freshness rules refuse.                     *)
MCRecommendable ==
  {[side |-> "buy",  quantity |-> 3, price |-> 2, eligible |-> TRUE],
   [side |-> "buy",  quantity |-> 1, price |-> 1, eligible |-> TRUE],
   [side |-> "sell", quantity |-> 2, price |-> 2, eligible |-> TRUE],
   [side |-> "sell", quantity |-> 1, price |-> 1, eligible |-> TRUE],
   [side |-> "buy",  quantity |-> 1, price |-> 2, eligible |-> FALSE]}

(* Proposals, workers and request threads are interchangeable.              *)
Symmetry == Permutations(ProposalId) \cup Permutations(Worker) \cup Permutations(Approver)
=============================================================================
