----------------------------- MODULE RiskSizing ------------------------------
(***************************************************************************)
(* RiskEngine._size_quantity and evaluate (backend/decisions/risk.py): the *)
(* binary search for the quantity and the decision made from it, for one   *)
(* proposal against one portfolio snapshot.                                *)
(***************************************************************************)
EXTENDS RiskRules

CONSTANTS Proposals, Portfolios,   (* the inputs considered                *)
          NoDecision

ASSUME InputsAreValid ==
  Proposals \subseteq Proposal /\ Portfolios \subseteq Portfolio /\ NoDecision \notin Decision

VARIABLES proposal, portfolio, low, high, decision
vars == <<proposal, portfolio, low, high, decision>>

Fits(q) == Compliant(proposal, portfolio, q)

Init ==
  /\ proposal \in Proposals /\ portfolio \in Portfolios
  /\ low = 0 /\ high = proposal.quantity
  /\ decision = NoDecision

(* Defect: the middle is rounded down.                                     *)
MiddleRoundedDown == (low + high) \div 2

Middle == (low + high + 1) \div 2

(* Defect: a size below the failing candidate is skipped.                  *)
TwoBelowFailed(candidate) == IF candidate > 1 THEN candidate - 2 ELSE 0

(* The upper end of the range once a candidate has failed.                 *)
BelowFailed(candidate) == candidate - 1

Probe ==
  /\ decision = NoDecision /\ low < high
  /\ IF Fits(Middle) THEN low' = Middle /\ UNCHANGED high
                     ELSE high' = BelowFailed(Middle) /\ UNCHANGED low
  /\ UNCHANGED <<proposal, portfolio, decision>>

(* Defect: the decision is made for the requested quantity.                *)
DecidingOnRequest == Evaluate(proposal, portfolio, proposal.quantity)

Deciding == Evaluate(proposal, portfolio, low)

Decide ==
  /\ decision = NoDecision /\ low = high
  /\ decision' = Deciding
  /\ UNCHANGED <<proposal, portfolio, low, high>>

Next == Probe \/ Decide

Spec     == Init /\ [][Next]_vars
FairSpec == Spec /\ WF_vars(Next)   (* a call that runs to its end          *)

-----------------------------------------------------------------------------
TypeOK ==
  /\ proposal \in Proposals /\ portfolio \in Portfolios
  /\ low \in 0..proposal.quantity /\ high \in 0..proposal.quantity
  /\ decision \in Decision \cup {NoDecision}

(* The search never loses the answer: what is below the range fits, what   *)
(* is above it breaks a limit. The limits interact (a share of the         *)
(* portfolio, a remaining budget, a reserve), and one that could fail at   *)
(* a size and hold at a larger one would break this.                       *)
Bracket ==
  /\ low <= high
  /\ low = 0 \/ Fits(low)
  /\ \A q \in (high + 1)..proposal.quantity : ~Fits(q)

(* README: limits "deterministically reduce oversized proposals", to the   *)
(* largest compliant size and to no other.                                 *)
ReducesToLargest ==
  decision # NoDecision /\ decision.outcome # "rejected" =>
    /\ decision.quantity > 0
    /\ IsLargestCompliant(proposal, portfolio, decision.quantity)

(* A proposal is rejected for a reason no smaller size would remove.       *)
RejectsOnlyHopeless ==
  decision # NoDecision /\ decision.outcome = "rejected" =>
    \/ ~proposal.eligible
    \/ ~WithinDrawdown(proposal, portfolio)
    \/ proposal.side = "sell" /\ proposal.quantity > portfolio.held
    \/ \A q \in 1..proposal.quantity : ~Fits(q)

(* The search ends with a decision for every proposal and portfolio.       *)
Decides == <>(decision # NoDecision)
=============================================================================
