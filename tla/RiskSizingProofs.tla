-------------------------- MODULE RiskSizingProofs ---------------------------
(***************************************************************************)
(* The sizing search is right for every policy, proposal and portfolio. A  *)
(* binary search is only right for a monotone test: SmallerComplies shows  *)
(* that the conjunction of the five limits is one, from the monotonicity   *)
(* of a product with a non-negative factor.                                *)
(***************************************************************************)
EXTENDS RiskSizing, TLAPS

(* A product with a natural factor grows with the other factor.            *)
LEMMA ProductGrows ==
  ASSUME NEW c \in Nat, NEW a \in Nat, NEW b \in Nat, a <= b
  PROVE  c * a \in Nat /\ c * b \in Nat /\ c * a <= c * b
<1>1. c * (b - a) \in Nat
  OBVIOUS
<1>2. c * (b - a) = c * b - c * a
  OBVIOUS
<1> QED
  BY <1>1, <1>2

(* A larger part of the same whole exceeds every share a smaller one does. *)
LEMMA ExceedsGrows ==
  ASSUME NEW whole \in Nat, NEW percent \in Nat, NEW a \in Nat, NEW b \in Nat, a <= b,
         Exceeds(a, whole, percent)
  PROVE  Exceeds(b, whole, percent)
<1>1. percent * whole \in Nat
  OBVIOUS
<1> QED
  BY <1>1 DEF Exceeds

(* Every size below a compliant one is compliant.                          *)
LEMMA SmallerComplies ==
  ASSUME NEW p \in Proposal, NEW pf \in Portfolio,
         NEW a \in Nat, NEW b \in Nat, a <= b, Compliant(p, pf, b)
  PROVE  Compliant(p, pf, a)
<1>1. /\ p.price \in Nat /\ pf.cash \in Nat /\ pf.held \in Nat /\ pf.others \in Nat
      /\ pf.sector \in Nat /\ pf.turnover \in Nat
  BY DEF Proposal, Portfolio
<1>2. RiskPrice(p) \in Nat
  BY <1>1 DEF RiskPrice, Dollar, Spread
<1>3. /\ Notional(p, a) \in Nat /\ Notional(p, b) \in Nat
      /\ Notional(p, a) <= Notional(p, b)
  BY <1>2, ProductGrows DEF Notional
<1>4. p.price * Dollar \in Nat
  BY <1>1 DEF Dollar
<1>5. /\ Position(p, pf, a) \in Nat /\ Position(p, pf, b) \in Nat
      /\ Position(p, pf, a) <= Position(p, pf, b)
  <2>1. pf.held + a \in Nat /\ pf.held + b \in Nat /\ pf.held + a <= pf.held + b
    BY <1>1
  <2> QED
    BY <1>4, <2>1, ProductGrows DEF Position
<1>6. Value(p, pf) \in Nat
  <2>1. p.price * Dollar * pf.held \in Nat
    BY <1>1, <1>4, ProductGrows
  <2> QED
    BY <1>1, <2>1 DEF Value
<1>7. MaxPosition \in Nat /\ MaxSector \in Nat /\ MaxNotional \in Nat /\ MaxTurnover \in Nat
      /\ CashReserve \in Nat
  BY PolicyIsValid DEF PolicyIsValid
<1>8. Notional(p, a) <= MaxNotional /\ pf.turnover + Notional(p, a) <= MaxTurnover
  BY <1>1, <1>3, <1>7 DEF Compliant
<1>9. ASSUME p.side = "buy"
      PROVE  /\ pf.cash - Notional(p, a) >= CashReserve
             /\ ~Exceeds(Position(p, pf, a), Value(p, pf), MaxPosition)
             /\ ~Exceeds(pf.sector + Position(p, pf, a), Value(p, pf), MaxSector)
  <2>1. pf.cash - Notional(p, a) >= CashReserve
    BY <1>1, <1>3, <1>7, <1>9 DEF Compliant
  <2>2. ~Exceeds(Position(p, pf, a), Value(p, pf), MaxPosition)
    BY <1>5, <1>6, <1>7, <1>9, ExceedsGrows DEF Compliant
  <2>3. /\ pf.sector + Position(p, pf, a) \in Nat /\ pf.sector + Position(p, pf, b) \in Nat
        /\ pf.sector + Position(p, pf, a) <= pf.sector + Position(p, pf, b)
    BY <1>1, <1>5
  <2>4. ~Exceeds(pf.sector + Position(p, pf, a), Value(p, pf), MaxSector)
    BY <1>6, <1>7, <1>9, <2>3, ExceedsGrows DEF Compliant
  <2> QED
    BY <2>1, <2>2, <2>4
<1> QED
  BY <1>8, <1>9 DEF Compliant

-----------------------------------------------------------------------------
IInv == TypeOK /\ Bracket

(* What the type invariant says of the numbers.                            *)
LEMMA Types ==
  ASSUME TypeOK
  PROVE  /\ proposal \in Proposal /\ portfolio \in Portfolio
         /\ proposal.quantity \in Nat \ {0} /\ low \in Nat /\ high \in Nat
         /\ low <= proposal.quantity /\ high <= proposal.quantity
BY InputsAreValid DEF TypeOK, InputsAreValid, Proposal

(* The middle of a range of at least two sizes is above its lower end.     *)
LEMMA MiddleInRange ==
  ASSUME TypeOK, low < high
  PROVE  Middle \in Nat /\ low < Middle /\ Middle <= high
BY Types DEF Middle

(* evaluate returns a decision.                                            *)
LEMMA EvaluateType ==
  ASSUME TypeOK, low = high
  PROVE  Deciding \in Decision
BY Types DEF Deciding, Evaluate, Decision, Outcome

(* The full range brackets the answer.                                     *)
LEMMA IInvInit == Init => IInv
<1> SUFFICES ASSUME Init PROVE IInv
  OBVIOUS
<1>1. proposal.quantity \in Nat \ {0}
  BY InputsAreValid DEF Init, InputsAreValid, Proposal
<1> QED
  BY <1>1 DEF Init, IInv, TypeOK, Bracket

(* A probe keeps the answer in the range.                                  *)
LEMMA IInvStep == IInv /\ [Next]_vars => IInv'
<1> SUFFICES ASSUME IInv, [Next]_vars PROVE IInv'
  OBVIOUS
<1> USE DEF IInv
<1>0. /\ proposal \in Proposal /\ portfolio \in Portfolio
      /\ proposal.quantity \in Nat \ {0} /\ low \in Nat /\ high \in Nat
      /\ low <= proposal.quantity /\ high <= proposal.quantity
  BY Types
<1>1. CASE Probe
  <2>0. /\ Middle \in Nat /\ low < Middle /\ Middle <= high
        /\ proposal' = proposal /\ portfolio' = portfolio /\ decision' = decision
    BY <1>1, MiddleInRange DEF Probe
  <2>1. CASE Fits(Middle)
    <3>1. low' = Middle /\ high' = high
      BY <1>1, <2>1 DEF Probe
    <3> QED
      BY <1>0, <2>0, <2>1, <3>1 DEF TypeOK, Bracket, Fits
  <2>2. CASE ~Fits(Middle)
    <3>1. high' = Middle - 1 /\ low' = low
      BY <1>1, <2>2 DEF Probe, BelowFailed
    <3>2. TypeOK'
      BY <1>0, <2>0, <3>1 DEF TypeOK
    <3>3. \A q \in (high' + 1)..proposal.quantity : ~Fits(q)
      <4> TAKE q \in (high' + 1)..proposal.quantity
      <4>1. q \in Nat /\ Middle <= q
        BY <1>0, <2>0, <3>1
      <4> QED
        BY <1>0, <2>0, <2>2, <4>1, SmallerComplies DEF Fits
    <3> QED
      BY <1>0, <2>0, <3>1, <3>2, <3>3 DEF Bracket, Fits
  <2> QED
    BY <2>1, <2>2
<1>2. CASE Decide
  <2>1. Deciding \in Decision
    BY <1>2, EvaluateType DEF Decide
  <2> QED
    BY <1>2, <2>1 DEF Decide, TypeOK, Bracket, Fits
<1>3. CASE UNCHANGED vars
  BY <1>3 DEF vars, TypeOK, Bracket, Fits
<1> QED
  BY <1>1, <1>2, <1>3 DEF Next

(* The search keeps the answer between low and high, for every policy.     *)
THEOREM SearchKeepsTheAnswer == Spec => [](TypeOK /\ Bracket)
<1>1. Spec => []IInv
  BY IInvInit, IInvStep, PTL DEF Spec
<1> QED
  BY <1>1, PTL DEF IInv

-----------------------------------------------------------------------------
(* When the range has closed, low is the largest compliant size.           *)
LEMMA ClosedRangeIsLargest ==
  ASSUME IInv, low = high
  PROVE  IsLargestCompliant(proposal, portfolio, low)
BY Types DEF IInv, TypeOK, Bracket, IsLargestCompliant, Fits

DecisionInv ==
  decision # NoDecision => low = high /\ decision = Deciding

(* A decision is made only when the range is one size.                     *)
LEMMA DecisionInvStep == IInv /\ DecisionInv /\ [Next]_vars => DecisionInv'
BY DEF DecisionInv, Next, Probe, Decide, vars, Deciding, Evaluate, Compliant, Notional, RiskPrice,
       Value, Position, Exceeds, WithinDrawdown

(* Oversized proposals are reduced to the largest compliant size, and what *)
(* is rejected could not have been saved by a smaller one.                 *)
THEOREM SizingIsRight == Spec => [](ReducesToLargest /\ RejectsOnlyHopeless)
<1>1. Init => DecisionInv
  BY DEF Init, DecisionInv
<1>2. Spec => []IInv
  BY IInvInit, IInvStep, PTL DEF Spec
<1>3. Spec => []DecisionInv
  BY <1>1, <1>2, DecisionInvStep, PTL DEF Spec
<1>4. IInv /\ DecisionInv => ReducesToLargest /\ RejectsOnlyHopeless
  <2> SUFFICES ASSUME IInv, DecisionInv, decision # NoDecision
               PROVE  ReducesToLargest /\ RejectsOnlyHopeless
    BY DEF ReducesToLargest, RejectsOnlyHopeless
  <2>1. low = high /\ decision = Evaluate(proposal, portfolio, low)
    BY DEF DecisionInv, Deciding
  <2>2. low \in Nat /\ proposal.quantity \in Nat \ {0}
    BY Types DEF IInv
  <2>3. IsLargestCompliant(proposal, portfolio, low)
    BY <2>1, ClosedRangeIsLargest
  <2>4. ReducesToLargest
    BY <2>1, <2>2, <2>3 DEF ReducesToLargest, Evaluate
  <2>5. RejectsOnlyHopeless
    <3> SUFFICES ASSUME decision.outcome = "rejected", proposal.eligible,
                        WithinDrawdown(proposal, portfolio),
                        ~(proposal.side = "sell" /\ proposal.quantity > portfolio.held)
                 PROVE  \A q \in 1..proposal.quantity : ~Fits(q)
      BY DEF RejectsOnlyHopeless
    <3>1. portfolio.held \in Nat
      BY Types DEF IInv, Portfolio
    <3>2. low = 0
      <4> SUFFICES ASSUME low > 0 PROVE FALSE
        BY <2>2
      <4>1. Compliant(proposal, portfolio, low)
        BY <2>2, <2>3 DEF IsLargestCompliant
      <4> QED
        BY <2>1, <2>2, <3>1, <4>1 DEF Evaluate
    <3> QED
      BY <2>2, <2>3, <3>2 DEF IsLargestCompliant, Fits
  <2> QED
    BY <2>4, <2>5
<1> QED
  BY <1>2, <1>3, <1>4, PTL

(* The search stays within the proposed sizes and decides with a decision. *)
THEOREM TypeIsSound == Spec => []TypeOK
BY SearchKeepsTheAnswer, PTL

(* No size would have saved a proposal that is rejected for its size.      *)
THEOREM RejectionsAreHopeless == Spec => []RejectsOnlyHopeless
BY SizingIsRight, PTL
=============================================================================
