------------------------------ MODULE RiskRules ------------------------------
(***************************************************************************)
(* The deterministic risk rules of backend/decisions/risk.py. Decimal      *)
(* arithmetic is exact here: a price is a whole number of dollars, an      *)
(* amount of money a whole number of tenths of a cent (1 dollar = 1000),   *)
(* so that the execution spread of 0.002 and every product are integers,   *)
(* and a limit on a share of the portfolio is a number of percent.         *)
(* Rules that look at no quantity (universe, freshness, market mode) come  *)
(* as one Boolean of the proposal.                                         *)
(***************************************************************************)
EXTENDS Integers

CONSTANTS
  MaxNotional,    (* maximum_order_notional                                *)
  MaxTurnover,    (* maximum_daily_turnover                                *)
  CashReserve,    (* minimum_cash_reserve                                  *)
  MaxPosition,    (* max_position_percentage and max_symbol_concentration:
                     the same measure, so the smaller of the two           *)
  MaxSector,      (* max_sector_concentration                              *)
  MaxDrawdown,    (* maximum_drawdown                                      *)
  HumanApproval,  (* human_approval_enabled and not automated_replay       *)
  HumanNotional   (* human_approval_notional                               *)

ASSUME PolicyIsValid ==
  /\ MaxNotional \in Nat \ {0} /\ MaxTurnover \in Nat \ {0} /\ CashReserve \in Nat
  /\ MaxPosition \in 1..100 /\ MaxSector \in 1..100 /\ MaxDrawdown \in 1..100
  /\ HumanApproval \in BOOLEAN /\ HumanNotional \in Nat \ {0}

Dollar == 1000
Spread == 2      (* per 1000: EXECUTION_SPREAD of risk.py, SPREAD of accounts.py *)

Side == {"buy", "sell"}

Proposal  == [side : Side, quantity : Nat \ {0}, price : Nat \ {0}, eligible : BOOLEAN]

(* PortfolioSnapshot: cash, shares held of the proposed symbol, the market *)
(* value of the other holdings and the part of it in the symbol's sector,  *)
(* the day's turnover and the highest recorded value (0 when none is).     *)
Portfolio == [cash : Nat, held : Nat, others : Nat, sector : Nat, turnover : Nat, peak : Nat]

Outcome   == {"approved", "pending_human", "rejected"}
Decision  == [outcome : Outcome, quantity : Nat]   (* quantity 0: rejected *)

-----------------------------------------------------------------------------
RiskPrice(p)   == p.price * (IF p.side = "buy" THEN Dollar + Spread ELSE Dollar - Spread)
Notional(p, q) == RiskPrice(p) * q
Value(p, pf)   == pf.cash + pf.others + p.price * Dollar * pf.held

(* A share of a worthless portfolio counts as 100 percent.                 *)
Exceeds(part, whole, percent) ==
  IF whole > 0 THEN 100 * part > percent * whole ELSE 100 > percent

Position(p, pf, q) == p.price * Dollar * (pf.held + q)   (* of a buy *)

(* _sizing_failures finds nothing.                                         *)
Compliant(p, pf, q) ==
  /\ Notional(p, q) <= MaxNotional
  /\ pf.turnover + Notional(p, q) <= MaxTurnover
  /\ p.side = "buy" =>
       /\ pf.cash - Notional(p, q) >= CashReserve
       /\ ~Exceeds(Position(p, pf, q), Value(p, pf), MaxPosition)
       /\ ~Exceeds(pf.sector + Position(p, pf, q), Value(p, pf), MaxSector)

(* The drawdown from the peak has not reached the kill switch.             *)
WithinDrawdown(p, pf) ==
  LET peak == IF pf.peak > Value(p, pf) THEN pf.peak ELSE Value(p, pf)
  IN  100 * (peak - Value(p, pf)) < MaxDrawdown * peak \/ peak = 0

(* What _size_quantity promises: the largest compliant whole-share size,   *)
(* 0 when there is none.                                                   *)
IsLargestCompliant(p, pf, q) ==
  /\ q \in 0..p.quantity
  /\ q = 0 \/ Compliant(p, pf, q)
  /\ \A bigger \in (q + 1)..p.quantity : ~Compliant(p, pf, bigger)

(* Defect: the threshold itself needs no person.                           *)
NeedsHumanAbove(notional) == HumanApproval /\ notional > HumanNotional

(* An order of at least the threshold waits for a person.                  *)
NeedsHuman(notional) == HumanApproval /\ notional >= HumanNotional

(* evaluate, from the sized quantity on. A sell is checked for sufficient  *)
(* holdings at the requested quantity.                                     *)
Evaluate(p, pf, sized) ==
  LET evaluated == IF sized > 0 THEN sized ELSE p.quantity
      passed    == /\ p.eligible /\ sized > 0
                   /\ Compliant(p, pf, evaluated)
                   /\ p.side = "sell" => p.quantity <= pf.held
                   /\ WithinDrawdown(p, pf)
  IN  [outcome  |-> IF ~passed THEN "rejected"
                    ELSE IF NeedsHuman(Notional(p, evaluated)) THEN "pending_human" ELSE "approved",
       quantity |-> IF passed THEN sized ELSE 0]
=============================================================================
