---------------------------- MODULE MCRiskSizing -----------------------------
(* A policy and inputs of RiskSizing for TLC, with every limit binding for  *)
(* some of them: 10 to 20 dollars of value, orders of up to 6 shares.       *)
EXTENDS RiskSizing

MCProposals == {p \in [side : Side, quantity : {1, 2, 3, 5, 6}, price : {1, 2}, eligible : BOOLEAN] :
                  p.eligible \/ p.quantity = 3}

MCPortfolios == {pf \in [cash : {0, 4004, 9020, 20000}, held : {0, 2, 6},
                         others : {0, 6000}, sector : {0, 6000},
                         turnover : {0, 3006}, peak : {0, 20000}] : pf.sector <= pf.others}
=============================================================================
