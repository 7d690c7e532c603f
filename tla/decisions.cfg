SPECIFICATION Spec
CONSTANTS
  MaxNotional = 4008
  MaxTurnover = 7014
  CashReserve = 1000
  MaxPosition = 60
  MaxSector = 60
  MaxDrawdown = 25
  HumanApproval = TRUE
  HumanNotional = 4008
  ProposalId = {p1, p2, p3}
  Worker = {w1, w2}
  Approver = {a1, a2}
  Recommendable <- MCRecommendable
  InitialCash = 9000
  MaxDays = 1
  MaxFaults = 1
  NoProposal = NoProposal
  NoDecision = NoDecision
  NoSnapshot = NoSnapshot
SYMMETRY Symmetry
INVARIANTS TypeOK BooksBalance LargeOrdersHaveAPerson DecisionsStayGood
PROPERTY ImplementsLedger
CHECK_DEADLOCK FALSE
