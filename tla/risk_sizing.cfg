SPECIFICATION FairSpec
CONSTANTS
  MaxNotional = 5010
  MaxTurnover = 8016
  CashReserve = 1000
  MaxPosition = 40
  MaxSector = 50
  MaxDrawdown = 25
  HumanApproval = TRUE
  HumanNotional = 4008
  NoDecision = NoDecision
  Proposals <- MCProposals
  Portfolios <- MCPortfolios
INVARIANTS TypeOK Bracket ReducesToLargest RejectsOnlyHopeless
PROPERTY Decides
CHECK_DEADLOCK FALSE
