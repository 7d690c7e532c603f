SPECIFICATION FairSpec
CONSTANTS
  Market = market
  Search = search
  Service <- MCService
  Outsider = {o1}
  Threshold = 2
  MaxFailures = 2
  Retries = 1
  Repairs = 1
  ResearchTurns = 1
  TraderTurns = 2
  MaxTokens = 4
  MaxSpend = 9
  ResearchRate = 1
  TraderRate = 3
  ResponseTokens = {1, 2}
  MaxProposals = 2
  NoRead = NoRead
  NoError = NoError
INVARIANTS TypeOK UsageIsAccounted OverspendBounded PipelineIsWithinBudget
PROPERTIES OpenStaysOpen EveryCycleCloses CircuitsRecover
