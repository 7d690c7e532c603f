SPECIFICATION Spec
CONSTANTS
  Market = market
  Search = search
  Service <- MCService
  Outsider = {o1}
  Threshold = 2
  MaxFailures = 2
  Retries = 0
  Repairs = 0
  ResearchTurns = 1
  TraderTurns = 1
  MaxTokens = 4
  MaxSpend = 9
  ResearchRate = 1
  TraderRate = 3
  ResponseTokens = {1}
  MaxProposals = 2
  NoRead = NoRead
  NoError = NoError
INVARIANT ExecutionsAreLinked
