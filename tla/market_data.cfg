SPECIFICATION Spec
CONSTANTS
  Thread = {t1, t2}
  Valuing = {t1}
  Symbol = {s1}
  MaxTime = 2
  Freshness = 1
  CacheTTL = {0, 1}
  MaxRetries = 1
  ReadOnly = FALSE
  NoObservation = NoObservation
INVARIANTS TypeOK ServesRecentClose StaleIsSaid SyntheticNeedsFailure
