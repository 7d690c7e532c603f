SPECIFICATION Spec
CONSTANTS
  RunId = {r1, r2}
  Trader = {t1, t2}
  ManualKey = {k1}
  Snapshot = {s1}
  Concurrency = 1
  MaxCrashes = 1
  NoRun = NoRun
  NoRow = NoRow
  NoRequest = NoRequest
SYMMETRY Symmetry
INVARIANTS TypeOK WorkUnderLock RetriedRunsAreQuiet OutcomeMatchesCycles
PROPERTY ImplementsLedger
