SPECIFICATION FairSpec
CONSTANTS
  RunId = {r1, r2}
  Trader = {t1}
  ManualKey = {k1}
  Snapshot = {s1}
  Concurrency = 1
  MaxCrashes = 1
  NoRun = NoRun
  NoRow = NoRow
  NoRequest = NoRequest
PROPERTY EveryRunCloses
