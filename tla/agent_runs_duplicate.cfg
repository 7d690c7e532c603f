SPECIFICATION Spec
CONSTANTS
  RunId = {r1, r2, r3}
  Trader = {t1}
  ManualKey = {k1, k2}
  Snapshot = {s1}
  Concurrency = 1
  MaxCrashes = 0
  NoRun = NoRun
  NoRow = NoRow
  NoRequest = NoRequest
SYMMETRY Symmetry
INVARIANT OneProducerPerSnapshot
