SPECIFICATION Spec
CONSTANTS
  b1 = b1
  b2 = b2
  Beacons = {b1, b2}
  KindOf <- MixKindOf
  Keyed <- MixKeyed
  Workers = {w1, w2}
  Prices <- MixPrices
  Windows <- OneWindow
  Cap = 1
  Budget = 1
  MaxTime = 2
  MaxRuns <- MixRuns
  MaxAttach = 1
CHECK_DEADLOCK FALSE
SYMMETRY WorkerSymmetry
INVARIANTS RollupMatchesLog NeverOvercharged RunsOnlyReviewed IInv
