SPECIFICATION Spec
CONSTANTS
  p1 = p1
  p2 = p2
  std = std
  vip = vip
  Purchases = {p1, p2}
  Tiers = {std, vip}
  Workers = {w1, w2}
  Quantity <- Roomy
  Price <- Prices
  TierOf <- PairTierOf
  Qty <- PairQty
  TotalSeats = 4
  BatchSize = 1
  Outcomes = {"paid", "short", "failed"}
CHECK_DEADLOCK FALSE
SYMMETRY WorkerSymmetry
INVARIANTS IInv NoLeakedReservation SoldWasPaid
