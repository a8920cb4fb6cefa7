SPECIFICATION Spec
CONSTANTS
  p1 = p1
  p2 = p2
  std = std
  vip = vip
  Purchases = {p1, p2, p3}
  Tiers = {std, vip}
  Workers = {w1, w2}
  Quantity <- Tight
  Price <- Prices
  TierOf <- RushTierOf
  Qty <- RushQty
  TotalSeats = 3
  BatchSize = 1
  Outcomes = {"paid"}
CHECK_DEADLOCK FALSE
SYMMETRY RushSymmetry
INVARIANTS NoOversell
PROPERTIES ImplementsLedger
