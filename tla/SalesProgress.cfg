SPECIFICATION FairSpec
CONSTANTS
  p1 = p1
  p2 = p2
  std = std
  vip = vip
  Purchases = {p1, p2}
  Tiers = {std, vip}
  Workers = {w1}
  Quantity <- Tight
  Price <- Prices
  TierOf <- PairTierOf
  Qty <- PairQty
  TotalSeats = 3
  BatchSize = 1
  Outcomes = {"paid", "failed"}
CHECK_DEADLOCK FALSE
PROPERTIES WorkEnds OverdueReleasedIfHeld
