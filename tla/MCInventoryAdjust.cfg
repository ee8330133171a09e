CONSTANTS
  Items <- OneItem
  Skus = {"a"}
  SkuOf <- TwoWarehouses
  Reservations = {r1, r2}
  Groups = {g1}
  NoGroup = NoGroup
  Keys = {k1}
  NoKey = NoKey
  Adjustments = {a1}
  MaxQuantity = 2
  MaxStock = 2
  MaxVersion = 4
  SweepLimit = 2

SPECIFICATION FairSpec
INVARIANTS StockConservation SoldOnce NoOversell
PROPERTIES AdjustedOnceAsSeen OverdueIsResolved
CHECK_DEADLOCK FALSE
