CONSTANTS
  Items <- ThreeItems
  Skus = {"a", "b"}
  SkuOf <- TwoWarehouses
  Reservations = {r1, r2, r3}
  Groups = {g1, g2}
  NoGroup = NoGroup
  Keys = {k1}
  NoKey = NoKey
  Adjustments = {}
  MaxQuantity = 2
  MaxStock = 1
  MaxVersion = 1
  SweepLimit = 2

SPECIFICATION Spec
SYMMETRY Ids
INVARIANTS TypeOK AnsweredGroupsAreWhole KeysStandForOneRequest
PROPERTIES ResolvedOnce ImplementsGroups
CHECK_DEADLOCK FALSE
