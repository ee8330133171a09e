CONSTANTS
  Orders = {o1}
  Calls = {h1, h2, h3}
  Clerks = {k1, k2}
  Total = 2
  MaxVersion = 4

SPECIFICATION ShipmentsSpec
SYMMETRY Requesters
INVARIANTS PaidOrdersHaveStock EndedOrdersHoldNothing ShipmentTypeOK ShipmentTracksOrder
PROPERTIES OneVerdict StagesInOrder
