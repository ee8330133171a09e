CONSTANTS
  Orders = {o1}
  Calls = {h1, h2}
  Total = 1
  MaxVersion = 4

SPECIFICATION Spec
PROPERTIES FulfillmentOnlyMovesForward
