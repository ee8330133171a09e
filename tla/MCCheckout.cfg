CONSTANTS
  Attempts = {a1, a2, a3}
  Keys = {k1, k2}
  Carts = {c1}
  MaxVersion = 3
  Nobody = nobody
SPECIFICATION Spec
VIEW Remembered
SYMMETRY Interchangeable
INVARIANTS
  TypeOK
  OrdersKeepTheirStock
  CartPaidOnce
  KeysNameOneOrder
  ClosedCartsWereOrdered
CHECK_DEADLOCK FALSE
