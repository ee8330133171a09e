SPECIFICATION Spec
CONSTANTS
  c1 = c1  c2 = c2  r1 = r1  r2 = r2  p1 = p1  p2 = p2  usd = usd
  Carts <- MCCarts
  Requests <- MCRequests
  Prices <- MCPrices
  CurrencyOf <- OneCurrency
  DefaultCurrency = usd
  Customers = {u}
  Categories = {k}
  Products = {p}
  Variants = {v}
  SortOrders = {o}
  CatalogKeys = {i}
  Keys = {j}
  None = None
  Guest = Guest
  MaxRevisions = 5
  Asked = {1}
  MaxQuantity = 2
  MaxDistinct = 1
  MaxChanges = 4
SYMMETRY Symmetry
INVARIANTS
  StorefrontTypeOK
  UnitsAddUp
  LinesPricedAsListed
CHECK_DEADLOCK FALSE
