CONSTANTS
  Order1 = o1
  Orders = {o1}
  Calls = {h1, h2}
  Total = 2
  MaxVersion = 2
  Refunds <- SomeRefunds
  MaxDeclines = 1
  MaxFaults = 1

SPECIFICATION PaymentsSpec
INVARIANTS PaymentTypeOK BookedWasReturned OrdersLagOnRefunds
