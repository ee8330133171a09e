CONSTANTS
  Order1 = o1
  Orders = {o1}
  Calls = {h1, h2}
  Total = 1
  MaxVersion = 2
  Refunds <- NoRefunds
  MaxDeclines = 1
  MaxFaults = 1

SPECIFICATION FairPaymentsSpec
PROPERTIES AcceptedIsBooked
