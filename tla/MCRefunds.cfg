SPECIFICATION RefundSpec
CONSTANTS
  b1 = b1
  h1 = h1
  i1 = i1
  i2 = i2
  f1 = f1
  f2 = f2
  q1 = q1
  q2 = q2
  Bookings <- OneBooking
  Handlers <- OneHandler
  Workers <- NoWorker
  Intents <- TwoIntents
  Deliveries <- NoDeliveries
  Reconciling = TRUE
  MaxVersion = 4
  RefundIds <- TwoRefunds
  RefundRequests <- TwoRequests
  TotalCents = 2
  AdminRefundThreshold = 1
  ProviderChecksBalance = TRUE
SYMMETRY Symmetry
VIEW View
INVARIANTS
  RefundsArePaidFor
