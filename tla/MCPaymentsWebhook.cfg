SPECIFICATION FairPaySpec
CONSTANTS
  b1 = b1
  h1 = h1
  h2 = h2
  i1 = i1
  i2 = i2
  d1 = d1
  d2 = d2
  Bookings <- OneBooking
  Handlers <- OneHandler
  Workers <- NoWorker
  Intents <- OneIntent
  Deliveries <- OneDelivery
  Reconciling = FALSE
  MaxVersion = 0
PROPERTIES
  PaidBookingMovesOn
