SPECIFICATION Spec
CONSTANTS
  b1 = b1
  h1 = h1
  h2 = h2
  h3 = h3
  w1 = w1
  w2 = w2
  Bookings <- OneBooking
  Handlers <- TwoHandlers
  Workers <- OneWorker
  Reconciling = TRUE
  MaxVersion = 7
SYMMETRY Symmetry
INVARIANTS
  StaleReadsAreDetectable
