SPECIFICATION Spec
CONSTANTS
  b1 = b1
  h1 = h1
  h2 = h2
  h3 = h3
  w1 = w1
  w2 = w2
  Bookings <- OneBooking
  Handlers <- ThreeHandlers
  Workers <- TwoWorkers
  Reconciling = FALSE
  MaxVersion = 0
SYMMETRY Symmetry
INVARIANTS
  StatusEnteredOnce
  JobsMatchLog
PROPERTIES
  LifecycleSpec
