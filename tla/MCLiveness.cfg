SPECIFICATION Spec
CONSTANTS
  Parts = {"accounts", "catalogue", "idempotency", "signed in"}
  None = None
PROPERTIES
  SuspendedLosesAccess
  NoStaleForever
  EveryRequestAnswered
  SpinnerEnds
