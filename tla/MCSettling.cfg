SPECIFICATION Spec
CONSTANTS
  Parts = {"expiry", "webhooks", "refunds"}
  MaxMoves = 1
PROPERTIES
  OverdueLeavesPending
  FailureIsAcknowledged
  PendingRefundSettles
