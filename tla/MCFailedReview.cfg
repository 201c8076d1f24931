CONSTANTS
  TileBatches = 1
  MaxRetries = 1
  MaxObservations = 1
  MaxReconciled = 1
  Limit = 2
  NoRequest = NoRequest
  Requests <- ReviewRequests
SPECIFICATION ReviewSpec
INVARIANT
  FailedReviewIsInconclusive
