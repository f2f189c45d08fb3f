SPECIFICATION FairSpec
CHECK_DEADLOCK FALSE
CONSTANTS
  MaxOrders = 3
  Unmappable = {2}
  MaxRetryAttempts = 1
  BatchLimit = 2
  PushAttempts = 2
  OrderBound = 2
  ResponseBound = 1
INVARIANTS ErrorMeansNotSent SubmissionsBounded NoGapInEvents
PROPERTIES EveryOrderAnswered
