SPECIFICATION FairSpec
CONSTANTS
  N = 2
  MaxRetries = 2
INVARIANTS
  RetryBudget
PROPERTIES
  NothingAfterFailure
  KeepsAudit
  CancelEndsRun
