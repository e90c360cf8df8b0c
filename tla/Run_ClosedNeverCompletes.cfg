SPECIFICATION Spec
CONSTANTS
  MaxSteps = 2
  Rules = 1
  MaxChunks = 1
  MaxCalls = 1
  Reasoning = FALSE
  Capacity = 1
PROPERTY ClosedNeverCompletes
