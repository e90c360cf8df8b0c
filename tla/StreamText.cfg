SPECIFICATION Spec
CONSTANTS
  StreamRules = 2
  OutputRules = 2
  MaxSteps = 2
  MaxEvents = 2
CHECK_DEADLOCK FALSE
INVARIANTS
  AdjustedTextStays
  BufferIsShown
  OneFinalText
