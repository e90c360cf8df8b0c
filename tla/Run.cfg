SPECIFICATION FairSpec
CONSTANTS
  MaxSteps = 2
  Rules = 1
  MaxChunks = 1
  MaxCalls = 1
  Reasoning = TRUE
  Capacity = 1
INVARIANTS
  TypeOK
  RecvProtocol
  OutcomesAgree
PROPERTIES
  StreamInOrder
  EventProtocol
  CancelEndsRun
  ReaderReachesEOF
