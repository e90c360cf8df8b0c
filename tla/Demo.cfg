SPECIFICATION Spec
CONSTANTS
  Agents <- MCAgents
  Flows <- MCFlows
  Unknown <- MCUnknown
  Starter = start
  Stoppers = {stop1}
  Requests = {r1}
CHECK_DEADLOCK FALSE
INVARIANTS
  TypeOK
  DrainWaits
PROPERTIES
  KeepsJournal
  ResolvesWhileServed
  ImplementsContract
  ListenerReleased
