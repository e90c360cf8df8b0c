SPECIFICATION Spec
CONSTANTS
  Procs = {p1, p2, p3}
  N = 2
  Components = {c1}
SYMMETRY Symmetry
INVARIANTS
  TypeOK
  SingleStartup
  NoLostWaiter
  SuccessMeansStarted
  ShutdownDrains
PROPERTIES
  ServerProtocol
  ImplementsContract
