SPECIFICATION Spec
CONSTANTS
  Procs = {p1, p2}
  Names = {n1, n2}
  Kits = {k1, k2}
  NoKit = NoKit
  Free = Free
  MaxBatch = 2
SYMMETRY Symmetry
INVARIANTS
  TypeOK
  AllOrNothing
PROPERTY NeverRebound
