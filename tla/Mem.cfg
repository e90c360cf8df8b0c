SPECIFICATION Spec
CONSTANTS
  Runs = {r1, r2, r3, r4}
  Sessions = {s1, s2}
  Users = {u1, u2}
  Conversations = {c1, c2}
SYMMETRY Symmetry
INVARIANTS
  IndexAgrees
PROPERTIES
  SaveEndures
  KeepsLog
