SPECIFICATION Spec
CONSTANTS
  Procs = {p1, p2}
  N = 2
  Components = {c1}
PROPERTY StoppedIsFinal
