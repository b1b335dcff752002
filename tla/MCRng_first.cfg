SPECIFICATION Spec
CONSTANTS
  Worker = {w1, w2, w3}
  N = 2
  MaxDraws = 2
INVARIANTS
  NeverUnseeded
  SeededOnce
SYMMETRY Workers
