CONSTANTS
  Waiters = {n1, n2, n3, n4}
  Signalers = {s1, s2}
  Nobody = Nobody
SPECIFICATION Spec
SYMMETRY Symmetry
INVARIANT ChainExact
PROPERTY ListIsLine
