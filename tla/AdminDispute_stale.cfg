\* the same, against what the comments promise
CONSTANTS
  Procs = {p1, p2}
  Disputes = {d1, d2}
  MaxRequests = 3
SYMMETRY AdminSymmetry
SPECIFICATION Spec
INVARIANTS SuccessIsReal
