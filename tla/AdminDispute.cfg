\* two admin commands, two disputes, replies that may come late
CONSTANTS
  Procs = {p1, p2}
  Disputes = {d1, d2}
  MaxRequests = 3
SYMMETRY AdminSymmetry
SPECIFICATION Spec
INVARIANTS TypeOK SuccessIsOfItsKind SuccessIsRealIfAlone
