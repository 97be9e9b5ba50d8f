\* two commands at a time: a child order under another order's key
CONSTANTS
  Procs = {p1, p2}
  MadeOrders = {made1, made2}
  BookOrders = {book1}
  ChildOrders = {child1}
  Ranged = {made1}
  TakeReplies = {"AddInvoice"}
  Pushes = {}
  LateReplies = FALSE
  MaxRid = 3
  NoRow = NoRow
  NoOrder = NoOrder
SYMMETRY ProcSymmetry
SPECIFICATION Spec
INVARIANTS KeyPerOrder
\* a bounded number of commands: behaviours end
CHECK_DEADLOCK FALSE
