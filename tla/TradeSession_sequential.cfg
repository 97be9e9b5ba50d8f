\* one command at a time, no reply outlives its command
CONSTANTS
  Procs = {p1}
  MadeOrders = {made1, made2}
  BookOrders = {book1}
  ChildOrders = {child1}
  Ranged = {made1}
  TakeReplies = {"AddInvoice"}
  Pushes = {"Canceled", "RateReceived"}
  LateReplies = FALSE
  MaxRid = 4
  NoRow = NoRow
  NoOrder = NoOrder
SPECIFICATION Spec
INVARIANTS TypeOK KeyCoverage KeyPerOrder SyncedIndexIsReal
PROPERTIES ImplementsLedger
\* a bounded number of commands: behaviours end
CHECK_DEADLOCK FALSE
