SPECIFICATION Spec
CONSTANTS
  a = a
  b = b
  usd = usd
  sell = sell
  NoTag = NoTag
  Ids = {a, b}
  Kinds = {sell}
  Fiats = {usd}
  Relays = {r1, r2}
  Limit = 2
  Week = 1
  MaxTime = 2
  MaxEvents = 3
  Filters <- MCFilters
SYMMETRY Symmetry
CHECK_DEADLOCK FALSE
INVARIANTS TypeOK ListedIsNewest OncePerId NoneLost OpenOrdersListed
