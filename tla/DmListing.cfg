SPECIFICATION Spec
CONSTANTS
  TradeIndex = 2
  Tweak = 1
  FakeSince = 2
  HalfHour = 1
  SevenDays = 2
  Sinces = {0, 1, 2, 3}
  MaxTime = 3
  MaxMessages = 2
CHECK_DEADLOCK FALSE
INVARIANTS TypeOK ShownIsAskedFor WindowCovers
