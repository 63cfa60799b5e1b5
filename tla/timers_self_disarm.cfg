SPECIFICATION FairSpec
CONSTANTS
  once = once  recurring = recurring  other = other
  Items = {recurring}
  Kick = Kick
  NoItem = NoItem
  Threads = {t1}
  Interval <- Intervals
  Capacity = 3
  MaxTime = 2
  DisarmCalls = 2
PROPERTIES CallbackDisarmReturns
CHECK_DEADLOCK FALSE
