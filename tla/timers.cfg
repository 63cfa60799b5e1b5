SPECIFICATION PartsSpec
CONSTANTS
  once = once  recurring = recurring  other = other
  Items = {once, recurring}
  Kick = Kick
  NoItem = NoItem
  Threads = {t1, t2}
  Interval <- Intervals
  Capacity = 1
  MaxTime = 2
  DisarmCalls = 1
  Timers = {x, y}
  Synchronization = {y}
  MaxItems = 3
  Users = {t1}
  Dispatcher = Dispatcher
  None = None
  RingSize = 1
  Calls = 1
  OneSetter = TRUE
INVARIANTS NoCallbackOnceDisarmed CancelIsFinal RunsItsOwnCallback
PROPERTIES DueItemIsDispatched DestructorEnds OnlyTheLastSetSignals CallsReturn
CHECK_DEADLOCK FALSE
