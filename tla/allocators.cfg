SPECIFICATION PartsSpec
CONSTANTS
  t1 = t1  t2 = t2  g1 = g1  g2 = g2
  Threads = {t1, t2}
  Last = 1
  Bits = {0, 1}
  MaxBits = 2
  Guests = {g1, g2}
  kContextCount = 2
  NoContext = NoContext
  PageCount = 6
  AllocEnd = 4
  SystemPage = 2
  MaxTakeovers = 1
  Strides = {1, 2}
INVARIANTS
  HandedOutOnce FailsForAReason ContextsAreApart NoKickLost
  RegionsAreWhole FirstFit
CHECK_DEADLOCK FALSE
