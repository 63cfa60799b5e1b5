SPECIFICATION PartsSpec
CONSTANTS
  t1 = t1  t2 = t2  t3 = t3
  r1 = r1  r2 = r2  r3 = r3  w1 = w1  w2 = w2
  c1 = c1  c2 = c2  c3 = c3
  main = main  leaf = leaf
  Threads = {t1, t2, t3}
  NoThread = NoThread
  SpinCount = 1
  MaxDepth = 2
  Readers = {r1, r2, r3}
  Writers = {w1, w2}
  CountWord = 8
  Users = {c1, c2, c3}
  NoUser = NoThread
  kMaxNotifications = 2
  MaxPosts = 5
  Resolvers = {t1, t2, t3}
  Functions = {main, leaf}
  NoFunction = NoThread
  Calls <- CallsOf
  MaxUnloads = 1
  Callers = {t1, t2}
  Nobody = NoThread
  Itself = t3
  Creation = {FALSE, TRUE}
  SuspendWord = 4
  MaxSuspends = 2
  Clients = {0, 1}
  queued_frames = 2
  MaxRegistrations = 3
INVARIANTS
  OneInside NoWaiterForgotten ReadWriteLockIsSound
  EntriesAreRight SuspendedStops OnlyOverdueLacksRoom FreshHandshake
PROPERTIES
  StrandedOnlyIfFull ActsAsLock WriterEnters ResolvedInTheEnd ResumedGoesOn AudioPauseReturns
CHECK_DEADLOCK FALSE
