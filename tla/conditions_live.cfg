SPECIFICATION FairSpec
CONSTANTS
  t1 = t1  t2 = t2  t3 = t3
  manual = manual  auto = auto  sem = sem  mut1 = mut1
  NoThread = NoThread
  Threads = {t1, t2}
  ManualEvents = {manual}
  AutoEvents = {}
  Semaphores = {sem}
  Mutants = {mut1}
  MaximumCount <- MaxSem2
  InitialCount <- InitSem1
  UintMod = 8
  WaitLists <- LiveLists
  Releasers = {t1, t2}
  StrayReleasers = {t2}
  Exiters = {t2}
  MaxRelease = 2
  MaxRecursion = 2
PROPERTIES OverrunNeedsARace WaitersServed
