SPECIFICATION Spec
CONSTANTS
  t1 = t1  t2 = t2  t3 = t3
  manual = manual  auto = auto  sem = sem  mut1 = mut1
  NoThread = NoThread
  Threads = {t1, t2}
  ManualEvents = {}
  AutoEvents = {}
  Semaphores = {sem}
  Mutants = {}
  MaximumCount <- MaxSem2
  InitialCount <- InitSem1
  UintMod = 8
  WaitLists <- SemList
  Releasers = {t1, t2}
  StrayReleasers = {}
  Exiters = {}
  MaxRelease = 2
  MaxRecursion = 2
INVARIANTS SemaphoreBound
