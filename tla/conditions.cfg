SPECIFICATION RaceFreeSpec
CONSTANTS
  t1 = t1  t2 = t2  t3 = t3
  manual = manual  auto = auto  sem = sem  mut1 = mut1
  NoThread = NoThread
  Threads = {t1, t2, t3}
  ManualEvents = {}
  AutoEvents = {auto}
  Semaphores = {sem}
  Mutants = {mut1}
  MaximumCount <- MaxSem2
  InitialCount <- InitSem1
  UintMod = 8
  WaitLists <- MixedLists
  Releasers = {t1, t2, t3}
  StrayReleasers = {}
  Exiters = {}
  MaxRelease = 2
  MaxRecursion = 2
SYMMETRY ThreadSymmetry
INVARIANTS MutantExclusive NoLostWakeup
PROPERTIES AtomicObjects
