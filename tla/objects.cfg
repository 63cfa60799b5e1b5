SPECIFICATION Spec
CONSTANTS
  a = a  b = b  named = named
  t1 = t1  t2 = t2  t3 = t3
  Threads = {t1, t2, t3}
  Objects = {a, b}
  NoObject = NoObject
  Names = {named}
  NoName = NoName
  Titles <- FourTitles
  Capacity = 3
  NoHandle = NoHandle
  MaxUses = 2
SYMMETRY Alike
INVARIANTS
  EveryHandleDenotes NoUseLeaks PointersCounted
CHECK_DEADLOCK FALSE
