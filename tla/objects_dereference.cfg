SPECIFICATION Spec
CONSTANTS
  a = a  b = b  named = named
  t1 = t1  t2 = t2  t3 = t3
  Threads = {t1, t2, t3}
  Objects = {a, b}
  NoObject = NoObject
  Names = {named}
  NoName = NoName
  Titles <- OneTitle
  Capacity = 3
  NoHandle = NoHandle
  MaxUses = 1
INVARIANTS HandleDenotes
CHECK_DEADLOCK FALSE
