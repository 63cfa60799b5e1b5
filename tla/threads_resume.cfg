SPECIFICATION ThreadSpec
CONSTANTS
  Callers = {h1}
  Nobody = Nobody
  Itself = Itself
  Creation = {FALSE}
  SuspendWord = 8
  MaxSuspends = 2
INVARIANT ResumedAsOften
CHECK_DEADLOCK FALSE
