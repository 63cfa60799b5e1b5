SPECIFICATION FunctionsSpec
CONSTANTS
  t1 = t1  t2 = t2  main = main  leaf = leaf
  Resolvers = {t1, t2}
  Functions = {main, leaf}
  NoFunction = NoFunction
  Calls <- CallsOf
  MaxUnloads = 0
INVARIANT ReadyIsDefined
