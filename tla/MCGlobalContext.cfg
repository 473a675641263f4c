SPECIFICATION MCLiveSpec
CONSTANTS
  t1 = t1
  t2 = t2
  h1 = h1
  s1 = s1
  s2 = s2
  Seeds = {s1, s2}
  Threads <- MCThreads
  Handlers <- MCHandlers
  Procs <- MCProcs
  MAX_SPINLOCK_ATTEMPTS = 2
INVARIANTS
  TypeOK
  UniqueGuard
  NoDataRace
  ContextsIntact
PROPERTIES
  CallReturns
  OnlySeededCallsReplace
  ImplementsCell
