\* One thread that makes one call after another, with nobody to contend
\* with and no interrupts.
SPECIFICATION Spec
CONSTANTS
  Seeds = {s1, s2}
  Threads = {t1}
  Handlers = {}
  Procs = {t1}
  MAX_SPINLOCK_ATTEMPTS = 1
PROPERTY MixesPreviousEntropy
