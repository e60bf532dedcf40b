SPECIFICATION Spec
CONSTANTS
  t1 = t1
  t2 = t2
  NoTarget = NoTarget
  Targets <- TwoTargets
  Legacy <- OneLegacy
  Slots <- OneSlot
  OutlivesSession = FALSE
INVARIANTS GenuineKept ShownIsTrue RealRefIsGenuine
