SPECIFICATION Spec
CONSTANTS
  t1 = t1
  t2 = t2
  NoTarget = NoTarget
  Targets <- OneTarget
  Legacy <- NoLegacy
  Slots <- TwoSlots
  OutlivesSession = TRUE
INVARIANT GenuineKept
