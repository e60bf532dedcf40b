SPECIFICATION Spec
CONSTANTS
  t1 = t1
  t2 = t2
  NoTarget = NoTarget
  None = None
  Failed = Failed
  Known = Known
  Targets <- TwoTargets
  Cams <- OneCam
  MaxJobs = 2
INVARIANTS EncodedAsCached SizeOfThisTarget NoneForgotten
CHECK_DEADLOCK FALSE
