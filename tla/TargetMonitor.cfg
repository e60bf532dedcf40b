SPECIFICATION FairSpec
CONSTANTS
  t1 = t1
  t2 = t2
  p1 = p1
  p2 = p2
  p3 = p3
  NoTarget = NoTarget
  NoAnswer = NoAnswer
  Targets <- TwoTargets
  Probes <- ThreeProbes
  MaxStarts = 4
  MaxChecks = 4
INVARIANTS OneProbeOfTarget
PROPERTIES SharesOneAnswer SearchEnds
CHECK_DEADLOCK FALSE
