SPECIFICATION Spec
CONSTANTS
  f1 = f1
  f2 = f2
  f3 = f3
  MaxPlays = 2
  MaxDeclares = 3
  Fds <- ThreeFds
  PingAnswers = {"Reachable"}
  ProbeAnswers = {}
  MayCrash = FALSE
SYMMETRY FdSymmetry
INVARIANTS
  StoredFdIsLive
  RetryBudget
  IdleIsQuiet
PROPERTIES
  OneConnectionHeld
CHECK_DEADLOCK FALSE
