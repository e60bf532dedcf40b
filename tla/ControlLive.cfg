SPECIFICATION FairSpec
CONSTANTS
  f1 = f1
  f2 = f2
  f3 = f3
  MaxPlays = 1
  MaxDeclares = 2
  Fds <- TwoFds
  PingAnswers = {"Reachable", "Unreachable"}
  ProbeAnswers = {"none", "same", "other"}
  MayCrash = TRUE
PROPERTIES
  StopReleasesTarget
  PlayIsAnswered
CHECK_DEADLOCK FALSE
