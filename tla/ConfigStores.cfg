SPECIFICATION Spec
CONSTANTS
  t1 = t1
  t2 = t2
  root = root
  user = user
  cams = cams
  key = key
  Blank = Blank
  Nothing = Nothing
  Unreadable = Unreadable
  NDirs = 2
  NRead = 3
  Targets <- TwoTargets
  Users <- TwoUsers
  CamLists <- OneCamList
  DefaultTarget = t1
  DefaultUser = root
  Keys <- OneKey
  MaxTime = 3
INVARIANT UserOfTarget
PROPERTY CopiesAreOneFile
CHECK_DEADLOCK FALSE
