SPECIFICATION FairSpec
CONSTANTS
  t1 = t1
  i1 = i1
  Shim = Shim
  NoTarget = NoTarget
  Targets <- OneTarget
  Users <- TwoUsers
  Keyed <- RootKeyed
  Silent <- NoneSilent
  Installs <- OneInstall
  Others <- NoOthers
INVARIANTS HostKeyHarmless PaysOnce CommandsAsConfirmed
PROPERTIES LoginSettles LoginIsFound
CHECK_DEADLOCK FALSE
