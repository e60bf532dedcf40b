SPECIFICATION StatsFairSpec
CONSTANTS
  Pids <- TwoPids
  Clients <- OneClient
  Stale = 2
  Stall = 1
  Budgets <- TwoBudgets
  MaxCount = 1
  MaxLines = 2
INVARIANTS KillsOldTails RateOfOneApp StalledIsTrue
PROPERTIES TailsEnd SilenceIsShown
CHECK_DEADLOCK FALSE
