SPECIFICATION Spec
CONSTANTS
  job = job
  visitor = visitor
  mall = mall
  None = None
  Task <- MCTask
  Job <- MCJob
  Host <- MCHost
  Concurrency = 2
  MinDelay = 1
  MaxDelay = 2
  RetryAttempts = 2
  MaxRedirects = 1
  MaxBackoff = 1
  Body <- FourBodies
  TrustedPrice = 1
  MaxUnits = 1
  MaxFaults = 0
CHECK_DEADLOCK FALSE
INVARIANT NoUpgradeByReplay
