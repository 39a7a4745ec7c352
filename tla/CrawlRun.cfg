SPECIFICATION FairSpec
CONSTANTS
  scheduler = scheduler
  command = command
  all = all
  phones = phones
  r1 = r1
  r2 = r2
  r3 = r3
  None = None
  Process <- MCProcess
  Scheduled = scheduler
  Scope <- MCScope
  Full = all
  Row <- MCRow
  MaxUnits = 2
  MaxFaults = 1
  LockCanBeLost = TRUE
INVARIANTS
  CrawlInv
  OneLiveRun
  VerdictMatchesRows
PROPERTIES
  RecoversDeadRunsOnly
  NoRunStaysRunning
  LockIsReleased
