SPECIFICATION FairSpec
CONSTANTS
  job = job
  visitor = visitor
  mall = mall
  None = None
  Task <- MCTask
  Job <- MCJob
  Host <- MCHost
  Concurrency = 2
  MinDelay = 1
  MaxDelay = 2
  RetryAttempts = 2
  MaxRedirects = 1
  MaxBackoff = 1
  Body <- ThreeBodies
  TrustedPrice = 1
  MaxUnits = 2
  MaxFaults = 1
CHECK_DEADLOCK FALSE
INVARIANTS
  EvidenceIsWhole
  RecordsSpeakOfTheirPage
  FirstPageIsKept
PROPERTIES
  SendsAreSpaced
  EveryUnitIsRecorded
