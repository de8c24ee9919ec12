SPECIFICATION FairSweep
CONSTANTS
  Requests = {r1, r2}
  HeartbeatLimit = 2
  Texts = {t1}
  Unset = Unset
  OtherJobs = {"CATCH"}
  MaxBatches = 2
  MaxLeft <- LeftOfPulse
INVARIANTS
  TokensFollowTheCount
  ExpiryIsFinal
  OneSweepPerJob
  ClosedIsQuiet
PROPERTIES
  MonitorIsMetered
  LapsedIsClosed
