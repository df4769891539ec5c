CONSTANTS
  s = s
  p = p
  w1 = w1
  w2 = w2
  j1 = j1
  j2 = j2
  j3 = j3
  None = None
  Callers <- TwoCallers
  Flushers <- OneFlusher
  Workers <- TwoWorkers
  Jobs <- TwoJobs
  QueueCap = 1
  MaxFlushes = 2
  MayStop = TRUE
SPECIFICATION FairSpec
INVARIANT WaitGroupCounts
INVARIANT FlushBarrier
INVARIANT PostedAtMostOnce
PROPERTY NoAddDuringWait
PROPERTY RefinesUpstream
PROPERTY UploadReturns
PROPERTY WaitsEnd
CHECK_DEADLOCK FALSE
