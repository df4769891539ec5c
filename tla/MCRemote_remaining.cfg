CONSTANTS
  s = s
  p = p
  w1 = w1
  w2 = w2
  j1 = j1
  j2 = j2
  j3 = j3
  None = None
  Callers <- TwoCallers
  Flushers <- OneFlusher
  Workers <- TwoWorkers
  Jobs <- ThreeJobs
  QueueCap = 2
  MaxFlushes = 1
  MayStop = TRUE
SYMMETRY WorkersAndJobs
SPECIFICATION Spec
INVARIANT StopUploadsRemaining
CHECK_DEADLOCK FALSE
