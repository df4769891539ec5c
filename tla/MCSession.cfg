CONSTANTS
  Rate = 3
  MaxFlushes = 2
  Enabled <- SomeKinds
  MaxTime = 15
  MaxGC = 3
  MaxFailures = 2
SPECIFICATION Spec
INVARIANT TickWindowsAdvance
INVARIANT FlushSkewBounded
INVARIANT OnlyFailedMissing
INVARIANT SpoilsOneUpload
INVARIANT NoCollectionMissed
CHECK_DEADLOCK FALSE
