CONSTANTS
  b1 = b1
  b2 = b2
  b3 = b3
  k1 = k1
  k2 = k2
  Buckets <- TheBuckets
  Keys <- TheKeys
  KeyOf <- TheKeyOf
  GHz = 2
  Delays <- TheDelays
  MaxEvents = 3
  MaxPanics = 1
SPECIFICATION Spec
INVARIANT DeltasAddUp
INVARIANT OneSamplePerStack
INVARIANT HealsAfterPanic
PROPERTY ProfileEnds
