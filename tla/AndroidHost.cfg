SPECIFICATION HostSpec
CONSTANTS
  MaxRevision = 4
  NativeIds = {1, 2}
  MaxNativeId = 2
  Metrics = {m1, m2}
  MaxGeneration = 2
  NoSurface = NoSurface
  PointerIds = {p1, p2}
  Positions = {0}
  NonFinite = NonFinite
  Unknown = Unknown
  MaxPointers = 2
  MaxEvents = 3
  MaxTime = 2
  MaxSurface = 2
CHECK_DEADLOCK FALSE
SYMMETRY HostSymmetry
INVARIANTS HostInvariant NothingRefused
PROPERTY MetricsChangeEndsGestures
