SPECIFICATION HostSpec
CONSTANTS
  MaxRevision = 4
  NativeIds = {view}
  HostSurfaceId = view
  Metrics = {m1, m2}
  MaxGeneration = 2
  NoSurface = NoSurface
  PointerIds = {p1, p2}
  Positions = {0}
  NonFinite = NonFinite
  Unknown = Unknown
  MaxPointers = 2
  MaxSupported = 2
  MaxEvents = 2
  MaxTime = 1
  MaxSurface = 2
  States = {s1, s2, s3}
  FirstState = s1
  Capacity = 3
  NoState = NoState
CHECK_DEADLOCK FALSE
SYMMETRY TouchSymmetry
INVARIANTS ViewInvariant NoPointerOutlivesItsTouch
PROPERTIES LeavingActiveCancels IsBoundedFifo ClosedQueueDrains
