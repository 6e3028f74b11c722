SPECIFICATION ServicesSpec
CONSTANTS
  PointerIds = {n1, n2, n3}
  Positions = {0, 1}
  NonFinite = NonFinite
  Unknown = Unknown
  MaxPointers = 2
  MaxEvents = 3
  MaxTime = 1
  MaxSurface = 2
  Threads = {n1, n2, n3}
  CapacityBytes = 3
  Sizes = {1, 2, 4}
  Events = {e1, e2}
  Handles = {n1, n2, n3}
  MaxId = 4
  MaxDepth = 2
  None = None
SYMMETRY ServicesSymmetry
INVARIANTS
  TouchInvariant CleanupSucceeds FrameExplainsPointers
  BudgetBalances
  DispatcherInvariant DispatchIsFair
PROPERTIES
  EndsAreReported RefusalsAreDeserved
  SkipsTheDisconnected
CHECK_DEADLOCK FALSE
