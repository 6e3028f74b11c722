SPECIFICATION PipelineSpec
CONSTANTS
  PointerIds = {p1}
  Positions = {0, 2}
  NonFinite = NonFinite
  Unknown = Unknown
  None = None
  MaxTime = 1
  MaxSurface = 2
  MaxPointers = 1
  MaxEvents = 2
  MaxTracks = 1
  MaxGestures = 5
  MovementThreshold = 1
  DoubleTapDistance = 1
  MinimumSwipeVelocity = 2
  MaximumTapDuration = 1
  DoubleTapInterval = 1
  LongPressDuration = 1
  ActionIds = {1, 2}
  MaxBindings = 2
  MaxMapGestures = 4
  MaxActions = 1
  BindingLists <- TwoLists
PROPERTY SurfaceChangeCancels
