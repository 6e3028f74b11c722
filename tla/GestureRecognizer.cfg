SPECIFICATION Spec
CONSTANTS
  PointerIds = {p1, p2, p3}
  Positions = {0, 2}
  NonFinite = NonFinite
  None = None
  MaxTime = 2
  MaxSurface = 1
  MaxTracks = 3
  MaxGestures = 4
  MovementThreshold = 1
  DoubleTapDistance = 1
  MinimumSwipeVelocity = 2
  MaximumTapDuration = 1
  DoubleTapInterval = 1
  LongPressDuration = 2
SYMMETRY GestureSymmetry
INVARIANTS GestureInvariant GesturesAreOrderly NoGestureIsForgotten
