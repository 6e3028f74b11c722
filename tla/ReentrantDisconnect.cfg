SPECIFICATION DispatcherSpec
CONSTANTS
  Events = {e1, e2}
  Handles = {h1, h2}
  MaxId = 3
  MaxDepth = 1
  None = None
SYMMETRY DispatcherSymmetry
INVARIANT DisconnectsSafely
CHECK_DEADLOCK FALSE
