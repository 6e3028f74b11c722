SPECIFICATION Spec
CONSTANTS
  MaxRevision = 4
  NativeIds = {w1}
  Metrics = {m1}
  MaxGeneration = 2
  NoSurface = NoSurface
  MaxCount = 4
  StartClocks <- StartsBelowZero
  MaxClock = 5
  FixedStep = 2
  MaxFrameDelta = 4
  MaxStepsPerFrame = 1
  NoFrame = NoFrame
INVARIANTS TypeOK LossStopsTheLoop SimulatedWithinActiveTime
PROPERTY FrameChargesOnlyItsEpoch
