SPECIFICATION PhysicsSpec
CONSTANTS
  Objects = {a, b}
  ComponentTypes = {Transform}
  Transform = Transform
  MaxSceneId = 3
  MaxEntities = 3
  MaxGeneration = 2
  None = None
  Budget = 6
  MaxBodies = 3
  MaxContacts = 2
  MaxBodyGeneration = 2
CONSTRAINT Bounded
SYMMETRY ObjectSymmetry
INVARIANTS HandlesDieOnce BridgeInvariant ContactsKeepTheirEntities
PROPERTIES ContactEventsMakeSense StepRetiresTheGone
CHECK_DEADLOCK FALSE
