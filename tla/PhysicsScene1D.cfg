SPECIFICATION PhysicsSpec
CONSTANTS
  Entities = {a, b, c}
  Definitions <- MCDefinitions
  MaxNumber = 3
  MaxBodies = 3
  MaxContacts = 2
  MaxBodyGeneration = 2
  Nothing = Nothing
  Placements = {0, 2}
  Velocities = {0, 2}
  Changes = {2, 3}
  Gravities = {0}
  Budget = 4
  Origins <- MCOrigins
  Lengths = {1, 3}
CONSTRAINT Bounded
SYMMETRY EntitySymmetry
INVARIANTS BridgeInvariant GameKnowsTheContacts QueriesAgree CollisionsResolve
