SPECIFICATION ArchiveSpec
CONSTANTS
  Objects = {a}
  Narrow = Narrow
  Wide = Wide
  ComponentTypes = {Narrow, Wide}
  TypeId <- MCTypeId
  Width <- MCWidth
  DefaultLimits <- MCDefaultLimits
  Limits <- MCLimits
  MaxSceneId = 2
  MaxEntities = 4
  MaxGeneration = 2
  MaxSlots = 3
  None = None
CONSTRAINT Bounded
INVARIANTS SceneInvariant HierarchyIsForest ComponentsFollowTheirEntity SavedSceneComesBack NothingIsDropped
CHECK_DEADLOCK FALSE
