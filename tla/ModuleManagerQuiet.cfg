SPECIFICATION QuietSpec
CONSTANTS
  DotName = {}
  Id <- RelativeIds
  LocalId <- Root
  GlobalId <- Leaf
  Value = {v1}
  Block = Block
  Nil = Nil
  MaxLoads = 3
INVARIANTS
  TypeOK
  StackMatchesFrames
  NoOrphanedExports
  CycleSeesOwnExports
  OneActivation
PROPERTY
  CacheSpec
