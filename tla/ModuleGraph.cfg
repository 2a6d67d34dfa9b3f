SPECIFICATION GraphSpec
CONSTANTS
  DotName = {}
  Id <- FlatIds
  LocalId = {}
  GlobalId = {}
  Value = {}
  Block = Block
  Nil = Nil
  MaxLoads = 8
  MaxImports = 2
INVARIANTS
  WorkBounded
PROPERTY
  RequireReturns
CHECK_DEADLOCK FALSE
