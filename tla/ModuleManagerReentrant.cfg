SPECIFICATION RaisingSpec
CONSTANTS
  DotName = {}
  Id <- RelativeIds
  LocalId = {}
  GlobalId <- Leaf
  Value = {v1}
  Block = Block
  Nil = Nil
  MaxLoads = 3
INVARIANTS
  StackNeverUnderflows
  OrderlyUnlessRaised
