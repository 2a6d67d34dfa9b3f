SPECIFICATION LoopSpec
CONSTANTS
  DotName = {".hidden"}
  Name = {"a", "b", ".hidden"}
  MaxLength = 6
INVARIANTS
  DotsOnlyInFront
  NormalWithinOneClimb
  PlainIdIsAbsolute
CHECK_DEADLOCK FALSE
