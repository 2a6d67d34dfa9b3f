SPECIFICATION RefSpec
CONSTANTS
  Context = {"c1", "c2", "c3"}
  Runtime = {"r1", "r2"}
  Object = {"x", "other"}
  RuntimeOf <- ContextRuntimes
  HeapOf <- ObjectHeaps
  Primitive = "primitive"
  None = None
  MaxMaps = 2
INVARIANTS
  NoDanglingRoot
