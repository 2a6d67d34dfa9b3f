SPECIFICATION SharingSpec
CONSTANTS
  c1 = c1
  c2 = c2
  r1 = r1
  r2 = r2
  Context = {c1, c2}
  Address = {a1, a2}
  Thread = {t1, t2}
  Runtime = {r1, r2}
  RuntimeOf <- ContextRuntimes
  ModuleId = {m1}
  Native = {n1}
  Block = Block
  MaxNest = 2
  None = None
INVARIANTS
  NeverAnother
  OthersAreFound
  OwnedContextsLive
  CirclesCross
PROPERTY
  ReplacedOnlyInARace
SYMMETRY Symmetry
CHECK_DEADLOCK FALSE
