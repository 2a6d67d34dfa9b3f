SPECIFICATION Spec
CONSTANTS
  Context = {c1, c2}
  n0 = n0
  k1 = k1
  u = u
  o1 = o1
  o2 = o2
  o3 = o3
  p = p
  q = q
  NSObject = n0
  Class = {n0, k1}
  Unknown = {u}
  Object = {o1, o2, o3}
  ClassOf <- MCClassOf
  Property = {p, q}
  Declared <- MCDeclared
  Builtin = {q}
  None = None
INVARIANTS
  EntryHoldsItsClasses
  LooksFindTheClass
PROPERTY
  NamesKeepTheirKind
SYMMETRY Symmetry
