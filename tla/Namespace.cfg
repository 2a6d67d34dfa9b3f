SPECIFICATION Spec
CONSTANTS
  Name = {"a", "b"}
  Scalar = {one}
  Undefined = Undefined
  Null = Null
  Nil = Nil
  NSNull = NSNull
  MaxLength = 4
  MaxObjects = 3
INVARIANTS
  ReadsBackUncrossed
  ShortSetsKeepTheRest
  CopiesEnd
  CopiesReadAlike
CHECK_DEADLOCK FALSE
