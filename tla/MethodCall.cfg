CONSTANTS
  NoSelector = NoSelector
  None = None
  Name <- MCName
  Selector <- MCSelector
  MaxArgs = 3
  MaxDepth = 3
  CharBits = 2
  ShortBits = 3
  IntBits = 4
  LongBits = 7
  Mantissa = 5
SPECIFICATION Spec
INVARIANTS
  ColonsMatchArguments
  StandardNamesFound
  ForwardedNamesCallBack
  NumbersSurvive
  StopsHaveAReason
  NoStaleException
  
CHECK_DEADLOCK FALSE
