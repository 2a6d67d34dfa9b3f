SPECIFICATION Spec
CONSTANTS
  Native = {"n"}
  Context = {"c1", "c2", "c3"}
  Runtime = {"r1", "r2"}
  RuntimeOf <- ContextRuntimes
  Method = {"plain", "copy"}
  Owned = {"copy"}
  Prefixed = {"copy"}
  None = None
  MaxWrappers = 3
INVARIANTS
  OneWrapperEach
  WrappedNativesLive
