SPECIFICATION Spec
CONSTANTS
  Thread = {t1, t2}
  NoThread = NoThread
  MaxDepth = 2
  MaxLeft = 1
SYMMETRY Symmetry
INVARIANTS
  LockMatchesCalls
  ErrorStackBalanced
  ResultsSurvive
  ErrorsReachTheirCaller
