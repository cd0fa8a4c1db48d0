SPECIFICATION LockstepSpec
CONSTANTS
  B = 2
  MemSize = 3
  MaxSize = 3
INVARIANT ConstantTime
