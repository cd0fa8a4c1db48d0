SPECIFICATION FairSpec
CONSTANTS
  B = 4
  MemSize = 4
  MaxSize = 3
INVARIANTS TypeOK Window
PROPERTIES Implements Terminates
