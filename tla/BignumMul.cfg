SPECIFICATION FairSpec
CONSTANTS
  B = 2
  MemSize = 6
  MaxSize = 3
INVARIANTS TypeOK PartialProduct
PROPERTIES Implements Terminates
