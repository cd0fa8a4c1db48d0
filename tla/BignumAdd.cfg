SPECIFICATION FairSpec
CONSTANTS
  B = 2
  MemSize = 5
  MaxSize = 3
INVARIANTS TypeOK SourcesIntact PartialSum
PROPERTIES Implements Terminates
