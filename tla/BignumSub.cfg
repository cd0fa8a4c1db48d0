SPECIFICATION FairSpec
CONSTANTS
  B = 3
  MemSize = 4
  MaxSize = 3
INVARIANTS TypeOK SourcesIntact PartialDifference
PROPERTIES Implements Terminates
