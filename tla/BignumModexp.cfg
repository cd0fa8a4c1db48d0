SPECIFICATION Spec
CONSTANTS
  WordBits = 2
  Problems <- MCProblems
INVARIANTS TypeOK PowerSoFar Result
PROPERTY Terminates
