SPECIFICATION SematestSpec
CONSTANT N = 4
INVARIANT SuccessMeans
PROPERTY Exits
