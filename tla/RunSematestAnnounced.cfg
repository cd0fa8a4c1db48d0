SPECIFICATION SematestSpec
CONSTANT N = 3
INVARIANT AnnouncedPassed
