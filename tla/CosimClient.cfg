CONSTANT MaxRequests = 3
SPECIFICATION Spec
INVARIANTS ResultUnlessInterrupted InStep GroupGone
PROPERTY ComesBack
