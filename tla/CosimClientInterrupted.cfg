CONSTANT MaxRequests = 2
SPECIFICATION Spec
INVARIANT ResultOfRequest
