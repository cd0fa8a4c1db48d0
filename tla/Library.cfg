\* A behaviour is one call: it stops when the function has returned.
SPECIFICATION Spec
INVARIANTS FieldsKeepPromise PointsKeepPromise NumbersKeepPromise PolynomialsKeepPromise
CHECK_DEADLOCK FALSE
