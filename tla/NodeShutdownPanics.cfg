CONSTANTS
  MaxQueue = 2
  MaxSends = 0
  Fails = FALSE
  Service = FALSE
SPECIFICATION Spec
CHECK_DEADLOCK FALSE
INVARIANT NoThreadPanics
