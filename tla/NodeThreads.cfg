CONSTANTS
  MaxQueue = 3
  MaxSends = 2
  Fails = TRUE
  Service = TRUE
SPECIFICATION Spec
CHECK_DEADLOCK FALSE
PROPERTY ShutdownEndsAll
PROPERTY ExecutorEndsNode
PROPERTY ServiceStops
