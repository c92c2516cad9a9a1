CONSTANTS
  Size = 2
  Id = {i}
  Request = {1}
  NoCid = NoCid
  NoConn = NoConn
  Loose = TRUE
  IdleTimeout = FALSE
  Failing = {}
  Room = 1
  MaxOutput = 1
  MaxReplies = 0
  Chunk = {"message", "part", "garbage"}
  MaxChunks = 1
SPECIFICATION Spec
CHECK_DEADLOCK FALSE
INVARIANT PanicsOnlyWithoutExecutor
