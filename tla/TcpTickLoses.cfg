CONSTANTS
  Size = 2
  Id = {i, j}
  Request = {1}
  NoCid = NoCid
  NoConn = NoConn
  Loose = FALSE
  IdleTimeout = FALSE
  Failing = {"tick"}
  Room = 1
  MaxOutput = 1
  MaxReplies = 1
  Chunk = {"message", "part", "garbage"}
  MaxChunks = 2
SPECIFICATION Spec
CHECK_DEADLOCK FALSE
INVARIANT RequestsAreTimed
