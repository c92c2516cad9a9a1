CONSTANTS
  Size = 2
  Id = {i, j}
  Request = {1}
  NoCid = NoCid
  NoConn = NoConn
  Loose = TRUE
  IdleTimeout = FALSE
  Failing = {}
  Room = 1
  MaxOutput = 1
  MaxReplies = 0
  Chunk = {"message", "part", "garbage"}
  MaxChunks = 1
SPECIFICATION FairSpec
CHECK_DEADLOCK FALSE
PROPERTY RequestsEnd
PROPERTY GoneClientsAreDropped
