CONSTANTS
  Size = 2
  Id = {i}
  Request = {1}
  NoCid = NoCid
  NoConn = NoConn
  Loose = FALSE
  IdleTimeout = FALSE
  Failing = {}
  Room = 1
  MaxOutput = 2
  MaxReplies = 2
  Chunk = {"message", "part", "garbage"}
  MaxChunks = 1
SPECIFICATION FairSpec
CHECK_DEADLOCK FALSE
PROPERTY BufferedRepliesAreWritten
