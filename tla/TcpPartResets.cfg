CONSTANTS
  Size = 2
  Id = {i}
  Request = {1}
  NoCid = NoCid
  NoConn = NoConn
  Loose = FALSE
  IdleTimeout = TRUE
  Failing = {}
  Room = 1
  MaxOutput = 0
  MaxReplies = 0
  Chunk = {"message", "part", "garbage"}
  MaxChunks = 1
SPECIFICATION Spec
CHECK_DEADLOCK FALSE
PROPERTY OnlyMessagesReset
