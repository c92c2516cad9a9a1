CONSTANTS
  Size = 2
  Id = {i, j}
  Request = {1}
  NoCid = NoCid
  NoConn = NoConn
  Loose = FALSE
  IdleTimeout = TRUE
  Failing = {"read", "envelope"}
  Room = 1
  MaxOutput = 2
  MaxReplies = 2
  Chunk = {"message"}
  MaxChunks = 1
SYMMETRY Symmetry
SPECIFICATION Spec
CHECK_DEADLOCK FALSE
INVARIANT TypeOK
INVARIANT OneSlotPerConnection
PROPERTY ConnectionTimeoutsHold
INVARIANT RequestsAreTimed
INVARIANT RepliesStayHome
INVARIANT PanicsOnlyWithoutExecutor
