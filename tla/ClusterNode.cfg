CONSTANTS
  Size = 2
  Node = {1, 2, 3}
  Me = 2
  Id = {a, b}
  NoNode = NoNode
  NoId = NoId
SPECIFICATION Spec
SYMMETRY IdSymmetry
INVARIANT TypeOK
INVARIANT EstablishedIsLive
INVARIANT SingleConnection
INVARIANT WheelMatchesConnections
INVARIANT MembersBeforeEstablished
INVARIANT PanicsOnlyWithoutExecutor
PROPERTY TimeoutsHold
PROPERTY OnlyHeardPeersAreRearmed
CHECK_DEADLOCK FALSE
