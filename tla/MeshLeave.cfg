CONSTANTS
  Size = 1
  Node = {1, 2}
  Id = {1, 2}
  NoNode = NoNode
  MaxJoins = 1
  MaxLeaves = 1
  MaxTimeouts = 1
  MaxSends = 0
  WritesFail = TRUE
  JoinsWait = FALSE
SPECIFICATION FairSpec
PROPERTY LeaveDisconnects
