CONSTANTS
  Size = 1
  Node = {1, 2}
  Id = {1, 2}
  NoNode = NoNode
  MaxJoins = 1
  MaxLeaves = 1
  MaxTimeouts = 0
  MaxSends = 0
  WritesFail = FALSE
  JoinsWait = FALSE
SPECIFICATION FairSpec
PROPERTY JoinConnects
