CONSTANTS
  Size = 1
  Node = {1, 2}
  Id = {1, 2}
  NoNode = NoNode
  MaxJoins = 1
  MaxLeaves = 0
  MaxTimeouts = 0
  MaxSends = 1
  WritesFail = FALSE
  JoinsWait = FALSE
SPECIFICATION FairSpec
PROPERTY MembersAreReached
