CONSTANTS
  Size = 1
  Node = {1, 2, 3}
  Id = {1, 2, 3}
  NoNode = NoNode
  MaxJoins = 2
  MaxLeaves = 0
  MaxTimeouts = 0
  MaxSends = 0
  WritesFail = FALSE
  JoinsWait = FALSE
SPECIFICATION FairSpec
PROPERTY MeshConverges
