CONSTANTS
  Size = 1
  Node = {1, 2, 3}
  Id = {1, 2, 3}
  NoNode = NoNode
  MaxJoins = 2
  MaxLeaves = 0
  MaxTimeouts = 0
  MaxSends = 1
  WritesFail = FALSE
  JoinsWait = TRUE
SPECIFICATION FairSpec
INVARIANT EndsAgree
PROPERTY MeshConverges
PROPERTY EnvelopesArrive
