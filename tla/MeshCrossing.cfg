CONSTANTS
  Size = 1
  Node = {1, 2}
  Id = {1, 2}
  NoNode = NoNode
  MaxJoins = 2
  MaxLeaves = 0
  MaxTimeouts = 1
  MaxSends = 1
  WritesFail = TRUE
  JoinsWait = FALSE
SPECIFICATION FairSpec
INVARIANT TypeOK
INVARIANT EndsAgree
PROPERTY MeshConverges
PROPERTY ReadLossIsBounded
