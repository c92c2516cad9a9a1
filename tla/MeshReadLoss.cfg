CONSTANTS
  Size = 1
  Node = {1, 2}
  Id = {1, 2, 3}
  NoNode = NoNode
  MaxJoins = 2
  MaxLeaves = 1
  MaxTimeouts = 1
  MaxSends = 0
  WritesFail = TRUE
  JoinsWait = FALSE
SPECIFICATION Spec
PROPERTY ReadIsApplied
