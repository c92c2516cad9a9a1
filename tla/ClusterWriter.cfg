CONSTANTS
  Room = 2
  MaxFrames = 7
SPECIFICATION FairSpec
CHECK_DEADLOCK FALSE
INVARIANT KeptFramesAwaitEvent
INVARIANT FramesInOrder
PROPERTY FramesArrive
PROPERTY NoIdleEvents
