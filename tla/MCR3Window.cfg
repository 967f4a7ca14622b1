SPECIFICATION Spec
CONSTANTS
  NTasks = 2
  NRows = 2
  MaxWindows = 2
  NBlocks = 5
  RingSize = 2
  Widths = {1, 2}
  Heights = {1, 2}
  MaxRefused = 1
  Exits = TRUE
  Resizes = TRUE
CONSTRAINT MCBound
INVARIANTS
  WindowsSound
  ResizeNotLost
  BlitSafe
