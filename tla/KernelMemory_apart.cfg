SPECIFICATION Spec
CONSTANTS
  NFrames = 11
  KernelFrames = 1
  FrameWords = 4
  Header = 1
  MinSplit = 1
  RegionFrames = 5
  MaxExtra = 1
  NTasks = 2
  StackSize = 3
  Sizes = {2}
  MaxHeld = 2
  BrkMax = 2
  TablePages = 1
  Floor = 2
  MaxLive = 4
INVARIANTS
  MemorySound
  PagesHonest
PROPERTIES
  NoFrameLost
  GivesMemory
