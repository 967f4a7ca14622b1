SPECIFICATION Spec
CONSTANTS
  NTasks = 2
  NFds = 2
  disk = disk
  ram = ram
  Names = {disk, ram}
  x = x
  y = y
  Data = {x, y}
  Modes = {"r", "w"}
  Initially <- MCInitially
  OpenMax = 2
  WriteMax = 1
  Cap <- MCCap
  MaxOpens = 2
  MaxWrites = 2
  MaxOthers = 1
  MaxFaults = 1
SYMMETRY MCSymmetry
INVARIANTS
  DescriptorsSound
  CloseHonest
  AppendKeeps
  ExitOrder
PROPERTIES
  OnlyWritersWrite
