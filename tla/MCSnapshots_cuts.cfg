SPECIFICATION Spec
CONSTANTS
  NPaths = 3
  Contents = {1}
  Packs <- MCPacks
  Keep = 2
  ListMax = 2
  MaxId = 3
  MaxEdits = 1
  MaxCuts = 1
  MaxFaults = 1
INVARIANTS
  SnapshotsSound
  NoLitter
  UnpackLosesNothing
  RestoreExact
PROPERTIES
  NewestKept
