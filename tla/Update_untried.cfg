SPECIFICATION Spec
CONSTANTS
  MaxVersion = 3
  Works = {1, 2}
  Retries = 5
  MaxCuts = 2
  MaxFaults = 0
INVARIANTS
  ImageWorks
