SPECIFICATION FairSpec
CONSTANTS
  MaxVersion = 4
  Works = {1, 2, 4}
  Retries = 5
  MaxCuts = 2
  MaxFaults = 2
INVARIANTS
  ImageWorksAlone
  TrialNamed
  MarkerGone
PROPERTIES
  UpdateEnds
  TrialKept
