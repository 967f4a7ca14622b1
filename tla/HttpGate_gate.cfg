SPECIFICATION FairSpec
CONSTANTS
  Apps = {a1, a2}
  Desktop = desktop
  Statuses = {200, 404}
INVARIANTS
  StatusTrue
  FlightGuards
  HeaderMine
  NotOrphaned
  Ring3Alone
PROPERTIES
  FetchEnds
