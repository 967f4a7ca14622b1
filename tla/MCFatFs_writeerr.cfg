SPECIFICATION Spec
CONSTANTS
  NClusters = 3
  NumFats = 2
  Row <- MCRow
  NSlots = 2
  Names = {n1, n2}
  p = p
  q = q
  Payloads = {p, q}
  MaxLen = 2
  Written <- MCWrittenLong
  ScanMax = 3
  ScanDepth = 2
  Fat32 = FALSE
  ReadErrors = FALSE
  WriteErrors = TRUE
SYMMETRY NameSymmetry
CONSTRAINT NoReads
VIEW NoHistory
INVARIANTS
  ResultHonest
PROPERTIES
  AtomicStore
