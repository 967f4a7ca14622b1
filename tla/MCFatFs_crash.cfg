SPECIFICATION Spec
CONSTANTS
  NClusters = 3
  NumFats = 2
  Row <- MCRow
  NSlots = 2
  Names = {n1, n2}
  p = p
  q = q
  Payloads = {p, q}
  MaxLen = 2
  Written <- MCWrittenFull
  ScanMax = 3
  ScanDepth = 2
  Fat32 = TRUE
  ReadErrors = FALSE
  WriteErrors = FALSE
SYMMETRY NameSymmetry
CONSTRAINT NoReads
INVARIANTS
  VolumeSound
  NothingLost
  MirrorsAgree
  FsInfoNeverWrong
