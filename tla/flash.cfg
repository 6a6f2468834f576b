CONSTANTS
  SectorSize = 12
  PageSize = 4
  StringMax = 3
  Blank = 7
  None = None
  Over <- MCOver
  HalfDone <- MCHalfDone
  Payloads <- MCPayloads
  Default <- MCDefault
  Contents <- MCContents
  Assumed <- MCAllAssumed
SPECIFICATION Spec
INVARIANTS TypeOK RestKept
PROPERTY ImplementsUserString
