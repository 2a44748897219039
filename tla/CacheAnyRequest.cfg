\* Cache levels of every blocking but the monthly one; Y tags are listed.
SPECIFICATION Spec
CONSTANTS
  Requests <- AnyRequest
  Formats <- Listed2
  NoFmt = NoFmt
  OutSz = 2
  MaxHdr = 2
  MaxChange = 1
INVARIANTS TypeOK BlocksServed RowsServed UnderOwnHeader
CHECK_DEADLOCK FALSE
