\* A cache level with a file for each month that nobody touches.
SPECIFICATION Spec
CONSTANTS
  Requests <- Monthly
  Formats <- Listed2
  NoFmt = NoFmt
  OutSz = 2
  MaxHdr = 1
  MaxChange = 0
INVARIANT BlocksServed
CHECK_DEADLOCK FALSE
