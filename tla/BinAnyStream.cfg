\* All three reducers; bins of 2, rows before the start of the first one too.
SPECIFICATION Spec
CONSTANTS
  Tools = {"avg", "avgsec", "peak"}
  MaxId = 2
  Layouts <- AnyLayout
  NoLayout <- NoLay
  Times = {0, 2, 3}
  Width = 2
  Begins <- BeginOrNot
  NoTime = NoTime
  NoBin = NoBin
  Fill = Fill
  Deflate = {FALSE, TRUE}
  OutSz = 6
  MaxPkt = 4
INVARIANTS TypeOK EveryRowOnce RowsMatch
CHECK_DEADLOCK FALSE
