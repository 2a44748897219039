\* Records of every framing, sent by the library and by others.
SPECIFICATION Spec
CONSTANTS
  Layouts <- AnyLayout
  Vals = {v1, v2}
  FillVal = fill
  Nul = nul
  Bad = bad
  ErrWidth = 1
  MaxRun = 2
  MaxRecs <- TwoRecords
  Habits = {}
INVARIANTS TypeOK WholeRecordsSent PassedOnAlike
PROPERTIES Implements OneRecordLonger
