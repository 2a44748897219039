\* das2 with two IDs that change between shared layouts, das3 by the book; the
\* processor called after the builder may fail.
SPECIFICATION BSpec
CONSTANTS
  Input <- AnyVersion
  Reuse = {"mixed"}
  Models = {"mixed", "v3"}
  MaxSlot = 2
  NProc = 2
  Fails = {2}
  HasDsData = {1, 2}
  Bldr = 1
  Fmt <- Layouts
  Obj = {o1, o2, o3, o4, o5, o6, o7, o8}
  MaxPkt = 7
  NoObj = NoObj
INVARIANTS BTypeOK RowsKept NoMixedRows FirstOwned AllFreed DatasetsSurvive
CHECK_DEADLOCK FALSE
