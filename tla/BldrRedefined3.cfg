\* A das2 stream under the version 3 model, as stream_from_path reads it: an ID is redefined.
SPECIFICATION BSpec
CONSTANTS
  Input <- Das2Input
  Reuse = {"v3"}
  Models = {"v3"}
  MaxSlot = 2
  NProc = 1
  Fails = {}
  HasDsData = {1}
  Bldr = 1
  Fmt <- Layouts
  Obj = {o1, o2, o3, o4, o5, o6, o7, o8}
  MaxPkt = 5
  NoObj = NoObj
INVARIANTS DatasetsSurvive
CHECK_DEADLOCK FALSE
