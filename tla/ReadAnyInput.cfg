\* Any das2 input decoded as it comes, any das3 input under the version 3 model;
\* two processors whose callbacks may fail.
SPECIFICATION FairSpec
CONSTANTS
  Models = {"mixed", "v3"}
  Input <- AnyInput
  Reuse = {"mixed", "v3"}
  MaxSlot = 2
  NProc = 2
  Fails = {1, 2}
  HasDsData = {1}
  Fmt <- Layouts
  Obj = {o1, o2, o3, o4, o5, o6}
  MaxPkt = 5
  NoObj = NoObj
INVARIANTS TypeOK TableLive DataFollowsHeader NothingLeaked
PROPERTIES ReadEnds
CHECK_DEADLOCK FALSE
