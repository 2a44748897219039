\* Psd objects: the wait for the planner may never end.
SPECIFICATION FairSpec
CONSTANTS
  Thread = {t1, t2}
  Plan = {p1, p2}
  Len = {2}
  EvenLen = {2}
  Kind = {"psd"}
  Polite = TRUE
  MaxCalls = 3
  NoThread = NoThread
  NoPlan = NoPlan
  NoConv = NoConv
PROPERTY PlanCallsReturn
CHECK_DEADLOCK FALSE
