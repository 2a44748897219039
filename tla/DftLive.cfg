\* Dft objects only, plans deleted when nobody uses them: every wait ends.
SPECIFICATION FairSpec
CONSTANTS
  Thread = {t1, t2}
  Plan = {p1, p2}
  Len = {2, 3}
  EvenLen = {2, 3}
  Kind = {"dft"}
  Polite = TRUE
  MaxCalls = 3
  NoThread = NoThread
  NoPlan = NoPlan
  NoConv = NoConv
INVARIANTS NoLostWakeup UserCountExact
PROPERTY PlanCallsReturn
CHECK_DEADLOCK FALSE
