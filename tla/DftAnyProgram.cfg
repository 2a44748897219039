\* Programs that may delete a plan in use, so that its slot is used again.
SPECIFICATION Spec
CONSTANTS
  Thread = {t1, t2, t3}
  Plan = {p1}
  Len = {2, 4}
  EvenLen = {2}
  Kind = {"dft", "psd"}
  Polite = FALSE
  MaxCalls = 3
  NoThread = NoThread
  NoPlan = NoPlan
  NoConv = NoConv
SYMMETRY Symmetry
INVARIANTS TypeOK PlannerExclusion ExecCountExact
PROPERTY ImplementsGate
CHECK_DEADLOCK FALSE
