\* Arrays of any shape, used the way the library uses them.
SPECIFICATION Spec
CONSTANTS
  Shapes <- AllShapes
  Vals = {v1}
  FillVal = fill
  MaxAppend = 2
  MaxValid <- FewValues
  Straddle = FALSE
  QubeAll = FALSE
INVARIANTS TypeOK EveryElementOnce
PROPERTIES Implements
