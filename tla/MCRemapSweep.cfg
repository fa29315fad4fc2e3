CONSTANTS
  N = 3
  P = 2
  Elem <- MCElem
  ModeSize <- ModeSize3
  MN <- MN3
  Row <- Row3
  Owner <- Owner3
  Dense = {0, 1}
  TwoPass = {1}
SPECIFICATION Spec
INVARIANTS ScatterComplete NoSlotRace RowExclusive FiberOrder SweepInv
PROPERTY ImplementsMttkrp
