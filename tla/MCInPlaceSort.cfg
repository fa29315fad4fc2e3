CONSTANTS
  N = 4
  P = 2
  Elem <- MCElem
  ModeSize <- ModeSize4
  MN <- MN4
  Row <- Row4
  Owner <- Owner4
  DenseClass = {0, 1}
SPECIFICATION Spec
INVARIANTS ColumnsAligned SwapsSafe KernelOrder
PROPERTY ImplementsMttkrp
