CONSTANTS
  NumModes = 2
  P = 4
  nnz = 5
  Tensors <- MCTensors
  KeyBits = 5
  BucketBits = 2
  Stale = {0, 3}
SPECIFICATION MortonSpec
INVARIANTS ZOrder
PROPERTIES ImplementsMttkrpAll
CHECK_DEADLOCK FALSE
