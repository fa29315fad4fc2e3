CONSTANTS
  N = 2
  P = 4
  nnz = 5
  ModeSize <- Sizes2
  Row <- Row2
  VC = 2
  LineVec = 4
  ChunkNnz = 3
  Garbage = {0, 7}
SPECIFICATION Spec
INVARIANT IInv
PROPERTY ImplementsMttkrpAll
