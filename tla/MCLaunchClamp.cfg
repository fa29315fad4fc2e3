CONSTANTS
  NumModes = 3
  CopyBytes = 4
  ColumnBytes = 1
  FactorBytes = 1
  SlackBytes = 1
  TotalBytes = 60
  MinHeadroom = 4
  Threads = 4
  OfibsCap = 8
  Options <- MCOptions
  Environments <- MCEnvironments
  Tensors <- MCTensors
  Others = {0, 6, 10, 24}
  N = 3
  MaxIters = 3
  Kernels = {"gs", "jacobi"}
  Stores = {"slab", "morton", "ooc"}
SPECIFICATION DecomposeSpec
VIEW MCView
INVARIANT ClampPreventsCrash
CHECK_DEADLOCK FALSE
