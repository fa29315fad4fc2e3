CONSTANTS
  N = 3
  Options <- CompactOptions
  Densities <- AnyDensity
SPECIFICATION Spec
INVARIANT CompactLeavesNoDangling
