CONSTANTS
  N = 3
  Options <- AllOptions
  Densities <- SoundDensity
SPECIFICATION Spec
INVARIANTS SlabsSound ReadsValid FlagsTruthful SteadyFootprint
