CONSTANTS
  Bits = 7
  kMinRows = 2
  kMaxRows = 16
  N = 2
  OMPT = 3
  MaxSize = 112
  MaxThreads = 5
  Jobs <- AllJobs
SPECIFICATION Spec
INVARIANTS ShardsCover ScatterPrivate TablesExact LptBound Handover
CHECK_DEADLOCK FALSE
