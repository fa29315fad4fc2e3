CONSTANTS
  k1 = k1
  k2 = k2
  c1 = c1
  c2 = c2
  c3 = c3
  Proc = {"a", "b"}
  Caller = {c1, c2, c3}
  ProcOf <- MCProcOf
  Asks <- MCAsks
  Key = {k1, k2}
  Stem <- MCStem
  NoCaller = NoCaller
  NoKey = NoKey
  MaxKills = 1
SPECIFICATION JitSpec
INVARIANTS OneShellOut StatsTrue
PROPERTIES ImplementsKernelTable QueryReturns
