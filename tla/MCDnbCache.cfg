CONSTANTS
  IoThreads = 3
  Proc = {1}
  Texts <- MCTexts
  MaxClock = 2
SPECIFICATION DnbSpec
INVARIANTS MmapMatchesSerial LoadedWhole CrashLeavesNoTornCache
PROPERTIES MissesOnlyEditsDuringSave
