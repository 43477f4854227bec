SPECIFICATION HSpec
CONSTANTS
  Watch <- Two
  Path <- Two
  Expand <- GlobAndFile
  Script <- Script2x1
  MaxGen = 2
  MaxLen = 1
  MaxWatchIds = 2
  MaxFaults = 0
  Rotations = {"remove"}
  Edits = {}
  RuleSets = {"ok"}
INVARIANT CatchUp
PROPERTIES CleanCycleCatchesUp CycleProgress
