SPECIFICATION Spec
CONSTANTS
  Watch <- One
  Path <- Two
  Expand <- GlobExpand
  Script <- Script2x2
  MaxGen = 2
  MaxLen = 2
  MaxWatchIds = 1
  MaxFaults = 1
  Rotations = {"remove", "rename"}
  Edits = {}
  RuleSets = {"ok"}
INVARIANTS SwapInv NoSilentSkip
