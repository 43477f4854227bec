SPECIFICATION HSpec
CONSTANTS
  Watch <- One
  Path <- One
  Expand <- OneExpand
  Script <- Script2x2
  MaxGen = 2
  MaxLen = 2
  MaxWatchIds = 1
  MaxFaults = 0
  Rotations = {"remove", "reuse"}
  Edits = {}
  RuleSets = {"ok"}
PROPERTY RecreatedIsReread
