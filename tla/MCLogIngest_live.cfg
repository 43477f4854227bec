SPECIFICATION FairSpec
CONSTANTS
  Watch <- One
  Path <- One
  Expand <- OneExpand
  Script <- Script2x2
  MaxGen = 2
  MaxLen = 2
  MaxWatchIds = 1
  MaxFaults = 1
  Rotations = {"remove"}
  Edits = {"rules", "disable"}
  RuleSets = {"bad", "ok"}
PROPERTY EventuallyRecorded
