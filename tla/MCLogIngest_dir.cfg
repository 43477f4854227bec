SPECIFICATION FairSpec
CONSTANTS
  Watch <- One
  Path <- Two
  Expand <- GlobExpand
  Script <- Script1x2
  MaxGen = 1
  MaxLen = 2
  MaxWatchIds = 1
  MaxFaults = 0
  Rotations = {"dir"}
  Edits = {}
  RuleSets = {"ok"}
PROPERTY EventuallyRecorded
