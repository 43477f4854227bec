SPECIFICATION Spec
CONSTANTS
  Watch <- One
  Path <- One
  Expand <- OneExpand
  Script <- Script2x3
  MaxGen = 2
  MaxLen = 3
  MaxWatchIds = 2
  MaxFaults = 1
  Rotations = {"truncate", "reuse", "remove", "dir"}
  Edits = {"disable"}
  RuleSets = {"none", "ok"}
INVARIANTS IInv OncePerPass NoOrphans
PROPERTY DeliverySpec
