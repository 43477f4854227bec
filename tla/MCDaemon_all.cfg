SPECIFICATION FairSpec
CONSTANTS
  d1 = d1
  d2 = d2
  None = None
  Stale = Stale
  Daemons = {d1, d2}
  Files <- TwoPrograms
  Guarded = {1}
  MaxFaults = 1
  MaxStarts = 2
  Calls = {c1}
  Commands = {"version", "status", "issues", "logs add", "logs remove", "reports"}
INVARIANTS TypeOK SchemaIsLedger ReadyHasSchema LedgerInOrder NoCycleAfterClose ExitIsTrue SocketIsHeard AloneIsReachable
CHECK_DEADLOCK FALSE
PROPERTIES OneGetsThrough AloneServes Answered CloseEnds CallSpec
