SPECIFICATION Spec
CONSTANTS
  Key = {login}
  Reporter = {daily}
  Reader = {cli}
  Res = 2
  Fraction <- Halves
  Hour = 2
  Day = 4
  Limit = 1
  MaxTime = 6
  MaxOcc = 3
INVARIANTS ReportsInv RowMatchesOccurrences RecentCounters LeftOutIsLater ReportInPeriod DetailCovers
