SPECIFICATION Spec
CONSTANTS
  Key = {login}
  Reporter = {daily}
  Reader = {cli}
  Res = 2
  Fraction <- Halves
  Hour = 2
  Day = 4
  Limit = 1
  MaxTime = 7
  MaxOcc = 3
INVARIANT EmptyReportIsTrue
