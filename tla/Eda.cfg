SPECIFICATION FairSpec
CHECK_DEADLOCK FALSE
CONSTANTS
  r1 = r1
  r2 = r2
  Reports = {r1, r2}
  Settings <- Any
  Environment = {"fail", "dbFails", "cancel", "delete", "apiCrash"}
INVARIANTS ReportsHaveTheirSource
PROPERTIES CompletedStays BackgroundReportSettles
