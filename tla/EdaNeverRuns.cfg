SPECIFICATION FairSpec
CHECK_DEADLOCK FALSE
CONSTANTS
  r1 = r1
  r2 = r2
  Reports = {r1}
  Settings <- OnlyCelery
  Environment = {}
PROPERTIES EveryReportSettles
