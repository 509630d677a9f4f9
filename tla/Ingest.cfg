SPECIFICATION FairSpec
CHECK_DEADLOCK FALSE
CONSTANTS
  f1 = f1
  s1 = s1
  NoRow = NoRow
  Files = {f1}
  Remotes = {s1}
  UseCelery = {TRUE, FALSE}
  Environment = {"brokerFails", "fetchFails", "unlinkFails", "dbFails", "workerLost", "apiCrash", "cancel", "delete"}
  MaxFaults = 2
INVARIANTS FilesMatchRows
PROPERTIES ProfileSurvives EverySourceSettles
