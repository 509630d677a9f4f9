SPECIFICATION OneRunSpec
CONSTANTS
  r1 = r1
  r2 = r2
  j1 = j1
  j2 = j2
  NoTask = NoTask
  Runs = {r1, r2}
  Jobs = {j1, j2}
  RunJobs <- OneOfEach
  UseCelery <- OnlyFirstCelery
  MaxDeliveries = 2
  Environment = {"cancel", "apiCrash", "workerLost", "lateRedelivery"}
  Fallible = {r2}
INVARIANTS CompletedRowIsOneAttempt
PROPERTIES CancelMidRunSticks EveryJobSettles RestartsSettleOrphans
