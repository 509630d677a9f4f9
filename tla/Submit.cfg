SPECIFICATION FairSpec
CONSTANTS
  q1 = q1
  q2 = q2
  q3 = q3
  w1 = w1
  Requests = {q1, q2, q3}
  Workers = {w1}
  WorkerOf <- OneWorker
  Branches <- MixedBranches
  Databases = {"SQLite", "PostgreSQL"}
  Environment = {"leave", "createFails"}
  NoRequest = NoRequest
INVARIANTS NoDuplicateOnSQLite LockTableDrains SharedJobIsDispatched
PROPERTIES EveryRequestEnds
