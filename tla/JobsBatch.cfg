SPECIFICATION Spec
CONSTANTS
  r1 = r1
  r2 = r2
  j1 = j1
  j2 = j2
  NoTask = NoTask
  Runs = {r1}
  Jobs = {j1, j2}
  RunJobs <- TwoBranches
  UseCelery <- AllCelery
  MaxDeliveries = 1
  Environment = {"cancel", "apiCrash"}
  Fallible = {r1}
SYMMETRY BranchSymmetry
INVARIANTS TypeOK NoSilentOrphan TaskFindsItsRows
