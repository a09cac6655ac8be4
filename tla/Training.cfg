\* Checkpoint: two ranks, a fixed interval of one of three sizes, growing budgets,
\* three faults.  TaskRuns and ClassificationRun: one failure.  Compression: two
\* updates.
CONSTANTS
  r1 = r1  r2 = r2
  Ranks = {r1, r2}
  Intervals = {0, 1, 2}
  KeepInterval = TRUE
  MaxSteps = 4
  MaxFaults = 3
  Jobs <- TheJobs
  MaxFailures = 1
  Plans <- ThePlans
  MaxMishaps = 1
  Synchronizers <- TheSynchronizers
  MaxUpdates = 2
SPECIFICATION TrainingSpec
CHECK_DEADLOCK FALSE
INVARIANTS ConfirmedIsRecoverable MetricsInOrder FailTogether UpdateIsShared TrainsAsOne ValidationIsWhole AgreedBeforeTraining OutcomesAreTrue NothingIsLost
PROPERTIES EveryProgramEnds
