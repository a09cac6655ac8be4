\* Migration: three stages, five layers, rebalanced after every step but the last,
\* two faults.  GPipe: two iterations.  Placement: three partitions of two devices.
\* Lab: two computers, one round of four jobs, two misfortunes and one restart.
CONSTANTS
  WorldSize = 3
  NumLayers = 5
  RebalanceEvery = 1
  TotalSteps = 3
  MaxFaults = 2
  Shapes <- TheShapes
  Iterations = 2
  Models <- TheModels
  Probes <- TheProbes
  Hosts <- TheHosts
  Layouts <- TheLayouts
  Way = 3
  PartitionSize = 2
  PointCount = 1
  PopulationSize = 2
  Trails = 2
  Populations <- ThePopulations
  LinkCost <- SiteCost
  NumComputers = 2
  Repeats = 1
  AllSingle = TRUE
  MaxMisfortunes = 2
  MaxRestarts = 1
SPECIFICATION PipelinesSpec
CHECK_DEADLOCK FALSE
INVARIANTS OneOwner TrainedStages UpdateIsWhole PlanIsBest LaunchesBestOrder StagesFit PlacementIsSound TrialsAreSound
PROPERTIES MovesBetweenSteps RunsEnd
