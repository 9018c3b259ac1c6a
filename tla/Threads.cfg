SPECIFICATION FairThreadsSpec
CONSTANTS
  NumSignals = 2
  MaxSignals = 2
  MaxPackets = 2
  MaxClears = 1
  RingSize = 3
  MaxTasks = 6
  NumWorkers = 4
  UsedCounts = {2, 4}
  Sizes = {0, 2}
  FailingTasks = {0}
  MaxLaunches = 2
  MaxBarriers = 2
INVARIANTS
  TypeOK BufferForEveryFrame PopNeverStarves CountTracksQueue NeverDrainsTwice
  NeverEmpty
  BarrierHolds LaunchWaits ErrorsReported
PROPERTIES
  ImplementsFrameStream CallsReturn
  ImplementsHandover TasksAreTaken KillJoins
  ImplementsParallelFor LaunchReturns
