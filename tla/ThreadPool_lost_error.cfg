SPECIFICATION PoolSpec
CONSTANTS
  NumWorkers = 2
  UsedCounts = {2}
  Sizes = {2}
  FailingTasks = {1}
  MaxLaunches = 2
  MaxBarriers = 0
INVARIANTS ErrorsReported
