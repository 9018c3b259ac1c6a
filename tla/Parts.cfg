INIT PartsInit
NEXT PartsNext
CONSTANTS
  Loaders <- Short
  Streams <- ShortStreams
  Clips <- ShortClips
  Width = 4
  Monos = {TRUE}
  Rates = {2, 3}
  Second = 2
  Significand = 16
  Arrays = {a1, a2, a3}
  Tensors = {t1}
  MaxOwners = 2
  PoolSize = 1
  CallbackCodes = {"ARRAY_HANDLE"}
  ReaderFirst = FALSE
  Nothing = Nothing
  Frame = Frame
  Pool = Pool
  Objects = {o1, o2, o3}
  MaxCalls = 3
  ReturnCodes = {"kStr", "kFuncHandle", "kModuleHandle", "kNDArrayContainer", "ext"}
  NoObject = NoObject
  Threads = {w1, w2}
  Names = {n1, n2}
  Entries = {e1, e2}
  Funcs = {f}
  None = None
  Overrides = TRUE
  Nodes = {m1, m2, m3}
  Files = {"f1", "f2", "f3"}
  Symbols = {"s"}
  Exports <- TheExports
  MaxImports = 2
  Twice = FALSE
  NoModule = NoModule
  Blocks = {b1, b2, b3, b4}
  PageSize = 2
  Requests = {0, 2, 3, 5}
  Datasets <- TheDatasets
  Durations = {1, 3, 4, 6}
  Frames <- TheFrames
  Target <- TheTarget
  Ratios <- TheRatios
  BatchSizes = {1, 2, 3, 5}
  MaxContexts = 4
  Machines <- TheMachines
  ThreadsAsked <- AskedFor
  Wanted <- ForPools
  Default = Default
  Containers <- TheContainers
  Callers = {c1, c2}
  Devices = {0, 1}
  Handles = {h1, h2, h3}
  Wrappers = {k1, k2}
  NoHandle = NoHandle
  Formats <- TheFormats
  Surfaces = {s1, s2}
  Pitches = {4, 8}
  NoFormat = NoFormat
  NoFrame = NoFrame
  NoTexture = NoTexture
SYMMETRY Symmetry
INVARIANTS
  EpochIsComplete AudioMatchesFrames
  LiveWhileOwned OwnedOnce PointersStayValid
  ImportsAcyclic FunctionsStayValid BlocksListedOnce WorkersOnTheirCores IndexMatchesStream KernelsOfTheirDevice TexturesFitFrames ClipsHoldTogether
CHECK_DEADLOCK FALSE
