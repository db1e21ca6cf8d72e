CONSTANTS
  p1 = p1  p2 = p2  c1 = c1  c2 = c2
  Producers <- TwoProducers
  Consumers <- TwoConsumers
  LoneProducer = p1
  LoneConsumer = c1
  Quota = 2
  SmallRing = 2
  MaxSamples = 2
  MaxLapses = 1
  Machines <- MachineSet
  NumaIterations = 2
  CPUs = {0, 1}
  Skew <- SkewByCPU
  TSC_MOD = 32
  Phases = {0, 31}
  TICKS = 3
  NANOS = 2
  WINDOW = 1
  SPIN = 8
  Delays = {0, 2}
  Iterations <- ThriceThenOnce
  MaxRecords = 2
  Uses = {"benchmark", "free"}
  BYTES = 5
  LIMIT = 2
  Lengths = {0, 1, 4, 5}
  Randoms = {2, 4}
  Scripts <- BranchScripts
  SIZEOF = 4
  CACHE_LINE_SIZE = 16
  PREFETCH_DISTANCE = 2
  Strides <- StrideSeq
  ArrayLengths = {0, 1, 3, 4, 5}
  Repeats = 2
SPECIFICATION ProgramsSpec
INVARIANTS
  ProgramsTypeOK
  CountsExact SamplesCounted
  AccessesAllocated FreedUnlessThrown LabelsHoldIfBoundInTime
  LatencyNotUnderestimated ReportIsOfOneOperation ReportOrdered P99Agrees
  BranchInv ResultsAgree
  AccessesWritten PatternCovered
PROPERTIES
  EndsOrKnownHang
CHECK_DEADLOCK FALSE
