SPECIFICATION Spec
CONSTANTS
  Observed = {"exporter"}
  KwokNodes = {n}
  Topologies <- MCHolders
  NoTopology = NoTopology
  NoNode = NoNode
  NoLabels = NoLabels
  NoSlice = NoSlice
  NoCapacity = NoCapacity
  Attempts = 2
  Pools = {1, 2}
  PoolSpecs <- MCPoolSpecs
  NotMock = NotMock
  Profiles = {"h100"}
  Versions = {"v1", "v2"}
  Missing = Missing
  NoConfig = NoConfig
  Absent = Absent
  Claims = {"one", "two", "garbled", "unused", "rejected"}
  DeviceSets <- MCDeviceSets
  NotServed = NotServed
  Allocations <- MCAllocations
  NoSpec = NoSpec
  DefaultConfig = DefaultConfig
  OtherDriver = OtherDriver
  Garbled = Garbled
  Rejected = Rejected
  MaxEvents = 3
  MaxMishaps = 0
INVARIANT DeletedNodeHasNoSeries
CHECK_DEADLOCK FALSE
