SPECIFICATION Spec
CONSTANTS
  Observed = {"exporter", "gpu", "channel", "capacity", "mock", "dra"}
  KwokNodes = {m, n}
  Topologies <- MCTopologies
  NoTopology = NoTopology
  NoNode = NoNode
  NoLabels = NoLabels
  NoSlice = NoSlice
  NoCapacity = NoCapacity
  Attempts = 2
  Pools = {1, 2}
  PoolSpecs <- MCPoolSpecs
  NotMock = NotMock
  Profiles = {"h100"}
  Versions = {"v1", "v2"}
  Missing = Missing
  NoConfig = NoConfig
  Absent = Absent
  Claims = {"one", "two", "garbled", "unused", "rejected"}
  DeviceSets <- MCDeviceSets
  NotServed = NotServed
  Allocations <- MCAllocations
  NoSpec = NoSpec
  DefaultConfig = DefaultConfig
  OtherDriver = OtherDriver
  Garbled = Garbled
  Rejected = Rejected
  MaxEvents = 3
  MaxMishaps = 2
INVARIANTS TypeOK SpecsFollowClaims NothingForgotten
PROPERTIES ExportsSettle ResourcesSettle RolloutReadsItsConfig MockSettles
CHECK_DEADLOCK FALSE
