SPECIFICATION FairSpec
CONSTANTS
    Pods = {"d1", "d2", "c1"}
    NoPod = NoPod
    Kind <- MCKind
    NameOf <- MCNameOf
    Request <- MCRequest
    Group <- MCGroup
    Claim <- MCClaim
    GpuCount = 3
    MaxUid = 1
    EmptyNameGet = "error"
    DisableNodeLabeling = FALSE
    LateClaims = {}
    MixedNode = FALSE
    MaxBinds = 2
    MaxQueue = 2
    MaxRestarts = 1
    MaxNodeEvents = 0
    MaxFaults = 0
INVARIANT FakeNodeServed
PROPERTIES EventuallyAllocated EventuallyServed
CHECK_DEADLOCK FALSE
