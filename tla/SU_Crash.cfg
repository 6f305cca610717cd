SPECIFICATION Spec
CONSTANTS
    Pods = {"r1", "s1", "c12"}
    NoPod = NoPod
    Kind <- MCKind
    NameOf <- MCNameOf
    Request <- MCRequest
    Group <- MCGroup
    Claim <- MCClaim
    GpuCount = 2
    MaxUid = 1
    EmptyNameGet = "notFound"
    DisableNodeLabeling = FALSE
    LateClaims = {}
    MixedNode = TRUE
    MaxBinds = 2
    MaxQueue = 2
    MaxRestarts = 1
    MaxNodeEvents = 1
    MaxFaults = 1
INVARIANTS TypeOK NoOverAllocation UsageOwnership
CHECK_DEADLOCK FALSE
