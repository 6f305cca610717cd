SPECIFICATION Spec
CONSTANTS
    Pods = {}
    NoPod = NoPod
    Kind <- MCKind
    NameOf <- MCNameOf
    Request <- MCRequest
    Group <- MCGroup
    Claim <- MCClaim
    GpuCount = 1
    MaxUid = 1
    EmptyNameGet = "error"
    DisableNodeLabeling = FALSE
    LateClaims = {}
    MixedNode = FALSE
    MaxBinds = 0
    MaxQueue = 3
    MaxRestarts = 0
    MaxNodeEvents = 2
    MaxFaults = 0
INVARIANT FakeNodeServed
CHECK_DEADLOCK FALSE
