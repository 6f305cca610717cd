SPECIFICATION Spec
CONSTANTS
    Pods = {"d1"}
    NoPod = NoPod
    Kind <- MCKind
    NameOf <- MCNameOf
    Request <- MCRequest
    Group <- MCGroup
    Claim <- MCClaim
    GpuCount = 2
    MaxUid = 1
    EmptyNameGet = "error"
    DisableNodeLabeling = FALSE
    LateClaims = {}
    MixedNode = FALSE
    MaxBinds = 1
    MaxQueue = 3
    MaxRestarts = 1
    MaxNodeEvents = 0
    MaxFaults = 0
INVARIANT NonExistingPodsPruned
CHECK_DEADLOCK FALSE
