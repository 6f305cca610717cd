SPECIFICATION Spec
CONSTANTS
    Pods = {"d1", "d2", "r1", "s1", "c1", "c2", "c12"}
    NoPod = NoPod
    Kind <- MCKind
    NameOf <- MCNameOf
    Request <- MCRequest
    Group <- MCGroup
    Claim <- MCClaim
    GpuCount = 3
    MaxUid = 2
    EmptyNameGet = "error"
    DisableNodeLabeling = FALSE
    LateClaims = {"c1", "c2"}
    MixedNode = FALSE
    MaxBinds = 4
    MaxQueue = 3
    MaxRestarts = 0
    MaxNodeEvents = 0
    MaxFaults = 0
INVARIANTS NoStaleAllocation AllocationComplete UsageIsCurrent ReservationIndexAgrees
PROPERTY ImplementsLedger
CHECK_DEADLOCK FALSE
