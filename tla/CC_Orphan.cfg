SPECIFICATION Spec
CONSTANTS
    Domains = {"d1"}
    NoDomain = NoDomain
    Templates = {"t1"}
    TemplateOf <- MCTemplateOf
    NumNodes <- MCNumNodes
    Claims = {}
    Nodes = {}
    NoNode = NoNode
    MaxUid = 1
    MaxChanges = 2
    MaxFaults = 0
    MaxRestarts = 0
INVARIANT TemplateGuarded
CHECK_DEADLOCK FALSE
