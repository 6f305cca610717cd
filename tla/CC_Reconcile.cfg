SPECIFICATION FairSpec
CONSTANTS
    Domains = {"d1"}
    NoDomain = NoDomain
    Templates = {"t1"}
    TemplateOf <- MCTemplateOf
    NumNodes <- MCNumNodes
    Claims = {"c1", "c2"}
    Nodes = {"n1", "n2"}
    NoNode = NoNode
    MaxUid = 2
    MaxChanges = 5
    MaxFaults = 1
    MaxRestarts = 1
INVARIANTS TypeOK GuardedWhileFresh DomainHasOwnTemplate SettledIsServed
PROPERTIES StatusSettles DeletionCompletes
CHECK_DEADLOCK FALSE
