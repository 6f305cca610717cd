SPECIFICATION FairSpec
CONSTANTS
    Claims = {"c1"}
    Domains = {"d1"}
    NoDomain = NoDomain
    DomainOf <- MCDomainOf
    HasClass <- MCHasClass
    AllMode <- MCAllMode
    Channels = {0, 1}
    Channel0 = 0
    MaxFaults = 0
    MaxCrashes = 1
    MaxTimeouts = 0
PROPERTY UnpreparedHasNoSpec
