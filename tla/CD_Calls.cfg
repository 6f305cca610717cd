SPECIFICATION FairSpec
CONSTANTS
    Claims = {"c1", "c2", "c3"}
    Domains = {"d1"}
    NoDomain = NoDomain
    DomainOf <- MCDomainOf
    HasClass <- MCHasClass
    AllMode <- MCAllMode
    Channels = {0, 1}
    Channel0 = 0
    MaxFaults = 1
    MaxCrashes = 1
    MaxTimeouts = 1
INVARIANTS TypeOK PreparedHasSpec DomainsAgree ToldPreparedIsPrepared
PROPERTY CallsConclude
