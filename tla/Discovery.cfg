SPECIFICATION Spec
CONSTANTS
    Callers = {c1, c2}
    NoCaller = NoCaller
    Configs <- MCConfigs
    IdsOf <- MCIdsOf
    Domains <- MCDomains
    NoDomain = ""
    Listings <- MCListings
    Issuers <- MCIssuers
    Rogue <- MCRogue
INVARIANTS TypeOK NoLateRequest OwnAliases  FlightLed
PROPERTIES EndpointsStay EveryCallReturns
