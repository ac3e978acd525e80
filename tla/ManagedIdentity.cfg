SPECIFICATION Spec
CONSTANTS
    Callers = {c1, c2}
    Clients <- MCClients
    Ids <- MCIds
    System = "system"
    IdOf <- MCIdOf
    Resources = {"vault"}
    MaxTokens = 2
INVARIANTS TypeOK OneRefresher RightIdentity RefreshIsOptional
PROPERTIES FlagReleased
