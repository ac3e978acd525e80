SPECIFICATION Spec
CONSTANTS
    Callers = {c1}
    Clients <- MCClients
    Ids <- MCIds
    System = "system"
    IdOf <- MCIdOf
    Resources = {"vault"}
    MaxTokens = 2
PROPERTIES DefaultRefreshOnHonoured
