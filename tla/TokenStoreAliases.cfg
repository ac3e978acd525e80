SPECIFICATION Spec
CONSTANTS
    Callers = {c1}
    Host <- MCHost
    Envs = {"net", "com"}
    Aliases = {"net", "com"}
    Blobs <- MCAliasBlobs
    MaxWrites = 1
    MaxLoads = 1
PROPERTIES SignedOut
