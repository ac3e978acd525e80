SPECIFICATION Spec
CONSTANTS
    Callers = {c1, c2}
    Host <- MCHost
    Envs = {"net"}
    Aliases = {"net"}
    Blobs <- MCBlobs
    MaxWrites = 1
    MaxLoads = 1
INVARIANTS TypeOK ReadFinds RemovedStaysRemoved
PROPERTIES ReadsChangeNothing
SYMMETRY Symmetry
