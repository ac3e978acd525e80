SPECIFICATION Spec
CONSTANTS
    Callers = {c1, c2}
    NoCaller = NoCaller
    Ports = {p1}
    NoPort = NoPort
    Logins = {l1, l2}
    None = None
    Empty = Empty
    Failed = Failed
    Codes = {k1}
    MaxRequests = 2
INVARIANTS TypeOK OwnLogin PortFreed
PROPERTIES FirstResultCounts PollsWhileUndecided 
